---------------------------- MODULE MCRuleExchange ----------------------------
(***************************************************************************)
(* A small instance of RuleExchange: pairs and triples, in any order, of   *)
(* rules that between them use every kind of condition and every action,   *)
(* with requests and responses on which they match, fail to match, or      *)
(* change what the other rule sees.                                        *)
(***************************************************************************)
EXTENDS RuleExchange

A   == [name |-> "a", port |-> 1]
B   == [name |-> "b", port |-> 2]
Own == [name |-> "here", port |-> 8080]
UI  == [name |-> "here", port |-> 8081]

URL(s, h, p, q) == [scheme |-> s, host |-> h, path |-> p, query |-> q]
AllURLs == [scheme : {"http", "https"}, host : {A, B}, path : {"/", "/api"},
            query : {<<>>, <<<<"q", "1">>>>, <<<<"q", "2">>>>}]
API     == {u \in AllURLs : u.path = "/api"}
OnB     == {u \in AllURLs : u.host = B}

Doc1 == Obj([k |-> Arr(<<Scalar("x"), Scalar("y")>>), n |-> Scalar("1")])
Doc2 == Arr(<<Obj([k |-> Null]), Null>>)

Every == [urls |-> AllURLs, captures |-> FALSE, methods |-> {}, hostPorts |-> {},
        resourceTypes |-> {}, requestHeaders |-> {}, responseHeaders |-> {},
        requestBody |-> {}, responseBody |-> {}, statusCodes |-> {}]

Rule(id, match, actions) ==
  [id |-> id, priority |-> 1, enabled |-> TRUE, match |-> match, actions |-> actions]
First(rule) == [rule EXCEPT !.priority = 0]

Exists(n)     == [name |-> n, op |-> "exists"]
Absent(n)     == [name |-> n, op |-> "absent"]
Is(n, v)      == [name |-> n, op |-> "accepts", values |-> {v}]
Header(n, v)  == [name |-> n, value |-> v]
NewBodyOf(b)  == [type |-> "setRequestBody", body |-> b, contentType |-> "text"]

Post      == Rule("post", [Every EXCEPT !.resourceTypes = {"xhr", "other"}],
                  <<[type |-> "setMethod", method |-> "POST"]>>)
GetBody   == Rule("getBody", [Every EXCEPT !.methods = {"GET"}, !.requestBody = {{Text("s"), Empty}}],
                  <<[type |-> "setResponseHeader", name |-> "seen", value |-> "1"]>>)
Redirect  == Rule("redirect", [Every EXCEPT !.urls = API, !.captures = TRUE],
                  <<[type |-> "setQueryParam", name |-> "q", value |-> "2"],
                    [type |-> "redirect",
                     to |-> [u \in AllURLs |-> IF u.query = <<>> THEN [u EXCEPT !.host = B]
                                               ELSE BadURL]]>>)
Rewrite   == Rule("rewrite", [Every EXCEPT !.hostPorts = {B}],
                  <<[type |-> "rewriteUrl",
                     rewrite |-> [c \in {NoCapture} |-> [u \in API |-> [u EXCEPT !.host = A, !.scheme = "http"]]]],
                    [type |-> "removeQueryParam", name |-> "q"],
                    [type |-> "removeRequestHeader", name |-> "host"]>>)
BodyOnB   == Rule("bodyOnB", [Every EXCEPT !.urls = OnB], <<NewBodyOf(Text("s"))>>)
NoEnv     == Rule("noEnv", [Every EXCEPT !.requestHeaders = {Absent("env")}],
                  <<[type |-> "setRequestHeader", name |-> "env", value |-> "1"],
                    [type |-> "removeResponseHeader", name |-> "tag"]>>)
Env       == Rule("env", [Every EXCEPT !.requestHeaders = {Is("env", "1")}, !.requestBody = {{Json(Doc1)}}],
                  <<[type |-> "replaceInResponseBody", replace |-> [b \in {Text("s")} |-> Text("t")]]>>)
Block     == First(Rule("block", [Every EXCEPT !.urls = API],
                  <<[type |-> "block"], [type |-> "delay", ms |-> 2]>>))
Mock      == Rule("mock", [Every EXCEPT !.methods = {"POST"}],
                  <<[type |-> "mockResponse"], [type |-> "throttle", bps |-> 2]>>)
Patch     == Rule("patch", [Every EXCEPT !.methods = {"GET"}],
                  <<[type |-> "jsonPatchRequest",
                     ops |-> <<[op |-> "set", path |-> <<Key("k"), Key(""), Index(0)>>, value |-> Null],
                               [op |-> "remove", path |-> <<Index(0), BadIndex, Key("k")>>, value |-> Null],
                               [op |-> "set", path |-> <<Index(3)>>, value |-> Scalar("z")],
                               [op |-> "append", path |-> <<Key("k")>>, value |-> Scalar("z")],
                               [op |-> "merge", path |-> <<>>, value |-> Obj([m |-> Null])],
                               [op |-> "remove", path |-> <<Key("k"), Index(0)>>, value |-> Null]>>],
                    [type |-> "replaceInRequestBody",
                     replace |-> [b \in {Text("s")} |-> Text("t")]]>>)
Connect   == First(Rule("connect", [Every EXCEPT !.requestHeaders = {Absent("connection")}],
                  <<[type |-> "setRequestHeader", name |-> "connection", value |-> "k"],
                    [type |-> "delay", ms |-> 2]>>))
NoConn    == Rule("noConn", [Every EXCEPT !.requestHeaders = {Absent("connection")}, !.requestBody = {{Text("s")}}],
                  <<[type |-> "setStatus", status |-> 500]>>)
Errors    == Rule("errors", [Every EXCEPT !.statusCodes = {[kind |-> "class", value |-> 4], [kind |-> "bad"]}],
                  <<[type |-> "setStatus", status |-> 200], [type |-> "block"]>>)
Fixed     == Rule("fixed", [Every EXCEPT !.statusCodes = {[kind |-> "exact", value |-> 200]},
                                       !.responseHeaders = {Exists("tag")}],
                  <<[type |-> "setResponseBody", body |-> Text("t"), contentType |-> "text"],
                    [type |-> "throttle", bps |-> 1]>>)
InBody    == Rule("inBody", [Every EXCEPT !.responseBody = {{Json(Doc1)}},
                                       !.statusCodes = {[kind |-> "range", low |-> 200, high |-> 299]}],
                  <<[type |-> "jsonPatchResponse",
                     ops |-> <<[op |-> "merge", path |-> <<Key("k")>>, value |-> Scalar("z")]>>],
                    [type |-> "setResponseHeader", name |-> "tag", value |-> "2"]>>)
SetHost   == Rule("setHost", [Every EXCEPT !.urls = OnB],
                  <<[type |-> "setRequestHeader", name |-> "host", value |-> B]>>)
ToLocal   == Rule("toLocal", [Every EXCEPT !.hostPorts = {A}],
                  <<[type |-> "redirect", to |-> [c \in {NoCapture} |-> URL("http", B, "/", <<>>)]]>>)
DropEnv   == First(Rule("dropEnv", [Every EXCEPT !.requestHeaders = {Exists("env")}],
                  <<[type |-> "removeRequestHeader", name |-> "env"]>>))
Off       == [Post EXCEPT !.id = "off", !.enabled = FALSE]
BadUrl    == [Block EXCEPT !.id = "badUrl", !.match.urls = BadPattern]
BadAction == Rule("badAction", Every, <<[type |-> "block"],
                  [type |-> "replaceInRequestBody", replace |-> BadPattern]>>)

Rules == {Post, GetBody, Redirect, Rewrite, BodyOnB, NoEnv, Env, Block, Mock, Patch, Connect,
          SetHost, ToLocal, DropEnv, NoConn, Errors, Fixed, InBody, Off, BadUrl, BadAction}

\* Every pair, and the triples of the rules that change what others see.
Chained == {Post, GetBody, Redirect, BodyOnB, NoEnv, Env, Mock, Fixed, Errors}
Distinct(list) == \A i, j \in DOMAIN list : i # j => list[i] # list[j]
MCRuleLists ==
  {l \in {<<>>} \union [1..2 -> Rules] \union [1..3 -> Chained] : Distinct(l)}

Plain  == [scheme |-> "http", authority |-> NoAuthority, version |-> "h1"]
Tunnel == [scheme |-> "https", authority |-> A, version |-> "h1"]
H2     == [Tunnel EXCEPT !.version = "h2"]

Absolute(url) == [form |-> "absolute", url |-> url]
Relative(url) == [form |-> "origin", url |-> url]

Request(conn, uri, headers, body) ==
  [conn |-> conn, uri |-> uri, method |-> "GET", headers |-> headers, body |-> body,
   resourceType |-> "xhr"]

OnA == URL("https", A, "/api", <<>>)
Bodies == {Text("s"), Json(Doc1), Json(Doc2)}
MCRequests ==
  \* HTTP/1 in a tunnel, HTTP/2 in a tunnel, plain.
  {Request(Tunnel, Relative(OnA), <<Header("host", A), Header("env", "1")>>, b) : b \in Bodies}
  \union {Request(H2, Absolute(OnA), <<Header("cookie", <<1>>), Header("cookie", <<2>>)>>, b) :
            b \in Bodies}
  \union {Request(H2, Absolute(OnA), <<Header("host", B), Header("host", A)>>, Text("s"))}
  \union {Request(Plain, Absolute(URL("http", B, "/api", <<<<"q", "1">>>>)),
                  <<Header("host", B), Header("connection", "k")>>, b) : b \in Bodies}
  \* To hamsy-proxy itself, and without a URL.
  \union {Request(Plain, Absolute(URL("http", h, "/", <<>>)), <<Header("host", h)>>, Text("s")) :
     h \in {Own, UI}}
  \union {Request(Plain, Relative(OnA), hs, Text("s")) : hs \in {<<>>, <<Header("host", A)>>}}

Free == [paused |-> FALSE, include |-> {}, exclude |-> {}, proxy |-> FALSE]
MCSettings ==
  {Free, [Free EXCEPT !.proxy = TRUE], [Free EXCEPT !.paused = TRUE],
   [Free EXCEPT !.include = {"a"}], [Free EXCEPT !.exclude = {"b"}, !.proxy = TRUE]}

MCResponses ==
  {[status |-> 404, headers |-> <<Header("tag", "1")>>, body |-> Text("s")],
   [status |-> 200, headers |-> <<>>, body |-> Json(Doc1)]}

Segs == {Key("k"), Key("n"), Index(0), Index(1)}
MCDocuments == {Doc1, Doc2, Doc1.obj.k, Doc2.arr[1], Scalar("x"), Scalar("y"), Scalar("1"), Null}
MCPaths == {<<s>> : s \in Segs} \union {<<s, t>> : s \in Segs, t \in Segs}
=============================================================================

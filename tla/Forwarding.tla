------------------------------ MODULE Forwarding ------------------------------
(***************************************************************************)
(* Where a request goes and what origin it claims: how http.rs of          *)
(* hamsy-proxy finds the URL that a request is made to, what it forwards,  *)
(* captures or refuses (with config.rs), and how it frames the request for *)
(* the protocol of the upstream connection.                                *)
(*                                                                         *)
(* A host is a record of a name and a port, in URLs as in Host headers.  A *)
(* header "cookie" has the sequence of its cookies as value.               *)
(***************************************************************************)
EXTENDS RuleEngine

CONSTANTS NoAuthority, \* ConnInfo::authority of plain proxying
          LocalNames,  \* localhost, loopback and unspecified addresses, bind_addr
          ProxyPort,   \* Settings::proxy_port
          UiPort       \* Settings::ui_port

ASSUME PortsAssumption == ProxyPort # UiPort

\* HeaderMap::get: of several Host headers the first.
Hosts(headers)  == {i \in DOMAIN headers : headers[i].name = "host"}
HostOf(headers) == {headers[i].value : i \in {j \in Hosts(headers) : \A k \in Hosts(headers) : j <= k}}

\* build_target_url: a relative target is resolved against the authority that
\* the tunnel was opened to, or else against its Host.
Authorities(conn, headers) ==
  IF conn.authority # NoAuthority THEN {conn.authority} ELSE HostOf(headers)

TargetUrl(uri, conn, headers) ==
  CASE uri.form = "absolute" -> uri.url
    [] uri.form = "origin" /\ Authorities(conn, headers) = {} -> BadURL
    [] OTHER -> [uri.url EXCEPT !.scheme = conn.scheme,
                                !.host = CHOOSE h \in Authorities(conn, headers) : TRUE]

\* strip_hop_by_hop
HopByHop == {"connection", "keep-alive", "upgrade"}
Stripped(headers) == WithoutHeaders(headers, HopByHop)

\* own_listener
OwnListener(host) ==
  CASE host.name \notin LocalNames -> "none"
    [] host.name \in LocalNames /\ host.port = ProxyPort -> "proxy"
    [] host.name \in LocalNames /\ host.port = UiPort -> "ui"
    [] OTHER -> "none"

\* should_capture
ShouldCapture(settings, host) ==
  /\ ~settings.paused
  /\ host.name \notin settings.exclude
  /\ settings.include = {} \/ host.name \in settings.include

-----------------------------------------------------------------------------
\* set_host_header
WithHost(headers, host) == SetHeader(headers, "host", host)

\* apply_outcome_url_and_headers: a rewritten request keeps its Host, or gets
\* that of the URL it was made to.
Outbound(request, out) ==
  LET headers == Stripped(out.headers) IN
  IF out.url # request.url /\ HostOf(headers) = {}
  THEN WithHost(headers, request.url.host) ELSE headers

\* align_h2_authority_with_host
Aligned(msg) ==
  LET host == HostOf(msg.headers) IN
  [msg EXCEPT !.headers = WithoutHeader(@, "host"),
              !.authority = IF host = {} THEN @ ELSE CHOOSE h \in host : TRUE]

\* build_outbound_request: in absolute form when there is an upstream proxy,
\* tunnelled through or not, and over HTTP/2.  A message is its version, its
\* headers, and the form and the authority of its request line.
BuildOutbound(version, url, headers, viaProxy) ==
  LET msg == [version |-> version, authority |-> url.host, headers |-> headers,
              form |-> IF viaProxy \/ version = "h2" THEN "absolute" ELSE "origin"]
  IN IF version = "h2" THEN Aligned(msg) ELSE msg

\* join_cookie_headers
Cookies(headers) ==
  LET upto[i \in 0..Len(headers)] ==
        IF i = 0 THEN <<>>
        ELSE IF headers[i].name = "cookie" THEN upto[i - 1] \o headers[i].value
        ELSE upto[i - 1]
  IN upto[Len(headers)]
JoinCookies(headers) ==
  IF Cookies(headers) = <<>> THEN headers ELSE SetHeader(headers, "cookie", Cookies(headers))

\* ensure_host_header
EnsureHost(headers, authority) ==
  IF HostOf(headers) # {} THEN headers ELSE WithHost(headers, authority)

\* adapt_request_to_sender.  The authority of the request line is read before
\* it is dropped, and may be the one that Aligned put there.  Mutant: the Host
\* is that of the URL.
HostOfUrl(msg, url)   == url.host
AuthorityOf(msg, url) == msg.authority

Adapted(msg, senderVersion, viaProxy, url) ==
  CASE senderVersion = "h1" /\ msg.version = "h2" ->
         [msg EXCEPT !.version = "h1", !.form = IF viaProxy THEN @ ELSE "origin",
                     !.headers = EnsureHost(JoinCookies(@), AuthorityOf(msg, url))]
    [] senderVersion = "h2" /\ msg.version = "h1" ->
         Aligned([msg EXCEPT !.version = "h2", !.form = "absolute", !.authority = url.host])
    [] OTHER -> msg

\* obtain mirrors the client's protocol, and speaks HTTP/2 over TLS only.
Negotiable(version, url) ==
  IF version = "h2" /\ url.scheme = "https" THEN {"h1", "h2"} ELSE {"h1"}

\* What the receiver of a message takes for its origin.
Told(msg) == IF msg.version = "h2" THEN {msg.authority} ELSE HostOf(msg.headers)

\* Where a message ends up.  An upstream proxy that is not tunnelled through
\* goes by the request line.
Proxied(url, viaProxy) == viaProxy /\ url.scheme = "http"
Destination(msg, url, viaProxy) == IF Proxied(url, viaProxy) THEN msg.authority ELSE url.host
=============================================================================

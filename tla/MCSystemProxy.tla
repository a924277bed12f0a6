---------------------------- MODULE MCSystemProxy ----------------------------
(***************************************************************************)
(* Instances of SystemProxy that share a data directory, with the API of   *)
(* each and the command line, on each platform; the configurations choose  *)
(* the bounds.                                                             *)
(***************************************************************************)
EXTENDS SystemProxy, TLC

TwoServices == <<"Wi-Fi", "VPN">>

Proxy(server, on) == [server |-> server, on |-> on]
Service(s, web, bypass) ==
  (<<s, "web">> :> web) @@ (<<s, "bypass">> :> bypass) @@ (<<s, "secure">> :> Proxy("", FALSE))

\* A proxy on one service, and one that is remembered but off on the other.
Mac == {Settings("macos", Service("Wi-Fi", Proxy("corp:3128", TRUE), "*.corp")
                            @@ Service("VPN", Proxy("home:8080", FALSE), "none"))}

\* A proxy that is off because its switch was never set, without exceptions.
Windows ==
  {Settings("windows", (Reg("ProxyEnable") :> Absent) @@ (Reg("ProxyServer") :> "corp:3128")
                         @@ (Reg("ProxyOverride") :> ""))}

\* A proxy for plain HTTP.
Linux ==
  {Settings("linux", (Mode :> "manual") @@ (Ignored :> "[]")
                       @@ (<<"http", "host">> :> "corp") @@ (<<"http", "port">> :> "3128")
                       @@ (<<"https", "host">> :> "") @@ (<<"https", "port">> :> "0"))}

\* Two instances, the API of one and the command line for the other.
Two == {[who |-> i, role |-> "main"] : i \in {"9080", "9090"}}
         \union {[who |-> "9080", role |-> "api"], [who |-> "9090", role |-> "cli"]}

\* One with its API; two without.
Served == [who : {"9080"}, role : {"main", "api"}]
Mains  == [who : {"9080", "9090"}, role : {"main"}]

EveryPlatform == Mac \union Windows \union Linux
=============================================================================

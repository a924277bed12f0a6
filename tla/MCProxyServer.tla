---------------------------- MODULE MCProxyServer ----------------------------
(***************************************************************************)
(* A small instance of ProxyServer: two clients, so that one stream slot   *)
(* and one place in the pool are too few, and two keys, of which one       *)
(* offers HTTP/2.                                                          *)
(***************************************************************************)
EXTENDS ProxyServer, TLC

MCScenarios ==
  {"a" :> {"h1", "h2"} @@ "b" :> {"h2"},
   "a" :> {"h1", "h2"} @@ "b" :> {"connect"},
   "a" :> {"h1"} @@ "b" :> {"connect", "h1", "upgrade"}}
=============================================================================

--------------------------- MODULE MCConfiguration ---------------------------
(***************************************************************************)
(* A small instance of Configuration: two at a time save the settings or   *)
(* the rules, which are independent of each other: two calls, or a call    *)
(* and a command.                                                          *)
(***************************************************************************)
EXTENDS Configuration

CONSTANTS a, b, cli

Pairs == {{a, b}, {a, cli}}
Either == {pair \X {f} : pair \in Pairs, f \in {"settings", "rules"}}
=============================================================================

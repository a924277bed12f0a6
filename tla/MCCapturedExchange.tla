-------------------------- MODULE MCCapturedExchange --------------------------
(***************************************************************************)
(* Small instances of CapturedExchange: two exchanges that compete for one *)
(* worker and one place in the capture queue.                              *)
(***************************************************************************)
EXTENDS CapturedExchange
=============================================================================

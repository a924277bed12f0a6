----------------------------- MODULE MCFlowStore -----------------------------
(***************************************************************************)
(* A small instance of FlowStore: two ids, so that one flow can evict the  *)
(* other or be replaced, two writers racing with one reader's handles, and *)
(* one more address than can be live at once, so that addresses are reused *)
(* as an allocator reuses them.                                            *)
(***************************************************************************)
EXTENDS FlowStore

\* An allocator that hands out the lowest free address: the one most likely to
\* give a new flow the address of a flow just freed.
LowestFree(F) == {a \in F : \A b \in F : a <= b}
=============================================================================

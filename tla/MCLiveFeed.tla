----------------------------- MODULE MCLiveFeed -----------------------------
(***************************************************************************)
(* Small instances of LiveFeed.  Two flows without a clear: with room and  *)
(* with a store and a table of one, so that the second flow evicts the     *)
(* first; the same with a connection that breaks once, or with two clears; *)
(* one flow, a clear and a broken connection; and the two shortest         *)
(* histories in which a cleared row comes back or stays.                   *)
(***************************************************************************)
EXTENDS LiveFeed

Room   == [store |-> 2, table |-> 3, channel |-> 1, resync |-> 1,
           revs |-> <<2, 2>>, clears |-> 0, drops |-> 0]
Tight  == [Room EXCEPT !.store = 1, !.table = 1]
Broken == {[l EXCEPT !.revs = <<2, 1>>, !.drops = 1] : l \in {Room, Tight}}
Clear  == [Room EXCEPT !.channel = 2, !.resync = 2, !.revs = <<3, 0>>,
                       !.clears = 1, !.drops = 1]

Twice  == [Tight EXCEPT !.channel = 2, !.revs = <<1, 1>>, !.clears = 2]

AnyOf      == {Room, Tight, Clear, Twice} \union Broken
GhostOnly  == {[Clear EXCEPT !.channel = 4, !.revs = <<1, 0>>, !.drops = 0]}
ResyncOnly == {[Clear EXCEPT !.channel = 1, !.revs = <<1, 1>>, !.drops = 0]}
=============================================================================

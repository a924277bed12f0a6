-------------------------- MODULE ConfigurationProofs --------------------------
(***************************************************************************)
(* RulesSurvive, SettingsAgree and TypeOK for any number of calls,         *)
(* commands, rules, failures and kills.                                    *)
(*                                                                         *)
(* A save without rivals is the only one of its file: it finds the         *)
(* temporary file as it left it, so that what it renames is what it saves; *)
(* and unless rivals saved a file last, every save of it that is left is   *)
(* such a save (HistoryOK, OwnOK).  The rules have no other saves here:    *)
(* one call at a time has their lock.  So the file of the rules holds what *)
(* was saved last (RulesOK), the compiled rules are those of the call that *)
(* has the lock, or, when they were saved here, those of the file          *)
(* (MemoryOK, InForce); and the settings agree (SettingsOK).               *)
(*                                                                         *)
(* What a file holds is missing, empty, torn or a value of its type, so    *)
(* that what is loaded of it is one (TypeInv).                             *)
(***************************************************************************)
EXTENDS Configuration, FiniteSetTheorems, TLAPS

Ring == INSTANCE FlowRingProofs  \* for its facts about naturals

Files == {"settings", "rules"}

\* A call at rest, one that has listed the rules, or one that saves.
Shape(c) ==
  \/ c = Resting
  \/ c = [at |-> "listed", file |-> "rules", list |-> c.list]
  \/ /\ c = [at |-> c.at, file |-> c.file, new |-> c.new, fd |-> c.fd]
     /\ c.at \in {"open", "write", "rename", "resize", "store"} /\ c.file \in Files
     /\ c.at \in {"resize", "store"} => c.file = "settings"
     /\ c.at \in {"write", "rename"} => c.fd \in {"tmp", "content", "gone"}

Saves(t) == call[t].at \notin {"idle", "listed"}

\* A call that has the lock of the rules, and one that has saved the settings,
\* but not yet told the store and the memory.
Holds(t)  == Saves(t) /\ call[t].file = "rules" /\ t \notin Others
Midway(t) == call[t].at \in {"resize", "store"}

CallsOK ==
  /\ call = [t \in Callers |-> call[t]]
  /\ \A t \in Callers : Shape(call[t])
  /\ \A t, u \in Callers : Holds(t) /\ Holds(u) => t = u
  /\ \A t \in Others : call[t].at \notin {"listed", "resize", "store"}

\* The start saves settings, and calls run once it is done.
PhaseOK ==
  /\ call["main"] # Resting => phase = "starting" /\ call["main"].file = "settings"
  /\ phase # "up" => \A t \in Tasks : call[t] = Resting

DiskOK ==
  /\ disk = [f \in Files |-> disk[f]]
  /\ \A f \in Files : DOMAIN disk[f] = {"content", "tmp"}

HistoryOK ==
  /\ alone \subseteq Callers
  /\ last = [f \in Files |-> last[f]]
  /\ \A t \in alone :
       Saves(t) /\ \A u \in Callers : Saves(u) /\ call[u].file = call[t].file => u = t
  /\ \A t \in Callers : Saves(t) /\ last[call[t].file] # "mixed" => t \in alone

\* What a call without rivals finds: of the temporary file, the content, and
\* what it told the store.
Own(t) ==
  /\ call[t].at = "write" => call[t].fd = "tmp" /\ disk[call[t].file].tmp = Empty
  /\ call[t].at = "rename" => disk[call[t].file].tmp = Whole(call[t].new)
  /\ Midway(t) => disk["settings"].content = Whole(call[t].new)
  /\ call[t].at = "store" => capacity = AtLeastOne(call[t].new.maxFlows)
OwnOK == \A t \in alone : Own(t)

RulesOK ==
  last["rules"] # "mixed" =>
    /\ disk["rules"].content \notin {Empty, Torn}
    /\ Loaded(disk["rules"].content, <<>>) = acked

MemoryOK == \A t \in Callers : Holds(t) => ruleset = call[t].new

InForce ==
  phase = "up" /\ ~failed /\ last["rules"] = "here" /\ (\A t \in Callers : ~Holds(t)) =>
    ruleset = acked

SettingsOK ==
  phase = "up" /\ last["settings"] = "here" /\ (\A t \in Callers : ~Midway(t)) =>
    disk["settings"].content = Whole(settings) /\ capacity = AtLeastOne(settings.maxFlows)

\* The inductive invariant.
Core == CallsOK /\ DiskOK /\ HistoryOK /\ OwnOK
IInv == Core /\ PhaseOK /\ RulesOK /\ MemoryOK /\ InForce /\ SettingsOK

-----------------------------------------------------------------------------
\* Tasks are callers, commands are others, and the start is none of them.
LEMMA Kinds ==
  /\ Tasks \subseteq Callers /\ Others \subseteq Callers /\ "main" \in Callers
  /\ "main" \notin Tasks /\ "main" \notin Others
  /\ \A t \in Callers : t \in Tasks \/ t \in Others \/ t = "main"
  /\ \A t \in Tasks : t \notin Others
BY ConfigurationAssumption DEF Callers

\* The lock is held by whoever holds it.
LEMMA LockHeld == Locked <=> \E t \in Callers : Holds(t)
BY DEF Locked, Savers, Holds, Saves

LEMMA InitOK == Init => IInv
<1> SUFFICES ASSUME Init PROVE IInv
  OBVIOUS
<1>1. \A t \in Callers : call[t] = Resting /\ ~Saves(t) /\ ~Midway(t)
  BY DEF Init, Saves, Midway, Resting
<1>2. CallsOK /\ PhaseOK
  BY <1>1, Kinds DEF Init, CallsOK, PhaseOK, Shape, Holds, Resting
<1>3. DiskOK
  BY DEF Init, DiskOK, Files
<1>4. HistoryOK /\ OwnOK
  BY <1>1 DEF Init, HistoryOK, OwnOK, Files
<1>5. RulesOK /\ MemoryOK
  BY <1>1 DEF Init, RulesOK, MemoryOK, Holds, Loaded, Missing, Empty, Torn
<1>6. InForce /\ SettingsOK
  BY DEF Init, InForce, SettingsOK
<1> QED BY <1>2, <1>3, <1>4, <1>5, <1>6 DEF IInv, Core

\* The invariant is what the properties need.
LEMMA RulesImplied == IInv => RulesSurvive
<1> SUFFICES ASSUME IInv, last["rules"] # "mixed"
             PROVE  LET stored == Loaded(disk["rules"].content, <<>>) IN
                    /\ disk["rules"].content \notin {Empty, Torn} /\ stored = acked
                    /\ Working /\ ~Locked /\ ~failed /\ last["rules"] = "here" => ruleset = stored
  BY DEF RulesSurvive
<1>1. disk["rules"].content \notin {Empty, Torn} /\ Loaded(disk["rules"].content, <<>>) = acked
  BY DEF IInv, RulesOK
<1>2. ASSUME Working, ~Locked, ~failed, last["rules"] = "here"
      PROVE  ruleset = acked
  BY <1>2, LockHeld DEF IInv, InForce, Working
<1> QED BY <1>1, <1>2

LEMMA SettingsImplied == IInv /\ settings.maxFlows \in Nat => SettingsAgree
<1> SUFFICES ASSUME IInv, settings.maxFlows \in Nat, Working, last["settings"] = "here", Savers("settings") \subseteq Others
             PROVE  /\ disk["settings"].content = Whole(settings)
                    /\ capacity = IF settings.maxFlows > 0 THEN settings.maxFlows ELSE 1
  BY DEF SettingsAgree
<1>1. \A t \in Callers : ~Midway(t)
  <2> SUFFICES ASSUME NEW t \in Callers, Midway(t) PROVE FALSE
    OBVIOUS
  <2>1. Shape(call[t])
    BY DEF IInv, Core, CallsOK
  <2>2. call[t].file = "settings" /\ call[t].at \notin {"idle", "listed"}
    BY <2>1 DEF Midway, Shape, Resting
  <2>3. t \in Others
    BY <2>2 DEF Savers
  <2> QED BY <2>3 DEF IInv, Core, CallsOK, Midway
<1>2. disk["settings"].content = Whole(settings) /\ capacity = AtLeastOne(settings.maxFlows)
  BY <1>1 DEF IInv, SettingsOK, Working
<1> QED BY <1>2 DEF AtLeastOne

-----------------------------------------------------------------------------
\* One call takes its next form.
LEMMA OneMoves ==
  ASSUME CallsOK, NEW t \in Callers, NEW c, call' = [call EXCEPT ![t] = c]
  PROVE  /\ call' = [u \in Callers |-> call'[u]] /\ call'[t] = c
         /\ \A u \in Callers \ {t} : call'[u] = call[u]
BY DEF CallsOK

\* A call that saves, and the phase of the process.
LEMMA SavesInfo ==
  ASSUME IInv, NEW t \in Callers, Saves(t)
  PROVE  /\ call[t] = [at |-> call[t].at, file |-> call[t].file,
                       new |-> call[t].new, fd |-> call[t].fd]
         /\ call[t].at \in {"open", "write", "rename", "resize", "store"}
         /\ call[t].file \in Files /\ (Midway(t) => call[t].file = "settings")
         /\ call[t].at \in {"write", "rename"} => call[t].fd \in {"tmp", "content", "gone"}
         /\ t = "main" => phase = "starting" /\ call[t].file = "settings"
         /\ t \in Tasks => phase = "up"
<1>1. Shape(call[t]) /\ call[t] # Resting
  BY DEF IInv, Core, CallsOK, Saves, Resting
<1>2. t = "main" => phase = "starting" /\ call[t].file = "settings"
  BY <1>1 DEF IInv, PhaseOK
<1>3. t \in Tasks => phase = "up"
  BY <1>1 DEF IInv, PhaseOK
<1> QED BY <1>1, <1>2, <1>3 DEF Shape, Saves, Midway

\* A call begins to save a file that the lock, if it needs it, is free for.
LEMMA Begins ==
  ASSUME IInv, NEW t \in Callers, NEW f \in Files, NEW new, ~Saves(t), BeginSaving(t, f, new),
         f = "settings" \/ t \in Others \/ ~Locked, UNCHANGED <<disk, capacity>>
  PROVE  /\ Core'
         /\ call'[t] = Saving(f, new) /\ \A u \in Callers \ {t} : call'[u] = call[u]
         /\ \A g \in Files : last'[g] # "mixed" => last'[g] = last[g]
<1> DEFINE c == Saving(f, new)
<1>1. /\ call' = [u \in Callers |-> call'[u]] /\ call'[t] = c
      /\ \A u \in Callers \ {t} : call'[u] = call[u]
  <2>1. call' = [call EXCEPT ![t] = c]
    BY DEF BeginSaving
  <2> HIDE DEF c
  <2> QED BY <2>1, OneMoves DEF IInv, Core
<1>2. Shape(c) /\ c.at = "open" /\ c.file = f
  BY DEF Shape, Saving
<1> HIDE DEF c
<1>3. Saves(t)' /\ \A u \in Callers \ {t} : Saves(u)' <=> Saves(u)
  BY <1>1, <1>2 DEF Saves
<1>4. Rivals(t, f) = {u \in Callers : Saves(u) /\ call[u].file = f}
  <2>1. ASSUME NEW u \in Callers, Saves(u), call[u].file = f, f # "settings", t \notin Others
        PROVE  u \in Others
    <3>1. f = "rules" /\ ~Holds(u)
      BY <2>1, LockHeld DEF Files
    <3> QED BY <2>1, <3>1 DEF Holds
  <2>2. \A u \in Callers : Saves(u) /\ call[u].file = f =>
          f = "settings" \/ {t, u} \intersect Others # {}
    BY <2>1
  <2>3. Rivals(t, f) = {u \in Savers(f) : f = "settings" \/ {t, u} \intersect Others # {}}
    BY DEF Rivals
  <2>4. Savers(f) = {u \in Callers : Saves(u) /\ call[u].file = f}
    BY DEF Savers, Saves
  <2> QED BY <2>2, <2>3, <2>4
<1>5. CallsOK'
  <2>1. \A u \in Callers : Shape(call'[u])
    BY <1>1, <1>2 DEF IInv, Core, CallsOK
  <2>2. ASSUME NEW u \in Callers, NEW v \in Callers, Holds(u)', Holds(v)'
        PROVE  u = v
    <3>1. \A w \in Callers \ {t} : Holds(w)' <=> Holds(w)
      BY <1>1, <1>3 DEF Holds
    <3>2. Holds(t)' => \A w \in Callers : ~Holds(w)
      BY <1>1, <1>2, LockHeld DEF Holds
    <3> QED BY <2>2, <3>1, <3>2 DEF IInv, Core, CallsOK
  <2>3. \A u \in Others : call'[u].at \notin {"listed", "resize", "store"}
    BY <1>1, <1>2, Kinds DEF IInv, Core, CallsOK
  <2> QED BY <1>1, <2>1, <2>2, <2>3 DEF CallsOK
<1>6. last' = [g \in Files |-> last'[g]] /\ \A g \in Files : last'[g] # "mixed" => last'[g] = last[g]
  BY DEF BeginSaving, IInv, Core, HistoryOK
<1>7. CASE Rivals(t, f) = {}
  <2>1. alone' = alone \union {t} /\ last' = last
    BY <1>7 DEF BeginSaving
  <2>2. \A u \in Callers : Saves(u) => call[u].file # f
    BY <1>4, <1>7
  <2>3. \A u \in alone : Saves(u) /\ u \in Callers /\ u # t
    BY DEF IInv, Core, HistoryOK
  <2>4. HistoryOK'
    <3>1. alone' \subseteq Callers
      BY <2>1, <2>3
    <3>2. ASSUME NEW u \in alone'
          PROVE  Saves(u)' /\ \A v \in Callers : Saves(v)' /\ call'[v].file = call'[u].file => v = u
      BY <1>1, <1>2, <1>3, <2>1, <2>2, <2>3 DEF IInv, Core, HistoryOK
    <3>3. \A u \in Callers : Saves(u)' /\ last'[call'[u].file] # "mixed" => u \in alone'
      BY <1>1, <1>3, <2>1 DEF IInv, Core, HistoryOK
    <3> QED BY <1>6, <3>1, <3>2, <3>3 DEF HistoryOK
  <2>5. OwnOK'
    <3>1. Own(t)'
      BY <1>1, <1>2 DEF Own, Midway
    <3>2. ASSUME NEW u \in alone PROVE Own(u)'
      <4>1. call'[u] = call[u] /\ Own(u)
        BY <1>1, <2>3 DEF IInv, Core, OwnOK
      <4> QED BY <4>1 DEF Own, Midway
    <3> QED BY <2>1, <3>1, <3>2 DEF OwnOK
  <2> QED BY <1>1, <1>5, <1>6, <2>4, <2>5 DEF Core, c, IInv, DiskOK
<1>8. CASE Rivals(t, f) # {}
  <2>1. alone' = alone \ Rivals(t, f) /\ last' = [last EXCEPT ![f] = "mixed"]
    BY <1>8 DEF BeginSaving
  <2>2. \A u \in alone' : u \in alone /\ u # t /\ Saves(u) /\ u \in Callers /\ call[u].file # f
    BY <1>4, <2>1 DEF IInv, Core, HistoryOK
  <2>3. last'[f] = "mixed" /\ \A g \in Files \ {f} : last'[g] = last[g]
    BY <2>1 DEF IInv, Core, HistoryOK
  <2>4. HistoryOK'
    <3>1. alone' \subseteq Callers
      BY <2>2
    <3>2. ASSUME NEW u \in alone'
          PROVE  Saves(u)' /\ \A v \in Callers : Saves(v)' /\ call'[v].file = call'[u].file => v = u
      BY <1>1, <1>2, <1>3, <2>2 DEF IInv, Core, HistoryOK
    <3>3. ASSUME NEW u \in Callers, Saves(u)', last'[call'[u].file] # "mixed"
          PROVE  u \in alone'
      <4>1. u # t
        BY <1>1, <1>2, <2>3, <3>3
      <4>2. call'[u] = call[u] /\ Saves(u) /\ call[u].file \in Files \ {f}
        BY <1>1, <1>3, <2>3, <3>3, <4>1, SavesInfo
      <4>3. u \in alone
        BY <2>3, <3>3, <4>2 DEF IInv, Core, HistoryOK
      <4> QED BY <1>4, <2>1, <4>2, <4>3
    <3> QED BY <1>6, <3>1, <3>2, <3>3 DEF HistoryOK
  <2>5. OwnOK'
    <3> SUFFICES ASSUME NEW u \in alone' PROVE Own(u)'
      BY DEF OwnOK
    <3>1. call'[u] = call[u] /\ Own(u)
      BY <1>1, <2>2 DEF IInv, Core, OwnOK
    <3> QED BY <3>1 DEF Own, Midway
  <2> QED BY <1>1, <1>5, <1>6, <2>4, <2>5 DEF Core, c, IInv, DiskOK
<1> QED BY <1>7, <1>8

\* What a step of t may do to another call: none, or, when it saves the same
\* file, move the file that it has open.
Beside(t, u) ==
  /\ call'[u].at = call[u].at /\ call'[u].file = call[u].file /\ call'[u].new = call[u].new
  /\ Shape(call'[u])
  /\ call'[u] = call[u] \/ (Saves(u) /\ call[u].file = call[t].file)

\* A call that saves a file goes on, or comes to its end.
LEMMA GoesOn ==
  ASSUME IInv, DiskOK', NEW t \in Callers, Saves(t),
         call' = [u \in Callers |-> call'[u]], Shape(call'[t]),
         call'[t] = Resting \/ (Saves(t)' /\ call'[t].file = call[t].file),
         t \in Others => ~Midway(t)',
         \A u \in Callers \ {t} : Beside(t, u),
         \A g \in Files \ {call[t].file} : disk'[g] = disk[g],
         capacity' = capacity \/ call[t].file = "settings",
         alone' = IF call'[t] = Resting THEN alone \ {t} ELSE alone,
         last' = [g \in Files |-> last'[g]],
         \A g \in Files : last'[g] # "mixed" =>
           last[g] # "mixed" \/ (t \in alone /\ g = call[t].file /\ call'[t] = Resting),
         t \in alone /\ call'[t] # Resting => Own(t)'
  PROVE  Core'
<1>1. \A u \in Callers \ {t} : (Saves(u)' <=> Saves(u)) /\ (Holds(u)' <=> Holds(u))
  BY DEF Beside, Saves, Holds
<1>2. call'[t] = Resting <=> ~Saves(t)'
  BY DEF Saves, Resting
<1>3. Holds(t)' => Holds(t)
  BY <1>2 DEF Holds
<1>4. CallsOK'
  <2>1. \A u \in Callers : Shape(call'[u])
    BY DEF Beside
  <2>2. \A u, v \in Callers : Holds(u)' /\ Holds(v)' => u = v
    BY <1>1, <1>3 DEF IInv, Core, CallsOK
  <2>3. \A u \in Others : call'[u].at \notin {"listed", "resize", "store"}
    BY <1>2, Kinds DEF IInv, Core, CallsOK, Beside, Midway, Saves, Resting
  <2> QED BY <2>1, <2>2, <2>3 DEF CallsOK
<1>5. ASSUME NEW u \in alone', u # t
      PROVE  /\ u \in alone /\ u \in Callers /\ Saves(u) /\ Saves(u)' /\ call'[u] = call[u]
             /\ call[u].file # call[t].file
  <2>1. u \in alone /\ u \in Callers /\ Saves(u)
    BY DEF IInv, Core, HistoryOK
  <2>2. call[u].file # call[t].file
    BY <1>5, <2>1 DEF IInv, Core, HistoryOK
  <2> QED BY <1>1, <1>5, <2>1, <2>2 DEF Beside
<1>6. HistoryOK'
  <2>1. alone' \subseteq Callers
    BY DEF IInv, Core, HistoryOK
  <2>2. ASSUME NEW u \in alone'
        PROVE  Saves(u)' /\ \A v \in Callers : Saves(v)' /\ call'[v].file = call'[u].file => v = u
    <3>1. \A v \in Callers : Saves(v)' => Saves(v) /\ call'[v].file = call[v].file
      BY <1>1, <1>2 DEF Beside
    <3>2. Saves(u)' /\ u \in alone
      BY <1>2, <1>5
    <3>3. u \in Callers
      BY <2>1
    <3> QED BY <3>1, <3>2, <3>3 DEF IInv, Core, HistoryOK
  <2>3. ASSUME NEW u \in Callers, Saves(u)', last'[call'[u].file] # "mixed"
        PROVE  u \in alone'
    <3>1. Saves(u) /\ call'[u].file = call[u].file
      BY <1>1, <1>2, <2>3 DEF Beside
    <3>2. call[u].file \in Files
      BY <3>1, SavesInfo
    <3>3. CASE last[call[u].file] # "mixed"
      <4>1. u \in alone
        BY <3>1, <3>3 DEF IInv, Core, HistoryOK
      <4> QED BY <1>2, <2>3, <4>1
    <3>4. CASE t \in alone /\ call[u].file = call[t].file /\ call'[t] = Resting
      <4>1. u = t
        BY <3>1, <3>4 DEF IInv, Core, HistoryOK
      <4> QED BY <1>2, <2>3, <3>4, <4>1
    <3> QED BY <2>3, <3>1, <3>2, <3>3, <3>4
  <2> QED BY <2>1, <2>2, <2>3 DEF HistoryOK
<1>7. OwnOK'
  <2>1. ASSUME t \in alone' PROVE Own(t)'
    BY <2>1
  <2>2. ASSUME NEW u \in alone', u # t PROVE Own(u)'
    <3>1. /\ u \in Callers /\ Saves(u) /\ call'[u] = call[u] /\ call[u].file # call[t].file
          /\ Own(u)
      BY <1>5, <2>2 DEF IInv, Core, OwnOK
    <3>2. call[u].file \in Files /\ disk'[call[u].file] = disk[call[u].file]
      BY <3>1, SavesInfo
    <3>3. Midway(u) => /\ call[u].file = "settings" /\ capacity' = capacity
                       /\ disk'["settings"] = disk["settings"]
      BY <3>1, <3>2, SavesInfo
    <3> QED BY <3>1, <3>2, <3>3 DEF Own, Midway
  <2> QED BY <2>1, <2>2 DEF OwnOK
<1> QED BY <1>4, <1>6, <1>7 DEF Core

-----------------------------------------------------------------------------
\* What the invariant says of the rules holds on, if nobody saves them here or
\* anywhere without a rival, ...
LEMMA RulesUntouched ==
  ASSUME IInv, UNCHANGED <<ruleset, acked>>, phase' = "up" => phase = "up",
         ~failed' => ~failed,
         last'["rules"] # "mixed" =>
           last'["rules"] = last["rules"] /\ disk'["rules"].content = disk["rules"].content,
         \A u \in Callers : Holds(u)' => Holds(u) /\ call'[u].new = call[u].new,
         \A u \in Callers : Holds(u) => Holds(u)' \/ failed'
  PROVE  RulesOK' /\ MemoryOK' /\ InForce'
<1>1. RulesOK'
  BY DEF IInv, RulesOK, Loaded, Empty, Torn, Missing
<1>2. MemoryOK'
  BY DEF IInv, MemoryOK
<1>3. InForce'
  BY DEF IInv, InForce
<1> QED BY <1>1, <1>2, <1>3

\* ... and what it says of the settings, if no save of them comes to its end.
LEMMA SettingsUntouched ==
  ASSUME IInv, UNCHANGED <<settings, capacity>>, phase' = "up" => phase = "up",
         last'["settings"] = "here" =>
           last["settings"] = "here" /\ disk'["settings"].content = disk["settings"].content,
         \A u \in Callers : Midway(u) => Midway(u)'
  PROVE  SettingsOK'
BY DEF IInv, SettingsOK

\* A call begins to save a file, and nobody has written yet.
LEMMA BeginKeeps ==
  ASSUME IInv, NEW t \in Callers, NEW f \in Files, NEW new, ~Saves(t), BeginSaving(t, f, new),
         f = "settings" \/ t \in Others, UNCHANGED <<disk, memory, acked, failed>>,
         \/ phase' = phase /\ t \in Others
         \/ phase' = phase /\ phase = "up" /\ t \in Tasks
         \/ phase' = "starting" /\ phase = "down" /\ t = "main" /\ f = "settings"
  PROVE  IInv'
<1>1. /\ Core'
      /\ call'[t] = Saving(f, new) /\ \A u \in Callers \ {t} : call'[u] = call[u]
      /\ \A g \in Files : last'[g] # "mixed" => last'[g] = last[g]
  BY Begins DEF memory
<1>2. call'[t].at = "open" /\ call'[t].file = f
  BY <1>1 DEF Saving
<1>3. \A u \in Callers :
        (Holds(u)' <=> Holds(u)) /\ (Holds(u)' => call'[u] = call[u]) /\ (Midway(u) => Midway(u)')
  <2>1. ~Holds(t)' /\ ~Holds(t) /\ ~Midway(t)
    BY <1>2 DEF Holds, Saves, Midway
  <2> QED BY <1>1, <2>1 DEF Holds, Saves, Midway
<1>4. RulesOK' /\ MemoryOK' /\ InForce'
  BY <1>1, <1>3, RulesUntouched DEF memory, Files
<1>5. SettingsOK'
  BY <1>1, <1>3, SettingsUntouched DEF memory, Files
<1>6. PhaseOK'
  BY <1>1, <1>2, Kinds DEF IInv, PhaseOK
<1> QED BY <1>1, <1>4, <1>5, <1>6 DEF IInv

LEMMA ImportElsewhereKeeps ==
  ASSUME IInv, NEW t \in Others, ImportElsewhere(t)
  PROVE  IInv'
<1>1. PICK list : BeginSaving(t, "rules", list)
  BY DEF ImportElsewhere
<1>2. t \in Callers /\ ~Saves(t) /\ "rules" \in Files
  BY Kinds DEF ImportElsewhere, Saves, Files
<1>3. UNCHANGED <<phase, disk, memory, acked, failed>>
  BY DEF ImportElsewhere
<1> QED BY <1>1, <1>2, <1>3, BeginKeeps

LEMMA StartElsewhereKeeps ==
  ASSUME IInv, NEW t \in Others, StartElsewhere(t)
  PROVE  IInv'
<1>1. PICK new : BeginSaving(t, "settings", new)
  BY DEF StartElsewhere
<1>2. t \in Callers /\ ~Saves(t) /\ "settings" \in Files
  BY Kinds DEF StartElsewhere, Saves, Files
<1>3. UNCHANGED <<phase, disk, memory, acked, failed>>
  BY DEF StartElsewhere
<1> QED BY <1>1, <1>2, <1>3, BeginKeeps

LEMMA ChangeSettingsKeeps ==
  ASSUME IInv, NEW t \in Tasks, ChangeSettings(t)
  PROVE  IInv'
<1>1. PICK new : BeginSaving(t, "settings", new)
  BY DEF ChangeSettings
<1>2. t \in Callers /\ ~Saves(t) /\ "settings" \in Files /\ phase = "up"
  BY Kinds DEF ChangeSettings, Saves, Files, Working
<1>3. UNCHANGED <<phase, disk, memory, acked, failed>>
  BY DEF ChangeSettings
<1> QED BY <1>1, <1>2, <1>3, BeginKeeps

LEMMA StartKeeps ==
  ASSUME IInv, Start
  PROVE  IInv'
<1>1. PICK new : BeginSaving("main", "settings", new)
  BY DEF Start
<1>2. phase = "down" /\ phase' = "starting" /\ UNCHANGED <<disk, memory, acked, failed>>
  BY DEF Start
<1>3. ~Saves("main")
  BY <1>2, Kinds, SavesInfo
<1> QED BY <1>1, <1>2, <1>3, BeginKeeps, Kinds DEF Files

\* A call takes the lock: the compiled rules are those it saves.
LEMMA PersistKeeps ==
  ASSUME IInv, NEW t \in Tasks, phase = "up", ~Saves(t), NEW list, Persist(t, list)
  PROVE  IInv'
<1>1. t \in Callers /\ t \notin Others /\ t # "main"
  BY Kinds
<1>2. \A u \in Callers : ~Holds(u)
  BY LockHeld DEF Persist
<1>3. /\ Core'
      /\ call'[t] = Saving("rules", list) /\ \A u \in Callers \ {t} : call'[u] = call[u]
      /\ \A g \in Files : last'[g] # "mixed" => last'[g] = last[g]
  BY <1>1, Begins DEF Persist, Files
<1>4. call'[t].at = "open" /\ call'[t].file = "rules" /\ call'[t].new = list
  BY <1>3 DEF Saving
<1>5. Holds(t)' /\ \A u \in Callers \ {t} : ~Holds(u)'
  BY <1>1, <1>2, <1>3, <1>4 DEF Holds, Saves
<1>6. RulesOK'
  BY <1>3 DEF IInv, RulesOK, Persist, Files
<1>7. MemoryOK'
  BY <1>4, <1>5 DEF MemoryOK, Persist, Compiled
<1>8. InForce'
  BY <1>1, <1>5 DEF InForce
<1>9. SettingsOK'
  <2>1. \A u \in Callers : Midway(u) => Midway(u)'
    BY <1>3 DEF Midway, Saves
  <2> QED BY <1>3, <2>1, SettingsUntouched DEF Persist, Files
<1>10. PhaseOK'
  BY <1>1, <1>3, Kinds DEF IInv, PhaseOK, Persist
<1> QED BY <1>3, <1>6, <1>7, <1>8, <1>9, <1>10 DEF IInv

LEMMA ListRulesKeeps ==
  ASSUME IInv, NEW t \in Tasks, ListRules(t)
  PROVE  IInv'
<1> DEFINE c == [at |-> "listed", file |-> "rules", list |-> rules]
<1>1. t \in Callers /\ t \notin Others /\ t # "main"
  BY Kinds
<1>2. Shape(c) /\ c.at = "listed"
  BY DEF Shape
<1>3. /\ call' = [call EXCEPT ![t] = c] /\ phase = "up" /\ ~Saves(t)
      /\ UNCHANGED <<phase, disk, memory, history>>
  BY DEF ListRules, Working, Saves
<1> HIDE DEF c
<1>4. /\ call' = [u \in Callers |-> call'[u]] /\ call'[t] = c
      /\ \A u \in Callers \ {t} : call'[u] = call[u]
  BY <1>1, <1>3, OneMoves DEF IInv, Core
<1>5. /\ ~Saves(t)' /\ ~Midway(t) /\ ~Midway(t)'
      /\ \A u \in Callers : (Saves(u)' <=> Saves(u)) /\ (Holds(u)' <=> Holds(u))
                            /\ (Midway(u)' <=> Midway(u)) /\ (Saves(u) => call'[u] = call[u])
  BY <1>2, <1>3, <1>4 DEF Saves, Holds, Midway
<1>6. CallsOK'
  <2>1. \A u \in Callers : Shape(call'[u])
    BY <1>2, <1>4 DEF IInv, Core, CallsOK
  <2>2. \A u \in Others : call'[u] = call[u]
    BY <1>1, <1>4, Kinds
  <2> QED BY <1>4, <1>5, <2>1, <2>2 DEF IInv, Core, CallsOK
<1>7. HistoryOK' /\ DiskOK'
  BY <1>3, <1>5 DEF IInv, Core, HistoryOK, DiskOK, history
<1>8. OwnOK'
  <2> SUFFICES ASSUME NEW u \in alone PROVE Own(u)'
    BY <1>3 DEF OwnOK, history
  <2>1. call'[u] = call[u] /\ Own(u)
    BY <1>5 DEF IInv, Core, HistoryOK, OwnOK
  <2> QED BY <1>3, <2>1 DEF Own, Midway, memory
<1>9. RulesOK' /\ MemoryOK' /\ InForce'
  <2>1. \A u \in Callers : Holds(u)' => Holds(u) /\ call'[u].new = call[u].new
    BY <1>5 DEF Holds
  <2> QED BY <1>3, <1>5, <2>1, RulesUntouched DEF memory, history
<1>10. SettingsOK'
  BY <1>3, <1>5, SettingsUntouched DEF memory, history
<1>11. PhaseOK'
  BY <1>1, <1>3, <1>4, Kinds DEF IInv, PhaseOK
<1> QED BY <1>6, <1>7, <1>8, <1>9, <1>10, <1>11 DEF IInv, Core

-----------------------------------------------------------------------------
\* One half of what the disk holds of a file changes.
LEMMA PartChanges ==
  ASSUME DiskOK, NEW f \in Files, NEW p \in {"content", "tmp"}, NEW v,
         disk' = [disk EXCEPT ![f][p] = v]
  PROVE  /\ DiskOK' /\ disk'[f][p] = v
         /\ \A q \in {"content", "tmp"} \ {p} : disk'[f][q] = disk[f][q]
         /\ \A g \in Files \ {f} : disk'[g] = disk[g]
<1> DEFINE e == [disk[f] EXCEPT ![p] = v]
<1>1. disk' = [disk EXCEPT ![f] = e]
  OBVIOUS
<1>2. DOMAIN e = {"content", "tmp"} /\ e[p] = v
      /\ \A q \in {"content", "tmp"} \ {p} : e[q] = disk[f][q]
  BY DEF DiskOK
<1> HIDE DEF e
<1>3. disk'[f] = e /\ \A g \in Files \ {f} : disk'[g] = disk[g]
  BY <1>1 DEF DiskOK
<1>4. disk' = [g \in Files |-> disk'[g]]
  BY <1>1 DEF DiskOK
<1> QED BY <1>2, <1>3, <1>4 DEF DiskOK

\* A call opens, or writes, or fails to: the content of its file is touched
\* only when it has had a rival.
LEMMA Quiet ==
  ASSUME IInv, DiskOK', NEW t \in Callers, call[t].at \in {"open", "write", "rename"},
         NEW c, Shape(c), call' = [call EXCEPT ![t] = c],
         c = Resting \/ (c.at \in {"write", "rename"} /\ c.file = call[t].file
                         /\ c.new = call[t].new),
         \A g \in Files \ {call[t].file} : disk'[g] = disk[g],
         t \in alone => disk'[call[t].file].content = disk[call[t].file].content,
         alone' = IF c = Resting THEN alone \ {t} ELSE alone,
         t \in alone /\ c # Resting => Own(t)',
         UNCHANGED <<memory, acked, last>>,
         ~failed' => ~failed, c = Resting /\ Holds(t) => failed',
         phase' = IF t = "main" /\ c = Resting THEN "down" ELSE phase
  PROVE  IInv'
<1>1. /\ call' = [u \in Callers |-> call'[u]] /\ call'[t] = c
      /\ \A u \in Callers \ {t} : call'[u] = call[u]
  BY OneMoves DEF IInv, Core
<1>2. /\ Saves(t) /\ ~Midway(t) /\ call[t].file \in Files
      /\ t = "main" => phase = "starting" /\ call[t].file = "settings"
      /\ t \in Tasks => phase = "up"
  BY SavesInfo DEF Saves, Midway
<1>3. Core'
  <2>1. ~Midway(t)' /\ (c # Resting => Saves(t)')
    BY <1>1 DEF Midway, Saves, Resting
  <2>2. \A u \in Callers \ {t} : Beside(t, u)
    BY <1>1 DEF Beside, IInv, Core, CallsOK
  <2>3. last' = [g \in Files |-> last'[g]] /\ last' = last /\ capacity' = capacity
    BY DEF IInv, Core, HistoryOK, memory
  <2> QED BY <1>1, <1>2, <2>1, <2>2, <2>3, GoesOn
<1>4. \A g \in Files : last[g] # "mixed" => disk'[g].content = disk[g].content
  BY <1>2 DEF IInv, Core, HistoryOK
<1>5. RulesOK' /\ MemoryOK' /\ InForce'
  <2>1. \A u \in Callers : Holds(u)' => Holds(u) /\ call'[u].new = call[u].new
    BY <1>1, <1>2 DEF Holds, Saves, Resting
  <2>2. \A u \in Callers : Holds(u) => Holds(u)' \/ failed'
    BY <1>1 DEF Holds, Saves
  <2>3. phase' = "up" => phase = "up"
    OBVIOUS
  <2> QED BY <1>4, <2>1, <2>2, <2>3, RulesUntouched DEF memory, Files
<1>6. SettingsOK'
  <2>1. \A u \in Callers : Midway(u) => Midway(u)'
    BY <1>1, <1>2 DEF Midway
  <2>2. phase' = "up" => phase = "up"
    OBVIOUS
  <2> QED BY <1>4, <2>1, <2>2, SettingsUntouched DEF memory, Files
<1>7. PhaseOK'
  <2>1. CASE c = Resting
    BY <1>1, <1>2, <2>1, Kinds DEF IInv, PhaseOK
  <2>2. CASE c # Resting
    BY <1>1, <1>2, <2>2, Kinds DEF IInv, PhaseOK
  <2> QED BY <2>1, <2>2
<1> QED BY <1>3, <1>5, <1>6, <1>7 DEF IInv

\* The temporary file is opened.
LEMMA OpenKeeps ==
  ASSUME IInv, NEW t \in Callers, Open(t)
  PROVE  IInv'
<1> DEFINE c == [at |-> "write", file |-> call[t].file, new |-> call[t].new, fd |-> "tmp"]
<1>1. call[t].at = "open"
  BY DEF Open
<1>2. /\ call[t] = [at |-> call[t].at, file |-> call[t].file,
                    new |-> call[t].new, fd |-> call[t].fd]
      /\ call[t].file \in Files
  BY <1>1, SavesInfo DEF Saves
<1>3. call' = [call EXCEPT ![t] = c]
  <2> DEFINE d == [call[t] EXCEPT !.at = "write"]
  <2>1. d = [at |-> "write", file |-> call[t].file, new |-> call[t].new, fd |-> call[t].fd]
    BY <1>2
  <2>2. call' = [call EXCEPT ![t] = [d EXCEPT !.fd = "tmp"]]
    BY DEF Open, IInv, Core, CallsOK
  <2> HIDE DEF d
  <2>3. [d EXCEPT !.fd = "tmp"] = c
    BY <2>1
  <2> QED BY <2>2, <2>3
<1>4. Shape(c) /\ c.at = "write" /\ c.file = call[t].file /\ c.new = call[t].new /\ c.fd = "tmp"
      /\ c # Resting
  BY <1>2 DEF Shape, Resting
<1> HIDE DEF c
<1>5. /\ DiskOK' /\ disk'[call[t].file].tmp = Empty
      /\ disk'[call[t].file].content = disk[call[t].file].content
      /\ \A g \in Files \ {call[t].file} : disk'[g] = disk[g]
  <2>1. disk' = [disk EXCEPT ![call[t].file]["tmp"] = Empty]
    BY DEF Open
  <2> DEFINE f == call[t].file
  <2>2. f \in Files /\ disk' = [disk EXCEPT ![f]["tmp"] = Empty] /\ DiskOK
    BY <1>2, <2>1 DEF IInv, Core
  <2>3. /\ DiskOK' /\ disk'[f]["tmp"] = Empty /\ \A g \in Files \ {f} : disk'[g] = disk[g]
        /\ \A q \in {"content", "tmp"} \ {"tmp"} : disk'[f][q] = disk[f][q]
    <3> HIDE DEF f
    <3> QED BY <2>2, PartChanges
  <2> QED BY <2>3
<1>6. call'[t] = c
  BY <1>3 DEF IInv, Core, CallsOK
<1>7. Own(t)'
  BY <1>4, <1>5, <1>6 DEF Own, Midway
<1>8. UNCHANGED <<phase, memory, history>>
  BY DEF Open
<1> QED BY <1>1, <1>3, <1>4, <1>5, <1>7, <1>8, Quiet DEF history

\* Where the call has its file open: a part of it is written, or, when it has
\* been renamed over, nothing that anybody reads.  Without a rival it is the
\* temporary file, and empty.
LEMMA WrittenOK ==
  ASSUME IInv, NEW t \in Callers, call[t].at = "write", NEW contents,
         disk' \in Written(t, contents)
  PROVE  /\ DiskOK' /\ \A g \in Files \ {call[t].file} : disk'[g] = disk[g]
         /\ t \in alone => /\ disk'[call[t].file].content = disk[call[t].file].content
                           /\ disk'[call[t].file].tmp \in contents
<1>1. call[t].file \in Files /\ call[t].fd \in {"tmp", "content", "gone"}
  BY SavesInfo DEF Saves
<1>2. t \in alone => call[t].fd = "tmp"
  BY DEF IInv, Core, OwnOK, Own
<1>3. CASE call[t].fd = "gone"
  <2>1. disk' = disk
    BY <1>3 DEF Written
  <2> QED BY <1>2, <1>3, <2>1 DEF IInv, Core, DiskOK
<1>4. CASE call[t].fd # "gone"
  <2>1. PICK c \in contents : disk' = [disk EXCEPT ![call[t].file][call[t].fd] = c]
    BY <1>4 DEF Written
  <2> DEFINE f == call[t].file
             p == call[t].fd
  <2>2. /\ f \in Files /\ p \in {"content", "tmp"} /\ DiskOK
        /\ disk' = [disk EXCEPT ![f][p] = c]
    BY <1>1, <1>4, <2>1 DEF IInv, Core
  <2>3. CASE p = "tmp"
    <3>1. f \in Files /\ disk' = [disk EXCEPT ![f]["tmp"] = c] /\ DiskOK
      BY <2>2, <2>3
    <3>2. /\ DiskOK' /\ disk'[f]["tmp"] = c /\ \A g \in Files \ {f} : disk'[g] = disk[g]
          /\ \A q \in {"content", "tmp"} \ {"tmp"} : disk'[f][q] = disk[f][q]
      <4> HIDE DEF f
      <4> QED BY <3>1, PartChanges
    <3> QED BY <3>2
  <2>4. CASE p = "content"
    <3>1. f \in Files /\ disk' = [disk EXCEPT ![f]["content"] = c] /\ DiskOK
      BY <2>2, <2>4
    <3>2. DiskOK' /\ \A g \in Files \ {f} : disk'[g] = disk[g]
      <4> HIDE DEF f
      <4> QED BY <3>1, PartChanges
    <3>3. t \notin alone
      BY <1>2, <2>4
    <3> QED BY <3>2, <3>3
  <2> QED BY <2>2, <2>3, <2>4
<1> QED BY <1>3, <1>4

\* The file is written.
LEMMA WriteKeeps ==
  ASSUME IInv, NEW t \in Callers, Write(t)
  PROVE  IInv'
<1> DEFINE c == [at |-> "rename", file |-> call[t].file, new |-> call[t].new, fd |-> call[t].fd]
<1>1. call[t].at = "write"
  BY DEF Write
<1>2. /\ call[t] = [at |-> call[t].at, file |-> call[t].file,
                    new |-> call[t].new, fd |-> call[t].fd]
      /\ call[t].file \in Files
  BY <1>1, SavesInfo DEF Saves
<1>3. call' = [call EXCEPT ![t] = c]
  <2>1. call' = [call EXCEPT ![t] = [call[t] EXCEPT !.at = "rename"]]
    BY DEF Write, IInv, Core, CallsOK
  <2>2. [call[t] EXCEPT !.at = "rename"] = c
    BY <1>2
  <2> QED BY <2>1, <2>2
<1>4. /\ Shape(c) /\ c.at = "rename" /\ c.file = call[t].file /\ c.new = call[t].new
      /\ c # Resting
  <2>1. call[t].fd \in {"tmp", "content", "gone"}
    BY <1>1, SavesInfo DEF Saves
  <2> QED BY <1>2, <2>1 DEF Shape, Resting
<1> HIDE DEF c
<1>5. /\ DiskOK' /\ \A g \in Files \ {call[t].file} : disk'[g] = disk[g]
      /\ t \in alone => /\ disk'[call[t].file].content = disk[call[t].file].content
                        /\ disk'[call[t].file].tmp = Whole(call[t].new)
  <2>2. CASE disk' \in Written(t, {Whole(call[t].new)})
    BY <1>1, <2>2, WrittenOK
  <2>3. CASE /\ call[t].fd # "gone" /\ disk[call[t].file][call[t].fd] # Empty
             /\ disk' \in Written(t, {Torn})
    <3>1. t \notin alone
      BY <1>1, <2>3 DEF IInv, Core, OwnOK, Own
    <3> QED BY <1>1, <2>3, <3>1, WrittenOK
  <2> QED BY <2>2, <2>3 DEF Write
<1>6. call'[t] = c
  BY <1>3 DEF IInv, Core, CallsOK
<1>7. t \in alone => Own(t)'
  BY <1>4, <1>5, <1>6 DEF Own, Midway
<1>8. UNCHANGED <<phase, memory, history>>
  BY DEF Write
<1> QED BY <1>1, <1>3, <1>4, <1>5, <1>7, <1>8, Quiet DEF history

\* A step of a save fails.  The rules that requests meet are then ahead of the
\* file, until a call succeeds.
LEMMA FailKeeps ==
  ASSUME IInv, NEW t \in Callers, Fail(t)
  PROVE  IInv'
<1>1. call[t].at \in {"open", "write", "rename"} /\ call' = [call EXCEPT ![t] = Resting]
  BY DEF Fail
<1>2. DiskOK' /\ (\A g \in Files \ {call[t].file} : disk'[g] = disk[g])
      /\ (t \in alone => disk'[call[t].file].content = disk[call[t].file].content)
  <2>1. CASE disk' = disk
    BY <2>1 DEF IInv, Core, DiskOK
  <2>2. CASE call[t].at = "write" /\ disk' \in Written(t, {Torn})
    BY <2>2, WrittenOK
  <2> QED BY <2>1, <2>2 DEF Fail
<1>3. Shape(Resting)
  BY DEF Shape
<1>4. alone' = alone \ {t} /\ UNCHANGED <<memory, acked, last>>
      /\ phase' = IF t = "main" THEN "down" ELSE phase
  BY DEF Fail
<1>5. (~failed' => ~failed) /\ (Holds(t) => failed')
  BY DEF Fail, Holds, Saves, Savers
<1> QED BY <1>1, <1>2, <1>3, <1>4, <1>5, Quiet

-----------------------------------------------------------------------------
\* A rename: the call has a next form, those that have the same file open have
\* it under another name, and the content is what was in the temporary file,
\* which is what the call saves, if it has had no rival.
LEMMA RenamedInfo ==
  ASSUME IInv, NEW t \in Callers, NEW next, Renamed(t, next)
  PROVE  /\ call[t].at = "rename" /\ Saves(t) /\ ~Midway(t) /\ call[t].file \in Files
         /\ call' = [u \in Callers |-> call'[u]] /\ call'[t] = next
         /\ \A u \in Callers \ {t} : Beside(t, u) /\ (call[u] = Resting => call'[u] = Resting)
         /\ DiskOK' /\ \A g \in Files \ {call[t].file} : disk'[g] = disk[g]
         /\ t \in alone => disk'[call[t].file].content = Whole(call[t].new)
<1>1. call[t].at = "rename" /\ Saves(t) /\ ~Midway(t)
  BY DEF Renamed, Saves, Midway
<1>2. call[t].file \in Files
  BY <1>1, SavesInfo
<1>3. /\ call' = [u \in Callers |-> call'[u]] /\ call'[t] = next
      /\ \A u \in Callers \ {t} :
           call'[u] = IF call[u].at \in {"write", "rename"} /\ call[u].file = call[t].file
                      THEN [call[u] EXCEPT !.fd = Moved(@)] ELSE call[u]
  BY DEF Renamed
<1>4. ASSUME NEW u \in Callers \ {t}
      PROVE  Beside(t, u) /\ (call[u] = Resting => call'[u] = Resting)
  <2>1. CASE call[u].at \in {"write", "rename"} /\ call[u].file = call[t].file
    <3> DEFINE c == [at |-> call[u].at, file |-> call[u].file, new |-> call[u].new,
                     fd |-> Moved(call[u].fd)]
    <3>1. /\ call[u] = [at |-> call[u].at, file |-> call[u].file,
                        new |-> call[u].new, fd |-> call[u].fd]
          /\ call[u].file \in Files /\ call[u].fd \in {"tmp", "content", "gone"} /\ Saves(u)
      BY <2>1, SavesInfo DEF Saves
    <3>2. call'[u] = [call[u] EXCEPT !.fd = Moved(call[u].fd)]
      BY <1>3, <2>1
    <3>3. call'[u] = c
      BY <3>1, <3>2
    <3>4. Moved(call[u].fd) \in {"tmp", "content", "gone"}
      BY <3>1 DEF Moved
    <3>5. Shape(c)
      BY <2>1, <3>1, <3>4 DEF Shape
    <3>6. c.at = call[u].at /\ c.file = call[u].file /\ c.new = call[u].new
      OBVIOUS
    <3>7. call[u] # Resting
      BY <2>1 DEF Resting
    <3> HIDE DEF c
    <3> QED BY <2>1, <3>1, <3>3, <3>5, <3>6, <3>7 DEF Beside
  <2>2. CASE ~(call[u].at \in {"write", "rename"} /\ call[u].file = call[t].file)
    <3>1. call'[u] = call[u]
      BY <1>3, <2>2
    <3> QED BY <3>1 DEF Beside, IInv, Core, CallsOK
  <2> QED BY <2>1, <2>2
<1>5. /\ DiskOK' /\ \A g \in Files \ {call[t].file} : disk'[g] = disk[g]
      /\ t \in alone => disk'[call[t].file].content = Whole(call[t].new)
  <2> DEFINE f == call[t].file
             e == [content |-> disk[f].tmp, tmp |-> Missing]
  <2>1. disk' = [disk EXCEPT ![f] = e]
    BY DEF Renamed, IInv, Core, DiskOK
  <2>2. DOMAIN e = {"content", "tmp"} /\ e.content = disk[f].tmp
    OBVIOUS
  <2>3. t \in alone => disk[f].tmp = Whole(call[t].new)
    BY <1>1 DEF IInv, Core, OwnOK, Own
  <2> HIDE DEF e
  <2>4. f \in Files /\ disk = [g \in Files |-> disk[g]]
        /\ \A g \in Files : DOMAIN disk[g] = {"content", "tmp"}
    BY <1>2 DEF IInv, Core, DiskOK
  <2>5. disk'[f] = e /\ (\A g \in Files \ {f} : disk'[g] = disk[g])
        /\ disk' = [g \in Files |-> disk'[g]]
    <3> HIDE DEF f
    <3> QED BY <2>1, <2>4
  <2>6. \A g \in Files : DOMAIN disk'[g] = {"content", "tmp"}
    BY <2>2, <2>4, <2>5
  <2> QED BY <2>2, <2>3, <2>5, <2>6 DEF DiskOK
<1> QED BY <1>1, <1>2, <1>3, <1>4, <1>5

\* Calls and commands that were at rest, or were not, are so still.
LEMMA PhaseKept ==
  ASSUME IInv, NEW t \in Callers, t # "main", t \in Tasks => phase = "up",
         \A u \in Callers \ {t} : call[u] = Resting => call'[u] = Resting,
         \A u \in Callers \ {t} : call'[u].file = call[u].file,
         phase' = phase
  PROVE  PhaseOK'
<1>1. call'["main"] # Resting => call["main"] # Resting /\ call'["main"].file = call["main"].file
  BY Kinds
<1>2. \A u \in Tasks : call[u] = Resting /\ phase # "up" => call'[u] = Resting
  BY Kinds
<1> QED BY <1>1, <1>2 DEF IInv, PhaseOK

\* The rules are saved: they are what the file holds, and the lock is free.
LEMMA RenameRulesKeeps ==
  ASSUME IInv, NEW t \in Tasks, RenameRules(t)
  PROVE  IInv'
<1>1. t \in Callers /\ t # "main" /\ t \notin Others
  BY Kinds
<1>2. Renamed(t, Resting) /\ call[t].file = "rules" /\ Saved(t, "here")
  BY DEF RenameRules, Savers
<1>3. /\ call[t].at = "rename" /\ Saves(t) /\ ~Midway(t)
      /\ call' = [u \in Callers |-> call'[u]] /\ call'[t] = Resting
      /\ \A u \in Callers \ {t} : Beside(t, u) /\ (call[u] = Resting => call'[u] = Resting)
      /\ DiskOK' /\ \A g \in Files \ {"rules"} : disk'[g] = disk[g]
      /\ t \in alone => disk'["rules"].content = Whole(call[t].new)
  BY <1>1, <1>2, RenamedInfo
<1>4. /\ alone' = alone \ {t} /\ last' = [g \in Files |-> last'[g]]
      /\ last'["settings"] = last["settings"]
      /\ last'["rules"] = IF t \in alone THEN "here" ELSE last["rules"]
  BY <1>2 DEF Saved, IInv, Core, HistoryOK, Files
<1>5. UNCHANGED <<phase, memory>> /\ acked' = call[t].new
  BY DEF RenameRules
<1>6. Core'
  <2>1. Shape(Resting) /\ ~Midway(t)'
    BY <1>3 DEF Shape, Midway, Resting
  <2>2. capacity' = capacity
    BY <1>5 DEF memory
  <2>3. \A g \in Files : last'[g] # "mixed" =>
          last[g] # "mixed" \/ (t \in alone /\ g = call[t].file /\ call'[t] = Resting)
    BY <1>2, <1>3, <1>4 DEF Files
  <2>4. \A u \in Callers \ {t} : Beside(t, u)
    BY <1>3
  <2> QED BY <1>1, <1>2, <1>3, <1>4, <2>1, <2>2, <2>3, <2>4, GoesOn
<1>7. ruleset = call[t].new /\ Holds(t)
  BY <1>1, <1>2, <1>3 DEF IInv, MemoryOK, Holds
<1>8. \A u \in Callers : ~Holds(u)'
  <2>1. ~Holds(t)'
    BY <1>3 DEF Holds, Saves, Resting
  <2>2. \A u \in Callers \ {t} : ~Holds(u)
    BY <1>1, <1>7 DEF IInv, Core, CallsOK
  <2> QED BY <1>3, <2>1, <2>2 DEF Beside, Holds, Saves
<1>9. t \in alone \/ last["rules"] = "mixed"
  BY <1>1, <1>2, <1>3 DEF IInv, Core, HistoryOK
<1>10. RulesOK'
  BY <1>3, <1>4, <1>5, <1>9 DEF RulesOK, Loaded, Whole, Missing, Empty, Torn
<1>11. MemoryOK' /\ InForce'
  BY <1>5, <1>7, <1>8 DEF MemoryOK, InForce, memory
<1>12. SettingsOK'
  <2>1. \A u \in Callers : Midway(u) => Midway(u)'
    BY <1>3 DEF Beside, Midway
  <2> QED BY <1>3, <1>4, <1>5, <2>1, SettingsUntouched DEF memory, Files
<1>13. PhaseOK'
  <2>1. t \in Tasks => phase = "up"
    BY <1>1, <1>3, SavesInfo
  <2>2. \A u \in Callers \ {t} : call'[u].file = call[u].file
    BY <1>3 DEF Beside
  <2> QED BY <1>1, <1>3, <1>5, <2>1, <2>2, PhaseKept
<1> QED BY <1>6, <1>10, <1>11, <1>12, <1>13 DEF IInv

\* The file of the settings is saved, and the call has yet to tell the store.
LEMMA RenameSettingsKeeps ==
  ASSUME IInv, NEW t \in Tasks, RenameSettings(t)
  PROVE  IInv'
<1>1. t \in Callers /\ t # "main" /\ t \notin Others
  BY Kinds
<1>2. Renamed(t, Told(t)) /\ call[t].file = "settings"
  BY DEF RenameSettings, Savers
<1>3. /\ call[t].at = "rename" /\ Saves(t) /\ ~Midway(t)
      /\ call' = [u \in Callers |-> call'[u]] /\ call'[t] = Told(t)
      /\ \A u \in Callers \ {t} : Beside(t, u) /\ (call[u] = Resting => call'[u] = Resting)
      /\ DiskOK' /\ \A g \in Files \ {"settings"} : disk'[g] = disk[g]
      /\ t \in alone => disk'["settings"].content = Whole(call[t].new)
  BY <1>1, <1>2, RenamedInfo
<1>4. Told(t) = [at |-> "resize", file |-> "settings", new |-> call[t].new, fd |-> call[t].fd]
      /\ phase = "up"
  <2>1. call[t] = [at |-> call[t].at, file |-> call[t].file, new |-> call[t].new, fd |-> call[t].fd]
        /\ phase = "up"
    BY <1>1, <1>3, SavesInfo
  <2> QED BY <1>2, <2>1 DEF Told
<1>5. /\ Shape(call'[t]) /\ Saves(t)' /\ Midway(t)' /\ call'[t] # Resting
      /\ call'[t].at = "resize" /\ call'[t].file = "settings" /\ call'[t].new = call[t].new
  BY <1>3, <1>4 DEF Shape, Saves, Midway, Resting, Files
<1>6. UNCHANGED <<phase, memory, history>>
  BY DEF RenameSettings
<1>7. Core'
  <2>1. t \in alone => Own(t)'
    BY <1>3, <1>5 DEF Own
  <2>2. alone' = alone /\ last' = last /\ last' = [g \in Files |-> last'[g]] /\ capacity' = capacity
    BY <1>6 DEF history, memory, IInv, Core, HistoryOK
  <2>3. \A u \in Callers \ {t} : Beside(t, u)
    BY <1>3
  <2> QED BY <1>1, <1>2, <1>3, <1>5, <2>1, <2>2, <2>3, GoesOn
<1>8. RulesOK' /\ MemoryOK' /\ InForce'
  <2>1. ~Holds(t) /\ ~Holds(t)'
    BY <1>2, <1>5 DEF Holds
  <2>2. \A u \in Callers : (Holds(u)' <=> Holds(u)) /\ (Holds(u) => call'[u].new = call[u].new)
    BY <1>3, <2>1 DEF Beside, Holds, Saves
  <2> QED BY <1>3, <1>6, <2>2, RulesUntouched DEF memory, history, Files
<1>9. SettingsOK'
  BY <1>1, <1>5 DEF SettingsOK
<1>10. PhaseOK'
  <2>1. \A u \in Callers \ {t} : call'[u].file = call[u].file
    BY <1>3 DEF Beside
  <2> QED BY <1>1, <1>3, <1>4, <1>6, <2>1, PhaseKept
<1> QED BY <1>7, <1>8, <1>9, <1>10 DEF IInv

\* A command has saved a file.
LEMMA RenameElsewhereKeeps ==
  ASSUME IInv, NEW t \in Others, RenameElsewhere(t)
  PROVE  IInv'
<1>1. t \in Callers /\ t # "main" /\ t \notin Tasks
  BY Kinds
<1>2. Renamed(t, Resting) /\ Saved(t, "elsewhere")
  BY DEF RenameElsewhere
<1>3. /\ call[t].at = "rename" /\ Saves(t) /\ ~Midway(t) /\ call[t].file \in Files
      /\ call' = [u \in Callers |-> call'[u]] /\ call'[t] = Resting
      /\ \A u \in Callers \ {t} : Beside(t, u) /\ (call[u] = Resting => call'[u] = Resting)
      /\ DiskOK' /\ \A g \in Files \ {call[t].file} : disk'[g] = disk[g]
      /\ t \in alone => disk'[call[t].file].content = Whole(call[t].new)
  BY <1>1, <1>2, RenamedInfo
<1>4. /\ alone' = alone \ {t} /\ last' = [g \in Files |-> last'[g]]
      /\ \A g \in Files \ {call[t].file} : last'[g] = last[g]
      /\ last'[call[t].file] = IF t \in alone THEN "elsewhere" ELSE last[call[t].file]
  BY <1>2, <1>3 DEF Saved, IInv, Core, HistoryOK
<1>5. UNCHANGED <<phase, memory, failed>>
      /\ acked' = IF call[t].file = "rules" THEN call[t].new ELSE acked
  BY DEF RenameElsewhere
<1>6. Core'
  <2>1. Shape(Resting) /\ ~Midway(t)'
    BY <1>3 DEF Shape, Midway, Resting
  <2>2. capacity' = capacity
    BY <1>5 DEF memory
  <2>3. \A g \in Files : last'[g] # "mixed" =>
          last[g] # "mixed" \/ (t \in alone /\ g = call[t].file /\ call'[t] = Resting)
    BY <1>3, <1>4
  <2>4. \A u \in Callers \ {t} : Beside(t, u)
    BY <1>3
  <2> QED BY <1>1, <1>3, <1>4, <2>1, <2>2, <2>3, <2>4, GoesOn
<1>7. /\ \A u \in Callers : (Holds(u)' <=> Holds(u)) /\ (Holds(u) => call'[u].new = call[u].new)
      /\ \A u \in Callers : Midway(u) => Midway(u)'
  <2>1. ~Holds(t) /\ ~Holds(t)'
    BY DEF Holds
  <2> QED BY <1>3, <2>1 DEF Beside, Holds, Saves, Midway
<1>8. t \in alone \/ last[call[t].file] = "mixed"
  BY <1>1, <1>3 DEF IInv, Core, HistoryOK
<1>9. RulesOK' /\ MemoryOK' /\ InForce'
  <2>1. CASE call[t].file = "settings"
    <3>1. last'["rules"] = last["rules"] /\ disk'["rules"] = disk["rules"] /\ acked' = acked
      BY <1>3, <1>4, <1>5, <2>1 DEF Files
    <3> QED BY <1>5, <1>7, <3>1, RulesUntouched DEF memory
  <2>2. CASE call[t].file = "rules"
    <3>1. RulesOK'
      BY <1>3, <1>4, <1>5, <1>8, <2>2 DEF RulesOK, Loaded, Whole, Missing, Empty, Torn
    <3>2. InForce'
      BY <1>4, <1>8, <2>2 DEF InForce
    <3>3. MemoryOK'
      BY <1>5, <1>7 DEF IInv, MemoryOK, memory
    <3> QED BY <3>1, <3>2, <3>3
  <2> QED BY <1>3, <2>1, <2>2 DEF Files
<1>10. SettingsOK'
  <2>1. last'["settings"] = "here" =>
          last["settings"] = "here" /\ disk'["settings"].content = disk["settings"].content
    BY <1>3, <1>4, <1>8 DEF Files
  <2> QED BY <1>5, <1>7, <2>1, SettingsUntouched DEF memory
<1>11. PhaseOK'
  <2>1. \A u \in Callers \ {t} : call'[u].file = call[u].file
    BY <1>3 DEF Beside
  <2> QED BY <1>1, <1>3, <1>5, <2>1, PhaseKept
<1> QED BY <1>6, <1>9, <1>10, <1>11 DEF IInv

-----------------------------------------------------------------------------
\* save_settings after the file: nobody else is told.
LEMMA MidwayInfo ==
  ASSUME IInv, NEW t \in Tasks, Midway(t), NEW c, Shape(c), call' = [call EXCEPT ![t] = c],
         phase' = phase
  PROVE  /\ t \in Callers /\ t # "main" /\ t \notin Others /\ phase = "up"
         /\ Saves(t) /\ call[t].file = "settings" /\ ~Holds(t)
         /\ call' = [u \in Callers |-> call'[u]] /\ call'[t] = c
         /\ \A u \in Callers \ {t} : call'[u] = call[u] /\ Beside(t, u)
         /\ PhaseOK'
<1>1. t \in Callers /\ t # "main" /\ t \notin Others /\ Saves(t)
  BY Kinds DEF Midway, Saves
<1>2. call[t].file = "settings" /\ phase = "up"
  BY <1>1, SavesInfo
<1>3. /\ call' = [u \in Callers |-> call'[u]] /\ call'[t] = c
      /\ \A u \in Callers \ {t} : call'[u] = call[u]
  BY <1>1, OneMoves DEF IInv, Core
<1>4. \A u \in Callers \ {t} : Beside(t, u)
  BY <1>3 DEF Beside, IInv, Core, CallsOK
<1>5. PhaseOK'
  BY <1>1, <1>2, <1>3, PhaseKept
<1> QED BY <1>1, <1>2, <1>3, <1>4, <1>5 DEF Holds

LEMMA ResizeKeeps ==
  ASSUME IInv, NEW t \in Tasks, Resize(t)
  PROVE  IInv'
<1> DEFINE c == [at |-> "store", file |-> "settings", new |-> call[t].new, fd |-> call[t].fd]
<1>1. call[t].at = "resize" /\ Midway(t)
  BY DEF Resize, Midway
<1>2. call' = [call EXCEPT ![t] = c]
  <2>1. call[t] = [at |-> call[t].at, file |-> call[t].file, new |-> call[t].new, fd |-> call[t].fd]
        /\ call[t].file = "settings"
    BY <1>1, SavesInfo, Kinds DEF Saves
  <2>2. [call[t] EXCEPT !.at = "store"] = c
    BY <2>1
  <2>3. call' = [call EXCEPT ![t] = [call[t] EXCEPT !.at = "store"]]
    BY Kinds DEF Resize, IInv, Core, CallsOK
  <2> QED BY <2>2, <2>3
<1>3. Shape(c) /\ c # Resting /\ c.at = "store" /\ c.file = "settings" /\ c.new = call[t].new
  BY DEF Shape, Resting, Files
<1> HIDE DEF c
<1>4. UNCHANGED <<phase, disk, settings, ruleset, history>>
      /\ capacity' = AtLeastOne(call[t].new.maxFlows)
  BY DEF Resize
<1>5. /\ t \in Callers /\ t # "main" /\ t \notin Others /\ phase = "up"
      /\ Saves(t) /\ call[t].file = "settings" /\ ~Holds(t)
      /\ call' = [u \in Callers |-> call'[u]] /\ call'[t] = c
      /\ \A u \in Callers \ {t} : call'[u] = call[u] /\ Beside(t, u)
      /\ PhaseOK'
  BY <1>1, <1>2, <1>3, <1>4, MidwayInfo
<1>6. Saves(t)' /\ Midway(t)'
  BY <1>3, <1>5 DEF Saves, Midway
<1>7. Core'
  <2>1. t \in alone => Own(t)'
    <3>1. t \in alone => disk["settings"].content = Whole(call[t].new)
      BY <1>1 DEF IInv, Core, OwnOK, Own
    <3> QED BY <1>3, <1>4, <1>5, <3>1 DEF Own
  <2>2. /\ alone' = alone /\ last' = last /\ last' = [g \in Files |-> last'[g]] /\ DiskOK'
        /\ disk' = disk
    BY <1>4 DEF history, IInv, Core, HistoryOK, DiskOK
  <2>3. \A u \in Callers \ {t} : Beside(t, u)
    BY <1>5
  <2> QED BY <1>3, <1>5, <1>6, <2>1, <2>2, <2>3, GoesOn
<1>8. RulesOK' /\ MemoryOK' /\ InForce'
  <2>1. ~Holds(t)'
    BY <1>3, <1>5 DEF Holds
  <2>2. \A u \in Callers : (Holds(u)' <=> Holds(u)) /\ (Holds(u) => call'[u].new = call[u].new)
    BY <1>5, <2>1 DEF Beside, Holds, Saves
  <2> QED BY <1>4, <2>2, RulesUntouched DEF history
<1>9. SettingsOK'
  BY <1>5, <1>6 DEF SettingsOK
<1> QED BY <1>5, <1>7, <1>8, <1>9 DEF IInv

\* The call has told everybody: without a rival, of what the file holds.
LEMMA StoreKeeps ==
  ASSUME IInv, NEW t \in Tasks, Store(t)
  PROVE  IInv'
<1>1. call[t].at = "store" /\ Midway(t) /\ call' = [call EXCEPT ![t] = Resting]
  BY DEF Store, Midway
<1>2. Shape(Resting)
  BY DEF Shape
<1>3. /\ UNCHANGED <<phase, disk, capacity, ruleset, acked, failed>>
      /\ settings' = call[t].new /\ Saved(t, "here")
  BY DEF Store
<1>4. /\ t \in Callers /\ t # "main" /\ t \notin Others /\ phase = "up"
      /\ Saves(t) /\ call[t].file = "settings" /\ ~Holds(t)
      /\ call' = [u \in Callers |-> call'[u]] /\ call'[t] = Resting
      /\ \A u \in Callers \ {t} : call'[u] = call[u] /\ Beside(t, u)
      /\ PhaseOK'
  BY <1>1, <1>2, <1>3, MidwayInfo
<1>5. /\ alone' = alone \ {t} /\ last' = [g \in Files |-> last'[g]]
      /\ last'["rules"] = last["rules"]
      /\ last'["settings"] = IF t \in alone THEN "here" ELSE last["settings"]
  BY <1>3, <1>4 DEF Saved, IInv, Core, HistoryOK, Files
<1>6. Core'
  <2>1. ~Midway(t)'
    BY <1>4 DEF Midway, Resting
  <2>2. \A g \in Files : last'[g] # "mixed" =>
          last[g] # "mixed" \/ (t \in alone /\ g = call[t].file /\ call'[t] = Resting)
    BY <1>4, <1>5 DEF Files
  <2>3. DiskOK' /\ disk' = disk
    BY <1>3 DEF IInv, Core, DiskOK
  <2>4. \A u \in Callers \ {t} : Beside(t, u)
    BY <1>4
  <2> QED BY <1>2, <1>3, <1>4, <1>5, <2>1, <2>2, <2>3, <2>4, GoesOn
<1>7. RulesOK' /\ MemoryOK' /\ InForce'
  <2>1. ~Holds(t)'
    BY <1>4 DEF Holds, Saves, Resting
  <2>2. \A u \in Callers : (Holds(u)' <=> Holds(u)) /\ (Holds(u) => call'[u].new = call[u].new)
    BY <1>4, <2>1 DEF Beside, Holds, Saves
  <2> QED BY <1>3, <1>5, <2>2, RulesUntouched
<1>8. SettingsOK'
  <2>1. CASE t \in alone
    BY <1>1, <1>3, <2>1 DEF IInv, Core, OwnOK, Own, SettingsOK
  <2>2. CASE t \notin alone
    <3>1. last["settings"] = "mixed"
      BY <1>4, <2>2 DEF IInv, Core, HistoryOK
    <3> QED BY <1>5, <2>2, <3>1 DEF SettingsOK
  <2> QED BY <2>1, <2>2
<1> QED BY <1>4, <1>6, <1>7, <1>8 DEF IInv

\* The start is over when its settings are saved: memory is what it loaded.
LEMMA StartedKeeps ==
  ASSUME IInv, Started
  PROVE  IInv'
<1>0. "main" \in Callers /\ "main" \notin Others /\ "main" \notin Tasks
  BY Kinds
<1>1. Renamed("main", Resting)
  BY DEF Started
<1>2. /\ call["main"].at = "rename" /\ Saves("main")
      /\ call' = [u \in Callers |-> call'[u]] /\ call'["main"] = Resting
      /\ \A u \in Callers \ {"main"} : Beside("main", u) /\ (call[u] = Resting => call'[u] = Resting)
      /\ DiskOK' /\ \A g \in Files \ {call["main"].file} : disk'[g] = disk[g]
      /\ "main" \in alone => disk'[call["main"].file].content = Whole(call["main"].new)
  BY <1>0, <1>1, RenamedInfo
<1>3. phase = "starting" /\ call["main"].file = "settings" /\ \A u \in Tasks : call[u] = Resting
  <2>1. phase = "starting" /\ call["main"].file = "settings"
    BY <1>0, <1>2, SavesInfo
  <2> QED BY <2>1 DEF IInv, PhaseOK
<1>4. /\ settings' = call["main"].new /\ capacity' = AtLeastOne(settings'.maxFlows)
      /\ ruleset' = Loaded(disk["rules"].content, <<>>) /\ acked' = acked
      /\ alone' = alone \ {"main"}
  BY DEF Started, Compiled
<1>5. /\ last' = [g \in Files |-> last'[g]]
      /\ last'["settings"] = IF "main" \in alone THEN "here" ELSE last["settings"]
      /\ last'["rules"] = IF last["rules"] = "elsewhere" THEN "here" ELSE last["rules"]
  BY DEF Started, IInv, Core, HistoryOK, Files
<1>6. Core'
  <2>1. Shape(Resting)
    BY DEF Shape
  <2>2. \A g \in Files : last'[g] # "mixed" =>
          last[g] # "mixed" \/ ("main" \in alone /\ g = call["main"].file /\ call'["main"] = Resting)
    BY <1>2, <1>3, <1>5 DEF Files
  <2>3. \A u \in Callers \ {"main"} : Beside("main", u)
    BY <1>2
  <2> QED BY <1>0, <1>2, <1>3, <1>4, <1>5, <2>1, <2>2, <2>3, GoesOn
<1>7. \A u \in Callers : ~Holds(u)'
  <2>1. \A u \in Callers : u \notin Others => call'[u] = Resting
    BY <1>2, <1>3, Kinds
  <2> QED BY <2>1 DEF Holds, Saves, Resting
<1>8. disk'["rules"] = disk["rules"]
  BY <1>2, <1>3 DEF Files
<1>9. RulesOK' /\ MemoryOK' /\ InForce'
  <2>1. RulesOK'
    BY <1>4, <1>5, <1>8 DEF IInv, RulesOK, Loaded, Missing, Empty, Torn
  <2>2. InForce'
    BY <1>4, <1>5 DEF IInv, RulesOK, InForce
  <2>3. MemoryOK'
    BY <1>7 DEF MemoryOK
  <2> QED BY <2>1, <2>2, <2>3
<1>10. SettingsOK'
  <2>1. CASE "main" \in alone
    BY <1>2, <1>3, <1>4, <2>1 DEF SettingsOK
  <2>2. CASE "main" \notin alone
    <3>1. last["settings"] = "mixed"
      BY <1>0, <1>2, <1>3, <2>2 DEF IInv, Core, HistoryOK
    <3> QED BY <1>5, <2>2, <3>1 DEF SettingsOK
  <2> QED BY <2>1, <2>2
<1>11. PhaseOK'
  <2>1. \A u \in Tasks : call'[u] = Resting
    BY <1>0, <1>2, <1>3, Kinds
  <2> QED BY <1>2, <2>1 DEF PhaseOK
<1> QED BY <1>6, <1>9, <1>10, <1>11 DEF IInv

\* The process is killed, and only commands go on.
LEMMA KillKeeps ==
  ASSUME IInv, Kill
  PROVE  IInv'
<1>1. /\ phase' = "down" /\ alone' = alone \intersect Others
      /\ UNCHANGED <<disk, acked, failed, last>>
      /\ call' = [u \in Callers |-> IF u \in Others THEN call[u] ELSE Resting]
  BY DEF Kill
<1>2. \A u \in Callers : call'[u] = IF u \in Others THEN call[u] ELSE Resting
  BY <1>1
<1>3. \A u \in Callers : (Saves(u)' => Saves(u) /\ u \in Others /\ call'[u] = call[u]) /\ ~Holds(u)'
  BY <1>2 DEF Saves, Holds, Resting
<1>4. CallsOK'
  <2>1. \A u \in Callers : Shape(call'[u])
    BY <1>2 DEF IInv, Core, CallsOK, Shape
  <2>2. call' = [u \in Callers |-> call'[u]]
    BY <1>1
  <2> QED BY <1>2, <1>3, <2>1, <2>2, Kinds DEF IInv, Core, CallsOK
<1>5. \A u \in alone' : u \in alone /\ u \in Others /\ u \in Callers /\ call'[u] = call[u]
  BY <1>1, <1>2 DEF IInv, Core, HistoryOK
<1>6. HistoryOK' /\ DiskOK'
  <2>1. alone' \subseteq Callers /\ last' = [g \in Files |-> last'[g]] /\ DiskOK'
    BY <1>1 DEF IInv, Core, HistoryOK, DiskOK
  <2>2. ASSUME NEW u \in alone'
        PROVE  Saves(u)' /\ \A v \in Callers : Saves(v)' /\ call'[v].file = call'[u].file => v = u
    BY <1>3, <1>5 DEF IInv, Core, HistoryOK, Saves
  <2>3. \A u \in Callers : Saves(u)' /\ last'[call'[u].file] # "mixed" => u \in alone'
    BY <1>1, <1>3 DEF IInv, Core, HistoryOK
  <2> QED BY <2>1, <2>2, <2>3 DEF HistoryOK
<1>7. OwnOK'
  <2> SUFFICES ASSUME NEW u \in alone' PROVE Own(u)'
    BY DEF OwnOK
  <2>1. call'[u] = call[u] /\ Own(u) /\ ~Midway(u)
    BY <1>5 DEF IInv, Core, OwnOK, CallsOK, Midway
  <2> QED BY <1>1, <2>1 DEF Own, Midway
<1>8. PhaseOK'
  BY <1>1, <1>2, Kinds DEF PhaseOK
<1>9. RulesOK'
  BY <1>1 DEF IInv, RulesOK, Loaded, Missing, Empty, Torn
<1>10. MemoryOK' /\ InForce' /\ SettingsOK'
  BY <1>1, <1>3 DEF MemoryOK, InForce, SettingsOK
<1> QED BY <1>4, <1>6, <1>7, <1>8, <1>9, <1>10 DEF IInv, Core

\* A step that changes nothing.
LEMMA StutterKeeps ==
  ASSUME IInv, UNCHANGED vars
  PROVE  IInv'
<1>1. Core'
  BY DEF IInv, vars, memory, history, Core, CallsOK, DiskOK, HistoryOK, OwnOK, Own, Holds, Saves,
         Midway
<1>2. PhaseOK' /\ RulesOK' /\ MemoryOK' /\ InForce' /\ SettingsOK'
  BY DEF IInv, vars, memory, history, PhaseOK, RulesOK, MemoryOK, InForce, SettingsOK, Holds, Saves,
         Midway, Loaded
<1> QED BY <1>1, <1>2 DEF IInv

LEMMA StepKeeps == IInv /\ [Next]_vars => IInv'
<1> SUFFICES ASSUME IInv, [Next]_vars PROVE IInv'
  OBVIOUS
<1>1. ASSUME NEW t \in Tasks, ChangeRules(t) PROVE IInv'
  <2>1. phase = "up" /\ ~Saves(t)
    BY <1>1 DEF ChangeRules, Working, Saves
  <2>2. PICK list : Persist(t, list)
    BY <1>1 DEF ChangeRules
  <2> QED BY <2>1, <2>2, PersistKeeps
<1>2. ASSUME NEW t \in Tasks, MergeRules(t) PROVE IInv'
  <2>1. phase = "up" /\ ~Saves(t)
    BY <1>2 DEF MergeRules, Resting, Saves, IInv, PhaseOK
  <2>2. PICK list : Persist(t, list)
    BY <1>2 DEF MergeRules
  <2> QED BY <2>1, <2>2, PersistKeeps
<1>3. ASSUME NEW t \in Tasks,
             \/ ListRules(t) \/ ChangeSettings(t) \/ RenameSettings(t) \/ Resize(t) \/ Store(t)
             \/ RenameRules(t)
      PROVE  IInv'
  BY <1>3, ListRulesKeeps, ChangeSettingsKeeps, RenameSettingsKeeps, ResizeKeeps, StoreKeeps,
     RenameRulesKeeps
<1>4. ASSUME NEW t \in Others, ImportElsewhere(t) \/ StartElsewhere(t) \/ RenameElsewhere(t)
      PROVE  IInv'
  BY <1>4, ImportElsewhereKeeps, StartElsewhereKeeps, RenameElsewhereKeeps
<1>5. ASSUME NEW t \in Callers, Open(t) \/ Write(t) \/ Fail(t)
      PROVE  IInv'
  BY <1>5, OpenKeeps, WriteKeeps, FailKeeps
<1> QED BY <1>1, <1>2, <1>3, <1>4, <1>5, StartKeeps, StartedKeeps, KillKeeps, StutterKeeps DEF Next

-----------------------------------------------------------------------------
\* However many calls and commands run and whatever fails, the file of the
\* rules is never torn and holds what was saved last, here or by `hamsy rules
\* import', unless an import and another save overlapped and none without a
\* rival has succeeded since; and the rules that requests meet are those, if
\* they were saved here or loaded, unless a call is saving others or the last
\* one failed (RulesStore::persist, atomic_write_json, rules::import).
THEOREM RulesAreKept == Spec => []RulesSurvive
<1> QED BY InitOK, StepKeeps, RulesImplied, PTL DEF Spec

-----------------------------------------------------------------------------
\* The types.
AllSettings == [paused : BOOLEAN, maxFlows : Sizes]
Lists       == Seq(AllRules)

\* The values of a file, and what it may hold besides.
ValuesOf(f) == IF f = "settings" THEN AllSettings ELSE Lists
Contents(f) == {Missing, Empty, Torn} \union {Whole(v) : v \in ValuesOf(f)}

\* What a call carries.
Carries(c) ==
  /\ c.at = "listed" => c.list \in Lists
  /\ c.at \notin {"idle", "listed"} => c.new \in ValuesOf(c.file)

CallsTyped == \A t \in Callers : Carries(call[t])
DiskTyped  == \A f \in Files : disk[f].content \in Contents(f) /\ disk[f].tmp \in Contents(f)

MemoryTyped ==
  /\ phase \in {"down", "starting", "up"}
  /\ settings \in AllSettings /\ capacity \in Nat \ {0}
  /\ rules \in Lists /\ ruleset = rules

\* With IInv, the inductive invariant.
TypeInv == MemoryTyped /\ DiskTyped /\ CallsTyped

-----------------------------------------------------------------------------
\* What the operations make of a list of rules is one.
LEMMA FirstOK ==
  ASSUME NEW list \in Lists, NEW i, Has(list, i)
  PROVE  First(list, i) \in 1..Len(list) /\ list[First(list, i)].id = i
<1> DEFINE Is(k) == list[k].id = i /\ \A j \in 1..(k - 1) : list[j].id # i
           T == {k \in 1..Len(list) : list[k].id = i}
<1>1. Len(list) \in Nat /\ DOMAIN list = 1..Len(list)
  BY DEF Lists
<1>2. T \subseteq Nat /\ T # {}
  BY <1>1 DEF Has
<1>3. PICK k \in T : \A j \in T : k <= j
  <2> HIDE DEF T
  <2> QED BY <1>2, Ring!LeastNat
<1>4. k \in DOMAIN list /\ Is(k)
  <2>1. \A j \in 1..(k - 1) : j \in 1..Len(list) /\ ~(k <= j)
    BY <1>1
  <2> QED BY <1>1, <1>3, <2>1
<1>5. First(list, i) = CHOOSE n \in DOMAIN list : Is(n)
  BY DEF First
<1>6. First(list, i) \in DOMAIN list /\ Is(First(list, i))
  <2> HIDE DEF Is
  <2> QED BY <1>4, <1>5
<1> QED BY <1>1, <1>6

LEMMA RuleOK == \A i \in Ids, on \in BOOLEAN : Rule(i, on) \in AllRules
BY DEF AllRules

\* A place of a list is given up.
LEMMA RemoveOK ==
  ASSUME NEW list \in Lists, NEW k \in 1..Len(list)
  PROVE  RemoveAt(list, k) \in Lists
<1>1. SubSeq(list, 1, k - 1) \in Lists /\ SubSeq(list, k + 1, Len(list)) \in Lists
  BY DEF Lists
<1> QED BY <1>1 DEF RemoveAt, Lists

LEMMA ChangesOK ==
  ASSUME NEW list \in Lists
  PROVE  /\ Created(list) \subseteq Lists /\ Updated(list) \subseteq Lists
         /\ Deleted(list) \subseteq Lists /\ Toggled(list) \subseteq Lists
         /\ Imported \subseteq Lists
<1>1. Created(list) \subseteq Lists
  BY DEF Created, Lists
<1>2. Updated(list) \subseteq Lists
  <2> SUFFICES ASSUME NEW i \in Ids, NEW r \in AllRules, Has(list, i)
               PROVE  [list EXCEPT ![First(list, i)] = r] \in Lists
    BY DEF Updated
  <2> QED BY FirstOK DEF Lists
<1>3. Deleted(list) \subseteq Lists
  BY FirstOK, RemoveOK DEF Deleted
<1>4. Toggled(list) \subseteq Lists
  <2> SUFFICES ASSUME NEW i \in Ids, Has(list, i)
               PROVE  [list EXCEPT ![First(list, i)].enabled = ~@] \in Lists
    BY DEF Toggled
  <2> DEFINE k == First(list, i)
             r == [list[k] EXCEPT !.enabled = ~list[k].enabled]
  <2>1. k \in 1..Len(list)
    BY FirstOK
  <2> HIDE DEF k
  <2>2. list[k] \in AllRules
    BY <2>1 DEF Lists
  <2>3. PICK j \in Ids, on \in BOOLEAN : list[k] = [id |-> j, enabled |-> on]
    BY <2>2 DEF AllRules, Rule
  <2>4. r = [id |-> j, enabled |-> ~on]
    BY <2>3
  <2>5. r = Rule(j, ~on)
    BY <2>4 DEF Rule
  <2>6. r \in AllRules
    BY <2>5, RuleOK
  <2>7. [list EXCEPT ![k].enabled = ~@] = [list EXCEPT ![k] = r]
    OBVIOUS
  <2> HIDE DEF r
  <2>8. [list EXCEPT ![k] = r] \in Lists
    BY <2>1, <2>6 DEF Lists
  <2> QED BY <2>7, <2>8 DEF k
<1>5. Imported \subseteq Lists
  <2>1. <<>> \in Lists
    BY DEF Lists
  <2>2. \A r \in AllRules : <<r>> \in Lists
    BY DEF Lists
  <2> QED BY <2>1, <2>2 DEF Imported
<1> QED BY <1>1, <1>2, <1>3, <1>4, <1>5

-----------------------------------------------------------------------------
\* What is computed element by element stays in its set, if every element keeps
\* it there.
Halves == [done : Lists, rest : Lists]

LEMMA PickedOK ==
  ASSUME NEW s \in Halves, NEW i
  PROVE  Picked(s, i) \in Halves
<1>1. s.done \in Lists /\ s.rest \in Lists
  BY DEF Halves
<1>2. CASE ~Has(s.rest, i)
  BY <1>2 DEF Picked
<1>3. CASE Has(s.rest, i)
  <2> DEFINE k == First(s.rest, i)
  <2>1. k \in 1..Len(s.rest)
    BY <1>1, <1>3, FirstOK
  <2>2. Picked(s, i) = [done |-> Append(s.done, s.rest[k]), rest |-> RemoveAt(s.rest, k)]
    BY <1>3 DEF Picked
  <2> HIDE DEF k
  <2>3. RemoveAt(s.rest, k) \in Lists
    BY <1>1, <2>1, RemoveOK
  <2>4. s.rest[k] \in AllRules
    BY <1>1, <2>1 DEF Lists
  <2>5. Append(s.done, s.rest[k]) \in Lists
    BY <1>1, <2>4 DEF Lists
  <2> QED BY <2>2, <2>3, <2>5 DEF Halves
<1> QED BY <1>2, <1>3

LEMMA ReorderOK ==
  ASSUME NEW list \in Lists, NEW ids, Len(ids) \in Nat
  PROVE  Reorder(list, ids) \in Lists
<1> DEFINE n == Len(ids)
           base == [done |-> <<>>, rest |-> list]
           h == [k \in 1..n |-> [s \in Halves |-> Picked(s, ids[k])]]
           F(g) == [k \in 0..n |-> IF k = 0 THEN base ELSE Picked(g[k - 1], ids[k])]
           f == CHOOSE g : g = F(g)
           S == {k \in Nat : k <= n => f[k] \in Halves}
<1>1. base \in Halves
  BY DEF Halves, Lists
<1>2. Reorder(list, ids) = f[n].done \o f[n].rest
  BY DEF Reorder
<1>3. f = F(f)
  <2>1. h \in [1..n -> [Halves -> Halves]]
    BY PickedOK
  <2>2. \A k \in 1..n, s \in Halves : h[k][s] = Picked(s, ids[k])
    OBVIOUS
  <2> HIDE DEF h, base
  <2>3. PICK g \in [0..n -> Halves] : g[0] = base /\ \A k \in 1..n : g[k] = h[k][g[k - 1]]
    BY <1>1, <2>1, Ring!PrimitiveRecursion
  <2>4. \A k \in 1..n : g[k] = Picked(g[k - 1], ids[k])
    <3> SUFFICES ASSUME NEW k \in 1..n PROVE g[k] = Picked(g[k - 1], ids[k])
      OBVIOUS
    <3>1. k - 1 \in 0..n
      OBVIOUS
    <3>2. g[k - 1] \in Halves
      BY <2>3, <3>1
    <3> QED BY <2>2, <2>3, <3>2
  <2>5. g = F(g)
    <3>1. \A k \in 0..n : g[k] = IF k = 0 THEN base ELSE Picked(g[k - 1], ids[k])
      BY <2>3, <2>4
    <3> QED BY <2>3, <3>1
  <2> HIDE DEF F
  <2> QED BY <2>5
<1> HIDE DEF f, base
<1>4. 0 \in S
  BY <1>1, <1>3
<1>5. ASSUME NEW k \in Nat, k \in S PROVE k + 1 \in S
  <2> SUFFICES ASSUME k + 1 <= n PROVE f[k + 1] \in Halves
    OBVIOUS
  <2>1. f[k] \in Halves
    BY <1>5
  <2>2. k + 1 \in 0..n /\ k + 1 # 0 /\ (k + 1) - 1 = k
    OBVIOUS
  <2>3. f[k + 1] = Picked(f[k], ids[k + 1])
    BY <1>3, <2>2
  <2> QED BY <2>1, <2>3, PickedOK
<1>6. f[n] \in Halves
  <2>1. \A k \in Nat : k \in S
    <3> HIDE DEF S
    <3> QED BY <1>4, <1>5, Ring!SetInduction
  <2> QED BY <2>1
<1> HIDE DEF n
<1>7. f[n].done \in Lists /\ f[n].rest \in Lists
  BY <1>6 DEF Halves
<1> QED BY <1>2, <1>7 DEF Lists

LEMMA ReorderedOK ==
  ASSUME NEW list \in Lists
  PROVE  Reordered(list) \subseteq Lists
<1>1. ASSUME NEW i \in Ids, NEW j \in Ids PROVE Reorder(list, <<i, j>>) \in Lists
  <2>1. Len(<<i, j>>) \in Nat
    OBVIOUS
  <2> QED BY <2>1, ReorderOK
<1>2. ASSUME NEW x \in Reordered(list) PROVE x \in Lists
  <2>1. PICK i \in Ids, j \in Ids : x = Reorder(list, <<i, j>>)
    BY <1>2 DEF Reordered
  <2> QED BY <1>1, <2>1
<1> QED BY <1>2

LEMMA PutOK ==
  ASSUME NEW list \in Lists, NEW r \in AllRules
  PROVE  Put(list, r) \in Lists
<1>1. CASE Has(list, r.id)
  BY <1>1, FirstOK DEF Put, Lists
<1>2. CASE ~Has(list, r.id)
  BY <1>2 DEF Put, Lists
<1> QED BY <1>1, <1>2

LEMMA MergeOK ==
  ASSUME NEW list \in Lists, NEW incoming \in Lists
  PROVE  Merge(list, incoming) \in Lists
<1> DEFINE n == Len(incoming)
           h == [k \in 1..n |-> [s \in Lists |-> Put(s, incoming[k])]]
           F(g) == [k \in 0..n |-> IF k = 0 THEN list ELSE Put(g[k - 1], incoming[k])]
           f == CHOOSE g : g = F(g)
           S == {k \in Nat : k <= n => f[k] \in Lists}
<1>1. n \in Nat /\ \A k \in 1..n : incoming[k] \in AllRules
  BY DEF Lists
<1>2. Merge(list, incoming) = f[n]
  BY DEF Merge
<1>3. f = F(f)
  <2>1. h \in [1..n -> [Lists -> Lists]]
    BY <1>1, PutOK
  <2>2. \A k \in 1..n, s \in Lists : h[k][s] = Put(s, incoming[k])
    OBVIOUS
  <2> HIDE DEF h, n
  <2>3. PICK g \in [0..n -> Lists] : g[0] = list /\ \A k \in 1..n : g[k] = h[k][g[k - 1]]
    BY <1>1, <2>1, Ring!PrimitiveRecursion
  <2>4. \A k \in 1..n : g[k] = Put(g[k - 1], incoming[k])
    <3> SUFFICES ASSUME NEW k \in 1..n PROVE g[k] = Put(g[k - 1], incoming[k])
      OBVIOUS
    <3>1. k - 1 \in 0..n
      BY <1>1
    <3>2. g[k - 1] \in Lists
      BY <2>3, <3>1
    <3> QED BY <2>2, <2>3, <3>2
  <2>5. g = F(g)
    <3>1. \A k \in 0..n : g[k] = IF k = 0 THEN list ELSE Put(g[k - 1], incoming[k])
      BY <1>1, <2>3, <2>4
    <3> QED BY <2>3, <3>1
  <2> HIDE DEF F
  <2> QED BY <2>5
<1> HIDE DEF f, n
<1>4. 0 \in S
  BY <1>1, <1>3
<1>5. ASSUME NEW k \in Nat, k \in S PROVE k + 1 \in S
  <2> SUFFICES ASSUME k + 1 <= n PROVE f[k + 1] \in Lists
    OBVIOUS
  <2>1. f[k] \in Lists
    BY <1>1, <1>5
  <2>2. k + 1 \in 0..n /\ k + 1 # 0 /\ (k + 1) - 1 = k /\ k + 1 \in 1..n
    BY <1>1
  <2>3. f[k + 1] = Put(f[k], incoming[k + 1])
    BY <1>3, <2>2
  <2> QED BY <1>1, <2>1, <2>2, <2>3, PutOK
<1>6. f[n] \in Lists
  <2>1. \A k \in Nat : k \in S
    <3> HIDE DEF S
    <3> QED BY <1>4, <1>5, Ring!SetInduction
  <2> QED BY <1>1, <2>1
<1> QED BY <1>2, <1>6

-----------------------------------------------------------------------------
\* What is loaded has the type of what was saved, or of the default.
LEMMA LoadedOK ==
  ASSUME NEW f, NEW x \in Contents(f), NEW d \in ValuesOf(f)
  PROVE  Loaded(x, d) \in ValuesOf(f)
<1>1. CASE x \in {Missing, Empty, Torn}
  BY <1>1 DEF Loaded
<1>2. CASE x \notin {Missing, Empty, Torn}
  <2>1. PICK v \in ValuesOf(f) : x = Whole(v)
    BY <1>2 DEF Contents
  <2>2. x.value = v
    BY <2>1 DEF Whole
  <2> QED BY <1>2, <2>2 DEF Loaded
<1> QED BY <1>1, <1>2

LEMMA DefaultOK == Default \in AllSettings /\ Default.maxFlows \in Sizes
<1>1. \E n \in Sizes : n > 0
  BY ConfigurationAssumption
<1>2. PICK n \in Sizes : Default = [paused |-> FALSE, maxFlows |-> n]
  BY <1>1 DEF Default, Setting
<1>3. Default.maxFlows = n
  BY <1>2
<1> QED BY <1>2, <1>3 DEF AllSettings

\* The store keeps a flow at least.
LEMMA FloorOK ==
  ASSUME NEW s \in AllSettings
  PROVE  s.maxFlows \in Nat /\ AtLeastOne(s.maxFlows) \in Nat \ {0}
<1>1. s.maxFlows \in Sizes
  BY DEF AllSettings
<1>2. s.maxFlows \in Nat
  BY <1>1, ConfigurationAssumption
<1> QED BY <1>2 DEF AtLeastOne

LEMMA RestingOK == Carries(Resting)
BY DEF Carries, Resting

LEMMA TypesInit == Init => TypeInv
<1> SUFFICES ASSUME Init PROVE TypeInv
  OBVIOUS
<1>1. MemoryTyped
  <2>1. <<>> \in Lists
    BY DEF Lists
  <2> QED BY <2>1, DefaultOK, FloorOK DEF Init, MemoryTyped
<1>2. DiskTyped
  BY DEF Init, DiskTyped, Contents, Files
<1>3. CallsTyped
  BY RestingOK DEF Init, CallsTyped
<1> QED BY <1>1, <1>2, <1>3 DEF TypeInv

\* One call takes its next form.
LEMMA CallTyped ==
  ASSUME IInv, CallsTyped, NEW t \in Callers, NEW c, Carries(c), call' = [call EXCEPT ![t] = c]
  PROVE  CallsTyped'
<1>1. call'[t] = c /\ \A u \in Callers \ {t} : call'[u] = call[u]
  BY OneMoves DEF IInv, Core
<1> QED BY <1>1 DEF CallsTyped, Carries

\* A step that leaves memory and files alone.
LEMMA MemoryKept ==
  ASSUME IInv, TypeInv, NEW t \in Callers, NEW c, Carries(c), call' = [call EXCEPT ![t] = c],
         UNCHANGED <<settings, capacity, rules, ruleset, disk>>,
         phase' \in {"down", "starting", "up"}
  PROVE  TypeInv'
<1>1. CallsTyped'
  BY CallTyped DEF TypeInv
<1>2. MemoryTyped' /\ DiskTyped'
  BY DEF TypeInv, MemoryTyped, DiskTyped
<1> QED BY <1>1, <1>2 DEF TypeInv

\* A call begins to save a value of its file.
LEMMA BeginTyped ==
  ASSUME IInv, TypeInv, NEW t \in Callers, NEW f, NEW new \in ValuesOf(f), BeginSaving(t, f, new),
         UNCHANGED <<settings, capacity, rules, ruleset, disk>>,
         phase' \in {"down", "starting", "up"}
  PROVE  TypeInv'
<1>1. Carries(Saving(f, new))
  BY DEF Carries, Saving
<1> QED BY <1>1, MemoryKept DEF BeginSaving

LEMMA PersistTyped ==
  ASSUME IInv, TypeInv, NEW t \in Tasks, NEW list \in Lists, Persist(t, list)
  PROVE  TypeInv'
<1>1. Carries(Saving("rules", list))
  BY DEF Carries, Saving, ValuesOf
<1>2. CallsTyped'
  BY <1>1, CallTyped, Kinds DEF Persist, BeginSaving, TypeInv
<1>3. MemoryTyped' /\ DiskTyped'
  BY DEF Persist, Compiled, TypeInv, MemoryTyped, DiskTyped
<1> QED BY <1>2, <1>3 DEF TypeInv

LEMMA RulesCallsTyped ==
  ASSUME IInv, TypeInv, NEW t \in Tasks, ChangeRules(t) \/ ListRules(t) \/ MergeRules(t)
  PROVE  TypeInv'
<1>0. t \in Callers /\ rules \in Lists
  BY Kinds DEF TypeInv, MemoryTyped
<1>1. CASE ChangeRules(t)
  <2>1. PICK list \in Created(rules) \union Updated(rules) \union Deleted(rules)
                   \union Toggled(rules) \union Reordered(rules) \union Imported : Persist(t, list)
    BY <1>1 DEF ChangeRules
  <2>2. list \in Lists
    BY <1>0, ChangesOK, ReorderedOK
  <2> QED BY <2>1, <2>2, PersistTyped
<1>2. CASE ListRules(t)
  <2> DEFINE c == [at |-> "listed", file |-> "rules", list |-> rules]
  <2>1. Carries(c)
    BY <1>0 DEF Carries
  <2>2. /\ call' = [call EXCEPT ![t] = c] /\ UNCHANGED <<settings, capacity, rules, ruleset, disk>>
        /\ phase' = phase
    BY <1>2 DEF ListRules, memory
  <2>3. phase' \in {"down", "starting", "up"}
    BY <2>2 DEF TypeInv, MemoryTyped
  <2> HIDE DEF c
  <2> QED BY <1>0, <2>1, <2>2, <2>3, MemoryKept
<1>3. CASE MergeRules(t)
  <2>1. PICK r \in AllRules : Persist(t, Merge(call[t].list, <<r>>))
    BY <1>3 DEF MergeRules
  <2>2. call[t].list \in Lists /\ <<r>> \in Lists
    BY <1>0, <1>3 DEF MergeRules, TypeInv, CallsTyped, Carries, Lists
  <2> QED BY <2>1, <2>2, MergeOK, PersistTyped
<1> QED BY <1>1, <1>2, <1>3

LEMMA ImportElsewhereTyped ==
  ASSUME IInv, TypeInv, NEW t \in Others, ImportElsewhere(t)
  PROVE  TypeInv'
<1> DEFINE loaded == Loaded(disk["rules"].content, <<>>)
<1>1. PICK list \in Imported \union {Merge(loaded, <<r>>) : r \in AllRules} :
        BeginSaving(t, "rules", list)
  BY DEF ImportElsewhere
<1>2. loaded \in Lists
  <2>1. <<>> \in ValuesOf("rules") /\ disk["rules"].content \in Contents("rules")
    BY DEF Lists, ValuesOf, TypeInv, DiskTyped, Files
  <2>2. loaded \in ValuesOf("rules")
    BY <2>1, LoadedOK
  <2> QED BY <2>2 DEF ValuesOf
<1> HIDE DEF loaded
<1>3. list \in ValuesOf("rules")
  <2>1. \A r \in AllRules : <<r>> \in Lists
    BY DEF Lists
  <2>2. \A r \in AllRules : Merge(loaded, <<r>>) \in Lists
    BY <1>2, <2>1, MergeOK
  <2>3. <<>> \in Lists
    BY DEF Lists
  <2> QED BY <1>1, <2>1, <2>2, <2>3 DEF ValuesOf, Imported
<1>4. UNCHANGED <<settings, capacity, rules, ruleset, disk>> /\ phase' \in {"down", "starting", "up"}
  BY DEF ImportElsewhere, memory, TypeInv, MemoryTyped
<1> QED BY <1>1, <1>3, <1>4, BeginTyped, Kinds

LEMMA ChangeSettingsTyped ==
  ASSUME IInv, TypeInv, NEW t \in Tasks, ChangeSettings(t)
  PROVE  TypeInv'
<1>1. PICK new \in {[settings EXCEPT !.paused = p] : p \in BOOLEAN}
                     \union {[settings EXCEPT !.maxFlows = n] : n \in Sizes} :
             BeginSaving(t, "settings", new)
  BY DEF ChangeSettings
<1>2. settings \in AllSettings
  BY DEF TypeInv, MemoryTyped
<1>3. new \in ValuesOf("settings")
  BY <1>2 DEF AllSettings, ValuesOf
<1>4. UNCHANGED <<settings, capacity, rules, ruleset, disk>> /\ phase' \in {"down", "starting", "up"}
  BY DEF ChangeSettings, memory, TypeInv, MemoryTyped
<1> QED BY <1>1, <1>3, <1>4, BeginTyped, Kinds

\* What a start begins to save.
LEMMA StartsWith ==
  ASSUME TypeInv, NEW paused \in BOOLEAN
  PROVE  LET loaded == Loaded(disk["settings"].content, Default)
         IN [loaded EXCEPT !.paused = @ \/ paused] \in ValuesOf("settings")
<1> DEFINE loaded == Loaded(disk["settings"].content, Default)
<1>1. Default \in ValuesOf("settings") /\ disk["settings"].content \in Contents("settings")
  BY DefaultOK DEF ValuesOf, TypeInv, DiskTyped, Files
<1>2. loaded \in ValuesOf("settings")
  BY <1>1, LoadedOK
<1> HIDE DEF loaded
<1>3. [loaded EXCEPT !.paused = loaded.paused \/ paused] \in ValuesOf("settings")
  BY <1>2 DEF AllSettings, ValuesOf
<1> QED BY <1>3 DEF loaded

LEMMA StartTyped ==
  ASSUME IInv, TypeInv,
         \/ Start
         \/ \E t \in Others : StartElsewhere(t)
  PROVE  TypeInv'
<1> DEFINE loaded == Loaded(disk["settings"].content, Default)
           new(paused) == [loaded EXCEPT !.paused = @ \/ paused]
<1>1. PICK t \in Callers, paused \in BOOLEAN : BeginSaving(t, "settings", new(paused))
  BY Kinds DEF Start, StartElsewhere
<1>2. new(paused) \in ValuesOf("settings")
  BY StartsWith
<1>3. UNCHANGED <<settings, capacity, rules, ruleset, disk>> /\ phase' \in {"down", "starting", "up"}
  BY DEF Start, StartElsewhere, memory, TypeInv, MemoryTyped
<1> HIDE DEF new
<1> QED BY <1>1, <1>2, <1>3, BeginTyped

\* What a call that saves carries, wherever it is.
LEMMA CarriesOn ==
  ASSUME TypeInv, NEW t \in Callers, Saves(t), NEW c,
         c.file = call[t].file, c.new = call[t].new, c.at # "listed"
  PROVE  Carries(c) /\ call[t].new \in ValuesOf(call[t].file)
BY DEF TypeInv, CallsTyped, Carries, Saves

\* save_settings goes on after the file.
LEMMA MidwayTyped ==
  ASSUME IInv, TypeInv, NEW t \in Tasks, Midway(t)
  PROVE  /\ t \in Callers /\ Saves(t) /\ call[t].new \in AllSettings
         /\ call[t] = [at |-> call[t].at, file |-> "settings", new |-> call[t].new,
                       fd |-> call[t].fd]
<1>1. t \in Callers /\ Saves(t)
  BY Kinds DEF Midway, Saves
<1>2. /\ call[t].file = "settings"
      /\ call[t] = [at |-> call[t].at, file |-> call[t].file, new |-> call[t].new,
                    fd |-> call[t].fd]
  BY <1>1, SavesInfo
<1>3. call[t].new \in AllSettings
  BY <1>1, <1>2 DEF TypeInv, CallsTyped, Carries, Saves, ValuesOf
<1> QED BY <1>1, <1>2, <1>3

LEMMA ResizeTyped ==
  ASSUME IInv, TypeInv, NEW t \in Tasks, Resize(t)
  PROVE  TypeInv'
<1> DEFINE c == [call[t] EXCEPT !.at = "store"]
<1>1. /\ t \in Callers /\ Saves(t) /\ call[t].new \in AllSettings
      /\ call[t] = [at |-> call[t].at, file |-> "settings", new |-> call[t].new,
                    fd |-> call[t].fd]
  BY MidwayTyped DEF Resize, Midway
<1>2. c.file = call[t].file /\ c.new = call[t].new /\ c.at = "store"
  BY <1>1
<1>3. call' = [call EXCEPT ![t] = c]
  BY DEF Resize
<1> HIDE DEF c
<1>4. CallsTyped'
  BY <1>1, <1>2, <1>3, CarriesOn, CallTyped DEF TypeInv
<1>5. capacity' \in Nat \ {0}
  BY <1>1, FloorOK DEF Resize
<1>6. MemoryTyped' /\ DiskTyped'
  BY <1>5 DEF Resize, TypeInv, MemoryTyped, DiskTyped
<1> QED BY <1>4, <1>6 DEF TypeInv

LEMMA StoreTyped ==
  ASSUME IInv, TypeInv, NEW t \in Tasks, Store(t)
  PROVE  TypeInv'
<1>1. t \in Callers /\ call[t].new \in AllSettings
  BY MidwayTyped DEF Store, Midway
<1>2. CallsTyped'
  BY <1>1, RestingOK, CallTyped DEF Store, TypeInv
<1>3. MemoryTyped' /\ DiskTyped'
  BY <1>1 DEF Store, TypeInv, MemoryTyped, DiskTyped
<1> QED BY <1>2, <1>3 DEF TypeInv

-----------------------------------------------------------------------------
\* One part of a file takes what it may hold.
LEMMA PartTyped ==
  ASSUME IInv, TypeInv, NEW f \in Files, NEW p \in {"tmp", "content"}, NEW v \in Contents(f),
         disk' = [disk EXCEPT ![f][p] = v]
  PROVE  DiskTyped'
<1>1. DiskOK /\ \A g \in Files : disk[g].content \in Contents(g) /\ disk[g].tmp \in Contents(g)
  BY DEF IInv, Core, TypeInv, DiskTyped
<1>2. CASE p = "tmp"
  <2>1. /\ disk'[f]["tmp"] = v /\ \A q \in {"content", "tmp"} \ {"tmp"} : disk'[f][q] = disk[f][q]
        /\ \A g \in Files \ {f} : disk'[g] = disk[g]
    BY <1>1, <1>2, PartChanges
  <2> QED BY <1>1, <2>1 DEF DiskTyped, Contents
<1>3. CASE p = "content"
  <2>1. /\ disk'[f]["content"] = v /\ \A q \in {"content", "tmp"} \ {"content"} : disk'[f][q] = disk[f][q]
        /\ \A g \in Files \ {f} : disk'[g] = disk[g]
    BY <1>1, <1>3, PartChanges
  <2> QED BY <1>1, <2>1 DEF DiskTyped, Contents
<1> QED BY <1>2, <1>3

LEMMA OpenTyped ==
  ASSUME IInv, TypeInv, NEW t \in Callers, Open(t)
  PROVE  TypeInv'
<1> DEFINE c == [at |-> "write", file |-> call[t].file, new |-> call[t].new, fd |-> "tmp"]
<1>1. call[t].at = "open" /\ Saves(t)
  BY DEF Open, Saves
<1>2. /\ call[t].file \in Files
      /\ call[t] = [at |-> call[t].at, file |-> call[t].file, new |-> call[t].new,
                    fd |-> call[t].fd]
  BY <1>1, SavesInfo
<1>3. call' = [call EXCEPT ![t] = c]
  <2> DEFINE d == [call[t] EXCEPT !.at = "write"]
  <2>1. d = [at |-> "write", file |-> call[t].file, new |-> call[t].new, fd |-> call[t].fd]
    BY <1>2
  <2>2. call' = [call EXCEPT ![t] = [d EXCEPT !.fd = "tmp"]]
    BY DEF Open, IInv, Core, CallsOK
  <2> HIDE DEF d
  <2>3. [d EXCEPT !.fd = "tmp"] = c
    BY <2>1
  <2> QED BY <2>2, <2>3
<1>4. c.file = call[t].file /\ c.new = call[t].new /\ c.at # "listed"
  OBVIOUS
<1> HIDE DEF c
<1>5. CallsTyped'
  BY <1>1, <1>3, <1>4, CarriesOn, CallTyped DEF TypeInv
<1>6. DiskTyped'
  <2>1. disk' = [disk EXCEPT ![call[t].file]["tmp"] = Empty]
    BY DEF Open
  <2>2. Empty \in Contents(call[t].file)
    BY DEF Contents
  <2> QED BY <1>2, <2>1, <2>2, PartTyped
<1>7. MemoryTyped'
  BY DEF Open, memory, TypeInv, MemoryTyped
<1> QED BY <1>5, <1>6, <1>7 DEF TypeInv

\* What a write makes of the disk.
LEMMA WrittenTyped ==
  ASSUME IInv, TypeInv, NEW t \in Callers, call[t].at = "write", NEW contents,
         contents \subseteq Contents(call[t].file), disk' \in Written(t, contents)
  PROVE  DiskTyped'
<1>1. Saves(t) /\ call[t].file \in Files /\ call[t].fd \in {"tmp", "content", "gone"}
  BY SavesInfo DEF Saves
<1>2. CASE call[t].fd = "gone"
  BY <1>2 DEF Written, TypeInv, DiskTyped, Contents
<1>3. CASE call[t].fd # "gone"
  <2>1. PICK v \in contents : disk' = [disk EXCEPT ![call[t].file][call[t].fd] = v]
    BY <1>3 DEF Written
  <2> QED BY <1>1, <1>3, <2>1, PartTyped
<1> QED BY <1>2, <1>3

LEMMA WriteTyped ==
  ASSUME IInv, TypeInv, NEW t \in Callers, Write(t)
  PROVE  TypeInv'
<1> DEFINE c == [call[t] EXCEPT !.at = "rename"]
<1>1. call[t].at = "write" /\ Saves(t) /\ call' = [call EXCEPT ![t] = c]
  BY DEF Write, Saves
<1>2. call[t] = [at |-> call[t].at, file |-> call[t].file, new |-> call[t].new,
                 fd |-> call[t].fd]
  BY <1>1, SavesInfo
<1>3. c.file = call[t].file /\ c.new = call[t].new /\ c.at # "listed"
  BY <1>2
<1> HIDE DEF c
<1>4. CallsTyped' /\ call[t].new \in ValuesOf(call[t].file)
  BY <1>1, <1>3, CarriesOn, CallTyped DEF TypeInv
<1>5. {Whole(call[t].new)} \subseteq Contents(call[t].file) /\ {Torn} \subseteq Contents(call[t].file)
  BY <1>4 DEF Contents
<1>6. DiskTyped'
  BY <1>1, <1>5, WrittenTyped DEF Write
<1>7. MemoryTyped'
  BY DEF Write, memory, TypeInv, MemoryTyped
<1> QED BY <1>4, <1>6, <1>7 DEF TypeInv

\* A rename: the call goes on with what it carried, or is at rest.
LEMMA RenamedTyped ==
  ASSUME IInv, TypeInv, NEW t \in Callers, NEW next, Carries(next), Renamed(t, next)
  PROVE  DiskTyped' /\ CallsTyped'
<1>1. /\ call[t].file \in Files /\ call'[t] = next
      /\ \A u \in Callers \ {t} : Beside(t, u)
  BY RenamedInfo
<1>2. CallsTyped'
  <2> SUFFICES ASSUME NEW u \in Callers \ {t} PROVE Carries(call'[u])
    BY <1>1 DEF CallsTyped, Carries
  <2>1. CASE call'[u] = call[u]
    BY <2>1 DEF TypeInv, CallsTyped
  <2>2. CASE Saves(u)
    BY <1>1, <2>2, CarriesOn DEF Beside, Saves
  <2> QED BY <1>1, <2>1, <2>2 DEF Beside
<1>3. DiskTyped'
  <2> DEFINE f == call[t].file
             e == [content |-> disk[f].tmp, tmp |-> Missing]
  <2>1. disk' = [disk EXCEPT ![f] = e]
    BY <1>1 DEF Renamed, IInv, Core, DiskOK
  <2>2. e.content = disk[f].tmp /\ e.tmp = Missing
    OBVIOUS
  <2> HIDE DEF e
  <2>3. disk'[f] = e /\ \A g \in Files \ {f} : disk'[g] = disk[g]
    BY <1>1, <2>1 DEF IInv, Core, DiskOK
  <2> QED BY <1>1, <2>2, <2>3 DEF TypeInv, DiskTyped, Contents
<1> QED BY <1>2, <1>3

LEMMA RenameRulesTyped ==
  ASSUME IInv, TypeInv, NEW t \in Callers, RenameRules(t) \/ RenameElsewhere(t)
  PROVE  TypeInv'
<1>1. DiskTyped' /\ CallsTyped'
  BY RestingOK, RenamedTyped DEF RenameRules, RenameElsewhere
<1>2. MemoryTyped'
  BY DEF RenameRules, RenameElsewhere, memory, TypeInv, MemoryTyped
<1> QED BY <1>1, <1>2 DEF TypeInv

LEMMA RenameSettingsTyped ==
  ASSUME IInv, TypeInv, NEW t \in Tasks, RenameSettings(t)
  PROVE  TypeInv'
<1>1. t \in Callers /\ Saves(t) /\ Renamed(t, Told(t))
  BY Kinds DEF RenameSettings, Renamed, Saves
<1>2. call[t] = [at |-> call[t].at, file |-> call[t].file, new |-> call[t].new, fd |-> call[t].fd]
  BY <1>1, SavesInfo
<1>3. Told(t).file = call[t].file /\ Told(t).new = call[t].new /\ Told(t).at # "listed"
  BY <1>2 DEF Told
<1>4. Carries(Told(t))
  BY <1>1, <1>3, CarriesOn
<1>5. DiskTyped' /\ CallsTyped'
  BY <1>1, <1>4, RenamedTyped
<1>6. MemoryTyped'
  BY DEF RenameSettings, memory, TypeInv, MemoryTyped
<1> QED BY <1>5, <1>6 DEF TypeInv

LEMMA FailTyped ==
  ASSUME IInv, TypeInv, NEW t \in Callers, Fail(t)
  PROVE  TypeInv'
<1>1. DiskTyped'
  <2>1. CASE disk' = disk
    BY <2>1 DEF TypeInv, DiskTyped, Contents
  <2>2. CASE call[t].at = "write" /\ disk' \in Written(t, {Torn})
    <3>1. {Torn} \subseteq Contents(call[t].file)
      BY DEF Contents
    <3> QED BY <2>2, <3>1, WrittenTyped
  <2> QED BY <2>1, <2>2 DEF Fail
<1>2. CallsTyped'
  BY RestingOK, CallTyped DEF Fail, TypeInv
<1>3. MemoryTyped'
  BY DEF Fail, memory, TypeInv, MemoryTyped
<1> QED BY <1>1, <1>2, <1>3 DEF TypeInv

LEMMA StartedTyped ==
  ASSUME IInv, TypeInv, Started
  PROVE  TypeInv'
<1>1. "main" \in Callers /\ Saves("main") /\ Renamed("main", Resting)
  BY Kinds DEF Started, Saves
<1>2. call["main"].file = "settings"
  BY <1>1, SavesInfo
<1>3. call["main"].new \in AllSettings
  BY <1>1, <1>2 DEF TypeInv, CallsTyped, Carries, Saves, ValuesOf
<1>4. DiskTyped' /\ CallsTyped'
  BY <1>1, RestingOK, RenamedTyped
<1>5. rules' \in Lists
  <2>1. <<>> \in ValuesOf("rules") /\ disk["rules"].content \in Contents("rules")
    BY DEF Lists, ValuesOf, TypeInv, DiskTyped, Files
  <2>2. rules' \in ValuesOf("rules")
    BY <2>1, LoadedOK DEF Started
  <2> QED BY <2>2 DEF ValuesOf
<1>6. capacity' \in Nat \ {0}
  BY <1>3, FloorOK DEF Started
<1>7. MemoryTyped'
  BY <1>3, <1>5, <1>6 DEF Started, Compiled, MemoryTyped
<1> QED BY <1>4, <1>7 DEF TypeInv

LEMMA KillTyped ==
  ASSUME TypeInv, Kill
  PROVE  TypeInv'
<1>1. CallsTyped'
  BY RestingOK DEF Kill, TypeInv, CallsTyped
<1>2. MemoryTyped'
  <2>1. <<>> \in Lists
    BY DEF Lists
  <2>2. Default \in AllSettings /\ AtLeastOne(Default.maxFlows) \in Nat \ {0}
    BY DefaultOK, FloorOK
  <2> QED BY <2>1, <2>2 DEF Kill, MemoryTyped
<1>3. DiskTyped'
  BY DEF Kill, TypeInv, DiskTyped
<1> QED BY <1>1, <1>2, <1>3 DEF TypeInv

LEMMA TypesStutter ==
  ASSUME TypeInv, UNCHANGED vars
  PROVE  TypeInv'
BY DEF vars, memory, TypeInv, MemoryTyped, DiskTyped, CallsTyped, Carries

LEMMA TypesStep == IInv /\ TypeInv /\ [Next]_vars => TypeInv'
BY RulesCallsTyped, ChangeSettingsTyped, RenameSettingsTyped, ResizeTyped, StoreTyped,
   ImportElsewhereTyped, RenameRulesTyped, OpenTyped, WriteTyped, FailTyped, StartTyped,
   StartedTyped, KillTyped, TypesStutter, Kinds DEF Next

LEMMA TypesImplied == IInv /\ TypeInv => TypeOK
<1> SUFFICES ASSUME IInv, TypeInv PROVE TypeOK
  OBVIOUS
<1> DEFINE L == Savers("rules") \ Others
<1>1. \A t \in L : t \in Callers /\ Holds(t)
  BY DEF Savers, Holds, Saves
<1>2. \A t, u \in L : t = u
  BY <1>1 DEF IInv, Core, CallsOK
<1>3. Cardinality(L) <= 1
  <2> HIDE DEF L
  <2>1. CASE L = {}
    BY <2>1, FS_EmptySet
  <2>2. CASE L # {}
    <3>1. PICK t \in L : TRUE
      BY <2>2
    <3>2. L = {t}
      BY <1>2, <3>1
    <3>3. Cardinality(L) = 1
      BY <3>2, FS_Singleton
    <3> QED BY <3>3
  <2> QED BY <2>1, <2>2
<1>4. ASSUME NEW t \in Callers
      PROVE  call[t].at \in {"idle", "listed", "open", "write", "rename", "resize", "store"}
  <2>1. Shape(call[t])
    BY DEF IInv, Core, CallsOK
  <2> QED BY <2>1 DEF Shape, Resting
<1> QED BY <1>3, <1>4 DEF TypeInv, MemoryTyped, AllSettings, Lists, TypeOK

LEMMA BothInductive ==
  /\ Init => IInv /\ TypeInv
  /\ IInv /\ TypeInv /\ [Next]_vars => (IInv /\ TypeInv)'
BY InitOK, TypesInit, StepKeeps, TypesStep

\* Whatever the files hold and whichever calls and commands overlap, what
\* memory holds are settings and rules, the store keeps a flow at least,
\* requests meet the rules that the list has, and one call at most has the lock
\* of the rules.
THEOREM TypesHold == Spec => []TypeOK
<1> QED BY BothInductive, TypesImplied, PTL DEF Spec

\* However many calls and commands run and whatever fails, once no call here is
\* saving the settings, memory, settings.json and the flow store agree, if the
\* settings were last saved here and that save overlapped none; the store keeps
\* one flow when maxFlows is 0 (put_settings, ApiState::save_settings).
THEOREM SettingsComeToAgree == Spec => []SettingsAgree
<1>1. IInv /\ TypeInv => SettingsAgree
  <2>1. TypeInv => settings.maxFlows \in Nat
    BY FloorOK DEF TypeInv, MemoryTyped
  <2> QED BY <2>1, SettingsImplied
<1> QED BY <1>1, BothInductive, PTL DEF Spec
=============================================================================

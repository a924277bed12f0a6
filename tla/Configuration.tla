---------------------------- MODULE Configuration ----------------------------
(***************************************************************************)
(* The settings and the rules: in memory, where requests read them, and in *)
(* settings.json and rules.json, from which the next start loads them      *)
(* (hamsy-core/src/settings.rs and rules_store.rs, the routes of hamsy-api *)
(* that change them, and the start of hamsy-cli/src/run.rs).               *)
(*                                                                         *)
(* A file is written in steps: a temporary file with a fixed name is       *)
(* opened, which empties it, written, and renamed.  Rules are changed and  *)
(* saved under one lock; settings are read, merged, saved and stored with  *)
(* nothing held in between.  Every write can fail, and the process can die *)
(* anywhere.                                                               *)
(*                                                                         *)
(* Other processes write the same files under the same names and take no   *)
(* lock: `hamsy rules import', and a `hamsy run' in the same directory     *)
(* that gives up once it finds its ports taken.                            *)
(***************************************************************************)
EXTENDS Integers, Sequences, FiniteSets, SequencesExt

CONSTANTS Tasks,     \* calls of the API that run at the same time
          Others,    \* commands that run at the same time, each its own process
          Ids,       \* of rules
          Sizes,     \* values of maxFlows
          MaxRules,  \* bound: rules in the list
          MaxFaults, \* bound: times a write fails or the process dies
          Scenarios  \* bound: who saves what in a behaviour, as pairs of a caller
                     \* and "settings" or "rules"

ASSUME ConfigurationAssumption ==
  /\ Sizes \subseteq Nat /\ (\E n \in Sizes : n > 0) /\ Ids \subseteq Nat
  /\ "main" \notin Tasks \union Others /\ Tasks \intersect Others = {}

VARIABLES
  phase,     \* of the process: "down", "starting", "up"
  disk,      \* for each file: its content, and that of its temporary file
  settings,  \* ApiState's settings
  capacity,  \* what the flow store was told of them
  rules,     \* RulesStore's list
  ruleset,   \* the compiled rules, which requests are matched against
  call,      \* what each call does, and the start ("main")
  acked,     \* history: the rules that the last call that succeeded saved
  failed,    \* history: a call that changed the rules has failed since
  alone,     \* history: calls that save a file, with no rival since they began
  last,      \* history: who saved each file last: a call "here", a command
             \* "elsewhere", or rivals, "mixed"
  faults,    \* bound
  calls      \* the choice of Scenarios

memory  == <<settings, capacity, rules, ruleset>>
history == <<acked, failed, alone, last>>
vars == <<phase, disk, memory, call, history, faults, calls>>

-----------------------------------------------------------------------------
Callers == Tasks \union Others \union {"main"}
Rule(i, on) == [id |-> i, enabled |-> on]
AllRules == {Rule(i, on) : i \in Ids, on \in BOOLEAN}

Setting(p, n) == [paused |-> p, maxFlows |-> n]
Default == Setting(FALSE, CHOOSE n \in Sizes : n > 0)

\* max(1): how many flows the store keeps, whatever maxFlows says.
AtLeastOne(n) == IF n = 0 THEN 1 ELSE n

\* What a file holds besides a value that parses: it is missing, empty, or
\* holds parts of what was written.
Missing  == [is |-> "missing"]
Empty    == [is |-> "empty"]
Torn     == [is |-> "torn"]
Whole(v) == [is |-> "whole", value |-> v]

Resting == [at |-> "idle"]
Saving(f, new) == [at |-> "open", file |-> f, new |-> new, fd |-> "none"]

\* Settings::load and RulesStore::load.
Loaded(content, default) ==
  IF content \in {Missing, Empty, Torn} THEN default ELSE content.value

Working == phase = "up"
Savers(f) == {t \in Callers : call[t].at \notin {"idle", "listed"} /\ call[t].file = f}

\* The write lock of the rules, which is this process's own, is held.  Mutant:
\* the file is written without it.
LockedToChange == \E t \in Savers("rules") \ Others : call[t].at = "open"
Locked == Savers("rules") \ Others # {}

\* Those who save what t saves with nothing to keep them apart.
Rivals(t, f) == {u \in Savers(f) : f = "settings" \/ {t, u} \intersect Others # {}}

\* A call begins to save a file, ...
BeginSaving(t, f, new) ==
  /\ call' = [call EXCEPT ![t] = Saving(f, new)]
  /\ alone' = IF Rivals(t, f) = {} THEN alone \union {t} ELSE alone \ Rivals(t, f)
  /\ last' = IF Rivals(t, f) = {} THEN last ELSE [last EXCEPT ![f] = "mixed"]

\* ... and has saved it.
Saved(t, by) ==
  /\ last' = IF t \in alone THEN [last EXCEPT ![call[t].file] = by] ELSE last
  /\ alone' = alone \ {t}

-----------------------------------------------------------------------------
\* The operations of RulesStore on its list; one that does not find its rule
\* returns an error before it has done anything.
First(list, i) == CHOOSE k \in DOMAIN list :
                    list[k].id = i /\ \A j \in 1..(k - 1) : list[j].id # i
Has(list, i)   == \E k \in DOMAIN list : list[k].id = i

Created(list)  == {Append(list, r) : r \in AllRules}
Updated(list)  == {[list EXCEPT ![First(list, i)] = r] : i \in {j \in Ids : Has(list, j)}, r \in AllRules}
Deleted(list)  == {RemoveAt(list, First(list, i)) : i \in {j \in Ids : Has(list, j)}}
Toggled(list)  == {[list EXCEPT ![First(list, i)].enabled = ~@] : i \in {j \in Ids : Has(list, j)}}

\* reorder: what is listed comes first, in that order.
Picked(s, i) ==
  IF ~Has(s.rest, i) THEN s
  ELSE LET k == First(s.rest, i)
       IN [done |-> Append(s.done, s.rest[k]), rest |-> RemoveAt(s.rest, k)]

Reorder(list, ids) ==
  LET upto[n \in 0..Len(ids)] == IF n = 0 THEN [done |-> <<>>, rest |-> list]
                                 ELSE Picked(upto[n - 1], ids[n])
      end == upto[Len(ids)]
  IN end.done \o end.rest
Reordered(list) == {Reorder(list, <<i, j>>) : i, j \in Ids}

Imported == {<<>>} \union {<<r>> : r \in AllRules}

\* import with replace: false.
Put(list, r) ==
  IF Has(list, r.id) THEN [list EXCEPT ![First(list, r.id)] = r] ELSE Append(list, r)

Merge(list, incoming) ==
  LET upto[n \in 0..Len(incoming)] == IF n = 0 THEN list ELSE Put(upto[n - 1], incoming[n])
  IN upto[Len(incoming)]

\* RulesStore::persist begins: under the lock, the compiled rules are replaced,
\* and then the file.
\* Mutant: the compiled rules stay as they are.
NotCompiled(list) == ruleset
Compiled(list) == list

Persist(t, list) ==
  /\ ~Locked /\ Len(list) <= MaxRules
  /\ rules' = list
  /\ ruleset' = Compiled(list)
  /\ BeginSaving(t, "rules", list)
  /\ UNCHANGED <<phase, disk, settings, capacity, acked, failed, faults, calls>>

ChangeRules(t) ==
  /\ Working /\ <<t, "rules">> \in calls /\ call[t].at = "idle"
  /\ \E list \in Created(rules) \union Updated(rules) \union Deleted(rules)
                   \union Toggled(rules) \union Reordered(rules) \union Imported :
       Persist(t, list)

\* The route lists the rules, ...
ListRules(t) ==
  /\ Working /\ <<t, "rules">> \in calls /\ call[t].at = "idle" /\ ~Locked
  /\ call' = [call EXCEPT ![t] = [at |-> "listed", file |-> "rules", list |-> rules]]
  /\ UNCHANGED <<phase, disk, memory, history, faults, calls>>

\* ... and imports them with what it merged into them.
MergeRules(t) ==
  /\ call[t].at = "listed"
  /\ \E r \in AllRules : Persist(t, Merge(call[t].list, <<r>>))

\* `hamsy rules import' loads the file into a store of its own, and replaces or
\* merges what it has loaded.
ImportElsewhere(t) ==
  /\ <<t, "rules">> \in calls /\ call[t].at = "idle"
  /\ LET loaded == Loaded(disk["rules"].content, <<>>)
     IN \E list \in Imported \union {Merge(loaded, <<r>>) : r \in AllRules} :
          Len(list) <= MaxRules /\ BeginSaving(t, "rules", list)
  /\ UNCHANGED <<phase, disk, memory, acked, failed, faults, calls>>

-----------------------------------------------------------------------------
\* put_settings and the Pause command: the settings are read and merged.
ChangeSettings(t) ==
  /\ Working /\ <<t, "settings">> \in calls /\ call[t].at = "idle"
  /\ \E new \in {[settings EXCEPT !.paused = p] : p \in BOOLEAN}
                  \union {[settings EXCEPT !.maxFlows = n] : n \in Sizes} :
       BeginSaving(t, "settings", new)
  /\ UNCHANGED <<phase, disk, memory, acked, failed, faults, calls>>

\* ApiState::save_settings: the file has been written; then the flow store is
\* told, ...
Resize(t) ==
  /\ call[t].at = "resize"
  /\ capacity' = AtLeastOne(call[t].new.maxFlows)
  /\ call' = [call EXCEPT ![t].at = "store"]
  /\ UNCHANGED <<phase, disk, settings, rules, ruleset, history, faults, calls>>

\* ... and then the settings are replaced.
Store(t) ==
  /\ call[t].at = "store"
  /\ settings' = call[t].new
  /\ call' = [call EXCEPT ![t] = Resting]
  /\ Saved(t, "here")
  /\ UNCHANGED <<phase, disk, capacity, rules, ruleset, acked, failed, faults, calls>>

-----------------------------------------------------------------------------
\* atomic_write_json.  The temporary file is opened, and empty.
Open(t) ==
  /\ call[t].at = "open"
  /\ disk' = [disk EXCEPT ![call[t].file].tmp = Empty]
  /\ call' = [call EXCEPT ![t].at = "write", ![t].fd = "tmp"]
  /\ UNCHANGED <<phase, memory, history, faults, calls>>

\* What a write of one of these contents makes of the disk, wherever the file
\* that was opened is by now.
Written(t, contents) ==
  IF call[t].fd = "gone" THEN {disk}
  ELSE {[disk EXCEPT ![call[t].file][call[t].fd] = c] : c \in contents}

\* It is written.  When another call has written into it since it was opened,
\* some of that may be left.
Write(t) ==
  /\ call[t].at = "write"
  /\ \/ disk' \in Written(t, {Whole(call[t].new)})
     \/ /\ call[t].fd # "gone" /\ disk[call[t].file][call[t].fd] # Empty
        /\ disk' \in Written(t, {Torn})
  /\ call' = [call EXCEPT ![t].at = "rename"]
  /\ UNCHANGED <<phase, memory, history, faults, calls>>

\* After the rename a call has its file open under another name, or under none.
Moved(fd) == CASE fd = "tmp" -> "content" [] fd = "content" -> "gone" [] OTHER -> fd

Renamed(t, next) ==
  /\ call[t].at = "rename" /\ disk[call[t].file].tmp # Missing
  /\ disk' = [disk EXCEPT ![call[t].file] = [content |-> @.tmp, tmp |-> Missing]]
  /\ call' = [u \in Callers |->
                IF u = t THEN next
                ELSE IF call[u].at \in {"write", "rename"} /\ call[u].file = call[t].file
                     THEN [call[u] EXCEPT !.fd = Moved(@)] ELSE call[u]]

\* The rules are saved: the lock is released, and the call succeeds.
RenameRules(t) ==
  /\ t \in Savers("rules") /\ Renamed(t, Resting)
  /\ acked' = call[t].new
  /\ failed' = FALSE
  /\ Saved(t, "here")
  /\ UNCHANGED <<phase, memory, faults, calls>>

\* The settings are saved.  Mutant: the flow store is not told of them.
Untold(t) == [call[t] EXCEPT !.at = "store"]
Told(t)   == [call[t] EXCEPT !.at = "resize"]

RenameSettings(t) ==
  /\ t \in Savers("settings") /\ Renamed(t, Told(t))
  /\ UNCHANGED <<phase, memory, history, faults, calls>>

\* Another process has saved a file, and nobody tells this one.
RenameElsewhere(t) ==
  /\ Renamed(t, Resting)
  /\ acked' = IF call[t].file = "rules" THEN call[t].new ELSE acked
  /\ Saved(t, "elsewhere")
  /\ UNCHANGED <<phase, memory, failed, faults, calls>>

\* A step of it fails, a rename also because another call has renamed the
\* temporary file: the call returns the error, and a start gives up.
NothingToRename(t) == call[t].at = "rename" /\ disk[call[t].file].tmp = Missing

Fail(t) ==
  /\ call[t].at \in {"open", "write", "rename"}
  /\ NothingToRename(t) \/ faults < MaxFaults
  /\ faults' = IF NothingToRename(t) THEN faults ELSE faults + 1
  /\ \/ disk' = disk
     \/ call[t].at = "write" /\ disk' \in Written(t, {Torn})
  /\ call' = [call EXCEPT ![t] = Resting]
  /\ phase' = IF t = "main" THEN "down" ELSE phase
  /\ alone' = alone \ {t}
  /\ failed' = (failed \/ t \in Savers("rules") \ Others)
  /\ UNCHANGED <<memory, acked, last, calls>>

-----------------------------------------------------------------------------
\* run: the settings are loaded, changed by the arguments, and saved, ...
Start ==
  /\ phase = "down"
  /\ phase' = "starting"
  /\ LET loaded == Loaded(disk["settings"].content, Default)
     IN \E paused \in BOOLEAN :
          BeginSaving("main", "settings", [loaded EXCEPT !.paused = @ \/ paused])
  /\ UNCHANGED <<disk, memory, acked, failed, faults, calls>>

\* (another process does so, too, before it finds its ports taken)
StartElsewhere(t) ==
  /\ <<t, "settings">> \in calls /\ call[t].at = "idle"
  /\ LET loaded == Loaded(disk["settings"].content, Default)
     IN \E paused \in BOOLEAN :
          BeginSaving(t, "settings", [loaded EXCEPT !.paused = @ \/ paused])
  /\ UNCHANGED <<phase, disk, memory, acked, failed, faults, calls>>

\* ... and then the flow store is made and the rules are loaded.
Started ==
  /\ call["main"].at = "rename" /\ Renamed("main", Resting)
  /\ phase' = "up"
  /\ settings' = call["main"].new
  /\ capacity' = AtLeastOne(settings'.maxFlows)
  /\ rules' = Loaded(disk["rules"].content, <<>>)
  /\ ruleset' = Compiled(rules')
  /\ failed' = FALSE
  /\ last' = [last EXCEPT !["settings"] = IF "main" \in alone THEN "here" ELSE @,
                           !["rules"] = IF @ = "elsewhere" THEN "here" ELSE @]
  /\ alone' = alone \ {"main"}
  /\ UNCHANGED <<acked, faults, calls>>

\* The process is killed, and its memory is lost.
Kill ==
  /\ phase # "down" /\ faults < MaxFaults
  /\ faults' = faults + 1
  /\ phase' = "down"
  /\ call' = [t \in Callers |-> IF t \in Others THEN call[t] ELSE Resting]
  /\ alone' = alone \intersect Others
  /\ settings' = Default /\ capacity' = AtLeastOne(Default.maxFlows)
  /\ rules' = <<>> /\ ruleset' = <<>>
  /\ UNCHANGED <<disk, acked, failed, last, calls>>

Init ==
  /\ phase = "down"
  /\ disk = [f \in {"settings", "rules"} |-> [content |-> Missing, tmp |-> Missing]]
  /\ settings = Default /\ capacity = AtLeastOne(Default.maxFlows)
  /\ rules = <<>> /\ ruleset = <<>>
  /\ call = [t \in Callers |-> Resting]
  /\ acked = <<>>
  /\ failed = FALSE
  /\ alone = {}
  /\ last = [f \in {"settings", "rules"} |-> "here"]
  /\ faults = 0
  /\ calls \in Scenarios

Next ==
  \/ \E t \in Tasks : \/ ChangeRules(t) \/ ListRules(t) \/ MergeRules(t)
                      \/ ChangeSettings(t) \/ RenameSettings(t) \/ Resize(t) \/ Store(t)
                      \/ RenameRules(t)
  \/ \E t \in Others : ImportElsewhere(t) \/ StartElsewhere(t) \/ RenameElsewhere(t)
  \/ \E t \in Callers : Open(t) \/ Write(t) \/ Fail(t)
  \/ Start \/ Started \/ Kill

Spec == Init /\ [][Next]_vars

-----------------------------------------------------------------------------
\* Each variable stays in its range: what is loaded, whatever a file holds, are
\* settings and rules, and the store keeps a flow at least.  One call has the
\* lock of the rules.
TypeOK ==
  /\ phase \in {"down", "starting", "up"}
  /\ settings \in [paused : BOOLEAN, maxFlows : Sizes] /\ capacity \in Nat \ {0}
  /\ rules \in Seq(AllRules) /\ ruleset = rules
  /\ \A t \in Callers : call[t].at \in {"idle", "listed", "open", "write", "rename", "resize", "store"}
  /\ Cardinality(Savers("rules") \ Others) <= 1

\* "so readers never observe a partial write" (settings.rs), nor does the next
\* start.  Unless a command and another save of the rules overlapped, and no
\* save that overlapped none has succeeded since: the file holds what the last
\* save that succeeded saved, here or elsewhere, and is never torn; and when it
\* was saved here, or before the start, those are the rules that requests meet.
\* Only a call that fails leaves them ahead of the file.
RulesSurvive ==
  LET stored == Loaded(disk["rules"].content, <<>>) IN
  last["rules"] # "mixed" =>
    /\ disk["rules"].content \notin {Empty, Torn} /\ stored = acked
    /\ Working /\ ~Locked /\ ~failed /\ last["rules"] = "here" => ruleset = stored

\* Once no call here saves the settings, memory, file and flow store agree,
\* whichever writes failed and whatever overlapped before, if they were last
\* saved here, and that save overlapped none.  The store keeps one flow when
\* the settings say none.
SettingsAgree ==
  Working /\ last["settings"] = "here" /\ Savers("settings") \subseteq Others =>
    /\ disk["settings"].content = Whole(settings)
    /\ capacity = IF settings.maxFlows > 0 THEN settings.maxFlows ELSE 1
=============================================================================

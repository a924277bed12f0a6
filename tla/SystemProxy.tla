----------------------------- MODULE SystemProxy -----------------------------
(***************************************************************************)
(* Who owns the system proxy setting of the machine: the marker file of    *)
(* hamsy-api/src/sysproxy_state.rs, and the three places that change the   *)
(* setting through it: `hamsy run` when it starts, stops or panics         *)
(* (hamsy-cli/src/run.rs, main.rs), POST /api/system-proxy                 *)
(* (hamsy-api/src/routes/settings.rs) and `hamsy proxy on|off`             *)
(* (hamsy-cli/src/sysproxy_cmd.rs).                                        *)
(*                                                                         *)
(* Nothing locks the marker or the setting: every read, removal and write  *)
(* of the file and every change of the setting is a step of its own, and   *)
(* calls of different threads and processes interleave.  What the setting  *)
(* is on each platform, and which commands change it, is SystemSettings.   *)
(***************************************************************************)
EXTENDS FiniteSets, SystemSettings

CONSTANTS Instances,    \* `hamsy run` processes, each known by its proxy port
          Callers,      \* who calls, for which instance's port: its main
                        \* task, its API or the command line
          UserConfigs,  \* settings a user may have made
          MaxOverlap,   \* bound: calls in progress at a time
          MaxFaults     \* bound: hard kills, and system commands or file
                        \* writes that fail

ASSUME CallersAssumption ==
  /\ Callers \subseteq [who : Instances, role : {"main", "api", "cli"}]
  /\ [who : Instances, role : {"main"}] \subseteq Callers
ASSUME ConfigsAssumption ==
  /\ Instances \subseteq STRING
  /\ \A o \in UserConfigs : IsSettings(o) /\ \A i \in Instances : ~StatusFor(o, i)
ASSUME BoundsAssumption == MaxOverlap \in Nat /\ MaxFaults \in Nat

VARIABLES
  os,        \* the proxy settings of the machine
  marker,    \* sysproxy-state.json: the snapshot in it, Nothing if there is no file
  inst,      \* instance -> where `run` stands
  pc,        \* caller -> the next step of its call, "idle" if none
  op,        \* caller -> what it called
  saved,     \* caller -> the snapshot it holds in memory
  original,  \* history: the effect of the settings the user made, or asked
             \* for, last, until a call is torn
  acquired,  \* history: the instances that enabled the system proxy, or tried,
             \* since they started, until they drain
  torn,      \* history: calls overlapped, a step failed, or a kill cut a call
  faults     \* bound: kills and failures so far

calls   == <<pc, op, saved>>
history == <<original, acquired>>
vars    == <<os, marker, inst, calls, history, torn, faults>>

-----------------------------------------------------------------------------
Nothing == [nothing |-> TRUE]
Main(i) == [who |-> i, role |-> "main"]

\* What restoring a snapshot makes of the settings.
Applied(o, s) == Done(o, RestoreCommands(o, s))

\* The first step of each function: acquire calls recover_stale first, the
\* others start by taking the marker.  Mutant: acquire does not recover.
FirstStepUnrecovered(f) == IF f = "acquire" THEN "snapshot" ELSE "read"
FirstStep(f) == "read"

\* What follows when the marker is absent, and when the snapshot is restored.
Unmarked(f) == CASE f = "acquire" -> "snapshot" [] f = "release" -> "disable"
                 [] OTHER -> "idle"
Restored(f) == IF f = "acquire" THEN "snapshot" ELSE "idle"

Busy(c) == pc[c] # "idle"

\* Bound: once a call is torn, nothing is acquired any more.
Begin(c, f) ==
  /\ ~Busy(c)
  /\ f = "acquire" => ~torn
  /\ Cardinality({d \in Callers : Busy(d)}) < MaxOverlap
  /\ pc' = [pc EXCEPT ![c] = FirstStep(f)]
  /\ op' = [op EXCEPT ![c] = f]
  /\ torn' = (torn \/ \E d \in Callers : Busy(d))
  /\ UNCHANGED saved

Go(c, step) ==
  /\ pc' = [pc EXCEPT ![c] = step]
  /\ op' = [op EXCEPT ![c] = IF step = "idle" THEN "none" ELSE @]

\* A step either succeeds, or fails and is counted.
Fails(failed) ==
  /\ failed => faults < MaxFaults
  /\ faults' = IF failed THEN faults + 1 ELSE faults
  /\ torn' = (torn \/ failed)

-----------------------------------------------------------------------------
Init ==
  /\ os \in UserConfigs
  /\ marker = Nothing
  /\ inst = [i \in Instances |-> "down"]
  /\ pc = [c \in Callers |-> "idle"]
  /\ op = [c \in Callers |-> "none"]
  /\ saved = [c \in Callers |-> Nothing]
  /\ original = Effect(os)
  /\ acquired = {}
  /\ torn = FALSE
  /\ faults = 0

\* read_marker
ReadMarker(c) ==
  /\ pc[c] = "read"
  /\ saved' = [saved EXCEPT ![c] = marker]
  /\ Go(c, IF marker = Nothing THEN Unmarked(op[c]) ELSE "remove")
  /\ UNCHANGED <<os, marker, inst, history, torn, faults>>

\* take_marker: the file is removed before anything is restored; a failure is
\* ignored, and the marker left.  Mutant: the file stays.
KeepMarker(c) ==
  /\ pc[c] = "remove"
  /\ Go(c, "restore")
  /\ UNCHANGED <<os, marker, inst, saved, history, torn, faults>>

RemoveMarker(c) ==
  /\ pc[c] = "remove"
  /\ \E failed \in BOOLEAN : Fails(failed) /\ marker' = IF failed THEN marker ELSE Nothing
  /\ Go(c, "restore")
  /\ UNCHANGED <<os, inst, saved, history>>

\* Mutant: the marker is dropped and nothing is restored.
RestoreNothing(c) ==
  /\ pc[c] = "restore"
  /\ saved' = [saved EXCEPT ![c] = Nothing]
  /\ Go(c, Restored(op[c]))
  /\ UNCHANGED <<os, marker, inst, history, torn, faults>>

\* sysproxy::restore, which stops at a command that fails, unless it ignores
\* it.  The snapshot is gone either way.
Restore(c) ==
  /\ pc[c] = "restore"
  /\ \E failed \in BOOLEAN :
       Fails(failed) /\ os' \in Outcomes(os, RestoreCommands(os, saved[c]), failed)
  /\ saved' = [saved EXCEPT ![c] = Nothing]
  /\ Go(c, Restored(op[c]))
  /\ UNCHANGED <<marker, inst, history>>

\* release without a marker: sysproxy::disable, which is what the user asks.
Disable(c) ==
  /\ pc[c] = "disable"
  /\ \E failed \in BOOLEAN :
       /\ Fails(failed)
       /\ os' \in Outcomes(os, DisableCommands(os), failed)
       /\ original' = IF failed \/ torn THEN original ELSE Effect(os')
  /\ Go(c, "idle")
  /\ UNCHANGED <<marker, inst, saved, acquired>>

\* sysproxy::snapshot; what it cannot read is unknown or missing.
TakeSnapshot(c) ==
  /\ pc[c] = "snapshot"
  /\ \E failed \in BOOLEAN :
       /\ Fails(failed)
       /\ \E s \in IF failed THEN FailedSnapshots(os) ELSE {SnapshotOf(os)} :
            saved' = [saved EXCEPT ![c] = s]
  /\ Go(c, "enable")
  /\ UNCHANGED <<os, marker, inst, history>>

\* sysproxy::enable; if it fails, acquire returns and no marker is written,
\* whether or not the setting has been changed by then.
Enable(c) ==
  /\ pc[c] = "enable"
  /\ \E failed \in BOOLEAN :
       /\ Fails(failed)
       /\ os' \in Outcomes(os, EnableCommands(os, c.who), failed)
       /\ Go(c, IF failed THEN "idle" ELSE "write")
       /\ saved' = [saved EXCEPT ![c] = IF failed THEN Nothing ELSE @]
  /\ UNCHANGED <<marker, inst, history>>

\* write_marker; a failure is logged, and acquire succeeds.
WriteMarker(c) ==
  /\ pc[c] = "write"
  /\ \E failed \in BOOLEAN : Fails(failed) /\ marker' = IF failed THEN marker ELSE saved[c]
  /\ saved' = [saved EXCEPT ![c] = Nothing]
  /\ Go(c, "idle")
  /\ UNCHANGED <<os, inst, history>>

CallStep(c) ==
  \/ ReadMarker(c) \/ RemoveMarker(c) \/ Restore(c) \/ Disable(c)
  \/ TakeSnapshot(c) \/ Enable(c) \/ WriteMarker(c)

-----------------------------------------------------------------------------
\* run: before anything else, recover_stale.
Start(i) ==
  /\ inst[i] \in {"down", "dead"}
  /\ inst' = [inst EXCEPT ![i] = "recovering"]
  /\ Begin(Main(i), "recover")
  /\ UNCHANGED <<os, marker, history, faults>>

Proceed(i, from, to) ==
  /\ inst[i] = from
  /\ ~Busy(Main(i))
  /\ inst' = [inst EXCEPT ![i] = to]

\* The listeners are bound and the API serves; from here on the system proxy
\* is enabled (the default), or is not (--manual).
EnableAtStart(i) ==
  /\ Proceed(i, "recovering", "up")
  /\ Begin(Main(i), "acquire")
  /\ acquired' = acquired \union {i}
  /\ UNCHANGED <<os, marker, original, faults>>

StartManual(i) ==
  /\ Proceed(i, "recovering", "up")
  /\ UNCHANGED <<os, marker, calls, history, torn, faults>>

\* An early return out of run (a port is taken): the guard is dropped.
AbortStart(i) ==
  /\ Proceed(i, "recovering", "draining")
  /\ Begin(Main(i), "restoreIfMarked")
  /\ UNCHANGED <<os, marker, history, faults>>

\* The first signal: restore at once, before draining.
Signal(i) ==
  /\ Proceed(i, "up", "restoring")
  /\ Begin(Main(i), "restoreIfMarked")
  /\ UNCHANGED <<os, marker, history, faults>>

\* The setting is restored: tell the servers to stop.
Drain(i) ==
  /\ Proceed(i, "restoring", "draining")
  /\ acquired' = acquired \ {i}
  /\ UNCHANGED <<os, marker, calls, original, torn, faults>>

\* run returns once the API's calls in progress are served.
Exit(i) ==
  /\ \A c \in Callers : c.who = i /\ c.role # "cli" => ~Busy(c)
  /\ Proceed(i, "draining", "down")
  /\ UNCHANGED <<os, marker, calls, history, torn, faults>>

\* The process ends in the middle of whatever it does: nothing more is done,
\* what it held in memory is gone, and commands under way may have had their
\* effect.
Cut(i) == {c \in Callers : c.who = i /\ c.role # "cli" /\ Busy(c)}

UnderWay(c) ==
  CASE pc[c] = "enable" -> Outcomes(os, EnableCommands(os, c.who), TRUE)
    [] pc[c] = "restore" -> Outcomes(os, RestoreCommands(os, saved[c]), TRUE)
    [] pc[c] = "disable" -> Outcomes(os, DisableCommands(os), TRUE)
    [] OTHER -> {os}

Die(i, state) ==
  /\ os' \in {os} \union UNION {UnderWay(c) : c \in Cut(i)}
  /\ torn' = (torn \/ \E c \in Cut(i) : pc[c] \in {"restore", "disable", "enable", "write"})
  /\ pc' = [c \in Callers |-> IF c \in Cut(i) THEN "idle" ELSE pc[c]]
  /\ saved' = [c \in Callers |-> IF c \in Cut(i) THEN Nothing ELSE saved[c]]
  /\ op' = [c \in Callers |-> IF c \in Cut(i) THEN "none" ELSE op[c]]
  /\ inst' = [inst EXCEPT ![i] = state]
  /\ acquired' = acquired \ {i}
  /\ UNCHANGED <<marker, original>>

\* A second signal while draining: exit without waiting.
SecondSignal(i) ==
  /\ inst[i] = "draining"
  /\ ~Busy(Main(i))
  /\ Die(i, "down")
  /\ UNCHANGED faults

Kill(i) ==
  /\ inst[i] \notin {"down", "dead"}
  /\ faults < MaxFaults
  /\ faults' = faults + 1
  /\ Die(i, "dead")

-----------------------------------------------------------------------------
\* The API answers from the moment the listeners are bound until draining.
Serves(i) == inst[i] \in {"up", "restoring"}

\* POST /api/system-proxy {"enabled": true}, and `hamsy proxy on`.
TurnOn(c) ==
  /\ c.role = "cli" \/ (c.role = "api" /\ Serves(c.who))
  /\ Begin(c, "acquire")
  /\ acquired' = IF c.role = "api" THEN acquired \union {c.who} ELSE acquired
  /\ UNCHANGED <<os, marker, inst, original, faults>>

\* POST /api/system-proxy {"enabled": false}, and `hamsy proxy off`.
TurnOff(c) ==
  /\ c.role = "cli" \/ (c.role = "api" /\ Serves(c.who))
  /\ Begin(c, "release")
  /\ UNCHANGED <<os, marker, inst, history, faults>>

\* The panic hook runs on the panicking thread; the process lives on when the
\* panic was a task's.
PanicHook(c) ==
  /\ c.role = "api" /\ inst[c.who] \in {"up", "restoring", "draining"}
  /\ Begin(c, "restoreIfMarked")
  /\ UNCHANGED <<os, marker, inst, history, faults>>

RunStep(i) == EnableAtStart(i) \/ StartManual(i) \/ AbortStart(i) \/ Drain(i) \/ Exit(i)

Next ==
  \/ \E c \in Callers : CallStep(c) \/ TurnOn(c) \/ TurnOff(c) \/ PanicHook(c)
  \/ \E i \in Instances :
       Start(i) \/ RunStep(i) \/ Signal(i) \/ SecondSignal(i) \/ Kill(i)

Spec == Init /\ [][Next]_vars

\* A call that began goes on, unless its process is killed, and so does `run`.
\* Nobody has to start or stop an instance, or to call anything.
FairSpec ==
  /\ Spec
  /\ \A c \in Callers : WF_vars(CallStep(c))
  /\ \A i \in Instances : WF_vars(RunStep(i))

-----------------------------------------------------------------------------
\* Every variable stays in its range.  In particular no command is ever given
\* what a snapshot could not read.
TypeOK ==
  /\ IsSettings(os) /\ IsSettings(original) /\ original.platform = os.platform
  /\ \A s \in {marker} \union {saved[c] : c \in Callers} : s = Nothing \/ IsSnapshot(s, os)
  /\ inst \in [Instances -> {"down", "recovering", "up", "restoring", "draining", "dead"}]
  /\ pc \in [Callers -> {"idle", "read", "remove", "restore", "disable", "snapshot",
                         "enable", "write"}]
  /\ op \in [Callers -> {"none", "recover", "restoreIfMarked", "release", "acquire"}]
  /\ acquired \subseteq Instances
  /\ torn \in BOOLEAN
  /\ faults \in 0..MaxFaults

\* A snapshot keeps the user's settings if restoring it, from wherever the
\* settings are now, gives what the user had.
Keeps(s) == s # Nothing /\ Effect(Applied(os, s)) = original

\* "the snapshot ... needed to put back whatever was configured immediately
\* before": through any number of starts, stops, toggles and kills, the user's
\* own settings are in force, in the marker, or in the hands of a call that
\* goes on, as long as no two calls overlap, nothing fails and no kill cuts a
\* call.
OriginalKept ==
  torn \/ Effect(os) = original \/ Keeps(marker) \/ \E c \in Callers : Keeps(saved[c])

\* "The marker's mere existence on disk is the ownership signal": between
\* calls there is a marker exactly while the machine is pointed at hamsy-proxy,
\* and it keeps what the user had; without one the settings are the user's.
MarkerOwns ==
  torn \/ (\E c \in Callers : Busy(c)) \/
    IF marker = Nothing THEN Effect(os) = original
    ELSE Keeps(marker) /\ \E i \in Instances : StatusFor(os, i)

\* What `run` begins when it starts, and when it is told to stop, ends with the
\* user's setting in force: restored if a kill had left it behind.
Restoring(i) == Busy(Main(i)) /\ op[Main(i)] \in {"recover", "restoreIfMarked"}

RestoresInTheEnd ==
  \A i \in Instances : Restoring(i) ~> Effect(os) = original \/ torn \/ inst[i] = "dead"

\* "so the machine is never left pointed at a proxy that's about to go away"
\* (README.md).  It can be: the API serves while the setting is being restored,
\* and an acquire that is under way, or begins, is not undone.
NotLeftPointed == \A i \in Instances : inst[i] = "down" => ~StatusFor(os, i)

\* "a plain `hamsy run` that never enabled the system proxy must never disable
\* a proxy it had nothing to do with" (sysproxy_state.rs).  It does: the marker
\* it finds when it stops may be another instance's.
HandsOff ==
  [][\A i \in Instances :
       inst[i] = "restoring" /\ i \notin acquired /\ Restore(Main(i)) => os' = os]_vars
=============================================================================

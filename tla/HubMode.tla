------------------------------ MODULE HubMode ------------------------------
(***************************************************************************)
(* The location mode: a hub announces a change on its socket, and a job    *)
(* asks the primary hub every minute and makes up for what was missed.     *)
(* Both tell the running apps and rewrite the table of modes with calls    *)
(* that are independent of each other, one on the event loop and one in a  *)
(* thread of the scheduler.                                                *)
(*                                                                         *)
(* Sources: services/mode_poller.py, services/webhook_router.py            *)
(* (route_mode_change, _update_mode), services/hubitat_eventsocket_client.py *)
(* (_drain)                                                                *)
(***************************************************************************)
EXTENDS Integers, Sequences, FiniteSets

CONSTANTS Modes, NoMode,
          MaxModeChanges,  \* bound on changes of the hub's mode
          MaxModeFaults    \* bound on lost frames and failed calls

ASSUME ModeAssumption == /\ NoMode \notin Modes
                         /\ {MaxModeChanges, MaxModeFaults} \subseteq Nat

VARIABLES hubMode,  \* currentMode of the primary hub
          frames,   \* mode frames the socket has not read
          active,   \* the modes whose row is_active
          appMode,  \* the mode the app was told last; NoMode before
          paused,   \* the app is paused and has resumeOnModeChange
          task,     \* "socket": route_mode_change; "poller": run_poll_pass
          modeTally \* changes and faults so far

modeVars == <<hubMode, frames, active, appMode, paused, task, modeTally>>

Sides == {"socket", "poller"}
PCs == {"idle", "read", "drop", "add", "resume", "notify", "clear", "set"}
Idle == [pc |-> "idle", mode |-> NoMode]

ModeInit == /\ hubMode \in Modes /\ active \in {{hubMode}, {}}
            /\ frames = <<>> /\ appMode = NoMode /\ paused \in BOOLEAN
            /\ task = [s \in Sides |-> Idle]
            /\ modeTally = [changes |-> 0, faults |-> 0]

Fails == /\ modeTally.faults < MaxModeFaults
         /\ modeTally' = [modeTally EXCEPT !.faults = @ + 1]
At(s, pc) == task[s].pc = pc
GoTo(s, pc) == task' = [task EXCEPT ![s].pc = pc]
Done(s) == task' = [task EXCEPT ![s] = Idle]

\* The hub changes its mode; the frame may be lost with the connection.
HubChanges(m) ==
    /\ m # hubMode /\ modeTally.changes < MaxModeChanges
    /\ hubMode' = m
    /\ \/ /\ frames' = Append(frames, m)
          /\ modeTally' = [modeTally EXCEPT !.changes = @ + 1]
       \/ /\ modeTally.faults < MaxModeFaults /\ UNCHANGED frames
          /\ modeTally' = [changes |-> modeTally.changes + 1, faults |-> modeTally.faults + 1]
    /\ UNCHANGED <<active, appMode, paused, task>>
\* A user pauses the app.
Pause == /\ ~paused /\ Fails /\ paused' = TRUE
         /\ UNCHANGED <<hubMode, frames, active, appMode, task>>

\* The socket's task routes the change and reads no frame before it is done.
TakeFrame ==
    /\ At("socket", "idle") /\ frames # <<>>
    /\ task' = [task EXCEPT !["socket"] = [pc |-> "resume", mode |-> Head(frames)]]
    /\ frames' = Tail(frames)
    /\ UNCHANGED <<hubMode, active, appMode, paused, modeTally>>

(* run_poll_pass *)
\* No primary hub, or no answer: the pass is over.
AskMode ==
    /\ At("poller", "idle")
    /\ \/ /\ task' = [task EXCEPT !["poller"] = [pc |-> "read", mode |-> hubMode]]
          /\ UNCHANGED modeTally
       \/ Fails /\ UNCHANGED task
    /\ UNCHANGED <<hubMode, frames, active, appMode, paused>>
\* One active row is read, in no order; a failed read looks like none.
Previous == IF active = {} THEN {NoMode} ELSE active
\* Variant: no active mode counts as nothing to do
ReadNoneIsFine ==
    /\ At("poller", "read")
    /\ \/ /\ \E p \in Previous : IF p \in {task["poller"].mode, NoMode} THEN Done("poller")
                                 ELSE GoTo("poller", "drop")
          /\ UNCHANGED modeTally
       \/ Fails /\ GoTo("poller", "drop")
    /\ UNCHANGED <<hubMode, frames, active, appMode, paused>>
ReadPrevious ==
    /\ At("poller", "read")
    /\ \/ /\ \E p \in Previous : IF p = task["poller"].mode THEN Done("poller")
                                 ELSE GoTo("poller", "drop")
          /\ UNCHANGED modeTally
       \/ Fails /\ GoTo("poller", "drop")
    /\ UNCHANGED <<hubMode, frames, active, appMode, paused>>
\* _apply_mode_change: each call is tried whatever became of the one before.
DropActive ==
    /\ At("poller", "drop") /\ GoTo("poller", "add")
    /\ \/ active' = {} /\ UNCHANGED modeTally
       \/ Fails /\ UNCHANGED active
    /\ UNCHANGED <<hubMode, frames, appMode, paused>>
AddActive ==
    /\ At("poller", "add") /\ GoTo("poller", "resume")
    /\ \/ active' = active \cup {task["poller"].mode} /\ UNCHANGED modeTally
       \/ Fails /\ UNCHANGED active
    /\ UNCHANGED <<hubMode, frames, appMode, paused>>

(* route_mode_change, on the loop or in the poller's thread *)
ResumeFirst(s) ==
    /\ At(s, "resume") /\ GoTo(s, "notify")
    /\ \/ paused' = FALSE /\ UNCHANGED modeTally
       \/ paused /\ Fails /\ UNCHANGED paused
    /\ UNCHANGED <<hubMode, frames, active, appMode>>
Notify(s) ==
    /\ At(s, "notify") /\ GoTo(s, "clear")
    /\ \/ appMode' = task[s].mode /\ UNCHANGED modeTally
       \/ Fails /\ UNCHANGED appMode
    /\ UNCHANGED <<hubMode, frames, active, paused>>
\* _update_mode: ALL rows are made inactive, then the mode's row is written;
\* when the first call fails the second is not made.
UpdateClear(s) ==
    /\ At(s, "clear")
    /\ \/ GoTo(s, "set") /\ active' = {} /\ UNCHANGED modeTally
       \/ Fails /\ Done(s) /\ UNCHANGED active
    /\ UNCHANGED <<hubMode, frames, appMode, paused>>
UpdateSet(s) ==
    /\ At(s, "set") /\ Done(s)
    /\ \/ active' = active \cup {task[s].mode} /\ UNCHANGED modeTally
       \/ Fails /\ UNCHANGED active
    /\ UNCHANGED <<hubMode, frames, appMode, paused>>

RouteStep(s) == ResumeFirst(s) \/ Notify(s) \/ UpdateClear(s) \/ UpdateSet(s)
PollPass == AskMode \/ ReadPrevious \/ DropActive \/ AddActive
ModeNext == (\E m \in Modes : HubChanges(m)) \/ Pause \/ TakeFrame \/ PollPass
            \/ \E s \in Sides : RouteStep(s)

\* The socket's task and the poller's job go on.  A poll of unchanged modes
\* changes nothing, so its steps are promised one by one.
ModeFairness == /\ WF_modeVars(TakeFrame) /\ WF_modeVars(RouteStep("socket"))
                /\ WF_modeVars(PollPass) /\ WF_modeVars(RouteStep("poller"))
ModeSpec == ModeInit /\ [][ModeNext]_modeVars /\ ModeFairness

ModeTypeOK ==
    /\ hubMode \in Modes /\ frames \in Seq(Modes) /\ active \subseteq Modes
    /\ appMode \in Modes \cup {NoMode} /\ paused \in BOOLEAN
    /\ task \in [Sides -> [pc : PCs, mode : Modes \cup {NoMode}]]

\* Whatever frames are lost, calls fail and passes interleave: a mode the hub
\* keeps is active in the table in the end (mode_poller.py:213-244).
ModeRecovers ==
    \A m \in Modes : <>[](hubMode = m) => <>[](m \in active)

\* A pass that finds nothing to do leaves one active mode alone, not two.
OneActiveMode == (\A s \in Sides : At(s, "idle")) => Cardinality(active) <= 1
\* mode_poller.py: the apps hear of a mode the poll finds, in the end.
AppHearsMode == \A m \in Modes : <>[](hubMode = m) => <>[](appMode \in {m, NoMode})
=============================================================================

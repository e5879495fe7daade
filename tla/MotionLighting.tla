--------------------------- MODULE MotionLighting ---------------------------
(***************************************************************************)
(* One instance of advanced motion lighting: a motion sensor, a light and  *)
(* a switch that is to stay off.                                           *)
(*                                                                         *)
(* The worker of the instance handles events, the scheduler evaluates the  *)
(* room every minute and after a timeout, and a change of mode does so     *)
(* too, each in a thread and without a lock: an evaluation reads the event *)
(* log, decides, reads the state of the light from the event log and sends *)
(* a command, and others do the same in between.  The event log lags       *)
(* behind the devices.  Who paused the instance is in PauseLifecycle.      *)
(*                                                                         *)
(* Sources: apps/advanced_motion_lighting/                                 *)
(***************************************************************************)
EXTENDS Integers, Sequences

CONSTANTS Selections,   \* device categories a user may fill: sets of "light", "keep"
          Levels,       \* levels of the light
          Default,      \* the level of the settings
          Memoize,      \* the setting memoize
          ActiveOnFail, \* the setting considerActiveWhenFail
          MaxEvents,    \* bound on what happens in the room
          MaxFaults     \* bound on failed reads and commands

ASSUME LightingAssumption == /\ Levels \cap {"off", "none", "active", "inactive", "keep"} = {}
                             /\ Default \in Levels
                             /\ {Memoize, ActiveOnFail} \subseteq BOOLEAN
                             /\ {MaxEvents, MaxFaults} \subseteq Nat

VARIABLES devices,    \* the categories of this instance
          sensor,     \* what the event log says of the sensor
          functional, \* _functional_sensors
          inbox,      \* events of the instance's queue
          light,      \* the light
          seen,       \* the light in the event log
          keepOff,    \* the switch that is to stay off is on, and its log
          memo,       \* _memoization
          paused, bright,
          run,        \* the evaluation in each thread
          tally
vars == <<devices, sensor, functional, inbox, light, seen, keepOff, memo, paused, bright, run, tally>>

Threads == {"worker", "scheduler"}
Lights == Levels \cup {"off"}
\* "active": for less than the threshold; "stuck": for longer; "recent": inactive
\* for less than the timeout; "old": for longer.
SensorStates == {"none", "active", "stuck", "recent", "old"}
Events == {"active", "inactive", "keep"} \cup Levels   \* a level: its event
Rest == [pc |-> "idle", act |-> "off", target |-> "none", relevel |-> FALSE]
PCs == {"idle", "decide", "look", "send", "store", "keepLook", "keepSend"}
Action(level) == IF level = "off" THEN "off" ELSE "on"
FreshMemo == [switch |-> "none", level |-> "none", keep |-> "app"]

Init == /\ devices \in Selections
        /\ sensor = "none" /\ functional = TRUE /\ inbox = <<>>
        /\ light = "off" /\ seen = "off"
        /\ keepOff = [on |-> FALSE, seen |-> FALSE]
        /\ memo = FreshMemo
        /\ paused = FALSE /\ bright = FALSE
        /\ run = [t \in Threads |-> Rest]
        /\ tally = [events |-> 0, faults |-> 0]

Happens == tally.events < MaxEvents /\ tally' = [tally EXCEPT !.events = @ + 1]
Fails == tally.faults < MaxFaults /\ tally' = [tally EXCEPT !.faults = @ + 1]

(* The room *)
MotionStarts == /\ sensor \notin {"active", "stuck"} /\ Happens
                /\ sensor' = "active" /\ inbox' = Append(inbox, "active")
                /\ UNCHANGED <<devices, functional, light, seen, keepOff, memo, paused, bright, run>>
MotionStops == /\ sensor \in {"active", "stuck"} /\ Happens
               /\ sensor' = "recent" /\ inbox' = Append(inbox, "inactive")
               /\ UNCHANGED <<devices, functional, light, seen, keepOff, memo, paused, bright, run>>
TimePasses == /\ \/ sensor = "active" /\ sensor' = "stuck"
                 \/ sensor = "recent" /\ sensor' = "old"
              /\ UNCHANGED <<devices, functional, inbox, light, seen, keepOff, memo, paused, bright,
                             run, tally>>
\* Somebody dims or switches the light; a new level arrives as an event.
UserLight(l) ==
    /\ l # light /\ "light" \in devices /\ Happens
    /\ light' = l
    /\ inbox' = IF l = "off" THEN inbox ELSE Append(inbox, l)
    /\ UNCHANGED <<devices, sensor, functional, seen, keepOff, memo, paused, bright, run>>
\* Somebody, or another app while its command is UPDATING, turns the switch on.
KeepTurnedOn(byHand) ==
    /\ ~keepOff.on /\ "keep" \in devices /\ Happens
    /\ keepOff' = [keepOff EXCEPT !.on = TRUE]
    /\ inbox' = IF byHand THEN Append(inbox, "keep") ELSE inbox
    /\ UNCHANGED <<devices, sensor, functional, light, seen, memo, paused, bright, run>>
LightReported == /\ seen # light /\ seen' = light
                 /\ UNCHANGED <<devices, sensor, functional, inbox, light, keepOff, memo, paused,
                                bright, run, tally>>
KeepReported == /\ keepOff.seen # keepOff.on /\ keepOff' = [keepOff EXCEPT !.seen = keepOff.on]
                /\ UNCHANGED <<devices, sensor, functional, inbox, light, seen, memo, paused, bright,
                               run, tally>>
DaylightChanges == /\ Happens /\ bright' = ~bright
                   /\ UNCHANGED <<devices, sensor, functional, inbox, light, seen, keepOff, memo,
                                  paused, run>>

(* An evaluation: master, step by step *)
Go(t, pc) == run' = [run EXCEPT ![t].pc = pc]
\* _in_exception_state and is_paused are looked at first.
MayRun == ~paused /\ ~bright
Start(t, act) == run' = [run EXCEPT ![t] =
                           IF MayRun THEN [Rest EXCEPT !.pc = IF act = "on" THEN "look"
                                                              ELSE "decide", !.act = act]
                           ELSE Rest]

\* _is_motion_active
MotionActive == IF ~functional THEN ActiveOnFail ELSE sensor \in {"active", "recent"}
Decide(t) ==
    /\ run[t].pc = "decide"
    /\ \/ /\ run' = [run EXCEPT ![t].pc = "look", ![t].act = IF MotionActive THEN "on" ELSE "off"]
          /\ functional' = (functional /\ sensor # "stuck")
          /\ UNCHANGED tally
       \* A read that fails looks like a room without motion.
       \/ Fails /\ run' = [run EXCEPT ![t].pc = "look", ![t].act = "off"] /\ UNCHANGED functional
    /\ UNCHANGED <<devices, sensor, inbox, light, seen, keepOff, memo, paused, bright>>

Target(act) == IF act = "off" THEN "off" ELSE IF memo.level # "none" THEN memo.level ELSE Default
\* Variant: what the app has done once is not looked at again
TrustMemo(act) == Memoize /\ memo.switch = act
\* _control_lights: what the memo and the light itself leave to be done.
Skipped(act) == Memoize /\ memo.switch = act /\ Action(seen) = act
Look(t) ==
    LET act == run[t].act
        to == Target(act) IN
    /\ run[t].pc = "look"
    /\ IF "light" \notin devices \/ Skipped(act) THEN Go(t, "keepLook") /\ UNCHANGED memo
       ELSE /\ memo' = IF Memoize /\ memo.switch = act THEN [memo EXCEPT !.switch = "none"]
                       ELSE memo
            /\ IF seen = to THEN Go(t, "keepLook")
               ELSE run' = [run EXCEPT ![t].pc = "send", ![t].target = to,
                                       ![t].relevel = (Action(seen) = act)]
    /\ UNCHANGED <<devices, sensor, functional, inbox, light, seen, keepOff, paused, bright, tally>>
\* on, off or setLevel; not verified, it may have been carried out or not.  The
\* event of the new level passes unnoticed while the command is UPDATING; one
\* that comes later looks like somebody's hand.
Send(t) ==
    /\ run[t].pc = "send"
    /\ \/ light' = run[t].target /\ Go(t, "store") /\ UNCHANGED <<inbox, tally>>
       \/ /\ Fails /\ run[t].target # "off"
          /\ light' = run[t].target /\ Go(t, "store") /\ inbox' = Append(inbox, light')
       \/ Fails /\ light' \in {light, run[t].target} /\ Go(t, "keepLook") /\ UNCHANGED inbox
    /\ UNCHANGED <<devices, sensor, functional, seen, keepOff, memo, paused, bright>>
\* The level is noted as the app's own, also when it was one set by hand; a
\* light that was on already and got a new level is not noted as turned on.
Store(t) ==
    /\ run[t].pc = "store"
    /\ memo' = [memo EXCEPT !.switch = IF run[t].relevel THEN @ ELSE run[t].act,
                            !.level = IF run[t].act = "on" THEN "none" ELSE @]
    /\ Go(t, "keepLook")
    /\ UNCHANGED <<devices, sensor, functional, inbox, light, seen, keepOff, paused, bright, tally>>

\* _enforce_keep_switches, at the end of an evaluation and in the health check.
\* Variant: a switch without an entry of its own is left alone, and none has one
KeepLookNever(t) == /\ run[t].pc = "keepLook" /\ run' = [run EXCEPT ![t] = Rest]
                    /\ UNCHANGED <<devices, sensor, functional, inbox, light, seen, keepOff, memo, paused,
                                   bright, tally>>
KeepLook(t) ==
    /\ run[t].pc = "keepLook"
    /\ run' = [run EXCEPT ![t] = IF keepOff.seen /\ memo.keep = "app"
                                 THEN [Rest EXCEPT !.pc = "keepSend"] ELSE Rest]
    /\ UNCHANGED <<devices, sensor, functional, inbox, light, seen, keepOff, memo, paused, bright, tally>>
KeepSend(t) ==
    /\ run[t].pc = "keepSend"
    /\ \/ keepOff' = [keepOff EXCEPT !.on = FALSE] /\ UNCHANGED tally
       \/ Fails /\ UNCHANGED keepOff
    /\ memo' = [memo EXCEPT !.keep = "app"]
    /\ run' = [run EXCEPT ![t] = Rest]
    /\ UNCHANGED <<devices, sensor, functional, inbox, light, seen, paused, bright>>

(* What starts an evaluation *)
Ready(t) == run[t].pc = "idle"
HandleMotion(value) ==
    IF value = "active" THEN Start("worker", "on")
    ELSE UNCHANGED run   \* the timeout is armed; the scheduler evaluates
\* _handle_switch and _handle_level_color
Memoized(e) == CASE e = "keep" -> [memo EXCEPT !.keep = "manual"]
                 [] e \in Levels -> [memo EXCEPT !.level = e]
                 [] OTHER -> memo
\* on_event: a paused instance lets its events pass.
OnEvent ==
    /\ Ready("worker") /\ inbox # <<>>
    /\ inbox' = Tail(inbox)
    /\ IF paused THEN UNCHANGED <<functional, memo, run>>
       ELSE /\ functional' = (functional \/ Head(inbox) \in {"active", "inactive"})
            /\ memo' = Memoized(Head(inbox))
            /\ IF Head(inbox) \in {"active", "inactive"} THEN HandleMotion(Head(inbox))
               ELSE UNCHANGED run
    /\ UNCHANGED <<devices, sensor, light, seen, keepOff, paused, bright, tally>>
\* The timeout job or the periodic evaluation.
Evaluate == /\ Ready("scheduler") /\ MayRun /\ Start("scheduler", "off")
            /\ UNCHANGED <<devices, sensor, functional, inbox, light, seen, keepOff, memo, paused,
                           bright, tally>>
HealthCheck == /\ Ready("scheduler") /\ ~paused /\ Go("scheduler", "keepLook")
               /\ UNCHANGED <<devices, sensor, functional, inbox, light, seen, keepOff, memo, paused,
                              bright, tally>>
\* A change of mode forgets what was done by hand and evaluates; a paused
\* instance stays as it is.
OnModeChange == /\ Ready("scheduler") /\ ~paused /\ Happens
                /\ memo' = FreshMemo /\ Start("scheduler", "off")
                /\ UNCHANGED <<devices, sensor, functional, inbox, light, seen, keepOff, paused, bright>>
\* The pause takes hold of evaluations that start after it.
PauseIt == /\ ~paused /\ Happens /\ paused' = TRUE
           /\ UNCHANGED <<devices, sensor, functional, inbox, light, seen, keepOff, memo, bright, run>>
Resume == /\ paused /\ Ready("scheduler") /\ paused' = FALSE
          /\ memo' = FreshMemo
          /\ run' = [run EXCEPT !["scheduler"] = IF bright THEN Rest
                                                 ELSE [Rest EXCEPT !.pc = "decide"]]
          /\ UNCHANGED <<devices, sensor, functional, inbox, light, seen, keepOff, bright, tally>>

Room == MotionStarts \/ MotionStops \/ TimePasses \/ (\E l \in Lights : UserLight(l))
        \/ (\E b \in BOOLEAN : KeepTurnedOn(b)) \/ LightReported \/ KeepReported
        \/ DaylightChanges
Master(t) == Decide(t) \/ Look(t) \/ Send(t) \/ Store(t) \/ KeepLook(t) \/ KeepSend(t)
Next == Room \/ (\E t \in Threads : Master(t)) \/ OnEvent \/ Evaluate \/ HealthCheck
        \/ OnModeChange \/ PauseIt \/ Resume

\* The worker and the scheduler's jobs go on and reports arrive.  Both jobs
\* come back whatever the other does, so neither starves.
Fairness == /\ WF_vars(LightReported) /\ WF_vars(KeepReported) /\ WF_vars(OnEvent)
            /\ SF_vars(Evaluate) /\ SF_vars(HealthCheck)
            /\ \A t \in Threads : WF_vars(Master(t))
Spec == Init /\ [][Next]_vars /\ Fairness

TypeOK ==
    /\ sensor \in SensorStates /\ functional \in BOOLEAN /\ inbox \in Seq(Events)
    /\ light \in Lights /\ seen \in Lights
    /\ keepOff \in [on : BOOLEAN, seen : BOOLEAN]
    /\ memo \in [switch : {"none", "on", "off"}, level : Levels \cup {"none"},
                 keep : {"app", "manual"}]
    /\ paused \in BOOLEAN /\ bright \in BOOLEAN
    /\ run \in [Threads -> [pc : PCs, act : {"on", "off"}, target : Lights \cup {"none"},
                         relevel : BOOLEAN]]

\* In a room that stays as it is the light ends up right and stays so, whatever
\* the memo says, evaluations of other threads do in between and commands fail
\* (controller.py:18-111, main_logic.py:17-55).
LightFollowsMotion ==
    /\ <>[]("light" \in devices /\ sensor \in {"active", "recent"} /\ functional /\ MayRun) => <>[](light # "off")
    /\ <>[](sensor \in {"none", "old", "stuck"} /\ ~ActiveOnFail /\ MayRun) => <>[](light = "off")

\* A switch that is to stay off and that nobody turned on by hand does not
\* stay on, not even in a room that is too bright (enforcement.py:67-105).
KeepOffEnforced == ~<>[](keepOff.on /\ memo.keep = "app" /\ ~paused)

=============================================================================

--------------------------- MODULE PowerManagement ---------------------------
(***************************************************************************)
(* One instance of power management: power sensors and the switches it     *)
(* turns off when a rolling average is too high, or too low for a pump     *)
(* that runs dry.  A trip sends the commands one by one and then pauses    *)
(* the instance; power events go on and may end the pause.                 *)
(*                                                                         *)
(* Events are handled by the instance's worker, the optional poll and the  *)
(* requests of users by threads of their own.  A step is what happens      *)
(* between two calls to a hub or the database.  A sample's age, and the    *)
(* time since the last trip, are in ticks, rounded down and counted up to  *)
(* what the settings tell apart.                                           *)
(*                                                                         *)
(* Sources: apps/power_management/app.py, apps/base/pause_resume.py        *)
(***************************************************************************)
EXTENDS Integers, Sequences, SequencesExt

CONSTANTS Setups,       \* [sensors, watts they may report, lowThresholdWatts or 0 if off, pollEnabled]
          Cutoffs,      \* cutoff_switches
          High,         \* highThresholdWatts
          Window,       \* averageWindowSeconds
          Recovery,     \* autoRecoveryWindowMinutes
          Cooldown,     \* cooldownSeconds
          Grace,        \* lowThresholdGraceSeconds
          MaxChanges,   \* bound on changes of the load and requests of users
          MaxFaults     \* bound on restarts and on commands and database calls that fail

ASSUME PowerAssumption ==
    /\ \A s \in Setups : s.watts \subseteq Nat /\ s.low \in Nat /\ s.poll \in BOOLEAN
    /\ {High, Window, Recovery, Cooldown, Grace, MaxChanges, MaxFaults} \subseteq Nat

VARIABLES setup,
          watts,      \* what each sensor measures
          samples,    \* power_buffer: a sequence of [age, w] for each sensor
          active,     \* first_active_monotonic, as an age
          sinceTrip,  \* last_trip_monotonic, as an age
          lastTrip,   \* last_trip_reason
          held,       \* is_paused of the object and of the row, and pause_reason
          tripMemo,   \* the durable memo 'trip'
          unsaved,    \* the last save of the memo has failed
          cut,        \* the switches: "hand" is one turned on against a trip
          task,       \* what each thread is doing
          crossed,    \* history: a trip began, or a user resumed, during another trip,
                      \* or a restart took a memo back that a failed save had left behind
          count
memoVars == <<tripMemo, unsaved>>
powerVars == <<setup, watts, samples, active, sinceTrip, lastTrip, held, memoVars, cut, task,
               crossed, count>>

PowerThreads == {"worker", "poll", "user"}
Never == -1
Trips == {"none", "high", "low"}
Longest == Window + Recovery + Cooldown + Grace
Aged(age, most) == IF age = Never \/ age >= most THEN age ELSE age + 1
NoTask == [pc |-> "idle", todo |-> {}, reason |-> "none"]

PowerInit ==
    /\ setup \in Setups
    /\ watts \in [setup.sensors -> {w \in setup.watts : w < High}]
    /\ samples = [s \in setup.sensors |-> <<>>]
    /\ active = [s \in setup.sensors |-> Never]
    /\ sinceTrip = Never /\ lastTrip = "none"
    /\ held = [app |-> FALSE, row |-> FALSE, why |-> "none"]
    /\ tripMemo = "none" /\ unsaved = FALSE
    /\ cut = [c \in Cutoffs |-> "on"]
    /\ task = [t \in PowerThreads |-> NoTask]
    /\ crossed = FALSE
    /\ count = [changes |-> 0, failed |-> 0, crashes |-> 0]

Changes == count.changes < MaxChanges /\ count' = [count EXCEPT !.changes = @ + 1]
MayFail == count.failed + count.crashes < MaxFaults
CallFails == MayFail /\ count' = [count EXCEPT !.failed = @ + 1]
\* The database has done what a user asked for, and the reply is lost.
ReplyLost == /\ count.changes < MaxChanges /\ MayFail
             /\ count' = [changes |-> count.changes + 1, failed |-> count.failed + 1,
                          crashes |-> count.crashes]
\* _save_memoization: a save that fails is logged and forgotten.
Saves(trip) == \/ tripMemo' = trip /\ unsaved' = FALSE /\ UNCHANGED count
               \/ CallFails /\ unsaved' = TRUE /\ UNCHANGED tripMemo

(* What the samples say *)
Trimmed(buf) == SelectSeq(buf, LAMBDA x : x.age < Window)
\* The sum is compared with a threshold times the length: no division.
SumOf(buf) == FoldSeq(LAMBDA x, sum : x.w + sum, 0, buf)
Average(buf, op(_, _), limit) == buf # <<>> /\ op(SumOf(buf), limit * Len(buf))
AtLeast(x, y) == x >= y
AtMost(x, y) == x <= y

\* Variant: all sensors have to be over the threshold
HighWhenAll(bufs) == \A s \in setup.sensors : Average(bufs[s], AtLeast, High)
TooHigh(bufs) == \E s \in setup.sensors : Average(bufs[s], AtLeast, High)
TooLow(bufs, since) == /\ setup.low > 0
                       /\ \E s \in setup.sensors : /\ since[s] # Never /\ since[s] >= Grace
                                                   /\ Average(bufs[s], AtMost, setup.low)
CooldownClear == sinceTrip = Never \/ sinceTrip >= Cooldown
\* Every sensor below the threshold, with samples over the whole time.
Recovered(bufs) == /\ \E s \in setup.sensors : bufs[s] # <<>>
                   /\ \A s \in setup.sensors : bufs[s] # <<>> =>
                        ~Average(bufs[s], AtLeast, High) /\ Head(bufs[s]).age >= Recovery

(* A thread evaluates *)
Tripping == \E t \in PowerThreads : task[t].pc \in {"cut", "pauseRow", "memo"}
StartTrip(t, reason) ==
    /\ sinceTrip' = 0 /\ lastTrip' = reason /\ crossed' = (crossed \/ Tripping)
    /\ task' = [task EXCEPT ![t] = [pc |-> "cut", todo |-> Cutoffs, reason |-> reason]]
MaybeTrip(t, bufs, since) ==
    IF CooldownClear /\ TooHigh(bufs) THEN StartTrip(t, "high")
    ELSE IF CooldownClear /\ TooLow(bufs, since) THEN StartTrip(t, "low")
    ELSE task' = [task EXCEPT ![t] = NoTask] /\ UNCHANGED <<sinceTrip, lastTrip, crossed>>
\* _recover.  _fire_cutoffs("on") comes before resume() and sends nothing while
\* the instance is paused; resume() clears the flag before any call.
Recover(t) == /\ held' = [held EXCEPT !.app = FALSE]
              /\ task' = [task EXCEPT ![t].pc = "resumeRow"]
              /\ UNCHANGED <<sinceTrip, lastTrip, crossed>>
MaybeRecover(t, bufs) ==
    IF lastTrip = "high" /\ Recovered(bufs) THEN Recover(t)
    ELSE UNCHANGED <<held, task, sinceTrip, lastTrip, crossed>>
Evaluate(t, bufs, since) ==
    IF held.app THEN MaybeRecover(t, bufs) ELSE MaybeTrip(t, bufs, since) /\ UNCHANGED held

\* At most one sample of a sensor in a tick.
Due(s) == samples[s] # <<>> => Last(samples[s]).age > 0
Sampled(s) == Trimmed(Append(samples[s], [age |-> 0, w |-> watts[s]]))
\* _on_power: only the event's own buffer is trimmed.
OnPower(s) ==
    LET bufs == [samples EXCEPT ![s] = Sampled(s)]
        since == [active EXCEPT ![s] = IF @ = Never /\ watts[s] > 0 THEN 0 ELSE @] IN
    /\ task["worker"].pc = "idle" /\ s \in setup.sensors /\ Due(s)
    /\ samples' = bufs /\ active' = since
    /\ Evaluate("worker", bufs, since)
    /\ UNCHANGED <<setup, watts, memoVars, cut, count>>
PollTick ==
    LET bufs == [s \in setup.sensors |-> Sampled(s)] IN
    /\ setup.poll /\ task["poll"].pc = "idle" /\ \A s \in setup.sensors : Due(s)
    /\ samples' = bufs
    /\ Evaluate("poll", bufs, active)
    /\ UNCHANGED <<setup, watts, active, memoVars, cut, count>>
\* master() at the end of resume() and of a change of mode.
PowerMaster(t) ==
    /\ task[t].pc = "master"
    /\ IF held.app THEN task' = [task EXCEPT ![t] = NoTask] /\ UNCHANGED <<sinceTrip, lastTrip, crossed>>
       ELSE MaybeTrip(t, samples, active)
    /\ UNCHANGED <<setup, watts, samples, active, held, memoVars, cut, count>>

(* A trip, call by call *)
CutOff(t) ==
    LET c == CHOOSE x \in task[t].todo : TRUE IN
    /\ task[t].pc = "cut" /\ task[t].todo # {}
    /\ \/ cut' = [cut EXCEPT ![c] = "off"] /\ UNCHANGED count
       \/ CallFails /\ UNCHANGED cut
    /\ task' = [task EXCEPT ![t].todo = @ \ {c}]
    /\ UNCHANGED <<setup, watts, samples, active, sinceTrip, lastTrip, held, memoVars, crossed>>
PauseApp(t) ==
    /\ task[t].pc = "cut" /\ task[t].todo = {}
    /\ held' = [held EXCEPT !.app = TRUE] /\ Saves("none")
    /\ task' = [task EXCEPT ![t].pc = "pauseRow"]
    /\ UNCHANGED <<setup, watts, samples, active, sinceTrip, lastTrip, cut, crossed>>
PauseRow(t) ==
    /\ task[t].pc = "pauseRow"
    /\ \/ held' = [held EXCEPT !.row = TRUE, !.why = task[t].reason] /\ UNCHANGED count
       \/ CallFails /\ UNCHANGED held
    /\ task' = [task EXCEPT ![t].pc = "memo"]
    /\ UNCHANGED <<setup, watts, samples, active, sinceTrip, lastTrip, memoVars, cut, crossed>>
SaveTrip(t) ==
    /\ task[t].pc = "memo" /\ Saves(task[t].reason)
    /\ task' = [task EXCEPT ![t] = NoTask]
    /\ UNCHANGED <<setup, watts, samples, active, sinceTrip, lastTrip, held, cut, crossed>>

(* The rest of a resumption, of a user's pause and of a change of mode *)
ResumeRow(t) ==
    /\ task[t].pc = "resumeRow"
    /\ \/ held' = [held EXCEPT !.row = FALSE, !.why = "none"] /\ UNCHANGED count
       \/ CallFails /\ UNCHANGED held
    /\ task' = [task EXCEPT ![t].pc = "resetMemo"]
    /\ UNCHANGED <<setup, watts, samples, active, sinceTrip, lastTrip, memoVars, cut, crossed>>
ResetMemo(t) ==
    /\ task[t].pc \in {"resetMemo", "pauseMemo"} /\ Saves("none")
    /\ task' = [task EXCEPT ![t].pc = IF @ = "resetMemo" THEN "master" ELSE "keepRow"]
    /\ UNCHANGED <<setup, watts, samples, active, sinceTrip, lastTrip, held, cut, crossed>>
\* pause() writes the row once more, without a reason.
KeepRow(t) ==
    /\ task[t].pc = "keepRow"
    /\ \/ held' = [held EXCEPT !.row = TRUE] /\ UNCHANGED count
       \/ CallFails /\ UNCHANGED held
    /\ task' = [task EXCEPT ![t] = NoTask]
    /\ UNCHANGED <<setup, watts, samples, active, sinceTrip, lastTrip, memoVars, cut, crossed>>

(* Users, the load, time and restarts *)
\* The manager writes the row before it calls the object; without a reply it
\* does not call it.
UserPauses == /\ task["user"].pc = "idle" /\ ~held.app
              /\ \/ /\ Changes /\ held' = [app |-> TRUE, row |-> TRUE, why |-> "user"]
                    /\ task' = [task EXCEPT !["user"].pc = "pauseMemo"]
                 \/ /\ ReplyLost /\ held' = [held EXCEPT !.row = TRUE, !.why = "user"]
                    /\ UNCHANGED task
              /\ UNCHANGED <<setup, watts, samples, active, sinceTrip, lastTrip, memoVars, cut, crossed>>
UserResumes == /\ task["user"].pc = "idle" /\ held.app
               /\ \/ /\ Changes /\ held' = [app |-> FALSE, row |-> FALSE, why |-> "none"]
                     /\ task' = [task EXCEPT !["user"].pc = "resumeRow"] /\ crossed' = Tripping
                  \/ /\ ReplyLost /\ held' = [held EXCEPT !.row = FALSE, !.why = "none"]
                     /\ UNCHANGED <<task, crossed>>
               /\ UNCHANGED <<setup, watts, samples, active, sinceTrip, lastTrip, memoVars, cut>>
\* on_mode_change of the base class forgets every memo, a trip's too.
ModeChanges == /\ task["user"].pc = "idle" /\ Changes
               /\ task' = [task EXCEPT !["user"].pc = "resetMemo"]
               /\ UNCHANGED <<setup, watts, samples, active, sinceTrip, lastTrip, held, memoVars, cut, crossed>>
UserTurnsOn(c) ==
    /\ cut[c] = "off" /\ Changes
    /\ cut' = [cut EXCEPT ![c] = IF held.app \/ held.row \/ Tripping THEN "hand" ELSE "on"]
    /\ UNCHANGED <<setup, watts, samples, active, sinceTrip, lastTrip, held, memoVars, task, crossed>>
LoadChanges(s, w) == /\ s \in setup.sensors /\ w \in setup.watts \ {watts[s]} /\ Changes
                     /\ watts' = [watts EXCEPT ![s] = w]
                     /\ UNCHANGED <<setup, samples, active, sinceTrip, lastTrip, held, memoVars, cut, task, crossed>>
PowerTick ==
    /\ samples' = [s \in setup.sensors |->
                     [i \in DOMAIN samples[s] |-> [samples[s][i] EXCEPT !.age = Aged(@, Window)]]]
    /\ active' = [s \in setup.sensors |-> Aged(active[s], Grace)]
    /\ sinceTrip' = Aged(sinceTrip, Cooldown)
    /\ <<samples, active, sinceTrip>>' # <<samples, active, sinceTrip>>
    /\ UNCHANGED <<setup, watts, lastTrip, held, memoVars, cut, task, count, crossed>>
\* Variant: an instance that was paused takes the trip for a high one
ReasonGuessed(isPaused, trip) == IF isPaused THEN "high" ELSE "none"
\* initialize: the memo of a trip counts while the instance is paused.
ReasonRestored(isPaused, trip) == IF isPaused THEN trip ELSE "none"
PowerRestart ==
    /\ MayFail /\ count' = [count EXCEPT !.crashes = @ + 1]
    /\ lastTrip' = ReasonRestored(held.row, tripMemo)
    /\ sinceTrip' = IF held.row /\ tripMemo # "none" THEN sinceTrip ELSE Never
    /\ samples' = [s \in setup.sensors |-> <<>>]
    /\ active' = [s \in setup.sensors |-> Never]
    /\ held' = [held EXCEPT !.app = held.row]
    /\ task' = [t \in PowerThreads |-> NoTask]
    /\ unsaved' = FALSE
    /\ crossed' = (crossed \/ (unsaved /\ held.row /\ tripMemo # "none"))
    /\ UNCHANGED <<setup, watts, tripMemo, cut>>

TripSteps(t) == CutOff(t) \/ PauseApp(t) \/ PauseRow(t) \/ SaveTrip(t)
PowerSteps(t) == TripSteps(t) \/ ResumeRow(t) \/ ResetMemo(t) \/ KeepRow(t) \/ PowerMaster(t)
PowerNext ==
    \/ \E s \in setup.sensors : OnPower(s)
    \/ PollTick
    \/ \E t \in PowerThreads : PowerSteps(t)
    \/ UserPauses \/ UserResumes \/ ModeChanges \/ (\E c \in Cutoffs : UserTurnsOn(c))
    \/ \E s \in setup.sensors, w \in setup.watts : LoadChanges(s, w)
    \/ PowerTick \/ PowerRestart

\* Time passes, threads go on, and a sensor reports again and again; the poll
\* is optional and promises nothing.
PowerFairness == /\ WF_powerVars(PowerTick)
                 /\ \A t \in PowerThreads : WF_powerVars(PowerSteps(t))
                 /\ \A s \in UNION {x.sensors : x \in Setups} : SF_powerVars(OnPower(s))
PowerSpec == PowerInit /\ [][PowerNext]_powerVars /\ PowerFairness

PowerTypeOK ==
    /\ \A s \in setup.sensors : /\ watts[s] \in setup.watts /\ active[s] \in {Never} \cup 0..Grace
                                /\ samples[s] \in Seq([age : 0..Window, w : setup.watts])
                                /\ Len(samples[s]) <= Window
    /\ sinceTrip \in {Never} \cup 0..Cooldown
    /\ lastTrip \in Trips /\ tripMemo \in Trips
    /\ held \in [app : BOOLEAN, row : BOOLEAN, why : Trips \cup {"user"}]
    /\ cut \in [Cutoffs -> {"on", "off", "hand"}]
    /\ task \in [PowerThreads -> [pc : {"idle", "cut", "pauseRow", "memo", "resumeRow", "resetMemo",
                                        "pauseMemo", "keepRow", "master"},
                                  todo : SUBSET Cutoffs, reason : Trips]]
    /\ crossed \in BOOLEAN /\ unsaved \in BOOLEAN

\* A load that stays too high is shed, whatever requests of users, changes of
\* mode and a restart in the middle of a trip do in between, unless a user has
\* paused the instance or a call failed (app.py:368-405, 469-525).
OverloadIsShed ==
    <>[](\E s \in setup.sensors : watts[s] >= High) =>
        []<>((\A c \in Cutoffs : cut[c] # "on") \/ held.why = "user" \/ count.failed > 0)

\* A pump that ran dry stays off until somebody resumes the instance or
\* restarts it; no recovery ends that pause, unless a trip as slow as the
\* cooldown was crossed by another trip or by a user who resumed, or a restart
\* found the memo of an older trip because the save that should have replaced it
\* failed: then reason and pause may be of different trips (app.py:519-524,
\* 527-550, 253-274, base/memoization.py:36-45).
DryRunWaits ==
    [][held.why = "low" /\ held.app /\ ~held'.app /\ ~crossed
         => task'["user"].pc = "resumeRow" \/ count'.crashes > count.crashes]_powerVars

\* app.py:786-790: "the app turns the cutoff switches back ON automatically
\* once every power sensor's rolling average has stayed below the threshold".
RecoveryTurnsOn ==
    [][\A t \in PowerThreads \ {"user"} :
         task[t].pc = "resetMemo" /\ task'[t].pc = "master" /\ count'.failed = 0
           => \A c \in Cutoffs : cut'[c] # "off"]_powerVars
=============================================================================

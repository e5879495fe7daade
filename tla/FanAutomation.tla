---------------------------- MODULE FanAutomation ----------------------------
(***************************************************************************)
(* One instance of fan automation: a fan that follows a lamp and, in the  *)
(* dark, humidity: high, then quiet, then up a ramp.  A fan set by hand is *)
(* left alone until the mode changes; the app takes an event for somebody's*)
(* hand when it differs from what the app expects.                         *)
(*                                                                         *)
(* Events, the poll of 30 seconds and changes of mode run in threads of    *)
(* their own.  Light and humidity are read from rows of device_cache, not  *)
(* from the room: the lamp's row says what commands of other apps have     *)
(* written, and nobody here writes the sensor's, so it says what the table *)
(* held before.  A timer is "running" or "over"; what the app expects and  *)
(* marks is in its memo, which a restart keeps.                            *)
(*                                                                         *)
(* Sources: apps/fan_automation/app.py, apps/base/hubitat_bridge.py,       *)
(*          services/device_cache.py, services/device_commander.py         *)
(***************************************************************************)
EXTENDS Integers, Sequences

CONSTANTS Rows,         \* pairs of what the rows of lamp and sensor may say at first
          WhenLightOn,  \* fanWhenLightOn; 0 is off
          WhenLightOff, \* fanWhenLightOff
          WhenHumid,    \* fanWhenHumid
          AntiNoise,    \* antiNoiseLevel
          RampStep,     \* rampStepPercent of fanWhenHumid
          Sustained,    \* humiditySustainedMinutes is not 0
          ByHand,       \* levels that somebody may set
          Tolerance,    \* _LEVEL_MANUAL_TOLERANCE
          MaxActs,      \* bound on hands, commands of others, pauses and changes of mode
          MaxFailed,    \* bound on failed commands and reads, and restarts
          MaxEchoes     \* bound on events followed in the queue, at least 1

ASSUME FanAssumption ==
    /\ {WhenLightOn, WhenLightOff, WhenHumid, AntiNoise, Tolerance, MaxActs, MaxFailed, MaxEchoes}
         \subseteq Nat
    /\ Rows \subseteq {"on", "off", "none"} \X {"dry", "between", "wet", "none"}
    /\ RampStep \in Nat \ {0} /\ ByHand \subseteq Nat /\ Sustained \in BOOLEAN

VARIABLES rows,             \* the switch of the lamp's row and the humidity of the sensor's
          fan,              \* its level
          queue,            \* fan events on their way to the worker
          expected,         \* _memoization["expected"], Unset before a command
          manual,           \* the fan is marked 'manual'
          latched, phase, timer, rampLevel, runOut,   \* the other memos
          lastApply,        \* the target applied within two seconds, or Unset
          halted,           \* is_paused
          job,              \* what each thread is doing
          sofar
fanVars == <<rows, fan, queue, expected, manual, latched, phase, timer, rampLevel,
             runOut, lastApply, halted, job, sofar>>
memos == <<latched, phase, timer, rampLevel, runOut>>

FanThreads == {"worker", "poll", "mode"}
Unset == -1
FanLevels == {WhenLightOn, WhenLightOff, WhenHumid, AntiNoise} \cup ByHand
             \cup {AntiNoise + i * RampStep : i \in 0..(WhenHumid \div RampStep)}
LampRows == {"on", "off", "none"}
Timers == {"none", "running", "over"}
\* own: what is noted at the end goes into the memo that is in use.
Free == [pc |-> "idle", target |-> Unset, own |-> TRUE]

FanInit ==
    /\ \E r \in Rows : rows = [lamp |-> r[1], humidity |-> r[2]]
    /\ fan = 0 /\ queue = <<>> /\ expected = Unset /\ manual = FALSE
    /\ latched = FALSE /\ phase = "none" /\ timer = "none" /\ rampLevel = 0 /\ runOut = "none"
    /\ lastApply = Unset /\ halted = FALSE
    /\ job = [t \in FanThreads |-> Free]
    /\ sofar = [acts |-> 0, faults |-> 0]

Act == sofar.acts < MaxActs /\ sofar' = [sofar EXCEPT !.acts = @ + 1]
Fault == sofar.faults < MaxFailed /\ sofar' = [sofar EXCEPT !.faults = @ + 1]

\* Of more than MaxEchoes events the newest takes the place of the last.
Reported(l) == IF Len(queue) < MaxEchoes THEN Append(queue, l)
               ELSE [queue EXCEPT ![Len(queue)] = l]

(* Hands, other apps and time *)
\* A command of another app leaves "none" in the lamp's row, and the value it
\* verified, if it did.
LampCommanded(l) ==
    /\ l # rows.lamp /\ Act
    /\ rows' = [rows EXCEPT !.lamp = l]
    /\ UNCHANGED <<fan, queue, expected, manual, memos, lastApply, halted, job>>
FanByHand(l) ==
    /\ l # fan /\ Act
    /\ fan' = l /\ queue' = Reported(l)
    /\ UNCHANGED <<rows, expected, manual, memos, lastApply, halted, job>>
TimerEnds == /\ \/ timer = "running" /\ timer' = "over" /\ UNCHANGED runOut
                \/ runOut = "running" /\ runOut' = "over" /\ UNCHANGED timer
             /\ UNCHANGED <<rows, fan, queue, expected, manual, latched, phase, rampLevel, lastApply,
                            halted, job, sofar>>
TwoSecondsPass == /\ lastApply # Unset /\ lastApply' = Unset
                  /\ UNCHANGED <<rows, fan, queue, expected, manual, memos, halted, job, sofar>>

(* _decide: a record of the memos afterwards and the level, or Unset to hold *)
Now == [latched |-> latched, phase |-> phase, timer |-> timer, ramp |-> rampLevel, runOut |-> runOut]
Cleared(m) == [m EXCEPT !.phase = "none", !.timer = "none", !.ramp = 0]
Decision(m, level) == [m |-> m, level |-> level]
\* What reading the rows returns: a read that fails says as much as no row.
Views == {rows, [rows EXCEPT !.lamp = "none"], [rows EXCEPT !.humidity = "none"]}
Looks(r) == IF r = rows THEN UNCHANGED sofar ELSE Fault
\* _is_humid: a latch between the threshold and the offset below it; without a
\* reading it is not humid and the latch stays.
IsLatched(r) == CASE r.humidity = "wet" -> TRUE
                  [] r.humidity = "dry" -> FALSE
                  [] OTHER -> latched
IsHumid(r) == r.humidity # "none" /\ IsLatched(r)
Latch(m, r) == [m EXCEPT !.latched = IsLatched(r)]
Ramped(level) == IF level + RampStep < WhenHumid THEN level + RampStep ELSE WhenHumid
\* _humidity_decision; the ramp has the timer last_ramp.
HumidityDecision(m) ==
    CASE m.phase = "none" -> Decision([m EXCEPT !.phase = "high", !.timer = "running"], WhenHumid)
      [] m.phase = "high" /\ Sustained /\ m.timer = "over" ->
           Decision([m EXCEPT !.phase = "quiet", !.timer = "running"], AntiNoise)
      [] m.phase = "high" -> Decision(m, WhenHumid)
      [] m.phase = "quiet" /\ m.timer = "over" ->
           Decision([m EXCEPT !.phase = "ramp", !.timer = "running", !.ramp = AntiNoise], AntiNoise)
      [] m.phase = "quiet" -> Decision(m, AntiNoise)
      [] m.phase = "ramp" /\ m.timer = "over" /\ m.ramp < WhenHumid ->
           Decision([m EXCEPT !.timer = "running", !.ramp = Ramped(m.ramp)], Ramped(m.ramp))
      [] OTHER -> Decision(m, m.ramp)
\* In the dark: the run-out after the lamp, then the level of the settings; the
\* run-out begins anew with the next evaluation.
DarkDecision(m) ==
    CASE m.runOut = "none" -> Decision([m EXCEPT !.runOut = "running"], Unset)
      [] m.runOut = "running" -> Decision(m, Unset)
      [] OTHER -> Decision([m EXCEPT !.runOut = "none"], WhenLightOff)
FanDecides(r) ==
    IF r.lamp = "on" THEN Decision([Cleared(Now) EXCEPT !.runOut = "none"], WhenLightOn)
    ELSE IF IsHumid(r) THEN HumidityDecision([Latch(Now, r) EXCEPT !.runOut = "none"])
    ELSE DarkDecision(Cleared(Latch(Now, r)))
\* _apply: a fan marked by hand and a target applied just now are passed over.
Apply(t, d) ==
    /\ latched' = d.m.latched /\ phase' = d.m.phase /\ timer' = d.m.timer
    /\ rampLevel' = d.m.ramp /\ runOut' = d.m.runOut
    /\ job' = [job EXCEPT ![t] = IF d.level = Unset \/ manual \/ lastApply = d.level
                                 THEN Free ELSE [Free EXCEPT !.pc = "send", !.target = d.level]]
FanMaster(t) ==
    \/ halted /\ job' = [job EXCEPT ![t] = Free] /\ UNCHANGED <<memos, sofar>>
    \/ ~halted /\ \E r \in Views : Looks(r) /\ Apply(t, FanDecides(r))
\* The command and its verification: one that is not verified is not noted.  The
\* fan answers with an event of its new level.
FanSend(t) ==
    /\ job[t].pc = "send"
    /\ \/ /\ fan' = job[t].target
          /\ queue' = IF fan' # fan THEN Reported(fan') ELSE queue
          /\ \/ job' = [job EXCEPT ![t].pc = "store"] /\ UNCHANGED sofar
             \/ Fault /\ job' = [job EXCEPT ![t] = Free]
       \/ Fault /\ job' = [job EXCEPT ![t] = Free] /\ UNCHANGED <<fan, queue>>
    /\ UNCHANGED <<rows, expected, manual, memos, lastApply, halted>>
FanStore(t) ==
    /\ job[t].pc = "store"
    /\ IF job[t].own THEN expected' = job[t].target /\ manual' = FALSE
       ELSE UNCHANGED <<expected, manual>>
    /\ lastApply' = job[t].target
    /\ job' = [job EXCEPT ![t] = Free]
    /\ UNCHANGED <<rows, fan, queue, memos, halted, sofar>>

(* What starts an evaluation *)
\* _tokens_match: off and on differ, levels may by the tolerance.
TokensMatch(want, got) == /\ (want = 0) <=> (got = 0)
                          /\ want - got <= Tolerance /\ got - want <= Tolerance
\* _on_fan_event
FanEvent ==
    /\ queue # <<>> /\ job["worker"].pc = "idle"
    /\ queue' = Tail(queue)
    /\ manual' = (manual \/ (~halted /\ expected # Unset /\ ~TokensMatch(expected, Head(queue))))
    /\ UNCHANGED <<rows, fan, expected, memos, lastApply, halted, job, sofar>>
\* An event of the lamp or the sensor, the poll, a change of mode, a resume.
FanEvaluates(t) == /\ job[t].pc = (IF t = "mode" THEN "master" ELSE "idle")
                   /\ FanMaster(t)
                   /\ UNCHANGED <<rows, fan, queue, expected, manual, lastApply, halted>>
FanModeChanges == /\ job["mode"].pc = "idle" /\ Act
                  /\ manual' = FALSE /\ job' = [job EXCEPT !["mode"].pc = "master"]
                  /\ UNCHANGED <<rows, fan, queue, expected, memos, lastApply, halted>>
\* pause() and resume() put a new memo in the place of the old one, in which
\* commands under way still note what they did.
NewMemo == /\ expected' = Unset /\ manual' = FALSE
           /\ latched' = FALSE /\ phase' = "none" /\ timer' = "none" /\ rampLevel' = 0
           /\ runOut' = "none"
Disowned == [t \in FanThreads |-> [job[t] EXCEPT !.own = job[t].pc \in {"idle", "master"}]]
FanPauses == /\ ~halted /\ Act /\ halted' = TRUE
             /\ NewMemo /\ job' = Disowned
             /\ UNCHANGED <<rows, fan, queue, lastApply>>
FanResumes == /\ halted /\ job["mode"].pc = "idle" /\ halted' = FALSE
              /\ NewMemo /\ job' = [Disowned EXCEPT !["mode"].pc = "master"]
              /\ UNCHANGED <<rows, fan, queue, lastApply, sofar>>
FanRestarts == /\ Fault
               /\ job' = [t \in FanThreads |-> Free] /\ queue' = <<>> /\ lastApply' = Unset
               /\ UNCHANGED <<rows, fan, expected, manual, memos, halted>>

FanNext == \/ (\E l \in LampRows : LampCommanded(l)) \/ (\E l \in ByHand : FanByHand(l))
           \/ TimerEnds \/ TwoSecondsPass
           \/ FanEvent \/ FanModeChanges \/ FanPauses \/ FanResumes \/ FanRestarts
           \/ \E t \in FanThreads : FanEvaluates(t) \/ FanSend(t) \/ FanStore(t)

\* Timers end, events are handled and the poll comes back; no row is promised to
\* be written.
FanFairness == /\ WF_fanVars(TimerEnds) /\ SF_fanVars(TwoSecondsPass)
               /\ WF_fanVars(FanEvent) /\ SF_fanVars(FanEvaluates("poll"))
               /\ \A t \in FanThreads : WF_fanVars(FanSend(t) \/ FanStore(t))
               /\ WF_fanVars(FanEvaluates("mode"))
FanSpec == FanInit /\ [][FanNext]_fanVars /\ FanFairness

FanTypeOK ==
    /\ rows \in [lamp : LampRows, humidity : {"dry", "between", "wet", "none"}]
    /\ fan \in FanLevels /\ queue \in Seq(FanLevels)
    /\ {expected, lastApply} \subseteq FanLevels \cup {Unset}
    /\ {manual, latched, halted} \subseteq BOOLEAN
    /\ phase \in {"none", "high", "quiet", "ramp"} /\ {timer, runOut} \subseteq Timers
    /\ rampLevel \in FanLevels \cup {0}
    /\ job \in [FanThreads -> [pc : {"idle", "master", "send", "store"},
                             target : FanLevels \cup {Unset}, own : BOOLEAN]]


=============================================================================

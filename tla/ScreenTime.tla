------------------------------ MODULE ScreenTime ------------------------------
(***************************************************************************)
(* One instance of the screen time planner: a TV (the primary switch) and  *)
(* the power it hangs on (the secondary one).  Windows say when the TV may *)
(* be used; at their edges, after a change of mode and when the TV comes   *)
(* on, threads of their own put power and TV into the state they should    *)
(* have, with waits of seconds and delays of minutes in between.           *)
(*                                                                         *)
(* A day has Slots times; Slots itself stands for 24:00.  The app reads    *)
(* switches from rows of device_cache: a command leaves a row without the  *)
(* switch, or with the state that was verified.  Nothing refreshes a row.  *)
(*                                                                         *)
(* Source: apps/screen_time_planner/app.py                                 *)
(***************************************************************************)
EXTENDS Integers

CONSTANTS NumDays, Slots,  \* days of a week, times of a day
          Weeklies,        \* weeklyWindows: [uniform, uniformWindows, days]
          Lived,           \* those of which the devices are modelled too
          Settings,        \* [awaitOff, unconditional, delay, suppress]
          Follow,          \* the devices are followed until this time
          MaxEvents,       \* bound on events in the queue
          MaxActs,         \* bound on what users and modes do
          MaxLost          \* bound on commands that do nothing

Days == 0..(NumDays - 1)
\* What a user may write; both times are parsed, or the window is dropped.
Windows == [start : 0..(Slots - 1), end : 0..Slots]
ASSUME ScreenAssumption ==
    /\ NumDays \in Nat \ {0} /\ Slots \in Nat \ {0}
    /\ Weeklies \subseteq [uniform : BOOLEAN, uniformWindows : SUBSET Windows, days : [Days -> SUBSET Windows]]
    /\ Settings \subseteq [awaitOff : BOOLEAN, unconditional : BOOLEAN, delay : BOOLEAN,
                           suppress : BOOLEAN]
    /\ Lived \subseteq Weeklies /\ {Follow, MaxEvents, MaxActs, MaxLost} \subseteq Nat

VARIABLES weekly, setting,
          now,         \* the time of the week
          tv, power,   \* the devices
          row,         \* their rows
          events,      \* TV-on events of the instance's queue
          cronDue,     \* a cron job is due
          fresh,       \* power was restored a moment ago: power_restored_at
          jobs,        \* one-shot jobs: the delayed cut and the wake check
          stopped,     \* is_paused
          step,        \* what each thread is doing
          used
screenVars == <<weekly, setting, now, tv, power, row, events, cronDue, fresh, jobs, stopped, step,
                used>>
ScreenThreads == {"event", "cron", "mode", "job"}
Times == 0..(NumDays * Slots - 1)
DayOf(t) == t \div Slots
SlotOf(t) == t % Slots
NextDay(d) == (d + 1) % NumDays

(* The windows *)
RawWindows(week, d) == IF week.uniform THEN week.uniformWindows ELSE week.days[d]
\* An end at midnight is the end of the day.
EndOf(w) == IF w.end = 0 THEN Slots ELSE w.end
\* Variant: the morning half of a window stays in the evening's day
SplitSameDay(week, d) ==
    {[start |-> w.start, end |-> EndOf(w)] : w \in {x \in RawWindows(week, d) : x.start < EndOf(x)}}
    \cup {[start |-> w.start, end |-> Slots] : w \in {x \in RawWindows(week, d) : x.start > EndOf(x)}}
    \cup {[start |-> 0, end |-> w.end] : w \in {x \in RawWindows(week, d) : x.start > EndOf(x)}}
\* _effective_windows of a day: a window over midnight is split.
EffectiveWindows(week, d) ==
    LET over(day) == {w \in RawWindows(week, day) : w.start > EndOf(w)} IN
    {[start |-> w.start, end |-> EndOf(w)] : w \in {x \in RawWindows(week, d) : x.start < EndOf(x)}}
    \cup {[start |-> w.start, end |-> Slots] : w \in over(d)}
    \cup UNION {{[start |-> 0, end |-> w.end] : w \in over(e)} : e \in {x \in Days : NextDay(x) = d}}
WindowsContain(week, t) ==
    \E w \in EffectiveWindows(week, DayOf(t)) : w.start <= SlotOf(t) /\ SlotOf(t) < w.end
HasAnyWindows(week) == \E d \in Days : EffectiveWindows(week, d) # {}
\* The times of the cron jobs: an end at 24:00 is the next day's 00:00.
Boundaries(week) ==
    UNION {UNION {{d * Slots + w.start, IF w.end = Slots THEN NextDay(d) * Slots ELSE d * Slots + w.end}
                  : w \in EffectiveWindows(week, d)} : d \in Days}
InWindow == WindowsContain(weekly, now)

NoStep == [pc |-> "idle", ok |-> FALSE]
ScreenInit ==
    /\ weekly \in Weeklies /\ setting \in Settings
    /\ now = 0
    /\ tv = "off" /\ power \in (IF weekly \in Lived THEN {"on", "off"} ELSE {"off"})
    /\ row \in IF weekly \in Lived THEN [tv : {"none", "on"}, power : {"none", "on"}]
                                  ELSE {[tv |-> "none", power |-> "none"]}
    /\ events = 0 /\ cronDue = FALSE /\ fresh = FALSE
    /\ jobs = {} /\ stopped = FALSE
    \* initialize() ends with master().
    /\ step = [t \in ScreenThreads |-> IF t = "mode" /\ weekly \in Lived
                                       THEN [NoStep EXCEPT !.pc = "master"] ELSE NoStep]
    /\ used = [acts |-> 0, lost |-> 0]

Acts == weekly \in Lived /\ used.acts < MaxActs /\ used' = [used EXCEPT !.acts = @ + 1]
Lost == used.lost < MaxLost /\ used' = [used EXCEPT !.lost = @ + 1]
At(t, pc) == step' = [step EXCEPT ![t].pc = pc]
Finish(t) == step' = [step EXCEPT ![t] = NoStep]

(* Time, users and modes *)
Later == (now + 1) % (NumDays * Slots)
ScreenTick ==
    /\ weekly \in Lived => now < Follow
    /\ now' = Later
    /\ cronDue' = (weekly \in Lived /\ (cronDue \/ Later \in Boundaries(weekly)))
    /\ UNCHANGED <<weekly, setting, tv, power, row, events, fresh, jobs, stopped, step, used>>
TvTurnedOn == /\ power = "on" /\ tv = "off" /\ events < MaxEvents /\ Acts
              /\ tv' = "on" /\ events' = events + 1
              /\ UNCHANGED <<weekly, setting, now, power, row, cronDue, fresh, jobs, stopped, step>>
\* A pause cancels the job of schedule_timeout.
StopIt == /\ ~stopped /\ Acts
          /\ stopped' = TRUE /\ jobs' = jobs \ {"cut"}
          /\ UNCHANGED <<weekly, setting, now, tv, power, row, events, cronDue, fresh, step>>
\* resume() and on_mode_change() call master().
ModeOrResume == /\ step["mode"].pc = "idle" /\ Acts
                /\ stopped' = FALSE /\ At("mode", "master")
                /\ UNCHANGED <<weekly, setting, now, tv, power, row, events, cronDue, fresh, jobs>>
\* The commander has verified a command of somebody else.
RowWritten(d) == /\ Acts
                 /\ row' = [row EXCEPT ![d] = IF d = "tv" THEN tv ELSE power]
                 /\ UNCHANGED <<weekly, setting, now, tv, power, events, cronDue, fresh, jobs, stopped, step>>
FreshNoMore == /\ fresh /\ fresh' = FALSE
               /\ UNCHANGED <<weekly, setting, now, tv, power, row, events, cronDue, jobs, stopped,
                              step, used>>

(* master and what it starts *)
CronFires == /\ cronDue /\ step["cron"].pc = "idle"
             /\ cronDue' = FALSE /\ At("cron", "master")
             /\ UNCHANGED <<weekly, setting, now, tv, power, row, events, fresh, jobs, stopped, used>>
\* The row is looked at in the same breath: no call lies in between.
ScreenMaster(t) ==
    /\ step[t].pc = "master"
    /\ IF stopped \/ ~HasAnyWindows(weekly) THEN Finish(t)
       ELSE IF ~InWindow THEN At(t, "tvOff")
       ELSE IF row.power = "on" THEN Finish(t) ELSE At(t, "powerOn")
    /\ UNCHANGED <<weekly, setting, now, tv, power, row, events, cronDue, fresh, jobs, stopped, used>>
\* _ensure_power_on: many TVs come on with the power.
PowerOn(t) ==
    /\ step[t].pc = "powerOn"
    /\ \/ /\ power' = "on" /\ row' = [row EXCEPT !.power = "on"]
          /\ \/ power = "off" /\ events < MaxEvents /\ tv' = "on" /\ events' = events + 1
             \/ UNCHANGED <<tv, events>>
          /\ fresh' = setting.suppress
          /\ jobs' = IF setting.suppress THEN jobs \cup {"wake"} ELSE jobs
          /\ UNCHANGED used
       \/ /\ Lost /\ row' = [row EXCEPT !.power = "none"]
          /\ UNCHANGED <<tv, power, events, fresh, jobs>>
    /\ Finish(t)
    /\ UNCHANGED <<weekly, setting, now, cronDue, stopped>>
TvCommandedOff == /\ row' = [row EXCEPT !.tv = "none"]
                  /\ \/ tv' = "off" /\ UNCHANGED used
                     \/ Lost /\ UNCHANGED tv
\* _execute_shutoff: off for the TV, with awaitPrimaryOff a wait for its row.
TvOff(t) ==
    /\ step[t].pc = "tvOff"
    /\ IF stopped THEN Finish(t) /\ UNCHANGED <<tv, row, used>>
       ELSE /\ TvCommandedOff
            /\ step' = [step EXCEPT ![t] = IF setting.awaitOff THEN [pc |-> "confirm", ok |-> FALSE]
                                           ELSE [pc |-> "second", ok |-> used' = used]]
    /\ UNCHANGED <<weekly, setting, now, power, events, cronDue, fresh, jobs, stopped>>
\* _confirm_off: the row says off, or the wait ends by a pause or a timeout.
Confirm(t) ==
    /\ step[t].pc = "confirm"
    /\ \/ ~stopped /\ row.tv = "off" /\ step' = [step EXCEPT ![t] = [pc |-> "second", ok |-> TRUE]]
       \/ step' = [step EXCEPT ![t].pc = "second"]
    /\ UNCHANGED <<weekly, setting, now, tv, power, row, events, cronDue, fresh, jobs, stopped, used>>
Delayed == setting.delay /\ (~setting.awaitOff \/ setting.unconditional)
Second(t) ==
    /\ step[t].pc = "second"
    /\ IF ~setting.unconditional /\ ~step[t].ok THEN Finish(t) /\ UNCHANGED jobs
       ELSE IF Delayed THEN Finish(t) /\ jobs' = jobs \cup {"cut"}
       ELSE At(t, "cut") /\ UNCHANGED jobs
    /\ UNCHANGED <<weekly, setting, now, tv, power, row, events, cronDue, fresh, stopped, used>>
\* _turn_off_secondary looks at the pause and at nothing else.
CutPower(t) ==
    /\ step[t].pc = "cut"
    /\ IF stopped THEN UNCHANGED <<tv, power, row, used>>
       ELSE \/ /\ power' = "off" /\ tv' = "off" /\ row' = [row EXCEPT !.power = "off"]
               /\ UNCHANGED used
            \/ Lost /\ row' = [row EXCEPT !.power = "none"] /\ UNCHANGED <<tv, power>>
    /\ Finish(t)
    /\ UNCHANGED <<weekly, setting, now, events, cronDue, fresh, jobs, stopped>>
CutJobFires == /\ "cut" \in jobs /\ step["job"].pc = "idle"
               /\ jobs' = jobs \ {"cut"} /\ At("job", "cut")
               /\ UNCHANGED <<weekly, setting, now, tv, power, row, events, cronDue, fresh, stopped,
                              used>>
\* _suppress_wake_check
WakeCheck == /\ "wake" \in jobs /\ jobs' = jobs \ {"wake"}
             /\ IF ~stopped /\ InWindow /\ row.tv = "on" THEN TvCommandedOff
                ELSE UNCHANGED <<tv, row, used>>
             /\ UNCHANGED <<weekly, setting, now, power, events, cronDue, fresh, stopped, step>>
\* Variant: a TV that comes on in the suppression time is dealt with by that alone
TvEventTrusting ==
    /\ events > 0 /\ step["event"].pc = "idle"
    /\ events' = events - 1
    /\ IF stopped \/ ~HasAnyWindows(weekly) THEN UNCHANGED <<tv, row, step, used>>
       ELSE IF fresh THEN TvCommandedOff /\ UNCHANGED step
       ELSE IF InWindow THEN UNCHANGED <<tv, row, step, used>>
       ELSE At("event", "tvOff") /\ UNCHANGED <<tv, row, used>>
    /\ UNCHANGED <<weekly, setting, now, power, cronDue, fresh, jobs, stopped>>
\* on_event: only a TV that comes on.
TvEvent ==
    /\ events > 0 /\ step["event"].pc = "idle"
    /\ events' = events - 1
    /\ IF stopped \/ ~HasAnyWindows(weekly) \/ (InWindow /\ ~fresh) THEN UNCHANGED <<tv, row, step, used>>
       ELSE IF InWindow THEN TvCommandedOff /\ UNCHANGED step
       ELSE At("event", "tvOff") /\ UNCHANGED <<tv, row, used>>
    /\ UNCHANGED <<weekly, setting, now, power, cronDue, fresh, jobs, stopped>>

Shutoff(t) == TvOff(t) \/ Confirm(t) \/ Second(t) \/ CutPower(t)
ScreenSteps(t) == ScreenMaster(t) \/ PowerOn(t) \/ Shutoff(t)
ScreenNext == \/ ScreenTick \/ TvTurnedOn \/ StopIt \/ ModeOrResume \/ FreshNoMore
              \/ \E d \in {"tv", "power"} : RowWritten(d)
              \/ CronFires \/ CutJobFires \/ WakeCheck \/ TvEvent
              \/ \E t \in ScreenThreads : ScreenSteps(t)

\* Jobs, events and threads go on; the clock may stand for as long as one likes.
ScreenFairness == /\ WF_screenVars(CronFires) /\ WF_screenVars(CutJobFires) /\ WF_screenVars(WakeCheck)
                  /\ WF_screenVars(TvEvent) /\ WF_screenVars(FreshNoMore)
                  /\ \A t \in ScreenThreads : WF_screenVars(ScreenSteps(t))
ScreenSpec == ScreenInit /\ [][ScreenNext]_screenVars /\ ScreenFairness

ScreenTypeOK ==
    /\ weekly \in Weeklies /\ setting \in Settings /\ now \in Times
    /\ {tv, power} \subseteq {"on", "off"} /\ events \in Nat
    /\ row \in [tv : {"on", "off", "none"}, power : {"on", "off", "none"}]
    /\ {cronDue, fresh, stopped} \subseteq BOOLEAN /\ jobs \subseteq {"cut", "wake"}
    /\ step \in [ScreenThreads -> [pc : {"idle", "master", "powerOn", "tvOff", "confirm", "second", "cut"},
                                   ok : BOOLEAN]]

\* The windows a user wrote: the time t of the week lies in a window that began
\* the same day or the day before.
Means(week, t) ==
    \E d \in Days : \E w \in RawWindows(week, d) :
        LET length == IF w.start < EndOf(w) THEN EndOf(w) - w.start
                      ELSE IF w.start > EndOf(w) THEN EndOf(w) + Slots - w.start ELSE 0
            since == (t - d * Slots - w.start) % (NumDays * Slots)
        IN since < length

\* Whatever windows the user wrote, also over midnight and over the end of the
\* week, the split ones contain the same times, and the times at which that
\* changes are those of the cron jobs (app.py:178-229, 526-547).
WindowsKeepTheirMeaning ==
    /\ InWindow <=> Means(weekly, now)
    /\ (InWindow # WindowsContain(weekly, Later)) => Later \in Boundaries(weekly)

\* Outside the windows a TV does not stay on, whatever users, modes and power
\* that comes back late do, and though one command is lost if the power is cut
\* unconditionally (app.py:114-172, 349-449).
BlockedTvGoesOff ==
    <>[](~InWindow /\ ~stopped /\ HasAnyWindows(weekly)) =>
        <>[](tv = "off" \/ (~setting.unconditional /\ used.lost > 0))

=============================================================================

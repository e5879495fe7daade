---------------------------- MODULE MCPowerApps ----------------------------
\* Two apps that take the power of an appliance away.  They share nothing: a
\* behaviour follows one, and the other stays at one of its initial states.
EXTENDS PowerManagement, ScreenTime
CONSTANT Apps
VARIABLE app
appsVars == <<app, powerVars, screenVars>>

SomeSetups == {[sensors |-> {"a", "b"}, watts |-> {1, 3}, low |-> 0, poll |-> FALSE],
               [sensors |-> {"a"}, watts |-> {0, 2, 3}, low |-> 1, poll |-> TRUE]}

From(a, b) == [start |-> a, end |-> b]
Week(same, everyDay, first, second) == [uniform |-> same, uniformWindows |-> everyDay,
                                        days |-> [d \in 0..1 |-> IF d = 0 THEN first ELSE second]]
\* Windows that cross midnight, end at it, or are open all day.
EveryDays == {{From(0, 0)}, {From(1, 0)}, {From(2, 1)}, {From(1, 1)}, {From(0, 1), From(2, 0)}, {}}
Firsts == {{}, {From(1, 2)}, {From(0, 1)}, {From(2, 1)}}
Seconds == {{}, {From(2, 1)}, {From(2, 2)}, {From(1, 0)}, {From(2, 1), From(1, 2)}}
SomeWeeks == {Week(TRUE, ws, {}, {}) : ws \in EveryDays}
                \cup {Week(FALSE, {From(0, 0)}, x, y) : x \in Firsts, y \in Seconds}
LivedWeeks == {Week(FALSE, {From(0, 0)}, {From(1, 2)}, {})}
SomeSettings == {[awaitOff |-> b, unconditional |-> b, delay |-> b, suppress |-> b] : b \in BOOLEAN}

AppsInit == /\ app \in Apps /\ PowerInit /\ ScreenInit
            /\ (app # "power" => setup.poll /\ \A s \in setup.sensors : watts[s] = 0)
            /\ (app = "power" => /\ weekly \in Lived /\ power = "off" /\ row.tv = "none" /\ row.power = "none"
                               /\ setting = CHOOSE s \in Settings : TRUE)
AppsNext == /\ UNCHANGED app
            /\ \/ app = "power" /\ PowerNext /\ UNCHANGED screenVars
               \/ app = "screen" /\ ScreenNext /\ UNCHANGED powerVars
\* PowerFairness and ScreenFairness of the app that runs.
PowerRuns == app = "power"
ScreenRuns == app = "screen"
FairPower ==
    /\ WF_powerVars(PowerRuns /\ PowerTick)
    /\ \A t \in PowerThreads : WF_powerVars(PowerRuns /\ PowerSteps(t))
    /\ \A s \in UNION {x.sensors : x \in Setups} : SF_powerVars(PowerRuns /\ OnPower(s))
FairScreen ==
    /\ WF_screenVars(ScreenRuns /\ CronFires)
    /\ WF_screenVars(ScreenRuns /\ CutJobFires)
    /\ WF_screenVars(ScreenRuns /\ WakeCheck)
    /\ WF_screenVars(ScreenRuns /\ TvEvent)
    /\ WF_screenVars(ScreenRuns /\ FreshNoMore)
    /\ \A t \in ScreenThreads : WF_screenVars(ScreenRuns /\ ScreenSteps(t))
AppsSpec == AppsInit /\ [][AppsNext]_appsVars /\ FairPower /\ FairScreen
=============================================================================

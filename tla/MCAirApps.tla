----------------------------- MODULE MCAirApps -----------------------------
\* The two apps of the bathroom's air.  They share nothing: a behaviour follows
\* one of them, and the other stays at one of its initial states.
EXTENDS FanAutomation, Humidifier
CONSTANT Apps
VARIABLE app
appsVars == <<app, fanVars, humidifierVars>>
SomeRows == {<<"on", "wet">>, <<"off", "wet">>, <<"off", "dry">>, <<"off", "between">>, <<"none", "none">>}
AirInit == /\ app \in Apps /\ FanInit /\ HumidifierInit
           /\ (app # "fan" => rows = [lamp |-> "none", humidity |-> "none"])
           /\ (app # "humidifier" => plug = "on" /\ air.humidity = "none" /\ air.motion = "none"
                                                  /\ air.contact = "closed")
AirNext == /\ UNCHANGED app
           /\ \/ app = "fan" /\ FanNext /\ UNCHANGED humidifierVars
              \/ app = "humidifier" /\ HumidifierNext /\ UNCHANGED fanVars
\* FanFairness and HumidifierFairness of the app that runs.
FanRuns == app = "fan"
HumidifierRuns == app = "humidifier"
FairFan ==
    /\ WF_fanVars(FanRuns /\ TimerEnds)
    /\ SF_fanVars(FanRuns /\ TwoSecondsPass)
    /\ WF_fanVars(FanRuns /\ FanEvent)
    /\ SF_fanVars(FanRuns /\ FanEvaluates("poll"))
    /\ \A t \in FanThreads : WF_fanVars(FanRuns /\ (FanSend(t) \/ FanStore(t)))
    /\ WF_fanVars(FanRuns /\ FanEvaluates("mode"))
FairHumidifier ==
    /\ WF_humidifierVars(HumidifierRuns /\ NoMotionTime)
    /\ WF_humidifierVars(HumidifierRuns /\ PlugLogged)
    /\ SF_humidifierVars(HumidifierRuns /\ HumidifierMaster("poll"))
    /\ \A t \in Workers : WF_humidifierVars(HumidifierRuns /\ (PlugLook(t) \/ PlugSend(t)))
AirSpec == AirInit /\ [][AirNext]_appsVars /\ FairFan /\ FairHumidifier
=============================================================================

------------------------------ MODULE MCTvRules ------------------------------
\* The client of a TV with the hubs it tells, the registry of such clients, and
\* the rules that TVs and buttons trigger.  Here they share no state: a behaviour
\* follows one of them, and the others stay at one of their initial states.
EXTENDS TvHubs, TvRegistry, Rules
CONSTANT Parts
VARIABLE part
partVars == <<part, hubVars, registryVars, rulesVars>>
TwoTvs == {[listens |-> {"wss", "ws"}, ssl |-> TRUE], [listens |-> {"ws"}, ssl |-> TRUE]}
OneButton == {[button |-> "1", seconds |-> 0], [button |-> "1", seconds |-> 1]}
\* A TV that is off, seen off and left alone, with no hub to tell.
TvLeftAlone ==
    /\ listens = {"wss", "ws"} /\ tv = "off" /\ view = "off" /\ streak = 0 /\ gate = FALSE
    /\ conn = "disconnected" /\ ws = "none" /\ secure = TRUE /\ loop = "top" /\ queue = <<>> /\ wake = "none"
    /\ reader = [r \in Readers |-> "gone"] /\ troubles = [orders |-> 0, faults |-> 0]
    /\ push = [t \in PushTasks |-> Nothing] /\ reached = {}
    /\ way = "url" /\ heard = Nothing /\ muddled = FALSE
\* A driver on a socket starts beside a hub with a URL, and a hub with a URL alone;
\* the TV of the other scheme has no hub to tell.
TvAndHub == /\ reached = IF way = "socket" THEN {"url"} ELSE {}
            /\ listens = {"ws"} => way = "url"
PartsInit == /\ part \in Parts
             /\ IF part = "tv" THEN HubsInit /\ TvAndHub ELSE TvLeftAlone
             /\ RegistryInit /\ (part # "registry" => table = NoRow)
             /\ RulesInit /\ (part # "rules" => /\ program = TvMode /\ mirror = turned
                                               /\ \A s \in Switches : turned[s] = "off")
             /\ mirror = turned \/ \A s \in Switches : mirror[s] = "none"
TvRuns == part = "tv"
PartsNext == /\ UNCHANGED part
             /\ \/ TvRuns /\ HubsNext /\ (listens = {"ws"} => reached' = {})
                   /\ UNCHANGED <<registryVars, rulesVars>>
                \/ part = "registry" /\ RegistryNext /\ UNCHANGED <<hubVars, rulesVars>>
                \/ part = "rules" /\ RulesNext /\ UNCHANGED <<hubVars, registryVars>>
\* HubsFairness of a TV.
FairTv == /\ WF_hubVars(TvRuns /\ NotPushing("loop") /\ ConnectLoop /\ Tells("loop", Changed))
          /\ WF_hubVars(TvRuns /\ NotPushing("key") /\ Waking)
          /\ WF_hubVars(TvRuns /\ NotPushing("key") /\ Quietly(StartTv))
          /\ \A r \in Readers : WF_hubVars(TvRuns /\ NotPushing(r) /\ Polls(r) /\ Tells(r, Changed))
          /\ \A t \in PushTasks : WF_hubVars(TvRuns /\ Pushed(t))
PartsSpec == PartsInit /\ [][PartsNext]_partVars /\ FairTv
=============================================================================

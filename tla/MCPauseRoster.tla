---------------------------- MODULE MCPauseRoster ----------------------------
\* The pause of an instance, and the table of the hubs' devices.  Here they share
\* no state: a behaviour follows one of them, and the other stays where it began.
EXTENDS PauseLifecycle, HubRoster
CONSTANT Parts
VARIABLE part
\* Both devices have the same label; each hub numbers its own from 1.
Numbered == [t \in Things |-> IF t = "lamp" THEN 1 ELSE 2]
Labelled == [t \in Things |-> "light"]
OneOnEachHub == {[lamp |-> 1, plug |-> 2], [lamp |-> Gone, plug |-> Gone]}
PartsInit == /\ part \in Parts /\ Init /\ RosterInit
             /\ part = "roster" <=> \E t \in Things : place[t] # Gone
PartsNext == /\ UNCHANGED part
             /\ \/ part = "pause" /\ Next /\ UNCHANGED rosterVars
                \/ part = "roster" /\ RosterNext /\ UNCHANGED vars
RosterRuns == part = "roster"
\* RosterFairness of the roster.
FairRoster ==
    /\ WF_rosterVars(RosterRuns /\ Sweeps("job"))
    /\ WF_rosterVars(RosterRuns /\ (sweep["request"].at # "rest" \/ desk.at = "sweep") /\ Sweeps("request"))
    /\ WF_rosterVars(RosterRuns /\ DeskSteps) /\ WF_rosterVars(RosterRuns /\ ClerkSteps)
PartsSpec == PartsInit /\ [][PartsNext]_<<part, vars, rosterVars>> /\ FairRoster
=============================================================================

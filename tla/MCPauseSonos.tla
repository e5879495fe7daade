---------------------------- MODULE MCPauseSonos -----------------------------
\* The pause of an instance, and a speaker.  Here they share no state: a behaviour
\* follows one of them, and the other stays at one of its initial states.
EXTENDS PauseLifecycle, SonosAnnounce
CONSTANT Parts
VARIABLE part
TwoUsesOrAFault == {[uses |-> 2, faults |-> 0], [uses |-> 1, faults |-> 1]}
PartsInit == /\ part \in Parts /\ Init /\ SonosInit
             /\ part # "sonos" => speaker.track = "none" /\ ~stored.locked /\ left.faults = 0
PartsNext == /\ UNCHANGED part
             /\ \/ part = "pause" /\ Next /\ UNCHANGED sonosVars
                \/ part = "sonos" /\ SonosNext /\ UNCHANGED vars
PauseRuns == part = "pause"
SonosRuns == part = "sonos"
\* Fairness of the pause, and SonosFairness of the speaker.
FairParts == /\ \A t \in Threads : WF_vars(PauseRuns /\ Continue(t))
             /\ WF_vars(PauseRuns /\ \E w \in Workers : Reconcile(w))
             /\ WF_vars(PauseRuns /\ Tick)
             /\ \A a \in Announcers : WF_sonosVars(SonosRuns /\ Speaks(a))
             /\ \A h \in Hands : WF_sonosVars(SonosRuns /\ HandSteps(h))
             /\ WF_sonosVars(SonosRuns /\ Enforces)
PartsSpec == PartsInit /\ [][PartsNext]_<<part, vars, sonosVars>> /\ FairParts
=============================================================================

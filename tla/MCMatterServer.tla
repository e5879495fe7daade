--------------------------- MODULE MCMatterServer ---------------------------
\* The way to the matter-server: the breaker of its client, the connection, and
\* the database of its nodes.  Here they share no state: a behaviour follows one
\* of them, and the others stay as they start.
EXTENDS CircuitBreaker, MatterLink, MatterRegistry
CONSTANT Parts
VARIABLE part
partVars == <<part, vars, linkVars, matterVars>>
OnHub1 == [t \in Things |-> "hub1"]
ServerInit == /\ part \in Parts /\ Init /\ LinkInit /\ MatterInit
              /\ (part # "link" => server = "down")
BreakerRuns == part = "breaker"
LinkRuns == part = "link"
ServerNext == /\ UNCHANGED part
              /\ \/ BreakerRuns /\ Next /\ UNCHANGED <<linkVars, matterVars>>
                 \/ LinkRuns /\ LinkNext /\ UNCHANGED <<vars, matterVars>>
                 \/ part = "registry" /\ MatterNext /\ UNCHANGED <<vars, linkVars>>
\* Fairness and LinkFairness of the part that runs.
FairBreaker == \A c \in Callers : WF_vars(BreakerRuns /\ CallStep(c))
FairLink == /\ \A t \in Tasks : /\ WF_linkVars(LinkRuns /\ ConnectReturns(t))
                                /\ WF_linkVars(LinkRuns /\ GivesUp(t))
            /\ WF_linkVars(LinkRuns /\ Ask("watchdog"))
            /\ \A k \in Sockets : WF_linkVars(LinkRuns /\ ListenerSteps(k))
ServerSpec == ServerInit /\ [][ServerNext]_partVars /\ FairBreaker /\ FairLink
=============================================================================

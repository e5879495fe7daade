------------------------------ MODULE MatterLink ------------------------------
(***************************************************************************)
(* The WebSocket to the matter-server, which all callers share: a request  *)
(* connects when the flag says that nothing is connected, a listener of    *)
(* each connection hands the answers out, and the watchdog asks for the    *)
(* nodes and interviews those that do not answer.                          *)
(*                                                                         *)
(* A step is what happens between two awaits.  A listener reads the        *)
(* client's socket when its task first runs, which need not be the one it  *)
(* was started for.  The breaker is CircuitBreaker; here a request may be  *)
(* refused.  The entry of the pending table that a refused or cancelled    *)
(* request leaves behind is never used again and is left out.              *)
(*                                                                         *)
(* Sources: services/matter_client.py, services/matter_watchdog.py         *)
(***************************************************************************)
EXTENDS Integers, FiniteSetsExt

CONSTANTS LinkCallers,        \* commander threads and endpoints
          MaxSockets,     \* sockets that exist at a time
          StaleAfter,     \* _STALE_AFTER_FAILS
          CleanCloses,    \* whether the server may close with code 1000 or 1001
          MaxRequests,    \* bound on requests of the callers
          MaxLinkFaults   \* bound on lost connections, restarts, refusals and sick nodes

ASSUME LinkAssumption == {MaxSockets, StaleAfter} \subseteq Nat \ {0} /\ CleanCloses \in BOOLEAN

VARIABLES server,     \* the matter-server is up
          socket,     \* the state of each socket
          current,    \* _ws, or 0
          connected,  \* _connected
          listener,   \* the task of each connection: its socket, Starting or 0
          request,    \* what each task of the loop waits for
          node,       \* the node: "well", "stale" (an interview helps) or "gone"
          healing,    \* _reinterview_fails and removal_candidates of the node
          hurt
linkVars == <<server, socket, current, connected, listener, request, node, healing, hurt>>

Sockets == 1..MaxSockets
Starting == -1
Tasks == LinkCallers \cup {"watchdog"}
NoRequest == [at |-> "idle", via |-> 0]
LinkInit == /\ server \in {"up", "down"} /\ socket = [s \in Sockets |-> "none"]
            /\ current = 0 /\ connected = FALSE /\ listener = [s \in Sockets |-> 0]
            /\ request = [t \in Tasks |-> NoRequest]
            /\ node = "well" /\ healing = [fails |-> 0, flagged |-> FALSE]
            /\ hurt = [requests |-> 0, faults |-> 0]

Hurt == hurt.faults < MaxLinkFaults /\ hurt' = [hurt EXCEPT !.faults = @ + 1]
\* A socket nobody uses any more may stand for the next connection.
FreeSockets == {s \in Sockets : /\ s # current /\ listener[s] = 0
                         /\ \A k \in Sockets : listener[k] # s
                         /\ \A t \in Tasks : request[t].via # s}

(* The network and the server *)
ConnectionLost(s) == /\ socket[s] = "open" /\ Hurt
                     /\ socket' = [socket EXCEPT ![s] = "lost"]
                     /\ UNCHANGED <<server, current, connected, listener, request, node, healing>>
ServerStops == /\ server = "up" /\ Hurt /\ server' = "down"
               /\ \E how \in {"lost"} \cup (IF CleanCloses THEN {"clean"} ELSE {}) :
                     socket' = [s \in Sockets |-> IF socket[s] = "open" THEN how ELSE socket[s]]
               /\ UNCHANGED <<current, connected, listener, request, node, healing>>
ServerStarts == /\ server = "down" /\ server' = "up"
                /\ UNCHANGED <<socket, current, connected, listener, request, node, healing, hurt>>
NodeChanges(n) == /\ n # node /\ Hurt /\ node' = n
                  /\ UNCHANGED <<server, socket, current, connected, listener, request, healing>>

(* Requests *)
\* is_connected
IsConnected == connected /\ current # 0
\* What happens to a request when the connection is there.
SentOver(t, s, kind) ==
    request' = [request EXCEPT ![t] = IF socket'[s] = "open" THEN [at |-> kind, via |-> s] ELSE NoRequest]
\* _ensure_connected and _send_command up to the first await.
Ask(t) ==
    /\ request[t] = NoRequest
    /\ IF t \in LinkCallers THEN /\ hurt.requests < MaxRequests
                             /\ hurt' = [hurt EXCEPT !.requests = @ + 1] ELSE UNCHANGED hurt
    /\ UNCHANGED <<server, socket, current, connected, listener, node, healing>>
    /\ IF IsConnected THEN SentOver(t, current, "asked")
       ELSE request' = [request EXCEPT ![t] = [at |-> "connecting", via |-> 0]]
\* connect() and the rest: the new connection takes the place of any other.
ConnectReturns(t) ==
    /\ request[t].at = "connecting"
    /\ IF server = "up"
       THEN LET s == Min(FreeSockets) IN
              /\ FreeSockets # {}
              /\ socket' = [socket EXCEPT ![s] = "open"]
              /\ current' = s /\ connected' = TRUE
              /\ listener' = [listener EXCEPT ![s] = Starting]
              /\ SentOver(t, s, "asked")
       ELSE /\ connected' = FALSE /\ request' = [request EXCEPT ![t] = NoRequest]
            /\ UNCHANGED <<socket, current, listener>>
    /\ UNCHANGED <<server, node, healing, hurt>>
\* The open breaker refuses before anything is sent.
Refused(t) == /\ request[t].at = "asked" /\ Hurt /\ request' = [request EXCEPT ![t] = NoRequest]
              /\ UNCHANGED <<server, socket, current, connected, listener, node, healing>>
\* Nobody hears the answer, or there is none: the wait of the request, of
\* run_on_loop or of the watchdog ends.
Unheard(s) == socket[s] # "open" \/ \A k \in Sockets : listener[k] \notin {s, Starting}
GivesUp(t) == /\ request[t].at \in {"asked", "interview"}
              /\ Unheard(request[t].via) \/ (request[t].at = "interview" /\ node = "gone")
              /\ request' = [request EXCEPT ![t] = NoRequest]
              /\ UNCHANGED <<server, socket, current, connected, listener, node, hurt>>
              /\ healing' = IF request[t].at = "interview"
                            THEN [fails |-> healing.fails + 1,
                                  flagged |-> healing.flagged \/ healing.fails + 1 >= StaleAfter]
                            ELSE healing

(* The listener of a connection *)
\* A second reader of the same socket fails, and the flag falls with it.
ListenerStarts(k) ==
    LET s == current
        taken == \E j \in Sockets : listener[j] = s IN
    /\ listener[k] = Starting
    /\ listener' = [listener EXCEPT ![k] = IF taken \/ socket[s] # "open" THEN 0 ELSE s]
    /\ connected' = IF taken \/ socket[s] = "lost" THEN FALSE ELSE connected
    /\ UNCHANGED <<server, socket, current, request, node, healing, hurt>>
\* An answer goes to the request with its message_id, whatever socket it used.
Answered(k, t) ==
    LET s == listener[k] IN
    /\ s > 0 /\ socket[s] = "open" /\ request[t].via = s /\ t \in LinkCallers
    /\ request' = [request EXCEPT ![t] = NoRequest]
    /\ UNCHANGED <<server, socket, current, connected, listener, node, healing, hurt>>
\* Variant: a connection that breaks leaves the flag as it is
ListenerEndsQuietly(k) ==
    LET s == listener[k] IN
    /\ s > 0 /\ socket[s] # "open"
    /\ listener' = [listener EXCEPT ![k] = 0]
    /\ UNCHANGED <<server, socket, current, connected, request, node, healing, hurt>>
\* ConnectionClosed drops the flag; the iteration over a socket that was closed
\* in good order just ends.
ListenerEnds(k) ==
    LET s == listener[k] IN
    /\ s > 0 /\ socket[s] # "open"
    /\ listener' = [listener EXCEPT ![k] = 0]
    /\ connected' = IF socket[s] = "lost" THEN FALSE ELSE connected
    /\ UNCHANGED <<server, socket, current, request, node, healing, hurt>>

(* The watchdog's sweep: get_nodes, then an interview if the node is unavailable *)
NodesArrive(k) ==
    LET s == listener[k]
        forget == IF node = "well" THEN [fails |-> 0, flagged |-> FALSE] ELSE healing IN
    /\ s > 0 /\ socket[s] = "open" /\ request["watchdog"] = [at |-> "asked", via |-> s]
    /\ healing' = forget
    /\ request' = [request EXCEPT !["watchdog"] =
                     IF node # "well" /\ ~forget.flagged THEN [at |-> "interview", via |-> s] ELSE NoRequest]
    /\ UNCHANGED <<server, socket, current, connected, listener, node, hurt>>
InterviewEnds(k) ==
    LET s == listener[k] IN
    /\ s > 0 /\ socket[s] = "open" /\ request["watchdog"] = [at |-> "interview", via |-> s] /\ node # "gone"
    /\ node' = "well" /\ healing' = [healing EXCEPT !.fails = 0]
    /\ request' = [request EXCEPT !["watchdog"] = NoRequest]
    /\ UNCHANGED <<server, socket, current, connected, listener, hurt>>

ListenerSteps(k) == ListenerStarts(k) \/ ListenerEnds(k) \/ NodesArrive(k) \/ InterviewEnds(k)
                    \/ \E t \in LinkCallers : Answered(k, t)
RequestSteps(t) == Ask(t) \/ ConnectReturns(t) \/ GivesUp(t)
LinkNext == \/ (\E s \in Sockets : ConnectionLost(s)) \/ ServerStops \/ ServerStarts
            \/ (\E n \in {"stale", "gone"} : NodeChanges(n))
            \/ (\E t \in Tasks : RequestSteps(t) \/ Refused(t))
            \/ (\E k \in Sockets : ListenerSteps(k))
LinkFairness == /\ \A t \in Tasks : WF_linkVars(ConnectReturns(t)) /\ WF_linkVars(GivesUp(t))
                /\ WF_linkVars(Ask("watchdog"))
                /\ \A k \in Sockets : WF_linkVars(ListenerSteps(k))
LinkSpec == LinkInit /\ [][LinkNext]_linkVars /\ LinkFairness

LinkTypeOK ==
    /\ server \in {"up", "down"} /\ socket \in [Sockets -> {"none", "open", "lost", "clean"}]
    /\ current \in 0..MaxSockets /\ connected \in BOOLEAN
    /\ listener \in [Sockets -> -1..MaxSockets]
    /\ request \in [Tasks -> [at : {"idle", "connecting", "asked", "interview"}, via : 0..MaxSockets]]
    /\ node \in {"well", "stale", "gone"}
    /\ healing \in [fails : 0..StaleAfter, flagged : BOOLEAN]

Usable == IsConnected /\ socket[current] = "open" /\ \E k \in Sockets : listener[k] = current
\* matter_watchdog.py:2-3: the watchdog "keeps the matter_client connection
\* alive": while the server is up, the client has a connection that is open and
\* listened to, though connections break, two tasks connect at once and the
\* listener of an old connection drops the flag of the new one.
LinkKeptAlive == <>[](server = "up") => <>[]Usable
=============================================================================

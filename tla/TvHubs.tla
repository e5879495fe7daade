------------------------------- MODULE TvHubs -------------------------------
(***************************************************************************)
(* The client of SamsungTv and a hub that is told of its changes, over the *)
(* socket of its driver or at a callback URL.  A task that changes the     *)
(* power or connection state reads both, sends them to the sockets, then   *)
(* to the URLs, and goes on when that is done; a key that cannot be sent,  *)
(* and a URL that is registered, start a task of their own.  Without a URL *)
(* nothing is sent at all: the URL may be that of another hub.             *)
(*                                                                         *)
(* Sources: apps/samsung_tv/blueprint.py, services/samsung_tv_client.py    *)
(***************************************************************************)
EXTENDS SamsungTv

VARIABLES way,         \* how the hub is told: "socket" or "url"
          push,        \* for each task the state its push has read and whom it tells next
          reached,     \* "url": there is one in _hubitat_callbacks; "socket": _hub_state_clients
          heard,       \* the power and connection state the hub was told last
          muddled      \* two pushes overlapped, or one failed, and none has begun alone since
hubVars == <<tvVars, way, push, reached, heard, muddled>>
hubRest == <<way, reached, heard>>

PushTasks == Readers \cup {"loop", "key", "register"}
Ways == {"socket", "url"}
Nothing == <<>>
State == <<view, conn>>
HubsInit == /\ TvInit /\ push = [t \in PushTasks |-> Nothing]
            \* A restart finds the URLs in their file.
            /\ way \in Ways /\ reached \in {{}, {"url"}} /\ heard = Nothing /\ muddled = FALSE

\* push_state_changes up to its first await: the sockets are those of now.
Pushing == [what |-> State', next |-> IF "socket" \in reached THEN "socket" ELSE "url"]
UnderWay == \E t \in PushTasks : push[t] # Nothing
Starts(t) == push' = [push EXCEPT ![t] = Pushing] /\ muddled' = UnderWay
\* Variant: only changes of the power state are pushed
TellsPower(t, fires) == /\ IF view' # view /\ "url" \in reached THEN Starts(t)
                           ELSE UNCHANGED <<push, muddled>>
                        /\ UNCHANGED hubRest
\* A callback that fires pushes, if there is a URL.
Tells(t, fires) == /\ IF fires /\ "url" \in reached THEN Starts(t) ELSE UNCHANGED <<push, muddled>>
                   /\ UNCHANGED hubRest
\* on_power_change and on_conn_change of a task that has changed something.
Changed == State' # State
\* A key that could not be sent fires without a change, too.
Unsent == ~Sent /\ conn' = "disconnected" /\ Callback
\* The hub hears what was read; a push that fails is not repeated, and a socket
\* that fails is dropped.
Pushed(t) ==
    /\ push[t] # Nothing
    /\ push' = [push EXCEPT ![t] = IF @.next = "socket" THEN [@ EXCEPT !.next = "url"] ELSE Nothing]
    /\ \/ heard' = (IF push[t].next = way THEN push[t].what ELSE heard) /\ UNCHANGED <<reached, muddled, troubles>>
       \/ /\ push[t].next = way /\ Trouble /\ muddled' = TRUE /\ UNCHANGED heard
          /\ reached' = reached \ ({"socket"} \cap {way})
    /\ UNCHANGED <<way, listens, tv, view, streak, gate, conn, ws, secure, loop, queue, reader, wake>>
\* tv_register: the current state goes out.
Registers == /\ "url" \notin reached /\ push["register"] = Nothing /\ reached' = reached \cup {"url"}
             /\ UNCHANGED <<tvVars, way, heard>>
             /\ Starts("register")
Unregisters == /\ "url" \in reached /\ Order /\ reached' = reached \ {"url"}
               /\ UNCHANGED <<listens, tv, view, streak, gate, conn, ws, secure, loop, queue, reader, wake,
                              way, push, heard, muddled>>
\* hub_state_ws: the driver that connects is sent the state, and no push.
Connects == /\ way = "socket" /\ "socket" \notin reached /\ reached' = reached \cup {"socket"}
            /\ heard' = State
            /\ UNCHANGED <<tvVars, way, push, muddled>>

\* stop() ends the tasks of the client in the middle of what they push.
Stops == /\ StopTv
         /\ push' = [t \in PushTasks |-> IF t \in {"poll", "loop"} THEN Nothing
                                         ELSE IF t = "key" /\ Changed /\ "url" \in reached THEN Pushing
                                         ELSE push[t]]
         /\ muddled' = (muddled \/ UnderWay)
         /\ UNCHANGED hubRest

\* A task waits for its own push.
NotPushing(t) == push[t] = Nothing
Quietly(A) == A /\ UNCHANGED <<hubRest, push, muddled>>
Waking == WolSent /\ Tells("key", wake = "wol+key" /\ Unsent)
KeySteps == \/ (\E k \in {"power", "mute"} : SendKey(k)) /\ Tells("key", Unsent)
            \/ Waking
HubsNext == \/ \E x \in {"on", "standby", "off"} : Quietly(TvByHand(x))
            \/ Quietly(SocketBreaks) \/ Quietly(TurnOn)
            \/ NotPushing("key") /\ (Stops \/ Quietly(StartTv))
            \/ NotPushing("key") /\ KeySteps
            \/ NotPushing("loop") /\ ConnectLoop /\ Tells("loop", Changed)
            \/ \E r \in Readers : NotPushing(r) /\ Polls(r) /\ Tells(r, Changed)
            \/ Registers \/ Unregisters \/ Connects
            \/ \E t \in PushTasks : Pushed(t)
HubsFairness == /\ WF_hubVars(NotPushing("loop") /\ ConnectLoop /\ Tells("loop", Changed))
                /\ WF_hubVars(NotPushing("key") /\ Waking)
                /\ WF_hubVars(NotPushing("key") /\ Quietly(StartTv))
                /\ \A r \in Readers : WF_hubVars(NotPushing(r) /\ Polls(r) /\ Tells(r, Changed))
                /\ \A t \in PushTasks : WF_hubVars(Pushed(t))
HubsSpec == HubsInit /\ [][HubsNext]_hubVars /\ HubsFairness

\* A hub ends up with the state of the client, over its socket too as long as
\* somebody has registered a URL, unless pushes overlapped or one failed and
\* nothing has changed since: the next push that begins alone puts it right.
\* Without a URL a socket is sent nothing after the first state
\* (blueprint.py:163-195, 604-665).
HubFollows ==
    <>[](tv = "on" /\ Scheme \in listens /\ {"url", way} \subseteq reached)
      => <>[](heard = State) \/ <>[]muddled

=============================================================================

------------------------------ MODULE SamsungTv ------------------------------
(***************************************************************************)
(* The client of one Samsung TV: pollers read over HTTP whether it is on,  *)
(* a loop keeps a WebSocket open while it is, and requests send keys over  *)
(* that socket or leave them in a queue.  The power key is a toggle.       *)
(*                                                                         *)
(* A step is what happens between two awaits.  A reading is taken in a     *)
(* thread and applied later.  The durations of waits are left out, and so  *)
(* are the token and max_retries, which nobody sets.  TvHubs has the       *)
(* next-state relation, with what the hubs are told of each change.        *)
(*                                                                         *)
(* Sources: services/samsung_tv_client.py, apps/samsung_tv/blueprint.py    *)
(***************************************************************************)
EXTENDS Integers, Sequences

CONSTANTS OffStreak,     \* _OFF_STREAK_THRESHOLD
          QueueDepth,    \* _MAX_QUEUE_DEPTH
          Callback,      \* whether there is an on_conn_change
          TvKinds,       \* [listens: what its remote control speaks, of "wss" and "ws"; ssl: use_ssl]
          MaxOrders,     \* bound on requests and on hands on the TV
          MaxTvFaults    \* bound on lost readings and broken connections

ASSUME TvAssumption == /\ {OffStreak, QueueDepth} \subseteq Nat \ {0} /\ Callback \in BOOLEAN
                       /\ TvKinds \subseteq [listens : SUBSET {"wss", "ws"}, ssl : BOOLEAN]

VARIABLES listens,   \* what the TV's remote control speaks
          tv,        \* "on", "standby" (in the network) or "off"
          view,      \* _power_state
          streak,    \* _off_streak, up to OffStreak
          gate,      \* _tv_on_event
          conn,      \* _conn_state
          ws,        \* the socket of _ws; a "dead" one is not known to be closed
          secure,    \* _use_ssl
          loop,      \* where the connect loop is
          queue,     \* _cmd_queue
          reader,    \* each poller: "gone", "idle" or what it has read
          wake,      \* the request that turns the TV on: "none", "wol" or "wol+key"
          troubles
tvVars == <<listens, tv, view, streak, gate, conn, ws, secure, loop, queue, reader, wake, troubles>>

Readers == {"poll", "wol"}
\* The power key of turn_on is told from that of other requests.
Keys == {"power", "mute", "wake power"}
TvInit == /\ \E kind \in TvKinds : listens = kind.listens /\ secure = kind.ssl
          /\ tv \in {"on", "off"} /\ view = "unknown" /\ streak = 0 /\ gate = TRUE
          /\ conn = "disconnected" /\ ws = "none"
          /\ loop = "top" /\ queue = <<>>
          /\ reader = [r \in Readers |-> IF r = "poll" THEN "idle" ELSE "gone"]
          /\ wake = "none" /\ troubles = [orders |-> 0, faults |-> 0]

Order == troubles.orders < MaxOrders /\ troubles' = [troubles EXCEPT !.orders = @ + 1]
Trouble == troubles.faults < MaxTvFaults /\ troubles' = [troubles EXCEPT !.faults = @ + 1]
\* Without pings a TV that is cut off need not be noticed.
Dropped == IF ws = "open" THEN {"closed", "dead"} ELSE {ws}

(* The TV and the network *)
TvByHand(x) == /\ x # tv /\ Order /\ tv' = x
               /\ ws' \in IF x = "off" THEN Dropped ELSE {ws}
               /\ UNCHANGED <<listens, view, streak, gate, conn, secure, loop, queue, reader, wake>>
SocketBreaks == /\ ws = "open" /\ Trouble /\ ws' \in Dropped
                /\ UNCHANGED <<listens, tv, view, streak, gate, conn, secure, loop, queue, reader, wake>>
Pressed(key, power) == IF key = "mute" THEN power ELSE IF power = "on" THEN "standby" ELSE "on"

(* Readings *)
PollReads(r) == /\ reader[r] = "idle" /\ loop # "stopped"
                /\ \/ reader' = [reader EXCEPT ![r] = IF tv = "on" THEN "on" ELSE "off"] /\ UNCHANGED troubles
                   \/ tv = "on" /\ Trouble /\ reader' = [reader EXCEPT ![r] = "off"]
                /\ UNCHANGED <<listens, tv, view, streak, gate, conn, ws, secure, loop, queue, wake>>
\* _update_power_state: the callback runs after everything is set.
Update(power) == view' = power /\ gate' = (power = "on")
Counted == IF streak < OffStreak THEN streak + 1 ELSE streak
\* Variant: readings count only once the TV has been seen on
PollAppliesOnceSeen(r) ==
    /\ reader[r] \in {"on", "off"}
    /\ reader' = [reader EXCEPT ![r] = IF r = "wol" /\ @ = "on" THEN "gone" ELSE "idle"]
    /\ IF reader[r] = "on" THEN streak' = 0 /\ Update("on")
       ELSE /\ streak' = IF view = "unknown" THEN 0 ELSE Counted
            /\ IF Counted >= OffStreak /\ view = "on" THEN Update("off") ELSE UNCHANGED <<view, gate>>
    /\ UNCHANGED <<listens, tv, conn, ws, secure, loop, queue, wake, troubles>>
\* The rest of poll_power.  The fast poller after a wake-up ends with the first
\* "on", or after some tries.
PollApplies(r) ==
    /\ reader[r] \in {"on", "off"}
    /\ \E next \in IF r = "poll" THEN {"idle"} ELSE IF reader[r] = "on" THEN {"gone"} ELSE {"gone", "idle"} :
          reader' = [reader EXCEPT ![r] = next]
    /\ IF reader[r] = "on" THEN streak' = 0 /\ Update("on")
       ELSE /\ streak' = Counted
            /\ IF Counted >= OffStreak THEN Update("off") ELSE UNCHANGED <<view, gate>>
    /\ UNCHANGED <<listens, tv, conn, ws, secure, loop, queue, wake, troubles>>

(* Requests *)
Queued(key) == Append(IF Len(queue) = QueueDepth THEN Tail(queue) ELSE queue, key)
\* send_key to a TV in the given state.  What cannot be sent is queued, if there
\* is a callback and the loop is not connecting; a dead socket takes the key and
\* is closed if the TV answers.
Sent == conn = "connected" /\ ws \in {"open", "dead"}
SendsKey(key, power) ==
    IF Sent
    THEN /\ tv' = IF ws = "open" THEN Pressed(key, power) ELSE power
         /\ ws' = IF ws = "dead" /\ power # "off" THEN "closed" ELSE ws
         /\ UNCHANGED <<conn, queue>>
    ELSE /\ conn' = IF conn = "connected" /\ ws = "closed" THEN "disconnected" ELSE conn
         /\ queue' = IF conn' = "disconnected" /\ Callback THEN Queued(key) ELSE queue
         /\ tv' = power /\ UNCHANGED ws
SendKey(key) == /\ Order /\ SendsKey(key, tv)
                /\ UNCHANGED <<listens, view, streak, gate, secure, loop, reader, wake>>
\* turn_on looks at the socket before it sends the packet.
TurnOn == /\ wake = "none" /\ Order
          /\ wake' = IF conn = "connected" /\ ws # "none" THEN "wol+key" ELSE "wol"
          /\ UNCHANGED <<listens, tv, view, streak, gate, conn, ws, secure, loop, queue, reader>>
WolSent == LET woken == IF tv = "off" THEN "on" ELSE tv IN
           /\ wake # "none" /\ wake' = "none"
           /\ reader' = [reader EXCEPT !["wol"] = IF @ = "gone" THEN "idle" ELSE @]
           /\ IF wake = "wol+key" THEN SendsKey("wake power", woken)
              ELSE tv' = woken /\ UNCHANGED <<conn, ws, queue>>
           /\ UNCHANGED <<listens, view, streak, gate, secure, loop, troubles>>
\* stop() and start() of configure; a reading under way is lost with its task,
\* but for the fast poller's.
StopTv == /\ loop # "stopped" /\ Order
          /\ loop' = "stopped" /\ ws' = "none" /\ conn' = "disconnected"
          /\ reader' = [reader EXCEPT !["poll"] = "gone"]
          /\ UNCHANGED <<listens, tv, view, streak, gate, secure, queue, wake>>
StartTv == /\ loop = "stopped" /\ loop' = "top"
           /\ reader' = [reader EXCEPT !["poll"] = "idle"]
           /\ UNCHANGED <<listens, tv, view, streak, gate, conn, ws, secure, queue, wake, troubles>>

(* The connect loop *)
LoopTop == /\ loop = "top"
           /\ IF gate THEN loop' = "dial" /\ conn' = "connecting"
              ELSE loop' = "gated" /\ conn' = "disconnected"
           /\ UNCHANGED <<listens, tv, view, streak, gate, ws, secure, queue, reader, wake, troubles>>
GateOpens == /\ loop = "gated" /\ gate
             /\ loop' = "dial" /\ conn' = "connecting"
             /\ UNCHANGED <<listens, tv, view, streak, gate, ws, secure, queue, reader, wake, troubles>>
Scheme == IF secure THEN "wss" ELSE "ws"
\* A TV that cannot be reached is taken to be off; a refused connection and an
\* SSLError are OSErrors, and the scheme stays.
Unreached == Update("off") /\ loop' = "closing" /\ UNCHANGED <<conn, ws, secure>>
BadHandshake == loop' = "closing" /\ secure' \in {secure, FALSE} /\ UNCHANGED <<view, gate, conn, ws>>
Dial == /\ loop = "dial"
        /\ \/ /\ tv # "off" /\ Scheme \in listens
              /\ ws' = "open" /\ conn' = "connected" /\ loop' = "hello"
              /\ UNCHANGED <<view, gate, secure, troubles>>
           \/ (tv = "off" \/ Scheme \notin listens) /\ Unreached /\ UNCHANGED troubles
           \/ tv # "off" /\ Trouble /\ (Unreached \/ BadHandshake)
        /\ UNCHANGED <<listens, tv, streak, queue, reader, wake>>
\* The first message, or ten seconds without one; an end of the connection.
Hello == /\ loop = "hello" /\ loop' = IF ws = "closed" THEN "closing" ELSE "flush"
         /\ UNCHANGED <<listens, tv, view, streak, gate, conn, ws, secure, queue, reader, wake, troubles>>
Flush == /\ loop = "flush"
         /\ IF queue = <<>> THEN loop' = "listen" /\ UNCHANGED <<listens, tv, queue>>
            ELSE IF ws = "open" THEN /\ tv' = Pressed(Head(queue), tv) /\ queue' = Tail(queue)
                                     /\ UNCHANGED loop
            ELSE IF ws = "dead" THEN queue' = Tail(queue) /\ UNCHANGED <<listens, tv, loop>>
            ELSE queue' = Append(Tail(queue), Head(queue)) /\ loop' = "listen" /\ UNCHANGED tv
         /\ UNCHANGED <<listens, view, streak, gate, conn, ws, secure, reader, wake, troubles>>
SessionEnds == /\ loop = "listen" /\ ws = "closed" /\ loop' = "closing"
               /\ UNCHANGED <<listens, tv, view, streak, gate, conn, ws, secure, queue, reader, wake, troubles>>
\* The wait after a session or an error comes before the socket is forgotten.
Closing == /\ loop = "closing" /\ loop' = "top"
           /\ ws' = "none" /\ conn' = "disconnected"
           /\ UNCHANGED <<listens, tv, view, streak, gate, secure, queue, reader, wake, troubles>>

ConnectLoop == LoopTop \/ GateOpens \/ Dial \/ Hello \/ Flush \/ SessionEnds \/ Closing
Polls(r) == PollReads(r) \/ PollApplies(r)
TvTypeOK ==
    /\ tv \in {"on", "standby", "off"} /\ view \in {"on", "off", "unknown"} /\ streak \in 0..OffStreak
    /\ conn \in {"disconnected", "connecting", "connected"} /\ ws \in {"none", "open", "closed", "dead"}
    /\ {gate, secure} \subseteq BOOLEAN
    /\ loop \in {"top", "gated", "dial", "hello", "flush", "listen", "closing", "stopped"}
    /\ queue \in Seq(Keys) /\ Len(queue) <= QueueDepth
    /\ reader \in [Readers -> {"gone", "idle", "on", "off"}] /\ wake \in {"none", "wol", "wol+key"}

\* A TV that stays on, and speaks what the client dials, is seen on, connected,
\* and what waited was sent; one that stays off is seen off: lost readings, broken
\* connections and a connect loop that closes its own gate do not leave the client
\* behind.  One that speaks only the other scheme is seen on again and again, and
\* taken to be off by every dial in between (samsung_tv_client.py:544-696, 772-950).
TvFollowed ==
    /\ <>[](tv = "on" /\ Scheme \in listens) => <>[](view = "on" /\ conn = "connected" /\ queue = <<>>)
    /\ <>[](tv = "on") => []<>(view = "on")
    /\ <>[](tv # "on") => <>[](view = "off")

=============================================================================

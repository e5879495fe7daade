----------------------------- MODULE DeviceFeed -----------------------------
(***************************************************************************)
(* What the application knows of one attribute of a device on a hub: the   *)
(* hub's socket brings every change while it is connected, and a poll of   *)
(* the hub replays what a broken connection has lost.                      *)
(*                                                                         *)
(* The poll does not compare the hub with what the apps were told.  It     *)
(* compares it with a copy of the device_cache row that its own cache      *)
(* object read once and keeps, and remembers the value it saw last.        *)
(*                                                                         *)
(* Sources: services/hubitat_eventsocket_client.py,                        *)
(* services/reconcile_poll.py, services/device_cache.py,                   *)
(* services/device_cache_refresh.py, services/webhook_router.py,           *)
(* apps/base/hubitat_bridge.py                                             *)
(***************************************************************************)
EXTENDS Integers, Sequences

CONSTANTS Values,       \* values of the attribute
          NoValue,      \* there is no row, or nothing has been seen
          Absent,       \* the row is there and does not have the attribute
          MaxBackoff,   \* BACKOFF_MAX_SECS as a number of doublings
          MaxChanges,   \* bound on changes of the device
          MaxFaults     \* bound on broken links, failed calls, restarts, writes

ASSUME FeedAssumption == /\ NoValue # Absent /\ {NoValue, Absent} \cap Values = {}
                         /\ {MaxBackoff, MaxChanges, MaxFaults} \subseteq Nat

VARIABLES dev,      \* the device's value on its hub
          sock,     \* the socket task of the hub
          wire,     \* frames the hub has sent and the socket has not read
          view,     \* the value the apps were told last
          log,      \* the value of the newest event_log row
          row,      \* the attribute in the device_cache row
          rec,      \* the reconcile task
          health,   \* the hub's row of hub_health
          tally,    \* changes and faults so far, for the bounds
          movedOn   \* the poll has looked at another value since its last replay

feedVars == <<dev, sock, wire, view, log, row, rec, health, tally, movedOn>>

NoFrame == NoValue
\* pc: connect, up (frames flow), dead (half open: the hub has gone and the
\* socket does not know), wait (backing off), stopped.  hand: the frame whose
\* event has been queued and not been logged; data: got_data; doubled: log2 of backoff.
Socket == [pc : {"connect", "up", "dead", "wait", "stopped"}, hand : Values \cup {NoValue},
           data : BOOLEAN, doubled : 0..MaxBackoff]
Fresh == [pc |-> "connect", hand |-> NoFrame, data |-> FALSE, doubled |-> 0]
\* kept: the poll's copy of the row; asked: what the hub answered; seen: _last_seen;
\* told: the value it replayed last.
Poll == [pc : {"wait", "compare", "route", "log"}, kept : Values \cup {NoValue, Absent},
         asked : Values \cup {NoValue}, seen : Values \cup {NoValue},
         told : Values \cup {NoValue}]
FreshPoll == [pc |-> "wait", kept |-> NoValue, asked |-> NoValue, seen |-> NoValue,
              told |-> NoValue]

FeedInit == /\ dev \in Values
            /\ row \in Values \cup {NoValue, Absent}
            /\ sock = Fresh /\ wire = <<>>
            /\ view = NoValue /\ log = NoValue
            /\ rec = FreshPoll
            /\ health = [connected |-> FALSE, failures |-> 0]
            /\ tally = [changes |-> 0, faults |-> 0]
            /\ movedOn = FALSE

MayFail == tally.faults < MaxFaults
Fault == MayFail /\ tally' = [tally EXCEPT !.faults = @ + 1]
Saturated(n) == IF n < MaxFaults THEN n + 1 ELSE n

(* The hub *)
Change(v) ==
    /\ tally.changes < MaxChanges /\ v # dev
    /\ tally' = [tally EXCEPT !.changes = @ + 1]
    /\ dev' = v
    /\ wire' = IF sock.pc = "up" THEN Append(wire, v) ELSE wire
    /\ UNCHANGED <<sock, view, log, row, rec, health, movedOn>>
\* The hub goes away; its frames are lost until the socket connects again.
LinkDies == /\ sock.pc = "up" /\ Fault
            /\ sock' = [sock EXCEPT !.pc = "dead"] /\ wire' = <<>>
            /\ UNCHANGED <<dev, view, log, row, rec, health, movedOn>>

(* The hub's row of hub_health: every write may fail and is not repeated *)
\* _mark_failure reads the number of failures before it writes.
MarkFailure == health' = [connected |-> FALSE, failures |-> Saturated(health.failures)]
MarkConnected == health' = [connected |-> TRUE, failures |-> 0]

(* The socket task *)
Connect ==
    /\ sock.pc = "connect"
    /\ \/ MarkConnected /\ UNCHANGED tally
       \/ Fault /\ UNCHANGED health
    /\ sock' = [sock EXCEPT !.pc = "up", !.data = FALSE]
    /\ UNCHANGED <<dev, wire, view, log, row, rec, movedOn>>
ConnectFails ==
    /\ sock.pc = "connect" /\ Fault
    /\ MarkFailure
    /\ sock' = [sock EXCEPT !.pc = "wait"]
    /\ UNCHANGED <<dev, wire, view, log, row, rec, movedOn>>
\* route_event queues the event for the apps, then writes the event_log row.
ReadFrame ==
    /\ sock.pc = "up" /\ sock.hand = NoFrame /\ wire # <<>>
    /\ sock' = [sock EXCEPT !.hand = Head(wire), !.data = TRUE]
    /\ wire' = Tail(wire)
    /\ view' = Head(wire)
    /\ UNCHANGED <<dev, log, row, rec, health, tally, movedOn>>
LogFrame ==
    /\ sock.hand # NoFrame
    /\ \/ log' = sock.hand /\ UNCHANGED tally
       \/ Fault /\ UNCHANGED log
    /\ sock' = [sock EXCEPT !.hand = NoFrame]
    /\ UNCHANGED <<dev, wire, view, row, rec, health, movedOn>>
\* recv raises: the backoff is not reset, whatever the link has carried.
LinkError ==
    /\ sock.pc = "dead" /\ sock.hand = NoFrame
    /\ sock' = [sock EXCEPT !.pc = "wait"]
    /\ MarkFailure
    /\ UNCHANGED <<dev, wire, view, log, row, rec, tally, movedOn>>
\* Nothing for DATA_WATCHDOG_SECS, dead link or quiet house: the link is closed.
\* Variant: the watchdog starts with the first frame
WatchdogAfterData ==
    /\ sock.pc \in {"up", "dead"} /\ sock.hand = NoFrame /\ wire = <<>> /\ sock.data
    /\ sock' = [sock EXCEPT !.pc = "wait", !.doubled = 0]
    /\ MarkFailure
    /\ UNCHANGED <<dev, wire, view, log, row, rec, tally, movedOn>>
Watchdog ==
    /\ sock.pc \in {"up", "dead"} /\ sock.hand = NoFrame /\ wire = <<>>
    /\ sock' = [sock EXCEPT !.pc = "wait", !.doubled = IF sock.data THEN 0 ELSE @]
    /\ MarkFailure
    /\ UNCHANGED <<dev, wire, view, log, row, rec, tally, movedOn>>
BackedOff ==
    /\ sock.pc = "wait"
    /\ sock' = [sock EXCEPT !.pc = "connect",
                            !.doubled = IF @ < MaxBackoff THEN @ + 1 ELSE @]
    /\ UNCHANGED <<dev, wire, view, log, row, rec, health, tally, movedOn>>
\* stop_hub: the task is cancelled wherever it is; an event that was queued is
\* not logged any more, and the row of hub_health is left as it is.
StopHub ==
    /\ sock.pc # "stopped" /\ Fault
    /\ sock' = [Fresh EXCEPT !.pc = "stopped"] /\ wire' = <<>>
    /\ UNCHANGED <<dev, view, log, row, rec, health, movedOn>>
\* start_hub takes the place of a task that still runs.
StartHub ==
    /\ \/ sock.pc = "stopped" /\ UNCHANGED tally
       \/ sock.pc # "stopped" /\ Fault
    /\ sock' = Fresh /\ wire' = <<>>
    /\ UNCHANGED <<dev, view, log, row, rec, health, movedOn>>

(* The device_cache row.  Routed events never write it: the router has no cache. *)
\* A full read of the hub's devices replaces it.
UpdateAll == /\ Fault /\ row' = dev
             /\ UNCHANGED <<dev, sock, wire, view, log, rec, health, movedOn>>
\* A command writes what it wants to be true.  The write replaces the attributes
\* by those the cache object has in memory, and a fresh one has only the one it
\* writes: a write of another attribute takes this one away.
UpdateAttribute(v) == /\ Fault /\ row' = v
                      /\ UNCHANGED <<dev, sock, wire, view, log, rec, health, movedOn>>
\* The two-minute refresh looks at the devices in the memory of a new cache
\* object: there are none, and it ends.
Refresh == UNCHANGED feedVars

(* The reconcile task *)
\* The hub is asked for all devices; when that fails the pass is over for this hub.
AskHub ==
    /\ rec.pc = "wait"
    /\ \/ rec' = [rec EXCEPT !.pc = "compare", !.asked = dev] /\ UNCHANGED tally
       \/ Fault /\ UNCHANGED rec
    /\ UNCHANGED <<dev, sock, wire, view, log, row, health, movedOn>>
\* DeviceCache.get_device: memory first, and a row once read is never read again.
GetDevice == IF rec.kept # NoValue THEN rec.kept ELSE row
\* Variant: every pass replays what differs from the copy
CompareAlways ==
    /\ rec.pc = "compare"
    /\ rec' = [rec EXCEPT !.kept = GetDevice, !.seen = rec.asked,
                          !.pc = IF GetDevice = rec.asked THEN "wait" ELSE "route"]
    /\ movedOn' = (movedOn \/ rec.asked # rec.told)
    /\ UNCHANGED <<dev, sock, wire, view, log, row, health, tally>>
Compare ==
    /\ rec.pc = "compare"
    /\ rec' = [rec EXCEPT !.kept = GetDevice, !.seen = rec.asked,
                          !.pc = IF rec.asked \in {GetDevice, rec.seen}
                                 THEN "wait" ELSE "route"]
    /\ movedOn' = (movedOn \/ rec.asked # rec.told)
    /\ UNCHANGED <<dev, sock, wire, view, log, row, health, tally>>
\* The value is marked as seen before it is routed: a failure is not repeated.
Replay ==
    /\ rec.pc = "route"
    /\ \/ /\ view' = rec.asked /\ movedOn' = FALSE
          /\ rec' = [rec EXCEPT !.pc = "log", !.told = rec.asked]
          /\ UNCHANGED tally
       \/ Fault /\ rec' = [rec EXCEPT !.pc = "wait"] /\ UNCHANGED <<view, movedOn>>
    /\ UNCHANGED <<dev, sock, wire, log, row, health>>
LogReplay ==
    /\ rec.pc = "log"
    /\ \/ log' = rec.asked /\ UNCHANGED tally
       \/ Fault /\ UNCHANGED log
    /\ rec' = [rec EXCEPT !.pc = "wait"]
    /\ UNCHANGED <<dev, sock, wire, view, row, health, movedOn>>

\* get_switch_state: the newest event_log row, else the device_cache row.
SwitchState == IF log # NoValue THEN log ELSE row

HubStep == (\E v \in Values : Change(v)) \/ LinkDies
SocketStep == Connect \/ ConnectFails \/ ReadFrame \/ LogFrame \/ LinkError \/ Watchdog
              \/ BackedOff \/ StopHub \/ StartHub
CacheStep == UpdateAll \/ (\E v \in Values \cup {Absent} : UpdateAttribute(v)) \/ Refresh
PollStep == AskHub \/ Compare \/ Replay \/ LogReplay
FeedNext == HubStep \/ SocketStep \/ CacheStep \/ PollStep

\* The tasks of the loop go on; what arrives is read.  The user's calls and
\* the network's faults are not promised.
FeedFairness == /\ WF_feedVars(Connect) /\ WF_feedVars(ReadFrame) /\ WF_feedVars(LogFrame)
                /\ WF_feedVars(Watchdog) /\ WF_feedVars(BackedOff)
                /\ WF_feedVars(AskHub) /\ WF_feedVars(Compare)
                /\ WF_feedVars(Replay) /\ WF_feedVars(LogReplay)
FeedSpec == FeedInit /\ [][FeedNext]_feedVars /\ FeedFairness

FeedTypeOK ==
    /\ dev \in Values /\ view \in Values \cup {NoValue} /\ log \in Values \cup {NoValue}
    /\ row \in Values \cup {NoValue, Absent}
    /\ sock \in Socket /\ rec \in Poll /\ wire \in Seq(Values)
    /\ health \in [connected : BOOLEAN, failures : 0..MaxFaults]

\* A link that has died is not held for ever: the watchdog closes it although
\* the connection still counts as open (eventsocket client :351-364).
DeadLinkReplaced == sock.pc = "dead" ~> sock.pc \in {"up", "stopped", "connect"}

\* The poll replays a value a second time only when it has looked at another
\* value in between, however far the copy of the cache lags behind (:85-96).
ReplayOnChange ==
    [][rec.pc = "route" /\ rec'.pc = "log" /\ rec.told = rec.asked
         => movedOn]_feedVars

=============================================================================

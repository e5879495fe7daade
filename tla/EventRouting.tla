---------------------------- MODULE EventRouting ----------------------------
(***************************************************************************)
(* Device events on their way from the hubs' event sockets to the apps,    *)
(* and the lifecycle of the app instances that receive them.               *)
(*                                                                         *)
(* Every hub has a socket whose task routes one frame at a time.  A device *)
(* that is shared over the mesh shows up on every hub; only the frame of   *)
(* its own hub is routed.  An instance has a queue and a worker task that  *)
(* hands its events to the app, in a thread, one at a time.  Requests run  *)
(* their instance operation ON the event loop: nothing is routed while one *)
(* is under way.  The revival job runs in a thread of the scheduler beside *)
(* all of them.  A step is what happens between two database calls.        *)
(*                                                                         *)
(* Sources: services/webhook_router.py, services/instance_manager.py,      *)
(* services/hubitat_eventsocket_client.py (_drain), app.py (/api/instances)*)
(***************************************************************************)
EXTENDS Integers, FiniteSets, Sequences

CONSTANTS Hubs, Devices, Instances,
          Owner,        \* [Devices -> Hubs]: the hub a device is paired with
          Mesh,         \* [Devices -> SUBSET Hubs]: the hubs that report it
          Alias,        \* [Hubs -> [Devices -> Devices or NoDevice]]: the device
                        \* whose canonical id is the hub's number for a device
          Unlisted,     \* the devices whose label may have no row
          Selected,     \* the devices that are selected at first
          Selections,   \* what the user may select: sets of devices
          NoDevice,
          MaxChanges,   \* bound on device changes
          MaxOps,       \* bound on operations of users: on an instance or a hub
          MaxFaults     \* bound on failed database calls, lost connections and restarts

ASSUME DeviceAssumption ==
    /\ Owner \in [Devices -> Hubs]
    /\ Mesh \in [Devices -> SUBSET Hubs]
    /\ \A d \in Devices : Owner[d] \in Mesh[d]
    /\ NoDevice \notin Devices
    /\ Alias \in [Hubs -> [Devices -> Devices \cup {NoDevice}]]
    /\ Unlisted \subseteq Devices
    /\ Selected \in Selections
    /\ Selections \subseteq SUBSET Devices
ASSUME InstanceAssumption == "none" \notin Instances
ASSUME BoundAssumption == {MaxChanges, MaxOps, MaxFaults} \subseteq Nat

VARIABLES feed,      \* per hub: frames its socket has not read yet
          route,     \* per hub: the frame that is being routed
          label,     \* per device: what the router has cached for its label
          inst,      \* per instance: its row and its place in _running_instances
          queue,     \* per instance: _instance_queues
          worker,    \* per instance: _instance_workers
          proc,      \* the instance operation on the loop, and the revival job
          last,      \* per hub: number of the frame accepted last
          count,     \* what has happened so far, for the bounds
          raced,     \* instances both operations have worked on at once
          halfDone   \* instances one of whose database calls has failed

feedVars == <<feed, route, label, last>>
workVars == <<queue, worker>>
instVars == <<inst, proc, raced, halfDone>>
vars == <<feedVars, workVars, instVars, count>>

Procs == {"loop", "revive"}
NoEvent == [hub |-> "none", n |-> 0, dev |-> NoDevice, as |-> NoDevice]
Events == [hub : Hubs, n : 1..MaxChanges, dev : Devices, as : Devices]
Frames == [dev : Devices, n : 1..MaxChanges]
NoFrame == [dev |-> NoDevice, n |-> 0]
\* row: what is known of the label, from the cache and then from the lookup.
Idle == [pc |-> "recv", frame |-> NoFrame, row |-> "unknown"]
NoRow == [there |-> FALSE, sel |-> {}]
NoQueue == <<NoEvent>>
PCs == {"idle", "patch", "remove", "unsubscribe", "reread", "subscribe", "fetch",
        "initialize", "register"}

\* todo: instances a boot has yet to start; then: where a rebuild
\* of the subscriptions returns to; sel: the selection it has read.
IdleProc == [pc |-> "idle", i |-> "none", todo |-> {}, then |-> "idle", sel |-> {},
             new |-> {}]

\* Not created yet; made and running since boot, or not if the start at boot failed.
Absent == [row |-> NoRow, subs |-> {}, running |-> FALSE, live |-> 0, grace |-> FALSE]
Down == [Absent EXCEPT !.row = [there |-> TRUE, sel |-> Selected]]
Up == [Down EXCEPT !.subs = Selected, !.running = TRUE, !.live = 1]

Init == /\ feed = [h \in Hubs |-> <<>>]
        /\ route = [h \in Hubs |-> Idle]
        /\ label = [d \in Devices |-> "unknown"]
        /\ inst \in [Instances -> {Absent, Down, Up}]
        /\ queue = [i \in Instances |-> NoQueue]
        /\ worker = [i \in Instances |-> NoEvent]
        /\ proc = [p \in Procs |-> IdleProc]
        /\ last = [h \in Hubs |-> 0]
        /\ count = [changes |-> 0, ops |-> 0, faults |-> 0]
        /\ raced = {} /\ halfDone = {}

Fails == count.faults < MaxFaults
         /\ count' = [count EXCEPT !.faults = @ + 1]
LoopFree == proc["loop"].pc = "idle" /\ proc["loop"].todo = {}

-----------------------------------------------------------------------------
(* The sockets and the router. *)

\* A device changes: every hub that knows it sends a frame.  (What is sent
\* while the loop is taken waits until it is free, so it may as well be sent then.)
DeviceChanges(d) ==
    LET n == count.changes + 1
    IN /\ LoopFree /\ n <= MaxChanges
       /\ count' = [count EXCEPT !.changes = n]
       /\ feed' = [h \in Hubs |-> IF h \in Mesh[d] THEN Append(feed[h], [dev |-> d, n |-> n])
                                                   ELSE feed[h]]
       /\ UNCHANGED <<route, label, last, workVars, instVars>>

\* The connection is lost with the frames that were under way.
Disconnect(h) ==
    /\ LoopFree /\ feed[h] # <<>> /\ Fails
    /\ feed' = [feed EXCEPT ![h] = <<>>]
    /\ UNCHANGED <<route, label, last, workVars, instVars>>

\* _drain reads the next frame when the last one is routed.  What the cache
\* knows of the label is taken from it now.
Receive(h) ==
    LET f == Head(feed[h])
        row == label[f.dev]
    IN /\ LoopFree
       /\ route[h].pc = "recv" /\ feed[h] # <<>>
       /\ route' = [route EXCEPT ![h] = [pc |-> IF row = "unknown" THEN "lookup" ELSE "route",
                                         frame |-> f, row |-> row]]
       /\ feed' = [feed EXCEPT ![h] = Tail(@)]
       /\ UNCHANGED <<label, last, workVars, instVars, count>>

\* A label that is not cached is looked up in a thread.  There may be no row for
\* it: the device was renamed or not classified yet.  That is cached, and so is a
\* lookup that raises; the answer of a database in trouble is not.
Lookup(h) ==
    LET d == route[h].frame.dev
        Finds(row) == route' = [route EXCEPT ![h].pc = "route", ![h].row = row]
    IN /\ LoopFree /\ route[h].pc = "lookup"
       /\ \/ Finds("row") /\ label' = [label EXCEPT ![d] = "row"] /\ UNCHANGED count
          \/ /\ Finds("none") /\ label' = [label EXCEPT ![d] = "none"]
             /\ \/ d \in Unlisted /\ UNCHANGED count
                \/ d \notin Unlisted /\ Fails
          \/ Finds("none") /\ UNCHANGED label /\ Fails
       /\ UNCHANGED <<feed, last, workVars, instVars>>

\* Variant: the mesh filter is left out.
ResolvedUnfiltered(h) == LET d == route[h].frame.dev
                         IN IF route[h].row = "row" THEN d ELSE Alias[h][d]

\* The canonical device of a frame.  A mirror resolves to none; without a row
\* for its label the hub's own number is taken for a canonical id.
Resolved(h) ==
    LET d == route[h].frame.dev
    IN IF route[h].row = "row" THEN IF Owner[d] = h THEN d ELSE NoDevice
                               ELSE Alias[h][d]
EventOf(h) == [hub |-> h, n |-> route[h].frame.n, dev |-> route[h].frame.dev,
               as |-> Resolved(h)]

Subscribed(d) == {i \in Instances : d \in inst[i].subs}

\* Variant: every event gets a queue and a worker of its own.
EnqueueFresh(to, e) ==
    queue' = [i \in Instances |-> IF i \in to THEN <<e>> ELSE queue[i]]

\* _get_or_create_queue and queue.put.
Enqueue(to, e) ==
    queue' = [i \in Instances |->
                IF i \notin to THEN queue[i]
                ELSE IF queue[i] = NoQueue THEN <<e>> ELSE Append(queue[i], e)]

\* The rest of route_event.  An instance that is subscribed but
\* not running is left out; so are all when the subscriptions cannot be read.  The event is then logged and
\* broadcast; whatever fails in that, the socket reads on.
Route(h) ==
    LET e == EventOf(h)
        to == {i \in Subscribed(e.as) : inst[i].running}
    IN /\ LoopFree
       /\ route[h].pc = "route"
       /\ route' = [route EXCEPT ![h] = Idle]
       /\ \/ to # {} /\ Enqueue(to, e) /\ last' = [last EXCEPT ![h] = e.n]
             /\ UNCHANGED count
          \/ to = {} /\ UNCHANGED <<queue, last, count>>
          \/ to # {} /\ Fails /\ UNCHANGED <<queue, last>>
       /\ UNCHANGED <<feed, label, worker, instVars>>

\* A user edits a hub, and the cached labels are dropped.
InvalidateLabels ==
    /\ LoopFree /\ count.ops < MaxOps
    /\ count' = [count EXCEPT !.ops = @ + 1]
    /\ label' = [d \in Devices |-> "unknown"]
    /\ UNCHANGED <<feed, route, last, workVars, instVars>>

-----------------------------------------------------------------------------
(* The workers. *)

\* The worker takes the next event and hands it to the running app.
Take(i) ==
    /\ LoopFree
    /\ worker[i] = NoEvent
    /\ queue[i] \notin {NoQueue, <<>>}
    /\ worker' = [worker EXCEPT ![i] = Head(queue[i])]
    /\ queue' = [queue EXCEPT ![i] = Tail(@)]
    /\ UNCHANGED <<feedVars, instVars, count>>

\* on_event returns or raises.
Handled(i) ==
    /\ LoopFree
    /\ worker[i] # NoEvent
    /\ worker' = [worker EXCEPT ![i] = NoEvent]
    /\ UNCHANGED <<feedVars, queue, instVars, count>>

-----------------------------------------------------------------------------
(* Instance operations. *)

At(p, pc) == proc[p].pc = pc
Busy(i) == \E p \in Procs : proc[p].i = i
Enter(p, i, r) ==
    /\ proc' = [proc EXCEPT ![p] = r]
    /\ raced' = IF \E q \in Procs \ {p} : proc[q].i = i THEN raced \cup {i} ELSE raced
    /\ halfDone' = halfDone \ {i}
Goto(p, pc) == proc' = [proc EXCEPT ![p].pc = pc]

\* The operation on an instance is over: the next of a boot or revival.
Leave(p) == proc' = [proc EXCEPT ![p] = [IdleProc EXCEPT !.todo = proc[p].todo \ {proc[p].i}]]

\* stop_instance_worker
DropWorker(i) == /\ queue' = [queue EXCEPT ![i] = NoQueue]
                 /\ worker' = [worker EXCEPT ![i] = NoEvent]

\* Variant: the app is dropped without shutdown().
StopNowNoShutdown(i) ==
    IF inst[i].running
      THEN /\ inst' = [inst EXCEPT ![i].running = FALSE, ![i].grace = TRUE]
           /\ DropWorker(i)
      ELSE UNCHANGED <<inst, workVars>>

\* stop_instance: the app is shut down, worker and queue go, the grace starts.
\* The thread that handles an event at this moment is left to itself.
StopNow(i) ==
    IF inst[i].running
      THEN /\ inst' = [inst EXCEPT ![i].running = FALSE, ![i].live = @ - 1,
                                   ![i].grace = TRUE]
           /\ DropWorker(i)
      ELSE UNCHANGED <<inst, workVars>>

UserOp == /\ LoopFree
          /\ count.ops < MaxOps
          /\ count' = [count EXCEPT !.ops = @ + 1]
          /\ UNCHANGED feedVars

Begin(i, pc, new) == Enter("loop", i, [IdleProc EXCEPT !.pc = pc, !.i = i, !.new = new])

\* Every operation but create and run starts by stopping the instance.
StopRequest(i) == UserOp /\ StopNow(i) /\ UNCHANGED <<proc, raced, halfDone>>
StartRequest(i) == UserOp /\ StopNow(i) /\ Begin(i, "fetch", {})
UpdateRequest(i, sel) == inst[i].row.there /\ UserOp /\ StopNow(i) /\ Begin(i, "patch", sel)
DeleteRequest(i) == inst[i].row.there /\ UserOp /\ StopNow(i) /\ Begin(i, "remove", {})
ReloadRequest(i) ==
    /\ inst[i].row.there
    /\ UserOp
    /\ StopNow(i)
    /\ Enter("loop", i, [IdleProc EXCEPT !.pc = "unsubscribe", !.i = i, !.then = "fetch"])
\* A running instance re-evaluates, one that is not is started from its row.
RunRequest(i) == /\ inst[i].row.there /\ ~inst[i].running
                 /\ UserOp
                 /\ Begin(i, "initialize", {})
                 /\ UNCHANGED <<inst, workVars>>
\* A new row has an id of its own: nothing works or runs under it.
CreateRequest(i, sel) ==
    /\ ~inst[i].row.there /\ ~inst[i].running /\ ~Busy(i)
    /\ UserOp
    /\ inst' = [inst EXCEPT ![i].row = [there |-> TRUE, sel |-> sel]]
    /\ Enter("loop", i, [IdleProc EXCEPT !.pc = "subscribe", !.i = i, !.then = "initialize",
                                         !.sel = sel])
    /\ UNCHANGED workVars

\* The PATCH of an update.  When it fails the instance is started as it was.
Patch ==
    LET p == "loop"
        i == proc[p].i
    IN /\ At(p, "patch")
       /\ \/ /\ inst' = [inst EXCEPT ![i].row.sel = proc[p].new]
             /\ proc' = [proc EXCEPT ![p].pc = "unsubscribe", ![p].then = "fetch"]
             /\ UNCHANGED <<count, halfDone>>
          \/ Fails /\ Goto(p, "fetch") /\ halfDone' = halfDone \cup {i} /\ UNCHANGED inst
       /\ UNCHANGED <<feedVars, workVars, raced>>

\* The row goes, and with it its subscriptions.
Remove ==
    LET i == proc["loop"].i
    IN /\ At("loop", "remove")
       /\ \/ inst' = [inst EXCEPT ![i].row = NoRow, ![i].subs = {}, ![i].grace = FALSE]
             /\ UNCHANGED <<count, halfDone>>
          \/ Fails /\ halfDone' = halfDone \cup {i} /\ UNCHANGED inst
       /\ Leave("loop")
       /\ UNCHANGED <<feedVars, workVars, raced>>

\* Variant: the old subscriptions are left in place.
UnsubscribeNothing(p) == /\ At(p, "unsubscribe")
                         /\ Goto(p, "reread")
                         /\ UNCHANGED <<feedVars, workVars, inst, count, raced, halfDone>>

\* _rebuild_subscriptions: delete them, read the row, write them.
Unsubscribe(p) ==
    LET i == proc[p].i
    IN /\ At(p, "unsubscribe")
       /\ Goto(p, "reread")
       /\ \/ inst' = [inst EXCEPT ![i].subs = {}] /\ UNCHANGED <<count, halfDone>>
          \/ Fails /\ halfDone' = halfDone \cup {i} /\ UNCHANGED inst
       /\ UNCHANGED <<feedVars, workVars, raced>>

Reread(p) ==
    LET i == proc[p].i
    IN /\ At(p, "reread")
       /\ \/ /\ inst[i].row.there
             /\ proc' = [proc EXCEPT ![p].pc = "subscribe", ![p].sel = inst[i].row.sel]
             /\ UNCHANGED <<count, halfDone>>
          \/ ~inst[i].row.there /\ Goto(p, proc[p].then) /\ UNCHANGED <<count, halfDone>>
          \/ Fails /\ Goto(p, proc[p].then) /\ halfDone' = halfDone \cup {i}
       /\ UNCHANGED <<feedVars, workVars, inst, raced>>

\* The row of a deleted instance is referenced by no subscription.
Subscribe(p) ==
    LET i == proc[p].i
    IN /\ At(p, "subscribe")
       /\ proc' = [proc EXCEPT ![p].pc = proc[p].then, ![p].sel = {}, ![p].then = "idle"]
       /\ \/ /\ inst' = [inst EXCEPT ![i].subs = IF inst[i].row.there THEN @ \cup proc[p].sel
                                                                    ELSE @]
             /\ UNCHANGED <<count, halfDone>>
          \/ Fails /\ halfDone' = halfDone \cup {i} /\ UNCHANGED inst
       /\ UNCHANGED <<feedVars, workVars, raced>>

\* _start_from_db
Fetch(p) ==
    LET i == proc[p].i
    IN /\ At(p, "fetch")
       /\ \/ inst[i].row.there /\ Goto(p, "initialize") /\ UNCHANGED <<count, halfDone>>
          \/ ~inst[i].row.there /\ Leave(p) /\ UNCHANGED <<count, halfDone>>
          \/ Fails /\ Leave(p) /\ halfDone' = halfDone \cup {i}
       /\ UNCHANGED <<feedVars, workVars, inst, raced>>

\* _start_instance: a new app object is built and initialized, the
\* subscriptions are written once more, then the object is registered.
Initialize(p) ==
    LET i == proc[p].i
    IN /\ At(p, "initialize")
       /\ \/ /\ inst' = [inst EXCEPT ![i].live = @ + 1]
             /\ proc' = [proc EXCEPT ![p].pc = "unsubscribe", ![p].then = "register"]
             /\ UNCHANGED <<count, halfDone>>
          \/ Fails /\ Leave(p) /\ halfDone' = halfDone \cup {i} /\ UNCHANGED inst
       /\ UNCHANGED <<feedVars, workVars, raced>>

Register(p) ==
    LET i == proc[p].i
    IN /\ At(p, "register")
       /\ inst' = [inst EXCEPT ![i].running = TRUE, ![i].grace = FALSE]
       /\ Leave(p)
       /\ UNCHANGED <<feedVars, workVars, count, raced, halfDone>>

\* revive_dead_instances, for one row of its list: an instance that runs, or
\* was stopped less than 15 minutes ago, is left alone.  The job is scheduled
\* when the boot is over.
Revive(i) ==
    /\ At("revive", "idle") /\ proc["loop"].todo = {}
    /\ inst[i].row.there /\ ~inst[i].running /\ ~inst[i].grace
    /\ Enter("revive", i, [IdleProc EXCEPT !.pc = "fetch", !.i = i])
    /\ UNCHANGED <<feedVars, workVars, inst, count>>

\* Variant: the time of the stop is forgotten only when the instance runs.
GraceNeverExpires(i) == /\ inst[i].grace /\ inst[i].running
                        /\ inst' = [inst EXCEPT ![i].grace = FALSE]
                        /\ UNCHANGED <<feedVars, workVars, proc, count, raced, halfDone>>

\* 15 minutes after the stop.  No operation takes that long.
GraceExpires(i) == /\ LoopFree /\ inst[i].grace
                   /\ inst' = [inst EXCEPT ![i].grace = FALSE]
                   /\ UNCHANGED <<feedVars, workVars, proc, count, raced, halfDone>>

\* The process restarts: what it held in memory is gone, and
\* initialize_all_instances starts every instance there is a row for.
Restart ==
    /\ count.faults < MaxFaults
    /\ count' = [count EXCEPT !.faults = @ + 1]
    /\ feed' = [h \in Hubs |-> <<>>]
    /\ route' = [h \in Hubs |-> Idle]
    /\ label' = [d \in Devices |-> "unknown"]
    /\ queue' = [i \in Instances |-> NoQueue]
    /\ worker' = [i \in Instances |-> NoEvent]
    /\ inst' = [i \in Instances |-> [inst[i] EXCEPT !.running = FALSE, !.live = 0,
                                                    !.grace = FALSE]]
    /\ proc' = [p \in Procs |-> IF p = "loop"
                                  THEN [IdleProc EXCEPT !.todo = {i \in Instances : inst[i].row.there}]
                                  ELSE IdleProc]
    /\ raced' = {} /\ halfDone' = {}
    /\ UNCHANGED last

BootNext == \E i \in proc["loop"].todo :
    /\ At("loop", "idle")
    /\ Enter("loop", i, [IdleProc EXCEPT !.pc = "initialize", !.i = i,
                                         !.todo = proc["loop"].todo])
    /\ UNCHANGED <<feedVars, workVars, inst, count>>

-----------------------------------------------------------------------------

ProcStep(p) == Unsubscribe(p) \/ Reread(p) \/ Subscribe(p) \/ Fetch(p) \/ Initialize(p)
               \/ Register(p)
LoopStep == Patch \/ Remove \/ BootNext \/ ProcStep("loop")
ReviveStep == (\E i \in Instances : Revive(i)) \/ ProcStep("revive")
WorkerStep(i) == Take(i) \/ Handled(i)
SocketStep(h) == Receive(h) \/ Lookup(h) \/ Route(h)
UserStep(i) == \/ StopRequest(i) \/ StartRequest(i) \/ DeleteRequest(i)
               \/ ReloadRequest(i) \/ RunRequest(i)
               \/ \E sel \in Selections : UpdateRequest(i, sel) \/ CreateRequest(i, sel)

Next == \/ \E d \in Devices : DeviceChanges(d)
        \/ \E h \in Hubs : Disconnect(h) \/ SocketStep(h)
        \/ \E i \in Instances : WorkerStep(i) \/ UserStep(i) \/ GraceExpires(i)
        \/ InvalidateLabels \/ LoopStep \/ ReviveStep \/ Restart

Spec == Init /\ [][Next]_vars

\* An operation on the loop and the revival job get on, and time passes.  Users, hubs and failures owe nothing.
Fairness == /\ WF_vars(LoopStep) /\ WF_vars(ReviveStep)
            /\ \A i \in Instances : WF_vars(GraceExpires(i))
FairSpec == Spec /\ Fairness

-----------------------------------------------------------------------------
(* Properties. *)

\* Values have their types; a worker handles events only beside a queue.
TypeOK ==
    /\ \A h \in Hubs : /\ \A k \in DOMAIN feed[h] : feed[h][k] \in Frames
                       /\ route[h].pc \in {"recv", "lookup", "route"}
                       /\ route[h].frame \in Frames \cup {NoFrame}
                       /\ route[h].pc \in {"lookup", "route"} => route[h].frame # NoFrame
    /\ label \in [Devices -> {"unknown", "row", "none"}]
    /\ \A i \in Instances :
         /\ inst[i].row.there \in BOOLEAN /\ inst[i].row.sel \in Selections \cup {{}}
         /\ inst[i].subs \subseteq Devices
         /\ inst[i].running \in BOOLEAN /\ inst[i].grace \in BOOLEAN
         /\ inst[i].live \in Nat
         /\ inst[i].running => inst[i].live > 0
         /\ queue[i] = NoQueue \/ \A k \in DOMAIN queue[i] : queue[i][k] \in Events
         /\ worker[i] \in Events \cup {NoEvent}
         /\ worker[i] # NoEvent => queue[i] # NoQueue
         /\ queue[i] # NoQueue => inst[i].running
    /\ \A p \in Procs : proc[p].pc \in PCs
    /\ last \in [Hubs -> 0..MaxChanges]

Pending(i) == IF queue[i] = NoQueue THEN {} ELSE {queue[i][k] : k \in DOMAIN queue[i]}
Underway == UNION {Pending(i) \cup ({worker[i]} \ {NoEvent}) : i \in Instances}

\* The devices whose label was looked up in vain: the cache says that it has no
\* row, or a frame under way was told so.
Missed == {d \in Devices : label[d] = "none"}
          \cup {route[h].frame.dev : h \in {g \in Hubs : route[g].row = "none"}}

\* What is accepted for an instance is an event of a device under the id of that
\* device, reported by the hub the device is paired with: no mirror gets through
\* and no event under another device's id.  The one way past it is a label that
\* was looked up in vain, for want of a row or of an answer, and it closes when
\* the labels are dropped or the next lookup answers (route_event,
\* _lookup_canonical_by_label, invalidate_device_cache).
EventsKeepTheirDevice ==
    [][\A e \in Underway' \ Underway :
         e.dev \notin Missed => e.as = e.dev /\ e.hub = Owner[e.dev]]_vars

\* When no operation is under way a running instance is subscribed to exactly
\* the devices of its row, unless a database call of its last operation failed
\* or the revival job worked on it together with a request
\* (_rebuild_subscriptions, update_instance, revive_dead_instances).
SubscriptionsFollowRow ==
    (\A p \in Procs : proc[p].pc = "idle") =>
        \A i \in Instances :
           inst[i].running /\ i \notin raced \cup halfDone =>
               inst[i].row.there /\ inst[i].subs = inst[i].row.sel

\* An instance has at most one app object that was initialized and not shut
\* down (its timers and jobs act on the devices); a second one takes a request
\* that works on the instance while the revival job does (_start_instance).
OneObject == \A i \in Instances : inst[i].live > 1 => i \in raced

\* An instance that has a row and does not run, because of a start that failed
\* or an edit that was abandoned, runs again (revive_dead_instances).
DeadInstanceRevived ==
    \A i \in Instances : inst[i].row.there /\ ~inst[i].running
                            ~> inst[i].running \/ ~inst[i].row.there

\* The router implements the event bus: accepted in the order of the feed,
\* handed over in that order, once, one at a time.
Bus == INSTANCE EventBus WITH
         Feeds <- Hubs,
         pending <- [i \in Instances |-> IF queue[i] = NoQueue THEN <<>> ELSE queue[i]],
         busy <- worker
DeliversInOrder == Bus!Spec
=============================================================================

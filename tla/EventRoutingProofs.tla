------------------------ MODULE EventRoutingProofs ------------------------
(***************************************************************************)
(* Proofs about EventRouting for any set of hubs, devices and instances:   *)
(* the objects and subscriptions of an instance, the events it is handed,  *)
(* and that the router implements EventBus.                                *)
(***************************************************************************)
EXTENDS EventRouting, TLAPS

Choices == Selections \cup {{}}
RowRecords == [there : BOOLEAN, sel : Choices]
Subsets == SUBSET Devices
Counts == Int
InstRecords == [row : RowRecords, subs : Subsets, running : BOOLEAN, live : Counts,
                grace : BOOLEAN]
ProcRecords == [pc : PCs, i : Instances \cup {"none"}, todo : SUBSET Instances,
                then : {"idle", "fetch", "initialize", "register"},
                sel : Choices, new : Choices]
RouteRecords == [pc : {"recv", "lookup", "route"}, frame : Frames \cup {NoFrame},
                 row : {"unknown", "row", "none"}]

Steps == 0 .. MaxChanges
CountRecords == [changes : Steps, ops : Nat, faults : Nat]
FeedTypes == /\ feed \in [Hubs -> Seq(Frames)]
             /\ route \in [Hubs -> RouteRecords]
             /\ \A h \in Hubs : route[h].pc # "recv" => route[h].frame \in Frames
             /\ label \in [Devices -> {"unknown", "row", "none"}]
             /\ last \in [Hubs -> Steps]
             /\ count \in CountRecords

\* An operation works on an instance, and returns from a rebuild to a step.
Operations == {r \in ProcRecords :
                 /\ r.pc = "idle" <=> r.i = "none"
                 /\ r.pc \in {"unsubscribe", "reread", "subscribe"} => r.then # "idle"}
InstTypes == /\ inst \in [Instances -> InstRecords]
             /\ proc \in [Procs -> Operations]
             /\ raced \subseteq Instances /\ halfDone \subseteq Instances

WorkTypes == /\ queue \in [Instances -> Seq(Events) \cup {NoQueue}]
             /\ worker \in [Instances -> Events \cup {NoEvent}]
             /\ \A i \in Instances : /\ worker[i] # NoEvent => queue[i] # NoQueue
                                     /\ queue[i] # NoQueue => inst[i].running

RoutingTypes == FeedTypes /\ InstTypes /\ WorkTypes

-----------------------------------------------------------------------------
(* Objects and subscriptions of an instance. *)

\* The operation in p has initialized an object of i and not registered it.
Starting(p, i) ==
    /\ proc[p].i = i
    /\ \/ proc[p].pc = "register"
       \/ proc[p].pc \in {"unsubscribe", "reread", "subscribe"} /\ proc[p].then = "register"
One(b) == IF b THEN 1 ELSE 0
Objects(i) == One(inst[i].running) + One(Starting("loop", i)) + One(Starting("revive", i))

\* Every object that runs or is being started is counted, and without a race
\* there is no other.
ObjectsCounted(i) == /\ inst[i].live >= Objects(i)
                     /\ i \notin raced => inst[i].live = Objects(i)

\* Without a race one operation works on an instance, and none while it runs;
\* past the fetch its row is there.
WorkedOnAlone(i) ==
    i \notin raced =>
        /\ ~(proc["loop"].i = i /\ proc["revive"].i = i)
        /\ inst[i].running => inst[i].row.there /\ \A p \in Procs : proc[p].i # i
        /\ \A p \in Procs : proc[p].i = i /\ proc[p].pc # "fetch" => inst[i].row.there

\* How far the subscriptions of an instance that is being started have come.
SubscriptionsOnTheWay(i) ==
    i \notin raced \cup halfDone =>
        /\ inst[i].running => inst[i].subs = inst[i].row.sel
        /\ \A p \in Procs : Starting(p, i) =>
              /\ proc[p].pc = "reread" => inst[i].subs = {}
              /\ proc[p].pc = "subscribe" => inst[i].subs = {} /\ proc[p].sel = inst[i].row.sel
              /\ proc[p].pc = "register" => inst[i].subs = inst[i].row.sel

\* While a boot starts what there is a row for, nothing else is going on.
BootIsAlone ==
    /\ proc["revive"].todo = {}
    /\ proc["loop"].todo # {} =>
          /\ proc["revive"].pc = "idle"
          /\ proc["loop"].pc \notin {"patch", "remove"}
          /\ \A i \in proc["loop"].todo : ~inst[i].running /\ inst[i].row.there

InstOk(i) == WorkedOnAlone(i) /\ ObjectsCounted(i) /\ SubscriptionsOnTheWay(i)
InstInv == BootIsAlone /\ \A i \in Instances : InstOk(i)

-----------------------------------------------------------------------------
(* Events. *)

\* A frame is routed with the answer of its lookup.
Answered == \A h \in Hubs : route[h].pc = "route" => route[h].row \in {"row", "none"}

\* An event under the id of its device, from the hub of the device.
Genuine(e) == e.dev \notin Missed => e.as = e.dev /\ e.hub = Owner[e.dev]

\* The frames of a hub come in the order of their numbers: the accepted ones,
\* the one in the router, and those on the wire.
InOrder(h) ==
    /\ last[h] <= count.changes
    /\ \A k \in DOMAIN feed[h] : last[h] < feed[h][k].n /\ feed[h][k].n <= count.changes
    /\ \A j, k \in DOMAIN feed[h] : j < k => feed[h][j].n < feed[h][k].n
    /\ route[h].pc # "recv" => /\ last[h] < route[h].frame.n
                               /\ route[h].frame.n <= count.changes
                               /\ \A k \in DOMAIN feed[h] : route[h].frame.n < feed[h][k].n
FramesInOrder == \A h \in Hubs : InOrder(h)

-----------------------------------------------------------------------------
(* Types. *)

\* The types of the fields, which the steps below keep folded.
LEMMA FieldTypes == /\ 0 \in Counts /\ 1 \in Counts
                    /\ \A n \in Counts : n + 1 \in Counts /\ n - 1 \in Counts
                    /\ {} \in Subsets
                    /\ \A c \in Choices, s \in Subsets : s \cup c \in Subsets
                    /\ {} \in Choices /\ Selected \in Choices
                    /\ \A c \in Choices : c \in Subsets
                    /\ NoRow \in RowRecords
                    /\ \A c \in Choices : [there |-> TRUE, sel |-> c] \in RowRecords
                    /\ \A r \in RowRecords, c \in Choices : [r EXCEPT !.sel = c] \in RowRecords
  BY DeviceAssumption DEF Counts, Subsets, Choices, RowRecords, NoRow

\* What EXCEPT makes of the record of an instance.
LEMMA RecordUpdates ==
  ASSUME NEW r \in InstRecords
  PROVE  /\ \A b \in BOOLEAN : [r EXCEPT !.grace = b] \in InstRecords
         /\ \A s \in Subsets : [r EXCEPT !.subs = s] \in InstRecords
         /\ \A n \in Counts : [r EXCEPT !.live = n] \in InstRecords
         /\ \A c \in RowRecords : [r EXCEPT !.row = c] \in InstRecords
         /\ \A a, b \in BOOLEAN : [r EXCEPT !.running = a, !.grace = b] \in InstRecords
         /\ \A a, b \in BOOLEAN, n \in Counts :
               [r EXCEPT !.running = a, !.live = n, !.grace = b] \in InstRecords
         /\ \A c \in RowRecords, s \in Subsets, b \in BOOLEAN :
               [r EXCEPT !.row = c, !.subs = s, !.grace = b] \in InstRecords
  BY DEF InstRecords

\* The types hold in the initial states.
LEMMA InitialTypes == Init => RoutingTypes
  <1> SUFFICES ASSUME Init PROVE RoutingTypes
    OBVIOUS
  <1> USE DeviceAssumption, InstanceAssumption, BoundAssumption DEF Init
  <1>1. FeedTypes
    <2>1. count \in CountRecords /\ last \in [Hubs -> Steps]
      BY DEF CountRecords, Steps
    <2>2. Idle \in RouteRecords /\ Idle.pc = "recv"
      BY DEF Idle, RouteRecords
    <2> QED
      BY <2>1, <2>2 DEF FeedTypes
  <1>2. InstTypes
    <2>2. Absent \in InstRecords
      BY FieldTypes DEF InstRecords, Absent
    <2>3. Down \in InstRecords
      BY <2>2, FieldTypes DEF Down, InstRecords
    <2>4. Up \in InstRecords
      BY <2>3, FieldTypes DEF Up, InstRecords
    <2>5. IdleProc \in Operations
      BY DEF Operations, ProcRecords, IdleProc, PCs, Choices
    <2> QED
      BY <2>2, <2>3, <2>4, <2>5 DEF InstTypes
  <1>3. WorkTypes
    BY DEF WorkTypes
  <1> QED
    BY <1>1, <1>2, <1>3 DEF RoutingTypes

\* What the operations on instances leave alone.
LEMMA OperationFrame ==
  ASSUME \/ \E i \in Instances : UserStep(i) \/ GraceExpires(i)
         \/ LoopStep \/ ReviveStep
  PROVE  UNCHANGED feedVars
  BY DEF UserStep, GraceExpires, LoopStep, ReviveStep, ProcStep, StopRequest, StartRequest,
         UpdateRequest, DeleteRequest, ReloadRequest, RunRequest, CreateRequest, UserOp,
         Patch, Remove, Unsubscribe, Reread, Subscribe, Fetch, Initialize, Register, Revive,
         BootNext

\* The sockets, the router and the workers leave the instances alone.
EventStep == \/ \E d \in Devices : DeviceChanges(d)
             \/ \E h \in Hubs : Disconnect(h) \/ SocketStep(h)
             \/ \E i \in Instances : WorkerStep(i)
             \/ InvalidateLabels
\* Routing an event changes nothing of the instances.
LEMMA EventStepFrame == EventStep => UNCHANGED instVars
  BY DEF EventStep, DeviceChanges, Disconnect, SocketStep, Receive, Lookup, Route,
         WorkerStep, Take, Handled, InvalidateLabels

\* Every step keeps the types of the instances and of the operations on them.
LEMMA InstTypesStep == InstTypes /\ [Next]_vars => InstTypes'
  <1> SUFFICES ASSUME InstTypes, [Next]_vars PROVE InstTypes'
    OBVIOUS
  <1> USE DeviceAssumption, InstanceAssumption
  <1>0. \A r \in ProcRecords : r.todo \in SUBSET Instances
    BY DEF ProcRecords
  <1>1. ASSUME NEW i \in Instances, UserStep(i) PROVE InstTypes'
    <2>1. StopNow(i) => inst' \in [Instances -> InstRecords]
      <3>1. inst[i].live - 1 \in Counts
        BY FieldTypes DEF InstTypes, InstRecords
      <3>2. [inst[i] EXCEPT !.running = FALSE, !.live = inst[i].live - 1, !.grace = TRUE]
               \in InstRecords
        BY <3>1, RecordUpdates DEF InstTypes
      <3>3. ASSUME inst' = [inst EXCEPT ![i].running = FALSE, ![i].live = @ - 1, ![i].grace = TRUE]
            PROVE  inst' \in [Instances -> InstRecords]
        BY <3>2, <3>3 DEF InstTypes
      <3> QED
        BY <3>3 DEF StopNow, InstTypes
    <2>2. \A r : Enter("loop", i, r) /\ r \in Operations =>
                    proc' \in [Procs -> Operations] /\ raced' \subseteq Instances
                                                    /\ halfDone' \subseteq Instances
      BY DEF Enter, InstTypes, Procs
    <2>3. \A pc \in {"fetch", "patch", "remove", "initialize"}, new \in Choices :
             [IdleProc EXCEPT !.pc = pc, !.i = i, !.new = new] \in Operations
      BY DEF Operations, ProcRecords, IdleProc, PCs, Choices
    <2>4. {} \in Choices /\ \A sel \in Selections : sel \in Choices
      BY DEF Choices
    <2>5. CASE StopRequest(i)
      BY <2>1, <2>5 DEF StopRequest, InstTypes
    <2>6. CASE StartRequest(i)
      BY <2>1, <2>2, <2>3, <2>4, <2>6 DEF StartRequest, InstTypes, Begin
    <2>7. CASE DeleteRequest(i)
      BY <2>1, <2>2, <2>3, <2>4, <2>7 DEF DeleteRequest, InstTypes, Begin
    <2>8. CASE ReloadRequest(i)
      <3>1. [IdleProc EXCEPT !.pc = "unsubscribe", !.i = i, !.then = "fetch"] \in Operations
        BY DEF Operations, ProcRecords, IdleProc, PCs, Choices
      <3> QED
        BY <2>1, <2>2, <2>8, <3>1 DEF ReloadRequest, InstTypes
    <2>9. CASE RunRequest(i)
      BY <2>2, <2>3, <2>4, <2>9 DEF RunRequest, InstTypes, Begin
    <2>10. ASSUME NEW sel \in Selections, UpdateRequest(i, sel) PROVE InstTypes'
      BY <2>1, <2>2, <2>3, <2>4, <2>10 DEF UpdateRequest, InstTypes, Begin
    <2>11. ASSUME NEW sel \in Selections, CreateRequest(i, sel) PROVE InstTypes'
      <3>1. [IdleProc EXCEPT !.pc = "subscribe", !.i = i, !.then = "initialize", !.sel = sel]
               \in Operations
        BY <2>4 DEF Operations, ProcRecords, IdleProc, PCs, Choices
      <3>3. inst' \in [Instances -> InstRecords]
        BY <2>4, <2>11, FieldTypes, RecordUpdates DEF CreateRequest, InstTypes
      <3> QED
        BY <2>2, <2>11, <3>1, <3>3 DEF CreateRequest, InstTypes
    <2> QED
      BY <1>1, <2>5, <2>6, <2>7, <2>8, <2>9, <2>10, <2>11 DEF UserStep
  <1>2. ASSUME NEW p \in Procs, ProcStep(p) PROVE InstTypes'
    <2>1. proc[p] \in Operations
      BY DEF InstTypes
    <2>2. proc[p].pc # "idle" => proc[p].i \in Instances
      BY <2>1 DEF Operations, ProcRecords
    <2>3. ASSUME NEW pc \in PCs \ {"idle", "unsubscribe", "reread", "subscribe"},
                 Goto(p, pc), proc[p].pc # "idle"
          PROVE  proc' \in [Procs -> Operations]
      <3>1. [proc[p] EXCEPT !.pc = pc] \in Operations
        BY <2>1, <2>3 DEF Operations, ProcRecords
      <3> QED
        BY <2>3, <3>1 DEF Goto, InstTypes
    <2>4. Leave(p) => proc' \in [Procs -> Operations]
      <3>1. [IdleProc EXCEPT !.todo = proc[p].todo \ {proc[p].i}] \in Operations
        BY <2>1 DEF Operations, ProcRecords, IdleProc, PCs, Choices
      <3> QED
        BY <3>1 DEF Leave, InstTypes
    <2>5. CASE Unsubscribe(p)
      <3>1. proc' \in [Procs -> Operations]
        BY <2>1, <2>5 DEF Unsubscribe, At, Goto, InstTypes, Operations, ProcRecords, PCs
      <3>2. ASSUME inst' = [inst EXCEPT ![proc[p].i].subs = {}]
            PROVE  inst' \in [Instances -> InstRecords]
        BY <2>2, <2>5, <3>2, FieldTypes, RecordUpdates DEF Unsubscribe, At, InstTypes
      <3> QED
        BY <2>2, <2>5, <3>1, <3>2 DEF Unsubscribe, At, InstTypes
    <2>6. CASE Reread(p)
      <3>1. proc[p].then \in PCs \ {"idle", "unsubscribe", "reread", "subscribe"}
        BY <2>1, <2>6 DEF Reread, At, Operations, ProcRecords, PCs
      <3>2. CASE inst[proc[p].i].row.there /\ proc' = [proc EXCEPT ![p].pc = "subscribe",
                                                        ![p].sel = inst[proc[p].i].row.sel]
        <4>0. inst[proc[p].i].row \in RowRecords
          BY <2>2, <2>6 DEF Reread, At, InstTypes, InstRecords
        <4>1. inst[proc[p].i].row.sel \in Choices
          BY <4>0 DEF RowRecords
        <4> QED
          BY <2>1, <2>2, <2>6, <3>2, <4>1 DEF Reread, At, InstTypes, Operations, ProcRecords, PCs
      <3> QED
        BY <2>2, <2>3, <2>6, <3>1, <3>2 DEF Reread, At, InstTypes
    <2>7. CASE Subscribe(p)
      <3>1. proc[p].then \in PCs \ {"idle", "unsubscribe", "reread", "subscribe"}
        BY <2>1, <2>7 DEF Subscribe, At, Operations, ProcRecords, PCs
      <3>2. proc' \in [Procs -> Operations]
        BY <2>1, <2>7, <3>1 DEF Subscribe, At, InstTypes, Operations, ProcRecords, PCs, Choices
      <3>3. proc[p].sel \in Choices
        BY <2>1 DEF Operations, ProcRecords
      <3>4. inst[proc[p].i].subs \in Subsets
        BY <2>2, <2>7 DEF Subscribe, At, InstTypes, InstRecords
      <3>5. inst[proc[p].i].subs \cup proc[p].sel \in Subsets
        BY <3>3, <3>4, FieldTypes
      <3>6. ASSUME NEW s \in Subsets, inst' = [inst EXCEPT ![proc[p].i].subs = s]
            PROVE  inst' \in [Instances -> InstRecords]
        BY <2>2, <2>7, <3>6, RecordUpdates DEF Subscribe, At, InstTypes
      <3>7. inst' \in [Instances -> InstRecords]
        BY <2>7, <3>4, <3>5, <3>6 DEF Subscribe, InstTypes
      <3> QED
        BY <2>2, <2>7, <3>2, <3>7 DEF Subscribe, At, InstTypes
    <2>8. CASE Fetch(p)
      BY <2>2, <2>3, <2>4, <2>8 DEF Fetch, At, InstTypes, PCs
    <2>9. CASE Initialize(p)
      <3>1. CASE inst' = [inst EXCEPT ![proc[p].i].live = @ + 1]
                 /\ proc' = [proc EXCEPT ![p].pc = "unsubscribe", ![p].then = "register"]
        <4>0. inst[proc[p].i].live + 1 \in Counts
          BY <2>2, <2>9, FieldTypes DEF Initialize, At, InstTypes, InstRecords
        <4>1. inst' \in [Instances -> InstRecords]
          BY <2>2, <2>9, <3>1, <4>0, RecordUpdates DEF Initialize, At, InstTypes
        <4>2. proc' \in [Procs -> Operations]
          BY <2>1, <2>9, <3>1 DEF Initialize, At, InstTypes, Operations, ProcRecords, PCs
        <4> QED
          BY <2>2, <2>9, <4>1, <4>2 DEF Initialize, At, InstTypes
      <3> QED
        BY <2>2, <2>4, <2>9, <3>1 DEF Initialize, At, InstTypes
    <2>10. CASE Register(p)
      <3>1. [inst[proc[p].i] EXCEPT !.running = TRUE, !.grace = FALSE] \in InstRecords
        BY <2>2, <2>10, RecordUpdates DEF Register, At, InstTypes
      <3> QED
        BY <2>2, <2>4, <2>10, <3>1 DEF Register, At, InstTypes
    <2> QED
      BY <1>2, <2>5, <2>6, <2>7, <2>8, <2>9, <2>10 DEF ProcStep
  <1>3. CASE Patch \/ Remove
    <2>1. proc["loop"] \in Operations
      BY DEF InstTypes, Procs
    <2>2. proc["loop"].pc # "idle" => proc["loop"].i \in Instances
      BY <2>1 DEF Operations, ProcRecords
    <2>3. CASE Patch
      <3>1. proc' \in [Procs -> Operations]
        BY <2>1, <2>3 DEF Patch, At, Goto, InstTypes, Operations, ProcRecords, PCs, Procs
      <3>2. inst' \in [Instances -> InstRecords]
        <4>1. proc["loop"].new \in Choices
          BY <2>1 DEF Operations, ProcRecords
        <4>2. inst[proc["loop"].i].row \in RowRecords
          BY <2>2, <2>3 DEF Patch, At, InstTypes, InstRecords
        <4>3. [inst[proc["loop"].i].row EXCEPT !.sel = proc["loop"].new] \in RowRecords
          BY <4>1, <4>2, FieldTypes
        <4>4. ASSUME inst' = [inst EXCEPT ![proc["loop"].i].row.sel = proc["loop"].new]
              PROVE  inst' \in [Instances -> InstRecords]
          BY <2>2, <2>3, <4>3, <4>4, RecordUpdates DEF Patch, At, InstTypes
        <4> QED
          BY <2>3, <4>4 DEF Patch, InstTypes
      <3> QED
        BY <2>2, <2>3, <3>1, <3>2 DEF Patch, At, InstTypes
    <2>4. CASE Remove
      <3>1. [IdleProc EXCEPT !.todo = proc["loop"].todo \ {proc["loop"].i}] \in Operations
        BY <2>1 DEF Operations, ProcRecords, IdleProc, PCs, Choices
      <3>2. inst' \in [Instances -> InstRecords]
        <4>1. [inst[proc["loop"].i] EXCEPT !.row = NoRow, !.subs = {}, !.grace = FALSE]
                 \in InstRecords
          BY <2>2, <2>4, FieldTypes, RecordUpdates DEF Remove, At, InstTypes
        <4>2. ASSUME inst' = [inst EXCEPT ![proc["loop"].i].row = NoRow, ![proc["loop"].i].subs = {},
                                          ![proc["loop"].i].grace = FALSE]
              PROVE  inst' \in [Instances -> InstRecords]
          BY <4>1, <4>2 DEF InstTypes
        <4> QED
          BY <2>4, <4>2 DEF Remove, InstTypes
      <3> QED
        BY <2>2, <2>4, <3>1, <3>2 DEF Remove, Leave, At, InstTypes
    <2> QED
      BY <1>3, <2>3, <2>4
  <1>4. CASE BootNext
    <2>1. proc["loop"] \in Operations
      BY DEF InstTypes, Procs
    <2>2. PICK i \in proc["loop"].todo :
             Enter("loop", i, [IdleProc EXCEPT !.pc = "initialize", !.i = i,
                                               !.todo = proc["loop"].todo])
      BY <1>4 DEF BootNext
    <2>3. i \in Instances /\ proc["loop"].todo \subseteq Instances
      BY <2>1 DEF Operations, ProcRecords
    <2>4. [IdleProc EXCEPT !.pc = "initialize", !.i = i, !.todo = proc["loop"].todo] \in Operations
      BY <2>3 DEF Operations, ProcRecords, IdleProc, PCs, Choices
    <2> QED
      BY <1>4, <2>2, <2>3, <2>4 DEF BootNext, Enter, InstTypes, Procs
  <1>5. ASSUME NEW i \in Instances, Revive(i) PROVE InstTypes'
    <2>1. [IdleProc EXCEPT !.pc = "fetch", !.i = i] \in Operations
      BY DEF Operations, ProcRecords, IdleProc, PCs, Choices
    <2> QED
      BY <1>5, <2>1 DEF Revive, Enter, InstTypes, Procs
  <1>6. ASSUME NEW i \in Instances, GraceExpires(i) PROVE InstTypes'
    BY <1>6, RecordUpdates DEF GraceExpires, InstTypes
  <1>7. CASE Restart
    <2>1. IdleProc \in Operations
      BY DEF Operations, ProcRecords, IdleProc, PCs, Choices
    <2>2. \A s \in SUBSET Instances : [IdleProc EXCEPT !.todo = s] \in Operations
      BY DEF Operations, ProcRecords, IdleProc, PCs, Choices
    <2>3. inst' \in [Instances -> InstRecords]
      <3>1. \A i \in Instances : [inst[i] EXCEPT !.running = FALSE, !.live = 0, !.grace = FALSE]
                                 \in InstRecords
        BY FieldTypes, RecordUpdates DEF InstTypes
      <3> QED
        BY <1>7, <3>1 DEF Restart, InstTypes
    <2> QED
      BY <1>7, <2>1, <2>2, <2>3 DEF Restart, InstTypes
  <1>8. CASE UNCHANGED instVars
    BY <1>8 DEF instVars, InstTypes
  <1> QED
    BY <1>1, <1>2, <1>3, <1>4, <1>5, <1>6, <1>7, <1>8, EventStepFrame
    DEF Next, EventStep, LoopStep, ReviveStep, Procs, vars

\* Every step keeps the types of the counters.
LEMMA CountStep == count \in CountRecords /\ [Next]_vars => count' \in CountRecords
  <1> SUFFICES ASSUME count \in CountRecords, [Next]_vars PROVE count' \in CountRecords
    OBVIOUS
  <1>1. count' = [count EXCEPT !.faults = @ + 1] => count' \in CountRecords
    BY DEF CountRecords
  <1>2. count' = [count EXCEPT !.ops = @ + 1] => count' \in CountRecords
    BY DEF CountRecords
  <1>3. ASSUME count.changes + 1 <= MaxChanges,
               count' = [count EXCEPT !.changes = count.changes + 1]
        PROVE  count' \in CountRecords
    <2>1. count.changes + 1 \in Steps
      BY <1>3, BoundAssumption DEF CountRecords, Steps
    <2> QED
      BY <1>3, <2>1 DEF CountRecords
  <1>4. CASE EventStep
    BY <1>1, <1>2, <1>3, <1>4 DEF EventStep, DeviceChanges, Disconnect, SocketStep, Receive, Lookup, Route,
       WorkerStep, Take, Handled, InvalidateLabels, Fails
  <1>5. ASSUME NEW i \in Instances, UserStep(i) PROVE count' \in CountRecords
    BY <1>2, <1>5 DEF UserStep, StopRequest, StartRequest, UpdateRequest, DeleteRequest,
       ReloadRequest, RunRequest, CreateRequest, UserOp
  <1>6. ASSUME NEW p \in Procs, ProcStep(p) PROVE count' \in CountRecords
    BY <1>1, <1>6 DEF ProcStep, Unsubscribe, Reread, Subscribe, Fetch, Initialize, Register, Fails
  <1>7. CASE Patch \/ Remove \/ BootNext \/ Restart
             \/ \E i \in Instances : Revive(i) \/ GraceExpires(i)
    BY <1>1, <1>7 DEF Patch, Remove, BootNext, Restart, Revive, GraceExpires, Fails
  <1> QED
    BY <1>4, <1>5, <1>6, <1>7 DEF Next, EventStep, LoopStep, ReviveStep, Procs, vars

\* The sockets and the router keep the types of what they read and know.
LEMMA FeedTypesStep == FeedTypes /\ [Next]_vars => FeedTypes'
  <1> SUFFICES ASSUME FeedTypes, [Next]_vars PROVE FeedTypes'
    OBVIOUS
  <1> USE DeviceAssumption, BoundAssumption
  <1>0. count' \in CountRecords
    BY CountStep DEF FeedTypes
  <1>1. ASSUME NEW d \in Devices, DeviceChanges(d) PROVE FeedTypes'
    <2>1. [dev |-> d, n |-> count.changes + 1] \in Frames
      BY <1>1 DEF DeviceChanges, FeedTypes, CountRecords, Steps, Frames
    <2>2. feed' \in [Hubs -> Seq(Frames)]
      BY <1>1, <2>1 DEF DeviceChanges, FeedTypes
    <2> QED
      BY <1>0, <1>1, <2>2 DEF DeviceChanges, FeedTypes
  <1>2. ASSUME NEW h \in Hubs, Disconnect(h) PROVE FeedTypes'
    BY <1>0, <1>2 DEF Disconnect, FeedTypes
  <1>3. ASSUME NEW h \in Hubs, Receive(h) PROVE FeedTypes'
    <2>1. Head(feed[h]) \in Frames /\ Tail(feed[h]) \in Seq(Frames)
      BY <1>3 DEF Receive, FeedTypes
    <2>2. label[Head(feed[h]).dev] \in {"unknown", "row", "none"}
      BY <2>1 DEF Frames, FeedTypes
    <2>3. feed' \in [Hubs -> Seq(Frames)]
      BY <1>3, <2>1 DEF Receive, FeedTypes
    <2>4. ASSUME NEW pc \in {"lookup", "route"},
                 route' = [route EXCEPT ![h] = [pc |-> pc, frame |-> Head(feed[h]),
                                                row |-> label[Head(feed[h]).dev]]]
          PROVE  /\ route' \in [Hubs -> RouteRecords]
                 /\ \A g \in Hubs : route'[g].pc # "recv" => route'[g].frame \in Frames
      BY <2>1, <2>2, <2>4 DEF FeedTypes, RouteRecords
    <2> QED
      BY <1>0, <1>3, <2>3, <2>4 DEF Receive, FeedTypes
  <1>4. ASSUME NEW h \in Hubs, Lookup(h) PROVE FeedTypes'
    <2>1. route[h].frame \in Frames /\ route[h].frame.dev \in Devices
      BY <1>4 DEF Lookup, FeedTypes, Frames
    <2>2. ASSUME NEW r \in {"row", "none"},
                 route' = [route EXCEPT ![h].pc = "route", ![h].row = r]
          PROVE  /\ route' \in [Hubs -> RouteRecords]
                 /\ \A g \in Hubs : route'[g].pc # "recv" => route'[g].frame \in Frames
      <3>0. route[h] \in RouteRecords
        BY DEF FeedTypes
      <3>1. [route[h] EXCEPT !.pc = "route", !.row = r] \in RouteRecords
        BY <3>0 DEF RouteRecords
      <3> QED
        BY <2>1, <2>2, <3>1 DEF FeedTypes, RouteRecords
    <2>3. \A r \in {"row", "none"} : label' = [label EXCEPT ![route[h].frame.dev] = r] =>
                label' \in [Devices -> {"unknown", "row", "none"}]
      BY <2>1 DEF FeedTypes
    <2> QED
      BY <1>0, <1>4, <2>1, <2>2, <2>3 DEF Lookup, FeedTypes
  <1>5. ASSUME NEW h \in Hubs, Route(h) PROVE FeedTypes'
    <2>1. route[h].frame.n \in Steps
      BY <1>5 DEF Route, FeedTypes, Frames, Steps
    <2>2. Idle \in RouteRecords /\ Idle.pc = "recv"
      BY DEF Idle, RouteRecords
    <2>3. last' \in [Hubs -> Steps]
      BY <1>5, <2>1 DEF Route, FeedTypes, EventOf
    <2> QED
      BY <1>0, <1>5, <2>2, <2>3 DEF Route, FeedTypes
  <1>6. CASE InvalidateLabels
    BY <1>0, <1>6 DEF InvalidateLabels, FeedTypes
  <1>7. CASE Restart
    <2>1. Idle \in RouteRecords /\ Idle.pc = "recv"
      BY DEF Idle, RouteRecords
    <2>0. feed' = [h \in Hubs |-> <<>>] /\ route' = [h \in Hubs |-> Idle]
      BY <1>7 DEF Restart
    <2>2. route' \in [Hubs -> RouteRecords] /\ \A h \in Hubs : route'[h].pc = "recv"
      BY <2>1, <2>0
    <2>3. feed' \in [Hubs -> Seq(Frames)]
      BY <2>0
    <2>4. label' \in [Devices -> {"unknown", "row", "none"}]
      BY <1>7 DEF Restart
    <2> QED
      BY <1>0, <1>7, <2>2, <2>3, <2>4 DEF Restart, FeedTypes
  <1>8. CASE UNCHANGED feedVars
    BY <1>0, <1>8 DEF feedVars, FeedTypes
  <1>9. ASSUME NEW i \in Instances, WorkerStep(i) PROVE UNCHANGED feedVars
    BY <1>9 DEF WorkerStep, Take, Handled
  <1> QED
    BY <1>1, <1>2, <1>3, <1>4, <1>5, <1>6, <1>7, <1>8, <1>9, OperationFrame
    DEF Next, SocketStep, vars

\* What stands for "no queue" and "no event" is none of them.
LEMMA NoneApart == NoEvent \notin Events /\ NoQueue \notin Seq(Events)
  <1>1. NoEvent \notin Events
    BY DeviceAssumption DEF NoEvent, Events
  <1>2. ASSUME NoQueue \in Seq(Events) PROVE FALSE
    <2>1. NoQueue[1] \in Events
      BY <1>2 DEF NoQueue
    <2> QED
      BY <1>1, <2>1 DEF NoQueue
  <1> QED
    BY <1>1, <1>2

\* Only a stop and a restart end an instance, and they alone touch queues and workers.
LEMMA OperationKeepsWork ==
  ASSUME InstTypes,
         \/ \E i \in Instances : RunRequest(i) \/ GraceExpires(i) \/ \E sel \in Selections : CreateRequest(i, sel)
         \/ LoopStep \/ ReviveStep
  PROVE  UNCHANGED workVars /\ \A i \in Instances : inst[i].running => inst'[i].running
  <1>1. UNCHANGED workVars
    BY DEF GraceExpires, LoopStep, ReviveStep, ProcStep, RunRequest, CreateRequest,
           Patch, Remove, Unsubscribe, Reread, Subscribe, Fetch, Initialize, Register, Revive,
           BootNext
  <1>2. ASSUME NEW i \in Instances, GraceExpires(i) \/ RunRequest(i)
                  \/ \E sel \in Selections : CreateRequest(i, sel)
        PROVE  \A j \in Instances : inst[j].running => inst'[j].running
    BY <1>2 DEF GraceExpires, RunRequest, CreateRequest, InstTypes, InstRecords
  <1>3. ASSUME Patch \/ Remove \/ BootNext \/ \E i \in Instances : Revive(i)
        PROVE  \A j \in Instances : inst[j].running => inst'[j].running
    <2>1. CASE Patch
      <3> DEFINE i == proc["loop"].i
      <3>1. inst' = [inst EXCEPT ![i].row.sel = proc["loop"].new] \/ UNCHANGED inst
        BY <2>1 DEF Patch
      <3>2. \A j \in Instances : inst'[j].running = inst[j].running
        BY <3>1 DEF InstTypes, InstRecords
      <3> QED
        BY <3>2
    <2>2. CASE Remove
      <3> DEFINE i == proc["loop"].i
      <3>1. inst' = [inst EXCEPT ![i].row = NoRow, ![i].subs = {}, ![i].grace = FALSE]
               \/ UNCHANGED inst
        BY <2>2 DEF Remove
      <3>2. \A j \in Instances : inst'[j].running = inst[j].running
        BY <3>1 DEF InstTypes, InstRecords
      <3> QED
        BY <3>2
    <2> QED
      BY <1>3, <2>1, <2>2 DEF BootNext, Revive
  <1>4. ASSUME NEW p \in Procs, ProcStep(p)
        PROVE  \A j \in Instances : inst[j].running => inst'[j].running
    BY <1>4 DEF ProcStep, Unsubscribe, Reread, Subscribe, Fetch, Initialize, Register, InstTypes,
                InstRecords
  <1> QED
    BY <1>1, <1>2, <1>3, <1>4 DEF LoopStep, ReviveStep, Procs

\* Queues and workers hold events, a worker handles one only beside a queue,
\* and there is a queue only while the instance runs.
LEMMA WorkTypesStep == RoutingTypes /\ [Next]_vars => WorkTypes'
  <1> SUFFICES ASSUME RoutingTypes, [Next]_vars PROVE WorkTypes'
    OBVIOUS
  <1> USE DeviceAssumption, NoneApart DEF RoutingTypes
  <1>1. CASE UNCHANGED <<workVars, inst>>
    BY <1>1 DEF workVars, WorkTypes
  <1>2. ASSUME NEW h \in Hubs, Route(h) PROVE WorkTypes'
    <2> DEFINE e == EventOf(h)
               to == {i \in Subscribed(e.as) : inst[i].running}
    <2>1. UNCHANGED <<worker, inst>>
      BY <1>2 DEF Route, instVars
    <2>2. CASE to # {} /\ Enqueue(to, e)
      <3>1. PICK j \in Instances : e.as \in inst[j].subs
        BY <2>2 DEF Subscribed
      <3>2. e.as \in Devices
        BY <3>1 DEF InstTypes, InstRecords, Subsets
      <3>3. route[h].frame \in Frames
        BY <1>2 DEF Route, FeedTypes
      <3>4. e \in Events
        BY <3>2, <3>3 DEF EventOf, Events, Frames
      <3>5. \A i \in Instances : /\ queue'[i] \in Seq(Events) \cup {NoQueue}
                                 /\ i \notin to => queue'[i] = queue[i]
                                 /\ i \in to => queue'[i] \in Seq(Events)
        BY <2>2, <3>4 DEF Enqueue, WorkTypes
      <3>6. queue' \in [Instances -> Seq(Events) \cup {NoQueue}]
        BY <2>2, <3>5 DEF Enqueue
      <3> QED
        BY <2>1, <3>5, <3>6 DEF WorkTypes
    <2>3. CASE UNCHANGED queue
      BY <2>1, <2>3 DEF WorkTypes
    <2> QED
      BY <1>2, <2>2, <2>3 DEF Route
  <1>3. ASSUME NEW i \in Instances, WorkerStep(i) PROVE WorkTypes'
    <2>1. CASE Take(i)
      <3>1. /\ queue[i] \in Seq(Events) /\ queue[i] # <<>>
            /\ UNCHANGED inst
        BY <2>1 DEF Take, WorkTypes, instVars
      <3>2. Head(queue[i]) \in Events /\ Tail(queue[i]) \in Seq(Events)
        BY <3>1
      <3> QED
        BY <2>1, <3>1, <3>2 DEF Take, WorkTypes
    <2>2. CASE Handled(i)
      BY <2>2 DEF Handled, WorkTypes, instVars
    <2> QED
      BY <1>3, <2>1, <2>2 DEF WorkerStep
  <1>4. ASSUME NEW i \in Instances, StopNow(i) PROVE WorkTypes'
    <2>1. CASE inst[i].running
      <3>1. \A j \in Instances \ {i} : inst'[j].running = inst[j].running
        BY <1>4, <2>1 DEF StopNow, InstTypes
      <3> QED
        BY <1>4, <2>1, <3>1 DEF StopNow, DropWorker, WorkTypes
    <2>2. CASE ~inst[i].running
      BY <1>1, <1>4, <2>2 DEF StopNow
    <2> QED
      BY <2>1, <2>2
  <1>5. ASSUME NEW i \in Instances,
               RunRequest(i) \/ GraceExpires(i) \/ \E sel \in Selections : CreateRequest(i, sel)
        PROVE  WorkTypes'
    BY <1>5, OperationKeepsWork DEF workVars, WorkTypes
  <1>6. CASE LoopStep \/ ReviveStep
    BY <1>6, OperationKeepsWork DEF workVars, WorkTypes
  <1>7. CASE Restart
    BY <1>7 DEF Restart, WorkTypes
  <1>8. ASSUME \/ \E d \in Devices : DeviceChanges(d)
               \/ \E h \in Hubs : Disconnect(h) \/ Receive(h) \/ Lookup(h)
               \/ InvalidateLabels \/ UNCHANGED vars
        PROVE  UNCHANGED <<workVars, inst>>
    BY <1>8 DEF DeviceChanges, Disconnect, Receive, Lookup, InvalidateLabels, vars, instVars
  <1>9. ASSUME NEW i \in Instances, UserStep(i) PROVE WorkTypes'
    BY <1>4, <1>5, <1>9 DEF UserStep, StopRequest, StartRequest, UpdateRequest, DeleteRequest,
       ReloadRequest
  <1> QED
    BY <1>1, <1>2, <1>3, <1>5, <1>6, <1>7, <1>8, <1>9 DEF Next, SocketStep

\* The types hold throughout.
LEMMA RoutingTypesHold == Spec => []RoutingTypes
  <1>1. RoutingTypes /\ [Next]_vars => RoutingTypes'
    BY FeedTypesStep, InstTypesStep, WorkTypesStep DEF RoutingTypes
  <1> QED
    BY InitialTypes, <1>1, PTL DEF Spec

-----------------------------------------------------------------------------
(* The invariant of the instances. *)

\* The instances begin in step.
LEMMA InitialInstInv == Init => InstInv
  <1> SUFFICES ASSUME Init PROVE InstInv
    OBVIOUS
  <1> USE InstanceAssumption DEF Init, IdleProc, Procs
  <1>1. BootIsAlone
    BY DEF BootIsAlone
  <1>2. ASSUME NEW i \in Instances PROVE InstOk(i)
    <2>1. /\ inst[i].running => inst[i].row.there /\ inst[i].subs = inst[i].row.sel
          /\ inst[i].live = One(inst[i].running)
      <3> DEFINE Well(r) == /\ r.running => r.row.there /\ r.subs = r.row.sel
                            /\ r.live = One(r.running)
      <3>1. Well(Absent)
        BY DEF Absent, One
      <3>2. Well(Down)
        BY DEF Absent, Down, One
      <3>3. Well(Up)
        BY DEF Absent, Down, Up, One
      <3> QED
        BY <3>1, <3>2, <3>3
    <2>2. \A p \in Procs : proc[p].i # i /\ ~Starting(p, i)
      BY DEF Starting
    <2>3. WorkedOnAlone(i)
      BY <2>1, <2>2 DEF WorkedOnAlone
    <2>4. ObjectsCounted(i)
      BY <2>1, <2>2 DEF ObjectsCounted, Objects, One
    <2>5. SubscriptionsOnTheWay(i)
      BY <2>1, <2>2 DEF SubscriptionsOnTheWay
    <2> QED
      BY <2>3, <2>4, <2>5 DEF InstOk
  <1> QED
    BY <1>1, <1>2 DEF InstInv

\* An instance that no operation enters or leaves and whose row, subscriptions
\* and object stay as they are is as well as before.
LEMMA OthersKept ==
  ASSUME NEW i \in Instances, NEW p \in Procs, NEW j \in Instances \ {i}, InstOk(j),
         inst'[j] = inst[j], j \in raced' <=> j \in raced, j \in halfDone' <=> j \in halfDone,
         \A q \in Procs \ {p} : proc'[q] = proc[q],
         proc[p].i \in {i, "none"}, proc'[p].i \in {i, "none"}
  PROVE  InstOk(j)'
  <1>1. proc[p].i # j /\ proc'[p].i # j
    BY InstanceAssumption
  <1>2. \A q \in Procs : Starting(q, j)' <=> Starting(q, j)
    BY <1>1 DEF Starting
  <1>3. WorkedOnAlone(j)'
    BY <1>1 DEF InstOk, WorkedOnAlone, Procs
  <1>4. ObjectsCounted(j)'
    BY <1>2 DEF InstOk, ObjectsCounted, Objects, One, Procs
  <1>5. SubscriptionsOnTheWay(j)'
    BY <1>1, <1>2 DEF InstOk, SubscriptionsOnTheWay, Starting, Procs
  <1> QED
    BY <1>3, <1>4, <1>5 DEF InstOk

\* What StopNow and Enter make of an instance and its operation.
LEMMA StopEffect ==
  ASSUME InstTypes, NEW i \in Instances, StopNow(i)
  PROVE  /\ ~inst'[i].running
         /\ inst'[i].row = inst[i].row /\ inst'[i].subs = inst[i].subs
         /\ inst'[i].live = inst[i].live - One(inst[i].running)
         /\ \A j \in Instances \ {i} : inst'[j] = inst[j]
  BY DEF StopNow, InstTypes, InstRecords, One, Counts

\* An operation begins: it races those that work on the same instance.
LEMMA EnterEffect ==
  ASSUME InstTypes, NEW i \in Instances, NEW p \in Procs, NEW r, r.i = i, Enter(p, i, r),
         proc[p].pc = "idle"
  PROVE  /\ proc'[p] = r /\ \A q \in Procs \ {p} : proc'[q] = proc[q] /\ (proc[q].i = i => i \in raced')
         /\ i \in raced => i \in raced'
         /\ i \notin halfDone'
         /\ \A j \in Instances \ {i} : (j \in raced' <=> j \in raced) /\ (j \in halfDone' <=> j \in halfDone)
         /\ proc[p].i = "none"
  <1>1. proc[p] \in Operations
    BY DEF InstTypes
  <1> QED
    BY <1>1 DEF Enter, InstTypes, Operations

\* An operation that begins on an instance, first stopped or not running.
LEMMA BeginStep ==
  ASSUME InstTypes, InstInv, NEW i \in Instances, NEW p \in Procs, NEW r, r.i = i,
         proc[p].pc = "idle", proc["loop"].todo = {} \/ (p = "loop" /\ r.todo = proc["loop"].todo),
         Enter(p, i, r),
         r.pc # "idle", r.then # "register", r.pc # "register",
         p = "revive" => r.todo = {}, p = "loop" /\ proc["loop"].todo = {} => r.todo = {},
         proc["loop"].todo # {} => r.pc \notin {"patch", "remove"},
         r.pc # "fetch" => inst'[i].row.there,
         ~inst'[i].running,
         inst'[i].live = inst[i].live - One(inst[i].running),
         proc["loop"].todo # {} => inst' = inst,
         \A j \in Instances \ {i} : inst'[j] = inst[j]
  PROVE  InstInv'
  <1> USE DEF Procs
  <1>0. /\ proc'[p] = r /\ \A q \in Procs \ {p} : proc'[q] = proc[q] /\ (proc[q].i = i => i \in raced')
        /\ i \in raced => i \in raced'
        /\ proc[p].i = "none"
        /\ \A j \in Instances \ {i} : (j \in raced' <=> j \in raced) /\ (j \in halfDone' <=> j \in halfDone)
    BY EnterEffect
  <1>1. ASSUME NEW j \in Instances \ {i} PROVE InstOk(j)'
    BY <1>0, <1>1, OthersKept DEF InstInv
  <1>2. ASSUME NEW q \in Procs, Starting(q, i)' PROVE Starting(q, i) /\ q # p /\ i \in raced'
    BY <1>0, <1>2 DEF Starting
  <1>3. WorkedOnAlone(i)'
    BY <1>0 DEF InstInv, InstOk, WorkedOnAlone
  <1>4. ObjectsCounted(i)'
    <2>1. ObjectsCounted(i) /\ inst[i].live \in Int
      BY DEF InstInv, InstOk, InstTypes, InstRecords, Counts
    <2>2. ~Starting(p, i) /\ ~Starting(p, i)'
      BY <1>2, InstanceAssumption, <1>0 DEF Starting
    <2>3. \A q \in Procs : Starting(q, i)' <=> Starting(q, i)
      BY <1>0, <2>2 DEF Starting
    <2> QED
      BY <2>1, <2>3, <1>0 DEF ObjectsCounted, Objects, One
  <1>5. SubscriptionsOnTheWay(i)'
    BY <1>2 DEF SubscriptionsOnTheWay
  <1>6. BootIsAlone'
    <2>1. CASE proc["loop"].todo = {}
      BY <1>0, <2>1 DEF InstInv, BootIsAlone
    <2>2. CASE proc["loop"].todo # {}
      BY <1>0, <2>2 DEF InstInv, BootIsAlone
    <2> QED
      BY <2>1, <2>2
  <1>7. InstOk(i)'
    BY <1>3, <1>4, <1>5 DEF InstOk
  <1> QED
    BY <1>1, <1>6, <1>7 DEF InstInv

\* An operation goes on to its next call.
LEMMA GotoEffect ==
  ASSUME InstTypes, NEW p \in Procs, NEW pc, Goto(p, pc)
  PROVE  /\ proc'[p].pc = pc /\ proc'[p].i = proc[p].i /\ proc'[p].todo = proc[p].todo
         /\ proc'[p].then = proc[p].then /\ proc'[p].sel = proc[p].sel
         /\ \A q \in Procs \ {p} : proc'[q] = proc[q]
  <1>1. proc[p] \in ProcRecords
    BY DEF InstTypes, Operations
  <1> QED
    BY <1>1 DEF Goto, InstTypes, ProcRecords

\* An operation ends.
LEMMA LeaveEffect ==
  ASSUME InstTypes, NEW p \in Procs, Leave(p)
  PROVE  /\ proc'[p].pc = "idle" /\ proc'[p].i = "none" /\ proc'[p].todo = proc[p].todo \ {proc[p].i}
         /\ \A q \in Procs \ {p} : proc'[q] = proc[q]
  BY DEF Leave, InstTypes, IdleProc

\* A step of the operation in p: InstOk has to be shown of its instance alone.
LEMMA ProcStepFrame ==
  ASSUME InstTypes, NEW p \in Procs, ProcStep(p)
  PROVE  /\ proc[p].i \in Instances /\ proc[p].pc # "idle"
         /\ \A q \in Procs \ {p} : proc'[q] = proc[q]
         /\ \A j \in Instances \ {proc[p].i} : inst'[j] = inst[j] /\ (j \in halfDone' <=> j \in halfDone)
         /\ raced' = raced /\ halfDone \subseteq halfDone'
         /\ inst'[proc[p].i].row = inst[proc[p].i].row
         /\ \/ /\ proc'[p].i = proc[p].i /\ proc'[p].todo = proc[p].todo
               /\ proc'[p].pc \notin {"idle", "patch", "remove", "fetch"}
               /\ proc[p].pc = "fetch" => inst[proc[p].i].row.there
            \/ proc'[p].pc = "idle" /\ proc'[p].i = "none" /\ proc'[p].todo = proc[p].todo \ {proc[p].i}
            \/ /\ proc'[p].i = proc[p].i /\ proc'[p].todo = proc[p].todo
               /\ proc'[p].pc = "fetch"
  <1> DEFINE i == proc[p].i
  <1>1. proc[p] \in Operations
    BY DEF InstTypes
  <1>2. proc[p].pc # "idle"
    BY DEF ProcStep, Unsubscribe, Reread, Subscribe, Fetch, Initialize, Register, At
  <1>3. i \in Instances /\ proc[p].then \in {"idle", "fetch", "initialize", "register"}
        /\ (proc[p].pc \in {"unsubscribe", "reread", "subscribe"} => proc[p].then # "idle")
    BY <1>1, <1>2 DEF Operations, ProcRecords
  <1>4. CASE Unsubscribe(p)
    BY <1>2, <1>3, <1>4 DEF Unsubscribe, At, Goto, InstTypes, InstRecords
  <1>5. CASE Reread(p)
    <2>1. CASE Goto(p, proc[p].then)
      BY <1>2, <1>3, <1>5, <2>1, GotoEffect DEF Reread, At
    <2>2. CASE proc' = [proc EXCEPT ![p].pc = "subscribe", ![p].sel = inst[i].row.sel]
      <3>1. /\ proc'[p].i = i /\ proc'[p].todo = proc[p].todo /\ proc'[p].pc = "subscribe"
            /\ \A q \in Procs \ {p} : proc'[q] = proc[q]
        BY <1>1, <2>2 DEF InstTypes, Operations, ProcRecords
      <3> QED
        BY <1>2, <1>3, <1>5, <3>1 DEF Reread, At
    <2> QED
      BY <1>5, <2>1, <2>2 DEF Reread
  <1>6. CASE Subscribe(p)
    BY <1>2, <1>3, <1>6 DEF Subscribe, At, InstTypes, InstRecords
  <1>7. CASE Fetch(p)
    BY <1>2, <1>3, <1>7, GotoEffect, LeaveEffect DEF Fetch, At
  <1>8. CASE Initialize(p)
    <2>1. CASE Leave(p) /\ UNCHANGED inst
      BY <1>2, <1>3, <1>8, <2>1, LeaveEffect DEF Initialize, At
    <2>2. CASE /\ inst' = [inst EXCEPT ![i].live = @ + 1]
               /\ proc' = [proc EXCEPT ![p].pc = "unsubscribe", ![p].then = "register"]
      <3>1. /\ proc'[p].i = i /\ proc'[p].todo = proc[p].todo /\ proc'[p].pc = "unsubscribe"
            /\ \A q \in Procs \ {p} : proc'[q] = proc[q]
        BY <1>1, <2>2 DEF InstTypes, Operations, ProcRecords
      <3>2. /\ \A j \in Instances \ {i} : inst'[j] = inst[j]
            /\ inst'[i].row = inst[i].row
        BY <1>3, <2>2 DEF InstTypes, InstRecords
      <3> QED
        BY <1>2, <1>3, <1>8, <3>1, <3>2 DEF Initialize, At
    <2> QED
      BY <1>8, <2>1, <2>2 DEF Initialize
  <1>9. CASE Register(p)
    BY <1>2, <1>3, <1>9 DEF Register, At, Leave, IdleProc, InstTypes, InstRecords
  <1> QED
    BY <1>4, <1>5, <1>6, <1>7, <1>8, <1>9 DEF ProcStep

\* A step of an operation keeps the invariant of the instances.
LEMMA InstInvProcStep ==
  ASSUME InstTypes, InstInv, NEW p \in Procs, NEW i, i = proc[p].i, ProcStep(p)
  PROVE  InstInv'
  <1> USE DEF Procs
  <1>1. /\ i \in Instances /\ proc[p].pc # "idle"
        /\ \A q \in Procs \ {p} : proc'[q] = proc[q]
        /\ \A j \in Instances \ {i} : inst'[j] = inst[j] /\ (j \in halfDone' <=> j \in halfDone)
        /\ raced' = raced /\ halfDone \subseteq halfDone'
        /\ inst'[i].row = inst[i].row
    BY ProcStepFrame
  <1>2. proc'[p].i \in {i, "none"}
    BY ProcStepFrame
  <1>3. ASSUME NEW j \in Instances \ {i} PROVE InstOk(j)'
    BY <1>1, <1>2, <1>3, OthersKept DEF InstInv
  <1>4. InstOk(i) /\ (i \notin raced => ~inst[i].running /\ \A q \in Procs \ {p} : proc[q].i # i)
    BY <1>1 DEF InstInv, InstOk, WorkedOnAlone
  <1>5. inst'[i].running => inst[i].running \/ Register(p)
    BY <1>1 DEF ProcStep, Unsubscribe, Reread, Subscribe, Fetch, Initialize, InstTypes, InstRecords
  <1>6. Register(p) => proc'[p].i = "none" /\ proc[p].pc = "register"
    BY LeaveEffect DEF Register, At
  <1>7. WorkedOnAlone(i)'
    <2>1. \/ proc'[p].i = "none"
          \/ proc'[p].pc = "fetch" /\ proc'[p].i = i /\ ~Register(p)
          \/ proc'[p].i = i /\ ~Register(p) /\ (proc[p].pc = "fetch" => inst[i].row.there)
      BY <1>1, <1>6, ProcStepFrame, InstanceAssumption
    <2> SUFFICES ASSUME i \notin raced
                 PROVE  /\ ~(proc'["loop"].i = i /\ proc'["revive"].i = i)
                        /\ inst'[i].running => inst'[i].row.there /\ \A q \in Procs : proc'[q].i # i
                        /\ \A q \in Procs : proc'[q].i = i /\ proc'[q].pc # "fetch" => inst'[i].row.there
      BY <1>1 DEF WorkedOnAlone
    <2>2. \A q \in Procs \ {p} : proc'[q].i # i
      BY <1>1, <1>4
    <2>3. proc[p].pc # "fetch" => inst[i].row.there
      BY <1>4 DEF InstOk, WorkedOnAlone
    <2> QED
      BY <1>1, <1>4, <1>5, <1>6, <2>1, <2>2, <2>3, InstanceAssumption
  <1>8. BootIsAlone'
    <2>1. CASE proc["loop"].todo = {}
      BY <1>1, <2>1, ProcStepFrame DEF InstInv, BootIsAlone
    <2>2. CASE proc["loop"].todo # {}
      <3>1. p = "loop"
        BY <1>1, <2>2 DEF InstInv, BootIsAlone
      <3>2. \A j \in proc'["loop"].todo : j \in proc["loop"].todo /\ (j # i \/ ~Register(p))
        BY <1>6, <3>1, ProcStepFrame, InstanceAssumption
      <3>3. \A j \in proc["loop"].todo : j \in Instances
        BY DEF InstTypes, Operations, ProcRecords
      <3> QED
        BY <1>1, <1>5, <2>2, <3>1, <3>2, <3>3, ProcStepFrame DEF InstInv, BootIsAlone
    <2> QED
      BY <2>1, <2>2
  <1>9. /\ proc[p] \in Operations
        /\ \A q \in Procs \ {p} : Starting(q, i)' <=> Starting(q, i)
    BY <1>1 DEF InstTypes, Starting
  <1>10. ObjectsCounted(i)'
    <2>1. inst[i].live \in Int /\ ObjectsCounted(i) /\ (i \notin raced => ~inst[i].running)
      BY <1>1, <1>4 DEF InstTypes, InstRecords, Counts, InstOk
    <2>2. CASE /\ inst'[i].live = inst[i].live /\ inst'[i].running = inst[i].running
               /\ Starting(p, i)' <=> Starting(p, i)
      BY <1>1, <1>9, <2>1, <2>2 DEF ObjectsCounted, Objects, One
    <2>3. CASE /\ inst'[i].live = inst[i].live + 1 /\ inst'[i].running = inst[i].running
               /\ Starting(p, i)' /\ ~Starting(p, i)
      BY <1>1, <1>9, <2>1, <2>3 DEF ObjectsCounted, Objects, One
    <2>4. CASE /\ inst'[i].live = inst[i].live /\ inst'[i].running
               /\ ~Starting(p, i)' /\ Starting(p, i)
      BY <1>1, <1>9, <2>1, <2>4 DEF ObjectsCounted, Objects, One
    <2>5. CASE Unsubscribe(p)
      <3>1. inst'[i].live = inst[i].live /\ inst'[i].running = inst[i].running
        BY <1>1, <2>5 DEF Unsubscribe, InstTypes, InstRecords
      <3> QED
        BY <2>2, <2>5, <3>1, GotoEffect DEF Unsubscribe, At, Starting
    <2>6. CASE Reread(p)
      <3>1. Starting(p, i)' <=> Starting(p, i)
        <4>1. CASE Goto(p, proc[p].then)
          BY <1>9, <2>6, <4>1, GotoEffect DEF Reread, At, Starting, Operations, ProcRecords
        <4>2. CASE proc' = [proc EXCEPT ![p].pc = "subscribe", ![p].sel = inst[i].row.sel]
          <5>1. proc'[p].pc = "subscribe" /\ proc'[p].then = proc[p].then /\ proc'[p].i = proc[p].i
            BY <1>9, <4>2 DEF InstTypes, Operations, ProcRecords
          <5> QED
            BY <1>9, <2>6, <5>1 DEF Reread, At, Starting, Operations, ProcRecords
        <4> QED
          BY <2>6, <4>1, <4>2 DEF Reread
      <3> QED
        BY <2>2, <2>6, <3>1 DEF Reread
    <2>7. CASE Subscribe(p)
      <3>1. inst'[i].live = inst[i].live /\ inst'[i].running = inst[i].running
        BY <1>1, <2>7 DEF Subscribe, InstTypes, InstRecords
      <3>2. proc'[p].pc = proc[p].then /\ proc'[p].then = "idle" /\ proc'[p].i = proc[p].i
        BY <1>9, <2>7 DEF Subscribe, InstTypes, Operations, ProcRecords
      <3> QED
        BY <1>9, <2>2, <2>7, <3>1, <3>2 DEF Subscribe, At, Starting, Operations, ProcRecords
    <2>8. CASE Fetch(p)
      BY <2>2, <2>8, GotoEffect, LeaveEffect DEF Fetch, At, Starting
    <2>9. CASE Initialize(p)
      <3>1. CASE Leave(p) /\ UNCHANGED inst
        BY <2>2, <2>9, <3>1, LeaveEffect DEF Initialize, At, Starting
      <3>2. CASE /\ inst' = [inst EXCEPT ![i].live = @ + 1]
                 /\ proc' = [proc EXCEPT ![p].pc = "unsubscribe", ![p].then = "register"]
        <4>1. proc'[p].pc = "unsubscribe" /\ proc'[p].then = "register" /\ proc'[p].i = i
          BY <1>9, <3>2 DEF InstTypes, Operations, ProcRecords
        <4>2. inst'[i].live = inst[i].live + 1 /\ inst'[i].running = inst[i].running
          BY <1>1, <3>2 DEF InstTypes, InstRecords
        <4> QED
          BY <2>3, <2>9, <4>1, <4>2 DEF Initialize, At, Starting
      <3> QED
        BY <2>9, <3>1, <3>2 DEF Initialize
    <2>10. CASE Register(p)
      <3>1. inst'[i].live = inst[i].live /\ inst'[i].running
        BY <1>1, <2>10 DEF Register, InstTypes, InstRecords
      <3> QED
        BY <2>4, <2>10, <3>1, LeaveEffect DEF Register, At, Starting
    <2> QED
      BY <2>5, <2>6, <2>7, <2>8, <2>9, <2>10 DEF ProcStep
  <1>11. SubscriptionsOnTheWay(i)'
    <2> SUFFICES ASSUME i \notin raced \cup halfDone'
                 PROVE  /\ inst'[i].running => inst'[i].subs = inst'[i].row.sel
                        /\ Starting(p, i)' =>
                             /\ proc'[p].pc = "reread" => inst'[i].subs = {}
                             /\ proc'[p].pc = "subscribe" => /\ inst'[i].subs = {}
                                                             /\ proc'[p].sel = inst'[i].row.sel
                             /\ proc'[p].pc = "register" => inst'[i].subs = inst'[i].row.sel
      <3>1. i \notin raced => \A q \in Procs \ {p} : ~Starting(q, i)'
        BY <1>1, <1>4, <1>9 DEF Starting
      <3> QED
        BY <1>1, <3>1 DEF SubscriptionsOnTheWay
    <2>1. /\ i \notin halfDone /\ ~inst[i].running
          /\ Starting(p, i) =>
                /\ proc[p].pc = "reread" => inst[i].subs = {}
                /\ proc[p].pc = "subscribe" => inst[i].subs = {} /\ proc[p].sel = inst[i].row.sel
                /\ proc[p].pc = "register" => inst[i].subs = inst[i].row.sel
          /\ proc[p].pc # "fetch" => inst[i].row.there
      BY <1>1, <1>4 DEF InstOk, SubscriptionsOnTheWay, WorkedOnAlone
    <2>2. inst'[i].running => Register(p)
      BY <1>5, <2>1
    <2>3. CASE Unsubscribe(p)
      <3>1. inst' = [inst EXCEPT ![i].subs = {}]
        BY <2>3 DEF Unsubscribe
      <3>2. inst'[i].subs = {}
        BY <1>1, <3>1 DEF InstTypes, InstRecords
      <3> QED
        BY <2>2, <2>3, <3>2, GotoEffect DEF Unsubscribe, Register, At
    <2>4. CASE Reread(p)
      <3>1. proc' = [proc EXCEPT ![p].pc = "subscribe", ![p].sel = inst[i].row.sel] /\ UNCHANGED inst
        BY <2>1, <2>4 DEF Reread, At
      <3>2. /\ proc'[p].pc = "subscribe" /\ proc'[p].then = proc[p].then /\ proc'[p].i = proc[p].i
            /\ proc'[p].sel = inst[i].row.sel
        BY <1>9, <3>1 DEF InstTypes, Operations, ProcRecords
      <3> QED
        BY <2>1, <2>4, <3>1, <3>2 DEF Reread, At, Starting
    <2>5. CASE Subscribe(p)
      <3>1. inst' = [inst EXCEPT ![i].subs = @ \cup proc[p].sel]
        BY <2>1, <2>5 DEF Subscribe, At
      <3>2. inst'[i].subs = inst[i].subs \cup proc[p].sel
        BY <1>1, <3>1 DEF InstTypes, InstRecords
      <3>3. proc'[p].pc = proc[p].then /\ proc'[p].then = "idle" /\ proc'[p].i = proc[p].i
        BY <1>9, <2>5 DEF Subscribe, InstTypes, Operations, ProcRecords
      <3>4. Starting(p, i)' => Starting(p, i) /\ proc'[p].pc = "register"
        BY <1>9, <2>5, <3>3 DEF Subscribe, At, Starting, Operations, ProcRecords
      <3> QED
        BY <1>1, <2>1, <2>2, <2>5, <3>2, <3>4 DEF Subscribe, Register, At
    <2>6. CASE Fetch(p)
      BY <2>2, <2>6, GotoEffect, LeaveEffect DEF Fetch, Register, At, Starting
    <2>7. CASE Initialize(p)
      <3>1. proc' = [proc EXCEPT ![p].pc = "unsubscribe", ![p].then = "register"]
        BY <2>7 DEF Initialize
      <3>2. proc'[p].pc = "unsubscribe"
        BY <1>9, <3>1 DEF InstTypes, Operations, ProcRecords
      <3> QED
        BY <2>2, <2>7, <3>2 DEF Initialize, Register, At
    <2>8. CASE Register(p)
      <3>1. inst'[i].subs = inst[i].subs
        BY <1>1, <2>8 DEF Register, InstTypes, InstRecords
      <3> QED
        BY <1>1, <2>1, <2>8, <3>1, LeaveEffect DEF Register, At, Starting
    <2> QED
      BY <2>3, <2>4, <2>5, <2>6, <2>7, <2>8 DEF ProcStep
  <1>12. InstOk(i)'
    BY <1>7, <1>10, <1>11 DEF InstOk
  <1> QED
    BY <1>1, <1>3, <1>8, <1>12 DEF InstInv

\* The other steps on an instance.
LEMMA InstInvStep == InstTypes /\ InstInv /\ [Next]_vars => InstInv'
  <1> SUFFICES ASSUME InstTypes, InstInv, [Next]_vars PROVE InstInv'
    OBVIOUS
  <1> USE DEF Procs
  <1>1. ASSUME NEW p \in Procs, ProcStep(p) PROVE InstInv'
    BY <1>1, InstInvProcStep
  <1>2. ASSUME NEW i \in Instances, UserStep(i) PROVE InstInv'
    <2>1. proc["loop"].pc = "idle" /\ proc["loop"].todo = {}
      BY <1>2 DEF UserStep, StopRequest, StartRequest, UpdateRequest, DeleteRequest,
                  ReloadRequest, RunRequest, CreateRequest, UserOp, LoopFree
    <2>2. ASSUME NEW r, Enter("loop", i, r), StopNow(i), r.i = i, r.todo = {},
                 r.pc \notin {"idle", "register"}, r.then # "register",
                 r.pc # "fetch" => inst[i].row.there
          PROVE  InstInv'
      BY <2>1, <2>2, StopEffect, BeginStep
    <2>3. \A pc, new : LET r == [IdleProc EXCEPT !.pc = pc, !.i = i, !.new = new]
                       IN r.i = i /\ r.todo = {} /\ r.pc = pc /\ r.then = "idle"
      BY DEF IdleProc
    <2>4. CASE StopRequest(i)
      <3>1. UNCHANGED <<proc, raced, halfDone>> /\ StopNow(i)
        BY <2>4 DEF StopRequest
      <3>2. /\ ~inst'[i].running
            /\ inst'[i].row = inst[i].row /\ inst'[i].subs = inst[i].subs
            /\ inst'[i].live = inst[i].live - One(inst[i].running)
            /\ \A j \in Instances \ {i} : inst'[j] = inst[j]
        BY <3>1, StopEffect
      <3>3. proc["loop"].i = "none"
        BY <2>1 DEF InstTypes, Operations
      <3>4. \A j \in Instances \ {i} : InstOk(j)'
        BY <3>1, <3>2, <3>3, OthersKept DEF InstInv
      <3>5. inst[i].live \in Int
        BY DEF InstTypes, InstRecords, Counts
      <3>6. InstOk(i)'
        <4>1. WorkedOnAlone(i)'
          BY <3>1, <3>2 DEF InstInv, InstOk, WorkedOnAlone
        <4>2. ObjectsCounted(i)'
          BY <3>1, <3>2, <3>5 DEF InstInv, InstOk, ObjectsCounted, Objects, One, Starting
        <4>3. SubscriptionsOnTheWay(i)'
          BY <3>1, <3>2 DEF InstInv, InstOk, SubscriptionsOnTheWay, Starting
        <4> QED
          BY <4>1, <4>2, <4>3 DEF InstOk
      <3>7. BootIsAlone'
        BY <2>1, <3>1 DEF InstInv, BootIsAlone
      <3> QED
        BY <3>4, <3>6, <3>7 DEF InstInv
    <2>5. CASE StartRequest(i)
      BY <2>2, <2>3, <2>5 DEF StartRequest, Begin
    <2>6. CASE DeleteRequest(i)
      <3> DEFINE r == [IdleProc EXCEPT !.pc = "remove", !.i = i, !.new = {}]
      <3>1. r.i = i /\ r.todo = {} /\ r.pc = "remove" /\ r.then = "idle"
        BY <2>3
      <3> HIDE DEF r
      <3>2. Enter("loop", i, r) /\ StopNow(i) /\ inst[i].row.there
        BY <2>6 DEF DeleteRequest, Begin, r
      <3> QED
        BY <2>2, <3>1, <3>2
    <2>7. CASE ReloadRequest(i)
      <3> DEFINE r == [IdleProc EXCEPT !.pc = "unsubscribe", !.i = i, !.then = "fetch"]
      <3>1. r.i = i /\ r.todo = {} /\ r.pc = "unsubscribe" /\ r.then = "fetch"
        BY DEF IdleProc
      <3> HIDE DEF r
      <3>2. Enter("loop", i, r) /\ StopNow(i) /\ inst[i].row.there
        BY <2>7 DEF ReloadRequest, r
      <3> QED
        BY <2>2, <3>1, <3>2
    <2>8. CASE RunRequest(i)
      <3> DEFINE r == [IdleProc EXCEPT !.pc = "initialize", !.i = i, !.new = {}]
      <3>1. r.i = i /\ r.todo = {} /\ r.pc = "initialize" /\ r.then = "idle"
        BY <2>3
      <3> HIDE DEF r
      <3>2. Enter("loop", i, r) /\ inst' = inst /\ inst[i].row.there /\ ~inst[i].running
        BY <2>8 DEF RunRequest, Begin, r
      <3>3. inst'[i].live = inst[i].live - One(inst[i].running)
        BY <3>2 DEF One, InstTypes, InstRecords, Counts
      <3> QED
        BY <2>1, <3>1, <3>2, <3>3, BeginStep
    <2>9. ASSUME NEW sel \in Selections, UpdateRequest(i, sel) PROVE InstInv'
      <3> DEFINE r == [IdleProc EXCEPT !.pc = "patch", !.i = i, !.new = sel]
      <3>1. r.i = i /\ r.todo = {} /\ r.pc = "patch" /\ r.then = "idle"
        BY <2>3
      <3> HIDE DEF r
      <3>2. Enter("loop", i, r) /\ StopNow(i) /\ inst[i].row.there
        BY <2>9 DEF UpdateRequest, Begin, r
      <3> QED
        BY <2>2, <3>1, <3>2
    <2>10. ASSUME NEW sel \in Selections, CreateRequest(i, sel) PROVE InstInv'
      <3> DEFINE r == [IdleProc EXCEPT !.pc = "subscribe", !.i = i, !.then = "initialize", !.sel = sel]
      <3>1. r.i = i /\ r.todo = {} /\ r.pc = "subscribe" /\ r.then = "initialize"
        BY DEF IdleProc
      <3> HIDE DEF r
      <3>2. /\ Enter("loop", i, r) /\ ~Busy(i) /\ ~inst[i].row.there
            /\ inst' = [inst EXCEPT ![i].row = [there |-> TRUE, sel |-> sel]]
        BY <2>10 DEF CreateRequest, r
      <3>3. /\ inst'[i].row.there /\ inst'[i].running = inst[i].running
            /\ inst'[i].live = inst[i].live
            /\ \A j \in Instances \ {i} : inst'[j] = inst[j]
        BY <3>2 DEF InstTypes, InstRecords
      <3>4. ~inst[i].running /\ inst'[i].live = inst[i].live - One(inst[i].running)
        BY <2>10, <3>3 DEF CreateRequest, One, InstTypes, InstRecords, Counts
      <3> QED
        BY <2>1, <3>1, <3>2, <3>3, <3>4, BeginStep
    <2> QED
      BY <1>2, <2>4, <2>5, <2>6, <2>7, <2>8, <2>9, <2>10 DEF UserStep
  <1>3. CASE BootNext
    <2>1. PICK i \in proc["loop"].todo :
             /\ proc["loop"].pc = "idle"
             /\ Enter("loop", i, [IdleProc EXCEPT !.pc = "initialize", !.i = i,
                                                  !.todo = proc["loop"].todo])
             /\ inst' = inst
      BY <1>3 DEF BootNext, At
    <2> DEFINE r == [IdleProc EXCEPT !.pc = "initialize", !.i = i, !.todo = proc["loop"].todo]
    <2>2. r.i = i /\ r.todo = proc["loop"].todo /\ r.pc = "initialize" /\ r.then = "idle"
      BY DEF IdleProc
    <2>3. i \in Instances
      BY <2>1 DEF InstTypes, Operations, ProcRecords
    <2>4. ~inst[i].running /\ inst[i].row.there
      BY <2>1 DEF InstInv, BootIsAlone
    <2>5. inst'[i].live = inst[i].live - One(inst[i].running)
      BY <2>1, <2>3, <2>4 DEF One, InstTypes, InstRecords, Counts
    <2>6. Enter("loop", i, r)
      BY <2>1
    <2> HIDE DEF r
    <2> QED
      BY <2>1, <2>2, <2>3, <2>4, <2>5, <2>6, BeginStep
  <1>4. ASSUME NEW i \in Instances, Revive(i) PROVE InstInv'
    <2> DEFINE r == [IdleProc EXCEPT !.pc = "fetch", !.i = i]
    <2>1. r.i = i /\ r.todo = {} /\ r.pc = "fetch" /\ r.then = "idle"
      BY DEF IdleProc
    <2>2. Enter("revive", i, r)
      BY <1>4 DEF Revive
    <2> HIDE DEF r
    <2>3. inst' = inst /\ ~inst[i].running /\ proc["revive"].pc = "idle" /\ proc["loop"].todo = {}
      BY <1>4 DEF Revive, At
    <2>4. inst'[i].live = inst[i].live - One(inst[i].running)
      BY <2>3 DEF One, InstTypes, InstRecords, Counts
    <2> QED
      BY <2>1, <2>2, <2>3, <2>4, BeginStep
  <1>5. ASSUME NEW i \in Instances, GraceExpires(i) PROVE InstInv'
    <2>1. /\ UNCHANGED <<proc, raced, halfDone>> /\ \A j \in Instances \ {i} : inst'[j] = inst[j]
          /\ inst'[i].running = inst[i].running /\ inst'[i].row = inst[i].row
          /\ inst'[i].subs = inst[i].subs /\ inst'[i].live = inst[i].live
      BY <1>5 DEF GraceExpires, InstTypes, InstRecords
    <2>2. \A j \in Instances : /\ inst'[j].running = inst[j].running /\ inst'[j].row = inst[j].row
                               /\ inst'[j].subs = inst[j].subs /\ inst'[j].live = inst[j].live
      BY <2>1
    <2>3. BootIsAlone'
      BY <1>5, <2>1 DEF GraceExpires, LoopFree, InstInv, BootIsAlone
    <2>4. ASSUME NEW j \in Instances PROVE InstOk(j)'
      BY <2>1, <2>2 DEF InstInv, InstOk, WorkedOnAlone, ObjectsCounted, SubscriptionsOnTheWay,
                        Objects, One, Starting
    <2> QED
      BY <2>3, <2>4 DEF InstInv
  <1>6. CASE Patch \/ Remove
    <2>1. PICK i : i = proc["loop"].i
      OBVIOUS
    <2>2. /\ proc["loop"] \in Operations /\ proc["loop"].pc \in {"patch", "remove"}
          /\ i \in Instances
      BY <1>6, <2>1 DEF Patch, Remove, At, InstTypes, Operations, ProcRecords
    <2>3. /\ proc["loop"].todo = {} /\ proc["revive"].todo = {}
          /\ i \notin raced => ~inst[i].running /\ proc["revive"].i # i
      BY <2>1, <2>2 DEF InstInv, BootIsAlone, InstOk, WorkedOnAlone
    <2>4. /\ proc'["revive"] = proc["revive"]
          /\ proc'["loop"].todo = {}
          /\ \/ proc'["loop"].pc = "idle" /\ proc'["loop"].i = "none"
             \/ /\ proc'["loop"].pc \in {"unsubscribe", "fetch"} /\ proc'["loop"].i = i
                /\ proc'["loop"].pc = "unsubscribe" => proc'["loop"].then = "fetch"
                /\ inst'[i].row.there = inst[i].row.there
          /\ raced' = raced /\ halfDone \subseteq halfDone'
          /\ \A j \in Instances \ {i} : j \in halfDone' <=> j \in halfDone
      <3>1. CASE Remove
        BY <2>1, <2>2, <2>3, <3>1, LeaveEffect DEF Remove
      <3>2. CASE Patch
        <4>1. CASE Goto("loop", "fetch") /\ UNCHANGED inst
          BY <2>1, <2>2, <2>3, <3>2, <4>1, GotoEffect DEF Patch
        <4>2. CASE /\ inst' = [inst EXCEPT ![i].row.sel = proc["loop"].new]
                   /\ proc' = [proc EXCEPT !["loop"].pc = "unsubscribe", !["loop"].then = "fetch"]
          <5>1. /\ proc'["loop"].pc = "unsubscribe" /\ proc'["loop"].then = "fetch"
                /\ proc'["loop"].i = i /\ proc'["loop"].todo = {} /\ proc'["revive"] = proc["revive"]
            BY <2>1, <2>2, <2>3, <4>2 DEF InstTypes, Operations, ProcRecords
          <5>2. inst'[i].row.there = inst[i].row.there
            BY <2>2, <4>2 DEF InstTypes, InstRecords, RowRecords
          <5> QED
            BY <2>1, <3>2, <5>1, <5>2 DEF Patch
        <4> QED
          BY <2>1, <3>2, <4>1, <4>2 DEF Patch
      <3> QED
        BY <1>6, <3>1, <3>2
    <2>5. /\ inst'[i].running = inst[i].running /\ inst'[i].live = inst[i].live
          /\ \A j \in Instances \ {i} : inst'[j] = inst[j]
      <3>1. CASE inst' = [inst EXCEPT ![i].row.sel = proc["loop"].new]
        BY <2>2, <3>1 DEF InstTypes, InstRecords
      <3>2. CASE inst' = [inst EXCEPT ![i].row = NoRow, ![i].subs = {}, ![i].grace = FALSE]
        BY <2>2, <3>2 DEF InstTypes, InstRecords
      <3> QED
        BY <1>6, <2>1, <3>1, <3>2 DEF Patch, Remove
    <2>6. ASSUME NEW j \in Instances \ {i} PROVE InstOk(j)'
      <3>1. \A q \in Procs \ {"loop"} : proc'[q] = proc[q]
        BY <2>4
      <3>2. proc["loop"].i \in {i, "none"} /\ proc'["loop"].i \in {i, "none"} /\ InstOk(j)
        BY <2>1, <2>4, <2>6 DEF InstInv
      <3> QED
        BY <2>2, <2>4, <2>5, <2>6, <3>1, <3>2, OthersKept
    <2>7. InstOk(i)'
      <3>0. InstOk(i) /\ (proc["loop"].pc # "fetch" => i \in raced \/ inst[i].row.there)
        BY <2>1, <2>2 DEF InstInv, InstOk, WorkedOnAlone
      <3>1. WorkedOnAlone(i)'
        BY <2>2, <2>3, <2>4, <2>5, <3>0, InstanceAssumption DEF WorkedOnAlone
      <3>2. ~Starting("loop", i) /\ ~Starting("loop", i)' /\ (Starting("revive", i)' <=> Starting("revive", i))
        BY <2>2, <2>4 DEF Starting
      <3>3. ObjectsCounted(i)'
        BY <2>4, <2>5, <3>0, <3>2 DEF InstOk, ObjectsCounted, Objects, One
      <3>4. SubscriptionsOnTheWay(i)'
        BY <2>3, <2>4, <2>5, <3>2 DEF SubscriptionsOnTheWay, Starting
      <3> QED
        BY <3>1, <3>3, <3>4 DEF InstOk
    <2>8. BootIsAlone'
      BY <2>3, <2>4 DEF BootIsAlone
    <2> QED
      BY <2>6, <2>7, <2>8 DEF InstInv
  <1>7. CASE Restart
    <2>1. /\ proc'["revive"].pc = "idle" /\ proc'["revive"].todo = {} /\ proc'["revive"].i = "none"
          /\ proc'["loop"].pc = "idle" /\ proc'["loop"].i = "none"
          /\ proc'["loop"].todo = {i \in Instances : inst[i].row.there}
      BY <1>7 DEF Restart, IdleProc
    <2>2. \A i \in Instances : ~inst'[i].running /\ inst'[i].live = 0 /\ inst'[i].row = inst[i].row
      BY <1>7 DEF Restart, InstTypes, InstRecords
    <2>3. \A i \in Instances, p \in Procs : proc'[p].i # i /\ ~Starting(p, i)'
      BY <2>1, InstanceAssumption DEF Starting
    <2>4. ASSUME NEW i \in Instances PROVE InstOk(i)'
      BY <2>2, <2>3 DEF InstOk, WorkedOnAlone, ObjectsCounted, SubscriptionsOnTheWay, Objects, One
    <2>5. BootIsAlone'
      BY <2>1, <2>2 DEF BootIsAlone
    <2> QED
      BY <2>4, <2>5 DEF InstInv
  <1>8. CASE UNCHANGED instVars
    <2>1. BootIsAlone'
      BY <1>8 DEF instVars, InstInv, BootIsAlone
    <2>2. ASSUME NEW i \in Instances PROVE InstOk(i)'
      <3>1. InstOk(i) /\ UNCHANGED <<inst, proc, raced, halfDone>>
        BY <1>8 DEF instVars, InstInv
      <3>2. \A p \in Procs : Starting(p, i)' <=> Starting(p, i)
        BY <3>1 DEF Starting
      <3>3. WorkedOnAlone(i)'
        BY <3>1 DEF InstOk, WorkedOnAlone
      <3>4. ObjectsCounted(i)'
        BY <3>1, <3>2 DEF InstOk, ObjectsCounted, Objects, One
      <3>5. SubscriptionsOnTheWay(i)'
        BY <3>1, <3>2 DEF InstOk, SubscriptionsOnTheWay
      <3> QED
        BY <3>3, <3>4, <3>5 DEF InstOk
    <2> QED
      BY <2>1, <2>2 DEF InstInv
  <1> QED
    BY <1>1, <1>2, <1>3, <1>4, <1>5, <1>6, <1>7, <1>8, EventStepFrame
    DEF Next, EventStep, LoopStep, ReviveStep, vars

\* Types and the invariant of the instances hold throughout.
LEMMA InstInvHolds == Spec => [](RoutingTypes /\ InstInv)
  <1>1. RoutingTypes /\ InstInv /\ [Next]_vars => InstInv'
    BY InstInvStep DEF RoutingTypes
  <1> QED
    BY RoutingTypesHold, InitialInstInv, <1>1, PTL DEF Spec

\* Values have their types, a worker handles events only beside a queue, and
\* there is a queue only while the app runs (route_event, stop_instance_worker).
THEOREM RoutingTyped == Spec => []TypeOK
  <1>1. ASSUME RoutingTypes, InstInv PROVE TypeOK
    <2>1. ASSUME NEW h \in Hubs
          PROVE  /\ \A k \in DOMAIN feed[h] : feed[h][k] \in Frames
                 /\ route[h].pc \in {"recv", "lookup", "route"}
                 /\ route[h].frame \in Frames \cup {NoFrame}
                 /\ route[h].pc \in {"lookup", "route"} => route[h].frame # NoFrame
      <3>1. feed[h] \in Seq(Frames) /\ route[h] \in RouteRecords
            /\ (route[h].pc # "recv" => route[h].frame \in Frames)
        BY <1>1 DEF RoutingTypes, FeedTypes
      <3>2. NoFrame \notin Frames
        BY DEF NoFrame, Frames
      <3> QED
        BY <3>1, <3>2 DEF RouteRecords
    <2>2. ASSUME NEW i \in Instances
          PROVE  /\ inst[i].row.there \in BOOLEAN /\ inst[i].row.sel \in Selections \cup {{}}
                 /\ inst[i].subs \subseteq Devices
                 /\ inst[i].running \in BOOLEAN /\ inst[i].grace \in BOOLEAN
                 /\ inst[i].live \in Nat
                 /\ inst[i].running => inst[i].live > 0
      <3>1. inst[i] \in InstRecords /\ ObjectsCounted(i)
        BY <1>1 DEF RoutingTypes, InstTypes, InstInv, InstOk
      <3>2. inst[i].row \in RowRecords /\ inst[i].live \in Int
        BY <3>1 DEF InstRecords, Counts
      <3>3. inst[i].live \in Nat /\ (inst[i].running => inst[i].live > 0)
        BY <3>1, <3>2 DEF ObjectsCounted, Objects, One
      <3>4. inst[i].subs \in Subsets /\ inst[i].running \in BOOLEAN /\ inst[i].grace \in BOOLEAN
        BY <3>1 DEF InstRecords
      <3>5. inst[i].row.there \in BOOLEAN /\ inst[i].row.sel \in Choices
        BY <3>2 DEF RowRecords
      <3> QED
        BY <3>3, <3>4, <3>5 DEF Subsets, Choices
    <2>3. ASSUME NEW i \in Instances
          PROVE  /\ queue[i] = NoQueue \/ \A k \in DOMAIN queue[i] : queue[i][k] \in Events
                 /\ worker[i] \in Events \cup {NoEvent}
                 /\ worker[i] # NoEvent => queue[i] # NoQueue
                 /\ queue[i] # NoQueue => inst[i].running
      BY <1>1 DEF RoutingTypes, WorkTypes
    <2>4. \A p \in Procs : proc[p].pc \in PCs
      BY <1>1 DEF RoutingTypes, InstTypes, Operations, ProcRecords
    <2> QED
      BY <1>1, <2>1, <2>2, <2>3, <2>4 DEF TypeOK, RoutingTypes, FeedTypes, Steps
  <1> QED
    BY InstInvHolds, <1>1, PTL

\* An instance has at most one app object that was initialized and not shut
\* down, unless the revival job worked on it together with a request
\* (_start_instance, stop_instance, revive_dead_instances).
THEOREM OneObjectEach == Spec => []OneObject
  <1>1. ASSUME InstTypes, InstInv PROVE OneObject
    BY <1>1 DEF OneObject, InstInv, InstOk, ObjectsCounted, WorkedOnAlone, Objects, One,
                Starting, Procs, InstTypes, InstRecords, Counts
  <1> QED
    BY InstInvHolds, <1>1, PTL DEF RoutingTypes

\* Between operations a running instance is subscribed to the devices of its
\* row, unless a database call of its last operation failed or the revival job
\* worked on it together with a request (_rebuild_subscriptions,
\* update_instance).
THEOREM SubscriptionsInStep == Spec => []SubscriptionsFollowRow
  <1>1. ASSUME InstInv PROVE SubscriptionsFollowRow
    BY <1>1 DEF SubscriptionsFollowRow, InstInv, InstOk, WorkedOnAlone, SubscriptionsOnTheWay
  <1> QED
    BY InstInvHolds, <1>1, PTL

-----------------------------------------------------------------------------
(* The events an instance is handed. *)

\* No step makes a frame go on without an answer.
LEMMA AnsweredStep == FeedTypes /\ Answered /\ [Next]_vars => Answered'
  <1> SUFFICES ASSUME FeedTypes, Answered, [Next]_vars PROVE Answered'
    OBVIOUS
  <1>1. ASSUME NEW h \in Hubs, Receive(h) PROVE Answered'
    <2> DEFINE d == Head(feed[h]).dev
    <2>1. Head(feed[h]) \in Frames
      BY <1>1 DEF Receive, FeedTypes
    <2>2. label[d] \in {"unknown", "row", "none"}
      BY <2>1 DEF Frames, FeedTypes
    <2>3. /\ \A g \in Hubs \ {h} : route'[g] = route[g]
          /\ route'[h].pc = IF label[d] = "unknown" THEN "lookup" ELSE "route"
          /\ route'[h].row = label[d]
      BY <1>1 DEF Receive, FeedTypes
    <2> QED
      BY <2>2, <2>3 DEF Answered
  <1>2. ASSUME NEW h \in Hubs, Lookup(h) PROVE Answered'
    <2>1. route[h] \in RouteRecords
      BY DEF FeedTypes
    <2>2. ASSUME NEW r \in {"row", "none"}, route' = [route EXCEPT ![h].pc = "route", ![h].row = r]
          PROVE  route'[h].row = r /\ \A g \in Hubs \ {h} : route'[g] = route[g]
      BY <2>1, <2>2 DEF FeedTypes, RouteRecords
    <2> QED
      BY <1>2, <2>2 DEF Lookup, Answered
  <1>3. ASSUME NEW h \in Hubs, Route(h) PROVE Answered'
    BY <1>3 DEF Route, Answered, FeedTypes, Idle
  <1>4. CASE Restart
    BY <1>4 DEF Restart, Answered, Idle
  <1>5. CASE UNCHANGED route
    BY <1>5 DEF Answered
  <1>6. ASSUME \/ InvalidateLabels \/ \E d \in Devices : DeviceChanges(d)
               \/ \E h \in Hubs : Disconnect(h)
               \/ \E i \in Instances : WorkerStep(i)
        PROVE  UNCHANGED route
    BY <1>6 DEF InvalidateLabels, DeviceChanges, Disconnect, WorkerStep, Take, Handled, feedVars
  <1> QED
    BY <1>1, <1>2, <1>3, <1>4, <1>5, <1>6, OperationFrame
    DEF Next, SocketStep, vars, feedVars

\* What is accepted is genuine.
LEMMA AcceptedIsGenuine ==
  ASSUME RoutingTypes, Answered, NEW h \in Hubs, Route(h),
         Subscribed(EventOf(h).as) # {}
  PROVE  EventOf(h) \in Events /\ Genuine(EventOf(h))
  <1> DEFINE e == EventOf(h)
  <1>1. PICK i \in Instances : e.as \in inst[i].subs
    BY DEF Subscribed
  <1>2. e.as \in Devices
    BY <1>1 DEF RoutingTypes, InstTypes, InstRecords, Subsets
  <1>3. route[h].frame \in Frames
    BY DEF Route, RoutingTypes, FeedTypes
  <1>4. /\ route[h].row \in {"row", "none"}
        /\ route[h].row = "none" => route[h].frame.dev \in Missed
    BY DEF Route, Answered, Missed
  <1>5. e.hub = h /\ e.dev = route[h].frame.dev /\ e.as = Resolved(h)
    BY DEF EventOf
  <1>6. EventOf(h) \in Events
    BY <1>2, <1>3 DEF EventOf, Events, Frames
  <1>7. Genuine(e)
    BY <1>2, <1>4, <1>5, DeviceAssumption DEF Genuine, Resolved
  <1> QED
    BY <1>6, <1>7

\* What an instance holds: the events of its queue and the one at its worker.
Held(i) == Pending(i) \cup ({worker[i]} \ {NoEvent})

\* An instance gets nothing new but what is routed.
LEMMA OnlyRouted ==
  ASSUME RoutingTypes, [Next]_vars, \A h \in Hubs : ~Route(h), NEW i \in Instances
  PROVE  Held(i)' \subseteq Held(i)
  <1> USE NoneApart
  <1>1. CASE UNCHANGED workVars
    BY <1>1 DEF workVars, Held, Pending
  <1>2. ASSUME NEW j \in Instances, WorkerStep(j) PROVE Held(i)' \subseteq Held(i)
    <2>1. CASE Take(j)
      <3>1. queue[j] \in Seq(Events) /\ queue[j] # <<>> /\ queue[j] # NoQueue
        BY <2>1 DEF Take, RoutingTypes, WorkTypes
      <3>2. /\ worker' = [worker EXCEPT ![j] = Head(queue[j])]
            /\ queue' = [queue EXCEPT ![j] = Tail(@)]
        BY <2>1 DEF Take
      <3>3. \A k \in DOMAIN Tail(queue[j]) : Tail(queue[j])[k] \in Pending(j)
        BY <3>1 DEF Pending
      <3>4. Head(queue[j]) \in Pending(j)
        BY <3>1 DEF Pending
      <3>5. i # j => queue'[i] = queue[i] /\ worker'[i] = worker[i]
        BY <3>2 DEF RoutingTypes, WorkTypes
      <3>6. queue'[j] = Tail(queue[j]) /\ worker'[j] = Head(queue[j])
        BY <3>2 DEF RoutingTypes, WorkTypes
      <3>7. Pending(j)' \subseteq Pending(j)
        BY <3>3, <3>6 DEF Pending
      <3> QED
        BY <3>4, <3>5, <3>6, <3>7 DEF Held, Pending
    <2>2. CASE Handled(j)
      BY <2>2 DEF Handled, Held, Pending, RoutingTypes, WorkTypes
    <2> QED
      BY <1>2, <2>1, <2>2 DEF WorkerStep
  <1>3. ASSUME NEW j \in Instances, StopNow(j) PROVE Held(i)' \subseteq Held(i)
    <2>1. CASE DropWorker(j)
      <3>1. /\ queue'[j] = NoQueue /\ worker'[j] = NoEvent
            /\ i # j => queue'[i] = queue[i] /\ worker'[i] = worker[i]
        BY <2>1 DEF DropWorker, RoutingTypes, WorkTypes
      <3>2. CASE i = j
        BY <3>1, <3>2 DEF Held, Pending
      <3>3. CASE i # j
        BY <3>1, <3>3 DEF Held, Pending
      <3> QED
        BY <3>2, <3>3
    <2> QED
      BY <1>1, <1>3, <2>1 DEF StopNow
  <1>4. ASSUME NEW j \in Instances, UserStep(j) PROVE Held(i)' \subseteq Held(i)
    <2>1. RunRequest(j) \/ (\E sel \in Selections : CreateRequest(j, sel)) => UNCHANGED workVars
      BY DEF RunRequest, CreateRequest
    <2> QED
      BY <1>1, <1>3, <1>4, <2>1 DEF UserStep, StopRequest, StartRequest, UpdateRequest,
         DeleteRequest, ReloadRequest
  <1>5. CASE Restart
    BY <1>5 DEF Restart, Held, Pending
  <1>6. ASSUME \/ \E d \in Devices : DeviceChanges(d)
               \/ \E h \in Hubs : Disconnect(h) \/ Receive(h) \/ Lookup(h)
               \/ InvalidateLabels \/ UNCHANGED vars
        PROVE  UNCHANGED workVars
    BY <1>6 DEF DeviceChanges, Disconnect, Receive, Lookup, InvalidateLabels, vars
  <1>7. LoopStep \/ ReviveStep \/ (\E j \in Instances : GraceExpires(j)) => UNCHANGED workVars
    BY OperationKeepsWork DEF RoutingTypes
  <1> QED
    BY <1>1, <1>2, <1>4, <1>5, <1>6, <1>7 DEF Next, SocketStep

\* What is routed is one event, for subscribed instances.
LEMMA RoutedIsNew ==
  ASSUME RoutingTypes, NEW h \in Hubs, Route(h), NEW i \in Instances, NEW x \in Held(i)' \ Held(i)
  PROVE  x = EventOf(h) /\ Subscribed(EventOf(h).as) # {}
  <1> DEFINE e == EventOf(h)
             to == {j \in Subscribed(e.as) : inst[j].running}
  <1>1. UNCHANGED worker
    BY DEF Route
  <1>2. queue'[i] # queue[i]
    BY <1>1 DEF Held, Pending
  <1>3. to # {} /\ Enqueue(to, e)
    BY <1>2 DEF Route
  <1> HIDE DEF e
  <1>4. queue[i] \in Seq(Events) \cup {NoQueue}
    BY DEF RoutingTypes, WorkTypes
  <1>5. \/ queue[i] = NoQueue /\ queue'[i] = <<e>>
        \/ queue[i] # NoQueue /\ queue'[i] = Append(queue[i], e)
    BY <1>2, <1>3 DEF Enqueue
  <1>6. \A k \in DOMAIN queue'[i] : queue'[i][k] # e =>
           queue[i] # NoQueue /\ k \in DOMAIN queue[i] /\ queue'[i][k] = queue[i][k]
    BY <1>4, <1>5
  <1>7. x = e
    BY <1>1, <1>6 DEF Held, Pending
  <1> QED
    BY <1>3, <1>7 DEF e

\* An instance is handed events of a device under the id of that device, from
\* the hub the device is paired with, unless the label of the device was looked
\* up in vain (route_event, _lookup_canonical_by_label, invalidate_device_cache).
THEOREM EventsAreGenuine == Spec => EventsKeepTheirDevice
  <1>1. Init => Answered
    BY DEF Init, Answered, Idle
  <1>2. RoutingTypes /\ Answered /\ [Next]_vars => Answered'
    BY AnsweredStep DEF RoutingTypes
  <1>3. ASSUME RoutingTypes, Answered, [Next]_vars
        PROVE  [\A e \in Underway' \ Underway :
                  e.dev \notin Missed => e.as = e.dev /\ e.hub = Owner[e.dev]]_vars
    <2> SUFFICES ASSUME NEW e \in Underway' \ Underway PROVE Genuine(e)
      BY DEF Genuine
    <2>1. PICK i \in Instances : e \in Held(i)' \ Held(i)
      BY DEF Underway, Held
    <2>2. PICK h \in Hubs : Route(h)
      BY <1>3, <2>1, OnlyRouted
    <2> QED
      BY <1>3, <2>1, <2>2, RoutedIsNew, AcceptedIsGenuine
  <1> QED
    BY RoutingTypesHold, <1>1, <1>2, <1>3, PTL DEF Spec, EventsKeepTheirDevice

-----------------------------------------------------------------------------
(* The router implements the event bus. *)

\* Every step keeps what is queued and handled in the order of the frames.
LEMMA FramesInOrderStep == FeedTypes /\ FramesInOrder /\ [Next]_vars => FramesInOrder'
  <1> SUFFICES ASSUME FeedTypes, FramesInOrder, [Next]_vars PROVE FramesInOrder'
    OBVIOUS
  <1>0. /\ count.changes \in Int
        /\ \A h \in Hubs : /\ last[h] \in Int /\ feed[h] \in Seq(Frames)
                           /\ route[h].pc # "recv" => route[h].frame.n \in Int
        /\ \A f \in Frames : f.n \in Int
    <2>1. count.changes \in Int /\ \A h \in Hubs : last[h] \in Int
      BY BoundAssumption DEF FeedTypes, CountRecords, Steps
    <2>2. \A f \in Frames : f.n \in Int
      BY DEF Frames
    <2>3. \A h \in Hubs : route[h].pc # "recv" => route[h].frame \in Frames
      BY DEF FeedTypes
    <2>4. \A h \in Hubs : feed[h] \in Seq(Frames)
      BY DEF FeedTypes
    <2> QED
      BY <2>1, <2>2, <2>3, <2>4
  <1>1. ASSUME NEW d \in Devices, DeviceChanges(d) PROVE FramesInOrder'
    <2> DEFINE n == count.changes + 1
               f == [dev |-> d, n |-> n]
    <2>1. count'.changes = n /\ UNCHANGED <<route, last>>
      BY <1>1 DEF DeviceChanges, FeedTypes, CountRecords
    <2>2. f \in Frames /\ f.n = n
      BY <1>1, <1>0 DEF DeviceChanges, FeedTypes, CountRecords, Steps, Frames
    <2>3. ASSUME NEW h \in Hubs PROVE InOrder(h)'
      <3> HIDE DEF f
      <3>1. feed'[h] = Append(feed[h], f) \/ feed'[h] = feed[h]
        BY <1>1 DEF DeviceChanges, f
      <3>2. InOrder(h)
        BY DEF FramesInOrder
      <3>3. CASE feed'[h] = feed[h]
        BY <1>0, <2>1, <3>2, <3>3 DEF InOrder
      <3>4. CASE feed'[h] = Append(feed[h], f)
        <4>1. \A k \in DOMAIN feed'[h] :
                 \/ k \in DOMAIN feed[h] /\ feed'[h][k] = feed[h][k] /\ k < Len(feed[h]) + 1
                 \/ k = Len(feed[h]) + 1 /\ feed'[h][k] = f
          <5>1. feed[h] \in Seq(Frames)
            BY DEF FeedTypes
          <5> QED
            BY <2>2, <3>4, <5>1
        <4>2. /\ last[h] <= count.changes /\ last[h] \in Int
              /\ \A k \in DOMAIN feed[h] : /\ feed[h][k].n \in Int /\ k \in Int
                                           /\ last[h] < feed[h][k].n /\ feed[h][k].n <= count.changes
          BY <1>0, <3>2 DEF InOrder
        <4>3. \A k \in DOMAIN feed'[h] : last[h] < feed'[h][k].n /\ feed'[h][k].n <= n
          BY <1>0, <2>2, <4>1, <4>2
        <4>4. ASSUME NEW j \in DOMAIN feed'[h], NEW k \in DOMAIN feed'[h], j < k
              PROVE  feed'[h][j].n < feed'[h][k].n
          <5>1. j \in DOMAIN feed[h] /\ feed'[h][j] = feed[h][j]
            <6>1. Len(feed[h]) \in Nat
              BY <1>0
            <6> QED
              BY <4>1, <4>2, <4>4, <6>1
          <5> QED
            BY <1>0, <2>2, <3>2, <4>1, <4>2, <4>4, <5>1 DEF InOrder
        <4>5. route[h].pc # "recv" => /\ route[h].frame.n <= n
                                      /\ \A k \in DOMAIN feed'[h] : route[h].frame.n < feed'[h][k].n
          BY <1>0, <2>2, <3>2, <4>1, <4>2 DEF InOrder
        <4> QED
          BY <1>0, <2>1, <3>2, <4>2, <4>3, <4>4, <4>5 DEF InOrder
      <3> QED
        BY <3>1, <3>3, <3>4
    <2> QED
      BY <2>3 DEF FramesInOrder
  <1>2. ASSUME NEW h \in Hubs, Disconnect(h) PROVE FramesInOrder'
    <2>1. count'.changes = count.changes /\ UNCHANGED <<route, last>>
      BY <1>2 DEF Disconnect, Fails, FeedTypes, CountRecords
    <2>2. feed'[h] = <<>> /\ \A g \in Hubs \ {h} : feed'[g] = feed[g]
      BY <1>2 DEF Disconnect, FeedTypes
    <2> QED
      BY <2>1, <2>2 DEF FramesInOrder, InOrder
  <1>3. ASSUME NEW h \in Hubs, Receive(h) PROVE FramesInOrder'
    <2>1. feed[h] \in Seq(Frames) /\ feed[h] # <<>> /\ UNCHANGED <<count, last>>
      BY <1>3 DEF Receive, FeedTypes
    <2>2. /\ feed'[h] = Tail(feed[h])
          /\ route'[h].frame = Head(feed[h]) /\ route'[h].pc # "recv"
          /\ \A g \in Hubs \ {h} : feed'[g] = feed[g] /\ route'[g] = route[g]
      BY <1>3 DEF Receive, FeedTypes
    <2>3. InOrder(h)
      BY DEF FramesInOrder
    <2>4. /\ Head(feed[h]) = feed[h][1] /\ 1 \in DOMAIN feed[h]
          /\ \A k \in DOMAIN Tail(feed[h]) : /\ k + 1 \in DOMAIN feed[h] /\ 1 < k + 1 /\ k \in Int
                                             /\ Tail(feed[h])[k] = feed[h][k + 1]
      BY <2>1
    <2>5. InOrder(h)'
      <3>1. \A k \in DOMAIN feed[h] : last[h] < feed[h][k].n /\ feed[h][k].n <= count.changes
        BY <2>3 DEF InOrder
      <3>2. \A j, k \in DOMAIN feed[h] : j < k => feed[h][j].n < feed[h][k].n
        BY <2>3 DEF InOrder
      <3>3. last[h] <= count.changes
        BY <2>3 DEF InOrder
      <3>4. \A j, k \in DOMAIN Tail(feed[h]) : j < k => Tail(feed[h])[j].n < Tail(feed[h])[k].n
        BY <2>4, <3>2
      <3> QED
        BY <2>1, <2>2, <2>4, <3>1, <3>2, <3>3, <3>4 DEF InOrder
    <2> QED
      BY <2>1, <2>2, <2>5 DEF FramesInOrder, InOrder
  <1>4. ASSUME NEW h \in Hubs, Lookup(h) PROVE FramesInOrder'
    <2>1. count'.changes = count.changes /\ UNCHANGED <<feed, last>> /\ route[h].pc # "recv"
      BY <1>4 DEF Lookup, Fails, FeedTypes, CountRecords
    <2>2. route[h] \in RouteRecords
      BY DEF FeedTypes
    <2>3. route'[h].frame = route[h].frame /\ \A g \in Hubs \ {h} : route'[g] = route[g]
      BY <1>4, <2>2 DEF Lookup, FeedTypes, RouteRecords
    <2> QED
      BY <2>1, <2>3 DEF FramesInOrder, InOrder
  <1>5. ASSUME NEW h \in Hubs, Route(h) PROVE FramesInOrder'
    <2>1. count'.changes = count.changes /\ UNCHANGED feed /\ route[h].pc # "recv"
      BY <1>5 DEF Route, Fails, FeedTypes, CountRecords
    <2>2. route'[h].pc = "recv" /\ \A g \in Hubs \ {h} : route'[g] = route[g]
      BY <1>5 DEF Route, Idle, FeedTypes
    <2>3. last'[h] \in {last[h], route[h].frame.n} /\ \A g \in Hubs \ {h} : last'[g] = last[g]
      BY <1>5 DEF Route, EventOf, FeedTypes
    <2> QED
      BY <1>0, <2>1, <2>2, <2>3 DEF FramesInOrder, InOrder
  <1>6. CASE Restart
    <2>1. count'.changes = count.changes /\ UNCHANGED last
      BY <1>6 DEF Restart, FeedTypes, CountRecords
    <2>2. \A h \in Hubs : feed'[h] = <<>> /\ route'[h].pc = "recv"
      BY <1>6 DEF Restart, Idle
    <2> QED
      BY <2>1, <2>2 DEF FramesInOrder, InOrder
  <1>7. CASE UNCHANGED <<feed, route, last>> /\ count'.changes = count.changes
    BY <1>7 DEF FramesInOrder, InOrder
  <1>8. count' \in {count, [count EXCEPT !.faults = @ + 1], [count EXCEPT !.ops = @ + 1]}
           => count'.changes = count.changes
    BY DEF FeedTypes, CountRecords
  <1>9. ASSUME NEW i \in Instances, UserStep(i) \/ GraceExpires(i) \/ WorkerStep(i) \/ Revive(i)
        PROVE  count' \in {count, [count EXCEPT !.ops = @ + 1]}
    BY <1>9 DEF UserStep, StopRequest, StartRequest, UpdateRequest, DeleteRequest, ReloadRequest,
                RunRequest, CreateRequest, UserOp, GraceExpires, WorkerStep, Take, Handled, Revive
  <1>10. ASSUME \/ \E p \in Procs : ProcStep(p)
                \/ Patch \/ Remove \/ BootNext
         PROVE  count' \in {count, [count EXCEPT !.faults = @ + 1]}
    BY <1>10 DEF ProcStep, Unsubscribe, Reread, Subscribe, Fetch, Initialize, Register, Patch,
                 Remove, BootNext, Fails
  <1>11. ASSUME InvalidateLabels \/ \E i \in Instances : WorkerStep(i)
         PROVE  /\ UNCHANGED <<feed, route, last>>
                /\ count' \in {count, [count EXCEPT !.ops = @ + 1]}
    BY <1>11 DEF InvalidateLabels, WorkerStep, Take, Handled, feedVars
  <1> QED
    BY <1>1, <1>2, <1>3, <1>4, <1>5, <1>6, <1>7, <1>8, <1>9, <1>10, <1>11, OperationFrame
    DEF Next, SocketStep, LoopStep, ReviveStep, Procs, vars, feedVars

\* Types and the order of frames hold throughout.
LEMMA FramesInOrderHold == Spec => [](RoutingTypes /\ FramesInOrder)
  <1>1. Init => FramesInOrder
    BY DEF Init, FramesInOrder, InOrder, Idle
  <1>2. RoutingTypes /\ FramesInOrder /\ [Next]_vars => FramesInOrder'
    BY FramesInOrderStep DEF RoutingTypes
  <1> QED
    BY RoutingTypesHold, <1>1, <1>2, PTL DEF Spec

\* What the bus sees of the queues.
Pends == [i \in Instances |-> IF queue[i] = NoQueue THEN <<>> ELSE queue[i]]

\* Every step of the router is a step of the bus, or leaves it alone.
LEMMA BusStep ==
  ASSUME RoutingTypes, RoutingTypes', FramesInOrder, [Next]_vars
  PROVE  [Bus!Next]_(Bus!busVars)
  <1> USE NoneApart
  <1>0. /\ queue \in [Instances -> Seq(Events) \cup {NoQueue}]
        /\ worker \in [Instances -> Events \cup {NoEvent}]
        /\ \A i \in Instances : worker[i] # NoEvent => queue[i] # NoQueue
    BY DEF RoutingTypes, WorkTypes
  <1>1. CASE UNCHANGED <<queue, worker, last>>
    BY <1>1 DEF Bus!busVars
  <1>2. ASSUME NEW h \in Hubs, Route(h) PROVE [Bus!Next]_(Bus!busVars)
    <2>0. PICK e, to : e = EventOf(h) /\ to = {i \in Subscribed(e.as) : inst[i].running}
      OBVIOUS
    <2>1. CASE to # {} /\ Enqueue(to, e) /\ last' = [last EXCEPT ![h] = e.n]
      <3>1. e \in Events
        <4>1. PICK i \in Instances : e.as \in inst[i].subs
          BY <2>0, <2>1 DEF Subscribed
        <4>2. e.as \in Devices
          BY <4>1 DEF RoutingTypes, InstTypes, InstRecords, Subsets
        <4>3. route[h].frame \in Frames
          BY <1>2 DEF Route, RoutingTypes, FeedTypes
        <4> QED
          BY <2>0, <4>2, <4>3 DEF EventOf, Events, Frames
      <3>2. e.hub = h /\ e.n > last[h]
        <4>1. e.hub = h /\ e.n = route[h].frame.n
          BY <2>0 DEF EventOf
        <4>2. last[h] < route[h].frame.n
          BY <1>2 DEF Route, FramesInOrder, InOrder
        <4> QED
          BY <4>1, <4>2
      <3>3. to \in SUBSET Instances
        BY <2>0 DEF Subscribed
      <3>4. UNCHANGED worker
        BY <1>2 DEF Route
      <3>5. ASSUME NEW i \in Instances
            PROVE  Pends'[i] = IF i \in to THEN Append(Pends[i], e) ELSE Pends[i]
        <4>1. queue'[i] = IF i \notin to THEN queue[i]
                          ELSE IF queue[i] = NoQueue THEN <<e>> ELSE Append(queue[i], e)
          BY <2>1 DEF Enqueue
        <4>2. queue[i] \in Seq(Events) => Append(queue[i], e) \in Seq(Events)
          BY <3>1
        <4>3. <<e>> # NoQueue /\ Append(<<>>, e) = <<e>>
          BY <3>1 DEF NoQueue
        <4> QED
          BY <1>0, <4>1, <4>2, <4>3 DEF Pends
      <3>6. Pends' = [i \in Instances |-> IF i \in to THEN Append(Pends[i], e) ELSE Pends[i]]
        BY <3>5 DEF Pends
      <3>7. Bus!Accept(e, to)
        <4>1. last' = [last EXCEPT ![e.hub] = e.n]
          BY <2>1, <3>2
        <4> QED
          BY <3>2, <3>4, <3>6, <4>1 DEF Bus!Accept, Pends
      <3> QED
        BY <3>1, <3>3, <3>7 DEF Bus!Next
    <2>2. CASE UNCHANGED <<queue, last>>
      BY <1>1, <1>2, <2>2 DEF Route
    <2>3. \/ to # {} /\ Enqueue(to, e) /\ last' = [last EXCEPT ![h] = e.n]
          \/ UNCHANGED <<queue, last>>
      BY <1>2, <2>0 DEF Route
    <2> QED
      BY <2>1, <2>2, <2>3
  <1>3. ASSUME NEW i \in Instances, Take(i) PROVE Bus!Begin(i)
    <2>1. /\ queue[i] \in Seq(Events) /\ queue[i] # <<>> /\ worker[i] = NoEvent
          /\ queue' = [queue EXCEPT ![i] = Tail(@)]
          /\ worker' = [worker EXCEPT ![i] = Head(queue[i])]
          /\ UNCHANGED last
      BY <1>0, <1>3 DEF Take, feedVars
    <2>2. Tail(queue[i]) # NoQueue
      BY <2>1
    <2>3. Pends[i] = queue[i]
      BY <2>1 DEF Pends
    <2>4. \A j \in Instances : Pends'[j] = IF j = i THEN Tail(Pends[i]) ELSE Pends[j]
      BY <1>0, <2>1, <2>2, <2>3 DEF Pends
    <2>5. Pends' = [Pends EXCEPT ![i] = Tail(@)]
      BY <2>4 DEF Pends
    <2> QED
      BY <2>1, <2>3, <2>5 DEF Bus!Begin, Pends
  <1>4. ASSUME NEW i \in Instances, Handled(i) PROVE Bus!Finish(i)
    BY <1>4 DEF Handled, feedVars, Bus!Finish
  <1>5. ASSUME NEW i \in Instances, StopNow(i), UNCHANGED last PROVE Bus!Stop(i) \/ UNCHANGED Bus!busVars
    <2>1. CASE inst[i].running
      <3>1. DropWorker(i)
        BY <1>5, <2>1 DEF StopNow
      <3>2. \A j \in Instances : Pends'[j] = IF j = i THEN <<>> ELSE Pends[j]
        BY <1>0, <3>1 DEF DropWorker, Pends
      <3>3. Pends' = [Pends EXCEPT ![i] = <<>>]
        BY <3>2 DEF Pends
      <3> QED
        BY <1>5, <3>1, <3>3 DEF DropWorker, Bus!Stop, Pends
    <2>2. CASE ~inst[i].running
      BY <1>5, <2>2 DEF StopNow, workVars, Bus!busVars
    <2> QED
      BY <2>1, <2>2
  <1>6. ASSUME NEW i \in Instances, UserStep(i) PROVE [Bus!Next]_(Bus!busVars)
    <2>1. UNCHANGED last
      BY <1>6, OperationFrame DEF feedVars
    <2>2. RunRequest(i) \/ (\E sel \in Selections : CreateRequest(i, sel)) => UNCHANGED workVars
      BY DEF RunRequest, CreateRequest
    <2>3. StopNow(i) \/ UNCHANGED workVars
      BY <1>6, <2>2 DEF UserStep, StopRequest, StartRequest, UpdateRequest, DeleteRequest, ReloadRequest
    <2> QED
      BY <1>1, <1>5, <2>1, <2>3 DEF workVars, Bus!Next
  <1>7. CASE Restart
    <2>1. \A i \in Instances : Pends'[i] = <<>>
      BY <1>7 DEF Restart, Pends
    <2>2. Pends' = [i \in Instances |-> <<>>]
      BY <2>1 DEF Pends
    <2> QED
      BY <1>7, <2>2 DEF Restart, Bus!Crash, Bus!Next, Pends
  <1>8. ASSUME \/ \E d \in Devices : DeviceChanges(d)
               \/ \E h \in Hubs : Disconnect(h) \/ Receive(h) \/ Lookup(h)
               \/ InvalidateLabels \/ UNCHANGED vars
        PROVE  UNCHANGED <<queue, worker, last>>
    BY <1>8 DEF DeviceChanges, Disconnect, Receive, Lookup, InvalidateLabels, vars, feedVars, workVars
  <1>9. LoopStep \/ ReviveStep \/ (\E i \in Instances : GraceExpires(i)) => UNCHANGED <<queue, worker, last>>
    BY OperationKeepsWork, OperationFrame DEF RoutingTypes, feedVars, workVars
  <1> QED
    BY <1>1, <1>2, <1>3, <1>4, <1>6, <1>7, <1>8, <1>9 DEF Next, SocketStep, WorkerStep, Bus!Next

\* The router implements the event bus: events are accepted in the order of
\* their feed and handed over in that order, once, one at a time (route_event,
\* _get_or_create_queue, the worker tasks, stop_instance_worker).
THEOREM RouterImplementsBus == Spec => DeliversInOrder
  <1>1. Init => Bus!Init
    <2> SUFFICES ASSUME Init PROVE Bus!Init
      OBVIOUS
    <2>1. \A i \in Instances : Pends[i] = <<>>
      BY DEF Init, Pends
    <2>2. Pends = [i \in Instances |-> <<>>]
      BY <2>1 DEF Pends
    <2> QED
      BY <2>2 DEF Init, Bus!Init, Pends
  <1>2. RoutingTypes /\ RoutingTypes' /\ FramesInOrder /\ [Next]_vars => [Bus!Next]_(Bus!busVars)
    BY BusStep
  <1> QED
    BY FramesInOrderHold, <1>1, <1>2, PTL DEF Spec, DeliversInOrder, Bus!Spec
=============================================================================

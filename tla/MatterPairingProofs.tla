------------------------ MODULE MatterPairingProofs ------------------------
(***************************************************************************)
(* Proofs about MatterPairing for any number of requests, features and     *)
(* devices and any durations: the lease covers every run that holds the    *)
(* lock, and the features behind the lock open one window at a time.       *)
(***************************************************************************)
EXTENDS MatterPairing, FiniteSetTheorems, TLAPS

\* Types of the fields, which the steps keep folded.
Times == Nat
Queues == Seq(Devices)
MacSets == SUBSET Macs
LockRecords == [held : BOOLEAN, holder : Holders, expires : Times]
RunRecords == [phase : Phases, queue : Queues, seen : MacSets, fails : Times, since : Times]
PairingTypes == /\ lock \in LockRecords
                /\ running \in BOOLEAN
                /\ run \in [Requests -> RunRecords]
                /\ \A r \in Requests : run[r].phase = "pairing" => run[r].queue # <<>>
                /\ other \in [Others -> Times]
                /\ single \subseteq Singles
                /\ orphan \in Times /\ left \in Times /\ now \in Times

\* The longest a run takes over n devices.
Span(n) == n * (Ceiling + Settle)

\* The row is the holder's, and its lease lasts for Headroom beyond time t.
Leased(h, t) == lock.held /\ lock.holder = h /\ t + Headroom <= lock.expires

\* The time a run may need to finish, from its step on, fits into its lease.
RunIsLeased(r) ==
    LET n == Len(run[r].queue)
        since == run[r].since
    IN /\ run[r].phase = "next" => Leased("commission_all", now + Span(n))
       /\ run[r].phase = "pairing" =>
             /\ now <= since + Ceiling
             /\ Leased("commission_all", since + Span(n))
       /\ run[r].phase = "settling" =>
             /\ now <= since + Settle
             /\ Leased("commission_all", since + Settle + Span(n))
       /\ run[r].phase = "releasing" => Leased("commission_all", now)

OtherIsLeased(o) == other[o] # 0 => now <= other[o] /\ Leased(o, other[o])

OneHolder == \A r, s \in Requests : Holds(r) /\ Holds(s) => r = s

\* While an abandoned window may be open nobody works, and the row that the
\* dead holder left still keeps everybody else out.
OrphanIsGuarded ==
    now < orphan => /\ \A r \in Requests : ~Holds(r)
                    /\ \A o \in Others : other[o] = 0
                    /\ lock.held /\ orphan <= lock.expires

PairingInv == /\ \A r \in Requests : RunIsLeased(r)
              /\ \A o \in Others : OtherIsLeased(o)
              /\ OneHolder
              /\ OrphanIsGuarded

-----------------------------------------------------------------------------
(* Types. *)

\* The durations are times, and times can be added.
LEMMA TimeFacts == /\ 0 \in Times /\ Ceiling \in Times /\ Settle \in Times /\ Headroom \in Times
                   /\ OtherWork \in Times /\ WindowLife \in Times
                   /\ \A a, b \in Times : a + b \in Times
  BY DurationAssumption DEF Times

\* Span grows by the ceiling and the pause with every device.
LEMMA SpanFacts == /\ Span(0) = 0
                   /\ \A n \in Nat : Span(n) \in Nat
                   /\ \A n \in Nat : n > 0 => /\ Span(n) = Span(n - 1) + Ceiling + Settle
                                              /\ Span(n - 1) \in Nat /\ Span(n) >= Ceiling
                   /\ \A n \in Nat : Lease(n) = Span(n) + Headroom /\ Lease(n) \in Nat
  BY DurationAssumption DEF Span, Lease

\* What EXCEPT makes of the record of a run.
LEMMA RunUpdates ==
  ASSUME NEW c \in RunRecords
  PROVE  /\ \A p \in Phases : [c EXCEPT !.phase = p] \in RunRecords
         /\ \A p \in Phases, t \in Times : [c EXCEPT !.phase = p, !.since = t] \in RunRecords
         /\ \A q \in Queues : [c EXCEPT !.queue = q] \in RunRecords
         /\ \A p \in Phases, q \in Queues : [c EXCEPT !.phase = p, !.queue = q] \in RunRecords
  BY DEF RunRecords

\* A request before it comes.
LEMMA NoRunType == NoRun \in RunRecords /\ NoRun.phase = "idle"
  BY TimeFacts DEF NoRun, RunRecords, Phases, Queues, MacSets, Macs

\* A run that goes on keeps its types, and its queue while it pairs.
LEMMA RunStepTypes ==
  ASSUME PairingTypes, NEW r \in Requests
  PROVE  /\ \A c \in RunRecords :
               run' = [run EXCEPT ![r] = c] /\ (c.phase = "pairing" => c.queue # <<>>) =>
                  /\ run' \in [Requests -> RunRecords]
                  /\ \A s \in Requests : run'[s].phase = "pairing" => run'[s].queue # <<>>
         /\ \A p \in Phases \ {"pairing"} :
               run' = [run EXCEPT ![r].phase = p] =>
                  /\ run' \in [Requests -> RunRecords]
                  /\ \A s \in Requests : run'[s].phase = "pairing" => run'[s].queue # <<>>
  <1>1. ASSUME NEW c \in RunRecords, run' = [run EXCEPT ![r] = c], c.phase = "pairing" => c.queue # <<>>
        PROVE  /\ run' \in [Requests -> RunRecords]
               /\ \A s \in Requests : run'[s].phase = "pairing" => run'[s].queue # <<>>
    BY <1>1 DEF PairingTypes
  <1>2. ASSUME NEW p \in Phases \ {"pairing"}, run' = [run EXCEPT ![r].phase = p]
        PROVE  /\ run' \in [Requests -> RunRecords]
               /\ \A s \in Requests : run'[s].phase = "pairing" => run'[s].queue # <<>>
    <2>1. [run[r] EXCEPT !.phase = p] \in RunRecords
      BY RunUpdates DEF PairingTypes
    <2>2. [run[r] EXCEPT !.phase = p].phase = p
      BY DEF PairingTypes, RunRecords
    <2>3. run' = [run EXCEPT ![r] = [run[r] EXCEPT !.phase = p]]
      BY <1>2
    <2> QED
      BY <1>1, <2>1, <2>2, <2>3
  <1> QED
    BY <1>1, <1>2

\* Every step keeps the types.
LEMMA TypesStep == PairingTypes /\ [Next]_vars => PairingTypes'
  <1> SUFFICES ASSUME PairingTypes, [Next]_vars PROVE PairingTypes'
    OBVIOUS
  <1> USE TimeFacts, NoRunType
  <1>0. \A h \in Holders, t \in Times : TakeLock(h, t) => lock' \in LockRecords
    BY DEF TakeLock, PairingTypes, LockRecords
  <1>1. \A h : ReleaseLock(h) => lock' \in LockRecords
    BY DEF ReleaseLock, PairingTypes, LockRecords
  <1>2. ASSUME NEW r \in Requests, RequestStep(r) PROVE PairingTypes'
    <2>1. CASE Request(r)
      BY <2>1, RunStepTypes DEF Request, PairingTypes, Phases
    <2>2. CASE Preflight(r)
      <3>1. [NoRun EXCEPT !.phase = "select"] \in RunRecords
        BY RunUpdates DEF Phases
      <3> QED
        BY <2>2, <3>1 DEF Preflight, PairingTypes
    <2>3. CASE Select(r)
      <3>1. ASSUME NEW n \in 1 .. Cardinality(Devices), NEW q \in [1 .. n -> Devices]
            PROVE  [NoRun EXCEPT !.phase = "acquire", !.queue = q] \in RunRecords
        <4>1. q \in Queues
          BY DEF Queues
        <4> QED
          BY <4>1, RunUpdates DEF Phases
      <3>2. run' \in [Requests -> RunRecords]
        BY <2>3, <3>1 DEF Select, PairingTypes
      <3>3. \A s \in Requests : run'[s].phase = "pairing" => run'[s].queue # <<>>
        BY <2>3 DEF Select, PairingTypes, NoRun
      <3> QED
        BY <2>3, <3>2, <3>3 DEF Select, PairingTypes
    <2> QED
      BY <1>2, <2>1, <2>2, <2>3 DEF RequestStep
  <1>3. ASSUME NEW r \in Requests, WorkerStep(r) PROVE PairingTypes'
    <2>0. run[r] \in RunRecords /\ run[r].queue \in Queues /\ run[r].since \in Times
          /\ run[r].fails \in Times /\ run[r].seen \in MacSets
      BY DEF PairingTypes, RunRecords
    <2>1. CASE Acquire(r)
      <3>1. Lease(Len(run[r].queue)) \in Times
        <4>1. Len(run[r].queue) \in Nat
          BY <2>0 DEF Queues
        <4> QED
          BY <4>1, SpanFacts DEF Times
      <3>2. lock' \in LockRecords
        BY <1>0, <2>1, <3>1 DEF Acquire, Holders
      <3> QED
        BY <2>1, <3>2, RunStepTypes DEF Acquire, PairingTypes, Phases
    <2>2. CASE AcquireBusy(r) \/ AcquireFails(r)
      BY <2>2 DEF AcquireBusy, AcquireFails, PairingTypes
    <2>3. CASE OpenWindow(r)
      <3>1. [run[r] EXCEPT !.phase = "pairing", !.since = now] \in RunRecords
        BY <2>0, RunUpdates DEF PairingTypes, Phases
      <3> QED
        BY <2>3, <3>1 DEF OpenWindow, PairingTypes
    <2>4. CASE SkipDuplicate(r)
      <3>1. [run[r] EXCEPT !.queue = Tail(run[r].queue)] \in RunRecords
        <4>1. Tail(run[r].queue) \in Queues
          BY <2>0, <2>4 DEF SkipDuplicate, Queues
        <4> QED
          BY <2>0, <4>1, RunUpdates
      <3> QED
        BY <2>4, <3>1 DEF SkipDuplicate, PairingTypes
    <2>5. CASE AllDone(r) \/ Settled(r)
      BY <2>5, RunStepTypes DEF AllDone, Settled, PairingTypes, Phases
    <2>6. ASSUME DeviceOk(r) \/ DeviceFails(r) PROVE PairingTypes'
      <3> DEFINE q == run[r].queue
      <3>1. Head(q) \in Devices /\ Tail(q) \in Queues
        BY <2>0, <2>6 DEF DeviceOk, DeviceFails, PairingTypes, Queues
      <3>2. run[r].seen \cup {MacOf[Head(q)]} \in MacSets
        BY <2>0, <3>1 DEF MacSets, Macs
      <3>3. run[r].fails + 1 \in Times
        BY <2>0 DEF Times
      <3>4. \A f : AfterDevice(q, f) \in Phases /\ AfterDevice(q, f) # "pairing"
        BY DEF AfterDevice, Phases
      <3>5. ASSUME NEW p \in Phases, p # "pairing", NEW m \in MacSets, NEW f \in Times,
                   run' = [run EXCEPT ![r] = [phase |-> p, queue |-> Tail(q), seen |-> m,
                                              fails |-> f, since |-> now]]
            PROVE  /\ run' \in [Requests -> RunRecords]
                   /\ \A s \in Requests : run'[s].phase = "pairing" => run'[s].queue # <<>>
        <4>1. [phase |-> p, queue |-> Tail(q), seen |-> m, fails |-> f, since |-> now] \in RunRecords
          BY <3>1 DEF RunRecords, PairingTypes
        <4> QED
          BY <3>5, <4>1 DEF PairingTypes
      <3>6. /\ run' \in [Requests -> RunRecords]
            /\ \A s \in Requests : run'[s].phase = "pairing" => run'[s].queue # <<>>
        <4>1. CASE DeviceOk(r)
          BY <2>0, <3>2, <3>4, <3>5, <4>1 DEF DeviceOk
        <4>2. CASE DeviceFails(r)
          BY <2>0, <3>3, <3>4, <3>5, <4>2 DEF DeviceFails
        <4> QED
          BY <2>6, <4>1, <4>2
      <3> QED
        BY <2>0, <2>6, <3>6 DEF DeviceOk, DeviceFails, PairingTypes
    <2>7. CASE Release(r)
      BY <1>1, <2>7 DEF Release, PairingTypes
    <2> QED
      BY <1>3, <2>1, <2>2, <2>3, <2>4, <2>5, <2>6, <2>7 DEF WorkerStep
  <1>4. ASSUME NEW o \in Others, OtherStep(o) PROVE PairingTypes'
    <2>1. CASE OtherAcquires(o)
      <3>1. lock' \in LockRecords
        BY <1>0, <2>1 DEF OtherAcquires, Holders
      <3> QED
        BY <2>1, <3>1 DEF OtherAcquires, PairingTypes
    <2>2. CASE OtherReleases(o)
      BY <1>1, <2>2 DEF OtherReleases, PairingTypes
    <2> QED
      BY <1>4, <2>1, <2>2 DEF OtherStep
  <1>5. ASSUME NEW s \in Singles, SingleStep(s) PROVE PairingTypes'
    BY <1>5 DEF SingleStep, SingleOpens, SingleCloses, PairingTypes
  <1>6. CASE Restart
    BY <1>6 DEF Restart, PairingTypes
  <1>7. CASE Tick
    BY <1>7, 1 \in Times DEF Tick, PairingTypes, Times
  <1>8. CASE UNCHANGED vars
    BY <1>8 DEF vars, PairingTypes
  <1> QED
    BY <1>2, <1>3, <1>4, <1>5, <1>6, <1>7, <1>8 DEF Next

\* The initial states are typed.
LEMMA PairingInit == Init => PairingTypes
  <1>1. [held |-> FALSE, holder |-> "commission_all", expires |-> 0] \in LockRecords
    BY TimeFacts DEF LockRecords, Holders
  <1>2. Init => lock \in LockRecords /\ run \in [Requests -> RunRecords]
    BY <1>1, NoRunType DEF Init
  <1> QED
    BY <1>2, TimeFacts, NoRunType DEF Init, PairingTypes

\* Durations and values have their types throughout.
THEOREM PairingTyped == Spec => []TypeOK
  <1>1. PairingTypes => TypeOK
    BY DEF PairingTypes, TypeOK, LockRecords, RunRecords, Times, Queues, MacSets
  <1> QED
    BY PairingInit, <1>1, TypesStep, PTL DEF Spec

-----------------------------------------------------------------------------
(* The leases. *)

\* Whoever holds the lock owns its row, and its lease has not run out.
LEMMA HoldersAreCovered ==
  ASSUME PairingTypes, PairingInv
  PROVE  /\ \A r \in Requests : Holds(r) => /\ lock.held /\ lock.holder = "commission_all"
                                            /\ now < lock.expires /\ now + Headroom <= lock.expires
         /\ \A o \in Others : other[o] # 0 => /\ lock.held /\ lock.holder = o /\ now < lock.expires
                                              /\ now + Headroom <= lock.expires
  <1>1. now \in Nat /\ lock.expires \in Nat /\ Headroom \in Nat /\ Headroom > 0 /\ Ceiling \in Nat
        /\ Settle \in Nat
    BY DurationAssumption DEF PairingTypes, LockRecords, Times
  <1>2. ASSUME NEW r \in Requests, Holds(r)
        PROVE  lock.held /\ lock.holder = "commission_all" /\ now + Headroom <= lock.expires
    <2>0. PICK n : n = Len(run[r].queue)
      OBVIOUS
    <2>1. RunIsLeased(r)
      BY DEF PairingInv
    <2>2. n \in Nat /\ run[r].since \in Nat /\ (run[r].phase = "pairing" => n > 0)
      <3>1. run[r].queue \in Seq(Devices) /\ run[r].since \in Nat
            /\ (run[r].phase = "pairing" => run[r].queue # <<>>)
        BY DEF PairingTypes, RunRecords, Queues, Times
      <3> QED
        BY <2>0, <3>1
    <2>3. Span(n) \in Nat /\ (run[r].phase = "pairing" => Span(n) >= Ceiling)
      BY <2>2, SpanFacts
    <2>4. CASE run[r].phase = "next"
      BY <1>1, <2>0, <2>1, <2>3, <2>4 DEF RunIsLeased, Leased
    <2>5. CASE run[r].phase = "pairing"
      BY <1>1, <2>0, <2>1, <2>2, <2>3, <2>5 DEF RunIsLeased, Leased
    <2>6. CASE run[r].phase = "settling"
      BY <1>1, <2>0, <2>1, <2>2, <2>3, <2>6 DEF RunIsLeased, Leased
    <2>7. CASE run[r].phase = "releasing"
      BY <2>1, <2>7 DEF RunIsLeased, Leased
    <2> QED
      BY <1>2, <2>4, <2>5, <2>6, <2>7 DEF Holds
  <1>3. ASSUME NEW o \in Others, other[o] # 0
        PROVE  lock.held /\ lock.holder = o /\ now + Headroom <= lock.expires
    <2>1. other[o] \in Nat /\ OtherIsLeased(o)
      BY DEF PairingTypes, Times, PairingInv
    <2> QED
      BY <1>1, <1>3, <2>1 DEF OtherIsLeased, Leased
  <1> QED
    BY <1>1, <1>2, <1>3

\* So the lock is available only when nobody works, and no abandoned window
\* can still be open.
LEMMA AvailableIsFree ==
  ASSUME PairingTypes, PairingInv, Available
  PROVE  /\ \A r \in Requests : ~Holds(r)
         /\ \A o \in Others : other[o] = 0
         /\ now >= orphan
  <1>1. now \in Nat /\ lock.expires \in Nat /\ orphan \in Nat
    BY DEF PairingTypes, LockRecords, Times
  <1>2. now < orphan => lock.held /\ orphan <= lock.expires
    BY DEF PairingInv, OrphanIsGuarded
  <1> QED
    BY <1>1, <1>2, HoldersAreCovered DEF Available

\* A run or a feature, and nobody beside it.
LEMMA HoldersExclude ==
  ASSUME PairingTypes, PairingInv
  PROVE  /\ \A r \in Requests, o \in Others : ~(Holds(r) /\ other[o] # 0)
         /\ \A o, p \in Others : other[o] # 0 /\ other[p] # 0 => o = p
         /\ \A r, s \in Requests : Holds(r) /\ Holds(s) => r = s
         /\ now < orphan => /\ \A r \in Requests : ~Holds(r)
                            /\ \A o \in Others : other[o] = 0
  BY HoldersAreCovered, HolderAssumption DEF PairingInv, OneHolder, OrphanIsGuarded

\* A set whose members are all equal has one member or none.
LEMMA AtMostOne ==
  ASSUME NEW S, \A x, y \in S : x = y
  PROVE  Cardinality(S) \in {0, 1} /\ (S = {} => Cardinality(S) = 0)
  <1>1. CASE S = {}
    BY <1>1, FS_EmptySet
  <1>2. CASE S # {}
    <2>1. PICK x : S = {x}
      BY <1>2
    <2> QED
      BY <2>1, FS_Singleton
  <1> QED
    BY <1>1, <1>2

\* The features behind the mutex pair one device at a time.
LEMMA InvGivesOneWindow ==
  ASSUME PairingTypes, PairingInv
  PROVE  OneWindow
  <1>1. \A r \in PairingRuns : r \in Requests /\ Holds(r)
    BY DEF PairingRuns, Holds
  <1>2. \A o \in PairingOthers : o \in Others /\ other[o] # 0
    BY DEF PairingOthers
  <1>3. /\ Cardinality(PairingRuns) \in {0, 1} /\ (PairingRuns = {} => Cardinality(PairingRuns) = 0)
    BY <1>1, HoldersExclude, AtMostOne
  <1>4. /\ Cardinality(PairingOthers) \in {0, 1} /\ (PairingOthers = {} => Cardinality(PairingOthers) = 0)
    BY <1>2, HoldersExclude, AtMostOne
  <1>5. /\ PairingRuns = {} \/ PairingOthers = {}
        /\ now < orphan => PairingRuns = {} /\ PairingOthers = {}
    BY <1>1, <1>2, HoldersExclude
  <1> QED
    BY <1>3, <1>4, <1>5 DEF OneWindow, OpenWindows

-----------------------------------------------------------------------------
(* The invariant is kept. *)

\* A step of one run that leaves the lock alone.
LEMMA RunStepKeeps ==
  ASSUME PairingInv, NEW r \in Requests,
         UNCHANGED <<lock, other, orphan, now>>,
         \A s \in Requests \ {r} : run'[s] = run[s],
         Holds(r)' => Holds(r), RunIsLeased(r)'
  PROVE  PairingInv'
  <1>1. ASSUME NEW s \in Requests PROVE RunIsLeased(s)'
    <2>1. CASE s = r
      BY <2>1
    <2>2. CASE s # r
      BY <2>2 DEF PairingInv, RunIsLeased, Leased
    <2> QED
      BY <2>1, <2>2
  <1>2. ASSUME NEW s \in Requests, Holds(s)' PROVE Holds(s)
    BY <1>2 DEF Holds
  <1>3. OneHolder'
    BY <1>2 DEF PairingInv, OneHolder
  <1>4. OrphanIsGuarded'
    BY <1>2 DEF PairingInv, OrphanIsGuarded
  <1>5. \A o \in Others : OtherIsLeased(o)'
    BY DEF PairingInv, OtherIsLeased, Leased
  <1> QED
    BY <1>1, <1>3, <1>4, <1>5 DEF PairingInv

\* A step after which nobody holds the lock.
LEMMA NobodyHolds ==
  ASSUME \A r \in Requests : ~Holds(r)', \A o \in Others : other'[o] = 0,
         now' < orphan' => lock'.held /\ orphan' <= lock'.expires
  PROVE  PairingInv'
  <1>1. \A r \in Requests : RunIsLeased(r)'
    BY DEF Holds, RunIsLeased
  <1>2. \A o \in Others : OtherIsLeased(o)'
    BY DEF OtherIsLeased
  <1> QED
    BY <1>1, <1>2 DEF PairingInv, OneHolder, OrphanIsGuarded

\* A step of a request or of its worker keeps the invariant.
LEMMA PairingInvRun ==
  ASSUME PairingTypes, PairingInv, NEW r \in Requests, RequestStep(r) \/ WorkerStep(r)
  PROVE  PairingInv'
  <1>1. /\ run[r] \in RunRecords /\ run \in [Requests -> RunRecords]
        /\ now \in Nat /\ lock.expires \in Nat /\ orphan \in Nat
        /\ Headroom \in Nat /\ Ceiling \in Nat /\ Settle \in Nat /\ WindowLife \in 0 .. Headroom
    BY DurationAssumption DEF PairingTypes, LockRecords, Times
  <1>2. PICK n : n = Len(run[r].queue)
    OBVIOUS
  <1>3. PICK since : since = run[r].since
    OBVIOUS
  <1>4. /\ run[r].queue \in Seq(Devices) /\ n \in Nat /\ since \in Nat /\ Span(n) \in Nat
        /\ run[r].queue # <<>> => /\ n > 0 /\ Len(Tail(run[r].queue)) = n - 1 /\ n - 1 \in Nat
                                  /\ Span(n) = Span(n - 1) + Ceiling + Settle /\ Span(n - 1) \in Nat
    <2>1. run[r].queue \in Seq(Devices) /\ run[r].since \in Nat
      BY <1>1 DEF RunRecords, Queues, Times
    <2>2. /\ n \in Nat
          /\ run[r].queue # <<>> => /\ n > 0 /\ Len(Tail(run[r].queue)) = n - 1 /\ n - 1 \in Nat
      BY <1>2, <2>1
    <2> QED
      BY <1>2, <1>3, <2>1, <2>2, SpanFacts
  <1>5. RunIsLeased(r)
    BY DEF PairingInv
  <1>6. ASSUME NEW c, run' = [run EXCEPT ![r] = c]
        PROVE  run'[r] = c /\ \A s \in Requests \ {r} : run'[s] = run[s]
    BY <1>1, <1>6
  <1>7. ASSUME NEW c, run' = [run EXCEPT ![r] = c], UNCHANGED <<lock, other, orphan, now>>,
               c.phase \in {"idle", "preflight", "select", "acquire"}
        PROVE  PairingInv'
    <2>1. ~Holds(r)' /\ RunIsLeased(r)'
      BY <1>6, <1>7 DEF Holds, RunIsLeased
    <2> QED
      BY <1>6, <1>7, <2>1, RunStepKeeps
  <1>8. CASE RequestStep(r)
    <2>1. CASE Request(r)
      <3>1. [run[r] EXCEPT !.phase = "preflight"].phase = "preflight"
        BY <1>1 DEF RunRecords
      <3>2. run' = [run EXCEPT ![r] = [run[r] EXCEPT !.phase = "preflight"]]
        BY <2>1 DEF Request
      <3> QED
        BY <1>7, <2>1, <3>1, <3>2 DEF Request
    <2>2. CASE Preflight(r)
      BY <1>7, <2>2 DEF Preflight, NoRun
    <2>3. CASE Select(r)
      <3>1. \A q : [NoRun EXCEPT !.phase = "acquire", !.queue = q].phase = "acquire"
        BY DEF NoRun
      <3>2. NoRun.phase = "idle"
        BY DEF NoRun
      <3> QED
        BY <1>7, <2>3, <3>1, <3>2 DEF Select
    <2> QED
      BY <1>8, <2>1, <2>2, <2>3 DEF RequestStep
  <1>9. CASE Acquire(r)
    <2>1. /\ \A s \in Requests : ~Holds(s)
          /\ \A o \in Others : other[o] = 0
          /\ now >= orphan
      BY <1>9, AvailableIsFree DEF Acquire
    <2>2. Lease(n) = Span(n) + Headroom
      BY <1>4, SpanFacts
    <2>3. /\ lock' = [held |-> TRUE, holder |-> "commission_all", expires |-> now + Lease(n)]
          /\ UNCHANGED <<other, orphan, now>>
      BY <1>2, <1>9 DEF Acquire, TakeLock
    <2>4. run'[r].phase = "next" /\ run'[r].queue = run[r].queue
          /\ \A s \in Requests \ {r} : run'[s] = run[s]
      BY <1>1, <1>9 DEF Acquire, RunRecords
    <2>5. Leased("commission_all", now + Span(n))'
      BY <1>1, <1>4, <2>2, <2>3 DEF Leased
    <2>6. RunIsLeased(r)'
      BY <1>2, <2>3, <2>4, <2>5 DEF RunIsLeased, Leased
    <2>7. \A s \in Requests \ {r} : RunIsLeased(s)' /\ ~Holds(s)'
      BY <2>1, <2>4 DEF RunIsLeased, Holds
    <2>8. OneHolder'
      BY <2>7 DEF OneHolder
    <2>9. OrphanIsGuarded'
      BY <1>1, <2>1, <2>3 DEF OrphanIsGuarded
    <2>10. \A o \in Others : OtherIsLeased(o)'
      BY <2>1, <2>3 DEF OtherIsLeased
    <2> QED
      BY <2>6, <2>7, <2>8, <2>9, <2>10 DEF PairingInv
  <1>10. CASE AcquireBusy(r) \/ AcquireFails(r)
    BY <1>7, <1>10 DEF AcquireBusy, AcquireFails, NoRun
  <1>11. CASE OpenWindow(r)
    <2>1. /\ run'[r].phase = "pairing" /\ run'[r].since = now /\ run'[r].queue = run[r].queue
          /\ \A s \in Requests \ {r} : run'[s] = run[s]
          /\ UNCHANGED <<lock, other, orphan, now>>
          /\ run[r].phase = "next"
      BY <1>1, <1>11 DEF OpenWindow, RunRecords
    <2>2. RunIsLeased(r)'
      BY <1>1, <1>2, <1>5, <2>1 DEF RunIsLeased, Leased
    <2>3. Holds(r)
      BY <2>1 DEF Holds
    <2> QED
      BY <2>1, <2>2, <2>3, RunStepKeeps
  <1>12. CASE SkipDuplicate(r)
    <2>1. /\ run'[r].phase = "next" /\ run'[r].queue = Tail(run[r].queue)
          /\ \A s \in Requests \ {r} : run'[s] = run[s]
          /\ UNCHANGED <<lock, other, orphan, now>>
          /\ run[r].phase = "next" /\ run[r].queue # <<>>
      BY <1>1, <1>12 DEF SkipDuplicate, RunRecords
    <2>2. RunIsLeased(r)'
      <3>1. Leased("commission_all", now + Span(n))
        BY <1>2, <1>5, <2>1 DEF RunIsLeased
      <3>2. Span(n - 1) <= Span(n) /\ Span(n - 1) \in Nat /\ Span(n) \in Nat
        BY <1>1, <1>4, <2>1
      <3>3. Leased("commission_all", now + Span(n - 1))
        <4>1. PICK a, b : a = Span(n - 1) /\ b = Span(n)
          OBVIOUS
        <4>2. a <= b /\ a \in Nat /\ b \in Nat /\ Leased("commission_all", now + b)
          BY <4>1, <3>1, <3>2
        <4>3. Leased("commission_all", now + a)
          BY <4>2, <1>1 DEF Leased
        <4> QED
          BY <4>1, <4>3
      <3> QED
        BY <1>4, <2>1, <3>3 DEF RunIsLeased, Leased
    <2>3. Holds(r)
      BY <2>1 DEF Holds
    <2> QED
      BY <2>1, <2>2, <2>3, RunStepKeeps
  <1>13. CASE AllDone(r)
    <2>1. /\ run'[r].phase = "releasing"
          /\ \A s \in Requests \ {r} : run'[s] = run[s]
          /\ UNCHANGED <<lock, other, orphan, now>>
          /\ run[r].phase = "next"
      BY <1>1, <1>13 DEF AllDone, RunRecords
    <2>2. RunIsLeased(r)'
      <3>1. Leased("commission_all", now + Span(n))
        BY <1>2, <1>5, <2>1 DEF RunIsLeased
      <3> QED
        BY <1>1, <1>4, <2>1, <3>1 DEF RunIsLeased, Leased
    <2>3. Holds(r)
      BY <2>1 DEF Holds
    <2> QED
      BY <2>1, <2>2, <2>3, RunStepKeeps
  <1>14. ASSUME DeviceOk(r) \/ DeviceFails(r) PROVE PairingInv'
    <2>1. PICK m, f : run' = [run EXCEPT ![r] = [phase |-> AfterDevice(run[r].queue, f),
                                  queue |-> Tail(run[r].queue), seen |-> m, fails |-> f, since |-> now]]
      BY <1>14 DEF DeviceOk, DeviceFails
    <2>2. /\ run'[r].phase \in {"settling", "releasing"} /\ run'[r].since = now
          /\ run'[r].queue = Tail(run[r].queue)
          /\ \A s \in Requests \ {r} : run'[s] = run[s]
      BY <1>6, <2>1 DEF AfterDevice
    <2>3. UNCHANGED <<lock, other, orphan, now>> /\ run[r].phase = "pairing" /\ run[r].queue # <<>>
      BY <1>14 DEF DeviceOk, DeviceFails, PairingTypes
    <2>4. now <= since + Ceiling /\ Leased("commission_all", since + Span(n))
      BY <1>2, <1>3, <1>5, <2>3 DEF RunIsLeased, Leased
    <2>5. Leased("commission_all", now + Settle + Span(n - 1)) /\ Leased("commission_all", now)
      <3>1. Span(n) = Span(n - 1) + Ceiling + Settle /\ Span(n - 1) \in Nat
        BY <1>4, <2>3
      <3>2. /\ now + Settle + Span(n - 1) \in Int /\ since + Span(n) \in Int
            /\ now + Settle + Span(n - 1) <= since + Span(n) /\ now <= since + Span(n)
        BY <1>1, <1>4, <2>4, <3>1
      <3> QED
        BY <1>1, <2>4, <3>2 DEF Leased
    <2>6. RunIsLeased(r)'
      <3>1. Len(run'[r].queue) = n - 1
        BY <1>4, <2>2, <2>3
      <3> QED
        BY <1>1, <2>2, <2>3, <2>5, <3>1 DEF RunIsLeased, Leased
    <2>7. Holds(r)
      BY <2>3 DEF Holds
    <2> QED
      BY <2>2, <2>3, <2>6, <2>7, RunStepKeeps
  <1>15. CASE Settled(r)
    <2>1. /\ run'[r].phase = "next" /\ run'[r].queue = run[r].queue
          /\ \A s \in Requests \ {r} : run'[s] = run[s]
          /\ UNCHANGED <<lock, other, orphan, now>>
          /\ run[r].phase = "settling" /\ now >= since + Settle
      BY <1>1, <1>3, <1>15 DEF Settled, RunRecords
    <2>2. Leased("commission_all", now + Span(n))
      BY <1>1, <1>2, <1>3, <1>4, <1>5, <2>1 DEF RunIsLeased, Leased
    <2>3. RunIsLeased(r)'
      BY <1>2, <2>1, <2>2 DEF RunIsLeased, Leased
    <2>4. Holds(r)
      BY <2>1 DEF Holds
    <2> QED
      BY <2>1, <2>3, <2>4, RunStepKeeps
  <1>16. CASE Release(r)
    <2>1. Holds(r)
      BY <1>16 DEF Release, Holds
    <2>2. /\ \A o \in Others : other[o] = 0
          /\ \A s \in Requests \ {r} : ~Holds(s)
          /\ ~(now < orphan)
      BY <2>1, HoldersExclude
    <2>3. run'[r].phase = "idle" /\ (\A s \in Requests \ {r} : run'[s] = run[s])
          /\ UNCHANGED <<other, orphan, now>>
      <3>1. run' = [run EXCEPT ![r] = NoRun] /\ UNCHANGED <<other, orphan, now>>
        BY <1>16 DEF Release
      <3> QED
        BY <1>6, <3>1 DEF NoRun
    <2>4. \A s \in Requests : ~Holds(s)'
      BY <2>2, <2>3 DEF Holds
    <2> QED
      BY <2>2, <2>3, <2>4, NobodyHolds
  <1> QED
    BY <1>8, <1>9, <1>10, <1>11, <1>12, <1>13, <1>14, <1>15, <1>16 DEF WorkerStep

\* Every step keeps the invariant.
LEMMA PairingInvStep == PairingTypes /\ PairingInv /\ [Next]_vars => PairingInv'
  <1> SUFFICES ASSUME PairingTypes, PairingInv, [Next]_vars PROVE PairingInv'
    OBVIOUS
  <1>0. /\ now \in Nat /\ lock.expires \in Nat /\ orphan \in Nat /\ \A o \in Others : other[o] \in Nat
        /\ Headroom \in Nat /\ Ceiling \in Nat /\ Settle \in Nat /\ WindowLife \in 0 .. Headroom
        /\ OtherWork \in Nat
    BY DurationAssumption DEF PairingTypes, LockRecords, Times
  <1>1. ASSUME NEW r \in Requests, RequestStep(r) \/ WorkerStep(r) PROVE PairingInv'
    BY <1>1, PairingInvRun
  <1>2. ASSUME NEW o \in Others, OtherAcquires(o) PROVE PairingInv'
    <2>1. /\ \A r \in Requests : ~Holds(r)
          /\ \A p \in Others : other[p] = 0
          /\ now >= orphan
      BY <1>2, AvailableIsFree DEF OtherAcquires
    <2>2. /\ lock' = [held |-> TRUE, holder |-> o, expires |-> now + (OtherWork + Headroom)]
          /\ other'[o] = now + OtherWork /\ \A p \in Others \ {o} : other'[p] = other[p]
          /\ UNCHANGED <<run, orphan, now>>
      BY <1>2 DEF OtherAcquires, TakeLock, PairingTypes
    <2>3. \A r \in Requests : ~Holds(r)' /\ RunIsLeased(r)'
      BY <2>1, <2>2 DEF Holds, RunIsLeased
    <2>4. OtherIsLeased(o)'
      BY <1>0, <2>2 DEF OtherIsLeased, Leased
    <2>5. \A p \in Others \ {o} : OtherIsLeased(p)'
      BY <2>1, <2>2 DEF OtherIsLeased
    <2>6. OneHolder' /\ OrphanIsGuarded'
      BY <1>0, <2>1, <2>2, <2>3 DEF OneHolder, OrphanIsGuarded
    <2> QED
      BY <2>3, <2>4, <2>5, <2>6 DEF PairingInv
  <1>3. ASSUME NEW o \in Others, OtherReleases(o) PROVE PairingInv'
    <2>1. other[o] # 0 /\ UNCHANGED <<run, orphan, now>>
      BY <1>3 DEF OtherReleases
    <2>2. /\ \A r \in Requests : ~Holds(r)
          /\ \A p \in Others \ {o} : other[p] = 0
          /\ ~(now < orphan)
      BY <2>1, HoldersExclude
    <2>3. \A p \in Others : other'[p] = 0
      BY <1>3, <2>2 DEF OtherReleases, PairingTypes
    <2>4. \A r \in Requests : ~Holds(r)'
      BY <2>1, <2>2 DEF Holds
    <2> QED
      BY <2>1, <2>2, <2>3, <2>4, NobodyHolds
  <1>4. CASE Restart
    <2>1. /\ \A r \in Requests : ~Holds(r)'
          /\ \A o \in Others : other'[o] = 0
          /\ UNCHANGED <<lock, now>>
      BY <1>4 DEF Restart, Holds, NoRun
    <2>2. now' < orphan' => lock'.held /\ orphan' <= lock'.expires
      <3>1. CASE PairingRuns \cup PairingOthers # {}
        <4>1. \/ \E r \in Requests : Holds(r)
              \/ \E o \in Others : other[o] # 0
          BY <3>1 DEF PairingRuns, PairingOthers, Holds
        <4>2. lock.held /\ now + Headroom <= lock.expires
          BY <4>1, HoldersAreCovered
        <4> QED
          BY <1>0, <1>4, <3>1, <4>2 DEF Restart
      <3>2. CASE PairingRuns \cup PairingOthers = {}
        BY <1>4, <3>2 DEF Restart, PairingInv, OrphanIsGuarded
      <3> QED
        BY <3>1, <3>2
    <2> QED
      BY <2>1, <2>2, NobodyHolds
  <1>5. CASE Tick
    <2>1. now' = now + 1 /\ UNCHANGED <<lock, run, other, orphan>>
      BY <1>5 DEF Tick
    <2>2. ASSUME NEW r \in Requests PROVE RunIsLeased(r)'
      <3>1. run[r].since \in Nat /\ RunIsLeased(r)
        BY DEF PairingTypes, RunRecords, Times, PairingInv
      <3>2. /\ run[r].phase \notin {"next", "releasing"}
            /\ run[r].phase = "pairing" => now < run[r].since + Ceiling
            /\ run[r].phase = "settling" => now < run[r].since + Settle
        BY <1>5 DEF Tick
      <3> QED
        BY <1>0, <2>1, <3>1, <3>2 DEF RunIsLeased, Leased
    <2>3. ASSUME NEW o \in Others PROVE OtherIsLeased(o)'
      BY <1>0, <1>5, <2>1 DEF Tick, PairingInv, OtherIsLeased, Leased
    <2>4. OneHolder' /\ OrphanIsGuarded'
      BY <1>0, <2>1 DEF PairingInv, OneHolder, OrphanIsGuarded, Holds
    <2> QED
      BY <2>2, <2>3, <2>4 DEF PairingInv
  <1>6. CASE UNCHANGED <<lock, run, other, orphan, now>>
    BY <1>6 DEF PairingInv, RunIsLeased, OtherIsLeased, Leased, OneHolder, OrphanIsGuarded, Holds
  <1>7. ASSUME \/ \E s \in Singles : SingleStep(s)
               \/ UNCHANGED vars
        PROVE  UNCHANGED <<lock, run, other, orphan, now>>
    BY <1>7 DEF SingleStep, SingleOpens, SingleCloses, vars
  <1> QED
    BY <1>1, <1>2, <1>3, <1>4, <1>5, <1>6, <1>7 DEF Next, OtherStep

\* Types and invariant hold throughout.
LEMMA PairingInvHolds == Spec => [](PairingTypes /\ PairingInv)
  <1>1. Init => PairingTypes
    BY PairingInit
  <1>2. Init => PairingInv
    BY DEF Init, NoRun, PairingInv, RunIsLeased, OtherIsLeased, OneHolder, OrphanIsGuarded, Holds
  <1> QED
    BY <1>1, <1>2, TypesStep, PairingInvStep, PTL DEF Spec

\* A run that is past its acquisition owns the row of the lock under its own
\* name, and its lease has not run out: the ttl_s it computed covers its worst
\* case (_bulk_commission_worker, acquire, release).
THEOREM LeaseCovers == Spec => []LeaseCoversRun
  <1>1. PairingTypes /\ PairingInv => LeaseCoversRun
    BY HoldersAreCovered DEF LeaseCoversRun
  <1> QED
    BY PairingInvHolds, <1>1, PTL

\* The features behind the mutex pair one device at a time, also after a
\* restart that leaves a window open on the hub (matter_pairing_lock).
THEOREM OneWindowAtATime == Spec => []OneWindow
  <1>1. PairingTypes /\ PairingInv => OneWindow
    BY InvGivesOneWindow
  <1> QED
    BY PairingInvHolds, <1>1, PTL
=============================================================================

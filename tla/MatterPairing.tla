--------------------------- MODULE MatterPairing ---------------------------
(***************************************************************************)
(* The Matter pairing slot of a Hubitat hub and the features that contend  *)
(* for it: Commission All (app.py, a request handler that starts a         *)
(* background run), other features behind the same mutex, and the one      *)
(* device endpoint POST /api/matter/auto-commission.                       *)
(*                                                                         *)
(* The mutex (services/matter_pairing_lock.py) is one database row that    *)
(* carries its holder's name and an expiry; it survives a restart of the   *)
(* application, which loses every run and the run-status dictionary.       *)
(* Durations are what the code bounds them by: a device is given up after  *)
(* Ceiling, and Settle passes between two devices.                         *)
(***************************************************************************)
EXTENDS Integers, Sequences, FiniteSets

CONSTANTS Requests,     \* POST /api/matter/auto-commission-all
          Others,       \* other features that use the mutex, by holder name
          Singles,      \* POST /api/matter/auto-commission
          Devices,      \* rows of hubitat_matter_devices
          MacOf,        \* mac_address of each row
          Ceiling,      \* _BULK_COMMISSION_DEVICE_TIMEOUT_S
          Settle,       \* _BULK_COMMISSION_SETTLE_S
          Headroom,     \* the 300 s added to the lease
          MaxFailures,  \* _BULK_COMMISSION_MAX_CONSECUTIVE_FAILURES
          OtherWork,    \* the longest an other feature works under the lock
          WindowLife,   \* how long a hub keeps an abandoned window open
          DbMayFail,    \* whether PostgreSQL may be unreachable
          MaxTime       \* bound on the clock of a checked instance

ASSUME DurationAssumption == /\ Ceiling \in Nat \ {0}
                             /\ Settle \in Nat
                             /\ Headroom \in Nat \ {0}
                             /\ MaxFailures \in Nat \ {0}
                             /\ OtherWork \in Nat \ {0}
                             /\ WindowLife \in 0 .. Headroom
                             /\ MaxTime \in Nat
ASSUME FlagAssumption == DbMayFail \in BOOLEAN
ASSUME HolderAssumption == "commission_all" \notin Others

VARIABLES lock,     \* the row of tbl_matter_pairing_lock
          running,  \* _bulk_commission_state["running"]
          run,      \* each request, and the run it started
          other,    \* until when each other feature may pair (0: it is not)
          single,   \* singles that have a window open
          orphan,   \* until when a window that a holder of the lock abandoned in
                    \* a crash stays open
          left,     \* the same for a failed device or an interrupted single
          now       \* NOW()

vars == <<lock, running, run, other, single, orphan, left, now>>

Macs == {MacOf[d] : d \in Devices}
Holders == {"commission_all"} \cup Others
Phases == {"idle", "preflight", "select", "acquire",
           "next", "pairing", "settling", "releasing"}

\* run[r].queue: devices not yet dealt with, the current one first;
\* .seen: seen_macs; .fails: consecutive_failures; .since: start of the step.
NoRun == [phase |-> "idle", queue |-> <<>>, seen |-> {}, fails |-> 0, since |-> 0]

Holds(r) == run[r].phase \in {"next", "pairing", "settling", "releasing"}
InFlight(r) == run[r].phase = "acquire" \/ Holds(r)

Init == /\ lock = [held |-> FALSE, holder |-> "commission_all", expires |-> 0]
        /\ running = FALSE
        /\ run = [r \in Requests |-> NoRun]
        /\ other = [o \in Others |-> 0]
        /\ single = {}
        /\ orphan = 0
        /\ left = 0
        /\ now = 0

-----------------------------------------------------------------------------
(* The mutex: one UPDATE ... WHERE each, so each is atomic. *)

\* Variant: an expired lock is never taken over.
AvailableOnlyIfReleased == ~lock.held

\* Variant: the lock is reentrant for Commission All.
AvailableReentrant ==
    ~lock.held \/ lock.expires <= now \/ lock.holder = "commission_all"

Available == ~lock.held \/ lock.expires <= now

TakeLock(h, ttl) ==
    lock' = [held |-> TRUE, holder |-> h, expires |-> now + ttl]

ReleaseLock(h) ==
    lock' = IF lock.held /\ lock.holder = h THEN [lock EXCEPT !.held = FALSE] ELSE lock

\* Variant: the lease leaves out the pause between devices and the headroom.
LeaseTooShort(n) == n * Ceiling

\* ttl_s of a Commission All run over n devices.
Lease(n) == n * (Ceiling + Settle) + Headroom

-----------------------------------------------------------------------------
(* POST /api/matter/auto-commission-all. *)

\* The handler reads the in-memory flag, then awaits.
Request(r) ==
    /\ run[r].phase = "idle"
    /\ ~running
    /\ run' = [run EXCEPT ![r].phase = "preflight"]
    /\ UNCHANGED <<lock, running, other, single, orphan, left, now>>

\* Advisory look at the lock; status() answers "not held" when it fails.
Preflight(r) ==
    /\ run[r].phase = "preflight"
    /\ \E seesHeld \in {~Available} \cup (IF DbMayFail THEN {FALSE} ELSE {}) :
          run' = [run EXCEPT ![r] = IF seesHeld THEN NoRun
                                    ELSE [NoRun EXCEPT !.phase = "select"]]
    /\ UNCHANGED <<lock, running, other, single, orphan, left, now>>

\* After the fabric check and the query the handler marks the run as running
\* and creates the worker, or answers that there is nothing to do.
Select(r) ==
    /\ run[r].phase = "select"
    /\ \/ /\ run' = [run EXCEPT ![r] = NoRun]
          /\ UNCHANGED running
       \/ \E n \in 1 .. Cardinality(Devices) :
            \E q \in [1 .. n -> Devices] :
              /\ \A i, j \in 1 .. n : i # j => q[i] # q[j]
              /\ run' = [run EXCEPT ![r] = [NoRun EXCEPT !.phase = "acquire",
                                                         !.queue = q]]
              /\ running' = TRUE
    /\ UNCHANGED <<lock, other, single, orphan, left, now>>

-----------------------------------------------------------------------------
(* _bulk_commission_worker. *)

Acquire(r) ==
    LET ttl == Lease(Len(run[r].queue))
    IN /\ run[r].phase = "acquire"
       /\ Available
       /\ now + ttl <= MaxTime
       /\ TakeLock("commission_all", ttl)
       /\ run' = [run EXCEPT ![r].phase = "next"]
       /\ UNCHANGED <<running, other, single, orphan, left, now>>

\* PairingLockBusy.
AcquireBusy(r) ==
    /\ run[r].phase = "acquire"
    /\ ~Available
    /\ running' = FALSE
    /\ run' = [run EXCEPT ![r] = NoRun]
    /\ UNCHANGED <<lock, other, single, orphan, left, now>>

\* Any other exception of the acquisition ends the task: `except
\* PairingLockBusy` does not catch it and nothing clears the flag.
AcquireFails(r) ==
    /\ DbMayFail
    /\ run[r].phase = "acquire"
    /\ run' = [run EXCEPT ![r] = NoRun]
    /\ UNCHANGED <<lock, running, other, single, orphan, left, now>>

\* The next device is on its way: its window opens, unless its MAC address was
\* commissioned earlier in this run.
OpenWindow(r) ==
    /\ run[r].phase = "next"
    /\ run[r].queue # <<>>
    /\ MacOf[Head(run[r].queue)] \notin run[r].seen
    /\ run' = [run EXCEPT ![r].phase = "pairing", ![r].since = now]
    /\ UNCHANGED <<lock, running, other, single, orphan, left, now>>

SkipDuplicate(r) ==
    /\ run[r].phase = "next"
    /\ run[r].queue # <<>>
    /\ MacOf[Head(run[r].queue)] \in run[r].seen
    /\ run' = [run EXCEPT ![r].queue = Tail(@)]
    /\ UNCHANGED <<lock, running, other, single, orphan, left, now>>

AllDone(r) ==
    /\ run[r].phase = "next"
    /\ run[r].queue = <<>>
    /\ run' = [run EXCEPT ![r].phase = "releasing"]
    /\ UNCHANGED <<lock, running, other, single, orphan, left, now>>

\* What follows a device: give up, pause before the next one, or finish.
AfterDevice(q, fails) ==
    IF fails >= MaxFailures \/ Len(q) = 1 THEN "releasing" ELSE "settling"

DeviceOk(r) ==
    LET q == run[r].queue
    IN /\ run[r].phase = "pairing"
       /\ run' = [run EXCEPT ![r] = [phase |-> AfterDevice(q, 0), queue |-> Tail(q),
                                     seen  |-> @.seen \cup {MacOf[Head(q)]},
                                     fails |-> 0, since |-> now]]
       /\ UNCHANGED <<lock, running, other, single, orphan, left, now>>

\* An error, or TimeoutError once Ceiling has passed.  Nothing closes the
\* window if the hub had opened it.
DeviceFails(r) ==
    LET q == run[r].queue
        f == run[r].fails + 1
    IN /\ run[r].phase = "pairing"
       /\ run' = [run EXCEPT ![r] = [phase |-> AfterDevice(q, f), queue |-> Tail(q),
                                     seen  |-> @.seen, fails |-> f, since |-> now]]
       /\ left' \in {left, run[r].since + WindowLife}
       /\ UNCHANGED <<lock, running, other, single, orphan, now>>

Settled(r) ==
    /\ run[r].phase = "settling"
    /\ now >= run[r].since + Settle
    /\ run' = [run EXCEPT ![r].phase = "next"]
    /\ UNCHANGED <<lock, running, other, single, orphan, left, now>>

\* finally: the lock first (a failure to release it is only logged), then the
\* status.
Release(r) ==
    /\ run[r].phase = "releasing"
    /\ \/ ReleaseLock("commission_all")
       \/ DbMayFail /\ UNCHANGED lock
    /\ running' = FALSE
    /\ run' = [run EXCEPT ![r] = NoRun]
    /\ UNCHANGED <<other, single, orphan, left, now>>

-----------------------------------------------------------------------------
(* The other users of the slot, restarts and time. *)

\* A feature picks a ttl_s longer than its worst case: OtherWork and headroom.
OtherAcquires(o) ==
    /\ other[o] = 0
    /\ Available
    /\ now + OtherWork + Headroom <= MaxTime
    /\ TakeLock(o, OtherWork + Headroom)
    /\ other' = [other EXCEPT ![o] = now + OtherWork]
    /\ UNCHANGED <<running, run, single, orphan, left, now>>

\* The `finally` of matter_pairing_lock.
OtherReleases(o) ==
    /\ other[o] # 0
    /\ ReleaseLock(o)
    /\ other' = [other EXCEPT ![o] = 0]
    /\ UNCHANGED <<running, run, single, orphan, left, now>>

\* matter_auto_commission called as an endpoint: no lock.
SingleOpens(s) ==
    /\ s \notin single
    /\ single' = single \cup {s}
    /\ UNCHANGED <<lock, running, run, other, orphan, left, now>>

SingleCloses(s) ==
    /\ s \in single
    /\ single' = single \ {s}
    /\ UNCHANGED <<lock, running, run, other, orphan, left, now>>

PairingRuns == {r \in Requests : run[r].phase = "pairing"}
PairingOthers == {o \in Others : other[o] # 0}

\* The container restarts: tasks and the status dictionary are gone, the row
\* is not, and a window that was open stays open on the hub for a while.
Restart ==
    /\ run' = [r \in Requests |-> NoRun]
    /\ running' = FALSE
    /\ other' = [o \in Others |-> 0]
    /\ single' = {}
    /\ orphan' = IF PairingRuns \cup PairingOthers # {} THEN now + WindowLife ELSE orphan
    /\ left' = IF single # {} THEN now + WindowLife ELSE left
    /\ UNCHANGED <<lock, now>>

\* Time passes only while every timed step is within its bound: a device ends
\* at its ceiling, the pause at its length, and the bookkeeping between them
\* takes no time.
Tick ==
    /\ now < MaxTime
    /\ \A r \in Requests :
          /\ run[r].phase \notin {"next", "releasing"}
          /\ run[r].phase = "pairing" => now < run[r].since + Ceiling
          /\ run[r].phase = "settling" => now < run[r].since + Settle
    /\ \A o \in Others : other[o] # 0 => now < other[o]
    /\ now' = now + 1
    /\ UNCHANGED <<lock, running, run, other, single, orphan, left>>

RequestStep(r) == Request(r) \/ Preflight(r) \/ Select(r)

WorkerStep(r) == \/ Acquire(r) \/ AcquireBusy(r) \/ AcquireFails(r)
                 \/ OpenWindow(r) \/ SkipDuplicate(r) \/ AllDone(r)
                 \/ DeviceOk(r) \/ DeviceFails(r) \/ Settled(r) \/ Release(r)

OtherStep(o) == OtherAcquires(o) \/ OtherReleases(o)
SingleStep(s) == SingleOpens(s) \/ SingleCloses(s)

Next == \/ \E r \in Requests : RequestStep(r) \/ WorkerStep(r)
        \/ \E o \in Others : OtherStep(o)
        \/ \E s \in Singles : SingleStep(s)
        \/ Restart
        \/ Tick

Spec == Init /\ [][Next]_vars

\* Time passes: the steps between two ticks are bounded by the code's own
\* timeouts (wait_for, sleep, request timeouts).
Fairness == WF_vars(Tick) /\ \A r \in Requests : WF_vars(WorkerStep(r))
                          /\ \A o \in Others : WF_vars(OtherReleases(o))

FairSpec == Spec /\ Fairness

-----------------------------------------------------------------------------
(* Properties *)

TypeOK == /\ lock \in [held : BOOLEAN, holder : Holders, expires : Nat]
          /\ running \in BOOLEAN
          /\ run \in [Requests -> [phase : Phases, queue : Seq(Devices),
                                   seen : SUBSET Macs, fails : Nat, since : Nat]]
          /\ other \in [Others -> Nat]
          /\ single \subseteq Singles
          /\ orphan \in Nat
          /\ left \in Nat
          /\ now \in Nat

OpenWindows == Cardinality(PairingRuns) + Cardinality(PairingOthers)
                   + (IF now < orphan THEN 1 ELSE 0)

\* The operator's invariant: the features behind the mutex pair one device at
\* a time, also after a restart that leaves a window open on the hub, and
\* whatever the number of requests that slip past the status checks.  The
\* restart rests on WindowLife <= Headroom: the hub keeps a window for 2 to 5
\* minutes and the headroom is 300 s.
OneWindow == OpenWindows <= 1

\* A run that is past its acquisition still owns the row, under its own name,
\* and its lease has not run out: the ttl_s it computed covers its worst case,
\* whatever the other features, late releases and restarts do.
LeaseCoversRun ==
    \A r \in Requests : Holds(r) =>
        lock.held /\ lock.holder = "commission_all" /\ now < lock.expires

\* A holder that dies does not wedge pairing: the slot becomes available again
\* and again.
SlotComesBack == []<>Available
=============================================================================

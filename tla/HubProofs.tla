----------------------------- MODULE HubProofs -----------------------------
(***************************************************************************)
(* What is proved of the hubs: of the breaker that guards the calls to     *)
(* one (CircuitBreaker), of the table of their devices (HubRoster), and of *)
(* the poll that makes up for lost events (DeviceFeed).  The three share   *)
(* no variable; each has its inductive invariant.                          *)
(***************************************************************************)
EXTENDS CircuitBreaker, HubRoster, DeviceFeed, TLAPS
-----------------------------------------------------------------------------
(***************************************************************************)
(* The circuit breaker, for any set of callers, any limits and any bound   *)
(* on the clock.                                                           *)
(***************************************************************************)
\* A clock value read before the lock is an instant that has passed.
ReadingsArePast ==
    \A c \in Callers : call[c].phase \in {"gate", "failing"} =>
                          call[c].at \in Nat /\ call[c].at <= now

\* In a CLOSED breaker the counted failures are the most recent ones, and
\* _first_failure_at is the time of the earliest of them.
CountIsRecent ==
    state = "CLOSED" =>
        /\ failureCount = 0 <=> firstFailureAt = NoTime
        /\ failureCount <= Len(recent)
        /\ failureCount > 0 => firstFailureAt = recent[Len(recent) - failureCount + 1]
        /\ \A i \in (Len(recent) - failureCount + 1) .. Len(recent) :
              recent[i] - firstFailureAt <= FailWindow

RecentIsBounded == Len(recent) <= FailThreshold

\* The inductive invariant.  ClosedBelowThreshold alone is not inductive: it
\* needs the types, and TripIsJustified needs what the count stands for.
BreakerInv == /\ TypeOK
              /\ ProbeGateMatchesState
              /\ CooldownCanElapse
              /\ ClosedBelowThreshold
              /\ ReadingsArePast
              /\ RecentIsBounded
              /\ CountIsRecent

-----------------------------------------------------------------------------
\* The initial state satisfies the invariant: a new breaker is CLOSED with
\* clear counters (__init__).
LEMMA BreakerInit == Init => BreakerInv
  <1> SUFFICES ASSUME Init PROVE BreakerInv
    OBVIOUS
  <1> USE LimitsAssumption DEF Init
  <1>1. TypeOK
    <2>1. call \in [Callers -> [phase : Phases, at : Nat \cup {NoTime}]]
      BY DEF Phases, Idle
    <2>2. recent \in Seq(Nat)
      OBVIOUS
    <2>3. probeInFlight \in BOOLEAN /\ state \in States
      BY DEF States
    <2> QED
      BY <2>1, <2>2, <2>3 DEF TypeOK
  <1>2. ProbeGateMatchesState /\ CooldownCanElapse /\ ClosedBelowThreshold
    BY DEF ProbeGateMatchesState, CooldownCanElapse, ClosedBelowThreshold, NoTime
  <1>3. ReadingsArePast
    BY DEF ReadingsArePast, Idle
  <1>4. RecentIsBounded /\ CountIsRecent
    BY DEF RecentIsBounded, CountIsRecent, NoTime
  <1> QED
    BY <1>1, <1>2, <1>3, <1>4 DEF BreakerInv

\* The log new is the log old with t appended, cut to its last N entries.
LogGrew(old, new, t, N) ==
    /\ Len(new) > 0
    /\ new[Len(new)] = t
    /\ \/ /\ Len(new) = Len(old) + 1
          /\ \A i \in 1 .. Len(old) : new[i] = old[i]
       \/ /\ Len(old) = N
          /\ Len(new) = N
          /\ \A i \in 1 .. N - 1 : new[i] = old[i + 1]

\* The last k + 1 entries of new are the last k entries of old, and then t.
ExtendsSuffix(old, new, t, k) ==
    /\ k + 1 <= Len(new)
    /\ new[Len(new) - (k + 1) + 1] = old[Len(old) - k + 1]
    /\ \A i \in (Len(new) - (k + 1) + 1) .. Len(new) :
          \/ new[i] = t
          \/ \E j \in (Len(old) - k + 1) .. Len(old) : new[i] = old[j]

\* Remembering a failure appends its time and keeps at most FailThreshold.
LEMMA RememberLog ==
  ASSUME NEW t \in Nat, TypeOK, RecentIsBounded, Remember(t)
  PROVE  /\ recent' \in Seq(Nat)
         /\ Len(recent') <= FailThreshold
         /\ LogGrew(recent, recent', t, FailThreshold)
  BY LimitsAssumption DEF TypeOK, RecentIsBounded, Remember, LogGrew

\* The last k + 1 entries of a log that has just grown are its last k entries
\* before, with the new one behind them.
LEMMA LogSuffix ==
  ASSUME NEW N \in Nat \ {0}, NEW old \in Seq(Nat), NEW new \in Seq(Nat), NEW t \in Nat,
         NEW k \in Nat, k > 0, k < N, k <= Len(old), LogGrew(old, new, t, N)
  PROVE  ExtendsSuffix(old, new, t, k)
  <1> USE DEF LogGrew, ExtendsSuffix
  <1> DEFINE m == Len(old)
  <1>0. m \in Nat /\ k <= m
    OBVIOUS
  <1>1. CASE /\ Len(new) = m + 1
             /\ \A i \in 1 .. m : new[i] = old[i]
    <2>1. k + 1 <= Len(new) /\ Len(new) - (k + 1) + 1 = m - k + 1
      BY <1>1
    <2>2. ASSUME NEW i \in (m - k + 1) .. m PROVE new[i] = old[i]
      <3>1. i \in 1 .. m
        OBVIOUS
      <3> QED
        BY <1>1, <3>1
    <2>3. ASSUME NEW i \in (m - k + 1) .. (m + 1)
          PROVE  new[i] = t \/ \E j \in (m - k + 1) .. m : new[i] = old[j]
      <3>1. CASE i = m + 1
        BY <1>1, <3>1
      <3>2. CASE i # m + 1
        <4>1. i \in (m - k + 1) .. m
          <5> HIDE DEF m
          <5> QED
            BY <1>0, <3>2
        <4> QED
          BY <2>2, <4>1
      <3> QED
        BY <3>1, <3>2
    <2>4. new[m - k + 1] = old[m - k + 1]
      <3>1. m - k + 1 \in (m - k + 1) .. m
        <4> HIDE DEF m
        <4> QED
          BY <1>0
      <3> QED
        BY <2>2, <3>1
    <2> HIDE DEF m
    <2>5. \A i \in (Len(new) - (k + 1) + 1) .. Len(new) :
             new[i] = t \/ \E j \in (m - k + 1) .. m : new[i] = old[j]
      BY <1>1, <2>1, <2>3
    <2> USE DEF m
    <2> QED
      BY <2>1, <2>4, <2>5
  <1>2. CASE /\ Len(old) = N
             /\ Len(new) = N
             /\ \A i \in 1 .. N - 1 : new[i] = old[i + 1]
    <2>1. k + 1 <= Len(new) /\ Len(new) - (k + 1) + 1 = N - k /\ Len(old) - k + 1 = N - k + 1
      BY <1>2
    <2>2. new[N - k] = old[N - k + 1]
      BY <1>2
    <2>3. ASSUME NEW i \in (N - k) .. N
          PROVE  new[i] = t \/ \E j \in (N - k + 1) .. N : new[i] = old[j]
      <3>1. CASE i = N
        BY <1>2, <3>1
      <3>2. CASE i # N
        <4>1. i \in 1 .. N - 1 /\ i + 1 \in (N - k + 1) .. N
          BY <3>2
        <4> QED
          BY <1>2, <4>1
      <3> QED
        BY <3>1, <3>2
    <2> QED
      BY <1>2, <2>1, <2>2, <2>3
  <1> QED
    BY <1>1, <1>2

\* A step that moves only callers keeps the invariant, provided the clock
\* values it writes are instants that have passed.
LEMMA CallOnlyStep ==
  ASSUME BreakerInv,
         call' \in [Callers -> [phase : Phases, at : Nat \cup {NoTime}]],
         ReadingsArePast',
         UNCHANGED <<breaker, now, recent>>
  PROVE  BreakerInv'
  BY DEF BreakerInv, TypeOK, ProbeGateMatchesState, CooldownCanElapse,
         ClosedBelowThreshold, RecentIsBounded, CountIsRecent, breaker

\* A caller that leaves writes no clock value.
LEMMA LeaveKeepsCalls ==
  ASSUME NEW c \in Callers, TypeOK, ReadingsArePast, Leave(c), now' = now
  PROVE  /\ call' \in [Callers -> [phase : Phases, at : Nat \cup {NoTime}]]
         /\ ReadingsArePast'
  BY DEF TypeOK, ReadingsArePast, Leave, Idle, Phases

\* A caller that enters a phase with the current clock, or one that does not
\* use it, writes a clock value that has passed.
LEMMA EnterKeepsCalls ==
  ASSUME NEW c \in Callers, NEW p \in Phases, NEW t \in {now, NoTime},
         t = NoTime => p \notin {"gate", "failing"},
         TypeOK, ReadingsArePast, Enter(c, p, t), now' = now
  PROVE  /\ call' \in [Callers -> [phase : Phases, at : Nat \cup {NoTime}]]
         /\ ReadingsArePast'
  BY DEF TypeOK, ReadingsArePast, Enter, NoTime

\* What a counted failure does to the count and its window, in CLOSED.
LEMMA FailureCounts ==
  ASSUME NEW c \in Callers, BreakerInv, RecordFailure(c)
  PROVE  /\ TypeOK'
         /\ RecentIsBounded'
         /\ CountIsRecent'
         /\ state = "CLOSED" /\ state' = "OPEN" =>
              /\ Len(recent') = FailThreshold
              /\ \A i \in DOMAIN recent' : recent'[i] - recent'[1] <= FailWindow
  <1> DEFINE t == call[c].at
             count == IF WindowExpired(t) THEN 1 ELSE failureCount + 1
  <1> USE LimitsAssumption
  <1>1. t \in Nat /\ t <= now /\ TypeOK /\ RecentIsBounded
    BY DEF BreakerInv, ReadingsArePast, RecordFailure
  <1>2. /\ Remember(t)
        /\ failureCount' = count
        /\ firstFailureAt' = IF WindowExpired(t) THEN t ELSE firstFailureAt
        /\ state # "HALF_OPEN"
        /\ state' = IF count >= FailThreshold THEN "OPEN" ELSE state
        /\ openedAt' = IF count >= FailThreshold THEN t ELSE openedAt
        /\ UNCHANGED <<probeInFlight, now>>
        /\ Leave(c)
    BY DEF RecordFailure, Trips, OpeningTime
  <1>3. /\ recent' \in Seq(Nat)
        /\ Len(recent') <= FailThreshold
        /\ LogGrew(recent, recent', t, FailThreshold)
    BY <1>1, <1>2, RememberLog
  <1>4. TypeOK'
    BY <1>1, <1>2, <1>3, LeaveKeepsCalls DEF TypeOK, BreakerInv, States
  <1>5. RecentIsBounded'
    BY <1>3 DEF RecentIsBounded
  <1>6. ASSUME state = "CLOSED"
        PROVE  /\ count > 0 /\ count <= Len(recent')
               /\ firstFailureAt' # NoTime
               /\ firstFailureAt' = recent'[Len(recent') - count + 1]
               /\ \A i \in (Len(recent') - count + 1) .. Len(recent') :
                     recent'[i] - firstFailureAt' <= FailWindow
    <2>1. CASE WindowExpired(t)
      BY <1>1, <1>2, <1>3, <2>1 DEF NoTime, LogGrew
    <2>2. CASE ~WindowExpired(t)
      <3>1. /\ failureCount > 0
            /\ failureCount < FailThreshold
            /\ failureCount <= Len(recent)
            /\ firstFailureAt = recent[Len(recent) - failureCount + 1]
            /\ \A i \in (Len(recent) - failureCount + 1) .. Len(recent) :
                  recent[i] - firstFailureAt <= FailWindow
            /\ t - firstFailureAt <= FailWindow
            /\ firstFailureAt \in Nat
        BY <1>1, <1>6, <2>2
        DEF BreakerInv, TypeOK, CountIsRecent, ClosedBelowThreshold, WindowExpired, NoTime
      <3>2. failureCount \in Nat /\ Len(recent) \in Nat /\ recent \in Seq(Nat)
        BY <1>1 DEF TypeOK
      <3>3. count = failureCount + 1 /\ firstFailureAt' = firstFailureAt
        BY <1>2, <2>2
      <3>4. ExtendsSuffix(recent, recent', t, failureCount)
        BY <1>1, <1>3, <3>1, <3>2, LogSuffix
      <3> HIDE DEF count, t
      <3>5. ASSUME NEW i \in (Len(recent') - count + 1) .. Len(recent')
            PROVE  recent'[i] - firstFailureAt' <= FailWindow
        <4>1. CASE recent'[i] = t
          BY <3>1, <3>3, <4>1
        <4>2. CASE \E j \in (Len(recent) - failureCount + 1) .. Len(recent) :
                      recent'[i] = recent[j]
          BY <3>1, <3>3, <4>2
        <4> QED
          BY <3>3, <3>4, <4>1, <4>2 DEF ExtendsSuffix
      <3>6. count > 0 /\ count <= Len(recent') /\ firstFailureAt' # NoTime
        BY <3>1, <3>2, <3>3, <3>4 DEF NoTime, ExtendsSuffix
      <3>7. firstFailureAt' = recent'[Len(recent') - count + 1]
        BY <3>1, <3>3, <3>4 DEF ExtendsSuffix
      <3> QED
        BY <3>5, <3>6, <3>7
    <2> QED
      BY <2>1, <2>2
  <1>7. CountIsRecent'
    <2>1. state' = "CLOSED" => state = "CLOSED"
      BY <1>2
    <2> QED
      BY <1>2, <1>6, <2>1 DEF CountIsRecent
  <1>8. ASSUME state = "CLOSED", state' = "OPEN"
        PROVE  /\ Len(recent') = FailThreshold
               /\ \A i \in DOMAIN recent' : recent'[i] - recent'[1] <= FailWindow
    <2>1. count >= FailThreshold /\ count \in Nat
      BY <1>1, <1>2, <1>8 DEF TypeOK
    <2>2. Len(recent') = FailThreshold /\ count = FailThreshold
      BY <1>3, <1>6, <1>8, <2>1
    <2> QED
      BY <1>3, <1>6, <1>8, <2>2
  <1> QED
    BY <1>4, <1>5, <1>7, <1>8

-----------------------------------------------------------------------------
\* Every step of a caller, of the operator or of the clock keeps the invariant.
LEMMA BreakerStep == BreakerInv /\ [Next]_vars => BreakerInv'
  <1> SUFFICES ASSUME BreakerInv, [Next]_vars PROVE BreakerInv'
    OBVIOUS
  <1> USE LimitsAssumption
  <1>0. TypeOK /\ ReadingsArePast /\ RecentIsBounded
    BY DEF BreakerInv
  <1>1. ASSUME NEW c \in Callers, Arrive(c) PROVE BreakerInv'
    <2>1. Enter(c, "gate", now) /\ UNCHANGED <<breaker, now, recent>>
      BY <1>1 DEF Arrive
    <2>2. now \in Nat /\ "gate" \in Phases /\ now # NoTime
      BY <1>0 DEF TypeOK, Phases, NoTime
    <2> QED
      BY <1>0, <2>1, <2>2, EnterKeepsCalls, CallOnlyStep
  <1>2. ASSUME NEW c \in Callers, AdmitClosed(c) PROVE BreakerInv'
    <2>1. Enter(c, "running", NoTime) /\ UNCHANGED <<breaker, now, recent>>
      BY <1>2 DEF AdmitClosed
    <2>2. "running" \in Phases /\ "running" \notin {"gate", "failing"}
      BY DEF Phases
    <2> QED
      BY <1>0, <2>1, <2>2, EnterKeepsCalls, CallOnlyStep
  <1>3. ASSUME NEW c \in Callers, AdmitProbe(c) PROVE BreakerInv'
    <2>1. /\ call' \in [Callers -> [phase : Phases, at : Nat \cup {NoTime}]]
          /\ ReadingsArePast'
      <3>1. Enter(c, "probing", NoTime) /\ now' = now
        BY <1>3 DEF AdmitProbe
      <3>2. "probing" \in Phases /\ "probing" \notin {"gate", "failing"}
        BY DEF Phases
      <3> QED
        BY <1>0, <3>1, <3>2, EnterKeepsCalls
    <2>2. /\ state # "CLOSED" /\ state' = "HALF_OPEN" /\ probeInFlight' = TRUE
          /\ UNCHANGED <<failureCount, firstFailureAt, openedAt, now, recent>>
      BY <1>3 DEF AdmitProbe
    <2> QED
      BY <2>1, <2>2
      DEF BreakerInv, TypeOK, ProbeGateMatchesState, CooldownCanElapse,
          ClosedBelowThreshold, RecentIsBounded, CountIsRecent, States
  <1>4. ASSUME NEW c \in Callers, Refuse(c) \/ Cancel(c) PROVE BreakerInv'
    <2>1. Leave(c) /\ UNCHANGED <<breaker, now, recent>>
      BY <1>4 DEF Refuse, Cancel
    <2> QED
      BY <1>0, <2>1, LeaveKeepsCalls, CallOnlyStep
  <1>5. ASSUME NEW c \in Callers, Raise(c) PROVE BreakerInv'
    <2>1. Enter(c, "failing", now) /\ UNCHANGED <<breaker, now, recent>>
      BY <1>5 DEF Raise
    <2>2. now \in Nat /\ "failing" \in Phases /\ now # NoTime
      BY <1>0 DEF TypeOK, Phases, NoTime
    <2> QED
      BY <1>0, <2>1, <2>2, EnterKeepsCalls, CallOnlyStep
  <1>6. ASSUME NEW c \in Callers, RecordProbeFailure(c) PROVE BreakerInv'
    <2>1. call[c].at \in Nat /\ call[c].at <= now
      BY <1>0, <1>6 DEF RecordProbeFailure, ReadingsArePast
    <2>2. recent' \in Seq(Nat) /\ Len(recent') <= FailThreshold
      BY <1>0, <1>6, <2>1, RememberLog DEF RecordProbeFailure
    <2>3. /\ call' \in [Callers -> [phase : Phases, at : Nat \cup {NoTime}]]
          /\ ReadingsArePast'
      BY <1>0, <1>6, LeaveKeepsCalls DEF RecordProbeFailure
    <2>4. /\ state' = "OPEN" /\ openedAt' = call[c].at /\ probeInFlight' = FALSE
          /\ UNCHANGED <<failureCount, firstFailureAt, now>>
      BY <1>6 DEF RecordProbeFailure, OpeningTime
    <2>5. probeInFlight' \in BOOLEAN
      BY <2>4
    <2>6. TypeOK'
      BY <1>0, <2>1, <2>2, <2>3, <2>4, <2>5 DEF TypeOK, States
    <2>7. ProbeGateMatchesState' /\ CooldownCanElapse' /\ ClosedBelowThreshold'
      BY <2>1, <2>4
      DEF ProbeGateMatchesState, CooldownCanElapse, ClosedBelowThreshold, NoTime
    <2>8. RecentIsBounded' /\ CountIsRecent'
      BY <2>2, <2>4 DEF RecentIsBounded, CountIsRecent
    <2> QED
      BY <2>3, <2>6, <2>7, <2>8 DEF BreakerInv
  <1>7. ASSUME NEW c \in Callers, RecordFailure(c) PROVE BreakerInv'
    <2>1. TypeOK' /\ RecentIsBounded' /\ CountIsRecent'
      BY <1>7, FailureCounts
    <2>2. ReadingsArePast'
      BY <1>0, <1>7, LeaveKeepsCalls DEF RecordFailure
    <2>3. call[c].at \in Nat /\ call[c].at <= now
      BY <1>0, <1>7 DEF RecordFailure, ReadingsArePast
    <2>4. ProbeGateMatchesState' /\ CooldownCanElapse' /\ ClosedBelowThreshold'
      BY <1>0, <1>7, <2>1, <2>3
      DEF BreakerInv, TypeOK, RecordFailure, Trips, OpeningTime, NoTime,
          ProbeGateMatchesState, CooldownCanElapse, ClosedBelowThreshold
    <2> QED
      BY <2>1, <2>2, <2>4 DEF BreakerInv
  <1>8. ASSUME NEW c \in Callers, RecordProbeSuccess(c) \/ RecordSuccess(c)
        PROVE  BreakerInv'
    <2>1. Leave(c) /\ now' = now
      BY <1>8 DEF RecordProbeSuccess, RecordSuccess
    <2>2. /\ call' \in [Callers -> [phase : Phases, at : Nat \cup {NoTime}]]
          /\ ReadingsArePast'
      BY <1>0, <2>1, LeaveKeepsCalls
    <2>3. recent' = <<>> /\ failureCount' = 0 /\ firstFailureAt' = NoTime
      BY <1>8 DEF RecordProbeSuccess, RecordSuccess
    <2>4. recent' \in Seq(Nat) /\ Len(recent') = 0
      BY <2>3
    <2>5. \/ state' = "CLOSED" /\ openedAt' = NoTime /\ probeInFlight' = FALSE
          \/ UNCHANGED <<state, openedAt, probeInFlight>>
      BY <1>8 DEF RecordProbeSuccess, RecordSuccess
    <2>6. ProbeGateMatchesState' /\ CooldownCanElapse' /\ ClosedBelowThreshold'
      BY <1>0, <2>1, <2>3, <2>5
      DEF BreakerInv, TypeOK, ProbeGateMatchesState, CooldownCanElapse,
          ClosedBelowThreshold, NoTime
    <2>7. RecentIsBounded' /\ CountIsRecent'
      BY <2>3, <2>4, LimitsAssumption DEF RecentIsBounded, CountIsRecent
    <2>8. probeInFlight' \in BOOLEAN
      BY <1>0, <2>5 DEF TypeOK
    <2>9. state' \in States /\ openedAt' \in Nat \cup {NoTime}
      BY <1>0, <2>5 DEF TypeOK, States
    <2>10. TypeOK'
      BY <1>0, <2>1, <2>2, <2>3, <2>4, <2>8, <2>9 DEF TypeOK
    <2> QED
      BY <2>2, <2>6, <2>7, <2>10 DEF BreakerInv
  <1>9. ASSUME Reset PROVE BreakerInv'
    <2>1. recent' \in Seq(Nat) /\ Len(recent') = 0
      BY <1>9 DEF Reset
    <2>2. TypeOK' /\ ReadingsArePast'
      BY <1>0, <1>9, <2>1 DEF Reset, TypeOK, ReadingsArePast, States, NoTime
    <2> QED
      BY <1>0, <1>9, <2>1, <2>2
      DEF Reset, BreakerInv, TypeOK, ProbeGateMatchesState, CooldownCanElapse,
          ClosedBelowThreshold, RecentIsBounded, CountIsRecent, NoTime
  <1>10. ASSUME Tick PROVE BreakerInv'
    <2>1. ReadingsArePast' /\ TypeOK'
      BY <1>0, <1>10 DEF Tick, ReadingsArePast, TypeOK, breaker
    <2> QED
      BY <1>0, <1>10, <2>1
      DEF Tick, BreakerInv, TypeOK, ProbeGateMatchesState, CooldownCanElapse,
          ClosedBelowThreshold, RecentIsBounded, CountIsRecent, breaker, NoTime
  <1>11. CASE UNCHANGED vars
    BY <1>11, <1>0, CallOnlyStep DEF vars, TypeOK, ReadingsArePast
  <1> QED
    BY <1>1, <1>2, <1>3, <1>4, <1>5, <1>6, <1>7, <1>8, <1>9, <1>10, <1>11
    DEF Next, UnattendedNext, CallStep, Outcome

\* The invariant holds of every behaviour of a breaker.
THEOREM BreakerInvariant == Spec => []BreakerInv
  BY BreakerInit, BreakerStep, PTL DEF Spec

\* Type correctness of the breaker's fields and of its callers' progress.
THEOREM BreakerTypes == Spec => []TypeOK
  <1>1. BreakerInv => TypeOK
    BY DEF BreakerInv
  <1> QED
    BY <1>1, BreakerInvariant, PTL

\* Whatever the interleaving of late outcomes, probes and resets, the probe
\* gate agrees with the state, an opened breaker can cool down, and a CLOSED
\* one is below its threshold (_before_call, _record_failure, _record_success).
THEOREM BreakerSafety ==
  Spec => [](ProbeGateMatchesState /\ CooldownCanElapse /\ ClosedBelowThreshold)
  <1>1. BreakerInv => ProbeGateMatchesState /\ CooldownCanElapse /\ ClosedBelowThreshold
    BY DEF BreakerInv
  <1> QED
    BY <1>1, BreakerInvariant, PTL

\* _record_failure opens a CLOSED breaker only on FailThreshold failures that
\* no success separates and that fall inside the window of the first.
THEOREM BreakerTrips == Spec => TripIsJustified
  <1> DEFINE Justified ==
        state = "CLOSED" /\ state' = "OPEN" =>
          /\ Len(recent') = FailThreshold
          /\ \A i \in DOMAIN recent' : recent'[i] - recent'[1] <= FailWindow
  <1>1. ASSUME BreakerInv, [Next]_vars PROVE [Justified]_vars
    <2>1. ASSUME NEW c \in Callers, RecordFailure(c) PROVE Justified
      BY <1>1, <2>1, FailureCounts
    <2>2. ASSUME NEW c \in Callers,
                 \/ Arrive(c) \/ AdmitClosed(c) \/ AdmitProbe(c) \/ Refuse(c)
                 \/ Raise(c) \/ RecordProbeFailure(c) \/ RecordProbeSuccess(c)
                 \/ RecordSuccess(c) \/ Cancel(c)
          PROVE  Justified
      BY <2>2 DEF Arrive, AdmitClosed, AdmitProbe, Refuse, Raise, RecordProbeFailure,
                  RecordProbeSuccess, RecordSuccess, Cancel, breaker
    <2>3. ASSUME Reset \/ Tick PROVE Justified
      BY <2>3 DEF Reset, Tick, breaker
    <2> QED
      BY <1>1, <2>1, <2>2, <2>3 DEF Next, UnattendedNext, CallStep, Outcome
  <1>2. BreakerInv /\ [Next]_vars => [Justified]_vars
    BY <1>1
  <1> QED
    BY <1>2, BreakerInvariant, PTL DEF Spec, TripIsJustified
-----------------------------------------------------------------------------
(***************************************************************************)
(* The table of devices, for any number of hubs and devices and of edits,  *)
(* failures and restarts.                                                  *)
(*                                                                         *)
(* SteadyStaysPresent speaks of the last step of a sweep.  Before that the *)
(* sweep owes each device that nothing has happened to something: a hub it *)
(* has still to read, an entry it has still to write, or a row written     *)
(* since it began (SteadyCovered).                                         *)
(***************************************************************************)
SweepSteps == {"rest", "fetch", "ingest", "present", "absent"}
\* A record with the fields of a sweep, and one with those of a row; what the
\* fields hold is of no matter here.
SweepLike(r) == r \in [at : SweepSteps, todo : {r.todo}, found : {r.found}, since : {r.since},
                       spoiled : {r.spoiled}]
RowLike(r) == r \in [ip : {r.ip}, num : {r.num}, hub : {r.hub}, label : {r.label}, dup : {r.dup},
                     present : {r.present}]
HubRows == [ip : Addresses, enabled : BOOLEAN, exists : BOOLEAN, primary : BOOLEAN]
RosterShapes ==
    /\ place \in [Things -> Hubs \cup {Gone}] /\ addr \in [Hubs -> Addresses] /\ config \in [Hubs -> HubRows]
    /\ DOMAIN sweep = Sweepers /\ sweep = [s \in Sweepers |-> sweep[s]] /\ \A s \in Sweepers : SweepLike(sweep[s])
    /\ desk \in [at : {"rest", "first", "patch", "mirror", "drop", "sweep"}, hub : {desk.hub}, change : {desk.change}]
    /\ desk.at # "rest" => desk.hub \in Hubs
    /\ \E S : rows \in Seq(S)
    /\ \A i \in DOMAIN rows : RowLike(rows[i])

\* No two hubs are at one address, nor taken to be.
AddressesApart == \A h, g \in Hubs : h # g => /\ addr[h] # addr[g] /\ config[g].ip # addr[h]
                                              /\ config[g].ip # config[h].ip
\* The pair of address and number is a key of the table.
KeysUnique == \A i, j \in DOMAIN rows : rows[i].ip = rows[j].ip /\ rows[i].num = rows[j].num => i = j

\* A hub that a sweep has still to read, and a device that it has read.
HubEntry(t) == [hub : {place[t]}, ip : {addr[place[t]]}, primary : BOOLEAN, num : {0}]
DeviceEntry(t) == [ip : {addr[place[t]]}, num : {NumberOf[t]}, hub : {place[t]}, label : {LabelOf[t]},
                   primary : BOOLEAN, dup : BOOLEAN]
\* Every row that stands for the device has been written since the sweep began; and
\* there is one if rows may be about to follow its hub to its address.
Written(s, t) == /\ \A i \in DOMAIN rows : RowFor(i, t) => i \in sweep[s].since
                 /\ desk.at = "mirror" /\ desk.hub = place[t] => \E i \in DOMAIN rows : RowFor(i, t)
\* What a sweep has done for a device that nothing has happened to.
Covers(s, t) ==
    /\ Live(t)
    /\ sweep[s].at = "fetch" => \/ \E c \in sweep[s].todo : c \in HubEntry(t)
                                \/ \E e \in sweep[s].found : e \in DeviceEntry(t)
    /\ sweep[s].at = "ingest" => \/ \E e \in sweep[s].found : e \in DeviceEntry(t)
                                 \/ Written(s, t)
    /\ sweep[s].at \in {"present", "absent"} => Written(s, t)
SteadyCovered == \A s \in Sweepers : sweep[s].at # "rest" =>
                    \A t \in Things \ sweep[s].spoiled : Covers(s, t)
RosterInv == RosterShapes /\ AddressesApart /\ KeysUnique /\ SteadyCovered

-----------------------------------------------------------------------------
\* Nothing is under way at first, and the table is empty.
LEMMA RosterInvInit == RosterInit => RosterInv
<1> SUFFICES ASSUME RosterInit PROVE RosterInv
  OBVIOUS
<1>1. addr \in [Hubs -> Addresses] /\ \A h, g \in Hubs : h # g => addr[h] # addr[g]
  BY RosterAssumption DEF RosterInit
<1>2. config \in [Hubs -> HubRows] /\ \A h \in Hubs : config[h].ip = addr[h]
  BY <1>1 DEF RosterInit, HubRows
<1>3. place \in [Things -> Hubs \cup {Gone}]
  BY RosterAssumption DEF RosterInit
<1>4. rows \in Seq({}) /\ DOMAIN rows = {}
  BY DEF RosterInit
<1>5. /\ DOMAIN sweep = Sweepers /\ sweep = [s \in Sweepers |-> sweep[s]]
      /\ \A s \in Sweepers : SweepLike(sweep[s]) /\ sweep[s].at = "rest"
  BY DEF RosterInit, SweepLike, Resting, SweepSteps
<1>6. desk \in [at : {"rest"}, hub : {desk.hub}, change : {desk.change}] /\ desk.at = "rest"
  BY DEF RosterInit, NoEdit
<1>7. RosterShapes
  BY <1>1, <1>2, <1>3, <1>4, <1>5, <1>6 DEF RosterShapes
<1>8. QED
  BY <1>1, <1>2, <1>4, <1>5, <1>7 DEF RosterInv, AddressesApart, KeysUnique, SteadyCovered

\* A sequence grows by one.
LEMMA AppendEffect ==
    ASSUME NEW S, NEW q \in Seq(S), NEW x
    PROVE  /\ Append(q, x) \in Seq(S \cup {x})
           /\ DOMAIN q = 1..Len(q) /\ Len(q) \in Nat /\ Len(q) + 1 \notin DOMAIN q
           /\ DOMAIN Append(q, x) = DOMAIN q \cup {Len(q) + 1}
           /\ \A i \in DOMAIN q : Append(q, x)[i] = q[i]
           /\ Append(q, x)[Len(q) + 1] = x
<1>1. q \in Seq(S \cup {x}) /\ x \in S \cup {x}
  OBVIOUS
<1>2. QED
  BY <1>1

\* A function on 1..n is a sequence.
LEMMA FunctionIsSeq ==
    ASSUME NEW q, NEW n \in Nat, q = [i \in 1..n |-> q[i]]
    PROVE  \E S : q \in Seq(S)
<1> DEFINE S == {q[i] : i \in 1..n}
<1>1. q \in [1..n -> S]
  OBVIOUS
<1> HIDE DEF S
<1>2. q \in Seq(S)
  BY <1>1
<1>3. QED
  BY <1>2

\* A step that rewrites rows in place.
LEMMA RewrittenRows ==
    ASSUME RosterShapes, NEW f, f = [i \in DOMAIN rows |-> f[i]]
    PROVE  (\E S : f \in Seq(S)) /\ DOMAIN f = DOMAIN rows
<1>1. PICK S : rows \in Seq(S)
  BY DEF RosterShapes
<1>2. DOMAIN rows = 1..Len(rows) /\ Len(rows) \in Nat
  BY <1>1
<1>3. QED
  BY <1>2, FunctionIsSeq

\* Upserts writes the row with the entry's key: it was there, or is the last one now.
LEMMA UpsertEffect ==
    ASSUME RosterInv, NEW e, NEW label, NEW dup, Upserts(e, label, dup)
    PROVE  /\ \E S : rows' \in Seq(S)
           /\ \A i \in DOMAIN rows' : RowLike(rows'[i])
           /\ DOMAIN rows' = DOMAIN rows \cup {Spot(e.ip, e.num)}
           /\ \A i \in DOMAIN rows : /\ rows'[i].ip = rows[i].ip /\ rows'[i].num = rows[i].num
                                     /\ rows'[i].present = rows[i].present
           /\ rows'[Spot(e.ip, e.num)].ip = e.ip /\ rows'[Spot(e.ip, e.num)].num = e.num
           /\ \A i \in DOMAIN rows' : rows'[i].ip = e.ip /\ rows'[i].num = e.num => i = Spot(e.ip, e.num)
           /\ KeysUnique'
<1> DEFINE new(p) == [ip |-> e.ip, num |-> e.num, hub |-> e.hub, label |-> label, dup |-> dup, present |-> p]
           old == KeyOf(e.ip, e.num)
<1>9. PICK spot : spot = Spot(e.ip, e.num)
  OBVIOUS
<1>0. PICK S : rows \in Seq(S)
  BY DEF RosterInv, RosterShapes
<1>1. \A i \in DOMAIN rows : RowLike(rows[i])
  BY DEF RosterInv, RosterShapes
<1>2. KeysUnique
  BY DEF RosterInv
<1>4. rows' = IF old = {} THEN Append(rows, new(TRUE))
              ELSE [i \in DOMAIN rows |-> IF i \in old THEN new(rows[i].present) ELSE rows[i]]
  BY DEF Upserts
<1>5. \A i : i \in old <=> i \in DOMAIN rows /\ rows[i].ip = e.ip /\ rows[i].num = e.num
  BY DEF KeyOf
<1>6. CASE old = {}
  <2>0. PICK r : r = new(TRUE)
    OBVIOUS
  <2>1. spot = Len(rows) + 1 /\ rows' = Append(rows, r)
    BY <1>4, <1>6, <1>9, <2>0 DEF Spot
  <2>2. RowLike(r) /\ r.ip = e.ip /\ r.num = e.num
    BY <2>0 DEF RowLike
  <2> HIDE DEF new, old
  <2>3. /\ rows' \in Seq(S \cup {r})
        /\ spot \notin DOMAIN rows
        /\ DOMAIN rows' = DOMAIN rows \cup {spot}
        /\ \A i \in DOMAIN rows : rows'[i] = rows[i]
        /\ rows'[spot] = r
    <3>1. /\ Append(rows, r) \in Seq(S \cup {r})
          /\ Len(rows) + 1 \notin DOMAIN rows
          /\ DOMAIN Append(rows, r) = DOMAIN rows \cup {Len(rows) + 1}
          /\ \A i \in DOMAIN rows : Append(rows, r)[i] = rows[i]
          /\ Append(rows, r)[Len(rows) + 1] = r
      BY <1>0, AppendEffect
    <3>2. QED
      BY <2>1, <3>1, Zenon
  <2>4. \A i \in DOMAIN rows' : RowLike(rows'[i])
    BY <2>2, <2>3, <1>1
  <2>5. \A i \in DOMAIN rows' : rows'[i].ip = e.ip /\ rows'[i].num = e.num => i = spot
    BY <2>3, <1>5, <1>6
  <2>6. KeysUnique'
    BY <2>2, <2>3, <2>5, <1>2 DEF KeysUnique
  <2>7. QED
    BY <1>9, <2>2, <2>3, <2>4, <2>5, <2>6
<1>7. CASE old # {}
  <2>1. spot \in old /\ rows' = [i \in DOMAIN rows |-> IF i \in old THEN new(rows[i].present) ELSE rows[i]]
    BY <1>4, <1>7, <1>9 DEF Spot
  <2>2. \A i : i \in old <=> i = spot
    BY <2>1, <1>2, <1>5 DEF KeysUnique
  <2>0. PICK r : r = new(rows[spot].present)
    OBVIOUS
  <2>3. RowLike(r) /\ r.ip = e.ip /\ r.num = e.num /\ r.present = rows[spot].present
    BY <2>0 DEF RowLike
  <2>4. rows' = [i \in DOMAIN rows |-> IF i = spot THEN r ELSE rows[i]] /\ spot \in DOMAIN rows
    BY <2>0, <2>1, <2>2, <1>5
  <2>5. rows[spot].ip = e.ip /\ rows[spot].num = e.num
    BY <2>1, <1>5
  <2> HIDE DEF new, old
  <2>6. (\E T : rows' \in Seq(T)) /\ DOMAIN rows' = DOMAIN rows
    BY <2>4, RewrittenRows DEF RosterInv
  <2>7. rows'[spot] = r /\ \A i \in DOMAIN rows : i # spot => rows'[i] = rows[i]
    BY <2>4
  <2>8. \A i \in DOMAIN rows' : RowLike(rows'[i])
    BY <2>3, <2>6, <2>7, <1>1
  <2>9. \A i \in DOMAIN rows : /\ rows'[i].ip = rows[i].ip /\ rows'[i].num = rows[i].num
                               /\ rows'[i].present = rows[i].present
    BY <2>3, <2>5, <2>7
  <2>10. KeysUnique'
    BY <2>6, <2>9, <1>2 DEF KeysUnique
  <2>11. \A i \in DOMAIN rows' : rows'[i].ip = e.ip /\ rows'[i].num = e.num => i = spot
    BY <2>4, <2>5, <2>6, <2>9, <1>2 DEF KeysUnique
  <2>12. QED
    BY <1>9, <2>3, <2>4, <2>6, <2>7, <2>8, <2>9, <2>10, <2>11
<1>8. QED
  BY <1>6, <1>7
-----------------------------------------------------------------------------
(* What leaves a sweep's work as it is *)

\* Nothing that decides where a device is, and nobody comes to the step at which
\* rows follow their hub.
Calm == /\ place' = place /\ addr' = addr
        /\ \A h \in Hubs : /\ config'[h].exists = config[h].exists /\ config'[h].ip = config[h].ip
                           /\ config'[h].enabled = config[h].enabled
        /\ desk'.at = "mirror" => desk' = desk
\* Rows keep their keys, and a new one is noted.
RowsGrow(s) == /\ DOMAIN rows \subseteq DOMAIN rows'
               /\ \A i \in DOMAIN rows : rows'[i].ip = rows[i].ip /\ rows'[i].num = rows[i].num
               /\ \A i \in DOMAIN rows' : i \in DOMAIN rows \/ i \in sweep'[s].since
\* The sweep goes on, at most with more rows noted or more devices spoiled.
SweepGoesOn(s) == /\ sweep'[s].at = sweep[s].at /\ sweep'[s].todo = sweep[s].todo
                  /\ sweep'[s].found = sweep[s].found /\ sweep[s].since \subseteq sweep'[s].since
                  /\ sweep[s].spoiled \subseteq sweep'[s].spoiled

\* A device that a sweep can see stays one, at the same address.
LEMMA LiveStays ==
    ASSUME RosterInv, Calm, NEW t \in Things
    PROVE  /\ Live(t)' <=> Live(t)
           /\ HubEntry(t)' = HubEntry(t) /\ DeviceEntry(t)' = DeviceEntry(t)
  BY RosterAssumption DEF Calm, Live, HubEntry, DeviceEntry, RosterInv, RosterShapes

\* What was written since a sweep began stays so while rows keep their keys.
LEMMA WrittenStays ==
    ASSUME RosterInv, Calm, NEW s \in Sweepers, NEW t \in Things, RowsGrow(s), Written(s, t),
           sweep[s].since \subseteq sweep'[s].since
    PROVE  Written(s, t)'
<1>1. \A i \in DOMAIN rows : RowFor(i, t)' <=> RowFor(i, t)
  BY DEF Calm, RowsGrow, RowFor
<1>2. \A i \in DOMAIN rows' : RowFor(i, t)' => i \in sweep'[s].since
  BY <1>1 DEF RowsGrow, Written
<1>3. ASSUME desk'.at = "mirror", desk'.hub = place'[t] PROVE \E i \in DOMAIN rows' : RowFor(i, t)'
  BY <1>1, <1>3 DEF Written, RowsGrow, Calm
<1>4. QED
  BY <1>2, <1>3 DEF Written

\* What a sweep has done for a device is not undone by a calm step of others.
LEMMA CoversStays ==
    ASSUME RosterInv, Calm, NEW s \in Sweepers, RowsGrow(s), SweepGoesOn(s), sweep[s].at # "rest",
           NEW t \in Things \ sweep'[s].spoiled
    PROVE  Covers(s, t)'
<1>1. t \in Things \ sweep[s].spoiled
  BY DEF SweepGoesOn
<1>2. Covers(s, t)
  BY <1>1 DEF RosterInv, SteadyCovered
<1>3. Live(t)' /\ HubEntry(t)' = HubEntry(t) /\ DeviceEntry(t)' = DeviceEntry(t)
  BY <1>2, LiveStays DEF Covers
<1>4. Written(s, t) => Written(s, t)'
  BY WrittenStays DEF SweepGoesOn
<1>5. QED
  BY <1>2, <1>3, <1>4 DEF Covers, SweepGoesOn

\* Steps that change no address, no key and no sweep.
LEMMA UnmovedKeeps ==
    ASSUME RosterInv, RosterShapes', Calm, sweep' = sweep, DOMAIN rows' = DOMAIN rows,
           \A i \in DOMAIN rows : rows'[i].ip = rows[i].ip /\ rows'[i].num = rows[i].num
    PROVE  RosterInv'
<1>1. AddressesApart'
  BY DEF RosterInv, AddressesApart, Calm
<1>2. KeysUnique'
  BY DEF RosterInv, KeysUnique
<1>3. \A s \in Sweepers : RowsGrow(s) /\ SweepGoesOn(s)
  BY DEF RowsGrow, SweepGoesOn
<1>4. SteadyCovered'
  BY <1>3, CoversStays DEF SteadyCovered
<1>5. QED
  BY <1>1, <1>2, <1>4 DEF RosterInv

-----------------------------------------------------------------------------
(* The desk and the clerk *)

\* Requests that begin or end, and the clerk's reading.
LEMMA ReadersKeep ==
    ASSUME RosterInv, \/ \E h \in Hubs : EditHub(h)
                      \/ \E c \in DOMAIN rows, r \in BOOLEAN : Ask(c, r)
                      \/ Keep \/ ByNumber \/ FetchOne
    PROVE  RosterInv'
<1>1. CASE \E h \in Hubs : EditHub(h)
  <2>1. PICK h \in Hubs, change \in {"ip", "enable", "primary", "delete"} : Edits(h, change)
    BY <1>1 DEF EditHub
  <2>2. RosterShapes'
    BY <2>1 DEF Edits, RosterInv, RosterShapes, caches
  <2>3. Calm
    BY <2>1 DEF Edits, Calm
  <2>4. QED
    BY <2>1, <2>2, <2>3, UnmovedKeeps DEF Edits
<1>2. ASSUME UNCHANGED <<place, addr, config, rows, sweep, desk>> PROVE RosterInv'
  <2>1. RosterShapes'
    BY <1>2 DEF RosterInv, RosterShapes
  <2>2. Calm
    BY <1>2 DEF Calm
  <2>3. QED
    BY <1>2, <2>1, <2>2, UnmovedKeeps
<1>3. QED
  BY <1>1, <1>2 DEF Ask, Keep, ByNumber, FetchOne

\* Two of the edits leave addresses and keys alone.
LEMMA ClearPrimariesKeeps == ASSUME RosterInv, ClearPrimaries PROVE RosterInv'
<1>1. /\ config' \in [Hubs -> HubRows]
      /\ \A h \in Hubs : /\ config'[h].exists = config[h].exists /\ config'[h].ip = config[h].ip
                         /\ config'[h].enabled = config[h].enabled
  <2>1. config \in [Hubs -> HubRows]
    BY DEF RosterInv, RosterShapes
  <2>2. CASE config' = config
    BY <2>1, <2>2
  <2>3. CASE config' = [h \in Hubs |-> IF h = desk.hub THEN config[h] ELSE [config[h] EXCEPT !.primary = FALSE]]
    BY <2>1, <2>3 DEF HubRows
  <2>4. QED
    BY <2>2, <2>3 DEF ClearPrimaries
<1>2. desk' = [desk EXCEPT !.at = "patch"] /\ UNCHANGED <<place, addr, rows, sweep>> /\ desk.at = "first"
  BY DEF ClearPrimaries
<1>3. RosterShapes'
  BY <1>1, <1>2 DEF RosterInv, RosterShapes
<1>4. Calm
  BY <1>1, <1>2 DEF Calm, RosterInv, RosterShapes
<1>5. QED
  BY <1>2, <1>3, <1>4, UnmovedKeeps

\* The rows of a hub that is to be deleted get another hub; their keys stay.
LEMMA ReassignKeeps == ASSUME RosterInv, Reassign PROVE RosterInv'
<1>1. /\ UNCHANGED <<place, addr, config, sweep>> /\ desk.at = "first"
      /\ desk' \in {[desk EXCEPT !.at = "drop"], NoEdit}
  BY DEF Reassign, DeskRests
<1>2. /\ rows' = [i \in DOMAIN rows |-> rows'[i]]
      /\ \A i \in DOMAIN rows : /\ rows'[i].ip = rows[i].ip /\ rows'[i].num = rows[i].num
                                /\ RowLike(rows'[i])
  <2>1. \A i \in DOMAIN rows : RowLike(rows[i])
    BY DEF RosterInv, RosterShapes
  <2>2. CASE rows' = rows
    <3>1. \E S : rows \in Seq(S)
      BY DEF RosterInv, RosterShapes
    <3>2. QED
      BY <2>1, <2>2, <3>1
  <2>3. ASSUME NEW g, rows' = [i \in DOMAIN rows |-> IF rows[i].hub = desk.hub THEN [rows[i] EXCEPT !.hub = g]
                                                     ELSE rows[i]]
        PROVE  /\ rows' = [i \in DOMAIN rows |-> rows'[i]]
               /\ \A i \in DOMAIN rows : /\ rows'[i].ip = rows[i].ip /\ rows'[i].num = rows[i].num
                                         /\ RowLike(rows'[i])
    BY <2>1, <2>3 DEF RowLike
  <2>4. QED
    BY <2>2, <2>3 DEF Reassign
<1>3. (\E S : rows' \in Seq(S)) /\ DOMAIN rows' = DOMAIN rows
  BY <1>2, RewrittenRows DEF RosterInv
<1>4. RosterShapes'
  BY <1>1, <1>2, <1>3 DEF RosterInv, RosterShapes, NoEdit
<1>5. Calm
  BY <1>1 DEF Calm, NoEdit, RosterInv, RosterShapes
<1>6. QED
  BY <1>1, <1>2, <1>3, <1>4, <1>5, UnmovedKeeps

-----------------------------------------------------------------------------
(* What happens to devices and hubs is held against the sweeps *)

\* Devices outside ts stay where they are, and so do their hubs and their keys.
LEMMA SpoilKeeps ==
    ASSUME RosterInv, RosterShapes', AddressesApart', NEW ts, sweep' = Spoil(ts), rows' = rows,
           \A t \in Things \ ts : /\ place'[t] = place[t]
                                  /\ place[t] # Gone => /\ addr'[place[t]] = addr[place[t]]
                                                        /\ config'[place[t]].ip = config[place[t]].ip
                                                        /\ config'[place[t]].enabled = config[place[t]].enabled
                                                        /\ config'[place[t]].exists = config[place[t]].exists,
           \A t \in Things \ ts : desk'.at = "mirror" => desk'.hub # place[t] \/ desk' = desk
    PROVE  RosterInv'
<1>1. KeysUnique'
  BY DEF RosterInv, KeysUnique
<1>2. ASSUME NEW s \in Sweepers, sweep'[s].at # "rest", NEW t \in Things \ sweep'[s].spoiled
      PROVE  Covers(s, t)'
  <2>1. /\ sweep[s].at # "rest" /\ sweep'[s].at = sweep[s].at /\ sweep'[s].todo = sweep[s].todo
        /\ sweep'[s].found = sweep[s].found /\ sweep'[s].since = sweep[s].since
        /\ t \notin ts /\ t \notin sweep[s].spoiled
    BY <1>2 DEF Spoil, RosterInv, RosterShapes, SweepLike
  <2>2. Covers(s, t)
    BY <2>1 DEF RosterInv, SteadyCovered
  <2>3. place[t] # Gone /\ place'[t] = place[t] /\ addr'[place[t]] = addr[place[t]]
    BY <2>1, <2>2 DEF Covers, Live
  <2>4. Live(t)' /\ HubEntry(t)' = HubEntry(t) /\ DeviceEntry(t)' = DeviceEntry(t)
    BY <2>1, <2>2, <2>3 DEF Covers, Live, HubEntry, DeviceEntry
  <2>5. \A i : RowFor(i, t)' <=> RowFor(i, t)
    BY <2>3 DEF RowFor
  <2>6. Written(s, t) => Written(s, t)'
    BY <2>1, <2>3, <2>5 DEF Written
  <2>7. QED
    BY <2>1, <2>2, <2>4, <2>6 DEF Covers
<1>3. QED
  BY <1>1, <1>2 DEF RosterInv, SteadyCovered

\* What Spoil makes of the sweeps has their form.
LEMMA SpoilShape ==
    ASSUME RosterShapes, NEW ts
    PROVE  /\ DOMAIN Spoil(ts) = Sweepers /\ Spoil(ts) = [s \in Sweepers |-> Spoil(ts)[s]]
           /\ \A s \in Sweepers : SweepLike(Spoil(ts)[s])
  BY DEF RosterShapes, Spoil, SweepLike

\* Hands in the house.
LEMMA DeviceMovesKeeps == ASSUME RosterInv, DeviceMoves PROVE RosterInv'
<1>1. PICK t \in Things, h \in Hubs \cup {Gone} :
        /\ place' = [place EXCEPT ![t] = h] /\ sweep' = Spoil({t})
        /\ UNCHANGED <<addr, config, rows, desk>>
  BY DEF DeviceMoves
<1>2. RosterShapes'
  BY <1>1, SpoilShape DEF RosterInv, RosterShapes
<1>3. AddressesApart'
  BY <1>1 DEF RosterInv, AddressesApart
<1>4. QED
  BY <1>1, <1>2, <1>3, SpoilKeeps DEF RosterInv, RosterShapes

LEMMA HubMovesKeeps == ASSUME RosterInv, HubMoves PROVE RosterInv'
<1>1. PICK h \in Hubs, a \in Addresses :
        /\ \A g \in Hubs : addr[g] # a /\ config[g].ip # a
        /\ addr' = [addr EXCEPT ![h] = a] /\ sweep' = Spoil(On(h))
        /\ UNCHANGED <<place, config, rows, desk>>
  BY DEF HubMoves
<1>2. RosterShapes'
  BY <1>1, SpoilShape DEF RosterInv, RosterShapes
<1>3. AddressesApart'
  BY <1>1 DEF RosterInv, RosterShapes, AddressesApart
<1>4. \A t \in Things \ On(h) : place[t] # h
  BY DEF On
<1>5. QED
  BY <1>1, <1>2, <1>3, <1>4, SpoilKeeps DEF RosterInv, RosterShapes

\* An entry of hub_config is changed to what the hub is, or made or dropped.
LEMMA ConfigKeeps ==
    ASSUME RosterInv, NEW h \in Hubs, NEW c \in HubRows, c.ip \in {config[h].ip, addr[h]},
           config' = [config EXCEPT ![h] = c], sweep' = Spoil(On(h)), UNCHANGED <<place, addr, rows>>,
           desk' \in [at : {"rest", "mirror", "sweep"}, hub : {desk'.hub}, change : {desk'.change}],
           desk'.at # "rest" => desk'.hub = h
    PROVE  RosterInv'
<1>1. RosterShapes'
  BY SpoilShape DEF RosterInv, RosterShapes
<1>2. AddressesApart'
  BY DEF RosterInv, RosterShapes, AddressesApart
<1>3. \A t \in Things \ On(h) : place[t] # h
  BY DEF On
<1>4. QED
  BY <1>1, <1>2, <1>3, SpoilKeeps DEF RosterInv, RosterShapes

\* A new address, or the switch that enables a hub, is held against the sweeps.
LEMMA PatchHubKeeps == ASSUME RosterInv, PatchHub PROVE RosterInv'
<1>1. desk.hub \in Hubs /\ desk.at \in {"first", "patch"} /\ UNCHANGED <<place, addr, rows>>
  BY DEF PatchHub, RosterInv, RosterShapes
<1>2. CASE Trouble /\ DeskRests /\ UNCHANGED <<config, sweep, caches>>
  <2>1. RosterShapes' /\ Calm
    BY <1>1, <1>2 DEF DeskRests, NoEdit, RosterInv, RosterShapes, Calm
  <2>2. QED
    BY <1>1, <1>2, <2>1, UnmovedKeeps
<1>3. CASE /\ config' = [config EXCEPT ![desk.hub] = Changed(desk.hub, desk.change)]
           /\ sweep' = Spoil(On(desk.hub))
           /\ \/ desk' = [desk EXCEPT !.at = "mirror"]
              \/ DeskRests
  <2>1. Changed(desk.hub, desk.change) \in HubRows
        /\ Changed(desk.hub, desk.change).ip \in {config[desk.hub].ip, addr[desk.hub]}
    BY <1>1 DEF Changed, RosterInv, RosterShapes, HubRows
  <2>2. /\ desk' \in [at : {"rest", "mirror", "sweep"}, hub : {desk'.hub}, change : {desk'.change}]
        /\ desk'.at # "rest" => desk'.hub = desk.hub
    BY <1>3 DEF DeskRests, NoEdit, RosterInv, RosterShapes
  <2>3. QED
    BY <1>1, <1>3, <2>1, <2>2, ConfigKeeps
<1>4. QED
  BY <1>2, <1>3 DEF PatchHub

\* So is the end of a hub.
LEMMA DropHubKeeps == ASSUME RosterInv, DropHub PROVE RosterInv'
<1>1. desk.hub \in Hubs /\ desk.at = "drop" /\ UNCHANGED <<place, addr, rows>>
  BY DEF DropHub, RosterInv, RosterShapes
<1>2. CASE DeskRests /\ UNCHANGED <<config, caches, sweep>>
  <2>1. RosterShapes' /\ Calm
    BY <1>1, <1>2 DEF DeskRests, NoEdit, RosterInv, RosterShapes, Calm
  <2>2. QED
    BY <1>1, <1>2, <2>1, UnmovedKeeps
<1>3. CASE /\ config' = [config EXCEPT ![desk.hub].exists = FALSE]
           /\ sweep' = Spoil(On(desk.hub)) /\ desk' = [desk EXCEPT !.at = "sweep"]
  <2>1. PICK c : c = [config[desk.hub] EXCEPT !.exists = FALSE]
    OBVIOUS
  <2>2. c \in HubRows /\ c.ip = config[desk.hub].ip /\ config' = [config EXCEPT ![desk.hub] = c]
    BY <1>1, <1>3, <2>1 DEF RosterInv, RosterShapes, HubRows
  <2>3. /\ desk' \in [at : {"rest", "mirror", "sweep"}, hub : {desk'.hub}, change : {desk'.change}]
        /\ desk'.at # "rest" => desk'.hub = desk.hub
    BY <1>3 DEF RosterInv, RosterShapes
  <2>4. QED
    BY <1>1, <1>3, <2>2, <2>3, ConfigKeeps
<1>4. QED
  BY <1>2, <1>3 DEF DropHub

\* And a new hub under an old key.
LEMMA CreateHubKeeps == ASSUME RosterInv, NEW h \in Hubs, CreateHub(h) PROVE RosterInv'
<1>1. PICK p \in BOOLEAN : config' = [config EXCEPT ![h] = [ip |-> addr[h], enabled |-> TRUE, exists |-> TRUE,
                                                            primary |-> p]]
  BY DEF CreateHub
<1>2. /\ sweep' = Spoil(On(h)) /\ UNCHANGED <<place, addr, rows, desk>> /\ desk.at = "rest"
  BY DEF CreateHub
<1>3. [ip |-> addr[h], enabled |-> TRUE, exists |-> TRUE, primary |-> p] \in HubRows
  BY DEF RosterInv, RosterShapes, HubRows
<1>4. desk' \in [at : {"rest", "mirror", "sweep"}, hub : {desk'.hub}, change : {desk'.change}] /\ desk'.at = "rest"
  BY <1>2 DEF RosterInv, RosterShapes
<1>5. QED
  BY <1>1, <1>2, <1>3, <1>4, ConfigKeeps

\* A restart forgets the sweeps.
LEMMA RosterRestartKeeps == ASSUME RosterInv, RosterRestart PROVE RosterInv'
<1>1. /\ UNCHANGED <<place, addr, config, rows>> /\ desk' = NoEdit
      /\ sweep' = [s \in Sweepers |-> Resting]
  BY DEF RosterRestart
<1>2. RosterShapes'
  BY <1>1 DEF RosterInv, RosterShapes, NoEdit, Resting, SweepLike, SweepSteps
<1>3. AddressesApart' /\ KeysUnique'
  BY <1>1 DEF RosterInv, AddressesApart, KeysUnique
<1>4. \A s \in Sweepers : sweep'[s].at = "rest"
  BY <1>1 DEF Resting
<1>5. QED
  BY <1>2, <1>3, <1>4 DEF RosterInv, SteadyCovered
-----------------------------------------------------------------------------
(* Rows follow their hub *)

\* The rows of a hub follow it to its address.  A row that comes to stand for a
\* device by that would not be noted in a sweep; but a device that a sweep
\* answers for has a row at that address already, and the update is refused.
LEMMA MirrorAddressKeeps == ASSUME RosterInv, MirrorAddress PROVE RosterInv'
<1> DEFINE h == desk.hub
           ip == config[h].ip
<1>1. /\ h \in Hubs /\ desk.at = "mirror" /\ desk' = NoEdit /\ UNCHANGED <<place, addr, config, sweep>>
  BY DEF MirrorAddress, DeskRests, RosterInv, RosterShapes
<1>2. Calm
  BY <1>1 DEF Calm, NoEdit
<1>3. CASE rows' = rows
  <2>1. RosterShapes'
    BY <1>1, <1>3 DEF RosterInv, RosterShapes, NoEdit
  <2>2. QED
    BY <1>1, <1>2, <1>3, <2>1, UnmovedKeeps
<1>4. CASE /\ ~Clash(h, ip)
           /\ rows' = [i \in DOMAIN rows |-> IF rows[i].hub = h THEN [rows[i] EXCEPT !.ip = ip] ELSE rows[i]]
  <2>1. \A i \in DOMAIN rows : RowLike(rows[i])
    BY DEF RosterInv, RosterShapes
  <2>2. \A i \in DOMAIN rows : /\ rows'[i].ip = (IF rows[i].hub = h THEN ip ELSE rows[i].ip)
                               /\ rows'[i].num = rows[i].num /\ RowLike(rows'[i])
    BY <2>1, <1>4 DEF RowLike
  <2>3. (\E S : rows' \in Seq(S)) /\ DOMAIN rows' = DOMAIN rows
    <3>1. rows' = [i \in DOMAIN rows |-> rows'[i]]
      BY <1>4
    <3>2. QED
      BY <3>1, RewrittenRows DEF RosterInv
  <2>4. RosterShapes'
    BY <1>1, <2>2, <2>3 DEF RosterInv, RosterShapes, NoEdit
  <2>5. AddressesApart'
    BY <1>1 DEF RosterInv, AddressesApart
  <2> HIDE DEF h, ip
  <2>6. KeysUnique'
    <3>1. SUFFICES ASSUME NEW i \in DOMAIN rows, NEW j \in DOMAIN rows, i # j, rows[i].num = rows[j].num,
                          rows'[i].ip = rows'[j].ip
                   PROVE  FALSE
      BY <2>2, <2>3 DEF KeysUnique
    <3>2. rows[i].ip # rows[j].ip
      BY <3>1 DEF RosterInv, KeysUnique
    <3>3. QED
      BY <1>4, <2>2, <3>1, <3>2 DEF Clash
  <2>7. ASSUME NEW s \in Sweepers, sweep[s].at # "rest", NEW t \in Things \ sweep[s].spoiled
        PROVE  Covers(s, t)'
    <3>1. Covers(s, t)
      BY <2>7 DEF RosterInv, SteadyCovered
    <3>2. Live(t)' /\ HubEntry(t)' = HubEntry(t) /\ DeviceEntry(t)' = DeviceEntry(t)
      BY <1>2, <3>1, LiveStays DEF Covers
    <3>3. place[t] \in Hubs /\ config[place[t]].ip = addr[place[t]]
      BY <3>1, RosterAssumption DEF Covers, Live, RosterInv, RosterShapes
    <3>4. Written(s, t) => Written(s, t)'
      <4>1. SUFFICES ASSUME Written(s, t), NEW i \in DOMAIN rows, RowFor(i, t)' PROVE i \in sweep[s].since
        BY <1>1, <2>3 DEF Written, NoEdit
      <4>2. rows'[i].ip = addr[place[t]] /\ rows[i].num = NumberOf[t]
        BY <1>1, <2>2, <4>1 DEF RowFor
      <4>3. CASE rows[i].ip = addr[place[t]]
        BY <3>1, <4>1, <4>2, <4>3 DEF Written, RowFor, Covers, Live
      <4>4. CASE rows[i].ip # addr[place[t]]
        <5>1. rows[i].hub = h /\ ip = addr[place[t]]
          BY <2>2, <4>2, <4>4
        <5>2. h = place[t]
          BY <1>1, <3>3, <5>1 DEF RosterInv, AddressesApart, h, ip
        <5>3. PICK j \in DOMAIN rows : RowFor(j, t)
          BY <1>1, <4>1, <5>2 DEF Written, h
        <5>4. j # i /\ rows[j].ip = ip /\ rows[j].num = rows[i].num
          BY <4>2, <4>4, <5>1, <5>3 DEF RowFor
        <5>5. QED
          BY <1>4, <5>1, <5>4 DEF Clash
      <4>5. QED
        BY <4>3, <4>4
    <3>5. QED
      BY <1>1, <3>1, <3>2, <3>4 DEF Covers
  <2>8. QED
    BY <1>1, <2>4, <2>5, <2>6, <2>7 DEF RosterInv, SteadyCovered
<1>5. QED
  BY <1>1, <1>3, <1>4 DEF MirrorAddress

-----------------------------------------------------------------------------
(* A sweep *)

\* A step of one sweep that touches no row leaves the others what they are.
LEMMA SweepStepKeeps ==
    ASSUME RosterInv, NEW s \in Sweepers, NEW r, SweepLike(r), sweep' = [sweep EXCEPT ![s] = r],
           UNCHANGED <<place, addr, config>>, desk' \in {desk, NoEdit}, RosterShapes',
           DOMAIN rows' = DOMAIN rows,
           \A i \in DOMAIN rows : rows'[i].ip = rows[i].ip /\ rows'[i].num = rows[i].num,
           r.at # "rest" => \A t \in Things \ r.spoiled : Covers(s, t)'
    PROVE  RosterInv'
<1>1. Calm
  BY DEF Calm, NoEdit
<1>2. sweep'[s] = r /\ \A q \in Sweepers \ {s} : sweep'[q] = sweep[q]
  BY DEF RosterInv, RosterShapes
<1>3. AddressesApart' /\ KeysUnique'
  BY DEF RosterInv, AddressesApart, KeysUnique
<1>4. \A q \in Sweepers \ {s} : RowsGrow(q) /\ SweepGoesOn(q)
  BY <1>2 DEF RowsGrow, SweepGoesOn
<1>5. \A q \in Sweepers \ {s} : sweep'[q].at # "rest" => \A t \in Things \ sweep'[q].spoiled : Covers(q, t)'
  BY <1>1, <1>2, <1>4, CoversStays
<1>6. SteadyCovered'
  BY <1>2, <1>5 DEF SteadyCovered
<1>7. QED
  BY <1>3, <1>6 DEF RosterInv

\* One sweep is replaced by what has the form of one.
LEMMA SweepShapes ==
    ASSUME RosterShapes, NEW s \in Sweepers, NEW r, SweepLike(r), sweep' = [sweep EXCEPT ![s] = r],
           UNCHANGED <<place, addr, config>>, desk' \in {desk, NoEdit}, \E S : rows' \in Seq(S),
           \A i \in DOMAIN rows' : RowLike(rows'[i])
    PROVE  RosterShapes'
  BY DEF RosterShapes, NoEdit

\* A sweep begins with every hub whose devices it answers for.
LEMMA SweepStartsKeeps == ASSUME RosterInv, NEW s \in Sweepers, SweepStarts(s) PROVE RosterInv'
<1> DEFINE cfgs == {h \in Hubs : config[h].exists /\ config[h].enabled}
           hubs == {[hub |-> h, ip |-> config[h].ip, primary |-> config[h].primary, num |-> 0] : h \in cfgs}
<1>1. PICK r : /\ sweep' = [sweep EXCEPT ![s] = r]
               /\ r = IF cfgs = {} THEN Resting
                      ELSE [at |-> "fetch", todo |-> hubs, found |-> {}, since |-> {},
                            spoiled |-> {t \in Things : ~Live(t)}]
  BY DEF SweepStarts
<1>2. UNCHANGED <<place, addr, config, rows>> /\ desk' \in {desk, NoEdit}
  BY DEF SweepStarts, DeskRests
<1>3. SweepLike(r)
  BY <1>1 DEF SweepLike, Resting, SweepSteps
<1>4. RosterShapes'
  BY <1>1, <1>2, <1>3, SweepShapes DEF RosterInv, RosterShapes
<1>5. sweep'[s] = r
  BY <1>1 DEF RosterInv, RosterShapes
<1>6. ASSUME r.at # "rest", NEW t \in Things \ r.spoiled PROVE Covers(s, t)'
  <2>1. r.at = "fetch" /\ r.todo = hubs /\ Live(t)
    BY <1>1, <1>6 DEF Resting
  <2>2. Calm
    BY <1>2 DEF Calm, NoEdit
  <2>3. Live(t)' /\ HubEntry(t)' = HubEntry(t)
    BY <2>1, <2>2, LiveStays
  <2>4. place[t] \in cfgs /\ config[place[t]].ip = addr[place[t]] /\ config[place[t]].primary \in BOOLEAN
    BY <2>1 DEF Live, RosterInv, RosterShapes, HubRows
  <2>5. \E c \in hubs : c \in HubEntry(t)
    <3>1. PICK c : c = [hub |-> place[t], ip |-> config[place[t]].ip, primary |-> config[place[t]].primary, num |-> 0]
      OBVIOUS
    <3>2. c \in hubs
      BY <2>4, <3>1
    <3>3. c \in HubEntry(t)
      BY <2>4, <3>1 DEF HubEntry
    <3>4. QED
      BY <3>2, <3>3
  <2>6. QED
    BY <1>5, <2>1, <2>3, <2>5 DEF Covers
<1>7. QED
  BY <1>1, <1>2, <1>3, <1>4, <1>6, SweepStepKeeps

\* What the hub tells of a device is what the entry of its hub says.
LEMMA NativeEntry ==
    ASSUME NEW t \in Things, place[t] # Gone, NEW c \in HubEntry(t)
    PROVE  \E e \in Natives(c) : e \in DeviceEntry(t)
<1> DEFINE e == [ip |-> c.ip, num |-> NumberOf[t], hub |-> c.hub, label |-> LabelOf[t],
                 primary |-> c.primary, dup |-> FALSE]
<1>1. e \in Natives(c)
  BY DEF Natives, HubEntry
<1>2. e \in DeviceEntry(t)
  BY DEF HubEntry, DeviceEntry
<1>3. QED
  BY <1>1, <1>2

\* The verdict on duplicates changes nothing else.
LEMMA JudgedEntry ==
    ASSUME NEW t \in Things, NEW es, NEW e \in es, e \in DeviceEntry(t)
    PROVE  \E f \in Judged(es) : f \in DeviceEntry(t)
<1> DEFINE d == e # First({f \in es : f.label = e.label})
           f == [e EXCEPT !.dup = d]
<1>1. f \in Judged(es)
  BY DEF Judged
<1>2. d \in BOOLEAN
  OBVIOUS
<1> HIDE DEF d
<1>3. f \in DeviceEntry(t)
  BY <1>2 DEF DeviceEntry
<1>4. QED
  BY <1>1, <1>3

\* What is left of a sweep when a hub was read: the rest of the hubs, or else the
\* devices that were found.
FetchedWell(r, s, c, found) ==
    /\ SweepLike(r)
    /\ r.at # "rest" => r.spoiled = sweep[s].spoiled
    /\ \/ r.at = "fetch" /\ r.todo = sweep[s].todo \ {c} /\ r.found = found
       \/ r.at = "ingest" /\ sweep[s].todo \ {c} = {} /\ r.found = Judged(found)
       \/ r.at = "rest" /\ sweep[s].todo \ {c} = {} /\ found = {}
\* That is what Fetched makes of it.
LEMMA FetchedShape ==
    ASSUME RosterInv, NEW s \in Sweepers, sweep[s].at = "fetch", NEW c, NEW found
    PROVE  FetchedWell(Fetched(s, c, found), s, c, found)
<1>1. SweepLike(sweep[s])
  BY DEF RosterInv, RosterShapes
<1>2. QED
  BY <1>1 DEF FetchedWell, Fetched, SweepLike, SweepSteps, Resting

\* The devices of a hub take the place of the hub; if it cannot be read, they
\* are held against the sweep.
LEMMA FetchHubKeeps == ASSUME RosterInv, NEW s \in Sweepers, FetchHub(s) PROVE RosterInv'
<1>1. PICK c : c = First(sweep[s].todo)
  OBVIOUS
<1>2. /\ sweep[s].at = "fetch" /\ UNCHANGED <<place, addr, config, rows, desk>>
      /\ \/ sweep' = [sweep EXCEPT ![s] = Fetched(s, c, sweep[s].found \cup Natives(c))]
         \/ sweep' = [sweep EXCEPT ![s] = [Fetched(s, c, sweep[s].found) EXCEPT
                        !.spoiled = IF Fetched(s, c, sweep[s].found).at = "rest" THEN {} ELSE @ \cup On(c.hub)]]
  BY <1>1 DEF FetchHub
<1>3. Calm
  BY <1>2 DEF Calm
<1>4. (\E S : rows' \in Seq(S)) /\ \A i \in DOMAIN rows' : RowLike(rows'[i])
  BY <1>2 DEF RosterInv, RosterShapes
<1>5. ASSUME NEW t \in Things \ sweep[s].spoiled
      PROVE  /\ Live(t) /\ Live(t)'
             /\ HubEntry(t)' = HubEntry(t) /\ DeviceEntry(t)' = DeviceEntry(t)
             /\ \/ \E d \in sweep[s].todo : d \in HubEntry(t)
                \/ \E e \in sweep[s].found : e \in DeviceEntry(t)
  <2>1. Covers(s, t)
    BY <1>2, <1>5 DEF RosterInv, SteadyCovered
  <2>2. QED
    BY <1>2, <1>3, <2>1, LiveStays DEF Covers
<1>6. ASSUME NEW r, SweepLike(r), sweep' = [sweep EXCEPT ![s] = r],
             r.at # "rest" => \A t \in Things \ r.spoiled : Covers(s, t)'
      PROVE  RosterInv'
  <2>1. RosterShapes'
    BY <1>2, <1>4, <1>6, SweepShapes DEF RosterInv
  <2>2. QED
    BY <1>2, <1>6, <2>1, SweepStepKeeps
<1>7. CASE sweep' = [sweep EXCEPT ![s] = Fetched(s, c, sweep[s].found \cup Natives(c))]
  <2>1. PICK r : r = Fetched(s, c, sweep[s].found \cup Natives(c))
    OBVIOUS
  <2>2. FetchedWell(r, s, c, sweep[s].found \cup Natives(c))
    BY <1>2, <2>1, FetchedShape
  <2>3. sweep' = [sweep EXCEPT ![s] = r] /\ sweep'[s] = r
    BY <1>7, <2>1 DEF RosterInv, RosterShapes
  <2>4. ASSUME r.at # "rest", NEW t \in Things \ r.spoiled PROVE Covers(s, t)'
    <3>1. t \in Things \ sweep[s].spoiled
      BY <2>2, <2>4 DEF FetchedWell
    <3>2. \/ \E d \in sweep[s].todo \ {c} : d \in HubEntry(t)
          \/ \E e \in sweep[s].found \cup Natives(c) : e \in DeviceEntry(t)
      <4>1. CASE \E e \in sweep[s].found : e \in DeviceEntry(t)
        BY <4>1
      <4>2. CASE c \in HubEntry(t)
        BY <1>5, <3>1, <4>2, NativeEntry DEF Live
      <4>3. QED
        BY <1>5, <3>1, <4>1, <4>2
    <3>3. \/ r.at = "fetch" /\ \/ \E d \in r.todo : d \in HubEntry(t)
                               \/ \E e \in r.found : e \in DeviceEntry(t)
          \/ r.at = "ingest" /\ \E e \in r.found : e \in DeviceEntry(t)
      BY <2>2, <2>4, <3>2, JudgedEntry DEF FetchedWell
    <3>4. QED
      BY <1>5, <2>3, <3>1, <3>3 DEF Covers
  <2>5. QED
    BY <1>6, <2>2, <2>3, <2>4 DEF FetchedWell
<1>8. CASE sweep' = [sweep EXCEPT ![s] = [Fetched(s, c, sweep[s].found) EXCEPT
                        !.spoiled = IF Fetched(s, c, sweep[s].found).at = "rest" THEN {} ELSE @ \cup On(c.hub)]]
  <2>1. PICK m : m = Fetched(s, c, sweep[s].found)
    OBVIOUS
  <2>2. FetchedWell(m, s, c, sweep[s].found)
    BY <1>2, <2>1, FetchedShape
  <2>3. PICK r : r = [m EXCEPT !.spoiled = IF m.at = "rest" THEN {} ELSE @ \cup On(c.hub)]
    OBVIOUS
  <2>4. /\ SweepLike(r) /\ r.at = m.at /\ r.todo = m.todo /\ r.found = m.found
        /\ r.at # "rest" => r.spoiled = sweep[s].spoiled \cup On(c.hub)
    BY <2>2, <2>3 DEF FetchedWell, SweepLike
  <2>5. sweep' = [sweep EXCEPT ![s] = r] /\ sweep'[s] = r
    BY <1>8, <2>1, <2>3 DEF RosterInv, RosterShapes
  <2>6. ASSUME r.at # "rest", NEW t \in Things \ r.spoiled PROVE Covers(s, t)'
    <3>1. t \in Things \ sweep[s].spoiled /\ place[t] # c.hub
      BY <2>4, <2>6 DEF On
    <3>2. c \notin HubEntry(t)
      BY <3>1 DEF HubEntry
    <3>3. \/ m.at = "fetch" /\ \/ \E d \in m.todo : d \in HubEntry(t)
                               \/ \E e \in m.found : e \in DeviceEntry(t)
          \/ m.at = "ingest" /\ \E e \in m.found : e \in DeviceEntry(t)
      <4>1. \/ \E d \in sweep[s].todo \ {c} : d \in HubEntry(t)
            \/ \E e \in sweep[s].found : e \in DeviceEntry(t)
        BY <1>5, <3>1, <3>2
      <4>2. QED
        BY <2>2, <2>4, <2>6, <4>1, JudgedEntry DEF FetchedWell
    <3>4. QED
      BY <1>5, <2>4, <2>5, <3>1, <3>3 DEF Covers
  <2>7. QED
    BY <1>6, <2>4, <2>5, <2>6
<1>9. QED
  BY <1>2, <1>7, <1>8

\* A row is written and noted in every sweep under way.
LEMMA NotedEffect ==
    ASSUME RosterInv, NEW ip, NEW n
    PROVE  /\ DOMAIN Synced(ip, n) = Sweepers /\ Synced(ip, n) = [s \in Sweepers |-> Synced(ip, n)[s]]
           /\ \A s \in Sweepers :
                /\ SweepLike(Synced(ip, n)[s]) /\ Synced(ip, n)[s].at = sweep[s].at
                /\ Synced(ip, n)[s].todo = sweep[s].todo /\ Synced(ip, n)[s].found = sweep[s].found
                /\ Synced(ip, n)[s].spoiled = sweep[s].spoiled
                /\ sweep[s].at # "rest" => Synced(ip, n)[s].since = sweep[s].since \cup {Spot(ip, n)}
                /\ sweep[s].at = "rest" => Synced(ip, n)[s] = sweep[s]
<1>1. \A s \in Sweepers : SweepLike(sweep[s])
  BY DEF RosterInv, RosterShapes
<1>2. QED
  BY <1>1 DEF Synced, SweepLike

\* Ingest writes the row of an entry, or holds the device of that entry against the sweep.
LEMMA IngestKeeps == ASSUME RosterInv, NEW s \in Sweepers, Ingest(s) PROVE RosterInv'
<1>1. PICK e : e = First(sweep[s].found)
  OBVIOUS
<1> DEFINE left == sweep[s].found \ {e}
           next == IF left = {} THEN "present" ELSE "ingest"
           lost == {t \in On(e.hub) : NumberOf[t] = e.num}
<1>2. /\ sweep[s].at = "ingest" /\ UNCHANGED <<place, addr, config, desk>>
      /\ \/ /\ Upserts(e, e.label, e.dup)
            /\ sweep' = [Synced(e.ip, e.num) EXCEPT ![s].found = left, ![s].at = next]
         \/ /\ rows' = rows
            /\ sweep' = [sweep EXCEPT ![s].found = left, ![s].at = next, ![s].spoiled = @ \cup lost]
  BY <1>1 DEF Ingest
<1>3. Calm
  BY <1>2 DEF Calm
<1>4. ASSUME NEW t \in Things \ sweep[s].spoiled
      PROVE  /\ Live(t) /\ Live(t)'
             /\ HubEntry(t)' = HubEntry(t) /\ DeviceEntry(t)' = DeviceEntry(t)
             /\ \/ \E f \in left : f \in DeviceEntry(t)
                \/ e \in DeviceEntry(t)
                \/ Written(s, t)
  <2>1. Covers(s, t)
    BY <1>2, <1>4 DEF RosterInv, SteadyCovered
  <2>2. QED
    BY <1>2, <1>3, <2>1, LiveStays DEF Covers
<1>5. AddressesApart'
  BY <1>2 DEF RosterInv, AddressesApart
<1>6. next \in {"present", "ingest"} /\ (left # {} => next = "ingest")
  OBVIOUS
<1>7. \A q \in Sweepers : SweepLike(sweep[q])
  BY DEF RosterInv, RosterShapes
<1>8. CASE /\ Upserts(e, e.label, e.dup)
           /\ sweep' = [Synced(e.ip, e.num) EXCEPT ![s].found = left, ![s].at = next]
  <2>1. PICK spot : spot = Spot(e.ip, e.num)
    OBVIOUS
  <2>2. PICK noted : noted = Synced(e.ip, e.num)
    OBVIOUS
  <2> HIDE DEF left, next
  <2>3. /\ \E S : rows' \in Seq(S)
        /\ \A i \in DOMAIN rows' : RowLike(rows'[i])
        /\ DOMAIN rows' = DOMAIN rows \cup {spot}
        /\ \A i \in DOMAIN rows : rows'[i].ip = rows[i].ip /\ rows'[i].num = rows[i].num
        /\ rows'[spot].ip = e.ip /\ rows'[spot].num = e.num
        /\ \A i \in DOMAIN rows' : rows'[i].ip = e.ip /\ rows'[i].num = e.num => i = spot
        /\ KeysUnique'
    BY <1>8, <2>1, UpsertEffect
  <2>4. /\ DOMAIN noted = Sweepers /\ noted = [q \in Sweepers |-> noted[q]]
        /\ \A q \in Sweepers :
             /\ SweepLike(noted[q]) /\ noted[q].at = sweep[q].at /\ noted[q].todo = sweep[q].todo
             /\ noted[q].found = sweep[q].found /\ noted[q].spoiled = sweep[q].spoiled
             /\ sweep[q].at # "rest" => noted[q].since = sweep[q].since \cup {spot}
             /\ sweep[q].at = "rest" => noted[q] = sweep[q]
    BY <1>8, <2>1, <2>2, NotedEffect
  <2>5. sweep' = [noted EXCEPT ![s] = [noted[s] EXCEPT !.found = left, !.at = next]]
    <3>1. sweep' = [noted EXCEPT ![s].found = left, ![s].at = next]
      BY <1>8, <2>2
    <3>2. QED
      BY <3>1, <2>4
  <2>6. /\ DOMAIN sweep' = Sweepers /\ sweep' = [q \in Sweepers |-> sweep'[q]]
        /\ \A q \in Sweepers \ {s} : sweep'[q] = noted[q]
        /\ SweepLike(sweep'[s]) /\ sweep'[s].at = next /\ sweep'[s].found = left
        /\ sweep'[s].since = noted[s].since /\ sweep'[s].spoiled = noted[s].spoiled
    <3>1. PICK r : r = [noted[s] EXCEPT !.found = left, !.at = next]
      OBVIOUS
    <3>2. /\ SweepLike(r) /\ r.at = next /\ r.found = left /\ r.since = noted[s].since
          /\ r.spoiled = noted[s].spoiled
      BY <1>6, <2>4, <3>1 DEF SweepLike, SweepSteps
    <3>3. sweep' = [noted EXCEPT ![s] = r]
      BY <2>5, <3>1
    <3>4. QED
      BY <2>4, <3>2, <3>3
  <2>7. RosterShapes'
    BY <1>2, <2>3, <2>4, <2>6 DEF RosterInv, RosterShapes
  <2>8. \A q \in Sweepers : sweep[q].at # "rest" => RowsGrow(q)
    BY <2>3, <2>4, <2>6 DEF RowsGrow
  <2>9. ASSUME NEW q \in Sweepers \ {s}, sweep'[q].at # "rest", NEW t \in Things \ sweep'[q].spoiled
        PROVE  Covers(q, t)'
    <3>1. sweep[q].at # "rest" /\ SweepGoesOn(q)
      BY <2>4, <2>6, <2>9 DEF SweepGoesOn
    <3>2. QED
      BY <1>3, <2>8, <2>9, <3>1, CoversStays
  <2>10. ASSUME NEW t \in Things \ sweep'[s].spoiled PROVE Covers(s, t)'
    <3>1. t \in Things \ sweep[s].spoiled /\ sweep'[s].since = sweep[s].since \cup {spot}
      BY <1>2, <2>4, <2>6, <2>10
    <3>2. CASE \E f \in left : f \in DeviceEntry(t)
      BY <1>4, <1>6, <2>6, <3>1, <3>2 DEF Covers
    <3>3. CASE e \in DeviceEntry(t)
      <4>1. e.ip = addr[place[t]] /\ e.num = NumberOf[t] /\ place[t] # Gone
        BY <1>4, <3>1, <3>3 DEF DeviceEntry, Live
      <4>2. /\ RowFor(spot, t)'
            /\ \A i \in DOMAIN rows' : RowFor(i, t)' => i = spot
        BY <1>2, <2>3, <4>1 DEF RowFor
      <4>3. Written(s, t)'
        BY <2>3, <3>1, <4>2 DEF Written
      <4>4. QED
        BY <1>4, <1>6, <2>6, <3>1, <4>3 DEF Covers
    <3>4. CASE Written(s, t)
      <4>1. Written(s, t)'
        BY <1>2, <1>3, <2>8, <3>1, <3>4, WrittenStays
      <4>2. QED
        BY <1>4, <1>6, <2>6, <3>1, <4>1 DEF Covers
    <3>5. QED
      BY <1>4, <3>1, <3>2, <3>3, <3>4
  <2>11. QED
    BY <1>5, <2>3, <2>7, <2>9, <2>10 DEF RosterInv, SteadyCovered
<1>9. CASE /\ rows' = rows
           /\ sweep' = [sweep EXCEPT ![s].found = left, ![s].at = next, ![s].spoiled = @ \cup lost]
  <2>1. PICK r : r = [sweep[s] EXCEPT !.found = left, !.at = next, !.spoiled = @ \cup lost]
    OBVIOUS
  <2>2. sweep' = [sweep EXCEPT ![s] = r]
    BY <1>9, <2>1 DEF RosterInv, RosterShapes
  <2> HIDE DEF left, next
  <2>3. SweepLike(r) /\ r.at = next /\ r.found = left /\ r.since = sweep[s].since
        /\ r.spoiled = sweep[s].spoiled \cup lost
    BY <1>6, <1>7, <2>1 DEF SweepLike, SweepSteps
  <2>4. sweep'[s] = r
    BY <2>2 DEF RosterInv, RosterShapes
  <2>5. RosterShapes'
    BY <1>2, <1>9, <2>2, <2>3, SweepShapes DEF RosterInv, RosterShapes
  <2>6. ASSUME NEW t \in Things \ r.spoiled PROVE Covers(s, t)'
    <3>1. t \in Things \ sweep[s].spoiled /\ t \notin lost
      BY <2>3, <2>6
    <3>2. e \notin DeviceEntry(t)
      BY <3>1 DEF DeviceEntry, On
    <3>3. CASE \E f \in left : f \in DeviceEntry(t)
      BY <1>4, <1>6, <2>3, <2>4, <3>1, <3>3 DEF Covers
    <3>4. CASE Written(s, t)
      <4>1. RowsGrow(s)
        BY <1>9 DEF RowsGrow
      <4>2. Written(s, t)'
        BY <1>3, <2>3, <2>4, <3>1, <3>4, <4>1, WrittenStays
      <4>3. QED
        BY <1>4, <1>6, <2>3, <2>4, <3>1, <4>2 DEF Covers
    <3>5. QED
      BY <1>4, <3>1, <3>2, <3>3, <3>4
  <2>7. QED
    BY <1>2, <1>9, <2>2, <2>3, <2>5, <2>6, SweepStepKeeps
<1>10. QED
  BY <1>2, <1>8, <1>9

\* Presence is decided row by row; a failure, or the end, lets the sweep rest.
LEMMA MarksKeep == ASSUME RosterInv, NEW s \in Sweepers, MarkPresent(s) \/ MarkAbsent(s) PROVE RosterInv'
<1>1. /\ sweep[s].at \in {"present", "absent"} /\ UNCHANGED <<place, addr, config, desk>>
      /\ \/ sweep[s].at = "present" /\ sweep' = [sweep EXCEPT ![s].at = "absent"]
         \/ sweep' = [sweep EXCEPT ![s] = Resting]
  BY DEF MarkPresent, MarkAbsent
<1>2. /\ rows' = [i \in DOMAIN rows |-> rows'[i]]
      /\ \A i \in DOMAIN rows : /\ rows'[i].ip = rows[i].ip /\ rows'[i].num = rows[i].num
                                /\ RowLike(rows'[i])
  <2>1. \A i \in DOMAIN rows : RowLike(rows[i])
    BY DEF RosterInv, RosterShapes
  <2>2. CASE rows' = rows
    <3>1. \E S : rows \in Seq(S)
      BY DEF RosterInv, RosterShapes
    <3>2. QED
      BY <2>1, <2>2, <3>1
  <2>3. CASE rows' = [i \in DOMAIN rows |-> IF i \in Refreshed(s) THEN [rows[i] EXCEPT !.present = TRUE] ELSE rows[i]]
    BY <2>1, <2>3 DEF RowLike
  <2>4. CASE rows' = [i \in DOMAIN rows |-> IF i \in Refreshed(s) THEN rows[i] ELSE [rows[i] EXCEPT !.present = FALSE]]
    BY <2>1, <2>4 DEF RowLike
  <2>5. QED
    BY <2>2, <2>3, <2>4 DEF MarkPresent, MarkAbsent
<1>3. (\E S : rows' \in Seq(S)) /\ DOMAIN rows' = DOMAIN rows
  BY <1>2, RewrittenRows DEF RosterInv
<1>4. Calm /\ RowsGrow(s)
  BY <1>1, <1>2, <1>3 DEF Calm, RowsGrow
<1>5. ASSUME NEW r, SweepLike(r), sweep' = [sweep EXCEPT ![s] = r],
             r.at # "rest" => \A t \in Things \ r.spoiled : Covers(s, t)'
      PROVE  RosterInv'
  <2>1. RosterShapes'
    BY <1>1, <1>2, <1>3, <1>5, SweepShapes DEF RosterInv
  <2>2. QED
    BY <1>1, <1>2, <1>3, <1>5, <2>1, SweepStepKeeps
<1>6. CASE sweep' = [sweep EXCEPT ![s] = Resting]
  <2>1. SweepLike(Resting) /\ Resting.at = "rest"
    BY DEF SweepLike, SweepSteps, Resting
  <2>2. QED
    BY <1>5, <1>6, <2>1
<1>7. CASE sweep[s].at = "present" /\ sweep' = [sweep EXCEPT ![s].at = "absent"]
  <2>1. PICK r : r = [sweep[s] EXCEPT !.at = "absent"]
    OBVIOUS
  <2>2. sweep' = [sweep EXCEPT ![s] = r] /\ sweep'[s] = r
    BY <1>7, <2>1 DEF RosterInv, RosterShapes
  <2>3. SweepLike(sweep[s])
    BY DEF RosterInv, RosterShapes
  <2>4. SweepLike(r) /\ r.at = "absent" /\ r.since = sweep[s].since /\ r.spoiled = sweep[s].spoiled
    BY <2>1, <2>3 DEF SweepLike, SweepSteps
  <2>5. ASSUME NEW t \in Things \ r.spoiled PROVE Covers(s, t)'
    <3>1. Live(t) /\ Written(s, t)
      BY <1>7, <2>4, <2>5 DEF RosterInv, SteadyCovered, Covers
    <3>2. Live(t)' /\ Written(s, t)'
      BY <1>4, <2>2, <2>4, <3>1, LiveStays, WrittenStays
    <3>3. QED
      BY <2>2, <2>4, <3>2 DEF Covers
  <2>6. QED
    BY <1>5, <2>2, <2>4, <2>5
<1>8. QED
  BY <1>1, <1>6, <1>7

\* The refresh of one device writes a row, or fails.
LEMMA WriteOneKeeps == ASSUME RosterInv, WriteOne PROVE RosterInv'
<1>1. PICK g : g = clerk.got
  OBVIOUS
<1>2. /\ UNCHANGED <<place, addr, config, desk>>
      /\ \/ (\E label : Upserts(g, label, FALSE)) /\ sweep' = Synced(g.ip, g.num)
         \/ UNCHANGED <<rows, sweep>>
  BY <1>1 DEF WriteOne
<1>3. Calm
  BY <1>2 DEF Calm
<1>4. CASE UNCHANGED <<rows, sweep>>
  <2>1. RosterShapes'
    BY <1>2, <1>4 DEF RosterInv, RosterShapes
  <2>2. QED
    BY <1>3, <1>4, <2>1, UnmovedKeeps
<1>5. ASSUME NEW label, Upserts(g, label, FALSE), sweep' = Synced(g.ip, g.num) PROVE RosterInv'
  <2>1. PICK spot : spot = Spot(g.ip, g.num)
    OBVIOUS
  <2>2. /\ \E S : rows' \in Seq(S)
        /\ \A i \in DOMAIN rows' : RowLike(rows'[i])
        /\ DOMAIN rows' = DOMAIN rows \cup {spot}
        /\ \A i \in DOMAIN rows : rows'[i].ip = rows[i].ip /\ rows'[i].num = rows[i].num
        /\ KeysUnique'
    BY <1>5, <2>1, UpsertEffect
  <2>3. /\ DOMAIN sweep' = Sweepers /\ sweep' = [q \in Sweepers |-> sweep'[q]]
        /\ \A q \in Sweepers :
             /\ SweepLike(sweep'[q]) /\ sweep'[q].at = sweep[q].at /\ sweep'[q].todo = sweep[q].todo
             /\ sweep'[q].found = sweep[q].found /\ sweep'[q].spoiled = sweep[q].spoiled
             /\ sweep[q].at # "rest" => sweep'[q].since = sweep[q].since \cup {spot}
             /\ sweep[q].at = "rest" => sweep'[q] = sweep[q]
    BY <1>5, <2>1, NotedEffect
  <2>4. RosterShapes'
    BY <1>2, <2>2, <2>3 DEF RosterInv, RosterShapes
  <2>5. AddressesApart'
    BY <1>2 DEF RosterInv, AddressesApart
  <2>6. ASSUME NEW q \in Sweepers, sweep'[q].at # "rest", NEW t \in Things \ sweep'[q].spoiled
        PROVE  Covers(q, t)'
    <3>1. sweep[q].at # "rest" /\ SweepGoesOn(q)
      BY <2>3, <2>6 DEF SweepGoesOn
    <3>2. RowsGrow(q)
      BY <2>2, <2>3, <3>1 DEF RowsGrow
    <3>3. QED
      BY <1>3, <2>6, <3>1, <3>2, CoversStays
  <2>7. QED
    BY <2>2, <2>4, <2>5, <2>6 DEF RosterInv, SteadyCovered
<1>6. QED
  BY <1>2, <1>4, <1>5

-----------------------------------------------------------------------------
\* Every step keeps the invariant.
LEMMA RosterInvStep == ASSUME RosterInv, [RosterNext]_rosterVars PROVE RosterInv'
<1>1. CASE UNCHANGED rosterVars
  <2>1. RosterShapes' /\ Calm
    BY <1>1 DEF rosterVars, RosterInv, RosterShapes, Calm
  <2>2. QED
    BY <1>1, <2>1, UnmovedKeeps DEF rosterVars
<1>2. ASSUME NEW s \in Sweepers, Sweeps(s) PROVE RosterInv'
  BY <1>2, SweepStartsKeeps, FetchHubKeeps, IngestKeeps, MarksKeep DEF Sweeps
<1>3. CASE DeskSteps
  BY <1>3, ClearPrimariesKeeps, PatchHubKeeps, MirrorAddressKeeps, ReassignKeeps, DropHubKeeps DEF DeskSteps
<1>4. CASE ClerkSteps
  BY <1>4, ReadersKeep, WriteOneKeeps DEF ClerkSteps
<1>5. ASSUME NEW h \in Hubs, EditHub(h) \/ CreateHub(h) PROVE RosterInv'
  BY <1>5, ReadersKeep, CreateHubKeeps
<1>6. CASE \E c \in DOMAIN rows, r \in BOOLEAN : Ask(c, r)
  BY <1>6, ReadersKeep
<1>7. CASE DeviceMoves \/ HubMoves \/ RosterRestart
  BY <1>7, DeviceMovesKeeps, HubMovesKeeps, RosterRestartKeeps
<1>8. QED
  BY <1>1, <1>2, <1>3, <1>4, <1>5, <1>6, <1>7 DEF RosterNext

\* The property of one step.
SteadyStep == \A t \in Things, i \in DOMAIN rows :
                 RowFor(i, t) /\ rows[i].present /\ ~rows'[i].present
                 => \E s \in Sweepers : sweep[s].at = "absent" /\ t \in sweep[s].spoiled

\* Only the end of a sweep takes a row from the list.
LEMMA OnlyAbsentHides ==
    ASSUME RosterInv, [RosterNext]_rosterVars, NEW i \in DOMAIN rows, rows[i].present, ~rows'[i].present
    PROVE  \E s \in Sweepers : sweep[s].at = "absent" /\ i \notin sweep[s].since
<1>1. rows' # rows
  OBVIOUS
<1>2. \A j \in DOMAIN rows : RowLike(rows[j])
  BY DEF RosterInv, RosterShapes
<1>3. ASSUME NEW e, NEW label, NEW dup, Upserts(e, label, dup) PROVE FALSE
  <2>1. PICK spot : spot = Spot(e.ip, e.num)
    OBVIOUS
  <2>2. rows'[i].present = rows[i].present
    BY <1>3, <2>1, UpsertEffect
  <2>3. QED
    BY <2>2
<1>4. ASSUME NEW s \in Sweepers, Sweeps(s) PROVE sweep[s].at = "absent" /\ i \notin sweep[s].since
  <2>1. CASE Ingest(s)
    BY <1>1, <1>3, <2>1 DEF Ingest
  <2>2. CASE MarkPresent(s)
    BY <1>1, <1>2, <2>2 DEF MarkPresent, RowLike
  <2>3. CASE MarkAbsent(s)
    BY <1>1, <2>3 DEF MarkAbsent, Refreshed
  <2>4. QED
    BY <1>1, <1>4, <2>1, <2>2, <2>3 DEF Sweeps, SweepStarts, FetchHub
<1>5. ~DeskSteps
  <2>1. ~MirrorAddress
    BY <1>1, <1>2 DEF MirrorAddress, RowLike
  <2>2. ~Reassign
    BY <1>1, <1>2 DEF Reassign, RowLike
  <2>3. QED
    BY <1>1, <2>1, <2>2 DEF DeskSteps, ClearPrimaries, PatchHub, DropHub
<1>6. ~ClerkSteps
  BY <1>1, <1>3 DEF ClerkSteps, Keep, ByNumber, FetchOne, WriteOne
<1>7. QED
  BY <1>1, <1>4, <1>5, <1>6 DEF RosterNext, rosterVars, EditHub, Edits, CreateHub, Ask, DeviceMoves, HubMoves,
     RosterRestart

\* A row that is not noted in a sweep stands for no device the sweep answers for.
LEMMA SteadyStepHolds == ASSUME RosterInv, [RosterNext]_rosterVars PROVE SteadyStep
<1>1. SUFFICES ASSUME NEW t \in Things, NEW i \in DOMAIN rows, RowFor(i, t), rows[i].present, ~rows'[i].present
               PROVE  \E s \in Sweepers : sweep[s].at = "absent" /\ t \in sweep[s].spoiled
  BY DEF SteadyStep
<1>2. PICK s \in Sweepers : sweep[s].at = "absent" /\ i \notin sweep[s].since
  BY <1>1, OnlyAbsentHides
<1>3. t \in sweep[s].spoiled
  BY <1>1, <1>2 DEF RosterInv, SteadyCovered, Covers, Written
<1>4. QED
  BY <1>2, <1>3

\* A device that nothing happened to during a sweep stays in the list at the end of
\* it, however two sweeps, refreshes and edits of hubs overlap
\* (device_to_hubs_classifier.py:_mark_device_presence).
THEOREM SteadyStays == RosterSpec => SteadyStaysPresent
<1>1. RosterInv /\ [RosterNext]_rosterVars => RosterInv'
  BY RosterInvStep
<1>2. RosterSpec => []RosterInv
  BY <1>1, RosterInvInit, PTL DEF RosterSpec
<1>3. RosterInv /\ [RosterNext]_rosterVars => [SteadyStep]_rosterVars
  BY SteadyStepHolds
<1>4. RosterSpec => [][SteadyStep]_rosterVars
  BY <1>2, <1>3, PTL DEF RosterSpec
<1>5. QED
  BY <1>4 DEF SteadyStaysPresent, SteadyStep
-----------------------------------------------------------------------------
(***************************************************************************)
(* The poll of the hubs, for any values.                                   *)
(***************************************************************************)

\* The socket task: frames are values of the device, in hand or on the wire.
LEMMA SocketKeepsTypes == FeedTypeOK /\ SocketStep => FeedTypeOK'
<1> SUFFICES ASSUME FeedTypeOK, SocketStep PROVE FeedTypeOK'
  OBVIOUS
<1> MaxFaults \in Nat /\ MaxBackoff \in Nat
  BY FeedAssumption
<1> USE DEF FeedTypeOK
<1>1. UNCHANGED <<dev, row, rec>>
  BY DEF SocketStep, Connect, ConnectFails, ReadFrame, LogFrame, LinkError, Watchdog, BackedOff, StopHub, StartHub
<1>2. /\ [connected |-> TRUE, failures |-> 0] \in [connected : BOOLEAN, failures : 0..MaxFaults]
      /\ [connected |-> FALSE, failures |-> Saturated(health.failures)]
           \in [connected : BOOLEAN, failures : 0..MaxFaults]
  BY DEF Saturated
<1>3. Fresh \in Socket /\ [Fresh EXCEPT !.pc = "stopped"] \in Socket
  <2>1. Fresh \in Socket
    BY DEF Fresh, Socket, NoFrame
  <2>2. QED
    BY <2>1 DEF Socket
<1>4. <<>> \in Seq(Values)
  OBVIOUS
<1>5. CASE Connect
  BY <1>1, <1>2, <1>3, <1>4, <1>5 DEF Connect, MarkConnected, Socket, NoFrame
<1>6. CASE ConnectFails
  BY <1>1, <1>2, <1>3, <1>4, <1>6 DEF ConnectFails, MarkFailure, Socket, NoFrame
<1>7. CASE LogFrame
  BY <1>1, <1>2, <1>3, <1>4, <1>7 DEF LogFrame, Socket, NoFrame
<1>8. CASE LinkError
  BY <1>1, <1>2, <1>3, <1>4, <1>8 DEF LinkError, MarkFailure, Socket, NoFrame
<1>9. CASE Watchdog
  <2>1. sock' \in Socket
    <3>1. sock' = [sock EXCEPT !.pc = "wait", !.doubled = IF sock.data THEN 0 ELSE sock.doubled]
      BY <1>9 DEF Watchdog, Socket
    <3>2. 0 \in 0..MaxBackoff /\ sock.doubled \in 0..MaxBackoff
      BY DEF Socket
    <3>3. PICK n \in 0..MaxBackoff : sock' = [sock EXCEPT !.pc = "wait", !.doubled = n]
      BY <3>1, <3>2, Zenon
    <3>4. QED
      BY <3>3 DEF Socket
  <2>2. QED
    BY <1>1, <1>2, <1>9, <2>1 DEF Watchdog, MarkFailure
<1>10. CASE BackedOff
  <2>1. \A n \in 0..MaxBackoff : n < MaxBackoff => n + 1 \in 0..MaxBackoff
    OBVIOUS
  <2>2. sock.doubled \in 0..MaxBackoff
    BY DEF Socket
  <2>3. PICK n \in 0..MaxBackoff : sock' = [sock EXCEPT !.pc = "connect", !.doubled = n]
    <3>1. sock' = [sock EXCEPT !.pc = "connect",
                               !.doubled = IF sock.doubled < MaxBackoff THEN sock.doubled + 1 ELSE sock.doubled]
      BY <1>10 DEF BackedOff, Socket
    <3>2. QED
      BY <2>1, <2>2, <3>1, Zenon
  <2>4. sock' \in Socket
    BY <2>3 DEF Socket
  <2>5. QED
    BY <1>1, <1>10, <2>4 DEF BackedOff
<1>11. CASE StopHub
  BY <1>1, <1>2, <1>3, <1>4, <1>11 DEF StopHub
<1>12. CASE StartHub
  BY <1>1, <1>2, <1>3, <1>4, <1>12 DEF StartHub
<1>13. CASE ReadFrame
  <2>1. Head(wire) \in Values /\ Tail(wire) \in Seq(Values)
    BY <1>13 DEF ReadFrame
  <2>2. QED
    BY <1>1, <1>13, <2>1 DEF ReadFrame, Socket
<1>14. QED
  BY <1>5, <1>6, <1>7, <1>8, <1>9, <1>10, <1>11, <1>12, <1>13 DEF SocketStep

\* Hub, cache and poll.
LEMMA FeedTypesStep == FeedTypeOK /\ [FeedNext]_feedVars => FeedTypeOK'
<1> SUFFICES ASSUME FeedTypeOK, [FeedNext]_feedVars PROVE FeedTypeOK'
  OBVIOUS
<1> USE DEF FeedTypeOK
<1>1. CASE HubStep
  <2>1. CASE LinkDies
    BY <2>1 DEF LinkDies, Socket
  <2>2. ASSUME NEW v \in Values, Change(v) PROVE FeedTypeOK'
    BY <2>2 DEF Change
  <2>3. QED
    BY <1>1, <2>1, <2>2 DEF HubStep
<1>2. CASE CacheStep
  BY <1>2 DEF CacheStep, UpdateAll, UpdateAttribute, Refresh, feedVars
<1>3. CASE PollStep
  <2>1. GetDevice \in Values \cup {NoValue, Absent}
    BY DEF GetDevice, Poll
  <2>2. rec' \in Poll
    <3>1. CASE Compare
      BY <2>1, <3>1 DEF Compare, Poll
    <3>2. CASE AskHub
      BY <3>2 DEF AskHub, Poll
    <3>3. CASE Replay
      BY <3>3 DEF Replay, Poll
    <3>4. CASE LogReplay
      BY <3>4 DEF LogReplay, Poll
    <3>5. QED
      BY <1>3, <3>1, <3>2, <3>3, <3>4 DEF PollStep
  <2>3. {view', log'} \subseteq Values \cup {NoValue} /\ UNCHANGED <<dev, row, sock, wire, health>>
    BY <1>3 DEF PollStep, AskHub, Compare, Replay, LogReplay, Poll
  <2>4. QED
    BY <2>2, <2>3
<1>4. CASE UNCHANGED feedVars
  BY <1>4 DEF feedVars
<1>5. QED
  BY <1>1, <1>2, <1>3, <1>4, SocketKeepsTypes DEF FeedNext

\* What the apps, the log, the row and the poll hold of an attribute is a value of
\* it, or the mark that there is none, through broken links, restarts of the socket
\* and writes of others (hubitat_eventsocket_client.py, reconcile_poll.py,
\* device_cache.py).
THEOREM FeedTypes == FeedSpec => []FeedTypeOK
<1>1. FeedInit => FeedTypeOK
  BY FeedAssumption DEF FeedInit, FeedTypeOK, Socket, Fresh, NoFrame, Poll, FreshPoll
<1>2. QED
  BY <1>1, FeedTypesStep, PTL DEF FeedSpec

\* Compare decides on two memories, what it saw last and its copy of the cache.
\* While the value it saw last is not the one it replayed last, it has looked at
\* another value since; and it comes to a replay only then.
ReplayInv == /\ rec \in Poll /\ dev \in Values /\ row \in Values \cup {NoValue, Absent}
             /\ rec.seen # rec.told => movedOn
             /\ rec.pc = "route" => movedOn
             /\ rec.pc \in {"route", "log"} => rec.seen = rec.asked

\* Nothing has been seen or replayed at first.
LEMMA ReplayInvInit == FeedInit => ReplayInv
  BY DEF FeedInit, ReplayInv, FreshPoll, Poll

\* The steps of the hub, the socket and the cache leave the poll as it is.
LEMMA OthersKeepReplay == ReplayInv /\ (HubStep \/ SocketStep \/ CacheStep) => ReplayInv'
<1> SUFFICES ASSUME ReplayInv, HubStep \/ SocketStep \/ CacheStep PROVE ReplayInv'
  OBVIOUS
<1>1. rec' = rec /\ movedOn' = movedOn
  BY DEF HubStep, SocketStep, CacheStep, Change, LinkDies, Connect, ConnectFails, ReadFrame,
     LogFrame, LinkError, Watchdog, BackedOff, StopHub, StartHub, UpdateAll, UpdateAttribute,
     Refresh, feedVars
<1>2. dev' \in Values /\ row' \in Values \cup {NoValue, Absent}
  BY DEF ReplayInv, HubStep, SocketStep, CacheStep, Change, LinkDies, Connect, ConnectFails,
     ReadFrame, LogFrame, LinkError, Watchdog, BackedOff, StopHub, StartHub, UpdateAll,
     UpdateAttribute, Refresh, feedVars
<1>3. QED
  BY <1>1, <1>2 DEF ReplayInv

\* What the poll takes from the cache is a value, or that there is none.
LEMMA GetDeviceType == ReplayInv => GetDevice \in Values \cup {NoValue, Absent}
  BY DEF ReplayInv, GetDevice, Poll

\* A pass over the devices: what is seen from now on is what the hub answered,
\* and it is replayed only if it is not what was seen before.
LEMMA CompareKeepsReplay == ReplayInv /\ Compare => ReplayInv'
<1> SUFFICES ASSUME ReplayInv, Compare PROVE ReplayInv'
  OBVIOUS
<1>1. rec' \in Poll /\ rec'.seen = rec.asked /\ rec'.asked = rec.asked /\ rec'.told = rec.told
  BY GetDeviceType DEF ReplayInv, Compare, Poll
<1>2. rec'.pc = "route" => rec.asked # rec.seen
  BY DEF ReplayInv, Compare, Poll
<1>3. rec'.pc \in {"route", "wait"}
  BY DEF ReplayInv, Compare, Poll
<1>4. rec.asked # rec.told \/ movedOn => movedOn'
  BY DEF Compare
<1>5. dev' = dev /\ row' = row
  BY DEF Compare
<1>6. QED
  BY <1>1, <1>2, <1>3, <1>4, <1>5 DEF ReplayInv

\* The other steps of the poll.
LEMMA PollKeepsReplay == ReplayInv /\ PollStep => ReplayInv'
<1> SUFFICES ASSUME ReplayInv, PollStep PROVE ReplayInv'
  OBVIOUS
<1>1. CASE AskHub
  BY <1>1 DEF ReplayInv, AskHub, Poll
<1>2. CASE Replay
  BY <1>2 DEF ReplayInv, Replay, Poll
<1>3. CASE LogReplay
  BY <1>3 DEF ReplayInv, LogReplay, Poll
<1>4. QED
  BY <1>1, <1>2, <1>3, CompareKeepsReplay DEF PollStep

\* Every step keeps the invariant.
LEMMA ReplayInvStep == ReplayInv /\ [FeedNext]_feedVars => ReplayInv'
<1>1. ReplayInv /\ UNCHANGED feedVars => ReplayInv'
  BY DEF feedVars, ReplayInv
<1>2. QED
  BY <1>1, OthersKeepReplay, PollKeepsReplay DEF FeedNext

\* The poll replays a value a second time only when it has looked at another in
\* between: _last_seen is compared beside the copy of the cache, which lags
\* behind for ever (reconcile_poll.py:85-96).
THEOREM ReplaysAreNews == FeedSpec => ReplayOnChange
<1>1. ReplayInv /\ [FeedNext]_feedVars =>
        [rec.pc = "route" /\ rec'.pc = "log" /\ rec.told = rec.asked => movedOn]_feedVars
  BY DEF ReplayInv
<1>2. QED
  BY <1>1, ReplayInvInit, ReplayInvStep, PTL DEF FeedSpec, ReplayOnChange
=============================================================================

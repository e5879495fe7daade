--------------------------- MODULE CircuitBreaker ---------------------------
(***************************************************************************)
(* services/circuit_breaker.py: one named breaker shared by any number of  *)
(* caller threads (call_sync, used by the Hubitat admin client) and tasks  *)
(* (call_async, used by the Matter client).                                *)
(*                                                                         *)
(* A call is several steps: the clock is read BEFORE the lock is taken     *)
(* (lines 259 and 297), the gate runs under the lock, the wrapped call     *)
(* runs outside it, and its outcome is recorded under the lock.  Nothing   *)
(* ties an outcome to the state in which the call was admitted, so a call  *)
(* admitted while CLOSED may report while the breaker is OPEN, HALF_OPEN   *)
(* or CLOSED again.  _last_failure_at and _last_failure_reason are written *)
(* for the health endpoint only and are left out.                          *)
(***************************************************************************)
EXTENDS Integers, Sequences

CONSTANTS Callers,        \* threads and tasks that share the breaker
          FailThreshold,  \* fail_threshold
          ResetTimeout,   \* reset_timeout_secs
          FailWindow,     \* fail_window_secs
          Cancellable,    \* callers that use call_async and may be cancelled
          MaxTime         \* bound on the clock of a checked instance

ASSUME CallersAssumption == Cancellable \subseteq Callers
ASSUME LimitsAssumption  == /\ FailThreshold \in Nat \ {0}
                            /\ ResetTimeout \in Nat \ {0}
                            /\ FailWindow \in Nat
                            /\ MaxTime \in Nat

VARIABLES state,          \* _state
          failureCount,   \* _failure_count
          firstFailureAt, \* _first_failure_at
          openedAt,       \* _opened_at
          probeInFlight,  \* _probe_in_flight
          now,            \* time.monotonic()
          call,           \* where each caller is in call_sync / call_async
          recent          \* history: times of the last FailThreshold failures
                          \* since the last success, closing or reset

breaker == <<state, failureCount, firstFailureAt, openedAt, probeInFlight>>
vars == <<breaker, now, call, recent>>

States == {"CLOSED", "OPEN", "HALF_OPEN"}
NoTime == -1
Phases == {"idle", "gate", "running", "probing", "failing"}

\* call[c].at is the clock value the caller read before taking the lock.
Idle == [phase |-> "idle", at |-> NoTime]
Enter(c, p, t) == call' = [call EXCEPT ![c] = [phase |-> p, at |-> t]]
Leave(c) == call' = [call EXCEPT ![c] = Idle]
InCall(c) == call[c].phase \in {"running", "probing"}

Init == /\ state = "CLOSED"
        /\ failureCount = 0
        /\ firstFailureAt = NoTime
        /\ openedAt = NoTime
        /\ probeInFlight = FALSE
        /\ now = 0
        /\ call = [c \in Callers |-> Idle]
        /\ recent = <<>>

-----------------------------------------------------------------------------
(* _before_call: the gate. *)

CooledDown(t) == openedAt # NoTime /\ t - openedAt >= ResetTimeout

\* A caller arrives and reads the clock.
Arrive(c) ==
    /\ call[c].phase = "idle"
    /\ Enter(c, "gate", now)
    /\ UNCHANGED <<breaker, now, recent>>

\* CLOSED: no gate.
AdmitClosed(c) ==
    /\ call[c].phase = "gate"
    /\ state = "CLOSED"
    /\ Enter(c, "running", NoTime)
    /\ UNCHANGED <<breaker, now, recent>>

\* OPEN and cooled down, or HALF_OPEN without a probe: this caller probes.
AdmitProbe(c) ==
    /\ call[c].phase = "gate"
    /\ \/ state = "OPEN" /\ CooledDown(call[c].at)
       \/ state = "HALF_OPEN" /\ ~probeInFlight
    /\ state' = "HALF_OPEN"
    /\ probeInFlight' = TRUE
    /\ Enter(c, "probing", NoTime)
    /\ UNCHANGED <<failureCount, firstFailureAt, openedAt, now, recent>>

\* CircuitBreakerOpen is raised.
Refuse(c) ==
    /\ call[c].phase = "gate"
    /\ \/ state = "OPEN" /\ ~CooledDown(call[c].at)
       \/ state = "HALF_OPEN" /\ probeInFlight
    /\ Leave(c)
    /\ UNCHANGED <<breaker, now, recent>>

-----------------------------------------------------------------------------
(* _record_failure and _record_success. *)

\* The wrapped call raised an Exception; the clock is read before the lock.
Raise(c) ==
    /\ InCall(c)
    /\ Enter(c, "failing", now)
    /\ UNCHANGED <<breaker, now, recent>>

Remember(t) ==
    LET log == Append(recent, t)
    IN recent' = IF Len(log) > FailThreshold THEN Tail(log) ELSE log

\* Variant: the window is never consulted.
WindowNeverExpires(t) == firstFailureAt = NoTime

WindowExpired(t) == firstFailureAt = NoTime \/ t - firstFailureAt > FailWindow

Trips(count) == count >= FailThreshold

OpeningTime(t) == t

\* HALF_OPEN -> OPEN.
RecordProbeFailure(c) ==
    /\ call[c].phase = "failing"
    /\ state = "HALF_OPEN"
    /\ probeInFlight' = FALSE
    /\ state' = "OPEN"
    /\ openedAt' = OpeningTime(call[c].at)
    /\ Remember(call[c].at)
    /\ Leave(c)
    /\ UNCHANGED <<failureCount, firstFailureAt, now>>

\* CLOSED, and also OPEN when the failure is that of an older call.
RecordFailure(c) ==
    LET t     == call[c].at
        count == IF WindowExpired(t) THEN 1 ELSE failureCount + 1
    IN /\ call[c].phase = "failing"
       /\ state # "HALF_OPEN"
       /\ failureCount' = count
       /\ firstFailureAt' = IF WindowExpired(t) THEN t ELSE firstFailureAt
       /\ state' = IF Trips(count) THEN "OPEN" ELSE state
       /\ openedAt' = IF Trips(count) THEN OpeningTime(t) ELSE openedAt
       /\ Remember(t)
       /\ Leave(c)
       /\ UNCHANGED <<probeInFlight, now>>

\* Variant: the success of a probe is treated like any other.
ProbeSuccessIgnored(c) ==
    /\ InCall(c)
    /\ state = "HALF_OPEN"
    /\ failureCount' = 0
    /\ firstFailureAt' = NoTime
    /\ recent' = <<>>
    /\ Leave(c)
    /\ UNCHANGED <<state, openedAt, probeInFlight, now>>

\* HALF_OPEN -> CLOSED.
RecordProbeSuccess(c) ==
    /\ InCall(c)
    /\ state = "HALF_OPEN"
    /\ probeInFlight' = FALSE
    /\ state' = "CLOSED"
    /\ failureCount' = 0
    /\ firstFailureAt' = NoTime
    /\ openedAt' = NoTime
    /\ recent' = <<>>
    /\ Leave(c)
    /\ UNCHANGED now

\* CLOSED, and also OPEN when the success is that of an older call.
RecordSuccess(c) ==
    /\ InCall(c)
    /\ state # "HALF_OPEN"
    /\ failureCount' = 0
    /\ firstFailureAt' = NoTime
    /\ recent' = <<>>
    /\ Leave(c)
    /\ UNCHANGED <<state, openedAt, probeInFlight, now>>

\* asyncio.CancelledError is a BaseException: `except Exception` (line 198)
\* does not see it and nothing is recorded.
Cancel(c) ==
    /\ c \in Cancellable
    /\ InCall(c)
    /\ Leave(c)
    /\ UNCHANGED <<breaker, now, recent>>

\* Variant: reset() does not clear the probe gate.
ResetKeepsGate ==
    /\ state' = "CLOSED"
    /\ failureCount' = 0
    /\ firstFailureAt' = NoTime
    /\ openedAt' = NoTime
    /\ recent' = <<>>
    /\ UNCHANGED <<probeInFlight, now, call>>

\* POST /api/health/breakers/{name}/reset.
Reset ==
    /\ state' = "CLOSED"
    /\ failureCount' = 0
    /\ firstFailureAt' = NoTime
    /\ openedAt' = NoTime
    /\ probeInFlight' = FALSE
    /\ recent' = <<>>
    /\ UNCHANGED <<now, call>>

Tick == /\ now < MaxTime
        /\ now' = now + 1
        /\ UNCHANGED <<breaker, call, recent>>

Outcome(c) == \/ Raise(c)
              \/ RecordProbeFailure(c)
              \/ RecordFailure(c)
              \/ RecordProbeSuccess(c)
              \/ RecordSuccess(c)

CallStep(c) == \/ Arrive(c)
               \/ AdmitClosed(c)
               \/ AdmitProbe(c)
               \/ Refuse(c)
               \/ Outcome(c)
               \/ Cancel(c)

UnattendedNext == \/ \E c \in Callers : CallStep(c)
                  \/ Tick

Next == UnattendedNext \/ Reset

Spec == Init /\ [][Next]_vars

(* A request has a timeout (8 s for the hubs, 120 s for matter-server), so  *)
(* a call that runs ends; the lock is held for bookkeeping only; and the    *)
(* pollers and watchdogs that use the clients keep calling.                 *)
Fairness == \A c \in Callers : WF_vars(CallStep(c))

FairSpec == Spec /\ Fairness

-----------------------------------------------------------------------------
(* Properties *)

TypeOK == /\ state \in States
          /\ failureCount \in Nat
          /\ firstFailureAt \in Nat \cup {NoTime}
          /\ openedAt \in Nat \cup {NoTime}
          /\ probeInFlight \in BOOLEAN
          /\ now \in Nat
          /\ call \in [Callers -> [phase : Phases, at : Nat \cup {NoTime}]]
          /\ recent \in Seq(Nat)

\* The admit-one-probe gate agrees with the state whatever order late
\* outcomes, probes and resets arrive in: a gate left set outside HALF_OPEN
\* would refuse the next probe, one left clear would admit a second.
ProbeGateMatchesState == probeInFlight <=> state = "HALF_OPEN"

\* A breaker that is not CLOSED knows when it opened, and not in the future;
\* _before_call never ends the cooldown of an OPEN breaker whose _opened_at
\* is None, and CLOSED forgets it.
CooldownCanElapse == /\ state # "CLOSED" <=> openedAt # NoTime
                     /\ openedAt <= now

\* No interleaving of failures, late outcomes and resets leaves a CLOSED
\* breaker with the count that should have opened it.
ClosedBelowThreshold == state = "CLOSED" => failureCount < FailThreshold

\* CLOSED opens only on FailThreshold failures that no success separates, none
\* later than FailWindow after the first of them: slow noise does not trip it.
TripIsJustified ==
    [][state = "CLOSED" /\ state' = "OPEN" =>
         /\ Len(recent') = FailThreshold
         /\ \A i \in DOMAIN recent' : recent'[i] - recent'[1] <= FailWindow]_vars

\* A probe of a call_sync caller resolves, so HALF_OPEN does not last and
\* callers are not refused for ever.
ProbeResolves ==
    \A c \in Callers \ Cancellable :
        state = "HALF_OPEN" /\ call[c].phase = "probing" ~> state # "HALF_OPEN"

=============================================================================

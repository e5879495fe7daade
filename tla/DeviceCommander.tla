-------------------------- MODULE DeviceCommander --------------------------
(***************************************************************************)
(* services/device_commander.py: commands to ONE device, executed by the   *)
(* worker threads of the pool at the same time.                            *)
(*                                                                         *)
(* A command tries Matter first, then the device's hub: it sends, polls    *)
(* the live device until it shows the wanted value, and sends again.  A    *)
(* hub that answers 200 has only queued the command in the device's        *)
(* driver; it may act late or never.  Each call to a hub, to matter-server *)
(* or to the database is a step, so the commands of other threads and      *)
(* people at the wall switch come between.                                 *)
(*                                                                         *)
(* The cooldown is a timer, cool; a command may find its command_timeout   *)
(* exceeded at any poll, for nothing bounds the calls in between.          *)
(* Failures of the status writes to the database are logged only and have  *)
(* no other effect, as does the delay between polls: both are left out.    *)
(***************************************************************************)
EXTENDS Integers, FiniteSets, Sequences

CONSTANTS Threads,          \* worker threads busy with this device
          Values,           \* what the commanded attribute can be
          Unknown,          \* nothing read
          BlankReads,       \* what an empty answer to a Matter read counts as:
                            \* "off" for a switch, nothing for other attributes
          OperationRetries, \* operation_retries
          VerifyRetries,    \* verify_retries
          FailThreshold,    \* _verify_fail_threshold
          Backoff,          \* _verify_backoff_s
          MaxQueue,         \* what the device's driver queues before it drops
          LogMayFail        \* whether writes to device_commands may fail

ASSUME PoolAssumption == IsFiniteSet(Threads) /\ Threads # {}
ASSUME LimitAssumption == {OperationRetries, VerifyRetries, FailThreshold,
                           Backoff, MaxQueue} \subseteq Nat \ {0}
ASSUME ValueAssumption == Unknown \notin Values /\ BlankReads \subseteq Values
ASSUME LogAssumption == LogMayFail \in BOOLEAN

VARIABLES device, \* the physical value of the commanded attribute
          queue,  \* accepted by the hub, not yet acted on by the device
          fails,  \* _verify_breaker[device]["fails"], saturated at the threshold
          cool,   \* what is left of the cooldown since ["opened"]
          status, \* _device_status[device]
          cmd,    \* the command each thread executes
          log,    \* the device_commands row of its command; "none" once the
                  \* command has returned with the row completed
          streak, \* history: verify failures recorded since the last success
          quiet,  \* history: time since the last of them, up to Backoff
          since,  \* history: sends with verify=True in that time
          loose   \* history: an unpolled command has ended without a final
                  \* status, and nobody has written one since

breaker == <<fails, cool>>
history == <<streak, quiet, since>>
vars == <<device, queue, breaker, status, loose, cmd, log, history>>

\* verify=True with and without an entry in COMMAND_EXPECTED_STATE (setColor has
\* none), and verify=False: the second is gated by the breaker, not polled.
Kinds == {"verify", "unmapped", "forget"}
Statuses == {"idle", "updating", "verified", "failed", "timeout"}
Outcomes == {"none", "pending", "confirmed", "failed_verify", "failed_network"}
Steps == {"idle", "matter", "read_back", "issue", "gate", "send", "poll",
          "verified", "exhausted", "complete", "return"}

\* success, verified and seen are result.success, .verified and .actual_state.
\* sent and held are history: the command was sent, and the device has had the
\* wanted value since.
Resting == [at |-> "idle", want |-> Unknown, kind |-> "forget", try |-> 0,
            polls |-> 0, success |-> FALSE, verified |-> FALSE, seen |-> Unknown,
            sent |-> FALSE, held |-> FALSE]

Smaller(a, b) == IF a < b THEN a ELSE b

\* The command leaves the loops; the counters are not read again.
LeaveLoops(c, step) == [c EXCEPT !.at = step, !.try = 0, !.polls = 0]

Goto(t, step) == cmd' = [cmd EXCEPT ![t].at = step]
End(t) == cmd' = [cmd EXCEPT ![t] = Resting]
Busy(t) == cmd[t].at # "idle"
Expects(t) == cmd[t].kind = "verify"
Watched(t) == cmd[t].kind # "forget"

\* _set_device_status, in memory.
SetStatus(s) == status' = s /\ loose' = FALSE

\* The device takes the value v; `others` is cmd as the rest of the step leaves it.
Actuate(v, others) ==
    /\ device' = v
    /\ cmd' = [t \in Threads |->
                 [others[t] EXCEPT !.held = @ \/ (others[t].sent /\ others[t].want = v)]]

Init == /\ device \in Values
        /\ queue = <<>>
        /\ fails = 0 /\ cool = 0
        /\ status = "idle" /\ loose = FALSE
        /\ cmd = [t \in Threads |-> Resting]
        /\ log = [t \in Threads |-> "none"]
        /\ streak = 0 /\ quiet = Backoff /\ since = 0

-----------------------------------------------------------------------------
(* send_command and send_command_sync submit to the pool; with Matter      *)
(* enabled and the device commissioned, Matter comes first.                *)

Submit(t, want, kind, first) ==
    /\ cmd[t].at = "idle"
    /\ cmd' = [cmd EXCEPT ![t] = [Resting EXCEPT !.at = first, !.want = want,
                                                 !.kind = kind]]
    /\ log' = [log EXCEPT ![t] = "none"]
    /\ UNCHANGED <<device, queue, breaker, status, loose, history>>

ToHub(t) ==
    cmd' = [cmd EXCEPT ![t].at = "issue", ![t].sent = FALSE, ![t].held = FALSE]

\* Offline, unreachable, untranslatable or an exception: on to the hub.  The
\* call may raise after the device has acted.
MatterMiss(t) ==
    /\ cmd[t].at = "matter" \/ (cmd[t].at = "read_back" /\ Watched(t))
    /\ \/ ToHub(t) /\ UNCHANGED device
       \/ cmd[t].at = "matter"
          /\ Actuate(cmd[t].want, [cmd EXCEPT ![t].at = "issue"])
    /\ UNCHANGED <<queue, breaker, status, loose, log, history>>

\* send_hubitat_command returned; the device may still not have acted.
MatterSend(t) ==
    LET sent == [cmd EXCEPT ![t].at = "read_back", ![t].sent = TRUE,
                            ![t].held = (device = cmd[t].want)]
    IN /\ cmd[t].at = "matter"
       /\ \/ Actuate(cmd[t].want, sent)
          \/ cmd' = sent /\ UNCHANGED device
       /\ UNCHANGED <<queue, breaker, status, loose, log, history>>

\* Variant: an unconfirmed Matter command counts as done.
MatterUnchecked(t) ==
    /\ cmd[t].at = "read_back"
    /\ status' = IF Watched(t) THEN "verified" ELSE "updating"
    /\ loose' = ~Watched(t)
    /\ End(t)
    /\ UNCHANGED <<device, queue, breaker, log, history>>

\* _verify_matter_state: the device's value, or what a null or empty answer is
\* taken for, bool(None) being "off"; int(None) raises, which is a MatterMiss.
MatterReads == {device} \cup BlankReads

\* Confirmed over Matter, or not asked to confirm.  Neither the breaker nor
\* device_commands hears of it.
MatterDone(t) ==
    /\ cmd[t].at = "read_back"
    /\ Watched(t) => cmd[t].want \in MatterReads
    /\ status' = IF Watched(t) THEN "verified" ELSE "updating"
    /\ loose' = ~Watched(t)
    /\ End(t)
    /\ UNCHANGED <<device, queue, breaker, log, history>>

\* Read back and different: on to the hub.
MatterUnverified(t) ==
    /\ cmd[t].at = "read_back"
    /\ Watched(t) /\ MatterReads # {cmd[t].want}
    /\ ToHub(t)
    /\ UNCHANGED <<device, queue, breaker, status, loose, log, history>>

-----------------------------------------------------------------------------
(* _execute_command_sync, the hub path. *)

Issue(t) ==
    /\ cmd[t].at = "issue"
    /\ \/ log' = [log EXCEPT ![t] = "pending"]
       \/ LogMayFail /\ UNCHANGED log
    /\ SetStatus("updating")
    /\ Goto(t, "gate")
    /\ UNCHANGED <<device, queue, breaker, history>>

BackoffActive == fails >= FailThreshold /\ cool > 0

Pass(t) ==
    /\ cmd[t].at = "gate"
    /\ ~(Watched(t) /\ BackoffActive)
    /\ Goto(t, "send")
    /\ UNCHANGED <<device, queue, breaker, status, loose, log, history>>

\* SKIPPED, verify-backoff active: returns without _log_command_completed.
Suppress(t) ==
    /\ cmd[t].at = "gate"
    /\ Watched(t) /\ BackoffActive
    /\ SetStatus("failed")
    /\ End(t)
    /\ UNCHANGED <<device, queue, breaker, log, history>>

\* The hub took the command: the driver queues it, or drops it ("Queue full",
\* a dead bridge).
Deliver(v) == \/ Len(queue) < MaxQueue /\ queue' = Append(queue, v)
              \/ UNCHANGED queue

CountSend(t) ==
    /\ since' = IF Watched(t) /\ streak >= FailThreshold /\ quiet < Backoff
                THEN since + 1 ELSE since
    /\ UNCHANGED <<streak, quiet>>

\* Accepted; without verification that is all.
Send(t) ==
    /\ cmd[t].at = "send"
    /\ Deliver(cmd[t].want)
    /\ IF Expects(t) THEN UNCHANGED <<status, loose>> ELSE SetStatus("idle")
    /\ LET c == [cmd[t] EXCEPT !.success = TRUE, !.polls = 0, !.sent = TRUE,
                               !.held = @ \/ device = cmd[t].want]
       IN cmd' = [cmd EXCEPT ![t] = IF Expects(t) THEN [c EXCEPT !.at = "poll"]
                                    ELSE LeaveLoops(c, "complete")]
    /\ CountSend(t)
    /\ UNCHANGED <<device, breaker, log>>

LastAttempt(t) == cmd[t].try + 1 = OperationRetries

\* Where a command goes when an attempt has failed.
NextAttempt(t, c) ==
    cmd' = [cmd EXCEPT ![t] =
              IF ~LastAttempt(t) THEN [c EXCEPT !.at = "send", !.try = @ + 1]
              ELSE LeaveLoops(c, IF Expects(t) THEN "exhausted" ELSE "complete")]

\* An exception or False; the hub may have taken the command all the same.
SendFails(t) ==
    /\ cmd[t].at = "send"
    /\ Deliver(cmd[t].want)
    /\ NextAttempt(t, [cmd[t] EXCEPT !.sent = TRUE,
                                     !.held = @ \/ device = cmd[t].want])
    /\ CountSend(t)
    /\ UNCHANGED <<device, breaker, status, loose, log>>

\* Variant: the status is left as it was.
TimeOutQuietly(t) ==
    /\ cmd[t].at = "poll"
    /\ End(t)
    /\ UNCHANGED <<device, queue, breaker, status, loose, log, history>>

\* The overall timeout, checked before each poll: returns without
\* _log_command_completed and without _record_verify_result.
TimeOut(t) ==
    /\ cmd[t].at = "poll"
    /\ SetStatus("timeout")
    /\ End(t)
    /\ UNCHANGED <<device, queue, breaker, log, history>>

\* Variant: a poll that read nothing counts as a match.
SilenceMatches(t, value) == value \in {cmd[t].want, Unknown}

Matches(t, value) == value = cmd[t].want

\* One verify poll; Unknown is a failed get_device.
Poll(t) ==
    /\ cmd[t].at = "poll"
    /\ \E value \in {device, Unknown} :
         LET c == [cmd[t] EXCEPT !.seen = IF value = Unknown THEN @ ELSE value,
                                 !.polls = @ + 1]
         IN IF Matches(t, value)
            THEN cmd' = [cmd EXCEPT ![t] = LeaveLoops(c, "verified")]
            ELSE IF c.polls < VerifyRetries
                 THEN cmd' = [cmd EXCEPT ![t] = c]
                 ELSE NextAttempt(t, [c EXCEPT !.polls = 0])
    /\ UNCHANGED <<device, queue, breaker, status, loose, log, history>>

\* _record_verify_result(ok=True) closes the breaker.
Verified(t) ==
    /\ cmd[t].at = "verified"
    /\ SetStatus("verified")
    /\ fails' = 0 /\ cool' = 0
    /\ streak' = 0 /\ quiet' = Backoff /\ since' = 0
    /\ cmd' = [cmd EXCEPT ![t].at = "complete", ![t].verified = TRUE]
    /\ UNCHANGED <<device, queue, log>>

\* Variant: only the failure that reaches the threshold starts the cooldown.
OpensOnce == fails + 1 = FailThreshold

Opens == fails + 1 >= FailThreshold

\* _record_verify_result(ok=False) counts, and opens or refreshes.
Exhausted(t) ==
    /\ cmd[t].at = "exhausted"
    /\ SetStatus("failed")
    /\ fails' = Smaller(fails + 1, FailThreshold)
    /\ cool' = IF Opens THEN Backoff ELSE cool
    /\ streak' = Smaller(streak + 1, FailThreshold) /\ quiet' = 0 /\ since' = 0
    /\ Goto(t, "complete")
    /\ UNCHANGED <<device, queue, log>>

\* _log_command_completed: the status of the result decides the outcome.
OutcomeOf(c) ==
    IF c.verified \/ (c.kind # "verify" /\ c.success) THEN "confirmed"
    ELSE IF c.kind = "verify" /\ c.seen # Unknown THEN "failed_verify"
    ELSE "failed_network"

Complete(t) ==
    /\ cmd[t].at = "complete"
    /\ \/ log' = [log EXCEPT ![t] = IF @ = "pending" THEN OutcomeOf(cmd[t]) ELSE @]
       \/ LogMayFail /\ UNCHANGED log
    /\ Goto(t, "return")
    /\ UNCHANGED <<device, queue, breaker, status, loose, history>>

Return(t) ==
    /\ cmd[t].at = "return"
    /\ log' = [log EXCEPT ![t] = IF @ = "pending" THEN @ ELSE "none"]
    /\ loose' = (loose \/ (~Expects(t) /\ ~cmd[t].success))
    /\ End(t)
    /\ UNCHANGED <<device, queue, breaker, status, history>>

-----------------------------------------------------------------------------
(* The device, the people in the house, and time. *)

DeviceActs ==
    /\ queue # <<>>
    /\ queue' = Tail(queue)
    /\ Actuate(Head(queue), cmd)
    /\ UNCHANGED <<breaker, status, loose, log, history>>

WallSwitch ==
    /\ \E v \in Values \ {device} : Actuate(v, cmd)
    /\ UNCHANGED <<queue, breaker, status, loose, log, history>>

Tick ==
    /\ cool' = IF cool > 0 THEN cool - 1 ELSE 0
    /\ quiet' = Smaller(quiet + 1, Backoff)
    /\ UNCHANGED <<device, queue, fails, status, loose, cmd, log, streak, since>>

MatterStep(t) == MatterMiss(t) \/ MatterSend(t) \/ MatterDone(t) \/ MatterUnverified(t)

HubStep(t) == \/ Issue(t) \/ Pass(t) \/ Suppress(t)
              \/ Send(t) \/ SendFails(t)
              \/ TimeOut(t) \/ Poll(t)
              \/ Verified(t) \/ Exhausted(t)
              \/ Complete(t) \/ Return(t)

Execute(t) == MatterStep(t) \/ HubStep(t)

Next == \/ \E t \in Threads, want \in Values, kind \in Kinds,
              first \in {"matter", "issue"} : Submit(t, want, kind, first)
        \/ \E t \in Threads : Execute(t)
        \/ DeviceActs
        \/ WallSwitch
        \/ Tick

Spec == Init /\ [][Next]_vars

-----------------------------------------------------------------------------
(* Properties *)

CommandType == [at : Steps, want : Values \cup {Unknown}, kind : Kinds,
                try : 0..OperationRetries - 1, polls : 0..VerifyRetries,
                success : BOOLEAN, verified : BOOLEAN, seen : Values \cup {Unknown},
                sent : BOOLEAN, held : BOOLEAN]

TypeOK == /\ device \in Values
          /\ queue \in Seq(Values) /\ Len(queue) <= MaxQueue
          /\ fails \in 0..FailThreshold /\ cool \in 0..Backoff
          /\ status \in Statuses /\ loose \in BOOLEAN
          /\ cmd \in [Threads -> CommandType]
          /\ log \in [Threads -> Outcomes]
          /\ streak \in 0..FailThreshold /\ quiet \in 0..Backoff /\ since \in Nat

\* A device that does not confirm is not flooded: after FailThreshold failures
\* in a row, until Backoff has passed since the last one, only commands that
\* other threads had already begun are still sent to it.
FloodBounded ==
    streak >= FailThreshold /\ quiet < Backoff =>
        since <= (Cardinality(Threads) - 1) * OperationRetries

\* What the row of a command says is true of the device, whatever other
\* commands and people did meanwhile: a confirmed verification means that the
\* device had the wanted value at some time after the command was sent, and
\* "failed_network" that nobody saw the device.
OutcomeTruthful ==
    [][\A t \in Threads : log'[t] # log[t] =>
         /\ log'[t] = "confirmed" /\ Expects(t) => cmd[t].held
         /\ log'[t] = "failed_network" => cmd[t].seen = Unknown
         /\ log'[t] = "failed_verify" => cmd[t].sent]_vars

\* "None ALWAYS means use Hubitat": a command that asks for verification ends
\* only when its value was read back over Matter, when the breaker suppresses it
\* or when it was given to the hub.  The exception is a value that an empty read
\* counts as: "off" may be confirmed with the device still on.
FallbackNeverSkipped ==
    [][\A t \in Threads :
         Busy(t) /\ Watched(t) /\ cmd'[t].at = "idle" =>
            \/ /\ cmd[t].at = "read_back"
               /\ device = cmd[t].want \/ cmd[t].want \in BlankReads
            \/ cmd[t].at = "gate" /\ streak >= FailThreshold
            \/ cmd[t].at # "read_back" /\ cmd[t].sent]_vars

\* When nobody is at work the device is not shown as "updating", unless the
\* last to finish was an unpolled command, which writes no final status over
\* Matter or when every send failed: whatever order the threads end in.
StatusSettles ==
    status = "updating" /\ (\A t \in Threads : ~Busy(t)) => loose

=============================================================================

------------------------ MODULE DeviceCommanderProofs ------------------------
(***************************************************************************)
(* Proofs about DeviceCommander for any number of threads, retries and     *)
(* polls: what a command has seen and done when it says so, that a device  *)
(* that does not confirm is not flooded, and that the status of a device   *)
(* settles.                                                                *)
(*                                                                         *)
(* Three invariants carry them.  Sound is about one command and the        *)
(* device; BreakerInStep ties the breaker's fields to the failures it has  *)
(* been told of; InHand counts the sends that threads past the gate may    *)
(* still do, as the size of a set, since nothing else will reach the       *)
(* device while the breaker is open.                                       *)
(***************************************************************************)
EXTENDS DeviceCommander, FiniteSetTheorems, TLAPS

\* What a command c may have done at each of its steps.
Steady(c) ==
    /\ c.at # "idle" => c.want \in Values
    /\ c.at \in {"read_back", "poll", "verified", "exhausted", "complete", "return"} => c.sent
    /\ c.at = "verified" \/ c.verified => c.held
    /\ c.verified => c.at \in {"complete", "return"}
    /\ c.at \in {"poll", "verified", "exhausted"} => c.kind = "verify"
    /\ c.kind # "verify" => c.seen = Unknown
    /\ c.success => /\ c.at \notin {"matter", "read_back", "issue", "gate"}
                    /\ c.at = "send" => c.kind = "verify"
\* And when the device has the value d.
Sound(c, d) == Steady(c) /\ (c.sent /\ d = c.want => c.held)
CommandsSound == \A t \in Threads : Sound(cmd[t], device)

\* The breaker counts what it is told, and an open one cools down as time passes.
BreakerInStep == /\ fails = streak
                 /\ streak >= FailThreshold => cool = Backoff - quiet

\* The sends that thread t may still do.
Remaining(c) == {k \in 1..OperationRetries :
                   /\ c.kind # "forget"
                   /\ \/ c.at = "send" /\ k > c.try
                      \/ c.at = "poll" /\ k > c.try + 1}
InHand == {p \in Threads \X (1..OperationRetries) : p[2] \in Remaining(cmd[p[1]])}
Quietened == streak >= FailThreshold /\ quiet < Backoff
FloodInv == Quietened =>
               since + Cardinality(InHand) <= (Cardinality(Threads) - 1) * OperationRetries

\* The command c will still write a final status, or note that it has none.
WillSettle(c) == \/ c.at \in {"gate", "send", "poll", "verified", "exhausted"}
                 \/ c.at \in {"complete", "return"} /\ c.kind # "verify" /\ ~c.success
StatusInv == status = "updating" => loose \/ \E t \in Threads : WillSettle(cmd[t])


-----------------------------------------------------------------------------
(* Types.  The sets of the fields have names, so that they can stay folded. *)

Wants == Values \cup {Unknown}
Tries == 0..OperationRetries - 1
PollCounts == 0..VerifyRetries
Commands == [at : Steps, want : Wants, kind : Kinds, try : Tries, polls : PollCounts,
             success : BOOLEAN, verified : BOOLEAN, seen : Wants, sent : BOOLEAN, held : BOOLEAN]

\* The types of the proofs are those of the model, under a name the provers need not open.
LEMMA CommandsAreTyped == Commands = CommandType
BY DEF Commands, CommandType, Wants, Tries, PollCounts

\* A thread at rest.
LEMMA RestingIsCommand == Resting \in Commands /\ Resting.at = "idle" /\ ~Resting.sent
                          /\ Remaining(Resting) = {} /\ \A d : Sound(Resting, d)
<1>1. 0 \in Tries /\ 0 \in PollCounts /\ Unknown \in Wants /\ "idle" \in Steps /\ "forget" \in Kinds
  BY LimitAssumption DEF Tries, PollCounts, Wants, Steps, Kinds
<1>2. Resting \in Commands
  BY <1>1 DEF Commands, Resting
<1>3. QED
  BY <1>2 DEF Resting, Remaining, Sound, Steady

\* Changing one field, or those of a step, gives a command.
LEMMA FieldUpdates ==
  ASSUME NEW c \in Commands
  PROVE  /\ \A s \in Steps : [c EXCEPT !.at = s] \in Commands
         /\ \A b \in BOOLEAN : [c EXCEPT !.held = b] \in Commands
         /\ \A a, b \in BOOLEAN : [c EXCEPT !.sent = a, !.held = b] \in Commands
         /\ \A s \in Steps, a, b \in BOOLEAN : [c EXCEPT !.at = s, !.sent = a, !.held = b] \in Commands
         /\ \A s \in Steps, n \in Tries : [c EXCEPT !.at = s, !.try = n] \in Commands
         /\ \A s \in Steps, n \in Tries, k \in PollCounts :
              [c EXCEPT !.at = s, !.try = n, !.polls = k] \in Commands
         /\ \A s \in Steps, b \in BOOLEAN : [c EXCEPT !.at = s, !.verified = b] \in Commands
         /\ \A w \in Wants, k \in PollCounts : [c EXCEPT !.seen = w, !.polls = k] \in Commands
         /\ \A k \in PollCounts : [c EXCEPT !.polls = k] \in Commands
         /\ \A b \in BOOLEAN, k \in PollCounts :
              [c EXCEPT !.success = TRUE, !.polls = k, !.sent = TRUE, !.held = b] \in Commands
         /\ \A s \in Steps, w \in Wants, k \in Kinds :
              [c EXCEPT !.at = s, !.want = w, !.kind = k] \in Commands
BY DEF Commands

\* A step of thread t that leaves the device alone changes its command only.
LEMMA OneThread ==
  ASSUME cmd \in [Threads -> Commands], CommandsSound, NEW t \in Threads,
         NEW c \in Commands, cmd' = [cmd EXCEPT ![t] = c], device' = device, Sound(c, device)
  PROVE  /\ cmd' \in [Threads -> Commands] /\ CommandsSound'
         /\ cmd'[t] = c /\ \A u \in Threads \ {t} : cmd'[u] = cmd[u]
<1>1. /\ cmd' \in [Threads -> Commands]
      /\ cmd'[t] = c /\ \A u \in Threads \ {t} : cmd'[u] = cmd[u]
  OBVIOUS
<1>2. ASSUME NEW u \in Threads PROVE Sound(cmd[u], device)'
  <2>1. CASE u = t
    BY <2>1, <1>1 DEF Sound, Steady
  <2>2. CASE u # t
    BY <2>2, <1>1 DEF CommandsSound, Sound, Steady
  <2>3. QED
    BY <2>1, <2>2
<1>3. QED
  BY <1>1, <1>2 DEF CommandsSound

\* What Actuate does, with the values after the step as arguments.
Noted(v, others, dev, cs) ==
    /\ dev = v
    /\ cs = [t \in Threads |-> [others[t] EXCEPT !.held = @ \/ (others[t].sent /\ others[t].want = v)]]

\* A device that takes a value is noted by every command that was sent for it.
LEMMA ActuateEffect ==
  ASSUME NEW v \in Values, NEW others \in [Threads -> Commands], Noted(v, others, device', cmd'),
         \A u \in Threads : Sound(others[u], device)
  PROVE  /\ device' = v /\ cmd' \in [Threads -> Commands] /\ CommandsSound'
         /\ \A u \in Threads : /\ cmd'[u].at = others[u].at /\ cmd'[u].try = others[u].try
                               /\ cmd'[u].kind = others[u].kind
                               /\ cmd'[u].success = others[u].success
<1>1. /\ device' = v
      /\ \A u \in Threads : cmd'[u] = [others[u] EXCEPT !.held = @ \/ (others[u].sent /\ others[u].want = v)]
  BY DEF Noted
<1>2. ASSUME NEW u \in Threads
      PROVE  /\ cmd'[u] \in Commands
             /\ cmd'[u].at = others[u].at /\ cmd'[u].try = others[u].try
             /\ cmd'[u].kind = others[u].kind /\ cmd'[u].success = others[u].success
             /\ cmd'[u].want = others[u].want /\ cmd'[u].sent = others[u].sent
             /\ cmd'[u].verified = others[u].verified /\ cmd'[u].seen = others[u].seen
             /\ cmd'[u].held = (others[u].held \/ (others[u].sent /\ others[u].want = v))
  <2>1. others[u] \in Commands
    OBVIOUS
  <2>2. others[u].held \in BOOLEAN
    BY <2>1 DEF Commands
  <2>3. QED
    BY <1>1, <2>1, <2>2 DEF Commands
<1>3. cmd' \in [Threads -> Commands]
  <2>1. cmd' = [u \in Threads |-> cmd'[u]]
    BY DEF Noted
  <2>2. \A u \in Threads : cmd'[u] \in Commands
    BY <1>2
  <2>3. QED
    BY <2>1, <2>2
<1>4. ASSUME NEW u \in Threads PROVE Sound(cmd[u], device)'
  <2>1. Sound(others[u], device)
    OBVIOUS
  <2>2. Steady(cmd'[u])
    BY <2>1, <1>2 DEF Sound, Steady
  <2>3. cmd'[u].sent /\ device' = cmd'[u].want => cmd'[u].held
    BY <1>1, <1>2
  <2>4. QED
    BY <2>2, <2>3 DEF Sound, Steady
<1>5. QED
  BY <1>1, <1>2, <1>3, <1>4 DEF CommandsSound

-----------------------------------------------------------------------------
(* The sends in hand.  The number of them is the size of a set of pairs.   *)

\* What the threads have in hand can be counted.
LEMMA InHandIsFinite == IsFiniteSet(InHand) /\ Cardinality(InHand) \in Nat
<1>1. IsFiniteSet(1..OperationRetries)
  BY FS_Interval, LimitAssumption
<1>2. IsFiniteSet(Threads \X (1..OperationRetries))
  BY <1>1, FS_Product, PoolAssumption
<1>3. InHand \subseteq Threads \X (1..OperationRetries)
  BY DEF InHand
<1>4. IsFiniteSet(InHand)
  BY <1>2, <1>3, FS_Subset
<1>5. QED
  BY <1>4, FS_CardinalityType

\* Where no command gets more sends, there are not more of them.
LEMMA InHandShrinks ==
  ASSUME \A u \in Threads : Remaining(cmd[u])' \subseteq Remaining(cmd[u])
  PROVE  InHand' \subseteq InHand /\ Cardinality(InHand') <= Cardinality(InHand)
<1>1. ASSUME NEW p \in InHand' PROVE p \in InHand
  <2>1. p \in Threads \X (1..OperationRetries) /\ p[2] \in Remaining(cmd[p[1]])'
    BY DEF InHand
  <2>2. p[1] \in Threads
    BY <2>1
  <2>3. p[2] \in Remaining(cmd[p[1]])
    BY <2>1, <2>2
  <2>4. QED
    BY <2>1, <2>3 DEF InHand
<1>2. InHand' \subseteq InHand
  BY <1>1
<1>3. QED
  BY <1>2, InHandIsFinite, FS_Subset

\* A send uses one of them up.
LEMMA InHandUsed ==
  ASSUME NEW t \in Threads, NEW k \in 1..OperationRetries,
         k \in Remaining(cmd[t]), k \notin Remaining(cmd[t])',
         \A u \in Threads : Remaining(cmd[u])' \subseteq Remaining(cmd[u])
  PROVE  Cardinality(InHand') + 1 <= Cardinality(InHand)
<1>1. InHand' \subseteq InHand
  BY InHandShrinks
<1>2. <<t, k>> \in InHand /\ <<t, k>> \notin InHand'
  BY DEF InHand
<1>3. InHand' \subseteq InHand \ {<<t, k>>}
  BY <1>1, <1>2
<1>4. /\ IsFiniteSet(InHand \ {<<t, k>>})
      /\ Cardinality(InHand \ {<<t, k>>}) = Cardinality(InHand) - 1
  BY <1>2, InHandIsFinite, FS_RemoveElement
<1>5. Cardinality(InHand') <= Cardinality(InHand \ {<<t, k>>}) /\ IsFiniteSet(InHand')
  BY <1>3, <1>4, FS_Subset
<1>6. Cardinality(InHand') \in Nat /\ Cardinality(InHand) \in Nat
  BY <1>5, InHandIsFinite, FS_CardinalityType
<1>7. QED
  BY <1>4, <1>5, <1>6

\* Where one thread has none left, the others have OperationRetries each at most.
LEMMA OthersInHand ==
  ASSUME NEW t \in Threads, Remaining(cmd[t]) = {}
  PROVE  Cardinality(InHand) <= (Cardinality(Threads) - 1) * OperationRetries
<1> DEFINE Tickets == 1..OperationRetries
           Rest == Threads \ {t}
<1>1. IsFiniteSet(Tickets) /\ Cardinality(Tickets) = OperationRetries
  BY FS_Interval, LimitAssumption
<1>2. IsFiniteSet(Rest) /\ Cardinality(Rest) = Cardinality(Threads) - 1
  BY FS_RemoveElement, PoolAssumption
<1>3. /\ IsFiniteSet(Rest \X Tickets)
      /\ Cardinality(Rest \X Tickets) = Cardinality(Rest) * Cardinality(Tickets)
  BY <1>1, <1>2, FS_Product
<1>4. InHand \subseteq Rest \X Tickets
  <2>1. ASSUME NEW p \in InHand PROVE p \in Rest \X Tickets
    <3>1. p \in Threads \X Tickets /\ p[2] \in Remaining(cmd[p[1]])
      BY DEF InHand
    <3>2. p[1] # t
      BY <3>1
    <3>3. QED
      BY <3>1, <3>2
  <2>2. QED
    BY <2>1
<1>5. Cardinality(InHand) <= Cardinality(Rest \X Tickets)
  BY <1>3, <1>4, FS_Subset
<1>6. QED
  BY <1>1, <1>2, <1>3, <1>5

-----------------------------------------------------------------------------
(* The inductive invariant, and the steps that leave the breaker alone. *)

QueueTypes == queue \in Seq(Values) /\ Len(queue) <= MaxQueue
BreakerTypes == /\ fails \in 0..FailThreshold /\ cool \in 0..Backoff
                /\ streak \in 0..FailThreshold /\ quiet \in 0..Backoff /\ since \in Nat
NoteTypes == status \in Statuses /\ loose \in BOOLEAN /\ log \in [Threads -> Outcomes]
CommandTypes == /\ device \in Values /\ cmd \in [Threads -> Commands]
                /\ QueueTypes /\ BreakerTypes /\ NoteTypes
CommandInv == CommandTypes /\ CommandsSound /\ BreakerInStep /\ FloodInv /\ StatusInv

\* The parts of the types are the types of the model.
LEMMA TypesAreTypeOK == CommandTypes <=> TypeOK
BY CommandsAreTyped DEF CommandTypes, TypeOK, QueueTypes, BreakerTypes, NoteTypes

\* While the breaker does not change, more sends only come in hand when it is closed.
LEMMA QuietStep ==
  ASSUME BreakerTypes, BreakerInStep, FloodInv, UNCHANGED <<breaker, history>>,
         Quietened => \A u \in Threads : Remaining(cmd[u])' \subseteq Remaining(cmd[u])
  PROVE  BreakerTypes' /\ BreakerInStep' /\ FloodInv'
<1>1. BreakerTypes' /\ BreakerInStep' /\ Quietened' = Quietened /\ since' = since
  BY DEF BreakerTypes, BreakerInStep, Quietened, breaker, history
<1>2. ASSUME Quietened
      PROVE  since' + Cardinality(InHand') <= (Cardinality(Threads) - 1) * OperationRetries
  <2>1. Cardinality(InHand') <= Cardinality(InHand)
    BY <1>2, InHandShrinks
  <2>2. since + Cardinality(InHand) <= (Cardinality(Threads) - 1) * OperationRetries
    BY <1>2 DEF FloodInv
  <2>3. Cardinality(InHand) \in Nat /\ Cardinality(InHand') \in Nat /\ since \in Nat
    <3>1. (IsFiniteSet(InHand) /\ Cardinality(InHand) \in Nat)'
      BY InHandIsFinite, PTL
    <3>2. QED
      BY <3>1, InHandIsFinite DEF BreakerTypes
  <2>4. Cardinality(Threads) \in Nat /\ OperationRetries \in Nat
    BY PoolAssumption, FS_CardinalityType, LimitAssumption
  <2> HIDE DEF InHand
  <2>5. QED
    BY <1>1, <2>1, <2>2, <2>3, <2>4
<1>3. QED
  BY <1>1, <1>2 DEF FloodInv

\* A step of one thread.
LEMMA QuietThreadStep ==
  ASSUME CommandInv, NEW t \in Threads, NEW c \in Commands, cmd' = [cmd EXCEPT ![t] = c],
         UNCHANGED <<device, breaker, history>>, QueueTypes', NoteTypes', Sound(c, device),
         Quietened => Remaining(c) \subseteq Remaining(cmd[t]),
         status' = "updating" => \/ loose'
                                 \/ WillSettle(c)
                                 \/ status = "updating" /\ ~loose /\ ~WillSettle(cmd[t])
  PROVE  CommandInv'
<1>1. /\ cmd' \in [Threads -> Commands] /\ CommandsSound'
      /\ cmd'[t] = c /\ \A u \in Threads \ {t} : cmd'[u] = cmd[u]
  BY OneThread DEF CommandInv, CommandTypes
<1>2. Quietened => \A u \in Threads : Remaining(cmd[u])' \subseteq Remaining(cmd[u])
  BY <1>1 DEF Remaining
<1>3. BreakerTypes' /\ BreakerInStep' /\ FloodInv'
  BY <1>2, QuietStep DEF CommandInv, CommandTypes
<1>4. StatusInv'
  BY <1>1 DEF StatusInv, WillSettle, CommandInv
<1>5. QED
  BY <1>1, <1>3, <1>4 DEF CommandInv, CommandTypes

\* A step in which the device takes a value.
LEMMA QuietActuate ==
  ASSUME CommandInv, NEW v \in Values, NEW others \in [Threads -> Commands], Noted(v, others, device', cmd'),
         UNCHANGED <<breaker, history, status, loose, log>>, QueueTypes',
         \A u \in Threads : /\ Sound(others[u], device)
                            /\ Remaining(others[u]) \subseteq Remaining(cmd[u])
                            /\ WillSettle(cmd[u]) => WillSettle(others[u])
  PROVE  CommandInv'
<1>1. /\ device' = v /\ cmd' \in [Threads -> Commands] /\ CommandsSound'
      /\ \A u \in Threads : /\ cmd'[u].at = others[u].at /\ cmd'[u].try = others[u].try
                            /\ cmd'[u].kind = others[u].kind /\ cmd'[u].success = others[u].success
  BY ActuateEffect DEF CommandInv, CommandTypes
<1>2. \A u \in Threads : Remaining(cmd[u])' \subseteq Remaining(cmd[u])
  BY <1>1 DEF Remaining
<1>3. BreakerTypes' /\ BreakerInStep' /\ FloodInv'
  BY <1>2, QuietStep DEF CommandInv, CommandTypes
<1>4. StatusInv'
  BY <1>1 DEF StatusInv, WillSettle, CommandInv
<1>5. NoteTypes'
  BY DEF NoteTypes, CommandInv, CommandTypes
<1>6. QED
  BY <1>1, <1>3, <1>4, <1>5 DEF CommandInv, CommandTypes

-----------------------------------------------------------------------------
(* One lemma per action.  Each names the command c that the thread goes on *)
(* with and leaves the rest to the lemmas above.                           *)

\* A new command has been sent nowhere.
LEMMA SubmitKeeps ==
  ASSUME CommandInv, NEW t \in Threads, NEW want \in Values, NEW kind \in Kinds,
         NEW first \in {"matter", "issue"}, Submit(t, want, kind, first)
  PROVE  CommandInv'
<1>1. PICK c : c = [Resting EXCEPT !.at = first, !.want = want, !.kind = kind]
  OBVIOUS
<1>2. first \in Steps /\ want \in Wants /\ c \in Commands
  BY <1>1, RestingIsCommand, FieldUpdates DEF Steps, Wants
<1>3. /\ c.at = first /\ c.want = want /\ c.kind = kind /\ ~c.sent /\ ~c.held /\ ~c.verified
      /\ ~c.success /\ c.seen = Unknown
  BY <1>1 DEF Resting
<1>4. Sound(c, device) /\ Remaining(c) = {}
  BY <1>2, <1>3 DEF Sound, Steady, Remaining
<1>5. cmd' = [cmd EXCEPT ![t] = c] /\ cmd[t].at = "idle"
  BY <1>1 DEF Submit
<1>6. QueueTypes' /\ NoteTypes'
  BY DEF Submit, CommandInv, CommandTypes, QueueTypes, NoteTypes, Outcomes
<1>7. UNCHANGED <<device, breaker, history, status, loose>> /\ ~WillSettle(cmd[t])
  BY <1>5 DEF Submit, WillSettle
<1>8. QED
  BY <1>2, <1>4, <1>5, <1>6, <1>7, QuietThreadStep

\* Matter has been given up: the command starts anew at the hub.
LEMMA ToHubKeeps ==
  ASSUME CommandInv, NEW t \in Threads, ToHub(t), cmd[t].at \in {"matter", "read_back"},
         UNCHANGED <<device, queue, breaker, status, loose, log, history>>
  PROVE  CommandInv'
<1>1. PICK c : c = [cmd[t] EXCEPT !.at = "issue", !.sent = FALSE, !.held = FALSE]
  OBVIOUS
<1>2. cmd[t] \in Commands /\ Sound(cmd[t], device) /\ "issue" \in Steps
  BY DEF CommandInv, CommandTypes, CommandsSound, Steps
<1>3. c \in Commands
  BY <1>1, <1>2, FieldUpdates
<1>4. /\ c.at = "issue" /\ c.want = cmd[t].want /\ c.kind = cmd[t].kind /\ ~c.sent /\ ~c.held
      /\ c.verified = cmd[t].verified /\ c.success = cmd[t].success /\ c.seen = cmd[t].seen
  BY <1>1, <1>2 DEF Commands
<1>5. Sound(c, device) /\ Remaining(c) = {}
  BY <1>2, <1>4 DEF Sound, Steady, Remaining
<1>6. cmd' = [cmd EXCEPT ![t] = c]
  BY <1>1 DEF ToHub
<1>7. QueueTypes' /\ NoteTypes' /\ ~WillSettle(cmd[t])
  BY DEF CommandInv, CommandTypes, QueueTypes, NoteTypes, WillSettle
<1>8. QED
  BY <1>3, <1>5, <1>6, <1>7, QuietThreadStep

\* Matter does not take the command, or does not confirm it: the hub is next.
LEMMA MatterMissKeeps ==
  ASSUME CommandInv, NEW t \in Threads, MatterMiss(t)
  PROVE  CommandInv'
<1>1. cmd[t].at \in {"matter", "read_back"} /\ UNCHANGED <<queue, breaker, status, loose, log, history>>
  BY DEF MatterMiss
<1>2. CASE ToHub(t) /\ UNCHANGED device
  BY <1>1, <1>2, ToHubKeeps
<1>3. CASE cmd[t].at = "matter" /\ Actuate(cmd[t].want, [cmd EXCEPT ![t].at = "issue"])
  <2>1. PICK c : c = [cmd[t] EXCEPT !.at = "issue"]
    OBVIOUS
  <2>2. PICK others : others = [cmd EXCEPT ![t] = c]
    OBVIOUS
  <2>3. /\ cmd[t] \in Commands /\ Sound(cmd[t], device) /\ "issue" \in Steps
        /\ cmd \in [Threads -> Commands] /\ \A u \in Threads : Sound(cmd[u], device)
    BY DEF CommandInv, CommandTypes, CommandsSound, Steps
  <2>4. c \in Commands
    BY <2>1, <2>3, FieldUpdates
  <2>5. /\ c.at = "issue" /\ c.want = cmd[t].want /\ c.kind = cmd[t].kind /\ c.sent = cmd[t].sent
        /\ c.held = cmd[t].held /\ c.verified = cmd[t].verified /\ c.success = cmd[t].success
        /\ c.seen = cmd[t].seen
    BY <2>1, <2>3 DEF Commands
  <2>6. Sound(c, device) /\ Remaining(c) = {} /\ cmd[t].want \in Values /\ ~WillSettle(cmd[t])
    BY <2>3, <2>5, <1>3 DEF Sound, Steady, Remaining, WillSettle
  <2>7. others \in [Threads -> Commands] /\ others[t] = c /\ \A u \in Threads \ {t} : others[u] = cmd[u]
    BY <2>2, <2>3, <2>4
  <2>8. PICK v \in Values : v = cmd[t].want /\ Noted(v, others, device', cmd')
    BY <1>3, <2>1, <2>2, <2>6 DEF Actuate, Noted
  <2>9. \A u \in Threads : /\ Sound(others[u], device)
                           /\ Remaining(others[u]) \subseteq Remaining(cmd[u])
                           /\ WillSettle(cmd[u]) => WillSettle(others[u])
    BY <2>3, <2>6, <2>7
  <2>10. QueueTypes'
    BY <1>1 DEF CommandInv, CommandTypes, QueueTypes
  <2>11. QED
    BY <1>1, <2>7, <2>8, <2>9, <2>10, QuietActuate
<1>4. QED
  BY <1>2, <1>3 DEF MatterMiss

\* A command over Matter that is read back.
LEMMA MatterSendKeeps ==
  ASSUME CommandInv, NEW t \in Threads, MatterSend(t)
  PROVE  CommandInv'
<1>1. cmd[t].at = "matter" /\ UNCHANGED <<queue, breaker, status, loose, log, history>>
  BY DEF MatterSend
<1>2. PICK c : c = [cmd[t] EXCEPT !.at = "read_back", !.sent = TRUE, !.held = (device = cmd[t].want)]
  OBVIOUS
<1>3. PICK others : others = [cmd EXCEPT ![t] = c]
  OBVIOUS
<1>4. /\ cmd[t] \in Commands /\ Sound(cmd[t], device) /\ "read_back" \in Steps
      /\ cmd \in [Threads -> Commands] /\ \A u \in Threads : Sound(cmd[u], device)
  BY DEF CommandInv, CommandTypes, CommandsSound, Steps
<1>5. c \in Commands
  <2>1. (device = cmd[t].want) \in BOOLEAN
    OBVIOUS
  <2>2. QED
    BY <1>2, <1>4, <2>1, FieldUpdates
<1>6. /\ c.at = "read_back" /\ c.want = cmd[t].want /\ c.kind = cmd[t].kind /\ c.sent
      /\ (device = c.want => c.held)
      /\ c.verified = cmd[t].verified /\ c.success = cmd[t].success /\ c.seen = cmd[t].seen
  BY <1>2, <1>4 DEF Commands
<1>7. Sound(c, device) /\ Remaining(c) = {} /\ cmd[t].want \in Values /\ ~WillSettle(cmd[t])
  BY <1>1, <1>4, <1>6 DEF Sound, Steady, Remaining, WillSettle
<1>8. QueueTypes' /\ NoteTypes'
  BY <1>1 DEF CommandInv, CommandTypes, QueueTypes, NoteTypes
<1>9. others = [cmd EXCEPT ![t].at = "read_back", ![t].sent = TRUE, ![t].held = (device = cmd[t].want)]
  BY <1>2, <1>3, <1>4
<1>10. CASE Actuate(cmd[t].want, others)
  <2>1. others \in [Threads -> Commands] /\ others[t] = c /\ \A u \in Threads \ {t} : others[u] = cmd[u]
    BY <1>3, <1>4, <1>5
  <2>2. \A u \in Threads : /\ Sound(others[u], device)
                           /\ Remaining(others[u]) \subseteq Remaining(cmd[u])
                           /\ WillSettle(cmd[u]) => WillSettle(others[u])
    BY <1>4, <1>7, <2>1
  <2>3. PICK v \in Values : v = cmd[t].want /\ Noted(v, others, device', cmd')
    BY <1>7, <1>10 DEF Actuate, Noted
  <2>4. QED
    BY <1>1, <1>8, <2>1, <2>2, <2>3, QuietActuate
<1>11. CASE cmd' = others /\ UNCHANGED device
  BY <1>1, <1>3, <1>5, <1>7, <1>8, <1>11, QuietThreadStep
<1>12. QED
  BY <1>9, <1>10, <1>11 DEF MatterSend

\* A command over Matter whose value could not be read back.
LEMMA MatterUnverifiedKeeps ==
  ASSUME CommandInv, NEW t \in Threads, MatterUnverified(t)
  PROVE  CommandInv'
BY ToHubKeeps DEF MatterUnverified

\* A command that returns sees to the status first, or was not to.
LEMMA EndKeeps ==
  ASSUME CommandInv, NEW t \in Threads, End(t), UNCHANGED <<device, queue, breaker, history>>,
         NoteTypes',
         status' = "updating" => loose' \/ (status = "updating" /\ ~loose /\ ~WillSettle(cmd[t]))
  PROVE  CommandInv'
<1>1. Resting \in Commands /\ Sound(Resting, device) /\ Remaining(Resting) = {}
  BY RestingIsCommand
<1>2. QueueTypes'
  BY DEF CommandInv, CommandTypes, QueueTypes
<1>3. cmd' = [cmd EXCEPT ![t] = Resting]
  BY DEF End
<1>4. PICK c : c = Resting
  OBVIOUS
<1>5. QED
  BY <1>1, <1>2, <1>3, <1>4, QuietThreadStep

\* A command that ends over Matter.
LEMMA MatterDoneKeeps ==
  ASSUME CommandInv, NEW t \in Threads, MatterDone(t)
  PROVE  CommandInv'
<1>1. UNCHANGED <<device, queue, breaker, history, log>> /\ End(t)
  BY DEF MatterDone
<1>2. status' \in {"verified", "updating"} /\ (status' = "updating" => loose') /\ loose' \in BOOLEAN
  BY DEF MatterDone
<1>3. NoteTypes'
  BY <1>1, <1>2 DEF NoteTypes, CommandInv, CommandTypes, Statuses
<1>4. QED
  BY <1>1, <1>2, <1>3, EndKeeps

\* The open breaker ends a command before it is sent.
LEMMA SuppressKeeps ==
  ASSUME CommandInv, NEW t \in Threads, Suppress(t)
  PROVE  CommandInv'
<1>1. UNCHANGED <<device, queue, breaker, history, log>> /\ End(t) /\ status' = "failed" /\ loose' = FALSE
  BY DEF Suppress, SetStatus
<1>2. NoteTypes'
  BY <1>1 DEF NoteTypes, CommandInv, CommandTypes, Statuses
<1>3. QED
  BY <1>1, <1>2, EndKeeps

\* The overall timeout ends a command.
LEMMA TimeOutKeeps ==
  ASSUME CommandInv, NEW t \in Threads, TimeOut(t)
  PROVE  CommandInv'
<1>1. UNCHANGED <<device, queue, breaker, history, log>> /\ End(t) /\ status' = "timeout" /\ loose' = FALSE
  BY DEF TimeOut, SetStatus
<1>2. NoteTypes'
  BY <1>1 DEF NoteTypes, CommandInv, CommandTypes, Statuses
<1>3. QED
  BY <1>1, <1>2, EndKeeps

\* An unpolled command whose sends all failed leaves the status as it was.
LEMMA ReturnKeeps ==
  ASSUME CommandInv, NEW t \in Threads, Return(t)
  PROVE  CommandInv'
<1>1. UNCHANGED <<device, queue, breaker, history, status>> /\ End(t) /\ cmd[t].at = "return"
  BY DEF Return
<1>2. cmd[t] \in Commands /\ Sound(cmd[t], device)
  BY DEF CommandInv, CommandTypes, CommandsSound
<1>3. loose' = (loose \/ (cmd[t].kind # "verify" /\ ~cmd[t].success)) /\ loose' \in BOOLEAN
  BY <1>2 DEF Return, Expects, CommandInv, CommandTypes, NoteTypes, Commands
<1>4. log' \in [Threads -> Outcomes]
  BY DEF Return, CommandInv, CommandTypes, NoteTypes, Outcomes
<1>5. NoteTypes'
  BY <1>1, <1>3, <1>4 DEF NoteTypes, CommandInv, CommandTypes
<1>6. ~loose' => ~loose /\ ~WillSettle(cmd[t])
  BY <1>1, <1>3 DEF WillSettle
<1>7. QED
  BY <1>1, <1>5, <1>6, EndKeeps

\* A command that goes on to another step keeps what it has.
SameBut(c, b) == /\ c.want = b.want /\ c.kind = b.kind /\ c.try = b.try /\ c.sent = b.sent
                 /\ c.held = b.held /\ c.verified = b.verified /\ c.success = b.success
                 /\ c.seen = b.seen

\* A thread that goes on to another step and changes nothing else.
LEMMA GotoEffect ==
  ASSUME CommandInv, NEW t \in Threads, NEW step \in Steps, Goto(t, step)
  PROVE  /\ Sound(cmd[t], device)
         /\ \E c \in Commands : /\ cmd' = [cmd EXCEPT ![t] = c]
                                /\ c.at = step /\ SameBut(c, cmd[t])
<1>1. PICK c : c = [cmd[t] EXCEPT !.at = step]
  OBVIOUS
<1>2. cmd[t] \in Commands /\ Sound(cmd[t], device)
  BY DEF CommandInv, CommandTypes, CommandsSound
<1>3. c \in Commands
  BY <1>1, <1>2, FieldUpdates
<1>4. c.at = step /\ SameBut(c, cmd[t])
  BY <1>1, <1>2 DEF Commands, SameBut
<1>5. cmd' = [cmd EXCEPT ![t] = c]
  BY <1>1, <1>2 DEF Goto, CommandInv, CommandTypes
<1>6. QED
  BY <1>2, <1>3, <1>4, <1>5

\* From here on the thread owes a final status.
LEMMA IssueKeeps ==
  ASSUME CommandInv, NEW t \in Threads, Issue(t)
  PROVE  CommandInv'
<1>1. /\ cmd[t].at = "issue" /\ UNCHANGED <<device, queue, breaker, history>>
      /\ Goto(t, "gate") /\ status' = "updating" /\ loose' = FALSE /\ "gate" \in Steps
  BY DEF Issue, SetStatus, Steps
<1>2. PICK c \in Commands : cmd' = [cmd EXCEPT ![t] = c] /\ c.at = "gate" /\ SameBut(c, cmd[t])
  BY <1>1, GotoEffect
<1>3. Sound(cmd[t], device)
  BY DEF CommandInv, CommandsSound
<1>4. Sound(c, device) /\ Remaining(c) = {} /\ WillSettle(c)
  BY <1>1, <1>2, <1>3 DEF Sound, Steady, SameBut, Remaining, WillSettle
<1>5. QueueTypes' /\ NoteTypes'
  BY <1>1 DEF Issue, CommandInv, CommandTypes, QueueTypes, NoteTypes, Statuses, Outcomes
<1>6. QED
  BY <1>1, <1>2, <1>4, <1>5, QuietThreadStep

\* While the breaker is open no watched command passes the gate.
LEMMA PassKeeps ==
  ASSUME CommandInv, NEW t \in Threads, Pass(t)
  PROVE  CommandInv'
<1>1. /\ cmd[t].at = "gate" /\ UNCHANGED <<device, queue, breaker, status, loose, log, history>>
      /\ Goto(t, "send") /\ "send" \in Steps
  BY DEF Pass, Steps
<1>2. PICK c \in Commands : cmd' = [cmd EXCEPT ![t] = c] /\ c.at = "send" /\ SameBut(c, cmd[t])
  BY <1>1, GotoEffect
<1>3. Sound(cmd[t], device)
  BY DEF CommandInv, CommandsSound
<1>4. Sound(c, device) /\ WillSettle(c)
  BY <1>1, <1>2, <1>3 DEF Sound, Steady, SameBut, WillSettle
<1>5. Quietened => Remaining(c) = {}
  <2>1. Quietened => BackoffActive
    <3>1. FailThreshold \in Nat /\ Backoff \in Nat
      BY LimitAssumption
    <3>2. QED
      BY <3>1 DEF Quietened, BackoffActive, CommandInv, CommandTypes, BreakerTypes, BreakerInStep
  <2>2. Quietened => c.kind = "forget"
    BY <2>1, <1>2 DEF Pass, Watched, SameBut
  <2>3. QED
    BY <2>2 DEF Remaining
<1>6. QueueTypes' /\ NoteTypes'
  BY <1>1 DEF CommandInv, CommandTypes, QueueTypes, NoteTypes
<1>7. QED
  BY <1>1, <1>2, <1>4, <1>5, <1>6, QuietThreadStep

\* The row of a command is completed.
LEMMA CompleteKeeps ==
  ASSUME CommandInv, NEW t \in Threads, Complete(t)
  PROVE  CommandInv'
<1>1. /\ cmd[t].at = "complete" /\ UNCHANGED <<device, queue, breaker, status, loose, history>>
      /\ Goto(t, "return") /\ "return" \in Steps
  BY DEF Complete, Steps
<1>2. PICK c \in Commands : cmd' = [cmd EXCEPT ![t] = c] /\ c.at = "return" /\ SameBut(c, cmd[t])
  BY <1>1, GotoEffect
<1>3. Sound(cmd[t], device)
  BY DEF CommandInv, CommandsSound
<1>4. Sound(c, device) /\ Remaining(c) = {} /\ WillSettle(c) = WillSettle(cmd[t])
  BY <1>1, <1>2, <1>3 DEF Sound, Steady, SameBut, Remaining, WillSettle
<1>5. OutcomeOf(cmd[t]) \in Outcomes
  BY DEF OutcomeOf, Outcomes
<1>6. log' \in [Threads -> Outcomes]
  BY <1>5 DEF Complete, CommandInv, CommandTypes, NoteTypes
<1>7. QueueTypes' /\ NoteTypes'
  BY <1>1, <1>6 DEF CommandInv, CommandTypes, QueueTypes, NoteTypes
<1>8. status' = "updating" => \/ loose' \/ WillSettle(c)
                              \/ status = "updating" /\ ~loose /\ ~WillSettle(cmd[t])
  BY <1>1, <1>4
<1>9. QED
  BY <1>1, <1>2, <1>4, <1>7, <1>8, QuietThreadStep

-----------------------------------------------------------------------------
(* The loop of sends and polls. *)

\* A delivery keeps the driver's queue within its bound.
LEMMA DeliverTypes ==
  ASSUME QueueTypes, NEW v \in Values, Deliver(v)
  PROVE  QueueTypes'
BY LimitAssumption DEF QueueTypes, Deliver

\* Both outcomes of a send: the sends in hand become one less as since grows.
LEMMA SendStep ==
  ASSUME CommandInv, NEW t \in Threads, NEW c \in Commands, cmd' = [cmd EXCEPT ![t] = c],
         cmd[t].at = "send", CountSend(t), UNCHANGED <<device, breaker>>,
         QueueTypes', NoteTypes', Sound(c, device),
         Remaining(c) \subseteq Remaining(cmd[t]) \ {cmd[t].try + 1},
         status' = "updating" => loose' \/ WillSettle(c)
  PROVE  CommandInv'
<1>1. /\ cmd' \in [Threads -> Commands] /\ CommandsSound'
      /\ cmd'[t] = c /\ \A u \in Threads \ {t} : cmd'[u] = cmd[u]
  BY OneThread DEF CommandInv, CommandTypes
<1>2. UNCHANGED <<fails, cool, streak, quiet>> /\ since' \in {since, since + 1} /\ since \in Nat
  BY DEF CountSend, CommandInv, CommandTypes, BreakerTypes, breaker
<1>3. BreakerTypes' /\ BreakerInStep' /\ Quietened' = Quietened
  BY <1>2 DEF BreakerTypes, BreakerInStep, Quietened, CommandInv, CommandTypes
<1>4. \A u \in Threads : Remaining(cmd[u])' \subseteq Remaining(cmd[u])
  BY <1>1 DEF Remaining
<1>5. ASSUME Quietened
      PROVE  since' + Cardinality(InHand') <= (Cardinality(Threads) - 1) * OperationRetries
  <2>1. since + Cardinality(InHand) <= (Cardinality(Threads) - 1) * OperationRetries
    BY <1>5 DEF CommandInv, FloodInv
  <2>2. Cardinality(InHand) \in Nat /\ Cardinality(InHand') \in Nat
    <3>1. (IsFiniteSet(InHand) /\ Cardinality(InHand) \in Nat)'
      BY InHandIsFinite, PTL
    <3>2. QED
      BY <3>1, InHandIsFinite
  <2>3. PICK bound \in Int : bound = (Cardinality(Threads) - 1) * OperationRetries
    BY PoolAssumption, FS_CardinalityType, LimitAssumption
  <2>4. CASE ~Watched(t)
    <3>1. Cardinality(InHand') <= Cardinality(InHand)
      BY <1>4, InHandShrinks
    <3>2. since' = since
      BY <2>4 DEF CountSend
    <3>3. PICK m \in Nat, n \in Nat : m = Cardinality(InHand) /\ n = Cardinality(InHand')
      BY <2>2
    <3>4. QED
      BY <2>1, <2>3, <3>1, <3>2, <3>3, <1>2
  <2>5. CASE Watched(t)
    <3>1. PICK k : k = cmd[t].try + 1
      OBVIOUS
    <3>2. cmd[t].try \in Tries
      BY DEF CommandInv, CommandTypes, Commands
    <3>3. k \in 1..OperationRetries /\ k > cmd[t].try
      BY <3>1, <3>2, LimitAssumption DEF Tries
    <3>4. k \in Remaining(cmd[t])
      BY <2>5, <3>3 DEF Remaining, Watched
    <3>5. k \notin Remaining(cmd[t])'
      BY <1>1, <3>1 DEF Remaining
    <3>6. Cardinality(InHand') + 1 <= Cardinality(InHand)
      BY <1>4, <3>3, <3>4, <3>5, InHandUsed
    <3>7. PICK m \in Nat, n \in Nat : m = Cardinality(InHand) /\ n = Cardinality(InHand')
      BY <2>2
    <3>8. QED
      BY <2>1, <2>3, <3>6, <3>7, <1>2
  <2>6. QED
    BY <2>4, <2>5
<1>6. FloodInv'
  BY <1>3, <1>5 DEF FloodInv
<1>7. StatusInv'
  BY <1>1 DEF StatusInv
<1>8. QED
  BY <1>1, <1>3, <1>6, <1>7 DEF CommandInv, CommandTypes

\* Accepted: the polls follow, or the command is complete.
LEMMA SendKeeps ==
  ASSUME CommandInv, NEW t \in Threads, Send(t)
  PROVE  CommandInv'
<1>1. cmd[t].at = "send" /\ CountSend(t) /\ UNCHANGED <<device, breaker, log>> /\ Deliver(cmd[t].want)
  BY DEF Send
<1>2. cmd[t] \in Commands /\ Sound(cmd[t], device) /\ cmd[t].held \in BOOLEAN /\ cmd[t].want \in Values
  BY <1>1 DEF CommandInv, CommandTypes, CommandsSound, Commands, Sound, Steady
<1>3. /\ 0 \in PollCounts /\ 0 \in Tries /\ "poll" \in Steps /\ "complete" \in Steps
      /\ (cmd[t].held \/ device = cmd[t].want) \in BOOLEAN
  BY <1>2, LimitAssumption DEF PollCounts, Tries, Steps
<1>4. PICK b : b = [cmd[t] EXCEPT !.success = TRUE, !.polls = 0, !.sent = TRUE,
                                  !.held = (cmd[t].held \/ device = cmd[t].want)]
  OBVIOUS
<1>5. b \in Commands
  BY <1>2, <1>3, <1>4, FieldUpdates
<1>6. /\ b.at = "send" /\ b.want = cmd[t].want /\ b.kind = cmd[t].kind /\ b.try = cmd[t].try
      /\ b.sent /\ b.success /\ b.seen = cmd[t].seen /\ b.verified = cmd[t].verified
      /\ b.held = (cmd[t].held \/ device = cmd[t].want)
  BY <1>1, <1>2, <1>4 DEF Commands
<1>7. PICK c : c = IF Expects(t) THEN [b EXCEPT !.at = "poll"] ELSE LeaveLoops(b, "complete")
  OBVIOUS
<1>8. c \in Commands
  BY <1>3, <1>5, <1>7, FieldUpdates DEF LeaveLoops
<1>9. /\ c.at = IF Expects(t) THEN "poll" ELSE "complete"
      /\ c.want = cmd[t].want /\ c.kind = cmd[t].kind /\ (Expects(t) => c.try = cmd[t].try)
      /\ c.sent /\ c.success /\ c.seen = cmd[t].seen /\ c.verified = cmd[t].verified
      /\ c.held = (cmd[t].held \/ device = cmd[t].want)
  BY <1>5, <1>6, <1>7 DEF LeaveLoops, Commands
<1>10. Sound(c, device)
  BY <1>1, <1>2, <1>9 DEF Sound, Steady, Expects
<1>11. Remaining(c) \subseteq Remaining(cmd[t]) \ {cmd[t].try + 1}
  <2>1. cmd[t].try \in Nat
    BY <1>2 DEF Commands, Tries
  <2>2. QED
    BY <1>1, <1>9, <2>1 DEF Remaining
<1>12. cmd' = [cmd EXCEPT ![t] = c]
  BY <1>4, <1>7 DEF Send
<1>13. QueueTypes'
  <2>1. PICK v \in Values : v = cmd[t].want
    BY <1>2
  <2>2. Deliver(v)
    BY <1>1, <2>1
  <2>3. QED
    BY <2>1, <2>2, DeliverTypes DEF CommandInv, CommandTypes
<1>14. NoteTypes' /\ (status' = "updating" => WillSettle(c))
  BY <1>1, <1>9 DEF Send, SetStatus, WillSettle, NoteTypes, CommandInv, CommandTypes, Statuses
<1>15. QED
  BY <1>1, <1>8, <1>10, <1>11, <1>12, <1>13, <1>14, SendStep

\* The same command apart from its step and its counters.
SameResult(c, b) == /\ c.want = b.want /\ c.kind = b.kind /\ c.sent = b.sent /\ c.held = b.held
                    /\ c.verified = b.verified /\ c.success = b.success /\ c.seen = b.seen

\* After an attempt: another one, or the end of them.
LEMMA NextAttemptEffect ==
  ASSUME NEW t \in Threads, cmd[t] \in Commands, NEW b \in Commands,
         b.try = cmd[t].try, NextAttempt(t, b)
  PROVE  \E c \in Commands :
            /\ cmd' = [cmd EXCEPT ![t] = c] /\ SameResult(c, b)
            /\ \/ c.at = "send" /\ c.try = b.try + 1
               \/ c.at = "exhausted" /\ Expects(t)
               \/ c.at = "complete" /\ ~Expects(t)
<1>1. /\ cmd[t].try \in Tries /\ 0 \in Tries /\ 0 \in PollCounts
      /\ "send" \in Steps /\ "exhausted" \in Steps /\ "complete" \in Steps
  BY LimitAssumption DEF Commands, Tries, PollCounts, Steps
<1>2. CASE ~LastAttempt(t)
  <2>1. PICK c : c = [b EXCEPT !.at = "send", !.try = b.try + 1]
    OBVIOUS
  <2>2. b.try + 1 \in Tries
    BY <1>1, <1>2, LimitAssumption DEF LastAttempt, Tries
  <2>3. c \in Commands
    BY <1>1, <2>1, <2>2, FieldUpdates
  <2>4. c.at = "send" /\ c.try = b.try + 1 /\ SameResult(c, b)
    BY <2>1 DEF SameResult, Commands
  <2>5. cmd' = [cmd EXCEPT ![t] = c]
    BY <1>2, <2>1 DEF NextAttempt
  <2>6. QED
    BY <2>3, <2>4, <2>5
<1>3. CASE LastAttempt(t)
  <2>1. PICK s \in Steps : s = IF Expects(t) THEN "exhausted" ELSE "complete"
    BY <1>1
  <2>2. PICK c : c = [b EXCEPT !.at = s, !.try = 0, !.polls = 0]
    OBVIOUS
  <2>3. c \in Commands
    BY <1>1, <2>2, FieldUpdates
  <2>4. c.at = s /\ SameResult(c, b)
    BY <2>2 DEF SameResult, Commands
  <2>5. cmd' = [cmd EXCEPT ![t] = c]
    BY <1>3, <2>1, <2>2 DEF NextAttempt, LeaveLoops
  <2>6. QED
    BY <2>1, <2>3, <2>4, <2>5
<1>4. QED
  BY <1>2, <1>3

\* The hub may have taken the command all the same.
LEMMA SendFailsKeeps ==
  ASSUME CommandInv, NEW t \in Threads, SendFails(t)
  PROVE  CommandInv'
<1>1. /\ cmd[t].at = "send" /\ CountSend(t) /\ UNCHANGED <<device, breaker, log, status, loose>>
      /\ Deliver(cmd[t].want)
  BY DEF SendFails
<1>2. cmd[t] \in Commands /\ Sound(cmd[t], device) /\ cmd[t].held \in BOOLEAN /\ cmd[t].want \in Values
  BY <1>1 DEF CommandInv, CommandTypes, CommandsSound, Commands, Sound, Steady
<1>3. PICK b : b = [cmd[t] EXCEPT !.sent = TRUE, !.held = (cmd[t].held \/ device = cmd[t].want)]
  OBVIOUS
<1>4. (cmd[t].held \/ device = cmd[t].want) \in BOOLEAN /\ TRUE \in BOOLEAN
  BY <1>2
<1>5. b \in Commands
  BY <1>2, <1>3, <1>4, FieldUpdates
<1>6. /\ b.want = cmd[t].want /\ b.kind = cmd[t].kind /\ b.try = cmd[t].try
      /\ b.sent /\ b.success = cmd[t].success /\ b.seen = cmd[t].seen /\ b.verified = cmd[t].verified
      /\ b.held = (cmd[t].held \/ device = cmd[t].want)
  BY <1>2, <1>3 DEF Commands
<1>7. NextAttempt(t, b)
  BY <1>3 DEF SendFails
<1>8. PICK c \in Commands : /\ cmd' = [cmd EXCEPT ![t] = c] /\ SameResult(c, b)
                            /\ \/ c.at = "send" /\ c.try = b.try + 1
                               \/ c.at = "exhausted" /\ Expects(t)
                               \/ c.at = "complete" /\ ~Expects(t)
  BY <1>2, <1>5, <1>6, <1>7, NextAttemptEffect
<1>9. Sound(c, device)
  BY <1>1, <1>2, <1>6, <1>8 DEF Sound, Steady, Expects, SameResult
<1>10. Remaining(c) \subseteq Remaining(cmd[t]) \ {cmd[t].try + 1}
  <2>1. cmd[t].try \in Nat
    BY <1>2 DEF Commands, Tries
  <2>2. QED
    BY <1>1, <1>6, <1>8, <2>1 DEF Remaining, SameResult
<1>11. QueueTypes'
  <2>1. PICK v \in Values : v = cmd[t].want
    BY <1>2
  <2>2. Deliver(v)
    BY <1>1, <2>1
  <2>3. QED
    BY <2>1, <2>2, DeliverTypes DEF CommandInv, CommandTypes
<1>12. NoteTypes'
  BY <1>1 DEF NoteTypes, CommandInv, CommandTypes
<1>13. WillSettle(c)
  BY <1>1, <1>2, <1>6, <1>8 DEF WillSettle, Sound, Steady, Expects, SameResult
<1>14. QED
  BY <1>1, <1>8, <1>9, <1>10, <1>11, <1>12, <1>13, SendStep

\* A poll shows the device as it is, or nothing.
LEMMA PollKeeps ==
  ASSUME CommandInv, NEW t \in Threads, Poll(t)
  PROVE  CommandInv'
<1>1. cmd[t].at = "poll" /\ UNCHANGED <<device, queue, breaker, status, loose, log, history>>
  BY DEF Poll
<1>2. /\ cmd[t] \in Commands /\ Sound(cmd[t], device) /\ cmd[t].want \in Values /\ cmd[t].sent
      /\ cmd[t].kind = "verify" /\ device \in Values /\ cmd[t].try \in Nat /\ cmd[t].polls \in Nat
  BY <1>1 DEF CommandInv, CommandTypes, CommandsSound, Commands, Sound, Steady, Tries, PollCounts
<1>3. /\ 0 \in PollCounts /\ 0 \in Tries /\ "poll" \in Steps /\ "verified" \in Steps
  BY LimitAssumption DEF PollCounts, Tries, Steps
<1>4. PICK value \in {device, Unknown} :
         LET c == [cmd[t] EXCEPT !.seen = IF value = Unknown THEN @ ELSE value,
                                 !.polls = @ + 1]
         IN IF Matches(t, value)
            THEN cmd' = [cmd EXCEPT ![t] = LeaveLoops(c, "verified")]
            ELSE IF c.polls < VerifyRetries
                 THEN cmd' = [cmd EXCEPT ![t] = c]
                 ELSE NextAttempt(t, [c EXCEPT !.polls = 0])
  BY DEF Poll
<1>5. PICK seen : seen = IF value = Unknown THEN cmd[t].seen ELSE value
  OBVIOUS
<1>6. seen \in Wants
  BY <1>2, <1>4, <1>5 DEF Commands, Wants
<1>7. PICK b : b = [cmd[t] EXCEPT !.seen = seen, !.polls = cmd[t].polls + 1]
  OBVIOUS
<1>8. /\ b.at = "poll" /\ b.want = cmd[t].want /\ b.kind = cmd[t].kind /\ b.try = cmd[t].try
      /\ b.sent = cmd[t].sent /\ b.held = cmd[t].held /\ b.success = cmd[t].success
      /\ b.verified = cmd[t].verified /\ b.polls = cmd[t].polls + 1
  BY <1>1, <1>2, <1>7 DEF Commands
<1>9. /\ Matches(t, value) => cmd' = [cmd EXCEPT ![t] = LeaveLoops(b, "verified")]
      /\ ~Matches(t, value) /\ b.polls < VerifyRetries => cmd' = [cmd EXCEPT ![t] = b]
      /\ ~Matches(t, value) /\ ~(b.polls < VerifyRetries) => NextAttempt(t, [b EXCEPT !.polls = 0])
  BY <1>4, <1>5, <1>7
<1>10. QueueTypes' /\ NoteTypes'
  BY <1>1 DEF CommandInv, CommandTypes, QueueTypes, NoteTypes
<1>11. CASE Matches(t, value)
  <2>1. value = device /\ cmd[t].want = device
    BY <1>2, <1>4, <1>11, ValueAssumption DEF Matches
  <2>2. PICK c : c = [cmd[t] EXCEPT !.at = "verified", !.try = 0, !.polls = 0, !.seen = seen]
    OBVIOUS
  <2>3. c = LeaveLoops(b, "verified")
    BY <1>2, <1>7, <2>2 DEF LeaveLoops, Commands
  <2>4. c \in Commands
    BY <1>2, <1>3, <1>6, <2>2 DEF Commands
  <2>5. /\ c.at = "verified" /\ c.want = cmd[t].want /\ c.kind = cmd[t].kind /\ c.sent = cmd[t].sent
        /\ c.held = cmd[t].held /\ c.success = cmd[t].success /\ c.verified = cmd[t].verified
    BY <1>2, <2>2 DEF Commands
  <2>6. Sound(c, device) /\ Remaining(c) = {} /\ WillSettle(c)
    BY <1>1, <1>2, <2>1, <2>5 DEF Sound, Steady, Remaining, WillSettle
  <2>7. QED
    BY <1>1, <1>9, <1>10, <1>11, <2>3, <2>4, <2>6, QuietThreadStep
<1>12. CASE ~Matches(t, value) /\ b.polls < VerifyRetries
  <2>1. cmd[t].polls + 1 \in PollCounts
    BY <1>2, <1>8, <1>12, LimitAssumption DEF PollCounts
  <2>2. b \in Commands
    BY <1>2, <1>6, <1>7, <2>1, FieldUpdates
  <2>3. Sound(b, device) /\ Remaining(b) = Remaining(cmd[t]) /\ WillSettle(b)
    BY <1>1, <1>2, <1>8 DEF Sound, Steady, Remaining, WillSettle
  <2>4. QED
    BY <1>1, <1>9, <1>10, <1>12, <2>2, <2>3, QuietThreadStep
<1>13. CASE ~Matches(t, value) /\ ~(b.polls < VerifyRetries)
  <2>1. PICK e : e = [cmd[t] EXCEPT !.seen = seen, !.polls = 0]
    OBVIOUS
  <2>2. e = [b EXCEPT !.polls = 0]
    BY <1>2, <1>7, <2>1 DEF Commands
  <2>3. e \in Commands
    BY <1>2, <1>3, <1>6, <2>1, FieldUpdates
  <2>4. /\ e.want = cmd[t].want /\ e.kind = cmd[t].kind /\ e.try = cmd[t].try
        /\ e.sent = cmd[t].sent /\ e.held = cmd[t].held /\ e.success = cmd[t].success
        /\ e.verified = cmd[t].verified
    BY <1>2, <2>1 DEF Commands
  <2>5. NextAttempt(t, e)
    BY <1>9, <1>13, <2>2
  <2>6. PICK c \in Commands : /\ cmd' = [cmd EXCEPT ![t] = c] /\ SameResult(c, e)
                              /\ \/ c.at = "send" /\ c.try = e.try + 1
                                 \/ c.at = "exhausted" /\ Expects(t)
                                 \/ c.at = "complete" /\ ~Expects(t)
    BY <1>2, <2>3, <2>4, <2>5, NextAttemptEffect
  <2>7. Sound(c, device) /\ WillSettle(c)
    BY <1>1, <1>2, <2>4, <2>6 DEF Sound, Steady, Expects, SameResult, WillSettle
  <2>8. Remaining(c) \subseteq Remaining(cmd[t])
    BY <1>1, <1>2, <2>4, <2>6 DEF Remaining, SameResult
  <2>9. QED
    BY <1>1, <1>10, <2>6, <2>7, <2>8, QuietThreadStep
<1>14. QED
  BY <1>11, <1>12, <1>13

-----------------------------------------------------------------------------
(* What the breaker hears, the device, and time. *)

\* A success closes the breaker.
LEMMA VerifiedKeeps ==
  ASSUME CommandInv, NEW t \in Threads, Verified(t)
  PROVE  CommandInv'
<1>1. /\ cmd[t].at = "verified" /\ UNCHANGED <<device, queue, log>> /\ status' = "verified" /\ loose' = FALSE
      /\ fails' = 0 /\ cool' = 0 /\ streak' = 0 /\ quiet' = Backoff /\ since' = 0
  BY DEF Verified, SetStatus
<1>2. cmd[t] \in Commands /\ Sound(cmd[t], device) /\ "complete" \in Steps /\ TRUE \in BOOLEAN
  BY DEF CommandInv, CommandTypes, CommandsSound, Steps
<1>3. PICK c : c = [cmd[t] EXCEPT !.at = "complete", !.verified = TRUE]
  OBVIOUS
<1>4. c \in Commands
  BY <1>2, <1>3, FieldUpdates
<1>5. /\ c.at = "complete" /\ c.want = cmd[t].want /\ c.kind = cmd[t].kind /\ c.sent = cmd[t].sent
      /\ c.held = cmd[t].held /\ c.success = cmd[t].success /\ c.seen = cmd[t].seen
  BY <1>2, <1>3 DEF Commands
<1>6. Sound(c, device)
  BY <1>1, <1>2, <1>5 DEF Sound, Steady
<1>7. cmd' = [cmd EXCEPT ![t] = c]
  BY <1>2, <1>3 DEF Verified, CommandInv, CommandTypes
<1>8. cmd' \in [Threads -> Commands] /\ CommandsSound'
  BY <1>1, <1>4, <1>6, <1>7, OneThread DEF CommandInv, CommandTypes
<1>9. FailThreshold \in Nat /\ FailThreshold > 0 /\ Backoff \in Nat
  BY LimitAssumption
<1>10. BreakerTypes' /\ BreakerInStep' /\ ~Quietened'
  BY <1>1, <1>9 DEF BreakerTypes, BreakerInStep, Quietened
<1>11. QueueTypes' /\ NoteTypes' /\ StatusInv'
  BY <1>1 DEF CommandInv, CommandTypes, QueueTypes, NoteTypes, StatusInv, Statuses
<1>12. QED
  BY <1>1, <1>8, <1>10, <1>11 DEF CommandInv, CommandTypes, FloodInv

\* A failure that opens the breaker: only the other threads have sends in hand.
LEMMA ExhaustedKeeps ==
  ASSUME CommandInv, NEW t \in Threads, Exhausted(t)
  PROVE  CommandInv'
<1>1. /\ cmd[t].at = "exhausted" /\ UNCHANGED <<device, queue, log>> /\ status' = "failed" /\ loose' = FALSE
      /\ fails' = Smaller(fails + 1, FailThreshold) /\ cool' = IF Opens THEN Backoff ELSE cool
      /\ streak' = Smaller(streak + 1, FailThreshold) /\ quiet' = 0 /\ since' = 0
      /\ Goto(t, "complete") /\ "complete" \in Steps
  BY DEF Exhausted, SetStatus, Steps
<1>2. PICK c \in Commands : cmd' = [cmd EXCEPT ![t] = c] /\ c.at = "complete" /\ SameBut(c, cmd[t])
  BY <1>1, GotoEffect
<1>3. Sound(cmd[t], device)
  BY DEF CommandInv, CommandsSound
<1>4. Sound(c, device) /\ Remaining(c) = {}
  BY <1>1, <1>2, <1>3 DEF Sound, Steady, SameBut, Remaining
<1>5. /\ cmd' \in [Threads -> Commands] /\ CommandsSound' /\ cmd'[t] = c
  BY <1>1, <1>2, <1>4, OneThread DEF CommandInv, CommandTypes
<1>6. FailThreshold \in Nat /\ FailThreshold > 0 /\ Backoff \in Nat /\ Backoff > 0
  BY LimitAssumption
<1>7. BreakerTypes' /\ BreakerInStep'
  <2>1. /\ fails \in 0..FailThreshold /\ cool \in 0..Backoff /\ fails = streak
    BY DEF CommandInv, CommandTypes, BreakerTypes, BreakerInStep
  <2>2. /\ fails' \in 0..FailThreshold /\ cool' \in 0..Backoff /\ streak' = fails'
        /\ fails' >= FailThreshold => cool' = Backoff
    BY <1>1, <1>6, <2>1 DEF Smaller, Opens
  <2>3. QED
    BY <1>1, <1>6, <2>2 DEF BreakerTypes, BreakerInStep
<1>8. FloodInv'
  <2>1. (Remaining(cmd[t]) = {})'
    BY <1>4, <1>5
  <2>2. (Remaining(cmd[t]) = {} => Cardinality(InHand) <= (Cardinality(Threads) - 1) * OperationRetries)'
    <3>1. Remaining(cmd[t]) = {} => Cardinality(InHand) <= (Cardinality(Threads) - 1) * OperationRetries
      BY OthersInHand
    <3>2. QED
      BY OthersInHand, PTL
  <2>3. (IsFiniteSet(InHand) /\ Cardinality(InHand) \in Nat)'
    BY InHandIsFinite, PTL
  <2>4. PICK n \in Nat : n = Cardinality(InHand')
    BY <2>3
  <2>5. QED
    BY <1>1, <2>1, <2>2, <2>4 DEF FloodInv
<1>9. QueueTypes' /\ NoteTypes' /\ StatusInv'
  BY <1>1 DEF CommandInv, CommandTypes, QueueTypes, NoteTypes, StatusInv, Statuses
<1>10. QED
  BY <1>1, <1>5, <1>7, <1>8, <1>9 DEF CommandInv, CommandTypes

\* The driver takes the next command from its queue.
LEMMA DeviceActsKeeps ==
  ASSUME CommandInv, DeviceActs
  PROVE  CommandInv'
<1>1. /\ queue # <<>> /\ queue' = Tail(queue) /\ queue \in Seq(Values) /\ Len(queue) <= MaxQueue
      /\ UNCHANGED <<breaker, history, status, loose, log>> /\ Actuate(Head(queue), cmd)
  BY DEF DeviceActs, CommandInv, CommandTypes, QueueTypes
<1>2. Head(queue) \in Values /\ QueueTypes'
  BY <1>1, LimitAssumption DEF QueueTypes
<1>3. PICK v \in Values : Noted(v, cmd, device', cmd')
  BY <1>1, <1>2 DEF Actuate, Noted
<1>4. PICK others : others = cmd
  OBVIOUS
<1>5. /\ others \in [Threads -> Commands] /\ Noted(v, others, device', cmd')
      /\ \A u \in Threads : /\ Sound(others[u], device)
                            /\ Remaining(others[u]) \subseteq Remaining(cmd[u])
                            /\ WillSettle(cmd[u]) => WillSettle(others[u])
  BY <1>3, <1>4 DEF CommandInv, CommandTypes, CommandsSound
<1>6. QED
  BY <1>1, <1>2, <1>5, QuietActuate

\* Somebody uses the wall switch.
LEMMA WallSwitchKeeps ==
  ASSUME CommandInv, WallSwitch
  PROVE  CommandInv'
<1>1. UNCHANGED <<queue, breaker, history, status, loose, log>>
  BY DEF WallSwitch
<1>2. QueueTypes'
  BY <1>1 DEF CommandInv, CommandTypes, QueueTypes
<1>3. PICK v \in Values : Noted(v, cmd, device', cmd')
  BY DEF WallSwitch, Actuate, Noted
<1>4. PICK others : others = cmd
  OBVIOUS
<1>5. /\ others \in [Threads -> Commands] /\ Noted(v, others, device', cmd')
      /\ \A u \in Threads : /\ Sound(others[u], device)
                            /\ Remaining(others[u]) \subseteq Remaining(cmd[u])
                            /\ WillSettle(cmd[u]) => WillSettle(others[u])
  BY <1>3, <1>4 DEF CommandInv, CommandTypes, CommandsSound
<1>6. QED
  BY <1>1, <1>2, <1>5, QuietActuate

\* The cooldown and the time since the last failure run together.
LEMMA TickKeeps ==
  ASSUME CommandInv, Tick
  PROVE  CommandInv'
<1>1. /\ cool' = IF cool > 0 THEN cool - 1 ELSE 0
      /\ quiet' = Smaller(quiet + 1, Backoff)
      /\ UNCHANGED <<device, queue, fails, status, loose, cmd, log, streak, since>>
  BY DEF Tick
<1>2. FailThreshold \in Nat /\ FailThreshold > 0 /\ Backoff \in Nat /\ Backoff > 0
  BY LimitAssumption
<1>3. BreakerTypes' /\ BreakerInStep' /\ (Quietened' => Quietened)
  BY <1>1, <1>2 DEF CommandInv, CommandTypes, BreakerTypes, BreakerInStep, Quietened, Smaller
<1>4. FloodInv' /\ StatusInv' /\ CommandsSound' /\ QueueTypes' /\ NoteTypes'
  BY <1>1, <1>3 DEF CommandInv, CommandTypes, FloodInv, InHand, StatusInv, CommandsSound,
     QueueTypes, NoteTypes
<1>5. QED
  BY <1>1, <1>3, <1>4 DEF CommandInv, CommandTypes

-----------------------------------------------------------------------------
(* The invariant, and what it shows. *)

\* Nobody commands the device at first.
LEMMA CommandInvInit == Init => CommandInv
<1> SUFFICES ASSUME Init PROVE CommandInv
  OBVIOUS
<1>1. FailThreshold \in Nat /\ FailThreshold > 0 /\ Backoff \in Nat /\ MaxQueue \in Nat
  BY LimitAssumption
<1>2. Resting \in Commands /\ Resting.at = "idle" /\ \A d : Sound(Resting, d)
  BY RestingIsCommand
<1>3. cmd \in [Threads -> Commands] /\ CommandsSound
  BY <1>2 DEF Init, CommandsSound
<1>4. QueueTypes /\ BreakerTypes /\ NoteTypes
  <2>1. QueueTypes
    BY <1>1 DEF Init, QueueTypes
  <2>2. BreakerTypes
    BY <1>1 DEF Init, BreakerTypes
  <2>3. "none" \in Outcomes /\ "idle" \in Statuses /\ FALSE \in BOOLEAN
    BY DEF Outcomes, Statuses
  <2>4. NoteTypes
    BY <2>3 DEF Init, NoteTypes
  <2>5. QED
    BY <2>1, <2>2, <2>4
<1>5. BreakerInStep /\ FloodInv /\ StatusInv
  BY <1>1 DEF Init, BreakerInStep, FloodInv, Quietened, StatusInv
<1>6. QED
  BY <1>3, <1>4, <1>5 DEF CommandInv, CommandTypes, Init

\* Every step keeps the invariant.
LEMMA CommandInvStep == CommandInv /\ [Next]_vars => CommandInv'
<1> SUFFICES ASSUME CommandInv, [Next]_vars PROVE CommandInv'
  OBVIOUS
<1>1. ASSUME NEW t \in Threads, NEW want \in Values, NEW kind \in Kinds,
             NEW first \in {"matter", "issue"}, Submit(t, want, kind, first)
      PROVE  CommandInv'
  BY <1>1, SubmitKeeps
<1>2. ASSUME NEW t \in Threads, MatterStep(t) PROVE CommandInv'
  BY <1>2, MatterMissKeeps, MatterSendKeeps, MatterDoneKeeps, MatterUnverifiedKeeps DEF MatterStep
<1>3. ASSUME NEW t \in Threads, HubStep(t) PROVE CommandInv'
  BY <1>3, IssueKeeps, PassKeeps, SuppressKeeps, SendKeeps, SendFailsKeeps, TimeOutKeeps, PollKeeps,
     VerifiedKeeps, ExhaustedKeeps, CompleteKeeps, ReturnKeeps DEF HubStep
<1>4. CASE DeviceActs
  BY <1>4, DeviceActsKeeps
<1>5. CASE WallSwitch
  BY <1>5, WallSwitchKeeps
<1>6. CASE Tick
  BY <1>6, TickKeeps
<1>7. CASE UNCHANGED vars
  BY <1>7 DEF vars, breaker, history, CommandInv, CommandTypes, CommandsSound, BreakerInStep, FloodInv,
     StatusInv, QueueTypes, BreakerTypes, NoteTypes, Quietened, InHand
<1>8. QED
  BY <1>1, <1>2, <1>3, <1>4, <1>5, <1>6, <1>7 DEF Next, Execute

\* CommandInv holds in every state; the theorems below read it off.
LEMMA CommandsInvariant == Spec => []CommandInv
BY CommandInvInit, CommandInvStep, PTL DEF Spec

\* Type correctness: the device, its driver's queue, the breaker, the status and
\* the commands of the pool (services/device_commander.py).
THEOREM CommanderTyped == Spec => []TypeOK
<1>1. CommandInv => TypeOK
  BY TypesAreTypeOK DEF CommandInv
<1>2. QED
  BY <1>1, CommandsInvariant, PTL

\* With any number of threads and retries, a device that failed FailThreshold
\* times in a row is sent no more, until Backoff has passed, than what the other
\* threads had begun: _record_verify_result opens the breaker and refreshes it,
\* and the gate of _execute_command_sync lets no watched command through.
THEOREM NoFlood == Spec => []FloodBounded
<1>1. CommandInv => FloodBounded
  <2> SUFFICES ASSUME CommandInv, Quietened
               PROVE  since <= (Cardinality(Threads) - 1) * OperationRetries
    BY DEF FloodBounded, Quietened
  <2>1. since + Cardinality(InHand) <= (Cardinality(Threads) - 1) * OperationRetries
    BY DEF CommandInv, FloodInv
  <2>2. PICK n \in Nat : n = Cardinality(InHand)
    BY InHandIsFinite
  <2>3. PICK bound \in Int : bound = (Cardinality(Threads) - 1) * OperationRetries
    BY PoolAssumption, FS_CardinalityType, LimitAssumption
  <2>4. since \in Nat
    BY DEF CommandInv, CommandTypes, BreakerTypes
  <2>5. QED
    BY <2>1, <2>2, <2>3, <2>4
<1>2. QED
  BY <1>1, CommandsInvariant, PTL

\* Whatever order the threads end in, the last one writes a final status or is an
\* unpolled command that has none to write (_set_device_status and its callers).
THEOREM StatusIsSettled == Spec => []StatusSettles
<1>1. CommandInv => StatusSettles
  BY DEF CommandInv, StatusInv, StatusSettles, WillSettle, Busy
<1>2. QED
  BY <1>1, CommandsInvariant, PTL

\* What _log_command_completed writes into device_commands is true of the device,
\* although other commands, people and a late driver act in between.
THEOREM OutcomesAreTrue == Spec => OutcomeTruthful
<1> DEFINE Truthful(t) == log'[t] # log[t] =>
                            /\ log'[t] = "confirmed" /\ Expects(t) => cmd[t].held
                            /\ log'[t] = "failed_network" => cmd[t].seen = Unknown
                            /\ log'[t] = "failed_verify" => cmd[t].sent
<1>1. CommandInv /\ [Next]_vars => [\A t \in Threads : Truthful(t)]_vars
  <2> SUFFICES ASSUME CommandInv, [Next]_vars, NEW t \in Threads, log'[t] # log[t]
               PROVE  Truthful(t)
    OBVIOUS
  <2>1. log \in [Threads -> Outcomes] /\ Sound(cmd[t], device)
    BY DEF CommandInv, CommandTypes, NoteTypes, CommandsSound
  <2>2. CASE \E u \in Threads, want \in Values, kind \in Kinds, first \in {"matter", "issue"} :
                Submit(u, want, kind, first)
    <3>1. log'[t] = "none"
      BY <2>1, <2>2 DEF Submit
    <3>2. QED
      BY <3>1
  <2>3. CASE \E u \in Threads : Issue(u)
    <3>1. log'[t] = "pending"
      BY <2>1, <2>3 DEF Issue
    <3>2. QED
      BY <3>1
  <2>4. CASE \E u \in Threads : Return(u)
    <3>1. log'[t] \in {"none", "pending"}
      BY <2>1, <2>4 DEF Return
    <3>2. QED
      BY <3>1
  <2>5. CASE \E u \in Threads : Complete(u)
    <3>1. cmd[t].at = "complete" /\ log'[t] = OutcomeOf(cmd[t])
      BY <2>1, <2>5 DEF Complete
    <3>2. cmd[t].sent /\ (cmd[t].verified => cmd[t].held) /\ (cmd[t].kind # "verify" => cmd[t].seen = Unknown)
      BY <2>1, <3>1 DEF Sound, Steady
    <3>3. QED
      BY <3>1, <3>2 DEF OutcomeOf, Expects
  <2>6. \/ \E u \in Threads, want \in Values, kind \in Kinds, first \in {"matter", "issue"} :
              Submit(u, want, kind, first)
        \/ \E u \in Threads : Issue(u) \/ Return(u) \/ Complete(u)
    BY DEF Next, Execute, MatterStep, HubStep, MatterMiss, MatterSend, MatterDone, MatterUnverified,
       Pass, Suppress, Send, SendFails, TimeOut, Poll, Verified, Exhausted, DeviceActs, WallSwitch,
       Tick, vars
  <2>7. QED
    BY <2>2, <2>3, <2>4, <2>5, <2>6
<1>2. QED
  BY <1>1, CommandsInvariant, PTL DEF Spec, OutcomeTruthful

\* A command at work goes on, or returns at one of four places.
LEMMA HowCommandsEnd ==
  ASSUME CommandInv, [Next]_vars, NEW t \in Threads, cmd[t].at # "idle", cmd'[t].at = "idle"
  PROVE  MatterDone(t) \/ Suppress(t) \/ TimeOut(t) \/ Return(t)
<1>1. cmd \in [Threads -> Commands]
  BY DEF CommandInv, CommandTypes
<1>2. ASSUME NEW v, NEW others, Actuate(v, others), others[t] \in Commands,
             others[t].at \in {cmd[t].at, "issue", "read_back"}
      PROVE  FALSE
  <2>1. cmd'[t].at = others[t].at
    BY <1>2 DEF Actuate, Commands
  <2>2. QED
    BY <1>2, <2>1
<1>3. ASSUME NEW u \in Threads, NEW c, cmd' = [cmd EXCEPT ![u] = c], c.at # "idle"
      PROVE  FALSE
  BY <1>1, <1>3
<1>4. ASSUME NEW u \in Threads, NEW want \in Values, NEW kind \in Kinds,
             NEW first \in {"matter", "issue"}, Submit(u, want, kind, first)
      PROVE  FALSE
  <2>1. PICK c : c = [Resting EXCEPT !.at = first, !.want = want, !.kind = kind]
    OBVIOUS
  <2>2. c.at # "idle"
    BY <2>1 DEF Resting
  <2>3. QED
    BY <1>3, <1>4, <2>1, <2>2 DEF Submit
<1>5. ASSUME NEW u \in Threads, NEW step \in Steps \ {"idle"}, Goto(u, step) PROVE FALSE
  <2>1. PICK c : c = [cmd[u] EXCEPT !.at = step]
    OBVIOUS
  <2>2. cmd' = [cmd EXCEPT ![u] = c] /\ c.at = step
    BY <1>1, <1>5, <2>1 DEF Goto, Commands
  <2>3. QED
    BY <1>3, <2>2
<1>6. ASSUME NEW u \in Threads, MatterMiss(u) \/ MatterSend(u) \/ MatterUnverified(u)
      PROVE  FALSE
  <2>1. cmd[u] \in Commands
    BY <1>1
  <2>2. CASE ToHub(u)
    BY <1>1, <2>1, <2>2 DEF ToHub, Commands
  <2>3. CASE Actuate(cmd[u].want, [cmd EXCEPT ![u].at = "issue"])
    <3>1. PICK c, others : c = [cmd[u] EXCEPT !.at = "issue"] /\ others = [cmd EXCEPT ![u] = c]
      OBVIOUS
    <3>2. c \in Commands /\ c.at = "issue"
      <4>1. "issue" \in Steps
        BY DEF Steps
      <4>2. c \in Commands
        BY <2>1, <3>1, <4>1, FieldUpdates
      <4>3. c.at = "issue"
        BY <2>1, <3>1 DEF Commands
      <4>4. QED
        BY <4>2, <4>3
    <3>3. others[t] \in Commands /\ others[t].at \in {cmd[t].at, "issue"}
      BY <1>1, <3>1, <3>2
    <3>4. Actuate(cmd[u].want, others)
      BY <2>3, <3>1
    <3>5. QED
      BY <1>2, <3>3, <3>4
  <2>4. CASE MatterSend(u)
    <3>1. PICK c, sent : /\ c = [cmd[u] EXCEPT !.at = "read_back", !.sent = TRUE,
                                               !.held = (device = cmd[u].want)]
                         /\ sent = [cmd EXCEPT ![u] = c]
      OBVIOUS
    <3>2. (device = cmd[u].want) \in BOOLEAN /\ "read_back" \in Steps
      BY DEF Steps
    <3>3. c \in Commands /\ c.at = "read_back"
      <4>1. c \in Commands
        BY <2>1, <3>1, <3>2, FieldUpdates
      <4>2. c.at = "read_back"
        BY <2>1, <3>1 DEF Commands
      <4>3. QED
        BY <4>1, <4>2
    <3>4. sent[t] \in Commands /\ sent[t].at \in {cmd[t].at, "read_back"}
      BY <1>1, <3>1, <3>3
    <3>5. Actuate(cmd[u].want, sent) \/ cmd' = sent
      BY <2>4, <3>1, <1>1 DEF MatterSend
    <3>6. QED
      BY <1>2, <3>4, <3>5
  <2>5. QED
    BY <1>6, <2>2, <2>3, <2>4 DEF MatterMiss, MatterUnverified
<1>7. ASSUME NEW u \in Threads, Issue(u) \/ Pass(u) \/ Exhausted(u) \/ Complete(u) PROVE FALSE
  BY <1>5, <1>7 DEF Issue, Pass, Exhausted, Complete, Steps
<1>8. ASSUME NEW u \in Threads, NEW c \in Commands, NextAttempt(u, c), c.at # "idle" PROVE FALSE
  <2>1. PICK d : d = IF ~LastAttempt(u) THEN [c EXCEPT !.at = "send", !.try = @ + 1]
                     ELSE LeaveLoops(c, IF Expects(u) THEN "exhausted" ELSE "complete")
    OBVIOUS
  <2>2. d.at # "idle"
    BY <2>1, <1>8 DEF LeaveLoops, Commands
  <2>3. QED
    BY <1>3, <1>8, <2>1, <2>2 DEF NextAttempt
<1>9. ASSUME NEW u \in Threads, Send(u) \/ SendFails(u) \/ Poll(u) \/ Verified(u) PROVE FALSE
  <2>1. cmd[u] \in Commands
    BY <1>1
  <2>2. CASE Send(u)
    <3>1. PICK c : c = [cmd[u] EXCEPT !.success = TRUE, !.polls = 0, !.sent = TRUE,
                                      !.held = @ \/ device = cmd[u].want]
      OBVIOUS
    <3>2. PICK d : d = IF Expects(u) THEN [c EXCEPT !.at = "poll"] ELSE LeaveLoops(c, "complete")
      OBVIOUS
    <3>3. d.at # "idle"
      BY <2>1, <3>1, <3>2 DEF LeaveLoops, Commands
    <3>4. cmd' = [cmd EXCEPT ![u] = d]
      BY <2>2, <3>1, <3>2 DEF Send
    <3>5. QED
      BY <1>3, <3>3, <3>4
  <2>3. CASE SendFails(u)
    <3>1. PICK c : c = [cmd[u] EXCEPT !.sent = TRUE, !.held = @ \/ device = cmd[u].want]
      OBVIOUS
    <3>2. c \in Commands /\ c.at = "send"
      BY <2>1, <2>3, <3>1 DEF SendFails, Commands
    <3>3. NextAttempt(u, c)
      BY <2>3, <3>1 DEF SendFails
    <3>4. QED
      BY <1>8, <3>2, <3>3
  <2>4. CASE Verified(u)
    BY <1>1, <2>1, <2>4 DEF Verified, Commands
  <2>5. CASE Poll(u)
    <3>1. PICK value \in {device, Unknown} :
            LET c == [cmd[u] EXCEPT !.seen = IF value = Unknown THEN @ ELSE value, !.polls = @ + 1]
            IN \/ cmd' = [cmd EXCEPT ![u] = LeaveLoops(c, "verified")]
               \/ cmd' = [cmd EXCEPT ![u] = c]
               \/ NextAttempt(u, [c EXCEPT !.polls = 0])
      BY <2>5 DEF Poll
    <3>2. PICK c : c = [cmd[u] EXCEPT !.seen = IF value = Unknown THEN @ ELSE value, !.polls = @ + 1]
      OBVIOUS
    <3>3. c.at = "poll" /\ LeaveLoops(c, "verified").at = "verified"
      BY <2>1, <2>5, <3>2 DEF Poll, LeaveLoops, Commands
    <3>4. PICK d : d = [c EXCEPT !.polls = 0]
      OBVIOUS
    <3>5. d.at = "poll" /\ d \in Commands
      <4>1. PICK w \in Wants : w = IF value = Unknown THEN cmd[u].seen ELSE value
        BY <2>1, <3>1 DEF Commands, Wants, CommandInv, CommandTypes
      <4>2. d = [cmd[u] EXCEPT !.seen = w, !.polls = 0]
        BY <2>1, <3>2, <3>4, <4>1 DEF Commands
      <4>3. 0 \in PollCounts
        BY LimitAssumption DEF PollCounts
      <4>4. d \in Commands
        BY <2>1, <4>2, <4>3, FieldUpdates
      <4>5. QED
        BY <2>1, <2>5, <4>2, <4>4 DEF Poll, Commands
    <3>6. \/ cmd' = [cmd EXCEPT ![u] = LeaveLoops(c, "verified")]
          \/ cmd' = [cmd EXCEPT ![u] = c]
          \/ NextAttempt(u, d)
      BY <3>1, <3>2, <3>4
    <3>7. QED
      BY <1>3, <1>8, <3>3, <3>5, <3>6
  <2>6. QED
    BY <1>9, <2>2, <2>3, <2>4, <2>5
<1>10. ASSUME NEW u \in Threads, u # t, End(u) PROVE FALSE
  BY <1>1, <1>10 DEF End
<1>11. CASE DeviceActs \/ WallSwitch
  <2>1. PICK v, others : Actuate(v, others) /\ others = cmd
    BY <1>11 DEF DeviceActs, WallSwitch
  <2>2. others[t] \in Commands /\ others[t].at = cmd[t].at
    BY <1>1, <2>1
  <2>3. QED
    BY <1>2, <2>1, <2>2
<1>12. CASE Tick \/ UNCHANGED vars
  BY <1>12 DEF Tick, vars
<1>13. QED
  BY <1>4, <1>6, <1>7, <1>9, <1>10, <1>11, <1>12
     DEF Next, Execute, MatterStep, HubStep, MatterDone, Suppress, TimeOut, Return

\* "None ALWAYS means use Hubitat": a command that asks for verification leaves
\* _try_matter_primary confirmed only if the device has the wanted value or an
\* empty read counts as that value ("off").  The breaker that suppresses one has
\* seen the device fail FailThreshold times, and whoever times out or returns has
\* sent it to the hub.
THEOREM FallbackIsTaken == Spec => FallbackNeverSkipped
<1> DEFINE Accounted(t) == \/ /\ cmd[t].at = "read_back"
                              /\ device = cmd[t].want \/ cmd[t].want \in BlankReads
                           \/ cmd[t].at = "gate" /\ streak >= FailThreshold
                           \/ cmd[t].at # "read_back" /\ cmd[t].sent
<1>1. CommandInv /\ [Next]_vars =>
        [\A t \in Threads : Busy(t) /\ Watched(t) /\ cmd'[t].at = "idle" => Accounted(t)]_vars
  <2> SUFFICES ASSUME CommandInv, [Next]_vars, NEW t \in Threads,
                      Busy(t), Watched(t), cmd'[t].at = "idle"
               PROVE  Accounted(t)
    OBVIOUS
  <2>1. MatterDone(t) \/ Suppress(t) \/ TimeOut(t) \/ Return(t)
    BY HowCommandsEnd DEF Busy
  <2>2. Sound(cmd[t], device) /\ fails = streak
    BY DEF CommandInv, CommandsSound, BreakerInStep
  <2>3. CASE MatterDone(t)
    BY <2>3 DEF MatterDone, MatterReads
  <2>4. CASE Suppress(t)
    BY <2>2, <2>4 DEF Suppress, BackoffActive
  <2>5. CASE TimeOut(t) \/ Return(t)
    BY <2>2, <2>5 DEF TimeOut, Return, Sound, Steady
  <2>6. QED
    BY <2>1, <2>3, <2>4, <2>5
<1>2. QED
  BY <1>1, CommandsInvariant, PTL DEF Spec, FallbackNeverSkipped
=============================================================================

-------------------------------- MODULE Rules --------------------------------
(***************************************************************************)
(* One instance of the rules app: the events of its buttons and TVs go     *)
(* through a debounce and the rules of a declarative program; an action    *)
(* sends its commands one by one, or changes the location mode.            *)
(*                                                                         *)
(* What a toggle reads is the row of the device cache.  Commands write it  *)
(* and a sync of all devices does; a switch turned by hand leaves it as it *)
(* was, and a command that was not verified leaves it without a value.     *)
(*                                                                         *)
(* Sources: apps/rules/app.py, interpreter.py, schema.py                   *)
(***************************************************************************)
EXTENDS Integers, Sequences, FiniteSets, SequencesExt

CONSTANTS PoolWater,       \* pool_water_switches
          Pumps,           \* pump_switch
          ButtonPresets,   \* settings of an instance without a rule_spec: [button, seconds]
          MaxPresses,      \* bound on events
          MaxRuleFaults    \* bound on hands on a switch, other apps, calls that fail and pauses

ASSUME RulesAssumption == /\ PoolWater \cap Pumps = {} /\ IsFiniteSet(PoolWater) /\ IsFiniteSet(Pumps)
                          /\ \A p \in ButtonPresets : p.seconds \in Nat
                          /\ {MaxPresses, MaxRuleFaults} \subseteq Nat

VARIABLES program,    \* _runtime.rule_spec
          presses,    \* events of the instance's queue
          lastSeen,   \* debounce_state, as the age of the event, for each type
          turned,     \* the switches
          mirror,     \* their rows: "on", "off" or "none"
          location,   \* the location mode
          todo,       \* actions and commands of the event being handled
          handled,    \* that event, or Spoiled when something interfered with it
          resting,    \* is_paused
          spent
rulesVars == <<program, presses, lastSeen, turned, mirror, location, todo, handled, resting, spent>>

Switches == PoolWater \cup Pumps
Category(name) == IF name = "pool_water_switches" THEN PoolWater
                  ELSE IF name = "pump_switch" THEN Pumps ELSE {}
When(category, type, value) == [category |-> category, type |-> type, value |-> value]
SetState(category, target) == [kind |-> "set_state", on |-> category, target |-> target]
ToggleUniform(category) == [kind |-> "toggle_uniform", on |-> category, target |-> "-"]
ToggleIndependent(category) == [kind |-> "toggle_independent", on |-> category, target |-> "-"]
SetMode(mode) == [kind |-> "set_mode", on |-> "-", target |-> mode]

\* pool_button_preset
PoolButton(button, seconds) ==
    [rules |-> <<[when |-> When("trigger_button", "pushed", button),
                  do |-> <<ToggleUniform("pool_water_switches")>>],
                 [when |-> When("trigger_button", "doubleTapped", button),
                  do |-> <<ToggleIndependent("pump_switch")>>],
                 [when |-> When("trigger_button", "held", button),
                  do |-> <<SetState("pool_water_switches", "off"), SetState("pump_switch", "off")>>]>>,
     window |-> seconds]
\* The program the test of set_mode has (rule_spec of a TV instance).
TvMode == [rules |-> <<[when |-> When("tv", "switch", "on"), do |-> <<SetMode("WatchingTV")>>],
                       [when |-> When("tv", "switch", "off"), do |-> <<SetMode("Day")>>]>>,
           window |-> 0]
\* Settings: a delay of 0 seconds is taken for none given, and none given is 3.
Seconds3(seconds) == IF seconds = 0 THEN 3 ELSE seconds
ResolvedSpecs == {TvMode} \cup {PoolButton(p.button, Seconds3(p.seconds)) : p \in ButtonPresets}

Presses == [category : {"trigger_button"}, type : {"pushed", "doubleTapped", "held"}, value : {"1", "2"}]
             \cup [category : {"tv"}, type : {"switch"}, value : {"on", "off"}]
Spoiled == [category |-> "-", type |-> "-", value |-> "-"]
LongAgo == 4
RulesInit == /\ program \in ResolvedSpecs
             /\ presses = <<>> /\ lastSeen = [t \in {x.type : x \in Presses} |-> LongAgo]
             /\ turned \in [Switches -> {"on", "off"}]
             /\ mirror \in [Switches -> {"on", "off", "none"}]
             /\ location = "Day" /\ todo = <<>> /\ handled = Spoiled /\ resting = FALSE
             /\ spent = [presses |-> 0, faults |-> 0]

Spoil == spent.faults < MaxRuleFaults /\ spent' = [spent EXCEPT !.faults = @ + 1]

(* Around the instance *)
Press(e) == /\ spent.presses < MaxPresses /\ spent' = [spent EXCEPT !.presses = @ + 1]
            /\ (program = TvMode) = (e.category = "tv")
            /\ presses' = Append(presses, e)
            /\ UNCHANGED <<program, lastSeen, turned, mirror, location, todo, handled, resting>>
SecondPasses == /\ \E t \in DOMAIN lastSeen : lastSeen[t] < LongAgo
                /\ lastSeen' = [t \in DOMAIN lastSeen |-> IF lastSeen[t] = LongAgo THEN LongAgo ELSE lastSeen[t] + 1]
                /\ UNCHANGED <<program, presses, turned, mirror, location, todo, handled, resting, spent>>
SwitchByHand(s) == /\ Spoil /\ turned' = [turned EXCEPT ![s] = IF @ = "on" THEN "off" ELSE "on"]
             /\ handled' = Spoiled
             /\ UNCHANGED <<program, presses, lastSeen, mirror, location, todo, resting>>
\* A command of another app writes a row: the value it verified, or none.  No
\* other sync corrects one.
MirrorWritten(s) ==
    /\ \E value \in {"on", "off", "none"} : mirror' = [mirror EXCEPT ![s] = value]
    /\ Spoil
    /\ UNCHANGED <<program, presses, lastSeen, turned, location, todo, handled, resting>>
ModeByHand(m) == /\ m # location /\ Spoil /\ location' = m /\ handled' = Spoiled
                 /\ UNCHANGED <<program, presses, lastSeen, turned, mirror, todo, resting>>
RulesPauseOrResume == /\ Spoil /\ resting' = ~resting /\ handled' = Spoiled
                      /\ UNCHANGED <<program, presses, lastSeen, turned, mirror, location, todo>>

(* execute_event *)
Matches(when, e) == when.category = e.category /\ when.type = e.type /\ when.value \in {"any", e.value}
ActionsFor(e) == FlattenSeq([i \in DOMAIN program.rules |->
                               IF Matches(program.rules[i].when, e) THEN program.rules[i].do ELSE <<>>])
\* The press counts for the debounce also while the instance is paused.
TakePress ==
    LET e == Head(presses)
        open == program.window = 0 \/ lastSeen[e.type] >= program.window IN
    /\ presses # <<>> /\ todo = <<>>
    /\ presses' = Tail(presses)
    /\ lastSeen' = IF program.window > 0 /\ open THEN [lastSeen EXCEPT ![e.type] = 0] ELSE lastSeen
    /\ todo' = IF open /\ ~resting THEN ActionsFor(e) ELSE <<>>
    /\ handled' = e
    /\ UNCHANGED <<program, turned, mirror, location, resting, spent>>

Send(s, target) == [kind |-> "send", on |-> s, target |-> target]
\* Toggles of one switch look at the row, and at is_paused, when its turn comes.
ToggleOne(s) == [kind |-> "toggle_one", on |-> s, target |-> "-"]
Each(S, Op(_)) == [i \in DOMAIN SetToSeq(S) |-> Op(SetToSeq(S)[i])]
IsOn(s) == mirror[s] = "on"
\* Variant: nothing is sent to a switch whose row has the target already
SendsToOthers(S, target) == LET T == {s \in S : mirror[s] # target} IN Each(T, LAMBDA s : Send(s, target))
\* _send_to_all: every switch gets the command, whatever its row says.
SendsToAll(S, target) == Each(S, LAMBDA s : Send(s, target))
Expansion(a) ==
    CASE a.kind = "set_state" -> SendsToAll(Category(a.on), a.target)
      [] a.kind = "toggle_uniform" ->
            SendsToAll(Category(a.on), IF \A s \in Category(a.on) : IsOn(s) THEN "off" ELSE "on")
      [] a.kind = "toggle_independent" -> Each(Category(a.on), ToggleOne)
      [] a.kind = "toggle_one" -> <<Send(a.on, IF IsOn(a.on) THEN "off" ELSE "on")>>
Dispatch ==
    /\ todo # <<>> /\ Head(todo).kind \notin {"send", "set_mode"}
    /\ todo' = IF resting THEN <<>> ELSE Expansion(Head(todo)) \o Tail(todo)
    /\ UNCHANGED <<program, presses, lastSeen, turned, mirror, location, handled, resting, spent>>
\* send_command with verification: a failure leaves the row without a value,
\* and the next switch gets its command all the same.
SendNext ==
    LET s == Head(todo).on IN
    /\ todo # <<>> /\ Head(todo).kind = "send"
    /\ todo' = Tail(todo)
    /\ \/ /\ turned' = [turned EXCEPT ![s] = Head(todo).target]
          /\ mirror' = [mirror EXCEPT ![s] = Head(todo).target]
          /\ UNCHANGED <<handled, spent>>
       \/ /\ Spoil /\ handled' = Spoiled /\ UNCHANGED turned
          /\ mirror' = [mirror EXCEPT ![s] = "none"]
    /\ UNCHANGED <<program, presses, lastSeen, location, resting>>
\* The hub is asked for the mode and its list of modes before it is set.
ChangeMode ==
    /\ todo # <<>> /\ Head(todo).kind = "set_mode"
    /\ todo' = IF resting THEN <<>> ELSE Tail(todo)
    /\ \/ location' = (IF resting THEN location ELSE Head(todo).target) /\ UNCHANGED <<handled, spent>>
       \/ Spoil /\ handled' = Spoiled /\ UNCHANGED location
    /\ UNCHANGED <<program, presses, lastSeen, turned, mirror, resting>>

RulesNext == \/ (\E e \in Presses : Press(e)) \/ SecondPasses
             \/ (\E s \in Switches : SwitchByHand(s) \/ MirrorWritten(s)) \/ RulesPauseOrResume
             \/ (\E m \in {"Day", "WatchingTV"} : ModeByHand(m))
             \/ TakePress \/ Dispatch \/ SendNext \/ ChangeMode
RulesSpec == RulesInit /\ [][RulesNext]_rulesVars

RulesTypeOK ==
    /\ program \in ResolvedSpecs /\ presses \in Seq(Presses)
    /\ lastSeen \in [{x.type : x \in Presses} -> 0..LongAgo]
    /\ turned \in [Switches -> {"on", "off"}] /\ mirror \in [Switches -> {"on", "off", "none"}]
    /\ location \in {"Day", "WatchingTV"} /\ handled \in Presses \cup {Spoiled} /\ resting \in BOOLEAN

\* When the commands of an event are through and nothing interfered, the rule
\* has done what it says, however wrong the rows were before: a tap leaves the
\* water switches equal, a hold leaves everything off, a TV sets its mode
\* (interpreter.py:245-308, schema.py:124-131).
CleanRunDelivers ==
    [][todo # <<>> /\ todo' = <<>> /\ handled' # Spoiled =>
         CASE handled.type = "pushed" -> \E x \in {"on", "off"} : \A s \in PoolWater : turned'[s] = x
           [] handled.type = "held" -> \A s \in Switches : turned'[s] = "off"
           [] handled.type = "doubleTapped" -> TRUE
           [] handled.type = "switch" -> (handled.value = "on") = (location' = "WatchingTV")]_rulesVars
=============================================================================

------------------------------ MODULE EventBus ------------------------------
(***************************************************************************)
(* What the event router promises the apps, without hubs, lookups or       *)
(* subscriptions: the events of one feed are accepted in the order in      *)
(* which the feed sent them, and every instance is handed what was         *)
(* accepted for it in that order, one event at a time and each one once.   *)
(* Stopping an instance throws away what it was not handed yet.            *)
(***************************************************************************)
EXTENDS Naturals, Sequences

CONSTANTS Feeds, Instances,
          Events,     \* records with the feed (hub) and the number (n) of the event
          NoEvent

VARIABLES pending,  \* per instance: events accepted and not handed over
          busy,     \* per instance: the event its app is working on
          last      \* per feed: number of the event accepted last

busVars == <<pending, busy, last>>

Init == /\ pending = [i \in Instances |-> <<>>]
        /\ busy = [i \in Instances |-> NoEvent]
        /\ last = [f \in Feeds |-> 0]

\* A newer event of its feed is accepted for the instances in to.
Accept(e, to) ==
    /\ e.n > last[e.hub]
    /\ last' = [last EXCEPT ![e.hub] = e.n]
    /\ pending' = [i \in Instances |->
                     IF i \in to THEN Append(pending[i], e) ELSE pending[i]]
    /\ UNCHANGED busy

Begin(i) ==
    /\ busy[i] = NoEvent
    /\ pending[i] # <<>>
    /\ busy' = [busy EXCEPT ![i] = Head(pending[i])]
    /\ pending' = [pending EXCEPT ![i] = Tail(@)]
    /\ UNCHANGED last

Finish(i) ==
    /\ busy[i] # NoEvent
    /\ busy' = [busy EXCEPT ![i] = NoEvent]
    /\ UNCHANGED <<pending, last>>

Stop(i) ==
    /\ pending' = [pending EXCEPT ![i] = <<>>]
    /\ busy' = [busy EXCEPT ![i] = NoEvent]
    /\ UNCHANGED last

\* A restart forgets everything; the feeds count on.
Crash == /\ pending' = [i \in Instances |-> <<>>]
         /\ busy' = [i \in Instances |-> NoEvent]
         /\ UNCHANGED last

Next == \/ \E e \in Events, to \in SUBSET Instances : Accept(e, to)
        \/ \E i \in Instances : Begin(i) \/ Finish(i) \/ Stop(i)
        \/ Crash

Spec == Init /\ [][Next]_busVars
=============================================================================

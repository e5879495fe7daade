------------------------ MODULE MatterRegistryProofs ------------------------
(***************************************************************************)
(* Proofs about MatterRegistry for any number of devices, nodes, requests  *)
(* at a time and failing calls: what a decommission clears stays cleared.  *)
(*                                                                         *)
(* A node that has gone may still be named by a row or a link, or in the   *)
(* hand of a request that will name it again.  The invariant says who puts *)
(* that right: a decommission that has yet to clear the rows, or, for a    *)
(* link, the links.                                                        *)
(***************************************************************************)
EXTENDS MatterRegistry, TLAPS

-----------------------------------------------------------------------------
(* Types.  A request holds nodes, each with what it would write them to.   *)

Steps == {"free", "candidates", "links", "write", "link", "row", "backfill", "clearRows", "clearLinks", "check"}
Targets == LinkKeys \cup Things \cup {"none", "gone", "live"}
Entries == [at : Steps, thing : Things \cup {"none"}, node : Nodes \cup {0},
            todo : SUBSET (Targets \X Nodes)]
Rows == [known : BOOLEAN, matched : BOOLEAN, node : Nodes \cup {0}, commissioned : BOOLEAN,
         removed : BOOLEAN]
RegistryTypes ==
    /\ fabric \subseteq Nodes /\ stray \subseteq Nodes /\ selected \subseteq Hubs
    /\ owner \in [Nodes -> Things \cup {"none"}]
    /\ rows \in [Things -> Rows]
    /\ links \in [LinkKeys -> Nodes \cup {0}]
    /\ desk \in [Desks -> Entries]

\* The types of the proofs imply those of the model.
LEMMA TypesAreTyped == RegistryTypes => MatterTypeOK
<1> SUFFICES ASSUME RegistryTypes PROVE MatterTypeOK
  OBVIOUS
<1>1. ASSUME NEW r \in Desks
      PROVE  /\ desk[r].node \in Nodes \cup {0} /\ \A pair \in desk[r].todo : pair[2] \in Nodes
             /\ desk[r].at \in Steps
  <2>1. desk[r] \in Entries
    BY DEF RegistryTypes
  <2>2. desk[r].todo \subseteq Targets \X Nodes /\ desk[r].node \in Nodes \cup {0} /\ desk[r].at \in Steps
    BY <2>1 DEF Entries
  <2>3. QED
    BY <2>2
<1>2. QED
  BY <1>1 DEF RegistryTypes, MatterTypeOK, Rows, Steps

\* The nodes an entry holds.
HeldBy(e) == ({pair[2] : pair \in e.todo} \cup {e.node}) \ {0}

\* The parts of an entry.
LEMMA EntryFacts ==
  ASSUME NEW e \in Entries
  PROVE  /\ e.at \in Steps /\ e.thing \in Things \cup {"none"} /\ e.node \in Nodes \cup {0}
         /\ e.todo \subseteq Targets \X Nodes /\ HeldBy(e) \subseteq Nodes
<1>1. /\ e.at \in Steps /\ e.thing \in Things \cup {"none"} /\ e.node \in Nodes \cup {0}
      /\ e.todo \subseteq Targets \X Nodes
  BY DEF Entries
<1>2. HeldBy(e) \subseteq Nodes
  BY <1>1 DEF HeldBy
<1>3. QED
  BY <1>1, <1>2

\* A node is not zero.
LEMMA NodesAreNotZero == 0 \notin Nodes /\ \A n \in Nodes : n # 0
BY MatterRegistryAssumption DEF Nodes

-----------------------------------------------------------------------------
(* The invariant.                                                          *)

Clears(e) == e.at \in {"clearRows", "clearLinks"}
Gone == Nodes \ (fabric \cup stray)
\* A row names node n, or a request has it in hand and may write it.
Loose(n) == \/ \E t \in Things : rows[t].node = n
            \/ \E r \in Desks : ~Clears(desk[r]) /\ n \in HeldBy(desk[r])
Linked(n) == \E k \in LinkKeys : links[k] = n
RowsToClear(n) == \E r \in Desks : desk[r].at = "clearRows" /\ n \in HeldBy(desk[r])
LinksToClear(n) == \E r \in Desks : desk[r].at = "clearLinks" /\ n \in HeldBy(desk[r])
ForgetInv == \A n \in Gone : /\ Loose(n) => RowsToClear(n)
                             /\ Linked(n) => RowsToClear(n) \/ LinksToClear(n)
RegistryInv == RegistryTypes /\ ForgetInv

\* The step of a request that clears nothing, at its desk or none (e is what it
\* goes on with): a node named after it was named or in hand before.
LEMMA OrdinaryStep ==
  ASSUME RegistryInv, RegistryTypes', NEW r \in Desks, NEW e \in Entries, ~Clears(desk[r]),
         desk' = [desk EXCEPT ![r] = e],
         \A n \in Gone' : /\ n \in Gone
                          /\ (\E t \in Things : rows'[t].node = n) => Loose(n)
                          /\ ~Clears(e) /\ n \in HeldBy(e) => Loose(n)
                          /\ Linked(n)' => Linked(n) \/ Loose(n)
  PROVE  RegistryInv'
<1> SUFFICES ASSUME NEW n \in Gone'
             PROVE  /\ Loose(n)' => RowsToClear(n)'
                    /\ Linked(n)' => RowsToClear(n)' \/ LinksToClear(n)'
  BY DEF RegistryInv, ForgetInv
<1>1. desk'[r] = e /\ \A q \in Desks \ {r} : desk'[q] = desk[q]
  BY DEF RegistryInv, RegistryTypes
<1>2. Loose(n)' => Loose(n)
  <2>1. ASSUME NEW q \in Desks, ~Clears(desk'[q]), n \in HeldBy(desk'[q]) PROVE Loose(n)
    <3>1. CASE q = r
      BY <1>1, <2>1, <3>1
    <3>2. CASE q # r
      BY <1>1, <2>1, <3>2 DEF Loose
    <3>3. QED
      BY <3>1, <3>2
  <2>2. QED
    BY <2>1 DEF Loose, Clears, HeldBy
<1>3. RowsToClear(n) => RowsToClear(n)'
  BY <1>1 DEF RowsToClear, Clears, HeldBy
<1>4. LinksToClear(n) => LinksToClear(n)'
  BY <1>1 DEF LinksToClear, Clears, HeldBy
<1>5. n \in Gone
  OBVIOUS
<1>6. QED
  BY <1>2, <1>3, <1>4, <1>5 DEF RegistryInv, ForgetInv

\* A step that no request at a desk takes.
LEMMA DesklessStep ==
  ASSUME RegistryInv, RegistryTypes', UNCHANGED desk,
         \A n \in Gone' : /\ n \in Gone
                          /\ (\E t \in Things : rows'[t].node = n) => Loose(n)
                          /\ Linked(n)' => Linked(n) \/ Loose(n)
  PROVE  RegistryInv'
<1> SUFFICES ASSUME NEW n \in Gone'
             PROVE  /\ Loose(n)' => RowsToClear(n)'
                    /\ Linked(n)' => RowsToClear(n)' \/ LinksToClear(n)'
  BY DEF RegistryInv, ForgetInv
<1>1. Loose(n)' => Loose(n)
  BY DEF Loose, Clears, HeldBy
<1>2. RowsToClear(n)' = RowsToClear(n) /\ LinksToClear(n)' = LinksToClear(n)
  BY DEF RowsToClear, LinksToClear, HeldBy
<1>3. n \in Gone
  OBVIOUS
<1>4. QED
  BY <1>1, <1>2, <1>3 DEF RegistryInv, ForgetInv

\* An entry that a request goes on with: what EXCEPT makes of it.
LEMMA EntryUpdates ==
  ASSUME NEW e \in Entries, NEW at \in Steps, NEW todo \in SUBSET (Targets \X Nodes)
  PROVE  /\ [e EXCEPT !.at = at] \in Entries
         /\ [e EXCEPT !.at = at].at = at /\ HeldBy([e EXCEPT !.at = at]) = HeldBy(e)
         /\ [e EXCEPT !.todo = todo] \in Entries /\ [e EXCEPT !.todo = todo].at = e.at
         /\ [e EXCEPT !.todo = todo].todo = todo /\ [e EXCEPT !.todo = todo].node = e.node
         /\ [e EXCEPT !.at = at, !.todo = todo] \in Entries
         /\ [e EXCEPT !.at = at, !.todo = todo].at = at
         /\ [e EXCEPT !.at = at, !.todo = todo].todo = todo
         /\ [e EXCEPT !.at = at, !.todo = todo].node = e.node
BY DEF Entries, HeldBy

\* A desk where nobody is holds nothing.
LEMMA RestingEntry == AtRest \in Entries /\ HeldBy(AtRest) = {} /\ ~Clears(AtRest) /\ AtRest.node = 0
                      /\ AtRest.at = "free"
<1>1. AtRest \in Entries
  BY DEF AtRest, Entries, Steps
<1>2. QED
  BY <1>1 DEF AtRest, HeldBy, Clears

\* A request that begins holds the nodes of its list.
LEMMA ListEntry ==
  ASSUME NEW at \in Steps, NEW todo \in SUBSET (Targets \X Nodes)
  PROVE  /\ [AtRest EXCEPT !.at = at, !.todo = todo] \in Entries
         /\ [AtRest EXCEPT !.at = at, !.todo = todo].at = at
         /\ HeldBy([AtRest EXCEPT !.at = at, !.todo = todo]) = {pair[2] : pair \in todo}
<1>1. PICK e : e = [AtRest EXCEPT !.at = at, !.todo = todo]
  OBVIOUS
<1>2. e \in Entries /\ e.at = at /\ e.todo = todo /\ e.node = 0
  BY <1>1 DEF AtRest, Entries
<1>3. \A pair \in todo : pair[2] # 0
  BY NodesAreNotZero
<1>4. HeldBy(e) = {pair[2] : pair \in todo}
  BY <1>2, <1>3 DEF HeldBy
<1>5. QED
  BY <1>1, <1>2, <1>4

-----------------------------------------------------------------------------
(* Requests that clear nothing.                                            *)

\* The rest of the registry stays typed when a desk changes.
LEMMA DeskTyped ==
  ASSUME RegistryTypes, NEW r \in Desks, NEW e \in Entries, desk' = [desk EXCEPT ![r] = e]
  PROVE  desk' \in [Desks -> Entries] /\ desk[r] \in Entries
BY DEF RegistryTypes

\* _reconcile_mappings, matter_rebuild_mappings, matter_nodes and the check of
\* Commission All begin with nodes that a row names or that the fabric lists.
LEMMA ListingKeeps ==
  ASSUME RegistryInv, NEW r \in Desks, desk[r] \in {AtRest} \/ desk[r].at = "candidates",
         NEW at \in Steps \ {"clearRows", "clearLinks"}, NEW todo \in SUBSET (Targets \X Nodes),
         \A pair \in todo : pair[2] \in fabric \/ \E t \in Things : rows[t].node = pair[2],
         Turns(r, [AtRest EXCEPT !.at = at, !.todo = todo]),
         UNCHANGED <<fabric, owner, rows, links, selected, stray>>
  PROVE  RegistryInv'
<1>1. PICK e : e = [AtRest EXCEPT !.at = at, !.todo = todo]
  OBVIOUS
<1>2. e \in Entries /\ e.at = at /\ HeldBy(e) = {pair[2] : pair \in todo}
  BY <1>1, ListEntry
<1>3. desk' = [desk EXCEPT ![r] = e]
  BY <1>1 DEF Turns
<1>4. RegistryTypes'
  BY <1>2, <1>3, DeskTyped DEF RegistryTypes, RegistryInv
<1>5. ~Clears(desk[r])
  BY RestingEntry DEF Clears
<1>6. \A n \in Gone' : /\ n \in Gone
                       /\ (\E t \in Things : rows'[t].node = n) => Loose(n)
                       /\ ~Clears(e) /\ n \in HeldBy(e) => Loose(n)
                       /\ Linked(n)' => Linked(n) \/ Loose(n)
  BY <1>2 DEF Gone, Loose, Linked
<1>7. QED
  BY <1>2, <1>3, <1>4, <1>5, <1>6, OrdinaryStep

\* A request that ends with nothing more to write.
LEMMA RestsKeeps ==
  ASSUME RegistryInv, NEW r \in Desks, ~Clears(desk[r]), Rests(r),
         UNCHANGED <<fabric, owner, rows, links, selected, stray>>
  PROVE  RegistryInv'
<1>1. PICK e : e = AtRest
  OBVIOUS
<1>2. e \in Entries /\ HeldBy(e) = {}
  BY <1>1, RestingEntry
<1>3. desk' = [desk EXCEPT ![r] = e]
  BY <1>1 DEF Rests, Turns
<1>4. RegistryTypes'
  BY <1>2, <1>3, DeskTyped DEF RegistryTypes, RegistryInv
<1>5. \A n \in Gone' : /\ n \in Gone
                       /\ (\E t \in Things : rows'[t].node = n) => Loose(n)
                       /\ ~Clears(e) /\ n \in HeldBy(e) => Loose(n)
                       /\ Linked(n)' => Linked(n) \/ Loose(n)
  BY <1>2 DEF Gone, Loose, Linked
<1>6. QED
  BY <1>2, <1>3, <1>4, <1>5, OrdinaryStep

\* matter_rebuild_mappings begins with the nodes that rows name.
LEMMA RebuildKeeps ==
  ASSUME RegistryInv, NEW r \in Desks, Rebuild(r)
  PROVE  RegistryInv'
<1>1. PICK todo : todo = {<<<<"hub", t>>, rows[t].node>> :
                            t \in {u \in Things : rows[u].node # 0 /\ ~rows[u].removed}}
  OBVIOUS
<1>2. todo \in SUBSET (Targets \X Nodes) /\ \A pair \in todo : \E t \in Things : rows[t].node = pair[2]
  <2>1. ASSUME NEW t \in Things, rows[t].node # 0
        PROVE  <<"hub", t>> \in Targets /\ rows[t].node \in Nodes
    BY <2>1 DEF Targets, LinkKeys, RegistryInv, RegistryTypes, Rows
  <2>2. QED
    BY <1>1, <2>1
<1>3. "write" \in Steps \ {"clearRows", "clearLinks"}
  BY DEF Steps
<1>4. /\ desk[r] \in {AtRest} /\ Turns(r, [AtRest EXCEPT !.at = "write", !.todo = todo])
      /\ UNCHANGED <<fabric, owner, rows, links, selected, stray>>
  BY <1>1 DEF Rebuild, Comes
<1>5. QED
  BY <1>2, <1>3, <1>4, ListingKeeps

\* matter_nodes and the check of Commission All begin with the fabric.
LEMMA ListNodesKeeps ==
  ASSUME RegistryInv, NEW r \in Desks, ListNodes(r) \/ Check(r)
  PROVE  RegistryInv'
<1>1. fabric \subseteq Nodes /\ \A n \in fabric : owner[n] \in Targets /\ "live" \in Targets
  BY DEF Targets, RegistryInv, RegistryTypes
<1>2. "backfill" \in Steps \ {"clearRows", "clearLinks"} /\ "check" \in Steps \ {"clearRows", "clearLinks"}
  BY DEF Steps
<1>3. desk[r] = AtRest /\ UNCHANGED <<fabric, owner, rows, links, selected, stray>>
  BY DEF ListNodes, Check, Comes
<1>4. CASE ListNodes(r)
  <2>1. PICK todo : todo = {<<owner[n], n>> : n \in fabric}
    OBVIOUS
  <2>2. todo \in SUBSET (Targets \X Nodes) /\ \A pair \in todo : pair[2] \in fabric
    BY <1>1, <2>1
  <2>3. Turns(r, [AtRest EXCEPT !.at = "backfill", !.todo = todo])
    BY <1>4, <2>1 DEF ListNodes
  <2>4. QED
    BY <1>2, <1>3, <2>2, <2>3, ListingKeeps
<1>5. CASE Check(r)
  <2>1. PICK todo : todo = {<<"live", n>> : n \in fabric}
    OBVIOUS
  <2>2. todo \in SUBSET (Targets \X Nodes) /\ \A pair \in todo : pair[2] \in fabric
    BY <1>1, <2>1
  <2>3. Turns(r, [AtRest EXCEPT !.at = "check", !.todo = todo])
    BY <1>5, <2>1 DEF Check
  <2>4. QED
    BY <1>2, <1>3, <2>2, <2>3, ListingKeeps
<1>6. QED
  BY <1>4, <1>5

\* _reconcile_mappings goes on with the nodes that rows name, or ends.
LEMMA CandidatesKeeps ==
  ASSUME RegistryInv, NEW r \in Desks, Candidates(r)
  PROVE  RegistryInv'
<1>1. desk[r].at = "candidates" /\ UNCHANGED <<fabric, owner, rows, links, selected, stray>>
  BY DEF Candidates, At
<1>2. PICK todo : todo = {<<<<"maker", t>>, rows[t].node>> :
                            t \in {u \in Things : rows[u].node # 0 /\ rows[u].matched}}
  OBVIOUS
<1>3. todo \in SUBSET (Targets \X Nodes) /\ \A pair \in todo : \E t \in Things : rows[t].node = pair[2]
  <2>1. ASSUME NEW t \in Things, rows[t].node # 0
        PROVE  <<"maker", t>> \in Targets /\ rows[t].node \in Nodes
    BY <2>1 DEF Targets, LinkKeys, RegistryInv, RegistryTypes, Rows
  <2>2. QED
    BY <1>2, <2>1
<1>4. "links" \in Steps \ {"clearRows", "clearLinks"}
  BY DEF Steps
<1>5. CASE Turns(r, [AtRest EXCEPT !.at = "links", !.todo = todo])
  BY <1>1, <1>3, <1>4, <1>5, ListingKeeps
<1>6. CASE Rests(r)
  <2>1. ~Clears(desk[r])
    BY <1>1 DEF Clears
  <2>2. QED
    BY <1>1, <1>6, <2>1, RestsKeeps
<1>7. QED
  BY <1>2, <1>5, <1>6 DEF Candidates

\* What is linked already is not written; the rest stays in hand.
LEMMA LinksReadKeeps ==
  ASSUME RegistryInv, NEW r \in Desks, LinksRead(r)
  PROVE  RegistryInv'
<1>1. desk[r].at = "links" /\ UNCHANGED <<fabric, owner, rows, links, selected, stray>> /\ desk[r] \in Entries
  BY DEF LinksRead, At, RegistryInv, RegistryTypes
<1>2. PICK todo \in SUBSET desk[r].todo : Turns(r, [desk[r] EXCEPT !.at = "write", !.todo = todo])
  BY DEF LinksRead
<1>3. PICK e : e = [desk[r] EXCEPT !.at = "write", !.todo = todo]
  OBVIOUS
<1>4. todo \in SUBSET (Targets \X Nodes) /\ "write" \in Steps
  <2>1. desk[r].todo \subseteq Targets \X Nodes
    BY <1>1, EntryFacts
  <2>2. "write" \in Steps
    BY DEF Steps
  <2>3. QED
    BY <1>2, <2>1, <2>2
<1>5. e \in Entries /\ e.todo = todo /\ e.node = desk[r].node
  <2>1. PICK d \in Entries : d = desk[r]
    BY <1>1
  <2>2. e = [d EXCEPT !.at = "write", !.todo = todo]
    BY <1>3, <2>1
  <2>3. QED
    BY <1>4, <2>1, <2>2 DEF Entries
<1>6. HeldBy(e) \subseteq HeldBy(desk[r])
  BY <1>2, <1>5 DEF HeldBy
<1>7. desk' = [desk EXCEPT ![r] = e]
  BY <1>2, <1>3 DEF Turns
<1>8. RegistryTypes'
  BY <1>1, <1>5, <1>7, DeskTyped DEF RegistryTypes, RegistryInv
<1>9. ~Clears(desk[r])
  BY <1>1 DEF Clears
<1>10. \A n \in Gone' : /\ n \in Gone
                        /\ (\E t \in Things : rows'[t].node = n) => Loose(n)
                        /\ ~Clears(e) /\ n \in HeldBy(e) => Loose(n)
                        /\ Linked(n)' => Linked(n) \/ Loose(n)
  BY <1>1, <1>6, <1>9 DEF Gone, Loose, Linked
<1>11. QED
  BY <1>5, <1>7, <1>8, <1>9, <1>10, OrdinaryStep

\* A link is written for a node in hand.
LEMMA WriteLinkKeeps ==
  ASSUME RegistryInv, NEW r \in Desks, WriteLink(r)
  PROVE  RegistryInv'
<1>1. desk[r].at = "write" /\ UNCHANGED <<fabric, owner, rows, selected, stray>> /\ desk[r] \in Entries
  BY DEF WriteLink, At, RegistryInv, RegistryTypes
<1>2. ~Clears(desk[r])
  BY <1>1 DEF Clears
<1>3. CASE Rests(r) /\ UNCHANGED links
  BY <1>1, <1>2, <1>3, RestsKeeps
<1>4. CASE \E pair \in desk[r].todo : /\ Turns(r, [desk[r] EXCEPT !.todo = @ \ {pair}])
                                      /\ \/ links' = [links EXCEPT ![pair[1]] = pair[2]]
                                         \/ UNCHANGED links
  <2>1. PICK pair \in desk[r].todo : /\ Turns(r, [desk[r] EXCEPT !.todo = @ \ {pair}])
                                     /\ \/ links' = [links EXCEPT ![pair[1]] = pair[2]]
                                        \/ UNCHANGED links
    BY <1>4
  <2>2. PICK todo : todo = desk[r].todo \ {pair}
    OBVIOUS
  <2>3. PICK e : e = [desk[r] EXCEPT !.todo = todo]
    OBVIOUS
  <2>4. todo \in SUBSET (Targets \X Nodes) /\ pair[2] \in Nodes /\ pair[2] \in HeldBy(desk[r])
    <3>1. desk[r].todo \subseteq Targets \X Nodes
      BY <1>1, EntryFacts
    <3>2. pair[2] \in Nodes /\ pair[2] # 0
      BY <2>1, <3>1, NodesAreNotZero
    <3>3. QED
      BY <2>1, <2>2, <3>1, <3>2 DEF HeldBy
  <2>5. e \in Entries /\ e.todo = todo /\ e.node = desk[r].node
    <3>1. PICK d \in Entries : d = desk[r]
      BY <1>1
    <3>2. e = [d EXCEPT !.todo = todo]
      BY <2>3, <3>1
    <3>3. QED
      BY <2>4, <3>1, <3>2 DEF Entries
  <2>6. HeldBy(e) \subseteq HeldBy(desk[r])
    BY <2>2, <2>5 DEF HeldBy
  <2>7. desk' = [desk EXCEPT ![r] = e]
    BY <1>1, <2>1, <2>2, <2>3 DEF Turns
  <2>8. /\ links' \in [LinkKeys -> Nodes \cup {0}]
        /\ \A k \in LinkKeys : links'[k] \in {links[k], pair[2]}
    BY <2>1, <2>4 DEF RegistryInv, RegistryTypes
  <2>9. RegistryTypes'
    BY <1>1, <2>5, <2>7, <2>8, DeskTyped DEF RegistryTypes, RegistryInv
  <2>10. \A n \in Gone' : /\ n \in Gone
                          /\ (\E t \in Things : rows'[t].node = n) => Loose(n)
                          /\ ~Clears(e) /\ n \in HeldBy(e) => Loose(n)
                          /\ Linked(n)' => Linked(n) \/ Loose(n)
    BY <1>1, <1>2, <2>4, <2>6, <2>8 DEF Gone, Loose, Linked
  <2>11. QED
    BY <1>2, <2>5, <2>7, <2>9, <2>10, OrdinaryStep
<1>5. QED
  BY <1>3, <1>4 DEF WriteLink

\* matter_auto_commission: the new node is in the fabric.
LEMMA CommissionKeeps ==
  ASSUME RegistryInv, NEW r \in Desks, NEW t \in Things, Commission(r, t)
  PROVE  RegistryInv'
<1>1. /\ desk[r] = AtRest /\ UNCHANGED <<rows, links, selected, stray>> /\ NewNode \in Nodes
      /\ fabric' = fabric \cup {NewNode} /\ owner' = [owner EXCEPT ![NewNode] = t]
  BY DEF Commission, Comes, Joins
<1>2. PICK n \in Nodes : n = NewNode
  BY <1>1
<1>3. PICK e : e = [at |-> "link", thing |-> t, node |-> n, todo |-> {}]
  OBVIOUS
<1>4. e \in Entries /\ HeldBy(e) = {n}
  <2>1. e \in Entries
    <3>1. "link" \in Steps
      BY DEF Steps
    <3>2. QED
      BY <1>2, <1>3, <3>1 DEF Entries
  <2>2. e.todo = {} /\ e.node = n /\ n # 0
    BY <1>2, <1>3, NodesAreNotZero
  <2>3. QED
    BY <2>1, <2>2 DEF HeldBy
<1>5. desk' = [desk EXCEPT ![r] = e]
  BY <1>2, <1>3 DEF Commission, Turns
<1>6. owner' \in [Nodes -> Things \cup {"none"}] /\ fabric' \subseteq Nodes
  BY <1>1, <1>2 DEF RegistryInv, RegistryTypes
<1>7. RegistryTypes'
  BY <1>1, <1>4, <1>5, <1>6, DeskTyped DEF RegistryTypes, RegistryInv
<1>8. ~Clears(desk[r])
  BY <1>1, RestingEntry
<1>9. \A m \in Gone' : /\ m \in Gone
                       /\ (\E u \in Things : rows'[u].node = m) => Loose(m)
                       /\ ~Clears(e) /\ m \in HeldBy(e) => Loose(m)
                       /\ Linked(m)' => Linked(m) \/ Loose(m)
  BY <1>1, <1>2, <1>4 DEF Gone, Loose, Linked
<1>10. QED
  BY <1>4, <1>5, <1>7, <1>8, <1>9, OrdinaryStep

\* Its link, then its row; it may stop before either.
LEMMA LinkNewKeeps ==
  ASSUME RegistryInv, NEW r \in Desks, LinkNew(r)
  PROVE  RegistryInv'
<1>1. /\ desk[r].at = "link" /\ UNCHANGED <<fabric, owner, rows, selected, stray>> /\ desk[r] \in Entries
      /\ links' = [links EXCEPT ![<<"hub", desk[r].thing>>] = desk[r].node]
  BY DEF LinkNew, At, RegistryInv, RegistryTypes
<1>2. PICK e : e = [desk[r] EXCEPT !.at = "row"]
  OBVIOUS
<1>3. e \in Entries /\ HeldBy(e) = HeldBy(desk[r])
  <2>1. "row" \in Steps
    BY DEF Steps
  <2>2. QED
    BY <1>1, <1>2, <2>1, EntryUpdates
<1>4. desk' = [desk EXCEPT ![r] = e]
  BY <1>2 DEF LinkNew, Turns
<1>5. /\ links' \in [LinkKeys -> Nodes \cup {0}]
      /\ \A k \in LinkKeys : links'[k] \in {links[k], desk[r].node}
  BY <1>1, EntryFacts DEF RegistryInv, RegistryTypes
<1>6. RegistryTypes'
  BY <1>1, <1>3, <1>4, <1>5, DeskTyped DEF RegistryTypes, RegistryInv
<1>7. ~Clears(desk[r])
  BY <1>1 DEF Clears
<1>8. \A n \in Nodes : n = desk[r].node => n \in HeldBy(desk[r])
  BY NodesAreNotZero DEF HeldBy
<1>9. \A n \in Gone' : /\ n \in Gone
                       /\ (\E t \in Things : rows'[t].node = n) => Loose(n)
                       /\ ~Clears(e) /\ n \in HeldBy(e) => Loose(n)
                       /\ Linked(n)' => Linked(n) \/ Loose(n)
  BY <1>1, <1>3, <1>5, <1>7, <1>8 DEF Gone, Loose, Linked
<1>10. QED
  BY <1>3, <1>4, <1>6, <1>7, <1>9, OrdinaryStep

\* A request whose step leaves rows only nodes that a row named or that were in
\* its hand, and that is done after it.
LEMMA RowsWritten ==
  ASSUME RegistryInv, NEW r \in Desks, NEW e \in Entries, ~Clears(desk[r]), HeldBy(e) = {},
         desk' = [desk EXCEPT ![r] = e], rows' \in [Things -> Rows],
         \A t \in Things : rows'[t].node \in {0, rows[t].node} \cup HeldBy(desk[r]),
         UNCHANGED <<fabric, owner, links, selected, stray>>
  PROVE  RegistryInv'
<1>1. RegistryTypes'
  BY DeskTyped DEF RegistryTypes, RegistryInv
<1>2. \A n \in Nodes : n # 0
  BY NodesAreNotZero
<1>3. \A n \in Gone' : /\ n \in Gone
                       /\ (\E t \in Things : rows'[t].node = n) => Loose(n)
                       /\ ~Clears(e) /\ n \in HeldBy(e) => Loose(n)
                       /\ Linked(n)' => Linked(n) \/ Loose(n)
  BY <1>2 DEF Gone, Loose, Linked
<1>4. QED
  BY <1>1, <1>3, OrdinaryStep

\* What becomes of one row.
LEMMA RowUpdates ==
  ASSUME NEW row \in Rows, NEW n \in Nodes \cup {0}
  PROVE  /\ [row EXCEPT !.node = n] \in Rows /\ [row EXCEPT !.node = n].node = n
         /\ [row EXCEPT !.node = n, !.commissioned = TRUE] \in Rows
         /\ [row EXCEPT !.node = n, !.commissioned = TRUE].node = n
         /\ [row EXCEPT !.node = n, !.commissioned = FALSE] \in Rows
         /\ [row EXCEPT !.node = n, !.commissioned = FALSE].node = n
         /\ [row EXCEPT !.removed = TRUE] \in Rows /\ [row EXCEPT !.removed = TRUE].node = row.node
         /\ [row EXCEPT !.matched = TRUE] \in Rows /\ [row EXCEPT !.matched = TRUE].node = row.node
         /\ row.node \in Nodes \cup {0}
BY DEF Rows

\* A row as a discovery, a match by hand or a removal by name leaves it: some of
\* its marks may change, and its node is the same.
Marked(row, after) ==
    \E known, matched, removed \in BOOLEAN :
       after = [row EXCEPT !.known = known, !.matched = matched, !.removed = removed]
\* A row that is only marked is typed and names the node it named.
LEMMA MarkedRow ==
  ASSUME NEW row \in Rows, NEW after, Marked(row, after)
  PROVE  after \in Rows /\ after.node = row.node
BY DEF Marked, Rows

\* What the two discoveries, a match by hand and a removal by name do to a row.
LEMMA MarksARow ==
  ASSUME NEW row \in Rows, NEW matched \in BOOLEAN
  PROVE  /\ Marked(row, row) /\ Marked(row, [row EXCEPT !.matched = TRUE])
         /\ Marked(row, [row EXCEPT !.removed = TRUE])
         /\ Marked(row, [row EXCEPT !.known = TRUE, !.matched = matched])
         /\ Marked(row, [row EXCEPT !.known = TRUE, !.removed = FALSE, !.matched = matched])
<1>1. row.known \in BOOLEAN /\ row.matched \in BOOLEAN /\ row.removed \in BOOLEAN
  BY DEF Rows
<1>2. Marked(row, row)
  <2>1. row = [row EXCEPT !.known = row.known, !.matched = row.matched, !.removed = row.removed]
    BY DEF Rows
  <2>2. QED
    BY <1>1, <2>1 DEF Marked
<1>3. Marked(row, [row EXCEPT !.matched = TRUE])
  <2>1. [row EXCEPT !.matched = TRUE] = [row EXCEPT !.known = row.known, !.matched = TRUE, !.removed = row.removed]
    BY DEF Rows
  <2>2. QED
    BY <1>1, <2>1 DEF Marked
<1>4. Marked(row, [row EXCEPT !.removed = TRUE])
  <2>1. [row EXCEPT !.removed = TRUE] = [row EXCEPT !.known = row.known, !.matched = row.matched, !.removed = TRUE]
    BY DEF Rows
  <2>2. QED
    BY <1>1, <2>1 DEF Marked
<1>5. Marked(row, [row EXCEPT !.known = TRUE, !.matched = matched])
  <2>1. [row EXCEPT !.known = TRUE, !.matched = matched]
          = [row EXCEPT !.known = TRUE, !.matched = matched, !.removed = row.removed]
    BY DEF Rows
  <2>2. QED
    BY <1>1, <2>1 DEF Marked
<1>6. Marked(row, [row EXCEPT !.known = TRUE, !.removed = FALSE, !.matched = matched])
  <2>1. [row EXCEPT !.known = TRUE, !.removed = FALSE, !.matched = matched]
          = [row EXCEPT !.known = TRUE, !.matched = matched, !.removed = FALSE]
    BY DEF Rows
  <2>2. QED
    BY <2>1 DEF Marked
<1>7. QED
  BY <1>2, <1>3, <1>4, <1>5, <1>6

\* When every row is only marked, no row names another node.
LEMMA RowsMarked ==
  ASSUME rows \in [Things -> Rows], rows' = [t \in Things |-> rows'[t]],
         \A t \in Things : Marked(rows[t], rows'[t])
  PROVE  rows' \in [Things -> Rows] /\ \A t \in Things : rows'[t].node = rows[t].node
<1>1. \A t \in Things : rows'[t] \in Rows /\ rows'[t].node = rows[t].node
  BY MarkedRow
<1>2. QED
  BY <1>1

\* matter_auto_commission ends with the row of its device.
LEMMA RowNewKeeps ==
  ASSUME RegistryInv, NEW r \in Desks, RowNew(r)
  PROVE  RegistryInv'
<1>1. /\ desk[r].at = "row" /\ UNCHANGED <<fabric, owner, links, selected, stray>> /\ desk[r] \in Entries
      /\ rows \in [Things -> Rows]
      /\ rows' = [rows EXCEPT ![desk[r].thing].node = desk[r].node, ![desk[r].thing].commissioned = TRUE]
  BY DEF RowNew, At, RegistryInv, RegistryTypes
<1>2. desk[r].node \in Nodes \cup {0} /\ desk[r].node \in {0} \cup HeldBy(desk[r])
  <2>1. desk[r].node \in Nodes \cup {0}
    BY <1>1, EntryFacts
  <2>2. QED
    BY <2>1, NodesAreNotZero DEF HeldBy
<1>3. PICK n \in Nodes \cup {0} : n = desk[r].node
  BY <1>2
<1>4. PICK thing : thing = desk[r].thing
  OBVIOUS
<1>5. \A t \in Things : rows'[t] \in {rows[t], [rows[t] EXCEPT !.node = n, !.commissioned = TRUE]}
  BY <1>1, <1>3, <1>4
<1>6. \A t \in Things : rows'[t] \in Rows /\ rows'[t].node \in {rows[t].node, n}
  <2>1. ASSUME NEW t \in Things PROVE rows'[t] \in Rows /\ rows'[t].node \in {rows[t].node, n}
    <3>1. PICK row \in Rows : row = rows[t]
      BY <1>1
    <3>2. rows'[t] \in {row, [row EXCEPT !.node = n, !.commissioned = TRUE]}
      BY <1>5, <3>1
    <3>3. QED
      BY <3>1, <3>2 DEF Rows
  <2>2. QED
    BY <2>1
<1>7. rows' \in [Things -> Rows]
  <2>1. rows' = [t \in Things |-> rows'[t]]
    BY <1>1
  <2>2. QED
    BY <1>6, <2>1
<1>8. ~Clears(desk[r]) /\ AtRest \in Entries /\ HeldBy(AtRest) = {} /\ desk' = [desk EXCEPT ![r] = AtRest]
  BY <1>1, RestingEntry DEF Clears, RowNew, Rests, Turns
<1>9. \A t \in Things : rows'[t].node \in {0, rows[t].node} \cup HeldBy(desk[r])
  BY <1>2, <1>3, <1>6
<1>10. QED
  BY <1>1, <1>7, <1>8, <1>9, RowsWritten

\* A commissioning that a failed call stops.
LEMMA InterruptedKeeps ==
  ASSUME RegistryInv, NEW r \in Desks, Interrupted(r)
  PROVE  RegistryInv'
<1>1. ~Clears(desk[r]) /\ Rests(r) /\ UNCHANGED <<fabric, owner, rows, links, selected, stray>>
  BY DEF Interrupted, Clears
<1>2. QED
  BY <1>1, RestsKeeps

\* matter_nodes fills the rows it finds empty from its list.
LEMMA BackfillKeeps ==
  ASSUME RegistryInv, NEW r \in Desks, Backfill(r)
  PROVE  RegistryInv'
<1>1. /\ desk[r].at = "backfill" /\ UNCHANGED <<fabric, owner, links, selected, stray>> /\ desk[r] \in Entries
      /\ rows \in [Things -> Rows]
  BY DEF Backfill, At, RegistryInv, RegistryTypes
<1>2. PICK pick \in [Things -> Nodes \cup {0}] :
         /\ \A t \in Things : pick[t] # 0 => <<t, pick[t]>> \in desk[r].todo
         /\ rows' = [t \in Things |-> IF pick[t] # 0 THEN [rows[t] EXCEPT !.node = pick[t]] ELSE rows[t]]
  BY DEF Backfill
<1>3. \A t \in Things : pick[t] # 0 => pick[t] \in HeldBy(desk[r])
  <2>1. ASSUME NEW t \in Things, pick[t] # 0 PROVE pick[t] \in HeldBy(desk[r])
    <3>1. <<t, pick[t]>> \in desk[r].todo /\ <<t, pick[t]>>[2] = pick[t]
      BY <1>2, <2>1
    <3>2. QED
      BY <2>1, <3>1 DEF HeldBy
  <2>2. QED
    BY <2>1
<1>4. \A t \in Things : rows'[t] \in Rows /\ rows'[t].node \in {rows[t].node} \cup HeldBy(desk[r])
  <2>1. ASSUME NEW t \in Things
        PROVE  rows'[t] \in Rows /\ rows'[t].node \in {rows[t].node} \cup HeldBy(desk[r])
    <3>1. CASE pick[t] # 0
      <4>1. PICK n \in Nodes \cup {0} : n = pick[t]
        BY <1>2
      <4>2. PICK row \in Rows : row = rows[t]
        BY <1>1
      <4>3. rows'[t] = [row EXCEPT !.node = n]
        BY <1>2, <3>1, <4>1, <4>2
      <4>4. rows'[t] \in Rows /\ rows'[t].node = n
        BY <4>2, <4>3 DEF Rows
      <4>5. QED
        BY <1>3, <3>1, <4>1, <4>4
    <3>2. CASE pick[t] = 0
      BY <1>1, <1>2, <3>2
    <3>3. QED
      BY <3>1, <3>2
  <2>2. QED
    BY <2>1
<1>5. rows' \in [Things -> Rows]
  BY <1>2, <1>4
<1>6. ~Clears(desk[r]) /\ AtRest \in Entries /\ HeldBy(AtRest) = {} /\ desk' = [desk EXCEPT ![r] = AtRest]
  BY <1>1, RestingEntry DEF Clears, Backfill, Rests, Turns
<1>7. QED
  BY <1>1, <1>4, <1>5, <1>6, RowsWritten

\* The check of Commission All takes nodes from rows.
LEMMA FreeGhostsKeeps ==
  ASSUME RegistryInv, NEW r \in Desks, FreeGhosts(r)
  PROVE  RegistryInv'
<1>1. /\ desk[r].at = "check" /\ UNCHANGED <<fabric, owner, links, selected, stray>>
      /\ rows \in [Things -> Rows]
  BY DEF FreeGhosts, At, RegistryInv, RegistryTypes
<1>2. /\ rows' = [t \in Things |-> rows'[t]]
      /\ \A t \in Things : rows'[t] \in {rows[t], [rows[t] EXCEPT !.node = 0, !.commissioned = FALSE]}
  BY DEF FreeGhosts
<1>3. \A t \in Things : rows'[t] \in Rows /\ rows'[t].node \in {rows[t].node, 0}
  <2>1. ASSUME NEW t \in Things PROVE rows'[t] \in Rows /\ rows'[t].node \in {rows[t].node, 0}
    <3>1. PICK row \in Rows : row = rows[t]
      BY <1>1
    <3>2. rows'[t] \in {row, [row EXCEPT !.node = 0, !.commissioned = FALSE]}
      BY <1>2, <3>1
    <3>3. PICK n \in Nodes \cup {0} : n = 0
      OBVIOUS
    <3>4. QED
      BY <3>1, <3>2, <3>3 DEF Rows
  <2>2. QED
    BY <2>1
<1>4. rows' \in [Things -> Rows]
  BY <1>2, <1>3
<1>5. ~Clears(desk[r]) /\ AtRest \in Entries /\ HeldBy(AtRest) = {} /\ desk' = [desk EXCEPT ![r] = AtRest]
  BY <1>1, RestingEntry DEF Clears, FreeGhosts, Rests, Turns
<1>6. QED
  BY <1>1, <1>3, <1>4, <1>5, RowsWritten

\* The scan of the service, and a repair that begins: no node is named anew.
LEMMA ScanKeeps ==
  ASSUME RegistryInv, NEW r \in Desks, Reconcile(r) \/ \E named \in SUBSET Things : Scan(r, named)
  PROVE  RegistryInv'
<1>1. /\ desk[r] = AtRest /\ UNCHANGED <<fabric, owner, links, selected, stray>>
      /\ rows \in [Things -> Rows]
      /\ Turns(r, [AtRest EXCEPT !.at = "candidates"])
  BY DEF Reconcile, Scan, Comes, RegistryInv, RegistryTypes
<1>2. PICK e : e = [AtRest EXCEPT !.at = "candidates"]
  OBVIOUS
<1>3. e \in Entries /\ HeldBy(e) = {}
  <2>1. "candidates" \in Steps
    BY DEF Steps
  <2>2. QED
    BY <1>2, <2>1, RestingEntry, EntryUpdates
<1>4. rows' \in [Things -> Rows] /\ \A t \in Things : rows'[t].node = rows[t].node
  <2>1. CASE Reconcile(r)
    BY <1>1, <2>1 DEF Reconcile
  <2>2. ASSUME NEW named \in SUBSET Things, Scan(r, named)
        PROVE  rows' \in [Things -> Rows] /\ \A t \in Things : rows'[t].node = rows[t].node
    <3>1. rows' = [t \in Things |-> rows'[t]]
      BY <2>2 DEF Scan
    <3>2. ASSUME NEW t \in Things PROVE Marked(rows[t], rows'[t])
      <4>1. PICK row \in Rows : row = rows[t]
        BY <1>1
      <4>2. PICK matched \in BOOLEAN : matched = (row.matched \/ t \in named)
        OBVIOUS
      <4>3. rows'[t] = row \/ rows'[t] = [row EXCEPT !.known = TRUE, !.matched = matched]
        BY <2>2, <4>1, <4>2 DEF Scan
      <4>4. QED
        BY <4>1, <4>3, MarksARow
    <3>3. QED
      BY <1>1, <3>1, <3>2, RowsMarked
  <2>3. QED
    BY <2>1, <2>2
<1>5. desk' = [desk EXCEPT ![r] = e] /\ ~Clears(desk[r])
  BY <1>1, <1>2, RestingEntry DEF Turns
<1>6. QED
  BY <1>1, <1>3, <1>4, <1>5, RowsWritten

-----------------------------------------------------------------------------
(* Decommissioning.                                                        *)

Settled(n) == /\ Loose(n) => RowsToClear(n)
              /\ Linked(n) => RowsToClear(n) \/ LinksToClear(n)

\* A node that the request does not hold stays with whoever clears it.
LEMMA OthersClear ==
  ASSUME RegistryInv, NEW r \in Desks, NEW e \in Entries, desk' = [desk EXCEPT ![r] = e],
         NEW n \in Gone, n \notin HeldBy(desk[r]), n \notin HeldBy(e),
         \A t \in Things : rows'[t].node = n => rows[t].node = n,
         \A k \in LinkKeys : links'[k] = n => links[k] = n
  PROVE  Settled(n)'
<1>1. desk'[r] = e /\ \A q \in Desks \ {r} : desk'[q] = desk[q]
  BY DEF RegistryInv, RegistryTypes
<1>2. Loose(n)' => Loose(n)
  BY <1>1 DEF Loose, Clears, HeldBy
<1>3. RowsToClear(n) => RowsToClear(n)'
  BY <1>1 DEF RowsToClear, HeldBy
<1>4. LinksToClear(n) => LinksToClear(n)'
  BY <1>1 DEF LinksToClear, HeldBy
<1>5. Linked(n)' => Linked(n)
  BY DEF Linked
<1>6. QED
  BY <1>2, <1>3, <1>4, <1>5 DEF RegistryInv, ForgetInv, Settled

\* RemoveFabric: the nodes that go are in the hand of the request, which clears
\* the rows next.
LEMMA DecommissionKeeps ==
  ASSUME RegistryInv, NEW r \in Desks, NEW ns, Decommission(r, ns)
  PROVE  RegistryInv'
<1>1. /\ desk[r] = AtRest /\ ns \subseteq fabric /\ UNCHANGED <<owner, rows, links, selected>>
      /\ fabric \subseteq Nodes /\ stray \subseteq Nodes
  BY DEF Decommission, Comes, RegistryInv, RegistryTypes
<1>2. PICK gone \in SUBSET ns : fabric' = fabric \ gone /\ stray' = stray \cup (gone \cap Others(r))
  BY DEF Decommission
<1>3. PICK todo : todo = {<<"gone", n>> : n \in ns}
  OBVIOUS
<1>4. todo \in SUBSET (Targets \X Nodes) /\ {pair[2] : pair \in todo} = ns
  <2>1. "gone" \in Targets /\ ns \subseteq Nodes
    BY <1>1 DEF Targets
  <2>2. todo \in SUBSET (Targets \X Nodes)
    BY <1>3, <2>1
  <2>3. \A n \in ns : <<"gone", n>> \in todo /\ <<"gone", n>>[2] = n
    BY <1>3
  <2>4. \A pair \in todo : pair[2] \in ns
    BY <1>3
  <2>5. QED
    BY <2>2, <2>3, <2>4
<1>5. PICK e : e = [AtRest EXCEPT !.at = "clearRows", !.todo = todo]
  OBVIOUS
<1>6. e \in Entries /\ e.at = "clearRows" /\ HeldBy(e) = ns
  <2>1. "clearRows" \in Steps
    BY DEF Steps
  <2>2. QED
    BY <1>4, <1>5, <2>1, ListEntry
<1>7. desk' = [desk EXCEPT ![r] = e]
  BY <1>3, <1>5 DEF Decommission, Turns
<1>8. RegistryTypes'
  BY <1>1, <1>2, <1>6, <1>7, DeskTyped DEF RegistryTypes, RegistryInv
<1>9. ASSUME NEW n \in Gone' PROVE Settled(n)'
  <2>1. CASE n \in ns
    <3>1. desk'[r] = e
      BY <1>7 DEF RegistryInv, RegistryTypes
    <3>2. RowsToClear(n)'
      BY <1>6, <2>1, <3>1 DEF RowsToClear, HeldBy
    <3>3. QED
      BY <3>2 DEF Settled
  <2>2. CASE n \notin ns
    <3>1. n \in Gone
      BY <1>2, <2>2 DEF Gone
    <3>2. n \notin HeldBy(desk[r])
      BY <1>1, RestingEntry
    <3>3. QED
      BY <1>1, <1>6, <1>7, <2>2, <3>1, <3>2, OthersClear
  <2>3. QED
    BY <2>1, <2>2
<1>10. QED
  BY <1>8, <1>9 DEF RegistryInv, ForgetInv, Settled

\* What a call of the database leaves behind: when it fails, or another request
\* holds a node as well, the node counts as a stray.
LEMMA WhatIsLeft ==
  ASSUME RegistryInv, NEW r \in Desks, NEW failed \in BOOLEAN, LeftOver(r, failed), UNCHANGED fabric
  PROVE  /\ stray' \subseteq Nodes
         /\ \A n \in Gone' : /\ n \in Gone
                             /\ n \in HeldBy(desk[r]) =>
                                  ~failed /\ \A q \in Desks \ {r} : n \notin HeldBy(desk[q])
<1>1. HeldBy(desk[r]) \subseteq Nodes /\ stray \subseteq Nodes
  BY EntryFacts DEF RegistryInv, RegistryTypes
<1>2. stray' = stray \cup (HeldBy(desk[r]) \cap (Others(r) \cup IF failed THEN Nodes ELSE {}))
  BY DEF LeftOver, Held, HeldBy
<1>3. \A q \in Desks \ {r} : HeldBy(desk[q]) \subseteq Others(r)
  BY DEF Others, Held, HeldBy
<1>4. QED
  BY <1>1, <1>2, <1>3 DEF Gone

\* The rows are cleared, the links are next.
LEMMA ClearRowsKeeps ==
  ASSUME RegistryInv, NEW r \in Desks, ClearRows(r)
  PROVE  RegistryInv'
<1>1. /\ desk[r].at = "clearRows" /\ UNCHANGED <<fabric, owner, links, selected>> /\ desk[r] \in Entries
      /\ rows \in [Things -> Rows]
  BY DEF ClearRows, At, RegistryInv, RegistryTypes
<1>2. PICK failed \in BOOLEAN :
        /\ LeftOver(r, failed)
        /\ rows' = IF failed THEN rows
                   ELSE [t \in Things |-> IF rows[t].node \in HeldBy(desk[r])
                                          THEN [rows[t] EXCEPT !.node = 0, !.commissioned = FALSE] ELSE rows[t]]
  BY DEF ClearRows, Held, HeldBy
<1>3. PICK e : e = [desk[r] EXCEPT !.at = "clearLinks"]
  OBVIOUS
<1>4. e \in Entries /\ HeldBy(e) = HeldBy(desk[r]) /\ e.at = "clearLinks"
  <2>1. "clearLinks" \in Steps
    BY DEF Steps
  <2>2. QED
    BY <1>1, <1>3, <2>1, EntryUpdates
<1>5. desk' = [desk EXCEPT ![r] = e] /\ desk'[r] = e /\ \A q \in Desks \ {r} : desk'[q] = desk[q]
  BY <1>3 DEF ClearRows, Turns, RegistryInv, RegistryTypes
<1>6. ASSUME NEW t \in Things
      PROVE  /\ rows'[t] \in Rows /\ rows'[t].node \in {rows[t].node, 0}
             /\ ~failed => rows'[t].node \notin HeldBy(desk[r])
  <2>1. PICK row \in Rows : row = rows[t]
    BY <1>1
  <2>2. 0 \notin HeldBy(desk[r])
    BY DEF HeldBy
  <2>3. CASE ~failed /\ row.node \in HeldBy(desk[r])
    <3>1. rows'[t] = [row EXCEPT !.node = 0, !.commissioned = FALSE]
      BY <1>2, <2>1, <2>3
    <3>2. rows'[t] \in Rows /\ rows'[t].node = 0
      BY <2>1, <3>1 DEF Rows
    <3>3. QED
      BY <2>2, <3>2
  <2>4. CASE failed \/ row.node \notin HeldBy(desk[r])
    <3>1. rows'[t] = row
      BY <1>2, <2>1, <2>4
    <3>2. QED
      BY <2>1, <2>4, <3>1
  <2>5. QED
    BY <2>3, <2>4
<1>7. rows' \in [Things -> Rows]
  <2>1. rows' = [t \in Things |-> rows'[t]]
    BY <1>1, <1>2
  <2>2. QED
    BY <1>6, <2>1
<1>8. /\ stray' \subseteq Nodes
      /\ \A n \in Gone' : /\ n \in Gone
                          /\ n \in HeldBy(desk[r]) =>
                               ~failed /\ \A q \in Desks \ {r} : n \notin HeldBy(desk[q])
  BY <1>1, <1>2, WhatIsLeft
<1>9. RegistryTypes'
  BY <1>1, <1>4, <1>5, <1>7, <1>8, DeskTyped DEF RegistryTypes, RegistryInv
<1>10. ASSUME NEW n \in Gone' PROVE Settled(n)'
  <2>1. n \in Gone /\ n # 0
    BY <1>8, NodesAreNotZero DEF Gone
  <2>2. CASE n \notin HeldBy(desk[r])
    BY <1>1, <1>4, <1>5, <1>6, <2>1, <2>2, OthersClear
  <2>3. CASE n \in HeldBy(desk[r])
    <3>1. ~failed /\ \A q \in Desks \ {r} : n \notin HeldBy(desk[q])
      BY <1>8, <2>3
    <3>2. \A t \in Things : rows'[t].node # n
      BY <1>6, <2>3, <3>1
    <3>3. \A q \in Desks : ~Clears(desk'[q]) => n \notin HeldBy(desk'[q])
      BY <1>4, <1>5, <3>1 DEF Clears
    <3>4. ~Loose(n)'
      BY <3>2, <3>3 DEF Loose, Clears, HeldBy
    <3>5. LinksToClear(n)'
      BY <1>4, <1>5, <2>3 DEF LinksToClear, HeldBy
    <3>6. QED
      BY <3>4, <3>5 DEF Settled
  <2>4. QED
    BY <2>2, <2>3
<1>11. QED
  BY <1>9, <1>10 DEF RegistryInv, ForgetInv, Settled

\* The links are cleared.  The rows of these nodes were cleared before, and who
\* could have written one since held the node when they were.
LEMMA ClearLinksKeeps ==
  ASSUME RegistryInv, NEW r \in Desks, ClearLinks(r)
  PROVE  RegistryInv'
<1>1. /\ desk[r].at = "clearLinks" /\ UNCHANGED <<fabric, owner, rows, selected>> /\ desk[r] \in Entries
      /\ links \in [LinkKeys -> Nodes \cup {0}]
  BY DEF ClearLinks, At, RegistryInv, RegistryTypes
<1>2. PICK failed \in BOOLEAN :
        /\ LeftOver(r, failed)
        /\ links' = IF failed THEN links
                    ELSE [k \in LinkKeys |-> IF links[k] \in HeldBy(desk[r]) THEN 0 ELSE links[k]]
  BY DEF ClearLinks, Held, HeldBy
<1>3. PICK e : e = AtRest
  OBVIOUS
<1>4. e \in Entries /\ HeldBy(e) = {} /\ ~Clears(e)
  BY <1>3, RestingEntry
<1>5. desk' = [desk EXCEPT ![r] = e] /\ desk'[r] = e /\ \A q \in Desks \ {r} : desk'[q] = desk[q]
  BY <1>3 DEF ClearLinks, Rests, Turns, RegistryInv, RegistryTypes
<1>6. /\ links' \in [LinkKeys -> Nodes \cup {0}]
      /\ \A k \in LinkKeys : /\ links'[k] \in {links[k], 0}
                             /\ ~failed => links'[k] \notin HeldBy(desk[r])
  <2>1. 0 \notin HeldBy(desk[r])
    BY DEF HeldBy
  <2>2. QED
    BY <1>1, <1>2, <2>1
<1>7. /\ stray' \subseteq Nodes
      /\ \A n \in Gone' : /\ n \in Gone
                          /\ n \in HeldBy(desk[r]) =>
                               ~failed /\ \A q \in Desks \ {r} : n \notin HeldBy(desk[q])
  BY <1>1, <1>2, WhatIsLeft
<1>8. RegistryTypes'
  BY <1>1, <1>4, <1>5, <1>6, <1>7, DeskTyped DEF RegistryTypes, RegistryInv
<1>9. ASSUME NEW n \in Gone' PROVE Settled(n)'
  <2>1. n \in Gone /\ n # 0
    BY <1>7, NodesAreNotZero DEF Gone
  <2>2. CASE n \notin HeldBy(desk[r])
    BY <1>1, <1>4, <1>5, <1>6, <2>1, <2>2, OthersClear
  <2>3. CASE n \in HeldBy(desk[r])
    <3>1. ~failed /\ \A q \in Desks \ {r} : n \notin HeldBy(desk[q])
      BY <1>7, <2>3
    <3>2. ~RowsToClear(n)
      BY <1>1, <3>1 DEF RowsToClear
    <3>3. ~Loose(n)
      BY <2>1, <3>2 DEF RegistryInv, ForgetInv
    <3>4. ~Loose(n)'
      <4>1. \A t \in Things : rows'[t].node # n
        BY <1>1, <3>3 DEF Loose
      <4>2. \A q \in Desks : n \notin HeldBy(desk'[q])
        BY <1>4, <1>5, <3>1
      <4>3. QED
        BY <4>1, <4>2 DEF Loose, HeldBy
    <3>5. ~Linked(n)'
      BY <1>6, <2>3, <3>1 DEF Linked
    <3>6. QED
      BY <3>4, <3>5 DEF Settled
  <2>4. QED
    BY <2>2, <2>3
<1>10. QED
  BY <1>8, <1>9 DEF RegistryInv, ForgetInv, Settled

-----------------------------------------------------------------------------
(* Requests of a single step.                                              *)

\* A step that leaves rows and links nodes they named before, and whose nodes
\* that go are strays.
LEMMA SingleStep ==
  ASSUME RegistryInv, UNCHANGED <<links, desk>>, RegistryTypes',
         \A t \in Things : rows'[t].node = rows[t].node,
         \A n \in Gone' : n \in Gone
  PROVE  RegistryInv'
<1>1. \A n \in Gone' : /\ n \in Gone
                       /\ (\E t \in Things : rows'[t].node = n) => Loose(n)
                       /\ Linked(n)' => Linked(n) \/ Loose(n)
  BY DEF Loose, Linked
<1>2. QED
  BY <1>1, DesklessStep

\* matter_discover and matter_update_match mark rows.
LEMMA DiscoverKeeps ==
  ASSUME RegistryInv, \/ \E named \in SUBSET Things : Discover(named)
                      \/ \E t \in Things : MatchByHand(t)
  PROVE  RegistryInv'
<1>1. rows \in [Things -> Rows] /\ UNCHANGED <<fabric, owner, links, selected, desk, stray>>
  BY DEF Discover, MatchByHand, RegistryInv, RegistryTypes
<1>2. rows' = [t \in Things |-> rows'[t]]
  BY <1>1 DEF Discover, MatchByHand
<1>3. ASSUME NEW t \in Things PROVE Marked(rows[t], rows'[t])
  <2>1. PICK row \in Rows : row = rows[t]
    BY <1>1
  <2>2. ASSUME NEW named \in SUBSET Things, Discover(named) PROVE Marked(rows[t], rows'[t])
    <3>1. PICK matched \in BOOLEAN : matched = (row.matched \/ t \in named)
      OBVIOUS
    <3>2. rows'[t] = row \/ rows'[t] = [row EXCEPT !.known = TRUE, !.removed = FALSE, !.matched = matched]
      BY <2>1, <2>2, <3>1 DEF Discover
    <3>3. QED
      BY <2>1, <3>2, MarksARow
  <2>3. ASSUME NEW u \in Things, MatchByHand(u) PROVE Marked(rows[t], rows'[t])
    <3>1. rows' = [rows EXCEPT ![u].matched = TRUE]
      BY <2>3 DEF MatchByHand
    <3>2. rows'[t] = row \/ rows'[t] = [row EXCEPT !.matched = TRUE]
      BY <1>1, <2>1, <3>1
    <3>3. QED
      BY <2>1, <3>2, MarksARow
  <2>4. QED
    BY <2>2, <2>3
<1>4. rows' \in [Things -> Rows] /\ \A t \in Things : rows'[t].node = rows[t].node
  BY <1>1, <1>2, <1>3, RowsMarked
<1>5. RegistryTypes' /\ \A n \in Gone' : n \in Gone
  BY <1>1, <1>4 DEF RegistryInv, RegistryTypes, Gone
<1>6. QED
  BY <1>1, <1>4, <1>5, SingleStep

\* matter_hub_ids, a commissioning with a typed code, and remove_matter_device
\* write no row.
LEMMA NodesComeAndGo ==
  ASSUME RegistryInv, \/ \E hubs \in SUBSET Hubs : SelectHubs(hubs)
                      \/ \E t \in Things : CommissionByCode(t)
                      \/ \E ns \in SUBSET Nodes : Remove(ns)
  PROVE  RegistryInv'
<1>1. UNCHANGED <<rows, links, desk>>
  BY DEF SelectHubs, CommissionByCode, Remove
<1>2. /\ fabric' \subseteq Nodes /\ stray' \subseteq Nodes /\ selected' \subseteq Hubs
      /\ owner' \in [Nodes -> Things \cup {"none"}] /\ \A n \in Gone' : n \in Gone
  <2>1. CASE \E hubs \in SUBSET Hubs : SelectHubs(hubs)
    BY <2>1 DEF SelectHubs, RegistryInv, RegistryTypes, Gone
  <2>2. CASE \E t \in Things : CommissionByCode(t)
    <3>1. PICK t \in Things : CommissionByCode(t)
      BY <2>2
    <3>2. PICK n \in Nodes : /\ fabric' = fabric \cup {n} /\ owner' = [owner EXCEPT ![n] = t]
                             /\ UNCHANGED <<selected, stray>>
      BY <3>1 DEF CommissionByCode, Joins
    <3>3. QED
      BY <3>2 DEF RegistryInv, RegistryTypes, Gone
  <2>3. CASE \E ns \in SUBSET Nodes : Remove(ns)
    BY <2>3 DEF Remove, RegistryInv, RegistryTypes, Gone
  <2>4. QED
    BY <2>1, <2>2, <2>3
<1>3. RegistryTypes'
  BY <1>1, <1>2 DEF RegistryInv, RegistryTypes
<1>4. QED
  BY <1>1, <1>2, <1>3, SingleStep

\* remove_matter_device_by_uid and remove_all_discovered hide rows; the nodes
\* that go with them are strays.
LEMMA HideKeeps ==
  ASSUME RegistryInv, NEW ts \in SUBSET Things, NEW gone \in SUBSET Nodes, Hide(ts, gone)
  PROVE  RegistryInv'
<1>1. /\ rows \in [Things -> Rows] /\ UNCHANGED <<owner, links, selected, desk>>
      /\ fabric' = fabric \ gone /\ stray' = stray \cup gone
      /\ rows' = [t \in Things |-> IF t \in ts THEN [rows[t] EXCEPT !.removed = TRUE] ELSE rows[t]]
  BY DEF Hide, RegistryInv, RegistryTypes
<1>2. ASSUME NEW t \in Things PROVE Marked(rows[t], rows'[t])
  <2>1. PICK row \in Rows : row = rows[t]
    BY <1>1
  <2>2. rows'[t] = row \/ rows'[t] = [row EXCEPT !.removed = TRUE]
    BY <1>1, <2>1
  <2>3. \A matched \in BOOLEAN : Marked(row, row) /\ Marked(row, [row EXCEPT !.removed = TRUE])
    BY MarksARow
  <2>4. QED
    BY <2>1, <2>2, <2>3
<1>3. rows' = [t \in Things |-> rows'[t]]
  BY <1>1
<1>4. rows' \in [Things -> Rows] /\ \A t \in Things : rows'[t].node = rows[t].node
  BY <1>1, <1>2, <1>3, RowsMarked
<1>5. RegistryTypes' /\ \A n \in Gone' : n \in Gone
  BY <1>1, <1>4 DEF RegistryInv, RegistryTypes, Gone
<1>6. QED
  BY <1>1, <1>4, <1>5, SingleStep

\* Links that people make for a node of the fabric, or delete.
LEMMA LinksByHandKeep ==
  ASSUME RegistryInv, \/ \E k \in LinkKeys, n \in Nodes : LinkByHand(k, n)
                      \/ \E keys \in SUBSET LinkKeys : Unlink(keys)
  PROVE  RegistryInv'
<1>1. UNCHANGED <<fabric, owner, rows, selected, desk>> /\ links \in [LinkKeys -> Nodes \cup {0}]
  BY DEF LinkByHand, Unlink, RegistryInv, RegistryTypes
<1>2. /\ links' \in [LinkKeys -> Nodes \cup {0}] /\ stray' \subseteq Nodes /\ stray \subseteq stray'
      /\ \A k \in LinkKeys : links'[k] \in {links[k], 0} \cup fabric
  <2>1. ASSUME NEW k \in LinkKeys, NEW n \in Nodes, LinkByHand(k, n)
        PROVE  /\ links' \in [LinkKeys -> Nodes \cup {0}] /\ stray' \subseteq Nodes /\ stray \subseteq stray'
               /\ \A j \in LinkKeys : links'[j] \in {links[j], 0} \cup fabric
    <3>1. /\ n \in fabric /\ links' = [links EXCEPT ![k] = n]
          /\ stray' = stray \cup ({n} \cap UNION {Held(r) : r \in Desks}) /\ stray \subseteq Nodes
      BY <2>1 DEF LinkByHand, RegistryInv, RegistryTypes
    <3>2. stray' \subseteq Nodes /\ stray \subseteq stray'
      BY <3>1
    <3>3. QED
      BY <1>1, <3>1, <3>2
  <2>2. ASSUME NEW keys \in SUBSET LinkKeys, Unlink(keys)
        PROVE  /\ links' \in [LinkKeys -> Nodes \cup {0}] /\ stray' \subseteq Nodes /\ stray \subseteq stray'
               /\ \A j \in LinkKeys : links'[j] \in {links[j], 0} \cup fabric
    BY <1>1, <2>2 DEF Unlink, RegistryInv, RegistryTypes
  <2>3. QED
    BY <2>1, <2>2
<1>3. RegistryTypes'
  BY <1>1, <1>2 DEF RegistryInv, RegistryTypes
<1>4. \A n \in Gone' : /\ n \in Gone
                       /\ (\E t \in Things : rows'[t].node = n) => Loose(n)
                       /\ Linked(n)' => Linked(n) \/ Loose(n)
  BY <1>1, <1>2, NodesAreNotZero DEF Gone, Loose, Linked
<1>5. QED
  BY <1>1, <1>3, <1>4, DesklessStep

-----------------------------------------------------------------------------
(* The theorems.                                                           *)

\* The registry starts empty.
LEMMA RegistryInvInit == MatterInit => RegistryInv
<1> SUFFICES ASSUME MatterInit PROVE RegistryInv
  OBVIOUS
<1>1. rows \in [Things -> Rows] /\ \A t \in Things : rows[t].node = 0
  BY DEF MatterInit, Unknown, Rows
<1>2. /\ fabric \subseteq Nodes /\ stray \subseteq Nodes /\ selected \subseteq Hubs
      /\ owner \in [Nodes -> Things \cup {"none"}]
      /\ links \in [LinkKeys -> Nodes \cup {0}] /\ \A k \in LinkKeys : links[k] = 0
  BY DEF MatterInit
<1>3. desk \in [Desks -> Entries] /\ \A r \in Desks : HeldBy(desk[r]) = {}
  BY RestingEntry DEF MatterInit
<1>4. \A n \in Gone : ~Loose(n) /\ ~Linked(n)
  BY <1>1, <1>2, <1>3, NodesAreNotZero DEF Gone, Loose, Linked
<1>5. QED
  BY <1>1, <1>2, <1>3, <1>4 DEF RegistryInv, RegistryTypes, ForgetInv

\* Every step of the registry keeps the invariant.
LEMMA RegistryInvNext == RegistryInv /\ [MatterNext]_matterVars => RegistryInv'
<1> SUFFICES ASSUME RegistryInv, [MatterNext]_matterVars PROVE RegistryInv'
  OBVIOUS
<1>1. ASSUME NEW r \in Desks, DeskSteps(r) PROVE RegistryInv'
  <2>1. CASE Reconcile(r) \/ \E named \in SUBSET Things : Scan(r, named)
    BY <2>1, ScanKeeps
  <2>2. CASE Candidates(r)
    BY <2>2, CandidatesKeeps
  <2>3. CASE LinksRead(r)
    BY <2>3, LinksReadKeeps
  <2>4. CASE Rebuild(r)
    BY <2>4, RebuildKeeps
  <2>5. CASE WriteLink(r)
    BY <2>5, WriteLinkKeeps
  <2>6. CASE LinkNew(r)
    BY <2>6, LinkNewKeeps
  <2>7. CASE RowNew(r)
    BY <2>7, RowNewKeeps
  <2>8. CASE Interrupted(r)
    BY <2>8, InterruptedKeeps
  <2>9. CASE ListNodes(r) \/ Check(r)
    BY <2>9, ListNodesKeeps
  <2>10. CASE Backfill(r)
    BY <2>10, BackfillKeeps
  <2>11. CASE FreeGhosts(r)
    BY <2>11, FreeGhostsKeeps
  <2>12. CASE ClearRows(r)
    BY <2>12, ClearRowsKeeps
  <2>13. CASE ClearLinks(r)
    BY <2>13, ClearLinksKeeps
  <2>14. CASE \E t \in Things : Commission(r, t)
    BY <2>14, CommissionKeeps
  <2>15. CASE \E ns \in {{n} : n \in fabric} \cup {fabric} : ns # {} /\ Decommission(r, ns)
    BY <2>15, DecommissionKeeps
  <2>16. QED
    BY <1>1, <2>1, <2>2, <2>3, <2>4, <2>5, <2>6, <2>7, <2>8, <2>9, <2>10, <2>11, <2>12, <2>13, <2>14,
       <2>15 DEF DeskSteps
<1>2. CASE \E named \in SUBSET Things : Discover(named)
  BY <1>2, DiscoverKeeps
<1>3. CASE \E t \in Things : MatchByHand(t) \/ CommissionByCode(t)
  BY <1>3, DiscoverKeeps, NodesComeAndGo
<1>4. CASE \E hubs \in SUBSET Hubs \ {{}} : SelectHubs(hubs)
  BY <1>4, NodesComeAndGo
<1>5. CASE \E ns \in SUBSET Nodes : Remove(ns)
  BY <1>5, NodesComeAndGo
<1>6. CASE \E ts \in SUBSET Things, gone \in SUBSET Nodes : Hide(ts, gone)
  BY <1>6, HideKeeps
<1>7. CASE \/ \E k \in LinkKeys : Unlink({k}) \/ \E n \in Nodes : LinkByHand(k, n)
           \/ Unlink(LinkKeys)
  <2>1. \A k \in LinkKeys : {k} \in SUBSET LinkKeys
    OBVIOUS
  <2>2. LinkKeys \in SUBSET LinkKeys
    OBVIOUS
  <2>3. QED
    BY <1>7, <2>1, <2>2, LinksByHandKeep
<1>8. CASE UNCHANGED matterVars
  BY <1>8 DEF matterVars, RegistryInv, RegistryTypes, ForgetInv, Gone, Loose, Linked, RowsToClear,
     LinksToClear, Clears, HeldBy
<1>9. QED
  BY <1>1, <1>2, <1>3, <1>4, <1>5, <1>6, <1>7, <1>8 DEF MatterNext

\* Rows, links and what the requests hold only ever name nodes of the server, and
\* a request is always at one of its steps (matter_discovery.py, matter_removal.py,
\* matter_mapping.py, app.py).
THEOREM MatterTyped == MatterSpec => []MatterTypeOK
<1>1. RegistryInv => MatterTypeOK
  BY TypesAreTyped DEF RegistryInv
<1>2. QED
  BY <1>1, RegistryInvInit, RegistryInvNext, PTL DEF MatterSpec

\* Once a decommission is done, no row and no link names its nodes
\* (app.py:2237-2280), however many requests ran meanwhile: whoever could write
\* one afterwards held the node when the rows were cleared, and then the node
\* is a stray.
THEOREM NodesAreForgotten == MatterSpec => []DecommissionedAreForgotten
<1>1. RegistryInv => DecommissionedAreForgotten
  <2> SUFFICES ASSUME RegistryInv, NEW n \in Nodes \ (fabric \cup stray),
                      \A r \in Desks : At(r, "clearRows") \/ At(r, "clearLinks") => n \notin Held(r)
               PROVE  /\ \A t \in Things : Resolved(t) # n
                      /\ \A k \in LinkKeys : links[k] # n
    BY DEF DecommissionedAreForgotten
  <2>1. n \in Gone
    BY DEF Gone
  <2>2. ~RowsToClear(n) /\ ~LinksToClear(n)
    BY DEF RowsToClear, LinksToClear, At, Held, HeldBy
  <2>3. ~Loose(n) /\ ~Linked(n)
    BY <2>1, <2>2 DEF RegistryInv, ForgetInv
  <2>4. QED
    BY <2>3 DEF Loose, Linked, Resolved
<1>2. QED
  BY <1>1, RegistryInvInit, RegistryInvNext, PTL DEF MatterSpec
=============================================================================

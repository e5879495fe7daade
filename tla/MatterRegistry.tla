--------------------------- MODULE MatterRegistry ---------------------------
(***************************************************************************)
(* What the database says of the nodes of the matter-server: the rows of   *)
(* hubitat_matter_devices (our_node_id), which commands are routed by, and *)
(* the links of device_matter_map.  Discovery, commissioning, removal and  *)
(* repair write both, each over several calls between which others write.  *)
(*                                                                         *)
(* A node id is given out once.  The blocking database calls at the end of *)
(* a listing are one step.  The pairing window and the queue of Commission *)
(* All are MatterPairing; here its check of the rows stands for it.        *)
(*                                                                         *)
(* Sources: services/matter_discovery.py, services/matter_removal.py,      *)
(* services/matter_mapping.py, services/matter_debug.py, app.py            *)
(***************************************************************************)
EXTENDS Integers, FiniteSets

CONSTANTS Things,         \* devices, by UniqueID
          Hubs,           \* rows of hub_config
          HubOf,          \* the hub a device is paired with
          Primary,        \* the hub with is_primary
          Desks,          \* requests that may be under way at a time
          MaxNodes,       \* bound on node ids
          MaxVisits,      \* bound on requests
          MaxDbTrouble    \* bound on database calls that fail

ASSUME MatterRegistryAssumption ==
    /\ Primary \in Hubs /\ HubOf \in [Things -> Hubs]
    /\ {MaxNodes, MaxVisits, MaxDbTrouble} \subseteq Nat

VARIABLES fabric,    \* the nodes that get_nodes returns
          owner,     \* the device each node was made of
          rows,      \* hubitat_matter_devices by device
          links,     \* device_matter_map: the nodes by hub id and by Maker id of a device
          selected,  \* matter_hub_ids, empty if it was never written
          desk,      \* what each request does and what it has read
          stray,     \* nodes left behind: removed, or gone while a request held them
          visits
matterVars == <<fabric, owner, rows, links, selected, desk, stray, visits>>

Nodes == 1..MaxNodes
LinkKeys == {"hub", "maker"} \X Things
AtRest == [at |-> "free", thing |-> "none", node |-> 0, todo |-> {}]
Unknown == [known |-> FALSE, matched |-> FALSE, node |-> 0, commissioned |-> FALSE, removed |-> FALSE]
MatterInit ==
    /\ fabric = {} /\ owner = [n \in Nodes |-> "none"]
    /\ rows = [t \in Things |-> Unknown] /\ links = [k \in LinkKeys |-> 0]
    /\ selected = {} /\ desk = [r \in Desks |-> AtRest] /\ stray = {}
    /\ visits = [requests |-> 0, troubles |-> 0]

Turns(r, entry) == desk' = [desk EXCEPT ![r] = entry]
Rests(r) == Turns(r, AtRest)
At(r, step) == desk[r].at = step
Comes(r) == /\ desk[r] = AtRest /\ visits.requests < MaxVisits
            /\ visits' = [visits EXCEPT !.requests = @ + 1]
\* The nodes a request may still write somewhere.
Held(r) == ({pair[2] : pair \in desk[r].todo} \cup {desk[r].node}) \ {0}
Others(r) == UNION {Held(q) : q \in Desks \ {r}}

(* Discovery *)
\* _resolve_matter_hubs of the endpoints, _get_hub_configs of the service.
MatterHubs == IF selected = {} THEN {Primary} ELSE selected
SelectHubs(hubs) == /\ visits.requests < MaxVisits /\ hubs # selected
                    /\ visits' = [visits EXCEPT !.requests = @ + 1]
                    /\ selected' = hubs
                    /\ UNCHANGED <<fabric, owner, rows, links, desk, stray>>
OnHubs(hubs) == {t \in Things : HubOf[t] \in hubs}
\* matter_discover brings the devices of the selected hubs back into the list,
\* each matched if a device of the Maker API has its name.
Discover(named) ==
    /\ visits.requests < MaxVisits /\ visits' = [visits EXCEPT !.requests = @ + 1]
    /\ rows' = [t \in Things |->
                  IF t \notin OnHubs(MatterHubs) THEN rows[t]
                  ELSE [rows[t] EXCEPT !.known = TRUE, !.removed = FALSE, !.matched = @ \/ t \in named]]
    /\ UNCHANGED <<fabric, owner, links, selected, desk, stray>>
\* The scan of the service leaves rows that exist as they are, removed or not.
Scan(r, named) ==
    /\ Comes(r)
    /\ rows' = [t \in Things |->
                  IF t \notin OnHubs({Primary}) THEN rows[t]
                  ELSE [rows[t] EXCEPT !.known = TRUE, !.matched = @ \/ t \in named]]
    /\ Turns(r, [AtRest EXCEPT !.at = "candidates"])
    /\ UNCHANGED <<fabric, owner, links, selected, stray>>
\* matter_update_match
MatchByHand(t) == /\ rows[t].known /\ ~rows[t].matched
                  /\ rows' = [rows EXCEPT ![t].matched = TRUE]
                  /\ UNCHANGED <<fabric, owner, links, selected, desk, stray, visits>>

(* _reconcile_mappings: the candidates, then the links there are, then what is missing *)
Reconcile(r) == /\ Comes(r) /\ Turns(r, [AtRest EXCEPT !.at = "candidates"])
                /\ UNCHANGED <<fabric, owner, rows, links, selected, stray>>
Candidates(r) ==
    LET found == {t \in Things : rows[t].node # 0 /\ rows[t].matched} IN
    /\ At(r, "candidates")
    /\ IF found = {} THEN Rests(r)
       ELSE Turns(r, [AtRest EXCEPT !.at = "links", !.todo = {<<<<"maker", t>>, rows[t].node>> : t \in found}])
    /\ UNCHANGED <<fabric, owner, rows, links, selected, stray, visits>>
LinksRead(r) ==
    LET linked == {links[k] : k \in LinkKeys} IN
    /\ At(r, "links")
    /\ Turns(r, [desk[r] EXCEPT !.at = "write", !.todo = {pair \in @ : pair[2] \notin linked}])
    /\ UNCHANGED <<fabric, owner, rows, links, selected, stray, visits>>
\* matter_rebuild_mappings
Rebuild(r) ==
    LET found == {t \in Things : rows[t].node # 0 /\ ~rows[t].removed} IN
    /\ Comes(r)
    /\ Turns(r, [AtRest EXCEPT !.at = "write", !.todo = {<<<<"hub", t>>, rows[t].node>> : t \in found}])
    /\ UNCHANGED <<fabric, owner, rows, links, selected, stray>>
\* One link of either; a link that cannot be written is passed over.
WriteLink(r) ==
    /\ At(r, "write")
    /\ IF desk[r].todo = {} THEN Rests(r) /\ UNCHANGED <<links, visits>>
       ELSE \E pair \in desk[r].todo :
              /\ Turns(r, [desk[r] EXCEPT !.todo = @ \ {pair}])
              /\ \/ links' = [links EXCEPT ![pair[1]] = pair[2]] /\ UNCHANGED visits
                 \/ /\ visits.troubles < MaxDbTrouble /\ UNCHANGED links
                    /\ visits' = [visits EXCEPT !.troubles = @ + 1]
    /\ UNCHANGED <<fabric, owner, rows, selected, stray>>
\* matter_create_mapping for a node of the list, matter_delete_mapping, matter_delete_all_mappings
LinkByHand(k, n) == /\ n \in fabric
                    /\ links' = [links EXCEPT ![k] = n]
                    /\ stray' = stray \cup ({n} \cap UNION {Held(r) : r \in Desks})
                    /\ UNCHANGED <<fabric, owner, rows, selected, desk, visits>>
Unlink(keys) == /\ \E k \in keys : links[k] # 0
                /\ links' = [k \in LinkKeys |-> IF k \in keys THEN 0 ELSE links[k]]
                /\ UNCHANGED <<fabric, owner, rows, selected, desk, stray, visits>>

(* Nodes come *)
NewNode == Cardinality({m \in Nodes : owner[m] # "none"}) + 1
Joins(t) == /\ NewNode \in Nodes
            /\ fabric' = fabric \cup {NewNode} /\ owner' = [owner EXCEPT ![NewNode] = t]
\* matter_commission, with a code that was typed in: no row is written.
CommissionByCode(t) ==
    /\ visits.requests < MaxVisits /\ visits' = [visits EXCEPT !.requests = @ + 1]
    /\ Joins(t) /\ UNCHANGED <<rows, links, selected, desk, stray>>
\* matter_auto_commission: the link, then the row.  It stops where a call fails.
Commission(r, t) ==
    /\ Comes(r) /\ rows[t].known /\ Joins(t)
    /\ Turns(r, [at |-> "link", thing |-> t, node |-> NewNode, todo |-> {}])
    /\ UNCHANGED <<rows, links, selected, stray>>
LinkNew(r) == /\ At(r, "link") /\ links' = [links EXCEPT ![<<"hub", desk[r].thing>>] = desk[r].node]
              /\ Turns(r, [desk[r] EXCEPT !.at = "row"])
              /\ UNCHANGED <<fabric, owner, rows, selected, stray, visits>>
RowNew(r) == /\ At(r, "row") /\ Rests(r)
             /\ rows' = [rows EXCEPT ![desk[r].thing].node = desk[r].node,
                                     ![desk[r].thing].commissioned = TRUE]
             /\ UNCHANGED <<fabric, owner, links, selected, stray, visits>>
Interrupted(r) == /\ desk[r].at \in {"link", "row"} /\ visits.troubles < MaxDbTrouble
                  /\ visits' = [visits EXCEPT !.troubles = @ + 1] /\ Rests(r)
                  /\ UNCHANGED <<fabric, owner, rows, links, selected, stray>>
\* matter_nodes: the list, then the row of every node that no row names and whose
\* UniqueID has a row that names no node.
ListNodes(r) ==
    /\ Comes(r)
    /\ Turns(r, [AtRest EXCEPT !.at = "backfill", !.todo = {<<owner[n], n>> : n \in fabric}])
    /\ UNCHANGED <<fabric, owner, rows, links, selected, stray>>
Backfill(r) ==
    LET lacking(t) == {pair \in desk[r].todo : pair[1] = t} IN
    /\ At(r, "backfill") /\ Rests(r)
    /\ \E pick \in [Things -> Nodes \cup {0}] :
         /\ \A t \in Things : IF rows[t].known /\ rows[t].node = 0 /\ lacking(t) # {}
                              THEN <<t, pick[t]>> \in lacking(t) ELSE pick[t] = 0
         /\ rows' = [t \in Things |-> IF pick[t] # 0 THEN [rows[t] EXCEPT !.node = pick[t]] ELSE rows[t]]
    /\ UNCHANGED <<fabric, owner, links, selected, stray, visits>>

(* Nodes go *)
\* matter_decommission_node and _all: RemoveFabric, which may fail, then the rows,
\* then the links.  Either call of the database may fail by itself.
Decommission(r, ns) ==
    /\ Comes(r) /\ ns \subseteq fabric
    /\ \E gone \in SUBSET ns :
         /\ fabric' = fabric \ gone
         /\ stray' = stray \cup (gone \cap Others(r))
    /\ Turns(r, [AtRest EXCEPT !.at = "clearRows", !.todo = {<<"gone", n>> : n \in ns}])
    /\ UNCHANGED <<owner, rows, links, selected>>
LeftOver(r, failed) ==
    /\ IF failed THEN visits.troubles < MaxDbTrouble /\ visits' = [visits EXCEPT !.troubles = @ + 1]
       ELSE UNCHANGED visits
    /\ stray' = stray \cup (Held(r) \cap (Others(r) \cup IF failed THEN Nodes ELSE {}))
ClearRows(r) ==
    /\ At(r, "clearRows") /\ Turns(r, [desk[r] EXCEPT !.at = "clearLinks"])
    /\ \E failed \in BOOLEAN :
         /\ LeftOver(r, failed)
         /\ rows' = IF failed THEN rows
                    ELSE [t \in Things |-> IF rows[t].node \in Held(r)
                                           THEN [rows[t] EXCEPT !.node = 0, !.commissioned = FALSE] ELSE rows[t]]
    /\ UNCHANGED <<fabric, owner, links, selected>>
\* Variant: only the link that commissioning makes is deleted
ClearHubLinks(r) ==
    /\ At(r, "clearLinks") /\ Rests(r)
    /\ \E failed \in BOOLEAN :
         /\ LeftOver(r, failed)
         /\ links' = IF failed THEN links
                     ELSE [k \in LinkKeys |-> IF k[1] = "hub" /\ links[k] \in Held(r) THEN 0 ELSE links[k]]
    /\ UNCHANGED <<fabric, owner, rows, selected>>
ClearLinks(r) ==
    /\ At(r, "clearLinks") /\ Rests(r)
    /\ \E failed \in BOOLEAN :
         /\ LeftOver(r, failed)
         /\ links' = IF failed THEN links ELSE [k \in LinkKeys |-> IF links[k] \in Held(r) THEN 0 ELSE links[k]]
    /\ UNCHANGED <<fabric, owner, rows, selected>>
\* remove_matter_device of one node, or matter_decommission_all when its own list
\* of the nodes could not be had: no row is cleared.
Remove(ns) == /\ ns # {} /\ ns \subseteq fabric /\ visits.requests < MaxVisits
              /\ visits' = [visits EXCEPT !.requests = @ + 1]
              /\ fabric' = fabric \ ns /\ stray' = stray \cup ns
              /\ UNCHANGED <<owner, rows, links, selected, desk>>
\* remove_matter_device_by_uid and remove_all_discovered: the rows are hidden; a
\* node goes only if matter_devices names it.
Hide(ts, gone) ==
    /\ ts # {} /\ ts \subseteq {t \in Things : rows[t].known /\ ~rows[t].removed}
    /\ gone \subseteq {n \in fabric : owner[n] \in ts}
    /\ visits.requests < MaxVisits /\ visits' = [visits EXCEPT !.requests = @ + 1]
    /\ rows' = [t \in Things |-> IF t \in ts THEN [rows[t] EXCEPT !.removed = TRUE] ELSE rows[t]]
    /\ fabric' = fabric \ gone /\ stray' = stray \cup gone
    /\ UNCHANGED <<owner, links, selected, desk>>
\* The check of Commission All: rows whose node is not in the list are made free.
Check(r) == /\ Comes(r) /\ Turns(r, [AtRest EXCEPT !.at = "check", !.todo = {<<"live", n>> : n \in fabric}])
            /\ UNCHANGED <<fabric, owner, rows, links, selected, stray>>
FreeGhosts(r) ==
    LET ghost(t) == rows[t].commissioned /\ rows[t].node \notin Held(r) IN
    /\ At(r, "check") /\ Rests(r)
    /\ rows' = [t \in Things |-> IF ghost(t) THEN [rows[t] EXCEPT !.node = 0, !.commissioned = FALSE] ELSE rows[t]]
    /\ UNCHANGED <<fabric, owner, links, selected, stray, visits>>

DeskSteps(r) ==
    \/ Reconcile(r) \/ Candidates(r) \/ LinksRead(r) \/ Rebuild(r) \/ WriteLink(r)
    \/ LinkNew(r) \/ RowNew(r) \/ Interrupted(r) \/ ListNodes(r) \/ Backfill(r)
    \/ ClearRows(r) \/ ClearLinks(r) \/ Check(r) \/ FreeGhosts(r)
    \/ (\E named \in SUBSET Things : Scan(r, named))
    \/ (\E t \in Things : Commission(r, t))
    \/ (\E ns \in {{n} : n \in fabric} \cup {fabric} : ns # {} /\ Decommission(r, ns))
MatterNext ==
    \/ \E r \in Desks : DeskSteps(r)
    \/ \E hubs \in SUBSET Hubs \ {{}} : SelectHubs(hubs)
    \/ \E named \in SUBSET Things : Discover(named)
    \/ \E t \in Things : MatchByHand(t) \/ CommissionByCode(t)
    \/ \E k \in LinkKeys : Unlink({k}) \/ \E n \in Nodes : LinkByHand(k, n)
    \/ Unlink(LinkKeys)
    \/ \E ns \in SUBSET Nodes : Remove(ns)
    \/ \E ts \in SUBSET Things, gone \in SUBSET Nodes : Hide(ts, gone)
MatterSpec == MatterInit /\ [][MatterNext]_matterVars

MatterTypeOK ==
    /\ fabric \subseteq Nodes /\ stray \subseteq Nodes /\ selected \subseteq Hubs
    /\ owner \in [Nodes -> Things \cup {"none"}]
    /\ rows \in [Things -> [known : BOOLEAN, matched : BOOLEAN, node : Nodes \cup {0},
                            commissioned : BOOLEAN, removed : BOOLEAN]]
    /\ links \in [LinkKeys -> Nodes \cup {0}]
    /\ \A r \in Desks : /\ desk[r].node \in Nodes \cup {0} /\ \A pair \in desk[r].todo : pair[2] \in Nodes
                        /\ desk[r].at \in {"free", "candidates", "links", "write", "link", "row", "backfill",
                                           "clearRows", "clearLinks", "check"}

\* resolve_device_to_node: what a command over Matter would be sent to.
Resolved(t) == rows[t].node
\* Once a decommission is done, no row and no link names its nodes
\* (app.py:2237-2280), whatever wrote them and however it overlapped, except for
\* nodes that a removal took, that a failed call left or that another request
\* held in hand meanwhile.
DecommissionedAreForgotten ==
    \A n \in Nodes \ (fabric \cup stray) :
        (\A r \in Desks : At(r, "clearRows") \/ At(r, "clearLinks") => n \notin Held(r)) =>
            /\ \A t \in Things : Resolved(t) # n
            /\ \A k \in LinkKeys : links[k] # n
=============================================================================

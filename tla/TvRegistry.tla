------------------------------ MODULE TvRegistry ------------------------------
(***************************************************************************)
(* The registry of Samsung TV clients and one row of the table it keeps    *)
(* them by.  Requests write the row without the registry's lock and then   *)
(* have the registry reload it, under the lock, which stops and starts the *)
(* client if an address in the row has changed.                            *)
(*                                                                         *)
(* is_enabled and is_paused are left out: no code writes them after the    *)
(* row is made.                                                            *)
(*                                                                         *)
(* Sources: services/samsung_tv_registry.py,                               *)
(* apps/samsung_tv/instance_router.py                                      *)
(***************************************************************************)
EXTENDS Integers

CONSTANTS Clerks,       \* requests that may be under way at a time
          Addresses,    \* values of the columns in wire_keys
          Ports,        \* values of the column port
          MaxPaper,     \* bound on requests
          MaxDbFaults   \* bound on database calls that fail, and restarts

ASSUME RegistryAssumption == {MaxPaper, MaxDbFaults} \subseteq Nat /\ "nobody" \notin Clerks

VARIABLES table,     \* the row in the database, or NoRow
          snapshot,  \* _row_snapshot of it
          running,   \* what the client in _clients was made from, or NoRow
          holder,    \* who has _lock, or Nobody
          clerk,     \* what each request does: its step, and the row it brings or has read
          overlapped,   \* a call failed, or a deletion overlapped another request
          paper
registryVars == <<table, snapshot, running, holder, clerk, overlapped, paper>>

NoRow == [addr |-> "none", port |-> 0]
Rows == [addr : Addresses, port : Ports]
Nobody == "nobody"
AtDesk == [at |-> "idle", row |-> NoRow]
RegistryInit == /\ table \in Rows \cup {NoRow}
                /\ snapshot = table /\ running = table
                /\ holder = Nobody /\ clerk = [c \in Clerks |-> AtDesk]
                /\ overlapped = FALSE /\ paper = [requests |-> 0, faults |-> 0]

Request(c) == /\ clerk[c] = AtDesk /\ paper.requests < MaxPaper
              /\ paper' = [paper EXCEPT !.requests = @ + 1]
DbFails == /\ paper.faults < MaxDbFaults /\ paper' = [paper EXCEPT !.faults = @ + 1]
           /\ overlapped' = TRUE
Goes(c, at, row) == clerk' = [clerk EXCEPT ![c] = [at |-> at, row |-> row]]
Alone(c) == \A d \in Clerks \ {c} : clerk[d] = AtDesk
Deleting == \E d \in Clerks : clerk[d].at \in {"tearDown", "delete"}

\* api_configure: an instance the registry does not know is looked up first.
Configure(c, row) ==
    /\ Request(c) /\ Goes(c, IF snapshot = NoRow THEN "lookup" ELSE "patch", row)
    /\ overlapped' = (overlapped \/ Deleting)
    /\ UNCHANGED <<table, snapshot, running, holder>>
\* _patch_row writes the columns of the request, none if there is no row.
Patch(c) ==
    LET new == clerk[c].row IN
    /\ clerk[c].at = "patch"
    /\ \/ /\ \E row \in {new, [new EXCEPT !.port = table.port], [new EXCEPT !.addr = table.addr]} :
               table' = IF table = NoRow THEN NoRow ELSE row
          /\ Goes(c, "reload", NoRow) /\ UNCHANGED <<overlapped, paper>>
       \/ DbFails /\ Goes(c, "idle", NoRow) /\ UNCHANGED table
    /\ UNCHANGED <<snapshot, running, holder>>
\* api_create
Create(c, row) ==
    /\ table = NoRow /\ Request(c) /\ Goes(c, "insert", row)
    /\ overlapped' = (overlapped \/ Deleting)
    /\ UNCHANGED <<table, snapshot, running, holder>>
Insert(c) ==
    /\ clerk[c].at = "insert"
    /\ IF table # NoRow THEN Goes(c, "idle", NoRow) /\ UNCHANGED table
       ELSE table' = clerk[c].row /\ Goes(c, "reload", NoRow)
    /\ UNCHANGED <<snapshot, running, holder, overlapped, paper>>

\* Variant: the row is read before the lock is there
FetchUnlocked(c) ==
    /\ clerk[c].at \in {"reload", "lookup"}
    /\ Goes(c, IF clerk[c].at = "reload" THEN "apply" ELSE "applyLookup", table)
    /\ UNCHANGED <<table, snapshot, running, holder, overlapped, paper>>
\* reload_instance: the lock, then the row.  A row that cannot be read counts as
\* one that is not there.
Fetch(c) ==
    /\ clerk[c].at \in {"reload", "lookup"} /\ holder = Nobody
    /\ holder' = c
    /\ \E read \in {table, NoRow} :
         /\ IF read = table THEN UNCHANGED <<overlapped, paper>> ELSE DbFails
         /\ clerk' = [clerk EXCEPT ![c] =
                        IF @.at = "reload" THEN [at |-> "apply", row |-> read]
                        ELSE IF read = NoRow THEN [at |-> "apply", row |-> read]
                        ELSE [at |-> "applyLookup", row |-> read]]
    /\ UNCHANGED <<table, snapshot, running>>
WireChanged(row) == row.addr # snapshot.addr
\* The rest of it: tear down, respawn or keep the client.
Apply(c) ==
    LET row == clerk[c].row IN
    /\ clerk[c].at \in {"apply", "applyLookup"}
    /\ running' = IF row = NoRow \/ running = NoRow \/ WireChanged(row) THEN row ELSE running
    /\ snapshot' = row
    /\ holder' = Nobody
    /\ IF clerk[c].at = "applyLookup" THEN \E change \in Rows : Goes(c, "patch", change)
       ELSE Goes(c, "idle", NoRow)
    /\ UNCHANGED <<table, overlapped, paper>>

\* api_delete: the client goes first, the row after it.
Delete(c) ==
    /\ Request(c) /\ Goes(c, "tearDown", NoRow)
    /\ overlapped' = (overlapped \/ ~Alone(c))
    /\ UNCHANGED <<table, snapshot, running, holder>>
TearDown(c) ==
    /\ clerk[c].at = "tearDown" /\ holder = Nobody
    /\ running' = NoRow /\ snapshot' = NoRow
    /\ Goes(c, "delete", NoRow)
    /\ UNCHANGED <<table, holder, overlapped, paper>>
DeleteRow(c) ==
    /\ clerk[c].at = "delete" /\ Goes(c, "idle", NoRow)
    /\ \/ table' = NoRow /\ UNCHANGED <<overlapped, paper>>
       \/ DbFails /\ UNCHANGED table
    /\ UNCHANGED <<snapshot, running, holder>>
\* start_all after a restart; the row it cannot read gets no client.
StartAll ==
    /\ paper.faults < MaxDbFaults /\ paper' = [paper EXCEPT !.faults = @ + 1]
    /\ holder' = Nobody /\ clerk' = [c \in Clerks |-> AtDesk]
    /\ \/ snapshot' = table /\ running' = table /\ UNCHANGED overlapped
       \/ snapshot' = NoRow /\ running' = NoRow /\ overlapped' = TRUE
    /\ UNCHANGED table

ClerkSteps(c) == \/ Patch(c) \/ Insert(c) \/ Fetch(c) \/ Apply(c) \/ TearDown(c) \/ DeleteRow(c)
                 \/ Delete(c) \/ \E row \in Rows : Configure(c, row) \/ Create(c, row)
RegistryNext == StartAll \/ \E c \in Clerks : ClerkSteps(c)
RegistrySpec == RegistryInit /\ [][RegistryNext]_registryVars

RegistryTypeOK ==
    /\ {table, snapshot, running} \subseteq Rows \cup {NoRow}
    /\ holder \in Clerks \cup {Nobody} /\ overlapped \in BOOLEAN
    /\ \A c \in Clerks :
         /\ clerk[c].at \in {"idle", "lookup", "patch", "insert", "reload", "apply", "applyLookup",
                             "tearDown", "delete"}
         /\ clerk[c].row \in Rows \cup {NoRow}

\* When all requests are done, the client runs exactly if there is a row, with
\* the address of the row, however requests overlapped, unless a database call
\* failed or a deletion overlapped another request (samsung_tv_registry.py:413-469,
\* instance_router.py:304-448).
ClientFollowsRow ==
    (\A c \in Clerks : clerk[c] = AtDesk) /\ ~overlapped => running.addr = table.addr
=============================================================================

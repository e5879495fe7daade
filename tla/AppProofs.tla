------------------------------ MODULE AppProofs ------------------------------
(***************************************************************************)
(* What is proved of the apps, and of the registry one of them uses: of    *)
(* the clients of TVs (TvRegistry), of the windows in which a TV may be    *)
(* used (ScreenTime), of pauses that cut the power (PowerManagement), and  *)
(* of the rules that a TV and a button set off (Rules).  The four share    *)
(* no variable; each has its inductive invariant.                          *)
(***************************************************************************)
EXTENDS TvRegistry, ScreenTime, PowerManagement, Rules, FiniteSetTheorems, SequenceTheorems, TLAPS
-----------------------------------------------------------------------------
(***************************************************************************)
(* That the client of a TV follows its row, for any number of requests,    *)
(* addresses and ports, and any number of failing calls and restarts.      *)
(*                                                                         *)
(* ClientFollowsRow speaks of the state in which every request is done.    *)
(* Before that it is the rows a request has still to hand over that keep   *)
(* the client right: RegistryInv says who still owes the registry a look   *)
(* at the row, and that what is about to be applied under the lock is the  *)
(* row as it stands unless somebody else still owes such a look.           *)
(***************************************************************************)

ClerkSet == {"idle", "lookup", "patch", "insert", "reload", "apply", "applyLookup",
             "tearDown", "delete"}
SomeRows == Rows \cup {NoRow}
ClerkRecord == [at : ClerkSet, row : SomeRows]
CounterRecord == [requests : Nat, faults : Nat]

\* Who is about to write the row brings one.
Brings(c) == clerk[c].at \in {"patch", "insert"}

Typed == /\ table \in SomeRows /\ snapshot \in SomeRows /\ running \in SomeRows
         /\ holder \in Clerks \cup {Nobody} /\ overlapped \in BOOLEAN
         /\ clerk \in [Clerks -> ClerkRecord]
         /\ paper \in CounterRecord
         /\ \A c \in Clerks : Brings(c) => clerk[c].row \in Rows

Applying(c) == clerk[c].at \in {"apply", "applyLookup"}
\* Somebody has written the row and not looked at it since.
Owing == \E c \in Clerks : clerk[c].at = "reload"
Ends(c) == clerk[c].at \in {"tearDown", "delete"}

\* Only the clerk that has the lock applies a row it has read.
UnderLock == \A c \in Clerks : Applying(c) => holder = c
\* The client was made from the address the registry remembers.
Remembered == snapshot.addr = running.addr
\* Unless a deletion was overlapped or a call failed, one clerk at most deletes,
\* all others wait, and the client is gone before the row.
DeletesAlone == \A c \in Clerks : Ends(c) =>
                   /\ \A d \in Clerks \ {c} : clerk[d] = AtDesk
                   /\ clerk[c].at = "delete" => snapshot = NoRow
\* What is about to be applied is the row, or somebody will look again.
FreshRow == \A c \in Clerks : Applying(c) => clerk[c].row.addr = table.addr \/ Owing
\* The registry knows the address in the row, or somebody is about to tell it.
InStep == \/ snapshot.addr = table.addr
          \/ Owing
          \/ \E c \in Clerks : Applying(c)
          \/ \E c \in Clerks : clerk[c].at = "delete"

RegistryInv == /\ Typed
               /\ UnderLock /\ Remembered
               /\ ~overlapped => DeletesAlone /\ FreshRow /\ InStep

-----------------------------------------------------------------------------
(* Records.  A step changes the entry of one clerk, by Goes. *)

\* What Goes does to the entries, and that it keeps their type.
LEMMA GoesEffect ==
    ASSUME NEW c \in Clerks, clerk \in [Clerks -> ClerkRecord],
           NEW at \in ClerkSet, NEW told \in SomeRows, Goes(c, at, told)
    PROVE  /\ clerk' \in [Clerks -> ClerkRecord]
           /\ clerk'[c].at = at /\ clerk'[c].row = told
           /\ \A d \in Clerks \ {c} : clerk'[d] = clerk[d]
BY DEF Goes, ClerkRecord

\* No row, and a clerk at rest.
LEMMA NoRowIsRow == NoRow \in SomeRows /\ AtDesk \in ClerkRecord /\ AtDesk.at = "idle"
BY DEF SomeRows, AtDesk, ClerkRecord, ClerkSet

\* What EXCEPT makes of the counters.
LEMMA PaperCounts ==
    ASSUME paper \in CounterRecord
    PROVE  /\ [paper EXCEPT !.requests = @ + 1] \in CounterRecord
           /\ [paper EXCEPT !.faults = @ + 1] \in CounterRecord
BY DEF CounterRecord

-----------------------------------------------------------------------------
(* The steps that leave the registry alone *)

\* A request comes in: it may look first, or go to the row.
LEMMA ConfigureKeeps ==
    ASSUME RegistryInv, NEW c \in Clerks, NEW told \in Rows, Configure(c, told)
    PROVE  RegistryInv'
<1>1. PICK at \in {"lookup", "patch"} : Goes(c, at, told)
  BY DEF Configure
<1>2. at \in ClerkSet /\ told \in SomeRows
  BY DEF ClerkSet, SomeRows
<1>3. /\ clerk' \in [Clerks -> ClerkRecord] /\ clerk'[c].at = at /\ clerk'[c].row = told
      /\ \A d \in Clerks \ {c} : clerk'[d] = clerk[d]
  BY <1>1, <1>2, GoesEffect DEF RegistryInv, Typed
<1>4. clerk[c].at = "idle"
  BY NoRowIsRow DEF Configure, Request
<1>5. Typed'
  BY <1>3, PaperCounts DEF RegistryInv, Typed, Brings, Configure, Request
<1>6. UnderLock' /\ Remembered'
  BY <1>3 DEF RegistryInv, UnderLock, Remembered, Applying, Configure
<1>7. ASSUME ~overlapped'
      PROVE  DeletesAlone' /\ FreshRow' /\ InStep'
  <2>1. ~overlapped /\ ~Deleting /\ UNCHANGED <<table, snapshot>>
    BY <1>7 DEF Configure
  <2>2. \A d \in Clerks : ~Ends(d)'
    BY <2>1, <1>3 DEF Deleting, Ends
  <2>3. Owing => Owing'
    BY <1>3, <1>4 DEF Owing
  <2>4. \A d \in Clerks : Applying(d)' = Applying(d) /\ (Applying(d) => clerk'[d] = clerk[d])
    BY <1>3, <1>4 DEF Applying
  <2>5. FreshRow'
    BY <2>1, <2>3, <2>4 DEF RegistryInv, FreshRow
  <2>6. InStep'
    BY <2>1, <2>3, <2>4, <1>3 DEF RegistryInv, InStep, Deleting
  <2>7. QED
    BY <2>2, <2>5, <2>6 DEF DeletesAlone
<1>8. QED
  BY <1>5, <1>6, <1>7 DEF RegistryInv

\* The same for a request that makes the row.
LEMMA CreateKeeps ==
    ASSUME RegistryInv, NEW c \in Clerks, NEW told \in Rows, Create(c, told)
    PROVE  RegistryInv'
<1>1. "insert" \in ClerkSet /\ told \in SomeRows
  BY DEF ClerkSet, SomeRows
<1>2. /\ clerk' \in [Clerks -> ClerkRecord] /\ clerk'[c].at = "insert" /\ clerk'[c].row = told
      /\ \A d \in Clerks \ {c} : clerk'[d] = clerk[d]
  BY <1>1, GoesEffect DEF RegistryInv, Typed, Create
<1>3. clerk[c].at = "idle"
  BY NoRowIsRow DEF Create, Request
<1>4. Typed'
  BY <1>2, PaperCounts DEF RegistryInv, Typed, Brings, Create, Request
<1>5. UnderLock' /\ Remembered'
  BY <1>2 DEF RegistryInv, UnderLock, Remembered, Applying, Create
<1>6. ASSUME ~overlapped'
      PROVE  DeletesAlone' /\ FreshRow' /\ InStep'
  <2>1. ~overlapped /\ ~Deleting /\ UNCHANGED <<table, snapshot>>
    BY <1>6 DEF Create
  <2>2. \A d \in Clerks : ~Ends(d)'
    BY <2>1, <1>2 DEF Deleting, Ends
  <2>3. Owing => Owing'
    BY <1>2, <1>3 DEF Owing
  <2>4. \A d \in Clerks : Applying(d)' = Applying(d) /\ (Applying(d) => clerk'[d] = clerk[d])
    BY <1>2, <1>3 DEF Applying
  <2>5. FreshRow'
    BY <2>1, <2>3, <2>4 DEF RegistryInv, FreshRow
  <2>6. InStep'
    BY <2>1, <2>3, <2>4, <1>2 DEF RegistryInv, InStep, Deleting
  <2>7. QED
    BY <2>2, <2>5, <2>6 DEF DeletesAlone
<1>7. QED
  BY <1>4, <1>5, <1>6 DEF RegistryInv

\* Whoever has written the row owes the registry a look at it.
LEMMA PatchKeeps ==
    ASSUME RegistryInv, NEW c \in Clerks, Patch(c)
    PROVE  RegistryInv'
<1>1. clerk[c].at = "patch" /\ clerk[c].row \in Rows /\ table \in SomeRows
  BY DEF Patch, RegistryInv, Typed, Brings
<1>2. PICK at \in {"reload", "idle"} :
        /\ Goes(c, at, NoRow)
        /\ at = "idle" => overlapped'
        /\ overlapped => overlapped'
  BY DEF Patch, DbFails
<1>3. /\ clerk' \in [Clerks -> ClerkRecord] /\ clerk'[c].at = at
      /\ \A d \in Clerks \ {c} : clerk'[d] = clerk[d]
  BY <1>2, NoRowIsRow, GoesEffect DEF RegistryInv, Typed, ClerkSet
<1>4. table' \in SomeRows
  <2>1. CASE table = NoRow
    BY <2>1, <1>1 DEF Patch, SomeRows
  <2>2. CASE table \in Rows
    <3>1. /\ [clerk[c].row EXCEPT !.port = table.port] \in Rows
          /\ [clerk[c].row EXCEPT !.addr = table.addr] \in Rows
      BY <2>2, <1>1 DEF Rows
    <3>2. QED
      BY <3>1, <1>1 DEF Patch, SomeRows
  <2>3. QED
    BY <2>1, <2>2, <1>1 DEF SomeRows
<1>5. Typed'
  BY <1>3, <1>4, PaperCounts DEF RegistryInv, Typed, Brings, Patch, DbFails
<1>6. UnderLock' /\ Remembered'
  BY <1>3 DEF RegistryInv, UnderLock, Remembered, Applying, Patch
<1>7. ASSUME ~overlapped'
      PROVE  DeletesAlone' /\ FreshRow' /\ InStep'
  <2>1. ~overlapped /\ clerk'[c].at = "reload" /\ snapshot' = snapshot
    BY <1>2, <1>3, <1>7 DEF Patch
  <2>2. Owing'
    BY <2>1 DEF Owing
  <2>3. \A d \in Clerks : ~Ends(d)
    BY <2>1, <1>1, NoRowIsRow DEF RegistryInv, DeletesAlone, Ends
  <2>4. \A d \in Clerks : ~Ends(d)'
    BY <2>1, <2>3, <1>3 DEF Ends
  <2>5. QED
    BY <2>2, <2>4 DEF DeletesAlone, FreshRow, InStep
<1>8. QED
  BY <1>5, <1>6, <1>7 DEF RegistryInv

\* A row that is there already is left as it is.
LEMMA InsertKeeps ==
    ASSUME RegistryInv, NEW c \in Clerks, Insert(c)
    PROVE  RegistryInv'
<1>1. clerk[c].at = "insert" /\ clerk[c].row \in SomeRows /\ table \in SomeRows
  BY DEF Insert, RegistryInv, Typed, ClerkRecord
<1>2. PICK at \in {"reload", "idle"} :
        /\ Goes(c, at, NoRow)
        /\ at = "idle" => UNCHANGED table
  BY DEF Insert
<1>3. /\ clerk' \in [Clerks -> ClerkRecord] /\ clerk'[c].at = at
      /\ \A d \in Clerks \ {c} : clerk'[d] = clerk[d]
  BY <1>2, NoRowIsRow, GoesEffect DEF RegistryInv, Typed, ClerkSet
<1>4. table' \in SomeRows
  BY <1>1 DEF Insert
<1>5. Typed'
  BY <1>3, <1>4 DEF RegistryInv, Typed, Brings, Insert
<1>6. UnderLock' /\ Remembered'
  BY <1>3 DEF RegistryInv, UnderLock, Remembered, Applying, Insert
<1>7. ASSUME ~overlapped'
      PROVE  DeletesAlone' /\ FreshRow' /\ InStep'
  <2>1. ~overlapped /\ snapshot' = snapshot
    BY <1>7 DEF Insert
  <2>2. \A d \in Clerks : ~Ends(d)
    BY <2>1, <1>1, NoRowIsRow DEF RegistryInv, DeletesAlone, Ends
  <2>3. \A d \in Clerks : ~Ends(d)'
    BY <2>2, <1>3 DEF Ends
  <2>4. CASE at = "reload"
    <3>1. Owing'
      BY <2>4, <1>3 DEF Owing
    <3>2. QED
      BY <3>1, <2>3 DEF DeletesAlone, FreshRow, InStep
  <2>5. CASE at = "idle"
    <3>1. UNCHANGED table
      BY <2>5, <1>2
    <3>2. Owing => Owing'
      BY <1>1, <1>3 DEF Owing
    <3>3. \A d \in Clerks : Applying(d)' = Applying(d) /\ (Applying(d) => clerk'[d] = clerk[d])
      BY <1>1, <1>3, <2>5 DEF Applying
    <3>4. FreshRow'
      BY <2>1, <3>1, <3>2, <3>3 DEF RegistryInv, FreshRow
    <3>5. InStep'
      BY <2>1, <2>2, <3>1, <3>2, <3>3 DEF RegistryInv, InStep, Ends
    <3>6. QED
      BY <2>3, <3>4, <3>5 DEF DeletesAlone
  <2>6. QED
    BY <2>4, <2>5
<1>8. QED
  BY <1>5, <1>6, <1>7 DEF RegistryInv

-----------------------------------------------------------------------------
(* The steps under the lock *)

\* The lock comes before the row: what is read is the row as it stands.
LEMMA FetchKeeps ==
    ASSUME RegistryInv, NEW c \in Clerks, Fetch(c)
    PROVE  RegistryInv'
<1>1. clerk[c].at \in {"reload", "lookup"} /\ holder = Nobody /\ holder' = c /\ table \in SomeRows
  BY DEF Fetch, RegistryInv, Typed
<1>2. PICK read \in {table, NoRow}, at \in {"apply", "applyLookup"} :
        /\ clerk' = [clerk EXCEPT ![c] = [at |-> at, row |-> read]]
        /\ ~overlapped' => read = table
        /\ overlapped => overlapped'
        /\ paper' \in {paper, [paper EXCEPT !.faults = @ + 1]}
  <2>1. PICK read \in {table, NoRow} :
         /\ IF read = table THEN UNCHANGED <<overlapped, paper>> ELSE DbFails
         /\ clerk' = [clerk EXCEPT ![c] =
                        IF @.at = "reload" THEN [at |-> "apply", row |-> read]
                        ELSE IF read = NoRow THEN [at |-> "apply", row |-> read]
                        ELSE [at |-> "applyLookup", row |-> read]]
    BY DEF Fetch
  <2>2. \/ clerk' = [clerk EXCEPT ![c] = [at |-> "apply", row |-> read]]
        \/ clerk' = [clerk EXCEPT ![c] = [at |-> "applyLookup", row |-> read]]
    BY <2>1 DEF RegistryInv, Typed
  <2>3. QED
    BY <2>1, <2>2 DEF DbFails
<1>3. /\ clerk' \in [Clerks -> ClerkRecord] /\ clerk'[c].at = at /\ clerk'[c].row = read
      /\ \A d \in Clerks \ {c} : clerk'[d] = clerk[d]
  BY <1>1, <1>2, NoRowIsRow, GoesEffect DEF RegistryInv, Typed, ClerkSet, Goes
<1>4. \A d \in Clerks : ~Applying(d)
  BY <1>1, RegistryAssumption DEF RegistryInv, UnderLock, Nobody
<1>5. Typed'
  BY <1>2, <1>3, <1>1, PaperCounts DEF RegistryInv, Typed, Brings, Fetch, DbFails
<1>6. UnderLock' /\ Remembered'
  BY <1>1, <1>3, <1>4 DEF RegistryInv, UnderLock, Remembered, Applying, Fetch
<1>7. ASSUME ~overlapped'
      PROVE  DeletesAlone' /\ FreshRow' /\ InStep'
  <2>1. ~overlapped /\ read = table /\ UNCHANGED <<table, snapshot>>
    BY <1>2, <1>7 DEF Fetch
  <2>2. \A d \in Clerks : ~Ends(d)
    BY <2>1, <1>1, NoRowIsRow DEF RegistryInv, DeletesAlone, Ends
  <2>3. \A d \in Clerks : ~Ends(d)'
    BY <2>2, <1>3 DEF Ends
  <2>4. \A d \in Clerks : Applying(d)' => d = c
    BY <1>3, <1>4 DEF Applying
  <2>5. Applying(c)'
    BY <1>3 DEF Applying
  <2>6. QED
    BY <2>1, <2>3, <2>4, <2>5, <1>3 DEF DeletesAlone, FreshRow, InStep
<1>8. QED
  BY <1>5, <1>6, <1>7 DEF RegistryInv

\* What is applied is the row, or another clerk will look again.
LEMMA ApplyKeeps ==
    ASSUME RegistryInv, NEW c \in Clerks, Apply(c)
    PROVE  RegistryInv'
<1>1. Applying(c) /\ clerk[c].row \in SomeRows /\ holder = c
  BY DEF Apply, Applying, RegistryInv, Typed, ClerkRecord, UnderLock
<1>2. PICK at \in {"patch", "idle"}, told \in SomeRows :
        Goes(c, at, told) /\ (at = "patch" => told \in Rows)
  BY NoRowIsRow DEF Apply, SomeRows
<1>3. /\ clerk' \in [Clerks -> ClerkRecord] /\ clerk'[c].at = at /\ clerk'[c].row = told
      /\ \A d \in Clerks \ {c} : clerk'[d] = clerk[d]
  BY <1>2, GoesEffect DEF RegistryInv, Typed, ClerkSet
<1>4. \A d \in Clerks \ {c} : ~Applying(d)
  BY <1>1 DEF RegistryInv, UnderLock
<1>5. \A d \in Clerks : ~Applying(d)'
  BY <1>3, <1>4 DEF Applying
<1>6. running' \in SomeRows /\ snapshot' \in SomeRows /\ snapshot' = clerk[c].row
  BY <1>1 DEF Apply, RegistryInv, Typed
<1>7. Typed'
  BY <1>2, <1>3, <1>6 DEF RegistryInv, Typed, Brings, Apply
<1>8. Remembered'
  BY DEF RegistryInv, Remembered, Apply, WireChanged
<1>9. ASSUME ~overlapped'
      PROVE  DeletesAlone' /\ FreshRow' /\ InStep'
  <2>1. ~overlapped /\ UNCHANGED table
    BY <1>9 DEF Apply
  <2>2. \A d \in Clerks : ~Ends(d)
    BY <2>1, <1>1, NoRowIsRow DEF RegistryInv, DeletesAlone, Ends, Applying
  <2>3. \A d \in Clerks : ~Ends(d)'
    BY <2>2, <1>3 DEF Ends
  <2>4. Owing => Owing'
    BY <1>1, <1>3 DEF Owing, Applying
  <2>5. snapshot'.addr = table'.addr \/ Owing'
    BY <2>1, <2>4, <1>1, <1>6 DEF RegistryInv, FreshRow
  <2>6. QED
    BY <2>3, <2>5, <1>5 DEF DeletesAlone, FreshRow, InStep
<1>10. QED
  BY <1>5, <1>7, <1>8, <1>9 DEF RegistryInv, UnderLock

-----------------------------------------------------------------------------
(* Deletions and restarts *)

\* A deletion that finds another request under way counts as overlapped.
LEMMA DeleteKeeps ==
    ASSUME RegistryInv, NEW c \in Clerks, Delete(c)
    PROVE  RegistryInv'
<1>1. clerk[c] = AtDesk /\ UNCHANGED <<table, snapshot, running, holder>>
  BY DEF Delete, Request
<1>2. /\ clerk' \in [Clerks -> ClerkRecord] /\ clerk'[c].at = "tearDown"
      /\ \A d \in Clerks \ {c} : clerk'[d] = clerk[d]
  BY NoRowIsRow, GoesEffect DEF RegistryInv, Typed, ClerkSet, Delete
<1>3. Typed'
  BY <1>2, PaperCounts DEF RegistryInv, Typed, Brings, Delete, Request
<1>4. UnderLock' /\ Remembered'
  BY <1>1, <1>2 DEF RegistryInv, UnderLock, Remembered, Applying
<1>5. ASSUME ~overlapped'
      PROVE  DeletesAlone' /\ FreshRow' /\ InStep'
  <2>1. ~overlapped /\ Alone(c)
    BY <1>5 DEF Delete
  <2>2. \A d \in Clerks : clerk[d] = AtDesk
    BY <2>1, <1>1 DEF Alone
  <2>3. \A d \in Clerks \ {c} : clerk'[d] = AtDesk
    BY <2>2, <1>2
  <2>4. \A d \in Clerks : ~Applying(d)' /\ (Ends(d)' => d = c)
    BY <2>3, <1>2, NoRowIsRow DEF Applying, Ends
  <2>5. snapshot.addr = table.addr
    BY <2>1, <2>2, NoRowIsRow DEF RegistryInv, InStep, Owing, Applying
  <2>6. QED
    BY <2>3, <2>4, <2>5, <1>1, <1>2 DEF DeletesAlone, FreshRow, InStep
<1>6. QED
  BY <1>3, <1>4, <1>5 DEF RegistryInv

\* The client goes under the lock, and everybody else waits.
LEMMA TearDownKeeps ==
    ASSUME RegistryInv, NEW c \in Clerks, TearDown(c)
    PROVE  RegistryInv'
<1>1. /\ clerk[c].at = "tearDown" /\ holder = Nobody /\ UNCHANGED <<table, holder, overlapped, paper>>
      /\ running' = NoRow /\ snapshot' = NoRow
  BY DEF TearDown
<1>2. /\ clerk' \in [Clerks -> ClerkRecord] /\ clerk'[c].at = "delete"
      /\ \A d \in Clerks \ {c} : clerk'[d] = clerk[d]
  BY NoRowIsRow, GoesEffect DEF RegistryInv, Typed, ClerkSet, TearDown
<1>3. Typed'
  BY <1>1, <1>2, NoRowIsRow DEF RegistryInv, Typed, Brings
<1>4. UnderLock' /\ Remembered'
  BY <1>1, <1>2 DEF RegistryInv, UnderLock, Remembered, Applying
<1>5. ASSUME ~overlapped'
      PROVE  DeletesAlone' /\ FreshRow' /\ InStep'
  <2>1. \A d \in Clerks \ {c} : clerk[d] = AtDesk
    BY <1>1, <1>5 DEF RegistryInv, DeletesAlone, Ends
  <2>2. \A d \in Clerks \ {c} : clerk'[d] = AtDesk
    BY <2>1, <1>2
  <2>3. \A d \in Clerks : ~Applying(d)' /\ (Ends(d)' => d = c)
    BY <2>2, <1>2, NoRowIsRow DEF Applying, Ends
  <2>4. QED
    BY <2>2, <2>3, <1>1, <1>2 DEF DeletesAlone, FreshRow, InStep
<1>6. QED
  BY <1>3, <1>4, <1>5 DEF RegistryInv

\* The row goes last; a row that cannot be deleted is a call that failed.
LEMMA DeleteRowKeeps ==
    ASSUME RegistryInv, NEW c \in Clerks, DeleteRow(c)
    PROVE  RegistryInv'
<1>1. /\ clerk[c].at = "delete" /\ UNCHANGED <<snapshot, running, holder>>
      /\ table' \in {table, NoRow} /\ (~overlapped' => table' = NoRow /\ ~overlapped)
  BY DEF DeleteRow, DbFails
<1>2. /\ clerk' \in [Clerks -> ClerkRecord] /\ clerk'[c].at = "idle"
      /\ \A d \in Clerks \ {c} : clerk'[d] = clerk[d]
  BY NoRowIsRow, GoesEffect DEF RegistryInv, Typed, ClerkSet, DeleteRow
<1>3. Typed'
  BY <1>1, <1>2, NoRowIsRow, PaperCounts DEF RegistryInv, Typed, Brings, DeleteRow, DbFails
<1>4. UnderLock' /\ Remembered'
  BY <1>1, <1>2 DEF RegistryInv, UnderLock, Remembered, Applying
<1>5. ASSUME ~overlapped'
      PROVE  DeletesAlone' /\ FreshRow' /\ InStep'
  <2>1. snapshot = NoRow /\ \A d \in Clerks \ {c} : clerk[d] = AtDesk
    BY <1>1, <1>5 DEF RegistryInv, DeletesAlone, Ends
  <2>2. \A d \in Clerks : clerk'[d].at = "idle"
    BY <2>1, <1>2, NoRowIsRow
  <2>3. snapshot' = NoRow /\ table' = NoRow
    BY <2>1, <1>1, <1>5
  <2>4. QED
    BY <2>2, <2>3 DEF DeletesAlone, FreshRow, InStep, Applying, Ends
<1>6. QED
  BY <1>3, <1>4, <1>5 DEF RegistryInv

\* A restart ends all requests and makes the client from the row.
LEMMA StartAllKeeps ==
    ASSUME RegistryInv, StartAll
    PROVE  RegistryInv'
<1>1. \A c \in Clerks : clerk'[c] = AtDesk
  BY DEF StartAll
<1>2. Typed'
  BY <1>1, NoRowIsRow, PaperCounts DEF RegistryInv, Typed, Brings, StartAll
<1>3. UnderLock' /\ Remembered'
  BY <1>1, NoRowIsRow DEF UnderLock, Remembered, Applying, StartAll
<1>4. ~overlapped' => snapshot'.addr = table'.addr
  BY DEF StartAll
<1>5. QED
  BY <1>1, <1>2, <1>3, <1>4, NoRowIsRow DEF RegistryInv, DeletesAlone, FreshRow, InStep, Applying,
     Ends

-----------------------------------------------------------------------------
(* The theorems *)

\* The registry begins with the client that its row asks for.
LEMMA RegistryInvInit == RegistryInit => RegistryInv
<1> SUFFICES ASSUME RegistryInit PROVE RegistryInv
  OBVIOUS
<1>1. \A c \in Clerks : clerk[c].at = "idle"
  BY NoRowIsRow DEF RegistryInit
<1>2. Typed
  BY <1>1, NoRowIsRow DEF RegistryInit, Typed, Brings, SomeRows, CounterRecord
<1>3. UnderLock /\ Remembered /\ DeletesAlone /\ FreshRow /\ InStep
  BY <1>1 DEF RegistryInit, UnderLock, Remembered, DeletesAlone, FreshRow, InStep, Applying, Ends
<1>4. QED
  BY <1>2, <1>3 DEF RegistryInv

\* Every step keeps the invariant.
LEMMA RegistryInvStep == RegistryInv /\ [RegistryNext]_registryVars => RegistryInv'
<1> SUFFICES ASSUME RegistryInv, [RegistryNext]_registryVars PROVE RegistryInv'
  OBVIOUS
<1>1. CASE StartAll
  BY <1>1, StartAllKeeps
<1>2. ASSUME NEW c \in Clerks, ClerkSteps(c) PROVE RegistryInv'
  BY <1>2, PatchKeeps, InsertKeeps, FetchKeeps, ApplyKeeps, TearDownKeeps, DeleteRowKeeps,
     DeleteKeeps, ConfigureKeeps, CreateKeeps DEF ClerkSteps
<1>3. CASE UNCHANGED registryVars
  BY <1>3 DEF registryVars, RegistryInv, Typed, Brings, UnderLock, Remembered, DeletesAlone,
     FreshRow,
     InStep, Applying, Owing, Ends
<1>4. QED
  BY <1>1, <1>2, <1>3 DEF RegistryNext

\* Type correctness of the registry, the row and the requests
\* (services/samsung_tv_registry.py, apps/samsung_tv/instance_router.py).
THEOREM RegistryTyped == RegistrySpec => []RegistryTypeOK
<1>1. RegistryInv => RegistryTypeOK
  BY DEF RegistryInv, Typed, RegistryTypeOK, SomeRows, ClerkRecord, ClerkSet
<1>2. QED
  BY <1>1, RegistryInvInit, RegistryInvStep, PTL DEF RegistrySpec

\* However many requests patch, create, look up and reload at the same time, the
\* client has the address of the row once they are done: reload_instance reads
\* the row under the lock, and every writer reloads after it has written
\* (samsung_tv_registry.py:413-469, instance_router.py:304-448).
THEOREM ClientIsInStep == RegistrySpec => []ClientFollowsRow
<1>1. RegistryInv => ClientFollowsRow
  <2> SUFFICES ASSUME RegistryInv, \A c \in Clerks : clerk[c] = AtDesk, ~overlapped
               PROVE  running.addr = table.addr
    BY DEF ClientFollowsRow
  <2>1. \A c \in Clerks : clerk[c].at = "idle"
    BY NoRowIsRow
  <2>2. snapshot.addr = table.addr
    BY <2>1 DEF RegistryInv, InStep, Owing, Applying
  <2>3. QED
    BY <2>2 DEF RegistryInv, Remembered
<1>2. QED
  BY <1>1, RegistryInvInit, RegistryInvStep, PTL DEF RegistrySpec

-----------------------------------------------------------------------------
(***************************************************************************)
(* The windows of the screen time planner, for any number of days in a     *)
(* week and of times in a day, and any windows.                            *)
(*                                                                         *)
(* A time is a product and a rest, and the distance to the beginning of a  *)
(* window a remainder: once it is known that the distance is less than the *)
(* length of a window only on the same day or the next (SinceEffect), what *)
(* the days contain and what the user means are compared day by day.       *)
(***************************************************************************)

\* Products, for the provers: days are multiples of their length.
LEMMA DayLengths ==
    ASSUME NEW S \in Nat \ {0}, NEW k \in Int
    PROVE  /\ k * S \in Int
           /\ k >= 1 => k * S >= S
           /\ k >= 2 => k * S >= 2 * S
           /\ k <= -1 => k * S <= -S
           /\ k = 0 => k * S = 0
           /\ k = 1 => k * S = S
<1>1. k * S \in Int
  OBVIOUS
<1>2. ASSUME k >= 1 PROVE k * S >= S
  <2>1. (k - 1) * S >= 0
    BY <1>2
  <2>2. (k - 1) * S = k * S - S
    OBVIOUS
  <2>3. QED
    BY <1>1, <2>1, <2>2
<1>3. ASSUME k >= 2 PROVE k * S >= 2 * S
  <2>1. (k - 2) * S >= 0
    BY <1>3
  <2>2. (k - 2) * S = k * S - 2 * S
    OBVIOUS
  <2>3. QED
    BY <1>1, <2>1, <2>2
<1>4. ASSUME k <= -1 PROVE k * S <= -S
  <2>1. (-1 - k) * S >= 0
    BY <1>4
  <2>2. (-1 - k) * S = -S - k * S
    OBVIOUS
  <2>3. QED
    BY <1>1, <2>1, <2>2
<1>5. QED
  BY <1>1, <1>2, <1>3, <1>4

\* A remainder, one period away at most.
LEMMA Remainders ==
    ASSUME NEW n \in Nat \ {0}, NEW x \in Int
    PROVE  /\ 0 <= x /\ x < n => x % n = x
           /\ -n <= x /\ x < 0 => x % n = x + n
  OBVIOUS

\* A time of the week is a time of a day.
LEMMA TimesOfDays ==
    ASSUME NEW t \in Times
    PROVE  /\ DayOf(t) \in Days /\ SlotOf(t) \in 0..(Slots - 1)
           /\ t = DayOf(t) * Slots + SlotOf(t)
<1>1. NumDays \in Nat \ {0} /\ Slots \in Nat \ {0} /\ t \in Nat /\ t < NumDays * Slots
  BY ScreenAssumption DEF Times
<1> DEFINE D == t \div Slots
           s == t % Slots
<1>2. D \in Int /\ s \in 0..(Slots - 1) /\ t = D * Slots + s
  BY <1>1
<1> HIDE DEF D, s
<1>3. D >= 0
  BY <1>1, <1>2, DayLengths
<1>4. (D - NumDays) * Slots < 0
  BY <1>1, <1>2
<1>5. D < NumDays
  BY <1>1, <1>2, <1>4, DayLengths
<1>6. QED
  BY <1>1, <1>2, <1>3, <1>5 DEF DayOf, SlotOf, Days, D, s

\* A day and a time of it are a time of the week.
LEMMA DayAndSlot ==
    ASSUME NEW D \in Days, NEW s \in 0..(Slots - 1)
    PROVE  D * Slots + s \in Times /\ DayOf(D * Slots + s) = D /\ SlotOf(D * Slots + s) = s
<1>1. NumDays \in Nat \ {0} /\ Slots \in Nat \ {0} /\ D \in Nat /\ D <= NumDays - 1
  BY ScreenAssumption DEF Days
<1>2. PICK t : t = D * Slots + s
  OBVIOUS
<1>3. t \in Nat
  BY <1>1, <1>2, DayLengths
<1>4. (NumDays - D) * Slots >= Slots /\ (NumDays - D) * Slots = NumDays * Slots - D * Slots
  BY <1>1, DayLengths
<1>5. t \in Times
  BY <1>1, <1>2, <1>3, <1>4 DEF Times
<1>6. /\ DayOf(t) \in Days /\ SlotOf(t) \in 0..(Slots - 1)
      /\ t = DayOf(t) * Slots + SlotOf(t)
  BY <1>5, TimesOfDays
<1>7. PICK k \in Int : k = DayOf(t) - D
  BY <1>1, <1>6 DEF Days
<1>8. k * Slots = s - SlotOf(t)
  <2>1. DayOf(t) \in Int /\ k * Slots = DayOf(t) * Slots - D * Slots
    BY <1>1, <1>6, <1>7 DEF Days
  <2>2. QED
    BY <1>1, <1>2, <1>6, <2>1
<1>9. k = 0
  BY <1>1, <1>6, <1>8, DayLengths
<1>10. QED
  BY <1>1, <1>2, <1>5, <1>6, <1>7, <1>8, <1>9 DEF Days

\* The days go round.
LEMMA DaysGoRound ==
    ASSUME NEW d \in Days
    PROVE  /\ NextDay(d) \in Days
           /\ d + 1 < NumDays => NextDay(d) = d + 1
           /\ d + 1 = NumDays => NextDay(d) = 0
<1>1. NumDays \in Nat \ {0} /\ d \in Nat /\ d + 1 <= NumDays
  BY ScreenAssumption DEF Days
<1>2. d + 1 < NumDays => NextDay(d) = d + 1
  BY <1>1, Remainders DEF NextDay
<1>3. d + 1 = NumDays => NextDay(d) = 0
  BY <1>1 DEF NextDay
<1>4. QED
  BY <1>1, <1>2, <1>3 DEF Days

\* A slot later it is the next slot of the day, or the next day.
LEMMA LaterEffect ==
    ASSUME NEW D \in Days, NEW s \in 0..(Slots - 1), now = D * Slots + s
    PROVE  /\ s + 1 < Slots => Later = D * Slots + (s + 1)
           /\ s + 1 = Slots => Later = NextDay(D) * Slots
           /\ Later \in Times
<1>1. NumDays \in Nat \ {0} /\ Slots \in Nat \ {0} /\ D \in Nat /\ D + 1 <= NumDays
  BY ScreenAssumption DEF Days
<1>2. PICK n : n = NumDays * Slots
  OBVIOUS
<1>3. n \in Nat \ {0}
  <2>1. NumDays * Slots >= Slots
    BY <1>1, DayLengths
  <2>2. QED
    BY <1>1, <1>2, <2>1
<1>4. Later = (D * Slots + s + 1) % n
  BY <1>2 DEF Later
<1>5. ASSUME s + 1 < Slots PROVE Later = D * Slots + (s + 1) /\ Later \in Times
  <2>1. D * Slots + (s + 1) \in 0..(n - 1)
    BY <1>1, <1>2, <1>5, DayAndSlot DEF Times
  <2>2. D * Slots \in Int /\ D * Slots + s + 1 = D * Slots + (s + 1)
    BY <1>1, DayLengths
  <2>3. Later = D * Slots + (s + 1)
    BY <1>3, <1>4, <2>1, <2>2, Remainders
  <2>4. QED
    BY <1>2, <2>1, <2>3 DEF Times
<1>6. ASSUME s + 1 = Slots PROVE Later = NextDay(D) * Slots /\ Later \in Times
  <2>1. D * Slots \in Int /\ (D + 1) * Slots = D * Slots + Slots
    BY <1>1, DayLengths
  <2>2. D * Slots + s + 1 = (D + 1) * Slots
    BY <1>6, <2>1
  <2>3. CASE D + 1 < NumDays
    <3>1. NextDay(D) = D + 1 /\ D + 1 \in Days /\ 0 \in 0..(Slots - 1)
      BY <1>1, <2>3, DaysGoRound DEF Days
    <3>2. (D + 1) * Slots + 0 \in Times
      BY <3>1, DayAndSlot
    <3>3. (D + 1) * Slots \in 0..(n - 1)
      BY <1>1, <1>2, <2>1, <3>2 DEF Times
    <3>4. Later = (D + 1) * Slots
      BY <1>3, <1>4, <2>2, <3>3, Remainders
    <3>5. QED
      BY <1>2, <3>1, <3>3, <3>4 DEF Times
  <2>4. CASE D + 1 = NumDays
    <3>1. NextDay(D) = 0
      BY <2>4, DaysGoRound
    <3>2. Later = n % n
      BY <1>2, <1>4, <2>2, <2>4
    <3>3. n % n = 0 /\ 0 * Slots = 0
      BY <1>1, <1>3
    <3>4. QED
      BY <1>2, <1>3, <3>1, <3>2, <3>3 DEF Times
  <2>5. QED
    BY <1>1, <2>3, <2>4
<1>7. QED
  BY <1>1, <1>5, <1>6

-----------------------------------------------------------------------------
\* How long a window is, as Means has it.
Length(w) == IF w.start < EndOf(w) THEN EndOf(w) - w.start
             ELSE IF w.start > EndOf(w) THEN EndOf(w) + Slots - w.start ELSE 0

\* No window is longer than a day.
LEMMA WindowEnds ==
    ASSUME NEW w \in Windows
    PROVE  /\ EndOf(w) \in 1..Slots /\ Length(w) \in 0..Slots
           /\ w.start > EndOf(w) => EndOf(w) = w.end /\ w.end < Slots
  BY ScreenAssumption DEF Windows, EndOf, Length

\* Time s of day D is less than l after time b of day d only if it is the same day,
\* or the next.
LEMMA SinceEffect ==
    ASSUME NEW D \in Days, NEW s \in 0..(Slots - 1), NEW d \in Days, NEW b \in 0..(Slots - 1),
           NEW l \in 0..Slots
    PROVE  ((D * Slots + s - d * Slots - b) % (NumDays * Slots) < l)
             <=> \/ D = d /\ b <= s /\ s - b < l
                 \/ D = NextDay(d) /\ Slots + s - b < l
<1>1. /\ NumDays \in Nat \ {0} /\ Slots \in Nat \ {0}
      /\ D \in Nat /\ D + 1 <= NumDays /\ d \in Nat /\ d + 1 <= NumDays
  BY ScreenAssumption DEF Days
<1>2. PICK n : n = NumDays * Slots
  OBVIOUS
<1>3. n \in Nat \ {0} /\ n >= Slots
  <2>1. NumDays * Slots >= Slots
    BY <1>1, DayLengths
  <2>2. QED
    BY <1>1, <1>2, <2>1
<1>4. PICK k \in Int : k = D - d
  BY <1>1
<1>5. PICK u : u = D * Slots + s - d * Slots - b
  OBVIOUS
<1>6. u = k * Slots + (s - b) /\ u \in Int /\ k * Slots \in Int
  <2>1. k * Slots = D * Slots - d * Slots /\ D * Slots \in Int /\ d * Slots \in Int
    BY <1>1, <1>4, DayLengths
  <2>2. QED
    BY <1>1, <1>5, <2>1
<1>7. (k + NumDays) * Slots = k * Slots + n /\ k + NumDays >= 1 /\ k + NumDays \in Int
  BY <1>1, <1>2, <1>4
<1>8. u < n
  <2>1. (NumDays - k) * Slots = n - k * Slots /\ NumDays - k >= 1
    BY <1>1, <1>2, <1>4
  <2>2. (NumDays - k) * Slots >= Slots
    BY <1>1, <1>4, <2>1, DayLengths
  <2>3. QED
    BY <1>1, <1>3, <1>6, <2>1, <2>2
<1>9. -n <= u
  <2>1. (k + NumDays) * Slots >= Slots
    BY <1>1, <1>7, DayLengths
  <2>2. QED
    BY <1>1, <1>3, <1>6, <1>7, <2>1
<1>10. CASE u >= 0
  <2>1. u % n = u /\ k >= 0
    <3>1. u % n = u
      BY <1>3, <1>6, <1>8, <1>10, Remainders
    <3>2. k >= 0
      BY <1>1, <1>6, <1>10, DayLengths
    <3>3. QED
      BY <3>1, <3>2
  <2>2. CASE k = 0
    <3>1. D = d /\ u = s - b
      BY <1>1, <1>4, <1>6, <2>2
    <3>2. QED
      BY <1>1, <1>2, <1>5, <1>10, <2>1, <3>1
  <2>3. CASE k = 1
    <3>1. D = NextDay(d) /\ D # d /\ u = Slots + s - b
      BY <1>1, <1>4, <1>6, <2>3, DaysGoRound, DayLengths
    <3>2. QED
      BY <1>1, <1>2, <1>5, <2>1, <3>1
  <2>4. CASE k >= 2
    <3>1. u >= Slots + 1
      BY <1>1, <1>6, <2>4, DayLengths
    <3>2. D # d /\ D # NextDay(d)
      BY <1>1, <1>4, <2>4, DaysGoRound
    <3>3. QED
      BY <1>1, <1>2, <1>5, <1>6, <2>1, <3>1, <3>2
  <2>5. QED
    BY <2>1, <2>2, <2>3, <2>4
<1>11. CASE u < 0
  <2>1. u % n = u + n
    BY <1>3, <1>6, <1>9, <1>11, Remainders
  <2>2. u + n = (k + NumDays) * Slots + (s - b)
    BY <1>1, <1>3, <1>6, <1>7
  <2>3. k <= 0 /\ (k = 0 => s < b)
    BY <1>1, <1>6, <1>11, DayLengths
  <2>4. CASE k + NumDays = 1
    <3>1. D = 0 /\ d + 1 = NumDays /\ D = NextDay(d) /\ u + n = Slots + s - b
      BY <1>1, <1>4, <2>2, <2>4, DaysGoRound, DayLengths
    <3>2. D = d => s < b
      BY <1>1, <1>4, <2>3
    <3>3. QED
      BY <1>1, <1>2, <1>5, <2>1, <3>1, <3>2
  <2>5. CASE k + NumDays >= 2
    <3>1. u + n >= Slots + 1
      BY <1>1, <1>7, <2>2, <2>5, DayLengths
    <3>2. D = d => s < b
      BY <1>1, <1>4, <2>3
    <3>3. D # NextDay(d)
      <4>1. D <= d /\ D + NumDays >= d + 2
        BY <1>1, <1>4, <2>3, <2>5
      <4>2. QED
        BY <1>1, <4>1, DaysGoRound
    <3>4. QED
      BY <1>1, <1>2, <1>3, <1>5, <1>6, <2>1, <3>1, <3>2, <3>3
  <2>6. QED
    BY <1>7, <2>4, <2>5
<1>12. QED
  BY <1>6, <1>10, <1>11

-----------------------------------------------------------------------------
\* What the user wrote for a day are windows, and so is what is made of them.
LEMMA RawAreWindows ==
    ASSUME NEW week \in Weeklies, NEW d \in Days
    PROVE  RawWindows(week, d) \subseteq Windows
  BY ScreenAssumption DEF RawWindows, Windows, Days

\* The three ways to become a window of a day.
LEMMA EffectiveKinds ==
    ASSUME NEW week \in Weeklies, NEW D \in Days, NEW v
    PROVE  v \in EffectiveWindows(week, D)
             <=> \/ \E w \in RawWindows(week, D) : w.start < EndOf(w) /\ v = [start |-> w.start, end |-> EndOf(w)]
                 \/ \E w \in RawWindows(week, D) : w.start > EndOf(w) /\ v = [start |-> w.start, end |-> Slots]
                 \/ \E d \in Days : NextDay(d) = D /\
                      \E w \in RawWindows(week, d) : w.start > EndOf(w) /\ v = [start |-> 0, end |-> w.end]
  BY DEF EffectiveWindows

LEMMA EffectiveAreWindows ==
    ASSUME NEW week \in Weeklies, NEW D \in Days, NEW v \in EffectiveWindows(week, D)
    PROVE  v.start \in 0..(Slots - 1) /\ v.end \in 0..Slots
<1>1. Slots \in Nat \ {0}
  BY ScreenAssumption
<1>2. \A d \in Days : \A w \in RawWindows(week, d) : /\ w.start \in 0..(Slots - 1) /\ w.end \in 0..Slots
                                                   /\ EndOf(w) \in 1..Slots
  BY RawAreWindows, WindowEnds DEF Windows
<1>3. QED
  BY <1>1, <1>2, EffectiveKinds

\* A time of a day lies in one of its windows just if it is less than the length
\* of a window after its beginning.
LEMMA ContainMeans ==
    ASSUME NEW week \in Weeklies, NEW D \in Days, NEW s \in 0..(Slots - 1)
    PROVE  (\E v \in EffectiveWindows(week, D) : v.start <= s /\ s < v.end)
             <=> \E d \in Days : \E w \in RawWindows(week, d) :
                    \/ D = d /\ w.start <= s /\ s - w.start < Length(w)
                    \/ D = NextDay(d) /\ Slots + s - w.start < Length(w)
<1>1. Slots \in Nat \ {0}
  BY ScreenAssumption
<1>2. \A d \in Days : \A w \in RawWindows(week, d) :
        /\ w.start \in 0..(Slots - 1) /\ w.end \in 0..Slots /\ EndOf(w) \in 1..Slots
        /\ w.start > EndOf(w) => EndOf(w) = w.end /\ w.end < Slots
  BY RawAreWindows, WindowEnds DEF Windows
<1>3. ASSUME NEW v \in EffectiveWindows(week, D), v.start <= s, s < v.end
      PROVE  \E d \in Days : \E w \in RawWindows(week, d) :
                    \/ D = d /\ w.start <= s /\ s - w.start < Length(w)
                    \/ D = NextDay(d) /\ Slots + s - w.start < Length(w)
  <2>1. CASE \E w \in RawWindows(week, D) : w.start < EndOf(w) /\ v = [start |-> w.start, end |-> EndOf(w)]
    BY <1>1, <1>2, <1>3, <2>1 DEF Length
  <2>2. CASE \E w \in RawWindows(week, D) : w.start > EndOf(w) /\ v = [start |-> w.start, end |-> Slots]
    BY <1>1, <1>2, <1>3, <2>2 DEF Length
  <2>3. CASE \E d \in Days : NextDay(d) = D /\
               \E w \in RawWindows(week, d) : w.start > EndOf(w) /\ v = [start |-> 0, end |-> w.end]
    BY <1>1, <1>2, <1>3, <2>3 DEF Length
  <2>4. QED
    BY <2>1, <2>2, <2>3, EffectiveKinds
<1>4. ASSUME NEW w \in RawWindows(week, D), w.start <= s, s - w.start < Length(w)
      PROVE  \E v \in EffectiveWindows(week, D) : v.start <= s /\ s < v.end
  <2>1. CASE w.start < EndOf(w)
    <3>1. PICK v : v = [start |-> w.start, end |-> EndOf(w)]
      OBVIOUS
    <3>2. v \in EffectiveWindows(week, D)
      BY <2>1, <3>1, EffectiveKinds
    <3>3. v.start <= s /\ s < v.end
      BY <1>1, <1>2, <1>4, <2>1, <3>1 DEF Length
    <3>4. QED
      BY <3>2, <3>3
  <2>2. CASE w.start > EndOf(w)
    <3>1. PICK v : v = [start |-> w.start, end |-> Slots]
      OBVIOUS
    <3>2. v \in EffectiveWindows(week, D)
      BY <2>2, <3>1, EffectiveKinds
    <3>3. v.start <= s /\ s < v.end
      BY <1>1, <1>4, <3>1
    <3>4. QED
      BY <3>2, <3>3
  <2>3. QED
    BY <1>1, <1>2, <1>4, <2>1, <2>2 DEF Length
<1>5. ASSUME NEW d \in Days, NEW w \in RawWindows(week, d), D = NextDay(d), Slots + s - w.start < Length(w)
      PROVE  \E v \in EffectiveWindows(week, D) : v.start <= s /\ s < v.end
  <2>1. w.start > EndOf(w)
    BY <1>1, <1>2, <1>5 DEF Length
  <2>2. PICK v : v = [start |-> 0, end |-> w.end]
    OBVIOUS
  <2>3. v \in EffectiveWindows(week, D)
    BY <1>5, <2>1, <2>2, EffectiveKinds
  <2>4. v.start <= s /\ s < v.end
    BY <1>1, <1>2, <1>5, <2>1, <2>2 DEF Length
  <2>5. QED
    BY <2>3, <2>4
<1>6. QED
  BY <1>3, <1>4, <1>5

\* The windows of the days contain what the windows of the user do.
LEMMA WindowsAgree ==
    ASSUME NEW week \in Weeklies, NEW t \in Times
    PROVE  WindowsContain(week, t) <=> Means(week, t)
<1>1. PICK D \in Days, s \in 0..(Slots - 1) : t = D * Slots + s /\ D = DayOf(t) /\ s = SlotOf(t)
  BY TimesOfDays
<1>2. WindowsContain(week, t) <=> \E v \in EffectiveWindows(week, D) : v.start <= s /\ s < v.end
  BY <1>1 DEF WindowsContain
<1>3. ASSUME NEW d \in Days, NEW w \in RawWindows(week, d)
      PROVE  ((t - d * Slots - w.start) % (NumDays * Slots) < Length(w))
               <=> \/ D = d /\ w.start <= s /\ s - w.start < Length(w)
                   \/ D = NextDay(d) /\ Slots + s - w.start < Length(w)
  <2>1. w.start \in 0..(Slots - 1) /\ Length(w) \in 0..Slots
    BY RawAreWindows, WindowEnds DEF Windows
  <2>2. PICK b \in 0..(Slots - 1), l \in 0..Slots : b = w.start /\ l = Length(w)
    BY <2>1
  <2>3. ((D * Slots + s - d * Slots - b) % (NumDays * Slots) < l)
          <=> \/ D = d /\ b <= s /\ s - b < l
              \/ D = NextDay(d) /\ Slots + s - b < l
    BY SinceEffect
  <2>4. t - d * Slots - w.start = D * Slots + s - d * Slots - b
    <3>1. t = D * Slots + s /\ w.start = b
      BY <1>1, <2>2
    <3>2. D \in Int /\ d \in Int /\ Slots \in Int
      BY ScreenAssumption DEF Days
    <3>3. QED
      BY <3>1, <3>2
  <2>5. QED
    BY <2>2, <2>3, <2>4
<1>4. Means(week, t) <=> \E d \in Days : \E w \in RawWindows(week, d) :
                            (t - d * Slots - w.start) % (NumDays * Slots) < Length(w)
  BY DEF Means, Length
<1>5. QED
  BY <1>2, <1>3, <1>4, ContainMeans

\* A window begins or ends at a boundary.
LEMMA BoundaryEffect ==
    ASSUME NEW week \in Weeklies, NEW D \in Days, NEW v \in EffectiveWindows(week, D)
    PROVE  /\ D * Slots + v.start \in Boundaries(week)
           /\ v.end = Slots => NextDay(D) * Slots \in Boundaries(week)
           /\ v.end # Slots => D * Slots + v.end \in Boundaries(week)
  BY DEF Boundaries

\* Where the answer changes from one time to the next there is a boundary.
LEMMA ChangesAtBoundaries ==
    ASSUME NEW week \in Weeklies, now \in Times, WindowsContain(week, now) # WindowsContain(week, Later)
    PROVE  Later \in Boundaries(week)
<1>1. PICK D \in Days, s \in 0..(Slots - 1) : now = D * Slots + s /\ D = DayOf(now) /\ s = SlotOf(now)
  BY TimesOfDays
<1>2. /\ NumDays \in Nat \ {0} /\ Slots \in Nat \ {0} /\ D \in Nat /\ NextDay(D) \in Days /\ NextDay(D) \in Nat
  BY ScreenAssumption, DaysGoRound DEF Days
<1>3. /\ s + 1 < Slots => Later = D * Slots + (s + 1)
      /\ s + 1 = Slots => Later = NextDay(D) * Slots
  BY <1>1, LaterEffect
<1>4. \A d \in Days : \A v \in EffectiveWindows(week, d) : v.start \in 0..(Slots - 1) /\ v.end \in 0..Slots
  BY EffectiveAreWindows
<1>5. WindowsContain(week, now) \in BOOLEAN /\ WindowsContain(week, Later) \in BOOLEAN
  BY DEF WindowsContain
<1>6. CASE s + 1 < Slots
  <2>1. DayOf(Later) = D /\ SlotOf(Later) = s + 1
    BY <1>1, <1>2, <1>3, <1>6, DayAndSlot
  <2>2. PICK v \in EffectiveWindows(week, D) :
           \/ v.start <= s /\ s < v.end /\ ~(v.start <= s + 1 /\ s + 1 < v.end)
           \/ v.start <= s + 1 /\ s + 1 < v.end /\ ~(v.start <= s /\ s < v.end)
    BY <1>1, <1>5, <2>1 DEF WindowsContain
  <2>3. (v.end = s + 1 /\ v.end # Slots) \/ v.start = s + 1
    BY <1>1, <1>2, <1>4, <1>6, <2>2
  <2>4. QED
    BY <1>3, <1>6, <2>2, <2>3, BoundaryEffect
<1>7. CASE s + 1 = Slots
  <2>1. NextDay(D) * Slots + 0 = NextDay(D) * Slots
    BY <1>2, DayLengths
  <2>2. DayOf(Later) = NextDay(D) /\ SlotOf(Later) = 0
    BY <1>2, <1>3, <1>7, <2>1, DayAndSlot
  <2>3. CASE WindowsContain(week, now)
    <3>1. PICK v \in EffectiveWindows(week, D) : v.start <= s /\ s < v.end
      BY <1>1, <2>3 DEF WindowsContain
    <3>2. v.end = Slots
      BY <1>2, <1>4, <1>7, <3>1
    <3>3. QED
      BY <1>3, <1>7, <3>1, <3>2, BoundaryEffect
  <2>4. CASE WindowsContain(week, Later)
    <3>1. PICK v \in EffectiveWindows(week, NextDay(D)) : v.start <= 0 /\ 0 < v.end
      BY <2>2, <2>4 DEF WindowsContain
    <3>2. v.start = 0
      BY <1>2, <1>4, <3>1
    <3>3. NextDay(D) * Slots + 0 \in Boundaries(week)
      BY <1>2, <3>1, <3>2, BoundaryEffect
    <3>4. QED
      BY <1>3, <1>7, <2>1, <3>3
  <2>5. QED
    BY <1>5, <2>3, <2>4
<1>8. QED
  BY <1>1, <1>2, <1>6, <1>7

-----------------------------------------------------------------------------
\* The windows are windows, and the time is a time of the week.
ScreenInv == weekly \in Weeklies /\ now \in Times

\* The week begins at its beginning.
LEMMA ScreenInvInit == ScreenInit => ScreenInv
<1>1. 0 \in Days /\ 0 \in 0..(Slots - 1)
  BY ScreenAssumption DEF Days
<1>2. 0 * Slots + 0 \in Times /\ 0 * Slots + 0 = 0
  BY <1>1, ScreenAssumption, DayAndSlot
<1>3. QED
  BY <1>2 DEF ScreenInit, ScreenInv

\* Nobody but the clock changes the time, and nobody the windows.
LEMMA ScreenInvStep == ScreenInv /\ [ScreenNext]_screenVars => ScreenInv'
<1> SUFFICES ASSUME ScreenInv, [ScreenNext]_screenVars PROVE ScreenInv'
  OBVIOUS
<1>1. PICK D \in Days, s \in 0..(Slots - 1) : now = D * Slots + s
  BY TimesOfDays DEF ScreenInv
<1>2. Later \in Times
  BY <1>1, LaterEffect
<1>3. weekly' = weekly /\ now' \in {now, Later}
  BY DEF ScreenNext, screenVars, ScreenTick, TvTurnedOn, StopIt, ModeOrResume, RowWritten,
     FreshNoMore,
     CronFires, CutJobFires, WakeCheck, TvEvent, ScreenSteps, ScreenMaster, PowerOn, Shutoff, TvOff, Confirm,
     Second, CutPower
<1>4. QED
  BY <1>2, <1>3 DEF ScreenInv

\* The windows of the days, and the cron jobs, are those the user means, for any
\* number of days and times of a day and any windows, also over midnight and over
\* the end of the week (app.py:178-229, 526-547).
THEOREM WindowsMeanTheSame == ScreenSpec => []WindowsKeepTheirMeaning
<1>1. ScreenInv => WindowsKeepTheirMeaning
  BY WindowsAgree, ChangesAtBoundaries DEF ScreenInv, WindowsKeepTheirMeaning, InWindow
<1>2. QED
  BY <1>1, ScreenInvInit, ScreenInvStep, PTL DEF ScreenSpec

\* What the windows and the times of the clock leave to say of the types: devices,
\* rows, jobs and what each thread is doing.
LEMMA ScreenTypesStep == ScreenTypeOK /\ [ScreenNext]_screenVars => ScreenTypeOK'
<1> SUFFICES ASSUME ScreenTypeOK, [ScreenNext]_screenVars PROVE ScreenTypeOK'
  OBVIOUS
<1>1. weekly' \in Weeklies /\ now' \in Times
  BY ScreenInvStep DEF ScreenInv, ScreenTypeOK
<1>2. setting.suppress \in BOOLEAN
  BY ScreenAssumption DEF ScreenTypeOK
<1> DEFINE Steps == [pc : {"idle", "master", "powerOn", "tvOff", "confirm", "second", "cut"}, ok : BOOLEAN]
           Doing == [ScreenThreads -> Steps]
<1> USE DEF ScreenTypeOK
<1>3. CASE UNCHANGED screenVars
  BY <1>1, <1>3 DEF screenVars
<1>4. CASE ScreenTick
  <2>1. cronDue' \in BOOLEAN
    BY <1>4 DEF ScreenTick
  <2>2. QED
    BY <1>1, <1>4, <2>1 DEF ScreenTick
<1>5. CASE TvTurnedOn
  BY <1>1, <1>5 DEF TvTurnedOn
<1>6. CASE StopIt
  BY <1>1, <1>6 DEF StopIt
<1>7. CASE ModeOrResume
  BY <1>1, <1>7 DEF ModeOrResume, At, ScreenThreads
<1>8. CASE \E d \in {"tv", "power"} : RowWritten(d)
  BY <1>1, <1>8 DEF RowWritten
<1>9. CASE FreshNoMore
  BY <1>1, <1>9 DEF FreshNoMore
<1>10. CASE CronFires
  BY <1>1, <1>10 DEF CronFires, At, ScreenThreads
<1>11. CASE CutJobFires
  BY <1>1, <1>11 DEF CutJobFires, At, ScreenThreads
<1>12. CASE WakeCheck
  BY <1>1, <1>12 DEF WakeCheck, TvCommandedOff
<1>13. CASE TvEvent
  BY <1>1, <1>13 DEF TvEvent, TvCommandedOff, At, ScreenThreads
<1>14. ASSUME NEW t \in ScreenThreads, ScreenSteps(t) PROVE ScreenTypeOK'
  <2>0. step[t] \in Steps /\ NoStep \in Steps /\ \A r \in Steps : [step EXCEPT ![t] = r] \in Doing
    BY DEF NoStep
  <2>9. \A p \in {"tvOff", "powerOn", "second", "cut"} : [step EXCEPT ![t].pc = p] \in Doing
    BY <2>0
  <2>1. CASE ScreenMaster(t)
    <3>1. step' \in Doing
      BY <2>1, <2>0, <2>9 DEF ScreenMaster, At, Finish
    <3>2. QED
      BY <1>1, <2>1, <3>1 DEF ScreenMaster
  <2>2. CASE PowerOn(t)
    BY <1>1, <1>2, <2>2 DEF PowerOn, Finish, NoStep
  <2>3. CASE TvOff(t)
    <3>1. [pc |-> "confirm", ok |-> FALSE] \in Steps /\ [pc |-> "second", ok |-> used' = used] \in Steps
      OBVIOUS
    <3>2. PICK r \in Steps : step' = [step EXCEPT ![t] = r]
      BY <2>3, <2>0, <3>1, Zenon DEF TvOff, Finish
    <3>3. tv' \in {"on", "off"} /\ row' \in [tv : {"on", "off", "none"}, power : {"on", "off", "none"}]
      BY <2>3 DEF TvOff, TvCommandedOff
    <3>4. QED
      BY <1>1, <2>0, <2>3, <3>2, <3>3 DEF TvOff
  <2>4. CASE Confirm(t)
    <3>1. [pc |-> "second", ok |-> TRUE] \in Steps
      OBVIOUS
    <3>2. step' \in Doing
      <4>1. CASE step' = [step EXCEPT ![t] = [pc |-> "second", ok |-> TRUE]]
        BY <2>0, <3>1, <4>1, Zenon
      <4>2. CASE step' = [step EXCEPT ![t].pc = "second"]
        BY <2>9, <4>2
      <4>3. QED
        BY <2>4, <4>1, <4>2 DEF Confirm
    <3>3. QED
      BY <1>1, <2>4, <3>2 DEF Confirm
  <2>5. CASE Second(t)
    <3>1. step' \in Doing /\ jobs' \subseteq {"cut", "wake"}
      BY <2>5, <2>0, <2>9 DEF Second, At, Finish
    <3>2. QED
      BY <1>1, <2>5, <3>1 DEF Second
  <2>6. CASE CutPower(t)
    BY <1>1, <2>6 DEF CutPower, Finish, NoStep
  <2>7. QED
    BY <1>14, <2>1, <2>2, <2>3, <2>4, <2>5, <2>6 DEF ScreenSteps, Shutoff
<1>15. QED
  BY <1>3, <1>4, <1>5, <1>6, <1>7, <1>8, <1>9, <1>10, <1>11, <1>12, <1>13, <1>14 DEF ScreenNext

\* The clock stays in the week, and devices, rows, jobs and steps of the threads are
\* what they can be (app.py:158-449).
THEOREM ScreenTypes == ScreenSpec => []ScreenTypeOK
<1>1. ScreenInit => ScreenTypeOK
  <2> SUFFICES ASSUME ScreenInit PROVE ScreenTypeOK
    OBVIOUS
  <2>1. now \in Times
    BY ScreenInvInit DEF ScreenInv
  <2>2. step \in [ScreenThreads -> {NoStep, [NoStep EXCEPT !.pc = "master"]}]
    BY DEF ScreenInit
  <2> DEFINE Steps == [pc : {"idle", "master", "powerOn", "tvOff", "confirm", "second", "cut"}, ok : BOOLEAN]
  <2>3. NoStep \in Steps /\ \A r \in Steps : [r EXCEPT !.pc = "master"] \in Steps
    BY DEF NoStep
  <2>4. row \in [tv : {"on", "off", "none"}, power : {"on", "off", "none"}]
    BY DEF ScreenInit
  <2>5. QED
    BY <2>1, <2>2, <2>3, <2>4 DEF ScreenInit, ScreenTypeOK
<1>2. QED
  BY <1>1, ScreenTypesStep, PTL DEF ScreenSpec

-----------------------------------------------------------------------------
(***************************************************************************)
(* The pause of a dry pump, for any sensors, loads, thresholds and times,  *)
(* and any number of failing calls and restarts.                           *)
(*                                                                         *)
(* DryRunWaits speaks of the step that ends the pause.  A recovery looks   *)
(* at lastTrip, which a restart takes from the memo, and not at the row:   *)
(* DryPause says that the three agree, once the trip has written the row,  *)
(* and OneTrip and OfThisTrip what a trip under way is about to write.     *)
(***************************************************************************)

TripPcs == {"cut", "pauseRow", "memo"}
OtherPcs == {"idle", "resumeRow", "resetMemo", "pauseMemo", "keepRow", "master"}
Counts == [changes : Nat, failed : Nat, crashes : Nat]
Holds == [app : BOOLEAN, row : BOOLEAN, why : Trips \cup {"user"}]
Tasks == [PowerThreads -> [pc : TripPcs \cup OtherPcs, todo : SUBSET Cutoffs, reason : Trips]]
PowerShapes ==
    /\ lastTrip \in Trips /\ tripMemo \in Trips /\ crossed \in BOOLEAN /\ unsaved \in BOOLEAN
    /\ held \in Holds /\ task \in Tasks /\ count \in Counts
InTrip(t) == task[t].pc \in TripPcs
OneTrip == \A t, u \in PowerThreads : InTrip(t) /\ InTrip(u) => t = u
\* The memo is cleared before the row is written, and written after it, or the
\* save has failed and unsaved says so.
MemoOr(trips) == unsaved \/ tripMemo \in trips
OfThisTrip(t) == /\ task[t].reason = lastTrip
                 /\ task[t].pc = "pauseRow" => MemoOr({"none"}) /\ (lastTrip = "low" => held.app)
DryPause == held.why = "low" => /\ held.row /\ held.app /\ lastTrip # "high"
                                /\ MemoOr({"none", "low"})
Uncrossed == OneTrip /\ (\A t \in PowerThreads : InTrip(t) => OfThisTrip(t)) /\ DryPause
WaitInv == PowerShapes /\ (~crossed => Uncrossed)

\* Where a thread goes on.
LEMMA PcMoves == ASSUME task \in Tasks, NEW t \in PowerThreads, NEW p \in TripPcs \cup OtherPcs
                 PROVE  /\ [task EXCEPT ![t].pc = p] \in Tasks /\ [task EXCEPT ![t] = NoTask] \in Tasks
                        /\ \A u \in PowerThreads : [task EXCEPT ![t].pc = p][u].pc = IF u = t THEN p ELSE task[u].pc
BY DEF Tasks, NoTask, OtherPcs, Trips

LEMMA CountMoves == ASSUME count \in Counts, UNCHANGED count \/ CallFails \/ Changes \/ ReplyLost
                    PROVE  count' \in Counts /\ count'.crashes = count.crashes
<1>1. CASE CallFails
  BY <1>1 DEF Counts, CallFails
<1>2. CASE Changes
  BY <1>2 DEF Counts, Changes
<1>3. CASE ReplyLost
  BY <1>3 DEF Counts, ReplyLost
<1>4. QED
  BY <1>1, <1>2, <1>3

\* At first nothing is paused and nobody trips.
LEMMA WaitInvInit == PowerInit => WaitInv
<1> SUFFICES ASSUME PowerInit PROVE WaitInv
  OBVIOUS
<1>1. PowerShapes
  BY DEF PowerInit, PowerShapes, Tasks, OtherPcs, Counts, Holds, TripPcs, NoTask, Trips, memoVars
<1>2. (\A t \in PowerThreads : ~InTrip(t)) /\ held.why = "none"
  BY DEF PowerInit, InTrip, TripPcs, NoTask
<1>3. QED
  BY <1>1, <1>2 DEF WaitInv, Uncrossed, OneTrip, DryPause, MemoOr, memoVars

\* A trip that begins finds the instance running, so no pause of a dry pump; the
\* other trips, if any, make it a crossing.
LEMMA TripBegins ==
    ASSUME WaitInv, NEW t \in PowerThreads, ~InTrip(t), ~held.app, NEW bufs, NEW since,
           MaybeTrip(t, bufs, since), UNCHANGED <<held, memoVars, count>>
    PROVE  WaitInv'
<1>1. CASE task' = [task EXCEPT ![t] = NoTask] /\ UNCHANGED <<lastTrip, crossed>>
  BY <1>1 DEF WaitInv, PowerShapes, Uncrossed, OneTrip, InTrip, OfThisTrip, DryPause, TripPcs,
     NoTask, Trips, Tasks, OtherPcs, Counts, Holds, MemoOr, memoVars
<1>2. ASSUME NEW r \in {"high", "low"}, StartTrip(t, r) PROVE WaitInv'
  <2>1. /\ lastTrip' = r /\ crossed' = (crossed \/ Tripping)
        /\ task' = [task EXCEPT ![t] = [pc |-> "cut", todo |-> Cutoffs, reason |-> r]]
    BY <1>2 DEF StartTrip
  <2>2. PowerShapes'
    BY <2>1 DEF WaitInv, PowerShapes, TripPcs, Trips, Tasks, OtherPcs, Counts, Holds, memoVars
  <2>3. ASSUME ~crossed' PROVE Uncrossed'
    <3>1. ~crossed /\ \A u \in PowerThreads : ~InTrip(u)
      BY <2>1, <2>3 DEF Tripping, InTrip, TripPcs
    <3>2. held.why # "low"
      BY <3>1 DEF WaitInv, Uncrossed, DryPause, MemoOr, memoVars
    <3>3. /\ \A u \in PowerThreads : InTrip(u)' => u = t
          /\ task'[t].pc = "cut" /\ task'[t].reason = r
      BY <2>1, <3>1 DEF WaitInv, PowerShapes, InTrip, TripPcs, Tasks, OtherPcs, Counts, Holds,
         memoVars
    <3>4. QED
      BY <2>1, <3>2, <3>3 DEF Uncrossed, OneTrip, OfThisTrip, DryPause, MemoOr, memoVars
  <2>4. QED
    BY <2>2, <2>3 DEF WaitInv
<1>3. QED
  BY <1>1, <1>2 DEF MaybeTrip

\* A recovery ends the pause of a high trip, so no pause of a dry pump.
LEMMA RecoveryKeeps ==
    ASSUME WaitInv, NEW t \in PowerThreads, ~InTrip(t), held.app, NEW bufs,
           MaybeRecover(t, bufs), UNCHANGED <<memoVars, count>>
    PROVE  WaitInv' /\ (~crossed /\ held.why = "low" => held' = held)
<1>1. CASE UNCHANGED <<held, task, lastTrip, crossed>>
  BY <1>1 DEF WaitInv, PowerShapes, Uncrossed, OneTrip, InTrip, OfThisTrip, DryPause, TripPcs,
     Tasks, OtherPcs, Counts, Holds, MemoOr, memoVars
<1>2. CASE lastTrip = "high" /\ Recover(t)
  <2>1. /\ held' = [held EXCEPT !.app = FALSE] /\ task' = [task EXCEPT ![t].pc = "resumeRow"]
        /\ UNCHANGED <<lastTrip, memoVars, crossed>>
    BY <1>2 DEF Recover
  <2>2. PowerShapes'
    BY <2>1 DEF WaitInv, PowerShapes, TripPcs, Tasks, OtherPcs, Counts, Holds, memoVars
  <2>3. \A u \in PowerThreads : InTrip(u)' => InTrip(u) /\ task'[u] = task[u]
    BY <2>1 DEF WaitInv, PowerShapes, InTrip, TripPcs, Tasks, OtherPcs, Counts, Holds, memoVars
  <2>4. ~crossed => held.why # "low" /\ held'.why = held.why
    BY <1>2, <2>1 DEF WaitInv, PowerShapes, Uncrossed, DryPause, Tasks, OtherPcs, Counts, Holds,
       MemoOr, memoVars
  <2>5. ~crossed => Uncrossed'
    BY <1>2, <2>1, <2>3, <2>4 DEF WaitInv, Uncrossed, OneTrip, OfThisTrip, DryPause, MemoOr,
       memoVars
  <2>6. QED
    BY <2>1, <2>2, <2>4, <2>5 DEF WaitInv
<1>3. QED
  BY <1>1, <1>2 DEF MaybeRecover

LEMMA EvaluateKeeps ==
    ASSUME WaitInv, NEW t \in PowerThreads, ~InTrip(t), NEW bufs, NEW since,
           Evaluate(t, bufs, since), UNCHANGED <<memoVars, count>>
    PROVE  WaitInv' /\ (~crossed /\ held.why = "low" => held' = held)
<1>1. CASE held.app
  BY <1>1, RecoveryKeeps DEF Evaluate
<1>2. CASE ~held.app
  BY <1>2, TripBegins DEF Evaluate
<1>3. QED
  BY <1>1, <1>2

\* What ends the pause of a dry pump.
Waits == held.why = "low" /\ held.app /\ ~held'.app /\ ~crossed
           => task'["user"].pc = "resumeRow" \/ count'.crashes > count.crashes

\* A worker's event, a poll, and the evaluation at the end of a resumption.
LEMMA SamplesKeep ==
    ASSUME WaitInv, (\E s \in setup.sensors : OnPower(s)) \/ PollTick
                      \/ (\E t \in PowerThreads : PowerMaster(t))
    PROVE  WaitInv' /\ Waits
<1>1. ASSUME NEW s \in setup.sensors, OnPower(s) PROVE WaitInv' /\ Waits
  <2>1. ~InTrip("worker") /\ "worker" \in PowerThreads /\ UNCHANGED <<memoVars, count>>
    BY <1>1 DEF OnPower, InTrip, TripPcs, PowerThreads
  <2>2. PICK bufs, since : Evaluate("worker", bufs, since)
    BY <1>1 DEF OnPower
  <2>3. QED
    BY <2>1, <2>2, EvaluateKeeps DEF Waits
<1>2. ASSUME PollTick PROVE WaitInv' /\ Waits
  <2>1. ~InTrip("poll") /\ "poll" \in PowerThreads /\ UNCHANGED <<memoVars, count>>
    BY <1>2 DEF PollTick, InTrip, TripPcs, PowerThreads
  <2>2. PICK bufs, since : Evaluate("poll", bufs, since)
    BY <1>2 DEF PollTick
  <2>3. QED
    BY <2>1, <2>2, EvaluateKeeps DEF Waits
<1>3. ASSUME NEW t \in PowerThreads, PowerMaster(t) PROVE WaitInv' /\ Waits
  <2>1. ~InTrip(t) /\ UNCHANGED <<held, memoVars, count>>
    BY <1>3 DEF PowerMaster, InTrip, TripPcs
  <2>2. CASE held.app
    BY <1>3, <2>1, <2>2 DEF PowerMaster, Waits, WaitInv, PowerShapes, Uncrossed, OneTrip, InTrip,
       OfThisTrip,
       DryPause, TripPcs, NoTask, Trips, Tasks, OtherPcs, Counts, Holds, MemoOr, memoVars
  <2>3. CASE ~held.app
    BY <1>3, <2>1, <2>3, TripBegins DEF PowerMaster, Waits
  <2>4. QED
    BY <2>2, <2>3
<1>4. QED
  BY <1>1, <1>2, <1>3

\* Every call of a trip: the row is written with the pause and the reason of the
\* one trip under way, and the memo with lastTrip.
LEMMA TripKeeps == ASSUME WaitInv, NEW t \in PowerThreads, TripSteps(t) PROVE WaitInv' /\ Waits
<1>1. /\ InTrip(t) /\ UNCHANGED <<lastTrip, crossed>>
      /\ count' \in Counts
      /\ task' \in Tasks
      /\ \A u \in PowerThreads \ {t} : task'[u] = task[u]
  <2>1. PowerShapes
    BY DEF WaitInv
  <2>2. InTrip(t) /\ UNCHANGED <<lastTrip, crossed>>
    BY DEF TripSteps, CutOff, PauseApp, PauseRow, SaveTrip, InTrip, TripPcs
  <2>3. count' \in Counts
    BY <2>1 DEF TripSteps, CutOff, PauseApp, PauseRow, SaveTrip, Saves, CallFails, PowerShapes,
       Tasks, OtherPcs, Counts, Holds, memoVars
  <2>4. /\ task' \in Tasks
        /\ \A u \in PowerThreads \ {t} : task'[u] = task[u]
    BY <2>1 DEF TripSteps, CutOff, PauseApp, PauseRow, SaveTrip, NoTask, PowerShapes, Tasks,
       OtherPcs, Counts, Holds,
       TripPcs, Trips, memoVars
  <2>5. QED
    BY <2>2, <2>3, <2>4
<1>2. ~crossed => /\ \A u \in PowerThreads : InTrip(u)' => u = t
                  /\ task[t].reason = lastTrip
                  /\ task[t].pc = "pauseRow" => MemoOr({"none"}) /\ (lastTrip = "low" => held.app)
  BY <1>1 DEF WaitInv, Uncrossed, OneTrip, InTrip, OfThisTrip, MemoOr, memoVars
<1>3. ~crossed => OneTrip' /\ (Waits /\ DryPause' /\ (InTrip(t)' => OfThisTrip(t)') => Waits /\ Uncrossed')
  BY <1>1, <1>2 DEF Uncrossed, OneTrip
<1>4. CASE CutOff(t)
  <2>1. UNCHANGED <<held, memoVars>> /\ task'[t].pc = "cut" /\ task'[t].reason = task[t].reason
    BY <1>4 DEF CutOff, WaitInv, PowerShapes, Tasks, OtherPcs, Counts, Holds, memoVars
  <2>2. QED
    BY <1>1, <1>2, <1>3, <2>1 DEF WaitInv, PowerShapes, Uncrossed, DryPause, OfThisTrip, Waits,
       Tasks, OtherPcs, Counts, Holds, MemoOr, memoVars
<1>5. CASE PauseApp(t)
  <2>1. /\ held' = [held EXCEPT !.app = TRUE] /\ MemoOr({"none"})'
        /\ task'[t].reason = task[t].reason /\ tripMemo' \in Trips /\ unsaved' \in BOOLEAN
    BY <1>5 DEF PauseApp, Saves, MemoOr, WaitInv, PowerShapes, Tasks, Trips, OtherPcs, memoVars
  <2>2. PowerShapes'
    BY <1>1, <2>1 DEF WaitInv, PowerShapes, Trips, Tasks, OtherPcs, Counts, Holds, memoVars
  <2>3. held'.app /\ held'.why = held.why /\ held'.row = held.row
    BY <2>1 DEF WaitInv, PowerShapes, Tasks, OtherPcs, Counts, Holds, memoVars
  <2>4. QED
    BY <1>1, <1>2, <1>3, <2>1, <2>2, <2>3 DEF WaitInv, Uncrossed, DryPause, OfThisTrip, Waits,
       MemoOr, memoVars
<1>6. CASE PauseRow(t)
  <2>1. /\ held' = held \/ held' = [held EXCEPT !.row = TRUE, !.why = task[t].reason]
        /\ UNCHANGED memoVars /\ task[t].pc = "pauseRow" /\ task'[t].pc = "memo"
        /\ task'[t].reason = task[t].reason
    BY <1>6 DEF PauseRow, WaitInv, PowerShapes, Tasks, OtherPcs, Counts, Holds, memoVars
  <2>2. PowerShapes'
    BY <1>1, <2>1 DEF WaitInv, PowerShapes, Tasks, OtherPcs, Counts, Holds, memoVars
  <2>3. /\ held'.app = held.app
        /\ \/ held'.why = held.why /\ held'.row = held.row
           \/ held'.why = task[t].reason /\ held'.row
    <3>1. CASE held' = held
      BY <3>1
    <3>2. CASE held' = [held EXCEPT !.row = TRUE, !.why = task[t].reason]
      BY <3>2 DEF WaitInv, PowerShapes, Tasks, OtherPcs, Counts, Holds, memoVars
    <3>3. QED
      BY <2>1, <3>1, <3>2
  <2>4. ~crossed => DryPause'
    BY <1>1, <1>2, <2>1, <2>3 DEF WaitInv, Uncrossed, DryPause, MemoOr, memoVars
  <2>5. QED
    BY <1>1, <1>2, <1>3, <2>1, <2>2, <2>3, <2>4 DEF WaitInv, OfThisTrip, Waits, MemoOr, memoVars
<1>7. CASE SaveTrip(t)
  <2>1. /\ held' = held /\ task'[t].pc = "idle" /\ (unsaved' \/ tripMemo' = task[t].reason)
        /\ tripMemo' \in Trips /\ unsaved' \in BOOLEAN
    BY <1>7 DEF SaveTrip, Saves, NoTask, WaitInv, PowerShapes, Tasks, OtherPcs, Counts, Holds,
       memoVars
  <2>2. ~InTrip(t)'
    BY <2>1 DEF InTrip, TripPcs
  <2>3. ~crossed => DryPause'
    BY <1>1, <1>2, <2>1 DEF WaitInv, PowerShapes, Trips, Uncrossed, DryPause, MemoOr
  <2>4. QED
    BY <1>1, <1>2, <1>3, <2>1, <2>2, <2>3 DEF WaitInv, PowerShapes, Waits
<1>8. QED
  BY <1>4, <1>5, <1>6, <1>7 DEF TripSteps

\* Requests of users.  One who resumes while nobody trips leaves nothing crossed.
LEMMA UsersKeep ==
    ASSUME WaitInv, \/ \E t \in PowerThreads : ResumeRow(t) \/ ResetMemo(t) \/ KeepRow(t)
                    \/ UserPauses \/ UserResumes \/ ModeChanges \/ \E c \in Cutoffs : UserTurnsOn(c)
    PROVE  WaitInv' /\ Waits
<1> "user" \in PowerThreads
  BY DEF PowerThreads
<1> USE DEF WaitInv, PowerShapes, Uncrossed, OneTrip, InTrip, OfThisTrip, DryPause, MemoOr,
            TripPcs, Trips, Waits, memoVars
<1>1. ASSUME NEW t \in PowerThreads, ResumeRow(t) PROVE WaitInv' /\ Waits
  <2>1. task' \in Tasks
    BY <1>1, PcMoves DEF ResumeRow, OtherPcs
  <2>2. held'.why \in {held.why, "none"} /\ held'.app = held.app /\ (held'.why = "low" => held' = held)
    BY <1>1 DEF ResumeRow, Holds
  <2>3. \A u \in PowerThreads : InTrip(u)' => InTrip(u) /\ task'[u] = task[u]
    BY <1>1 DEF ResumeRow, Tasks
  <2>4. PowerShapes'
    BY <1>1, <2>1, CountMoves DEF ResumeRow, Holds
  <2>5. QED
    BY <1>1, <2>2, <2>3, <2>4 DEF ResumeRow
<1>2. ASSUME NEW t \in PowerThreads, ResetMemo(t) PROVE WaitInv' /\ Waits
  <2>1. task' \in Tasks
    BY <1>2, PcMoves DEF ResetMemo, OtherPcs
  <2>2. MemoOr({"none"})' /\ tripMemo' \in Trips /\ unsaved' \in BOOLEAN
    BY <1>2 DEF ResetMemo, Saves
  <2>3. \A u \in PowerThreads : InTrip(u)' => InTrip(u) /\ task'[u] = task[u]
    BY <1>2 DEF ResetMemo, Tasks
  <2>4. PowerShapes'
    BY <1>2, <2>1, <2>2, CountMoves DEF ResetMemo, Saves
  <2>5. QED
    BY <1>2, <2>2, <2>3, <2>4 DEF ResetMemo
<1>3. ASSUME NEW t \in PowerThreads, KeepRow(t) PROVE WaitInv' /\ Waits
  <2>1. task' \in Tasks
    BY <1>3, PcMoves DEF KeepRow
  <2>2. held'.why = held.why /\ held'.app = held.app /\ (held.row => held'.row)
    BY <1>3 DEF KeepRow, Holds
  <2>3. \A u \in PowerThreads : InTrip(u)' => InTrip(u) /\ task'[u] = task[u]
    BY <1>3 DEF KeepRow, NoTask, Tasks
  <2>4. PowerShapes'
    BY <1>3, <2>1, CountMoves DEF KeepRow, Holds
  <2>5. QED
    BY <1>3, <2>2, <2>3, <2>4 DEF KeepRow
<1>4. CASE UserPauses
  <2>0. count' \in Counts /\ UNCHANGED <<lastTrip, memoVars, crossed>> /\ ~held.app
    BY <1>4, CountMoves DEF UserPauses
  <2>1. CASE held' = [app |-> TRUE, row |-> TRUE, why |-> "user"] /\ task' = [task EXCEPT !["user"].pc = "pauseMemo"]
    <3>1. task' \in Tasks
      BY <2>1, PcMoves DEF OtherPcs
    <3>2. \A u \in PowerThreads : InTrip(u)' => InTrip(u) /\ task'[u] = task[u]
      BY <2>1 DEF Tasks
    <3>3. QED
      BY <2>0, <2>1, <3>1, <3>2 DEF Holds
  <2>2. CASE held' = [held EXCEPT !.row = TRUE, !.why = "user"] /\ UNCHANGED task
    BY <2>0, <2>2 DEF Holds
  <2>3. QED
    BY <1>4, <2>1, <2>2 DEF UserPauses
<1>5. CASE UserResumes
  <2>0. count' \in Counts /\ UNCHANGED <<lastTrip, memoVars>>
    BY <1>5, CountMoves DEF UserResumes
  <2>1. CASE /\ held' = [app |-> FALSE, row |-> FALSE, why |-> "none"] /\ crossed' = Tripping
             /\ task' = [task EXCEPT !["user"].pc = "resumeRow"]
    <3>1. task' \in Tasks /\ task'["user"].pc = "resumeRow"
      <4>1. task' \in Tasks
        BY <2>1, PcMoves DEF OtherPcs
      <4>2. task'["user"].pc = "resumeRow"
        BY <2>1 DEF Tasks
      <4>3. QED
        BY <4>1, <4>2
    <3>2. ~crossed' => \A u \in PowerThreads : ~InTrip(u)'
      BY <2>1 DEF Tripping, Tasks
    <3>3. held' \in Holds /\ held'.why = "none" /\ crossed' \in BOOLEAN
      BY <2>1 DEF Holds, Tripping
    <3>4. QED
      BY <2>0, <3>1, <3>2, <3>3
  <2>2. CASE held' = [held EXCEPT !.row = FALSE, !.why = "none"] /\ UNCHANGED <<task, crossed>>
    <3>1. held' \in Holds /\ held'.why = "none" /\ held'.app = held.app
      BY <2>2 DEF Holds
    <3>2. QED
      BY <2>0, <2>2, <3>1
  <2>3. QED
    BY <1>5, <2>1, <2>2 DEF UserResumes
<1>6. CASE ModeChanges
  <2>1. task' \in Tasks
    BY <1>6, PcMoves DEF ModeChanges, OtherPcs
  <2>2. \A u \in PowerThreads : InTrip(u)' => InTrip(u) /\ task'[u] = task[u]
    BY <1>6 DEF ModeChanges, Tasks
  <2>3. QED
    BY <1>6, <2>1, <2>2, CountMoves DEF ModeChanges
<1>7. CASE \E c \in Cutoffs : UserTurnsOn(c)
  BY <1>7, CountMoves DEF UserTurnsOn
<1>8. QED
  BY <1>1, <1>2, <1>3, <1>4, <1>5, <1>6, <1>7

\* A restart takes the pause from the row and the reason from the memo; a memo left
\* behind by a save that failed makes it a crossing.
LEMMA PowerRestartKeeps == ASSUME WaitInv, PowerRestart PROVE WaitInv' /\ Waits
<1> USE DEF WaitInv, PowerShapes, Uncrossed, OneTrip, InTrip, OfThisTrip, DryPause, MemoOr,
            TripPcs, Trips, Waits
<1>1. PowerShapes'
  <2>1. task' \in Tasks
    BY DEF PowerRestart, NoTask, Tasks, OtherPcs
  <2>2. held' \in Holds /\ count' \in Counts /\ lastTrip' \in Trips
    BY DEF PowerRestart, ReasonRestored, Counts, Holds
  <2>3. crossed' \in BOOLEAN /\ unsaved' = FALSE /\ tripMemo' = tripMemo
    BY DEF PowerRestart
  <2>4. QED
    BY <2>1, <2>2, <2>3
<1>2. ~crossed' => Uncrossed'
  <2>1. (\A t \in PowerThreads : ~InTrip(t)') /\ held'.why = held.why /\ held'.row = held.row
        /\ held'.app = held.row
    BY DEF PowerRestart, NoTask, Holds
  <2>2. QED
    BY <2>1 DEF PowerRestart, ReasonRestored
<1>3. Waits
  BY DEF PowerRestart, Counts
<1>4. QED
  BY <1>1, <1>2, <1>3

\* A change of the load, a tick, and a step of anybody else.
LEMMA WaitInvStep == ASSUME WaitInv, [PowerNext]_powerVars PROVE WaitInv' /\ [Waits]_powerVars
<1>1. CASE UNCHANGED <<lastTrip, held, memoVars, task, crossed>> /\ count' \in Counts
  BY <1>1 DEF WaitInv, PowerShapes, Uncrossed, OneTrip, InTrip, OfThisTrip, DryPause, Waits, Tasks,
     OtherPcs, MemoOr, memoVars
<1>2. CASE \E s \in setup.sensors, w \in setup.watts : LoadChanges(s, w)
  BY <1>1, <1>2, CountMoves DEF LoadChanges, WaitInv, PowerShapes
<1>3. CASE PowerTick
  BY <1>1, <1>3 DEF PowerTick, WaitInv, PowerShapes, Tasks, OtherPcs, memoVars
<1>4. CASE UNCHANGED powerVars
  BY <1>1, <1>4 DEF powerVars, WaitInv, PowerShapes, Tasks, OtherPcs, memoVars
<1>5. QED
  BY <1>2, <1>3, <1>4, SamplesKeep, TripKeeps, UsersKeep, PowerRestartKeeps DEF PowerNext,
     PowerSteps

\* A pump that ran dry stays off until a user resumes the instance or the server
\* restarts, whatever fails and however often it restarts, unless the trip was
\* crossed: by another trip, by a user who resumed, or by a save that failed, so
\* that a restart finds the memo of an older trip (app.py:527-550, 253-274;
\* base/memoization.py:36-45).
THEOREM DryPumpWaits == PowerSpec => DryRunWaits
<1>1. WaitInv /\ [PowerNext]_powerVars => WaitInv' /\ [Waits]_powerVars
  BY WaitInvStep
<1>2. QED
  BY <1>1, WaitInvInit, PTL DEF PowerSpec, DryRunWaits, Waits

-----------------------------------------------------------------------------
(***************************************************************************)
(* The rules, for any switches and any number of events, hands and         *)
(* failing calls.                                                          *)
(*                                                                         *)
(* CleanRunDelivers speaks of the last command of an event.  Before that   *)
(* the commands still to be sent and the switches that were turned already *)
(* make up what the rule says (Owes), each kind of event in its own way.   *)
(***************************************************************************)

WaterTap == ToggleUniform("pool_water_switches")
Offs == {SetState("pool_water_switches", "off"), SetState("pump_switch", "off")}
Sends(S, x) == {Send(s, x) : s \in S}
Toggles(S) == {ToggleOne(s) : s \in S}
ModeFor(e) == IF e.value = "on" THEN "WatchingTV" ELSE "Day"
Commands == {WaterTap, ToggleIndependent("pump_switch"), SetMode("WatchingTV"), SetMode("Day")}
              \cup Offs \cup Toggles(Switches)
              \cup Sends(Switches, "on") \cup Sends(Switches, "off")
Ahead == ToSet(todo)

\* The events of a program are those of its trigger.
OwnPress(e) == e \in Presses /\ ((program = TvMode) = (e.category = "tv"))

RulesTyped == /\ RulesTypeOK /\ todo \in Seq(Commands)
              /\ \A i \in DOMAIN presses : OwnPress(presses[i])

\* What the commands still to be sent and the switches make of a switch.
WillBe(s, x) == turned[s] = x \/ Send(s, x) \in Ahead
\* A tap: the toggle is still to come, or all go the same way.
TapOwes == \/ todo = <<WaterTap>>
           \/ \E x \in {"on", "off"} : Ahead \subseteq Sends(PoolWater, x) /\ \A s \in PoolWater : WillBe(s, x)
\* A hold: only commands that turn something off, and each switch is off or has one.
HoldOwes == /\ Ahead \subseteq Offs \cup Sends(Switches, "off")
            /\ \A s \in Switches : \/ WillBe(s, "off")
                                   \/ \E c \in Ahead \cap Offs : s \in Category(c.on)
ModeOwes == \/ todo = <<SetMode(ModeFor(handled))>>
            \/ todo = <<>> /\ location = ModeFor(handled)
Owes == handled # Spoiled =>
          /\ ~resting
          /\ handled.type = "pushed" => TapOwes
          /\ handled.type = "held" => HoldOwes
          /\ handled.type = "switch" => ModeOwes
RulesInv == RulesTyped /\ (todo # <<>> => Owes)

-----------------------------------------------------------------------------
(* Sequences of commands *)

\* What two sequences hold, put together.
LEMMA ToSetConcat ==
    ASSUME NEW S, NEW a \in Seq(S), NEW b \in Seq(S)
    PROVE  a \o b \in Seq(S) /\ ToSet(a \o b) = ToSet(a) \cup ToSet(b)
<1> DEFINE m == Len(a)
           n == Len(b)
<1>1. /\ a \o b \in Seq(S) /\ m \in Nat /\ n \in Nat
      /\ DOMAIN a = 1..m /\ DOMAIN b = 1..n /\ DOMAIN (a \o b) = 1..(m + n)
      /\ \A i \in 1..(m + n) : (a \o b)[i] = IF i <= m THEN a[i] ELSE b[i - m]
  BY ConcatProperties
<1> HIDE DEF m, n
<1>2. \A i \in 1..m : i \in 1..(m + n) /\ (a \o b)[i] = a[i]
  BY <1>1
<1>3. \A i \in 1..n : i + m \in 1..(m + n) /\ (a \o b)[i + m] = b[i]
  <2> SUFFICES ASSUME NEW i \in 1..n PROVE i + m \in 1..(m + n) /\ (a \o b)[i + m] = b[i]
    OBVIOUS
  <2>1. i + m \in 1..(m + n) /\ ~(i + m <= m) /\ (i + m) - m = i
    BY <1>1
  <2>2. QED
    BY <1>1, <2>1
<1>4. \A i \in 1..(m + n) : \/ i \in 1..m /\ (a \o b)[i] = a[i]
                            \/ i - m \in 1..n /\ (a \o b)[i] = b[i - m]
  BY <1>1
<1>5. ToSet(a \o b) = {(a \o b)[i] : i \in 1..(m + n)} /\ ToSet(a) = {a[i] : i \in 1..m}
        /\ ToSet(b) = {b[i] : i \in 1..n}
  BY <1>1 DEF ToSet
<1>6. ToSet(a \o b) \subseteq ToSet(a) \cup ToSet(b)
  BY <1>4, <1>5
<1>7. ToSet(a) \subseteq ToSet(a \o b)
  BY <1>2, <1>5
<1>8. ToSet(b) \subseteq ToSet(a \o b)
  BY <1>3, <1>5
<1>9. QED
  BY <1>1, <1>6, <1>7, <1>8

\* A sequence is its head and its tail.
LEMMA HeadAndTail ==
    ASSUME NEW S, NEW q \in Seq(S), q # <<>>
    PROVE  /\ Head(q) \in S /\ Tail(q) \in Seq(S)
           /\ ToSet(q) = {Head(q)} \cup ToSet(Tail(q))
<1>1. Head(q) \in S /\ Tail(q) \in Seq(S) /\ <<Head(q)>> \in Seq(S)
  OBVIOUS
<1>2. q = <<Head(q)>> \o Tail(q)
  OBVIOUS
<1>3. ToSet(<<Head(q)>>) = {Head(q)}
  BY DEF ToSet
<1>4. ToSet(<<Head(q)>> \o Tail(q)) = ToSet(<<Head(q)>>) \cup ToSet(Tail(q))
  BY <1>1, ToSetConcat, Zenon
<1>5. QED
  BY <1>1, <1>3, <1>2, <1>4, Zenon

\* The parts that two rules contribute, and three.
LEMMA FlattenTwo ==
    ASSUME NEW a \in Seq(Commands), NEW b \in Seq(Commands)
    PROVE  FlattenSeq(<<a, b>>) = a \o b
<1> DEFINE seqs == <<a, b>>
           Flat(f) == f = [i \in 1..Len(seqs) |-> IF i = 1 THEN seqs[i] ELSE f[i - 1] \o seqs[i]]
           w == [i \in 1..2 |-> IF i = 1 THEN a ELSE a \o b]
<1>1. Len(seqs) = 2 /\ seqs[1] = a /\ seqs[2] = b
  OBVIOUS
<1>2. Flat(w)
  BY <1>1
<1>3. Flat(CHOOSE f : Flat(f))
  BY <1>2
<1>4. ASSUME NEW f, Flat(f) PROVE f[2] = a \o b
  BY <1>1, <1>4
<1>5. FlattenSeq(seqs) = (CHOOSE f : Flat(f))[2]
  BY <1>1 DEF FlattenSeq
<1>6. QED
  BY <1>3, <1>4, <1>5

LEMMA FlattenThree ==
    ASSUME NEW a \in Seq(Commands), NEW b \in Seq(Commands), NEW c \in Seq(Commands)
    PROVE  FlattenSeq(<<a, b, c>>) = (a \o b) \o c
<1>0. PICK d : d = a \o b
  OBVIOUS
<1> DEFINE seqs == <<a, b, c>>
           Flat(f) == f = [i \in 1..Len(seqs) |-> IF i = 1 THEN seqs[i] ELSE f[i - 1] \o seqs[i]]
           w == [i \in 1..3 |-> IF i = 1 THEN a ELSE IF i = 2 THEN d ELSE d \o c]
<1>1. Len(seqs) = 3 /\ seqs[1] = a /\ seqs[2] = b /\ seqs[3] = c
  OBVIOUS
<1>2. Flat(w)
  BY <1>0, <1>1
<1>3. Flat(CHOOSE f : Flat(f))
  BY <1>2
<1>4. ASSUME NEW f, Flat(f) PROVE f[3] = d \o c
  <2>1. f[1] = a /\ f[2] = f[1] \o b /\ f[3] = f[2] \o c
    <3>1. \A i \in 1..3 : f[i] = IF i = 1 THEN seqs[i] ELSE f[i - 1] \o seqs[i]
      BY <1>1, <1>4
    <3>2. f[1] = seqs[1] /\ f[2] = f[2 - 1] \o seqs[2] /\ f[3] = f[3 - 1] \o seqs[3]
      <4>1. 1 \in 1..3 /\ 2 \in 1..3 /\ 3 \in 1..3 /\ 2 # 1 /\ 3 # 1
        OBVIOUS
      <4> HIDE DEF seqs
      <4>2. QED
        BY <3>1, <4>1, Zenon
    <3>3. 2 - 1 = 1 /\ 3 - 1 = 2
      OBVIOUS
    <3>4. QED
      BY <1>1, <3>2, <3>3
  <2>2. QED
    BY <1>0, <2>1
<1>5. FlattenSeq(seqs) = (CHOOSE f : Flat(f))[3]
  BY <1>1 DEF FlattenSeq
<1>6. FlattenSeq(seqs) = d \o c
  BY <1>3, <1>4, <1>5
<1>7. QED
  BY <1>0, <1>6

\* SetToSeq counts a finite set out.
LEMMA SetToSeqCounts ==
    ASSUME NEW S, IsFiniteSet(S)
    PROVE  SetToSeq(S) \in Seq(S) /\ ToSet(SetToSeq(S)) = S
<1> DEFINE n == Cardinality(S)
<1>1. n \in Nat /\ ExistsBijection(1..n, S)
  BY FS_CardinalityType
<1>2. PICK g \in Bijection(1..n, S) : TRUE
  BY <1>1 DEF ExistsBijection
<1>3. g \in [1..n -> S] /\ IsInjective(g)
  BY <1>2 DEF Bijection, Injection, IsInjective
<1>4. SetToSeq(S) \in [1..n -> S] /\ IsInjective(SetToSeq(S))
  BY <1>3 DEF SetToSeq
<1>5. SetToSeq(S) \in Injection(1..n, S)
  BY <1>4 DEF Injection, IsInjective
<1>6. IsFiniteSet(1..n) /\ Cardinality(1..n) = n
  BY <1>1, FS_Interval
<1>7. SetToSeq(S) \in Surjection(1..n, S)
  BY <1>5, <1>6, FS_Injection
<1>8. DOMAIN SetToSeq(S) = 1..n /\ \A s \in S : \E i \in 1..n : SetToSeq(S)[i] = s
  BY <1>4, <1>7 DEF Surjection
<1>9. SetToSeq(S) \in Seq(S)
  BY <1>1, <1>4
<1>10. QED
  BY <1>4, <1>8, <1>9 DEF ToSet

\* The lists of settings are finite.
LEMMA FiniteSwitches == IsFiniteSet(PoolWater) /\ IsFiniteSet(Pumps) /\ IsFiniteSet({})
  BY RulesAssumption, FS_EmptySet

\* Every switch gets its command, and there is no other.
LEMMA SendsEffect ==
    ASSUME NEW S, IsFiniteSet(S), NEW x
    PROVE  SendsToAll(S, x) \in Seq(Sends(S, x)) /\ ToSet(SendsToAll(S, x)) = Sends(S, x)
  BY SetToSeqCounts DEF SendsToAll, Each, Sends, ToSet

\* Every pump gets its toggle.
LEMMA TogglesEffect ==
    ASSUME NEW S, IsFiniteSet(S)
    PROVE  Each(S, ToggleOne) \in Seq(Toggles(S))
  BY SetToSeqCounts DEF Each, ToSet, Toggles
-----------------------------------------------------------------------------
(* What a program makes of an event *)

\* The commands that the programs are made of.
LEMMA CommandKinds ==
    /\ WaterTap \in Commands /\ ToggleIndependent("pump_switch") \in Commands
    /\ SetMode("WatchingTV") \in Commands /\ SetMode("Day") \in Commands
    /\ SetState("pool_water_switches", "off") \in Offs /\ SetState("pump_switch", "off") \in Offs
    /\ Offs \subseteq Commands /\ Sends(Switches, "on") \subseteq Commands
    /\ Sends(Switches, "off") \subseteq Commands /\ Toggles(Switches) \subseteq Commands
  BY DEF Commands, Offs

\* The TV's two rules: one of them matches, and sets its mode.
LEMMA TvActions ==
    ASSUME NEW e \in Presses, program = TvMode, e.category = "tv"
    PROVE  ActionsFor(e) = <<SetMode(ModeFor(e))>>
<1>1. e.type = "switch" /\ e.value \in {"on", "off"}
  BY DEF Presses
<1> DEFINE part(i) == IF Matches(program.rules[i].when, e) THEN program.rules[i].do ELSE <<>>
           a == IF e.value = "on" THEN <<SetMode("WatchingTV")>> ELSE <<>>
           b == IF e.value = "off" THEN <<SetMode("Day")>> ELSE <<>>
<1>2. /\ DOMAIN program.rules = 1..2
      /\ program.rules[1] = [when |-> When("tv", "switch", "on"), do |-> <<SetMode("WatchingTV")>>]
      /\ program.rules[2] = [when |-> When("tv", "switch", "off"), do |-> <<SetMode("Day")>>]
  BY DEF TvMode
<1>3. part(1) = a /\ part(2) = b
  BY <1>1, <1>2 DEF Matches, When
<1>4. [i \in 1..2 |-> part(i)] = <<a, b>>
  <2> HIDE DEF part, a, b
  <2>1. QED
    BY <1>3
<1>5. a \in Seq(Commands) /\ b \in Seq(Commands)
  BY CommandKinds
<1>6. ActionsFor(e) = a \o b
  <2>1. ActionsFor(e) = FlattenSeq([i \in 1..2 |-> part(i)])
    BY <1>2, Zenon DEF ActionsFor
  <2> HIDE DEF a, b
  <2>2. QED
    BY <2>1, <1>4, <1>5, FlattenTwo, Zenon
<1>7. a \o b = <<SetMode(ModeFor(e))>>
  <2>1. CASE e.value = "on"
    <3>1. a = <<SetMode("WatchingTV")>> /\ b = <<>> /\ ModeFor(e) = "WatchingTV"
      BY <2>1 DEF ModeFor
    <3> HIDE DEF a, b
    <3>2. QED
      BY <3>1
  <2>2. CASE e.value = "off"
    <3>1. a = <<>> /\ b = <<SetMode("Day")>> /\ ModeFor(e) = "Day"
      BY <2>2 DEF ModeFor
    <3> HIDE DEF a, b
    <3>2. QED
      BY <3>1
  <2>3. QED
    BY <1>1, <2>1, <2>2
<1>8. QED
  BY <1>6, <1>7

\* A button's three rules: each has a type of press to itself.
LEMMA ButtonActions ==
    ASSUME NEW e \in Presses, NEW p \in ButtonPresets, program = PoolButton(p.button, Seconds3(p.seconds)),
           e.category = "trigger_button"
    PROVE  \/ ActionsFor(e) = <<>>
           \/ e.type = "pushed" /\ ActionsFor(e) = <<WaterTap>>
           \/ e.type = "doubleTapped" /\ ActionsFor(e) = <<ToggleIndependent("pump_switch")>>
           \/ e.type = "held" /\ ActionsFor(e) = <<SetState("pool_water_switches", "off"),
                                                   SetState("pump_switch", "off")>>
<1>1. e.type \in {"pushed", "doubleTapped", "held"}
  BY DEF Presses
<1> DEFINE part(i) == IF Matches(program.rules[i].when, e) THEN program.rules[i].do ELSE <<>>
           ok == p.button \in {"any", e.value}
           offs == <<SetState("pool_water_switches", "off"), SetState("pump_switch", "off")>>
           a == IF e.type = "pushed" /\ ok THEN <<WaterTap>> ELSE <<>>
           b == IF e.type = "doubleTapped" /\ ok THEN <<ToggleIndependent("pump_switch")>> ELSE <<>>
           c == IF e.type = "held" /\ ok THEN offs ELSE <<>>
<1>2. /\ DOMAIN program.rules = 1..3
      /\ program.rules[1] = [when |-> When("trigger_button", "pushed", p.button), do |-> <<WaterTap>>]
      /\ program.rules[2] = [when |-> When("trigger_button", "doubleTapped", p.button),
                             do |-> <<ToggleIndependent("pump_switch")>>]
      /\ program.rules[3] = [when |-> When("trigger_button", "held", p.button), do |-> offs]
  BY DEF PoolButton, WaterTap
<1>3. part(1) = a /\ part(2) = b /\ part(3) = c
  BY <1>1, <1>2 DEF Matches, When
<1>4. [i \in 1..3 |-> part(i)] = <<a, b, c>>
  <2> HIDE DEF part, a, b, c
  <2>1. QED
    BY <1>3
<1>5. a \in Seq(Commands) /\ b \in Seq(Commands) /\ c \in Seq(Commands)
  BY CommandKinds
<1> HIDE DEF a, b, c
<1>6. PICK x, y, z : x = a /\ y = b /\ z = c
  OBVIOUS
<1>7. ActionsFor(e) = (x \o y) \o z
  <2>1. ActionsFor(e) = FlattenSeq([i \in 1..3 |-> part(i)])
    BY <1>2, Zenon DEF ActionsFor
  <2>2. x \in Seq(Commands) /\ y \in Seq(Commands) /\ z \in Seq(Commands)
    BY <1>5, <1>6
  <2>3. FlattenSeq(<<x, y, z>>) = (x \o y) \o z
    BY <2>2, FlattenThree
  <2>4. [i \in 1..3 |-> part(i)] = <<x, y, z>>
    <3> HIDE DEF part
    <3>1. QED
      BY <1>4, <1>6
  <2> HIDE DEF part
  <2>5. QED
    BY <2>1, <2>3, <2>4
<1>8. CASE e.type = "pushed" /\ ok
  BY <1>7, <1>6, <1>8 DEF a, b, c
<1>9. CASE e.type = "doubleTapped" /\ ok
  BY <1>7, <1>6, <1>9 DEF a, b, c
<1>10. CASE e.type = "held" /\ ok
  BY <1>7, <1>6, <1>10 DEF a, b, c
<1>11. CASE ~ok
  BY <1>7, <1>6, <1>11 DEF a, b, c
<1>12. QED
  BY <1>1, <1>8, <1>9, <1>10, <1>11

\* The event is of the program's kind, and the actions are those of its type.
LEMMA ProgramEffect ==
    ASSUME NEW e, OwnPress(e), program \in ResolvedSpecs
    PROVE  /\ ActionsFor(e) \in Seq(Commands)
           /\ ActionsFor(e) # <<>> =>
                /\ e.type = "pushed" => ActionsFor(e) = <<WaterTap>>
                /\ e.type = "held" => ActionsFor(e) = <<SetState("pool_water_switches", "off"),
                                                        SetState("pump_switch", "off")>>
                /\ e.type = "switch" => ActionsFor(e) = <<SetMode(ModeFor(e))>>
<1>1. CASE program = TvMode
  <2>1. e \in Presses /\ e.category = "tv" /\ e.type = "switch"
    BY <1>1 DEF OwnPress, Presses
  <2>2. ActionsFor(e) = <<SetMode(ModeFor(e))>>
    BY <1>1, <2>1, TvActions
  <2>3. SetMode(ModeFor(e)) \in Commands
    BY CommandKinds DEF ModeFor
  <2>4. QED
    BY <2>1, <2>2, <2>3
<1>2. CASE program # TvMode
  <2>1. PICK p \in ButtonPresets : program = PoolButton(p.button, Seconds3(p.seconds))
    BY <1>2 DEF ResolvedSpecs
  <2>2. e \in Presses /\ e.category = "trigger_button" /\ e.type # "switch"
    BY <1>2 DEF OwnPress, Presses
  <2>3. \/ ActionsFor(e) = <<>>
        \/ e.type = "pushed" /\ ActionsFor(e) = <<WaterTap>>
        \/ e.type = "doubleTapped" /\ ActionsFor(e) = <<ToggleIndependent("pump_switch")>>
        \/ e.type = "held" /\ ActionsFor(e) = <<SetState("pool_water_switches", "off"),
                                                SetState("pump_switch", "off")>>
    BY <2>1, <2>2, ButtonActions
  <2>4. /\ <<>> \in Seq(Commands) /\ <<WaterTap>> \in Seq(Commands)
        /\ <<ToggleIndependent("pump_switch")>> \in Seq(Commands)
        /\ <<SetState("pool_water_switches", "off"), SetState("pump_switch", "off")>> \in Seq(Commands)
    BY CommandKinds
  <2>5. QED
    BY <2>2, <2>3, <2>4
<1>3. QED
  BY <1>1, <1>2
-----------------------------------------------------------------------------
(* The steps *)

\* The events in the queue and the program.
LEMMA QueueTypes ==
    ASSUME RulesTyped, presses # <<>>
    PROVE  OwnPress(Head(presses)) /\ Tail(presses) \in Seq(Presses)
           /\ \A i \in DOMAIN Tail(presses) : OwnPress(Tail(presses)[i])
<1>1. presses \in Seq(Presses) /\ 1 \in DOMAIN presses /\ Head(presses) = presses[1]
  BY DEF RulesTyped, RulesTypeOK
<1>2. \A i \in DOMAIN Tail(presses) : i + 1 \in DOMAIN presses /\ Tail(presses)[i] = presses[i + 1]
  BY <1>1
<1>3. QED
  BY <1>1, <1>2 DEF RulesTyped

\* Nothing is to be sent at first.
LEMMA RulesInvInit == RulesInit => RulesInv
<1> SUFFICES ASSUME RulesInit PROVE RulesInv
  OBVIOUS
<1>1. presses \in Seq(Presses) /\ todo \in Seq(Commands) /\ DOMAIN presses = {}
  BY DEF RulesInit
<1>2. lastSeen \in [{x.type : x \in Presses} -> 0..LongAgo]
  BY DEF RulesInit, LongAgo
<1>3. mirror \in [Switches -> {"on", "off", "none"}]
  BY DEF RulesInit
<1>4. QED
  BY <1>1, <1>2, <1>3 DEF RulesInit, RulesInv, RulesTyped, RulesTypeOK

\* Hands, other rows and other events leave what is owed as it is, or spoil it.
LEMMA OthersKeepRules ==
    ASSUME RulesInv,
           \/ \E e \in Presses : Press(e)
           \/ SecondPasses \/ (\E s \in Switches : SwitchByHand(s) \/ MirrorWritten(s))
           \/ RulesPauseOrResume \/ (\E m \in {"Day", "WatchingTV"} : ModeByHand(m))
    PROVE  RulesInv' /\ (todo' # <<>> => todo # <<>>)
<1>1. CASE \E e \in Presses : Press(e)
  <2>1. PICK e \in Presses : Press(e)
    BY <1>1
  <2>2. presses' \in Seq(Presses) /\ \A i \in DOMAIN presses' :
                                            \/ i \in DOMAIN presses /\ presses'[i] = presses[i]
                                            \/ presses'[i] = e
    BY <2>1 DEF Press, RulesInv, RulesTyped, RulesTypeOK
  <2>3. RulesTyped'
    BY <2>1, <2>2 DEF Press, RulesInv, RulesTyped, RulesTypeOK, OwnPress
  <2>4. QED
    BY <2>1, <2>3 DEF Press, RulesInv, Owes, TapOwes, HoldOwes, ModeOwes, WillBe, Ahead
<1>2. CASE SecondPasses
  <2>1. lastSeen' \in [{x.type : x \in Presses} -> 0..LongAgo]
    BY <1>2 DEF SecondPasses, RulesInv, RulesTyped, RulesTypeOK, LongAgo
  <2>2. QED
    BY <1>2, <2>1 DEF SecondPasses, RulesInv, RulesTyped, RulesTypeOK, OwnPress, Owes, TapOwes,
       HoldOwes,
       ModeOwes, WillBe, Ahead
<1>3. CASE \E s \in Switches : SwitchByHand(s)
  BY <1>3 DEF SwitchByHand, RulesInv, RulesTyped, RulesTypeOK, OwnPress, Owes
<1>4. CASE \E s \in Switches : MirrorWritten(s)
  BY <1>4 DEF MirrorWritten, RulesInv, RulesTyped, RulesTypeOK, OwnPress, Owes, TapOwes, HoldOwes,
     ModeOwes,
     WillBe, Ahead
<1>5. CASE RulesPauseOrResume
  BY <1>5 DEF RulesPauseOrResume, RulesInv, RulesTyped, RulesTypeOK, OwnPress, Owes
<1>6. CASE \E m \in {"Day", "WatchingTV"} : ModeByHand(m)
  BY <1>6 DEF ModeByHand, RulesInv, RulesTyped, RulesTypeOK, OwnPress, Owes
<1>7. QED
  BY <1>1, <1>2, <1>3, <1>4, <1>5, <1>6

\* A new event: its actions are all still to be done.
LEMMA TakePressKeepsRules == RulesInv /\ TakePress => RulesInv'
<1> SUFFICES ASSUME RulesInv, TakePress PROVE RulesInv'
  OBVIOUS
<1>0. PICK e : e = Head(presses)
  OBVIOUS
<1>1. OwnPress(e) /\ presses' \in Seq(Presses) /\ \A i \in DOMAIN presses' : OwnPress(presses'[i])
  BY <1>0, QueueTypes DEF TakePress, RulesInv
<1>2. program \in ResolvedSpecs /\ program' = program
  BY DEF RulesInv, RulesTyped, RulesTypeOK, TakePress
<1>3. /\ ActionsFor(e) \in Seq(Commands)
      /\ ActionsFor(e) # <<>> =>
           /\ e.type = "pushed" => ActionsFor(e) = <<WaterTap>>
           /\ e.type = "held" => ActionsFor(e) = <<SetState("pool_water_switches", "off"),
                                                   SetState("pump_switch", "off")>>
           /\ e.type = "switch" => ActionsFor(e) = <<SetMode(ModeFor(e))>>
  BY <1>1, <1>2, ProgramEffect
<1>4. /\ handled' = e /\ UNCHANGED <<program, turned, mirror, location, resting>>
      /\ todo' \in {ActionsFor(e), <<>>} /\ (todo' # <<>> => ~resting)
      /\ lastSeen' \in {lastSeen, [lastSeen EXCEPT ![e.type] = 0]}
  BY <1>0 DEF TakePress
<1>5. lastSeen' \in [{x.type : x \in Presses} -> 0..LongAgo]
  BY <1>4 DEF RulesInv, RulesTyped, RulesTypeOK, LongAgo
<1>6. RulesTyped'
  <2>1. todo' \in Seq(Commands)
    <3>1. <<>> \in Seq(Commands)
      OBVIOUS
    <3>2. QED
      BY <1>3, <1>4, <3>1, Zenon
  <2>2. handled' \in Presses
    BY <1>1, <1>4 DEF OwnPress
  <2>3. (\A i \in DOMAIN presses : OwnPress(presses[i]))'
    BY <1>1, <1>4 DEF OwnPress
  <2>4. QED
    BY <1>1, <1>4, <1>5, <2>1, <2>3, <2>2 DEF RulesInv, RulesTyped, RulesTypeOK
<1>7. ASSUME todo' # <<>> PROVE Owes'
  <2>1. todo' = ActionsFor(e) /\ ActionsFor(e) # <<>> /\ ~resting'
    BY <1>4, <1>7
  <2>2. handled'.type = "pushed" => TapOwes'
    BY <1>3, <1>4, <2>1 DEF TapOwes
  <2>3. handled'.type = "switch" => ModeOwes'
    BY <1>3, <1>4, <2>1 DEF ModeOwes
  <2>4. ASSUME handled'.type = "held" PROVE HoldOwes'
    <3>1. todo' = <<SetState("pool_water_switches", "off"), SetState("pump_switch", "off")>>
      BY <1>3, <1>4, <2>1, <2>4
    <3>2. Ahead' = Offs
      BY <3>1 DEF Ahead, ToSet, Offs
    <3>3. \A s \in Switches : \E c \in Offs : s \in Category(c.on)
      BY DEF Switches, Offs, SetState, Category
    <3>4. QED
      BY <3>2, <3>3 DEF HoldOwes
  <2>5. QED
    BY <2>1, <2>2, <2>3, <2>4 DEF Owes
<1>8. QED
  BY <1>6, <1>7 DEF RulesInv

\* The next command and those after it.
LEMMA NextCommand ==
    ASSUME RulesTyped, todo # <<>>
    PROVE  /\ Head(todo) \in Commands /\ Tail(todo) \in Seq(Commands)
           /\ Ahead = {Head(todo)} \cup ToSet(Tail(todo))
  BY HeadAndTail DEF RulesTyped, Ahead

\* What an action is expanded to.
LEMMA ExpansionEffect ==
    ASSUME NEW a \in Commands, a.kind \notin {"send", "set_mode"}
    PROVE  /\ Expansion(a) \in Seq(Commands)
           /\ a = WaterTap => \E x \in {"on", "off"} : ToSet(Expansion(a)) = Sends(PoolWater, x)
           /\ a \in Offs => /\ ToSet(Expansion(a)) = Sends(Category(a.on), "off")
                            /\ Category(a.on) \subseteq Switches
<1> USE DEF WaterTap, ToggleUniform, ToggleIndependent, SetState, ToggleOne
<1>1. CASE a = WaterTap
  <2>1. PICK x \in {"on", "off"} : Expansion(a) = SendsToAll(PoolWater, x)
    BY <1>1 DEF Expansion, Category
  <2>2. /\ SendsToAll(PoolWater, x) \in Seq(Sends(PoolWater, x))
        /\ ToSet(SendsToAll(PoolWater, x)) = Sends(PoolWater, x)
    BY FiniteSwitches, SendsEffect
  <2>3. Sends(PoolWater, x) \subseteq Commands
    BY DEF Commands, Sends, Switches
  <2>4. a \notin Offs
    BY <1>1 DEF Offs
  <2>5. QED
    BY <2>1, <2>2, <2>3, <2>4
<1>2. CASE a \in Offs
  <2>1. Expansion(a) = SendsToAll(Category(a.on), "off")
    <3>1. a.kind = "set_state" /\ a.target = "off"
      BY <1>2 DEF Offs
    <3>2. QED
      BY <3>1 DEF Expansion
  <2>2. IsFiniteSet(Category(a.on)) /\ Category(a.on) \subseteq Switches
    BY <1>2, FiniteSwitches DEF Category, Switches
  <2>3. /\ SendsToAll(Category(a.on), "off") \in Seq(Sends(Category(a.on), "off"))
        /\ ToSet(SendsToAll(Category(a.on), "off")) = Sends(Category(a.on), "off")
    BY <2>2, SendsEffect
  <2>4. Sends(Category(a.on), "off") \subseteq Commands
    BY <2>2 DEF Commands, Sends
  <2>5. a # WaterTap
    BY <1>2 DEF Offs
  <2>6. QED
    BY <2>1, <2>2, <2>3, <2>4, <2>5
<1>3. CASE a = ToggleIndependent("pump_switch")
  <2>1. Expansion(a) = Each(Pumps, ToggleOne)
    BY <1>3 DEF Expansion, Category
  <2>2. Each(Pumps, ToggleOne) \in Seq(Toggles(Pumps))
    BY FiniteSwitches, TogglesEffect
  <2>3. Toggles(Pumps) \subseteq Commands
    BY DEF Commands, Switches, Toggles
  <2>4. a # WaterTap /\ a \notin Offs
    BY <1>3 DEF Offs
  <2>5. Expansion(a) \in Seq(Commands)
    <3>1. Expansion(a) \in Seq(Toggles(Pumps))
      BY <2>1, <2>2, Zenon
    <3>2. QED
      BY <2>3, <3>1
  <2>6. QED
    BY <2>4, <2>5
<1>4. CASE a \in Toggles(Switches)
  <2>1. PICK s \in Switches : a = ToggleOne(s)
    BY <1>4 DEF Toggles
  <2>2. PICK x \in {"on", "off"} : Expansion(a) = <<Send(s, x)>>
    BY <2>1 DEF Expansion
  <2>3. Send(s, x) \in Commands
    BY DEF Commands, Sends
  <2>4. a # WaterTap /\ a \notin Offs
    BY <2>1 DEF Offs
  <2>5. QED
    BY <2>2, <2>3, <2>4
<1>5. QED
  BY <1>1, <1>2, <1>3, <1>4 DEF Commands, Sends, Send, SetMode

\* An action gives way to the commands that do what it says.
LEMMA DispatchDelivers ==
    ASSUME RulesInv, Dispatch
    PROVE  RulesTyped' /\ Owes'
<1> DEFINE a == Head(todo)
           rest == Tail(todo)
<1>1. /\ todo # <<>> /\ Owes /\ RulesTyped /\ a.kind \notin {"send", "set_mode"}
      /\ UNCHANGED <<program, presses, lastSeen, turned, mirror, location, handled, resting, spent>>
  BY DEF Dispatch, RulesInv
<1>2. a \in Commands /\ rest \in Seq(Commands) /\ Ahead = {a} \cup ToSet(rest)
  BY <1>1, NextCommand
<1>3. /\ Expansion(a) \in Seq(Commands)
      /\ a = WaterTap => \E x \in {"on", "off"} : ToSet(Expansion(a)) = Sends(PoolWater, x)
      /\ a \in Offs => /\ ToSet(Expansion(a)) = Sends(Category(a.on), "off")
                       /\ Category(a.on) \subseteq Switches
  BY <1>1, <1>2, ExpansionEffect
<1>4. todo' = IF resting THEN <<>> ELSE Expansion(a) \o rest
  BY DEF Dispatch
<1>5. /\ Expansion(a) \o rest \in Seq(Commands)
      /\ ToSet(Expansion(a) \o rest) = ToSet(Expansion(a)) \cup ToSet(rest)
  <2>1. \A x, y \in Seq(Commands) : x \o y \in Seq(Commands) /\ ToSet(x \o y) = ToSet(x) \cup ToSet(y)
    BY ToSetConcat
  <2>2. QED
    BY <1>2, <1>3, <2>1
<1>6. RulesTyped'
  <2>1. <<>> \in Seq(Commands)
    OBVIOUS
  <2>2. todo' \in Seq(Commands)
    BY <1>4, <1>5, <2>1
  <2>3. QED
    BY <1>1, <2>2 DEF RulesTyped, RulesTypeOK, OwnPress
<1>7. Owes'
  <2>1. SUFFICES ASSUME handled # Spoiled PROVE Owes'
    BY <1>1 DEF Owes
  <2>2. ~resting /\ ~resting' /\ Ahead' = ToSet(Expansion(a)) \cup ToSet(rest)
    BY <1>1, <1>4, <1>5, <2>1 DEF Owes, Ahead
  <2>3. ASSUME handled.type = "pushed" PROVE TapOwes'
    <3>1. TapOwes
      BY <1>1, <2>1, <2>3 DEF Owes
    <3>2. todo = <<WaterTap>>
      BY <3>1, <1>1, <1>2 DEF TapOwes, Sends, Send
    <3>3. a = WaterTap /\ ToSet(rest) = {}
      BY <3>2 DEF ToSet
    <3>4. PICK x \in {"on", "off"} : Ahead' = Sends(PoolWater, x)
      BY <1>3, <2>2, <3>3
    <3>5. QED
      BY <3>4 DEF TapOwes, WillBe, Sends
  <2>4. ASSUME handled.type = "held" PROVE HoldOwes'
    <3>1. HoldOwes
      BY <1>1, <2>1, <2>4 DEF Owes
    <3>2. a \in Offs
      BY <3>1, <1>1, <1>2 DEF HoldOwes, Sends, Send
    <3>3. Ahead' = Sends(Category(a.on), "off") \cup ToSet(rest) /\ Category(a.on) \subseteq Switches
      BY <1>3, <2>2, <3>2
    <3>4. Ahead' \subseteq Offs \cup Sends(Switches, "off")
      BY <3>1, <3>3, <1>2 DEF HoldOwes, Sends
    <3>5. ASSUME NEW s \in Switches
          PROVE  WillBe(s, "off")' \/ \E c \in Ahead' \cap Offs : s \in Category(c.on)
      <4>1. CASE turned[s] = "off"
        BY <1>1, <4>1 DEF WillBe
      <4>2. CASE Send(s, "off") \in Ahead
        <5>1. Send(s, "off") # a
          BY <1>1 DEF Send
        <5>2. QED
          BY <1>2, <3>3, <4>2, <5>1 DEF WillBe
      <4>3. CASE \E c \in Ahead \cap Offs : s \in Category(c.on)
        <5>1. PICK c \in Ahead \cap Offs : s \in Category(c.on)
          BY <4>3
        <5>2. CASE c = a
          BY <3>3, <5>1, <5>2 DEF WillBe, Sends
        <5>3. CASE c # a
          BY <1>2, <3>3, <5>1, <5>3
        <5>4. QED
          BY <5>2, <5>3
      <4>4. QED
        BY <3>1, <4>1, <4>2, <4>3 DEF HoldOwes, WillBe
    <3>6. QED
      BY <3>4, <3>5 DEF HoldOwes
  <2>5. handled.type # "switch"
    BY <1>1, <2>1 DEF Owes, ModeOwes, SetMode
  <2>6. QED
    BY <1>1, <2>2, <2>3, <2>4, <2>5 DEF Owes
<1>8. QED
  BY <1>6, <1>7

\* A command that is sent has turned its switch; one that fails spoils the run.
LEMMA SendDelivers ==
    ASSUME RulesInv, SendNext
    PROVE  RulesTyped' /\ Owes'
<1> DEFINE a == Head(todo)
           rest == Tail(todo)
<1>1. /\ todo # <<>> /\ Owes /\ RulesTyped /\ a.kind = "send" /\ todo' = rest
      /\ UNCHANGED <<program, presses, lastSeen, location, resting>>
  BY DEF SendNext, RulesInv
<1>2. a \in Commands /\ rest \in Seq(Commands) /\ Ahead = {a} \cup ToSet(rest)
  BY <1>1, NextCommand
<1>3. PICK s \in Switches, x \in {"on", "off"} : a = Send(s, x)
  <2>1. a \in Sends(Switches, "on") \cup Sends(Switches, "off")
    BY <1>1, <1>2 DEF Commands, Offs, Toggles, WaterTap, ToggleUniform, ToggleIndependent,
       ToggleOne,
       SetMode, SetState
  <2>2. QED
    BY <2>1 DEF Sends
<1>4. a.on = s /\ a.target = x
  BY <1>3 DEF Send
<1>5. \/ turned' = [turned EXCEPT ![s] = x] /\ mirror' = [mirror EXCEPT ![s] = x] /\ handled' = handled
      \/ turned' = turned /\ mirror' = [mirror EXCEPT ![s] = "none"] /\ handled' = Spoiled
  BY <1>4 DEF SendNext
<1> HIDE DEF a, rest
<1>6. RulesTyped'
  BY <1>1, <1>2, <1>5 DEF RulesTyped, RulesTypeOK, OwnPress
<1>7. Owes'
  <2>1. SUFFICES ASSUME handled' # Spoiled PROVE Owes'
    BY DEF Owes
  <2>2. handled' = handled /\ turned' = [turned EXCEPT ![s] = x] /\ ~resting' /\ Ahead' = ToSet(rest)
    BY <1>1, <1>5, <2>1 DEF Owes, Ahead
  <2>3. DOMAIN turned = Switches
    BY <1>1 DEF RulesTyped, RulesTypeOK
  <2>4. ASSUME NEW q \in Switches, WillBe(q, x) PROVE WillBe(q, x)'
    BY <1>2, <1>3, <2>2, <2>3, <2>4 DEF WillBe, Send
  <2>5. ASSUME handled.type = "pushed" PROVE TapOwes'
    <3>1. TapOwes
      BY <1>1, <2>1, <2>2, <2>5 DEF Owes
    <3>2. todo # <<WaterTap>>
      BY <1>1 DEF a, WaterTap, ToggleUniform
    <3>3. PICK y \in {"on", "off"} : Ahead \subseteq Sends(PoolWater, y) /\ \A q \in PoolWater : WillBe(q, y)
      BY <3>1, <3>2 DEF TapOwes
    <3>4. x = y
      BY <1>2, <1>3, <3>3 DEF Sends, Send
    <3>5. \A q \in PoolWater : WillBe(q, x)'
      BY <2>4, <3>3, <3>4 DEF Switches
    <3>6. Ahead' \subseteq Sends(PoolWater, x)
      BY <1>2, <2>2, <3>3, <3>4
    <3>7. QED
      BY <3>5, <3>6 DEF TapOwes
  <2>6. ASSUME handled.type = "held" PROVE HoldOwes'
    <3>1. HoldOwes
      BY <1>1, <2>1, <2>2, <2>6 DEF Owes
    <3>2. a \notin Offs
      BY <1>1 DEF Offs, SetState
    <3>3. x = "off"
      BY <1>2, <1>3, <3>1, <3>2 DEF HoldOwes, Sends, Send
    <3>4. Ahead' \cap Offs = Ahead \cap Offs /\ Ahead' \subseteq Ahead
      BY <1>2, <2>2, <3>2
    <3>5. QED
      BY <2>4, <3>1, <3>3, <3>4 DEF HoldOwes
  <2>7. handled.type # "switch"
    BY <1>1, <2>1, <2>2 DEF Owes, ModeOwes, SetMode, a
  <2>8. QED
    BY <2>2, <2>5, <2>6, <2>7 DEF Owes
<1>8. QED
  BY <1>6, <1>7

\* A mode that is set is the one the rule names.
LEMMA ModeDelivers ==
    ASSUME RulesInv, ChangeMode
    PROVE  RulesTyped' /\ Owes'
<1> DEFINE a == Head(todo)
           rest == Tail(todo)
<1>1. /\ todo # <<>> /\ Owes /\ RulesTyped /\ a.kind = "set_mode"
      /\ UNCHANGED <<program, presses, lastSeen, turned, mirror, resting>>
      /\ todo' = IF resting THEN <<>> ELSE rest
      /\ \/ location' = (IF resting THEN location ELSE a.target) /\ handled' = handled
         \/ location' = location /\ handled' = Spoiled
  BY DEF ChangeMode, RulesInv
<1>2. a \in Commands /\ rest \in Seq(Commands) /\ Ahead = {a} \cup ToSet(rest)
  BY <1>1, NextCommand
<1>3. a.target \in {"WatchingTV", "Day"}
  BY <1>1, <1>2 DEF Commands, Offs, Toggles, WaterTap, ToggleUniform, ToggleIndependent, ToggleOne,
     SetMode, SetState, Sends, Send
<1>4. RulesTyped'
  <2>1. <<>> \in Seq(Commands)
    OBVIOUS
  <2>2. todo' \in Seq(Commands)
    BY <1>1, <1>2, <2>1
  <2> HIDE DEF a, rest
  <2>3. QED
    BY <1>1, <1>3, <2>2 DEF RulesTyped, RulesTypeOK, OwnPress
<1>5. Owes'
  <2>1. SUFFICES ASSUME handled' # Spoiled PROVE Owes'
    BY DEF Owes
  <2>2. handled' = handled /\ ~resting /\ ~resting' /\ location' = a.target /\ todo' = rest
    BY <1>1, <2>1 DEF Owes
  <2>3. handled.type # "pushed"
    BY <1>1, <1>2, <2>1, <2>2 DEF Owes, TapOwes, WaterTap, ToggleUniform, Sends, Send
  <2>4. handled.type # "held"
    BY <1>1, <1>2, <2>1, <2>2 DEF Owes, HoldOwes, Offs, SetState, Sends, Send
  <2>5. ASSUME handled.type = "switch" PROVE ModeOwes'
    <3>1. todo = <<SetMode(ModeFor(handled))>>
      BY <1>1, <2>1, <2>2, <2>5 DEF Owes, ModeOwes
    <3>2. todo' = <<>> /\ location' = ModeFor(handled)
      BY <2>2, <3>1 DEF SetMode
    <3>3. QED
      BY <2>2, <3>2 DEF ModeOwes, ModeFor
  <2>6. QED
    BY <2>2, <2>3, <2>4, <2>5 DEF Owes
<1>6. QED
  BY <1>4, <1>5

\* Every step keeps the invariant, and one that is left with nothing to send
\* has brought about what was owed.
LEMMA RulesInvStep ==
    ASSUME RulesInv, [RulesNext]_rulesVars
    PROVE  RulesInv' /\ (todo # <<>> /\ todo' = <<>> => Owes')
<1>1. CASE UNCHANGED rulesVars
  BY <1>1 DEF rulesVars, RulesInv, RulesTyped, RulesTypeOK, OwnPress, Owes, TapOwes, HoldOwes,
     ModeOwes,
     WillBe, Ahead
<1>2. CASE \/ \E e \in Presses : Press(e)
           \/ SecondPasses \/ (\E s \in Switches : SwitchByHand(s) \/ MirrorWritten(s))
           \/ RulesPauseOrResume \/ (\E m \in {"Day", "WatchingTV"} : ModeByHand(m))
  <2>1. todo' = todo
    BY <1>2 DEF Press, SecondPasses, SwitchByHand, MirrorWritten, RulesPauseOrResume, ModeByHand
  <2>2. QED
    BY <1>2, <2>1, OthersKeepRules
<1>3. CASE TakePress
  BY <1>3, TakePressKeepsRules DEF TakePress
<1>4. CASE Dispatch \/ SendNext \/ ChangeMode
  BY <1>4, DispatchDelivers, SendDelivers, ModeDelivers DEF RulesInv
<1>5. QED
  BY <1>1, <1>2, <1>3, <1>4 DEF RulesNext

\* Type correctness of the rules (apps/rules/app.py).
THEOREM RulesTypes == RulesSpec => []RulesTypeOK
<1>1. RulesInv /\ [RulesNext]_rulesVars => RulesInv'
  BY RulesInvStep
<1>2. RulesInv => RulesTypeOK
  BY DEF RulesInv, RulesTyped
<1>3. QED
  BY <1>1, <1>2, RulesInvInit, PTL DEF RulesSpec

\* Once the commands of an event are through and nothing has interfered, the rule
\* has done what it says, for any number of switches and whatever their rows said
\* (interpreter.py:245-308, schema.py:124-131).
THEOREM RulesDeliver == RulesSpec => CleanRunDelivers
<1> DEFINE Done == CASE handled.type = "pushed" -> \E x \in {"on", "off"} : \A s \in PoolWater : turned'[s] = x
                     [] handled.type = "held" -> \A s \in Switches : turned'[s] = "off"
                     [] handled.type = "doubleTapped" -> TRUE
                     [] handled.type = "switch" -> (handled.value = "on") = (location' = "WatchingTV")
<1>1. RulesInv /\ [RulesNext]_rulesVars => RulesInv'
  BY RulesInvStep
<1>2. RulesInv /\ [RulesNext]_rulesVars
        => [todo # <<>> /\ todo' = <<>> /\ handled' # Spoiled => Done]_rulesVars
  <2> SUFFICES ASSUME RulesInv, [RulesNext]_rulesVars, todo # <<>>, todo' = <<>>, handled' # Spoiled
               PROVE  Done
    OBVIOUS
  <2>1. Owes' /\ RulesTyped /\ ~UNCHANGED rulesVars
    BY RulesInvStep DEF RulesInv, rulesVars
  <2>2. handled' = handled
    BY <2>1 DEF RulesNext, Press, SecondPasses, SwitchByHand, MirrorWritten, RulesPauseOrResume,
       ModeByHand,
       TakePress, Dispatch, SendNext, ChangeMode
  <2>3. handled \in Presses
    BY <2>1, <2>2 DEF RulesTyped, RulesTypeOK
  <2>4. Ahead' = {}
    BY DEF Ahead, ToSet
  <2>5. CASE handled.type = "pushed"
    BY <2>1, <2>2, <2>4, <2>5 DEF Owes, TapOwes, WillBe
  <2>6. CASE handled.type = "held"
    BY <2>1, <2>2, <2>4, <2>6 DEF Owes, HoldOwes, WillBe
  <2>7. CASE handled.type = "switch"
    BY <2>1, <2>2, <2>7 DEF Owes, ModeOwes, ModeFor
  <2>8. CASE handled.type = "doubleTapped"
    BY <2>8
  <2>9. QED
    BY <2>3, <2>5, <2>6, <2>7, <2>8 DEF Presses
<1>3. QED
  BY <1>1, <1>2, RulesInvInit, PTL DEF RulesSpec, CleanRunDelivers
=============================================================================

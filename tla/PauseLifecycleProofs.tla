------------------------ MODULE PauseLifecycleProofs ------------------------
(***************************************************************************)
(* Proofs about PauseLifecycle for any number of request threads, pool     *)
(* workers and durations, any number of failed database calls and any      *)
(* number of restarts.                                                     *)
(*                                                                         *)
(* The code takes no lock, and with overlapping operations none of the     *)
(* three properties holds; the theorems say what one operation after the   *)
(* other guarantees (~Overlap), and for which apps.                        *)
(* Each is about a pause kept in three places, one of them being written   *)
(* at a time: so each invariant says what is true between operations and   *)
(* what is true at each step of the one operation under way.               *)
(***************************************************************************)
EXTENDS PauseLifecycle, TLAPS

-----------------------------------------------------------------------------
(* Types.  The records have names, so that they can stay folded.           *)

Times == Nat \cup {NoTime}
Lengths == Durations \cup {0}
Rows == [paused : BOOLEAN, reason : Reasons, expires : Times]
Apps == [up : BOOLEAN, paused : BOOLEAN, reason : Reasons, armed : BOOLEAN]
Phases == [pc : PCs, dur : Lengths, bound : BOOLEAN, snap : Rows]
Asked == [kind : {"none", "until", "forever"}, until : Nat]

PauseTypes == /\ row \in Rows /\ app \in Apps /\ job \in Times /\ th \in [Threads -> Phases]
              /\ now \in Nat /\ failures \in 0 .. MaxFailures /\ restarts \in 0 .. MaxRestarts
              /\ asked \in Asked /\ untold \in BOOLEAN /\ leftover \in BOOLEAN

\* The types of the proofs are those of the model.
LEMMA PauseTypesAreTypeOK == PauseTypes = TypeOK
BY DEF PauseTypes, TypeOK, Rows, Apps, Phases, Asked, Times, Lengths

\* An instance that is not paused, and a thread at rest.
LEMMA AtRest == NotPaused \in Rows /\ IdleThread \in Phases /\ IdleThread.pc = "idle"
BY DEF NotPaused, IdleThread, Rows, Phases, Reasons, PCs, Times, Lengths

\* The requested lengths are natural numbers.
LEMMA LengthsAreNatural == Lengths \subseteq Nat
BY PauseAssumption DEF Lengths

\* Where a thread goes next, it keeps what it works with.
LEMMA PhaseUpdates ==
  ASSUME NEW c \in Phases, NEW pc \in PCs, NEW b \in BOOLEAN, NEW d \in Lengths, NEW r \in Rows
  PROVE  /\ [c EXCEPT !.pc = pc] \in Phases
         /\ [c EXCEPT !.bound = b] \in Phases
         /\ [c EXCEPT !.pc = pc, !.bound = b] \in Phases
         /\ [c EXCEPT !.bound = b, !.pc = pc] \in Phases
         /\ [c EXCEPT !.pc = pc, !.dur = d] \in Phases
         /\ [c EXCEPT !.pc = pc, !.snap = r] \in Phases
BY DEF Phases

-----------------------------------------------------------------------------
(* What the steps of one thread have in common.                            *)

\* Thread t goes on as c; at most the `bound` of the others changes.
Proceeds(t, c, ths) == /\ ths \in [Threads -> Phases] /\ ths[t] = c
                       /\ \A u \in Threads \ {t} : /\ ths[u].pc = th[u].pc
                                                   /\ ths[u].dur = th[u].dur
                                                   /\ ths[u].snap = th[u].snap

\* Goto and Done, and the steps that bind a thread to the app object.
LEMMA GotoProceeds ==
  ASSUME PauseTypes, NEW t \in Threads, NEW pc \in PCs, Goto(t, pc)
  PROVE  \E c \in Phases : /\ Proceeds(t, c, th') /\ c.pc = pc /\ c.dur = th[t].dur
                           /\ c.bound = th[t].bound /\ c.snap = th[t].snap
<1>1. PICK c : c = [th[t] EXCEPT !.pc = pc]
  OBVIOUS
<1>2. th[t] \in Phases /\ th \in [Threads -> Phases]
  BY DEF PauseTypes
<1>3. c \in Phases
  BY <1>1, <1>2, PhaseUpdates, AtRest DEF Phases
<1>4. c.pc = pc /\ c.dur = th[t].dur /\ c.bound = th[t].bound /\ c.snap = th[t].snap
  BY <1>1, <1>2 DEF Phases
<1>5. th' = [th EXCEPT ![t] = c]
  BY <1>1, <1>2 DEF Goto
<1>6. Proceeds(t, c, th')
  BY <1>2, <1>3, <1>5 DEF Proceeds
<1>7. QED
  BY <1>3, <1>4, <1>6

\* A thread that has done is at rest.
LEMMA DoneProceeds ==
  ASSUME PauseTypes, NEW t \in Threads, Done(t)
  PROVE  Proceeds(t, IdleThread, th')
BY AtRest DEF Done, PauseTypes, Proceeds

\* A request or a pool worker begins an operation.
LEMMA Beginnings ==
  ASSUME NEW pc \in PCs
  PROVE  /\ [IdleThread EXCEPT !.pc = pc] \in Phases
         /\ [IdleThread EXCEPT !.pc = pc].pc = pc
         /\ \A d \in Lengths : /\ [IdleThread EXCEPT !.pc = pc, !.dur = d] \in Phases
                               /\ [IdleThread EXCEPT !.pc = pc, !.dur = d].pc = pc
                               /\ [IdleThread EXCEPT !.pc = pc, !.dur = d].dur = d
<1>1. IdleThread \in Phases
  BY AtRest
<1>2. QED
  BY <1>1 DEF Phases

\* A thread that begins takes up its operation.
LEMMA BeginProceeds ==
  ASSUME PauseTypes, NEW t \in Threads, NEW c \in Phases, th' = [th EXCEPT ![t] = c]
  PROVE  Proceeds(t, c, th')
BY DEF Proceeds, PauseTypes

\* A call enters the app object.
LEMMA BindProceeds ==
  ASSUME PauseTypes, NEW t \in Threads, NEW pc \in PCs,
         th' = [th EXCEPT ![t].pc = pc, ![t].bound = TRUE]
  PROVE  \E c \in Phases : /\ Proceeds(t, c, th') /\ c.pc = pc /\ c.dur = th[t].dur
                           /\ c.bound
<1>1. PICK c : c = [th[t] EXCEPT !.pc = pc, !.bound = TRUE]
  OBVIOUS
<1>2. th[t] \in Phases /\ th \in [Threads -> Phases]
  BY DEF PauseTypes
<1>3. c \in Phases
  BY <1>1, <1>2, PhaseUpdates, AtRest DEF Phases
<1>4. c.pc = pc /\ c.dur = th[t].dur /\ c.bound
  BY <1>1, <1>2 DEF Phases
<1>5. th' = [th EXCEPT ![t] = c]
  BY <1>1, <1>2
<1>6. QED
  BY <1>2, <1>3, <1>4, <1>5 DEF Proceeds

\* An app object that goes away unbinds the threads inside it.
LEMMA UnboundThreads ==
  ASSUME PauseTypes
  PROVE  /\ Unbound \in [Threads -> Phases]
         /\ \A u \in Threads : /\ Unbound[u].pc = th[u].pc /\ Unbound[u].dur = th[u].dur
                               /\ Unbound[u].snap = th[u].snap
<1>1. ASSUME NEW u \in Threads
      PROVE  /\ [th[u] EXCEPT !.bound = FALSE] \in Phases
             /\ [th[u] EXCEPT !.bound = FALSE].pc = th[u].pc
             /\ [th[u] EXCEPT !.bound = FALSE].dur = th[u].dur
             /\ [th[u] EXCEPT !.bound = FALSE].snap = th[u].snap
  <2>1. th[u] \in Phases
    BY DEF PauseTypes
  <2>2. QED
    BY <2>1 DEF Phases
<1>2. QED
  BY <1>1 DEF Unbound

-----------------------------------------------------------------------------
(* The invariants.  Each has a part that always holds and one for the step *)
(* a thread is at; a thread at rest stands for the time between operations.*)

OneAtWork == \A t, u \in Threads : th[t].pc # "idle" /\ th[u].pc # "idle" => t = u
Alone(t) == \A u \in Threads \ {t} : th[u].pc = "idle"

\* The row and the object: while one of the two has been written, the other.
Agreed == app.up /\ ~untold => app.paused = row.paused
Torn == {"callPause", "callResume", "patchExcluded", "patchIncluded"}
AgreeAt(c) ==
    /\ c.pc \in {"callPause", "writePause"} => row.paused
    /\ c.pc \in {"callResume", "writeResume"} => ~row.paused
    /\ c.pc = "patchExcluded" => Lighting /\ app.paused
    /\ c.pc = "patchIncluded" => Lighting /\ ~app.paused
    /\ c.pc = "start" => c.snap = row
    /\ c.pc \notin Torn => Agreed
AgreeInv == \A t \in Threads : Alone(t) => AgreeAt(th[t])

\* The job: the object knows of it, and between operations it belongs to a timed
\* pause that does not outlast it, or is known to be left over.
JobOK == job # NoTime /\ ~leftover /\ ~untold =>
            row.paused /\ row.expires # NoTime /\ job >= row.expires
JobKnown == job # NoTime => app.up /\ app.armed
Pausing == {"callPause", "writePause", "armJob"}
JobAt(c) ==
    /\ c.pc \in Pausing =>
          /\ row.paused /\ ~untold
          /\ c.dur > 0 => row.expires # NoTime /\ row.expires <= now + c.dur
          /\ c.dur = 0 => job = NoTime \/ leftover
    /\ c.pc = "armJob" => c.dur > 0
    /\ c.pc \in {"writePause", "armJob", "writeResume", "cancelJob"} => c.bound /\ app.up
    /\ c.pc \in {"callResume", "writeResume", "cancelJob"} => row = NotPaused
    /\ c.pc \in {"fetch", "start"} => job = NoTime
    /\ c.pc \in {"idle", "patchPause", "patchResume", "patchAuto"} => JobOK
    /\ c.pc \notin {"patchExcluded", "patchIncluded"}
JobInv == JobKnown /\ \A t \in Threads : Alone(t) => JobAt(th[t])

\* What the user was promised: the row lasts as long, who resumes on expiry does
\* so when it has passed, and while a job is left over nothing is promised,
\* except by a timed pause about to replace the job.
AskedInRow == /\ asked.kind = "forever" => row.paused /\ row.expires = NoTime /\ job = NoTime
              /\ asked.kind = "until" /\ now < asked.until =>
                    row.paused /\ row.expires >= asked.until
NothingDue == asked.kind = "none" \/ (asked.kind = "until" /\ asked.until <= now)
NoneForLeftover == job # NoTime /\ (untold \/ leftover) => asked.kind = "none"
AskAt(c) ==
    /\ c.pc \in Pausing /\ c.dur > 0 =>
          /\ asked.kind # "forever"
          /\ asked.kind = "until" /\ c.pc # "armJob" => asked.until <= now + c.dur
    /\ c.pc \in Pausing /\ c.dur = 0 => asked.kind # "until"
    /\ c.pc \in {"patchAuto", "callResume", "writeResume", "cancelJob"} => NothingDue
    /\ (c.pc \in Pausing /\ c.dur > 0) \/ NoneForLeftover
InOrder(c) == JobKnown /\ JobAt(c) /\ AskedInRow /\ AskAt(c)
AskInv == AskedInRow /\ \A t \in Threads : Alone(t) => AskAt(th[t])

\* For which apps each of them holds.
NothingFailsForLighting == ~Overlap /\ (Lighting => MaxFailures = 0)
OrdinaryApp == ~Overlap /\ ~Lighting

PauseInv == /\ PauseTypes
            /\ ~Overlap => OneAtWork
            /\ NothingFailsForLighting => AgreeInv
            /\ OrdinaryApp => JobInv
            /\ OrdinaryApp => AskInv

\* The step of one thread: what is to be shown is about that thread only.
LEMMA ThreadStep ==
  ASSUME PauseInv, NEW t \in Threads, th[t].pc # "idle" \/ CanStart(t),
         NEW c \in Phases, Proceeds(t, c, th'), PauseTypes',
         NothingFailsForLighting /\ AgreeAt(th[t]) => AgreeAt(c)',
         OrdinaryApp /\ JobKnown /\ JobAt(th[t]) => JobKnown' /\ JobAt(c)',
         OrdinaryApp /\ InOrder(th[t]) => AskedInRow' /\ AskAt(c)'
  PROVE  PauseInv'
<1>1. th'[t] = c
  BY DEF Proceeds
<1>2. ~Overlap => Alone(t) /\ Alone(t)'
  BY DEF PauseInv, OneAtWork, CanStart, Quiescent, Proceeds, Alone
<1>3. ~Overlap => OneAtWork'
  BY <1>2 DEF OneAtWork, Alone
<1>4. ASSUME ~Overlap, c.pc = "idle", NEW u \in Threads
      PROVE  th'[u].pc = "idle"
  BY <1>1, <1>2, <1>4 DEF Alone
<1>5. ASSUME ~Overlap, c.pc # "idle", NEW u \in Threads, Alone(u)'
      PROVE  u = t
  BY <1>1, <1>5 DEF Alone
<1>6. ASSUME NothingFailsForLighting, NEW u \in Threads, Alone(u)' PROVE AgreeAt(th[u])'
  <2>1. AgreeAt(c)'
    BY <1>2, <1>6 DEF PauseInv, AgreeInv, NothingFailsForLighting
  <2>2. CASE c.pc = "idle"
    BY <1>4, <1>6, <2>1, <2>2 DEF NothingFailsForLighting, AgreeAt, Torn, Agreed
  <2>3. CASE c.pc # "idle"
    BY <1>1, <1>5, <1>6, <2>1, <2>3 DEF NothingFailsForLighting
  <2>4. QED
    BY <2>2, <2>3
<1>7. ASSUME OrdinaryApp PROVE JobInv'
  <2>1. JobKnown' /\ JobAt(c)'
    BY <1>2, <1>7 DEF PauseInv, JobInv, OrdinaryApp
  <2>2. ASSUME NEW u \in Threads, Alone(u)' PROVE JobAt(th[u])'
    <3>1. CASE c.pc = "idle"
      BY <1>4, <1>7, <2>1, <3>1 DEF OrdinaryApp, JobAt, JobOK, Pausing
    <3>2. CASE c.pc # "idle"
      BY <1>1, <1>5, <1>7, <2>1, <2>2, <3>2 DEF OrdinaryApp
    <3>3. QED
      BY <3>1, <3>2
  <2>3. QED
    BY <2>1, <2>2 DEF JobInv
<1>8. ASSUME OrdinaryApp PROVE AskInv'
  <2>1. AskedInRow' /\ AskAt(c)'
    BY <1>2, <1>8 DEF PauseInv, JobInv, AskInv, InOrder, OrdinaryApp
  <2>2. ASSUME NEW u \in Threads, Alone(u)' PROVE AskAt(th[u])'
    <3>1. CASE c.pc = "idle"
      BY <1>4, <1>8, <2>1, <3>1 DEF OrdinaryApp, AskAt, Pausing, NothingDue, NoneForLeftover
    <3>2. CASE c.pc # "idle"
      BY <1>1, <1>5, <1>8, <2>1, <2>2, <3>2 DEF OrdinaryApp
    <3>3. QED
      BY <3>1, <3>2
  <2>3. QED
    BY <2>1, <2>2 DEF AskInv
<1>9. QED
  BY <1>3, <1>6, <1>7, <1>8 DEF PauseInv, AgreeInv

-----------------------------------------------------------------------------
(* One lemma per operation of a thread.                                    *)

\* pause_instance begins: nothing has changed yet.
LEMMA PauseKeeps ==
  ASSUME PauseInv, NEW t \in Users, NEW d \in Durations, Pause(t, d)
  PROVE  PauseInv'
<1>1. t \in Threads /\ PauseTypes
  BY DEF Threads, PauseInv
<1>2. PICK c \in Phases : Proceeds(t, c, th') /\ c.pc = "patchPause" /\ c.dur = d
  <2>1. PICK c : c = [IdleThread EXCEPT !.pc = "patchPause", !.dur = d]
    OBVIOUS
  <2>2. "patchPause" \in PCs /\ d \in Lengths
    BY DEF PCs, Lengths
  <2>3. c \in Phases /\ c.pc = "patchPause" /\ c.dur = d
    BY <2>1, <2>2, Beginnings
  <2>4. th' = [th EXCEPT ![t] = c]
    BY <2>1 DEF Pause
  <2>5. QED
    BY <1>1, <2>3, <2>4, BeginProceeds
<1>3. CanStart(t) /\ th[t].pc = "idle" /\ UNCHANGED <<row, app, job, now, failures, restarts, asked, untold, leftover>>
  BY DEF history, Pause, CanStart
<1>4. PauseTypes'
  BY <1>2, <1>3 DEF PauseTypes, PauseInv, Proceeds
<1>5. NothingFailsForLighting /\ AgreeAt(th[t]) => AgreeAt(c)'
  BY <1>2, <1>3 DEF AgreeAt, Agreed, Torn
<1>6. OrdinaryApp /\ JobKnown /\ JobAt(th[t]) => JobKnown' /\ JobAt(c)'
  BY <1>2, <1>3 DEF JobAt, Pausing, JobOK, JobKnown
<1>7. OrdinaryApp /\ InOrder(th[t]) => AskedInRow' /\ AskAt(c)'
  BY <1>2, <1>3 DEF AskAt, Pausing, NothingDue, NoneForLeftover, AskedInRow, InOrder
<1>8. QED
  BY <1>1, <1>2, <1>3, <1>4, <1>5, <1>6, <1>7, ThreadStep

\* An operation ends, at the database or with nothing left to tell.
LEMMA EndKeeps ==
  ASSUME PauseInv, NEW t \in Threads, th[t].pc # "idle", Done(t),
         UNCHANGED <<row, app, job, now, restarts, asked, untold, leftover>>, Fails \/ UNCHANGED failures,
         AgreeAt(th[t]) => Agreed, OrdinaryApp /\ JobKnown /\ JobAt(th[t]) => JobOK,
         OrdinaryApp /\ InOrder(th[t]) => NoneForLeftover
  PROVE  PauseInv'
<1>1. PICK c \in Phases : c = IdleThread
  BY AtRest
<1>2. Proceeds(t, c, th') /\ c.pc = "idle"
  BY <1>1, DoneProceeds, AtRest DEF PauseInv
<1>3. PauseTypes'
  BY <1>2, PauseAssumption DEF PauseTypes, PauseInv, Proceeds, Fails
<1>4. NothingFailsForLighting /\ AgreeAt(th[t]) => AgreeAt(c)'
  BY <1>2 DEF AgreeAt, Agreed, Torn
<1>5. OrdinaryApp /\ JobKnown /\ JobAt(th[t]) => JobKnown' /\ JobAt(c)'
  BY <1>2 DEF JobAt, Pausing, JobOK, JobKnown
<1>6. OrdinaryApp /\ InOrder(th[t]) => AskedInRow' /\ AskAt(c)'
  BY <1>2 DEF AskAt, Pausing, NothingDue, NoneForLeftover, AskedInRow, InOrder, JobAt, JobKnown,
     JobOK
<1>7. QED
  BY <1>2, <1>3, <1>4, <1>5, <1>6, ThreadStep

\* The manager's PATCH: from here on the row is ahead of the object.
LEMMA PatchPauseKeeps ==
  ASSUME PauseInv, NEW t \in Threads, PatchPause(t)
  PROVE  PauseInv'
<1>1. /\ th[t].pc = "patchPause" /\ UNCHANGED <<app, job, now, failures, restarts>>
      /\ th[t] \in Phases /\ th[t].dur \in Nat /\ row \in Rows /\ now \in Nat
      /\ row' = PausedFor(th[t].dur) /\ asked' = Promised(th[t].dur) /\ untold' = FALSE
      /\ leftover' = (leftover \/ (th[t].dur = 0 /\ job # NoTime)) /\ leftover' \in BOOLEAN
      /\ Goto(t, "callPause")
  BY LengthsAreNatural DEF PatchPause, PauseInv, PauseTypes, Phases
<1>2. PICK c \in Phases : Proceeds(t, c, th') /\ c.pc = "callPause" /\ c.dur = th[t].dur
  BY <1>1, GotoProceeds DEF PauseInv, PCs
<1>3. /\ row' \in Rows /\ row'.paused
      /\ row'.expires = IF th[t].dur > 0 THEN now + th[t].dur ELSE row.expires
  BY <1>1 DEF PausedFor, Rows, Times, Reasons
<1>4. asked' \in Asked
  BY <1>1 DEF Promised, NoPromise, Asked
<1>5. PauseTypes'
  BY <1>1, <1>2, <1>3, <1>4 DEF PauseTypes, PauseInv, Proceeds
<1>6. NothingFailsForLighting /\ AgreeAt(th[t]) => AgreeAt(c)'
  BY <1>2, <1>3 DEF AgreeAt, Torn
<1>7. OrdinaryApp /\ JobKnown /\ JobAt(th[t]) => JobKnown' /\ JobAt(c)'
  <2>1. ~untold' /\ (c.dur = 0 => job' = NoTime \/ leftover')
    BY <1>1, <1>2
  <2>2. c.dur > 0 => row'.expires # NoTime /\ row'.expires <= now' + c.dur
    BY <1>1, <1>2, <1>3 DEF NoTime
  <2>3. QED
    BY <1>1, <1>2, <1>3, <2>1, <2>2 DEF JobAt, Pausing, JobKnown
<1>8. OrdinaryApp /\ InOrder(th[t]) => AskedInRow' /\ AskAt(c)'
  BY <1>1, <1>2, <1>3 DEF Promised, NoPromise, AskAt, Pausing, NothingDue, NoneForLeftover,
     AskedInRow, InOrder, NoTime
<1>9. QED
  BY <1>1, <1>2, <1>5, <1>6, <1>7, <1>8, ThreadStep

\* A PATCH that the database refuses changes nothing.
LEMMA PatchRefusedKeeps ==
  ASSUME PauseInv, NEW t \in Threads, PatchRefused(t)
  PROVE  PauseInv'
<1>1. /\ th[t].pc \in {"patchPause", "patchResume", "patchAuto"} /\ Fails /\ Done(t)
      /\ UNCHANGED <<row, app, job, now, restarts, asked, untold, leftover>>
  BY DEF PatchRefused, history
<1>2. QED
  BY <1>1, EndKeeps DEF AgreeAt, JobAt, AskAt, Pausing, InOrder, Torn, NothingDue, NoneForLeftover

\* One whose reply is lost parts the row from the object; nothing is promised.
LEMMA PatchUnansweredKeeps ==
  ASSUME PauseInv, NEW t \in Threads, PatchUnanswered(t)
  PROVE  PauseInv'
<1>1. /\ th[t].pc \in {"patchPause", "patchResume", "patchAuto"} /\ UNCHANGED <<app, job, now, restarts, leftover>>
      /\ th[t].dur \in Nat /\ row \in Rows /\ now \in Nat
      /\ asked' = NoPromise /\ untold' = TRUE /\ Fails /\ Done(t)
  BY LengthsAreNatural DEF PatchUnanswered, PauseInv, PauseTypes, Phases
<1>2. row' \in Rows
  BY <1>1, AtRest DEF PatchUnanswered, PausedFor, Rows, Times, Reasons
<1>3. PICK c \in Phases : c = IdleThread
  BY AtRest
<1>4. Proceeds(t, c, th') /\ c.pc = "idle"
  BY <1>1, <1>3, DoneProceeds, AtRest DEF PauseInv
<1>5. PauseTypes'
  <2>1. failures' \in 0 .. MaxFailures /\ asked' \in Asked
    BY <1>1, PauseAssumption DEF Fails, NoPromise, Asked, PauseInv, PauseTypes
  <2>2. QED
    BY <1>1, <1>2, <1>4, <2>1 DEF PauseTypes, PauseInv, Proceeds
<1>6. AgreeAt(c)'
  BY <1>1, <1>4 DEF AgreeAt, Agreed, Torn
<1>7. JobKnown => JobKnown' /\ JobAt(c)'
  BY <1>1, <1>4 DEF JobAt, Pausing, JobOK, JobKnown
<1>8. AskedInRow' /\ AskAt(c)'
  BY <1>1, <1>4 DEF NoPromise, AskAt, Pausing, NoneForLeftover, AskedInRow, NothingDue
<1>9. QED
  BY <1>1, <1>4, <1>5, <1>6, <1>7, <1>8, ThreadStep

\* The object is told; the write-through follows.
LEMMA CallPauseKeeps ==
  ASSUME PauseInv, NEW t \in Threads, CallPause(t)
  PROVE  PauseInv'
<1>1. th[t].pc = "callPause" /\ UNCHANGED <<row, job, now, failures, restarts, asked, untold, leftover>>
  BY DEF history, CallPause
<1>2. CASE ~app.up
  <2>1. OrdinaryApp /\ JobKnown => JobOK /\ NoneForLeftover
    BY <1>2 DEF JobKnown, JobOK, NoneForLeftover
  <2>2. Done(t) /\ UNCHANGED app
    BY <1>2 DEF CallPause
  <2>3. QED
    BY <1>1, <1>2, <2>1, <2>2, EndKeeps DEF Agreed, InOrder
<1>3. CASE app.up
  <2>1. /\ app' = [app EXCEPT !.paused = TRUE] /\ app \in Apps
        /\ th' = [th EXCEPT ![t].pc = "writePause", ![t].bound = TRUE]
    BY <1>3 DEF CallPause, PauseInv, PauseTypes
  <2>2. app' \in Apps /\ app'.up /\ app'.paused /\ app'.armed = app.armed
    BY <1>3, <2>1 DEF Apps
  <2>3. PICK c \in Phases : Proceeds(t, c, th') /\ c.pc = "writePause" /\ c.dur = th[t].dur /\ c.bound
    BY <2>1, BindProceeds DEF PauseInv, PCs
  <2>4. PauseTypes'
    BY <1>1, <2>2, <2>3 DEF PauseTypes, PauseInv, Proceeds
  <2>5. NothingFailsForLighting /\ AgreeAt(th[t]) => AgreeAt(c)'
    BY <1>1, <2>2, <2>3 DEF AgreeAt, Agreed, Torn
  <2>6. OrdinaryApp /\ JobKnown /\ JobAt(th[t]) => JobKnown' /\ JobAt(c)'
    BY <1>1, <2>2, <2>3 DEF JobAt, Pausing, JobOK, JobKnown
  <2>7. OrdinaryApp /\ InOrder(th[t]) => AskedInRow' /\ AskAt(c)'
    BY <1>1, <2>2, <2>3 DEF AskAt, Pausing, NothingDue, NoneForLeftover, AskedInRow, InOrder,
       JobAt, JobKnown, JobOK
  <2>8. QED
    BY <1>1, <2>3, <2>4, <2>5, <2>6, <2>7, ThreadStep
<1>4. QED
  BY <1>2, <1>3

\* The write-through: the expiry is reckoned anew, and later.
LEMMA WritePauseKeeps ==
  ASSUME PauseInv, NEW t \in Threads, WritePause(t)
  PROVE  PauseInv'
<1>1. /\ th[t].pc = "writePause" /\ UNCHANGED <<app, job, now, restarts, asked, untold, leftover>>
      /\ th[t] \in Phases /\ th[t].dur \in Nat /\ row \in Rows /\ now \in Nat
      /\ asked \in Asked
  BY LengthsAreNatural DEF history, WritePause, PauseInv, PauseTypes, Phases
<1>2. PICK c \in Phases : /\ Proceeds(t, c, th')
                          /\ IF th[t].dur > 0
                               THEN c.pc = "armJob" /\ c.dur = th[t].dur /\ c.bound = th[t].bound
                               ELSE c.pc = "idle"
  <2>1. "armJob" \in PCs
    BY DEF PCs
  <2>2. CASE th[t].dur > 0
    BY <2>1, <2>2, GotoProceeds DEF WritePause, PauseInv
  <2>3. CASE ~(th[t].dur > 0)
    BY <2>3, DoneProceeds, AtRest DEF WritePause, PauseInv
  <2>4. QED
    BY <2>2, <2>3
<1>3. /\ failures' \in 0 .. MaxFailures
      /\ \/ row' = row
         \/ row' = [row EXCEPT !.paused = TRUE, !.expires = Expiry(th[t].dur)]
  BY PauseAssumption DEF WritePause, Writes, Fails, PauseInv, PauseTypes
<1>4. /\ row' \in Rows /\ (row.paused => row'.paused)
      /\ \/ row'.expires = row.expires
         \/ row'.expires = IF th[t].dur > 0 THEN now + th[t].dur ELSE NoTime
  <2>1. PICK e : e = IF th[t].dur > 0 THEN now + th[t].dur ELSE NoTime
    OBVIOUS
  <2>2. CASE row' = [row EXCEPT !.paused = TRUE, !.expires = e]
    <3>1. e \in Times
      BY <1>1, <2>1 DEF Times
    <3>2. QED
      BY <1>1, <2>1, <2>2, <3>1 DEF Rows
  <2>3. QED
    BY <1>1, <1>3, <2>1, <2>2 DEF Expiry
<1>5. PauseTypes'
  BY <1>1, <1>2, <1>3, <1>4 DEF PauseTypes, PauseInv, Proceeds
<1>6. NothingFailsForLighting /\ AgreeAt(th[t]) => AgreeAt(c)'
  BY <1>1, <1>2, <1>4 DEF AgreeAt, Agreed, Torn, Rows
<1>7. OrdinaryApp /\ JobKnown /\ JobAt(th[t]) => JobKnown' /\ JobAt(c)'
  <2>1. job \in Times /\ row.expires \in Times
    BY <1>1 DEF PauseInv, PauseTypes, Rows
  <2>2. QED
    BY <1>1, <1>2, <1>4, <2>1 DEF JobAt, Pausing, JobOK, JobKnown, Times, NoTime
<1>8. OrdinaryApp /\ InOrder(th[t]) => AskedInRow' /\ AskAt(c)'
  BY <1>1, <1>2, <1>4 DEF AskAt, Pausing, NothingDue, NoneForLeftover, AskedInRow, JobAt, Asked,
     Rows, InOrder, JobKnown, JobOK
<1>9. QED
  BY <1>1, <1>2, <1>5, <1>6, <1>7, <1>8, ThreadStep

\* The job replaces the one of an earlier pause and is due after the row says so.
LEMMA ArmJobKeeps ==
  ASSUME PauseInv, NEW t \in Threads, ArmJob(t)
  PROVE  PauseInv'
<1>1. /\ th[t].pc = "armJob" /\ UNCHANGED <<row, now, failures, restarts, asked, untold>> /\ leftover' = FALSE
      /\ th[t] \in Phases /\ th[t].dur \in Nat /\ app \in Apps /\ now \in Nat
      /\ job' = now + th[t].dur /\ app' = [app EXCEPT !.armed = @ \/ th[t].bound] /\ Done(t)
  BY LengthsAreNatural DEF history, ArmJob, PauseInv, PauseTypes, Phases
<1>2. app' \in Apps /\ app'.up = app.up /\ app'.paused = app.paused /\ (th[t].bound => app'.armed)
  <2>1. th[t].bound \in BOOLEAN
    BY <1>1 DEF Phases
  <2>2. QED
    BY <1>1, <2>1 DEF Apps
<1>3. PICK c \in Phases : c = IdleThread
  BY AtRest
<1>4. Proceeds(t, c, th') /\ c.pc = "idle"
  BY <1>1, <1>3, DoneProceeds, AtRest DEF PauseInv
<1>5. PauseTypes'
  <2>1. leftover' \in BOOLEAN
    BY <1>1
  <2>2. QED
    BY <1>1, <1>2, <1>4, <2>1 DEF PauseTypes, PauseInv, Proceeds, Times
<1>6. NothingFailsForLighting /\ AgreeAt(th[t]) => AgreeAt(c)'
  BY <1>1, <1>2, <1>4 DEF AgreeAt, Agreed, Torn
<1>7. OrdinaryApp /\ JobKnown /\ JobAt(th[t]) => JobKnown' /\ JobAt(c)'
  BY <1>1, <1>2, <1>4 DEF JobAt, Pausing, JobOK, JobKnown
<1>8. OrdinaryApp /\ InOrder(th[t]) => AskedInRow' /\ AskAt(c)'
  BY <1>1, <1>4 DEF AskAt, Pausing, NothingDue, NoneForLeftover, AskedInRow, InOrder, JobAt,
     JobKnown, JobOK
<1>9. QED
  BY <1>1, <1>4, <1>5, <1>6, <1>7, <1>8, ThreadStep

\* An operation that begins and has changed nothing, or only what the proof of
\* its pc asks for.
LEMMA BeginKeeps ==
  ASSUME PauseInv, NEW t \in Threads, CanStart(t), NEW pc \in {"patchResume", "patchAuto"},
         th' = [th EXCEPT ![t] = [IdleThread EXCEPT !.pc = pc]],
         UNCHANGED <<row, now, failures, restarts, asked, untold, leftover>>,
         \/ UNCHANGED <<app, job>>
         \/ job' = NoTime /\ app' = [app EXCEPT !.armed = FALSE],
         pc = "patchAuto" /\ OrdinaryApp /\ JobOK /\ AskedInRow /\ NoneForLeftover => NothingDue
  PROVE  PauseInv'
<1>1. PICK c : c = [IdleThread EXCEPT !.pc = pc]
  OBVIOUS
<1>2. pc \in PCs /\ PauseTypes
  BY DEF PCs, PauseInv
<1>3. c \in Phases /\ c.pc = pc
  BY <1>1, <1>2, Beginnings
<1>4. Proceeds(t, c, th')
  BY <1>1, <1>2, <1>3, BeginProceeds
<1>5. /\ app' \in Apps /\ app'.up = app.up /\ app'.paused = app.paused /\ job' \in Times
      /\ job' # NoTime => job' = job /\ app' = app
  BY <1>2 DEF PauseTypes, Apps, Times
<1>6. PauseTypes'
  BY <1>2, <1>4, <1>5 DEF PauseTypes, Proceeds
<1>7. th[t].pc = "idle"
  BY DEF CanStart
<1>8. NothingFailsForLighting /\ AgreeAt(th[t]) => AgreeAt(c)'
  BY <1>3, <1>5, <1>7 DEF AgreeAt, Agreed, Torn
<1>9. OrdinaryApp /\ JobKnown /\ JobAt(th[t]) => JobKnown' /\ JobAt(c)'
  BY <1>3, <1>5, <1>7 DEF JobAt, Pausing, JobOK, JobKnown
<1>10. OrdinaryApp /\ InOrder(th[t]) => AskedInRow' /\ AskAt(c)'
  BY <1>3, <1>7 DEF AskAt, Pausing, NothingDue, NoneForLeftover, AskedInRow, JobAt, InOrder,
     JobKnown, JobOK
<1>11. QED
  BY <1>3, <1>4, <1>6, <1>8, <1>9, <1>10, ThreadStep

\* resume_instance, called by a user.
LEMMA ResumeKeeps ==
  ASSUME PauseInv, NEW t \in Users, Resume(t)
  PROVE  PauseInv'
<1>1. t \in Threads
  BY DEF Threads
<1>2. /\ CanStart(t) /\ UNCHANGED <<row, app, job, now, failures, restarts, asked, untold, leftover>>
      /\ th' = [th EXCEPT ![t] = [IdleThread EXCEPT !.pc = "patchResume"]]
  BY DEF history, Resume
<1>3. QED
  BY <1>1, <1>2, BeginKeeps

\* The job is due, hence so is the row: and what the user asked for is over.
LEMMA JobFiresKeeps ==
  ASSUME PauseInv, NEW t \in Workers, JobFires(t)
  PROVE  PauseInv'
<1>1. t \in Threads
  BY DEF Threads
<1>2. /\ CanStart(t) /\ UNCHANGED <<row, now, failures, restarts, asked, untold, leftover>>
      /\ job # NoTime /\ job <= now /\ job' = NoTime /\ app' = [app EXCEPT !.armed = FALSE]
      /\ th' = [th EXCEPT ![t] = [IdleThread EXCEPT !.pc = "patchAuto"]]
  BY DEF history, JobFires
<1>3. JobOK /\ AskedInRow /\ NoneForLeftover => NothingDue
  <2>1. /\ now \in Nat /\ job \in Times /\ row \in Rows /\ asked \in Asked
        /\ row.expires \in Times /\ asked.until \in Nat
        /\ asked.kind \in {"none", "until", "forever"}
    BY DEF PauseInv, PauseTypes, Rows, Asked
  <2>2. QED
    BY <1>2, <2>1 DEF JobOK, AskedInRow, NoneForLeftover, NothingDue, Times, NoTime
<1>4. QED
  BY <1>1, <1>2, <1>3, BeginKeeps

\* The reconciler has read that the row is due.
LEMMA ReconcileKeeps ==
  ASSUME PauseInv, NEW t \in Workers, Reconcile(t)
  PROVE  PauseInv'
<1>1. t \in Threads
  BY DEF Threads
<1>2. /\ CanStart(t) /\ UNCHANGED <<row, app, job, now, failures, restarts, asked, untold, leftover>>
      /\ row.expires # NoTime /\ row.expires <= now
      /\ th' = [th EXCEPT ![t] = [IdleThread EXCEPT !.pc = "patchAuto"]]
  BY DEF history, Reconcile, Expired
<1>3. AskedInRow => NothingDue
  <2>1. /\ now \in Nat /\ row.expires \in Times /\ asked.until \in Nat
        /\ asked.kind \in {"none", "until", "forever"}
    BY DEF PauseInv, PauseTypes, Rows, Asked
  <2>2. QED
    BY <1>2, <2>1 DEF AskedInRow, NothingDue, Times, NoTime
<1>4. QED
  BY <1>1, <1>2, <1>3, BeginKeeps

\* The manager's PATCH of a resume.
LEMMA PatchResumeKeeps ==
  ASSUME PauseInv, NEW t \in Threads, PatchResume(t)
  PROVE  PauseInv'
<1>1. /\ th[t].pc \in {"patchResume", "patchAuto"}
      /\ UNCHANGED <<app, job, now, failures, restarts, leftover>>
      /\ row' = NotPaused /\ untold' = FALSE /\ Goto(t, "callResume")
      /\ asked' = IF th[t].pc = "patchResume" THEN NoPromise ELSE asked
  BY DEF PatchResume
<1>2. "callResume" \in PCs /\ PauseTypes
  BY DEF PCs, PauseInv
<1>3. PICK c \in Phases : Proceeds(t, c, th') /\ c.pc = "callResume"
  BY <1>1, <1>2, GotoProceeds
<1>4. row' \in Rows /\ asked' \in Asked
  BY <1>1, <1>2, AtRest DEF PauseTypes, NoPromise, Asked
<1>5. PauseTypes'
  BY <1>1, <1>2, <1>3, <1>4 DEF PauseTypes, Proceeds
<1>6. NothingFailsForLighting /\ AgreeAt(th[t]) => AgreeAt(c)'
  BY <1>1, <1>3 DEF AgreeAt, Torn, NotPaused
<1>7. OrdinaryApp /\ JobKnown /\ JobAt(th[t]) => JobKnown' /\ JobAt(c)'
  BY <1>1, <1>3 DEF JobAt, Pausing, JobKnown
<1>8. OrdinaryApp /\ InOrder(th[t]) => AskedInRow' /\ AskAt(c)'
  <2>1. now \in Nat /\ asked.until \in Nat
    BY <1>2 DEF PauseTypes, Asked
  <2>2. QED
    BY <1>1, <1>3, <2>1 DEF NoPromise, AskAt, Pausing, NothingDue, NoneForLeftover, AskedInRow,
       InOrder
<1>9. QED
  BY <1>1, <1>3, <1>5, <1>6, <1>7, <1>8, ThreadStep

\* The object is told; the write-through and the job follow.
LEMMA CallResumeKeeps ==
  ASSUME PauseInv, NEW t \in Threads, CallResume(t)
  PROVE  PauseInv'
<1>1. th[t].pc = "callResume" /\ UNCHANGED <<row, job, now, failures, restarts, asked, untold, leftover>>
  BY DEF history, CallResume
<1>2. CASE ~app.up
  <2>1. OrdinaryApp /\ JobKnown => JobOK /\ NoneForLeftover
    BY <1>2 DEF JobKnown, JobOK, NoneForLeftover
  <2>2. Done(t) /\ UNCHANGED app
    BY <1>2 DEF CallResume
  <2>3. QED
    BY <1>1, <1>2, <2>1, <2>2, EndKeeps DEF Agreed, InOrder
<1>3. CASE app.up
  <2>1. PICK pc \in {"cancelJob", "writeResume"}, r \in Reasons :
          /\ app' = [app EXCEPT !.paused = FALSE, !.reason = r]
          /\ th' = [th EXCEPT ![t].pc = pc, ![t].bound = TRUE]
    <3>1. app.reason \in Reasons
      BY DEF PauseInv, PauseTypes, Apps
    <3>2. PICK pc, r : /\ pc = IF Lighting THEN "cancelJob" ELSE "writeResume"
                       /\ r = IF Lighting THEN app.reason ELSE "none"
      OBVIOUS
    <3>3. pc \in {"cancelJob", "writeResume"} /\ r \in Reasons
      BY <3>1, <3>2 DEF Reasons
    <3>4. app' = [app EXCEPT !.paused = FALSE, !.reason = r]
      BY <1>3, <3>2 DEF CallResume
    <3>5. th' = [th EXCEPT ![t].pc = pc, ![t].bound = TRUE]
      BY <1>3, <3>2 DEF CallResume
    <3>6. QED
      BY <3>3, <3>4, <3>5
  <2>2. pc \in PCs /\ PauseTypes /\ app \in Apps
    BY <2>1 DEF PauseInv, PauseTypes, PCs
  <2>3. app' \in Apps /\ app'.up /\ ~app'.paused /\ app'.armed = app.armed
    BY <1>3, <2>1, <2>2 DEF Apps
  <2>4. PICK c \in Phases : Proceeds(t, c, th') /\ c.pc = pc /\ c.bound
    BY <2>1, <2>2, BindProceeds
  <2>5. PauseTypes'
    BY <1>1, <2>2, <2>3, <2>4 DEF PauseTypes, Proceeds
  <2>6. NothingFailsForLighting /\ AgreeAt(th[t]) => AgreeAt(c)'
    <3>1. row.paused \in BOOLEAN /\ app'.paused \in BOOLEAN
      BY <2>2, <2>3 DEF PauseTypes, Rows, Apps
    <3>2. QED
      BY <1>1, <2>1, <2>3, <2>4, <3>1 DEF AgreeAt, Agreed, Torn
  <2>7. OrdinaryApp /\ JobKnown /\ JobAt(th[t]) => JobKnown' /\ JobAt(c)'
    BY <1>1, <2>1, <2>3, <2>4 DEF JobAt, Pausing, JobOK, JobKnown
  <2>8. OrdinaryApp /\ InOrder(th[t]) => AskedInRow' /\ AskAt(c)'
    BY <1>1, <2>1, <2>4 DEF AskAt, Pausing, NothingDue, NoneForLeftover, AskedInRow, InOrder,
       JobAt, JobKnown, JobOK
  <2>9. QED
    BY <1>1, <2>4, <2>5, <2>6, <2>7, <2>8, ThreadStep
<1>4. QED
  BY <1>2, <1>3

\* The write-through of the resume, and its job.
LEMMA WriteResumeKeeps ==
  ASSUME PauseInv, NEW t \in Threads, WriteResume(t)
  PROVE  PauseInv'
<1>1. /\ th[t].pc = "writeResume" /\ UNCHANGED <<app, job, now, restarts, asked, untold, leftover>>
      /\ Goto(t, "cancelJob") /\ row' \in {row, NotPaused} /\ failures' \in 0 .. MaxFailures
  BY PauseAssumption DEF history, WriteResume, Writes, Fails, PauseInv, PauseTypes
<1>2. "cancelJob" \in PCs /\ PauseTypes
  BY DEF PCs, PauseInv
<1>3. PICK c \in Phases : Proceeds(t, c, th') /\ c.pc = "cancelJob" /\ c.bound = th[t].bound
  BY <1>1, <1>2, GotoProceeds
<1>4. PauseTypes'
  BY <1>1, <1>2, <1>3, AtRest DEF PauseTypes, Proceeds
<1>5. NothingFailsForLighting /\ AgreeAt(th[t]) => AgreeAt(c)'
  <2>1. NotPaused.paused = FALSE /\ row.paused \in BOOLEAN
    BY <1>2 DEF NotPaused, PauseTypes, Rows
  <2>2. QED
    BY <1>1, <1>3, <2>1 DEF AgreeAt, Agreed, Torn
<1>6. OrdinaryApp /\ JobKnown /\ JobAt(th[t]) => JobKnown' /\ JobAt(c)'
  BY <1>1, <1>3 DEF JobAt, Pausing, JobKnown
<1>7. OrdinaryApp /\ InOrder(th[t]) => AskedInRow' /\ AskAt(c)'
  BY <1>1, <1>3 DEF AskAt, Pausing, NothingDue, NoneForLeftover, AskedInRow, JobAt, InOrder,
     JobKnown, JobOK
<1>8. QED
  BY <1>1, <1>3, <1>4, <1>5, <1>6, <1>7, ThreadStep

\* The object knows of every job there is, so that none is left.
LEMMA CancelJobKeeps ==
  ASSUME PauseInv, NEW t \in Threads, CancelJob(t)
  PROVE  PauseInv'
<1>1. /\ th[t].pc = "cancelJob" /\ UNCHANGED <<row, now, failures, restarts, asked, untold, leftover>>
      /\ Done(t) /\ app' = [app EXCEPT !.armed = @ /\ ~th[t].bound]
      /\ job' \in {job, NoTime} /\ (th[t].bound /\ app.armed => job' = NoTime)
  BY DEF history, CancelJob
<1>2. PauseTypes /\ app \in Apps
  BY DEF PauseInv, PauseTypes
<1>3. app' \in Apps /\ app'.up = app.up /\ app'.paused = app.paused
  BY <1>1, <1>2 DEF Apps
<1>4. PICK c \in Phases : c = IdleThread
  BY AtRest
<1>5. Proceeds(t, c, th') /\ c.pc = "idle"
  BY <1>1, <1>2, <1>4, DoneProceeds, AtRest
<1>6. PauseTypes'
  BY <1>1, <1>2, <1>3, <1>5 DEF PauseTypes, Proceeds, Times
<1>7. NothingFailsForLighting /\ AgreeAt(th[t]) => AgreeAt(c)'
  BY <1>1, <1>3, <1>5 DEF AgreeAt, Agreed, Torn
<1>8. OrdinaryApp /\ JobKnown /\ JobAt(th[t]) => JobKnown' /\ JobAt(c)'
  BY <1>1, <1>5 DEF JobAt, Pausing, JobOK, JobKnown
<1>9. OrdinaryApp /\ InOrder(th[t]) => AskedInRow' /\ AskAt(c)'
  BY <1>1, <1>5 DEF AskAt, Pausing, NothingDue, NoneForLeftover, AskedInRow, InOrder, JobAt,
     JobKnown, JobOK
<1>10. QED
  BY <1>1, <1>5, <1>6, <1>7, <1>8, <1>9, ThreadStep

\* Exclusion modes exist for the lighting app only: they write the object first.
LEMMA ExclusionKeeps ==
  ASSUME PauseInv, NEW t \in Users, EnterExclusionMode(t) \/ LeaveExclusionMode(t)
  PROVE  PauseInv'
<1>1. PICK pc \in {"patchExcluded", "patchIncluded"}, r \in Reasons :
        /\ Lighting /\ CanStart(t) /\ UNCHANGED <<row, job, now, failures, restarts, asked, untold, leftover>>
        /\ app' = [app EXCEPT !.paused = (pc = "patchExcluded"), !.reason = r]
        /\ th' = [th EXCEPT ![t] = [IdleThread EXCEPT !.pc = pc]]
  <2>1. "mode" \in Reasons /\ "none" \in Reasons
    BY DEF Reasons
  <2>2. CASE EnterExclusionMode(t)
    <3>1. PICK pc : pc = "patchExcluded"
      OBVIOUS
    <3>2. app' = [app EXCEPT !.paused = (pc = "patchExcluded"), !.reason = "mode"]
      BY <2>2, <3>1 DEF EnterExclusionMode, history
    <3>3. QED
      BY <2>1, <2>2, <3>1, <3>2 DEF EnterExclusionMode, history
  <2>3. CASE LeaveExclusionMode(t)
    <3>1. PICK pc : pc = "patchIncluded"
      OBVIOUS
    <3>2. app' = [app EXCEPT !.paused = (pc = "patchExcluded"), !.reason = "none"]
      BY <2>3, <3>1 DEF LeaveExclusionMode, history
    <3>3. QED
      BY <2>1, <2>3, <3>1, <3>2 DEF LeaveExclusionMode, history
  <2>4. QED
    BY <2>2, <2>3
<1>2. t \in Threads /\ pc \in PCs /\ PauseTypes /\ app \in Apps /\ th[t].pc = "idle"
  BY <1>1 DEF Threads, PCs, PauseInv, PauseTypes, CanStart
<1>3. app' \in Apps /\ app'.paused = (pc = "patchExcluded")
  BY <1>1, <1>2 DEF Apps
<1>4. PICK c : c = [IdleThread EXCEPT !.pc = pc]
  OBVIOUS
<1>5. c \in Phases /\ c.pc = pc
  BY <1>2, <1>4, Beginnings
<1>6. Proceeds(t, c, th')
  BY <1>1, <1>2, <1>4, <1>5, BeginProceeds
<1>7. PauseTypes'
  BY <1>1, <1>2, <1>3, <1>6 DEF PauseTypes, Proceeds
<1>8. AgreeAt(c)'
  BY <1>1, <1>3, <1>5 DEF AgreeAt, Torn
<1>9. ~OrdinaryApp
  BY <1>1 DEF OrdinaryApp
<1>10. QED
  BY <1>1, <1>2, <1>5, <1>6, <1>7, <1>8, <1>9, ThreadStep

\* And the row after it; where that fails, object and row part.
LEMMA PatchModeKeeps ==
  ASSUME PauseInv, NEW t \in Threads, PatchMode(t)
  PROVE  PauseInv'
<1>1. /\ th[t].pc \in {"patchExcluded", "patchIncluded"} /\ UNCHANGED <<app, job, now, restarts, asked, untold, leftover>>
      /\ Done(t)
  BY DEF history, PatchMode
<1>2. PauseTypes /\ row \in Rows
  BY DEF PauseInv, PauseTypes
<1>3. PICK c \in Phases : c = IdleThread
  BY AtRest
<1>4. Proceeds(t, c, th') /\ c.pc = "idle"
  BY <1>1, <1>2, <1>3, DoneProceeds, AtRest
<1>5. /\ \/ /\ row' = IF th[t].pc = "patchExcluded"
                      THEN [row EXCEPT !.paused = TRUE, !.reason = "mode"]
                      ELSE [row EXCEPT !.paused = FALSE, !.reason = "none"]
         \/ row' = row /\ Fails
      /\ failures' \in 0 .. MaxFailures
  BY <1>2, PauseAssumption DEF PatchMode, Writes, Fails, PauseTypes
<1>6. row' \in Rows /\ app.paused \in BOOLEAN
  BY <1>1, <1>2, <1>5 DEF Rows, Reasons, PauseTypes, Apps
<1>7. PauseTypes'
  BY <1>1, <1>2, <1>4, <1>5, <1>6 DEF PauseTypes, Proceeds
<1>8. NothingFailsForLighting /\ AgreeAt(th[t]) => AgreeAt(c)'
  <2>1. ASSUME NothingFailsForLighting, AgreeAt(th[t]) PROVE Agreed'
    <3>1. ~Fails
      BY <1>1, <1>2, <2>1 DEF NothingFailsForLighting, AgreeAt, Fails, PauseTypes
    <3>2. row'.paused = (th[t].pc = "patchExcluded")
      BY <1>1, <1>2, <1>5, <3>1 DEF Rows
    <3>3. QED
      BY <1>1, <1>6, <2>1, <3>2 DEF AgreeAt, Agreed
  <2>2. QED
    BY <1>4, <2>1 DEF AgreeAt, Torn
<1>9. OrdinaryApp => ~JobAt(th[t])
  BY <1>1 DEF JobAt, Pausing
<1>10. QED
  BY <1>1, <1>4, <1>7, <1>8, <1>9, ThreadStep DEF InOrder

-----------------------------------------------------------------------------
(* Stopping, starting, restarting, and what no thread does.                *)

\* stop_instance: the jobs of the instance go with the object.
LEMMA StopKeeps ==
  ASSUME PauseInv, NEW t \in Users, Stop(t)
  PROVE  PauseInv'
<1>1. /\ CanStart(t) /\ th[t].pc = "idle" /\ UNCHANGED <<row, now, failures, restarts, asked, untold, leftover>>
      /\ job' = NoTime /\ app' = Stopped /\ th' = Unbound
  BY DEF history, Stop, CanStart
<1>2. t \in Threads /\ PauseTypes
  BY DEF Threads, PauseInv
<1>3. app' \in Apps /\ ~app'.up
  BY <1>1, <1>2 DEF Stopped, Apps, PauseTypes, Reasons
<1>4. PICK c \in Phases : c = th'[t]
  BY <1>1, <1>2, UnboundThreads
<1>5. Proceeds(t, c, th') /\ c.pc = "idle"
  BY <1>1, <1>2, <1>4, UnboundThreads DEF Proceeds
<1>6. PauseTypes'
  BY <1>1, <1>2, <1>3, <1>5 DEF PauseTypes, Proceeds, Times
<1>7. AgreeAt(c)'
  BY <1>3, <1>5 DEF AgreeAt, Agreed, Torn
<1>8. JobKnown' /\ JobAt(c)'
  BY <1>1, <1>5 DEF JobKnown, JobAt, JobOK, Pausing
<1>9. OrdinaryApp /\ InOrder(th[t]) => AskedInRow' /\ AskAt(c)'
  BY <1>1, <1>5 DEF AskedInRow, AskAt, InOrder, JobAt, JobKnown, JobOK, Pausing, NothingDue,
     NoneForLeftover
<1>10. QED
  BY <1>1, <1>2, <1>5, <1>6, <1>7, <1>8, <1>9, ThreadStep

\* A start stops first and then reads the row.
LEMMA StartRequestKeeps ==
  ASSUME PauseInv, NEW t \in Users, StartRequest(t)
  PROVE  PauseInv'
<1>1. /\ CanStart(t) /\ th[t].pc = "idle" /\ UNCHANGED <<row, now, failures, restarts, asked, untold, leftover>>
      /\ job' = (IF app.up THEN NoTime ELSE job) /\ app' = Stopped
      /\ th' = [Unbound EXCEPT ![t].pc = "fetch"]
  BY DEF history, StartRequest, CanStart
<1>2. t \in Threads /\ PauseTypes /\ "fetch" \in PCs
  BY DEF Threads, PauseInv, PCs
<1>3. app' \in Apps /\ ~app'.up
  BY <1>1, <1>2 DEF Stopped, Apps, PauseTypes, Reasons
<1>4. PICK c : c = [Unbound[t] EXCEPT !.pc = "fetch"]
  OBVIOUS
<1>5. Unbound[t] \in Phases
  BY <1>2, UnboundThreads
<1>6. c \in Phases
  BY <1>2, <1>4, <1>5, PhaseUpdates, AtRest DEF Phases
<1>7. c.pc = "fetch"
  BY <1>4, <1>5 DEF Phases
<1>8. th' = [Unbound EXCEPT ![t] = c]
  BY <1>1, <1>4
<1>9. Proceeds(t, c, th')
  BY <1>2, <1>6, <1>8, UnboundThreads DEF Proceeds
<1>10. PauseTypes'
  BY <1>1, <1>2, <1>3, <1>9 DEF PauseTypes, Proceeds, Times
<1>11. AgreeAt(c)'
  BY <1>3, <1>7 DEF AgreeAt, Agreed, Torn
<1>12. JobKnown /\ JobAt(th[t]) => JobKnown' /\ JobAt(c)'
  BY <1>1, <1>7 DEF JobKnown, JobAt, JobOK, Pausing
<1>13. OrdinaryApp /\ InOrder(th[t]) => AskedInRow' /\ AskAt(c)'
  BY <1>1, <1>7 DEF AskedInRow, AskAt, InOrder, JobAt, JobKnown, JobOK, Pausing, NothingDue,
     NoneForLeftover
<1>14. QED
  BY <1>1, <1>2, <1>6, <1>9, <1>10, <1>11, <1>12, <1>13, ThreadStep

\* revive_dead_instances finds a stopped instance, which has no job.
LEMMA ReviveKeeps ==
  ASSUME PauseInv, NEW t \in Workers, Revive(t)
  PROVE  PauseInv'
<1>1. /\ CanStart(t) /\ th[t].pc = "idle" /\ UNCHANGED <<row, app, job, now, failures, restarts, asked, untold, leftover>>
      /\ ~app.up /\ Goto(t, "fetch")
  BY DEF history, Revive, CanStart
<1>2. t \in Threads /\ PauseTypes /\ "fetch" \in PCs
  BY DEF Threads, PauseInv, PCs
<1>3. PICK c \in Phases : Proceeds(t, c, th') /\ c.pc = "fetch"
  BY <1>1, <1>2, GotoProceeds
<1>4. PauseTypes'
  BY <1>1, <1>2, <1>3 DEF PauseTypes, Proceeds
<1>5. AgreeAt(c)'
  BY <1>1, <1>3 DEF AgreeAt, Agreed, Torn
<1>6. JobKnown => JobKnown' /\ JobAt(c)'
  BY <1>1, <1>3 DEF JobKnown, JobAt, Pausing
<1>7. OrdinaryApp /\ InOrder(th[t]) => AskedInRow' /\ AskAt(c)'
  BY <1>1, <1>3 DEF AskedInRow, AskAt, InOrder, JobAt, JobKnown, JobOK, Pausing, NothingDue,
     NoneForLeftover
<1>8. QED
  BY <1>1, <1>2, <1>3, <1>4, <1>5, <1>6, <1>7, ThreadStep

\* What a start has read is still the row when it loads it.
LEMMA FetchKeeps ==
  ASSUME PauseInv, NEW t \in Threads, Fetch(t)
  PROVE  PauseInv'
<1>1. th[t].pc = "fetch" /\ UNCHANGED <<row, app, job, now, restarts, asked, untold, leftover>>
  BY DEF history, Fetch
<1>2. CASE Fails /\ Done(t)
  BY <1>1, <1>2, EndKeeps DEF AgreeAt, JobAt, AskAt, InOrder, JobOK, Torn, Pausing, NothingDue,
     NoneForLeftover
<1>3. CASE th' = [th EXCEPT ![t].pc = "start", ![t].snap = row] /\ UNCHANGED failures
  <2>1. PauseTypes /\ "start" \in PCs /\ row \in Rows /\ th[t] \in Phases
    BY DEF PauseInv, PauseTypes, PCs
  <2>2. PICK c : c = [th[t] EXCEPT !.pc = "start", !.snap = row]
    OBVIOUS
  <2>3. c \in Phases
    BY <2>1, <2>2, PhaseUpdates, AtRest DEF Phases
  <2>4. c.pc = "start" /\ c.snap = row
    BY <2>1, <2>2 DEF Phases
  <2>5. th' = [th EXCEPT ![t] = c]
    BY <1>3, <2>1, <2>2 DEF PauseTypes
  <2>6. Proceeds(t, c, th')
    BY <2>1, <2>3, <2>5, BeginProceeds
  <2>7. PauseTypes'
    BY <1>1, <1>3, <2>1, <2>6 DEF PauseTypes, Proceeds
  <2>8. NothingFailsForLighting /\ AgreeAt(th[t]) => AgreeAt(c)'
    BY <1>1, <2>4 DEF AgreeAt, Agreed, Torn
  <2>9. OrdinaryApp /\ JobKnown /\ JobAt(th[t]) => JobKnown' /\ JobAt(c)'
    BY <1>1, <2>4 DEF JobAt, Pausing, JobKnown
  <2>10. OrdinaryApp /\ InOrder(th[t]) => AskedInRow' /\ AskAt(c)'
    BY <1>1, <2>4 DEF AskAt, Pausing, NothingDue, NoneForLeftover, AskedInRow, InOrder, JobAt,
       JobKnown, JobOK
  <2>11. QED
    BY <1>1, <2>3, <2>6, <2>7, <2>8, <2>9, <2>10, ThreadStep
<1>4. QED
  BY <1>2, <1>3 DEF Fetch

\* The object takes its pause from the row that was read.
LEMMA StartKeeps ==
  ASSUME PauseInv, NEW t \in Threads, Start(t)
  PROVE  PauseInv'
<1>1. /\ th[t].pc = "start" /\ UNCHANGED <<row, job, now, failures, restarts, asked, leftover>> /\ untold' = FALSE
      /\ app' = Loaded(th[t].snap) /\ th' = [Unbound EXCEPT ![t] = IdleThread]
  BY DEF history, Start
<1>2. PauseTypes /\ th[t].snap \in Rows
  BY DEF PauseInv, PauseTypes, Phases
<1>3. app' \in Apps /\ app'.paused = th[t].snap.paused
  BY <1>1, <1>2 DEF Loaded, Apps, Rows
<1>4. PICK c \in Phases : c = IdleThread
  BY AtRest
<1>5. Proceeds(t, c, th') /\ c.pc = "idle"
  BY <1>1, <1>2, <1>4, UnboundThreads, AtRest DEF Proceeds
<1>6. PauseTypes'
  BY <1>1, <1>2, <1>3, <1>5 DEF PauseTypes, Proceeds
<1>7. AgreeAt(th[t]) => AgreeAt(c)'
  BY <1>1, <1>3, <1>5 DEF AgreeAt, Agreed, Torn
<1>8. JobAt(th[t]) => JobKnown' /\ JobAt(c)'
  BY <1>1, <1>5 DEF JobKnown, JobAt, JobOK, Pausing
<1>9. OrdinaryApp /\ InOrder(th[t]) => AskedInRow' /\ AskAt(c)'
  BY <1>1, <1>5 DEF AskedInRow, AskAt, InOrder, JobAt, JobKnown, JobOK, Pausing, NothingDue,
     NoneForLeftover
<1>10. QED
  BY <1>1, <1>5, <1>6, <1>7, <1>8, <1>9, ThreadStep

\* A new process: every object is loaded from its row, and no job is armed.
LEMMA RestartKeeps ==
  ASSUME PauseInv, Restart
  PROVE  PauseInv'
<1>1. /\ restarts' = restarts + 1 /\ restarts < MaxRestarts /\ app' = Loaded(row) /\ job' = NoTime
      /\ th' = [t \in Threads |-> IdleThread] 
      /\ UNCHANGED <<row, now, failures, asked, leftover>> /\ untold' = FALSE
  BY DEF Restart
<1>2. PauseTypes /\ row \in Rows
  BY DEF PauseInv, PauseTypes
<1>3. app' \in Apps /\ app'.paused = row.paused
  BY <1>1, <1>2 DEF Loaded, Apps, Rows
<1>4. \A t \in Threads : th'[t] \in Phases /\ th'[t].pc = "idle"
  BY <1>1, AtRest
<1>5. PauseTypes'
  <2>1. th' \in [Threads -> Phases]
    BY <1>1, AtRest
  <2>2. restarts' \in 0 .. MaxRestarts
    BY <1>1, <1>2, PauseAssumption DEF PauseTypes
  <2>3. QED
    BY <1>1, <1>2, <1>3, <2>1, <2>2 DEF PauseTypes, Times
<1>6. OneAtWork'
  BY <1>4 DEF OneAtWork
<1>7. AgreeInv'
  BY <1>1, <1>3, <1>4 DEF AgreeInv, AgreeAt, Agreed, Torn
<1>8. JobInv'
  BY <1>1, <1>4 DEF JobInv, JobKnown, JobAt, JobOK, Pausing
<1>9. AskInv => AskInv'
  BY <1>1, <1>4 DEF AskInv, AskedInRow, AskAt, Pausing, NothingDue, NoneForLeftover
<1>10. QED
  BY <1>5, <1>6, <1>7, <1>8, <1>9 DEF PauseInv

\* A dropped job: the reconciler will see to the row.
LEMMA JobMisfiresKeeps ==
  ASSUME PauseInv, JobMisfires
  PROVE  PauseInv'
<1>1. job' = NoTime /\ UNCHANGED <<row, app, th, now, failures, restarts, asked, untold, leftover>>
  BY DEF history, JobMisfires
<1>2. PauseTypes'
  BY <1>1 DEF PauseInv, PauseTypes, Times
<1>3. OneAtWork' = OneAtWork /\ AgreeInv' = AgreeInv /\ (AskInv => AskInv')
  BY <1>1 DEF OneAtWork, AgreeInv, Alone, AgreeAt, Agreed, AskInv, AskedInRow, AskAt, Pausing,
     NothingDue, NoneForLeftover
<1>4. JobInv => JobInv'
  <2>1. \A t \in Threads : Alone(t)' = Alone(t) /\ th'[t] = th[t]
    BY <1>1 DEF Alone
  <2>2. ASSUME NEW t \in Threads, JobAt(th[t]) PROVE JobAt(th[t])'
    BY <1>1, <2>2 DEF JobAt, Pausing, JobOK
  <2>3. JobKnown'
    BY <1>1 DEF JobKnown
  <2>4. QED
    BY <2>1, <2>2, <2>3 DEF JobInv
<1>5. QED
  BY <1>2, <1>3, <1>4 DEF PauseInv

\* Time only makes what is to come later than what has been written.
LEMMA TimePasses ==
  ASSUME PauseInv, Tick
  PROVE  PauseInv'
<1>1. now' = now + 1 /\ UNCHANGED <<row, app, job, th, failures, restarts, asked, untold, leftover>>
  BY DEF history, Tick
<1>2. PauseTypes /\ PauseTypes'
  BY <1>1 DEF PauseInv, PauseTypes
<1>3. OneAtWork' = OneAtWork /\ AgreeInv' = AgreeInv
  BY <1>1 DEF OneAtWork, AgreeInv, Alone, AgreeAt, Agreed
<1>4. \A t \in Threads : /\ Alone(t)' = Alone(t) /\ th'[t] = th[t]
                         /\ th[t].dur \in Nat
  BY <1>1, <1>2, LengthsAreNatural DEF Alone, PauseTypes, Phases
<1>5. now \in Nat /\ asked.until \in Nat /\ row.expires \in Int
  BY <1>2 DEF PauseTypes, Asked, Rows, Times, NoTime
<1>6. JobInv => JobInv'
  <2>1. ASSUME NEW t \in Threads, JobAt(th[t]) PROVE JobAt(th[t])'
    BY <1>1, <1>4, <1>5, <2>1 DEF JobAt, Pausing, JobOK
  <2>2. JobKnown => JobKnown'
    BY <1>1 DEF JobKnown
  <2>3. QED
    BY <1>4, <2>1, <2>2 DEF JobInv
<1>7. AskInv => AskInv'
  <2>1. ASSUME NEW t \in Threads, AskAt(th[t]) PROVE AskAt(th[t])'
    BY <1>1, <1>4, <1>5, <2>1 DEF AskAt, Pausing, NothingDue, NoneForLeftover
  <2>2. AskedInRow => AskedInRow'
    BY <1>1, <1>5 DEF AskedInRow
  <2>3. QED
    BY <1>4, <2>1, <2>2 DEF AskInv
<1>8. QED
  BY <1>2, <1>3, <1>6, <1>7 DEF PauseInv

-----------------------------------------------------------------------------
(* The invariant, and what it shows.                                       *)

\* An instance begins with row, object and job in agreement.
LEMMA PauseInvInit == Init => PauseInv
<1> SUFFICES ASSUME Init PROVE PauseInv
  OBVIOUS
<1>1. \A t \in Threads : th[t] = IdleThread /\ th[t].pc = "idle"
  BY AtRest DEF Init
<1>2. PauseTypes
  <2>1. th \in [Threads -> Phases] /\ row \in Rows
    BY AtRest DEF Init
  <2>2. app \in Apps /\ job \in Times /\ asked \in Asked /\ untold \in BOOLEAN /\ leftover \in BOOLEAN
    BY DEF Init, NoPromise, Apps, Times, Asked, Reasons
  <2>3. now \in Nat /\ failures \in 0 .. MaxFailures /\ restarts \in 0 .. MaxRestarts
    BY PauseAssumption DEF Init
  <2>4. QED
    BY <2>1, <2>2, <2>3 DEF PauseTypes
<1>3. app.paused = row.paused /\ job = NoTime /\ asked.kind = "none"
  BY DEF Init, NotPaused, NoPromise
<1>4. OneAtWork /\ AgreeInv
  BY <1>1, <1>3 DEF OneAtWork, AgreeInv, AgreeAt, Agreed, Torn
<1>5. JobInv /\ AskInv
  BY <1>1, <1>3 DEF JobInv, JobKnown, JobAt, JobOK, AskInv, AskedInRow, AskAt, Pausing, NothingDue,
     NoneForLeftover
<1>6. QED
  BY <1>2, <1>4, <1>5 DEF PauseInv

\* Every step keeps the invariant.
LEMMA PauseInvStep == PauseInv /\ [Next]_vars => PauseInv'
<1> SUFFICES ASSUME PauseInv, [Next]_vars PROVE PauseInv'
  OBVIOUS
<1>1. ASSUME NEW u \in Users,
             \/ \E d \in Durations : Pause(u, d)
             \/ Resume(u) \/ EnterExclusionMode(u) \/ LeaveExclusionMode(u)
             \/ Stop(u) \/ StartRequest(u)
      PROVE  PauseInv'
  BY <1>1, PauseKeeps, ResumeKeeps, ExclusionKeeps, StopKeeps, StartRequestKeeps
<1>2. ASSUME NEW w \in Workers, JobFires(w) \/ Reconcile(w) \/ Revive(w) PROVE PauseInv'
  BY <1>2, JobFiresKeeps, ReconcileKeeps, ReviveKeeps
<1>3. ASSUME NEW t \in Threads, Continue(t) PROVE PauseInv'
  BY <1>3, PatchPauseKeeps, CallPauseKeeps, WritePauseKeeps, PatchRefusedKeeps,
     PatchUnansweredKeeps, ArmJobKeeps, PatchResumeKeeps,
     CallResumeKeeps, WriteResumeKeeps, CancelJobKeeps, PatchModeKeeps, FetchKeeps, StartKeeps
     DEF Continue
<1>4. CASE JobMisfires \/ Restart \/ Tick
  BY <1>4, JobMisfiresKeeps, RestartKeeps, TimePasses
<1>5. CASE UNCHANGED vars
  BY <1>5 DEF vars, history, PauseInv, PauseTypes, OneAtWork, Alone, AgreeInv, AgreeAt, Agreed,
     JobInv, JobAt, JobOK, JobKnown, AskInv, AskAt, AskedInRow, Pausing, NothingDue, NoneForLeftover
<1>6. QED
  BY <1>1, <1>2, <1>3, <1>4, <1>5 DEF Next

\* PauseInv holds in every state; the theorems below read it off.
LEMMA PauseInvariant == Spec => []PauseInv
BY PauseInvInit, PauseInvStep, PTL DEF Spec

\* Type correctness, with overlapping operations too: the row, the object, the
\* job and what each thread is at (services/instance_manager.py).
THEOREM PauseTyped == Spec => []TypeOK
<1>1. PauseInv => TypeOK
  BY PauseTypesAreTypeOK DEF PauseInv
<1>2. QED
  BY <1>1, PauseInvariant, PTL

\* Between operations every thread is alone.
LEMMA QuiescentIsAlone ==
  ASSUME Quiescent
  PROVE  \E t \in Threads : Alone(t) /\ th[t].pc = "idle"
BY ThreadAssumption DEF Quiescent, Alone, Threads

\* pause_instance, resume_instance, stop_instance and _start_from_db, one after
\* the other, leave the object and its row in agreement, whichever database call
\* is refused, except while the row was changed by a PATCH of the manager whose
\* reply was lost: nothing tells the object, until the next PATCH that is
\* answered, start or restart.  For the lighting app, whose mode changes write
\* the object first, it holds as long as no call fails.
THEOREM MemoryAgrees ==
  ~Overlap /\ (Lighting => MaxFailures = 0) => (Spec => []MemoryMatchesRow)
<1> SUFFICES ASSUME ~Overlap, Lighting => MaxFailures = 0
             PROVE  Spec => []MemoryMatchesRow
  OBVIOUS
<1>1. PauseInv => MemoryMatchesRow
  <2> SUFFICES ASSUME PauseInv, Quiescent PROVE Agreed
    BY DEF MemoryMatchesRow, Agreed
  <2>1. AgreeInv
    BY DEF PauseInv, NothingFailsForLighting
  <2>2. QED
    BY <2>1, QuiescentIsAlone DEF AgreeInv, AgreeAt, Torn
<1>2. QED
  BY <1>1, PauseInvariant, PTL

\* A pending auto_resume job belongs to the timed pause in force and does not come
\* before its expiry: resume() and stop cancel the job there is, and the pause()
\* of a timed pause arms its own in its place.  Not covered are a job left over
\* by an indefinite pause, whose pause() neither cancels nor replaces it, and a
\* row written by a PATCH whose reply was lost.
THEOREM JobsBelong == ~Overlap /\ ~Lighting => (Spec => []JobBelongsToPause)
<1> SUFFICES ASSUME ~Overlap, ~Lighting PROVE Spec => []JobBelongsToPause
  OBVIOUS
<1>1. PauseInv => JobBelongsToPause
  <2> SUFFICES ASSUME PauseInv, Quiescent PROVE JobOK
    BY DEF JobBelongsToPause, JobOK
  <2>1. JobInv
    BY DEF PauseInv, OrdinaryApp
  <2>2. QED
    BY <2>1, QuiescentIsAlone DEF JobInv, JobAt, Pausing
<1>2. QED
  BY <1>1, PauseInvariant, PTL

\* A timed pause whose PATCH was answered lasts until its time or until the user
\* resumes, and an indefinite one that found no expiry and no job until the user
\* resumes: neither a job, a reconciler pass, a restart nor a failed call ends it
\* early.
THEOREM PausesHold == ~Overlap /\ ~Lighting => (Spec => []PauseHolds)
<1> SUFFICES ASSUME ~Overlap, ~Lighting PROVE Spec => []PauseHolds
  OBVIOUS
<1>1. PauseInv => PauseHolds
  BY DEF PauseInv, OrdinaryApp, AskInv, AskedInRow, PauseHolds
<1>2. QED
  BY <1>1, PauseInvariant, PTL
=============================================================================

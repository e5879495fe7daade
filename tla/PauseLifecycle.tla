--------------------------- MODULE PauseLifecycle ---------------------------
(***************************************************************************)
(* Pausing one app instance.  The pause is kept three times: in the row of *)
(* app_instances, in the running app object, and, for a timed pause, as a  *)
(* one-shot job of the in-memory scheduler.  Requests (UI, buttons, mode   *)
(* changes) and the scheduler's pool each run in threads of their own and  *)
(* take no lock, so an operation is one step per PATCH, per change of the  *)
(* object and per scheduler call.                                          *)
(*                                                                         *)
(* Sources: services/instance_manager.py (pause_instance, resume_instance, *)
(* stop_instance, _start_from_db, revive_dead_instances,                   *)
(* resume_expired_pauses), apps/base/pause_resume.py, the overrides of     *)
(* apps/advanced_motion_lighting (memoization.py, mode_change.py) and      *)
(* services/scheduler_service.py.                                          *)
(***************************************************************************)
EXTENDS Integers, FiniteSets

CONSTANTS Users,        \* threads that run requests, events and mode changes
          Workers,      \* threads of the scheduler's pool
          Durations,    \* lengths of requested pauses, 0 for an indefinite one
          Lighting,     \* the app is an AdvancedMotionLightingApp
          Overlap,      \* operations of different threads may overlap
          MaxFailures,  \* bound on failed database calls
          MaxRestarts,  \* bound on restarts of the application
          MaxTime       \* no pause is requested from this time on

ASSUME ThreadAssumption == Users # {} /\ Users \cap Workers = {}
ASSUME PauseAssumption == /\ Durations \subseteq Nat
                          /\ Lighting \in BOOLEAN
                          /\ Overlap \in BOOLEAN
                          /\ MaxFailures \in Nat
                          /\ MaxRestarts \in Nat
                          /\ MaxTime \in Nat

VARIABLES row,       \* is_paused, pause_reason, pause_expires_at
          app,       \* the entry of _running_instances
          job,       \* when the job auto_resume_<id> is due
          th,        \* what each thread is doing
          now,
          failures,
          restarts,
          asked,     \* history: the pause the user asked for last
          untold,    \* history: the row was written, and the object not told
          leftover   \* history: the job is of a pause an indefinite one replaced

history == <<asked, untold, leftover>>
vars == <<row, app, job, th, now, failures, restarts, history>>

Threads == Users \cup Workers
NoTime == -1
Reasons == {"none", "user", "mode"}
PCs == {"idle", "patchPause", "callPause", "writePause", "armJob",
        "patchResume", "patchAuto", "callResume", "writeResume", "cancelJob",
        "patchExcluded", "patchIncluded", "fetch", "start"}

NotPaused == [paused |-> FALSE, reason |-> "none", expires |-> NoTime]

\* th[t].bound: the thread works on the app object that is running now, not on
\* one that was stopped under it; .snap: the row that a start has read.
IdleThread == [pc |-> "idle", dur |-> 0, bound |-> FALSE, snap |-> NotPaused]

NoPromise == [kind |-> "none", until |-> 0]

Init == /\ row = NotPaused
        /\ app = [up |-> TRUE, paused |-> FALSE, reason |-> "none", armed |-> FALSE]
        /\ job = NoTime
        /\ th = [t \in Threads |-> IdleThread]
        /\ now = 0
        /\ failures = 0
        /\ restarts = 0
        /\ asked = NoPromise
        /\ untold = FALSE
        /\ leftover = FALSE

Quiescent == \A t \in Threads : th[t].pc = "idle"
CanStart(t) == th[t].pc = "idle" /\ (Overlap \/ Quiescent)
Goto(t, pc) == th' = [th EXCEPT ![t].pc = pc]
Done(t) == th' = [th EXCEPT ![t] = IdleThread]

Expiry(d) == IF d > 0 THEN now + d ELSE NoTime

\* One database call fails.
Fails == failures < MaxFailures /\ failures' = failures + 1

\* A write-through that logs its failure: one that fails was refused, or was
\* done and the reply lost.
Writes(written) == \/ row' = written /\ UNCHANGED failures
                   \/ row' \in {row, written} /\ Fails

-----------------------------------------------------------------------------
(* pause_instance and the pause() of the app. *)

Pause(u, d) ==
    /\ CanStart(u)
    /\ now < MaxTime
    /\ th' = [th EXCEPT ![u] = [IdleThread EXCEPT !.pc = "patchPause", !.dur = d]]
    /\ UNCHANGED <<row, app, job, now, failures, restarts, history>>

\* The manager's PATCH: pause_expires_at is part of it for a timed pause only.
PausedFor(d) == [paused |-> TRUE, reason |-> "user",
                 expires |-> IF d > 0 THEN now + d ELSE row.expires]

\* What the user may count on.  Of an indefinite pause this is something only if
\* it finds neither the expiry nor the job of a timed one.
Promised(d) == IF d > 0 THEN [kind |-> "until", until |-> now + d]
               ELSE IF job = NoTime /\ row.expires = NoTime
                    THEN [kind |-> "forever", until |-> 0]
                    ELSE NoPromise

PatchPause(t) ==
    LET d == th[t].dur
    IN /\ th[t].pc = "patchPause"
       /\ row' = PausedFor(d)
       /\ asked' = Promised(d)
       /\ leftover' = (leftover \/ (d = 0 /\ job # NoTime))
       /\ untold' = FALSE
       /\ Goto(t, "callPause")
       /\ UNCHANGED <<app, job, now, failures, restarts>>

\* Either PATCH of the manager is refused ...
PatchRefused(t) ==
    /\ th[t].pc \in {"patchPause", "patchResume", "patchAuto"}
    /\ Fails
    /\ Done(t)
    /\ UNCHANGED <<row, app, job, now, restarts, history>>

\* ... or is done by the database while its reply is lost or late: the manager
\* reports a failure and does not tell the running object, now or later.
PatchUnanswered(t) ==
    /\ th[t].pc \in {"patchPause", "patchResume", "patchAuto"}
    /\ row' = IF th[t].pc = "patchPause" THEN PausedFor(th[t].dur) ELSE NotPaused
    /\ asked' = NoPromise
    /\ untold' = TRUE
    /\ Fails
    /\ Done(t)
    /\ UNCHANGED <<app, job, now, restarts, leftover>>

\* A running instance is told.  No reason is passed, so the object keeps the
\* one it has.
CallPause(t) ==
    /\ th[t].pc = "callPause"
    /\ IF app.up
         THEN /\ app' = [app EXCEPT !.paused = TRUE]
              /\ th' = [th EXCEPT ![t].pc = "writePause", ![t].bound = TRUE]
         ELSE Done(t) /\ UNCHANGED app
    /\ UNCHANGED <<row, job, now, failures, restarts, history>>

\* Variant: the write-through leaves the expiry out.
WritePauseNoExpiry(t) ==
    LET d == th[t].dur
    IN /\ th[t].pc = "writePause"
       /\ row' = [row EXCEPT !.paused = TRUE, !.expires = NoTime]
       /\ IF d > 0 THEN Goto(t, "armJob") ELSE Done(t)
       /\ UNCHANGED <<app, job, now, failures, restarts, history>>

\* _persist_pause_patch of pause(): a failure is logged.
WritePause(t) ==
    LET d == th[t].dur
    IN /\ th[t].pc = "writePause"
       /\ Writes([row EXCEPT !.paused = TRUE, !.expires = Expiry(d)])
       /\ IF d > 0 THEN Goto(t, "armJob") ELSE Done(t)
       /\ UNCHANGED <<app, job, now, restarts, history>>

\* The job replaces one of the same id.
ArmJob(t) ==
    /\ th[t].pc = "armJob"
    /\ job' = now + th[t].dur
    /\ app' = [app EXCEPT !.armed = @ \/ th[t].bound]
    /\ leftover' = FALSE
    /\ Done(t)
    /\ UNCHANGED <<row, now, failures, restarts, asked, untold>>

-----------------------------------------------------------------------------
(* resume_instance and the resume() of the app. *)

Resume(u) ==
    /\ CanStart(u)
    /\ th' = [th EXCEPT ![u] = [IdleThread EXCEPT !.pc = "patchResume"]]
    /\ UNCHANGED <<row, app, job, now, failures, restarts, history>>

\* The manager's PATCH, for a user (patchResume) or on expiry (patchAuto).
PatchResume(t) ==
    /\ th[t].pc \in {"patchResume", "patchAuto"}
    /\ row' = NotPaused
    /\ asked' = IF th[t].pc = "patchResume" THEN NoPromise ELSE asked
    /\ untold' = FALSE
    /\ Goto(t, "callResume")
    /\ UNCHANGED <<app, job, now, failures, restarts, leftover>>

\* Variant: the running object is not told.
CallResumeSkipsApp(t) ==
    /\ th[t].pc = "callResume"
    /\ Done(t)
    /\ UNCHANGED <<row, app, job, now, failures, restarts, history>>

\* The lighting app overrides resume(): it neither clears the reason nor
\* writes through.
CallResume(t) ==
    /\ th[t].pc = "callResume"
    /\ IF app.up
         THEN /\ app' = [app EXCEPT !.paused = FALSE,
                                    !.reason = IF Lighting THEN @ ELSE "none"]
              /\ th' = [th EXCEPT ![t].bound = TRUE,
                                  ![t].pc = IF Lighting THEN "cancelJob" ELSE "writeResume"]
         ELSE Done(t) /\ UNCHANGED app
    /\ UNCHANGED <<row, job, now, failures, restarts, history>>

WriteResume(t) ==
    /\ th[t].pc = "writeResume"
    /\ Writes(NotPaused)
    /\ Goto(t, "cancelJob")
    /\ UNCHANGED <<app, job, now, restarts, history>>

\* Variant: the job is left in the scheduler.
CancelJobForgotten(t) ==
    /\ th[t].pc = "cancelJob"
    /\ Done(t)
    /\ UNCHANGED <<row, app, job, now, failures, restarts, history>>

\* An object cancels the job it believes it has.  What a stopped object
\* believes is not tracked.
CancelJob(t) ==
    /\ th[t].pc = "cancelJob"
    /\ \E armed \in IF th[t].bound THEN {app.armed} ELSE BOOLEAN :
          job' = IF armed THEN NoTime ELSE job
    /\ app' = [app EXCEPT !.armed = @ /\ ~th[t].bound]
    /\ Done(t)
    /\ UNCHANGED <<row, now, failures, restarts, history>>

-----------------------------------------------------------------------------
(* The scheduler: the one-shot job and the reconciler. *)

\* _auto_resume.
JobFires(w) ==
    /\ CanStart(w)
    /\ job # NoTime
    /\ job <= now
    /\ job' = NoTime
    /\ app' = [app EXCEPT !.armed = FALSE]
    /\ th' = [th EXCEPT ![w] = [IdleThread EXCEPT !.pc = "patchAuto"]]
    /\ UNCHANGED <<row, now, failures, restarts, history>>

\* A job that could not start on time is dropped.
JobMisfires ==
    /\ job # NoTime
    /\ job < now
    /\ job' = NoTime
    /\ UNCHANGED <<row, app, th, now, failures, restarts, history>>

\* Variant: every paused row counts as expired.
ExpiredIfPaused == row.paused

Expired == row.paused /\ row.expires # NoTime /\ row.expires <= now

\* resume_expired_pauses: the query, then resume_instance whatever happened in
\* between.
Reconcile(w) ==
    /\ CanStart(w)
    /\ Expired
    /\ th' = [th EXCEPT ![w] = [IdleThread EXCEPT !.pc = "patchAuto"]]
    /\ UNCHANGED <<row, app, job, now, failures, restarts, history>>

-----------------------------------------------------------------------------
(* Exclusion modes of the lighting app (on_mode_change). *)

EnterExclusionMode(u) ==
    /\ Lighting
    /\ CanStart(u)
    /\ app.up
    /\ ~app.paused \/ app.reason # "mode"
    /\ app' = [app EXCEPT !.paused = TRUE, !.reason = "mode"]
    /\ th' = [th EXCEPT ![u] = [IdleThread EXCEPT !.pc = "patchExcluded"]]
    /\ UNCHANGED <<row, job, now, failures, restarts, history>>

\* Any mode that is not excluded, so also without having been in one.
LeaveExclusionMode(u) ==
    /\ Lighting
    /\ CanStart(u)
    /\ app.up
    /\ app.paused
    /\ app.reason = "mode"
    /\ app' = [app EXCEPT !.paused = FALSE, !.reason = "none"]
    /\ th' = [th EXCEPT ![u] = [IdleThread EXCEPT !.pc = "patchIncluded"]]
    /\ UNCHANGED <<row, job, now, failures, restarts, history>>

\* _patch_pause_state: the expiry and the job are left as they are.
PatchMode(t) ==
    /\ th[t].pc \in {"patchExcluded", "patchIncluded"}
    /\ Writes(IF th[t].pc = "patchExcluded"
                THEN [row EXCEPT !.paused = TRUE, !.reason = "mode"]
                ELSE [row EXCEPT !.paused = FALSE, !.reason = "none"])
    /\ Done(t)
    /\ UNCHANGED <<app, job, now, restarts, history>>

-----------------------------------------------------------------------------
(* Stopping, starting, restarting. *)

\* Threads inside the object that goes away keep working on it.
Unbound == [t \in Threads |-> [th[t] EXCEPT !.bound = FALSE]]
Stopped == [app EXCEPT !.up = FALSE, !.paused = FALSE, !.reason = "none", !.armed = FALSE]

Stop(u) ==
    /\ CanStart(u)
    /\ app.up
    /\ job' = NoTime
    /\ app' = Stopped
    /\ th' = Unbound
    /\ UNCHANGED <<row, now, failures, restarts, history>>

\* POST .../start stops first; revive_dead_instances finds a stopped instance
\* that is not paused.  Both then read the row.
StartRequest(u) ==
    /\ CanStart(u)
    /\ job' = IF app.up THEN NoTime ELSE job
    /\ app' = Stopped
    /\ th' = [Unbound EXCEPT ![u].pc = "fetch"]
    /\ UNCHANGED <<row, now, failures, restarts, history>>

Revive(w) ==
    /\ CanStart(w)
    /\ ~app.up
    /\ ~row.paused
    /\ Goto(w, "fetch")
    /\ UNCHANGED <<row, app, job, now, failures, restarts, history>>

Fetch(t) ==
    /\ th[t].pc = "fetch"
    /\ \/ th' = [th EXCEPT ![t].pc = "start", ![t].snap = row] /\ UNCHANGED failures
       \/ Fails /\ Done(t)
    /\ UNCHANGED <<row, app, job, now, restarts, history>>

Loaded(r) == [up |-> TRUE, paused |-> r.paused, reason |-> r.reason, armed |-> FALSE]

Start(t) ==
    /\ th[t].pc = "start"
    /\ app' = Loaded(th[t].snap)
    /\ th' = [Unbound EXCEPT ![t] = IdleThread]
    /\ untold' = FALSE
    /\ UNCHANGED <<row, job, now, failures, restarts, asked, leftover>>

\* Jobs live in a MemoryJobStore and are not armed again; every instance is
\* started from its row before requests are served.
Restart ==
    /\ restarts < MaxRestarts
    /\ restarts' = restarts + 1
    /\ app' = Loaded(row)
    /\ job' = NoTime
    /\ th' = [t \in Threads |-> IdleThread]
    /\ untold' = FALSE
    /\ UNCHANGED <<row, now, failures, asked, leftover>>

\* From MaxTime on the clock only runs for what is still to expire.
Tick ==
    /\ now < MaxTime \/ row.expires > now \/ job > now
    /\ now' = now + 1
    /\ UNCHANGED <<row, app, job, th, failures, restarts, history>>

Continue(t) == \/ PatchRefused(t) \/ PatchUnanswered(t)
               \/ PatchPause(t) \/ CallPause(t) \/ WritePause(t) \/ ArmJob(t)
               \/ PatchResume(t) \/ CallResume(t) \/ WriteResume(t) \/ CancelJob(t)
               \/ PatchMode(t) \/ Fetch(t) \/ Start(t)

Next == \/ \E u \in Users : \/ \E d \in Durations : Pause(u, d)
                            \/ Resume(u)
                            \/ EnterExclusionMode(u)
                            \/ LeaveExclusionMode(u)
                            \/ Stop(u)
                            \/ StartRequest(u)
        \/ \E w \in Workers : JobFires(w) \/ Reconcile(w) \/ Revive(w)
        \/ \E t \in Threads : Continue(t)
        \/ JobMisfires
        \/ Restart
        \/ Tick

Spec == Init /\ [][Next]_vars

\* Requests time out after 5 s, so an operation that started goes on; the
\* reconciler runs every 60 s; time passes.  Nothing is assumed of the job.
Fairness == /\ \A t \in Threads : WF_vars(Continue(t))
            /\ WF_vars(\E w \in Workers : Reconcile(w))
            /\ WF_vars(Tick)

FairSpec == Spec /\ Fairness

-----------------------------------------------------------------------------
(* Properties *)

TypeOK ==
    /\ row \in [paused : BOOLEAN, reason : Reasons, expires : Nat \cup {NoTime}]
    /\ app \in [up : BOOLEAN, paused : BOOLEAN, reason : Reasons, armed : BOOLEAN]
    /\ job \in Nat \cup {NoTime}
    /\ th \in [Threads -> [pc : PCs, dur : Durations \cup {0}, bound : BOOLEAN,
                           snap : [paused : BOOLEAN, reason : Reasons,
                                   expires : Nat \cup {NoTime}]]]
    /\ now \in Nat
    /\ failures \in 0 .. MaxFailures
    /\ restarts \in 0 .. MaxRestarts
    /\ asked \in [kind : {"none", "until", "forever"}, until : Nat]
    /\ untold \in BOOLEAN
    /\ leftover \in BOOLEAN

\* Between operations the running object and its row agree on whether the
\* instance is paused, after any sequence of pauses, resumes, stops, starts and
\* restarts, unless the reply to the manager's last PATCH was lost (untold): the
\* object decides what the app does, the row what the user sees and what the
\* next start restores.
MemoryMatchesRow == Quiescent /\ app.up /\ ~untold => app.paused = row.paused

\* A pause the user was told is in force lasts: until its time when it was
\* timed, until somebody resumes when it was not and followed no timed pause.
\* No job, reconciler pass or restart ends it early, whichever calls fail.  This
\* is about apps without exclusion modes and operations that do not overlap.
PauseHolds ==
    asked.kind = "forever" \/ (asked.kind = "until" /\ now < asked.until)
        => row.paused

\* Between operations an armed auto-resume job belongs to the timed pause that is
\* in force and is not due before the row says so, unless an indefinite pause
\* came after the one it was armed for (leftover) or the object was not told of
\* the last change of the row (untold): a job that is left over ends whatever
\* pause it finds.
JobBelongsToPause ==
    Quiescent /\ job # NoTime /\ ~leftover /\ ~untold
        => row.paused /\ row.expires # NoTime /\ job >= row.expires

\* A timed pause ends in the row, although its job may be lost to a restart,
\* dropped as misfired or fail at the database: the reconciler sees to it.
TimedPauseEnds == row.paused /\ row.expires # NoTime ~> ~row.paused

=============================================================================

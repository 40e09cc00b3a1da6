------------------------- MODULE AecDumpAttachment -------------------------
(***************************************************************************)
(* AttachAecDump / DetachAecDump (audio_processing.h) and the logging      *)
(* worker of the AecDump.  Three threads:                                  *)
(*   - the API thread attaches or detaches a dump: under the render and    *)
(*     capture locks it swaps the attached dump (a new dump logs its       *)
(*     config and init messages), and after releasing the locks it runs    *)
(*     the destructor of the old dump, which posts a sync task to the      *)
(*     worker queue and blocks until the worker has run it;                *)
(*   - the capture thread, whose frames post a logging task for the        *)
(*     attached dump (under the capture lock, so never mid-swap);          *)
(*   - the worker task queue, which runs the posted tasks in order.        *)
(***************************************************************************)
EXTENDS Integers, Sequences

CONSTANTS
  Dumps,      \* AecDump objects a client may create
  NoDump,     \* an empty std::unique_ptr<AecDump> (model value)
  MaxQueue    \* bound on the tasks pending on the worker queue (model bound)

ASSUME AecDumpAssumption ==
  /\ NoDump \notin Dumps
  /\ MaxQueue \in Nat \ {0}

\* A task on the worker queue: a logging write for a dump, or the sync task
\* a dump's destructor waits on.
Task(kind, dump) == [kind |-> kind, dump |-> dump]

VARIABLES
  attached,    \* aec_dump_: the attached dump, or NoDump
  worker,      \* the worker task queue, FIFO
  api,         \* the API thread: "idle", or the dump whose destructor it runs
  api_phase,   \* "idle", "release" (locks released, d-tor not started), "wait"
  destroyed,   \* dumps whose destructor has returned
  used         \* dumps a client has handed over

vars == <<attached, worker, api, api_phase, destroyed, used>>

Init ==
  /\ attached = NoDump
  /\ worker = <<>>
  /\ api = NoDump
  /\ api_phase = "idle"
  /\ destroyed = {}
  /\ used = {}

\* The lock-held part of AttachAecDump(d) (d a dump) or DetachAecDump()
\* (d = NoDump): swap the attached dump; a new dump logs its config and
\* init messages.  The old dump is kept for destruction after the locks are
\* released; with no old dump the call returns here.
Swap(d) ==
  /\ api_phase = "idle"
  /\ d # NoDump => d \notin used /\ Len(worker) < MaxQueue
  /\ attached' = d
  /\ used' = used \cup ({d} \ {NoDump})
  /\ worker' = IF d # NoDump THEN Append(worker, Task("write", d)) ELSE worker
  /\ api' = attached
  /\ api_phase' = IF attached = NoDump THEN "idle" ELSE "release"
  /\ UNCHANGED destroyed

\* Mutation: the destructor's sync task overtakes the pending tasks.
ReleaseOldFront ==
  /\ api_phase = "release"
  /\ worker' = <<Task("sync", api)>> \o worker
  /\ api_phase' = "wait"
  /\ UNCHANGED <<attached, api, destroyed, used>>

\* Mutation: the destructor waits for the worker to be idle before posting.
ReleaseOldWhenIdle ==
  /\ api_phase = "release"
  /\ worker = <<>>
  /\ worker' = Append(worker, Task("sync", api))
  /\ api_phase' = "wait"
  /\ UNCHANGED <<attached, api, destroyed, used>>

\* The destructor of the old dump, after the locks are released: post a
\* sync task behind every pending task and block on its event.
ReleaseOld ==
  /\ api_phase = "release"
  /\ worker' = Append(worker, Task("sync", api))
  /\ api_phase' = "wait"
  /\ UNCHANGED <<attached, api, destroyed, used>>

\* ProcessStream with a dump attached posts the frame's capture message.
CaptureFrame ==
  /\ attached # NoDump
  /\ Len(worker) < MaxQueue
  /\ worker' = Append(worker, Task("write", attached))
  /\ UNCHANGED <<attached, api, api_phase, destroyed, used>>

\* The worker runs the oldest task; a sync task sets the event the
\* destructor waits on, and the destructor returns.
WorkerRun ==
  /\ worker # <<>>
  /\ worker' = Tail(worker)
  /\ IF Head(worker).kind = "sync"
       THEN /\ destroyed' = destroyed \cup {Head(worker).dump}
            /\ api' = NoDump
            /\ api_phase' = "idle"
       ELSE UNCHANGED <<destroyed, api, api_phase>>
  /\ UNCHANGED <<attached, used>>

Next ==
  \/ \E d \in Dumps \cup {NoDump} : Swap(d)
  \/ ReleaseOld
  \/ CaptureFrame
  \/ WorkerRun

\* The worker task queue runs its tasks, and the API thread, once it has
\* released the locks, goes on into the destructor: both are threads that
\* never stop while they have work.  Callers (attach, detach, frames) are
\* not fair.
Fairness == WF_vars(ReleaseOld) /\ WF_vars(WorkerRun)

Spec == Init /\ [][Next]_vars /\ Fairness
-----------------------------------------------------------------------------
(* Properties *)

\* No logging task of a dump runs after its destructor returned, whatever
\* the capture thread posted while the dump was being replaced: the d-tor
\* of the old AecDump "may block until all pending logging tasks are
\* completed" (AttachAecDump, DetachAecDump), and must.
NoWriteAfterDestroy ==
  /\ \A i \in DOMAIN worker : worker[i].dump \notin destroyed
  /\ attached \notin destroyed

\* The blocking destructor of a replaced or detached dump returns, even when
\* capture frames keep posting tasks for the new dump in the meantime.
DetachCompletes == api_phase # "idle" ~> api_phase = "idle"
=============================================================================

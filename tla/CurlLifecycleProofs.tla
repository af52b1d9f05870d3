------------------------- MODULE CurlLifecycleProofs -------------------------
(***************************************************************************)
(* Theorems about CurlLifecycle, for any number of clients, attempts,       *)
(* generations and slots, with or without watchdogs: every variable keeps   *)
(* its type, a failed task has its reason, and the job's status implements  *)
(* TaskLifecycle.  Then who has a say over the task: the inductive          *)
(* invariant is OwnershipInv (with TypeOK), which gives                     *)
(* UncancelledWorkerOwnsTask.  On it rest two more: without a watchdog      *)
(* ActiveInv, which gives PausedUntilRequested, and with one request at a   *)
(* time SlotInv, which gives SlotsMatchStatus.                              *)
(***************************************************************************)
EXTENDS CurlLifecycle, FiniteSetTheorems, TLAPS

\* The step relation, one disjunct per action.
LEMMA NextCases ==
  ASSUME Next
  PROVE  \/ \E c \in Clients : \/ \E mode \in CreateModes : create_curl_task(c, mode)
                               \/ pause_task(c) \/ resume_task(c)
                               \/ redownload_task(c) \/ delete_task(c)
                               \/ list_all_tasks(c)
         \/ \E c \in Callers : \/ register_task_with_engine(c) \/ pause_publish(c)
                               \/ resume_wait(c) \/ resume_lock(c) \/ redo_remove(c)
                               \/ redo_release(c) \/ redo_publish(c) \/ del_release(c)
                               \/ list_merge(c) \/ start_curl_process(c)
                               \/ spawn_worker(c)
         \/ start_curl_task_by_id \/ resolved_publish
         \/ \E g \in Gens : \/ publish(g) \/ cancel_check(g) \/ run_phase(g)
                            \/ classify(g) \/ check_watchdog(g)
                            \/ mark_curl_task_failed(g) \/ fail_release(g)
                            \/ finish(g) \/ verify(g) \/ finalize(g)
                            \/ postprocess(g) \/ commit(g) \/ complete_release(g)
                            \/ progress(g) \/ attempt_ends(g)
         \/ \E g \in Gens : \/ watchdog_poll(g) \/ watchdog_cancel(g)
                            \/ force_error_status(g) \/ watchdog_release(g)
                            \/ watchdog_publish(g)
BY DEF Next, ApiRequest, CallerStep, ResolverStep, WorkerStep, WatchdogStep

\* Cancelling a token keeps the set of cancelled tokens well typed.
LEMMA CancelTyped ==
  ASSUME NEW S, NEW C \in SUBSET S, NEW t \in S
  PROVE  C \cup {t} \in SUBSET S
OBVIOUS

\* Setting one flag of a family keeps it a family of flags.
LEMMA FlagTyped ==
  ASSUME NEW S, NEW f \in [S -> BOOLEAN], NEW s \in S, NEW b \in BOOLEAN
  PROVE  [f EXCEPT ![s] = b] \in [S -> BOOLEAN]
OBVIOUS

\* Every step keeps the types of the job and the snapshot.
LEMMA JobTypeStep ==
  ASSUME TypeOK, [Next]_vars
  PROVE  JobTypeOK'
<1> USE CurlAssumption DEF TypeOK, JobTypeOK, QueueTypeOK, WorkerTypeOK, CallerTypeOK,
           TaskStates, Gens
<1>1. CASE UNCHANGED <<born, jobVars, snap>>
  BY <1>1 DEF jobVars
<1>2. ASSUME NEW c \in Clients, NEW mode \in CreateModes, create_curl_task(c, mode)
      PROVE  JobTypeOK'
  BY <1>2 DEF create_curl_task, Request, jobVars
<1>3. ASSUME NEW c \in Clients, pause_task(c)  PROVE JobTypeOK'
  <2>1. status' \in TaskStates
    BY <1>3 DEF pause_task, Request, PauseTarget, jobVars
  <2>2. cancelled' \in SUBSET (0 .. MaxGen)
    BY <1>3, CancelTyped DEF pause_task, Request, PauseTarget, jobVars
  <2> QED
    BY <1>3, <2>1, <2>2 DEF pause_task, Request, PauseTarget, jobVars
<1>4. ASSUME NEW c \in Callers, pause_publish(c)  PROVE JobTypeOK'
  BY <1>4 DEF pause_publish, jobVars
<1>5. ASSUME NEW c \in Callers, resume_lock(c)  PROVE JobTypeOK'
  <2>1. UNCHANGED <<born, present, gen, token, cancelled, snap>>
    BY <1>5 DEF resume_lock
  <2>2. status' \in TaskStates
    BY <1>5 DEF resume_lock
  <2>3. err' \in BOOLEAN
    BY <1>5 DEF resume_lock
  <2> QED
    BY <2>1, <2>2, <2>3
<1>6. ASSUME NEW c \in Clients, redownload_task(c)  PROVE JobTypeOK'
  <2>1. status' \in TaskStates
    BY <1>6 DEF redownload_task, Request, CanRestart, jobVars
  <2>2. err' \in BOOLEAN
    BY <1>6 DEF redownload_task, Request, CanRestart, jobVars
  <2>3. cancelled' \in SUBSET (0 .. MaxGen)
    BY <1>6, CancelTyped DEF redownload_task, Request, CanRestart, jobVars
  <2>4. gen' \in 0 .. MaxGen
    BY <1>6 DEF redownload_task, Request, CanRestart, jobVars
  <2> QED
    BY <1>6, <2>1, <2>2, <2>3, <2>4 DEF redownload_task, Request, CanRestart,
       jobVars
<1>7. ASSUME NEW c \in Callers, redo_publish(c)  PROVE JobTypeOK'
  BY <1>7 DEF redo_publish, jobVars
<1>8. ASSUME NEW c \in Clients, delete_task(c)  PROVE JobTypeOK'
  <2>1. snap' \in TaskStates \cup {Absent}
    BY <1>8 DEF delete_task, Request, jobVars
  <2>2. present' \in BOOLEAN
    BY <1>8 DEF delete_task, Request, jobVars
  <2>3. cancelled' \in SUBSET (0 .. MaxGen)
    BY <1>8, CancelTyped DEF delete_task, Request, jobVars
  <2>4. gen' \in 0 .. MaxGen
    BY <1>8 DEF delete_task, Request, jobVars
  <2> QED
    BY <1>8, <2>1, <2>2, <2>3, <2>4 DEF delete_task, Request, jobVars
<1>9. ASSUME NEW c \in Callers, list_merge(c)  PROVE JobTypeOK'
  BY <1>9 DEF list_merge, jobVars
<1>10. CASE start_curl_task_by_id
  BY <1>10 DEF start_curl_task_by_id, jobVars
<1>11. CASE resolved_publish
  <2>1. snap' \in TaskStates \cup {Absent}
    BY <1>11 DEF resolved_publish, jobVars, Callers
  <2> QED
    BY <1>11, <2>1 DEF resolved_publish, jobVars
<1>12. ASSUME NEW c \in Callers, start_curl_process(c)  PROVE JobTypeOK'
  <2>1. gen' \in 0 .. MaxGen
    BY <1>12 DEF start_curl_process, MayStart, jobVars
  <2>2. token' \in 0 .. MaxGen
    BY <1>12 DEF start_curl_process, MayStart, jobVars
  <2>3. status' \in TaskStates
    BY <1>12 DEF start_curl_process, MayStart, jobVars
  <2>4. err' \in BOOLEAN
    BY <1>12 DEF start_curl_process, MayStart, jobVars
  <2> QED
    BY <1>12, <2>1, <2>2, <2>3, <2>4 DEF start_curl_process, MayStart, jobVars
<1>13. ASSUME NEW g \in Gens, publish(g)  PROVE JobTypeOK'
  BY <1>13 DEF publish, jobVars
<1>14. ASSUME NEW g \in Gens, run_phase(g)  PROVE JobTypeOK'
  <2>1. UNCHANGED <<born, present, gen, token, cancelled, err, snap>>
    BY <1>14 DEF run_phase, transition_runtime_task_state
  <2>2. status' \in TaskStates
    BY <1>14 DEF run_phase, transition_runtime_task_state
  <2> QED
    BY <2>1, <2>2
<1>15. ASSUME NEW g \in Gens, mark_curl_task_failed(g)  PROVE JobTypeOK'
  <2>1. UNCHANGED <<born, present, gen, token, cancelled, snap>>
    BY <1>15 DEF mark_curl_task_failed, FailureMessage
  <2>2. status' \in TaskStates
    BY <1>15 DEF mark_curl_task_failed, FailureMessage
  <2>3. err' \in BOOLEAN
    BY <1>15 DEF mark_curl_task_failed, FailureMessage
  <2> QED
    BY <2>1, <2>2, <2>3
<1>16. ASSUME NEW g \in Gens, finish(g)  PROVE JobTypeOK'
  BY <1>16 DEF finish, jobVars
<1>17. ASSUME NEW g \in Gens, finalize(g)  PROVE JobTypeOK'
  BY <1>17 DEF finalize, jobVars
<1>18. ASSUME NEW g \in Gens, commit(g)  PROVE JobTypeOK'
  <2>1. UNCHANGED <<born, present, gen, token, cancelled, snap>>
    BY <1>18 DEF commit
  <2>2. status' \in TaskStates
    BY <1>18 DEF commit
  <2>3. err' \in BOOLEAN
    BY <1>18 DEF commit
  <2> QED
    BY <2>1, <2>2, <2>3
<1>19. ASSUME NEW g \in Gens, watchdog_cancel(g)  PROVE JobTypeOK'
  <2>1. cancelled' \in SUBSET (0 .. MaxGen)
    BY <1>19, CancelTyped DEF watchdog_cancel, jobVars
  <2> QED
    BY <1>19, <2>1 DEF watchdog_cancel, jobVars
<1>20. ASSUME NEW g \in Gens, force_error_status(g)  PROVE JobTypeOK'
  <2>1. UNCHANGED <<born, present, gen, token, cancelled, snap>>
    BY <1>20 DEF force_error_status, SetWatchdogError
  <2>2. status' \in TaskStates
    BY <1>20 DEF force_error_status, SetWatchdogError
  <2>3. err' \in BOOLEAN
    BY <1>20 DEF force_error_status, SetWatchdogError
  <2> QED
    BY <2>1, <2>2, <2>3
<1>21. ASSUME NEW g \in Gens, watchdog_publish(g)  PROVE JobTypeOK'
  BY <1>21 DEF watchdog_publish, jobVars
<1>22. CASE \/ \E c \in Clients : resume_task(c) \/ list_all_tasks(c)
  BY <1>22, <1>1 DEF resume_task, list_all_tasks
<1>23. CASE \/ \E c \in Callers :
                \/ register_task_with_engine(c) \/ resume_wait(c)
                \/ redo_remove(c) \/ redo_release(c) \/ del_release(c)
                \/ spawn_worker(c)
  BY <1>23, <1>1 DEF register_task_with_engine, resume_wait, redo_remove,
     redo_release, del_release, spawn_worker
<1>24. CASE \/ \E g \in Gens :
                \/ cancel_check(g) \/ classify(g) \/ check_watchdog(g)
                \/ fail_release(g) \/ verify(g) \/ postprocess(g)
                \/ complete_release(g) \/ progress(g) \/ attempt_ends(g)
  BY <1>24, <1>1 DEF cancel_check, classify, check_watchdog, fail_release,
     verify, postprocess, complete_release, progress, attempt_ends
<1>25. CASE \/ \E g \in Gens : watchdog_poll(g) \/ watchdog_release(g)
  BY <1>25, <1>1 DEF watchdog_poll, watchdog_release
<1>26. CASE UNCHANGED vars
  BY <1>26, <1>1 DEF vars
<1> HIDE CurlAssumption DEF TypeOK, JobTypeOK, QueueTypeOK, WorkerTypeOK, CallerTypeOK,
           TaskStates, Gens
<1> QED
  BY NextCases, <1>1, <1>2, <1>3, <1>4, <1>5, <1>6, <1>7, <1>8, <1>9, <1>10,
      <1>11, <1>12, <1>13, <1>14, <1>15, <1>16, <1>17, <1>18, <1>19, <1>20,
      <1>21, <1>22, <1>23, <1>24, <1>25, <1>26

\* Every step keeps the types of the queue.
LEMMA QueueTypeStep ==
  ASSUME TypeOK, [Next]_vars
  PROVE  QueueTypeOK'
<1> USE CurlAssumption DEF TypeOK, JobTypeOK, QueueTypeOK, WorkerTypeOK, CallerTypeOK
<1>1. CASE UNCHANGED queueVars
  BY <1>1 DEF queueVars
<1>2. ASSUME NEW c \in Callers, register_task_with_engine(c)  PROVE QueueTypeOK'
  BY <1>2 DEF register_task_with_engine, Goto, queueVars
<1>3. ASSUME NEW c \in Callers, redo_release(c)  PROVE QueueTypeOK'
  BY <1>3 DEF redo_release, Goto, release_active_slot, queueVars
<1>4. ASSUME NEW c \in Callers, del_release(c)  PROVE QueueTypeOK'
  <2>1. entry' \in BOOLEAN
    BY <1>4 DEF del_release, Goto, stop_download, release_active_slot,
        queueVars
  <2>2. active' \in Nat
    BY <1>4 DEF del_release, Goto, stop_download, release_active_slot,
        queueVars
  <2> QED
    BY <1>4, <2>1, <2>2 DEF del_release, Goto, stop_download,
        release_active_slot, queueVars
<1>5. ASSUME NEW c \in Callers, spawn_worker(c)  PROVE QueueTypeOK'
  BY <1>5 DEF spawn_worker, Goto, AfterStart, start_download, queueVars
<1>6. ASSUME NEW g \in Gens, fail_release(g)  PROVE QueueTypeOK'
  <2>1. entry' \in BOOLEAN
    BY <1>6 DEF fail_release, PublishThen, WGoto, stop_download,
        release_active_slot, queueVars
  <2>2. active' \in Nat
    BY <1>6 DEF fail_release, PublishThen, WGoto, stop_download,
        release_active_slot, queueVars
  <2>3. failedCount' \in Nat
    BY <1>6 DEF fail_release, PublishThen, WGoto, stop_download,
        release_active_slot, queueVars
  <2> QED
    BY <1>6, <2>1, <2>2, <2>3 DEF fail_release, PublishThen, WGoto,
        stop_download, release_active_slot, queueVars
<1>7. ASSUME NEW g \in Gens, complete_release(g)  PROVE QueueTypeOK'
  <2>1. entry' \in BOOLEAN
    BY <1>7 DEF complete_release, PublishThen, WGoto, stop_download,
        release_active_slot, queueVars
  <2>2. active' \in Nat
    BY <1>7 DEF complete_release, PublishThen, WGoto, stop_download,
        release_active_slot, queueVars
  <2>3. completedCount' \in Nat
    BY <1>7 DEF complete_release, PublishThen, WGoto, stop_download,
        release_active_slot, queueVars
  <2> QED
    BY <1>7, <2>1, <2>2, <2>3 DEF complete_release, PublishThen, WGoto,
        stop_download, release_active_slot, queueVars
<1>8. ASSUME NEW g \in Gens, watchdog_release(g)  PROVE QueueTypeOK'
  <2>1. entry' \in BOOLEAN
    BY <1>8 DEF watchdog_release, DGoto, stop_download, release_active_slot,
        queueVars
  <2>2. active' \in Nat
    BY <1>8 DEF watchdog_release, DGoto, stop_download, release_active_slot,
        queueVars
  <2>3. failedCount' \in Nat
    BY <1>8 DEF watchdog_release, DGoto, stop_download, release_active_slot,
        queueVars
  <2> QED
    BY <1>8, <2>1, <2>2, <2>3 DEF watchdog_release, DGoto, stop_download,
        release_active_slot, queueVars
<1>9. CASE \/ \E c \in Clients, mode \in CreateModes :
                \/ create_curl_task(c, mode)
           \/ \E c \in Clients :
                \/ pause_task(c) \/ resume_task(c) \/ redownload_task(c)
                \/ delete_task(c) \/ list_all_tasks(c)
  BY <1>9, <1>1 DEF create_curl_task, pause_task, resume_task,
      redownload_task, delete_task, list_all_tasks
<1>10. CASE \/ \E c \in Callers :
                \/ pause_publish(c) \/ resume_wait(c) \/ resume_lock(c)
                \/ redo_remove(c) \/ redo_publish(c) \/ list_merge(c)
                \/ start_curl_process(c)
           \/ start_curl_task_by_id
           \/ resolved_publish
  BY <1>10, <1>1 DEF pause_publish, resume_wait, resume_lock, redo_remove,
      redo_publish, list_merge, start_curl_process, start_curl_task_by_id,
      resolved_publish
<1>11. CASE \/ \E g \in Gens :
                \/ publish(g) \/ cancel_check(g) \/ run_phase(g)
                \/ classify(g) \/ check_watchdog(g)
                \/ mark_curl_task_failed(g) \/ finish(g) \/ verify(g)
                \/ finalize(g) \/ postprocess(g) \/ commit(g)
                \/ progress(g) \/ attempt_ends(g)
  BY <1>11, <1>1 DEF publish, cancel_check, run_phase, classify,
      check_watchdog, mark_curl_task_failed, finish, verify, finalize,
      postprocess, commit, progress, attempt_ends,
      transition_runtime_task_state
<1>12. CASE \/ \E g \in Gens :
                \/ watchdog_poll(g) \/ watchdog_cancel(g)
                \/ force_error_status(g) \/ watchdog_publish(g)
  BY <1>12, <1>1 DEF watchdog_poll, watchdog_cancel, force_error_status,
      watchdog_publish
<1>13. CASE UNCHANGED vars
  BY <1>13, <1>1 DEF vars
<1> HIDE CurlAssumption DEF TypeOK, JobTypeOK, QueueTypeOK, WorkerTypeOK, CallerTypeOK
<1> QED
  BY NextCases, <1>1, <1>2, <1>3, <1>4, <1>5, <1>6, <1>7, <1>8, <1>9, <1>10,
      <1>11, <1>12, <1>13

\* Every step keeps the types of the workers and the watchdogs.
LEMMA WorkerTypeStep ==
  ASSUME TypeOK, [Next]_vars
  PROVE  WorkerTypeOK'
<1> USE CurlAssumption DEF TypeOK, JobTypeOK, QueueTypeOK, WorkerTypeOK, CallerTypeOK,
           Gens, WorkerPC, WatchdogPC, TaskStates
<1>1. CASE UNCHANGED <<workerVars, dpc>>
  BY <1>1 DEF workerVars
<1>2. ASSUME NEW c \in Callers, spawn_worker(c)  PROVE WorkerTypeOK'
  <2>1. wpc' \in [Gens -> WorkerPC]
    BY <1>2 DEF spawn_worker, Goto, AfterStart, start_download, workerVars
  <2>2. wseg' \in [Gens -> BOOLEAN]
    <3>1. PICK seg \in BOOLEAN : wseg' = [wseg EXCEPT ![cgen[c]] = seg]
      BY <1>2 DEF spawn_worker
    <3> QED
      BY <3>1
  <2>3. dpc' \in [Gens -> WatchdogPC]
    BY <1>2 DEF spawn_worker, Goto, AfterStart, start_download, workerVars
  <2> QED
    BY <1>2, <2>1, <2>2, <2>3 DEF spawn_worker, Goto, AfterStart,
        start_download, workerVars
<1>3. ASSUME NEW g \in Gens, publish(g)  PROVE WorkerTypeOK'
  BY <1>3 DEF publish, WGoto, workerVars
<1>4. ASSUME NEW g \in Gens, cancel_check(g)  PROVE WorkerTypeOK'
  BY <1>4 DEF cancel_check, WGoto, AfterCheck, workerVars
<1>5. ASSUME NEW g \in Gens, run_phase(g)  PROVE WorkerTypeOK'
  <2>1. PICK next \in TaskStates, pc \in WorkerPC :
           transition_runtime_task_state(g, next, pc)
    BY <1>5 DEF run_phase
  <2>2. wpc' \in [Gens -> WorkerPC] /\ wthen' \in [Gens -> WorkerPC]
    <3>1. PICK q \in WorkerPC : WGoto(g, q)
      BY <2>1 DEF transition_runtime_task_state, PublishThen
    <3>2. wthen' = wthen \/ wthen' = [wthen EXCEPT ![g] = pc]
      BY <2>1 DEF transition_runtime_task_state, PublishThen
    <3> QED
      BY <3>1, <3>2 DEF WGoto
  <2>5. wcopy' \in [Gens -> TaskStates \cup {Absent}]
    <3>1. wcopy' = wcopy \/ wcopy' = [wcopy EXCEPT ![g] = next]
      BY <2>1 DEF transition_runtime_task_state, PublishThen
    <3> QED
      BY <3>1
  <2>3. wseg' \in [Gens -> BOOLEAN]
    <3>1. wseg' = wseg \/ wseg' = [wseg EXCEPT ![g] = FALSE]
      BY <1>5 DEF run_phase
    <3>2. wseg \in [Gens -> BOOLEAN]
      OBVIOUS
    <3>3. [wseg EXCEPT ![g] = FALSE] \in [Gens -> BOOLEAN]
      BY <3>2, FlagTyped
    <3> QED
      BY <3>1, <3>2, <3>3, Zenon
  <2>4. UNCHANGED <<wattempt, wcanc, dpc>>
    BY <1>5, <2>1 DEF run_phase, transition_runtime_task_state
  <2> QED
    BY <2>2, <2>3, <2>4, <2>5
<1>6. ASSUME NEW g \in Gens, classify(g)  PROVE WorkerTypeOK'
  <2>1. IsCancelled(g) \in BOOLEAN
    BY DEF IsCancelled
  <2>2. wpc' \in [Gens -> WorkerPC]
    BY <1>6, <2>1 DEF classify, WGoto, RunReturned, workerVars
  <2>3. wattempt' \in [Gens -> 0 .. Attempts - 1]
    BY <1>6, <2>1 DEF classify, WGoto, RunReturned, workerVars
  <2>4. wseg' \in [Gens -> BOOLEAN]
    BY <1>6, <2>1 DEF classify, WGoto, RunReturned, workerVars
  <2>5. wcanc' \in [Gens -> BOOLEAN]
    BY <1>6, <2>1 DEF classify, WGoto, RunReturned, workerVars
  <2> QED
    BY <1>6, <2>2, <2>3, <2>4, <2>5 DEF classify, WGoto, RunReturned,
        workerVars
<1>7. ASSUME NEW g \in Gens, check_watchdog(g)  PROVE WorkerTypeOK'
  BY <1>7 DEF check_watchdog, WGoto, workerVars
<1>8. ASSUME NEW g \in Gens, mark_curl_task_failed(g)  PROVE WorkerTypeOK'
  <2>1. wpc' \in [Gens -> WorkerPC]
    BY <1>8 DEF mark_curl_task_failed, WGoto, RunReturned, FailureMessage,
        workerVars
  <2>2. wcopy' \in [Gens -> TaskStates \cup {Absent}]
    BY <1>8 DEF mark_curl_task_failed, WGoto, RunReturned, FailureMessage,
        workerVars
  <2>3. wattempt' \in [Gens -> 0 .. Attempts - 1]
    BY <1>8 DEF mark_curl_task_failed, WGoto, RunReturned, FailureMessage,
        workerVars
  <2>4. wseg' \in [Gens -> BOOLEAN]
    BY <1>8 DEF mark_curl_task_failed, WGoto, RunReturned, FailureMessage,
        workerVars
  <2> QED
    BY <1>8, <2>1, <2>2, <2>3, <2>4 DEF mark_curl_task_failed, WGoto,
        RunReturned, FailureMessage, workerVars
<1>9. ASSUME NEW g \in Gens, fail_release(g)  PROVE WorkerTypeOK'
  BY <1>9 DEF fail_release, PublishThen, WGoto, stop_download,
      release_active_slot, workerVars
<1>10. ASSUME NEW g \in Gens, finish(g)  PROVE WorkerTypeOK'
  <2>1. wpc' \in [Gens -> WorkerPC]
    BY <1>10 DEF finish, PublishThen, WGoto, RunReturned, workerVars
  <2>2. wthen' \in [Gens -> WorkerPC]
    BY <1>10 DEF finish, PublishThen, WGoto, RunReturned, workerVars
  <2>3. wcopy' \in [Gens -> TaskStates \cup {Absent}]
    BY <1>10 DEF finish, PublishThen, WGoto, RunReturned, workerVars
  <2>4. wattempt' \in [Gens -> 0 .. Attempts - 1]
    BY <1>10 DEF finish, PublishThen, WGoto, RunReturned, workerVars
  <2>5. wseg' \in [Gens -> BOOLEAN]
    BY <1>10 DEF finish, PublishThen, WGoto, RunReturned, workerVars
  <2> QED
    BY <1>10, <2>1, <2>2, <2>3, <2>4, <2>5 DEF finish, PublishThen, WGoto,
        RunReturned, workerVars
<1>11. ASSUME NEW g \in Gens, verify(g)  PROVE WorkerTypeOK'
  <2>1. PICK pc \in WorkerPC : WGoto(g, pc)
    BY <1>11 DEF verify
  <2>2. UNCHANGED <<wthen, wcopy, wattempt, wseg, wcanc, dpc>>
    BY <1>11 DEF verify
  <2> QED
    BY <2>1, <2>2 DEF WGoto
<1>12. ASSUME NEW g \in Gens, finalize(g)  PROVE WorkerTypeOK'
  <2>1. wpc' \in [Gens -> WorkerPC]
    BY <1>12 DEF finalize, PublishThen, WGoto, workerVars
  <2>2. wthen' \in [Gens -> WorkerPC]
    BY <1>12 DEF finalize, PublishThen, WGoto, workerVars
  <2>3. wcopy' \in [Gens -> TaskStates \cup {Absent}]
    BY <1>12 DEF finalize, PublishThen, WGoto, workerVars
  <2> QED
    BY <1>12, <2>1, <2>2, <2>3 DEF finalize, PublishThen, WGoto, workerVars
<1>13. ASSUME NEW g \in Gens, postprocess(g)  PROVE WorkerTypeOK'
  <2>1. wpc' \in [Gens -> WorkerPC]
    BY <1>13 DEF postprocess, WGoto, IsCancelled, workerVars
  <2>2. wcanc' \in [Gens -> BOOLEAN]
    <3>1. wcanc' = wcanc \/ wcanc' = [wcanc EXCEPT ![g] = TRUE]
      BY <1>13 DEF postprocess
    <3>2. wcanc \in [Gens -> BOOLEAN]
      OBVIOUS
    <3>3. [wcanc EXCEPT ![g] = TRUE] \in [Gens -> BOOLEAN]
      BY <3>2, FlagTyped
    <3> QED
      BY <3>1, <3>2, <3>3, Zenon
  <2> QED
    BY <1>13, <2>1, <2>2 DEF postprocess, WGoto, IsCancelled, workerVars
<1>14. ASSUME NEW g \in Gens, commit(g)  PROVE WorkerTypeOK'
  <2>1. PICK pc \in WorkerPC : WGoto(g, pc)
    BY <1>14 DEF commit
  <2>2. UNCHANGED <<wthen, wcopy, wattempt, wseg, wcanc, dpc>>
    BY <1>14 DEF commit
  <2> QED
    BY <2>1, <2>2 DEF WGoto
<1>15. ASSUME NEW g \in Gens, complete_release(g)  PROVE WorkerTypeOK'
  BY <1>15 DEF complete_release, PublishThen, WGoto, stop_download,
      release_active_slot, workerVars
<1>16. ASSUME NEW g \in Gens, progress(g)  PROVE WorkerTypeOK'
  BY <1>16 DEF progress, PublishThen, WGoto, workerVars
<1>17. ASSUME NEW g \in Gens, attempt_ends(g)  PROVE WorkerTypeOK'
  <2>1. wpc' \in [Gens -> WorkerPC]
    <3>1. PICK pc \in WorkerPC : WGoto(g, pc)
      BY <1>17 DEF attempt_ends
    <3> QED
      BY <3>1 DEF WGoto
  <2>2. wattempt' \in [Gens -> 0 .. Attempts - 1]
    <3>1. NextAttempt(g) < Attempts => NextAttempt(g) \in 0 .. Attempts - 1
      BY DEF NextAttempt
    <3>2. CASE UNCHANGED wattempt
      BY <3>2
    <3>3. CASE /\ NextAttempt(g) < Attempts
               /\ wattempt' = [wattempt EXCEPT ![g] = NextAttempt(g)]
      BY <3>1, <3>3
    <3> QED
      BY <1>17, <3>2, <3>3 DEF attempt_ends
  <2> QED
    BY <1>17, <2>1, <2>2 DEF attempt_ends
<1>18. ASSUME NEW g \in Gens, watchdog_poll(g)  PROVE WorkerTypeOK'
  BY <1>18 DEF watchdog_poll, DGoto, workerVars
<1>19. ASSUME NEW g \in Gens, watchdog_cancel(g)  PROVE WorkerTypeOK'
  BY <1>19 DEF watchdog_cancel, DGoto, workerVars
<1>20. ASSUME NEW g \in Gens, force_error_status(g)  PROVE WorkerTypeOK'
  BY <1>20 DEF force_error_status, DGoto, SetWatchdogError, workerVars
<1>21. ASSUME NEW g \in Gens, watchdog_release(g)  PROVE WorkerTypeOK'
  BY <1>21 DEF watchdog_release, DGoto, stop_download, release_active_slot,
      workerVars
<1>22. ASSUME NEW g \in Gens, watchdog_publish(g)  PROVE WorkerTypeOK'
  BY <1>22 DEF watchdog_publish, DGoto, workerVars
<1>23. CASE \/ \E c \in Clients, mode \in CreateModes :
                \/ create_curl_task(c, mode)
           \/ \E c \in Clients :
                \/ pause_task(c) \/ resume_task(c) \/ redownload_task(c)
                \/ delete_task(c) \/ list_all_tasks(c)
  BY <1>23, <1>1 DEF create_curl_task, pause_task, resume_task,
      redownload_task, delete_task, list_all_tasks
<1>24. CASE \/ \E c \in Callers :
                \/ register_task_with_engine(c) \/ pause_publish(c)
                \/ resume_wait(c) \/ resume_lock(c) \/ redo_remove(c)
                \/ redo_release(c) \/ redo_publish(c) \/ del_release(c)
                \/ list_merge(c) \/ start_curl_process(c)
           \/ start_curl_task_by_id
           \/ resolved_publish
  BY <1>24, <1>1 DEF register_task_with_engine, pause_publish, resume_wait,
      resume_lock, redo_remove, redo_release, redo_publish, del_release,
      list_merge, start_curl_process, start_curl_task_by_id,
      resolved_publish
<1>25. CASE UNCHANGED vars
  BY <1>25, <1>1 DEF vars
<1> HIDE CurlAssumption DEF TypeOK, JobTypeOK, QueueTypeOK, WorkerTypeOK, CallerTypeOK,
           Gens, WorkerPC, WatchdogPC, TaskStates
<1> QED
  BY NextCases, <1>1, <1>2, <1>3, <1>4, <1>5, <1>6, <1>7, <1>8, <1>9, <1>10,
      <1>11, <1>12, <1>13, <1>14, <1>15, <1>16, <1>17, <1>18, <1>19, <1>20,
      <1>21, <1>22, <1>23, <1>24, <1>25

\* Every step keeps the types of the callers.
LEMMA CallerTypeStep ==
  ASSUME TypeOK, [Next]_vars
  PROVE  CallerTypeOK'
<1> USE CurlAssumption DEF TypeOK, JobTypeOK, QueueTypeOK, WorkerTypeOK, CallerTypeOK,
           Callers, CallerPC, TaskStates
<1>1. CASE UNCHANGED callerVars
  BY <1>1 DEF callerVars
<1>2. ASSUME NEW c \in Clients, NEW mode \in CreateModes, create_curl_task(c, mode)
      PROVE  CallerTypeOK'
  BY <1>2 DEF create_curl_task, Request, Goto, callerVars
<1>3. ASSUME NEW c \in Clients, pause_task(c)  PROVE CallerTypeOK'
  BY <1>3 DEF pause_task, Request, Goto, PauseTarget, callerVars
<1>4. ASSUME NEW c \in Clients, resume_task(c)  PROVE CallerTypeOK'
  BY <1>4 DEF resume_task, Request, Goto, callerVars
<1>5. ASSUME NEW c \in Clients, redownload_task(c)  PROVE CallerTypeOK'
  <2>1. IsActive(status) \in BOOLEAN
    BY DEF IsActive
  <2>2. cpc' \in [Callers -> CallerPC]
    BY <1>5, <2>1 DEF redownload_task, Request, Goto, CanRestart, callerVars
  <2>3. cwas' \in [Callers -> BOOLEAN]
    BY <1>5, <2>1 DEF redownload_task, Request, Goto, CanRestart, callerVars
  <2>4. ccopy' \in [Callers -> TaskStates \cup {Absent}]
    BY <1>5, <2>1 DEF redownload_task, Request, Goto, CanRestart, callerVars
  <2>5. calls' \in 0 .. MaxCalls
    BY <1>5, <2>1 DEF redownload_task, Request, Goto, CanRestart, callerVars
  <2> QED
    BY <1>5, <2>2, <2>3, <2>4, <2>5 DEF redownload_task, Request, Goto,
        CanRestart, callerVars
<1>6. ASSUME NEW c \in Clients, delete_task(c)  PROVE CallerTypeOK'
  <2>1. IsActive(status) \in BOOLEAN
    BY DEF IsActive
  <2>2. cpc' \in [Callers -> CallerPC]
    BY <1>6, <2>1 DEF delete_task, Request, Goto, callerVars
  <2>3. cwas' \in [Callers -> BOOLEAN]
    BY <1>6, <2>1 DEF delete_task, Request, Goto, callerVars
  <2>4. calls' \in 0 .. MaxCalls
    BY <1>6, <2>1 DEF delete_task, Request, Goto, callerVars
  <2> QED
    BY <1>6, <2>2, <2>3, <2>4 DEF delete_task, Request, Goto, callerVars
<1>7. ASSUME NEW c \in Clients, list_all_tasks(c)  PROVE CallerTypeOK'
  BY <1>7 DEF list_all_tasks, Request, Goto, callerVars
<1>8. ASSUME NEW c \in Callers, register_task_with_engine(c)  PROVE CallerTypeOK'
  BY <1>8 DEF register_task_with_engine, Goto, callerVars
<1>9. ASSUME NEW c \in Callers, pause_publish(c)  PROVE CallerTypeOK'
  BY <1>9 DEF pause_publish, Goto, callerVars
<1>10. ASSUME NEW c \in Callers, resume_wait(c)  PROVE CallerTypeOK'
  BY <1>10 DEF resume_wait, Goto, ResumeGivesUp, callerVars
<1>11. ASSUME NEW c \in Callers, resume_lock(c)  PROVE CallerTypeOK'
  BY <1>11 DEF resume_lock, Goto, callerVars
<1>12. ASSUME NEW c \in Callers, redo_remove(c)  PROVE CallerTypeOK'
  BY <1>12 DEF redo_remove, Goto, callerVars
<1>13. ASSUME NEW c \in Callers, redo_release(c)  PROVE CallerTypeOK'
  BY <1>13 DEF redo_release, Goto, release_active_slot, callerVars
<1>14. ASSUME NEW c \in Callers, redo_publish(c)  PROVE CallerTypeOK'
  BY <1>14 DEF redo_publish, Goto, callerVars
<1>15. ASSUME NEW c \in Callers, del_release(c)  PROVE CallerTypeOK'
  BY <1>15 DEF del_release, Goto, stop_download, release_active_slot,
      callerVars
<1>16. ASSUME NEW c \in Callers, list_merge(c)  PROVE CallerTypeOK'
  BY <1>16 DEF list_merge, Goto, callerVars
<1>17. ASSUME NEW c \in Callers, start_curl_process(c)  PROVE CallerTypeOK'
  BY <1>17 DEF start_curl_process, Goto, AfterStart, MayStart, callerVars
<1>18. ASSUME NEW c \in Callers, spawn_worker(c)  PROVE CallerTypeOK'
  BY <1>18 DEF spawn_worker, Goto, AfterStart, start_download, callerVars
<1>19. CASE start_curl_task_by_id
  BY <1>19 DEF start_curl_task_by_id, Goto, callerVars
<1>20. CASE resolved_publish
  BY <1>20 DEF resolved_publish, Goto, callerVars
<1>21. CASE \/ \E g \in Gens :
                \/ publish(g) \/ cancel_check(g) \/ run_phase(g)
                \/ classify(g) \/ check_watchdog(g)
                \/ mark_curl_task_failed(g) \/ fail_release(g) \/ finish(g)
                \/ verify(g) \/ finalize(g) \/ postprocess(g)
                \/ commit(g) \/ complete_release(g) \/ progress(g)
                \/ attempt_ends(g)
  BY <1>21, <1>1 DEF publish, cancel_check, run_phase, classify,
      check_watchdog, mark_curl_task_failed, fail_release, finish, verify,
      finalize, postprocess, commit, complete_release, progress,
      attempt_ends, transition_runtime_task_state
<1>22. CASE \/ \E g \in Gens :
                \/ watchdog_poll(g) \/ watchdog_cancel(g)
                \/ force_error_status(g) \/ watchdog_release(g)
                \/ watchdog_publish(g)
  BY <1>22, <1>1 DEF watchdog_poll, watchdog_cancel, force_error_status,
      watchdog_release, watchdog_publish
<1>23. CASE UNCHANGED vars
  BY <1>23, <1>1 DEF vars
<1> HIDE CurlAssumption DEF TypeOK, JobTypeOK, QueueTypeOK, WorkerTypeOK, CallerTypeOK,
           Callers, CallerPC, TaskStates
<1> QED
  BY NextCases, <1>1, <1>2, <1>3, <1>4, <1>5, <1>6, <1>7, <1>8, <1>9, <1>10,
      <1>11, <1>12, <1>13, <1>14, <1>15, <1>16, <1>17, <1>18, <1>19, <1>20,
      <1>21, <1>22, <1>23

----------------------------------------------------------------------------
\* TypeOK is an invariant: the generation and attempt counters stay within their
\* bounds and the slot count never underflows, however requests, workers and
\* watchdogs interleave.
THEOREM TypeCorrect == Spec => []TypeOK
<1>1. Init => TypeOK
  <2> SUFFICES ASSUME Init PROVE TypeOK
    OBVIOUS
  <2> USE CurlAssumption DEF Init
  <2>1. JobTypeOK
    <3>1. /\ born \in BOOLEAN /\ present \in BOOLEAN /\ err \in BOOLEAN
          /\ status \in TaskStates /\ snap \in TaskStates \cup {Absent}
      BY Zenon DEF TaskStates
    <3>2. gen \in 0 .. MaxGen /\ token \in 0 .. MaxGen
      OBVIOUS
    <3>3. cancelled \in SUBSET (0 .. MaxGen)
      OBVIOUS
    <3> QED
      BY <3>1, <3>2, <3>3 DEF JobTypeOK
  <2>2. QueueTypeOK
    BY DEF QueueTypeOK
  <2>3. WorkerTypeOK
    BY DEF WorkerTypeOK, WorkerPC, WatchdogPC
  <2>4. CallerTypeOK
    BY DEF CallerTypeOK, CallerPC
  <2> QED
    BY <2>1, <2>2, <2>3, <2>4 DEF TypeOK
<1>2. TypeOK /\ [Next]_vars => TypeOK'
  BY JobTypeStep, QueueTypeStep, WorkerTypeStep, CallerTypeStep DEF TypeOK
<1> QED
  BY <1>1, <1>2, PTL DEF Spec

----------------------------------------------------------------------------
\* The steps that touch the job; every other step leaves it alone.
LEMMA JobSteps ==
  ASSUME [Next]_vars
  PROVE  \/ UNCHANGED <<born, jobVars>>
         \/ \E c \in Clients, mode \in CreateModes : create_curl_task(c, mode)
         \/ \E c \in Clients : pause_task(c) \/ redownload_task(c) \/ delete_task(c)
         \/ \E c \in Callers : resume_lock(c) \/ start_curl_process(c)
         \/ start_curl_task_by_id
         \/ \E g \in Gens : \/ run_phase(g) \/ mark_curl_task_failed(g) \/ finish(g)
                            \/ finalize(g) \/ commit(g)
         \/ \E g \in Gens : watchdog_cancel(g) \/ force_error_status(g)
<1>1. CASE \E c \in Clients : resume_task(c) \/ list_all_tasks(c)
  BY <1>1 DEF resume_task, list_all_tasks
<1>2. CASE \E c \in Callers : \/ register_task_with_engine(c) \/ pause_publish(c)
                              \/ resume_wait(c) \/ redo_remove(c)
                              \/ redo_release(c) \/ redo_publish(c)
                              \/ del_release(c) \/ list_merge(c) \/ spawn_worker(c)
  BY <1>2 DEF register_task_with_engine, pause_publish, resume_wait, redo_remove,
     redo_release, redo_publish, del_release, list_merge, spawn_worker
<1>3. CASE resolved_publish
  BY <1>3 DEF resolved_publish
<1>4. CASE \E g \in Gens : \/ publish(g) \/ cancel_check(g) \/ classify(g)
                           \/ check_watchdog(g) \/ fail_release(g) \/ verify(g)
                           \/ postprocess(g) \/ complete_release(g)
                           \/ progress(g) \/ attempt_ends(g)
  BY <1>4 DEF publish, cancel_check, classify, check_watchdog, fail_release, verify,
     postprocess, complete_release, progress, attempt_ends
<1>5. CASE \E g \in Gens : \/ watchdog_poll(g) \/ watchdog_release(g)
                           \/ watchdog_publish(g)
  BY <1>5 DEF watchdog_poll, watchdog_release, watchdog_publish
<1>6. CASE UNCHANGED vars
  BY <1>6 DEF vars
<1> QED
  BY NextCases, <1>1, <1>2, <1>3, <1>4, <1>5, <1>6

\* A phase of a run keeps everything of the job but the status, which it leaves
\* alone or moves along the lifecycle to another active state.
LEMMA RunPhaseStatus ==
  ASSUME NEW g \in Gens, run_phase(g)
  PROVE  /\ UNCHANGED <<born, present, gen, token, cancelled, err>>
         /\ \/ UNCHANGED status
            \/ /\ present /\ CanTransition(status, status')
               /\ status' \in {"Probing", "Downloading", "Recovering", "Retrying"}
<1>1. PICK next \in {"Probing", "Downloading", "Recovering", "Retrying"},
           pc \in WorkerPC : transition_runtime_task_state(g, next, pc)
  BY DEF run_phase, WorkerPC
<1> QED
  BY <1>1 DEF transition_runtime_task_state, Accepts

----------------------------------------------------------------------------
\* Whenever the job of a task is Failed its error_message is set, whichever of
\* mark_curl_task_failed, force_error_status, resume_task and
\* start_curl_process touched it last.
THEOREM FailureExplained == Spec => []FailedHasReason
<1>1. Init => FailedHasReason
  BY DEF Init, FailedHasReason
<1>2. FailedHasReason /\ [Next]_vars => FailedHasReason'
  <2> SUFFICES ASSUME FailedHasReason, [Next]_vars PROVE FailedHasReason'
    OBVIOUS
  <2> USE DEF FailedHasReason
  <2>1. CASE UNCHANGED <<born, jobVars>>
    BY <2>1 DEF jobVars
  <2>2. ASSUME NEW c \in Clients, NEW mode \in CreateModes, create_curl_task(c, mode)
        PROVE  FailedHasReason'
    BY <2>2 DEF create_curl_task
  <2>3. ASSUME NEW c \in Clients, pause_task(c) PROVE FailedHasReason'
    BY <2>3 DEF pause_task, PauseTarget
  <2>4. ASSUME NEW c \in Clients, redownload_task(c) PROVE FailedHasReason'
    BY <2>4 DEF redownload_task
  <2>5. ASSUME NEW c \in Clients, delete_task(c) PROVE FailedHasReason'
    BY <2>5 DEF delete_task
  <2>6. ASSUME NEW c \in Callers, resume_lock(c) PROVE FailedHasReason'
    BY <2>6 DEF resume_lock
  <2>7. ASSUME NEW c \in Callers, start_curl_process(c) PROVE FailedHasReason'
    BY <2>7 DEF start_curl_process
  <2>8. CASE start_curl_task_by_id
    BY <2>8 DEF start_curl_task_by_id
  <2>9. ASSUME NEW g \in Gens, run_phase(g) PROVE FailedHasReason'
    BY <2>9, RunPhaseStatus
  <2>10. ASSUME NEW g \in Gens, mark_curl_task_failed(g) PROVE FailedHasReason'
    BY <2>10 DEF mark_curl_task_failed, FailureMessage
  <2>11. ASSUME NEW g \in Gens, finish(g) PROVE FailedHasReason'
    BY <2>11 DEF finish
  <2>12. ASSUME NEW g \in Gens, finalize(g) PROVE FailedHasReason'
    BY <2>12 DEF finalize
  <2>13. ASSUME NEW g \in Gens, commit(g) PROVE FailedHasReason'
    BY <2>13 DEF commit
  <2>14. ASSUME NEW g \in Gens, watchdog_cancel(g) PROVE FailedHasReason'
    BY <2>14 DEF watchdog_cancel
  <2>15. ASSUME NEW g \in Gens, force_error_status(g) PROVE FailedHasReason'
    BY <2>15 DEF force_error_status, SetWatchdogError
  <2> HIDE DEF FailedHasReason
  <2> QED
    BY JobSteps, <2>1, <2>2, <2>3, <2>4, <2>5, <2>6, <2>7, <2>8, <2>9, <2>10,
       <2>11, <2>12, <2>13, <2>14, <2>15
<1> QED
  BY <1>1, <1>2, PTL DEF Spec

----------------------------------------------------------------------------
\* The tables TaskLifecycle extends are the ones CurlLifecycle uses.
LEMMA SameTables ==
  /\ Lifecycle!TaskStates = TaskStates
  /\ \A s, t : Lifecycle!CanTransition(s, t) = CanTransition(s, t)
  /\ \A s, t : Lifecycle!CanRestart(s, t) = CanRestart(s, t)
BY DEF Lifecycle!TaskStates, TaskStates, Lifecycle!CanTransition, CanTransition,
   Lifecycle!Successors, Successors, Lifecycle!CanRestart, CanRestart

\* A step that moves the status of a present job along the lifecycle, or leaves
\* it alone, is a Transition of TaskLifecycle or a stutter.
LEMMA StatusStep ==
  ASSUME TypeOK, TypeOK', UNCHANGED <<born, present>>,
         UNCHANGED status \/ (present /\ CanTransition(status, status'))
  PROVE  [Lifecycle!Next]_AbstractState
<1>1. status \in TaskStates /\ status' \in TaskStates
  BY DEF TypeOK, JobTypeOK
<1>2. CASE born /\ present /\ CanTransition(status, status')
  <2>1. AbstractState = status /\ AbstractState' = status'
    BY <1>2 DEF AbstractState
  <2>2. Lifecycle!Transition
    BY <1>1, <1>2, <2>1, SameTables DEF Lifecycle!Transition
  <2> QED
    BY <2>2 DEF Lifecycle!Next
<1>3. CASE ~(born /\ present /\ CanTransition(status, status'))
  BY <1>3 DEF AbstractState
<1> QED
  BY <1>2, <1>3

\* The detailed specification implements TaskLifecycle: whatever callers, stale
\* workers and watchdogs do, the status of the job moves only along the
\* lifecycle, leaves Completed only by a redownload, and a deleted task does not
\* come back to curl_jobs.
THEOREM Refinement == Spec => RefinesLifecycle
<1>1. Init => Lifecycle!Init
  BY DEF Init, Lifecycle!Init, AbstractState, Lifecycle!Unborn
<1>2. TypeOK /\ TypeOK' /\ [Next]_vars => [Lifecycle!Next]_AbstractState
  <2> SUFFICES ASSUME TypeOK, TypeOK', [Next]_vars
               PROVE  [Lifecycle!Next]_AbstractState
    OBVIOUS
  <2> DEFINE Goal == [Lifecycle!Next]_AbstractState
  <2>0. status \in TaskStates /\ status' \in TaskStates
    BY DEF TypeOK, JobTypeOK
  <2>1. CASE UNCHANGED <<born, jobVars>>
    BY <2>1 DEF jobVars, AbstractState
  <2>2. ASSUME NEW c \in Clients, NEW mode \in CreateModes, create_curl_task(c, mode)
        PROVE  Goal
    <3>1. Lifecycle!Create
      BY <2>2 DEF create_curl_task, AbstractState, Lifecycle!Create, Lifecycle!Unborn
    <3> QED
      BY <3>1 DEF Lifecycle!Next
  <2>3. ASSUME NEW c \in Clients, pause_task(c) PROVE Goal
    BY <2>3, StatusStep DEF pause_task
  <2>4. ASSUME NEW c \in Clients, redownload_task(c) PROVE Goal
    <3>1. CASE present
      <4>1. born /\ UNCHANGED <<born, present>> /\ status' \in {status, "Queued"}
        BY <2>4 DEF redownload_task
      <4>2. AbstractState = status /\ AbstractState' = status'
        BY <4>1, <3>1 DEF AbstractState
      <4>3. Lifecycle!CanRestart(status, "Queued") /\ "Queued" \in Lifecycle!TaskStates
        BY <2>0, SameTables DEF CanRestart, TaskStates
      <4>4. status' = "Queued" => Lifecycle!Restart
        BY <4>2, <4>3 DEF Lifecycle!Restart
      <4> QED
        BY <4>1, <4>2, <4>4 DEF Lifecycle!Next
    <3>2. CASE ~present
      BY <2>4, <3>2 DEF redownload_task, AbstractState
    <3> QED
      BY <3>1, <3>2
  <2>5. ASSUME NEW c \in Clients, delete_task(c) PROVE Goal
    <3>1. CASE present
      <4>1. AbstractState = status /\ AbstractState' = "Deleted"
        BY <2>5, <3>1 DEF delete_task, AbstractState
      <4>2. Lifecycle!Delete
        BY <4>1, <2>0, SameTables DEF Lifecycle!Delete, Lifecycle!Deleted
      <4> QED
        BY <4>2 DEF Lifecycle!Next
    <3>2. CASE ~present
      BY <2>5, <3>2 DEF delete_task, AbstractState
    <3> QED
      BY <3>1, <3>2
  <2>6. ASSUME NEW c \in Callers, resume_lock(c) PROVE Goal
    BY <2>6, StatusStep DEF resume_lock
  <2>7. ASSUME NEW c \in Callers, start_curl_process(c) PROVE Goal
    BY <2>7, StatusStep DEF start_curl_process, MayStart
  <2>8. CASE start_curl_task_by_id
    <3>1. CanTransition("Queued", "Preparing")
      BY DEF CanTransition, Successors
    <3> QED
      BY <2>8, <3>1, StatusStep DEF start_curl_task_by_id
  <2>9. ASSUME NEW g \in Gens, run_phase(g) PROVE Goal
    BY <2>9, RunPhaseStatus, StatusStep
  <2>10. ASSUME NEW g \in Gens, mark_curl_task_failed(g) PROVE Goal
    BY <2>10, StatusStep DEF mark_curl_task_failed, IsCurrent
  <2>11. ASSUME NEW g \in Gens, finish(g) PROVE Goal
    BY <2>11, StatusStep DEF finish, IsCurrent
  <2>12. ASSUME NEW g \in Gens, finalize(g) PROVE Goal
    BY <2>12, StatusStep DEF finalize, IsCurrent
  <2>13. ASSUME NEW g \in Gens, commit(g) PROVE Goal
    BY <2>13, StatusStep DEF commit, IsCurrent
  <2>14. ASSUME NEW g \in Gens, watchdog_cancel(g) PROVE Goal
    BY <2>14, StatusStep DEF watchdog_cancel
  <2>15. ASSUME NEW g \in Gens, force_error_status(g) PROVE Goal
    BY <2>15, StatusStep DEF force_error_status, SetWatchdogError, IsCurrent
  <2> QED
    BY JobSteps, <2>1, <2>2, <2>3, <2>4, <2>5, <2>6, <2>7, <2>8, <2>9, <2>10,
       <2>11, <2>12, <2>13, <2>14, <2>15
<1> QED
  BY <1>1, <1>2, TypeCorrect, PTL DEF Spec, RefinesLifecycle, Lifecycle!Spec

-----------------------------------------------------------------------------
(* Ownership of the task.                                                  *)

\* A step of a caller or a watchdog that starts no run keeps OwnershipInv if
\* it takes the task from a run only by cancelling it.
LEMMA NoSpawnKeepsOwnership ==
  ASSUME TypeOK, TypeOK', OwnershipInv,
         UNCHANGED <<wpc, wthen, cgen>>,
         present' => born', gen <= gen', cancelled \subseteq cancelled',
         \A c \in Callers : cpc'[c] = "spawn" => cpc[c] = "spawn",
         \A g \in Gens : dpc'[g] = "force" => dpc[g] = "force" \/ g \in cancelled',
         \A g \in Gens : Owns(g) => Owns(g)' \/ g \in cancelled'
  PROVE  OwnershipInv'
<1> USE DEF OwnershipInv, IsCancelled
<1>1. SpawnOwns'
  <2> SUFFICES ASSUME NEW c \in Callers, cpc'[c] = "spawn"
               PROVE  /\ cgen[c] \in Gens /\ cgen[c] <= gen' /\ wpc[cgen[c]] = "none"
                      /\ cgen[c] \notin cancelled' => Owns(cgen[c])'
                      /\ \A d \in Callers : cpc'[d] = "spawn" /\ d # c =>
                                               cgen[d] # cgen[c]
    BY DEF SpawnOwns
  <2>1. /\ cgen[c] \in Gens /\ cgen[c] <= gen /\ wpc[cgen[c]] = "none"
        /\ cgen[c] \notin cancelled => Owns(cgen[c])
    BY DEF SpawnOwns
  <2>2. cgen[c] <= gen'
    BY <2>1 DEF TypeOK, JobTypeOK, Gens
  <2>3. cgen[c] \notin cancelled' => Owns(cgen[c])'
    BY <2>1
  <2>4. \A d \in Callers : cpc'[d] = "spawn" /\ d # c => cgen[d] # cgen[c]
    BY DEF SpawnOwns
  <2> QED
    BY <2>1, <2>2, <2>3, <2>4
<1>2. WorkersArePast'
  BY DEF WorkersArePast, TypeOK, JobTypeOK, Gens
<1>3. ForcedIsCancelled'
  BY DEF ForcedIsCancelled
<1>4. UncancelledWorkerOwnsTask'
  BY DEF UncancelledWorkerOwnsTask, Live
<1> QED
  BY <1>1, <1>2, <1>3, <1>4

\* A step of worker g keeps OwnershipInv if it leaves the other workers alone, does
\* not bring g back to life, and ends the activity of the task only when g is
\* the current run and gives up its own say with the same step.
LEMMA WorkerKeepsOwnership ==
  ASSUME TypeOK, TypeOK', OwnershipInv,
         NEW g \in Gens, wpc[g] # "none",
         \A h \in Gens \ {g} : wpc'[h] = wpc[h] /\ wthen'[h] = wthen[h],
         UNCHANGED <<born, present, gen, token, cancelled, dpc, cpc, cgen>>,
         Live(g)' => Live(g),
         \/ IsActive(status) => IsActive(status')
         \/ gen = g /\ ~Live(g)'
  PROVE  OwnershipInv'
<1> USE DEF OwnershipInv, IsCancelled
<1>1. SpawnOwns'
  <2> SUFFICES ASSUME NEW c \in Callers, cpc[c] = "spawn"
               PROVE  /\ cgen[c] \in Gens /\ cgen[c] <= gen /\ wpc'[cgen[c]] = "none"
                      /\ cgen[c] \notin cancelled => Owns(cgen[c])'
                      /\ \A d \in Callers : cpc[d] = "spawn" /\ d # c =>
                                               cgen[d] # cgen[c]
    BY DEF SpawnOwns
  <2>1. /\ cgen[c] \in Gens /\ cgen[c] <= gen /\ wpc[cgen[c]] = "none"
        /\ cgen[c] \notin cancelled => Owns(cgen[c])
        /\ \A d \in Callers : cpc[d] = "spawn" /\ d # c => cgen[d] # cgen[c]
    BY DEF SpawnOwns
  <2>2. cgen[c] # g
    BY <2>1
  <2> QED
    BY <2>1, <2>2 DEF Owns
<1>2. WorkersArePast'
  BY DEF WorkersArePast
<1>3. ForcedIsCancelled'
  BY DEF ForcedIsCancelled
<1>4. UncancelledWorkerOwnsTask'
  <2> SUFFICES ASSUME NEW h \in Gens, Live(h)', h \notin cancelled
               PROVE  Owns(h)'
    BY DEF UncancelledWorkerOwnsTask
  <2>1. Live(h)
    BY DEF Live
  <2>2. Owns(h)
    BY <2>1 DEF UncancelledWorkerOwnsTask
  <2> QED
    BY <2>2 DEF Owns
<1> QED
  BY <1>1, <1>2, <1>3, <1>4

\* A step of worker g leaves the callers, the watchdogs and the other workers alone;
\* it ends the activity of the task only when g is the current run and gives up
\* its own say with the same step.
LEMMA WorkerFrame ==
  ASSUME TypeOK, NEW g \in Gens, WorkerStep(g) \/ progress(g) \/ attempt_ends(g)
  PROVE  /\ wpc[g] # "none"
         /\ \A h \in Gens \ {g} : wpc'[h] = wpc[h] /\ wthen'[h] = wthen[h]
         /\ UNCHANGED <<born, present, gen, token, cancelled, dpc, cpc, cgen, cwas>>
         /\ Live(g)' => Live(g)
         /\ \/ IsActive(status) => IsActive(status')
            \/ gen = g /\ ~Live(g)'
<1> DEFINE Others == \A h \in Gens \ {g} : wpc'[h] = wpc[h] /\ wthen'[h] = wthen[h]
           Frame  == UNCHANGED <<born, present, gen, token, cancelled, dpc, cpc, cgen,
                                 cwas>>
           Acts   == \/ IsActive(status) => IsActive(status')
                     \/ gen = g /\ ~Live(g)'
           Allowed == wpc[g] # "none" /\ Others /\ Frame /\ (Live(g)' => Live(g)) /\ Acts
<1>0. wpc \in [Gens -> WorkerPC] /\ wthen \in [Gens -> WorkerPC]
  BY DEF TypeOK, WorkerTypeOK
<1>1. ASSUME publish(g) PROVE Allowed
  BY <1>0, <1>1 DEF publish, WGoto, Live, IsActive, ActiveStates, jobVars, callerVars
<1>2. ASSUME cancel_check(g) PROVE Allowed
  BY <1>0, <1>2 DEF cancel_check, WGoto, Live, IsActive, ActiveStates, jobVars, callerVars
<1>3. ASSUME classify(g) PROVE Allowed
  BY <1>0, <1>3 DEF classify, WGoto, Live, IsActive, ActiveStates, jobVars, callerVars
<1>4. ASSUME check_watchdog(g) PROVE Allowed
  BY <1>0, <1>4 DEF check_watchdog, WGoto, Live, IsActive, ActiveStates, jobVars, callerVars
<1>5. ASSUME fail_release(g) PROVE Allowed
  BY <1>0, <1>5 DEF fail_release, PublishThen, WGoto, Live, IsActive, ActiveStates,
     jobVars, callerVars
<1>6. ASSUME verify(g) PROVE Allowed
  BY <1>0, <1>6 DEF verify, WGoto, Live, IsActive, ActiveStates, jobVars, callerVars
<1>7. ASSUME postprocess(g) PROVE Allowed
  BY <1>0, <1>7 DEF postprocess, WGoto, Live, IsActive, ActiveStates, jobVars, callerVars
<1>8. ASSUME complete_release(g) PROVE Allowed
  BY <1>0, <1>8 DEF complete_release, PublishThen, WGoto, Live, IsActive, ActiveStates,
     jobVars, callerVars
<1>9. ASSUME progress(g) PROVE Allowed
  BY <1>0, <1>9 DEF progress, PublishThen, WGoto, Live, IsActive, ActiveStates, jobVars,
     callerVars
<1>10. ASSUME attempt_ends(g) PROVE Allowed
  BY <1>0, <1>10 DEF attempt_ends, WGoto, Live, IsActive, ActiveStates, jobVars, callerVars
<1>11. ASSUME mark_curl_task_failed(g) PROVE Allowed
  BY <1>0, <1>11 DEF mark_curl_task_failed, IsCurrent, WGoto, Live, IsActive,
     ActiveStates, jobVars, callerVars
<1>12. ASSUME finish(g) PROVE Allowed
  BY <1>0, <1>12 DEF finish, IsCurrent, PublishThen, WGoto, Live, IsActive, ActiveStates,
     jobVars, callerVars
<1>13. ASSUME finalize(g) PROVE Allowed
  BY <1>0, <1>13 DEF finalize, IsCurrent, PublishThen, WGoto, Live, IsActive,
     ActiveStates, jobVars, callerVars
<1>14. ASSUME commit(g) PROVE Allowed
  BY <1>0, <1>14 DEF commit, IsCurrent, WGoto, Live, IsActive, ActiveStates, jobVars,
     callerVars
<1>15. ASSUME run_phase(g) PROVE Allowed
  <2>1. PICK next \in TaskStates, pc \in WorkerPC :
           transition_runtime_task_state(g, next, pc)
    BY <1>15 DEF run_phase, TaskStates, WorkerPC
  <2>2. wpc[g] # "none" /\ Live(g)
    BY <1>15 DEF run_phase, Live
  <2>3. Others
    BY <1>0, <2>1 DEF transition_runtime_task_state, PublishThen, WGoto
  <2>4. Frame
    BY <2>1 DEF transition_runtime_task_state, callerVars
  <2>5. Acts
    BY <1>15, RunPhaseStatus DEF IsActive, ActiveStates
  <2> QED
    BY <2>2, <2>3, <2>4, <2>5
<1> QED
  BY <1>1, <1>2, <1>3, <1>4, <1>5, <1>6, <1>7, <1>8, <1>9, <1>10, <1>11, <1>12, <1>13,
     <1>14, <1>15 DEF WorkerStep

\* Every step of a worker.
LEMMA WorkerOwnership ==
  ASSUME TypeOK, TypeOK', OwnershipInv, NEW g \in Gens,
         WorkerStep(g) \/ progress(g) \/ attempt_ends(g)
  PROVE  OwnershipInv'
BY WorkerFrame, WorkerKeepsOwnership

\* Every step of a watchdog: it sets the token before it forces a status, so
\* that a run it takes the task from is cancelled.
LEMMA WatchdogOwnership ==
  ASSUME TypeOK, TypeOK', OwnershipInv, NEW g \in Gens, WatchdogStep(g)
  PROVE  OwnershipInv'
<1> DEFINE Forcing == \A h \in Gens :
                        dpc'[h] = "force" => dpc[h] = "force" \/ h \in cancelled'
           Keeps   == \A h \in Gens : Owns(h) => Owns(h)' \/ h \in cancelled'
           Frame   == /\ UNCHANGED <<wpc, wthen, cgen, cpc, born, present, gen>>
                      /\ cancelled \subseteq cancelled'
           Allowed == Forcing /\ Keeps /\ Frame
<1>0. dpc \in [Gens -> WatchdogPC] /\ gen \in Nat
  BY CurlAssumption DEF TypeOK, WorkerTypeOK, JobTypeOK
<1>1. ASSUME watchdog_poll(g) PROVE Allowed
  BY <1>0, <1>1 DEF watchdog_poll, DGoto, Owns, jobVars, workerVars, callerVars
<1>2. ASSUME watchdog_cancel(g) PROVE Allowed
  BY <1>0, <1>2 DEF watchdog_cancel, DGoto, Owns, workerVars, callerVars
<1>3. ASSUME force_error_status(g) PROVE Allowed
  <2>1. g \in cancelled
    BY <1>3 DEF force_error_status, OwnershipInv, ForcedIsCancelled, IsCancelled
  <2> QED
    BY <1>0, <1>3, <2>1 DEF force_error_status, IsCurrent, DGoto, Owns, workerVars,
       callerVars
<1>4. ASSUME watchdog_release(g) PROVE Allowed
  BY <1>0, <1>4 DEF watchdog_release, DGoto, Owns, jobVars, workerVars, callerVars
<1>5. ASSUME watchdog_publish(g) PROVE Allowed
  BY <1>0, <1>5 DEF watchdog_publish, DGoto, Owns, jobVars, workerVars, callerVars
<1>6. Allowed
  BY <1>1, <1>2, <1>3, <1>4, <1>5 DEF WatchdogStep
<1>7. (present' => born') /\ gen <= gen'
  BY <1>0, <1>6 DEF OwnershipInv
<1> QED
  BY <1>6, <1>7, NoSpawnKeepsOwnership

StartAccepted == MayStart /\ CanTransition(status, "Preparing")

\* A request, or a step of a caller that starts no run.
CallerOnlyStep ==
  \/ \E c \in Clients : ApiRequest(c)
  \/ \E c \in Callers : /\ CallerStep(c) /\ ~spawn_worker(c)
                        /\ ~(start_curl_process(c) /\ StartAccepted)
  \/ ResolverStep

\* Such a step leaves workers and watchdogs alone and takes the task from a run
\* only by cancelling it; it ends the activity of a present job only together
\* with its generation.
LEMMA CallerFrame ==
  ASSUME TypeOK, OwnershipInv, CallerOnlyStep
  PROVE  /\ \A d \in Callers : cpc'[d] = "spawn" => cpc[d] = "spawn"
         /\ \A h \in Gens : Owns(h) => Owns(h)' \/ h \in cancelled'
         /\ UNCHANGED <<wpc, wthen, cgen, dpc>>
         /\ (present' => born') /\ gen <= gen' /\ cancelled \subseteq cancelled'
         /\ ~born' => ~born /\ gen' = gen
         /\ \/ UNCHANGED <<present, gen>> /\ (IsActive(status) => IsActive(status'))
            \/ ~present'
            \/ gen' = gen + 1
            \/ ~born /\ gen' = gen
<1> DEFINE Calls   == \A d \in Callers : cpc'[d] = "spawn" => cpc[d] = "spawn"
           Keeps   == \A h \in Gens : Owns(h) => Owns(h)' \/ h \in cancelled'
           Frame   == /\ UNCHANGED <<wpc, wthen, cgen, dpc>>
                      /\ (present' => born') /\ gen <= gen'
                      /\ cancelled \subseteq cancelled'
           Acts    == /\ ~born' => ~born /\ gen' = gen
                      /\ \/ /\ UNCHANGED <<present, gen>>
                            /\ IsActive(status) => IsActive(status')
                         \/ ~present'
                         \/ gen' = gen + 1
                         \/ ~born /\ gen' = gen
           Allowed == Calls /\ Keeps /\ Frame /\ Acts
<1>0. /\ cpc \in [Callers -> CallerPC] /\ gen \in Nat /\ (present => born)
      /\ Clients \subseteq Callers /\ Resolver \in Callers
  BY CurlAssumption DEF TypeOK, CallerTypeOK, JobTypeOK, OwnershipInv, Callers
<1>1. ASSUME NEW c \in Clients, NEW mode \in CreateModes, create_curl_task(c, mode)
      PROVE  Allowed
  <2>1. Calls
    BY <1>0, <1>1 DEF create_curl_task, Request, Goto
  <2>2. ~born /\ ~present /\ born' /\ UNCHANGED <<gen, cancelled, wpc, wthen, dpc, cgen>>
    BY <1>0, <1>1 DEF create_curl_task, workerVars
  <2>3. Keeps
    BY <2>2 DEF Owns
  <2>4. Frame /\ Acts
    BY <1>0, <2>2
  <2> QED
    BY <2>1, <2>3, <2>4
<1>2. ASSUME NEW c \in Clients, pause_task(c) PROVE Allowed
  <2>1. Calls
    BY <1>0, <1>2 DEF pause_task, Request, Goto
  <2>2. Keeps /\ Frame
    BY <1>0, <1>2 DEF pause_task, Owns, workerVars
  <2>3. Acts
    BY <1>2 DEF pause_task, PauseTarget, IsActive, ActiveStates
  <2> QED
    BY <2>1, <2>2, <2>3
<1>3. ASSUME NEW c \in Clients, resume_task(c) PROVE Allowed
  BY <1>0, <1>3 DEF resume_task, Request, Goto, jobVars, Owns, workerVars, callerVars
<1>4. ASSUME NEW c \in Clients, redownload_task(c) PROVE Allowed
  BY <1>0, <1>4 DEF redownload_task, Request, Goto, Owns, workerVars, callerVars
<1>5. ASSUME NEW c \in Clients, delete_task(c) PROVE Allowed
  BY <1>0, <1>5 DEF delete_task, Request, Goto, Owns, workerVars, callerVars
<1>6. ASSUME NEW c \in Clients, list_all_tasks(c) PROVE Allowed
  BY <1>0, <1>6 DEF list_all_tasks, Request, Goto, jobVars, Owns, workerVars, callerVars
<1>7. ASSUME NEW c \in Callers, pause_publish(c) PROVE Allowed
  BY <1>0, <1>7 DEF pause_publish, Goto, jobVars, Owns, workerVars, callerVars
<1>8. ASSUME NEW c \in Callers, resume_wait(c) PROVE Allowed
  BY <1>0, <1>8 DEF resume_wait, Goto, jobVars, Owns, workerVars, callerVars
<1>9. ASSUME NEW c \in Callers, resume_lock(c) PROVE Allowed
  BY <1>0, <1>9 DEF resume_lock, Goto, CanTransition, Successors, IsActive, ActiveStates,
     Owns, workerVars, callerVars
<1>10. ASSUME NEW c \in Callers, redo_remove(c) PROVE Allowed
  BY <1>0, <1>10 DEF redo_remove, Goto, jobVars, Owns, workerVars, callerVars
<1>11. ASSUME NEW c \in Callers, redo_release(c) PROVE Allowed
  BY <1>0, <1>11 DEF redo_release, Goto, jobVars, Owns, workerVars, callerVars
<1>12. ASSUME NEW c \in Callers, redo_publish(c) PROVE Allowed
  BY <1>0, <1>12 DEF redo_publish, Goto, jobVars, Owns, workerVars, callerVars
<1>13. ASSUME NEW c \in Callers, del_release(c) PROVE Allowed
  BY <1>0, <1>13 DEF del_release, Goto, jobVars, Owns, workerVars, callerVars
<1>14. ASSUME NEW c \in Callers, list_merge(c) PROVE Allowed
  BY <1>0, <1>14 DEF list_merge, Goto, jobVars, Owns, workerVars, callerVars
<1>15. ASSUME NEW c \in Callers, register_task_with_engine(c) PROVE Allowed
  BY <1>0, <1>15 DEF register_task_with_engine, Goto, jobVars, Owns, workerVars, callerVars
<1>16. ASSUME start_curl_task_by_id PROVE Allowed
  BY <1>0, <1>16 DEF start_curl_task_by_id, Goto, IsActive, ActiveStates, Owns,
     workerVars, callerVars
<1>17. ASSUME resolved_publish PROVE Allowed
  BY <1>0, <1>17 DEF resolved_publish, Goto, jobVars, Owns, workerVars, callerVars
<1>18. ASSUME NEW c \in Callers, start_curl_process(c),
             ~StartAccepted
      PROVE  Allowed
  <2>1. \A h \in Gens : MayStart => ~Owns(h)
    BY DEF MayStart, Owns, Gens
  <2>2. Calls
    BY <1>0, <1>18 DEF start_curl_process, StartAccepted, AfterStart, Goto
  <2>3. Keeps /\ Frame
    BY <1>0, <1>18, <2>1 DEF start_curl_process, StartAccepted, Owns, workerVars
  <2>4. Acts
    BY <1>0, <1>18 DEF start_curl_process, StartAccepted, MayStart
  <2> QED
    BY <2>2, <2>3, <2>4
<1> QED
  BY <1>1, <1>2, <1>3, <1>4, <1>5, <1>6, <1>7, <1>8, <1>9, <1>10, <1>11, <1>12, <1>13,
     <1>14, <1>15, <1>16, <1>17, <1>18
     DEF CallerOnlyStep, ApiRequest, CallerStep, ResolverStep

\* Every step of a caller that starts no run.
LEMMA CallerOwnership ==
  ASSUME TypeOK, TypeOK', OwnershipInv, CallerOnlyStep
  PROVE  OwnershipInv'
BY CallerFrame, NoSpawnKeepsOwnership

\* The section of start_curl_process under the lock, when it goes through: no
\* run owns the task, and the new generation is ahead of every worker.
LEMMA StartOwnership ==
  ASSUME TypeOK, TypeOK', OwnershipInv, NEW c \in Callers,
         start_curl_process(c), StartAccepted
  PROVE  OwnershipInv'
<1>0. /\ cpc \in [Callers -> CallerPC] /\ cgen \in [Callers -> 0 .. MaxGen]
      /\ gen \in Nat /\ MaxGen \in Nat
  BY CurlAssumption DEF TypeOK, CallerTypeOK, JobTypeOK
<1>n. PICK n \in Nat : n = gen + 1
  BY <1>0
<1>1. \A h \in Gens : ~Owns(h)
  BY DEF StartAccepted, MayStart, Owns, Gens
<1>2. /\ gen < MaxGen /\ gen' = n /\ token' = n
      /\ status' = "Preparing" /\ present /\ present' = present /\ born' = born
      /\ cgen' = [cgen EXCEPT ![c] = n] /\ cpc' = [cpc EXCEPT ![c] = "spawn"]
      /\ UNCHANGED <<wpc, wthen, dpc, cancelled>>
  BY <1>n DEF start_curl_process, StartAccepted, MayStart, Goto, workerVars
<1>3. n \in Gens /\ wpc[n] = "none" /\ \A h \in Nat : h <= gen => h # n
  BY <1>0, <1>n, <1>2 DEF Gens, OwnershipInv, WorkersArePast
<1>4. Owns(n)'
  BY <1>0, <1>2 DEF Owns, IsActive, ActiveStates
<1>5. SpawnOwns'
  <2> SUFFICES ASSUME NEW d \in Callers, cpc'[d] = "spawn"
               PROVE  /\ cgen'[d] \in Gens /\ cgen'[d] <= gen'
                      /\ wpc'[cgen'[d]] = "none"
                      /\ cgen'[d] \notin cancelled' => Owns(cgen[d])'
                      /\ \A e \in Callers : cpc'[e] = "spawn" /\ e # d =>
                                               cgen'[e] # cgen'[d]
    BY DEF SpawnOwns, IsCancelled, Owns
  <2>1. \A e \in Callers \ {c} : /\ cgen'[e] = cgen[e] /\ cpc'[e] = cpc[e]
                                 /\ cpc[e] = "spawn" => cgen[e] <= gen
    BY <1>0, <1>2 DEF OwnershipInv, SpawnOwns
  <2>2. cgen'[c] = n
    BY <1>0, <1>2
  <2>3. CASE d = c
    BY <1>0, <1>n, <1>2, <1>3, <1>4, <2>1, <2>2, <2>3
  <2>4. CASE d # c
    <3>1. cpc[d] = "spawn" /\ cgen'[d] = cgen[d] /\ cgen[d] <= gen
      BY <2>1, <2>4
    <3>2. /\ cgen[d] \in Gens /\ wpc[cgen[d]] = "none"
          /\ cgen[d] \notin cancelled => Owns(cgen[d])
          /\ \A e \in Callers : cpc[e] = "spawn" /\ e # d => cgen[e] # cgen[d]
      BY <3>1 DEF OwnershipInv, SpawnOwns, IsCancelled
    <3>3. cgen[d] \in cancelled
      BY <3>2, <1>1
    <3>4. cgen[d] <= gen' /\ n # cgen[d]
      BY <1>0, <1>2, <1>n, <3>1
    <3> QED
      BY <1>2, <2>1, <2>2, <2>4, <3>1, <3>2, <3>3, <3>4
  <2> QED
    BY <2>3, <2>4
<1>6. WorkersArePast'
  BY <1>0, <1>n, <1>2 DEF OwnershipInv, WorkersArePast, Gens
<1>7. ForcedIsCancelled'
  BY <1>2 DEF OwnershipInv, ForcedIsCancelled, IsCancelled
<1>8. UncancelledWorkerOwnsTask'
  BY <1>1, <1>2 DEF OwnershipInv, UncancelledWorkerOwnsTask, Live, IsCancelled
<1> QED
  BY <1>2, <1>5, <1>6, <1>7, <1>8 DEF OwnershipInv

\* The thread is spawned: the ownership of the caller becomes the worker's.
LEMMA SpawnOwnership ==
  ASSUME TypeOK, TypeOK', OwnershipInv, NEW c \in Callers, spawn_worker(c)
  PROVE  OwnershipInv'
<1> DEFINE k == cgen[c]
<1>0. /\ cpc \in [Callers -> CallerPC] /\ cgen \in [Callers -> 0 .. MaxGen]
      /\ wpc \in [Gens -> WorkerPC] /\ dpc \in [Gens -> WatchdogPC]
  BY DEF TypeOK, CallerTypeOK, WorkerTypeOK
<1>1. /\ k \in Gens /\ k <= gen /\ wpc[k] = "none"
      /\ k \notin cancelled => Owns(k)
      /\ \A d \in Callers : cpc[d] = "spawn" /\ d # c => cgen[d] # k
  BY DEF spawn_worker, OwnershipInv, SpawnOwns, IsCancelled
<1>2. /\ wpc' = [wpc EXCEPT ![k] = "check_probe"]
      /\ cgen' = [cgen EXCEPT ![c] = 0]
      /\ cpc' = [cpc EXCEPT ![c] = AfterStart(c)]
      /\ UNCHANGED <<born, present, status, gen, token, cancelled, wthen>>
  BY DEF spawn_worker, Goto, jobVars
<1>3. \A d \in Callers : cpc'[d] = "spawn" =>
         d # c /\ cpc[d] = "spawn" /\ cgen'[d] = cgen[d] /\ wpc'[cgen[d]] = wpc[cgen[d]]
  BY <1>0, <1>1, <1>2 DEF AfterStart, OwnershipInv, SpawnOwns
<1>4. SpawnOwns'
  BY <1>2, <1>3 DEF OwnershipInv, SpawnOwns, IsCancelled, Owns
<1>5. WorkersArePast'
  BY <1>0, <1>1, <1>2 DEF OwnershipInv, WorkersArePast
<1>6. ForcedIsCancelled'
  BY <1>0, <1>2 DEF spawn_worker, OwnershipInv, ForcedIsCancelled, IsCancelled
<1>7. UncancelledWorkerOwnsTask'
  BY <1>0, <1>1, <1>2 DEF OwnershipInv, UncancelledWorkerOwnsTask, Live, IsCancelled, Owns
<1> QED
  BY <1>2, <1>4, <1>5, <1>6, <1>7 DEF OwnershipInv

\* The inductive invariant that CurlLifecycle states and TLC checks: a run that
\* start_curl_process has registered and not yet spawned owns the task unless it
\* was cancelled, a worker belongs to a generation that was given out, the
\* watchdog forces only runs it has cancelled, and a live worker owns the task.
THEOREM OwnershipInductive == Spec => []OwnershipInv
<1>1. Init => OwnershipInv
  BY DEF Init, OwnershipInv, SpawnOwns, WorkersArePast, ForcedIsCancelled,
     UncancelledWorkerOwnsTask, Live
<1>2. TypeOK /\ TypeOK' /\ OwnershipInv /\ [Next]_vars => OwnershipInv'
  <2> SUFFICES ASSUME TypeOK, TypeOK', OwnershipInv, [Next]_vars
               PROVE  OwnershipInv'
    OBVIOUS
  <2>1. CASE UNCHANGED vars
    BY <2>1 DEF vars, jobVars, workerVars, callerVars, OwnershipInv, SpawnOwns,
       WorkersArePast, ForcedIsCancelled, UncancelledWorkerOwnsTask, Live, Owns,
       IsCancelled
  <2>2. CASE \/ \E c \in Clients : ApiRequest(c)
             \/ \E c \in Callers : CallerStep(c)
             \/ ResolverStep
    BY <2>2, CallerOwnership, StartOwnership, SpawnOwnership DEF CallerOnlyStep
  <2>3. CASE \E g \in Gens : WorkerStep(g) \/ progress(g) \/ attempt_ends(g)
    BY <2>3, WorkerOwnership
  <2>4. CASE \E g \in Gens : WatchdogStep(g)
    BY <2>4, WatchdogOwnership
  <2> QED
    BY <2>1, <2>2, <2>3, <2>4 DEF Next
<1> QED
  BY <1>1, <1>2, TypeCorrect, PTL DEF Spec

\* At any time at most one worker believes it owns the task, and it is right:
\* tokens, generations and the guard of start_curl_process exclude two live runs
\* of one download for every number of concurrent requests.
THEOREM Ownership == Spec => []UncancelledWorkerOwnsTask
<1>1. OwnershipInv => UncancelledWorkerOwnsTask
  BY DEF OwnershipInv
<1> QED
  BY <1>1, OwnershipInductive, PTL

----------------------------------------------------------------------------
\* Without a watchdog nothing but the current run itself ends the activity of
\* the task under it: a worker that can still change the task, or is about to
\* be spawned, belongs to an active task unless its generation is over.
CurrentIsActive == \A g \in Gens : Live(g) /\ gen = g /\ present => IsActive(status)

SpawnIsActive ==
  \A c \in Callers : cpc[c] = "spawn" /\ gen = cgen[c] /\ present => IsActive(status)

ActiveInv ==
  /\ \A g \in Gens : dpc[g] = "none"
  /\ ~born => gen = 0
  /\ CurrentIsActive /\ SpawnIsActive

\* A step of a worker.
LEMMA WorkerKeepsActive ==
  ASSUME TypeOK, OwnershipInv, ActiveInv, NEW g \in Gens,
         WorkerStep(g) \/ progress(g) \/ attempt_ends(g)
  PROVE  ActiveInv'
<1>1. /\ wpc[g] # "none"
      /\ \A h \in Gens \ {g} : Live(h)' = Live(h)
      /\ UNCHANGED <<born, present, gen, dpc, cpc, cgen>>
      /\ Live(g)' => Live(g)
      /\ (IsActive(status) => IsActive(status')) \/ (gen = g /\ ~Live(g)')
  BY WorkerFrame DEF Live
<1>2. CurrentIsActive'
  <2> SUFFICES ASSUME NEW h \in Gens, Live(h)', gen = h, present
               PROVE  IsActive(status')
    BY <1>1 DEF CurrentIsActive
  <2>1. Live(h) /\ IsActive(status)
    BY <1>1 DEF ActiveInv, CurrentIsActive
  <2> QED
    BY <1>1, <2>1
<1>3. SpawnIsActive'
  <2> SUFFICES ASSUME NEW c \in Callers, cpc[c] = "spawn", gen = cgen[c], present
               PROVE  IsActive(status')
    BY <1>1 DEF SpawnIsActive
  <2>1. gen # g
    BY <1>1 DEF OwnershipInv, SpawnOwns
  <2> QED
    BY <1>1, <2>1 DEF ActiveInv, SpawnIsActive
<1> QED
  BY <1>1, <1>2, <1>3 DEF ActiveInv

\* A step of a caller that starts no run.
LEMMA CallerKeepsActive ==
  ASSUME TypeOK, OwnershipInv, ActiveInv, CallerOnlyStep
  PROVE  ActiveInv'
<1>0. gen \in Nat /\ \A h \in Gens : h \in Nat /\ h # 0
  BY CurlAssumption DEF TypeOK, JobTypeOK, Gens
<1>1. /\ \A h \in Gens : Live(h)' = Live(h)
      /\ \A d \in Callers : cpc'[d] = "spawn" => cpc[d] = "spawn"
      /\ UNCHANGED <<cgen, dpc>>
      /\ ~born' => ~born /\ gen' = gen
      /\ \/ UNCHANGED <<present, gen>> /\ (IsActive(status) => IsActive(status'))
         \/ ~present'
         \/ gen' = gen + 1
         \/ ~born /\ gen' = gen
  BY CallerFrame DEF Live
<1>2. \A h \in Gens : Live(h) => h <= gen
  BY DEF OwnershipInv, WorkersArePast, Live
<1>3. \A d \in Callers : cpc[d] = "spawn" => cgen[d] \in Gens /\ cgen[d] <= gen
  BY DEF OwnershipInv, SpawnOwns
<1>4. \A h \in Gens : h <= gen => h # gen + 1 /\ (born \/ h # gen)
  BY <1>0 DEF ActiveInv
<1>5. CurrentIsActive'
  BY <1>1, <1>2, <1>4 DEF ActiveInv, CurrentIsActive
<1>6. SpawnIsActive'
  BY <1>1, <1>3, <1>4 DEF ActiveInv, SpawnIsActive
<1> QED
  BY <1>1, <1>5, <1>6 DEF ActiveInv

\* Starting a run: start_curl_process leaves the task in Preparing, and the
\* spawned worker takes over what its caller claimed.
LEMMA StartKeepsActive ==
  ASSUME TypeOK, OwnershipInv, ActiveInv, ~Watchdog, NEW c \in Callers,
         (start_curl_process(c) /\ StartAccepted) \/ spawn_worker(c)
  PROVE  ActiveInv'
<1>1. CASE start_curl_process(c) /\ StartAccepted
  <2>1. status' = "Preparing" /\ UNCHANGED <<born, dpc>> /\ born
    BY <1>1 DEF start_curl_process, StartAccepted, MayStart, OwnershipInv
  <2> QED
    BY <2>1 DEF ActiveInv, CurrentIsActive, SpawnIsActive, IsActive, ActiveStates
<1>2. CASE spawn_worker(c)
  <2>0. /\ wpc \in [Gens -> WorkerPC] /\ dpc \in [Gens -> WatchdogPC]
        /\ cgen \in [Callers -> 0 .. MaxGen] /\ cpc \in [Callers -> CallerPC]
    BY DEF TypeOK, WorkerTypeOK, CallerTypeOK
  <2>1. /\ cpc[c] = "spawn" /\ UNCHANGED <<born, present, gen, status, wthen>>
        /\ \A h \in Gens : h # cgen[c] => wpc'[h] = wpc[h]
        /\ \A h \in Gens : dpc'[h] = "none"
        /\ \A d \in Callers : cpc'[d] = "spawn" => cpc[d] = "spawn" /\ cgen'[d] = cgen[d]
    BY <1>2, <2>0 DEF spawn_worker, Goto, AfterStart, ActiveInv, jobVars
  <2>2. CurrentIsActive'
    <3> SUFFICES ASSUME NEW h \in Gens, Live(h)', gen = h, present
                 PROVE  IsActive(status)
      BY <2>1 DEF CurrentIsActive
    <3>1. CASE h = cgen[c]
      BY <2>1, <3>1 DEF ActiveInv, SpawnIsActive
    <3>2. CASE h # cgen[c]
      BY <2>1, <3>2 DEF ActiveInv, CurrentIsActive, Live
    <3> QED
      BY <3>1, <3>2
  <2>3. SpawnIsActive'
    BY <2>1 DEF ActiveInv, SpawnIsActive
  <2> QED
    BY <2>1, <2>2, <2>3 DEF ActiveInv
<1> QED
  BY <1>1, <1>2

\* ActiveInv is an invariant of a daemon whose runs have no watchdog.
LEMMA ActiveInductive ==
  ASSUME ~Watchdog
  PROVE  Spec => []ActiveInv
<1>1. Init => ActiveInv
  BY DEF Init, ActiveInv, CurrentIsActive, SpawnIsActive, Live
<1>2. TypeOK /\ OwnershipInv /\ ActiveInv /\ [Next]_vars => ActiveInv'
  <2> SUFFICES ASSUME TypeOK, OwnershipInv, ActiveInv, [Next]_vars
               PROVE  ActiveInv'
    OBVIOUS
  <2>1. CASE UNCHANGED vars
    BY <2>1 DEF vars, jobVars, workerVars, callerVars, ActiveInv, CurrentIsActive,
       SpawnIsActive, Live
  <2>2. CASE \/ \E c \in Clients : ApiRequest(c)
             \/ \E c \in Callers : CallerStep(c)
             \/ ResolverStep
    BY <2>2, CallerKeepsActive, StartKeepsActive DEF CallerOnlyStep
  <2>3. CASE \E g \in Gens : WorkerStep(g) \/ progress(g) \/ attempt_ends(g)
    BY <2>3, WorkerKeepsActive
  <2>4. CASE \E g \in Gens : WatchdogStep(g)
    BY <2>4 DEF ActiveInv, WatchdogStep, watchdog_poll, watchdog_cancel,
       force_error_status, watchdog_release, watchdog_publish
  <2> QED
    BY <2>1, <2>2, <2>3, <2>4 DEF Next
<1> QED
  BY <1>1, <1>2, TypeCorrect, OwnershipInductive, PTL DEF Spec

\* Without a watchdog a Paused task stays Paused until a request moves it: the
\* worker that mark_curl_task_failed sees as current belongs to an active task,
\* and every other transition a worker asks for is refused from Paused.
THEOREM PauseIsFinal ==
  ASSUME ~Watchdog
  PROVE  Spec => PausedUntilRequested
<1> DEFINE Stays == status = "Paused" /\ status' # "Paused" => wpc' = wpc /\ dpc' = dpc
<1>1. ActiveInv /\ [Next]_vars => Stays
  <2> SUFFICES ASSUME ActiveInv, [Next]_vars, status = "Paused", status' # "Paused"
               PROVE  wpc' = wpc /\ dpc' = dpc
    OBVIOUS
  <2>1. CASE \/ \E c \in Clients, mode \in CreateModes : create_curl_task(c, mode)
             \/ \E c \in Clients : pause_task(c) \/ redownload_task(c) \/ delete_task(c)
             \/ \E c \in Callers : resume_lock(c) \/ start_curl_process(c)
             \/ start_curl_task_by_id
    BY <2>1 DEF create_curl_task, pause_task, redownload_task, delete_task, resume_lock,
       start_curl_process, start_curl_task_by_id, workerVars
  <2>2. ASSUME NEW g \in Gens, run_phase(g) PROVE FALSE
    BY <2>2, RunPhaseStatus DEF CanTransition, Successors
  <2>3. ASSUME NEW g \in Gens, mark_curl_task_failed(g) PROVE FALSE
    BY <2>3 DEF mark_curl_task_failed, IsCurrent, ActiveInv, CurrentIsActive, Live,
       IsActive, ActiveStates
  <2>4. ASSUME NEW g \in Gens, finish(g) \/ finalize(g) \/ commit(g) PROVE FALSE
    BY <2>4 DEF finish, finalize, commit, CanTransition, Successors
  <2>5. ASSUME NEW g \in Gens, watchdog_cancel(g) \/ force_error_status(g) PROVE FALSE
    BY <2>5 DEF watchdog_cancel, force_error_status, ActiveInv
  <2>6. ~UNCHANGED <<born, jobVars>>
    BY DEF jobVars
  <2> QED
    BY JobSteps, <2>1, <2>2, <2>3, <2>4, <2>5, <2>6
<1>2. ActiveInv /\ [Next]_vars => [Stays]_vars
  BY <1>1
<1> QED
  BY <1>2, ActiveInductive, PTL DEF Spec, PausedUntilRequested

----------------------------------------------------------------------------
\* The slot account: besides the slots of other tasks, the queue counts one slot
\* for each run that has recorded its outcome and not yet given its slot back,
\* one for an active task whose run has been spawned, and one that a redownload
\* or a delete has taken over from the run it superseded.
ReleasePC == {"fail_release", "complete_release"}
Releasing == {g \in Gens : wpc[g] \in ReleasePC}
Starting  == \E c \in Callers : cpc[c] \in {"start", "spawn"}
Held      == present /\ IsActive(status) /\ ~Starting
Owed      == \E c \in Callers : cwas[c]

One(b) == IF b THEN 1 ELSE 0

Balance == active = OtherSlots + Cardinality(Releasing) + One(Held) + One(Owed)

\* What the caller on its way through a request knows about the job.
CallerKnows(c) ==
  /\ cwas[c] => cpc[c] \in {"redo_remove", "redo_release", "del_release"}
  /\ cpc[c] = "start" =>
       present /\ (status = "Queued" \/ (status = "Preparing" /\ gen = 0))
  /\ cpc[c] \in {"redo_remove", "redo_release", "redo_publish"} =>
       present /\ status = "Queued"
  /\ cpc[c] = "spawn" => present /\ gen = cgen[c] /\ IsActive(status)

SlotInv ==
  /\ cpc[Resolver] = "idle" /\ ~cwas[Resolver]
  /\ \A g \in Gens : wthen[g] \notin ReleasePC
  /\ \A c \in Clients : CallerKnows(c)
  /\ Balance

\* The runs are finitely many, and so are those that give back a slot.
LEMMA ReleasingFinite == IsFiniteSet(Releasing) /\ Cardinality(Releasing) \in Nat
<1>1. IsFiniteSet(Gens)
  BY CurlAssumption, FS_Interval DEF Gens
<1>2. Releasing \in SUBSET Gens
  BY DEF Releasing
<1>3. IsFiniteSet(Releasing)
  BY <1>1, <1>2, FS_Subset
<1> QED
  BY <1>3, FS_CardinalityType

\* The six ways a step may touch the account without upsetting it: not at all;
\* a request takes the slot of the run it supersedes; that slot is given back;
\* a spawned run takes one; a run records its outcome; a run gives its slot back.
LEMMA Balanced ==
  ASSUME TypeOK, Balance,
         \/ UNCHANGED <<active, Releasing, Held, Owed>>
         \/ UNCHANGED <<active, Releasing>> /\ Held = Owed' /\ ~Held' /\ ~Owed
         \/ UNCHANGED <<Releasing, Held>> /\ Owed /\ ~Owed' /\ release_active_slot
         \/ UNCHANGED <<Releasing, Owed>> /\ ~Held /\ Held' /\ start_download
         \/ /\ UNCHANGED <<active, Owed>> /\ Held /\ ~Held'
            /\ \E g \in Gens \ Releasing : Releasing' = Releasing \cup {g}
         \/ /\ UNCHANGED <<Held, Owed>> /\ release_active_slot
            /\ \E g \in Releasing : Releasing' = Releasing \ {g}
  PROVE  Balance'
<1> DEFINE n == Cardinality(Releasing)
<1>0. n \in Nat /\ OtherSlots \in Nat
  BY ReleasingFinite, CurlAssumption
<1>1. active = OtherSlots + n + One(Held) + One(Owed)
  BY DEF Balance
<1>2. One(Held) \in Nat /\ One(Owed) \in Nat
  BY DEF One
<1> SUFFICES active' = OtherSlots + Cardinality(Releasing') + One(Held') + One(Owed')
  BY DEF Balance, One
<1> HIDE DEF n
<1>3. CASE UNCHANGED <<active, Releasing, Held, Owed>>
  BY <1>1, <1>3 DEF n
<1>4. CASE UNCHANGED <<active, Releasing>> /\ Held = Owed' /\ ~Held' /\ ~Owed
  <2>1. Cardinality(Releasing') = n
    BY <1>4 DEF n
  <2>2. One(Owed') = One(Held) /\ One(Held') = 0 /\ One(Owed) = 0
    BY <1>4 DEF One
  <2> QED
    BY <1>0, <1>1, <1>2, <1>4, <2>1, <2>2
<1>5. CASE UNCHANGED <<Releasing, Held>> /\ Owed /\ ~Owed' /\ release_active_slot
  <2>1. Cardinality(Releasing') = n /\ One(Held') = One(Held)
    BY <1>5 DEF n
  <2>2. One(Owed) = 1 /\ One(Owed') = 0
    BY <1>5 DEF One
  <2>3. active' = IF active = 0 THEN 0 ELSE active - 1
    BY <1>5 DEF release_active_slot
  <2> QED
    BY <1>0, <1>1, <1>2, <2>1, <2>2, <2>3
<1>6. CASE UNCHANGED <<Releasing, Owed>> /\ ~Held /\ Held' /\ start_download
  <2>1. Cardinality(Releasing') = n /\ One(Owed') = One(Owed)
    BY <1>6 DEF n
  <2>2. One(Held) = 0 /\ One(Held') = 1
    BY <1>6 DEF One
  <2>3. active' = active + 1
    BY <1>6 DEF start_download
  <2> QED
    BY <1>0, <1>1, <1>2, <2>1, <2>2, <2>3
<1>7. CASE /\ UNCHANGED <<active, Owed>> /\ Held /\ ~Held'
           /\ \E g \in Gens \ Releasing : Releasing' = Releasing \cup {g}
  <2>1. Cardinality(Releasing') = n + 1
    BY <1>7, ReleasingFinite, FS_AddElement DEF n
  <2>2. One(Held) = 1 /\ One(Held') = 0 /\ One(Owed') = One(Owed) /\ active' = active
    BY <1>7 DEF One
  <2> QED
    BY <1>0, <1>1, <1>2, <2>1, <2>2
<1>8. CASE /\ UNCHANGED <<Held, Owed>> /\ release_active_slot
           /\ \E g \in Releasing : Releasing' = Releasing \ {g}
  <2>1. Cardinality(Releasing') = n - 1
    BY <1>8, ReleasingFinite, FS_RemoveElement DEF n
  <2>2. Cardinality(Releasing') \in Nat
    <3>1. PICK g \in Releasing : Releasing' = Releasing \ {g}
      BY <1>8
    <3>2. IsFiniteSet(Releasing')
      BY <3>1, ReleasingFinite, FS_RemoveElement
    <3> QED
      BY <3>2, FS_CardinalityType
  <2>3. One(Held') = One(Held) /\ One(Owed') = One(Owed)
    BY <1>8
  <2>4. active' = IF active = 0 THEN 0 ELSE active - 1
    BY <1>8 DEF release_active_slot
  <2> QED
    BY <1>0, <1>1, <1>2, <2>1, <2>2, <2>3, <2>4
<1> QED
  BY <1>3, <1>4, <1>5, <1>6, <1>7, <1>8

\* A worker's step on the account: it records the outcome of the active task it
\* owns, or gives back the slot of an outcome recorded before, or neither; and
\* a task that a request has put back to Queued is left Queued.
LEMMA WorkerSlot ==
  ASSUME TypeOK, OwnershipInv, ActiveInv, SlotInv, NEW g \in Gens,
         WorkerStep(g) \/ progress(g) \/ attempt_ends(g)
  PROVE  /\ wthen'[g] \notin ReleasePC
         /\ present /\ status = "Queued" => status' = "Queued"
         /\ \/ /\ wpc[g] \notin ReleasePC /\ wpc'[g] \notin ReleasePC
               /\ active' = active /\ (IsActive(status') <=> IsActive(status))
            \/ /\ wpc[g] \notin ReleasePC /\ wpc'[g] \in ReleasePC
               /\ active' = active /\ present /\ gen = g /\ Live(g)
               /\ IsActive(status) /\ ~IsActive(status')
            \/ /\ wpc[g] \in ReleasePC /\ wpc'[g] \notin ReleasePC
               /\ release_active_slot /\ status' = status
<1> DEFINE Plain == /\ wpc[g] \notin ReleasePC /\ wpc'[g] \notin ReleasePC
                    /\ active' = active /\ (IsActive(status') <=> IsActive(status))
           Records == /\ wpc[g] \notin ReleasePC /\ wpc'[g] \in ReleasePC
                      /\ active' = active /\ present /\ gen = g /\ Live(g)
                      /\ IsActive(status) /\ ~IsActive(status')
           GivesBack == /\ wpc[g] \in ReleasePC /\ wpc'[g] \notin ReleasePC
                        /\ release_active_slot /\ status' = status
           Then == wthen'[g] \notin ReleasePC
           Queued == present /\ status = "Queued" => status' = "Queued"
           Goal == Then /\ Queued /\ (Plain \/ Records \/ GivesBack)
<1>0. /\ wpc \in [Gens -> WorkerPC] /\ wthen \in [Gens -> WorkerPC]
      /\ wthen[g] \notin ReleasePC
      /\ Live(g) /\ gen = g /\ present => IsActive(status)
  BY DEF TypeOK, WorkerTypeOK, SlotInv, ActiveInv, CurrentIsActive
<1>1. ASSUME publish(g) PROVE Goal
  BY <1>0, <1>1 DEF publish, WGoto, jobVars, queueVars, ReleasePC
<1>2. ASSUME cancel_check(g) PROVE Goal
  BY <1>0, <1>2 DEF cancel_check, WGoto, AfterCheck, jobVars, queueVars, ReleasePC
<1>3. ASSUME classify(g) PROVE Goal
  BY <1>0, <1>3 DEF classify, WGoto, jobVars, queueVars, ReleasePC
<1>4. ASSUME check_watchdog(g) PROVE Goal
  BY <1>0, <1>4 DEF check_watchdog, WGoto, jobVars, queueVars, ReleasePC
<1>5. ASSUME fail_release(g) PROVE Goal
  BY <1>0, <1>5 DEF fail_release, stop_download, PublishThen, WGoto, jobVars, ReleasePC
<1>6. ASSUME verify(g) PROVE Goal
  BY <1>0, <1>6 DEF verify, WGoto, jobVars, queueVars, ReleasePC
<1>7. ASSUME postprocess(g) PROVE Goal
  BY <1>0, <1>7 DEF postprocess, WGoto, jobVars, queueVars, ReleasePC
<1>8. ASSUME complete_release(g) PROVE Goal
  BY <1>0, <1>8 DEF complete_release, stop_download, PublishThen, WGoto, jobVars,
     ReleasePC
<1>9. ASSUME progress(g) PROVE Goal
  BY <1>0, <1>9 DEF progress, PublishThen, WGoto, jobVars, queueVars, ReleasePC
<1>10. ASSUME attempt_ends(g) PROVE Goal
  BY <1>0, <1>10 DEF attempt_ends, WGoto, jobVars, queueVars, ReleasePC
<1>11. ASSUME mark_curl_task_failed(g) PROVE Goal
  BY <1>0, <1>11 DEF mark_curl_task_failed, IsCurrent, WGoto, queueVars, ReleasePC, Live,
     IsActive, ActiveStates
<1>12. ASSUME finish(g) PROVE Goal
  BY <1>0, <1>12 DEF finish, IsCurrent, PublishThen, WGoto, queueVars, ReleasePC,
     CanTransition, Successors, IsActive, ActiveStates
<1>13. ASSUME finalize(g) PROVE Goal
  BY <1>0, <1>13 DEF finalize, IsCurrent, PublishThen, WGoto, queueVars, ReleasePC,
     CanTransition, Successors, IsActive, ActiveStates
<1>14. ASSUME commit(g) PROVE Goal
  BY <1>0, <1>14 DEF commit, IsCurrent, WGoto, queueVars, ReleasePC, Live, CanTransition,
     Successors, IsActive, ActiveStates
<1>15. ASSUME run_phase(g) PROVE Goal
  <2>1. PICK next \in TaskStates, pc \in WorkerPC \ ReleasePC :
           transition_runtime_task_state(g, next, pc)
    BY <1>15 DEF run_phase, TaskStates, WorkerPC, ReleasePC
  <2>2. wpc[g] \notin ReleasePC
    BY <1>15 DEF run_phase, ReleasePC
  <2>3. Then /\ wpc'[g] \notin ReleasePC /\ active' = active
    BY <1>0, <2>1 DEF transition_runtime_task_state, PublishThen, WGoto, queueVars, ReleasePC
  <2>4. Queued /\ (IsActive(status') <=> IsActive(status))
    BY <1>15, RunPhaseStatus DEF CanTransition, Successors, IsActive, ActiveStates
  <2> QED
    BY <2>2, <2>3, <2>4
<1> QED
  BY <1>1, <1>2, <1>3, <1>4, <1>5, <1>6, <1>7, <1>8, <1>9, <1>10, <1>11, <1>12, <1>13,
     <1>14, <1>15 DEF WorkerStep

\* Every step of a worker keeps the account.
LEMMA WorkerKeepsSlots ==
  ASSUME TypeOK, OwnershipInv, ActiveInv, SlotInv, NEW g \in Gens,
         WorkerStep(g) \/ progress(g) \/ attempt_ends(g)
  PROVE  SlotInv'
<1>1. /\ wpc[g] # "none"
      /\ \A h \in Gens \ {g} : wpc'[h] = wpc[h] /\ wthen'[h] = wthen[h]
      /\ UNCHANGED <<present, gen, cpc, cgen, cwas>>
      /\ (IsActive(status) => IsActive(status')) \/ (gen = g /\ ~Live(g)')
  BY WorkerFrame
<1>2. /\ \A c \in Clients : c \in Callers
      /\ \A c \in Callers : c = Resolver \/ c \in Clients
      /\ \A c \in Callers : ~cwas[c] \/ c \in Clients
      /\ g # 0 /\ gen \in Nat /\ g \in Nat
  BY CurlAssumption DEF Callers, SlotInv, Gens, TypeOK, JobTypeOK
<1>3. \A c \in Clients : cpc[c] = "spawn" => cgen[c] # g
  BY <1>1, <1>2 DEF OwnershipInv, SpawnOwns
<1>4. gen # 0
  BY <1>1, <1>2 DEF OwnershipInv, WorkersArePast
<1>5. \A c \in Clients : CallerKnows(c)'
  <2> SUFFICES ASSUME NEW c \in Clients PROVE CallerKnows(c)'
    OBVIOUS
  <2>1. CallerKnows(c)
    BY DEF SlotInv
  <2> QED
    BY <1>1, <1>3, <1>4, <2>1, WorkerSlot DEF CallerKnows
<1>6. gen = g /\ Live(g) /\ IsActive(status) => ~Starting
  <2> SUFFICES ASSUME gen = g, IsActive(status), NEW c \in Callers,
                      cpc[c] \in {"start", "spawn"}
               PROVE  FALSE
    BY DEF Starting
  <2>1. c \in Clients /\ CallerKnows(c)
    BY <1>2 DEF SlotInv
  <2> QED
    BY <1>3, <1>4, <2>1 DEF CallerKnows, IsActive, ActiveStates
<1>7. Owed' = Owed /\ Starting' = Starting
  BY <1>1 DEF Owed, Starting
<1>8. Balance'
  <2>1. CASE /\ wpc[g] \notin ReleasePC /\ wpc'[g] \notin ReleasePC
             /\ active' = active /\ (IsActive(status') <=> IsActive(status))
    <3>1. Releasing' = Releasing
      BY <1>1, <2>1 DEF Releasing
    <3>2. Held' = Held
      BY <1>1, <1>7, <2>1 DEF Held
    <3> QED
      BY <1>7, <2>1, <3>1, <3>2, Balanced DEF SlotInv
  <2>2. CASE /\ wpc[g] \notin ReleasePC /\ wpc'[g] \in ReleasePC
             /\ active' = active /\ present /\ gen = g /\ Live(g)
             /\ IsActive(status) /\ ~IsActive(status')
    <3>1. g \in Gens \ Releasing /\ Releasing' = Releasing \cup {g}
      BY <1>1, <2>2 DEF Releasing
    <3>2. Held /\ ~Held'
      BY <1>6, <2>2 DEF Held
    <3> QED
      BY <1>7, <2>2, <3>1, <3>2, Balanced DEF SlotInv
  <2>3. CASE /\ wpc[g] \in ReleasePC /\ wpc'[g] \notin ReleasePC
             /\ release_active_slot /\ status' = status
    <3>1. g \in Releasing /\ Releasing' = Releasing \ {g}
      BY <1>1, <2>3 DEF Releasing
    <3>2. Held' = Held
      BY <1>1, <1>7, <2>3 DEF Held
    <3> QED
      BY <1>7, <2>3, <3>1, <3>2, Balanced DEF SlotInv
  <2> QED
    BY <2>1, <2>2, <2>3, WorkerSlot
<1>9. \A h \in Gens : wthen'[h] \notin ReleasePC
  BY <1>1, WorkerSlot DEF SlotInv
<1> QED
  BY <1>1, <1>5, <1>8, <1>9 DEF SlotInv

\* The daemon SlotsMatchStatus is about: no watchdog, no background resolver, and
\* one request at a time.
OneAtATime == ~Watchdog /\ "resolve" \notin CreateModes /\ \A c, d \in Clients : c = d

\* The share of the account that is caller c's.
Holds(c) == present /\ IsActive(status) /\ cpc[c] \notin {"start", "spawn"}

\* A step of the one client: what it knows afterwards, and how it moves a slot.
CallerSlotStep(c) ==
  /\ wthen' = wthen /\ Releasing' = Releasing
  /\ \A d \in Callers \ {c} : cpc'[d] = cpc[d] /\ cwas'[d] = cwas[d]
  /\ CallerKnows(c)'
  /\ \/ active' = active /\ (Holds(c)' <=> Holds(c)) /\ (cwas'[c] <=> cwas[c])
     \/ active' = active /\ (cwas'[c] <=> Holds(c)) /\ ~Holds(c)' /\ ~cwas[c]
     \/ release_active_slot /\ (Holds(c)' <=> Holds(c)) /\ cwas[c] /\ ~cwas'[c]
     \/ start_download /\ ~Holds(c) /\ Holds(c)' /\ (cwas'[c] <=> cwas[c])

\* Requests.
LEMMA RequestSlot ==
  ASSUME TypeOK, TypeOK', OwnershipInv, ActiveInv, SlotInv, OneAtATime,
         NEW c \in Clients, ApiRequest(c)
  PROVE  CallerSlotStep(c)
<1>0. /\ c \in Callers /\ cpc \in [Callers -> CallerPC] /\ cwas \in [Callers -> BOOLEAN]
      /\ CallerKnows(c) /\ status \in TaskStates
  BY DEF Callers, TypeOK, CallerTypeOK, JobTypeOK, SlotInv
<1>1. ASSUME NEW mode \in CreateModes, create_curl_task(c, mode) PROVE CallerSlotStep(c)
  <2>1. ~present /\ gen = 0 /\ mode # "resolve" /\ cpc[c] = "idle"
    BY <1>1 DEF create_curl_task, Request, OwnershipInv, ActiveInv, OneAtATime
  <2> QED
    BY <1>0, <1>1, <2>1 DEF create_curl_task, Goto, queueVars, workerVars, CallerSlotStep,
       Releasing, Holds, CallerKnows, IsActive, ActiveStates
<1>2. ASSUME pause_task(c) PROVE CallerSlotStep(c)
  BY <1>0, <1>2 DEF pause_task, Request, Goto, PauseTarget, queueVars, workerVars,
     CallerSlotStep, Releasing, Holds, CallerKnows, IsActive, ActiveStates
<1>3. ASSUME resume_task(c) PROVE CallerSlotStep(c)
  BY <1>0, <1>3 DEF resume_task, Request, Goto, jobVars, queueVars, workerVars,
     CallerSlotStep, Releasing, Holds, CallerKnows
<1>4. ASSUME redownload_task(c) PROVE CallerSlotStep(c)
  BY <1>0, <1>4 DEF redownload_task, Request, Goto, queueVars, workerVars,
     CallerSlotStep, Releasing, Holds, CallerKnows, IsActive, ActiveStates
<1>5. ASSUME delete_task(c) PROVE CallerSlotStep(c)
  BY <1>0, <1>5 DEF delete_task, Request, Goto, queueVars, workerVars,
     CallerSlotStep, Releasing, Holds, CallerKnows
<1>6. ASSUME list_all_tasks(c) PROVE CallerSlotStep(c)
  BY <1>0, <1>6 DEF list_all_tasks, Request, Goto, jobVars, queueVars, workerVars,
     CallerSlotStep, Releasing, Holds, CallerKnows
<1> QED
  BY <1>1, <1>2, <1>3, <1>4, <1>5, <1>6 DEF ApiRequest

\* What a caller does after its request was let in.
LEMMA CallerSlot ==
  ASSUME TypeOK, TypeOK', OwnershipInv, ActiveInv, SlotInv, OneAtATime,
         NEW c \in Clients, CallerStep(c)
  PROVE  CallerSlotStep(c)
<1>0. /\ c \in Callers /\ cpc \in [Callers -> CallerPC] /\ cwas \in [Callers -> BOOLEAN]
      /\ wpc \in [Gens -> WorkerPC] /\ cgen \in [Callers -> 0 .. MaxGen]
      /\ CallerKnows(c) /\ cmode[c] # "resolve"
  BY DEF Callers, TypeOK, CallerTypeOK, WorkerTypeOK, SlotInv, OneAtATime
<1>1. ASSUME register_task_with_engine(c) PROVE CallerSlotStep(c)
  BY <1>0, <1>1 DEF register_task_with_engine, jobVars, workerVars,
     CallerSlotStep, Releasing, Holds, CallerKnows
<1>2. ASSUME pause_publish(c) PROVE CallerSlotStep(c)
  BY <1>0, <1>2 DEF pause_publish, Goto, jobVars, queueVars, workerVars,
     CallerSlotStep, Releasing, Holds, CallerKnows
<1>3. ASSUME resume_wait(c) PROVE CallerSlotStep(c)
  BY <1>0, <1>3 DEF resume_wait, Goto, jobVars, queueVars, workerVars,
     CallerSlotStep, Releasing, Holds, CallerKnows
<1>4. ASSUME resume_lock(c) PROVE CallerSlotStep(c)
  BY <1>0, <1>4 DEF resume_lock, Goto, queueVars, workerVars, CanTransition, Successors,
     CallerSlotStep, Releasing, Holds, CallerKnows, IsActive, ActiveStates
<1>5. ASSUME redo_remove(c) PROVE CallerSlotStep(c)
  BY <1>0, <1>5 DEF redo_remove, Goto, jobVars, queueVars, workerVars,
     CallerSlotStep, Releasing, Holds, CallerKnows
<1>6. ASSUME redo_release(c) PROVE CallerSlotStep(c)
  BY <1>0, <1>6 DEF redo_release, Goto, jobVars, workerVars,
     CallerSlotStep, Releasing, Holds, CallerKnows
<1>7. ASSUME redo_publish(c) PROVE CallerSlotStep(c)
  BY <1>0, <1>7 DEF redo_publish, Goto, jobVars, queueVars, workerVars,
     CallerSlotStep, Releasing, Holds, CallerKnows, IsActive, ActiveStates
<1>8. ASSUME del_release(c) PROVE CallerSlotStep(c)
  BY <1>0, <1>8 DEF del_release, stop_download, Goto, jobVars, workerVars,
     CallerSlotStep, Releasing, Holds, CallerKnows
<1>9. ASSUME list_merge(c) PROVE CallerSlotStep(c)
  BY <1>0, <1>9 DEF list_merge, Goto, jobVars, queueVars, workerVars,
     CallerSlotStep, Releasing, Holds, CallerKnows
<1>10. ASSUME start_curl_process(c) PROVE CallerSlotStep(c)
  <2>1. cpc[c] = "start" /\ ~cwas[c] /\ status # "Completed"
        /\ MayStart /\ CanTransition(status, "Preparing")
    BY <1>0, <1>10 DEF start_curl_process, CallerKnows, MayStart, CanTransition, Successors,
       IsActive, ActiveStates
  <2>2. /\ present' /\ status' = "Preparing" /\ gen' = gen + 1
        /\ cgen' = [cgen EXCEPT ![c] = gen + 1] /\ cpc' = [cpc EXCEPT ![c] = "spawn"]
        /\ UNCHANGED <<wpc, wthen, active, cwas>>
    BY <1>10, <2>1 DEF start_curl_process, MayStart, Goto, queueVars, workerVars
  <2> QED
    BY <1>0, <2>1, <2>2 DEF CallerSlotStep, Releasing, Holds, CallerKnows, IsActive,
       ActiveStates
<1>11. ASSUME spawn_worker(c) PROVE CallerSlotStep(c)
  <2>1. cpc[c] = "spawn" /\ cgen[c] \in Gens /\ wpc[cgen[c]] = "none"
    BY <1>11 DEF spawn_worker, OwnershipInv, SpawnOwns, Callers
  <2>2. /\ wpc' = [wpc EXCEPT ![cgen[c]] = "check_probe"]
        /\ cpc' = [cpc EXCEPT ![c] = AfterStart(c)] /\ AfterStart(c) \in {"idle", "register"}
        /\ UNCHANGED <<present, gen, status, wthen, cwas>> /\ start_download
    BY <1>11 DEF spawn_worker, Goto, AfterStart, jobVars
  <2>3. Releasing' = Releasing
    BY <1>0, <2>1, <2>2 DEF Releasing, ReleasePC
  <2>4. present /\ IsActive(status) /\ ~cwas[c]
    BY <1>0, <2>1 DEF CallerKnows
  <2> QED
    BY <1>0, <2>1, <2>2, <2>3, <2>4 DEF CallerSlotStep, Holds, CallerKnows
<1> QED
  BY <1>1, <1>2, <1>3, <1>4, <1>5, <1>6, <1>7, <1>8, <1>9, <1>10, <1>11 DEF CallerStep

\* Such a step keeps the account.
LEMMA CallerKeepsSlots ==
  ASSUME TypeOK, TypeOK', SlotInv, OneAtATime, NEW c \in Clients, CallerSlotStep(c)
  PROVE  SlotInv'
<1>0. /\ Callers = {c, Resolver} /\ Resolver # c
      /\ cwas \in [Callers -> BOOLEAN] /\ cwas' \in [Callers -> BOOLEAN]
  BY CurlAssumption DEF Callers, OneAtATime, TypeOK, CallerTypeOK
<1>1. /\ cpc'[Resolver] = "idle" /\ cpc[Resolver] = "idle"
      /\ ~cwas'[Resolver] /\ ~cwas[Resolver]
  BY <1>0 DEF CallerSlotStep, SlotInv
<1>2. (Owed <=> cwas[c]) /\ (Owed' <=> cwas'[c])
  BY <1>0, <1>1 DEF Owed
<1>3. (Held <=> Holds(c)) /\ (Held' <=> Holds(c)')
  BY <1>0, <1>1 DEF Held, Holds, Starting
<1>4. Balance'
  <2>1. Owed \in BOOLEAN /\ Owed' \in BOOLEAN /\ Held \in BOOLEAN /\ Held' \in BOOLEAN
    BY DEF Owed, Held
  <2>2. \/ UNCHANGED <<active, Releasing, Held, Owed>>
        \/ UNCHANGED <<active, Releasing>> /\ Held = Owed' /\ ~Held' /\ ~Owed
        \/ UNCHANGED <<Releasing, Held>> /\ Owed /\ ~Owed' /\ release_active_slot
        \/ UNCHANGED <<Releasing, Owed>> /\ ~Held /\ Held' /\ start_download
    BY <1>2, <1>3, <2>1 DEF CallerSlotStep
  <2> QED
    BY <2>2, Balanced DEF SlotInv
<1>5. \A d \in Clients : CallerKnows(d)'
  BY DEF OneAtATime, CallerSlotStep
<1> QED
  BY <1>1, <1>4, <1>5 DEF SlotInv, CallerSlotStep

\* The slot account is an invariant of that daemon.
LEMMA SlotInductive ==
  ASSUME OneAtATime
  PROVE  Spec => []SlotInv
<1>1. Init => SlotInv
  <2> SUFFICES ASSUME Init PROVE SlotInv
    OBVIOUS
  <2>1. Releasing = {} /\ ~Held /\ ~Owed
    BY DEF Init, Releasing, ReleasePC, Held, Owed, IsActive, ActiveStates
  <2>2. Balance
    BY <2>1, FS_EmptySet, CurlAssumption DEF Init, Balance, One
  <2>3. Resolver \in Callers /\ \A c \in Clients : c \in Callers
    BY DEF Callers
  <2> QED
    BY <2>2, <2>3 DEF Init, SlotInv, CallerKnows, ReleasePC
<1>2. TypeOK /\ TypeOK' /\ OwnershipInv /\ ActiveInv /\ SlotInv /\ [Next]_vars => SlotInv'
  <2> SUFFICES ASSUME TypeOK, TypeOK', OwnershipInv, ActiveInv, SlotInv, [Next]_vars
               PROVE  SlotInv'
    OBVIOUS
  <2>1. CASE UNCHANGED vars
    BY <2>1 DEF vars, jobVars, queueVars, workerVars, callerVars, SlotInv, CallerKnows,
       Balance, Releasing, Held, Starting, Owed
  <2>2. CASE \E c \in Clients : ApiRequest(c)
    BY <2>2, RequestSlot, CallerKeepsSlots
  <2>3. CASE \E c \in Callers : CallerStep(c)
    <3>1. PICK c \in Callers : CallerStep(c)
      BY <2>3
    <3>2. cpc[c] # "idle"
      BY <3>1 DEF CallerStep, register_task_with_engine, pause_publish, resume_wait,
         resume_lock, redo_remove, redo_release, redo_publish, del_release, list_merge,
         start_curl_process, spawn_worker
    <3>3. c \in Clients
      BY <3>2 DEF Callers, SlotInv
    <3> QED
      BY <3>1, <3>3, CallerSlot, CallerKeepsSlots
  <2>4. CASE ResolverStep
    BY <2>4 DEF ResolverStep, start_curl_task_by_id, resolved_publish, SlotInv
  <2>5. CASE \E g \in Gens : WorkerStep(g) \/ progress(g) \/ attempt_ends(g)
    BY <2>5, WorkerKeepsSlots
  <2>6. CASE \E g \in Gens : WatchdogStep(g)
    BY <2>6 DEF ActiveInv, WatchdogStep, watchdog_poll, watchdog_cancel,
       force_error_status, watchdog_release, watchdog_publish
  <2> QED
    BY <2>1, <2>2, <2>3, <2>4, <2>5, <2>6 DEF Next
<1> QED
  BY <1>1, <1>2, TypeCorrect, OwnershipInductive, ActiveInductive, PTL DEF Spec, OneAtATime

\* With one request at a time, no watchdog and no background resolver no run
\* leaks its slot and none gives back the slot of another task, however the
\* workers of superseded generations are interleaved with redownload_task,
\* delete_task and the run that replaces them: whenever everything is quiet the
\* task holds one slot if its status is active and none otherwise.
THEOREM SlotsBalance ==
  ASSUME OneAtATime
  PROVE  Spec => []SlotsMatchStatus
<1>1. SlotInv => SlotsMatchStatus
  <2> SUFFICES ASSUME SlotInv, Quiet
               PROVE  active = OtherSlots + (IF present /\ IsActive(status) THEN 1 ELSE 0)
    BY DEF SlotsMatchStatus
  <2>1. Releasing = {}
    BY DEF Quiet, Releasing, ReleasePC
  <2>2. \A c \in Callers : ~cwas[c] /\ cpc[c] \in {"idle", "resolving"}
    BY DEF Quiet, SlotInv, CallerKnows, Callers
  <2>3. ~Owed /\ (Held <=> present /\ IsActive(status))
    BY <2>2 DEF Owed, Held, Starting
  <2> QED
    BY <2>1, <2>3, FS_EmptySet, CurlAssumption DEF SlotInv, Balance, One
<1> QED
  BY <1>1, SlotInductive, PTL

=============================================================================

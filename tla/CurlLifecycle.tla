---------------------------- MODULE CurlLifecycle ----------------------------
(***************************************************************************)
(* The life of one direct (libcurl) download inside the daemon: the job in  *)
(* curl_jobs, the UI copy in task_snapshot, the slot count and the entry in *)
(* the priority queue, and the threads that share them:                     *)
(*   - callers: API requests (create, pause, resume, redownload, delete,    *)
(*     list) and the background resolver, daemon/curl/task_api.rs and       *)
(*     daemon/routes/downloads.rs;                                          *)
(*   - one worker thread per run generation, run_libcurl_download and the   *)
(*     mark_curl_task_* handlers of daemon/curl/transfer.rs;                *)
(*   - one watchdog thread per run generation.                              *)
(* A step of a thread is one section under the curl_jobs lock, one access   *)
(* to an atomic, or one insert under the task_snapshot lock: everything     *)
(* the code lets other threads see in between is a state of its own.        *)
(* What a transfer does on the wire is a nondeterministic outcome.          *)
(***************************************************************************)
EXTENDS Naturals, FiniteSets, TaskState

CONSTANTS
  Clients,      \* API requests that can be in flight at the same time
  Resolver,     \* the background_resolve_and_start task of a slow-path create
  Requests,     \* the kinds of API request explored
  CreateModes,  \* the kinds of create explored: "start", "resolve", "hold"
  Watchdog,     \* TRUE when the planned size is at least 1 MiB
  Attempts,     \* retry_policy.attempts
  OtherSlots,   \* slots held by the other running tasks
  MaxCalls,     \* bound on the number of API requests
  MaxGen        \* bound on run_generation: a request takes at most two
                \* generations and the resolver one, so it never blocks

Gens    == 1 .. MaxGen
Callers == Clients \cup {Resolver}
Absent  == "Absent"                       \* no entry for the task in a map

ASSUME CurlAssumption ==
  /\ Resolver \notin Clients
  /\ Requests \subseteq {"create", "pause", "resume", "redownload", "delete", "list"}
  /\ CreateModes \subseteq {"start", "resolve", "hold"}
  /\ Watchdog \in BOOLEAN
  /\ Attempts \in Nat \ {0}
  /\ OtherSlots \in Nat
  /\ MaxCalls \in Nat
  /\ MaxGen \in Nat /\ MaxGen > 2 * MaxCalls

VARIABLES
  born,         \* the task has been created
  present,      \* curl_jobs holds its CurlJob
  status,       \* job.task.status
  gen,          \* job.run_generation
  token,        \* which token job.cancel_token is: the generation it was made for
  cancelled,    \* the tokens that are set
  err,          \* job.task.error_message is Some
  snap,         \* the status task_snapshot shows, or Absent
  entry,        \* the priority queue has an entry for the task
  active,       \* priority_queue.active_downloads
  completedCount, failedCount,            \* download_stats
  wpc, wthen, wcopy, wattempt, wseg,          \* workers, by generation
  wcanc,        \* the "cancelled" argument of a worker's mark_curl_task_failed
  dpc,                                        \* watchdogs, by generation
  cpc, cmode, ccopy, cwas, cgen, calls         \* callers

jobVars    == <<present, status, gen, token, cancelled, err>>
queueVars  == <<entry, active, completedCount, failedCount>>
workerVars == <<wpc, wthen, wcopy, wattempt, wseg, wcanc>>
callerVars == <<cpc, cmode, ccopy, cwas, cgen, calls>>
vars == <<born, jobVars, snap, queueVars, workerVars, dpc, callerVars>>

WorkerPC == {"none", "check_probe", "to_probing", "check_download",
             "to_downloading", "check_attempt", "to_downloading_again",
             "transfer", "check_final", "to_recovering", "check_recover",
             "to_fallback", "fallback", "to_retrying", "classify",
             "check_watchdog", "mark_failed", "fail_release", "finish",
             "verify", "finalize", "postprocess", "commit",
             "complete_release", "publish", "done"}
WatchdogPC == {"none", "poll", "stalled", "force", "release", "publish", "done"}
CallerPC == {"idle", "register", "publish", "resume_wait", "resume_lock",
             "redo_remove", "redo_release", "redo_publish", "del_release",
             "list_merge", "resolving", "resolved_publish", "start", "spawn"}

JobTypeOK ==
  /\ born \in BOOLEAN /\ present \in BOOLEAN /\ err \in BOOLEAN
  /\ status \in TaskStates /\ snap \in TaskStates \cup {Absent}
  /\ gen \in 0 .. MaxGen /\ token \in 0 .. MaxGen
  /\ cancelled \in SUBSET (0 .. MaxGen)

QueueTypeOK ==
  /\ entry \in BOOLEAN
  /\ active \in Nat /\ completedCount \in Nat /\ failedCount \in Nat

WorkerTypeOK ==
  /\ wpc \in [Gens -> WorkerPC] /\ wthen \in [Gens -> WorkerPC]
  /\ wcopy \in [Gens -> TaskStates \cup {Absent}]
  /\ wattempt \in [Gens -> 0 .. Attempts - 1]
  /\ wseg \in [Gens -> BOOLEAN] /\ wcanc \in [Gens -> BOOLEAN]
  /\ dpc \in [Gens -> WatchdogPC]

CallerTypeOK ==
  /\ cpc \in [Callers -> CallerPC]
  /\ cmode \in [Callers -> CreateModes \cup {"none"}]
  /\ ccopy \in [Callers -> TaskStates \cup {Absent}]
  /\ cwas \in [Callers -> BOOLEAN] /\ cgen \in [Callers -> 0 .. MaxGen]
  /\ calls \in 0 .. MaxCalls

\* Every variable has its type: in particular run_generation and the attempt
\* counters stay within their bounds and the slot count never underflows.
TypeOK == JobTypeOK /\ QueueTypeOK /\ WorkerTypeOK /\ CallerTypeOK

\* Either nothing yet, or a job that restore_persisted_tasks rebuilt: an
\* interrupted run comes back Paused with a queue entry, a failed one without.
Init ==
  /\ \/ /\ born = FALSE /\ present = FALSE /\ snap = Absent
        /\ status = "Queued" /\ err = FALSE /\ entry = FALSE
     \/ /\ born = TRUE /\ present = TRUE /\ snap = "Paused"
        /\ status = "Paused" /\ err \in BOOLEAN /\ entry = TRUE
     \/ /\ born = TRUE /\ present = TRUE /\ snap = "Failed"
        /\ status = "Failed" /\ err = TRUE /\ entry = FALSE
  /\ gen = 0 /\ token = 0 /\ cancelled = {}
  /\ active = OtherSlots /\ completedCount = 0 /\ failedCount = 0
  /\ wpc = [g \in Gens |-> "none"] /\ wthen = [g \in Gens |-> "none"]
  /\ wcopy = [g \in Gens |-> Absent]
  /\ wattempt = [g \in Gens |-> 0]
  /\ wseg = [g \in Gens |-> FALSE] /\ wcanc = [g \in Gens |-> FALSE]
  /\ dpc = [g \in Gens |-> "none"]
  /\ cpc = [c \in Callers |-> "idle"] /\ cmode = [c \in Callers |-> "none"]
  /\ ccopy = [c \in Callers |-> Absent]
  /\ cwas = [c \in Callers |-> FALSE]
  /\ cgen = [c \in Callers |-> 0]
  /\ calls = 0

----------------------------------------------------------------------------
\* The slot count of the priority queue: both updates are compare-exchange
\* loops, the release leaves zero unchanged.

start_download == active' = active + 1

\* (Mutants: names ending in _Bug are plausible bugs of the definition that
\* follows them; the runs show that a property catches each.)
release_unchecked_Bug == active' = active - 1
release_forgotten_Bug == UNCHANGED active

release_active_slot == active' = IF active = 0 THEN 0 ELSE active - 1

stop_download == release_active_slot /\ entry' = FALSE

----------------------------------------------------------------------------
\* Callers.

Goto(c, pc) == cpc' = [cpc EXCEPT ![c] = pc]

\* A request arrives: any idle client may send one.
Request(c, kind) ==
  /\ kind \in Requests
  /\ c \in Clients /\ cpc[c] = "idle"
  /\ calls < MaxCalls /\ calls' = calls + 1

\* create_curl_task: capacity check and both inserts under both locks. Only a
\* "start" create enters Preparing and goes on to start_curl_process.
create_curl_task(c, mode) ==
  /\ ~born /\ Request(c, "create")
  /\ born' = TRUE /\ present' = TRUE
  /\ status' = IF mode = "start" THEN "Preparing" ELSE "Queued"
  /\ snap' = status'
  /\ Goto(c, IF mode = "start" THEN "start" ELSE "register")
  /\ cmode' = [cmode EXCEPT ![c] = mode]
  /\ UNCHANGED <<gen, token, cancelled, err, queueVars, workerVars, dpc, ccopy,
                 cwas, cgen>>

\* register_task_with_engine enqueues after the create (and its start) returned;
\* a slow-path create then spawns the background resolver.
register_task_with_engine(c) ==
  /\ cpc[c] = "register"
  /\ entry' = TRUE
  /\ cpc' = IF cmode[c] = "resolve"
            THEN [cpc EXCEPT ![c] = "idle", ![Resolver] = "resolving"]
            ELSE [cpc EXCEPT ![c] = "idle"]
  /\ cmode' = [cmode EXCEPT ![c] = "none"]
  /\ UNCHANGED <<born, jobVars, snap, active, completedCount, failedCount,
                 workerVars, dpc, ccopy, cwas, cgen, calls>>

\* Where pause_task takes a task: an active one to Pausing, so that its worker is
\* the one to report Paused, any other to Paused at once.
PauseTarget_Bug(s) == "Paused"
PauseTarget(s) == IF IsActive(s) THEN "Pausing" ELSE "Paused"

\* pause_task on a job: the transition if the lifecycle allows it, and the token
\* in the job is set.
pause_task(c) ==
  /\ born /\ Request(c, "pause")
  /\ LET next == PauseTarget(status)
     IN  IF present /\ CanTransition(status, next)
         THEN /\ status' = next
              /\ cancelled' = cancelled \cup {token}
              /\ ccopy' = [ccopy EXCEPT ![c] = next]
              /\ Goto(c, "publish")
         ELSE UNCHANGED <<status, cancelled, ccopy, cpc>>
  /\ UNCHANGED <<born, present, gen, token, err, snap, queueVars, workerVars,
                 dpc, cmode, cwas, cgen>>

pause_publish(c) ==
  /\ cpc[c] = "publish"
  /\ snap' = ccopy[c]
  /\ ccopy' = [ccopy EXCEPT ![c] = Absent]
  /\ Goto(c, "idle")
  /\ UNCHANGED <<born, jobVars, queueVars, workerVars, dpc, cmode, cwas, cgen,
                 calls>>

\* resume_task: wait (bounded) while the old worker is Pausing, refuse other
\* active states, then under the lock go to Queued and call start_curl_process.
resume_task(c) ==
  /\ born /\ Request(c, "resume")
  /\ Goto(c, "resume_wait")
  /\ UNCHANGED <<born, jobVars, snap, queueVars, workerVars, dpc, cmode, ccopy,
                 cwas, cgen>>

\* When resume_task gives up: on a status that is still active, which for
\* Pausing means that 10 s have passed.
ResumeGivesUp_Bug == present /\ IsActive(status) /\ status # "Pausing"
ResumeGivesUp == present /\ IsActive(status)

resume_wait(c) ==
  /\ cpc[c] = "resume_wait"
  /\ \/ ~(present /\ IsActive(status)) /\ Goto(c, "resume_lock")
     \/ ResumeGivesUp /\ Goto(c, "idle")
  /\ UNCHANGED <<born, jobVars, snap, queueVars, workerVars, dpc, cmode, ccopy,
                 cwas, cgen, calls>>

resume_lock(c) ==
  /\ cpc[c] = "resume_lock"
  /\ IF present /\ status # "Completed" /\ CanTransition(status, "Queued")
     THEN /\ status' = "Queued" /\ err' = FALSE
          /\ Goto(c, "start")
     ELSE /\ Goto(c, "idle")
          /\ UNCHANGED <<status, err>>
  /\ UNCHANGED <<born, present, gen, token, cancelled, snap, queueVars,
                 workerVars, dpc, cmode, ccopy, cwas, cgen, calls>>

\* redownload_task: restart_task_state, cancel and supersede the old run in one
\* section; then delete the output (retrying for minutes), give back the slot
\* of the superseded run, publish, and start the replacement run.
redownload_task(c) ==
  /\ born /\ Request(c, "redownload") /\ gen < MaxGen
  /\ IF present /\ CanRestart(status, "Queued")
     THEN /\ cwas' = [cwas EXCEPT ![c] = IsActive(status)]
          /\ status' = "Queued" /\ err' = FALSE
          /\ cancelled' = cancelled \cup {token}
          /\ gen' = gen + 1
          /\ ccopy' = [ccopy EXCEPT ![c] = "Queued"]
          /\ Goto(c, "redo_remove")
     ELSE UNCHANGED <<cwas, status, err, cancelled, gen, ccopy, cpc>>
  /\ UNCHANGED <<born, present, token, snap, queueVars, workerVars, dpc, cmode,
                 cgen>>

redo_remove(c) ==
  /\ cpc[c] = "redo_remove"
  /\ Goto(c, "redo_release")
  /\ UNCHANGED <<born, jobVars, snap, queueVars, workerVars, dpc, cmode, ccopy,
                 cwas, cgen, calls>>

redo_release(c) ==
  /\ cpc[c] = "redo_release"
  /\ IF cwas[c] THEN release_active_slot ELSE UNCHANGED active
  /\ cwas' = [cwas EXCEPT ![c] = FALSE]
  /\ Goto(c, "redo_publish")
  /\ UNCHANGED <<born, jobVars, snap, entry, completedCount, failedCount,
                 workerVars, dpc, cmode, ccopy, cgen, calls>>

redo_publish(c) ==
  /\ cpc[c] = "redo_publish"
  /\ snap' = ccopy[c]
  /\ ccopy' = [ccopy EXCEPT ![c] = Absent]
  /\ Goto(c, "start")
  /\ UNCHANGED <<born, jobVars, queueVars, workerVars, dpc, cmode, cwas, cgen,
                 calls>>

\* delete_task: cancel, supersede and remove job and snapshot under both locks;
\* the slot of a task that looked active is released outside them. Without a
\* job only the snapshot row is removed.
delete_task(c) ==
  /\ born /\ Request(c, "delete") /\ gen < MaxGen
  /\ snap' = Absent
  /\ IF present
     THEN /\ cwas' = [cwas EXCEPT ![c] = IsActive(status)]
          /\ cancelled' = cancelled \cup {token}
          /\ gen' = gen + 1
          /\ present' = FALSE
          /\ Goto(c, "del_release")
     ELSE UNCHANGED <<cwas, cancelled, gen, present, cpc>>
  /\ UNCHANGED <<born, status, token, err, queueVars, workerVars, dpc, cmode,
                 ccopy, cgen>>

del_release(c) ==
  /\ cpc[c] = "del_release"
  /\ IF cwas[c] THEN stop_download ELSE entry' = FALSE /\ UNCHANGED active
  /\ cwas' = [cwas EXCEPT ![c] = FALSE]
  /\ Goto(c, "idle")
  /\ UNCHANGED <<born, jobVars, snap, completedCount, failedCount, workerVars,
                 dpc, cmode, ccopy, cgen, calls>>

\* list_all_tasks: the jobs are copied under their lock; later, under the
\* snapshot lock, the snapshot is replaced by that copy plus its own rows for
\* tasks the copy does not have.
list_all_tasks(c) ==
  /\ born /\ Request(c, "list")
  /\ ccopy' = [ccopy EXCEPT ![c] = IF present THEN status ELSE Absent]
  /\ Goto(c, "list_merge")
  /\ UNCHANGED <<born, jobVars, snap, queueVars, workerVars, dpc, cmode, cwas,
                 cgen>>

list_merge(c) ==
  /\ cpc[c] = "list_merge"
  /\ snap' = IF ccopy[c] # Absent THEN ccopy[c] ELSE snap
  /\ ccopy' = [ccopy EXCEPT ![c] = Absent]
  /\ Goto(c, "idle")
  /\ UNCHANGED <<born, jobVars, queueVars, workerVars, dpc, cmode, cwas, cgen,
                 calls>>

\* start_curl_task_by_id, called by the resolver when its probe has ended: only
\* a task that is still Queued is moved on.
start_curl_task_by_id ==
  /\ cpc[Resolver] = "resolving"
  /\ IF present /\ status = "Queued"
     THEN /\ status' = "Preparing"
          /\ ccopy' = [ccopy EXCEPT ![Resolver] = "Preparing"]
          /\ Goto(Resolver, "resolved_publish")
     ELSE /\ Goto(Resolver, "idle")
          /\ UNCHANGED <<status, ccopy>>
  /\ UNCHANGED <<born, present, gen, token, cancelled, err, snap, queueVars,
                 workerVars, dpc, cmode, cwas, cgen, calls>>

resolved_publish ==
  /\ cpc[Resolver] = "resolved_publish"
  /\ snap' = ccopy[Resolver]
  /\ ccopy' = [ccopy EXCEPT ![Resolver] = Absent]
  /\ Goto(Resolver, "start")
  /\ UNCHANGED <<born, jobVars, queueVars, workerVars, dpc, cmode, cwas, cgen,
                 calls>>

\* Where a caller goes when start_curl_process returns to it.
AfterStart(c) == IF cmode[c] = "none" THEN "idle" ELSE "register"

\* The early returns of start_curl_process: a job that completed or that a worker
\* is already running for is left alone.
MayStart_Bug == present /\ status # "Completed"
MayStart == present /\ status # "Completed" /\ ~(gen > 0 /\ IsActive(status))

\* start_curl_process, the section under the lock: a new token and a new
\* generation come before the transition to Preparing, which may be refused.
start_curl_process(c) ==
  /\ cpc[c] = "start" /\ gen < MaxGen
  /\ \/ /\ ~MayStart
        /\ Goto(c, AfterStart(c))
        /\ UNCHANGED <<gen, token, status, err, cgen>>
     \/ /\ MayStart /\ CanTransition(status, "Preparing")
        /\ gen' = gen + 1 /\ token' = gen + 1
        /\ status' = "Preparing" /\ err' = FALSE
        /\ cgen' = [cgen EXCEPT ![c] = gen + 1]
        /\ Goto(c, "spawn")
     \/ /\ MayStart /\ ~CanTransition(status, "Preparing")
        /\ gen' = gen + 1 /\ token' = gen + 1
        /\ Goto(c, AfterStart(c))
        /\ UNCHANGED <<status, err, cgen>>
  /\ UNCHANGED <<born, present, cancelled, snap, queueVars, workerVars, dpc,
                 cmode, ccopy, cwas, calls>>

\* ... and what follows outside it: take a slot, spawn worker and watchdog.
\* Whether the run will be segmented is decided by its preflight.
spawn_worker(c) ==
  /\ cpc[c] = "spawn"
  /\ start_download
  /\ wpc' = [wpc EXCEPT ![cgen[c]] = "check_probe"]
  /\ \E seg \in BOOLEAN : wseg' = [wseg EXCEPT ![cgen[c]] = seg]
  /\ dpc' = [dpc EXCEPT ![cgen[c]] = IF Watchdog THEN "poll" ELSE "none"]
  /\ cgen' = [cgen EXCEPT ![c] = 0]
  /\ Goto(c, AfterStart(c))
  /\ UNCHANGED <<born, jobVars, snap, entry, completedCount, failedCount, wthen,
                 wcopy, wattempt, wcanc, cmode, ccopy, cwas, calls>>

----------------------------------------------------------------------------
\* Workers. Worker g holds the token made for generation g.

WGoto(g, pc) == wpc' = [wpc EXCEPT ![g] = pc]

IsCancelled(g) == g \in cancelled

\* Publish copy in the snapshot, then go on at pc.
PublishThen(g, copy, pc) ==
  /\ WGoto(g, "publish")
  /\ wcopy' = [wcopy EXCEPT ![g] = copy]
  /\ wthen' = [wthen EXCEPT ![g] = pc]

\* The insert into task_snapshot, outside the curl_jobs lock and unconditional.
publish(g) ==
  /\ wpc[g] = "publish"
  /\ snap' = wcopy[g]
  /\ WGoto(g, wthen[g])
  /\ wcopy' = [wcopy EXCEPT ![g] = Absent]
  /\ wthen' = [wthen EXCEPT ![g] = "none"]
  /\ UNCHANGED <<born, jobVars, queueVars, wattempt, wseg, wcanc, dpc,
                 callerVars>>

\* The cancel checks of run_libcurl_download, and where each goes on.
AfterCheck(g) ==
  CASE wpc[g] = "check_probe"    -> "to_probing"
    [] wpc[g] = "check_download" -> "to_downloading"
    [] wpc[g] = "check_attempt"  -> IF wattempt[g] > 0 THEN "to_downloading_again"
                                                       ELSE "transfer"
    [] wpc[g] = "check_final"    -> "finish"
    [] OTHER                     -> "to_fallback"

cancel_check(g) ==
  /\ wpc[g] \in {"check_probe", "check_download", "check_attempt", "check_final",
                 "check_recover"}
  /\ WGoto(g, IF IsCancelled(g) THEN "classify" ELSE AfterCheck(g))
  /\ UNCHANGED <<born, jobVars, snap, queueVars, wthen, wcopy, wattempt, wseg,
                 wcanc, dpc, callerVars>>

\* transition_task_state on the job, if there is one.
Accepts_Bug(next) == present
Accepts(next) == present /\ CanTransition(status, next)

\* transition_runtime_task_state: the job, whatever its generation now is, takes
\* the transition, or the run ends with the error.
transition_runtime_task_state(g, next, then) ==
  /\ IF Accepts(next)
     THEN status' = next /\ PublishThen(g, next, then)
     ELSE WGoto(g, "classify") /\ UNCHANGED <<status, wcopy, wthen>>
  /\ UNCHANGED <<born, present, gen, token, cancelled, err, snap, queueVars, wcanc,
                 dpc, callerVars>>

\* The phases of a run, in the order run_libcurl_download can take them.
run_phase(g) ==
  /\ \/ /\ wpc[g] = "to_probing"
        /\ transition_runtime_task_state(g, "Probing", "check_download")
        /\ UNCHANGED wseg
     \/ /\ wpc[g] = "to_downloading"
        /\ transition_runtime_task_state(g, "Downloading", "check_attempt")
        /\ UNCHANGED wseg
     \/ /\ wpc[g] = "to_downloading_again"
        /\ transition_runtime_task_state(g, "Downloading", "transfer")
        /\ UNCHANGED wseg
     \/ /\ wpc[g] = "to_recovering"
        /\ transition_runtime_task_state(g, "Recovering", "check_recover")
        /\ wseg' = [wseg EXCEPT ![g] = FALSE]
     \/ /\ wpc[g] = "to_fallback"
        /\ transition_runtime_task_state(g, "Downloading", "fallback")
        /\ UNCHANGED wseg
     \/ /\ wpc[g] = "to_retrying"
        /\ transition_runtime_task_state(g, "Retrying", "check_attempt")
        /\ UNCHANGED wseg
  /\ UNCHANGED wattempt

\* update_curl_task_progress: copy whatever status the job has into the snapshot.
progress(g) ==
  /\ wpc[g] \in {"transfer", "fallback"} /\ present
  /\ PublishThen(g, status, wpc[g])
  /\ UNCHANGED <<born, jobVars, snap, queueVars, wattempt, wseg, wcanc, dpc,
                 callerVars>>

NextAttempt_Bug(g) == wattempt[g]
NextAttempt(g) == wattempt[g] + 1

\* How an attempt may end. Success of the main attempt meets one more cancel
\* check, success of the single-connection fallback does not. A failure is
\* taken as a cancellation when the token is set; otherwise the healer aborts or
\* the error is permanent, or the run falls back, or it retries while attempts
\* are left. A panic and an empty file skip the classification.
attempt_ends(g) ==
  /\ wpc[g] \in {"transfer", "fallback"}
  /\ \/ WGoto(g, IF wpc[g] = "transfer" THEN "check_final" ELSE "finish")
        /\ UNCHANGED wattempt
     \/ WGoto(g, "classify") /\ UNCHANGED wattempt
     \/ WGoto(g, "mark_failed") /\ UNCHANGED wattempt
     \/ /\ ~IsCancelled(g) /\ wpc[g] = "transfer" /\ wseg[g]
        /\ WGoto(g, "to_recovering") /\ UNCHANGED wattempt
     \/ /\ ~IsCancelled(g) /\ ~wseg[g] /\ NextAttempt(g) < Attempts
        /\ WGoto(g, "to_retrying")
        /\ wattempt' = [wattempt EXCEPT ![g] = NextAttempt(g)]
  /\ UNCHANGED <<born, jobVars, snap, queueVars, wthen, wcopy, wseg, wcanc, dpc,
                 callerVars>>

\* The locals of run_libcurl_download are gone when it returns.
RunReturned(g) ==
  /\ wattempt' = [wattempt EXCEPT ![g] = 0]
  /\ wseg' = [wseg EXCEPT ![g] = FALSE]

\* The worker closure of start_curl_process on an Err result.
classify(g) ==
  /\ wpc[g] = "classify"
  /\ wcanc' = [wcanc EXCEPT ![g] = IsCancelled(g)]
  /\ WGoto(g, IF IsCancelled(g) THEN "check_watchdog" ELSE "mark_failed")
  /\ RunReturned(g)
  /\ UNCHANGED <<born, jobVars, snap, queueVars, wthen, wcopy, dpc, callerVars>>

\* An error message in the job is read as "the watchdog got here first".
check_watchdog(g) ==
  /\ wpc[g] = "check_watchdog"
  /\ WGoto(g, IF present /\ err THEN "done" ELSE "mark_failed")
  /\ UNCHANGED <<born, jobVars, snap, queueVars, wthen, wcopy, wattempt, wseg,
                 wcanc, dpc, callerVars>>

IsCurrent(g) == present /\ gen = g

\* Whether mark_curl_task_failed leaves an error message.
FailureMessage(g) == ~wcanc[g]

\* mark_curl_task_failed, under the lock ...
mark_curl_task_failed(g) ==
  /\ wpc[g] = "mark_failed"
  /\ LET next == IF wcanc[g] THEN "Paused" ELSE "Failed"
     IN  IF IsCurrent(g) /\ CanTransition(status, next)
         THEN /\ status' = next /\ err' = FailureMessage(g)
              /\ wcopy' = [wcopy EXCEPT ![g] = next]
              /\ WGoto(g, "fail_release")
         ELSE WGoto(g, "done") /\ UNCHANGED <<status, err, wcopy>>
  /\ RunReturned(g)
  /\ UNCHANGED <<born, present, gen, token, cancelled, snap, queueVars, wthen,
                 wcanc, dpc, callerVars>>

\* ... and after it: a cancelled run keeps its queue entry, a failed one does not.
fail_release(g) ==
  /\ wpc[g] = "fail_release"
  /\ IF wcanc[g]
     THEN release_active_slot /\ UNCHANGED <<entry, failedCount>>
     ELSE stop_download /\ failedCount' = failedCount + 1
  /\ PublishThen(g, wcopy[g], "done")
  /\ wcanc' = [wcanc EXCEPT ![g] = FALSE]
  /\ UNCHANGED <<born, jobVars, snap, completedCount, wattempt, wseg, dpc,
                 callerVars>>

\* mark_curl_task_finished: three sections under the lock, each with its own
\* generation check, around the validation of the output and the optional media
\* post-processing. A refused Verifying or Completed just returns; a refused
\* Finalizing is reported as a failure.
finish(g) ==
  /\ wpc[g] = "finish"
  /\ IF IsCurrent(g) /\ CanTransition(status, "Verifying")
     THEN status' = "Verifying" /\ PublishThen(g, "Verifying", "verify")
     ELSE WGoto(g, "done") /\ UNCHANGED <<status, wcopy, wthen>>
  /\ RunReturned(g)
  /\ UNCHANGED <<born, present, gen, token, cancelled, err, snap, queueVars,
                 wcanc, dpc, callerVars>>

\* validate_completed_output and verify_output_sha256 look at the file.
verify(g) ==
  /\ wpc[g] = "verify"
  /\ \/ WGoto(g, "finalize")
     \/ WGoto(g, "mark_failed")
  /\ UNCHANGED <<born, jobVars, snap, queueVars, wthen, wcopy, wattempt, wseg,
                 wcanc, dpc, callerVars>>

finalize(g) ==
  /\ wpc[g] = "finalize"
  /\ IF IsCurrent(g) /\ CanTransition(status, "Finalizing")
     THEN status' = "Finalizing" /\ PublishThen(g, "Finalizing", "postprocess")
     ELSE /\ WGoto(g, IF IsCurrent(g) THEN "mark_failed" ELSE "done")
          /\ UNCHANGED <<status, wcopy, wthen>>
  /\ UNCHANGED <<born, present, gen, token, cancelled, err, snap, queueVars,
                 wattempt, wseg, wcanc, dpc, callerVars>>

\* Transcoding and subtitle embedding: absent or successful, failed, or stopped
\* by the token (a pause) or by a newer generation.
postprocess(g) ==
  /\ wpc[g] = "postprocess"
  /\ \/ WGoto(g, "commit") /\ UNCHANGED wcanc
     \/ WGoto(g, "mark_failed") /\ UNCHANGED wcanc
     \/ /\ IsCancelled(g) /\ gen = g
        /\ WGoto(g, "mark_failed") /\ wcanc' = [wcanc EXCEPT ![g] = TRUE]
     \/ /\ gen # g
        /\ WGoto(g, "done") /\ UNCHANGED wcanc
  /\ UNCHANGED <<born, jobVars, snap, queueVars, wthen, wcopy, wattempt, wseg, dpc,
                 callerVars>>

commit(g) ==
  /\ wpc[g] = "commit"
  /\ IF IsCurrent(g) /\ CanTransition(status, "Completed")
     THEN /\ status' = "Completed" /\ err' = FALSE
          /\ WGoto(g, "complete_release")
     ELSE WGoto(g, "done") /\ UNCHANGED <<status, err>>
  /\ UNCHANGED <<born, present, gen, token, cancelled, snap, queueVars, wthen,
                 wcopy, wattempt, wseg, wcanc, dpc, callerVars>>

complete_release(g) ==
  /\ wpc[g] = "complete_release"
  /\ stop_download
  /\ completedCount' = completedCount + 1
  /\ PublishThen(g, "Completed", "done")
  /\ UNCHANGED <<born, jobVars, snap, failedCount, wattempt, wseg, wcanc, dpc,
                 callerVars>>

WorkerStep(g) ==
  \/ publish(g) \/ cancel_check(g) \/ run_phase(g) \/ classify(g)
  \/ check_watchdog(g) \/ mark_curl_task_failed(g) \/ fail_release(g)
  \/ finish(g) \/ verify(g) \/ finalize(g) \/ postprocess(g) \/ commit(g)
  \/ complete_release(g)

----------------------------------------------------------------------------
\* The watchdog of run g: it leaves when the token is set, the job is gone or
\* the status is anything but Downloading; on a stall it sets the token first
\* and then calls force_error_status.

DGoto(g, pc) == dpc' = [dpc EXCEPT ![g] = pc]

watchdog_poll(g) ==
  /\ dpc[g] = "poll"
  /\ DGoto(g, IF ~IsCancelled(g) /\ present /\ status = "Downloading"
              THEN "stalled" ELSE "done")
  /\ UNCHANGED <<born, jobVars, snap, queueVars, workerVars, callerVars>>

watchdog_cancel_Bug(g) ==
  /\ dpc[g] = "stalled"
  /\ DGoto(g, "force")
  /\ UNCHANGED <<born, jobVars, snap, queueVars, workerVars, callerVars>>

watchdog_cancel(g) ==
  /\ dpc[g] = "stalled"
  /\ cancelled' = cancelled \cup {g}
  /\ DGoto(g, "force")
  /\ UNCHANGED <<born, present, status, gen, token, err, snap, queueVars,
                 workerVars, callerVars>>

\* What force_error_status writes into the job.
SetWatchdogError_Bug == status' = "Failed" /\ UNCHANGED err
SetWatchdogError == status' = "Failed" /\ err' = TRUE

force_error_status(g) ==
  /\ dpc[g] = "force"
  /\ IF /\ IsCurrent(g) /\ status \notin {"Completed", "Paused"}
        /\ CanTransition(status, "Failed")
     THEN SetWatchdogError /\ DGoto(g, "release")
     ELSE DGoto(g, "done") /\ UNCHANGED <<status, err>>
  /\ UNCHANGED <<born, present, gen, token, cancelled, snap, queueVars,
                 workerVars, callerVars>>

watchdog_release(g) ==
  /\ dpc[g] = "release"
  /\ stop_download
  /\ failedCount' = failedCount + 1
  /\ DGoto(g, "publish")
  /\ UNCHANGED <<born, jobVars, snap, completedCount, workerVars, callerVars>>

watchdog_publish(g) ==
  /\ dpc[g] = "publish"
  /\ snap' = "Failed"
  /\ DGoto(g, "done")
  /\ UNCHANGED <<born, jobVars, queueVars, workerVars, callerVars>>

WatchdogStep(g) ==
  \/ watchdog_poll(g) \/ watchdog_cancel(g) \/ force_error_status(g)
  \/ watchdog_release(g) \/ watchdog_publish(g)

----------------------------------------------------------------------------
CallerStep(c) ==
  \/ register_task_with_engine(c) \/ pause_publish(c) \/ resume_wait(c)
  \/ resume_lock(c) \/ redo_remove(c) \/ redo_release(c) \/ redo_publish(c)
  \/ del_release(c) \/ list_merge(c) \/ start_curl_process(c) \/ spawn_worker(c)

ResolverStep == start_curl_task_by_id \/ resolved_publish

ApiRequest(c) ==
  \/ \E mode \in CreateModes : create_curl_task(c, mode)
  \/ pause_task(c) \/ resume_task(c) \/ redownload_task(c) \/ delete_task(c)
  \/ list_all_tasks(c)

Next ==
  \/ \E c \in Clients : ApiRequest(c)
  \/ \E c \in Callers : CallerStep(c)
  \/ ResolverStep
  \/ \E g \in Gens : WorkerStep(g) \/ progress(g) \/ attempt_ends(g)
  \/ \E g \in Gens : WatchdogStep(g)

Spec == Init /\ [][Next]_vars

\* Threads that have started are scheduled again and again; an attempt ends
\* because the transfer loop polls the token and has its own stall timer, but
\* only after any number of progress reports, hence the strong fairness. No
\* request is ever owed, and no watchdog is owed a stall.
Fairness ==
  /\ \A c \in Callers : WF_vars(CallerStep(c))
  /\ WF_vars(ResolverStep)
  /\ \A g \in Gens : WF_vars(WorkerStep(g)) /\ SF_vars(attempt_ends(g))

FairSpec == Spec /\ Fairness

----------------------------------------------------------------------------
\* Properties.

\* A worker that can still change the task: it has not yet recorded an outcome.
Live(g) ==
  /\ wpc[g] \notin {"none", "fail_release", "complete_release", "done"}
  /\ ~(wpc[g] = "publish" /\ wthen[g] = "done")

\* Run g is the one the job is about.
Owns(g) == present /\ gen = g /\ token = g /\ IsActive(status)

\* Every worker has ended, no watchdog is acting, no request is half done.
Quiet ==
  /\ \A g \in Gens : wpc[g] \in {"none", "done"}
  /\ \A g \in Gens : dpc[g] \in {"none", "poll", "done"}
  /\ \A c \in Callers : cpc[c] \in {"idle", "resolving"}

\* At any time at most one worker believes it owns the task, and it is right: a
\* live worker whose token is not set belongs to the present job, to its current
\* generation, and the status is an active one. This is what new tokens,
\* generation bumps and the is_active guard of start_curl_process are for.
UncancelledWorkerOwnsTask ==
  \A g \in Gens : Live(g) /\ ~IsCancelled(g) => Owns(g)

\* A caller between the two halves of start_curl_process: the generation it took
\* has no worker yet, is nobody else's, and is the job's unless it was cancelled.
SpawnOwns ==
  \A c \in Callers : cpc[c] = "spawn" =>
     /\ cgen[c] \in Gens /\ cgen[c] <= gen /\ wpc[cgen[c]] = "none"
     /\ ~IsCancelled(cgen[c]) => Owns(cgen[c])
     /\ \A d \in Callers : cpc[d] = "spawn" /\ d # c => cgen[d] # cgen[c]

WorkersArePast == \A g \in Gens : wpc[g] # "none" => g <= gen

ForcedIsCancelled == \A g \in Gens : dpc[g] = "force" => IsCancelled(g)

\* Ownership made inductive: besides the workers it covers the runs about to be
\* spawned, numbers no worker ahead of run_generation, and has a watchdog set
\* the token before it forces a status.
OwnershipInv ==
  /\ present => born
  /\ SpawnOwns /\ WorkersArePast /\ ForcedIsCancelled
  /\ UncancelledWorkerOwnsTask

\* A failed task always says why: mark_curl_task_failed and force_error_status
\* set error_message together with Failed, and whoever clears it leaves Failed.
FailedHasReason == present /\ status = "Failed" => err

\* The slot count agrees with the status whenever nothing is in progress: one
\* slot for an active status, none otherwise, so that no run leaks its slot and
\* none gives back the slot of another task.
SlotsMatchStatus ==
  Quiet => active = OtherSlots + (IF present /\ IsActive(status) THEN 1 ELSE 0)

\* Deleting a task removes it for good: when everything has settled it is not
\* in the snapshot that the task list and the state file are made from.
DeletedTaskIsGone == Quiet /\ born /\ ~present => snap = Absent

\* Only a request takes a task out of Paused, never a worker: the worker that
\* was paused has reported Paused as its last act. (Holds for runs without a
\* watchdog, which can fail a task under a worker that still has a say.)
PausedUntilRequested ==
  [][status = "Paused" /\ status' # "Paused" => wpc' = wpc /\ dpc' = dpc]_vars

\* The task as its observers are promised it.
AbstractState ==
  IF ~born THEN "Unborn" ELSE IF ~present THEN "Deleted" ELSE status

Lifecycle == INSTANCE TaskLifecycle WITH state <- AbstractState

\* The job's status only ever moves along the nova-core-model lifecycle, with
\* Completed left only by a redownload and deletion final, whatever callers,
\* stale workers and watchdogs do.
RefinesLifecycle == Lifecycle!Spec

\* Every worker comes to an end, cancelled or not.
WorkersEnd == \A g \in Gens : wpc[g] # "none" ~> wpc[g] = "done"

\* Every request is answered.
RequestsReturn == \A c \in Callers : cpc[c] # "idle" ~> cpc[c] = "idle"

\* A task that is pausing gets out of it.
PauseSettles == present /\ status = "Pausing" ~> ~present \/ status # "Pausing"

=============================================================================

-------------------------- MODULE TorrentLifecycle --------------------------
(***************************************************************************)
(* The lifecycle of one torrent task in the daemon (torrent_task.rs): the   *)
(* job under the torrent_jobs lock, the worker runs it has had, the slot    *)
(* they occupy in the priority queue through one shared active_slot flag,   *)
(* the seed services, and the request handlers, each of which takes the     *)
(* lock several times with awaits between.                                  *)
(*                                                                         *)
(* A step is one critical section of the jobs lock or one operation on the  *)
(* queue.  The storage session is TorrentStorage's: here its operations     *)
(* only take time, and may fail.                                            *)
(***************************************************************************)
EXTENDS Integers, TaskState

CONSTANTS Threads,     \* request handlers that may be under way together
          OtherSlots,  \* slots the other tasks occupy
          MaxRuns,     \* bound: runs of the worker
          MaxRequests  \* bound: requests

ASSUME TorrentLifecycleAssumption ==
    OtherSlots \in Nat /\ MaxRuns \in Nat /\ MaxRequests \in Nat

Runs == 1..MaxRuns
Gone == "Gone"
First == "first"       \* the handler that made the job: the create, or the recheck
                       \* that the daemon spawns when it has restored its tasks
Handlers == Threads \cup {First}

VARIABLES
    status,    \* the task's status, or Gone once it is removed
    gen,       \* the run the current run_generation belongs to, or 0
    reauth,    \* requires_reauth
    policy,    \* the seeding policy is enabled
    token,     \* the runs whose cancel token has been cancelled
    flag,      \* active_slot, one flag for all runs of the job
    active,    \* downloads the priority queue counts as active
    entry,     \* the queue has an entry for the task
    seed,      \* the seed token is not cancelled
    serving,   \* seed services run under it
    at,        \* where each run is
    req,       \* what each handler is doing
    runs,      \* runs started
    asked,     \* requests made
    overtaken  \* history: a run started before an older one had let go

vars == <<status, gen, reauth, policy, token, flag, active, entry, seed, serving,
          at, req, runs, asked, overtaken>>
queue == <<flag, active, entry, overtaken>>
auth == <<reauth, policy>>

NoReq == [kind |-> "none", at |-> "none", gen |-> 0]
\* A pause remembers the generation it found.
SetReq(t, kind, where) ==
    req' = [req EXCEPT ![t] = [kind |-> kind, at |-> where,
                               gen |-> IF where = "pausing" THEN gen ELSE 0]]
Done(t) == req' = [req EXCEPT ![t] = NoReq]
Goto(t, where) == req' = [req EXCEPT ![t].at = where, ![t].gen = 0]
Move(r, where) == at' = [at EXCEPT ![r] = where]
Live(r) == at[r] \notin {"none", "over"}

\* A created task waits in the queue, and is started unless the caller said
\* otherwise.  A restored one is Paused, Failed (as it is when its trackers were
\* redacted and need authorization) or Completed, and then about to be rechecked.
Init ==
    /\ status \in {"Queued", "Paused", "Failed", "Completed"}
    /\ reauth \in IF status \in {"Failed", "Completed"} THEN BOOLEAN ELSE {FALSE}
    /\ policy \in BOOLEAN /\ seed = policy /\ serving = FALSE
    /\ gen = 0 /\ token = {} /\ flag = FALSE /\ active = OtherSlots
    /\ entry = (status \in {"Queued", "Paused"})
    /\ at = [r \in Runs |-> "none"]
    /\ \E first \in CASE status = "Queued" -> {"none", "start"}
                     [] status = "Completed" -> {"verdict"}
                     [] OTHER -> {"none"} :
         req = [t \in Handlers |-> IF t = First THEN [NoReq EXCEPT !.at = first] ELSE NoReq]
    /\ runs = 0 /\ asked = 0 /\ overtaken = FALSE

-----------------------------------------------------------------------------
(* Pieces of several handlers                                               *)

\* Mutant: the token is dropped without being cancelled.
StopSeeding_Bug == seed' = FALSE /\ UNCHANGED serving

StopSeeding == seed' = FALSE /\ serving' = FALSE

\* start_torrent_seed_services: for a live token, a policy that is enabled and a
\* task that is completed or active.  With its limit reached a completed task
\* is not served, and the token is cancelled.
MaySeed == seed /\ policy /\ ~ reauth /\ status \in ActiveStates \cup {"Completed"}

Serve ==
    \/ serving' = (IF MaySeed THEN TRUE ELSE serving) /\ UNCHANGED seed
    \/ MaySeed /\ status = "Completed" /\ StopSeeding

\* Mutant: the slot is given back whether or not the flag was still set.
ReleaseSlot_Bug(remove) ==
    /\ flag' = FALSE
    /\ active' = IF active > 0 THEN active - 1 ELSE active
    /\ entry' = (entry /\ ~ remove)
    /\ UNCHANGED overtaken

\* release_queue_slot: the flag is swapped, so whoever comes first gives the
\* slot back; release_active_slot and stop_download never go below zero.
ReleaseSlot(remove) ==
    /\ flag' = FALSE
    /\ active' = IF flag /\ active > 0 THEN active - 1 ELSE active
    /\ entry' = (entry /\ ~ remove)
    /\ UNCHANGED overtaken

\* Mutants: the status is assigned without the table, and without a look at the
\* generation.
Transition_Bug(r, next) == gen = r /\ status \in TaskStates
Transition_Stale(r, next) == status \in TaskStates /\ CanTransition(status, next)

\* transition_torrent_task: the generation, then the lifecycle's table.
Transition(r, next) == gen = r /\ status \in TaskStates /\ CanTransition(status, next)

\* fail_torrent_task, and then its release.
Fail(r) ==
    /\ IF gen = r /\ status # Gone
       THEN /\ token' = token \cup {r}
            /\ StopSeeding
            /\ status' = IF CanTransition(status, "Failed") THEN "Failed" ELSE status
       ELSE UNCHANGED <<token, seed, serving, status>>
    /\ Move(r, IF gen = r \/ status = Gone THEN "remove" ELSE "release")

\* finish_torrent_cancelled, and then its release.
FinishCancelled(r) ==
    /\ IF gen = r /\ status # Gone
       THEN /\ StopSeeding
            /\ status' = IF status \notin {"Completed", "Paused"}
                             /\ CanTransition(status, "Paused")
                         THEN "Paused" ELSE status
       ELSE UNCHANGED <<seed, serving, status>>
    /\ UNCHANGED token
    /\ Move(r, "release")

-----------------------------------------------------------------------------
(* The worker: run_torrent_worker                                           *)

\* A run that is no longer current, as its task is replaced or removed, lets go of
\* the slot and keeps the queue entry.
WorkerProbes(r) ==
    /\ at[r] = "spawned"
    /\ \/ gen # r /\ Move(r, "release") /\ UNCHANGED <<status, token, seed, serving>>
       \/ /\ Transition(r, "Probing")
          /\ status' = "Probing" /\ Move(r, "recheck")
          /\ UNCHANGED <<token, seed, serving>>
       \/ ~ Transition(r, "Probing") /\ Fail(r)
    /\ UNCHANGED <<gen, auth, queue, req, runs, asked>>

\* ensure_storage_session and startup_recheck may fail; then the token and the
\* generation are looked at.
WorkerRechecks(r) ==
    /\ at[r] = "recheck"
    /\ \/ Fail(r)
       \/ (r \in token \/ gen # r) /\ FinishCancelled(r)
       \/ /\ r \notin token /\ gen = r /\ Move(r, "discover")
          /\ UNCHANGED <<status, token, seed, serving>>
    /\ UNCHANGED <<gen, auth, queue, req, runs, asked>>

\* Mutant: a run that finds no peers lets go of its slot and returns.
WorkerDownloads_Bug(r) ==
    /\ at[r] = "discover"
    /\ \/ Transition(r, "Downloading") /\ status' = "Downloading" /\ Move(r, "serve")
       \/ Move(r, "release") /\ UNCHANGED status
    /\ UNCHANGED <<gen, auth, token, seed, serving, queue, req, runs, asked>>

\* Peer discovery, which also ends when the token is cancelled, then the
\* change to Downloading.
WorkerDownloads(r) ==
    /\ at[r] = "discover"
    /\ \/ /\ Transition(r, "Downloading")
          /\ status' = "Downloading" /\ Move(r, "serve")
          /\ UNCHANGED <<token, seed, serving>>
       \/ Fail(r)
    /\ UNCHANGED <<gen, auth, queue, req, runs, asked>>

WorkerServes(r) ==
    /\ at[r] = "serve"
    /\ Serve
    /\ Move(r, "drive")
    /\ UNCHANGED <<status, gen, auth, token, queue, req, runs, asked>>

\* download_selected returns: everything finalized, or an error (its own, or
\* because the run was stopped or its lease invalidated).
WorkerDriven(r) ==
    /\ at[r] = "drive"
    /\ \/ gen = r /\ Move(r, "verify") /\ UNCHANGED <<status, token, seed, serving>>
       \/ gen # r /\ Move(r, "release") /\ UNCHANGED <<status, token, seed, serving>>
       \/ r \in token /\ FinishCancelled(r)
       \/ r \notin token /\ Fail(r)
    /\ UNCHANGED <<gen, auth, queue, req, runs, asked>>

\* Verifying, Finalizing and Completed are three critical sections.
Closing == [verify |-> "Verifying", finalize |-> "Finalizing", complete |-> "Completed"]
AfterClosing == [verify |-> "finalize", finalize |-> "complete", complete |-> "timer"]

WorkerCloses(r) ==
    /\ at[r] \in DOMAIN Closing
    /\ \/ /\ Transition(r, Closing[at[r]])
          /\ status' = Closing[at[r]]
          /\ Move(r, AfterClosing[at[r]])
          /\ UNCHANGED <<token, seed, serving>>
       \/ ~ Transition(r, Closing[at[r]]) /\ Fail(r)
    /\ UNCHANGED <<gen, auth, queue, req, runs, asked>>

\* The seed timer is started; its limit may be reached already.  This section
\* does not look at the generation.
WorkerTimes(r) ==
    /\ at[r] = "timer"
    /\ StopSeeding \/ UNCHANGED <<seed, serving>>
    /\ Move(r, "remove")
    /\ UNCHANGED <<status, gen, auth, token, queue, req, runs, asked>>

\* Mutant: a stale run returns without letting go of the slot.
WorkerReleases_Bug(r) ==
    /\ at[r] \in {"release", "remove"}
    /\ IF gen = r THEN ReleaseSlot(at[r] = "remove") ELSE UNCHANGED queue
    /\ Move(r, "over")
    /\ UNCHANGED <<status, gen, auth, token, seed, serving, req, runs, asked>>

WorkerReleases(r) ==
    /\ at[r] \in {"release", "remove"}
    /\ ReleaseSlot(at[r] = "remove")
    /\ Move(r, "over")
    /\ UNCHANGED <<status, gen, auth, token, seed, serving, req, runs, asked>>

Worker(r) ==
    \/ WorkerProbes(r) \/ WorkerRechecks(r) \/ WorkerDownloads(r)
    \/ WorkerServes(r) \/ WorkerDriven(r) \/ WorkerCloses(r)
    \/ WorkerTimes(r) \/ WorkerReleases(r)

-----------------------------------------------------------------------------
(* Starting: start_torrent_process, after resume, redownload and create     *)

\* Under the lock: Queued, Preparing, new tokens, the next generation.
StartLocked(t) ==
    /\ req[t].at = "start"
    /\ IF reauth \/ status \in ActiveStates \cup {"Completed", Gone}
            \/ ~ CanTransition(status, "Queued")
       THEN Done(t) /\ UNCHANGED <<status, gen, token, seed, serving, at, runs>>
       ELSE /\ runs < MaxRuns
            /\ status' = "Preparing"
            /\ token' = token \cup ({gen} \ {0})
            /\ gen' = runs + 1 /\ runs' = runs + 1
            /\ seed' = policy /\ serving' = FALSE
            /\ req' = [req EXCEPT ![t].at = "occupy", ![t].gen = runs + 1]
            /\ at' = [at EXCEPT ![runs + 1] = "starting"]
    /\ UNCHANGED <<auth, queue, asked>>

\* After it: the queue entry, the slot, the flag, and the worker.  Nothing looks
\* whether the run was cancelled in between, only whether the task is still there.
Occupied(r) ==
    /\ active' = active + 1
    /\ flag' = TRUE
    /\ entry' = TRUE
    /\ overtaken' = (\/ overtaken \/ flag
                     \/ \E o \in Runs \ {r} : Live(o)
                     \/ \E t \in Handlers : req[t].at \in {"release", "stop"})
    /\ Move(r, "spawned")

StartOccupies(t) ==
    /\ req[t].at = "occupy"
    /\ \/ status # Gone /\ Occupied(req[t].gen)
       \/ status = Gone /\ Move(req[t].gen, "over") /\ UNCHANGED queue
    /\ Done(t)
    /\ UNCHANGED <<status, gen, auth, token, seed, serving, runs, asked>>

-----------------------------------------------------------------------------
(* Requests                                                                 *)

MayAsk(t) == req[t] = NoReq /\ asked < MaxRequests
Ask == asked' = asked + 1

\* resume_torrent_task
Resume(t) ==
    /\ MayAsk(t) /\ ~ reauth
    /\ status \in TaskStates \ (ActiveStates \cup {"Completed"})
    /\ status' = "Queued"
    /\ SetReq(t, "resume", "start") /\ Ask
    /\ UNCHANGED <<gen, auth, token, queue, seed, serving, at, runs>>

\* The first critical section of pause_torrent_task.
PauseLocked ==
    /\ status' = IF status \in ActiveStates THEN "Pausing" ELSE "Paused"
    /\ CanTransition(status, status')
    /\ token' = token \cup ({gen} \ {0})
    /\ StopSeeding

\* Mutant: pausing takes the generation away from the worker, as deleting does.
Pause_Bug(t) ==
    /\ MayAsk(t) /\ status \in TaskStates \ {"Completed"}
    /\ IF status \in ActiveStates THEN PauseLocked /\ SetReq(t, "pause", "pausing")
       ELSE PauseLocked /\ Done(t)
    /\ Ask
    /\ gen' = 0
    /\ UNCHANGED <<auth, queue, at, runs>>

Pause(t) ==
    /\ MayAsk(t) /\ status \in TaskStates \ {"Completed"}
    /\ IF status \in ActiveStates THEN PauseLocked /\ SetReq(t, "pause", "pausing")
       ELSE PauseLocked /\ Done(t)
    /\ Ask
    /\ UNCHANGED <<gen, auth, queue, at, runs>>

\* storage.pause() has returned; the second critical section.
PauseSettles(t) ==
    /\ req[t].at = "pausing"
    /\ status' = IF gen = req[t].gen /\ status = "Pausing" THEN "Paused" ELSE status
    /\ IF req[t].kind = "redo" /\ status # Gone THEN Goto(t, "empty") ELSE Done(t)
    /\ UNCHANGED <<gen, auth, token, queue, seed, serving, at, runs, asked>>

\* delete_torrent_task: a new generation, the slot, the storage, the entry.
Delete(t) ==
    /\ MayAsk(t) /\ status # Gone
    /\ token' = token \cup ({gen} \ {0})
    /\ StopSeeding
    /\ gen' = 0
    /\ status' = IF status = "Completed" THEN status ELSE "Paused"
    /\ SetReq(t, "delete", "release") /\ Ask
    /\ UNCHANGED <<auth, queue, at, runs>>

DeleteReleases(t) ==
    /\ req[t].at = "release"
    /\ ReleaseSlot(TRUE)
    /\ Goto(t, "storage")
    /\ UNCHANGED <<status, gen, auth, token, seed, serving, at, runs, asked>>

\* The payload could not be deleted safely, and the task is kept; or it goes.
DeleteEnds(t) ==
    /\ req[t].at = "storage"
    /\ \/ UNCHANGED <<status, gen>>
       \/ status' = Gone /\ gen' = 0
    /\ Done(t)
    /\ UNCHANGED <<auth, token, queue, seed, serving, at, runs, asked>>

\* redownload_torrent_task: pause when it was active, empty the storage (which
\* may fail), then a fresh job state, then the start.
Redownload(t) ==
    /\ MayAsk(t) /\ status # Gone
    /\ SetReq(t, "redo", IF status \in ActiveStates THEN "pause" ELSE "empty")
    /\ Ask
    /\ UNCHANGED <<status, gen, auth, token, queue, seed, serving, at, runs>>

RedownloadPauses(t) ==
    /\ req[t].at = "pause"
    /\ IF status \in {"Completed", Gone}
       THEN Done(t) /\ UNCHANGED <<status, token, seed, serving>>
       ELSE /\ PauseLocked
            /\ SetReq(t, "redo", IF status \in ActiveStates THEN "pausing" ELSE "empty")
    /\ UNCHANGED <<gen, auth, queue, at, runs, asked>>

RedownloadInstalls(t) ==
    /\ req[t].at = "empty"
    /\ \/ Done(t) /\ UNCHANGED <<status, gen, seed, serving, queue>>
       \/ /\ status # Gone /\ CanRestart(status, "Queued")
          /\ status' = "Queued"
          /\ gen' = 0
          /\ seed' = TRUE /\ serving' = FALSE
          /\ flag' = FALSE
          /\ overtaken' = (overtaken \/ flag)
          /\ UNCHANGED <<active, entry>>
          /\ Goto(t, "start")
    /\ UNCHANGED <<auth, token, at, runs, asked>>

\* reauthorize_torrent_task: two critical sections, then the services.
Reauthorize(t) ==
    /\ MayAsk(t) /\ status # Gone
    /\ reauth' = FALSE
    /\ status' = IF status = "Failed" THEN "Queued" ELSE status
    /\ SetReq(t, "reauth", "reseed") /\ Ask
    /\ UNCHANGED <<gen, policy, token, queue, seed, serving, at, runs>>

ReauthorizeReseeds(t) ==
    /\ req[t].at = "reseed"
    /\ IF status = Gone THEN Done(t) /\ UNCHANGED <<seed, serving>>
       ELSE /\ seed' = policy /\ serving' = FALSE
            /\ IF policy /\ status \in ActiveStates \cup {"Completed"}
               THEN Goto(t, "serve") ELSE Done(t)
    /\ UNCHANGED <<status, gen, auth, token, queue, at, runs, asked>>

\* update_torrent_seeding_policy; a completed task may have reached its limit.
UpdateSeeding(t, on) ==
    /\ MayAsk(t) /\ status # Gone
    /\ policy' = on
    /\ serving' = FALSE
    /\ \/ /\ on /\ ~ reauth /\ status \in ActiveStates \cup {"Completed"}
          /\ seed' = TRUE /\ SetReq(t, "seeding", "serve")
       \/ /\ on /\ ~ reauth => status \notin ActiveStates
          /\ seed' = FALSE /\ Done(t)
    /\ Ask
    /\ UNCHANGED <<status, gen, reauth, token, queue, at, runs>>

\* The storage session is there (it may fail to open), then the services.
RequestServes(t) ==
    /\ req[t].at = "serve"
    /\ Serve \/ UNCHANGED <<seed, serving>>
    /\ Done(t)
    /\ UNCHANGED <<status, gen, auth, token, queue, at, runs, asked>>

\* recheck_restored_completed_torrents, once the payload is checked: the task is
\* looked at again under the lock.
RecheckVerdict(t) ==
    /\ req[t].at = "verdict"
    /\ \/ /\ status = "Completed" /\ ~ reauth /\ policy
          /\ Goto(t, "serve") /\ UNCHANGED <<status, token, seed, serving>>
       \/ /\ status = "Completed" /\ ~ reauth /\ policy
          /\ StopSeeding /\ Done(t) /\ UNCHANGED <<status, token>>
       \/ /\ status = "Completed"
          /\ status' = "Failed"
          /\ token' = token \cup ({gen} \ {0})
          /\ StopSeeding /\ Done(t)
       \/ /\ status = "Completed" => reauth \/ ~ policy
          /\ Done(t) /\ UNCHANGED <<status, token, seed, serving>>
    /\ UNCHANGED <<gen, auth, queue, at, runs, asked>>

\* shutdown_torrent_tasks
Shutdown(t) ==
    /\ MayAsk(t) /\ status # Gone
    /\ token' = token \cup ({gen} \ {0})
    /\ StopSeeding
    /\ IF status = "Completed" THEN UNCHANGED <<status, gen>> /\ Done(t)
       ELSE status' = "Paused" /\ gen' = 0 /\ SetReq(t, "shutdown", "stop")
    /\ Ask
    /\ UNCHANGED <<auth, queue, at, runs>>

ShutdownReleases(t) ==
    /\ req[t].at = "stop"
    /\ ReleaseSlot(FALSE)
    /\ Done(t)
    /\ UNCHANGED <<status, gen, auth, token, seed, serving, at, runs, asked>>

\* The watch loop of the seed services, every five seconds: the task is gone or
\* no longer active, or seeding was turned off; or the limit is reached.
WatchSeed ==
    /\ serving
    /\ status \notin ActiveStates \cup {"Completed"} \/ ~ policy
    /\ StopSeeding
    /\ UNCHANGED <<status, gen, auth, token, queue, at, req, runs, asked>>

WatchLimit ==
    /\ serving /\ status = "Completed"
    /\ StopSeeding
    /\ UNCHANGED <<status, gen, auth, token, queue, at, req, runs, asked>>

Asks(t) ==
    \/ Resume(t) \/ Pause(t) \/ Delete(t) \/ Redownload(t) \/ Reauthorize(t)
    \/ \E on \in BOOLEAN : UpdateSeeding(t, on)
    \/ Shutdown(t)

Continues(t) ==
    \/ StartLocked(t) \/ StartOccupies(t) \/ PauseSettles(t)
    \/ DeleteReleases(t) \/ DeleteEnds(t) \/ RedownloadPauses(t)
    \/ RedownloadInstalls(t)
    \/ ReauthorizeReseeds(t) \/ RequestServes(t) \/ RecheckVerdict(t) \/ ShutdownReleases(t)

Next ==
    \/ \E t \in Threads : Asks(t)
    \/ \E t \in Handlers : Continues(t)
    \/ \E r \in Runs : Worker(r)
    \/ WatchSeed \/ WatchLimit

Spec == Init /\ [][Next]_vars

\* Tasks of the tokio runtime go on when they can, blocking storage calls and
\* network waits end (they have timeouts), and the watch loop's timer fires.
\* Nobody has to make a request.
Fairness ==
    /\ \A t \in Handlers : WF_vars(Continues(t))
    /\ \A r \in Runs : WF_vars(Worker(r))
    /\ WF_vars(WatchSeed)

FairSpec == Spec /\ Fairness

-----------------------------------------------------------------------------
(* Properties                                                               *)

Positions == {"none", "starting", "spawned", "recheck", "discover", "serve", "drive",
              "verify", "finalize", "complete", "timer", "release", "remove", "over"}
Kinds == {"none", "resume", "pause", "delete", "redo", "reauth", "seeding", "shutdown"}
Stages == {"none", "start", "occupy", "pause", "pausing", "empty", "release",
           "storage", "reseed", "serve", "verdict", "stop"}

\* The state has its shape, and a live seed token stands behind the services.
TypeOK ==
    /\ status \in TaskStates \cup {Gone} /\ gen \in 0..runs /\ runs \in 0..MaxRuns
    /\ reauth \in BOOLEAN /\ policy \in BOOLEAN /\ token \subseteq Runs
    /\ flag \in BOOLEAN /\ entry \in BOOLEAN /\ active \in Nat
    /\ seed \in BOOLEAN /\ serving \in BOOLEAN /\ (serving => seed)
    /\ at \in [Runs -> Positions]
    /\ req \in [Handlers -> [kind : Kinds, at : Stages, gen : 0..runs]]
    /\ asked \in 0..MaxRequests /\ overtaken \in BOOLEAN

\* Types, and: a task that says it is active, a Pausing one too, has the run of
\* its generation behind it, which will end that.  Otherwise resume_torrent_task
\* would refuse it for ever as still active.
ActiveHasRun ==
    /\ TypeOK
    /\ status \in ActiveStates => gen # 0 /\ Live(gen)

\* release_queue_slot: as long as no run starts before an older one has let go,
\* the run of the current generation holds the slot and the queue entry, and
\* what the task takes from the queue is exactly that slot, so that nothing is
\* left of it when the run is over and nothing is taken from another task.
SlotFollowsRun ==
    ~ overtaken =>
        /\ active = OtherSlots + (IF flag THEN 1 ELSE 0)
        /\ gen # 0 /\ at[gen] \notin {"starting", "over"} => flag /\ entry
        /\ flag => \E r \in Runs : Live(r)

\* Whatever the interleaving of handlers and stale runs, the status moves along
\* the lifecycle's table (start_torrent_process takes two steps of it under one
\* lock); only a redownload under way puts a finished or running torrent back
\* into the queue, only the recheck finds a finished one damaged, and a removed
\* one stays removed.
LifecycleRespected ==
    [][ /\ status # Gone
        /\ \/ status' = Gone
           \/ CanTransition(status, status')
           \/ CanTransition(status, "Queued") /\ CanTransition("Queued", status')
           \/ status' = "Queued" /\ \E t \in Threads : req[t].kind = "redo"
           \/ status = "Completed" /\ status' = "Failed" /\ req[First].at = "verdict"
      ]_status

\* Only the run of the current generation decides the task's status: a step of
\* a worker that was paused, replaced, deleted or redownloaded leaves the status
\* and the newer run's token alone.
StaleRunsAreInert ==
    [][ \A r \in Runs :
          at'[r] # at[r] /\ Live(r) /\ gen # r /\ req' = req =>
             UNCHANGED <<status, gen, token>> ]_vars

\* A pause takes effect: the handler or the worker ends it, whoever is first.
PausingEnds == status = "Pausing" ~> status # "Pausing"

\* Every slot that is occupied is given back: the queue's counter, not only the
\* flag, returns to the slots of the other tasks, whichever of worker, pause,
\* delete and shutdown comes last, unless a run has overtaken an older one.
SlotComesBack == active > OtherSlots ~> active = OtherSlots \/ overtaken

\* Without that exception.  The code does not keep it: the flag is set twice and
\* cleared once.
EverySlotComesBack == active > OtherSlots ~> active = OtherSlots

\* Pause, failure, removal and shutdown stop the seed services, also when the
\* policy was changed or the torrent reauthorized while the pause was under way.
SeedingEnds ==
    (serving /\ status \notin ActiveStates \cup {"Completed"})
        ~> (~ serving \/ status \in ActiveStates \cup {"Completed"})
=============================================================================

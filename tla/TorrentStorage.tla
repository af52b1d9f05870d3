--------------------------- MODULE TorrentStorage ---------------------------
(***************************************************************************)
(* The durable state of one torrent and everybody who writes it: the       *)
(* checkpoint, the manifest, the boundary-piece cache and the payload files *)
(* (TorrentStorage), the sessions that guard them with a mutex, a run       *)
(* generation and a cancellation token (TorrentStorageSession), the         *)
(* transfer coordinator that commits pieces under a lease                   *)
(* (TorrentTransferCoordinator), and the daemon requests that pause,        *)
(* reselect, redownload and delete the torrent while runs are winding down. *)
(*                                                                         *)
(* The bytes of a piece in one file are a slice <<p, f>>, correct or not;   *)
(* hash verification of a piece is the question whether all its slices are  *)
(* correct.  A storage operation of several steps holds the session's mutex *)
(* (op[s]) from its first to its last; a crash may come between any two.    *)
(* A session is named by the job's slot (an Arc) that holds it: mem[s] is   *)
(* NoState until it is opened.  A generation is only ever compared with the *)
(* one a lease was given, and every change makes a new one: gen is the run  *)
(* the present generation was given to, or 0.                               *)
(***************************************************************************)
EXTENDS Integers, FiniteSets

CONSTANTS Files,       \* indices of the payload files, in order
          Pieces,      \* indices of the pieces
          Layout,      \* the files each piece has bytes in
          Selections,  \* the sets of files a user may select
          UserFiles,   \* the sets of paths that may already be taken
          MaxSessions, \* bound: sessions (slots) ever made
          MaxRuns,     \* bound: worker runs
          Threads,     \* request handlers that may be under way together
          MaxRequests, \* bound: requests of the user
          MaxCrashes   \* bound: crashes

ASSUME TorrentStorageAssumption ==
    /\ Files \subseteq Nat \ {0} /\ IsFiniteSet(Files) /\ Files # {}  \* 0: none
    /\ Pieces \subseteq Nat
    /\ Layout \in [Pieces -> SUBSET Files \ {{}}]
    /\ Selections \subseteq SUBSET Files \ {{}}
    /\ UserFiles \subseteq SUBSET Files
    /\ MaxSessions \in Nat /\ MaxRuns \in Nat /\ MaxRequests \in Nat
    /\ MaxCrashes \in Nat

Sessions == 1..MaxSessions
Runs == 1..MaxRuns
NoState == [none |-> TRUE]
Slices == {ps \in Pieces \X Files : ps[2] \in Layout[ps[1]]}

VARIABLES
    file,     \* each payload path: "none", a "user" file or one "nova" created
    good,     \* slices whose bytes on disk are correct
    control,  \* the control directory exists
    ckpt,     \* the checkpoint in it, or NoState
    manifest, \* the manifest is in it
    cache,    \* pieces whose bytes are in the boundary cache
    mem,      \* each session's checkpoint in memory
    op,       \* the operation that holds each session's mutex
    live,     \* the run whose lease token is the session's current one, or 0
    run,      \* the worker runs
    job,      \* status of the task: none, idle, active, pausing, done
    slot,     \* the slot (session) the task refers to
    cur,      \* the run the task's run_generation stands for, or 0
    req,      \* the request each handler is serving
    removed,  \* history: files a deletion has ever removed
    gone,     \* history: those removed since the recheck for the task's run
    shifted,  \* history: finalized runs whose session was reselected meanwhile
    quiet,    \* history: sessions paused, with no lease given out since
    refused,  \* history: a resume took a file NOVA made for a user's file
    used      \* counters: sessions, runs, requests, crashes

disk == <<file, good, control, ckpt, manifest, cache>>
history == <<removed, gone, shifted, quiet, refused>>
task == <<job, slot, cur>>
vars == <<file, good, control, ckpt, manifest, cache, mem, op, live, run, job,
          slot, cur, req, removed, gone, shifted, quiet, refused, used>>

-----------------------------------------------------------------------------
(* Geometry and selection                                                   *)

SelectedPart(p, sel) == Layout[p] \cap sel                \* piece_selected_files
\* Mutant: only pieces all of whose files are selected count as selected.
IsSelected_Bug(p, sel) == Layout[p] \subseteq sel

IsSelected(p, sel) == SelectedPart(p, sel) # {}           \* piece_priority
IsBoundary(p, sel) == IsSelected(p, sel) /\ ~ (Layout[p] \subseteq sel)

NewCheckpoint(sel) ==
    [gen |-> 0, sel |-> sel, owned |-> {}, verified |-> {}, cached |-> {}]

\* is_selected_complete
Complete(m) == \A p \in Pieces : IsSelected(p, m.sel) => p \in m.verified

\* read_materialized_piece and the hash of what it returns: a boundary piece
\* is read from its cache alone, any other from its files.
Reads(p, m) == IF IsBoundary(p, m.sel) THEN p \in cache
               ELSE \A f \in Layout[p] : file[f] # "none"
Verifies(p, m) == Reads(p, m) /\ (IsBoundary(p, m.sel)
                                  \/ \A f \in Layout[p] : <<p, f>> \in good)

\* save_checkpoint_atomic; it makes the directory again when it is gone.
Save(s, m) == /\ mem' = [mem EXCEPT ![s] = m]
              /\ ckpt' = m
              /\ control' = TRUE

Idle == [kind |-> "idle"]
Free(s) == op[s] = Idle
Spend(what) == used' = [used EXCEPT ![what] = @ + 1]
SetReq(t, r) == req' = [req EXCEPT ![t] = r]
NoReq == [kind |-> "none", at |-> "none", s |-> 0, run |-> 0, sel |-> {}]
NoRun == [at |-> "over", s |-> 0, todo |-> {}, cancelled |-> FALSE,
          stop |-> FALSE]
Lowest(S) == CHOOSE x \in S : \A y \in S : x <= y

\* TorrentRunLease is current: TorrentStorageSession::ensure_current.
Current(r) == ~ run[r].cancelled /\ mem[run[r].s].gen = r

\* current_cancel.cancel(): the token of whichever run began last.
CancelLive(s) ==
    [r \in Runs |-> IF r = live[s] THEN [run[r] EXCEPT !.cancelled = TRUE]
                    ELSE run[r]]

Init ==
    /\ \E taken \in UserFiles :
         file = [f \in Files |-> IF f \in taken THEN "user" ELSE "none"]
    /\ good = {} /\ control = FALSE /\ ckpt = NoState /\ manifest = FALSE
    /\ cache = {}
    /\ mem = [s \in Sessions |-> NoState]
    /\ op = [s \in Sessions |-> Idle]
    /\ live = [s \in Sessions |-> 0]
    /\ run = [r \in Runs |-> NoRun]
    /\ job = "none" /\ slot = 0 /\ cur = 0
    /\ req = [t \in Threads |-> NoReq]
    /\ removed = {} /\ gone = {} /\ shifted = {} /\ quiet = {} /\ refused = FALSE
    /\ used = [sessions |-> 0, runs |-> 0, requests |-> 0, crashes |-> 0]

-----------------------------------------------------------------------------
(* Preparing the payload files: prepare_selected_files_owned, under create, *)
(* resume and update_selection                                              *)

Preparing == {"create", "open", "select"}

Prepare(kind, who, sel) ==
    [kind |-> kind, who |-> who, sel |-> sel, todo |-> sel, made |-> 0]

\* Mutant: a file that exists is taken, owned or not.
PrepareFile_Bug(s) ==
    /\ op[s].kind \in Preparing /\ op[s].made = 0 /\ op[s].todo # {}
    /\ LET f == Lowest(op[s].todo) IN
       IF file[f] = "none"
       THEN /\ file' = [file EXCEPT ![f] = "nova"]
            /\ op' = [op EXCEPT ![s].made = f]
       ELSE /\ op' = [op EXCEPT ![s].todo = @ \ {f}]
            /\ UNCHANGED file
    /\ UNCHANGED <<good, control, ckpt, manifest, cache, mem, live, run, task,
                   req, history, used>>

\* A selected file that exists and is owned is left alone; one that exists and
\* is not owned ends the operation; one that is missing is made empty...
PrepareFile(s) ==
    /\ op[s].kind \in Preparing /\ op[s].made = 0 /\ op[s].todo # {}
    /\ LET f == Lowest(op[s].todo) IN
       /\ file[f] # "none" => f \in mem[s].owned
       /\ IF file[f] = "none"
          THEN /\ file' = [file EXCEPT ![f] = "nova"]
               /\ op' = [op EXCEPT ![s].made = f]
          ELSE /\ op' = [op EXCEPT ![s].todo = @ \ {f}]
               /\ UNCHANGED file
    /\ UNCHANGED <<good, control, ckpt, manifest, cache, mem, live, run, task,
                   req, history, used>>

\* ...and is then recorded as owned in a checkpoint of its own.
OwnFile(s) ==
    /\ op[s].kind \in Preparing /\ op[s].made # 0
    /\ Save(s, [mem[s] EXCEPT !.owned = @ \cup {op[s].made}])
    /\ op' = [op EXCEPT ![s].made = 0, ![s].todo = @ \ {op[s].made}]
    /\ UNCHANGED <<file, good, manifest, cache, live, run, task, req, history,
                   used>>

Prepared(s, kind) == op[s].kind = kind /\ op[s].made = 0 /\ op[s].todo = {}

-----------------------------------------------------------------------------
(* How a worker run or a request ends                                       *)

\* fail_torrent_task and finish_torrent_cancelled leave the task inactive, if
\* it is still this run's.
Inactive(r) == IF cur = r /\ job \in {"active", "pausing"} THEN "idle" ELSE job

RunOver(r) == /\ run' = [run EXCEPT ![r] = NoRun]
              /\ job' = Inactive(r)
              /\ UNCHANGED <<slot, cur>>

\* The error of a storage operation goes to the run or the handler that
\* asked for it.
CallerFails(who) ==
    IF who[1] = "run"
    THEN RunOver(who[2]) /\ UNCHANGED req
    ELSE /\ SetReq(who[2], NoReq)
         /\ job' = IF req[who[2]].kind = "verify" /\ job = "done" THEN "idle" ELSE job
         /\ UNCHANGED <<run, slot, cur>>

\* ExistingTarget: a file that is not owned.  The caller gets the error,
\* nothing is undone, and a session that was being made does not come to be.
PrepareRefused(s) ==
    /\ op[s].kind \in Preparing /\ op[s].made = 0 /\ op[s].todo # {}
    /\ LET f == Lowest(op[s].todo) IN
       /\ file[f] # "none" /\ f \notin mem[s].owned
       /\ refused' = (refused \/ (op[s].kind = "open" /\ file[f] = "nova"))
    /\ mem' = IF op[s].kind = "select" THEN mem ELSE [mem EXCEPT ![s] = NoState]
    /\ op' = [op EXCEPT ![s] = Idle]
    /\ CallerFails(op[s].who)
    /\ UNCHANGED <<disk, live, removed, gone, shifted, quiet, used>>

-----------------------------------------------------------------------------
(* Opening a session: ensure_storage_session, resume_from_manifest          *)

\* The slot is empty: load the checkpoint and prepare the files under it.
OpenStarts(who, s) ==
    /\ mem[s] = NoState /\ Free(s) /\ manifest /\ ckpt # NoState
    /\ mem' = [mem EXCEPT ![s] = ckpt]
    /\ op' = [op EXCEPT ![s] = Prepare("open", who, ckpt.sel)]
    /\ UNCHANGED <<disk, live, run, task, req, history, used>>

\* No manifest or no checkpoint: the caller gets the error.
OpenMisses(who, s) ==
    /\ mem[s] = NoState /\ Free(s) /\ ~ (manifest /\ ckpt # NoState)
    /\ CallerFails(who)
    /\ UNCHANGED <<disk, mem, op, live, history, used>>

OpenEnds(s) ==
    /\ Prepared(s, "open")
    /\ op' = [op EXCEPT ![s] = Idle]
    /\ UNCHANGED <<disk, mem, live, run, task, req, history, used>>

Opened(s) == mem[s] # NoState /\ Free(s)

-----------------------------------------------------------------------------
(* Creating a session: TorrentStorage::create                               *)

CanCreate(sel) == ~ control /\ \A f \in sel : file[f] = "none"

\* The checkpoint is saved first, so that a resume can find it...
CreateStarts(t, s, sel) ==
    /\ CanCreate(sel)
    /\ Save(s, NewCheckpoint(sel))
    /\ op' = [op EXCEPT ![s] = Prepare("checkpoint", <<"req", t>>, sel)]
    /\ Spend("sessions")

\* ...then the manifest, then the files.
CreateManifest(s) ==
    /\ op[s].kind = "checkpoint"
    /\ manifest' = TRUE /\ control' = TRUE
    /\ op' = [op EXCEPT ![s].kind = "create"]
    /\ UNCHANGED <<file, good, ckpt, cache, mem, live, run, task, req,
                   history, used>>

CreateEnds(s) ==
    /\ Prepared(s, "create")
    /\ op' = [op EXCEPT ![s] = Idle]
    /\ req' = [req EXCEPT ![op[s].who[2]].at = "install"]
    /\ UNCHANGED <<disk, mem, live, run, task, history, used>>

-----------------------------------------------------------------------------
(* Selection: TorrentStorage::update_selection                              *)

Changed(s, sel) ==
    {p \in Pieces : SelectedPart(p, mem[s].sel) # SelectedPart(p, sel)}

\* Pieces whose selected files change lose their bit and their cached bytes...
SelectClears(s) ==
    /\ Prepared(s, "select")
    /\ LET new == Changed(s, op[s].sel) IN
       /\ mem' = [mem EXCEPT ![s].verified = @ \ new, ![s].cached = @ \ new]
       /\ cache' = cache \ new
    /\ op' = [op EXCEPT ![s].kind = "reselect"]
    /\ UNCHANGED <<file, good, control, ckpt, manifest, live, run, task, req,
                   history, used>>

\* ...and the new selection is saved under a new generation.
SelectSaves(s) ==
    /\ op[s].kind = "reselect"
    /\ Save(s, [mem[s] EXCEPT !.sel = op[s].sel, !.gen = 0])
    /\ op' = [op EXCEPT ![s] = Idle]
    /\ SetReq(op[s].who[2], NoReq)
    /\ shifted' = shifted \cup {r \in Runs : run[r].s = s /\ run[r].at = "close"}
    /\ UNCHANGED <<file, good, manifest, cache, live, run, task, removed, gone,
                   quiet, refused, used>>

-----------------------------------------------------------------------------
(* Deleting: delete_owned_payload_and_state, remove_resume_state            *)

RemoveControl ==
    control' = FALSE /\ ckpt' = NoState /\ manifest' = FALSE /\ cache' = {}

\* The bit of a removed file is cleared in memory only.
DeleteFile(s) ==
    /\ op[s].kind = "delete" /\ op[s].todo # {}
    /\ LET f == Lowest(op[s].todo) IN
       /\ file' = [file EXCEPT ![f] = "none"]
       /\ good' = {ps \in good : ps[2] # f}
       /\ removed' = removed \cup {f} /\ gone' = gone \cup {f}
       /\ mem' = [mem EXCEPT ![s].owned = @ \ {f}]
       /\ op' = [op EXCEPT ![s].todo = @ \ {f}]
    /\ UNCHANGED <<control, ckpt, manifest, cache, live, run, task, req,
                   shifted, quiet, refused, used>>

DeleteEnds(s) ==
    /\ op[s].kind = "delete" /\ op[s].todo = {}
    /\ RemoveControl
    /\ op' = [op EXCEPT ![s] = Idle]
    /\ req' = [req EXCEPT ![op[s].who[2]].at =
                  IF req[op[s].who[2]].kind = "redo" THEN "create" ELSE "gone"]
    /\ UNCHANGED <<file, good, mem, live, run, task, history, used>>

-----------------------------------------------------------------------------
(* Requests of the user                                                     *)

MayAsk(t) == req[t] = NoReq /\ used.requests < MaxRequests
StopCurrent == [r \in Runs |-> IF r = cur THEN [run[r] EXCEPT !.stop = TRUE]
                               ELSE run[r]]
Ask(t, kind, at, sel) ==
    /\ SetReq(t, [kind |-> kind, at |-> at, s |-> slot, run |-> cur, sel |-> sel])
    /\ Spend("requests")

\* create_torrent_task; the caller starts the task when it is installed.
AskCreate(t, sel) ==
    /\ req[t] = NoReq /\ job = "none" /\ used.sessions < MaxSessions
    /\ \A u \in Threads : req[u].kind # "create"
    /\ CanCreate(sel)
    /\ LET s == used.sessions + 1 IN
       /\ SetReq(t, [NoReq EXCEPT !.kind = "create", !.at = "making", !.s = s])
       /\ Save(s, NewCheckpoint(sel))
       /\ op' = [op EXCEPT ![s] = Prepare("checkpoint", <<"req", t>>, sel)]
    /\ Spend("sessions")
    /\ UNCHANGED <<file, good, manifest, cache, live, run, task, history>>

\* pause_torrent_task
AskPause(t) ==
    /\ MayAsk(t) /\ job \in {"active", "pausing"}
    /\ job' = "pausing"
    /\ run' = StopCurrent
    /\ Ask(t, "pause", "cancel", {})
    /\ UNCHANGED <<disk, mem, op, live, slot, cur, history>>

\* update_torrent_file_priorities, refused while the task is active or done.
AskSelect(t, sel) ==
    /\ MayAsk(t) /\ job = "idle"
    /\ Ask(t, "select", "open", sel)
    /\ UNCHANGED <<disk, mem, op, live, run, task, history>>

\* delete_torrent_task, with the payload ("delete") or without ("forget").
AskDelete(t, kind) ==
    /\ MayAsk(t) /\ job # "none"
    /\ job' = IF job = "done" THEN job ELSE "idle"
    /\ run' = StopCurrent
    /\ cur' = 0
    /\ Ask(t, kind, "open", {})
    /\ UNCHANGED <<disk, mem, op, live, slot, history>>

\* redownload_torrent_task pauses an active task first.
AskRedownload(t) ==
    /\ MayAsk(t) /\ job # "none"
    /\ IF job \in {"active", "pausing"}
       THEN job' = "pausing" /\ run' = StopCurrent /\ Ask(t, "redo", "cancel", {})
       ELSE Ask(t, "redo", "open", {}) /\ UNCHANGED <<job, run>>
    /\ UNCHANGED <<disk, mem, op, live, slot, cur, history>>

\* invalidate_current_run: the token is cancelled before the lock is taken...
RequestCancels(t) ==
    /\ req[t].at = "cancel"
    /\ LET s == req[t].s IN
       /\ op[s].kind # "open"
       /\ run' = CancelLive(s)
       /\ req' = [req EXCEPT ![t].at =
                     IF mem[s] = NoState THEN "settle" ELSE "invalidate"]
    /\ UNCHANGED <<disk, mem, op, live, task, history, used>>

\* ...the generation is moved under it, and the task becomes paused.
RequestInvalidates(t) ==
    /\ LET s == req[t].s IN
       \/ /\ req[t].at = "invalidate" /\ Free(s)
          /\ Save(s, [mem[s] EXCEPT !.gen = 0])
          /\ quiet' = quiet \cup {s}
       \/ req[t].at = "settle" /\ UNCHANGED <<mem, ckpt, control, quiet>>
    /\ job' = IF job = "pausing" /\ cur = req[t].run THEN "idle" ELSE job
    /\ SetReq(t, IF req[t].kind = "redo" THEN [req[t] EXCEPT !.at = "open"] ELSE NoReq)
    /\ UNCHANGED <<file, good, manifest, cache, op, live, run, slot, cur,
                   removed, gone, shifted, refused, used>>

\* update_selection cancels the token as soon as the session is there, and
\* then waits for the mutex.
RequestSelects(t) ==
    /\ req[t].at = "open" /\ req[t].kind = "select" /\ Opened(req[t].s)
    /\ run' = CancelLive(req[t].s)
    /\ req' = [req EXCEPT ![t].at = "act"]
    /\ UNCHANGED <<disk, mem, op, live, task, history, used>>

SelectStarts(t) ==
    /\ req[t].at = "act" /\ Free(req[t].s)
    /\ op' = [op EXCEPT ![req[t].s] =
                 Prepare("select", <<"req", t>>, req[t].sel)]
    /\ UNCHANGED <<disk, mem, live, run, task, req, history, used>>

\* A redownload keeps the selection for the replacement.
DeleteStarts(t) ==
    /\ req[t].at = "open" /\ req[t].kind \in {"delete", "redo"} /\ Opened(req[t].s)
    /\ LET s == req[t].s IN
       /\ op' = [op EXCEPT ![s] = [Prepare("delete", <<"req", t>>, {})
                                     EXCEPT !.todo = mem[s].owned]]
       /\ req' = [req EXCEPT ![t].at = "act", ![t].sel = mem[s].sel]
    /\ UNCHANGED <<disk, mem, live, run, task, history, used>>

RequestRemovesState(t) ==
    /\ req[t].at = "open" /\ req[t].kind = "forget" /\ Opened(req[t].s)
    /\ RemoveControl
    /\ req' = [req EXCEPT ![t].at = "gone"]
    /\ UNCHANGED <<file, good, mem, op, live, run, task, history, used>>

\* jobs.remove(id); without the payload to delete, also when the state could
\* not be opened.
RequestForgets(t) ==
    /\ \/ req[t].at = "gone"
       \/ /\ req[t].kind = "forget" /\ req[t].at = "open"
          /\ mem[req[t].s] = NoState /\ Free(req[t].s) /\ ~ (manifest /\ ckpt # NoState)
    /\ job' = "none" /\ slot' = 0 /\ cur' = 0
    /\ SetReq(t, NoReq)
    /\ UNCHANGED <<disk, mem, op, live, run, history, used>>

\* The replacement session of a redownload, in a slot of its own.
RequestCreates(t) ==
    /\ req[t].at = "create"
    /\ IF CanCreate(req[t].sel)
       THEN /\ used.sessions < MaxSessions
            /\ LET s == used.sessions + 1 IN
               /\ CreateStarts(t, s, req[t].sel)
               /\ req' = [req EXCEPT ![t].at = "making", ![t].s = s]
       ELSE SetReq(t, NoReq) /\ UNCHANGED <<mem, op, ckpt, control, used>>
    /\ UNCHANGED <<file, good, manifest, cache, live, run, task, history>>

\* restart_task_state, the new slot and the next run_generation; a task that
\* was deleted meanwhile is not brought back.
RequestInstalls(t) ==
    /\ req[t].at = "install"
    /\ IF req[t].kind = "redo" /\ job = "none" THEN UNCHANGED task
       ELSE job' = "idle" /\ slot' = req[t].s /\ cur' = 0
    /\ SetReq(t, NoReq)
    /\ UNCHANGED <<disk, mem, op, live, run, history, used>>

\* Mutant: the recheck believes the checkpoint.
Recheckable_Bug(m) == {p \in m.verified : IsSelected(p, m.sel)}

Recheckable(m) == {p \in m.verified : IsSelected(p, m.sel) /\ Verifies(p, m)}

\* startup_recheck in CheckpointOnly mode: only pieces marked verified are
\* read; those that do not verify lose the bit and, if they could be read,
\* their cached bytes.
Recheck(s) ==
    LET m == mem[s]
        ok == Recheckable(m)
        n == [m EXCEPT !.verified = ok,
                       !.cached = {p \in ok : IsBoundary(p, m.sel)}]
        dropped == {p \in m.verified \ ok : Reads(p, m)}
                   \cup {p \in m.cached : ~ IsSelected(p, m.sel)}
    IN /\ mem' = [mem EXCEPT ![s] = n]
       /\ IF n = m THEN UNCHANGED <<ckpt, control>> ELSE ckpt' = n /\ control' = TRUE
       /\ cache' = cache \ dropped

\* recheck_restored_completed_torrents: a completed task that does not verify
\* becomes failed.
RequestVerifies(t) ==
    /\ req[t].at = "open" /\ req[t].kind = "verify" /\ Opened(req[t].s)
    /\ Recheck(req[t].s)
    /\ job' = IF job = "done" /\ ~ Complete(mem'[req[t].s]) THEN "idle" ELSE job
    /\ SetReq(t, NoReq)
    /\ UNCHANGED <<file, good, manifest, op, live, run, slot, cur, history, used>>

-----------------------------------------------------------------------------
(* Worker runs: start_torrent_process, run_torrent_worker, download_selected *)

\* A start cancels the token of the run before it, if the job still has it.
StartRun ==
    /\ job = "idle" /\ used.runs < MaxRuns
    /\ LET n == used.runs + 1 IN
       /\ run' = [StopCurrent EXCEPT ![n].at = "open", ![n].s = slot]
       /\ cur' = n
    /\ job' = "active"
    /\ Spend("runs")
    /\ UNCHANGED <<disk, mem, op, live, slot, req, history>>

\* The recheck, and peer discovery after it.  The run goes on to its lease
\* only if it is still the task's run and nobody has asked it to stop (the
\* status may become Downloading); no peers, or a status that has moved on,
\* end it.
RunRechecks(r) ==
    /\ run[r].at = "open" /\ Opened(run[r].s)
    /\ Recheck(run[r].s)
    /\ \/ /\ cur = r /\ job = "active" /\ ~ run[r].stop
          /\ run' = [run EXCEPT ![r].at = "lease"]
          /\ UNCHANGED task
       \/ RunOver(r)
    /\ gone' = IF cur = r THEN {} ELSE gone
    /\ UNCHANGED <<file, good, manifest, op, live, req, removed, shifted, quiet,
                   refused, used>>

\* TorrentStorageSession::begin_run: the next generation, and a token that
\* replaces (and cancels) the one before; then transfer_plan: the selected
\* pieces that are not verified.
RunLeases(r) ==
    /\ run[r].at = "lease" /\ Free(run[r].s)
    /\ LET s == run[r].s
           todo == {p \in Pieces : IsSelected(p, mem[s].sel) /\ p \notin mem[s].verified}
       IN /\ Save(s, [mem[s] EXCEPT !.gen = r])
          /\ run' = [CancelLive(s) EXCEPT
                       ![r].at = IF todo = {} THEN "finalize" ELSE "drive",
                       ![r].todo = todo, ![r].cancelled = FALSE]
          /\ live' = [live EXCEPT ![s] = r]
          /\ quiet' = quiet \ {s}
    /\ UNCHANGED <<file, good, manifest, cache, op, task, req, removed, gone,
                   shifted, refused, used>>

\* Mutant: the lease is not looked at again under the mutex.
CommitStarts_Bug(r, p) ==
    /\ run[r].at = "drive" /\ p \in run[r].todo /\ Free(run[r].s)
    /\ op' = [op EXCEPT ![run[r].s] =
         [kind |-> "commit", who |-> <<"run", r>>, sel |-> {p}, made |-> 0,
          todo |-> SelectedPart(p, mem[run[r].s].sel)]]
    /\ UNCHANGED <<disk, mem, live, run, task, req, history, used>>

\* commit_piece: the lease is looked at again once the mutex is held.
CommitStarts(r, p) ==
    /\ run[r].at = "drive" /\ p \in run[r].todo
    /\ LET s == run[r].s IN
       /\ Free(s) /\ Current(r)
       /\ op' = [op EXCEPT ![s] =
            [kind |-> "commit", who |-> <<"run", r>>, sel |-> {p}, made |-> 0,
             todo |-> SelectedPart(p, mem[s].sel)]]
    /\ UNCHANGED <<disk, mem, live, run, task, req, history, used>>

Committed(s) == Lowest(op[s].sel)

\* write_file_slice never makes a file.
CommitSlice(s) ==
    /\ op[s].kind = "commit" /\ op[s].todo # {}
    /\ LET f == Lowest(op[s].todo) IN
       /\ file[f] # "none"
       /\ good' = good \cup {<<Committed(s), f>>}
       /\ op' = [op EXCEPT ![s].todo = @ \ {f}]
    /\ UNCHANGED <<file, control, ckpt, manifest, cache, mem, live, run, task,
                   req, history, used>>

CommitCaches(s) ==
    /\ op[s].kind = "commit" /\ op[s].todo = {} /\ op[s].made = 0
    /\ cache' = IF IsBoundary(Committed(s), mem[s].sel)
                THEN cache \cup {Committed(s)} ELSE cache \ {Committed(s)}
    /\ control' = (control \/ IsBoundary(Committed(s), mem[s].sel))
    /\ op' = [op EXCEPT ![s].made = 1]
    /\ UNCHANGED <<file, good, ckpt, manifest, mem, live, run, task,
                   req, history, used>>

\* The bit follows the bytes; the coordinator takes the piece off its list.
CommitSaves(s) ==
    /\ op[s].kind = "commit" /\ op[s].made = 1
    /\ LET p == Committed(s)
           r == op[s].who[2]
           left == run[r].todo \ {p}
       IN /\ Save(s, [mem[s] EXCEPT !.verified = @ \cup {p},
                        !.cached = IF IsBoundary(p, mem[s].sel) THEN @ \cup {p}
                                   ELSE @ \ {p}])
          /\ run' = [run EXCEPT ![r].todo = left,
                       ![r].at = IF @ = "drive" /\ left = {} THEN "finalize" ELSE @]
    /\ op' = [op EXCEPT ![s] = Idle]
    /\ UNCHANGED <<file, good, manifest, cache, live, task, req, history, used>>

\* run_cancel.cancel() and the first half of storage.pause(), which cancels
\* the token of whichever run is the session's latest.
Stopping(r) == [CancelLive(run[r].s) EXCEPT ![r].cancelled = TRUE, ![r].at = "stop"]

\* A write failed (a missing file, a full disk): what was written stays.
CommitFails(s) ==
    /\ op[s].kind = "commit" /\ op[s].made = 0
    /\ op' = [op EXCEPT ![s] = Idle]
    /\ run' = IF run[op[s].who[2]].at = "drive" THEN Stopping(op[s].who[2]) ELSE run
    /\ UNCHANGED <<disk, mem, live, task, req, history, used>>

\* external_cancel, a peer error, or a commit refused as stale.
RunStops(r) ==
    /\ run[r].at = "drive"
    /\ run' = Stopping(r)
    /\ UNCHANGED <<disk, mem, op, live, task, req, history, used>>

\* The second half of storage.pause(), under the mutex.
RunInvalidates(r) ==
    /\ run[r].at = "stop" /\ Free(run[r].s)
    /\ Save(run[r].s, [mem[run[r].s] EXCEPT !.gen = 0])
    /\ RunOver(r)
    /\ UNCHANGED <<file, good, manifest, cache, op, live, req, history, used>>

\* The lease's own token was cancelled by somebody else.
RunCancelled(r) ==
    /\ run[r].at = "drive" /\ run[r].cancelled
    /\ RunOver(r)
    /\ UNCHANGED <<disk, mem, op, live, req, history, used>>

\* finalize_selected: under the mutex, the lease is looked at once more, every
\* selected piece has to be verified, and every selected file to open.
RunFinalizes(r) ==
    /\ run[r].at = "finalize" /\ Free(run[r].s)
    /\ LET m == mem[run[r].s] IN
       IF Current(r) /\ Complete(m) /\ \A f \in m.sel : file[f] # "none"
       THEN run' = [run EXCEPT ![r].at = "close"] /\ UNCHANGED task
       ELSE RunOver(r)
    /\ UNCHANGED <<disk, mem, op, live, req, history, used>>

\* Mutant: the generation of the run is not looked at.
RunCompletes_Bug(r) ==
    /\ run[r].at = "close"
    /\ IF job = "active"
       THEN /\ job' = "done"
            /\ run' = [run EXCEPT ![r] = NoRun]
            /\ UNCHANGED <<slot, cur>>
       ELSE RunOver(r)
    /\ UNCHANGED <<disk, mem, op, live, req, history, used>>

\* The worker waits for its progress task and reads the progress again before
\* it makes the task Verifying, Finalizing and Completed: neither the mutex is
\* held nor the lease looked at.  The first two steps leave the task active;
\* whichever of the three finds the task another run's, or stopped, is the last.
RunCompletes(r) ==
    /\ run[r].at = "close"
    /\ IF cur = r /\ job = "active"
       THEN /\ job' = "done"
            /\ run' = [run EXCEPT ![r] = NoRun]
            /\ UNCHANGED <<slot, cur>>
       ELSE RunOver(r)
    /\ UNCHANGED <<disk, mem, op, live, req, history, used>>

\* read_verified_block, for a peer: a piece that no longer verifies is
\* refused and loses its bit.
ReadBlock(p) ==
    /\ slot # 0 /\ job \in {"active", "done"} /\ Opened(slot)
    /\ LET m == mem[slot] IN
       /\ p \in m.verified /\ Reads(p, m) /\ ~ Verifies(p, m)
       /\ Save(slot, [m EXCEPT !.verified = @ \ {p}, !.cached = @ \ {p}])
    /\ cache' = cache \ {p}
    /\ UNCHANGED <<file, good, manifest, op, live, run, task, req, history, used>>

-----------------------------------------------------------------------------
(* The environment                                                          *)

\* Everything in memory is gone; the task is restored paused, or completed
\* and then verified.
Crash ==
    /\ used.crashes < MaxCrashes /\ used.sessions < MaxSessions
    /\ mem' = [s \in Sessions |-> NoState]
    /\ op' = [s \in Sessions |-> Idle]
    /\ live' = [s \in Sessions |-> 0]
    /\ run' = [r \in Runs |-> NoRun]
    /\ job' = IF job \in {"none", "done"} THEN job ELSE "idle"
    /\ slot' = IF job = "none" THEN 0 ELSE used.sessions + 1
    /\ cur' = 0
    /\ \E first \in Threads :
         req' = [t \in Threads |->
                   IF t = first /\ job = "done"
                   THEN [NoReq EXCEPT !.kind = "verify", !.at = "open",
                                      !.s = used.sessions + 1]
                   ELSE NoReq]
    /\ quiet' = {}
    /\ used' = [used EXCEPT !.crashes = @ + 1, !.sessions = @ + 1]
    /\ UNCHANGED <<disk, removed, gone, shifted, refused>>

-----------------------------------------------------------------------------
Callers(s) ==
    {<<"run", r>> : r \in {r \in Runs : run[r].at = "open" /\ run[r].s = s}}
    \cup {<<"req", t>> : t \in {t \in Threads : req[t].at = "open" /\ req[t].s = s}}

StorageStep(s) ==
    \/ PrepareFile(s) \/ OwnFile(s)
    \/ PrepareRefused(s) \/ OpenEnds(s)
    \/ CreateManifest(s) \/ CreateEnds(s)
    \/ SelectClears(s) \/ SelectSaves(s)
    \/ DeleteFile(s) \/ DeleteEnds(s)
    \/ CommitSlice(s) \/ CommitCaches(s) \/ CommitSaves(s) \/ CommitFails(s)
    \/ \E who \in Callers(s) : OpenStarts(who, s) \/ OpenMisses(who, s)

RequestStep(t) ==
    \/ \E sel \in Selections : AskCreate(t, sel) \/ AskSelect(t, sel)
    \/ AskPause(t) \/ AskRedownload(t)
    \/ \E kind \in {"delete", "forget"} : AskDelete(t, kind)
    \/ RequestCancels(t) \/ RequestInvalidates(t) \/ RequestSelects(t)
    \/ SelectStarts(t) \/ DeleteStarts(t) \/ RequestRemovesState(t) \/ RequestForgets(t)
    \/ RequestCreates(t) \/ RequestInstalls(t) \/ RequestVerifies(t)

RunStep(r) ==
    \/ RunRechecks(r) \/ RunLeases(r) \/ RunStops(r) \/ RunInvalidates(r) \/ RunCancelled(r)
    \/ RunFinalizes(r) \/ RunCompletes(r)
    \/ \E p \in Pieces : CommitStarts(r, p)

Next ==
    \/ \E s \in Sessions : StorageStep(s)
    \/ \E t \in Threads : RequestStep(t)
    \/ \E r \in Runs : RunStep(r)
    \/ StartRun \/ Crash
    \/ \E p \in Pieces : ReadBlock(p)

Spec == Init /\ [][Next]_vars

-----------------------------------------------------------------------------
(* Properties                                                               *)

Checkpoints ==
    [gen : 0..MaxRuns, sel : SUBSET Files, owned : SUBSET Files,
     verified : SUBSET Pieces, cached : SUBSET Pieces]

\* The checkpoint on disk and every session in memory are well formed, a
\* cached bit is only ever set for a verified boundary piece of the
\* selection, and the manifest and the cache live in the control directory.
TypeOK ==
    /\ file \in [Files -> {"none", "user", "nova"}]
    /\ good \subseteq Slices /\ gone \subseteq removed /\ cache \subseteq Pieces
    /\ ckpt \in Checkpoints \cup {NoState}
    /\ \A s \in Sessions : mem[s] \in Checkpoints \cup {NoState}
    /\ job \in {"none", "idle", "active", "pausing", "done"}
    /\ slot \in 0..MaxSessions /\ cur \in 0..MaxRuns
    /\ (ckpt # NoState \/ manifest) => control
    /\ \A s \in Sessions : mem[s] # NoState =>
          \A p \in mem[s].cached : p \in mem[s].verified /\ IsBoundary(p, mem[s].sel)

\* A bit is only ever set, saved or loaded over bytes that were written.
Backed(m) ==
    m # NoState =>
      \A p \in m.verified : \A f \in SelectedPart(p, m.sel) :
         <<p, f>> \in good \/ f \in removed

\* The recheck reads every file of a piece that is not a boundary piece; of a
\* boundary piece it reads the cache (see RestoredIsWhole).
SliceHere(p, f, sel) ==
    <<p, f>> \in good \/ f \in (IF IsBoundary(p, sel) THEN removed ELSE gone)

\* Types, and: no checkpoint, in memory or on disk, calls a piece verified
\* whose bytes never reached a selected file, through crashes between the
\* write of a slice and the save of its bit, failed writes, changes of the
\* selection and the saves of a session that was replaced; and while the
\* task's run downloads, finalizes or closes, its session's pieces are in their
\* files but for a file that was removed since the recheck.
VerifiedIsOnDisk ==
    /\ TypeOK
    /\ Backed(ckpt) /\ \A s \in Sessions : Backed(mem[s])
    /\ \A r \in Runs : LET m == mem[run[r].s] IN
          r = cur /\ run[r].at \in {"drive", "finalize", "close"}
          => \A p \in m.verified : \A f \in SelectedPart(p, m.sel) :
                SliceHere(p, f, m.sel)

\* Every selected slice is on disk in a file that NOVA made, but for the files
\* a deletion has taken since the recheck.
Whole(sel) ==
    \A p \in Pieces : \A f \in SelectedPart(p, sel) :
       (file[f] = "nova" \/ f \in gone) /\ SliceHere(p, f, sel)

\* A task becomes completed only with every selected slice on disk, although
\* the session is released between the finalize and the last of the three
\* status changes: pauses, deletions, rechecks of replaced runs, blocks that
\* no longer verify and a second client's start all may come between.  A
\* change of selection let in before the run began may come there too, and
\* then the task is completed without what was added (see CompletedAsSelected).
CompletedIsWhole ==
    [][job # "done" /\ job' = "done" /\ cur \notin shifted
         => Whole(mem[slot].sel)]_vars

\* The same of every completion, whatever was let in before the run began.
CompletedAsSelected ==
    [][job # "done" /\ job' = "done" => Whole(mem[slot].sel)]_vars

\* "restored completed torrents are rechecked against durable storage instead
\* of trusting a historical completed flag": a task that is still completed
\* after a restart and its recheck has every selected byte on disk.
RestoredIsWhole ==
    job = "done" /\ used.crashes > 0 /\ Opened(slot)
    /\ (\A t \in Threads : req[t] = NoReq) =>
      \A p \in Pieces : \A f \in SelectedPart(p, mem[slot].sel) : <<p, f>> \in good

\* Once pause has returned, no piece of the torrent is being written until a
\* run takes a new lease ("pause, cancel, selection changes, and resumed runs
\* invalidate stale workers before they can commit pieces").
PausedIsQuiet == \A s \in quiet : op[s].kind # "commit"

\* A file that was there before the torrent is never written, adopted or
\* deleted by it, whatever is selected later.
UserFilesUntouched ==
    [][\A f \in Files : file[f] = "user" =>
         /\ file'[f] = "user"
         /\ \A p \in Pieces : <<p, f>> \notin good']_vars

\* "If the process stops during allocation, resume() can safely finish
\* creating missing files instead of treating them as unrelated user data."
ResumeKnowsItsFiles == ~ refused

=============================================================================

---------------------------- MODULE LiveRecording ----------------------------
(***************************************************************************)
(* A native media task that records a live HLS playlist: the handlers of    *)
(* curl/task_api.rs for it, run_native_media_worker of native_media.rs and  *)
(* the staging directory in which a recording survives a pause, a failure   *)
(* and a crash (stage_hls_live_stream: tick directory, committed parts,     *)
(* checkpoint).                                                             *)
(*                                                                          *)
(* The server publishes segments 1, 2, ... and lists the last Window of     *)
(* them.  A unit is a media segment or the initialization section its map   *)
(* names; all units have the same size, the case in which the size check    *)
(* knows least, so that next_order also stands for total_bytes.  Runs are   *)
(* named by their generation.  A worker changes the status and the slot in  *)
(* one step; a request that stops a run releases its slot in a later one.   *)
(* A master playlist is resolved to its media playlist beforehand, and the  *)
(* directory of a tick stands for those of all ticks of all runs.           *)
(***************************************************************************)
EXTENDS Naturals, FiniteSets, Sequences, TaskState

CONSTANTS
    Window,         \* segments in the playlist
    MaxSeq,         \* segments the stream ever has
    MapChange,      \* the first segment with the second initialization map
    Requests,       \* the requests that are made
    MaxRequests,
    MaxCrashes

ASSUME RecordingAssumption ==
    /\ {Window, MaxSeq, MapChange, MaxRequests, MaxCrashes} \subseteq Nat
    /\ Window > 0 /\ MaxSeq > 0

VARIABLES
    head, ended,    \* server: last segment published, #EXT-X-ENDLIST
    status, gen, cancel, finish, live,      \* NativeMediaJob
    active,         \* priority_queue.active_downloads
    parts,          \* live-parts: order -> unit
    ckpt, temp,     \* hls-live-checkpoint.json and its temporary file
    tick,           \* the staged files of a tick: order in the plan -> unit
    out,            \* the output file, <<>> when there is none
    w,              \* generation -> its worker
    call,           \* what is left to do of the request under way
    saved,          \* what a restart may make of the task: see Saves
    asked, crashes,
    kept, missed, lost, mingled, vod, mismatch      \* history

server == <<head, ended>>
job    == <<status, gen, cancel, finish, live, active>>
disk   == <<parts, ckpt, temp, tick, out>>
hist   == <<kept, missed, lost, mingled, vod, mismatch>>
vars   == <<server, job, disk, w, call, saved, asked, crashes, hist>>

MaxGen == 1 + 2 * MaxRequests
Runs   == 1 .. MaxGen
Gone   == "Gone"
NoFile == <<>>

Init_(m)  == <<"init", m>>
Media(n)  == <<"media", n>>
Units     == {Init_(m) : m \in 1 .. 2} \cup {Media(n) : n \in 1 .. MaxSeq}

\* HlsLiveTaskCheckpoint; a cursor of 0 stands for None, as does an init of 0.
NewCheckpoint == [cursor |-> 0, order |-> 0, init |-> 0]
Checkpoints ==
    [cursor : 0 .. MaxSeq + 1, order : Nat, init : 0 .. 2]

Idle == [at |-> "none", ck |-> NewCheckpoint, plan |-> <<>>, end |-> FALSE,
         vod |-> FALSE]

-----------------------------------------------------------------------------
(* The playlist and the plan of a refresh                                   *)

\* Between two looks at the playlist the server publishes any number of segments
\* and may end the stream.
ServerMoves ==
    /\ head' \in head .. (IF ended THEN head ELSE MaxSeq)
    /\ ended' \in {ended, TRUE}

\* The first segment listed when the last one is h.
First(h) == IF h > Window THEN h - Window + 1 ELSE 1

\* The initialization map of a segment.
MapOf(n) == IF n < MapChange THEN 1 ELSE 2

\* Mutant: the initialization of every refresh is kept.
InitBefore_Bug(n, from, last) == n = from \/ MapOf(n) # MapOf(n - 1)

\* build_hls_media_plan puts an initialization before the first segment and
\* wherever the map changes, which it does at MapChange only; the recorder drops
\* one it has just recorded.
InitBefore(n, from, last) == MapOf(n) # (IF n = from THEN last ELSE MapOf(n - 1))

Plan(from, to, last) ==
    LET turn == IF MapChange \in from + 1 .. to THEN MapChange ELSE to + 1
        Stretch(a, b) ==
          (IF a <= b /\ InitBefore(a, from, last) THEN <<Init_(MapOf(a))>> ELSE <<>>)
             \o [i \in 1 .. b + 1 - a |-> Media(a + i - 1)]
    IN  Stretch(from, turn - 1) \o Stretch(turn, to)

\* Mutant: the segment at the cursor is taken for one already recorded.
Selected_Bug(cursor, first) == IF cursor >= first THEN cursor + 1 ELSE first

\* build_hls_live_refresh: the segments from the cursor on.
Selected(cursor, first) == IF cursor > first THEN cursor ELSE first

\* committed_live_parts, in order.
Listing ==
    [i \in 1 .. Cardinality(DOMAIN parts) |->
       parts[CHOOSE o \in DOMAIN parts :
               Cardinality({p \in DOMAIN parts : p < o}) = i - 1]]

-----------------------------------------------------------------------------
(* Pieces of several steps                                                  *)

At(r, where) == w' = [w EXCEPT ![r].at = where]
Over(r)      == w' = [w EXCEPT ![r] = Idle]
Release      == active' = IF active > 0 THEN active - 1 ELSE 0

\* Mutant: the end of a run looks the job up by the id alone.
Owns_Bug(r) == status # Gone

\* The generation the worker was started with is still the job's.
Owns(r) == gen = r

\* paused_or_stale
Stopped(r) == cancel \/ gen # r

\* transition_native_task; a deleted task has another generation.
Transition(r, next) == gen = r /\ status \in TaskStates /\ CanTransition(status, next)

\* fail_native_task
Fail(r) ==
    /\ IF Owns(r) THEN status' = "Failed" /\ Release ELSE UNCHANGED <<status, active>>
    /\ Over(r)
    /\ UNCHANGED <<gen, cancel, finish, live>>

\* Staging came back with an error.
Broken(r) ==
    IF Stopped(r) THEN At(r, "preview") /\ UNCHANGED job ELSE Fail(r)

\* A look at the token and the generation, then a transition.  One that is refused
\* (handle_native_transition_error) was refused because of a pause, a redownload
\* or a delete in between, and ends the same way.
Advance(r, next, then) ==
    /\ IF ~ Stopped(r) /\ Transition(r, next)
       THEN status' = next /\ At(r, then)
       ELSE At(r, "preview") /\ UNCHANGED status
    /\ UNCHANGED <<gen, cancel, finish, live, active>>

\* History: a run that is no longer the task's has touched the files.
Touches(r) == mingled' = (mingled \/ gen # r)

\* What restore_persisted_tasks makes of a task that was saved with this status.
Restored(st) == IF st \in ActiveStates \cup {"Queued"} THEN "Paused" ELSE st

\* The periodic saver runs now and then: the state file may hold any status the
\* task has had since it was last saved for certain.
Saves(old) == saved' = old \cup {Restored(status')}

\* A run that ends in Paused saves the list before it returns.
SavesNow(r) ==
    gen = r /\ (w[r].at = "settle" \/ (w[r].at = "complete" /\ status' = "Paused"))

Wiped == parts' = <<>> /\ ckpt' = NoFile /\ temp' = NoFile /\ tick' = <<>>

-----------------------------------------------------------------------------
(* The worker: run_native_media_worker                                      *)

WorkerProbes(r) ==
    /\ w[r].at = "spawned"
    /\ Advance(r, "Probing", "resolve")
    /\ UNCHANGED <<disk, hist>>

\* resolve_native_media; its failure fails the task even when it was paused.
WorkerDownloads(r) ==
    /\ w[r].at = "resolve"
    /\ Fail(r) \/ Advance(r, "Downloading", "fetch")
    /\ UNCHANGED <<disk, hist>>

\* A refresh: what the playlist lists from the cursor on becomes the plan, and
\* the checkpoint moves behind it.
Refresh(r, ck) ==
    LET plan == Plan(Selected(ck.cursor, First(head')), head', ck.init)
        next == [ck EXCEPT !.cursor = head' + 1]
    IN  /\ w' = [w EXCEPT ![r] = [at |-> IF plan = <<>> THEN "save" ELSE "stage",
                                  ck |-> next, plan |-> plan, end |-> ended',
                                  vod |-> FALSE]]
        /\ missed' = missed \cup (IF ck.cursor = 0 THEN {} ELSE ck.cursor .. First(head') - 1)

\* Mutant: a run counts its parts from 0 again.
ReadCheckpoint_Bug ==
    IF ckpt = NoFile THEN NewCheckpoint ELSE [ckpt EXCEPT !.order = 0]

\* read_live_checkpoint(..).unwrap_or_default()
ReadCheckpoint == IF ckpt = NoFile THEN NewCheckpoint ELSE ckpt

\* stage_hls_stream and stage_hls_playlist: with #EXT-X-ENDLIST the playlist is
\* staged like a finished video, otherwise it is recorded.
WorkerFetches(r) ==
    /\ w[r].at = "fetch"
    /\ \/ Broken(r) /\ UNCHANGED <<server, hist>>
       \/ /\ ServerMoves /\ ended'
          /\ w' = [w EXCEPT ![r] = [Idle EXCEPT !.at = "stage", !.vod = TRUE,
                                                !.plan = Plan(First(head'), head', 0)]]
          /\ UNCHANGED <<job, hist>>
       \/ /\ ServerMoves /\ ~ ended'
          /\ live' = (live \/ Owns(r))
          /\ IF Stopped(r) THEN At(r, "preview") /\ UNCHANGED <<missed, lost>>
             ELSE /\ Refresh(r, ReadCheckpoint)
                  /\ lost' = (lost \/ (ckpt = NoFile /\ (parts # <<>> \/ kept # {})))
          /\ UNCHANGED <<status, gen, cancel, finish, active, kept, mingled, vod,
                         mismatch>>
    /\ UNCHANGED disk

\* After sleep_live_refresh, the top of the loop with another playlist.
WorkerRefreshes(r) ==
    /\ w[r].at = "loop"
    /\ \/ Broken(r) /\ UNCHANGED <<server, hist>>
       \/ /\ ServerMoves
          /\ ~ Stopped(r) /\ Refresh(r, w[r].ck)
          /\ UNCHANGED <<job, kept, lost, mingled, vod, mismatch>>
    /\ UNCHANGED disk

\* stage_hls_media_plan_controlled...: every unit, or an error.
WorkerStages(r) ==
    /\ w[r].at = "stage"
    /\ \/ Broken(r) /\ UNCHANGED <<tick, mingled>>
       \/ /\ tick' = w[r].plan
          /\ Touches(r)
          /\ At(r, IF w[r].vod THEN "staged" ELSE "commit")
          /\ UNCHANGED job
    /\ UNCHANGED <<parts, ckpt, temp, out, kept, missed, lost, vod, mismatch>>

\* commit_live_parts, one rename, which replaces a part of that name; after the last
\* one the tick's directory goes.
WorkerCommits(r) ==
    LET todo == w[r].plan
        to   == w[r].ck.order
        at   == Len(tick) - Len(todo) + 1
    IN  /\ w[r].at = "commit"
        /\ \/ Broken(r) /\ UNCHANGED <<disk, mingled>>
           \/ /\ Len(tick) >= Len(todo)
              /\ parts' = [o \in DOMAIN parts \cup {to} |->
                             IF o = to THEN tick[at] ELSE parts[o]]
              /\ tick' = IF Len(todo) = 1 THEN <<>> ELSE tick
              /\ w' = [w EXCEPT ![r].plan = Tail(todo),
                                ![r].at = IF Len(todo) = 1 THEN "save" ELSE "commit",
                                ![r].ck.order = to + 1,
                                ![r].ck.init = IF tick[at][1] = "init" THEN tick[at][2] ELSE @]
              /\ Touches(r)
              /\ UNCHANGED <<job, ckpt, temp, out>>
        /\ UNCHANGED <<kept, missed, lost, vod, mismatch>>

\* write_live_checkpoint: the temporary file is written and synced and the old
\* checkpoint removed, ...
WorkerUnlinks(r) ==
    /\ w[r].at = "save"
    /\ \/ Broken(r) /\ UNCHANGED <<ckpt, temp, mingled>>
       \/ /\ temp' = w[r].ck /\ ckpt' = NoFile
          /\ Touches(r) /\ At(r, "rename")
          /\ UNCHANGED job
    /\ UNCHANGED <<parts, tick, out, kept, missed, lost, vod, mismatch>>

Recorded == {u[2] : u \in {parts[o] : o \in DOMAIN parts} \cap {Media(n) : n \in 1 .. MaxSeq}}

\* ... and the new one takes its name.  Then the recording ends or goes on.
WorkerRenames(r) ==
    /\ w[r].at = "rename"
    /\ \/ Broken(r) /\ UNCHANGED <<ckpt, temp, kept, mingled>>
       \/ /\ temp # NoFile
          /\ ckpt' = temp /\ temp' = NoFile
          /\ Touches(r)
          /\ At(r, IF w[r].end \/ finish THEN "staged" ELSE "loop")
          /\ kept' = kept \cup Recorded
          /\ UNCHANGED job
    /\ UNCHANGED <<parts, tick, out, missed, lost, vod, mismatch>>

WorkerVerifies(r) ==
    /\ w[r].at = "staged"
    /\ Advance(r, "Verifying", "verify")
    /\ UNCHANGED <<disk, hist>>

\* verify_staged_parts: there are parts, and as many bytes as were counted.  (A
\* recording without parts is refused by the recorder itself, a step earlier.)
Complete(r) ==
    IF w[r].vod THEN Len(tick) = Len(w[r].plan)
    ELSE parts # <<>> /\ Cardinality(DOMAIN parts) = w[r].ck.order

WorkerFinalizes(r) ==
    /\ w[r].at = "verify"
    /\ IF Complete(r)
       THEN Advance(r, "Finalizing", "assemble") /\ UNCHANGED mismatch
       ELSE Fail(r) /\ mismatch' = (mismatch \/ gen = r)
    /\ UNCHANGED <<disk, kept, missed, lost, mingled, vod>>

\* assemble_ordered_parts, which replaces the output in one rename.
WorkerAssembles(r) ==
    LET source == IF w[r].vod THEN tick ELSE Listing
    IN  /\ w[r].at = "assemble"
        /\ \/ Fail(r) /\ UNCHANGED <<out, mingled, vod>>
           \/ /\ source # <<>>
              /\ out' = source
              /\ Touches(r)
              /\ vod' = w[r].vod
              /\ At(r, "complete")
              /\ UNCHANGED job
        /\ UNCHANGED <<parts, ckpt, temp, tick, kept, missed, lost, mismatch>>

\* Conversion and subtitles may fail; a stop that is noticed by then ends in the
\* preview; complete_native_task.
WorkerCompletes(r) ==
    /\ w[r].at = "complete"
    /\ \/ Fail(r)
       \/ Stopped(r) /\ At(r, "preview") /\ UNCHANGED job
       \/ /\ IF ~ Owns(r) THEN UNCHANGED <<status, active>>
             ELSE /\ status' = IF status = "Pausing" THEN "Paused" ELSE "Completed"
                  /\ Release
          /\ IF Owns(r) /\ status # "Pausing" THEN At(r, "sweep") ELSE Over(r)
          /\ UNCHANGED <<gen, cancel, finish, live>>
    /\ UNCHANGED <<disk, hist>>

\* The staging directory of a completed task is removed.
WorkerSweeps(r) ==
    /\ w[r].at = "sweep"
    /\ Wiped /\ Touches(r) /\ Over(r)
    /\ UNCHANGED <<job, out, kept, missed, lost, vod, mismatch>>

\* finish_native_cancelled: assemble_live_preview, ...
WorkerPreviews(r) ==
    /\ w[r].at = "preview"
    /\ IF Owns(r) /\ parts # <<>>
       THEN out' = Listing /\ vod' = FALSE
       ELSE UNCHANGED <<out, vod>>
    /\ At(r, "settle")
    /\ UNCHANGED <<job, parts, ckpt, temp, tick, kept, missed, lost, mingled, mismatch>>

\* Mutant: a run that was stopped leaves the status to the request.
Settled_Bug == status

Settled == IF CanTransition(status, "Paused") THEN "Paused" ELSE status

\* ... then the status and the slot.
WorkerSettles(r) ==
    /\ w[r].at = "settle"
    /\ IF Owns(r) THEN status' = Settled /\ Release ELSE UNCHANGED <<status, active>>
    /\ Over(r)
    /\ UNCHANGED <<gen, cancel, finish, live, disk, hist>>

Local(r) ==
    \/ WorkerProbes(r) \/ WorkerDownloads(r) \/ WorkerStages(r)
    \/ WorkerCommits(r) \/ WorkerUnlinks(r) \/ WorkerRenames(r)
    \/ WorkerVerifies(r) \/ WorkerFinalizes(r) \/ WorkerAssembles(r)
    \/ WorkerCompletes(r) \/ WorkerSweeps(r) \/ WorkerPreviews(r)
    \/ WorkerSettles(r)

Worker(r) ==
    /\ \/ WorkerFetches(r) \/ WorkerRefreshes(r)
       \/ Local(r) /\ UNCHANGED server
    /\ Saves(IF SavesNow(r) THEN {} ELSE saved)
    /\ UNCHANGED <<call, asked, crashes>>

-----------------------------------------------------------------------------
(* Requests of one client                                                   *)

\* start_native_media_process, after create, resume, finish and redownload: a new
\* generation, the token cleared, the slot taken, the worker spawned.
Start ==
    /\ call = "start"
    /\ call' = "none"
    /\ IF (gen > 0 /\ IsActive(status)) \/ status \notin {"Queued", "Preparing"}
       THEN UNCHANGED <<job, w>>
       ELSE /\ status' = "Preparing"
            /\ cancel' = FALSE
            /\ gen' = gen + 1
            /\ active' = active + 1
            /\ w' = [w EXCEPT ![gen + 1] = [Idle EXCEPT !.at = "spawned"]]
            /\ UNCHANGED <<finish, live>>
    /\ Saves(saved)
    /\ UNCHANGED <<server, disk, asked, crashes, hist>>

Asks(kind, then) ==
    /\ kind \in Requests /\ call = "none" /\ asked < MaxRequests
    /\ asked' = asked + 1
    /\ call' = then
    /\ Saves(saved)
    /\ UNCHANGED <<server, w, crashes>>

MayPause == ~ finish

\* pause_task
Pause ==
    /\ MayPause
    /\ status' = IF IsActive(status) THEN "Pausing" ELSE "Paused"
    /\ CanTransition(status, status')
    /\ cancel' = TRUE
    /\ Asks("pause", "none")
    /\ UNCHANGED <<gen, finish, live, active, disk, hist>>

\* finish_live_media_task
Finish ==
    /\ live /\ ~ finish
    /\ status \in {"Paused", "Queued", "Preparing", "Probing", "Downloading"}
    /\ status' = IF status = "Paused" THEN "Queued" ELSE status
    /\ finish' = TRUE
    /\ Asks("finish", IF status \in {"Paused", "Queued"} THEN "start" ELSE "none")
    /\ UNCHANGED <<gen, cancel, live, active, disk, hist>>

\* resume_task, once the task is no longer Pausing.
Resume ==
    /\ status \in {"Paused", "Queued", "Failed", "Interrupted"}
    /\ status' = "Queued"
    /\ cancel' = FALSE
    /\ Asks("resume", "start")
    /\ UNCHANGED <<gen, finish, live, active, disk, hist>>

\* redownload_task: under the lock, then the files, then the start.
Redownload ==
    /\ CanRestart(status, "Queued")
    /\ status' = "Queued"
    /\ cancel' = TRUE /\ finish' = FALSE /\ live' = FALSE
    /\ gen' = gen + 1
    /\ Asks("redownload", IF IsActive(status) THEN "wipeAndRelease" ELSE "wipe")
    /\ UNCHANGED <<active, disk, hist>>

RedownloadWipes ==
    /\ call \in {"wipe", "wipeAndRelease"}
    /\ call' = "start"
    /\ out' = <<>> /\ Wiped
    /\ IF call = "wipe" THEN UNCHANGED active ELSE Release
    /\ kept' = {} /\ missed' = {} /\ lost' = FALSE /\ vod' = FALSE /\ mismatch' = FALSE
    /\ UNCHANGED <<server, status, gen, cancel, finish, live, w, saved, asked, crashes,
                   mingled>>

\* delete_task; call = "closed" says that no job answers to the id any more.
Delete ==
    /\ status' = Gone
    /\ cancel' = TRUE
    /\ gen' = gen + 1
    /\ Asks("delete", IF IsActive(status) THEN "eraseAndRelease" ELSE "erase")
    /\ UNCHANGED <<finish, live, active, disk, hist>>

DeleteErases ==
    /\ call \in {"erase", "eraseAndRelease"}
    /\ call' = "closed"
    /\ IF call = "erase" THEN UNCHANGED active ELSE Release
    /\ out' \in {out, <<>>}
    /\ Wiped
    /\ UNCHANGED <<server, status, gen, cancel, finish, live, w, saved, asked, crashes,
                   hist>>

-----------------------------------------------------------------------------
(* Crash                                                                    *)

\* A task is restored as a recording when it has a checkpoint.
RestoredLive == ckpt # NoFile

\* The process dies, and restore_persisted_tasks builds the job again; a
\* completed task has none.
Crash ==
    /\ crashes < MaxCrashes
    /\ crashes' = crashes + 1
    /\ status' \in saved
    /\ gen' = 0 /\ cancel' = FALSE /\ finish' = FALSE /\ active' = 0
    /\ live' = (RestoredLive /\ status' # "Completed")
    /\ w' = [r \in Runs |-> Idle]
    /\ call' = IF status' \in {"Completed", Gone} THEN "closed" ELSE "none"
    /\ saved' = {status'}
    /\ UNCHANGED <<server, disk, asked, hist>>

-----------------------------------------------------------------------------

\* create_native_manifest_task has inserted the job, to be started or not.
Init ==
    /\ head = 1 /\ ended = FALSE
    /\ \/ status = "Preparing" /\ call = "start"
       \/ status = "Queued" /\ call = "none"
    /\ gen = 0 /\ cancel = FALSE /\ finish = FALSE /\ live = FALSE /\ active = 0
    /\ parts = <<>> /\ ckpt = NoFile /\ temp = NoFile /\ tick = <<>> /\ out = <<>>
    /\ w = [r \in Runs |-> Idle]
    /\ saved = {Gone, "Paused"} /\ asked = 0 /\ crashes = 0
    /\ kept = {} /\ missed = {}
    /\ lost = FALSE /\ mingled = FALSE /\ vod = FALSE /\ mismatch = FALSE

Handler == Start \/ RedownloadWipes \/ DeleteErases

Next ==
    \/ \E r \in Runs : Worker(r)
    \/ Handler
    \/ Pause \/ Finish \/ Resume \/ Redownload \/ Delete
    \/ Crash

Spec == Init /\ [][Next]_vars

\* Threads run and playlist requests time out, but a segment's transfer has no
\* timeout: it is only known to end once the run is stopped.  It is enough that
\* some run moves, since one that was replaced soon ends.
WorkerMoves(r) == Worker(r) /\ (w[r].at = "stage" => Stopped(r))

FairSpec == Spec /\ WF_vars(Handler) /\ WF_vars(\E r \in Runs : WorkerMoves(r))

-----------------------------------------------------------------------------
(* Properties                                                               *)

Releasing == {"wipeAndRelease", "eraseAndRelease"}

JobTypeOK ==
    /\ status \in TaskStates \cup {Gone} /\ gen \in 0 .. MaxGen
    /\ cancel \in BOOLEAN /\ finish \in BOOLEAN /\ live \in BOOLEAN
    /\ active \in 0 .. 1
    /\ call \in {"none", "start", "closed"} \cup Releasing \cup {"wipe", "erase"}
    /\ saved \subseteq TaskStates \cup {Gone}
    /\ asked \in 0 .. MaxRequests /\ crashes \in 0 .. MaxCrashes

FilesTypeOK ==
    /\ head \in 1 .. MaxSeq /\ ended \in BOOLEAN
    /\ DOMAIN parts \subseteq Nat
    /\ \A o \in DOMAIN parts : parts[o] \in Units
    /\ {ckpt, temp} \subseteq Checkpoints \cup {NoFile}
    /\ tick \in Seq(Units) /\ out \in Seq(Units)
    /\ \A r \in Runs : w[r].ck \in Checkpoints /\ w[r].plan \in Seq(Units)
    /\ kept \cup missed \subseteq 1 .. MaxSeq

\* A run has completed the task, and no older one has touched its files.  (After a
\* restart the word of the state file may be older than the files.)
Completed == status = "Completed" /\ call # "closed" /\ ~ mingled

MediaOf(file) == {file[i][2] : i \in {j \in DOMAIN file : file[j][1] = "media"}}

\* The types of the job, and the slot: one download is counted as running exactly
\* while a run that was started has an active status, or a redownload or delete
\* that stopped one has yet to release it; whichever of pause, finish, redownload,
\* delete and the worker's ends came in between.
SlotFollowsStatus ==
    /\ JobTypeOK
    /\ active = (IF (gen > 0 /\ IsActive(status)) \/ call \in Releasing THEN 1 ELSE 0)

\* The files have their types, and a completed recording plays: its segments are
\* in order and none is there twice, and each comes after the initialization of
\* its own map, which is not repeated.  This survives pauses, failures and crashes
\* at any point of a tick, and the loss of the checkpoint.  (Runs that overlap
\* after a redownload share one directory; nothing is claimed once an old one has
\* written to it.)
Playable(file) ==
    /\ \A i, j \in DOMAIN file :
          i < j /\ file[i][1] = "media" /\ file[j][1] = "media" => file[i][2] < file[j][2]
    /\ \A i \in DOMAIN file : file[i][1] = "media" =>
          \E k \in 1 .. i - 1 :
             /\ file[k] = Init_(MapOf(file[i][2]))
             /\ \A m \in k + 1 .. i - 1 : file[m][1] = "media"
    /\ \A i, j \in DOMAIN file :
          i < j /\ file[i][1] = "init" => file[i] # file[j]

CompletedIsPlayable == FilesTypeOK /\ (Completed => Playable(out))

\* Nothing that a checkpoint stood for is missing from the completed file, and
\* nothing between its first and its last segment but what had left the playlist
\* before the recorder asked for it; unless the checkpoint itself was lost, or the
\* task was resumed after the end of the stream.
RecordingIsKept ==
    Completed =>
      /\ \A n \in MediaOf(out), m \in MediaOf(out) :
            n .. m \subseteq MediaOf(out) \cup missed
      /\ ~ lost /\ ~ vod => kept \subseteq MediaOf(out)

\* The same, also for a recording that was resumed after the end of the stream.
CheckpointedIsRecovered ==
    Completed /\ ~ lost => kept \subseteq MediaOf(out)

\* verify_staged_parts refuses a recording only when its checkpoint was lost:
\* parts that a crash or an error left without a checkpoint never add to the
\* size, since the next tick writes over them.
MismatchHasCause == mismatch => lost \/ mingled

\* A run that was stopped and replaced never changes the task: not its status,
\* not its slot, not whether it is a recording.
StaleRunsAreInert ==
    [][\A r \in Runs : w'[r] # w[r] /\ r < gen /\ gen' = gen
                         => UNCHANGED <<status, active, live>>]_vars

\* A pause is never stuck: whatever the run is doing, it ends up Paused, or
\* Failed, or the request of the pause is overtaken.
PausingEnds == status = "Pausing" ~> status # "Pausing"

\* A recording whose end was requested ends, provided segments arrive: nothing
\* can pause it any more.
Staging == \E r \in Runs : w[r].at = "stage"

FinishSettles ==
    []<>(~ Staging) => (finish ~> (~ finish \/ status \in {"Completed", "Failed", Gone}))

=============================================================================

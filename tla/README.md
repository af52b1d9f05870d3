# NOVA Download Manager: verification project

TLA+ models of the download daemon of NOVA (`src/src-tauri/src/daemon`), of the
crates its engines are built from (`src/crates`) and of the hand-off from the browser
extension, with TLC runs on small instances and TLAPS proofs of the properties that
matter most. Definitions keep the names of the functions they model where that reads
well; `PROJECT.json` gives the source lines of each.

## 1. The system

NOVA is a download manager: a daemon (Rust, an HTTP API on the local machine) and
its clients: a Qt desktop, a browser extension, an Android app, a command line. The
daemon owns the tasks. Three engines run them: direct downloads over libcurl, native
media (HLS, DASH, separate tracks) and BitTorrent.

| Component | State it keeps | Operations | Interacts with | What is hard |
|---|---|---|---|---|
| Task lifecycle, `nova-core-model/src/lib.rs`, `daemon/types.rs` | the status of a task | `transition_task_state`, `restart_task_state` | called by every engine under its own lock | a table enforced in dozens of places |
| Direct download runtime, `curl/task_api.rs`, `curl/transfer.rs` | `curl_jobs` (task, token, generation, options), `task_snapshot`, statistics | create, pause, resume, redownload, delete, list; worker; watchdog | queue, persistence, routes | threads share a job through short critical sections; superseded workers live on |
| Single-connection transfer, `run_single_libcurl`, `curl/easy_config.rs` | the part on disk, saved validator and size | preflight, compare, resume or restart, write, validate, retry | HTTP server through libcurl | the server changes at any time; crash between bytes and bookkeeping |
| Segmented transfer, `run_segmented_libcurl`, `direct.rs`, `engine/adaptive/segment_controller.rs` | part files, ranges of the drive loop, segments of the engine | plan, split, rebalance, merge, rebuild, concatenate | adaptive engine | geometry changes under running transfers; the next run trusts part lengths |
| Priority queue, `engine/priority_queue.rs` | entries, `active_downloads`, bandwidth shares | enqueue, start, stop, release, reallocate | runtime, bandwidth manager | a counter shared by tasks, updated from every exit path |
| Background resolver, `routes/downloads.rs` | none of its own | resolve a link, then start the task | runtime | starts a task the user may have paused or deleted |
| Persistence, `persist.rs`, `state.rs` | `downloads-state.json` with `.tmp` and `.bak`, `persist_dirty` | periodic save, `save_now`, load | everything that changes a task | crash and power loss between two system calls, two savers |
| Restore, `daemon/mod.rs` | none | rebuild jobs from the file | persistence | active states become Paused |
| Retry, mirrors, self-healer, policy, `engine/*.rs` | per-task and per-host history | choose delay, mirror, recovery action | retry loop of the runtime | decisions change the plan between two attempts |
| Adaptive connections, orchestrator, scheduler, rules, profiles, caches, event bus | measurements, settings | control loops, matching | runtime | numeric; little shared state |
| Command bus, routes | command log | idempotent commands | runtime | duplicates |
| Native media tasks, `native_media.rs` | `native_media_jobs`, staging directory (ticks, committed parts, checkpoint) | the same requests, plus finish | media crates, HLS or DASH server | a recording that outlives pauses, failures and crashes while the playlist moves on |
| Torrent daemon, `torrent_task.rs`, `torrent_storage.rs`, `torrent_transfer.rs` | `torrent_jobs`, run generation, `active_slot`, seed services | the same requests, plus select, reauthorize, seeding, recheck | storage sessions, peers | every handler takes the lock several times with awaits between |
| `nova-torrent-core/src/storage.rs` | checkpoint, manifest, boundary cache, payload files | allocate, commit a piece, reselect, recheck, pause, delete | torrent daemon | a piece spans files, and payload, cache and checkpoint are separate writes |
| Media, stream and processing crates | none | parse, demux, mux | native media | data transformation |
| Browser extension hand-off, `outbox/`, `bridge/`, `routes/extension.rs` | outbox in IndexedDB, bridge state, pending reviews | capture, claim, send, fall back, retry, dead letter; accept, approve, discard | daemon, native host | the browser ends the worker at any await; a request that timed out may still arrive |
| Mobile core, CLI, native host, desktop, Android | views | requests | daemon's API | not in the daemon |

What makes the parts correct: a task's status follows the lifecycle; one live worker
per task; a slot per running download and none besides; a pause, a delete and a
completion are final for the run they end; an acknowledged save survives; a file never
holds bytes of two representations, and passes for complete only when it is; ranges
cover a file once; a piece that counts as verified is on disk; no file of the user is
touched; a recording has no gap the server did not make; a captured download reaches
the daemon once. The hazards at their lines are in `PROJECT.json` under `hazards`.

## 2. Modules

| Module | Models | State and actions |
|---|---|---|
| `TaskState` | `TaskState` of nova-core-model | the states, `is_active`, the successor and restart tables, as constants |
| `TaskLifecycle` | what every engine promises of the status (abstract) | one variable; create, transition, restart, delete |
| `CurlLifecycle` | the direct download runtime for one task | job, snapshot, queue, workers by generation, watchdogs by generation, callers; one action per critical section, atomic access or snapshot insert |
| `CurlLifecycleProofs`, `PersistStoreProofs`, `ResumeIdentityProofs`, `SegmentedTransferProofs`, `TorrentLifecycleProofs`, `TorrentStorageProofs`, `CaptureHandoffProofs`, `LiveRecordingProofs` | | theorems about the module each is named for |
| `PersistStore` | `persist.rs` | list as a version number, directory, inodes, what has reached the disk, savers; one action per system call |
| `ResumeIdentity` | resume of a single-connection download | server, file as a sequence of (representation, offset), identity in plan, job and state file, response; one action per phase of the run |
| `SegmentedTransfer` | one segmented download over several runs | a byte is its offset, a part file the sequence of offsets it holds; ranges of the drive loop, segments of the engine, handles; planner, write callback, split, rebalance, merge, rebuild, concatenation, pause, failure, crash |
| `TorrentStorage` | the durable state of a torrent and all who write it | files, slices (piece, file), control directory with checkpoint, manifest and cache, sessions with mutex and lease, runs, requests; one action per durable write |
| `TorrentLifecycle` | the torrent task in the daemon | job, tokens, shared slot flag, queue entry, seed services, runs by generation, handlers; one action per critical section or queue operation |
| `CaptureHandoff` | extension outbox, retry worker, bridge and the daemon's reviews | jobs, retry runs, bridge state, late requests, reviews; one action per await |
| `LiveRecording` | a native media task that records a live HLS playlist | server, job, parts, checkpoint and its temporary file, tick directory, output, workers by generation, the request under way; one action per rename or status change |
| `MC...` | | instances for TLC |

`CurlLifecycle` is shown to implement `TaskLifecycle` (`AbstractState` is the
refinement mapping). `ResumeIdentity` and `PersistStore` refine what a run and a save
are in `CurlLifecycle`, each with the rest of the daemon abstracted away: the transfer
is an outcome in `CurlLifecycle`, a save is atomic in `ResumeIdentity`, the list is a
number in `PersistStore`. `SegmentedTransfer` is the other transfer of
`CurlLifecycle`, with one representation at the server, since that question is
`ResumeIdentity`'s. `TorrentLifecycle` and `TorrentStorage` split a torrent task the
same way: in the first the storage only takes time and may fail, in the second the task
is one of five statuses. `LiveRecording` keeps both sides in one module, because a
recording's status and its files are settled by the same worker; of the state file it
keeps the set of statuses a restart may find.

Granularity. A section under the `curl_jobs` lock is one step; the snapshot insert
after it, the release of the slot, each look at the cancellation token, and each
`await` of a request are steps of their own. So every order the code allows is
explored. In `PersistStore` a step is a system call, and a write is two, since a
reader may see the truncated file. In `ResumeIdentity` each `save_now` ends a step.
In `TorrentStorage` a storage operation holds its session's mutex over several steps,
with a crash possible between any two; in `CaptureHandoff` a step ends at each await; in
`LiveRecording` a commit is one step per part, and the checkpoint's unlink and rename are
two.

Abstractions. URLs, names, options, sizes and speeds do not occur in `CurlLifecycle`;
what the wire, the disk and the clock decide there is a nondeterministic outcome
(success, failure, cancelled, timeout). The self-healer, the retry classifier and the
mirror manager decide in `ResumeIdentity` by free choice; a mirror that serves another
representation is a change at the server. In `ResumeIdentity` validators are of one
kind; 304 answers (the code sends no condition that allows one unless the user adds
the header), skipExisting, digests, content encodings and the option removeOnError
are left out.
In `SegmentedTransfer` the engine's measurements are free choices within its other
conditions (minimum sizes, connection limits); in `TorrentStorage` a hash check is the
question whether every slice of the piece is right, and a generation is the run it was
given to. In `CaptureHandoff` a candidate is its idempotency key, and time is two flags of a
job (leased, waiting); batches and re-pairing after a 401 are not told apart from single
jobs and failures. In `LiveRecording` all units have the same size, the case in which
`verify_staged_parts` knows least; the playlist's sequence never resets; one tick
directory stands for all; a crash is a process crash, since parts are not synced; one
client makes the requests one after another.
External, modelled from their use: the file system, the HTTP and HLS servers, the
browser, the native host, and libcurl, which does not hand over the body of a 200 that
answers a range request.

Definitions ending in `_Bug` are plausible bugs of the definition after them;
`PROJECT.json` pairs each with the property that notices it.

## 3. Runs

| Run | Instance | Shows |
|---|---|---|
| `races` | 2 clients, 4 requests of create, pause, resume, delete, resolver, no watchdog | `OwnershipInv` (the inductive invariant of the proof), `PausedUntilRequested` |
| `watchdog` | 1 client, 2 requests of create, pause, redownload, delete, watchdog, no other slots | `TypeOK`, `UncancelledWorkerOwnsTask`, `FailedHasReason`, `RefinesLifecycle` |
| `slots` | 1 client, 2 requests of all kinds, 2 attempts | `SlotsMatchStatus` |
| `live` | 1 client, 3 requests, 2 attempts, fair | `WorkersEnd`, `RequestsReturn` |
| `persist` | periodic saver, 2 changes, 2 I/O errors (fsync too), refused renames, 2 crashes or power losses, fair | `TypeOK`, `AckedSurvives`, `CleanMeansSaved`, `EverySaved` |
| `resume` | 3 representations of 2, 2 and 3 bytes, 2 changes, 2 runs of up to 3 attempts, 1 crash, 4 environments | `TypeOK`, `TrustedNeverMixed`, `TrustedAcceptsWhole`, `ValidatorSavedFirst` |
| `segments` | 10 bytes, 2 connections of at most 3, 2 decisions of the engine, 2 runs | `GeometryCovers`, `OwnPartsMergeWhole`, `AdoptionHasCause` |
| `reshape` | 6 bytes, 2 or 3 connections, 1 decision, 2 runs | violated: `ResumedOutputIsWhole` |
| `pieces` | 2 files, 2 pieces (one in both files), files of the user, 2 runs, 1 request, 1 crash | `VerifiedIsOnDisk`, `PausedIsQuiet`, `CompletedIsWhole`, `UserFilesUntouched` |
| `torrent` | 2 handlers and the one that made the job, 2 requests, 3 runs, 1 other slot, fair | `ActiveHasRun`, `SlotFollowsRun`, `LifecycleRespected`, `StaleRunsAreInert`, `PausingEnds`, `SlotComesBack`, `SeedingEnds` |
| `handoff` | 2 captures (one refused by the daemon), 2 retry runs to keep apart, 2 attempts, 1 kill, 1 late request, 1 daemon stop, 1 approval, fair | `SentWasAccepted`, `RetriesAreDeduplicated`, `SentIsFinal`, `EveryJobSettles` |
| `recording` | 3 segments, window 2, map change at 3, 2 requests, 1 crash, at most one old run | `SlotFollowsStatus`, `CompletedIsPlayable`, `RecordingIsKept`, `MismatchHasCause`, `StaleRunsAreInert` |

The first invariant of `segments`, `pieces`, `torrent` and `handoff` includes its module's
`TypeOK`; in `recording` the types of the job are in `SlotFollowsStatus` and those of the
files in `CompletedIsPlayable`.

Bounds. `MaxCalls` bounds the requests, `MaxGen` follows from it and never blocks
(`CurlAssumption` requires more than two generations per request). Two concurrent
requests and the resolver are enough for every pair of handlers to overlap; one task is
enough because tasks share only the slot count, for which `OtherSlots` stands. One
other slot is what a release too many would take; zero is where the counter saturates.
Two changes and two faults let a failed save be followed by a change and a good save
(with three changes 1,025,557 states pass as well); four inodes are the state, its two
siblings and a new file. Two representations of the same length and one longer let the
size betray a change or not; two bytes are a part and a rest. The environments of
`resume` say what may go wrong at the server and with the user: a 206 although If-Range
does not match ("rude"), for a resumable task and for one that is not ("whole"); preflights
and 206 answers that identify nothing ("silent", "terse"), with a new URL in between; and
old representations that come back ("revert"). Three attempts let an attempt resume,
restart and resume again (3,368,647 states). Symmetry is over clients (`races`) and inodes, which no definition tells
apart; no liveness run uses it.

Ten bytes in blocks of four and two decisions let a range be split and then shifted or
merged while another is half written. A piece in one file and a piece in two files are
all the ways a piece meets a selection of two files; two runs are an old one winding
down and its successor, and `pieces` has also been run with two requests and two
sessions (7 million states). Three runs and two requests beside the creating handler
let two handlers overlap a stale run (three requests: 406,980 states). An outbox of one
job is full at the second capture; a second run that `SingleFlight` has to hold back, one
kill and one late request make every lease question arise (a larger safety instance: 9,498,636 states). Three
segments with a window of two let a refresh select none, some or all of the playlist
and let the map change inside a tick or between ticks. A segment can leave the playlist
unrecorded only from the fourth on: that instance (`MaxSeq = 4`, 730,397 states) passes
too, but takes longer. `OneOldRun` cuts the search where an old run has written to the
new run's files, since no property speaks of those, and where more than one old run is
alive; without the second part 1.8 million states pass.

A resume or the resolver beside a watchdog
is left to the proofs, which cover all of them together.

Deadlock is not checked: a task at rest with no request left, a clean list, and an
accepted file are ends the system really has.

Fairness. In `live` and `pause`: threads that run are scheduled, a request that has
begun gets on, the resolver gives its answer (its probes have timeouts). A transfer
attempt ends, by strong fairness, because libcurl has a stall timer and the loop polls the
token; progress reports may precede. No request is owed, and no watchdog verdict. In
`persist`: the loop wakes up, a thread in a system call returns; errors and crashes are
bounded, so an error that never goes away is not claimed to be survived. In `torrent`:
each handler that has begun gets on; each run gets on, because the payload is finite and
peers and trackers have timeouts; the watch on the seed policy is a five-second timer.
No request is owed. In `handoff`: the one-minute alarm starts runs, every request of a
run is answered or times out after ten seconds, leases and waits lapse; kills and daemon
stops are bounded. In `settles` (below): a handler gets on and so does some worker; a
playlist request has a timeout, but the transfer of a segment has only a connect timeout
(`nova-download-core/src/lib.rs:964`) and is known to end only once the run is stopped,
so `FinishSettles` assumes that segments arrive again and again.

### What the violated properties say

`reshape` is a run of the project. The other configurations below are kept to reproduce
what is said here; each is run by hand with the module's `MC` module.

- `SegmentedTransfer_reshape` (`ResumedOutputIsWhole`): a run plans fresh ranges for its
  own number of connections (the self-healer halves it, `transfer.rs:2839`, and
  `bandwidth_aware_connections` changes it) and takes the length of each part file as the
  progress of its range, although the part was written from another start. The gate
  before the merge passes and the bytes are wrong.
- `CurlLifecycle_pause` (`PauseSettles`): `mark_curl_task_finished` gives up silently when
  the lifecycle refuses Verifying, Finalizing or Completed. A pause during that phase
  leaves the task in Pausing with its slot taken; `resume_task` then times out each time.
- `CurlLifecycle_double` (`SlotsMatchStatus`): worker and watchdog of one run both fail it.
  The second Failed is a legal self-transition, so `stop_download` runs twice and another
  task loses its slot.
- `CurlLifecycle_ghost` (`DeletedTaskIsGone`): the snapshot insert of
  `transition_runtime_task_state` comes after the lock is released and revives a task
  deleted in between.
- `PersistStore_resurrect` (`AckedSurvives`): the savers share one `.tmp`.
- `ResumeIdentity_anonymous` (`CheckedPartIsSame`): a single-file part without validator is
  bound to the validator the next preflight learns; segment parts are discarded in that
  case, this part is not.
- `TorrentStorage_restored` (`RestoredIsWhole`): a crash in the middle of
  `delete_owned_payload_and_state` leaves checkpoint and boundary cache. The resume
  recreates the removed file sparse and verifies the boundary piece from its cache alone
  (`storage.rs:562`, `690`), so that a restored completed task stays Completed with bytes
  missing. `docs/architecture/NATIVE_TORRENT_CORE.md:156` says that these are rechecked "instead of
  trusting a historical completed flag".
- `TorrentStorage_alloc` (`ResumeKnowsItsFiles`): a crash between `create_new` and the save
  of the ownership bit (`storage.rs:906`) makes `resume` take NOVA's own file for a user's
  and answer ExistingTarget; compare the comment at `storage.rs:84`.
- `CaptureHandoff_offline` (`UnreachableIsRetried`): while the daemon cannot be reached
  `ensureReadyToSend` throws a plain Error (`bridge-manager.ts:415`), which counts as not
  retryable, so the retry worker writes a dead letter at the first attempt;
  `requeueDeadLetter` has no caller. `docs/extension/README.md:22` says that a captured
  item "can be retried after the desktop application becomes reachable".
- `LiveRecording_ended` (`CheckpointedIsRecovered`): a recording that is resumed after the
  server has added `#EXT-X-ENDLIST` is staged like a finished video (`native_media.rs:1901`):
  the output is what the playlist still lists, the committed parts are ignored, and the
  staging directory is removed. `docs/architecture/NATIVE_MEDIA_CORE.md:118` promises
  "pause/resume checkpoints, committed-part recovery".

`LiveRecording_settles` is the liveness of a recording (`PausingEnds`, `FinishSettles`):
3 requests other than redownload, 1 crash, 79,261 states, no violation. With redownloads
old runs pile up and the graph is too large for more than one request (20,388 states,
which pass).

Seen while modelling, and kept without a run of their own:

- A worker superseded by a redownload may still pass one `transition_runtime_task_state`
  and move the status of the new run: the function takes no generation. It is
  cancelled, so `UncancelledWorkerOwnsTask` holds.
- A delete between the insert of a created task and its start sees Preparing, an active
  status, and releases a slot that was not taken (`task_api.rs:871`). `slots` has one
  client, and a create starts its task before the next request.
- `register_task_with_engine` enqueues after the start: a run that fails at once leaves
  an entry behind (`downloads.rs:525`).
- With two savers an older snapshot can be renamed over a newer one (`persist.rs:449`).
- `save` acknowledges although an fsync failed (`persist.rs:439`). `AckedSurvives` excuses
  exactly the power loss that follows such a failure.
- With a watchdog `PausedUntilRequested` fails: a paused task can be failed by the
  worker or watchdog of the run that was just paused. `races` has no watchdog.
- The watchdog thread ends for good when its first poll finds another status than
  downloading, so a probe of more than three seconds goes unwatched.
- After a restart inside an attempt, the retry loop keeps the old validator and size:
  the finished file is measured against the old size and the run fails. With a server
  that takes an old representation back, the old validator even lets bytes mix: this is why
  `TrustedNeverMixed` leaves "revert" out.
- Without a part on disk identities are not compared: a file that has grown since its
  size was saved fails the size validation in every run.
- `update_task_metadata` clears the validators but keeps the part.
- A new identity is adopted in two saves, the validator before the size
  (`transfer.rs:849`). After a crash between them and a part written under the new
  validator, the stale size makes the next run see a conflict or reject a 206; if that 206
  carries no validator, `adopt_remote_fingerprint` clears the saved one, and the bytes that
  follow are bound to whatever the next preflight shows. It takes a server that leaves the
  validator out ("terse"), and is why `Trusted` asks for one.
- A task that is not resumable, may not overwrite, and was cut off when the file had the
  size of the plan but not its content, falls through the test in front of the transfer:
  `transfer.rs:1083` expects that the server then answers 416, but a plan that is not resumable
  sends no range, so a 200 is appended. The file is too long and is never accepted
  (`AcceptedFileIsWhole`), but it is not the loud failure the comment speaks of.
- Segments: a merge frees the highest id and leaves its part file; the next split reuses
  the id and trusts the orphaned bytes. `collect_multi_errors` (`multi.rs:118`) reads tokens
  1 to n although a rebuild adds handles with later tokens. Orphaned parts are never removed.
  `AdoptionHasCause` shows that a merge or a changed plan is the only way to a foreign part.
- Torrent storage: the late `pause` of an old run's coordinator cancels the lease of a newer
  run; a delete leaves the lease valid, and a later `pause` re-creates the control directory,
  so that adding the torrent again is refused; a late `begin_run` of a replaced session
  overwrites the new checkpoint; a redownload racing a resumed run can show Completed with
  empty files for a moment; a user's file put in place of one NOVA made is adopted.
- Torrent tasks: a resume before the old worker has let go, or a redownload, leaks a slot
  (this is what `overtaken` excuses in `SlotFollowsRun`); a pause during discovery, or just
  before Downloading or Verifying, can end in Failed; a redownload of an inactive task that
  races a resume replaces the run's token without cancelling it; the seed timer of a completed
  run does not look at the generation; a policy update during a pause starts the seed
  services again (`SeedingEnds` shows that they stop).
- Hand-off: a failed approval puts its review back beside one that a retry has queued; a retry
  after the approval makes a second review; reviews are in memory only; `addIfAbsent` looks at
  the first job of a key, so a dead letter hides a live one; each kill while sending adds an
  attempt beyond the maximum; `releaseLease` has no caller.
- Recordings: `write_live_checkpoint` unlinks before it renames (`native_media.rs:3921`), so a
  crash or an error between the two loses the cursor, the run starts again at order 0, and
  after a restart the task is no longer known as live. If the first tick fails while it commits
  and the next plan is shorter, the tail of the first stays behind and the finish fails with
  a size mismatch (`MismatchHasCause` shows that this needs a lost checkpoint or foreign
  writes). A completion is only marked dirty and the staging directory removed at once: a
  crash before the next save restores the task as Paused, and a resume records afresh over
  the finished file. A redownload does not wait for the old worker, which may still write
  parts, a checkpoint or the output, or remove the new staging directory when it completes.
  A pause between the insert of a created task and its start leaves Pausing with no worker.
  `stage_hls_live_pair_stream` does not drop repeated initializations of the audio track.

## 4. Proofs

Each theorem holds for every value of the constants, from the named ASSUME of its module
alone, except where the table says more.

| Theorem | Module | Statement |
|---|---|---|
| `TypeCorrect` | `CurlLifecycleProofs` | `Spec => []TypeOK` |
| `FailureExplained` | `CurlLifecycleProofs` | `Spec => []FailedHasReason` |
| `Refinement` | `CurlLifecycleProofs` | `Spec => RefinesLifecycle` |
| `Ownership`, `OwnershipInductive` | `CurlLifecycleProofs` | `Spec => []UncancelledWorkerOwnsTask`, `Spec => []OwnershipInv` |
| `PauseIsFinal` | `CurlLifecycleProofs` | `~Watchdog` implies `Spec => PausedUntilRequested` |
| `SlotsBalance` | `CurlLifecycleProofs` | `OneAtATime` implies `Spec => []SlotsMatchStatus` |
| `PersistTypeCorrect` | `PersistStoreProofs` | `Spec => []TypeOK` |
| `AckedIsDurable` | `PersistStoreProofs` | `OneSaver` implies `Spec => []AckedSurvives` |
| `CleanIsSaved` | `PersistStoreProofs` | `OneSaver` implies `Spec => []CleanMeansSaved` |
| `ResumeTypeCorrect` | `ResumeIdentityProofs` | `Spec => []TypeOK` |
| `ResumeValidatorIsSaved` | `ResumeIdentityProofs` | `Spec => []ValidatorSavedFirst` |
| `ResumedFileIsOneRepresentation` | `ResumeIdentityProofs` | `Spec => []TrustedNeverMixed` |
| `AcceptedFileIsWhole` | `ResumeIdentityProofs` | `Spec => []TrustedAcceptsWhole` |
| `Geometry` | `SegmentedTransferProofs` | `Spec => []GeometryCovers` |
| `OwnParts` | `SegmentedTransferProofs` | `Spec => []OwnPartsMergeWhole` |
| `AdoptionCause` | `SegmentedTransferProofs` | `Spec => []AdoptionHasCause` |
| `ActiveTorrentHasRun` | `TorrentLifecycleProofs` | `Spec => []ActiveHasRun` |
| `TorrentSlotFollowsRun` | `TorrentLifecycleProofs` | `Spec => []SlotFollowsRun` |
| `TorrentLifecycleRespected` | `TorrentLifecycleProofs` | `Spec => LifecycleRespected` |
| `StaleTorrentRunsAreInert` | `TorrentLifecycleProofs` | `Spec => StaleRunsAreInert` |
| `UserFilesAreSafe` | `TorrentStorageProofs` | `Spec => UserFilesUntouched` |
| `PausedStorageIsQuiet` | `TorrentStorageProofs` | `Spec => []PausedIsQuiet` |
| `VerifiedOnDisk` | `TorrentStorageProofs` | `Spec => []VerifiedIsOnDisk` |
| `CompletedWhole` | `TorrentStorageProofs` | `Spec => CompletedIsWhole` |
| `CaptureSentWasAccepted` | `CaptureHandoffProofs` | `Spec => []SentWasAccepted` |
| `CaptureRetriesAreDeduplicated` | `CaptureHandoffProofs` | `Spec => []RetriesAreDeduplicated` |
| `CaptureSentIsFinal` | `CaptureHandoffProofs` | `Spec => SentIsFinal` |
| `RecordingSlotFollowsStatus` | `LiveRecordingProofs` | `Spec => []SlotFollowsStatus` |
| `StaleRecordingRunsAreInert` | `LiveRecordingProofs` | `Spec => StaleRunsAreInert` |
| `RecordingPlays` | `LiveRecordingProofs` | `Spec => []CompletedIsPlayable` |
| `RecordingKept` | `LiveRecordingProofs` | `Spec => []RecordingIsKept` |
| `MismatchExplained` | `LiveRecordingProofs` | `Spec => []MismatchHasCause` |

**Direct runtime.** `TypeCorrect` is proved by groups of variables, one lemma each.
`FailedHasReason` is inductive: `JobSteps` reduces a step to the actions that touch the
job, and each one that sets Failed sets the message. `Refinement` uses types and
`JobSteps`: a step either leaves the job alone, or changes the status by an accepted
transition, a restart, a create or a delete; that the two instances of the table agree is
a lemma. `UncancelledWorkerOwnsTask` is not inductive: a caller between the two halves of
`start_curl_process` has taken a generation that has no worker yet, and spawns it
later. `OwnershipInv` adds that such a generation is nobody else's and is the job's
unless cancelled (`SpawnOwns`), that no worker is ahead of `run_generation`
(`WorkersArePast`), so that a new generation is fresh, and that a watchdog sets the
token before it forces a status (`ForcedIsCancelled`), so that the status leaves the
active ones only under a cancelled worker. `races` checks the same invariant.

`PauseIsFinal` and `SlotsBalance` rest on it. `ActiveInv` says that a worker of the current
generation, or one about to be spawned, has an active task before it: `mark_curl_task_failed`,
the one worker step that could leave Paused, is therefore refused there. A watchdog breaks
this (it fails the task under a live worker), hence `~Watchdog`. `SlotInv` is the account behind
`SlotsMatchStatus`: `active` is the slots of the other tasks, one for each run that has
recorded its outcome and not yet released, one for an active task whose run is spawned,
and one that a redownload or a delete has taken over and still owes. Its hypothesis
`OneAtATime` is that of the `slots` run: one request at a time, no watchdog, no resolver. Each
part is needed: with two clients, a resolver or a watchdog TLC finds the property violated
on small instances (section 3 and the `double` run), because a status that becomes active
before its slot is taken, or is failed twice, upsets the account.

**Persistence.** An acknowledged version must be found whatever survives, so
`SaveInv` speaks of both directories, the one processes see and the one a power loss leaves
(`Durable`): in each, a state file is on a synced inode and not older than the acknowledged
version, where there is none the `.bak` is, and the `.tmp` is not older if it parses. That is not
inductive without what the saver is about to do: `ByNow` says for each position of `save`
which of the three files is already good, and `Apart` that no other name leads to the
temporary file, which the next save truncates. `OneSaver` (the periodic loop and no caller of
`save_now` beside it) is a real restriction: with two savers `Apart` fails, because both
use one `.tmp`, and `PersistStore_resurrect` shows that the property then fails too.
`PersistTypeCorrect` needs no such hypothesis: torn files are never taken for a list.

**Resume.** `TrustedNeverMixed` compares bytes, and the code compares validators and
sizes. The bridge is an order: where the server takes nothing back, representations can be
numbered in the order they appear. `Ordered` says that no validator the daemon holds is newer
than the bytes on disk, and those not newer than a response; the checks in front of the
first byte make the validator of the plan that of the response, so all three
are the same. The argument needs that bytes never stand without a saved validator
(`Bound`), which in turn needs `ResponseInv` (what If-Range lets a server answer) and
`SavedInv`: a validator that is not the saved one is `Superseded`, older than the server's or
paired with the size of another, and so cannot pass the checks. `Restarted` says that only
an empty file is continued without a range. `WholeInv` is the other case, a task that may
not resume: its plan never changes, and a file is either the beginning of the response
or already longer than the plan's size, which `validate_transfer_size` refuses.

**Segmented transfer.** The ends of the engine's segments are exclusive, those of the
ranges inclusive, and a rebuild turns the one into the other; `Tiles` and `Covers` say of
each that ids are distinct, that none is empty, that no two overlap and that no byte is
left out. `TilesInv` says both hold whenever a run is under way. The planner's blocks cover
the file by arithmetic (`PlanCovers`). A split and a rebalance replace two neighbouring
segments by others with the same outer ends, which `CutTiles` and `CutBetween` prove once, and
a merge joins two (`JoinTiles`); the vector a rebuild reads is a permutation sorted by start
(`SortedPermutes`), and in a tiling nothing is left out as empty (`NonEmptyIsAll`). `OwnInv` says
that, until a range is given another one's part, each part file holds the beginning of its own
range, so that parts of full length concatenated by start are the file. `FirstInv` keeps what
`AdoptionHasCause` needs: during the first run, before any merge, an id stands for the
start it was first given, so a part can only be its own.

**Torrent tasks.** `RunInv` (generations are numbered in order, an active status has the
run of its generation behind it, a handler between the two halves of a start owns its run)
carries three of the four theorems. `SlotInv` relates the shared flag to the run that
occupies, while no run has been overtaken.

**Torrent storage.** `UserInv` says that no session, and no checkpoint on disk, owns a file
of the user, and that a session selects one only while it is being prepared and still has
it to look at: a path is owned only once NOVA has made it, and a commit writes the selected
files of a session whose preparation is over. That a commit cannot meet a preparation is
`SessionInv`: a session is created in one place that nobody else can name yet, opened before
anybody holds a lease on it, and the request that asked for an operation waits for it. The same
invariant carries `QuietInv`: a paused session has no generation that a lease could match,
and stays so until `begin_run`. `StepKeepsSessions` proves `SessionInv` once for every
step of a stated shape, and each of the 40 actions other than the crash is shown to have
that shape. 
`DiskInv` is the invariant behind `VerifiedIsOnDisk`. A deletion may remove a file that
some checkpoint still speaks of, so what was removed is remembered twice: ever (`removed`), and
since the session of the task was last rechecked (`gone`). `Backed` says of every
checkpoint, on disk or in a session, also of one that was replaced, that its pieces were
written, or a file of theirs was once removed: a commit writes the selected slices
before it sets the bit, under the mutex (`Writes`), a selection clears the bits of the
pieces it changes before it saves (`Reselects`), and a load claims what some save had.
`Claims` is stronger for the session of the task while its run is past its recheck: there a piece in
one file, which the recheck has read, can only be missing from a file removed since. A boundary piece is
verified from its cache, so for it the weaker statement is all that is true. `DiskStep` is the shape of a step
that keeps this, and each action is shown to have it; the recheck and the crash are argued on their own.
`CompletedIsWhole` follows because only the finalization of the task's own run completes it
(`OnlyFinalizeCompletes`).
All of it holds for any layout of pieces over files and any number of sessions,
runs, concurrent requests and crashes, where the `pieces` run has one request handler.

**Hand-off.** `OutboxInv` gives each job its bounds and says that a sent one was taken by
the daemon; `RunsInv` says that at most one run is under way and that its copies agree with
the outbox: the job it works on is still "sending", with the same count, and those it has
claimed are unsettled. That is what keeps a slow run from writing over a sent job. The
attempts may exceed the maximum by one for each kill of the worker, and the
invariant says so. `ReviewsInv` needs that late requests are requests of jobs.

**Recordings.** `JobInv` adds to `SlotFollowsStatus` that the run of the job is where its
status says, that generations are given out in order, and that a request which has stopped a
run has taken the active status from it. The properties of the files speak of a completed
task; `FilesInv` says what stands behind them at every step before. `Sound` is said of a
checkpoint with its parts, and of a run with its parts and the units it has still to commit:
put in a line, they are a file that plays up to the cursor (`Formed`), without a gap the server
did not make (`Gapless`), whose last initialization is the checkpoint's (`EndsWith`) and which
holds what it owes (`Keeps`). A refresh puts a plan behind such a line (`PlanFollows`,
`JoinForms`, `JoinIsGapless`), a commit moves a unit from the plan to the parts and leaves the
line as it is (`SoundCommits`), a rename makes the run's line the checkpoint's. Formedness alone
would not give `MismatchHasCause`: a run that is broken off leaves parts above the
checkpoint's order, and the size check counts them. `Span` is the length of the plan that a
refresh from the checkpoint would have now; it never shrinks, although
segments drop out of the playlist (`SpanGrows`), and the parts above the order never exceed it, so that the
next tick writes over them all. Between unlink and rename no checkpoint is on disk; then the
run alone vouches for the parts (`Placed`), and if it dies there the next one finds the
checkpoint lost. Everything is said while no replaced run has touched the files, as in the
properties; `WipeInv` says that when a redownload or delete removes them, nobody of the new
generation has begun.

Each of these inductive invariants was also checked by TLC on its run's instance before it
was proved. What the proofs corrected: in `ResumeIdentity`, that the self-healer
(`decide_recovery`, `policy_engine.rs:360`) never keeps a plan once it has restarted the
download, and counts failures only of tasks that were segmented (with a free choice
the validator invariant has a counterexample TLC's instance was too small for), and that a
206 may lack its validator; in `TorrentLifecycle`, a type clause that held vacuously
by operator precedence, and that an active status needs a *live* run. In `TorrentStorage`
`VerifiedIsOnDisk` used to excuse single slices until they were written or read again. The
attempt to prove it showed that this is false for larger constants than those of `pieces`: with
two request threads, five requests and three sessions, the checkpoint of a session that was replaced is
saved over its successor's, a crash follows, and the run that loads it claims a
boundary slice whose excuse the successor's recheck had ended. The statement now excuses files
and not slices, covers every checkpoint, and no longer asks for a current lease. `SegmentedTransfer`
and `LiveRecording` were rewritten where they could not be reasoned about (`NonEmpty`,
`Rebuild` and `Plan` without recursion); what they compute is the same, with the same state
counts.

Only model-checked:

- liveness (`WorkersEnd`, `RequestsReturn`, `EverySaved`, `PausingEnds`, `SlotComesBack`,
  `SeedingEnds`, `EveryJobSettles`), out of the prover's reach;
- `AckedSurvives` and `CleanMeansSaved` with several savers, where the first is false.

## 5. Plan

Done: the direct runtime, persistence, resume identity, segmented
transfer, torrent storage and torrent tasks, capture hand-off, live recording of one
HLS playlist, each with the proofs of section 4. Left, in this order:

1. Live DASH and paired tracks, whose checkpoints hold one cursor per track.
2. Priority queue with several tasks: admission, shares, sort order, slot count.
3. Range planner, identity comparison and resume planner of nova-core-model, as pure
   operators against reference definitions over bounded inputs.
4. Command bus: a command is applied once, whatever is repeated.

## 6. Not modelled

Media containers, manifests, bencode and other parsers, TLS, DNS pinning, cookies,
credentials and external tools are data transformation or platform I/O. Adaptive
connections, bandwidth shares and scores are numeric control over measurements, which
no property here depends on. The user interfaces reach the daemon through the requests
that are modelled. Vendored code is left aside. Most of the repository's lines are of these
kinds (container readers and writers, the mobile bridge, resource intelligence,
user interfaces), so the mapped share of the lines stays small although the parts that
keep state under concurrency and failure are modelled. `PROJECT.json` lists every component
with its status and reason.

## 7. Running

    tlc -workers 2 -config CurlLifecycle_races.cfg MCCurlLifecycle
    tlc -workers 2 -config PersistStore_persist.cfg MCPersistStore
    tlc -workers 2 -config ResumeIdentity_resume.cfg MCResumeIdentity
    tlc -workers 2 -config SegmentedTransfer_segments.cfg MCSegmentedTransfer
    tlc -workers 2 -config TorrentStorage_pieces.cfg MCTorrentStorage
    tlc -workers 2 -config TorrentLifecycle_torrent.cfg MCTorrentLifecycle
    tlc -workers 2 -config CaptureHandoff_handoff.cfg MCCaptureHandoff
    tlc -workers 2 -config LiveRecording_recording.cfg MCLiveRecording

Proofs, each module on its own; `TorrentStorageProofs` takes about
six minutes, `LiveRecordingProofs` five, `SegmentedTransferProofs` two, the others less:

    for m in *Proofs.tla; do tlapm $m; done

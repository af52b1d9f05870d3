------------------------ MODULE LiveRecordingProofs ------------------------
(***************************************************************************)
(* A live recording under any number of requests and crashes.  First the    *)
(* job: its slot follows its status, and a run that was replaced is inert.  *)
(* Then the files: a completed recording plays, it has all that a           *)
(* checkpoint stood for, and its size is refused for one reason only.       *)
(*                                                                          *)
(* The order of the second part: what a plan is and what it does to a file  *)
(* that it extends; what a checkpoint with its parts stands for (Sound) and *)
(* how far a tick can write above it (Span); the parts in order; the types; *)
(* the invariant FilesInv; the steps of the run that owns the task, one     *)
(* lemma each; the steps of the others.                                     *)
(***************************************************************************)
EXTENDS LiveRecording, TLAPS, FiniteSetTheorems, SequenceTheorems

-----------------------------------------------------------------------------
(* The inductive invariant                                                  *)

\* The run has a say: it is somewhere between its spawn and its end.
Running(r) == w[r].at \notin {"none", "sweep"}

\* A start is still to come of the request under way.
Starting == call \in {"start", "wipe", "wipeAndRelease"}

\* Workers are records of the table of runs.
Table == DOMAIN w = Runs /\ \A r \in Runs : "at" \in DOMAIN w[r]

RunsInStep ==
    /\ Table
    \* Generations are given out in order, at most two for each request.
    /\ gen + (IF Starting THEN 1 ELSE 0) <= 1 + 2 * asked
    /\ \A r \in Runs : r > gen => w[r].at = "none"
    \* The run of the generation keeps the status active until its last act.
    /\ \A r \in Runs : r = gen /\ Running(r) => IsActive(status)
    \* Before its first run only a task about to be started looks active.
    /\ gen = 0 /\ IsActive(status) => status = "Preparing" /\ call = "start"
    \* A request that has stopped a run has taken the active status from it.
    /\ call \in Releasing => ~ IsActive(status)
    \* No restart makes a task active.
    /\ saved \cap ActiveStates = {}

JobInv == SlotFollowsStatus /\ RunsInStep

LEMMA Bounds ==
    /\ MaxRequests \in Nat /\ MaxCrashes \in Nat
    /\ MaxGen \in Nat /\ MaxGen = 1 + 2 * MaxRequests
  BY RecordingAssumption DEF MaxGen

-----------------------------------------------------------------------------
(* A step of a worker                                                       *)

\* The table changes at r only.
OnlyMoves(r) ==
    /\ Table'
    /\ \A o \in Runs : o # r => w'[o] = w[o]

\* What a step of r may do to the job.  Only the run of the generation does
\* anything: it goes on, it learns that it records, or it ends.
Outcome(r) ==
    \/ UNCHANGED <<status, active, live>>
    \/ gen = r /\ Running(r) /\ IsActive(status') /\ UNCHANGED <<active, live>>
    \/ gen = r /\ live' = TRUE /\ UNCHANGED <<status, active>>
    \/ /\ gen = r /\ Running(r) /\ ~ Running(r)'
       /\ status' \in {"Paused", "Failed", "Completed"}
       /\ active' = 0 /\ UNCHANGED live

Effect(r) ==
    /\ OnlyMoves(r)
    /\ UNCHANGED <<gen, cancel, finish>>
    /\ w[r].at # "none"
    /\ Running(r)' => Running(r)
    /\ Outcome(r)

LEMMA AtMoves ==
    ASSUME Table, NEW r \in Runs, NEW where, At(r, where)
    PROVE  OnlyMoves(r) /\ w'[r].at = where
  BY DEF Table, At, OnlyMoves

LEMMA OverMoves ==
    ASSUME Table, NEW r \in Runs, Over(r)
    PROVE  OnlyMoves(r) /\ w'[r].at = "none"
  BY DEF Table, Over, Idle, OnlyMoves

\* Every active state may end as Paused.
LEMMA ActiveEnds ==
    ASSUME IsActive(status) PROVE Settled = "Paused"
  BY DEF IsActive, ActiveStates, Settled, CanTransition, Successors

LEMMA ReleaseEmpties ==
    ASSUME JobInv, Release PROVE active' = 0
  BY DEF JobInv, SlotFollowsStatus, JobTypeOK, Release

LEMMA FailEffect ==
    ASSUME JobInv, NEW r \in Runs, Fail(r), w[r].at \notin {"none", "sweep"}
    PROVE  Effect(r)
<1>1. OnlyMoves(r) /\ w'[r].at = "none"
  BY OverMoves DEF JobInv, RunsInStep, Fail
<1> QED
  BY <1>1, ReleaseEmpties DEF Fail, Owns, Effect, Outcome, Running

LEMMA HaltEffect ==
    ASSUME JobInv, NEW r \in Runs, NEW where, At(r, where), UNCHANGED job,
           w[r].at \notin {"none", "sweep"}
    PROVE  Effect(r)
<1>1. OnlyMoves(r)
  BY AtMoves DEF JobInv, RunsInStep
<1> QED
  BY <1>1 DEF Effect, Outcome, Running, job

LEMMA BrokenEffect ==
    ASSUME JobInv, NEW r \in Runs, Broken(r), w[r].at \notin {"none", "sweep"}
    PROVE  Effect(r)
  BY FailEffect, HaltEffect DEF Broken

LEMMA AdvanceEffect ==
    ASSUME JobInv, NEW r \in Runs, NEW next \in ActiveStates, NEW then,
           Advance(r, next, then), w[r].at \notin {"none", "sweep"}
    PROVE  Effect(r)
<1>1. OnlyMoves(r)
  BY AtMoves DEF JobInv, RunsInStep, Advance
<1> QED
  BY <1>1 DEF Advance, Transition, Effect, Outcome, Running, IsActive

LEMMA RefreshMoves ==
    ASSUME Table, NEW r \in Runs, NEW ck, Refresh(r, ck)
    PROVE  OnlyMoves(r)
<1> DEFINE plan == Plan(Selected(ck.cursor, First(head')), head', ck.init)
           new == [at |-> IF plan = <<>> THEN "save" ELSE "stage",
                   ck |-> [ck EXCEPT !.cursor = head' + 1], plan |-> plan,
                   end |-> ended', vod |-> FALSE]
<1>1. w' = [w EXCEPT ![r] = new]
  BY DEF Refresh
<1>2. "at" \in DOMAIN new
  OBVIOUS
<1> HIDE DEF new
<1> QED
  BY <1>1, <1>2 DEF Table, OnlyMoves

LEMMA FetchEffect ==
    ASSUME JobInv, NEW r \in Runs, WorkerFetches(r)
    PROVE  Effect(r)
<1>0. Table /\ w[r].at = "fetch" /\ live \in BOOLEAN
  BY DEF WorkerFetches, JobInv, RunsInStep, SlotFollowsStatus, JobTypeOK
<1>1. CASE Broken(r)
  BY <1>0, <1>1, BrokenEffect
<1>2. CASE /\ w' = [w EXCEPT ![r] = [Idle EXCEPT !.at = "stage", !.vod = TRUE,
                                         !.plan = Plan(First(head'), head', 0)]]
           /\ UNCHANGED <<job, hist>>
  <2> DEFINE new == [Idle EXCEPT !.at = "stage", !.vod = TRUE,
                                 !.plan = Plan(First(head'), head', 0)]
  <2>1. "at" \in DOMAIN new
    BY DEF Idle
  <2>2. w' = [w EXCEPT ![r] = new]
    BY <1>2
  <2> HIDE DEF new
  <2>3. OnlyMoves(r)
    BY <1>0, <2>1, <2>2 DEF Table, OnlyMoves
  <2> QED
    BY <1>0, <1>2, <2>3 DEF Effect, Outcome, Running, job
<1>3. CASE /\ live' = (live \/ Owns(r))
           /\ \/ At(r, "preview")
              \/ Refresh(r, ReadCheckpoint)
           /\ UNCHANGED <<status, gen, cancel, finish, active>>
  <2>1. OnlyMoves(r)
    BY <1>0, <1>3, AtMoves, RefreshMoves
  <2>2. (live' = TRUE /\ gen = r) \/ live' = live
    BY <1>0, <1>3 DEF Owns
  <2> QED
    BY <1>0, <1>3, <2>1, <2>2 DEF Effect, Outcome, Running
<1> QED
  BY <1>1, <1>2, <1>3 DEF WorkerFetches

LEMMA CommitEffect ==
    ASSUME JobInv, NEW r \in Runs, WorkerCommits(r)
    PROVE  Effect(r)
<1>0. Table /\ w[r].at = "commit"
  BY DEF WorkerCommits, JobInv, RunsInStep
<1>1. CASE Broken(r)
  BY <1>0, <1>1, BrokenEffect
<1>2. CASE ~ Broken(r)
  <2>1. "at" \in DOMAIN w'[r] /\ DOMAIN w' = Runs /\ \A o \in Runs : o # r => w'[o] = w[o]
    BY <1>0, <1>2 DEF WorkerCommits, Table
  <2>2. OnlyMoves(r)
    BY <1>0, <2>1 DEF Table, OnlyMoves
  <2>3. UNCHANGED job
    BY <1>2 DEF WorkerCommits
  <2> QED
    BY <1>0, <2>2, <2>3 DEF Effect, Outcome, Running, job
<1> QED
  BY <1>1, <1>2

LEMMA CompleteEffect ==
    ASSUME JobInv, NEW r \in Runs, WorkerCompletes(r)
    PROVE  Effect(r)
<1>0. Table /\ w[r].at = "complete"
  BY DEF WorkerCompletes, JobInv, RunsInStep
<1>1. CASE Fail(r)
  BY <1>0, <1>1, FailEffect
<1>2. CASE At(r, "preview") /\ UNCHANGED job
  BY <1>0, <1>2, HaltEffect
<1>3. CASE /\ IF ~ Owns(r) THEN UNCHANGED <<status, active>>
              ELSE /\ status' = IF status = "Pausing" THEN "Paused" ELSE "Completed"
                   /\ Release
           /\ IF Owns(r) /\ status # "Pausing" THEN At(r, "sweep") ELSE Over(r)
           /\ UNCHANGED <<gen, cancel, finish, live>>
  <2>1. OnlyMoves(r) /\ ~ Running(r)'
    BY <1>0, <1>3, AtMoves, OverMoves DEF Running
  <2> QED
    BY <1>0, <1>3, <2>1, ReleaseEmpties DEF Owns, Effect, Outcome, Running
<1> QED
  BY <1>1, <1>2, <1>3 DEF WorkerCompletes

LEMMA SettleEffect ==
    ASSUME JobInv, NEW r \in Runs, WorkerSettles(r)
    PROVE  Effect(r)
<1>0. Table /\ w[r].at = "settle"
  BY DEF WorkerSettles, JobInv, RunsInStep
<1>1. OnlyMoves(r) /\ ~ Running(r)'
  BY <1>0, OverMoves DEF WorkerSettles, Running
<1>2. gen = r => Settled = "Paused"
  BY <1>0, ActiveEnds DEF JobInv, RunsInStep, Running
<1> QED
  BY <1>0, <1>1, <1>2, ReleaseEmpties DEF WorkerSettles, Owns, Effect, Outcome, Running

LEMMA LocalEffect ==
    ASSUME JobInv, NEW r \in Runs, Local(r)
    PROVE  Effect(r)
<1>0. Table /\ {"Probing", "Downloading", "Verifying", "Finalizing"} \subseteq ActiveStates
  BY DEF JobInv, RunsInStep, ActiveStates
<1>1. CASE WorkerProbes(r)
  BY <1>0, <1>1, AdvanceEffect DEF WorkerProbes
<1>2. CASE WorkerDownloads(r)
  BY <1>0, <1>2, AdvanceEffect, FailEffect DEF WorkerDownloads
<1>3. CASE WorkerStages(r)
  BY <1>3, BrokenEffect, HaltEffect DEF WorkerStages
<1>4. CASE WorkerUnlinks(r)
  BY <1>4, BrokenEffect, HaltEffect DEF WorkerUnlinks
<1>5. CASE WorkerRenames(r)
  BY <1>5, BrokenEffect, HaltEffect DEF WorkerRenames
<1>6. CASE WorkerVerifies(r)
  BY <1>0, <1>6, AdvanceEffect DEF WorkerVerifies
<1>7. CASE WorkerFinalizes(r)
  BY <1>0, <1>7, AdvanceEffect, FailEffect DEF WorkerFinalizes
<1>8. CASE WorkerAssembles(r)
  BY <1>8, FailEffect, HaltEffect DEF WorkerAssembles
<1>9. CASE WorkerSweeps(r)
  BY <1>0, <1>9, OverMoves DEF WorkerSweeps, Effect, Outcome, Running, job
<1>10. CASE WorkerPreviews(r)
  BY <1>10, HaltEffect DEF WorkerPreviews
<1> QED
  BY <1>1, <1>2, <1>3, <1>4, <1>5, <1>6, <1>7, <1>8, <1>9, <1>10,
     CommitEffect, CompleteEffect, SettleEffect DEF Local

\* Whatever a worker does, its effect on the job is one of four.
LEMMA WorkerEffect ==
    ASSUME JobInv, NEW r \in Runs, Worker(r)
    PROVE  Effect(r)
<1>1. CASE WorkerRefreshes(r)
  <2>0. Table /\ w[r].at = "loop"
    BY <1>1 DEF WorkerRefreshes, JobInv, RunsInStep
  <2>1. CASE Broken(r)
    BY <2>0, <2>1, BrokenEffect
  <2>2. CASE Refresh(r, w[r].ck) /\ UNCHANGED job
    BY <2>0, <2>2, RefreshMoves DEF Effect, Outcome, Running, job
  <2> QED
    BY <1>1, <2>1, <2>2 DEF WorkerRefreshes
<1> QED
  BY <1>1, FetchEffect, LocalEffect DEF Worker

-----------------------------------------------------------------------------
(* The invariant                                                            *)

LEMMA SavesTyped ==
    ASSUME saved \subseteq TaskStates \cup {Gone}, saved \cap ActiveStates = {},
           status' \in TaskStates \cup {Gone}, NEW old \in {{}, saved}, Saves(old)
    PROVE  saved' \subseteq TaskStates \cup {Gone} /\ saved' \cap ActiveStates = {}
  BY DEF Saves, Restored, TaskStates, ActiveStates, Gone

LEMMA FlagsTyped ==
    ASSUME JobTypeOK,
           cancel' = FALSE \/ cancel' = TRUE \/ cancel' = cancel,
           finish' = FALSE \/ finish' = TRUE \/ finish' = finish
    PROVE  cancel' \in BOOLEAN /\ finish' \in BOOLEAN
  BY Zenon DEF JobTypeOK

LEMMA WorkerKeepsJob ==
    ASSUME JobInv, NEW r \in Runs, Worker(r)
    PROVE  JobInv'
<1> USE Bounds
<1>0. Effect(r) /\ UNCHANGED <<call, asked, crashes>>
  BY WorkerEffect DEF Worker
<1>1. r = gen => IsActive(status) \/ ~ Running(r)
  BY DEF JobInv, RunsInStep
<1>2. r <= gen
  BY <1>0 DEF JobInv, RunsInStep, Effect, Runs, SlotFollowsStatus, JobTypeOK
<1>3. /\ status' \in TaskStates \cup {Gone}
      /\ live' \in BOOLEAN
  BY <1>0 DEF Effect, Outcome, JobInv, SlotFollowsStatus, JobTypeOK, IsActive,
              ActiveStates, TaskStates
<1>4. saved' \subseteq TaskStates \cup {Gone} /\ saved' \cap ActiveStates = {}
  BY <1>3, SavesTyped DEF Worker, JobInv, SlotFollowsStatus, JobTypeOK, RunsInStep
<1>5. IsActive(status) => call \notin Releasing
  BY DEF JobInv, RunsInStep
<1>6. SlotFollowsStatus'
  <2>1. active' \in 0 .. 1 /\ active' = (IF (gen > 0 /\ IsActive(status')) \/ call \in Releasing
                                         THEN 1 ELSE 0)
    <3>0. /\ gen \in Nat /\ r > 0
          /\ active = (IF (gen > 0 /\ IsActive(status)) \/ call \in Releasing THEN 1 ELSE 0)
      BY DEF JobInv, SlotFollowsStatus, JobTypeOK, Runs
    <3>1. CASE UNCHANGED <<status, active>>
      BY <3>0, <3>1
    <3>2. CASE gen = r /\ Running(r) /\ IsActive(status') /\ UNCHANGED active
      BY <3>0, <3>2, <1>1
    <3>3. CASE /\ gen = r /\ Running(r) /\ active' = 0
               /\ status' \in {"Paused", "Failed", "Completed"}
      BY <3>0, <3>3, <1>1, <1>5 DEF IsActive, ActiveStates
    <3> QED
      BY <1>0, <3>1, <3>2, <3>3 DEF Effect, Outcome
  <2> QED
    BY <1>0, <1>3, <1>4, <2>1 DEF Effect, SlotFollowsStatus, JobTypeOK, JobInv
<1>7. RunsInStep'
  <2>1. Table' /\ \A o \in Runs : o # r => w'[o] = w[o]
    BY <1>0 DEF Effect, OnlyMoves
  <2>2. \A o \in Runs : o > gen' => w'[o].at = "none"
    BY <1>0, <1>2, <2>1 DEF Effect, JobInv, RunsInStep, SlotFollowsStatus, JobTypeOK, Runs
  <2>3. \A o \in Runs : o = gen' /\ Running(o)' => IsActive(status')
    BY <1>0, <1>1, <2>1 DEF Effect, Outcome, JobInv, RunsInStep, Running
  <2>4. gen' # 0
    BY <1>0, <1>2 DEF Effect, JobInv, RunsInStep, SlotFollowsStatus, JobTypeOK, Runs
  <2>5. call' \in Releasing => ~ IsActive(status')
    BY <1>0, <1>1, <1>5 DEF Effect, Outcome, JobInv, RunsInStep, IsActive, ActiveStates
  <2> QED
    BY <1>0, <1>4, <2>1, <2>2, <2>3, <2>4, <2>5 DEF Effect, JobInv, RunsInStep, Starting
<1> QED
  BY <1>6, <1>7 DEF JobInv

\* A request under way, or a crash.
LEMMA HandlerKeepsJob ==
    ASSUME JobInv, Handler \/ Pause \/ Finish \/ Resume \/ Redownload \/ Delete \/ Crash
    PROVE  JobInv'
<1> USE Bounds
<1>0. /\ JobTypeOK /\ RunsInStep /\ MaxGen \in Nat
      /\ active = (IF (gen > 0 /\ IsActive(status)) \/ call \in Releasing THEN 1 ELSE 0)
  BY DEF JobInv, SlotFollowsStatus, MaxGen
<1>1. ASSUME status' \in TaskStates \cup {Gone}, Saves(saved)
      PROVE  saved' \subseteq TaskStates \cup {Gone} /\ saved' \cap ActiveStates = {}
  BY <1>0, <1>1, SavesTyped DEF JobTypeOK, RunsInStep
<1>2. "Preparing" \in ActiveStates /\ "Pausing" \in ActiveStates
      /\ {"Queued", "Paused", "Failed", "Interrupted", Gone} \cap ActiveStates = {}
      /\ ActiveStates \cup {"Queued", "Paused"} \subseteq TaskStates
  BY DEF ActiveStates, TaskStates, Gone
<1>3. CASE Start
  <2>1. CASE (gen > 0 /\ IsActive(status)) \/ status \notin {"Queued", "Preparing"}
    <3>1. /\ UNCHANGED <<status, gen, active, w, asked, crashes, cancel, finish, live>>
          /\ call = "start" /\ call' = "none" /\ Saves(saved)
          /\ (gen > 0 /\ IsActive(status)) \/ status \notin {"Queued", "Preparing"}
      BY <1>3, <2>1 DEF Start, job
    <3>2. SlotFollowsStatus'
      BY <1>0, <1>1, <3>1 DEF SlotFollowsStatus, JobTypeOK, Releasing
    <3>3. RunsInStep'
      BY <1>0, <1>1, <1>2, <3>1
         DEF RunsInStep, JobTypeOK, Table, Starting, Running, Releasing
    <3> QED
      BY <3>2, <3>3 DEF JobInv
  <2>2. CASE ~ ((gen > 0 /\ IsActive(status)) \/ status \notin {"Queued", "Preparing"})
    <3>1. /\ ~ (gen > 0 /\ IsActive(status)) /\ status' = "Preparing" /\ gen' = gen + 1
          /\ active' = active + 1 /\ cancel' = FALSE /\ UNCHANGED <<finish, live, asked, crashes>>
          /\ w' = [w EXCEPT ![gen + 1] = [Idle EXCEPT !.at = "spawned"]]
          /\ call = "start" /\ call' = "none" /\ Saves(saved)
      BY <1>3, <2>2 DEF Start, job
    <3>2. gen + 1 \in Runs /\ gen + 1 <= 1 + 2 * asked
      BY <1>0, <3>1 DEF RunsInStep, Starting, JobTypeOK, Runs, MaxGen
    <3>3. active' = 1
      BY <1>0, <3>1 DEF Releasing
    <3>4. Table' /\ \A o \in Runs : o # gen + 1 => w'[o] = w[o]
      BY <1>0, <3>1, <3>2 DEF RunsInStep, Table, Idle
    <3>0. cancel' \in BOOLEAN /\ finish' \in BOOLEAN /\ live' \in BOOLEAN
      BY <1>0, <3>1, FlagsTyped, Zenon DEF JobTypeOK
    <3>5. SlotFollowsStatus'
      BY <1>0, <1>1, <1>2, <3>0, <3>1, <3>2, <3>3
         DEF SlotFollowsStatus, JobTypeOK, IsActive, Runs, Releasing
    <3>6. \A o \in Runs : o > gen' => w'[o].at = "none"
      BY <1>0, <3>1, <3>4 DEF RunsInStep, Runs, JobTypeOK
    <3>7. RunsInStep'
      BY <1>0, <1>1, <1>2, <3>1, <3>2, <3>4, <3>6
         DEF RunsInStep, JobTypeOK, Starting, Releasing, IsActive
    <3> QED
      BY <3>5, <3>7 DEF JobInv
  <2> QED
    BY <2>1, <2>2
<1>4. CASE RedownloadWipes \/ DeleteErases
  <2>1. SlotFollowsStatus'
    BY <1>0, <1>1, <1>2, <1>4
       DEF RedownloadWipes, DeleteErases, Release, SlotFollowsStatus, JobTypeOK, IsActive,
           Releasing, RunsInStep
  <2>2. RunsInStep'
    BY <1>0, <1>1, <1>2, <1>4
       DEF RedownloadWipes, DeleteErases, Release, JobTypeOK, RunsInStep, Table, Starting,
           Running, Releasing, IsActive
  <2> QED
    BY <2>1, <2>2 DEF JobInv
<1>5. CASE Pause
  <2>1. SlotFollowsStatus'
    BY <1>0, <1>1, <1>2, <1>5
       DEF Pause, Asks, SlotFollowsStatus, JobTypeOK, IsActive, Releasing, RunsInStep
  <2>2. RunsInStep'
    BY <1>0, <1>1, <1>2, <1>5
       DEF Pause, Asks, JobTypeOK, RunsInStep, Table, Starting, Running, Releasing, IsActive
  <2> QED
    BY <2>1, <2>2 DEF JobInv
<1>6. CASE Finish
  <2>1. SlotFollowsStatus'
    BY <1>0, <1>1, <1>2, <1>6
       DEF Finish, Asks, SlotFollowsStatus, JobTypeOK, IsActive, Releasing, RunsInStep
  <2>2. RunsInStep'
    BY <1>0, <1>1, <1>2, <1>6
       DEF Finish, Asks, JobTypeOK, RunsInStep, Table, Starting, Running, Releasing, IsActive
  <2> QED
    BY <2>1, <2>2 DEF JobInv
<1>7. CASE Resume
  <2>0. cancel' \in BOOLEAN /\ finish' \in BOOLEAN /\ live' \in BOOLEAN
    BY <1>0, <1>7, FlagsTyped, Zenon DEF Resume, JobTypeOK
  <2>1. SlotFollowsStatus'
    BY <1>0, <1>1, <1>2, <1>7, <2>0
       DEF Resume, Asks, SlotFollowsStatus, JobTypeOK, IsActive, Releasing, RunsInStep
  <2>2. RunsInStep'
    BY <1>0, <1>1, <1>2, <1>7
       DEF Resume, Asks, JobTypeOK, RunsInStep, Table, Starting, Running, Releasing, IsActive
  <2> QED
    BY <2>1, <2>2 DEF JobInv
<1>8. CASE Redownload
  <2>0. cancel' \in BOOLEAN /\ finish' \in BOOLEAN /\ live' \in BOOLEAN
    BY <1>0, <1>8, FlagsTyped, Zenon DEF Redownload, JobTypeOK
  <2>1. SlotFollowsStatus'
    BY <1>0, <1>1, <1>2, <1>8, <2>0
       DEF Redownload, Asks, CanRestart, SlotFollowsStatus, JobTypeOK, IsActive,
           Releasing, RunsInStep, Starting, MaxGen
  <2>2. RunsInStep'
    BY <1>0, <1>1, <1>2, <1>8
       DEF Redownload, Asks, CanRestart, JobTypeOK, RunsInStep, Table, Starting, Running,
           Releasing, IsActive, Runs
  <2> QED
    BY <2>1, <2>2 DEF JobInv
<1>9. CASE Delete
  <2>1. SlotFollowsStatus'
    BY <1>0, <1>1, <1>2, <1>9
       DEF Delete, Asks, SlotFollowsStatus, JobTypeOK, IsActive, Releasing, RunsInStep,
           Starting, MaxGen
  <2>2. RunsInStep'
    BY <1>0, <1>1, <1>2, <1>9
       DEF Delete, Asks, JobTypeOK, RunsInStep, Table, Starting, Running, Releasing,
           IsActive, Runs
  <2> QED
    BY <2>1, <2>2 DEF JobInv
<1>10. CASE Crash
  <2>1. status' \in saved /\ live' \in BOOLEAN /\ status' \notin ActiveStates
        /\ status' \in TaskStates \cup {Gone}
    BY <1>0, <1>10 DEF Crash, JobTypeOK, RunsInStep
  <2>0. cancel' \in BOOLEAN /\ finish' \in BOOLEAN
    BY <1>0, <1>10, FlagsTyped, Zenon DEF Crash
  <2>2. SlotFollowsStatus'
    BY <1>0, <1>10, <2>0, <2>1 DEF Crash, SlotFollowsStatus, JobTypeOK, MaxGen, Releasing
  <2>3. RunsInStep'
    BY <1>0, <1>10, <2>1
       DEF Crash, RunsInStep, JobTypeOK, Table, Starting, Running, Releasing, IsActive, Idle
  <2> QED
    BY <2>2, <2>3 DEF JobInv
<1> QED
  BY <1>3, <1>4, <1>5, <1>6, <1>7, <1>8, <1>9, <1>10 DEF Handler

LEMMA InitJob ==
    ASSUME Init PROVE JobInv
<1>1. MaxGen \in Nat /\ "Preparing" \in ActiveStates /\ "Queued" \notin ActiveStates
      /\ saved \cap ActiveStates = {} /\ saved \cup {status} \subseteq TaskStates \cup {Gone}
  BY RecordingAssumption DEF Init, MaxGen, ActiveStates, TaskStates, Gone
<1>2. JobTypeOK
  <2>1. cancel \in BOOLEAN /\ finish \in BOOLEAN /\ live \in BOOLEAN
    BY Zenon DEF Init
  <2>2. call \in {"none", "start"} /\ active = 0 /\ gen = 0 /\ asked = 0 /\ crashes = 0
    BY DEF Init
  <2> QED
    BY <1>1, <2>1, <2>2, Bounds DEF JobTypeOK
<1>3. active = (IF (gen > 0 /\ IsActive(status)) \/ call \in Releasing THEN 1 ELSE 0)
  BY DEF Init, Releasing
<1>4. Table /\ \A r \in Runs : w[r].at = "none"
  BY DEF Init, Table, Idle
<1>5. RunsInStep
  BY <1>1, <1>4 DEF Init, RunsInStep, Starting, Running, Releasing, IsActive
<1> QED
  BY <1>2, <1>3, <1>5 DEF JobInv, SlotFollowsStatus

LEMMA NextKeepsJob ==
    ASSUME JobInv, [Next]_vars PROVE JobInv'
<1>1. CASE UNCHANGED vars
  BY <1>1 DEF vars, job, server, disk, hist, JobInv, SlotFollowsStatus, JobTypeOK, RunsInStep,
              Table, Starting, Running
<1> QED
  BY <1>1, WorkerKeepsJob, HandlerKeepsJob DEF Next

\* The slot follows the status and every run is where the job says, together: the
\* inductive invariant of the recording's job.
THEOREM RecordingJob == Spec => []JobInv
<1>1. Init => JobInv
  BY InitJob
<1>2. JobInv /\ [Next]_vars => JobInv'
  BY NextKeepsJob
<1> QED
  BY <1>1, <1>2, PTL DEF Spec

\* One download is counted as running exactly while a started run has an active
\* status or a redownload or delete has yet to release the slot of the run it
\* stopped: for any number of requests, runs and crashes.
THEOREM RecordingSlotFollowsStatus == Spec => []SlotFollowsStatus
<1>1. JobInv => SlotFollowsStatus
  BY DEF JobInv
<1> QED
  BY <1>1, RecordingJob, PTL

\* A run that was stopped and replaced, by a redownload, a delete or a resume,
\* changes neither the status nor the slot of its successor, whatever step it
\* was at and whatever that step meets.
THEOREM StaleRecordingRunsAreInert == Spec => StaleRunsAreInert
<1> DEFINE Inert == \A r \in Runs : w'[r] # w[r] /\ r < gen /\ gen' = gen
                                      => UNCHANGED <<status, active, live>>
<1>1. ASSUME JobInv, [Next]_vars
      PROVE  [Inert]_vars
  <2>1. ASSUME NEW o \in Runs, Worker(o)
        PROVE  Inert
    <3>1. Effect(o)
      BY <1>1, <2>1, WorkerEffect
    <3>2. \A r \in Runs : r # o => w'[r] = w[r]
      BY <3>1 DEF Effect, OnlyMoves
    <3>3. o < gen => UNCHANGED <<status, active, live>>
      BY <3>1, <1>1 DEF Effect, Outcome, Runs, JobInv, SlotFollowsStatus, JobTypeOK
    <3> QED
      BY <3>2, <3>3
  <2>2. ASSUME Start
        PROVE  Inert
    BY <1>1, <2>2 DEF Start, job, JobInv, SlotFollowsStatus, JobTypeOK
  <2>3. ASSUME RedownloadWipes \/ DeleteErases \/ Pause \/ Finish \/ Resume \/ Redownload
               \/ Delete
        PROVE  Inert
    BY <2>3 DEF RedownloadWipes, DeleteErases, Pause, Finish, Resume, Redownload, Delete, Asks
  <2>4. ASSUME Crash
        PROVE  Inert
    BY <1>1, <2>4 DEF Crash, Runs, JobInv, SlotFollowsStatus, JobTypeOK
  <2> QED
    BY <1>1, <2>1, <2>2, <2>3, <2>4 DEF Next, Handler
<1> QED
  BY <1>1, RecordingJob, PTL DEF Spec, StaleRunsAreInert

-----------------------------------------------------------------------------
(* Files as sequences of units                                              *)

IsMedia(u) == u[1] = "media"

LEMMA UnitKinds ==
    ASSUME NEW u \in Units
    PROVE  /\ IsMedia(u) => u[2] \in 1 .. MaxSeq /\ u = Media(u[2])
           /\ ~ IsMedia(u) => u[2] \in 1 .. 2 /\ u = Init_(u[2]) /\ u[1] = "init"
  BY DEF Units, IsMedia, Media, Init_

LEMMA UnitNames ==
    /\ \A n : Media(n)[1] = "media" /\ Media(n)[2] = n /\ IsMedia(Media(n))
    /\ \A m : Init_(m)[1] = "init" /\ Init_(m)[2] = m /\ ~ IsMedia(Init_(m))
    /\ \A n \in 1 .. MaxSeq : Media(n) \in Units
    /\ \A m \in 1 .. 2 : Init_(m) \in Units
  BY DEF Units, IsMedia, Media, Init_

\* A function on 1 .. n is a sequence of n members.
LEMMA FunctionIsSeq ==
    ASSUME NEW X, NEW n \in Nat, NEW f \in [1 .. n -> X]
    PROVE  f \in Seq(X) /\ Len(f) = n /\ DOMAIN f = 1 .. n
  OBVIOUS

LEMMA MapIs ==
    ASSUME NEW n \in Nat
    PROVE  /\ MapOf(n) \in 1 .. 2 /\ MapChange \in Nat
           /\ MapOf(n) = 2 <=> MapChange <= n
  BY RecordingAssumption DEF MapOf

-----------------------------------------------------------------------------
(* The plan of a refresh                                                    *)

\* Where the units of a plan come from: an initialization or not, the segments up
\* to the change of the map, the second initialization, and the rest.
Shaped(p, from, to, last, e, t) ==
    /\ e \in {0, 1} /\ t \in from + 1 .. to + 1
    /\ e = 1 <=> MapOf(from) # last
    /\ t <= to => t = MapChange
    /\ t > to => ~ (from < MapChange /\ MapChange <= to)
    /\ p \in Seq(Units)
    /\ Len(p) = e + (to + 1 - from) + (IF t <= to THEN 1 ELSE 0)
    /\ \A i \in 1 .. Len(p) :
         p[i] = IF i <= e THEN Init_(MapOf(from))
                ELSE IF i <= e + (t - from) THEN Media(from + i - 1 - e)
                ELSE IF i = e + (t - from) + 1 THEN Init_(2)
                ELSE Media(from + i - 2 - e)

LEMMA MediaRun ==
    ASSUME NEW a \in Nat \ {0}, NEW n \in Nat, a + n <= MaxSeq + 1
    PROVE  LET body == [i \in 1 .. n |-> Media(a + i - 1)]
           IN  /\ body \in Seq(Units) /\ Len(body) = n
               /\ \A i \in 1 .. n : body[i] = Media(a + i - 1)
<1> DEFINE body == [i \in 1 .. n |-> Media(a + i - 1)]
<1>1. \A i \in 1 .. n : a + i - 1 \in 1 .. MaxSeq
  BY RecordingAssumption
<1>2. body \in [1 .. n -> Units]
  BY <1>1, UnitNames
<1>3. \A i \in 1 .. n : body[i] = Media(a + i - 1)
  OBVIOUS
<1> HIDE DEF body
<1>4. body \in Seq(Units) /\ Len(body) = n
  BY <1>2, FunctionIsSeq
<1> QED
  BY <1>3, <1>4 DEF body

LEMMA LedBy ==
    ASSUME NEW e \in {0, 1}, NEW n \in Nat, NEW lead \in Seq(Units), Len(lead) = e,
           NEW body \in Seq(Units), Len(body) = n
    PROVE  /\ lead \o body \in Seq(Units) /\ Len(lead \o body) = e + n
           /\ \A i \in 1 .. e + n :
                (lead \o body)[i] = IF i <= e THEN lead[1] ELSE body[i - e]
<1>2. /\ lead \o body \in Seq(Units) /\ Len(lead \o body) = Len(lead) + Len(body)
      /\ \A i \in 1 .. Len(lead) + Len(body) :
           (lead \o body)[i] = IF i <= Len(lead) THEN lead[i] ELSE body[i - Len(lead)]
  BY ConcatProperties
<1>3. \A i \in 1 .. e + n : i <= e => i = 1
  OBVIOUS
<1> QED
  BY <1>2, <1>3

\* One unit, or none.
LEMMA LeadIs ==
    ASSUME NEW u \in Units
    PROVE  /\ <<u>> \in Seq(Units) /\ Len(<<u>>) = 1 /\ <<u>>[1] = u
           /\ <<>> \in Seq(Units) /\ Len(<<>>) = 0
  OBVIOUS

LEMMA PlanShape ==
    ASSUME NEW from \in Nat \ {0}, NEW to \in Nat, from <= to, to <= MaxSeq,
           NEW last \in 0 .. 2
    PROVE  \E e, t : Shaped(Plan(from, to, last), from, to, last, e, t)
<1> DEFINE turn == IF MapChange \in from + 1 .. to THEN MapChange ELSE to + 1
           Stretch(a, b) ==
             (IF a <= b /\ InitBefore(a, from, last) THEN <<Init_(MapOf(a))>> ELSE <<>>)
                \o [i \in 1 .. b + 1 - a |-> Media(a + i - 1)]
           one == Stretch(from, turn - 1)
           two == Stretch(turn, to)
           e1   == IF InitBefore(from, from, last) THEN 1 ELSE 0
           n1  == turn - from
           n2  == to + 1 - turn
           d   == IF turn <= to THEN 1 ELSE 0
<1>1. /\ turn \in Nat /\ from < turn /\ turn <= to + 1 /\ MapChange \in Nat
      /\ turn <= to => turn = MapChange
      /\ turn > to => ~ (from < MapChange /\ MapChange <= to)
  BY RecordingAssumption
<1>2. Plan(from, to, last) = one \o two
  BY DEF Plan
<1> HIDE DEF turn
<1>3. InitBefore(from, from, last) <=> MapOf(from) # last
  BY DEF InitBefore
<1>4. turn <= to => InitBefore(turn, from, last) /\ MapOf(turn) = 2
  <2>1. turn <= to => turn - 1 \in Nat /\ ~ (MapChange <= turn - 1) /\ turn # from
    BY <1>1
  <2>2. turn <= to => MapOf(turn) = 2 /\ MapOf(turn - 1) # 2
    BY <1>1, <2>1, MapIs
  <2> QED
    BY <2>1, <2>2 DEF InitBefore
<1>5. /\ one \in Seq(Units) /\ Len(one) = e1 + n1 /\ n1 \in Nat
      /\ \A i \in 1 .. e1 + n1 :
           one[i] = IF i <= e1 THEN Init_(MapOf(from)) ELSE Media(from + i - 1 - e1)
  <2>1. /\ (turn - 1) + 1 - from = n1 /\ n1 \in Nat /\ from <= turn - 1
        /\ from + n1 <= MaxSeq + 1 /\ from <= MaxSeq
    BY <1>1, RecordingAssumption
  <2> DEFINE lead == IF from <= turn - 1 /\ InitBefore(from, from, last)
                     THEN <<Init_(MapOf(from))>> ELSE <<>>
  <2>2. one = lead \o [i \in 1 .. n1 |-> Media(from + i - 1)]
    BY <2>1
  <2>3. /\ e1 \in {0, 1}
        /\ e1 = 1 => lead = <<Init_(MapOf(from))>>
        /\ e1 = 0 => lead = <<>>
    BY <2>1
  <2> HIDE DEF e1, n1, one, lead
  <2>4. /\ from \in Nat \ {0} /\ n1 \in Nat /\ from + n1 <= MaxSeq + 1 /\ e1 \in {0, 1}
        /\ e1 = 1 => from <= MaxSeq
        /\ lead \in Seq(Units) /\ Len(lead) = e1
        /\ e1 = 1 => lead[1] = Init_(MapOf(from))
    <3>1. Init_(MapOf(from)) \in Units
      BY MapIs, UnitNames
    <3>2. CASE e1 = 1
      BY <2>1, <2>3, <3>1, <3>2, LeadIs
    <3>3. CASE e1 = 0
      BY <2>1, <2>3, <3>1, <3>3, LeadIs
    <3> QED
      BY <2>3, <3>2, <3>3
  <2> DEFINE body == [i \in 1 .. n1 |-> Media(from + i - 1)]
  <2>5. /\ body \in Seq(Units) /\ Len(body) = n1
        /\ \A i \in 1 .. n1 : body[i] = Media(from + i - 1)
    BY <2>4, MediaRun
  <2>6. one = lead \o body
    BY <2>2
  <2> HIDE DEF body
  <2>7. /\ lead \o body \in Seq(Units) /\ Len(lead \o body) = e1 + n1
        /\ \A i \in 1 .. e1 + n1 :
             (lead \o body)[i] = IF i <= e1 THEN Init_(MapOf(from)) ELSE Media(from + i - 1 - e1)
    <3>1. /\ lead \o body \in Seq(Units) /\ Len(lead \o body) = e1 + n1
          /\ \A i \in 1 .. e1 + n1 :
               (lead \o body)[i] = IF i <= e1 THEN lead[1] ELSE body[i - e1]
      <4>1. /\ e1 \in {0, 1} /\ n1 \in Nat /\ lead \in Seq(Units) /\ Len(lead) = e1
            /\ body \in Seq(Units) /\ Len(body) = n1
        BY <2>4, <2>5
      <4> QED
        BY <4>1, LedBy
    <3>2. ASSUME NEW i \in 1 .. e1 + n1, ~ (i <= e1)
          PROVE  body[i - e1] = Media(from + i - 1 - e1)
      <4>1. i - e1 \in 1 .. n1 /\ from + (i - e1) - 1 = from + i - 1 - e1
        BY <2>4, <3>2
      <4> QED
        BY <2>5, <4>1
    <3>3. \A i \in 1 .. e1 + n1 : i <= e1 => e1 = 1
      BY <2>4
    <3> QED
      BY <2>4, <3>1, <3>2, <3>3
  <2> QED
    BY <2>1, <2>6, <2>7
<1>6. /\ two \in Seq(Units) /\ Len(two) = d + n2 /\ n2 \in Nat
      /\ \A i \in 1 .. d + n2 :
           two[i] = IF i <= d THEN Init_(2) ELSE Media(turn + i - 1 - d)
  <2>1. /\ turn \in Nat \ {0} /\ n2 \in Nat /\ turn + n2 <= MaxSeq + 1
        /\ (turn <= to => turn <= MaxSeq)
    BY <1>1, RecordingAssumption
  <2> DEFINE lead == IF turn <= to /\ InitBefore(turn, from, last)
                     THEN <<Init_(MapOf(turn))>> ELSE <<>>
  <2>2. two = lead \o [i \in 1 .. n2 |-> Media(turn + i - 1)]
    OBVIOUS
  <2>3. /\ d \in {0, 1} /\ (d = 1 => turn <= to /\ MapOf(turn) = 2)
        /\ d = 1 => lead = <<Init_(MapOf(turn))>>
        /\ d = 0 => lead = <<>>
    BY <1>4
  <2> HIDE DEF d, n2, two, lead
  <2>4. /\ two \in Seq(Units) /\ Len(two) = d + n2
        /\ \A i \in 1 .. d + n2 :
             two[i] = IF i <= d THEN Init_(MapOf(turn)) ELSE Media(turn + i - 1 - d)
    <3>1. /\ turn \in Nat \ {0} /\ n2 \in Nat /\ turn + n2 <= MaxSeq + 1 /\ d \in {0, 1}
          /\ lead \in Seq(Units) /\ Len(lead) = d
          /\ d = 1 => lead[1] = Init_(MapOf(turn))
      <4>1. Init_(MapOf(turn)) \in Units
        BY <2>1, MapIs, UnitNames
      <4>2. CASE d = 1
        BY <2>1, <2>3, <4>1, <4>2, LeadIs
      <4>3. CASE d = 0
        BY <2>1, <2>3, <4>1, <4>3, LeadIs
      <4> QED
        BY <2>3, <4>2, <4>3
    <3> DEFINE body == [i \in 1 .. n2 |-> Media(turn + i - 1)]
    <3>2. /\ body \in Seq(Units) /\ Len(body) = n2
          /\ \A i \in 1 .. n2 : body[i] = Media(turn + i - 1)
      BY <3>1, MediaRun
    <3>3. two = lead \o body
      BY <2>2
    <3> HIDE DEF body
    <3>4. /\ lead \o body \in Seq(Units) /\ Len(lead \o body) = d + n2
          /\ \A i \in 1 .. d + n2 :
               (lead \o body)[i] = IF i <= d THEN Init_(MapOf(turn)) ELSE Media(turn + i - 1 - d)
      <4>1. /\ lead \o body \in Seq(Units) /\ Len(lead \o body) = d + n2
            /\ \A i \in 1 .. d + n2 :
                 (lead \o body)[i] = IF i <= d THEN lead[1] ELSE body[i - d]
        <5>1. /\ d \in {0, 1} /\ n2 \in Nat /\ lead \in Seq(Units) /\ Len(lead) = d
              /\ body \in Seq(Units) /\ Len(body) = n2
          BY <3>1, <3>2
        <5> QED
          BY <5>1, LedBy
      <4>2. ASSUME NEW i \in 1 .. d + n2, ~ (i <= d)
            PROVE  body[i - d] = Media(turn + i - 1 - d)
        <5>1. i - d \in 1 .. n2 /\ turn + (i - d) - 1 = turn + i - 1 - d
          BY <3>1, <4>2
        <5> QED
          BY <3>2, <5>1
      <4>3. \A i \in 1 .. d + n2 : i <= d => d = 1
        BY <3>1
      <4> QED
        BY <3>1, <4>1, <4>2, <4>3
    <3> QED
      BY <3>3, <3>4
  <2>5. \A i \in 1 .. d + n2 : i <= d => d = 1
    BY <2>1, <2>3
  <2> QED
    BY <2>1, <2>3, <2>4, <2>5
<1>7. e1 \in {0, 1} /\ d \in {0, 1} /\ (d = 1 <=> turn <= to)
  OBVIOUS
<1> HIDE DEF one, two
<1>8. /\ one \o two \in Seq(Units) /\ Len(one \o two) = e1 + n1 + d + n2
      /\ \A i \in 1 .. e1 + n1 + d + n2 :
           (one \o two)[i] = IF i <= e1 + n1 THEN one[i] ELSE two[i - (e1 + n1)]
  <2>1. /\ one \o two \in Seq(Units) /\ Len(one \o two) = Len(one) + Len(two)
        /\ \A i \in 1 .. Len(one) + Len(two) :
             (one \o two)[i] = IF i <= Len(one) THEN one[i] ELSE two[i - Len(one)]
    BY <1>5, <1>6, ConcatProperties
  <2>2. Len(one) + Len(two) = e1 + n1 + d + n2
    BY <1>5, <1>6, <1>7
  <2> QED
    BY <1>5, <2>1, <2>2
<1>9. n1 + n2 = to + 1 - from /\ n1 = turn - from
  BY <1>1
<1>10. ASSUME NEW i \in 1 .. e1 + n1 + d + n2
       PROVE  (one \o two)[i] =
                IF i <= e1 THEN Init_(MapOf(from))
                ELSE IF i <= e1 + (turn - from) THEN Media(from + i - 1 - e1)
                ELSE IF i = e1 + (turn - from) + 1 THEN Init_(2)
                ELSE Media(from + i - 2 - e1)
  <2> HIDE DEF e1, d
  <2>1. CASE i <= e1 + n1
    BY <1>5, <1>7, <1>8, <2>1
  <2>2. CASE ~ (i <= e1 + n1)
    <3>1. i - (e1 + n1) \in 1 .. d + n2 /\ i > e1
      <4>1. e1 \in {0, 1} /\ n1 \in Nat /\ d \in {0, 1} /\ n2 \in Nat
        BY <1>5, <1>6, <1>7
      <4> HIDE DEF n1, n2
      <4> QED
        BY <2>2, <4>1
    <3>2. d = 1
      BY <1>1, <1>7, <3>1
    <3>3. (one \o two)[i] = IF i - (e1 + n1) <= 1 THEN Init_(2)
                            ELSE Media(turn + (i - (e1 + n1)) - 1 - 1)
      BY <1>6, <1>8, <2>2, <3>1, <3>2
    <3>4. turn + (i - (e1 + n1)) - 1 - 1 = from + i - 2 - e1
      BY <1>1, <1>5, <1>7
    <3>5. i - (e1 + n1) <= 1 <=> i = e1 + (turn - from) + 1
      BY <1>1, <1>7, <3>1
    <3>6. e1 + n1 = e1 + (turn - from) /\ ~ (i <= e1)
      BY <1>7, <3>1
    <3>7. ~ (i <= e1 + (turn - from))
      BY <2>2, <3>6
    <3> HIDE DEF n1, n2
    <3> QED
      BY <3>3, <3>4, <3>5, <3>6, <3>7
  <2> QED
    BY <2>1, <2>2
<1>11. Shaped(Plan(from, to, last), from, to, last, e1, turn)
  <2>1. Len(one \o two) = e1 + (to + 1 - from) + d
    <3> HIDE DEF e1, d, n1, n2
    <3>1. e1 \in Int /\ d \in Int /\ n1 \in Int /\ n2 \in Int /\ to + 1 - from \in Int
      BY <1>5, <1>6, <1>7
    <3>2. n1 + n2 = to + 1 - from
      BY <1>9
    <3> QED
      BY <1>8, <3>1, <3>2
  <2>2. turn \in from + 1 .. to + 1
    BY <1>1
  <2> QED
    BY <1>1, <1>2, <1>3, <1>7, <1>8, <1>10, <2>1, <2>2 DEF Shaped
<1> QED
  BY <1>11

\* The same, unit by unit: which are segments, and of which number or map.
Numbered(p, from, to, last, e, t) ==
    /\ e \in {0, 1} /\ t \in Nat /\ from < t /\ t <= to + 1
    /\ e = 1 <=> MapOf(from) # last
    /\ t <= to => t = MapChange
    /\ t > to => ~ (from < MapChange /\ MapChange <= to)
    /\ p \in Seq(Units)
    /\ Len(p) = e + (to + 1 - from) + (IF t <= to THEN 1 ELSE 0)
    /\ \A i \in 1 .. Len(p) :
         /\ IsMedia(p[i]) <=> e < i /\ i # e + (t - from) + 1
         /\ ~ IsMedia(p[i]) => p[i][2] = IF i <= e THEN MapOf(from) ELSE 2
         /\ IsMedia(p[i]) => p[i][2] = IF i <= e + (t - from) THEN from + i - 1 - e
                                       ELSE from + i - 2 - e

LEMMA PlanNumbers ==
    ASSUME NEW from \in Nat \ {0}, NEW to \in Nat, from <= to, to <= MaxSeq,
           NEW last \in 0 .. 2
    PROVE  \E e, t : Numbered(Plan(from, to, last), from, to, last, e, t)
<1> DEFINE p == Plan(from, to, last)
<1>1. PICK e, t : Shaped(p, from, to, last, e, t)
  BY PlanShape
<1> HIDE DEF p
<1>2. /\ e \in {0, 1} /\ t \in Nat /\ from < t /\ t <= to + 1 /\ p \in Seq(Units)
      /\ Len(p) = e + (to + 1 - from) + (IF t <= to THEN 1 ELSE 0)
  BY <1>1 DEF Shaped
<1>3. ASSUME NEW i \in 1 .. Len(p)
      PROVE  /\ IsMedia(p[i]) <=> e < i /\ i # e + (t - from) + 1
             /\ ~ IsMedia(p[i]) => p[i][2] = IF i <= e THEN MapOf(from) ELSE 2
             /\ IsMedia(p[i]) => p[i][2] = IF i <= e + (t - from) THEN from + i - 1 - e
                                           ELSE from + i - 2 - e
  <2>1. p[i] = IF i <= e THEN Init_(MapOf(from))
               ELSE IF i <= e + (t - from) THEN Media(from + i - 1 - e)
               ELSE IF i = e + (t - from) + 1 THEN Init_(2)
               ELSE Media(from + i - 2 - e)
    BY <1>1 DEF Shaped
  <2>2. t - from \in Nat /\ t - from > 0
    BY <1>2
  <2>3. CASE i <= e
    BY <1>2, <2>1, <2>2, <2>3, UnitNames
  <2>4. CASE ~ (i <= e) /\ i <= e + (t - from)
    BY <1>2, <2>1, <2>2, <2>4, UnitNames
  <2>5. CASE i = e + (t - from) + 1
    BY <1>2, <2>1, <2>2, <2>5, UnitNames
  <2>6. CASE i > e + (t - from) + 1
    BY <1>2, <2>1, <2>2, <2>6, UnitNames
  <2> QED
    BY <1>2, <2>2, <2>3, <2>4, <2>5, <2>6
<1>4. /\ e = 1 <=> MapOf(from) # last
      /\ t <= to => t = MapChange
      /\ t > to => ~ (from < MapChange /\ MapChange <= to)
  BY <1>1 DEF Shaped
<1> QED
  BY <1>2, <1>3, <1>4 DEF p, Numbered

\* What a plan is good for, behind a file whose last initialization is "last".
Follows(p, from, to, last) ==
    /\ p \in Seq(Units)
    /\ \A i \in DOMAIN p : IsMedia(p[i]) => from <= p[i][2] /\ p[i][2] <= to
    /\ \A n \in from .. to : \E i \in DOMAIN p : p[i] = Media(n)
    /\ \A i, j \in DOMAIN p :
          i < j /\ IsMedia(p[i]) /\ IsMedia(p[j]) => p[i][2] < p[j][2]
    /\ \A i \in DOMAIN p : IsMedia(p[i]) =>
          \/ \E k \in DOMAIN p :
               /\ k < i /\ p[k] = Init_(MapOf(p[i][2]))
               /\ \A m \in DOMAIN p : k < m /\ m < i => IsMedia(p[m])
          \/ /\ last = MapOf(p[i][2])
             /\ \A m \in DOMAIN p : m < i => IsMedia(p[m])
    /\ \A i, j \in DOMAIN p :
          i < j /\ ~ IsMedia(p[i]) /\ ~ IsMedia(p[j]) => p[i][2] < p[j][2]
    /\ \A i \in DOMAIN p : ~ IsMedia(p[i]) => last < p[i][2]
    /\ \A i \in DOMAIN p : p[i] = Init_(2) => MapChange <= to

LEMMA PlanFollows ==
    ASSUME NEW from \in Nat \ {0}, NEW to \in Nat, from <= to, to <= MaxSeq,
           NEW last \in 0 .. 2, last = 2 => MapChange < from
    PROVE  Follows(Plan(from, to, last), from, to, last)
<1> DEFINE p == Plan(from, to, last)
<1>1. PICK e, t : Numbered(p, from, to, last, e, t)
  BY PlanNumbers
<1> HIDE DEF p
<1>2. /\ e \in {0, 1} /\ t \in Nat /\ from < t /\ t <= to + 1 /\ p \in Seq(Units)
      /\ Len(p) = e + (to + 1 - from) + (IF t <= to THEN 1 ELSE 0)
      /\ Len(p) \in Nat /\ DOMAIN p = 1 .. Len(p)
  BY <1>1, LenProperties DEF Numbered
<1>3. \A i \in DOMAIN p :
        /\ IsMedia(p[i]) <=> e < i /\ i # e + (t - from) + 1
        /\ ~ IsMedia(p[i]) => p[i][2] = IF i <= e THEN MapOf(from) ELSE 2
        /\ IsMedia(p[i]) => p[i][2] = IF i <= e + (t - from) THEN from + i - 1 - e
                                      ELSE from + i - 2 - e
  BY <1>1, <1>2 DEF Numbered
<1>4. /\ e = 1 <=> MapOf(from) # last
      /\ t <= to => t = MapChange
      /\ t > to => ~ (from < MapChange /\ MapChange <= to)
  BY <1>1 DEF Numbered
<1>5. /\ MapChange \in Nat /\ MapOf(from) \in 1 .. 2
      /\ \A n \in Nat : MapOf(n) \in 1 .. 2 /\ (MapOf(n) = 2 <=> MapChange <= n)
  BY MapIs
<1>6. ASSUME NEW i \in DOMAIN p, IsMedia(p[i]) PROVE from <= p[i][2] /\ p[i][2] <= to
  <2>1. /\ e < i /\ i # e + (t - from) + 1
        /\ p[i][2] = IF i <= e + (t - from) THEN from + i - 1 - e ELSE from + i - 2 - e
    BY <1>3, <1>6
  <2>2. i \in 1 .. Len(p) /\ Len(p) \in Nat
    BY <1>2
  <2>3. CASE i <= e + (t - from)
    <3>1. from <= from + i - 1 - e /\ from + i - 1 - e <= to
      BY <1>2, <2>1, <2>2, <2>3
    <3> QED
      BY <2>1, <2>3, <3>1
  <2>4. CASE ~ (i <= e + (t - from))
    <3>1. from <= from + i - 2 - e /\ from + i - 2 - e <= to
      BY <1>2, <2>1, <2>2, <2>4
    <3> QED
      BY <2>1, <2>4, <3>1
  <2> QED
    BY <2>3, <2>4
<1>7. ASSUME NEW n \in from .. to PROVE \E i \in DOMAIN p : p[i] = Media(n)
  <2> DEFINE i == IF n < t THEN n - from + 1 + e ELSE n - from + 2 + e
  <2>1. i \in DOMAIN p /\ e < i /\ i # e + (t - from) + 1
        /\ (n < t => i <= e + (t - from) /\ from + i - 1 - e = n)
        /\ (~ (n < t) => ~ (i <= e + (t - from)) /\ from + i - 2 - e = n)
    BY <1>2
  <2>3. IsMedia(p[i]) /\ p[i][2] = n
    <3> HIDE DEF i
    <3> QED
      BY <1>3, <2>1
  <2>2. p[i] = Media(n)
    <3>1. p[i] \in Units
      BY <1>2, <2>1
    <3> HIDE DEF i
    <3> QED
      BY <2>3, <3>1, UnitKinds
  <2> QED
    BY <2>1, <2>2
<1>8. ASSUME NEW i \in DOMAIN p, NEW j \in DOMAIN p, i < j, IsMedia(p[i]), IsMedia(p[j])
      PROVE  p[i][2] < p[j][2]
  <2> DEFINE c == e + (t - from)
  <2>1. i \in Nat /\ j \in Nat /\ c \in Nat /\ i # c + 1 /\ j # c + 1
    BY <1>2, <1>3, <1>8
  <2>2. /\ p[i][2] = IF i <= c THEN from + i - 1 - e ELSE from + i - 2 - e
        /\ p[j][2] = IF j <= c THEN from + j - 1 - e ELSE from + j - 2 - e
    BY <1>3, <1>8
  <2>3. ~ (i <= c) => ~ (j <= c)
    BY <1>8, <2>1
  <2>4. i <= c /\ ~ (j <= c) => i < j - 1
    BY <1>8, <2>1
  <2>5. e \in Nat /\ i < j
    BY <1>2, <1>8
  <2> HIDE DEF c
  <2>6. CASE i <= c /\ j <= c
    <3>1. p[i][2] = from + i - 1 - e /\ p[j][2] = from + j - 1 - e
      BY <2>2, <2>6
    <3> QED
      BY <2>1, <2>5, <3>1
  <2>7. CASE i <= c /\ ~ (j <= c)
    <3>1. p[i][2] = from + i - 1 - e /\ p[j][2] = from + j - 2 - e
      BY <2>2, <2>7
    <3> QED
      BY <2>1, <2>4, <2>5, <2>7, <3>1
  <2>8. CASE ~ (i <= c)
    <3>1. p[i][2] = from + i - 2 - e /\ p[j][2] = from + j - 2 - e
      BY <2>2, <2>3, <2>8
    <3> QED
      BY <2>1, <2>5, <3>1
  <2> QED
    BY <2>6, <2>7, <2>8
<1>9. ASSUME NEW i \in DOMAIN p, IsMedia(p[i])
      PROVE  \/ \E k \in DOMAIN p :
                  /\ k < i /\ p[k] = Init_(MapOf(p[i][2]))
                  /\ \A m \in DOMAIN p : k < m /\ m < i => IsMedia(p[m])
             \/ /\ last = MapOf(p[i][2])
                /\ \A m \in DOMAIN p : m < i => IsMedia(p[m])
  <2>1. CASE i > e + (t - from)
    <3> DEFINE k == e + (t - from) + 1
    <3>1. k \in DOMAIN p /\ k < i /\ ~ IsMedia(p[k]) /\ p[k][2] = 2 /\ t <= to
      <4>1. k \in Nat /\ i \in 1 .. Len(p) /\ i # k /\ i >= k
        BY <1>2, <1>3, <1>9, <2>1
      <4>2. k \in DOMAIN p /\ k < i /\ ~ (k <= e)
        BY <1>2, <4>1
      <4>3. t <= to
        BY <1>2, <4>1
      <4>4. ~ IsMedia(p[k]) /\ p[k][2] = 2
        BY <1>3, <4>2
      <4> QED
        BY <4>2, <4>3, <4>4
    <3>2. p[i][2] \in Nat /\ MapChange <= p[i][2]
      <4>1. p[i][2] = from + i - 2 - e
        <5>1. ~ (i <= e + (t - from))
          BY <1>2, <2>1
        <5> QED
          BY <1>3, <1>9, <5>1
      <4>2. i \in Nat /\ i >= e + (t - from) + 2
        <5>1. e \in {0, 1} /\ t \in Nat /\ i \in 1 .. Len(p) /\ Len(p) \in Nat
          BY <1>2
        <5> QED
          BY <3>1, <5>1
      <4>3. p[i][2] \in Int /\ p[i][2] >= t
        BY <1>2, <4>1, <4>2
      <4>4. t = MapChange /\ t \in Nat
        BY <1>2, <1>4, <3>1
      <4> QED
        BY <4>3, <4>4
    <3>3. p[k] = Init_(MapOf(p[i][2]))
      BY <1>2, <1>5, <3>1, <3>2, UnitKinds
    <3>4. \A m \in DOMAIN p : k < m /\ m < i => IsMedia(p[m])
      BY <1>2, <1>3
    <3> QED
      BY <3>1, <3>3, <3>4
  <2>2. CASE ~ (i > e + (t - from))
    <3>1. e < i /\ p[i][2] = from + i - 1 - e /\ p[i][2] \in Nat /\ p[i][2] < t
      <4>1. e \in {0, 1} /\ t \in Nat /\ from < t /\ i \in Nat /\ i <= e + (t - from)
        BY <1>2, <2>2
      <4>2. e < i /\ p[i][2] = from + i - 1 - e
        BY <1>3, <1>9, <4>1
      <4> QED
        BY <4>1, <4>2
    <3>2. MapOf(p[i][2]) = MapOf(from)
      <4>1. from <= p[i][2] /\ p[i][2] <= to
        BY <1>6, <1>9
      <4>2. MapChange \in Nat /\ t \in Nat
        BY <1>2, <1>5
      <4>3. MapChange <= p[i][2] <=> MapChange <= from
        <5>1. CASE t <= to
          <6>1. t = MapChange
            BY <1>4, <5>1
          <6> QED
            BY <1>2, <3>1, <4>2, <6>1
        <5>2. CASE t > to
          <6>1. ~ (from < MapChange /\ MapChange <= to)
            BY <1>4, <5>2
          <6> QED
            BY <3>1, <4>1, <4>2, <6>1
        <5> QED
          BY <4>2, <5>1, <5>2
      <4> QED
        BY <1>5, <3>1, <4>3
    <3>3. CASE e = 1
      <4>1. 1 \in DOMAIN p /\ 1 < i /\ ~ IsMedia(p[1]) /\ p[1][2] = MapOf(from)
        <5>1. 1 \in DOMAIN p /\ 1 < i
          BY <1>2, <3>1, <3>3
        <5> QED
          BY <1>3, <3>3, <5>1
      <4>2. p[1] = Init_(MapOf(p[i][2]))
        BY <1>2, <3>2, <4>1, UnitKinds
      <4>3. \A m \in DOMAIN p : 1 < m /\ m < i => IsMedia(p[m])
        BY <1>2, <1>3, <2>2, <3>3
      <4> QED
        BY <4>1, <4>2, <4>3
    <3>4. CASE e = 0
      <4>1. last = MapOf(p[i][2])
        BY <1>4, <3>2, <3>4
      <4>2. \A m \in DOMAIN p : m < i => IsMedia(p[m])
        BY <1>2, <1>3, <2>2, <3>4
      <4> QED
        BY <4>1, <4>2
    <3> QED
      BY <1>2, <3>3, <3>4
  <2> QED
    BY <2>1, <2>2
<1>10. ASSUME NEW i \in DOMAIN p, ~ IsMedia(p[i])
       PROVE  \/ i = 1 /\ e = 1 /\ p[i][2] = MapOf(from)
              \/ i = e + (t - from) + 1 /\ t <= to /\ p[i][2] = 2
  BY <1>2, <1>3, <1>10
<1>11. t <= to => MapOf(from) = 1
  BY <1>2, <1>4, <1>5
<1>12. \A i, j \in DOMAIN p :
         i < j /\ ~ IsMedia(p[i]) /\ ~ IsMedia(p[j]) => p[i][2] < p[j][2]
  <2>1. 1 < e + (t - from) + 1
    BY <1>2
  <2> SUFFICES ASSUME NEW i \in DOMAIN p, NEW j \in DOMAIN p,
                      i < j, ~ IsMedia(p[i]), ~ IsMedia(p[j])
               PROVE  p[i][2] < p[j][2]
    OBVIOUS
  <2>2. i \in Nat /\ j \in Nat /\ i > 0 /\ e + (t - from) + 1 \in Nat
    BY <1>2
  <2>3. j # 1
    BY <2>2
  <2>4. j = e + (t - from) + 1 /\ t <= to /\ p[j][2] = 2
    BY <1>10, <2>3
  <2>5. i # e + (t - from) + 1
    BY <2>2, <2>4
  <2>6. p[i][2] = MapOf(from)
    BY <1>10, <2>5
  <2> QED
    BY <1>11, <2>4, <2>6
<1>13. \A i \in DOMAIN p : ~ IsMedia(p[i]) => last < p[i][2]
  <2>1. e = 1 => last < MapOf(from)
    BY <1>4, <1>5
  <2>2. t <= to => last < 2
    BY <1>2, <1>4
  <2> QED
    BY <1>10, <2>1, <2>2
<1>14. ASSUME NEW i \in DOMAIN p, p[i] = Init_(2) PROVE MapChange <= to
  <2>1. ~ IsMedia(p[i]) /\ p[i][2] = 2
    BY <1>14, UnitNames
  <2>2. CASE e = 1 /\ MapOf(from) = 2
    BY <1>5, <2>2
  <2>3. CASE t <= to
    BY <1>4, <2>3
  <2> QED
    BY <1>10, <2>1, <2>2, <2>3
<1> QED
  BY <1>2, <1>6, <1>7, <1>8, <1>9, <1>12, <1>13, <1>14 DEF p, Follows

-----------------------------------------------------------------------------
(* Files that play                                                           *)

\* The first n parts and the units after them, as the file they make.
Line(ps, n, rest) ==
    [i \in 1 .. n + Len(rest) |-> IF i <= n THEN ps[i - 1] ELSE rest[i - n]]

Holds(file, n) == \E i \in DOMAIN file : file[i] = Media(n)

\* Segments in order, each behind its own initialization, none of which is
\* repeated; all before the cursor.
Formed(file, cursor) ==
    /\ \A i, j \in DOMAIN file :
          i < j /\ IsMedia(file[i]) /\ IsMedia(file[j]) => file[i][2] < file[j][2]
    /\ \A i \in DOMAIN file : IsMedia(file[i]) =>
          \E k \in DOMAIN file :
             /\ k < i /\ file[k] = Init_(MapOf(file[i][2]))
             /\ \A m \in DOMAIN file : k < m /\ m < i => IsMedia(file[m])
    /\ \A i, j \in DOMAIN file :
          i < j /\ ~ IsMedia(file[i]) /\ ~ IsMedia(file[j]) => file[i][2] < file[j][2]
    /\ \A i \in DOMAIN file : IsMedia(file[i]) => file[i][2] < cursor
    /\ \A i \in DOMAIN file : file[i] = Init_(2) => MapChange < cursor

\* Between a segment and the cursor nothing is left out but what was missed.
Gapless(file, cursor, ms) ==
    \A i \in DOMAIN file : IsMedia(file[i]) =>
      \A n \in file[i][2] .. cursor - 1 : n \in ms \/ Holds(file, n)

\* The last initialization of the file; 0 when it has none.
EndsWith(file, m) ==
    /\ m = 0 => \A i \in DOMAIN file : IsMedia(file[i])
    /\ m # 0 => \E k \in DOMAIN file :
         file[k] = Init_(m) /\ \A j \in DOMAIN file : k < j => IsMedia(file[j])

Keeps(file, ks) == \A n \in ks : Holds(file, n)

LEMMA LineIs ==
    ASSUME NEW ps, NEW n \in Nat, NEW rest \in Seq(Units),
           \A o \in 0 .. n - 1 : ps[o] \in Units
    PROVE  /\ Line(ps, n, rest) \in Seq(Units) /\ Len(Line(ps, n, rest)) = n + Len(rest)
           /\ DOMAIN Line(ps, n, rest) = 1 .. n + Len(rest)
           /\ \A i \in 1 .. n + Len(rest) :
                Line(ps, n, rest)[i] = IF i <= n THEN ps[i - 1] ELSE rest[i - n]
<1> DEFINE k == n + Len(rest)
           f == [i \in 1 .. k |-> IF i <= n THEN ps[i - 1] ELSE rest[i - n]]
<1>1. Len(rest) \in Nat /\ k \in Nat
  BY LenProperties
<1>2. ASSUME NEW i \in 1 .. k PROVE (IF i <= n THEN ps[i - 1] ELSE rest[i - n]) \in Units
  <2>1. CASE i <= n
    <3>1. i - 1 \in 0 .. n - 1
      BY <1>1, <2>1
    <3> QED
      BY <2>1, <3>1
  <2>2. CASE ~ (i <= n)
    <3>1. i - n \in 1 .. Len(rest)
      BY <1>1, <2>2
    <3> QED
      BY <2>2, <3>1, ElementOfSeq
  <2> QED
    BY <2>1, <2>2
<1>3. f \in [1 .. k -> Units]
  BY <1>2
<1>4. \A i \in 1 .. k : f[i] = IF i <= n THEN ps[i - 1] ELSE rest[i - n]
  OBVIOUS
<1>5. f = Line(ps, n, rest)
  BY DEF Line
<1> HIDE DEF f, k
<1>6. f \in Seq(Units) /\ Len(f) = k /\ DOMAIN f = 1 .. k
  BY <1>1, <1>3, FunctionIsSeq
<1> QED
  BY <1>4, <1>5, <1>6 DEF k

\* The bare parts are the beginning of any line.
LEMMA LineBase ==
    ASSUME NEW ps, NEW n \in Nat, \A o \in 0 .. n - 1 : ps[o] \in Units
    PROVE  /\ Line(ps, n, <<>>) \in Seq(Units) /\ Len(Line(ps, n, <<>>)) = n
           /\ DOMAIN Line(ps, n, <<>>) = 1 .. n
           /\ \A i \in 1 .. n : Line(ps, n, <<>>)[i] = ps[i - 1]
<1> DEFINE f == [i \in 1 .. n |-> ps[i - 1]]
<1>1. \A i \in 1 .. n : i - 1 \in 0 .. n - 1
  OBVIOUS
<1>2. f \in [1 .. n -> Units]
  BY <1>1
<1>3. \A i \in 1 .. n : f[i] = ps[i - 1]
  OBVIOUS
<1>4. Line(ps, n, <<>>) = f
  <2>1. n + Len(<<>>) = n /\ \A i \in 1 .. n : i <= n
    OBVIOUS
  <2> QED
    BY <2>1 DEF Line
<1> HIDE DEF f
<1>5. f \in Seq(Units) /\ Len(f) = n /\ DOMAIN f = 1 .. n
  BY <1>2, FunctionIsSeq
<1> QED
  BY <1>3, <1>4, <1>5

\* A commit moves the first unit of the rest to the parts: the line is the same.
LEMMA LineKept ==
    ASSUME NEW ps, NEW qs, NEW n \in Nat, NEW rest \in Seq(Units), rest # <<>>,
           \A o \in 0 .. n : qs[o] = IF o = n THEN rest[1] ELSE ps[o]
    PROVE  Line(qs, n + 1, Tail(rest)) = Line(ps, n, rest)
<1> DEFINE k == Len(rest)
           tail == Tail(rest)
<1>1. k \in Nat /\ k > 0 /\ Len(tail) = k - 1 /\ \A i \in 1 .. k - 1 : tail[i] = rest[i + 1]
  BY LenProperties, HeadTailProperties, EmptySeq
<1> HIDE DEF k, tail
<1>2. (n + 1) + Len(tail) = n + k
  BY <1>1
<1>3. ASSUME NEW i \in 1 .. n + k
      PROVE  (IF i <= n + 1 THEN qs[i - 1] ELSE tail[i - (n + 1)])
               = (IF i <= n THEN ps[i - 1] ELSE rest[i - n])
  <2>1. CASE i <= n
    <3>1. i - 1 \in 0 .. n /\ i - 1 # n /\ i <= n + 1
      BY <1>1, <2>1
    <3> QED
      BY <2>1, <3>1
  <2>2. CASE i = n + 1
    <3>1. n \in 0 .. n /\ i - 1 = n /\ i - n = 1 /\ i <= n + 1 /\ ~ (i <= n)
      BY <2>2
    <3>2. qs[n] = rest[1]
      BY <3>1
    <3> QED
      BY <3>1, <3>2
  <2>3. CASE i > n + 1
    <3>1. i - (n + 1) \in 1 .. k - 1 /\ (i - (n + 1)) + 1 = i - n
          /\ ~ (i <= n + 1) /\ ~ (i <= n)
      BY <1>1, <2>3
    <3>2. tail[i - (n + 1)] = rest[(i - (n + 1)) + 1]
      BY <1>1, <3>1
    <3> QED
      BY <3>1, <3>2
  <2> QED
    BY <1>1, <2>1, <2>2, <2>3
<1>4. /\ Line(qs, n + 1, tail) = [i \in 1 .. n + k |->
                                    IF i <= n + 1 THEN qs[i - 1] ELSE tail[i - (n + 1)]]
      /\ Line(ps, n, rest) = [i \in 1 .. n + k |-> IF i <= n THEN ps[i - 1] ELSE rest[i - n]]
  BY <1>2 DEF Line, k
<1> QED
  BY <1>3, <1>4 DEF tail

LEMMA EmptyFormed ==
    ASSUME NEW cursor, NEW ms
    PROVE  Formed(<<>>, cursor) /\ Gapless(<<>>, cursor, ms) /\ EndsWith(<<>>, 0)
  BY DEF Formed, Gapless, EndsWith

\* A file that plays and has no initialization is empty.
LEMMA NoInitNoFile ==
    ASSUME NEW file \in Seq(Units), NEW cursor, Formed(file, cursor), EndsWith(file, 0)
    PROVE  Len(file) = 0
<1>1. DOMAIN file = 1 .. Len(file) /\ Len(file) \in Nat
  BY LenProperties
<1>2. ASSUME Len(file) > 0 PROVE FALSE
  <2>1. 1 \in DOMAIN file /\ IsMedia(file[1])
    BY <1>1, <1>2 DEF EndsWith
  <2>2. PICK k \in DOMAIN file : k < 1
    BY <2>1 DEF Formed
  <2> QED
    BY <1>1, <2>2
<1> QED
  BY <1>1, <1>2

LEMMA NoPlan ==
    ASSUME NEW from \in Nat, NEW to \in Nat, to < from, NEW last
    PROVE  Plan(from, to, last) = <<>>
<1> DEFINE n == to + 1 - from
<1>1. /\ MapChange \notin from + 1 .. to /\ ~ (from <= to) /\ ~ (to + 1 <= to)
      /\ (to + 1) - 1 = to /\ to + 1 - (to + 1) = 0 /\ 1 .. n = 1 .. 0
  BY RecordingAssumption
<1>2. /\ [i \in 1 .. n |-> Media(from + i - 1)] = <<>>
      /\ [i \in 1 .. 0 |-> Media(to + 1 + i - 1)] = <<>>
  BY <1>1
<1>3. <<>> \o <<>> = <<>>
  OBVIOUS
<1> QED
  BY <1>1, <1>2, <1>3 DEF Plan

LEMMA PlanTyped ==
    ASSUME NEW from \in Nat \ {0}, NEW to \in Nat, to <= MaxSeq, NEW last \in 0 .. 2
    PROVE  Plan(from, to, last) \in Seq(Units)
<1>1. CASE from <= to
  BY <1>1, PlanShape DEF Shaped
<1>2. CASE to < from
  <2>1. <<>> \in Seq(Units)
    OBVIOUS
  <2> QED
    BY <1>2, <2>1, NoPlan
<1> QED
  BY <1>1, <1>2

\* The same with nothing to record.
LEMMA PlanFollowsOn ==
    ASSUME NEW from \in Nat \ {0}, NEW to \in Nat, from <= to + 1, to <= MaxSeq,
           NEW last \in 0 .. 2, last = 2 => MapChange < from
    PROVE  Follows(Plan(from, to, last), from, to, last)
<1>1. CASE from <= to
  BY <1>1, PlanFollows
<1>2. CASE from = to + 1
  <2>1. Plan(from, to, last) = <<>>
    BY <1>2, NoPlan
  <2>2. <<>> \in Seq(Units) /\ DOMAIN <<>> = {} /\ from .. to = {}
    BY <1>2
  <2> HIDE DEF Plan
  <2> QED
    BY <2>1, <2>2 DEF Follows
<1> QED
  BY <1>1, <1>2

\* The file is the base and the units after it.
Joined(file, base, p) ==
    /\ base \in Seq(Units) /\ p \in Seq(Units) /\ file \in Seq(Units)
    /\ DOMAIN base = 1 .. Len(base) /\ DOMAIN p = 1 .. Len(p)
    /\ DOMAIN file = 1 .. Len(base) + Len(p)
    /\ Len(base) \in Nat /\ Len(p) \in Nat
    /\ \A i \in 1 .. Len(base) : file[i] = base[i]
    /\ \A i \in DOMAIN file : i > Len(base) =>
         i - Len(base) \in DOMAIN p /\ file[i] = p[i - Len(base)]
    /\ \A i \in DOMAIN p : Len(base) + i \in DOMAIN file /\ file[Len(base) + i] = p[i]

LEMMA LineJoins ==
    ASSUME NEW ps, NEW n \in Nat, NEW rest \in Seq(Units),
           \A o \in 0 .. n - 1 : ps[o] \in Units
    PROVE  Joined(Line(ps, n, rest), Line(ps, n, <<>>), rest) /\ Len(Line(ps, n, <<>>)) = n
<1> DEFINE file == Line(ps, n, rest)
           base == Line(ps, n, <<>>)
<1>1. /\ file \in Seq(Units) /\ DOMAIN file = 1 .. n + Len(rest)
      /\ \A i \in 1 .. n + Len(rest) : file[i] = IF i <= n THEN ps[i - 1] ELSE rest[i - n]
  BY LineIs
<1>2. /\ base \in Seq(Units) /\ Len(base) = n /\ DOMAIN base = 1 .. n
      /\ \A i \in 1 .. n : base[i] = ps[i - 1]
  BY LineBase
<1>3. Len(rest) \in Nat /\ DOMAIN rest = 1 .. Len(rest)
  BY LenProperties
<1> HIDE DEF file, base
<1>4. \A i \in 1 .. n : file[i] = base[i]
  BY <1>1, <1>2, <1>3
<1>5. \A i \in 1 .. n + Len(rest) : i > n => i - n \in 1 .. Len(rest) /\ file[i] = rest[i - n]
  BY <1>1, <1>3
<1>6. ASSUME NEW i \in 1 .. Len(rest)
      PROVE  n + i \in 1 .. n + Len(rest) /\ file[n + i] = rest[i]
  <2>1. n + i \in 1 .. n + Len(rest) /\ ~ (n + i <= n) /\ (n + i) - n = i
    BY <1>3
  <2> QED
    BY <1>1, <2>1
<1>7. Joined(file, base, rest) /\ Len(base) = n
  BY <1>1, <1>2, <1>3, <1>4, <1>5, <1>6 DEF Joined
<1> QED
  BY <1>7 DEF file, base

\* The last initialization of a file is the greatest.
LEMMA LastIsGreatest ==
    ASSUME NEW file \in Seq(Units), NEW cursor, NEW m \in 0 .. 2,
           Formed(file, cursor), EndsWith(file, m)
    PROVE  /\ \A i \in DOMAIN file : ~ IsMedia(file[i]) => m # 0 /\ file[i][2] <= m
           /\ m = 2 => MapChange < cursor
<1>1. CASE m = 0
  BY <1>1 DEF EndsWith
<1>2. CASE m # 0
  <2>1. PICK k \in DOMAIN file :
          file[k] = Init_(m) /\ \A j \in DOMAIN file : k < j => IsMedia(file[j])
    BY <1>2 DEF EndsWith
  <2>2. DOMAIN file = 1 .. Len(file) /\ Len(file) \in Nat
    BY LenProperties
  <2>3. ~ IsMedia(file[k]) /\ file[k][2] = m
    BY <2>1, UnitNames
  <2>4. ASSUME NEW i \in DOMAIN file, ~ IsMedia(file[i]) PROVE file[i][2] <= m
    <3>1. ~ (k < i)
      BY <2>1, <2>4
    <3>2. CASE i = k
      BY <2>3, <3>2
    <3>3. CASE i < k
      <4>1. file[i][2] < file[k][2]
        BY <2>3, <2>4, <3>3 DEF Formed
      <4>2. file[i] \in Units
        BY <2>2
      <4>3. file[i][2] \in Nat
        BY <2>4, <4>2, UnitKinds
      <4> QED
        BY <2>3, <4>1, <4>3
    <3> QED
      BY <2>2, <3>1, <3>2, <3>3
  <2>5. m = 2 => MapChange < cursor
    BY <2>1 DEF Formed
  <2> QED
    BY <1>2, <2>4, <2>5
<1> QED
  BY <1>1, <1>2

\* A plan recorded behind a file that plays makes one that plays.
LEMMA JoinForms ==
    ASSUME NEW file, NEW base, NEW p, Joined(file, base, p),
           NEW cursor \in Nat, NEW from \in Nat, NEW to \in Nat, NEW last \in 0 .. 2,
           cursor <= from, from <= to + 1,
           Formed(base, cursor), EndsWith(base, last), Follows(p, from, to, last)
    PROVE  Formed(file, to + 1)
<1> DEFINE n == Len(base)
<1>1. /\ n \in Nat /\ DOMAIN base = 1 .. n /\ Len(p) \in Nat /\ DOMAIN p = 1 .. Len(p)
      /\ DOMAIN file = 1 .. n + Len(p)
      /\ \A i \in 1 .. n : file[i] = base[i]
      /\ \A i \in DOMAIN file : i > n => i - n \in DOMAIN p /\ file[i] = p[i - n]
      /\ \A i \in DOMAIN p : n + i \in DOMAIN file /\ file[n + i] = p[i]
  BY DEF Joined
<1>2. base \in Seq(Units) /\ p \in Seq(Units) /\ file \in Seq(Units)
  BY DEF Joined
<1>3. MapChange \in Nat
  BY RecordingAssumption
<1>4. \A i \in DOMAIN file :
        /\ IsMedia(file[i]) => file[i][2] \in Nat
        /\ ~ IsMedia(file[i]) => file[i][2] \in 1 .. 2
  <2>1. \A i \in DOMAIN file : file[i] \in Units
    BY <1>2, LenProperties, ElementOfSeq
  <2> QED
    BY <2>1, UnitKinds
<1> HIDE DEF n
<1>5. ASSUME NEW i \in DOMAIN file, NEW j \in DOMAIN file, i < j,
             IsMedia(file[i]), IsMedia(file[j])
      PROVE  file[i][2] < file[j][2]
  <2>1. CASE j <= n
    <3>1. i \in DOMAIN base /\ j \in DOMAIN base /\ file[i] = base[i] /\ file[j] = base[j]
      BY <1>1, <1>5, <2>1
    <3> QED
      BY <1>5, <3>1 DEF Formed
  <2>2. CASE i <= n /\ j > n
    <3>1. i \in DOMAIN base /\ file[i] = base[i] /\ j - n \in DOMAIN p /\ file[j] = p[j - n]
      BY <1>1, <2>2
    <3>2. file[i][2] < cursor
      BY <1>5, <3>1 DEF Formed
    <3>3. from <= file[j][2]
      BY <1>5, <3>1 DEF Follows
    <3> QED
      BY <1>4, <1>5, <3>2, <3>3
  <2>3. CASE i > n
    <3>1. i - n \in DOMAIN p /\ j - n \in DOMAIN p /\ i - n < j - n
          /\ file[i] = p[i - n] /\ file[j] = p[j - n]
      BY <1>1, <1>5, <2>3
    <3> QED
      BY <1>5, <3>1 DEF Follows
  <2> QED
    BY <1>1, <2>1, <2>2, <2>3
<1>6. ASSUME NEW i \in DOMAIN file, IsMedia(file[i])
      PROVE  \E k \in DOMAIN file :
                /\ k < i /\ file[k] = Init_(MapOf(file[i][2]))
                /\ \A m \in DOMAIN file : k < m /\ m < i => IsMedia(file[m])
  <2>1. CASE i <= n
    <3>1. i \in DOMAIN base /\ IsMedia(base[i]) /\ file[i] = base[i]
      BY <1>1, <1>6, <2>1
    <3>2. PICK k \in DOMAIN base :
             /\ k < i /\ base[k] = Init_(MapOf(base[i][2]))
             /\ \A m \in DOMAIN base : k < m /\ m < i => IsMedia(base[m])
      BY <3>1 DEF Formed
    <3>3. k \in DOMAIN file /\ file[k] = base[k]
      BY <1>1
    <3>4. \A m \in DOMAIN file : k < m /\ m < i => IsMedia(file[m])
      <4>1. \A m \in DOMAIN file : m < i => m \in DOMAIN base /\ file[m] = base[m]
        BY <1>1, <2>1
      <4> QED
        BY <3>2, <4>1
    <3> QED
      BY <3>1, <3>2, <3>3, <3>4
  <2>2. CASE i > n
    <3>1. i - n \in DOMAIN p /\ IsMedia(p[i - n]) /\ file[i] = p[i - n]
      BY <1>1, <1>6, <2>2
    <3>2. CASE \E k \in DOMAIN p :
                  /\ k < i - n /\ p[k] = Init_(MapOf(p[i - n][2]))
                  /\ \A m \in DOMAIN p : k < m /\ m < i - n => IsMedia(p[m])
      <4>1. PICK k \in DOMAIN p :
                  /\ k < i - n /\ p[k] = Init_(MapOf(p[i - n][2]))
                  /\ \A m \in DOMAIN p : k < m /\ m < i - n => IsMedia(p[m])
        BY <3>2
      <4>2. n + k \in DOMAIN file /\ n + k < i /\ file[n + k] = p[k]
        BY <1>1, <4>1
      <4>3. ASSUME NEW m \in DOMAIN file, n + k < m, m < i PROVE IsMedia(file[m])
        <5>1. m > n /\ k < m - n /\ m - n < i - n
          BY <1>1, <4>3
        <5>2. m - n \in DOMAIN p /\ file[m] = p[m - n]
          BY <1>1, <5>1
        <5> QED
          BY <4>1, <5>1, <5>2
      <4> QED
        BY <3>1, <4>1, <4>2, <4>3
    <3>3. CASE /\ last = MapOf(p[i - n][2])
               /\ \A m \in DOMAIN p : m < i - n => IsMedia(p[m])
      <4>0. p[i - n][2] \in Nat
        BY <1>4, <1>6, <3>1
      <4>1. last # 0
        BY <3>3, <4>0, MapIs
      <4>2. PICK k \in DOMAIN base :
              base[k] = Init_(last) /\ \A j \in DOMAIN base : k < j => IsMedia(base[j])
        BY <4>1 DEF EndsWith
      <4>3. k \in DOMAIN file /\ k < i /\ file[k] = base[k]
        BY <1>1, <2>2
      <4>4. ASSUME NEW m \in DOMAIN file, k < m, m < i PROVE IsMedia(file[m])
        <5>1. CASE m <= n
          <6>1. m \in DOMAIN base /\ file[m] = base[m]
            BY <1>1, <5>1
          <6> QED
            BY <4>2, <4>4, <6>1
        <5>2. CASE m > n
          <6>1. m - n \in DOMAIN p /\ file[m] = p[m - n] /\ m - n < i - n
            BY <1>1, <4>4, <5>2
          <6> QED
            BY <3>3, <6>1
        <5> QED
          BY <1>1, <5>1, <5>2
      <4> QED
        BY <3>1, <3>3, <4>2, <4>3, <4>4
    <3> QED
      BY <3>1, <3>2, <3>3 DEF Follows
  <2> QED
    BY <1>1, <2>1, <2>2
<1>7. ASSUME NEW i \in DOMAIN file, NEW j \in DOMAIN file, i < j,
             ~ IsMedia(file[i]), ~ IsMedia(file[j])
      PROVE  file[i][2] < file[j][2]
  <2>1. CASE j <= n
    <3>1. i \in DOMAIN base /\ j \in DOMAIN base /\ file[i] = base[i] /\ file[j] = base[j]
      BY <1>1, <1>7, <2>1
    <3> QED
      BY <1>7, <3>1 DEF Formed
  <2>2. CASE i <= n /\ j > n
    <3>1. i \in DOMAIN base /\ file[i] = base[i] /\ j - n \in DOMAIN p /\ file[j] = p[j - n]
      BY <1>1, <2>2
    <3>2. file[i][2] <= last
      BY <1>2, <1>7, <3>1, LastIsGreatest
    <3>3. last < file[j][2]
      BY <1>7, <3>1 DEF Follows
    <3> QED
      BY <1>4, <1>7, <3>2, <3>3
  <2>3. CASE i > n
    <3>1. i - n \in DOMAIN p /\ j - n \in DOMAIN p /\ i - n < j - n
          /\ file[i] = p[i - n] /\ file[j] = p[j - n]
      BY <1>1, <1>7, <2>3
    <3> QED
      BY <1>7, <3>1 DEF Follows
  <2> QED
    BY <1>1, <2>1, <2>2, <2>3
<1>8. ASSUME NEW i \in DOMAIN file
      PROVE  /\ IsMedia(file[i]) => file[i][2] < to + 1
             /\ file[i] = Init_(2) => MapChange < to + 1
  <2>1. CASE i <= n
    <3>1. i \in DOMAIN base /\ file[i] = base[i]
      BY <1>1, <2>1
    <3>2. /\ IsMedia(file[i]) => file[i][2] < cursor
          /\ file[i] = Init_(2) => MapChange < cursor
      BY <3>1 DEF Formed
    <3> QED
      BY <1>3, <1>4, <3>2
  <2>2. CASE i > n
    <3>1. i - n \in DOMAIN p /\ file[i] = p[i - n]
      BY <1>1, <2>2
    <3>2. /\ IsMedia(file[i]) => file[i][2] <= to
          /\ file[i] = Init_(2) => MapChange <= to
      BY <3>1 DEF Follows
    <3> QED
      BY <1>3, <1>4, <3>2
  <2> QED
    BY <1>1, <2>1, <2>2
<1> QED
  BY <1>5, <1>6, <1>7, <1>8 DEF Formed

\* ... and leaves nothing out but what had left the playlist.
LEMMA JoinIsGapless ==
    ASSUME NEW file, NEW base, NEW p, Joined(file, base, p), NEW ms,
           NEW cursor \in Nat, NEW from \in Nat, NEW to \in Nat, NEW last,
           cursor <= from, from <= to + 1,
           Gapless(base, cursor, ms), Follows(p, from, to, last),
           NEW gone, cursor .. from - 1 \subseteq gone
    PROVE  Gapless(file, to + 1, ms \cup gone)
<1> DEFINE n == Len(base)
<1>1. /\ n \in Nat /\ DOMAIN base = 1 .. n /\ Len(p) \in Nat /\ DOMAIN p = 1 .. Len(p)
      /\ DOMAIN file = 1 .. n + Len(p)
      /\ \A i \in 1 .. n : file[i] = base[i]
      /\ \A i \in DOMAIN file : i > n => i - n \in DOMAIN p /\ file[i] = p[i - n]
      /\ \A i \in DOMAIN p : n + i \in DOMAIN file /\ file[n + i] = p[i]
  BY DEF Joined
<1>2. \A i \in DOMAIN file : IsMedia(file[i]) => file[i][2] \in Nat
  <2>1. \A i \in DOMAIN file : file[i] \in Units
    BY ElementOfSeq, LenProperties DEF Joined
  <2> QED
    BY <2>1, UnitKinds
<1> HIDE DEF n
<1>3. \A v : Holds(base, v) \/ Holds(p, v) => Holds(file, v)
  BY <1>1 DEF Holds
<1>4. \A v \in from .. to : Holds(p, v)
  BY DEF Follows, Holds
<1> SUFFICES ASSUME NEW i \in DOMAIN file, IsMedia(file[i]),
                    NEW v \in file[i][2] .. (to + 1) - 1
             PROVE  v \in ms \cup gone \/ Holds(file, v)
  BY DEF Gapless
<1>5. file[i][2] \in Nat /\ v \in Nat /\ v <= to
  BY <1>2
<1>6. CASE v >= from
  BY <1>3, <1>4, <1>5, <1>6
<1>7. CASE v < from
  <2>1. i <= n
    <3>1. ASSUME i > n PROVE FALSE
      <4>1. i - n \in DOMAIN p /\ file[i] = p[i - n]
        BY <1>1, <3>1
      <4>2. from <= file[i][2]
        BY <4>1 DEF Follows
      <4> QED
        BY <1>5, <1>7, <4>2
    <3> QED
      BY <1>1, <3>1
  <2>2. i \in DOMAIN base /\ file[i] = base[i]
    BY <1>1, <2>1
  <2>3. CASE v < cursor
    <3>1. v \in base[i][2] .. cursor - 1
      BY <1>5, <2>2, <2>3
    <3>2. v \in ms \/ Holds(base, v)
      BY <2>2, <3>1 DEF Gapless
    <3> QED
      BY <1>3, <3>2
  <2>4. CASE v >= cursor
    <3>1. v \in cursor .. from - 1
      BY <1>5, <1>7, <2>4
    <3> QED
      BY <3>1
  <2> QED
    BY <1>5, <2>3, <2>4
<1> QED
  BY <1>5, <1>6, <1>7

-----------------------------------------------------------------------------
(* What a checkpoint and a plan stand for                                   *)

\* The parts up to the checkpoint's order, and the units still to be committed, are
\* a recording that plays up to its cursor; the parts alone end with the
\* checkpoint's initialization and hold the segments ks.
Sound(ps, ck, rest, h, ks, ms) ==
    /\ ck \in Checkpoints /\ rest \in Seq(Units)
    /\ 0 .. ck.order - 1 \subseteq DOMAIN ps /\ \A o \in 0 .. ck.order - 1 : ps[o] \in Units
    /\ ck.order + Len(rest) > 0 /\ 1 <= ck.cursor /\ ck.cursor <= h + 1
    /\ Formed(Line(ps, ck.order, rest), ck.cursor)
    /\ Gapless(Line(ps, ck.order, rest), ck.cursor, ms)
    /\ EndsWith(Line(ps, ck.order, <<>>), ck.init)
    /\ Keeps(Line(ps, ck.order, <<>>), ks)

LEMMA CheckpointIs ==
    ASSUME NEW ck \in Checkpoints
    PROVE  ck.cursor \in 0 .. MaxSeq + 1 /\ ck.order \in Nat /\ ck.init \in 0 .. 2
  BY DEF Checkpoints

LEMMA NewIsCheckpoint ==
    /\ NewCheckpoint \in Checkpoints /\ NewCheckpoint.order = 0
    /\ NewCheckpoint.cursor = 0 /\ NewCheckpoint.init = 0
  BY RecordingAssumption DEF NewCheckpoint, Checkpoints

LEMMA SoundLasts ==
    ASSUME NEW ps, NEW ck, NEW rest, NEW h \in Nat, NEW ks, NEW ms,
           Sound(ps, ck, rest, h, ks, ms),
           NEW hh \in Nat, h <= hh, NEW kks \in SUBSET ks, NEW mms, ms \subseteq mms
    PROVE  Sound(ps, ck, rest, hh, kks, mms)
<1>0. ck \in Checkpoints
  BY DEF Sound
<1>1. ck.cursor \in Nat
  BY <1>0, CheckpointIs, RecordingAssumption
<1>2. ck.cursor <= hh + 1
  BY <1>1 DEF Sound
<1>3. \A file, c : Gapless(file, c, ms) => Gapless(file, c, mms)
  BY DEF Gapless
<1>4. \A file : Keeps(file, ks) => Keeps(file, kks)
  BY DEF Keeps
<1> QED
  BY <1>2, <1>3, <1>4 DEF Sound

\* Only the parts before the order count.
LEMMA LineElsewhere ==
    ASSUME NEW ps, NEW qs, NEW n \in Nat, NEW rest \in Seq(Units),
           \A o \in 0 .. n - 1 : qs[o] = ps[o]
    PROVE  Line(qs, n, rest) = Line(ps, n, rest)
<1>1. Len(rest) \in Nat
  BY LenProperties
<1>2. ASSUME NEW i \in 1 .. n + Len(rest)
      PROVE  (IF i <= n THEN qs[i - 1] ELSE rest[i - n])
               = (IF i <= n THEN ps[i - 1] ELSE rest[i - n])
  <2>1. i <= n => i - 1 \in 0 .. n - 1
    BY <1>1
  <2> QED
    BY <2>1
<1> QED
  BY <1>2 DEF Line

LEMMA SoundElsewhere ==
    ASSUME NEW ps, NEW ck, NEW rest, NEW h, NEW ks, NEW ms, Sound(ps, ck, rest, h, ks, ms),
           NEW qs, DOMAIN ps \subseteq DOMAIN qs, \A o \in 0 .. ck.order - 1 : qs[o] = ps[o]
    PROVE  Sound(qs, ck, rest, h, ks, ms)
<1>0. ck \in Checkpoints /\ rest \in Seq(Units)
  BY DEF Sound
<1>1. ck.order \in Nat /\ rest \in Seq(Units) /\ <<>> \in Seq(Units)
  BY <1>0, CheckpointIs
<1>2. /\ Line(qs, ck.order, rest) = Line(ps, ck.order, rest)
      /\ Line(qs, ck.order, <<>>) = Line(ps, ck.order, <<>>)
  BY <1>1, LineElsewhere
<1> QED
  BY <1>2 DEF Sound

LEMMA HoldsMore ==
    ASSUME NEW file, NEW base, NEW p, Joined(file, base, p), NEW ks, Keeps(base, ks)
    PROVE  Keeps(file, ks)
<1>1. DOMAIN base \subseteq DOMAIN file /\ \A i \in DOMAIN base : file[i] = base[i]
  BY DEF Joined
<1> QED
  BY <1>1 DEF Keeps, Holds

LEMMA EndsAfter ==
    ASSUME NEW file, NEW base, NEW u \in Units, Joined(file, base, <<u>>),
           NEW m \in 0 .. 2, EndsWith(base, m)
    PROVE  EndsWith(file, IF IsMedia(u) THEN m ELSE u[2])
<1> DEFINE n == Len(base)
<1>1. /\ n \in Nat /\ DOMAIN base = 1 .. n /\ DOMAIN file = 1 .. n + 1
      /\ \A i \in 1 .. n : file[i] = base[i]
      /\ file[n + 1] = u
  <2>1. Len(<<u>>) = 1 /\ <<u>>[1] = u /\ 1 \in DOMAIN <<u>>
    OBVIOUS
  <2> QED
    BY <2>1 DEF Joined
<1> HIDE DEF n
<1>2. CASE IsMedia(u)
  <2>1. \A j \in DOMAIN file : (j \in DOMAIN base /\ file[j] = base[j]) \/ IsMedia(file[j])
    BY <1>1, <1>2
  <2>2. \A j \in DOMAIN base : j \in DOMAIN file /\ file[j] = base[j]
    BY <1>1
  <2> QED
    BY <1>2, <2>1, <2>2 DEF EndsWith
<1>3. CASE ~ IsMedia(u)
  <2>1. u = Init_(u[2]) /\ u[2] # 0
    BY <1>3, UnitKinds
  <2>2. n + 1 \in DOMAIN file /\ \A j \in DOMAIN file : ~ (n + 1 < j)
    BY <1>1
  <2> QED
    BY <1>1, <1>3, <2>1, <2>2 DEF EndsWith
<1> QED
  BY <1>2, <1>3

\* A commit: the first unit of the rest becomes the part after the last.
LEMMA SoundCommits ==
    ASSUME NEW ps, NEW ck, NEW rest, NEW h, NEW ks, NEW ms, Sound(ps, ck, rest, h, ks, ms),
           rest # <<>>, NEW qs, 0 .. ck.order \subseteq DOMAIN qs,
           \A o \in 0 .. ck.order : qs[o] = IF o = ck.order THEN rest[1] ELSE ps[o],
           NEW next \in Checkpoints, next.order = ck.order + 1, next.cursor = ck.cursor,
           next.init = IF IsMedia(rest[1]) THEN ck.init ELSE rest[1][2]
    PROVE  Sound(qs, next, Tail(rest), h, ks, ms)
<1> DEFINE n == ck.order
           u == rest[1]
           tail == Tail(rest)
           m == IF IsMedia(u) THEN ck.init ELSE u[2]
<1>1. /\ ck \in Checkpoints /\ rest \in Seq(Units) /\ n \in Nat /\ ck.init \in 0 .. 2
      /\ \A o \in 0 .. n - 1 : ps[o] \in Units
  BY CheckpointIs DEF Sound
<1>2. /\ Len(rest) \in Nat /\ Len(rest) > 0 /\ tail \in Seq(Units) /\ Len(tail) = Len(rest) - 1
      /\ u \in Units
  BY <1>1, LenProperties, HeadTailProperties, EmptySeq, ElementOfSeq
<1>3. m \in 0 .. 2
  BY <1>1, <1>2, UnitKinds
<1>4. next \in Checkpoints /\ next.order = n + 1 /\ next.init = m /\ next.cursor = ck.cursor
  OBVIOUS
<1>5. Line(qs, n + 1, tail) = Line(ps, n, rest)
  BY <1>1, LineKept
<1>6. Line(qs, n + 1, <<>>) = Line(ps, n, <<u>>)
  <2>1. <<u>> \in Seq(Units) /\ <<u>> # <<>> /\ Tail(<<u>>) = <<>> /\ <<u>>[1] = u
    BY <1>2
  <2>2. \A o \in 0 .. n : qs[o] = IF o = n THEN <<u>>[1] ELSE ps[o]
    BY <2>1
  <2> HIDE DEF n, u
  <2>3. Line(qs, n + 1, Tail(<<u>>)) = Line(ps, n, <<u>>)
    BY <1>1, <2>1, <2>2, LineKept
  <2> QED
    BY <2>1, <2>3
<1>7. Joined(Line(ps, n, <<u>>), Line(ps, n, <<>>), <<u>>)
  <2>1. <<u>> \in Seq(Units)
    BY <1>2
  <2> QED
    BY <1>1, <2>1, LineJoins
<1>8. EndsWith(Line(qs, n + 1, <<>>), m) /\ Keeps(Line(qs, n + 1, <<>>), ks)
  <2>1. EndsWith(Line(ps, n, <<>>), ck.init) /\ Keeps(Line(ps, n, <<>>), ks)
    BY DEF Sound
  <2> HIDE DEF n, u
  <2> QED
    BY <1>1, <1>2, <1>6, <1>7, <2>1, EndsAfter, HoldsMore
<1>9. \A o \in 0 .. n : qs[o] \in Units
  BY <1>1, <1>2
<1>10. /\ ck.order + Len(rest) > 0 /\ 1 <= ck.cursor /\ ck.cursor <= h + 1
       /\ Formed(Line(ps, n, rest), ck.cursor) /\ Gapless(Line(ps, n, rest), ck.cursor, ms)
  BY DEF Sound
<1>11. next.order - 1 = n /\ next.order + Len(tail) > 0
  BY <1>1, <1>2, <1>4
<1> HIDE DEF n, u, m
<1> QED
  BY <1>2, <1>4, <1>5, <1>8, <1>9, <1>10, <1>11 DEF Sound, n

LEMMA CursorTyped ==
    ASSUME NEW h \in Nat \ {0}, h <= MaxSeq
    PROVE  h + 1 \in 0 .. MaxSeq + 1 /\ h + 1 \in Nat
  BY RecordingAssumption

LEMMA FirstIs ==
    ASSUME NEW h \in Nat \ {0}
    PROVE  First(h) \in 1 .. h
  BY RecordingAssumption DEF First

\* The first plan of a recording, or of a finished video.
LEMMA PlanPlays ==
    ASSUME NEW h \in Nat \ {0}, h <= MaxSeq, NEW ms
    PROVE  /\ Plan(First(h), h, 0) \in Seq(Units) /\ Len(Plan(First(h), h, 0)) > 0
           /\ Formed(Plan(First(h), h, 0), h + 1) /\ Gapless(Plan(First(h), h, 0), h + 1, ms)
<1> DEFINE from == First(h)
           p == Plan(from, h, 0)
<1>1. from \in Nat \ {0} /\ from <= h
  BY FirstIs
<1> HIDE DEF from
<1>2. Follows(p, from, h, 0)
  BY <1>1, PlanFollows
<1> HIDE DEF p
<1>3. p \in Seq(Units) /\ Len(p) \in Nat /\ DOMAIN p = 1 .. Len(p)
  BY <1>2, LenProperties DEF Follows
<1>4. Joined(p, <<>>, p)
  <2>1. <<>> \in Seq(Units) /\ Len(<<>>) = 0 /\ DOMAIN <<>> = 1 .. 0
    OBVIOUS
  <2>2. \A i \in 1 .. Len(p) : i - 0 = i /\ 0 + i = i
    BY <1>3
  <2>3. 0 + Len(p) = Len(p)
    BY <1>3
  <2> QED
    BY <1>3, <2>1, <2>2, <2>3 DEF Joined
<1>5. Formed(<<>>, from) /\ Gapless(<<>>, from, ms) /\ EndsWith(<<>>, 0)
  BY EmptyFormed
<1>6. Formed(p, h + 1)
  <2>1. from <= from /\ from <= h + 1
    BY <1>1
  <2> QED
    BY <1>1, <1>2, <1>4, <1>5, <2>1, JoinForms
<1>7. Gapless(p, h + 1, ms)
  <2>1. from <= from /\ from <= h + 1 /\ from .. from - 1 \subseteq {} /\ ms \cup {} = ms
    BY <1>1
  <2>2. Gapless(p, h + 1, ms \cup {})
    BY <1>1, <1>2, <1>4, <1>5, <2>1, JoinIsGapless
  <2> QED
    BY <2>1, <2>2
<1>8. Len(p) > 0
  <2>1. \E i \in DOMAIN p : p[i] = Media(from)
    BY <1>1, <1>2 DEF Follows
  <2> QED
    BY <1>3, <2>1
<1> QED
  BY <1>3, <1>6, <1>7, <1>8 DEF p, from

\* Nothing committed yet: the line is the plan.
LEMMA LineOfPlan ==
    ASSUME NEW ps, NEW rest \in Seq(Units)
    PROVE  Line(ps, 0, rest) = rest
<1>1. Joined(Line(ps, 0, rest), Line(ps, 0, <<>>), rest) /\ Len(Line(ps, 0, <<>>)) = 0
  <2>1. 0 \in Nat /\ \A o \in 0 .. 0 - 1 : ps[o] \in Units
    OBVIOUS
  <2> QED
    BY <2>1, LineJoins
<1>2. /\ Line(ps, 0, rest) \in Seq(Units) /\ Len(rest) \in Nat
      /\ DOMAIN Line(ps, 0, rest) = 1 .. Len(rest) /\ DOMAIN rest = 1 .. Len(rest)
      /\ \A i \in 1 .. Len(rest) : Line(ps, 0, rest)[i] = rest[i]
  BY <1>1 DEF Joined
<1>3. Len(Line(ps, 0, rest)) = Len(rest)
  BY <1>2, LenProperties
<1> QED
  BY <1>2, <1>3, SeqEqual

LEMMA SoundStarts ==
    ASSUME NEW ps, NEW h \in Nat \ {0}, h <= MaxSeq, NEW ms, NEW next,
           next = [NewCheckpoint EXCEPT !.cursor = h + 1]
    PROVE  Sound(ps, next, Plan(First(h), h, 0), h, {}, ms)
<1> DEFINE p == Plan(First(h), h, 0)
<1>1. /\ next \in Checkpoints /\ next.order = 0 /\ next.cursor = h + 1 /\ next.init = 0
  BY RecordingAssumption DEF NewCheckpoint, Checkpoints
<1>2. /\ p \in Seq(Units) /\ Len(p) > 0 /\ Formed(p, h + 1) /\ Gapless(p, h + 1, ms)
  BY PlanPlays
<1> HIDE DEF p
<1>3. Line(ps, 0, p) = p /\ Line(ps, 0, <<>>) = <<>>
  <2>1. <<>> \in Seq(Units)
    OBVIOUS
  <2> QED
    BY <1>2, <2>1, LineOfPlan
<1>4. EndsWith(<<>>, 0) /\ Keeps(<<>>, {})
  BY EmptyFormed DEF Keeps
<1>5. 0 .. 0 - 1 = {} /\ 0 + Len(p) > 0 /\ 1 <= h + 1 /\ h + 1 <= h + 1
  BY <1>2, LenProperties
<1> QED
  BY <1>1, <1>2, <1>3, <1>4, <1>5 DEF Sound, p

\* A checkpoint that was written stands for parts that name their initialization.
LEMMA SoundNames ==
    ASSUME NEW ps, NEW ck, NEW h, NEW ks, NEW ms, Sound(ps, ck, <<>>, h, ks, ms)
    PROVE  /\ ck.order > 0 /\ ck.init \in 1 .. 2
           /\ ck.init = 2 => MapChange < ck.cursor
<1> DEFINE base == Line(ps, ck.order, <<>>)
<1>1. /\ ck \in Checkpoints /\ \A o \in 0 .. ck.order - 1 : ps[o] \in Units
      /\ ck.order + Len(<<>>) > 0
      /\ Formed(base, ck.cursor) /\ EndsWith(base, ck.init)
  BY DEF Sound
<1>2. ck.order \in Nat /\ ck.init \in 0 .. 2 /\ ck.order > 0
  <2>1. Len(<<>>) = 0
    OBVIOUS
  <2> QED
    BY <1>1, <2>1, CheckpointIs
<1>3. base \in Seq(Units) /\ Len(base) = ck.order
  BY <1>1, <1>2, LineBase
<1> HIDE DEF base
<1>4. ck.init # 0
  BY <1>1, <1>2, <1>3, NoInitNoFile
<1>5. ck.init = 2 => MapChange < ck.cursor
  BY <1>1, <1>2, <1>3, LastIsGreatest
<1> QED
  BY <1>2, <1>4, <1>5

LEMMA SelectedIs ==
    ASSUME NEW h \in Nat \ {0}, NEW cursor \in Nat \ {0}, cursor <= h + 1,
           NEW from, from = Selected(cursor, First(h))
    PROVE  /\ from \in Nat \ {0} /\ cursor <= from /\ from <= h + 1
           /\ from = cursor \/ from = First(h)
  BY FirstIs DEF Selected

\* A refresh: the plan goes behind the parts.
LEMMA SoundExtends ==
    ASSUME NEW ps, NEW ck, NEW h \in Nat, NEW ks, NEW ms, Sound(ps, ck, <<>>, h, ks, ms),
           NEW hh \in Nat \ {0}, h <= hh, hh <= MaxSeq, NEW next,
           next = [ck EXCEPT !.cursor = hh + 1]
    PROVE  Sound(ps, next, Plan(Selected(ck.cursor, First(hh)), hh, ck.init), hh, ks,
                 ms \cup (ck.cursor .. First(hh) - 1))
<1> DEFINE from == Selected(ck.cursor, First(hh))
           p == Plan(from, hh, ck.init)
           base == Line(ps, ck.order, <<>>)
           file == Line(ps, ck.order, p)
           gone == ck.cursor .. First(hh) - 1
<1>1. /\ ck \in Checkpoints /\ \A o \in 0 .. ck.order - 1 : ps[o] \in Units
      /\ 0 .. ck.order - 1 \subseteq DOMAIN ps
      /\ 1 <= ck.cursor /\ ck.cursor <= h + 1
      /\ Formed(base, ck.cursor) /\ Gapless(base, ck.cursor, ms)
      /\ EndsWith(base, ck.init) /\ Keeps(base, ks)
  BY DEF Sound
<1>2. /\ ck.cursor \in Nat \ {0} /\ ck.cursor <= hh + 1 /\ ck.order \in Nat /\ ck.order > 0
      /\ ck.init \in 0 .. 2
      /\ ck.init = 2 => MapChange < ck.cursor
  <2>1. ck.cursor \in 0 .. MaxSeq + 1 /\ ck.order \in Nat /\ ck.init \in 0 .. 2
    BY <1>1, CheckpointIs
  <2> QED
    BY <1>1, <2>1, SoundNames, RecordingAssumption
<1>3. /\ from \in Nat \ {0} /\ ck.cursor <= from /\ from <= hh + 1
      /\ from = ck.cursor \/ from = First(hh)
  BY <1>2, SelectedIs
<1>4. ck.cursor .. from - 1 \subseteq gone
  BY <1>2, <1>3
<1> HIDE DEF from, gone, base
<1>5. Follows(p, from, hh, ck.init)
  <2>1. ck.init = 2 => MapChange < from
    BY <1>2, <1>3, RecordingAssumption
  <2> QED
    BY <1>2, <1>3, <2>1, PlanFollowsOn
<1> HIDE DEF p
<1>6. p \in Seq(Units) /\ Joined(file, base, p)
  <2>1. p \in Seq(Units)
    BY <1>5 DEF Follows
  <2> QED
    BY <1>1, <1>2, <2>1, LineJoins DEF base
<1> HIDE DEF file
<1>7. Formed(file, hh + 1)
  BY <1>1, <1>2, <1>3, <1>5, <1>6, JoinForms
<1>8. Gapless(file, hh + 1, ms \cup gone)
  BY <1>1, <1>2, <1>3, <1>4, <1>5, <1>6, JoinIsGapless
<1>9. /\ next \in Checkpoints /\ next.cursor = hh + 1 /\ next.order = ck.order
      /\ next.init = ck.init
  <2>1. hh + 1 \in 0 .. MaxSeq + 1
    BY RecordingAssumption
  <2> QED
    BY <1>1, <2>1 DEF Checkpoints
<1>10. ck.order + Len(p) > 0 /\ 1 <= hh + 1 /\ hh + 1 <= hh + 1
  BY <1>2, <1>6, LenProperties
<1>11. Sound(ps, next, p, hh, ks, ms \cup gone)
  BY <1>1, <1>6, <1>7, <1>8, <1>9, <1>10 DEF Sound, base, file
<1> QED
  BY <1>11 DEF p, from, gone

\* How long a plan is: its segments, and the second initialization when the map
\* changes in it or has changed before it.
LEMMA PlanLength ==
    ASSUME NEW from \in Nat \ {0}, NEW to \in Nat, from <= to, to <= MaxSeq,
           NEW last \in 1 .. 2, last = 2 => MapChange < from
    PROVE  Len(Plan(from, to, last))
             = (to + 1 - from) + (IF last = 1 /\ MapChange <= to THEN 1 ELSE 0)
<1>1. PICK e, t : Shaped(Plan(from, to, last), from, to, last, e, t)
  BY PlanShape
<1>2. /\ e \in {0, 1} /\ t \in from + 1 .. to + 1
      /\ e = 1 <=> MapOf(from) # last
      /\ t <= to => t = MapChange
      /\ t > to => ~ (from < MapChange /\ MapChange <= to)
      /\ Len(Plan(from, to, last)) = e + (to + 1 - from) + (IF t <= to THEN 1 ELSE 0)
  BY <1>1 DEF Shaped
<1>3. /\ MapChange \in Nat /\ MapOf(from) \in 1 .. 2
      /\ MapOf(from) = 2 <=> MapChange <= from
  BY MapIs
<1>4. CASE last = 2
  <2>1. e = 0 /\ ~ (t <= to)
    BY <1>2, <1>3, <1>4
  <2> QED
    BY <1>2, <1>4, <2>1
<1>5. CASE last = 1
  <2>1. CASE MapChange <= from
    <3>1. e = 1 /\ ~ (t <= to) /\ MapChange <= to
      BY <1>2, <1>3, <1>5, <2>1
    <3> QED
      BY <1>2, <1>5, <3>1
  <2>2. CASE from < MapChange /\ MapChange <= to
    <3>1. e = 0 /\ t <= to
      BY <1>2, <1>3, <1>5, <2>2
    <3> QED
      BY <1>2, <1>5, <2>2, <3>1
  <2>3. CASE to < MapChange
    <3>1. e = 0 /\ ~ (t <= to)
      BY <1>2, <1>3, <1>5, <2>3
    <3>2. ~ (MapChange <= to)
      BY <1>3, <2>3
    <3> QED
      BY <1>2, <1>5, <3>1, <3>2
  <2> QED
    BY <1>3, <2>1, <2>2, <2>3
<1> QED
  BY <1>4, <1>5

\* How many units the next refresh from a checkpoint records at most: as long as the
\* server has published no more than h.
Span(ck, h) == Len(Plan(Selected(ck.cursor, First(h)), h, ck.init))

LEMMA SpanGrows ==
    ASSUME NEW ps, NEW ck, NEW h \in Nat \ {0}, NEW ks, NEW ms, Sound(ps, ck, <<>>, h, ks, ms),
           NEW hh \in Nat, h <= hh, hh <= MaxSeq
    PROVE  Span(ck, h) \in Nat /\ Span(ck, hh) \in Nat /\ Span(ck, h) <= Span(ck, hh)
<1> DEFINE c  == ck.cursor
           m  == ck.init
           a  == Selected(c, First(h))
           aa == Selected(c, First(hh))
<1>1. /\ ck \in Checkpoints /\ 1 <= c /\ c <= h + 1 /\ m \in 1 .. 2
      /\ m = 2 => MapChange < c
  BY SoundNames DEF Sound
<1>2. c \in Nat \ {0} /\ c <= hh + 1 /\ MapChange \in Nat /\ Window \in Nat /\ MaxSeq \in Nat
  BY <1>1, CheckpointIs, RecordingAssumption
<1> HIDE DEF c, m
<1>3. /\ a \in Nat \ {0} /\ c <= a /\ a <= h + 1
      /\ aa \in Nat \ {0} /\ c <= aa /\ aa <= hh + 1
  <2>1. /\ a = Selected(c, First(h)) /\ aa = Selected(c, First(hh))
        /\ c \in Nat \ {0} /\ hh \in Nat \ {0} /\ c <= h + 1 /\ c <= hh + 1
    BY <1>1, <1>2
  <2> HIDE DEF a, aa
  <2>2. a \in Nat \ {0} /\ c <= a /\ a <= h + 1
    BY <2>1, SelectedIs
  <2>3. aa \in Nat \ {0} /\ c <= aa /\ aa <= hh + 1
    BY <2>1, SelectedIs
  <2> QED
    BY <2>2, <2>3
<1>4. /\ c <= h => a <= h
      /\ c <= hh => aa <= hh
  BY <1>1, <1>2, FirstIs DEF Selected
<1>5. h + 1 - a <= hh + 1 - aa
  BY <1>1, <1>2 DEF Selected, First
<1>6. (m = 2 => MapChange < a) /\ (m = 2 => MapChange < aa)
  BY <1>1, <1>2, <1>3
<1> HIDE DEF a, aa
<1>7. Span(ck, h) = Len(Plan(a, h, m)) /\ Span(ck, hh) = Len(Plan(aa, hh, m))
  BY DEF Span, a, aa, c, m
<1>8. /\ c <= h => Len(Plan(a, h, m)) = (h + 1 - a) + (IF m = 1 /\ MapChange <= h THEN 1 ELSE 0)
      /\ c <= hh => Len(Plan(aa, hh, m)) = (hh + 1 - aa) + (IF m = 1 /\ MapChange <= hh THEN 1 ELSE 0)
  <2>1. ASSUME c <= h
        PROVE  Len(Plan(a, h, m)) = (h + 1 - a) + (IF m = 1 /\ MapChange <= h THEN 1 ELSE 0)
    <3>1. a <= h /\ h <= MaxSeq /\ a \in Nat \ {0} /\ m \in 1 .. 2 /\ (m = 2 => MapChange < a)
      BY <1>1, <1>2, <1>3, <1>4, <1>6, <2>1
    <3> QED
      BY <3>1, PlanLength
  <2>2. ASSUME c <= hh
        PROVE  Len(Plan(aa, hh, m)) = (hh + 1 - aa) + (IF m = 1 /\ MapChange <= hh THEN 1 ELSE 0)
    <3>1. aa <= hh /\ aa \in Nat \ {0} /\ m \in 1 .. 2 /\ (m = 2 => MapChange < aa)
      BY <1>1, <1>2, <1>3, <1>4, <1>6, <2>2
    <3> QED
      BY <3>1, PlanLength
  <2> QED
    BY <2>1, <2>2
<1>9. /\ ~ (c <= h) => Len(Plan(a, h, m)) = 0
      /\ ~ (c <= hh) => Len(Plan(aa, hh, m)) = 0
  <2>1. /\ ~ (c <= h) => a = h + 1
        /\ ~ (c <= hh) => aa = hh + 1
    BY <1>1, <1>2, <1>3
  <2>2. Plan(h + 1, h, m) = <<>> /\ Plan(hh + 1, hh, m) = <<>> /\ Len(<<>>) = 0
    <3>1. h + 1 \in Nat /\ hh + 1 \in Nat /\ h < h + 1 /\ hh < hh + 1
      OBVIOUS
    <3> QED
      BY <3>1, NoPlan
  <2> QED
    BY <2>1, <2>2
<1>10. CASE c <= h
  <2>1. c <= hh /\ (MapChange <= h => MapChange <= hh)
    BY <1>2, <1>10
  <2> QED
    BY <1>2, <1>3, <1>4, <1>5, <1>7, <1>8, <1>10, <2>1
<1>11. CASE ~ (c <= h)
  BY <1>2, <1>3, <1>4, <1>7, <1>8, <1>9, <1>11
<1> QED
  BY <1>10, <1>11

-----------------------------------------------------------------------------
(* The output                                                               *)

\* What is claimed of an output: it plays, leaves out only what was missed, and
\* holds the segments ks.
Good(file, ks, ms) ==
    /\ Playable(file)
    /\ \A n \in MediaOf(file), m \in MediaOf(file) : n .. m \subseteq MediaOf(file) \cup ms
    /\ ks \subseteq MediaOf(file)

LEMMA FormedIsGood ==
    ASSUME NEW file \in Seq(Units), NEW cursor \in Nat, NEW ks, NEW ms,
           Formed(file, cursor), Gapless(file, cursor, ms), Keeps(file, ks)
    PROVE  Good(file, ks, ms)
<1>1. DOMAIN file = 1 .. Len(file) /\ Len(file) \in Nat
  BY LenProperties
<1>2. ASSUME NEW i \in DOMAIN file
      PROVE  /\ file[i][1] = "media" => IsMedia(file[i]) /\ file[i][2] \in Nat
             /\ file[i][1] = "init" => ~ IsMedia(file[i]) /\ file[i][2] \in Nat
             /\ IsMedia(file[i]) => file[i][1] = "media"
             /\ IsMedia(file[i]) \/ file[i][1] = "init"
  <2>1. file[i] \in Units
    BY <1>1
  <2> QED
    BY <2>1, UnitKinds DEF IsMedia
<1>3. \A v : Holds(file, v) => v \in MediaOf(file)
  <2>1. ASSUME NEW v, NEW i \in DOMAIN file, file[i] = Media(v)
        PROVE  v \in MediaOf(file)
    <3>1. file[i][1] = "media" /\ file[i][2] = v
      BY <2>1, UnitNames
    <3> QED
      BY <3>1 DEF MediaOf
  <2> QED
    BY <2>1 DEF Holds
<1>4. \A v \in MediaOf(file) :
        \E i \in DOMAIN file : file[i][2] = v /\ IsMedia(file[i]) /\ v \in Nat /\ v < cursor
  BY <1>2 DEF MediaOf, Formed
<1>5. Playable(file)
  <2>1. \A i, j \in DOMAIN file :
          i < j /\ file[i][1] = "media" /\ file[j][1] = "media" => file[i][2] < file[j][2]
    BY <1>2 DEF Formed
  <2>2. ASSUME NEW i \in DOMAIN file, file[i][1] = "media"
        PROVE  \E k \in 1 .. i - 1 :
                 /\ file[k] = Init_(MapOf(file[i][2]))
                 /\ \A m \in k + 1 .. i - 1 : file[m][1] = "media"
    <3>1. PICK k \in DOMAIN file :
             /\ k < i /\ file[k] = Init_(MapOf(file[i][2]))
             /\ \A m \in DOMAIN file : k < m /\ m < i => IsMedia(file[m])
      BY <1>2, <2>2 DEF Formed
    <3>2. k \in 1 .. i - 1 /\ \A m \in k + 1 .. i - 1 : m \in DOMAIN file /\ k < m /\ m < i
      BY <1>1, <3>1
    <3> QED
      BY <1>2, <3>1, <3>2
  <2>3. ASSUME NEW i \in DOMAIN file, NEW j \in DOMAIN file, i < j, file[i][1] = "init"
        PROVE  file[i] # file[j]
    <3>1. CASE IsMedia(file[j])
      BY <1>2, <2>3, <3>1
    <3>2. CASE ~ IsMedia(file[j])
      <4>1. file[i][2] < file[j][2] /\ file[i][2] \in Nat
        BY <1>2, <2>3, <3>2 DEF Formed
      <4> QED
        BY <4>1
    <3> QED
      BY <3>1, <3>2
  <2> QED
    BY <2>1, <2>2, <2>3 DEF Playable
<1>6. ASSUME NEW n \in MediaOf(file), NEW m \in MediaOf(file), NEW v \in n .. m
      PROVE  v \in MediaOf(file) \cup ms
  <2>1. PICK i \in DOMAIN file : file[i][2] = n /\ IsMedia(file[i]) /\ n \in Nat
    BY <1>4
  <2>2. m \in Nat /\ m < cursor
    BY <1>4
  <2>3. v \in file[i][2] .. cursor - 1
    BY <2>1, <2>2
  <2>4. v \in ms \/ Holds(file, v)
    BY <2>1, <2>3 DEF Gapless
  <2> QED
    BY <1>3, <2>4
<1>7. ks \subseteq MediaOf(file)
  BY <1>3 DEF Keeps
<1> QED
  BY <1>5, <1>6, <1>7 DEF Good

\* The parts of a directory, in order.
Ordered(ps) ==
    [i \in 1 .. Cardinality(DOMAIN ps) |->
       ps[CHOOSE o \in DOMAIN ps : Cardinality({p \in DOMAIN ps : p < o}) = i - 1]]

\* Every position has one part: the ranks of a finite set of numbers are all the
\* numbers below its size.
LEMMA Ranks ==
    ASSUME NEW S \in SUBSET Nat, IsFiniteSet(S)
    PROVE  /\ Cardinality(S) \in Nat
           /\ \A i \in 1 .. Cardinality(S) :
                \E o \in S : Cardinality({p \in S : p < o}) = i - 1
<1> DEFINE n == Cardinality(S)
           Below(o) == {p \in S : p < o}
           f == [o \in S |-> Cardinality(Below(o))]
<1>1. n \in Nat
  BY FS_CardinalityType
<1>2. ASSUME NEW o \in S
      PROVE  Below(o) \in SUBSET S /\ o \notin Below(o) /\ IsFiniteSet(Below(o))
             /\ Cardinality(Below(o)) \in 0 .. n - 1
  <2>1. Below(o) \in SUBSET S /\ o \notin Below(o) /\ Below(o) # S
    OBVIOUS
  <2> HIDE DEF Below
  <2>2. /\ IsFiniteSet(Below(o)) /\ Cardinality(Below(o)) <= n
        /\ Cardinality(Below(o)) # n
    BY <2>1, FS_Subset
  <2>3. Cardinality(Below(o)) \in Nat
    BY <2>2, FS_CardinalityType
  <2> QED
    BY <1>1, <2>1, <2>2, <2>3
<1>3. ASSUME NEW a \in S, NEW b \in S, a < b
      PROVE  Cardinality(Below(a)) # Cardinality(Below(b))
  <2>1. Below(a) \in SUBSET Below(b) /\ a \in Below(b) /\ a \notin Below(a)
    <3>1. \A p \in S : p < a => p < b
      <4>1. \A p \in S : p \in Nat
        OBVIOUS
      <4> QED
        BY <1>3, <4>1
    <3>2. ~ (a < a)
      OBVIOUS
    <3> QED
      BY <1>3, <3>1, <3>2
  <2>2. IsFiniteSet(Below(b)) /\ Below(a) # Below(b)
    BY <1>2, <2>1
  <2> HIDE DEF Below
  <2> QED
    BY <2>1, <2>2, FS_Subset
<1>4. f \in Injection(S, 0 .. n - 1)
  <2>1. f \in [S -> 0 .. n - 1]
    BY <1>2
  <2>2. \A a, b \in S : a # b => f[a] # f[b]
    <3>1. \A a, b \in S : a # b => a < b \/ b < a
      OBVIOUS
    <3> HIDE DEF Below
    <3> QED
      BY <1>3, <3>1
  <2> HIDE DEF f
  <2> QED
    BY <2>1, <2>2 DEF Injection, IsInjective
<1>5. IsFiniteSet(0 .. n - 1) /\ Cardinality(0 .. n - 1) = n
  <2>1. 0 \in Int /\ n - 1 \in Int
    BY <1>1
  <2>2. /\ IsFiniteSet(0 .. n - 1)
        /\ Cardinality(0 .. n - 1) = IF 0 > n - 1 THEN 0 ELSE (n - 1) - 0 + 1
    BY <2>1, FS_Interval
  <2> QED
    BY <1>1, <2>2
<1>6. f \in Surjection(S, 0 .. n - 1)
  <2> HIDE DEF f
  <2> QED
    BY <1>4, <1>5, FS_Injection
<1>7. ASSUME NEW i \in 1 .. n PROVE \E o \in S : Cardinality(Below(o)) = i - 1
  <2>1. i - 1 \in 0 .. n - 1
    BY <1>1
  <2>2. \E o \in S : f[o] = i - 1
    <3> HIDE DEF f
    <3> QED
      BY <1>6, <2>1 DEF Surjection
  <2> HIDE DEF Below
  <2> QED
    BY <2>2
<1> QED
  BY <1>1, <1>7

LEMMA OrderedTyped ==
    ASSUME NEW ps, DOMAIN ps \subseteq Nat, IsFiniteSet(DOMAIN ps),
           \A o \in DOMAIN ps : ps[o] \in Units
    PROVE  Ordered(ps) \in Seq(Units)
<1> DEFINE n == Cardinality(DOMAIN ps)
           Nth(i) == CHOOSE o \in DOMAIN ps : Cardinality({p \in DOMAIN ps : p < o}) = i - 1
<1>1. /\ n \in Nat
      /\ \A i \in 1 .. n : \E o \in DOMAIN ps : Cardinality({p \in DOMAIN ps : p < o}) = i - 1
  BY Ranks
<1>2. \A i \in 1 .. n : Nth(i) \in DOMAIN ps
  BY <1>1
<1>3. Ordered(ps) = [i \in 1 .. n |-> ps[Nth(i)]]
  BY DEF Ordered
<1> HIDE DEF n, Nth
<1>4. [i \in 1 .. n |-> ps[Nth(i)]] \in [1 .. n -> Units]
  BY <1>2
<1> QED
  BY <1>1, <1>3, <1>4, FunctionIsSeq

\* Parts without a gap are assembled in the order of the line.
LEMMA OrderedIsLine ==
    ASSUME NEW ps, NEW k \in Nat, DOMAIN ps = 0 .. k - 1
    PROVE  Ordered(ps) = Line(ps, k, <<>>)
<1>1. Cardinality(DOMAIN ps) = k
  <2>1. 0 \in Int /\ k - 1 \in Int
    OBVIOUS
  <2>2. Cardinality(0 .. k - 1) = IF 0 > k - 1 THEN 0 ELSE (k - 1) - 0 + 1
    BY <2>1, FS_Interval
  <2> QED
    BY <2>2
<1>2. ASSUME NEW o \in 0 .. k - 1
      PROVE  Cardinality({p \in DOMAIN ps : p < o}) = o
  <2>1. {p \in DOMAIN ps : p < o} = 0 .. o - 1
    OBVIOUS
  <2>2. 0 \in Int /\ o - 1 \in Int
    OBVIOUS
  <2>3. Cardinality(0 .. o - 1) = IF 0 > o - 1 THEN 0 ELSE (o - 1) - 0 + 1
    BY <2>2, FS_Interval
  <2>4. Cardinality(0 .. o - 1) = o
    BY <2>3
  <2> QED
    BY <2>1, <2>4
<1>3. ASSUME NEW i \in 1 .. k
      PROVE  (CHOOSE o \in DOMAIN ps : Cardinality({p \in DOMAIN ps : p < o}) = i - 1) = i - 1
  <2>1. i - 1 \in 0 .. k - 1
    OBVIOUS
  <2> DEFINE R(o) == Cardinality({p \in DOMAIN ps : p < o})
  <2>2. \A o \in DOMAIN ps : R(o) = o
    BY <1>2
  <2> HIDE DEF R
  <2>3. (CHOOSE o \in DOMAIN ps : R(o) = i - 1) = i - 1
    BY <2>1, <2>2
  <2> QED
    BY <2>3 DEF R
<1>4. Ordered(ps) = [i \in 1 .. k |-> ps[i - 1]]
  <2> DEFINE Nth(i) == CHOOSE o \in DOMAIN ps :
                         Cardinality({p \in DOMAIN ps : p < o}) = i - 1
  <2>1. \A i \in 1 .. k : Nth(i) = i - 1
    BY <1>3
  <2>2. Ordered(ps) = [i \in 1 .. k |-> ps[Nth(i)]]
    BY <1>1 DEF Ordered
  <2> HIDE DEF Nth
  <2> QED
    BY <2>1, <2>2
<1>5. Line(ps, k, <<>>) = [i \in 1 .. k |-> ps[i - 1]]
  <2>1. k + Len(<<>>) = k
    OBVIOUS
  <2>2. Line(ps, k, <<>>) = [i \in 1 .. k |-> IF i <= k THEN ps[i - 1] ELSE <<>>[i - k]]
    BY <2>1 DEF Line
  <2>3. \A i \in 1 .. k : (IF i <= k THEN ps[i - 1] ELSE <<>>[i - k]) = ps[i - 1]
    OBVIOUS
  <2> QED
    BY <2>2, <2>3
<1> QED
  BY <1>4, <1>5

-----------------------------------------------------------------------------
(* The types of the files                                                   *)

WorkerOK(c) ==
    /\ DOMAIN c = {"at", "ck", "plan", "end", "vod"}
    /\ c.ck \in Checkpoints /\ c.plan \in Seq(Units) /\ c.vod \in BOOLEAN
    /\ c.at \in {"stage", "commit"} /\ ~ c.vod => c.plan # <<>>
    /\ c.vod => c.at \notin {"commit", "save", "rename", "loop"}

WorkersOK == DOMAIN w = Runs /\ \A r \in Runs : WorkerOK(w[r])

DiskOK ==
    /\ DOMAIN parts \subseteq Nat /\ IsFiniteSet(DOMAIN parts)
    /\ \A o \in DOMAIN parts : parts[o] \in Units
    /\ ckpt \in Checkpoints \cup {NoFile} /\ temp \in Checkpoints \cup {NoFile}
    /\ tick \in Seq(Units) /\ out \in Seq(Units)

ServerOK == head \in 1 .. MaxSeq /\ ended \in BOOLEAN

HistOK == kept \cup missed \subseteq 1 .. MaxSeq

FilesOK == ServerOK /\ DiskOK /\ WorkersOK /\ HistOK

LEMMA FilesTyped == FilesOK => FilesTypeOK
  BY DEF FilesOK, ServerOK, DiskOK, WorkersOK, WorkerOK, HistOK, FilesTypeOK

\* The table after a step of r that keeps its plan.
Moves(r, where) ==
    /\ DOMAIN w' = Runs /\ \A o \in Runs : o # r => w'[o] = w[o]
    /\ DOMAIN w'[r] = {"at", "ck", "plan", "end", "vod"}
    /\ w'[r].at = where /\ w'[r].ck = w[r].ck /\ w'[r].plan = w[r].plan
    /\ w'[r].vod = w[r].vod

Ends(r) ==
    /\ DOMAIN w' = Runs /\ \A o \in Runs : o # r => w'[o] = w[o]
    /\ w'[r] = Idle

LEMMA AtMovesOn ==
    ASSUME WorkersOK, NEW r \in Runs, NEW where, At(r, where)
    PROVE  Moves(r, where)
  BY DEF WorkersOK, WorkerOK, At, Moves

LEMMA OverEnds ==
    ASSUME WorkersOK, NEW r \in Runs, Over(r)
    PROVE  Ends(r)
  BY DEF WorkersOK, Over, Ends

LEMMA IdleOK == WorkerOK(Idle)
<1>1. <<>> \in Seq(Units)
  OBVIOUS
<1> QED
  BY <1>1, NewIsCheckpoint DEF WorkerOK, Idle

LEMMA MovesOK ==
    ASSUME WorkersOK, NEW r \in Runs, NEW where, Moves(r, where),
           where \in {"stage", "commit"} /\ ~ w[r].vod => w[r].plan # <<>>,
           w[r].vod => where \notin {"commit", "save", "rename", "loop"}
    PROVE  WorkersOK'
<1>1. WorkerOK(w'[r])
  BY DEF WorkersOK, WorkerOK, Moves
<1> QED
  BY <1>1 DEF WorkersOK, Moves

LEMMA EndsOK ==
    ASSUME WorkersOK, NEW r \in Runs, Ends(r)
    PROVE  WorkersOK'
  BY IdleOK DEF WorkersOK, Ends

\* Where a run leaves its recording behind.
Left(r) == Ends(r) \/ Moves(r, "preview")

LEMMA FailLeaves ==
    ASSUME WorkersOK, NEW r \in Runs, Fail(r)
    PROVE  Left(r)
  BY OverEnds DEF Fail, Left

LEMMA BrokenLeaves ==
    ASSUME WorkersOK, NEW r \in Runs, Broken(r)
    PROVE  Left(r)
  BY FailLeaves, AtMovesOn DEF Broken, Left

LEMMA AdvanceMoves ==
    ASSUME WorkersOK, NEW r \in Runs, NEW next, NEW then, Advance(r, next, then)
    PROVE  Left(r) \/ Moves(r, then)
  BY AtMovesOn DEF Advance, Left

LEMMA LeftOK ==
    ASSUME WorkersOK, NEW r \in Runs, Left(r)
    PROVE  WorkersOK'
<1>1. ASSUME Moves(r, "preview") PROVE WorkersOK'
  BY <1>1, MovesOK
<1> QED
  BY <1>1, EndsOK DEF Left

LEMMA ServerTyped ==
    ASSUME ServerOK, ServerMoves \/ UNCHANGED server
    PROVE  ServerOK' /\ head' \in Nat \ {0} /\ head <= head' /\ head' <= MaxSeq
<1>1. ended' \in BOOLEAN
  BY Zenon DEF ServerOK, ServerMoves, server
<1>2. head' \in 1 .. MaxSeq /\ head <= head'
  <2>1. head \in 1 .. MaxSeq /\ MaxSeq \in Nat
    BY RecordingAssumption DEF ServerOK
  <2>2. head' \in head .. head \/ head' \in head .. MaxSeq \/ head' = head
    BY DEF ServerMoves, server
  <2> QED
    BY <2>1, <2>2
<1> QED
  BY <1>1, <1>2, RecordingAssumption DEF ServerOK

LEMMA UnitInit ==
    ASSUME NEW u \in Units
    PROVE  (u[1] = "init" <=> ~ IsMedia(u)) /\ (u[1] = "init" => u[2] \in 1 .. 2)
  BY UnitKinds DEF IsMedia

\* The table after a refresh.
Refreshed(r, ck, plan) ==
    /\ DOMAIN w' = Runs /\ \A o \in Runs : o # r => w'[o] = w[o]
    /\ DOMAIN w'[r] = {"at", "ck", "plan", "end", "vod"}
    /\ w'[r].at = (IF plan = <<>> THEN "save" ELSE "stage")
    /\ w'[r].ck = [ck EXCEPT !.cursor = head' + 1] /\ w'[r].plan = plan
    /\ w'[r].vod = FALSE

LEMMA RefreshMakes ==
    ASSUME ServerOK', WorkersOK, NEW r \in Runs, NEW ck \in Checkpoints, Refresh(r, ck)
    PROVE  /\ Refreshed(r, ck, Plan(Selected(ck.cursor, First(head')), head', ck.init))
           /\ Plan(Selected(ck.cursor, First(head')), head', ck.init) \in Seq(Units)
           /\ WorkersOK'
           /\ missed' = missed \cup (IF ck.cursor = 0 THEN {} ELSE ck.cursor .. First(head') - 1)
           /\ missed \subseteq 1 .. MaxSeq => missed' \subseteq 1 .. MaxSeq
<1> DEFINE from == Selected(ck.cursor, First(head'))
           plan == Plan(from, head', ck.init)
           next == [ck EXCEPT !.cursor = head' + 1]
           new == [at |-> IF plan = <<>> THEN "save" ELSE "stage",
                   ck |-> next, plan |-> plan, end |-> ended', vod |-> FALSE]
<1>1. /\ head' \in Nat \ {0} /\ head' <= MaxSeq /\ MaxSeq \in Nat
      /\ ck.cursor \in 0 .. MaxSeq + 1 /\ ck.init \in 0 .. 2
  BY CheckpointIs, RecordingAssumption DEF ServerOK
<1>2. First(head') \in 1 .. head'
  BY <1>1, FirstIs
<1>3. from \in Nat \ {0}
  BY <1>1, <1>2 DEF Selected
<1>4. next \in Checkpoints
  BY <1>1 DEF Checkpoints
<1>5. w' = [w EXCEPT ![r] = new]
      /\ missed' = missed \cup (IF ck.cursor = 0 THEN {} ELSE ck.cursor .. First(head') - 1)
  BY DEF Refresh
<1> HIDE DEF from
<1>6. plan \in Seq(Units)
  BY <1>1, <1>3, PlanTyped
<1> HIDE DEF plan, next
<1>7. /\ DOMAIN new = {"at", "ck", "plan", "end", "vod"}
      /\ new.at = (IF plan = <<>> THEN "save" ELSE "stage") /\ new.ck = next
      /\ new.plan = plan /\ new.vod = FALSE
  OBVIOUS
<1> HIDE DEF new
<1>8. /\ DOMAIN w' = Runs /\ \A o \in Runs : o # r => w'[o] = w[o]
      /\ w'[r] = new
  BY <1>5 DEF WorkersOK
<1>9. WorkerOK(w'[r])
  BY <1>4, <1>6, <1>7, <1>8 DEF WorkerOK
<1>10. WorkersOK'
  BY <1>8, <1>9 DEF WorkersOK
<1>11. Refreshed(r, ck, plan)
  BY <1>7, <1>8 DEF Refreshed, next
<1>12. missed \subseteq 1 .. MaxSeq => missed' \subseteq 1 .. MaxSeq
  <2>1. ck.cursor # 0 => ck.cursor .. First(head') - 1 \subseteq 1 .. MaxSeq
    BY <1>1, <1>2
  <2> QED
    BY <1>5, <2>1
<1> QED
  BY <1>5, <1>6, <1>10, <1>11, <1>12 DEF plan, from

\* The table after a look at the playlist that finds the stream ended.
Downloaded(r, plan) ==
    /\ DOMAIN w' = Runs /\ \A o \in Runs : o # r => w'[o] = w[o]
    /\ w'[r].at = "stage" /\ w'[r].vod = TRUE /\ w'[r].plan = plan

LEMMA DownloadMakes ==
    ASSUME ServerOK', WorkersOK, NEW r \in Runs,
           w' = [w EXCEPT ![r] = [Idle EXCEPT !.at = "stage", !.vod = TRUE,
                                              !.plan = Plan(First(head'), head', 0)]]
    PROVE  Downloaded(r, Plan(First(head'), head', 0)) /\ WorkersOK'
<1> DEFINE plan == Plan(First(head'), head', 0)
           new == [Idle EXCEPT !.at = "stage", !.vod = TRUE, !.plan = plan]
<1>1. plan \in Seq(Units)
  <2>1. head' \in Nat \ {0} /\ head' <= MaxSeq
    BY RecordingAssumption DEF ServerOK
  <2> QED
    BY <2>1, PlanPlays
<1>2. w' = [w EXCEPT ![r] = new]
  OBVIOUS
<1> HIDE DEF plan
<1>3. /\ DOMAIN new = {"at", "ck", "plan", "end", "vod"} /\ new.at = "stage"
      /\ new.vod = TRUE /\ new.plan = plan /\ new.ck = NewCheckpoint
  BY DEF Idle
<1> HIDE DEF new
<1>4. /\ DOMAIN w' = Runs /\ \A o \in Runs : o # r => w'[o] = w[o]
      /\ w'[r] = new
  BY <1>2 DEF WorkersOK
<1>5. WorkerOK(w'[r])
  BY <1>1, <1>3, <1>4, NewIsCheckpoint DEF WorkerOK
<1> QED
  BY <1>3, <1>4, <1>5 DEF WorkersOK, Downloaded, plan

\* What one commit of u does.
Committed(r, u) ==
    LET to == w[r].ck.order
        todo == w[r].plan
    IN  /\ DOMAIN parts' = DOMAIN parts \cup {to}
        /\ \A o \in DOMAIN parts' : parts'[o] = IF o = to THEN u ELSE parts[o]
        /\ tick' = IF Len(todo) = 1 THEN <<>> ELSE tick
        /\ UNCHANGED <<ckpt, temp, out>>
        /\ DOMAIN w' = Runs /\ \A o \in Runs : o # r => w'[o] = w[o]
        /\ w'[r].plan = Tail(todo) /\ w'[r].vod = w[r].vod
        /\ w'[r].at = IF Len(todo) = 1 THEN "save" ELSE "commit"
        /\ w'[r].ck \in Checkpoints
        /\ w'[r].ck.order = to + 1 /\ w'[r].ck.cursor = w[r].ck.cursor
        /\ w'[r].ck.init = IF IsMedia(u) THEN w[r].ck.init ELSE u[2]

\* The commit that does not fail.
CommitsOne(r) ==
    LET u == tick[Len(tick) - Len(w[r].plan) + 1]
    IN  /\ Len(tick) >= Len(w[r].plan)
        /\ parts' = [o \in DOMAIN parts \cup {w[r].ck.order} |->
                       IF o = w[r].ck.order THEN u ELSE parts[o]]
        /\ tick' = IF Len(w[r].plan) = 1 THEN <<>> ELSE tick
        /\ w' = [w EXCEPT ![r].plan = Tail(w[r].plan),
                          ![r].at = IF Len(w[r].plan) = 1 THEN "save" ELSE "commit",
                          ![r].ck.order = w[r].ck.order + 1,
                          ![r].ck.init = IF u[1] = "init" THEN u[2] ELSE @]
        /\ Touches(r)
        /\ UNCHANGED <<job, ckpt, temp, out>>

LEMMA CommitIs ==
    ASSUME NEW r \in Runs, WorkerCommits(r)
    PROVE  /\ w[r].at = "commit" /\ UNCHANGED <<kept, missed, lost, vod, mismatch>>
           /\ (Broken(r) /\ UNCHANGED <<disk, mingled>>) \/ CommitsOne(r)
  BY DEF WorkerCommits, CommitsOne

LEMMA CommitMakes ==
    ASSUME DiskOK, WorkersOK, NEW r \in Runs, w[r].at = "commit", CommitsOne(r)
    PROVE  /\ Len(w[r].plan) <= Len(tick) /\ w[r].plan # <<>> /\ w[r].plan \in Seq(Units)
           /\ Len(tick) - Len(w[r].plan) + 1 \in DOMAIN tick
           /\ Committed(r, tick[Len(tick) - Len(w[r].plan) + 1])
           /\ DiskOK' /\ WorkersOK' /\ Touches(r) /\ UNCHANGED job
<1> DEFINE todo == w[r].plan
           to == w[r].ck.order
           at == Len(tick) - Len(todo) + 1
           u == tick[at]
           m == IF IsMedia(u) THEN w[r].ck.init ELSE u[2]
<1>1. /\ w[r].at = "commit" /\ Len(tick) >= Len(todo)
      /\ parts' = [o \in DOMAIN parts \cup {to} |-> IF o = to THEN u ELSE parts[o]]
      /\ tick' = IF Len(todo) = 1 THEN <<>> ELSE tick
      /\ w' = [w EXCEPT ![r].plan = Tail(todo),
                        ![r].at = IF Len(todo) = 1 THEN "save" ELSE "commit",
                        ![r].ck.order = to + 1,
                        ![r].ck.init = IF u[1] = "init" THEN u[2] ELSE @]
      /\ Touches(r) /\ UNCHANGED job /\ UNCHANGED <<ckpt, temp, out>>
  BY DEF CommitsOne
<1>2. /\ WorkerOK(w[r]) /\ todo \in Seq(Units) /\ todo # <<>> /\ w[r].ck \in Checkpoints
      /\ ~ w[r].vod /\ tick \in Seq(Units)
  BY <1>1 DEF WorkersOK, WorkerOK, DiskOK
<1>3. /\ Len(todo) \in Nat /\ Len(todo) > 0 /\ Len(tick) \in Nat /\ DOMAIN tick = 1 .. Len(tick)
      /\ Tail(todo) \in Seq(Units) /\ Len(Tail(todo)) = Len(todo) - 1
  BY <1>2, LenProperties, HeadTailProperties, EmptySeq
<1>4. at \in DOMAIN tick /\ u \in Units
  <2>1. Len(tick) >= Len(todo)
    BY <1>1
  <2>2. at \in 1 .. Len(tick)
    BY <1>3, <2>1
  <2> HIDE DEF at
  <2> QED
    BY <1>2, <1>3, <2>2, ElementOfSeq
<1>5. to \in Nat /\ w[r].ck.init \in 0 .. 2
  BY <1>2, CheckpointIs
<1> HIDE DEF u, at, todo, to
<1>6. m \in 0 .. 2 /\ m = (IF u[1] = "init" THEN u[2] ELSE w[r].ck.init)
  <2>1. (u[1] = "init" <=> ~ IsMedia(u)) /\ (u[1] = "init" => u[2] \in 1 .. 2)
    BY <1>4, UnitInit
  <2> QED
    BY <1>5, <2>1
<1>7. /\ DOMAIN w' = Runs /\ \A o \in Runs : o # r => w'[o] = w[o]
      /\ DOMAIN w'[r] = {"at", "ck", "plan", "end", "vod"}
      /\ w'[r].plan = Tail(todo) /\ w'[r].vod = w[r].vod
      /\ w'[r].at = IF Len(todo) = 1 THEN "save" ELSE "commit"
      /\ w'[r].ck \in Checkpoints
      /\ w'[r].ck.order = to + 1 /\ w'[r].ck.cursor = w[r].ck.cursor
      /\ w'[r].ck.init = m
  <2> DEFINE where == IF Len(todo) = 1 THEN "save" ELSE "commit"
             tail == Tail(todo)
  <2>1. w' = [w EXCEPT ![r].plan = tail, ![r].at = where, ![r].ck.order = to + 1,
                       ![r].ck.init = m]
    BY <1>1, <1>2, <1>6 DEF WorkersOK, WorkerOK, Checkpoints
  <2>2. DOMAIN w = Runs /\ DOMAIN w[r] = {"at", "ck", "plan", "end", "vod"}
    BY <1>2 DEF WorkersOK, WorkerOK
  <2> HIDE DEF where, tail, m
  <2>3. /\ DOMAIN w' = Runs /\ \A o \in Runs : o # r => w'[o] = w[o]
        /\ DOMAIN w'[r] = {"at", "ck", "plan", "end", "vod"}
        /\ w'[r].plan = tail /\ w'[r].vod = w[r].vod /\ w'[r].at = where
        /\ w'[r].ck = [w[r].ck EXCEPT !.order = to + 1, !.init = m]
    BY <2>1, <2>2
  <2>4. to + 1 \in Nat /\ m \in 0 .. 2
    BY <1>5, <1>6
  <2>5. /\ w'[r].ck \in Checkpoints
        /\ w'[r].ck.order = to + 1 /\ w'[r].ck.cursor = w[r].ck.cursor
        /\ w'[r].ck.init = m
    BY <1>2, <2>3, <2>4 DEF Checkpoints
  <2> QED
    BY <2>3, <2>5 DEF where, tail
<1>8. /\ DOMAIN parts' = DOMAIN parts \cup {to}
      /\ \A o \in DOMAIN parts' : parts'[o] = IF o = to THEN u ELSE parts[o]
  BY <1>1
<1>9. DiskOK'
  <2>1. IsFiniteSet(DOMAIN parts')
    BY <1>8, FS_AddElement DEF DiskOK
  <2>2. DOMAIN parts' \subseteq Nat /\ \A o \in DOMAIN parts' : parts'[o] \in Units
    BY <1>4, <1>5, <1>8 DEF DiskOK
  <2>3. tick' \in Seq(Units)
    <3>1. <<>> \in Seq(Units)
      OBVIOUS
    <3> QED
      BY <1>1, <1>2, <3>1
  <2> QED
    BY <1>1, <2>1, <2>2, <2>3 DEF DiskOK
<1>10. WorkersOK'
  <2>1. Tail(todo) = <<>> => Len(todo) = 1
    <3>1. Len(<<>>) = 0
      OBVIOUS
    <3>2. Tail(todo) = <<>> => Len(todo) - 1 = 0
      BY <1>3, <3>1
    <3> QED
      BY <1>3, <3>2
  <2>2. WorkerOK(w'[r])
    BY <1>2, <1>3, <1>7, <2>1 DEF WorkerOK
  <2> QED
    BY <1>7, <2>2 DEF WorkersOK
<1>11. Committed(r, u)
  BY <1>1, <1>7, <1>8 DEF Committed, to, todo
<1> QED
  BY <1>1, <1>2, <1>4, <1>9, <1>10, <1>11 DEF u, at, todo

LEMMA RecordedIs ==
    /\ Recorded \subseteq 1 .. MaxSeq
    /\ \A n \in Recorded : \E o \in DOMAIN parts : parts[o] = Media(n)
<1>1. ASSUME NEW n \in Recorded
      PROVE  n \in 1 .. MaxSeq /\ \E o \in DOMAIN parts : parts[o] = Media(n)
  <2>1. PICK o \in DOMAIN parts, k \in 1 .. MaxSeq : parts[o] = Media(k) /\ n = Media(k)[2]
    BY DEF Recorded
  <2>2. n = k
    BY <2>1, UnitNames
  <2> QED
    BY <2>1, <2>2
<1> QED
  BY <1>1

LEMMA ListingTyped ==
    ASSUME DiskOK PROVE Listing \in Seq(Units) /\ Listing = Ordered(parts)
<1>1. Listing = Ordered(parts)
  BY DEF Listing, Ordered
<1> QED
  BY <1>1, OrderedTyped DEF DiskOK

LEMMA WipedOK ==
    ASSUME Wiped, out' = <<>> \/ out' \in Seq(Units)
    PROVE  DiskOK'
<1>1. <<>> \in Seq(Units) /\ DOMAIN <<>> = {} /\ IsFiniteSet({})
  BY FS_EmptySet
<1>2. /\ parts' = <<>> /\ ckpt' = NoFile /\ temp' = NoFile /\ tick' = <<>>
  BY DEF Wiped
<1> QED
  BY <1>1, <1>2 DEF DiskOK

\* The fetch and the refresh, when they do not fail.
LEMMA FetchKeepsTypes ==
    ASSUME FilesOK, NEW r \in Runs, WorkerFetches(r)
    PROVE  FilesOK'
<1>1. ServerOK /\ WorkersOK /\ DiskOK /\ HistOK /\ UNCHANGED disk
  BY DEF FilesOK, WorkerFetches
<1>2. DiskOK'
  BY <1>1 DEF DiskOK, disk
<1>3. CASE Broken(r) /\ UNCHANGED <<server, hist>>
  <2>1. WorkersOK'
    BY <1>1, <1>3, BrokenLeaves, LeftOK
  <2>2. ServerOK'
    BY <1>1, <1>3, ServerTyped
  <2> QED
    BY <1>1, <1>2, <1>3, <2>1, <2>2 DEF FilesOK, HistOK, hist
<1>4. CASE /\ ServerMoves /\ ended'
           /\ w' = [w EXCEPT ![r] = [Idle EXCEPT !.at = "stage", !.vod = TRUE,
                                                 !.plan = Plan(First(head'), head', 0)]]
           /\ UNCHANGED <<job, hist>>
  <2>1. ServerOK'
    BY <1>1, <1>4, ServerTyped
  <2>2. WorkersOK'
    BY <1>1, <1>4, <2>1, DownloadMakes
  <2> QED
    BY <1>1, <1>2, <1>4, <2>1, <2>2 DEF FilesOK, HistOK, hist
<1>5. CASE ServerMoves /\ At(r, "preview") /\ UNCHANGED <<missed, kept>>
  <2>1. ServerOK'
    BY <1>1, <1>5, ServerTyped
  <2>2. WorkersOK'
    BY <1>1, <1>5, AtMovesOn, LeftOK DEF Left
  <2> QED
    BY <1>1, <1>2, <1>5, <2>1, <2>2 DEF FilesOK, HistOK
<1>6. CASE ServerMoves /\ Refresh(r, ReadCheckpoint) /\ UNCHANGED kept
  <2>1. ServerOK'
    BY <1>1, <1>6, ServerTyped
  <2>2. ReadCheckpoint \in Checkpoints
    BY <1>1, NewIsCheckpoint DEF ReadCheckpoint, DiskOK
  <2>3. WorkersOK' /\ (missed \subseteq 1 .. MaxSeq => missed' \subseteq 1 .. MaxSeq)
    BY <1>1, <1>6, <2>1, <2>2, RefreshMakes
  <2> QED
    BY <1>1, <1>2, <1>6, <2>1, <2>3 DEF FilesOK, HistOK
<1> QED
  BY <1>3, <1>4, <1>5, <1>6 DEF WorkerFetches

LEMMA RefreshKeepsTypes ==
    ASSUME FilesOK, NEW r \in Runs, WorkerRefreshes(r)
    PROVE  FilesOK'
<1>1. ServerOK /\ WorkersOK /\ DiskOK /\ HistOK /\ UNCHANGED disk
  BY DEF FilesOK, WorkerRefreshes
<1>2. DiskOK'
  BY <1>1 DEF DiskOK, disk
<1>3. CASE Broken(r) /\ UNCHANGED <<server, hist>>
  <2>1. WorkersOK'
    BY <1>1, <1>3, BrokenLeaves, LeftOK
  <2>2. ServerOK'
    BY <1>1, <1>3, ServerTyped
  <2> QED
    BY <1>1, <1>2, <1>3, <2>1, <2>2 DEF FilesOK, HistOK, hist
<1>4. CASE ServerMoves /\ Refresh(r, w[r].ck) /\ UNCHANGED kept
  <2>1. ServerOK'
    BY <1>1, <1>4, ServerTyped
  <2>2. w[r].ck \in Checkpoints
    BY <1>1 DEF WorkersOK, WorkerOK
  <2>3. WorkersOK' /\ (missed \subseteq 1 .. MaxSeq => missed' \subseteq 1 .. MaxSeq)
    BY <1>1, <1>4, <2>1, <2>2, RefreshMakes
  <2> QED
    BY <1>1, <1>2, <1>4, <2>1, <2>3 DEF FilesOK, HistOK
<1> QED
  BY <1>3, <1>4 DEF WorkerRefreshes

LEMMA LocalKeepsTypes ==
    ASSUME FilesOK, NEW r \in Runs, Local(r), UNCHANGED server
    PROVE  FilesOK'
<1>1. ServerOK /\ WorkersOK /\ DiskOK /\ HistOK
  BY DEF FilesOK
<1>2. ServerOK'
  BY <1>1, ServerTyped
<1>3. w[r].plan \in Seq(Units) /\ w[r].ck \in Checkpoints /\ WorkerOK(w[r])
  BY <1>1 DEF WorkersOK, WorkerOK
<1>4. CASE WorkerProbes(r) \/ WorkerDownloads(r) \/ WorkerVerifies(r) \/ WorkerFinalizes(r)
  <2>1. Left(r) \/ \E where \in {"resolve", "fetch", "verify", "assemble"} : Moves(r, where)
    BY <1>1, <1>4, FailLeaves, AdvanceMoves
       DEF WorkerProbes, WorkerDownloads, WorkerVerifies, WorkerFinalizes
  <2>2. WorkersOK'
    <3>1. ASSUME NEW where \in {"resolve", "fetch", "verify", "assemble"}, Moves(r, where)
          PROVE  WorkersOK'
      BY <1>1, <3>1, MovesOK
    <3> QED
      BY <1>1, <2>1, <3>1, LeftOK
  <2>3. UNCHANGED <<disk, kept, missed>>
    BY <1>4 DEF WorkerProbes, WorkerDownloads, WorkerVerifies, WorkerFinalizes, hist
  <2> QED
    BY <1>1, <1>2, <2>2, <2>3 DEF FilesOK, DiskOK, HistOK, disk
<1>5. CASE WorkerStages(r)
  <2>1. /\ UNCHANGED <<parts, ckpt, temp, out, kept, missed>>
        /\ tick' \in Seq(Units)
    BY <1>1, <1>3, <1>5 DEF WorkerStages, DiskOK
  <2>2. WorkersOK'
    <3>1. CASE Broken(r)
      BY <1>1, <3>1, BrokenLeaves, LeftOK
    <3>2. CASE At(r, IF w[r].vod THEN "staged" ELSE "commit")
      <4> DEFINE where == IF w[r].vod THEN "staged" ELSE "commit"
      <4>1. Moves(r, where)
        BY <1>1, <3>2, AtMovesOn
      <4>2. ~ w[r].vod => w[r].plan # <<>>
        BY <1>3, <1>5 DEF WorkerStages, WorkerOK
      <4>3. w[r].vod => where = "staged"
        OBVIOUS
      <4> HIDE DEF where
      <4> QED
        BY <1>1, <4>1, <4>2, <4>3, MovesOK
    <3> QED
      BY <1>5, <3>1, <3>2 DEF WorkerStages
  <2> QED
    BY <1>1, <1>2, <2>1, <2>2 DEF FilesOK, DiskOK, HistOK
<1>6. CASE WorkerCommits(r)
  <2>1. UNCHANGED <<kept, missed>> /\ w[r].at = "commit"
    BY <1>6, CommitIs
  <2>2. CASE Broken(r) /\ UNCHANGED <<disk, mingled>>
    <3>1. WorkersOK'
      BY <1>1, <2>2, BrokenLeaves, LeftOK
    <3> QED
      BY <1>1, <1>2, <2>1, <2>2, <3>1 DEF FilesOK, DiskOK, HistOK, disk
  <2>3. CASE CommitsOne(r)
    BY <1>1, <1>2, <2>1, <2>3, CommitMakes DEF FilesOK, HistOK
  <2> QED
    BY <1>6, <2>2, <2>3, CommitIs
<1>7. CASE WorkerUnlinks(r)
  <2>1. /\ UNCHANGED <<parts, tick, out, kept, missed>> /\ w[r].at = "save"
        /\ \/ Broken(r) /\ UNCHANGED <<ckpt, temp>>
           \/ temp' = w[r].ck /\ ckpt' = NoFile /\ At(r, "rename")
    BY <1>7 DEF WorkerUnlinks
  <2>2. ckpt' \in Checkpoints \cup {NoFile} /\ temp' \in Checkpoints \cup {NoFile}
    BY <1>1, <1>3, <2>1 DEF DiskOK
  <2>3. WorkersOK'
    <3>1. ASSUME At(r, "rename") PROVE WorkersOK'
      <4>1. ~ w[r].vod
        BY <1>3, <2>1 DEF WorkerOK
      <4> QED
        BY <1>1, <3>1, <4>1, AtMovesOn, MovesOK
    <3> QED
      BY <1>1, <2>1, <3>1, BrokenLeaves, LeftOK
  <2> QED
    BY <1>1, <1>2, <2>1, <2>2, <2>3 DEF FilesOK, DiskOK, HistOK
<1>8. CASE WorkerRenames(r)
  <2> DEFINE where == IF w[r].end \/ finish THEN "staged" ELSE "loop"
  <2>1. /\ UNCHANGED <<parts, tick, out, missed>> /\ w[r].at = "rename"
        /\ \/ Broken(r) /\ UNCHANGED <<ckpt, temp, kept>>
           \/ ckpt' = temp /\ temp' = NoFile /\ At(r, where) /\ kept' = kept \cup Recorded
    BY <1>8 DEF WorkerRenames
  <2>2. ckpt' \in Checkpoints \cup {NoFile} /\ temp' \in Checkpoints \cup {NoFile}
    BY <1>1, <2>1 DEF DiskOK
  <2>3. WorkersOK'
    <3>1. ASSUME At(r, where) PROVE WorkersOK'
      <4>1. ~ w[r].vod /\ where \notin {"stage", "commit"}
        BY <1>3, <2>1 DEF WorkerOK
      <4> HIDE DEF where
      <4> QED
        BY <1>1, <3>1, <4>1, AtMovesOn, MovesOK
    <3> QED
      BY <1>1, <2>1, <3>1, BrokenLeaves, LeftOK
  <2>4. HistOK'
    BY <1>1, <2>1, RecordedIs DEF HistOK
  <2> QED
    BY <1>1, <1>2, <2>1, <2>2, <2>3, <2>4 DEF FilesOK, DiskOK
<1>9. CASE WorkerAssembles(r) \/ WorkerPreviews(r)
  <2>1. /\ UNCHANGED <<parts, ckpt, temp, tick, kept, missed>>
        /\ out' \in {out, tick, Listing}
    BY <1>9 DEF WorkerAssembles, WorkerPreviews
  <2>2. DiskOK'
    BY <1>1, <2>1, ListingTyped DEF DiskOK
  <2>3. WorkersOK'
    <3>1. Left(r) \/ At(r, "complete") \/ At(r, "settle")
      BY <1>1, <1>9, FailLeaves DEF WorkerAssembles, WorkerPreviews
    <3>2. ASSUME NEW where \in {"complete", "settle"}, At(r, where) PROVE WorkersOK'
      BY <1>1, <3>2, AtMovesOn, MovesOK
    <3> QED
      BY <1>1, <3>1, <3>2, LeftOK
  <2> QED
    BY <1>1, <1>2, <2>1, <2>2, <2>3 DEF FilesOK, HistOK
<1>10. CASE WorkerCompletes(r) \/ WorkerSettles(r)
  <2>1. UNCHANGED <<disk, hist>>
    BY <1>10 DEF WorkerCompletes, WorkerSettles
  <2>2. WorkersOK'
    <3>1. Left(r) \/ At(r, "sweep") \/ Over(r)
      BY <1>1, <1>10, FailLeaves, AtMovesOn DEF WorkerCompletes, WorkerSettles, Left
    <3>2. ASSUME At(r, "sweep") PROVE WorkersOK'
      BY <1>1, <3>2, AtMovesOn, MovesOK
    <3> QED
      BY <1>1, <3>1, <3>2, OverEnds, LeftOK DEF Left
  <2> QED
    BY <1>1, <1>2, <2>1, <2>2 DEF FilesOK, DiskOK, HistOK, disk, hist
<1>11. CASE WorkerSweeps(r)
  <2>1. UNCHANGED <<out, kept, missed>> /\ Wiped /\ Over(r)
    BY <1>11 DEF WorkerSweeps
  <2>2. DiskOK'
    BY <1>1, <2>1, WipedOK DEF DiskOK
  <2>3. WorkersOK'
    BY <1>1, <2>1, OverEnds, LeftOK DEF Left
  <2> QED
    BY <1>1, <1>2, <2>1, <2>2, <2>3 DEF FilesOK, HistOK
<1> QED
  BY <1>4, <1>5, <1>6, <1>7, <1>8, <1>9, <1>10, <1>11 DEF Local

-----------------------------------------------------------------------------
(* The inductive invariant of the files                                     *)

Owed    == IF lost THEN {} ELSE kept
OwedOut == IF lost \/ vod THEN {} ELSE kept

\* The checkpoint stands for the parts below its order, and what lies above them is
\* no more than the next tick writes over.
CkptInv ==
    ckpt # NoFile =>
      /\ Sound(parts, ckpt, <<>>, head, Owed, missed)
      /\ ~ lost => DOMAIN parts \subseteq 0 .. ckpt.order + Span(ckpt, head) - 1

\* A run that records, with its cursor and the units it still has to commit.
Recording(ck, plan) ==
    /\ Sound(parts, ck, plan, head, Owed, missed)
    /\ ~ lost => DOMAIN parts \subseteq 0 .. ck.order + Len(plan) - 1
    /\ ckpt # NoFile =>
         /\ ckpt.order <= ck.order
         /\ ~ lost => ck.order + Len(plan) <= ckpt.order + Span(ckpt, head)

\* The units to commit are the last ones of the tick.
Ready(plan) ==
    /\ Len(plan) <= Len(tick)
    /\ \A i \in 1 .. Len(plan) : plan[i] = tick[Len(tick) - Len(plan) + i]

Placed(c) ==
    /\ c.at \notin {"stage", "commit"} => c.plan = <<>>
    /\ c.at = "commit" => Ready(c.plan)
    /\ c.at = "rename" => temp = c.ck
    /\ c.at = "loop" => ckpt = c.ck
    /\ c.at = "assemble" => DOMAIN parts = 0 .. c.ck.order - 1

\* A run that stages the playlist of a finished video.
Downloads(plan) ==
    \E cursor \in Nat : Formed(plan, cursor) /\ Gapless(plan, cursor, missed)

OutInv == Good(out, OwedOut, missed)

Recorder == {"stage", "commit", "save", "rename", "loop", "staged", "verify", "assemble"}

RunInv(r) ==
    /\ w[r].at \in Recorder /\ ~ w[r].vod => Recording(w[r].ck, w[r].plan) /\ Placed(w[r])
    /\ w[r].at \in Recorder /\ w[r].vod =>
         Downloads(w[r].plan) /\ (w[r].at # "stage" => tick = w[r].plan)
    /\ w[r].at = "complete" => OutInv

DoneInv == status = "Completed" /\ call # "closed" => OutInv

RecordingInv == CkptInv /\ DoneInv /\ \A r \in Runs : r = gen => RunInv(r)

Wiping == {"wipe", "wipeAndRelease", "erase", "eraseAndRelease"}

\* Before the files of a task are removed nobody of its generation has begun.
WipeInv ==
    call \in Wiping => status # "Completed" /\ \A r \in Runs : r = gen => w[r].at = "none"

FilesInv ==
    /\ FilesOK /\ MismatchHasCause /\ WipeInv
    /\ ~ mingled => RecordingInv

-----------------------------------------------------------------------------
(* What is left alone stays true                                            *)

\* The server publishes more, more is missed, perhaps the checkpoint is found lost.
Frame ==
    /\ ServerOK /\ head' \in Nat \ {0} /\ head <= head' /\ head' <= MaxSeq
    /\ UNCHANGED <<parts, ckpt, kept>>
    /\ lost => lost'
    /\ missed \subseteq missed'

LEMMA FrameOwes ==
    ASSUME Frame PROVE Owed' \in SUBSET Owed /\ (UNCHANGED vod => OwedOut' \in SUBSET OwedOut)
  BY DEF Frame, Owed, OwedOut

LEMMA FrameSound ==
    ASSUME Frame, NEW ck, NEW plan, Sound(parts, ck, plan, head, Owed, missed)
    PROVE  Sound(parts', ck, plan, head', Owed', missed')
<1>1. head \in Nat /\ head' \in Nat /\ head <= head' /\ missed \subseteq missed' /\ parts' = parts
  BY RecordingAssumption DEF Frame, ServerOK
<1>2. Owed' \in SUBSET Owed
  BY FrameOwes
<1> QED
  BY <1>1, <1>2, SoundLasts

LEMMA FrameSpan ==
    ASSUME Frame, CkptInv, ckpt # NoFile
    PROVE  /\ Span(ckpt, head) \in Nat /\ Span(ckpt, head') \in Nat
           /\ Span(ckpt, head) <= Span(ckpt, head') /\ ckpt.order \in Nat
<1>1. Sound(parts, ckpt, <<>>, head, Owed, missed)
  BY DEF CkptInv
<1>2. head \in Nat \ {0} /\ head' \in Nat /\ head <= head' /\ head' <= MaxSeq
  BY RecordingAssumption DEF Frame, ServerOK
<1>3. ckpt.order \in Nat
  BY <1>1, CheckpointIs DEF Sound
<1> QED
  BY <1>1, <1>2, <1>3, SpanGrows

LEMMA FrameCkpt ==
    ASSUME Frame, CkptInv PROVE CkptInv'
<1> SUFFICES ASSUME ckpt' # NoFile
             PROVE  /\ Sound(parts', ckpt', <<>>, head', Owed', missed')
                    /\ ~ lost' => DOMAIN parts' \subseteq 0 .. ckpt'.order + Span(ckpt', head') - 1
  BY DEF CkptInv
<1>1. ckpt' = ckpt /\ parts' = parts /\ (lost => lost') /\ ckpt # NoFile
  BY DEF Frame
<1>2. /\ Span(ckpt, head) \in Nat /\ Span(ckpt, head') \in Nat
      /\ Span(ckpt, head) <= Span(ckpt, head') /\ ckpt.order \in Nat
  BY <1>1, FrameSpan
<1>3. Sound(parts', ckpt, <<>>, head', Owed', missed')
  BY <1>1, FrameSound DEF CkptInv
<1>4. ~ lost => DOMAIN parts \subseteq 0 .. ckpt.order + Span(ckpt, head) - 1
  BY <1>1 DEF CkptInv
<1>5. 0 .. ckpt.order + Span(ckpt, head) - 1 \subseteq 0 .. ckpt.order + Span(ckpt, head') - 1
  BY <1>2
<1> QED
  BY <1>1, <1>3, <1>4, <1>5

LEMMA FrameRecording ==
    ASSUME Frame, CkptInv, NEW ck, NEW plan, Recording(ck, plan)
    PROVE  /\ Sound(parts', ck, plan, head', Owed', missed')
           /\ ~ lost' => DOMAIN parts' \subseteq 0 .. ck.order + Len(plan) - 1
           /\ ckpt' # NoFile =>
                /\ ckpt'.order <= ck.order
                /\ ~ lost' => ck.order + Len(plan) <= ckpt'.order + Span(ckpt', head')
<1>1. ckpt' = ckpt /\ parts' = parts /\ (lost => lost')
  BY DEF Frame
<1>2. Sound(parts', ck, plan, head', Owed', missed')
  BY FrameSound DEF Recording
<1>3. /\ ~ lost => DOMAIN parts \subseteq 0 .. ck.order + Len(plan) - 1
      /\ ckpt # NoFile =>
           /\ ckpt.order <= ck.order
           /\ ~ lost => ck.order + Len(plan) <= ckpt.order + Span(ckpt, head)
  BY DEF Recording
<1>4. ck.order \in Nat /\ Len(plan) \in Nat
  <2>1. ck \in Checkpoints /\ plan \in Seq(Units)
    BY DEF Recording, Sound
  <2> QED
    BY <2>1, CheckpointIs, LenProperties
<1>5. ASSUME ckpt # NoFile, ~ lost
      PROVE  ck.order + Len(plan) <= ckpt.order + Span(ckpt, head')
  <2>1. /\ Span(ckpt, head) \in Nat /\ Span(ckpt, head') \in Nat
        /\ Span(ckpt, head) <= Span(ckpt, head') /\ ckpt.order \in Nat
    BY <1>5, FrameSpan
  <2>2. ck.order + Len(plan) <= ckpt.order + Span(ckpt, head)
    BY <1>3, <1>5
  <2> QED
    BY <1>4, <2>1, <2>2
<1> QED
  BY <1>1, <1>2, <1>3, <1>5

LEMMA FrameDownloads ==
    ASSUME Frame, NEW plan, Downloads(plan)
    PROVE  \E cursor \in Nat : Formed(plan, cursor) /\ Gapless(plan, cursor, missed')
  BY DEF Frame, Downloads, Gapless

LEMMA FrameOut ==
    ASSUME Frame, OutInv, UNCHANGED <<out, vod>> PROVE OutInv'
<1>1. OwedOut' \in SUBSET OwedOut /\ missed \subseteq missed' /\ out' = out
  BY FrameOwes DEF Frame
<1>2. Good(out, OwedOut, missed)
  BY DEF OutInv
<1>3. Good(out, OwedOut', missed')
  BY <1>1, <1>2 DEF Good
<1> QED
  BY <1>1, <1>3 DEF OutInv

\* A run whose record, tick and temporary file are left alone.
LEMMA FrameRun ==
    ASSUME Frame, CkptInv, NEW r \in Runs, RunInv(r), w'[r] = w[r],
           UNCHANGED <<tick, temp, out, vod>>
    PROVE  RunInv(r)'
<1>1. w'[r] = w[r] /\ tick' = tick /\ temp' = temp /\ ckpt' = ckpt /\ parts' = parts
  BY DEF Frame
<1>2. ASSUME w[r].at \in Recorder, ~ w[r].vod
      PROVE  Recording(w[r].ck, w[r].plan)' /\ Placed(w[r])'
  <2>1. Recording(w[r].ck, w[r].plan) /\ Placed(w[r])
    BY <1>2 DEF RunInv
  <2>2. Recording(w[r].ck, w[r].plan)'
    BY <1>1, <2>1, FrameRecording DEF Recording
  <2>3. Placed(w[r])'
    BY <1>1, <2>1 DEF Placed, Ready
  <2> QED
    BY <2>2, <2>3
<1>3. ASSUME w[r].at \in Recorder, w[r].vod
      PROVE  Downloads(w[r].plan)' /\ (w[r].at # "stage" => tick = w[r].plan)
  <2>1. Downloads(w[r].plan) /\ (w[r].at # "stage" => tick = w[r].plan)
    BY <1>3 DEF RunInv
  <2> QED
    BY <1>1, <2>1, FrameDownloads DEF Downloads
<1>4. ASSUME w[r].at = "complete" PROVE OutInv'
  BY <1>4, FrameOut DEF RunInv
<1> QED
  BY <1>1, <1>2, <1>3, <1>4 DEF RunInv

\* A step that leaves the files and the run of the generation alone.
LEMMA FrameAll ==
    ASSUME RecordingInv, Frame, UNCHANGED <<tick, temp, out, vod, gen>>,
           \A r \in Runs : r = gen => w'[r] = w[r],
           status' = "Completed" /\ call' # "closed" => status = "Completed" /\ call # "closed"
    PROVE  RecordingInv'
<1>1. CkptInv /\ DoneInv /\ \A r \in Runs : r = gen => RunInv(r)
  BY DEF RecordingInv
<1>2. CkptInv'
  BY <1>1, FrameCkpt
<1>3. DoneInv'
  BY <1>1, FrameOut DEF DoneInv
<1>4. \A r \in Runs : r = gen => RunInv(r)'
  BY <1>1, FrameRun
<1> QED
  BY <1>2, <1>3, <1>4 DEF RecordingInv

\* A step after which no run of the generation has anything to say of the files.
LEMMA FrameQuiet ==
    ASSUME RecordingInv, Frame, UNCHANGED <<out, vod>> \/ status' # "Completed",
           \A r \in Runs : r = gen' => w'[r].at \notin Recorder \cup {"complete"},
           status' = "Completed" /\ call' # "closed" => OutInv
    PROVE  RecordingInv'
<1>1. CkptInv'
  BY FrameCkpt DEF RecordingInv
<1>2. DoneInv'
  BY FrameOut DEF DoneInv
<1>3. \A r \in Runs : r = gen' => RunInv(r)'
  BY DEF RunInv
<1> QED
  BY <1>1, <1>2, <1>3 DEF RecordingInv

\* The run of the generation goes on with its plan.
LEMMA FrameMoves ==
    ASSUME RecordingInv, Frame, UNCHANGED <<gen, temp, tick, out, vod>>, status' # "Completed",
           NEW r \in Runs, r = gen, NEW where, Moves(r, where),
           w[r].at \in Recorder, where \in {"staged", "verify", "assemble"},
           w[r].at \notin {"stage", "commit"},
           where = "assemble" /\ ~ w[r].vod => DOMAIN parts = 0 .. w[r].ck.order - 1
    PROVE  RecordingInv'
<1>1. CkptInv' /\ CkptInv
  BY FrameCkpt DEF RecordingInv
<1>2. DoneInv'
  BY DEF DoneInv
<1>3. /\ tick' = tick /\ temp' = temp /\ ckpt' = ckpt /\ parts' = parts /\ gen' = gen
      /\ w'[r].at = where /\ w'[r].ck = w[r].ck /\ w'[r].plan = w[r].plan
      /\ w'[r].vod = w[r].vod
  BY DEF Frame, Moves
<1>4. RunInv(r)
  BY DEF RecordingInv
<1>5. ASSUME ~ w[r].vod
      PROVE  Recording(w[r].ck, w[r].plan)' /\ Placed(w[r])'
  <2>1. Recording(w[r].ck, w[r].plan) /\ Placed(w[r])
    BY <1>4, <1>5 DEF RunInv
  <2>2. Recording(w[r].ck, w[r].plan)'
    BY <1>1, <1>3, <2>1, FrameRecording DEF Recording
  <2>3. Placed(w[r])'
    BY <1>3, <1>5, <2>1 DEF Placed
  <2> QED
    BY <2>2, <2>3
<1>6. ASSUME w[r].vod
      PROVE  Downloads(w[r].plan)' /\ tick' = w'[r].plan
  <2>1. Downloads(w[r].plan) /\ tick = w[r].plan
    BY <1>4, <1>6 DEF RunInv
  <2> QED
    BY <1>3, <2>1, FrameDownloads DEF Downloads
<1>7. RunInv(r)'
  BY <1>3, <1>5, <1>6 DEF RunInv
<1> QED
  BY <1>1, <1>2, <1>3, <1>7 DEF RecordingInv

LEMMA NoFileIsNone == NoFile \notin Checkpoints
<1>1. \A c \in Checkpoints : DOMAIN c = {"cursor", "order", "init"}
  BY DEF Checkpoints
<1>2. DOMAIN <<>> = {}
  OBVIOUS
<1> QED
  BY <1>1, <1>2 DEF NoFile

-----------------------------------------------------------------------------
(* The steps of the run of the generation                                   *)

\* A refresh from the checkpoint on disk.
LEMMA RefreshRecords ==
    ASSUME RecordingInv, Frame, ckpt # NoFile, NEW r \in Runs, NEW plan,
           plan = Plan(Selected(ckpt.cursor, First(head')), head', ckpt.init),
           Refreshed(r, ckpt, plan),
           missed' = missed \cup (IF ckpt.cursor = 0 THEN {} ELSE ckpt.cursor .. First(head') - 1)
    PROVE  RunInv(r)'
<1> DEFINE next == [ckpt EXCEPT !.cursor = head' + 1]
           gone == ckpt.cursor .. First(head') - 1
<1>1. /\ Sound(parts, ckpt, <<>>, head, Owed, missed)
      /\ ~ lost => DOMAIN parts \subseteq 0 .. ckpt.order + Span(ckpt, head) - 1
  BY DEF RecordingInv, CkptInv
<1>2. /\ head \in Nat /\ head' \in Nat \ {0} /\ head <= head' /\ head' <= MaxSeq
      /\ parts' = parts /\ ckpt' = ckpt /\ (lost => lost') /\ Owed' \in SUBSET Owed
  BY FrameOwes, RecordingAssumption DEF Frame, ServerOK
<1>3. /\ w'[r].at = (IF plan = <<>> THEN "save" ELSE "stage")
      /\ w'[r].ck = next /\ w'[r].plan = plan /\ w'[r].vod = FALSE
  BY DEF Refreshed
<1>4. ckpt \in Checkpoints /\ 1 <= ckpt.cursor
  BY <1>1 DEF Sound
<1>5. /\ next \in Checkpoints /\ next.order = ckpt.order /\ next.cursor = head' + 1
      /\ ckpt.order \in Nat
  <2>1. head' + 1 \in 0 .. MaxSeq + 1
    BY <1>2, CursorTyped
  <2> QED
    BY <1>4, <2>1 DEF Checkpoints
<1>6. missed' = missed \cup gone
  BY <1>4, CheckpointIs
<1>7. Sound(parts, next, plan, head', Owed, missed \cup gone)
  BY <1>1, <1>2, SoundExtends
<1> HIDE DEF next, gone
<1>8. Sound(parts, next, plan, head', Owed', missed')
  BY <1>2, <1>6, <1>7, SoundLasts
<1>9. /\ Span(ckpt, head) \in Nat /\ Span(ckpt, head') \in Nat
      /\ Span(ckpt, head) <= Span(ckpt, head') /\ Len(plan) = Span(ckpt, head')
  <2>1. Len(plan) = Span(ckpt, head')
    BY DEF Span
  <2> QED
    BY <2>1, FrameSpan DEF RecordingInv
<1>10. ~ lost' => DOMAIN parts \subseteq 0 .. ckpt.order + Len(plan) - 1
  <2>1. 0 .. ckpt.order + Span(ckpt, head) - 1 \subseteq 0 .. ckpt.order + Len(plan) - 1
    BY <1>5, <1>9
  <2> QED
    BY <1>1, <1>2, <2>1
<1>11. Recording(w[r].ck, w[r].plan)'
  <2>1. ckpt.order <= next.order /\ next.order + Len(plan) <= ckpt.order + Span(ckpt, head')
    BY <1>5, <1>9
  <2> QED
    BY <1>2, <1>3, <1>5, <1>8, <1>10, <2>1 DEF Recording
<1>12. Placed(w[r])'
  BY <1>3 DEF Placed
<1> QED
  BY <1>3, <1>11, <1>12 DEF RunInv

\* A refresh that finds no checkpoint starts over; whatever was there counts as lost.
LEMMA StartRecords ==
    ASSUME Frame, ckpt = NoFile, NEW r \in Runs, NEW plan,
           plan = Plan(Selected(NewCheckpoint.cursor, First(head')), head', NewCheckpoint.init),
           Refreshed(r, NewCheckpoint, plan),
           ~ lost' => parts = <<>> /\ kept = {}
    PROVE  RunInv(r)'
<1> DEFINE next == [NewCheckpoint EXCEPT !.cursor = head' + 1]
<1>1. /\ head' \in Nat \ {0} /\ head' <= MaxSeq /\ parts' = parts /\ ckpt' = ckpt /\ kept' = kept
      /\ First(head') \in 1 .. head'
  BY FirstIs DEF Frame
<1>2. /\ w'[r].at = (IF plan = <<>> THEN "save" ELSE "stage")
      /\ w'[r].ck = next /\ w'[r].plan = plan /\ w'[r].vod = FALSE
  BY DEF Refreshed
<1>3. plan = Plan(First(head'), head', 0)
  <2>1. ~ (0 > First(head'))
    BY <1>1
  <2> QED
    BY <2>1, NewIsCheckpoint DEF Selected
<1>4. Sound(parts, next, plan, head', {}, missed')
  BY <1>1, <1>3, SoundStarts
<1>5. Owed' = {}
  BY <1>1 DEF Owed
<1>6. ~ lost' => DOMAIN parts = {}
  BY EmptySeq
<1>7. Recording(w[r].ck, w[r].plan)'
  BY <1>1, <1>2, <1>4, <1>5, <1>6 DEF Recording
<1>8. Placed(w[r])'
  BY <1>2 DEF Placed
<1> QED
  BY <1>2, <1>7, <1>8 DEF RunInv

\* With a new run of the generation that has its part of the invariant.
LEMMA FrameNewRun ==
    ASSUME RecordingInv, Frame, status' # "Completed", UNCHANGED gen, NEW r \in Runs, r = gen,
           RunInv(r)'
    PROVE  RecordingInv'
<1>1. CkptInv' /\ DoneInv'
  BY FrameCkpt DEF RecordingInv, DoneInv
<1> QED
  BY <1>1 DEF RecordingInv

\* What is known of the run of the generation when it moves.
Mine(r) ==
    /\ FilesOK /\ RecordingInv /\ r = gen /\ ~ mingled
    /\ status # "Completed" /\ UNCHANGED gen

LEMMA FailNotDone ==
    ASSUME NEW r \in Runs, status # "Completed",
           Fail(r) \/ Broken(r) \/ UNCHANGED job
    PROVE  status' # "Completed"
  BY DEF Fail, Broken, job

LEMMA LeftQuiet ==
    ASSUME NEW r \in Runs, Left(r)
    PROVE  w'[r].at \notin Recorder \cup {"complete"}
  BY DEF Left, Ends, Moves, Idle, Recorder

LEMMA MyFetch ==
    ASSUME NEW r \in Runs, Mine(r), WorkerFetches(r)
    PROVE  RecordingInv'
<1>1. /\ ServerOK /\ WorkersOK /\ DiskOK /\ UNCHANGED disk /\ UNCHANGED gen /\ status # "Completed"
      /\ r = gen /\ RecordingInv
  BY DEF FilesOK, WorkerFetches, Mine
<1>2. ASSUME ServerMoves \/ UNCHANGED server, kept' = kept, (lost => lost'), missed \subseteq missed'
      PROVE  Frame /\ ServerOK'
  BY <1>1, <1>2, ServerTyped DEF Frame, disk
<1>3. CASE Broken(r) /\ UNCHANGED <<server, hist>>
  <2>1. Left(r) /\ status' # "Completed"
    BY <1>1, <1>3, BrokenLeaves, FailNotDone
  <2>2. Frame
    BY <1>2, <1>3 DEF hist
  <2> QED
    BY <1>1, <2>1, <2>2, LeftQuiet, FrameQuiet
<1>4. CASE /\ ServerMoves /\ ended'
           /\ w' = [w EXCEPT ![r] = [Idle EXCEPT !.at = "stage", !.vod = TRUE,
                                                 !.plan = Plan(First(head'), head', 0)]]
           /\ UNCHANGED <<job, hist>>
  <2>1. Frame /\ ServerOK' /\ head' \in Nat \ {0} /\ head' <= MaxSeq
    BY <1>2, <1>4 DEF hist, Frame
  <2>2. Downloaded(r, Plan(First(head'), head', 0))
    BY <1>1, <1>4, <2>1, DownloadMakes
  <2>3. RunInv(r)'
    <3> DEFINE plan == Plan(First(head'), head', 0)
    <3>1. Formed(plan, head' + 1) /\ Gapless(plan, head' + 1, missed') /\ head' + 1 \in Nat
      BY <2>1, PlanPlays, CursorTyped
    <3> HIDE DEF plan
    <3>2. w'[r].at = "stage" /\ w'[r].vod = TRUE /\ w'[r].plan = plan
      BY <2>2 DEF Downloaded, plan
    <3>3. Downloads(w[r].plan)'
      BY <3>1, <3>2 DEF Downloads
    <3> QED
      BY <3>2, <3>3 DEF RunInv
  <2>4. status' # "Completed"
    BY <1>1, <1>4 DEF job
  <2> QED
    BY <1>1, <2>1, <2>3, <2>4, FrameNewRun
<1>5. CASE ServerMoves /\ UNCHANGED <<status, kept>> /\ At(r, "preview") /\ UNCHANGED <<missed, lost>>
  <2>1. Left(r) /\ Frame
    BY <1>1, <1>2, <1>5, AtMovesOn DEF Left
  <2> QED
    BY <1>1, <1>5, <2>1, LeftQuiet, FrameQuiet
<1>6. CASE /\ ServerMoves /\ UNCHANGED <<status, kept>> /\ Refresh(r, ReadCheckpoint)
           /\ lost' = (lost \/ (ckpt = NoFile /\ (parts # <<>> \/ kept # {})))
  <2>1. ServerOK'
    BY <1>1, <1>6, ServerTyped
  <2>2. ReadCheckpoint \in Checkpoints
    BY <1>1, NewIsCheckpoint DEF ReadCheckpoint, DiskOK
  <2> DEFINE ck == ReadCheckpoint
             plan == Plan(Selected(ck.cursor, First(head')), head', ck.init)
  <2>3. /\ Refreshed(r, ck, plan)
        /\ missed' = missed \cup (IF ck.cursor = 0 THEN {} ELSE ck.cursor .. First(head') - 1)
    BY <1>1, <1>6, <2>1, <2>2, RefreshMakes
  <2>4. Frame
    BY <1>2, <1>6, <2>3
  <2>5. RunInv(r)'
    <3>1. CASE ckpt = NoFile
      <4>1. ck = NewCheckpoint /\ (~ lost' => parts = <<>> /\ kept = {})
        BY <1>6, <3>1 DEF ReadCheckpoint
      <4> HIDE DEF ck
      <4> QED
        BY <2>3, <2>4, <3>1, <4>1, StartRecords
    <3>2. CASE ckpt # NoFile
      <4>1. ck = ckpt
        BY <3>2 DEF ReadCheckpoint
      <4> HIDE DEF ck
      <4> QED
        BY <1>1, <2>3, <2>4, <3>2, <4>1, RefreshRecords
    <3> QED
      BY <3>1, <3>2
  <2> QED
    BY <1>1, <1>6, <2>4, <2>5, FrameNewRun
<1> QED
  BY <1>3, <1>4, <1>5, <1>6 DEF WorkerFetches

LEMMA MyRefresh ==
    ASSUME NEW r \in Runs, Mine(r), WorkerRefreshes(r)
    PROVE  RecordingInv'
<1>1. /\ ServerOK /\ WorkersOK /\ DiskOK /\ UNCHANGED disk /\ UNCHANGED gen /\ status # "Completed"
      /\ r = gen /\ RecordingInv /\ w[r].at = "loop"
  BY DEF FilesOK, WorkerRefreshes, Mine
<1>2. ASSUME ServerMoves \/ UNCHANGED server, kept' = kept, lost' = lost, missed \subseteq missed'
      PROVE  Frame
  BY <1>1, <1>2, ServerTyped DEF Frame, disk
<1>3. CASE Broken(r) /\ UNCHANGED <<server, hist>>
  <2>1. Left(r) /\ status' # "Completed"
    BY <1>1, <1>3, BrokenLeaves, FailNotDone
  <2>2. Frame
    BY <1>2, <1>3 DEF hist
  <2> QED
    BY <1>1, <2>1, <2>2, LeftQuiet, FrameQuiet
<1>4. CASE ServerMoves /\ Refresh(r, w[r].ck) /\ UNCHANGED <<job, kept, lost>>
  <2>1. ServerOK'
    BY <1>1, <1>4, ServerTyped
  <2>2. w[r].ck \in Checkpoints /\ ~ w[r].vod
    BY <1>1 DEF WorkersOK, WorkerOK
  <2>3. w[r].ck = ckpt /\ ckpt # NoFile
    BY <1>1, <2>2, NoFileIsNone DEF RecordingInv, RunInv, Placed, Recorder
  <2> DEFINE plan == Plan(Selected(ckpt.cursor, First(head')), head', ckpt.init)
  <2>4. /\ Refreshed(r, ckpt, plan)
        /\ missed' = missed \cup (IF ckpt.cursor = 0 THEN {} ELSE ckpt.cursor .. First(head') - 1)
    BY <1>1, <1>4, <2>1, <2>2, <2>3, RefreshMakes
  <2>5. Frame
    BY <1>2, <1>4, <2>4
  <2>6. RunInv(r)'
    BY <1>1, <2>3, <2>4, <2>5, RefreshRecords
  <2>7. status' # "Completed"
    BY <1>1, <1>4 DEF job
  <2> QED
    BY <1>1, <2>5, <2>6, <2>7, FrameNewRun
<1> QED
  BY <1>3, <1>4 DEF WorkerRefreshes

LEMMA MyStage ==
    ASSUME NEW r \in Runs, Mine(r), WorkerStages(r), UNCHANGED server
    PROVE  RecordingInv'
<1>1. /\ ServerOK /\ WorkersOK /\ UNCHANGED gen /\ status # "Completed"
      /\ r = gen /\ RecordingInv /\ w[r].at = "stage" /\ WorkerOK(w[r])
      /\ UNCHANGED <<parts, ckpt, temp, out, kept, missed, lost, vod, mismatch>>
  BY DEF FilesOK, WorkerStages, Mine, WorkersOK
<1>2. Frame
  BY <1>1, ServerTyped DEF Frame
<1>3. CASE Broken(r) /\ UNCHANGED <<tick, mingled>>
  BY <1>1, <1>2, <1>3, BrokenLeaves, FailNotDone, LeftQuiet, FrameQuiet
<1>4. CASE tick' = w[r].plan /\ At(r, IF w[r].vod THEN "staged" ELSE "commit") /\ UNCHANGED job
  <2> DEFINE where == IF w[r].vod THEN "staged" ELSE "commit"
  <2>1. Moves(r, where) /\ status' # "Completed" /\ tick' = w[r].plan
    BY <1>1, <1>4, AtMovesOn DEF job
  <2>2. (w[r].vod => where = "staged") /\ (~ w[r].vod => where = "commit")
    OBVIOUS
  <2> HIDE DEF where
  <2>3. /\ w'[r].at = where /\ w'[r].ck = w[r].ck /\ w'[r].plan = w[r].plan
        /\ w'[r].vod = w[r].vod
    BY <2>1 DEF Moves
  <2>4. RunInv(r) /\ CkptInv
    BY <1>1 DEF RecordingInv
  <2>5. ASSUME ~ w[r].vod PROVE RunInv(r)'
    <3>1. Recording(w[r].ck, w[r].plan)
      BY <1>1, <2>4, <2>5 DEF RunInv, Recorder
    <3>2. Recording(w[r].ck, w[r].plan)'
      BY <1>2, <2>3, <2>4, <3>1, FrameRecording DEF Recording
    <3>3. Ready(w[r].plan)'
      <4>1. w[r].plan \in Seq(Units)
        BY <1>1 DEF WorkerOK
      <4>2. /\ Len(w[r].plan) \in Nat
            /\ \A i \in 1 .. Len(w[r].plan) : Len(w[r].plan) - Len(w[r].plan) + i = i
        BY <4>1, LenProperties
      <4> QED
        BY <2>1, <2>3, <4>2 DEF Ready
    <3>4. Placed(w[r])'
      BY <2>2, <2>3, <2>5, <3>3 DEF Placed
    <3> QED
      BY <2>2, <2>3, <2>5, <3>2, <3>4 DEF RunInv
  <2>6. ASSUME w[r].vod PROVE RunInv(r)'
    <3>1. Downloads(w[r].plan)
      BY <1>1, <2>4, <2>6 DEF RunInv, Recorder
    <3>2. Downloads(w[r].plan)'
      BY <1>2, <2>3, <3>1, FrameDownloads DEF Downloads
    <3> QED
      BY <2>1, <2>2, <2>3, <2>6, <3>2 DEF RunInv
  <2> QED
    BY <1>1, <1>2, <2>1, <2>5, <2>6, FrameNewRun
<1> QED
  BY <1>3, <1>4 DEF WorkerStages

\* A commit writes over what lies above the order of the checkpoint.
LEMMA MyCommit ==
    ASSUME NEW r \in Runs, Mine(r), WorkerCommits(r), UNCHANGED server
    PROVE  RecordingInv'
<1>1. /\ ServerOK /\ WorkersOK /\ DiskOK /\ UNCHANGED gen /\ status # "Completed"
      /\ r = gen /\ RecordingInv /\ w[r].at = "commit" /\ WorkerOK(w[r])
      /\ UNCHANGED <<kept, missed, lost, vod>>
      /\ (Broken(r) /\ UNCHANGED <<disk, mingled>>) \/ CommitsOne(r)
  BY CommitIs DEF FilesOK, Mine, WorkersOK
<1>2. CASE Broken(r) /\ UNCHANGED <<disk, mingled>>
  <2>1. Frame /\ UNCHANGED <<out, vod>>
    BY <1>1, <1>2, ServerTyped DEF Frame, disk
  <2> QED
    BY <1>1, <1>2, <2>1, BrokenLeaves, FailNotDone, LeftQuiet, FrameQuiet
<1>3. CASE CommitsOne(r)
  <2> DEFINE plan == w[r].plan
             ck == w[r].ck
             u == tick[Len(tick) - Len(plan) + 1]
             k == ck.order
             next == w'[r].ck
  <2>1. /\ Len(plan) <= Len(tick) /\ plan # <<>> /\ plan \in Seq(Units)
        /\ Committed(r, u) /\ UNCHANGED job /\ ~ w[r].vod
    BY <1>1, <1>3, CommitMakes DEF WorkerOK
  <2>2. Recording(ck, plan) /\ Ready(plan) /\ CkptInv
    BY <1>1, <2>1 DEF RecordingInv, RunInv, Recorder, Placed
  <2>3. /\ Len(plan) \in Nat /\ Len(plan) > 0 /\ Len(tick) \in Nat
        /\ Tail(plan) \in Seq(Units) /\ Len(Tail(plan)) = Len(plan) - 1
        /\ \A i \in 1 .. Len(plan) - 1 : Tail(plan)[i] = plan[i + 1]
    BY <1>1, <2>1, LenProperties, HeadTailProperties, EmptySeq DEF DiskOK
  <2>4. u = plan[1]
    <3>1. 1 \in 1 .. Len(plan)
      BY <2>3
    <3> QED
      BY <2>2, <3>1 DEF Ready
  <2>5. /\ DOMAIN parts' = DOMAIN parts \cup {k}
        /\ \A o \in DOMAIN parts' : parts'[o] = IF o = k THEN u ELSE parts[o]
        /\ tick' = (IF Len(plan) = 1 THEN <<>> ELSE tick) /\ ckpt' = ckpt
        /\ w'[r].plan = Tail(plan) /\ w'[r].vod = w[r].vod
        /\ w'[r].at = (IF Len(plan) = 1 THEN "save" ELSE "commit")
        /\ next \in Checkpoints /\ next.order = k + 1 /\ next.cursor = ck.cursor
        /\ next.init = (IF IsMedia(u) THEN ck.init ELSE u[2])
    BY <2>1 DEF Committed
  <2>6. /\ Sound(parts, ck, plan, head, Owed, missed)
        /\ ~ lost => DOMAIN parts \subseteq 0 .. k + Len(plan) - 1
        /\ ckpt # NoFile =>
             /\ ckpt.order <= k
             /\ ~ lost => k + Len(plan) <= ckpt.order + Span(ckpt, head)
    BY <2>2 DEF Recording
  <2>7. k \in Nat /\ 0 .. k - 1 \subseteq DOMAIN parts
    BY <2>6, CheckpointIs DEF Sound
  <2>8. head' = head /\ lost' = lost /\ missed' = missed /\ kept' = kept /\ Owed' = Owed
    BY <1>1 DEF server, Owed
  <2>9. status' # "Completed"
    BY <1>1, <2>1 DEF job
  <2> HIDE DEF u, plan, ck, k, next
  <2>10. /\ 0 .. k \subseteq DOMAIN parts'
         /\ \A o \in 0 .. k : parts'[o] = IF o = k THEN plan[1] ELSE parts[o]
    BY <2>4, <2>5, <2>7
  <2>11. Sound(parts', next, Tail(plan), head, Owed, missed)
    <3>1. /\ Sound(parts, ck, plan, head, Owed, missed) /\ plan # <<>>
          /\ 0 .. ck.order \subseteq DOMAIN parts'
          /\ \A o \in 0 .. ck.order : parts'[o] = IF o = ck.order THEN plan[1] ELSE parts[o]
          /\ next \in Checkpoints /\ next.order = ck.order + 1 /\ next.cursor = ck.cursor
          /\ next.init = IF IsMedia(plan[1]) THEN ck.init ELSE plan[1][2]
      BY <2>1, <2>4, <2>5, <2>6, <2>10 DEF k
    <3> QED
      BY <3>1, SoundCommits
  <2>12. next.order + Len(Tail(plan)) = k + Len(plan)
    BY <2>3, <2>5, <2>7
  <2>13. ~ lost => DOMAIN parts' \subseteq 0 .. k + Len(plan) - 1
    BY <2>3, <2>5, <2>6, <2>7
  <2>14. Recording(w[r].ck, w[r].plan)'
    <3>1. ckpt # NoFile => ckpt.order <= k + 1
      <4>1. ckpt # NoFile => ckpt.order \in Nat
        BY <2>2, CheckpointIs DEF CkptInv, Sound
      <4> QED
        BY <2>6, <2>7, <4>1
    <3>2. Sound(parts', next, Tail(plan), head', Owed', missed')
      BY <2>8, <2>11
    <3>3. ~ lost' => DOMAIN parts' \subseteq 0 .. next.order + Len(Tail(plan)) - 1
      <4>1. next.order + Len(Tail(plan)) - 1 = k + Len(plan) - 1
        BY <2>3, <2>5, <2>7
      <4> QED
        BY <2>8, <2>13, <4>1
    <3>4. ckpt' # NoFile =>
            /\ ckpt'.order <= next.order
            /\ ~ lost' => next.order + Len(Tail(plan)) <= ckpt'.order + Span(ckpt', head')
      BY <2>5, <2>6, <2>8, <2>12, <3>1
    <3> QED
      BY <2>5, <3>2, <3>3, <3>4 DEF Recording, next
  <2>15. CkptInv'
    <3> SUFFICES ASSUME ckpt # NoFile
                 PROVE  /\ Sound(parts', ckpt, <<>>, head, Owed, missed)
                        /\ ~ lost => DOMAIN parts' \subseteq 0 .. ckpt.order + Span(ckpt, head) - 1
      BY <2>5, <2>8 DEF CkptInv
    <3>1. /\ Sound(parts, ckpt, <<>>, head, Owed, missed)
          /\ ~ lost => DOMAIN parts \subseteq 0 .. ckpt.order + Span(ckpt, head) - 1
      BY <2>2 DEF CkptInv
    <3>2. ckpt.order \in Nat /\ ckpt.order <= k
      BY <2>6, <3>1, CheckpointIs DEF Sound
    <3>3. \A o \in 0 .. ckpt.order - 1 : parts'[o] = parts[o]
      BY <2>7, <2>10, <3>2
    <3>4. Sound(parts', ckpt, <<>>, head, Owed, missed)
      BY <2>5, <3>1, <3>3, SoundElsewhere
    <3>5. ~ lost => k \in 0 .. ckpt.order + Span(ckpt, head) - 1
      <4>1. Span(ckpt, head) \in Nat
        <5>1. head \in Nat \ {0} /\ head \in Nat /\ head <= head /\ head <= MaxSeq
          BY <1>1, RecordingAssumption DEF ServerOK
        <5> QED
          BY <3>1, <5>1, SpanGrows
      <4>2. ~ lost => k + Len(plan) <= ckpt.order + Span(ckpt, head)
        BY <2>6
      <4> QED
        BY <2>3, <2>7, <3>2, <4>1, <4>2
    <3> QED
      BY <2>5, <3>1, <3>4, <3>5
  <2>16. Placed(w[r])'
    <3>1. CASE Len(plan) = 1
      <4>1. Tail(plan) = <<>>
        <5>1. Tail(plan) \in Seq(Units) /\ Len(Tail(plan)) = 0
          BY <2>3, <3>1
        <5> QED
          BY <5>1, EmptySeq
      <4> QED
        BY <2>5, <3>1, <4>1 DEF Placed
    <3>2. CASE Len(plan) # 1
      <4>1. Len(Tail(plan)) <= Len(tick)
        BY <2>1, <2>3
      <4>2. ASSUME NEW i \in 1 .. Len(Tail(plan))
            PROVE  Tail(plan)[i] = tick[Len(tick) - Len(Tail(plan)) + i]
        <5>1. i + 1 \in 1 .. Len(plan) /\ i \in 1 .. Len(plan) - 1
              /\ Len(tick) - Len(plan) + (i + 1) = Len(tick) - Len(Tail(plan)) + i
          BY <2>3
        <5>2. plan[i + 1] = tick[Len(tick) - Len(plan) + (i + 1)]
          BY <2>2, <5>1 DEF Ready
        <5> QED
          BY <2>3, <5>1, <5>2
      <4>3. Ready(w[r].plan)'
        BY <2>5, <3>2, <4>1, <4>2 DEF Ready
      <4> QED
        BY <2>5, <3>2, <4>3 DEF Placed
    <3> QED
      BY <3>1, <3>2
  <2>17. RunInv(r)'
    BY <2>1, <2>5, <2>14, <2>16 DEF RunInv
  <2>18. DoneInv'
    BY <2>9 DEF DoneInv
  <2> QED
    BY <1>1, <2>15, <2>17, <2>18 DEF RecordingInv
<1> QED
  BY <1>1, <1>2, <1>3

\* The old checkpoint goes; the new one is in the temporary file.
LEMMA MyUnlink ==
    ASSUME NEW r \in Runs, Mine(r), WorkerUnlinks(r), UNCHANGED server
    PROVE  RecordingInv'
<1>1. /\ ServerOK /\ WorkersOK /\ DiskOK /\ UNCHANGED gen /\ status # "Completed"
      /\ r = gen /\ RecordingInv /\ w[r].at = "save" /\ WorkerOK(w[r])
      /\ UNCHANGED <<parts, tick, out, kept, missed, lost, vod>> /\ UNCHANGED server
  BY DEF FilesOK, WorkerUnlinks, Mine, WorkersOK
<1>2. CASE Broken(r) /\ UNCHANGED <<ckpt, temp, mingled>>
  <2>1. Frame
    BY <1>1, <1>2, ServerTyped DEF Frame
  <2> QED
    BY <1>1, <1>2, <2>1, BrokenLeaves, FailNotDone, LeftQuiet, FrameQuiet
<1>3. CASE temp' = w[r].ck /\ ckpt' = NoFile /\ At(r, "rename") /\ UNCHANGED job
  <2>1. Moves(r, "rename") /\ status' # "Completed"
    BY <1>1, <1>3, AtMovesOn DEF job
  <2>2. Recording(w[r].ck, w[r].plan) /\ w[r].plan = <<>> /\ ~ w[r].vod
    BY <1>1 DEF RecordingInv, RunInv, Recorder, Placed, WorkerOK
  <2>3. /\ w'[r].at = "rename" /\ w'[r].ck = w[r].ck /\ w'[r].plan = w[r].plan
        /\ w'[r].vod = w[r].vod
    BY <2>1 DEF Moves
  <2>4. head' = head /\ Owed' = Owed
    BY <1>1 DEF server, Owed
  <2>5. Recording(w[r].ck, w[r].plan)'
    BY <1>1, <1>3, <2>2, <2>3, <2>4 DEF Recording
  <2>6. Placed(w[r])'
    BY <1>3, <2>2, <2>3 DEF Placed
  <2>7. RunInv(r)'
    BY <2>2, <2>3, <2>5, <2>6 DEF RunInv
  <2>8. CkptInv' /\ DoneInv'
    BY <1>3, <2>1 DEF CkptInv, DoneInv
  <2> QED
    BY <1>1, <2>7, <2>8 DEF RecordingInv
<1> QED
  BY <1>2, <1>3 DEF WorkerUnlinks

\* The new checkpoint takes its name: what the parts hold is kept from now on.
LEMMA MyRename ==
    ASSUME NEW r \in Runs, Mine(r), WorkerRenames(r), UNCHANGED server
    PROVE  RecordingInv'
<1>1. /\ ServerOK /\ WorkersOK /\ DiskOK /\ UNCHANGED gen /\ status # "Completed"
      /\ r = gen /\ RecordingInv /\ w[r].at = "rename" /\ WorkerOK(w[r])
      /\ UNCHANGED <<parts, tick, out, missed, lost, vod>> /\ UNCHANGED server
  BY DEF FilesOK, WorkerRenames, Mine, WorkersOK
<1>2. CASE Broken(r) /\ UNCHANGED <<ckpt, temp, kept, mingled>>
  <2>1. Frame
    BY <1>1, <1>2, ServerTyped DEF Frame
  <2> QED
    BY <1>1, <1>2, <2>1, BrokenLeaves, FailNotDone, LeftQuiet, FrameQuiet
<1>3. CASE /\ ckpt' = temp /\ temp' = NoFile /\ kept' = kept \cup Recorded
           /\ At(r, IF w[r].end \/ finish THEN "staged" ELSE "loop") /\ UNCHANGED job
  <2> DEFINE where == IF w[r].end \/ finish THEN "staged" ELSE "loop"
             ck == w[r].ck
             line == Line(parts, ck.order, <<>>)
  <2>1. Moves(r, where) /\ status' # "Completed" /\ where \in {"staged", "loop"}
    BY <1>1, <1>3, AtMovesOn DEF job
  <2> HIDE DEF where
  <2>2. Recording(ck, <<>>) /\ w[r].plan = <<>> /\ ~ w[r].vod /\ temp = ck
    BY <1>1 DEF RecordingInv, RunInv, Recorder, Placed, WorkerOK
  <2>3. /\ w'[r].at = where /\ w'[r].ck = ck /\ w'[r].plan = <<>> /\ w'[r].vod = w[r].vod
    BY <2>1, <2>2 DEF Moves
  <2>4. head' = head /\ Owed' = (IF lost THEN {} ELSE kept \cup Recorded)
    BY <1>1, <1>3 DEF server, Owed
  <2>5. /\ Sound(parts, ck, <<>>, head, Owed, missed)
        /\ ~ lost => DOMAIN parts \subseteq 0 .. ck.order + Len(<<>>) - 1
    BY <2>2 DEF Recording
  <2>6. ck \in Checkpoints /\ ck.order \in Nat /\ ck.order + Len(<<>>) = ck.order
    <3>1. ck \in Checkpoints
      BY <2>5 DEF Sound
    <3>2. ck.order \in Nat
      BY <3>1, CheckpointIs
    <3> HIDE DEF ck
    <3> QED
      BY <3>1, <3>2
  <2>7. ~ lost => Keeps(line, kept \cup Recorded)
    <3> SUFFICES ASSUME ~ lost, NEW n \in kept \cup Recorded PROVE Holds(line, n)
      BY DEF Keeps
    <3>1. CASE n \in kept
      <4>1. Keeps(line, kept)
        BY <2>5 DEF Sound, Owed
      <4> QED
        BY <3>1, <4>1 DEF Keeps
    <3>2. CASE n \in Recorded
      <4>1. PICK o \in DOMAIN parts : parts[o] = Media(n)
        BY <3>2, RecordedIs
      <4>2. o \in 0 .. ck.order - 1
        BY <2>5, <2>6
      <4>3. \A i \in 0 .. ck.order - 1 : parts[i] \in Units
        BY <2>5 DEF Sound
      <4>4. DOMAIN line = 1 .. ck.order /\ \A i \in 1 .. ck.order : line[i] = parts[i - 1]
        BY <2>6, <4>3, LineBase
      <4>5. o + 1 \in 1 .. ck.order /\ (o + 1) - 1 = o
        BY <2>6, <4>2
      <4> HIDE DEF line
      <4> QED
        BY <4>1, <4>4, <4>5 DEF Holds
    <3> QED
      BY <3>1, <3>2
  <2>8. Sound(parts, ck, <<>>, head, Owed', missed)
    <3>1. Keeps(line, Owed')
      BY <2>4, <2>7 DEF Keeps
    <3> QED
      BY <2>5, <3>1 DEF Sound
  <2>9. Span(ck, head) \in Nat
    <3>1. head \in Nat \ {0} /\ head \in Nat /\ head <= head /\ head <= MaxSeq
      BY <1>1, RecordingAssumption DEF ServerOK
    <3> QED
      BY <2>5, <3>1, SpanGrows
  <2> HIDE DEF ck
  <2>10. Recording(w[r].ck, w[r].plan)'
    <3>1. ck.order <= ck.order /\ ck.order + Len(<<>>) <= ck.order + Span(ck, head)
      BY <2>6, <2>9
    <3> QED
      BY <1>1, <1>3, <2>2, <2>3, <2>4, <2>5, <2>8, <3>1 DEF Recording
  <2>11. CkptInv'
    <3>1. ~ lost => DOMAIN parts \subseteq 0 .. ck.order + Span(ck, head) - 1
      BY <2>5, <2>6, <2>9
    <3> QED
      BY <1>1, <1>3, <2>2, <2>4, <2>8, <3>1 DEF CkptInv
  <2>12. Placed(w[r])'
    BY <1>3, <2>1, <2>2, <2>3 DEF Placed
  <2>13. RunInv(r)' /\ DoneInv'
    BY <2>1, <2>2, <2>3, <2>10, <2>12 DEF RunInv, DoneInv
  <2> QED
    BY <1>1, <2>11, <2>13 DEF RecordingInv
<1> QED
  BY <1>2, <1>3 DEF WorkerRenames

LEMMA MyVerify ==
    ASSUME NEW r \in Runs, Mine(r), WorkerVerifies(r), UNCHANGED server
    PROVE  RecordingInv'
<1>1. /\ ServerOK /\ WorkersOK /\ UNCHANGED gen /\ status # "Completed"
      /\ r = gen /\ RecordingInv /\ w[r].at = "staged"
      /\ UNCHANGED <<parts, ckpt, temp, tick, out, kept, missed, lost, vod>>
  BY DEF FilesOK, WorkerVerifies, Mine, disk, hist
<1>2. Frame
  BY <1>1, ServerTyped DEF Frame
<1>3. status' # "Completed" /\ (Left(r) \/ Moves(r, "verify"))
  BY <1>1, AdvanceMoves DEF WorkerVerifies, Advance
<1>4. CASE Left(r)
  BY <1>1, <1>2, <1>3, <1>4, LeftQuiet, FrameQuiet
<1>5. CASE Moves(r, "verify")
  BY <1>1, <1>2, <1>3, <1>5, FrameMoves DEF Recorder
<1> QED
  BY <1>3, <1>4, <1>5

\* As many parts as were counted, and none of the counted ones missing: no others.
LEMMA CountedParts ==
    ASSUME NEW S, IsFiniteSet(S), NEW n \in Nat, 0 .. n - 1 \subseteq S,
           S \subseteq 0 .. n - 1 \/ Cardinality(S) = n
    PROVE  S = 0 .. n - 1 /\ Cardinality(S) = n
<1>1. Cardinality(0 .. n - 1) = n
  <2>1. 0 \in Int /\ n - 1 \in Int
    OBVIOUS
  <2>2. Cardinality(0 .. n - 1) = IF 0 > n - 1 THEN 0 ELSE (n - 1) - 0 + 1
    BY <2>1, FS_Interval
  <2> QED
    BY <2>2
<1>2. Cardinality(S) = n => S = 0 .. n - 1
  BY <1>1, FS_Subset
<1> QED
  BY <1>1, <1>2

\* What the size check of a run that records finds.
LEMMA VerifiedParts ==
    ASSUME NEW r \in Runs, Mine(r), w[r].at = "verify"
    PROVE  /\ ~ w[r].vod /\ Complete(r) => DOMAIN parts = 0 .. w[r].ck.order - 1
           /\ Complete(r) \/ lost
<1>1. RunInv(r) /\ DiskOK /\ WorkerOK(w[r])
  BY DEF Mine, RecordingInv, FilesOK, WorkersOK
<1>2. ASSUME ~ w[r].vod
      PROVE  /\ Complete(r) => DOMAIN parts = 0 .. w[r].ck.order - 1
             /\ Complete(r) \/ lost
  <2> DEFINE ck == w[r].ck
  <2>1. Recording(ck, <<>>)
    BY <1>1, <1>2 DEF RunInv, Recorder, Placed
  <2>2. /\ Sound(parts, ck, <<>>, head, Owed, missed)
        /\ ~ lost => DOMAIN parts \subseteq 0 .. ck.order + Len(<<>>) - 1
    BY <2>1 DEF Recording
  <2>3. ck.order \in Nat /\ ck.order > 0 /\ 0 .. ck.order - 1 \subseteq DOMAIN parts
    <3>1. ck \in Checkpoints /\ 0 .. ck.order - 1 \subseteq DOMAIN parts
      BY <2>2 DEF Sound
    <3> QED
      BY <2>2, <3>1, SoundNames, CheckpointIs
  <2>4. Complete(r) <=> parts # <<>> /\ Cardinality(DOMAIN parts) = ck.order
    BY <1>2 DEF Complete
  <2> HIDE DEF ck
  <2>5. ~ lost => DOMAIN parts \subseteq 0 .. ck.order - 1
    <3>1. Len(<<>>) = 0
      OBVIOUS
    <3>2. 0 .. ck.order + Len(<<>>) - 1 = 0 .. ck.order - 1
      BY <2>3, <3>1
    <3> QED
      BY <2>2, <3>2
  <2>6. IsFiniteSet(DOMAIN parts)
    BY <1>1 DEF DiskOK
  <2>7. 0 \in DOMAIN parts
    BY <2>3
  <2>8. parts # <<>>
    BY <2>7, EmptySeq
  <2>9. /\ Complete(r) => DOMAIN parts = 0 .. ck.order - 1
        /\ Complete(r) \/ lost
    BY <2>3, <2>4, <2>5, <2>6, <2>8, CountedParts
  <2> QED
    BY <2>9 DEF ck
<1>3. ASSUME w[r].vod PROVE Complete(r)
  BY <1>1, <1>3 DEF RunInv, Recorder, Complete
<1> QED
  BY <1>2, <1>3

LEMMA MyFinalize ==
    ASSUME NEW r \in Runs, Mine(r), WorkerFinalizes(r), UNCHANGED server
    PROVE  RecordingInv' /\ (mismatch' => mismatch \/ lost)
<1>1. /\ ServerOK /\ WorkersOK /\ UNCHANGED gen /\ status # "Completed"
      /\ r = gen /\ RecordingInv /\ w[r].at = "verify"
      /\ UNCHANGED <<parts, ckpt, temp, tick, out, kept, missed, lost, vod>>
  BY DEF FilesOK, WorkerFinalizes, Mine, disk
<1>2. Frame
  BY <1>1, ServerTyped DEF Frame
<1>3. /\ ~ w[r].vod /\ Complete(r) => DOMAIN parts = 0 .. w[r].ck.order - 1
      /\ Complete(r) \/ lost
  BY <1>1, VerifiedParts
<1>4. CASE Complete(r) /\ Advance(r, "Finalizing", "assemble") /\ UNCHANGED mismatch
  <2>1. status' # "Completed" /\ (Left(r) \/ Moves(r, "assemble"))
    BY <1>1, <1>4, AdvanceMoves DEF Advance
  <2>2. CASE Left(r)
    BY <1>1, <1>2, <1>4, <2>1, <2>2, LeftQuiet, FrameQuiet
  <2>3. CASE Moves(r, "assemble")
    BY <1>1, <1>2, <1>3, <1>4, <2>1, <2>3, FrameMoves DEF Recorder
  <2> QED
    BY <1>4, <2>1, <2>2, <2>3
<1>5. CASE ~ Complete(r) /\ Fail(r)
  <2>1. Left(r) /\ status' # "Completed"
    BY <1>1, <1>5, FailLeaves, FailNotDone
  <2> QED
    BY <1>1, <1>2, <1>3, <1>5, <2>1, LeftQuiet, FrameQuiet
<1> QED
  BY <1>4, <1>5 DEF WorkerFinalizes

\* A file that plays whatever it owes.
LEMMA GoodOut ==
    ASSUME NEW cursor \in Nat, out' \in Seq(Units), Formed(out', cursor),
           Gapless(out', cursor, missed'), Keeps(out', OwedOut')
    PROVE  OutInv'
<1>1. Good(out', OwedOut', missed')
  BY FormedIsGood
<1> QED
  BY <1>1 DEF OutInv

\* The parts of a recording, or the tick of a finished video, become the file.
LEMMA MyAssemble ==
    ASSUME NEW r \in Runs, Mine(r), WorkerAssembles(r), UNCHANGED server
    PROVE  RecordingInv'
<1>1. /\ ServerOK /\ WorkersOK /\ DiskOK /\ UNCHANGED gen /\ status # "Completed"
      /\ r = gen /\ RecordingInv /\ w[r].at = "assemble" /\ WorkerOK(w[r])
      /\ UNCHANGED <<parts, ckpt, temp, tick, kept, missed, lost>>
  BY DEF FilesOK, WorkerAssembles, Mine, WorkersOK
<1>2. Frame
  BY <1>1, ServerTyped DEF Frame
<1>3. CASE Fail(r) /\ UNCHANGED <<out, mingled, vod>>
  BY <1>1, <1>2, <1>3, FailLeaves, FailNotDone, LeftQuiet, FrameQuiet
<1>4. ASSUME NEW source, source = (IF w[r].vod THEN tick ELSE Listing), out' = source,
             vod' = w[r].vod, At(r, "complete"), UNCHANGED job
      PROVE  RecordingInv'
  <2>1. Moves(r, "complete") /\ status' # "Completed"
    BY <1>1, <1>4, AtMovesOn DEF job
  <2>2. RunInv(r)
    BY <1>1 DEF RecordingInv
  <2>3. ASSUME ~ w[r].vod PROVE OutInv'
    <3> DEFINE ck == w[r].ck
    <3>1. Recording(ck, <<>>) /\ DOMAIN parts = 0 .. ck.order - 1
      BY <1>1, <2>2, <2>3 DEF RunInv, Recorder, Placed
    <3>2. Sound(parts, ck, <<>>, head, Owed, missed)
      BY <3>1 DEF Recording
    <3> DEFINE line == Line(parts, ck.order, <<>>)
    <3>3. /\ ck \in Checkpoints /\ \A o \in 0 .. ck.order - 1 : parts[o] \in Units
          /\ Formed(line, ck.cursor) /\ Gapless(line, ck.cursor, missed)
          /\ Keeps(line, Owed)
      BY <3>2 DEF Sound
    <3>4. ck.order \in Nat /\ ck.cursor \in Nat
      BY <3>3, CheckpointIs
    <3>5. line \in Seq(Units)
      BY <3>3, <3>4, LineBase
    <3> HIDE DEF ck
    <3>6. Ordered(parts) = line
      BY <3>1, <3>4, OrderedIsLine
    <3>7. out' = line
      BY <1>1, <1>4, <2>3, <3>6, ListingTyped
    <3>8. OwedOut' = Owed
      BY <1>1, <1>4, <2>3 DEF OwedOut, Owed
    <3>9. missed' = missed
      BY <1>1
    <3> HIDE DEF line
    <3> QED
      BY <3>3, <3>4, <3>5, <3>7, <3>8, <3>9, GoodOut
  <2>4. ASSUME w[r].vod PROVE OutInv'
    <3>1. Downloads(w[r].plan) /\ tick = w[r].plan
      BY <1>1, <2>2, <2>4 DEF RunInv, Recorder
    <3>2. out' = tick /\ out' \in Seq(Units) /\ OwedOut' = {} /\ missed' = missed
      BY <1>1, <1>4, <2>4 DEF OwedOut, DiskOK
    <3>3. PICK cursor \in Nat : Formed(tick, cursor) /\ Gapless(tick, cursor, missed)
      BY <3>1 DEF Downloads
    <3>4. Keeps(tick, {})
      BY DEF Keeps
    <3> QED
      BY <3>2, <3>3, <3>4, GoodOut
  <2>5. w'[r].at = "complete" /\ OutInv'
    BY <1>1, <2>1, <2>3, <2>4 DEF Moves, WorkerOK
  <2>6. RunInv(r)'
    BY <2>5 DEF RunInv, Recorder
  <2> QED
    BY <1>1, <1>2, <2>1, <2>6, FrameNewRun
<1> QED
  BY <1>3, <1>4 DEF WorkerAssembles

LEMMA MyComplete ==
    ASSUME NEW r \in Runs, Mine(r), WorkerCompletes(r), UNCHANGED server
    PROVE  RecordingInv'
<1>1. /\ ServerOK /\ WorkersOK /\ UNCHANGED gen /\ status # "Completed"
      /\ r = gen /\ RecordingInv /\ w[r].at = "complete"
      /\ UNCHANGED <<parts, ckpt, temp, tick, out, kept, missed, lost, vod>>
  BY DEF FilesOK, WorkerCompletes, Mine, disk, hist
<1>2. Frame
  BY <1>1, ServerTyped DEF Frame
<1>3. OutInv
  BY <1>1 DEF RecordingInv, RunInv
<1>4. Left(r) \/ Moves(r, "sweep")
  BY <1>1, FailLeaves, AtMovesOn, OverEnds DEF WorkerCompletes, Left
<1>5. w'[r].at \notin Recorder \cup {"complete"}
  <2>1. Moves(r, "sweep") => w'[r].at = "sweep"
    BY DEF Moves
  <2> QED
    BY <1>4, <2>1, LeftQuiet DEF Recorder
<1> QED
  BY <1>1, <1>2, <1>3, <1>5, FrameQuiet

LEMMA MyPreview ==
    ASSUME NEW r \in Runs, Mine(r), WorkerPreviews(r), UNCHANGED server
    PROVE  RecordingInv'
<1>1. /\ ServerOK /\ WorkersOK /\ UNCHANGED gen /\ status # "Completed" /\ UNCHANGED job
      /\ r = gen /\ RecordingInv /\ At(r, "settle")
      /\ UNCHANGED <<parts, ckpt, kept, missed, lost>>
  BY DEF FilesOK, WorkerPreviews, Mine
<1>2. Frame
  BY <1>1, ServerTyped DEF Frame
<1>3. w'[r].at = "settle" /\ status' # "Completed"
  BY <1>1, AtMovesOn DEF Moves, job
<1> QED
  BY <1>1, <1>2, <1>3, FrameQuiet DEF Recorder

\* A run that only moves on and ends, before it has a plan or after it has none.
LEMMA MyOthers ==
    ASSUME NEW r \in Runs, Mine(r), UNCHANGED server,
           \/ WorkerProbes(r) \/ WorkerDownloads(r)
           \/ WorkerSettles(r) /\ Settled = "Paused"
    PROVE  RecordingInv'
<1>1. /\ ServerOK /\ WorkersOK /\ UNCHANGED gen /\ status # "Completed"
      /\ r = gen /\ RecordingInv
      /\ UNCHANGED <<parts, ckpt, kept, missed, lost>>
  BY DEF FilesOK, WorkerProbes, WorkerDownloads, WorkerSettles, Mine, disk, hist
<1>2. Frame
  BY <1>1, ServerTyped DEF Frame
<1>3. status' # "Completed"
  BY <1>1, FailNotDone DEF WorkerProbes, WorkerDownloads, WorkerSettles, Advance
<1>4. Left(r) \/ Moves(r, "resolve") \/ Moves(r, "fetch")
  BY <1>1, FailLeaves, AdvanceMoves, OverEnds
     DEF WorkerProbes, WorkerDownloads, WorkerSettles, Left
<1>5. w'[r].at \notin Recorder \cup {"complete"}
  <2>1. Moves(r, "resolve") \/ Moves(r, "fetch") => w'[r].at \in {"resolve", "fetch"}
    BY DEF Moves
  <2> QED
    BY <1>4, <2>1, LeftQuiet DEF Recorder
<1> QED
  BY <1>1, <1>2, <1>3, <1>5, FrameQuiet

\* The staging directory of a completed task goes; its file stays.
LEMMA MySweep ==
    ASSUME NEW r \in Runs, WorkerSweeps(r), WorkersOK, RecordingInv, r = gen, UNCHANGED call
    PROVE  RecordingInv'
<1>1. /\ UNCHANGED job /\ UNCHANGED <<out, kept, missed, lost, vod>> /\ ckpt' = NoFile
      /\ w'[r] = Idle
  BY OverEnds DEF WorkerSweeps, Wiped, Ends
<1>2. CkptInv'
  BY <1>1 DEF CkptInv
<1>3. DoneInv'
  <2>1. OwedOut' = OwedOut
    BY <1>1 DEF OwedOut
  <2>2. DoneInv
    BY DEF RecordingInv
  <2> QED
    BY <1>1, <2>1, <2>2 DEF DoneInv, OutInv, job
<1>4. RunInv(r)'
  BY <1>1 DEF RunInv, Idle, Recorder
<1> QED
  BY <1>1, <1>2, <1>3, <1>4 DEF RecordingInv, job

\* A run that was replaced leaves the files alone, unless it has mingled them.
LEMMA StaleLeaves ==
    ASSUME NEW r \in Runs, Worker(r), gen # r, ~ mingled'
    PROVE  /\ UNCHANGED <<parts, ckpt, temp, tick, out, kept, missed, lost, vod>>
           /\ ServerMoves \/ UNCHANGED server
<1>1. Stopped(r) /\ ~ Owns(r) /\ ~ Touches(r)
  BY DEF Stopped, Owns, Touches
<1>2. CASE WorkerFetches(r) \/ WorkerRefreshes(r)
  BY <1>1, <1>2 DEF WorkerFetches, WorkerRefreshes, disk, hist
<1>3. CASE Local(r) /\ UNCHANGED server
  <2>1. CASE \/ WorkerProbes(r) \/ WorkerDownloads(r) \/ WorkerVerifies(r)
             \/ WorkerFinalizes(r) \/ WorkerCompletes(r) \/ WorkerSettles(r)
    BY <1>3, <2>1 DEF WorkerProbes, WorkerDownloads, WorkerVerifies, WorkerFinalizes,
       WorkerCompletes, WorkerSettles, disk, hist
  <2>2. CASE WorkerStages(r) \/ WorkerCommits(r) \/ WorkerUnlinks(r) \/ WorkerRenames(r)
    BY <1>1, <1>3, <2>2 DEF WorkerStages, WorkerCommits, WorkerUnlinks, WorkerRenames, disk
  <2>3. CASE WorkerAssembles(r) \/ WorkerSweeps(r) \/ WorkerPreviews(r)
    BY <1>1, <1>3, <2>3 DEF WorkerAssembles, WorkerSweeps, WorkerPreviews
  <2> QED
    BY <1>3, <2>1, <2>2, <2>3 DEF Local
<1> QED
  BY <1>2, <1>3 DEF Worker

LEMMA StaleKeepsRecording ==
    ASSUME JobInv, FilesOK, RecordingInv, NEW r \in Runs, Worker(r), gen # r, ~ mingled'
    PROVE  RecordingInv'
<1>1. /\ UNCHANGED <<parts, ckpt, temp, tick, out, kept, missed, lost, vod>>
      /\ ServerMoves \/ UNCHANGED server
  BY StaleLeaves
<1>2. Frame
  BY <1>1, ServerTyped DEF Frame, FilesOK
<1>3. Effect(r) /\ UNCHANGED call
  BY WorkerEffect DEF Worker
<1>4. UNCHANGED <<gen, status>> /\ \A o \in Runs : o # r => w'[o] = w[o]
  BY <1>3 DEF Effect, Outcome, OnlyMoves
<1> QED
  BY <1>1, <1>2, <1>3, <1>4, FrameAll

\* What the history remembers is never forgotten by a worker, and a mismatch is
\* found by the run of the generation only.
LEMMA HistoryLasts ==
    ASSUME NEW r \in Runs, Worker(r)
    PROVE  /\ mingled => mingled'
           /\ lost => lost'
           /\ mismatch' => mismatch \/ (WorkerFinalizes(r) /\ gen = r)
<1>1. CASE WorkerFetches(r) \/ WorkerRefreshes(r)
  <2>1. mingled' = mingled /\ mismatch' = mismatch
    BY <1>1 DEF WorkerFetches, WorkerRefreshes, hist
  <2>2. lost => lost'
    BY <1>1 DEF WorkerFetches, WorkerRefreshes, hist
  <2> QED
    BY <2>1, <2>2
<1>2. CASE Local(r)
  <2>1. CASE \/ WorkerProbes(r) \/ WorkerDownloads(r) \/ WorkerVerifies(r)
             \/ WorkerCompletes(r) \/ WorkerSettles(r)
    BY <2>1 DEF WorkerProbes, WorkerDownloads, WorkerVerifies,
       WorkerCompletes, WorkerSettles, hist
  <2>0. Touches(r) => (mingled => mingled')
    BY DEF Touches
  <2>2. CASE WorkerStages(r) \/ WorkerCommits(r) \/ WorkerUnlinks(r) \/ WorkerRenames(r)
    <3>1. (mingled' = mingled \/ Touches(r)) /\ lost' = lost /\ mismatch' = mismatch
      BY <2>2 DEF WorkerStages, WorkerCommits, WorkerUnlinks, WorkerRenames
    <3> QED
      BY <2>0, <3>1
  <2>3. CASE WorkerAssembles(r) \/ WorkerSweeps(r) \/ WorkerPreviews(r)
    <3>1. (mingled' = mingled \/ Touches(r)) /\ lost' = lost /\ mismatch' = mismatch
      BY <2>3 DEF WorkerAssembles, WorkerSweeps, WorkerPreviews
    <3> QED
      BY <2>0, <3>1
  <2>4. CASE WorkerFinalizes(r)
    BY <2>4 DEF WorkerFinalizes
  <2> QED
    BY <1>2, <2>1, <2>2, <2>3, <2>4 DEF Local
<1> QED
  BY <1>1, <1>2 DEF Worker

LEMMA WorkerKeepsFiles ==
    ASSUME JobInv, FilesInv, NEW r \in Runs, Worker(r)
    PROVE  FilesInv'
<1>1. FilesOK /\ MismatchHasCause /\ WipeInv /\ (~ mingled => RecordingInv)
  BY DEF FilesInv
<1>2. FilesOK'
  BY <1>1, FetchKeepsTypes, RefreshKeepsTypes, LocalKeepsTypes DEF Worker
<1>3. Effect(r) /\ UNCHANGED <<call, gen>> /\ w[r].at # "none"
  BY WorkerEffect DEF Worker, Effect
<1>4. /\ mingled => mingled'
      /\ lost => lost'
      /\ mismatch' => mismatch \/ (WorkerFinalizes(r) /\ gen = r)
  BY HistoryLasts
<1>5. WipeInv'
  <2>1. gen # r => UNCHANGED status /\ \A o \in Runs : o # r => w'[o] = w[o]
    BY <1>3 DEF Effect, Outcome, OnlyMoves
  <2> QED
    BY <1>1, <1>3, <2>1 DEF WipeInv
<1>6. gen = r /\ ~ mingled /\ w[r].at # "sweep" => Mine(r)
  <2>1. gen = r /\ w[r].at # "sweep" => IsActive(status)
    BY <1>3 DEF JobInv, RunsInStep, Running
  <2>2. IsActive(status) => status # "Completed"
    BY DEF IsActive, ActiveStates
  <2> QED
    BY <1>1, <1>3, <2>1, <2>2 DEF Mine
<1>7. WorkerFinalizes(r) => UNCHANGED server
  BY DEF Worker, WorkerFinalizes, WorkerFetches, WorkerRefreshes
<1>8. MismatchHasCause'
  <2>1. WorkerFinalizes(r) => w[r].at # "sweep" /\ UNCHANGED lost
    BY DEF WorkerFinalizes
  <2> QED
    BY <1>1, <1>4, <1>6, <1>7, <2>1, MyFinalize DEF MismatchHasCause
<1>9. ASSUME ~ mingled' PROVE RecordingInv'
  <2>1. RecordingInv /\ ~ mingled
    BY <1>1, <1>4, <1>9
  <2>2. CASE gen # r
    BY <1>1, <1>9, <2>1, <2>2, StaleKeepsRecording
  <2>3. CASE gen = r /\ WorkerSweeps(r)
    BY <1>1, <1>3, <2>1, <2>3, MySweep DEF FilesOK
  <2>4. CASE gen = r /\ ~ WorkerSweeps(r)
    <3>1. w[r].at = "sweep" => WorkerSweeps(r)
      BY DEF Worker, Local, WorkerFetches, WorkerRefreshes, WorkerProbes, WorkerDownloads,
         WorkerStages, WorkerCommits, WorkerUnlinks, WorkerRenames, WorkerVerifies,
         WorkerFinalizes, WorkerAssembles, WorkerCompletes, WorkerPreviews, WorkerSettles
    <3>2. Mine(r)
      BY <1>6, <2>1, <2>4, <3>1
    <3>3. WorkerSettles(r) => Settled = "Paused"
      <4>1. WorkerSettles(r) => Running(r)
        BY DEF WorkerSettles, Running
      <4> QED
        BY <2>4, <4>1, ActiveEnds DEF JobInv, RunsInStep
    <3>4. CASE WorkerFetches(r) \/ WorkerRefreshes(r)
      BY <3>2, <3>4, MyFetch, MyRefresh
    <3>5. CASE Local(r) /\ UNCHANGED server
      BY <2>4, <3>2, <3>3, <3>5, MyStage, MyCommit, MyUnlink, MyRename, MyVerify, MyFinalize,
         MyAssemble, MyComplete, MyPreview, MyOthers DEF Local
    <3> QED
      BY <3>4, <3>5 DEF Worker
  <2> QED
    BY <2>2, <2>3, <2>4
<1> QED
  BY <1>2, <1>5, <1>8, <1>9 DEF FilesInv

-----------------------------------------------------------------------------
(* Requests and crashes                                                     *)

LEMMA StaysTyped ==
    ASSUME FilesOK, UNCHANGED <<server, disk, kept, missed>>, WorkersOK'
    PROVE  FilesOK'
<1>1. UNCHANGED <<head, ended, parts, ckpt, temp, tick, out, kept, missed>>
  BY DEF server, disk
<1> QED
  BY <1>1 DEF FilesOK, ServerOK, DiskOK, HistOK

LEMMA StaysFramed ==
    ASSUME FilesOK, UNCHANGED <<server, disk, hist>>
    PROVE  Frame /\ UNCHANGED <<tick, temp, out, vod>>
<1>1. ServerOK /\ UNCHANGED server
  BY DEF FilesOK
<1>2. head' \in Nat \ {0} /\ head <= head' /\ head' <= MaxSeq
  BY <1>1, ServerTyped
<1> QED
  BY <1>1, <1>2 DEF disk, hist, Frame

\* A step that only changes the job: the run of the generation stays as it is.
LEMMA JobSteps ==
    ASSUME FilesInv, UNCHANGED <<server, disk, hist, w, gen>>,
           call' \in Wiping => call \in Wiping /\ UNCHANGED status,
           status' = "Completed" /\ call' # "closed" => status = "Completed" /\ call # "closed"
    PROVE  FilesInv'
<1>1. FilesOK /\ MismatchHasCause /\ WipeInv /\ (~ mingled => RecordingInv)
  BY DEF FilesInv
<1>2. FilesOK'
  <2>1. UNCHANGED <<kept, missed>>
    BY DEF hist
  <2>2. WorkersOK'
    BY <1>1 DEF FilesOK, WorkersOK
  <2> QED
    BY <1>1, <2>1, <2>2, StaysTyped
<1>3. MismatchHasCause'
  BY <1>1 DEF MismatchHasCause, hist
<1>4. WipeInv'
  BY <1>1 DEF WipeInv
<1>5. ~ mingled' => RecordingInv'
  <2>1. Frame /\ UNCHANGED <<tick, temp, out, vod>>
    BY <1>1, StaysFramed
  <2>2. mingled' = mingled
    BY DEF hist
  <2> QED
    BY <1>1, <2>1, <2>2, FrameAll
<1> QED
  BY <1>2, <1>3, <1>4, <1>5 DEF FilesInv

\* A step after which the generation has a run that has not begun, or none.
LEMMA FreshSteps ==
    ASSUME FilesInv, UNCHANGED <<server, disk, hist>>, WorkersOK',
           \A r \in Runs : r = gen' => w'[r].at \in {"none", "spawned"},
           call' \in Wiping => \A r \in Runs : r = gen' => w'[r].at = "none",
           status' = "Completed" => call' = "closed"
    PROVE  FilesInv'
<1>1. FilesOK /\ MismatchHasCause /\ (~ mingled => RecordingInv)
  BY DEF FilesInv
<1>2. FilesOK'
  <2>1. UNCHANGED <<kept, missed>>
    BY DEF hist
  <2> QED
    BY <1>1, <2>1, StaysTyped
<1>3. MismatchHasCause'
  BY <1>1 DEF MismatchHasCause, hist
<1>4. WipeInv'
  BY DEF WipeInv, Wiping
<1>5. ~ mingled' => RecordingInv'
  <2>1. Frame /\ UNCHANGED <<out, vod>>
    BY <1>1, StaysFramed
  <2>2. mingled' = mingled
    BY DEF hist
  <2>3. \A r \in Runs : r = gen' => w'[r].at \notin Recorder \cup {"complete"}
    BY DEF Recorder
  <2> QED
    BY <1>1, <2>1, <2>2, <2>3, FrameQuiet
<1> QED
  BY <1>2, <1>3, <1>4, <1>5 DEF FilesInv

LEMMA StartKeepsFiles ==
    ASSUME JobInv, FilesInv, Start PROVE FilesInv'
<1>1. UNCHANGED <<server, disk, hist>> /\ call = "start" /\ call' = "none"
  BY DEF Start
<1>2. CASE UNCHANGED <<job, w>>
  BY <1>1, <1>2, JobSteps DEF job, Wiping
<1>3. CASE /\ status' = "Preparing" /\ gen' = gen + 1
           /\ w' = [w EXCEPT ![gen + 1] = [Idle EXCEPT !.at = "spawned"]]
  <2> DEFINE new == [Idle EXCEPT !.at = "spawned"]
  <2>1. WorkersOK
    BY DEF FilesInv, FilesOK
  <2>2. WorkerOK(new) /\ new.at = "spawned"
    BY IdleOK DEF WorkerOK, Idle
  <2>3. w' = [w EXCEPT ![gen + 1] = new]
    BY <1>3
  <2> HIDE DEF new
  <2>4. WorkersOK' /\ \A r \in Runs : r = gen' => w'[r].at = "spawned"
    BY <1>3, <2>1, <2>2, <2>3 DEF WorkersOK
  <2> QED
    BY <1>1, <1>3, <2>4, FreshSteps DEF Wiping
<1> QED
  BY <1>2, <1>3 DEF Start

LEMMA RequestKeepsFiles ==
    ASSUME JobInv, FilesInv, Pause \/ Finish \/ Resume \/ Redownload \/ Delete
    PROVE  FilesInv'
<1>1. CASE Pause \/ Finish \/ Resume
  <2>1. UNCHANGED <<server, disk, hist, w, gen>>
    BY <1>1 DEF Pause, Finish, Resume, Asks
  <2>2. call' \notin Wiping
    BY <1>1 DEF Pause, Finish, Resume, Asks, Wiping
  <2>3. status' # "Completed"
    BY <1>1 DEF Pause, Finish, Resume
  <2> QED
    BY <2>1, <2>2, <2>3, JobSteps
<1>2. CASE Redownload \/ Delete
  <2>1. UNCHANGED <<server, disk, hist, w>> /\ gen' = gen + 1 /\ status' # "Completed"
    BY <1>2 DEF Redownload, Delete, Asks, Gone
  <2>2. gen \in Nat /\ \A r \in Runs : r > gen => w[r].at = "none"
    BY Bounds DEF JobInv, SlotFollowsStatus, JobTypeOK, RunsInStep
  <2>3. \A r \in Runs : r = gen' => w'[r].at = "none"
    BY <2>1, <2>2
  <2>4. WorkersOK'
    BY <2>1 DEF FilesInv, FilesOK, WorkersOK
  <2> QED
    BY <2>1, <2>3, <2>4, FreshSteps
<1> QED
  BY <1>1, <1>2

\* The files go while nobody of the generation has begun.
LEMMA WipeKeepsFiles ==
    ASSUME FilesInv, RedownloadWipes \/ DeleteErases
    PROVE  FilesInv'
<1>1. FilesOK /\ MismatchHasCause /\ WipeInv
  BY DEF FilesInv
<1>2. /\ call \in Wiping /\ call' \notin Wiping /\ Wiped /\ UNCHANGED <<server, w, gen, status>>
      /\ out' \in {out, <<>>}
  BY DEF RedownloadWipes, DeleteErases, Wiping
<1>3. FilesOK'
  <2>1. DiskOK'
    <3>1. out \in Seq(Units)
      BY <1>1 DEF FilesOK, DiskOK
    <3>2. out' = <<>> \/ out' \in Seq(Units)
      BY <1>2, <3>1
    <3> QED
      BY <1>2, <3>2, WipedOK
  <2>2. HistOK'
    <3>1. UNCHANGED <<kept, missed>> \/ (kept' = {} /\ missed' = {})
      BY DEF RedownloadWipes, DeleteErases, hist
    <3> QED
      BY <1>1, <3>1 DEF FilesOK, HistOK
  <2>3. ServerOK' /\ WorkersOK'
    BY <1>1, <1>2 DEF FilesOK, ServerOK, WorkersOK, server
  <2> QED
    BY <2>1, <2>2, <2>3 DEF FilesOK
<1>4. MismatchHasCause'
  <2>1. mismatch' = FALSE \/ UNCHANGED <<mismatch, lost, mingled>>
    BY DEF RedownloadWipes, DeleteErases, hist
  <2> QED
    BY <1>1, <2>1 DEF MismatchHasCause
<1>5. WipeInv'
  BY <1>2 DEF WipeInv
<1>6. RecordingInv'
  <2>1. status # "Completed" /\ \A r \in Runs : r = gen => w[r].at = "none"
    BY <1>1, <1>2 DEF WipeInv
  <2>2. CkptInv' /\ DoneInv'
    BY <1>2, <2>1 DEF Wiped, CkptInv, DoneInv
  <2>3. \A r \in Runs : r = gen' => RunInv(r)'
    BY <1>2, <2>1 DEF RunInv, Recorder
  <2> QED
    BY <2>2, <2>3 DEF RecordingInv
<1> QED
  BY <1>3, <1>4, <1>5, <1>6 DEF FilesInv

LEMMA CrashKeepsFiles ==
    ASSUME FilesInv, Crash PROVE FilesInv'
<1>1. UNCHANGED <<server, disk, hist>> /\ w' = [r \in Runs |-> Idle] /\ call' \notin Wiping
  BY DEF Crash, Wiping
<1>2. WorkersOK' /\ \A r \in Runs : w'[r].at = "none"
  <2>1. DOMAIN w' = Runs /\ \A r \in Runs : w'[r] = Idle
    BY <1>1
  <2>2. Idle.at = "none"
    BY DEF Idle
  <2> QED
    BY <2>1, <2>2, IdleOK DEF WorkersOK
<1>3. status' = "Completed" => call' = "closed"
  BY DEF Crash
<1> QED
  BY <1>1, <1>2, <1>3, FreshSteps

LEMMA InitFiles ==
    ASSUME Init PROVE FilesInv
<1>1. FilesOK
  <2>1. ServerOK
    <3>1. MaxSeq \in Nat /\ MaxSeq > 0
      BY RecordingAssumption
    <3>2. 1 \in 1 .. MaxSeq
      BY <3>1
    <3>3. head = 1 /\ ended \in BOOLEAN
      BY DEF Init
    <3> QED
      BY <3>2, <3>3 DEF ServerOK
  <2>2. DiskOK
    <3>1. <<>> \in Seq(Units) /\ DOMAIN <<>> = {} /\ IsFiniteSet({})
      BY FS_EmptySet
    <3>2. parts = <<>> /\ ckpt = NoFile /\ temp = NoFile /\ tick = <<>> /\ out = <<>>
      BY DEF Init
    <3> QED
      BY <3>1, <3>2 DEF DiskOK
  <2>3. WorkersOK
    BY IdleOK DEF Init, WorkersOK
  <2>4. HistOK
    BY DEF Init, HistOK
  <2> QED
    BY <2>1, <2>2, <2>3, <2>4 DEF FilesOK
<1>2. MismatchHasCause /\ WipeInv
  BY DEF Init, MismatchHasCause, WipeInv, Wiping
<1>3. RecordingInv
  <2>1. CkptInv /\ DoneInv
    BY DEF Init, CkptInv, DoneInv
  <2>2. \A r \in Runs : RunInv(r)
    BY DEF Init, RunInv, Idle, Recorder
  <2> QED
    BY <2>1, <2>2 DEF RecordingInv
<1> QED
  BY <1>1, <1>2, <1>3 DEF FilesInv

LEMMA NextKeepsFiles ==
    ASSUME JobInv, FilesInv, [Next]_vars PROVE FilesInv'
<1>1. CASE UNCHANGED vars
  BY <1>1, JobSteps DEF vars, job
<1>2. CASE Next
  BY <1>2, WorkerKeepsFiles, StartKeepsFiles, WipeKeepsFiles, RequestKeepsFiles, CrashKeepsFiles
     DEF Next, Handler
<1> QED
  BY <1>1, <1>2

\* The inductive invariant of the recording: what the checkpoint on disk stands for,
\* what the run of the generation has still to do and what is assembled, as long as
\* no run that was replaced has touched the files.
THEOREM RecordingFiles == Spec => []FilesInv
<1>1. Init => FilesInv
  BY InitFiles
<1>2. JobInv /\ FilesInv /\ [Next]_vars => FilesInv'
  BY NextKeepsFiles
<1>3. Spec => []JobInv
  BY RecordingJob
<1> QED
  BY <1>1, <1>2, <1>3, PTL DEF Spec

\* A recording that is completed plays: segments in order and once, each behind the
\* initialization of its own map (stage_hls_live_stream, assemble_ordered_parts).
THEOREM RecordingPlays == Spec => []CompletedIsPlayable
<1>1. FilesInv => CompletedIsPlayable
  <2> SUFFICES ASSUME FilesInv PROVE CompletedIsPlayable
    OBVIOUS
  <2>1. FilesTypeOK
    BY FilesTyped DEF FilesInv
  <2>2. Completed => OutInv
    BY DEF FilesInv, RecordingInv, DoneInv, Completed
  <2> QED
    BY <2>1, <2>2 DEF CompletedIsPlayable, OutInv, Good
<1> QED
  BY <1>1, RecordingFiles, PTL

\* A completed recording has everything a checkpoint stood for, and no gap but what
\* the server had taken out of the playlist (write_live_checkpoint, commit_live_parts).
THEOREM RecordingKept == Spec => []RecordingIsKept
<1>1. FilesInv => RecordingIsKept
  <2> SUFFICES ASSUME FilesInv, Completed
               PROVE  /\ \A n \in MediaOf(out), m \in MediaOf(out) :
                            n .. m \subseteq MediaOf(out) \cup missed
                      /\ ~ lost /\ ~ vod => kept \subseteq MediaOf(out)
    BY DEF RecordingIsKept
  <2>1. Good(out, OwedOut, missed)
    BY DEF FilesInv, RecordingInv, DoneInv, Completed, OutInv
  <2>2. ~ lost /\ ~ vod => OwedOut = kept
    BY DEF OwedOut
  <2> QED
    BY <2>1, <2>2 DEF Good
<1> QED
  BY <1>1, RecordingFiles, PTL

\* The size check refuses a recording only when its checkpoint was lost: what a crash
\* or an error leaves above the checkpoint's order is written over by the next tick
\* (verify_staged_parts, commit_live_parts).
THEOREM MismatchExplained == Spec => []MismatchHasCause
<1>1. FilesInv => MismatchHasCause
  BY DEF FilesInv
<1> QED
  BY <1>1, RecordingFiles, PTL

=============================================================================

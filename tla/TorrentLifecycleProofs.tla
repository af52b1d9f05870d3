----------------------- MODULE TorrentLifecycleProofs -----------------------
(***************************************************************************)
(* The torrent task under any number of request handlers, runs and          *)
(* requests: an active status has a run behind it, the slot follows the     *)
(* run, the status follows the lifecycle's table and stale runs are inert.  *)
(***************************************************************************)
EXTENDS TorrentLifecycle, TLAPS

-----------------------------------------------------------------------------
(* The inductive invariants                                                 *)

\* Where a run is that still has the end of its task's activity before it.
Working == {"starting", "spawned", "recheck", "discover", "serve", "drive",
            "verify", "finalize", "complete"}

\* Generations are given out in order: the current one is the newest run.
Numbered ==
    /\ gen # 0 => gen = runs /\ at[gen] # "none"
    /\ \A r \in Runs : r > runs => at[r] = "none"

\* Behind an active status is the run of the generation, with its end to come.
RunBehind == status \in ActiveStates => gen # 0 /\ at[gen] \in Working

\* Handlers: a start between its two halves has a run of its own; only a
\* redownload empties the storage, and only the first handler rechecks.
HandlersInStep ==
    \A t \in Handlers :
        /\ req[t].at = "occupy" =>
              /\ req[t].gen # 0 /\ at[req[t].gen] = "starting"
              /\ \A s \in Handlers :
                    req[s].at = "occupy" /\ s # t => req[s].gen # req[t].gen
        /\ req[t].at \in {"pause", "empty"} => req[t].kind = "redo"
        /\ req[t].kind = "redo" => t \in Threads
        /\ req[t].at = "verdict" => t = First

\* The run has occupied its slot and not yet let go.
Occupies(r) == Live(r) /\ at[r] # "starting"

\* As long as no run was overtaken: one run at a time occupies, a handler that is
\* about to release the slot finds none in the task's name, and a set flag is
\* the flag of a run.
SlotInv ==
    ~ overtaken =>
        /\ active = OtherSlots + (IF flag THEN 1 ELSE 0)
        /\ gen # 0 /\ at[gen] \notin {"starting", "over"} => flag /\ entry
        /\ flag => \E r \in Runs : Occupies(r)
        /\ \A r, o \in Runs : Occupies(r) /\ Occupies(o) => r = o
        /\ \A t \in Handlers : req[t].at \in {"release", "stop"} =>
              gen = 0 \/ at[gen] \in {"starting", "over"}

RunInv == Numbered /\ RunBehind /\ HandlersInStep

-----------------------------------------------------------------------------
(* Types                                                                    *)

LEMMA RequestTyped ==
    ASSUME TypeOK, NEW t \in Handlers, NEW kind \in Kinds, NEW where \in Stages,
           runs' \in 0..MaxRuns, runs <= runs',
           \/ SetReq(t, kind, where) \/ Done(t) \/ Goto(t, where)
           \/ UNCHANGED req
    PROVE  req' \in [Handlers -> [kind : Kinds, at : Stages, gen : 0..runs']]
  BY TorrentLifecycleAssumption
     DEF TypeOK, SetReq, Done, Goto, NoReq, Kinds, Stages

LEMMA MoveTyped ==
    ASSUME TypeOK, NEW r, NEW where \in Positions, Move(r, where)
    PROVE  at' \in [Runs -> Positions]
  BY DEF TypeOK, Move

LEMMA TokenTyped ==
    ASSUME TypeOK PROVE token \cup ({gen} \ {0}) \subseteq Runs
  BY TorrentLifecycleAssumption DEF TypeOK, Runs

LEMMA SeedingTyped ==
    ASSUME TypeOK, Serve \/ StopSeeding \/ UNCHANGED <<seed, serving>>
    PROVE  seed' \in BOOLEAN /\ serving' \in BOOLEAN /\ (serving' => seed')
<1>1. seed \in BOOLEAN /\ serving \in BOOLEAN /\ (serving => seed)
  BY DEF TypeOK
<1>2. CASE UNCHANGED seed /\ serving' = (IF MaySeed THEN TRUE ELSE serving)
  BY <1>1, <1>2 DEF MaySeed
<1>3. CASE StopSeeding
  BY <1>3 DEF StopSeeding
<1>4. CASE UNCHANGED <<seed, serving>>
  BY <1>1, <1>4
<1> QED
  BY <1>2, <1>3, <1>4 DEF Serve

LEMMA ReleaseTyped ==
    ASSUME TypeOK, NEW remove \in BOOLEAN, ReleaseSlot(remove)
    PROVE  flag' \in BOOLEAN /\ entry' \in BOOLEAN /\ active' \in Nat /\ overtaken' \in BOOLEAN
<1>1. flag' \in BOOLEAN /\ entry' \in BOOLEAN /\ overtaken' \in BOOLEAN
  BY Zenon DEF TypeOK, ReleaseSlot
<1>2. active' \in Nat
  BY DEF TypeOK, ReleaseSlot
<1> QED
  BY <1>1, <1>2

\* Every step of a run keeps the types.
LEMMA WorkerTyped ==
    ASSUME TypeOK, NEW r \in Runs, Worker(r)
    PROVE  TypeOK'
<1> USE DEF queue, auth
<1>1. ASSUME Fail(r) \/ FinishCancelled(r)
      PROVE  /\ status' \in TaskStates \cup {Gone} /\ token' \subseteq Runs
             /\ seed' \in BOOLEAN /\ serving' \in BOOLEAN /\ (serving' => seed')
             /\ at' \in [Runs -> Positions]
  <2>1. /\ status' \in TaskStates \cup {Gone} /\ token' \subseteq Runs
        /\ StopSeeding \/ UNCHANGED <<seed, serving>>
    BY <1>1 DEF Fail, FinishCancelled, TypeOK, TaskStates
  <2>2. at' \in [Runs -> Positions]
    BY <1>1, MoveTyped DEF Fail, FinishCancelled, Positions
  <2> QED
    BY <2>1, <2>2, SeedingTyped
<1>2. CASE WorkerProbes(r)
  BY <1>1, <1>2, MoveTyped DEF WorkerProbes, TypeOK, TaskStates, Positions
<1>3. CASE WorkerRechecks(r)
  BY <1>1, <1>3, MoveTyped DEF WorkerRechecks, TypeOK, TaskStates, Positions
<1>4. CASE WorkerDownloads(r)
  BY <1>1, <1>4, MoveTyped DEF WorkerDownloads, TypeOK, TaskStates, Positions
<1>5. CASE WorkerServes(r)
  BY <1>5, MoveTyped, SeedingTyped DEF WorkerServes, TypeOK, Positions
<1>6. CASE WorkerDriven(r)
  BY <1>1, <1>6, MoveTyped DEF WorkerDriven, TypeOK, Positions
<1>7. CASE WorkerCloses(r)
  <2>1. /\ Closing[at[r]] \in TaskStates /\ AfterClosing[at[r]] \in Positions
    BY <1>7 DEF WorkerCloses, Closing, AfterClosing, TaskStates, Positions
  <2> QED
    BY <1>1, <1>7, <2>1, MoveTyped DEF WorkerCloses, TypeOK
<1>8. CASE WorkerTimes(r)
  BY <1>8, MoveTyped, SeedingTyped DEF WorkerTimes, TypeOK, Positions
<1>9. CASE WorkerReleases(r)
  BY <1>9, MoveTyped, ReleaseTyped DEF WorkerReleases, TypeOK, Positions
<1> QED
  BY <1>2, <1>3, <1>4, <1>5, <1>6, <1>7, <1>8, <1>9 DEF Worker
\* Every request and every step of a handler keeps the types.
LEMMA HandlerTyped ==
    ASSUME TypeOK, NEW t \in Handlers, Asks(t) \/ Continues(t)
    PROVE  TypeOK'
<1> USE TorrentLifecycleAssumption DEF queue, auth
<1>0. /\ runs \in 0..MaxRuns /\ runs <= runs /\ runs \in Nat /\ 0 \in 0..runs
      /\ token \cup ({gen} \ {0}) \subseteq Runs
  BY TokenTyped DEF TypeOK
<1>1. ASSUME PauseLocked
      PROVE  /\ status' \in TaskStates \cup {Gone} /\ token' \subseteq Runs
             /\ seed' \in BOOLEAN /\ serving' \in BOOLEAN /\ (serving' => seed')
  BY <1>0, <1>1, SeedingTyped DEF PauseLocked, TaskStates
<1>2. ASSUME MayAsk(t), Ask
      PROVE  asked' \in 0..MaxRequests
  BY <1>2 DEF MayAsk, Ask, TypeOK
<1>3. CASE Resume(t)
  BY <1>0, <1>2, <1>3, RequestTyped DEF Resume, TypeOK, TaskStates, Kinds, Stages
<1>4. CASE Pause(t)
  BY <1>0, <1>1, <1>2, <1>4, RequestTyped DEF Pause, TypeOK, Kinds, Stages
<1>5. CASE PauseSettles(t)
  BY <1>0, <1>5, RequestTyped DEF PauseSettles, TypeOK, TaskStates, Kinds, Stages
<1>6. CASE Delete(t)
  <2>1. req' \in [Handlers -> [kind : Kinds, at : Stages, gen : 0..runs']]
    BY <1>0, <1>6, RequestTyped DEF Delete, Kinds, Stages
  <2> QED
    BY <1>0, <1>2, <1>6, <2>1, SeedingTyped DEF Delete, TypeOK, TaskStates
<1>7. CASE DeleteReleases(t)
  BY <1>0, <1>7, RequestTyped, ReleaseTyped DEF DeleteReleases, TypeOK, Kinds, Stages
<1>8. CASE DeleteEnds(t)
  <2>1. req' \in [Handlers -> [kind : Kinds, at : Stages, gen : 0..runs']]
    BY <1>0, <1>8, RequestTyped DEF DeleteEnds, Kinds, Stages
  <2> QED
    BY <1>0, <1>8, <2>1 DEF DeleteEnds, TypeOK, TaskStates
<1>9. CASE Redownload(t)
  BY <1>0, <1>2, <1>9, RequestTyped DEF Redownload, TypeOK, Kinds, Stages
<1>10. CASE RedownloadPauses(t)
  BY <1>0, <1>1, <1>10, RequestTyped DEF RedownloadPauses, TypeOK, Kinds, Stages
<1>11. CASE RedownloadInstalls(t)
  <2>1. overtaken' \in BOOLEAN /\ flag' \in BOOLEAN
    BY <1>11 DEF RedownloadInstalls, TypeOK
  <2>2. req' \in [Handlers -> [kind : Kinds, at : Stages, gen : 0..runs']]
    BY <1>0, <1>11, RequestTyped DEF RedownloadInstalls, Kinds, Stages
  <2>3. seed' \in BOOLEAN /\ serving' \in BOOLEAN /\ (serving' => seed')
    <3>1. (seed' = TRUE /\ serving' = FALSE) \/ UNCHANGED <<seed, serving>>
      BY <1>11 DEF RedownloadInstalls
    <3>2. CASE seed' = TRUE /\ serving' = FALSE
      BY <3>2
    <3> QED
      BY <3>1, <3>2, SeedingTyped
  <2> QED
    BY <1>0, <1>11, <2>1, <2>2, <2>3 DEF RedownloadInstalls, TypeOK, TaskStates
<1>12. CASE Reauthorize(t)
  BY <1>0, <1>2, <1>12, RequestTyped DEF Reauthorize, TypeOK, TaskStates, Kinds, Stages
<1>13. CASE ReauthorizeReseeds(t)
  BY <1>0, <1>13, RequestTyped DEF ReauthorizeReseeds, TypeOK, Kinds, Stages
<1>14. CASE \E on \in BOOLEAN : UpdateSeeding(t, on)
  BY <1>0, <1>2, <1>14, RequestTyped DEF UpdateSeeding, TypeOK, Kinds, Stages
<1>15. CASE RequestServes(t)
  BY <1>0, <1>15, RequestTyped, SeedingTyped DEF RequestServes, TypeOK, Kinds, Stages
<1>16. CASE RecheckVerdict(t)
  <2>1. req' \in [Handlers -> [kind : Kinds, at : Stages, gen : 0..runs']]
    BY <1>0, <1>16, RequestTyped DEF RecheckVerdict, Kinds, Stages
  <2> QED
    BY <1>0, <1>16, <2>1, SeedingTyped DEF RecheckVerdict, TypeOK, TaskStates
<1>17. CASE Shutdown(t)
  <2>1. req' \in [Handlers -> [kind : Kinds, at : Stages, gen : 0..runs']]
    BY <1>0, <1>17, RequestTyped DEF Shutdown, Kinds, Stages
  <2> QED
    BY <1>0, <1>2, <1>17, <2>1, SeedingTyped DEF Shutdown, TypeOK, TaskStates
<1>18. CASE ShutdownReleases(t)
  BY <1>0, <1>18, RequestTyped, ReleaseTyped DEF ShutdownReleases, TypeOK, Kinds, Stages
<1>19. CASE StartLocked(t)
  <2>1. CASE UNCHANGED runs
    <3>1. Done(t) /\ UNCHANGED <<status, gen, token, seed, serving, at>>
      BY <1>0, <1>19, <2>1 DEF StartLocked
    <3>2. req' \in [Handlers -> [kind : Kinds, at : Stages, gen : 0..runs']]
      BY <1>0, <2>1, <3>1, RequestTyped DEF Kinds, Stages
    <3> QED
      BY <1>0, <1>19, <2>1, <3>1, <3>2 DEF StartLocked, TypeOK
  <2>2. CASE runs' # runs
    <3>1. /\ runs' = runs + 1 /\ runs < MaxRuns /\ gen' = runs + 1 /\ status' = "Preparing"
          /\ token' = token \cup ({gen} \ {0}) /\ seed' = policy /\ serving' = FALSE
          /\ req' = [req EXCEPT ![t].at = "occupy", ![t].gen = runs + 1]
          /\ at' = [at EXCEPT ![runs + 1] = "starting"]
          /\ UNCHANGED <<reauth, policy, flag, active, entry, overtaken, asked>>
      BY <1>19, <2>2 DEF StartLocked
    <3>2. req' \in [Handlers -> [kind : Kinds, at : Stages, gen : 0..runs']]
      BY <1>0, <3>1 DEF TypeOK, Kinds, Stages
    <3>3. at' \in [Runs -> Positions]
      BY <3>1 DEF TypeOK, Positions
    <3> QED
      BY <1>0, <3>1, <3>2, <3>3 DEF TypeOK, TaskStates
  <2> QED
    BY <2>1, <2>2
<1>20. CASE StartOccupies(t)
  <2>1. at' \in [Runs -> Positions]
    BY <1>20, MoveTyped DEF StartOccupies, Occupied, Positions
  <2>2. flag' \in BOOLEAN /\ entry' \in BOOLEAN /\ active' \in Nat /\ overtaken' \in BOOLEAN
    <3>1. CASE Occupied(req[t].gen)
      <4>1. active' \in Nat /\ flag' \in BOOLEAN /\ entry' \in BOOLEAN
        BY <3>1 DEF Occupied, TypeOK
      <4>2. overtaken' \in BOOLEAN
        BY <3>1, Zenon DEF Occupied
      <4> QED
        BY <4>1, <4>2
    <3>2. CASE UNCHANGED queue
      BY <3>2 DEF TypeOK
    <3> QED
      BY <1>20, <3>1, <3>2 DEF StartOccupies
  <2> QED
    BY <1>0, <1>20, <2>1, <2>2, RequestTyped DEF StartOccupies, TypeOK, Kinds, Stages
<1> QED
  BY <1>3, <1>4, <1>5, <1>6, <1>7, <1>8, <1>9, <1>10, <1>11, <1>12, <1>13, <1>14, <1>15,
     <1>16, <1>17, <1>18, <1>19, <1>20 DEF Asks, Continues

LEMMA TypesKept == TypeOK /\ [Next]_vars => TypeOK'
<1> SUFFICES ASSUME TypeOK, [Next]_vars
             PROVE  TypeOK'
  OBVIOUS
<1>1. CASE \E t \in Threads : Asks(t)
  BY <1>1, HandlerTyped DEF Handlers
<1>2. CASE \E t \in Handlers : Continues(t)
  BY <1>2, HandlerTyped
<1>3. CASE \E r \in Runs : Worker(r)
  BY <1>3, WorkerTyped
<1>4. CASE WatchSeed \/ WatchLimit
  BY <1>4, SeedingTyped DEF WatchSeed, WatchLimit, TypeOK, queue, auth
<1>5. CASE UNCHANGED vars
  BY <1>5 DEF vars, TypeOK
<1> QED
  BY <1>1, <1>2, <1>3, <1>4, <1>5 DEF Next
-----------------------------------------------------------------------------
(* The run behind an active status                                          *)

\* Every active status may end in Paused or Failed, and no run has to be
\* replaced for it.
LEMMA ActiveEnds ==
    ASSUME NEW st \in ActiveStates
    PROVE  CanTransition(st, "Paused") /\ CanTransition(st, "Failed")
  BY DEF ActiveStates, CanTransition, Successors

\* A step of run r keeps RunInv.
LEMMA WorkerKeepsRun ==
    ASSUME TypeOK, RunInv, NEW r \in Runs, Worker(r)
    PROVE  RunInv'
<1> USE TorrentLifecycleAssumption DEF queue, auth
<1>1. /\ at[r] \in Positions /\ at[r] \notin {"none", "starting", "over"}
      /\ UNCHANGED <<gen, req, runs>>
      /\ \E where \in Positions \ {"none", "starting"} : at' = [at EXCEPT ![r] = where]
  <2>1. CASE WorkerCloses(r)
    BY <2>1 DEF WorkerCloses, Closing, AfterClosing, Fail, Move, Positions
  <2> QED
    BY <2>1 DEF Worker, WorkerProbes, WorkerRechecks, WorkerDownloads, WorkerServes,
       WorkerDriven, WorkerTimes, WorkerReleases, Fail, FinishCancelled, Move, Positions
<1>2. Numbered'
  BY <1>1 DEF RunInv, Numbered, TypeOK, Runs
<1>3. HandlersInStep'
  BY <1>1 DEF RunInv, HandlersInStep, TypeOK, Runs
<1>4. RunBehind'
  <2>1. CASE gen # r
    <3>1. status' = status
      BY <2>1 DEF Worker, WorkerProbes, WorkerRechecks, WorkerDownloads, WorkerServes,
         WorkerDriven, WorkerCloses, WorkerTimes, WorkerReleases, Fail, FinishCancelled,
         Transition
    <3> QED
      BY <1>1, <2>1, <3>1 DEF RunInv, RunBehind, TypeOK
  <2>2. CASE gen = r
    <3>1. CASE Fail(r) \/ FinishCancelled(r)
      BY <3>1, <2>2, ActiveEnds DEF Fail, FinishCancelled, RunBehind, ActiveStates, Gone
    <3>2. CASE WorkerCloses(r) /\ ~ Fail(r)
      <4>1. /\ at[r] \in {"verify", "finalize", "complete"}
            /\ status' = Closing[at[r]]
            /\ at' = [at EXCEPT ![r] = AfterClosing[at[r]]]
        BY <3>2 DEF WorkerCloses, Closing, Move
      <4>2. /\ status' = "Completed"
            \/ at'[r] \in {"finalize", "complete"}
        BY <4>1 DEF Closing, AfterClosing, TypeOK
      <4> QED
        BY <1>1, <2>2, <4>2 DEF RunBehind, ActiveStates, Working, Runs
    <3>3. CASE \/ WorkerProbes(r) \/ WorkerRechecks(r) \/ WorkerDownloads(r)
               \/ WorkerServes(r) \/ WorkerDriven(r)
      <4>1. CASE ~ Fail(r) /\ ~ FinishCancelled(r)
        <5>1. at'[r] \in {"recheck", "discover", "serve", "drive", "verify"}
          BY <2>2, <3>3, <4>1 DEF WorkerProbes, WorkerRechecks, WorkerDownloads, WorkerServes,
             WorkerDriven, Move, TypeOK
        <5> QED
          BY <1>1, <2>2, <5>1 DEF RunBehind, Working, Runs
      <4> QED
        BY <3>1, <4>1
    <3>4. CASE WorkerTimes(r) \/ WorkerReleases(r)
      BY <2>2, <3>4 DEF WorkerTimes, WorkerReleases, RunInv, RunBehind, Working
    <3> QED
      BY <3>1, <3>2, <3>3, <3>4 DEF Worker
  <2> QED
    BY <2>1, <2>2
<1> QED
  BY <1>2, <1>3, <1>4 DEF RunInv
\* A step of a handler that starts no run keeps RunInv if it does not make the
\* task active and takes the generation from a run only with the active status.
LEMMA NoStartKeepsRun ==
    ASSUME TypeOK, RunInv, NEW t \in Handlers, NEW q,
           UNCHANGED <<at, runs>>, gen' \in {gen, 0},
           req' = [req EXCEPT ![t] = q],
           q.at \notin {"occupy", "verdict"},
           q.at \in {"pause", "empty"} => q.kind = "redo",
           q.kind = "redo" => t \in Threads,
           status' \in ActiveStates => status \in ActiveStates /\ gen' = gen
    PROVE  RunInv'
<1>1. Numbered'
  BY DEF RunInv, Numbered
<1>2. RunBehind'
  BY DEF RunInv, RunBehind
<1>3. HandlersInStep'
  BY DEF RunInv, HandlersInStep, TypeOK
<1> QED
  BY <1>1, <1>2, <1>3 DEF RunInv

\* What a handler writes into its own place, in one form.
LEMMA RequestForms ==
    ASSUME TypeOK, NEW t \in Handlers, NEW kind, NEW where
    PROVE  /\ SetReq(t, kind, where) =>
                 \E g : req' = [req EXCEPT ![t] = [kind |-> kind, at |-> where, gen |-> g]]
           /\ Done(t) => req' = [req EXCEPT ![t] = [kind |-> "none", at |-> "none", gen |-> 0]]
           /\ Goto(t, where) =>
                 req' = [req EXCEPT ![t] = [kind |-> req[t].kind, at |-> where, gen |-> 0]]
  BY DEF SetReq, Done, NoReq, Goto, TypeOK

\* A request keeps RunInv.
LEMMA AskKeepsRun ==
    ASSUME TypeOK, RunInv, NEW t \in Threads, Asks(t)
    PROVE  RunInv'
<1> USE DEF queue, auth
<1>0. t \in Handlers
  BY DEF Handlers
<1> DEFINE Asked(kind, where) ==
             \E g : req' = [req EXCEPT ![t] = [kind |-> kind, at |-> where, gen |-> g]]
<1>1. ASSUME NEW kind, NEW where, Asked(kind, where), UNCHANGED <<at, runs>>, gen' \in {gen, 0},
             where \notin {"occupy", "verdict"}, where \in {"pause", "empty"} => kind = "redo",
             status' \in ActiveStates => status \in ActiveStates /\ gen' = gen
      PROVE  RunInv'
  <2> PICK g : req' = [req EXCEPT ![t] = [kind |-> kind, at |-> where, gen |-> g]]
    BY <1>1
  <2> QED
    BY <1>0, <1>1, NoStartKeepsRun
<1>2. /\ \A kind, where : SetReq(t, kind, where) => Asked(kind, where)
      /\ Done(t) => Asked("none", "none")
  BY <1>0, RequestForms
<1> HIDE DEF Asked
<1>3. CASE Resume(t)
  BY <1>1, <1>2, <1>3 DEF Resume, ActiveStates
<1>4. CASE Pause(t)
  <2>1. \/ Asked("pause", "pausing") /\ status \in ActiveStates
        \/ Asked("none", "none") /\ status' = "Paused"
    BY <1>2, <1>4 DEF Pause, PauseLocked
  <2> QED
    BY <1>1, <1>4, <2>1 DEF Pause, ActiveStates
<1>5. CASE Delete(t)
  BY <1>1, <1>2, <1>5 DEF Delete, ActiveStates
<1>6. CASE Redownload(t)
  <2>1. Asked("redo", "pause") \/ Asked("redo", "empty")
    BY <1>2, <1>6 DEF Redownload
  <2> QED
    BY <1>1, <1>6, <2>1 DEF Redownload
<1>7. CASE Reauthorize(t)
  BY <1>1, <1>2, <1>7 DEF Reauthorize, ActiveStates
<1>8. CASE \E on \in BOOLEAN : UpdateSeeding(t, on)
  BY <1>1, <1>2, <1>8 DEF UpdateSeeding
<1>9. CASE Shutdown(t)
  <2>1. \/ Asked("shutdown", "stop") /\ status' = "Paused"
        \/ Asked("none", "none") /\ status' = "Completed"
    BY <1>2, <1>9 DEF Shutdown
  <2> QED
    BY <1>1, <1>9, <2>1 DEF Shutdown, ActiveStates
<1> QED
  BY <1>3, <1>4, <1>5, <1>6, <1>7, <1>8, <1>9 DEF Asks

\* The next step of a handler that is not a start keeps RunInv.
LEMMA ContinueKeepsRun ==
    ASSUME TypeOK, RunInv, NEW t \in Handlers, Continues(t),
           ~ StartLocked(t), ~ StartOccupies(t)
    PROVE  RunInv'
<1> USE DEF queue, auth
<1>0. req[t].kind = "redo" => t \in Threads
  BY DEF RunInv, HandlersInStep
<1> DEFINE Went(kind, where) ==
             \E g : req' = [req EXCEPT ![t] = [kind |-> kind, at |-> where, gen |-> g]]
<1>1. ASSUME NEW kind, NEW where, Went(kind, where), UNCHANGED <<at, runs>>, gen' \in {gen, 0},
             where \notin {"occupy", "verdict"}, where \in {"pause", "empty"} => kind = "redo",
             kind = "redo" => t \in Threads,
             status' \in ActiveStates => status \in ActiveStates /\ gen' = gen
      PROVE  RunInv'
  <2> PICK g : req' = [req EXCEPT ![t] = [kind |-> kind, at |-> where, gen |-> g]]
    BY <1>1
  <2> QED
    BY <1>1, NoStartKeepsRun
<1>2. /\ \A kind, where : SetReq(t, kind, where) => Went(kind, where)
      /\ \A where : Goto(t, where) => Went(req[t].kind, where)
      /\ Done(t) => Went("none", "none")
  BY RequestForms
<1> HIDE DEF Went
<1>3. CASE PauseSettles(t)
  <2>1. \/ Went("redo", "empty") /\ t \in Threads
        \/ Went("none", "none")
    BY <1>0, <1>2, <1>3 DEF PauseSettles
  <2> QED
    BY <1>1, <1>3, <2>1 DEF PauseSettles, ActiveStates
<1>4. CASE DeleteReleases(t)
  BY <1>0, <1>1, <1>2, <1>4 DEF DeleteReleases
<1>5. CASE DeleteEnds(t)
  BY <1>1, <1>2, <1>5 DEF DeleteEnds, ActiveStates, Gone
<1>6. CASE RedownloadPauses(t)
  <2>1. t \in Threads
    BY <1>6 DEF RedownloadPauses, RunInv, HandlersInStep
  <2>2. \/ Went("none", "none") /\ status' = status
        \/ Went("redo", "pausing") /\ status \in ActiveStates
        \/ Went("redo", "empty") /\ status' = "Paused"
    BY <1>2, <1>6 DEF RedownloadPauses, PauseLocked
  <2> QED
    BY <1>1, <1>6, <2>1, <2>2 DEF RedownloadPauses, ActiveStates
<1>7. CASE RedownloadInstalls(t)
  <2>1. \/ Went("none", "none") /\ UNCHANGED <<status, gen>>
        \/ Went(req[t].kind, "start") /\ status' = "Queued" /\ gen' = 0
    BY <1>2, <1>7 DEF RedownloadInstalls
  <2> QED
    BY <1>0, <1>1, <1>7, <2>1 DEF RedownloadInstalls, ActiveStates
<1>8. CASE ReauthorizeReseeds(t)
  BY <1>0, <1>1, <1>2, <1>8 DEF ReauthorizeReseeds
<1>9. CASE RequestServes(t)
  BY <1>1, <1>2, <1>9 DEF RequestServes
<1>10. CASE RecheckVerdict(t)
  BY <1>0, <1>1, <1>2, <1>10 DEF RecheckVerdict, ActiveStates
<1>11. CASE ShutdownReleases(t)
  BY <1>1, <1>2, <1>11 DEF ShutdownReleases
<1> QED
  BY <1>3, <1>4, <1>5, <1>6, <1>7, <1>8, <1>9, <1>10, <1>11 DEF Continues
\* start_torrent_process takes a new generation, or refuses.
LEMMA StartForms ==
    ASSUME TypeOK, NEW t \in Handlers, StartLocked(t)
    PROVE  \/ Done(t) /\ UNCHANGED <<status, gen, token, seed, serving, at, runs, queue, auth>>
           \/ /\ runs < MaxRuns /\ runs + 1 \in Runs /\ runs' = runs + 1 /\ gen' = runs + 1
              /\ status \notin ActiveStates \cup {Gone} /\ CanTransition(status, "Queued")
              /\ status' = "Preparing"
              /\ req' = [req EXCEPT ![t] = [kind |-> req[t].kind, at |-> "occupy", gen |-> runs + 1]]
              /\ at' = [at EXCEPT ![runs + 1] = "starting"]
              /\ UNCHANGED <<flag, active, entry, overtaken>>
  BY TorrentLifecycleAssumption DEF StartLocked, TypeOK, Runs, queue

\* Both halves of a start keep RunInv.
LEMMA StartKeepsRun ==
    ASSUME TypeOK, RunInv, NEW t \in Handlers, StartLocked(t) \/ StartOccupies(t)
    PROVE  RunInv'
<1> USE TorrentLifecycleAssumption DEF queue, auth
<1>1. CASE StartLocked(t) /\ Done(t) /\ UNCHANGED <<status, gen, at, runs>>
  BY <1>1, RequestForms, NoStartKeepsRun
<1>2. CASE StartLocked(t) /\ ~ (Done(t) /\ UNCHANGED <<status, gen, at, runs>>)
  <2> DEFINE n == runs + 1
  <2>1. /\ n \in Runs /\ runs' = n /\ gen' = n /\ n # 0 /\ runs \in Nat
        /\ req' = [req EXCEPT ![t] = [kind |-> req[t].kind, at |-> "occupy", gen |-> n]]
        /\ at' = [at EXCEPT ![n] = "starting"]
    BY <1>2, StartForms DEF TypeOK
  <2>2. /\ at[n] = "none"
        /\ \A s \in Handlers : req[s].at = "occupy" => req[s].gen # n
    BY <2>1 DEF RunInv, Numbered, HandlersInStep, TypeOK, Runs
  <2>3. Numbered'
    BY <2>1 DEF RunInv, Numbered, TypeOK, Runs
  <2>4. RunBehind'
    BY <2>1 DEF RunBehind, Working, TypeOK
  <2>5. HandlersInStep'
    BY <2>1, <2>2 DEF RunInv, HandlersInStep, TypeOK, Runs
  <2> QED
    BY <2>3, <2>4, <2>5 DEF RunInv
<1>3. CASE StartOccupies(t)
  <2> DEFINE r == req[t].gen
  <2>1. /\ r \in Runs /\ at[r] = "starting" /\ req[t].at = "occupy"
        /\ \A s \in Handlers : req[s].at = "occupy" /\ s # t => req[s].gen # r
    BY <1>3 DEF StartOccupies, RunInv, HandlersInStep, TypeOK, Runs
  <2>2. /\ UNCHANGED <<status, gen, runs>>
        /\ req' = [req EXCEPT ![t] = [kind |-> "none", at |-> "none", gen |-> 0]]
        /\ \/ at' = [at EXCEPT ![r] = "spawned"]
           \/ at' = [at EXCEPT ![r] = "over"] /\ status = Gone
    BY <1>3, RequestForms DEF StartOccupies, Occupied, Move
  <2> HIDE DEF r
  <2>3. Numbered'
    <3>1. PICK where \in {"spawned", "over"} : at' = [at EXCEPT ![r] = where]
      BY <2>2, Zenon
    <3>2. \A s \in Runs : at'[s] = "none" <=> at[s] = "none"
      BY <2>1, <3>1 DEF TypeOK
    <3>3. gen # 0 => gen \in Runs
      BY DEF TypeOK, Runs
    <3> QED
      BY <2>2, <3>2, <3>3 DEF RunInv, Numbered
  <2>4. RunBehind'
    BY <2>1, <2>2 DEF RunInv, RunBehind, Working, TypeOK, ActiveStates, Gone, Runs
  <2>5. HandlersInStep'
    BY <2>1, <2>2 DEF RunInv, HandlersInStep, TypeOK, Runs
  <2> QED
    BY <2>3, <2>4, <2>5 DEF RunInv
<1> QED
  BY <1>1, <1>2, <1>3

LEMMA RunKept == TypeOK /\ RunInv /\ [Next]_vars => RunInv'
<1> SUFFICES ASSUME TypeOK, RunInv, [Next]_vars
             PROVE  RunInv'
  OBVIOUS
<1>1. CASE \E t \in Threads : Asks(t)
  BY <1>1, AskKeepsRun
<1>2. CASE \E t \in Handlers : Continues(t)
  BY <1>2, ContinueKeepsRun, StartKeepsRun
<1>3. CASE \E r \in Runs : Worker(r)
  BY <1>3, WorkerKeepsRun
<1>4. CASE WatchSeed \/ WatchLimit \/ UNCHANGED vars
  BY <1>4 DEF WatchSeed, WatchLimit, vars, queue, auth, RunInv, Numbered, RunBehind,
     HandlersInStep
<1> QED
  BY <1>1, <1>2, <1>3, <1>4 DEF Next

LEMMA InitTyped == Init => TypeOK /\ RunInv
<1> SUFFICES ASSUME Init
             PROVE  TypeOK /\ RunInv
  OBVIOUS
<1> USE TorrentLifecycleAssumption
<1>1. /\ status \in {"Queued", "Paused", "Failed", "Completed"}
      /\ gen = 0 /\ runs = 0 /\ at = [r \in Runs |-> "none"]
  BY DEF Init
<1>2. PICK first \in {"none", "start", "verdict"} :
         req = [t \in Handlers |-> IF t = First THEN [NoReq EXCEPT !.at = first] ELSE NoReq]
  BY DEF Init
<1>3. req \in [Handlers -> [kind : Kinds, at : Stages, gen : 0..runs]]
  BY <1>1, <1>2 DEF NoReq, Kinds, Stages
<1>4. /\ reauth \in BOOLEAN /\ policy \in BOOLEAN /\ seed \in BOOLEAN
      /\ serving = FALSE /\ flag = FALSE /\ overtaken = FALSE
  BY DEF Init
<1>5. entry \in BOOLEAN
  BY DEF Init
<1>6. active \in Nat /\ asked \in 0..MaxRequests /\ runs \in 0..MaxRuns /\ token = {}
  BY DEF Init
<1>7. TypeOK
  <2>1. at \in [Runs -> Positions] /\ status \in TaskStates /\ gen \in 0..runs
    BY <1>1 DEF TaskStates, Positions
  <2> QED
    BY <1>3, <1>4, <1>5, <1>6, <2>1 DEF TypeOK
<1>8. \A t \in Handlers : /\ req[t].kind = "none"
                          /\ req[t].at \in {"none", "start", "verdict"}
                          /\ req[t].at = "verdict" => t = First
  BY <1>2 DEF NoReq
<1>9. RunInv
  BY <1>1, <1>8 DEF RunInv, Numbered, RunBehind, HandlersInStep, ActiveStates, Runs
<1> QED
  BY <1>7, <1>9

\* For any number of handlers, runs and requests the state has its shape, and a
\* torrent that says it is active has the run of its generation behind it, so
\* that resume_torrent_task never refuses it as active with nobody at work.
THEOREM ActiveTorrentHasRun == Spec => []ActiveHasRun
<1>1. TypeOK /\ RunInv => ActiveHasRun
  BY TorrentLifecycleAssumption
     DEF ActiveHasRun, RunInv, RunBehind, Live, Working
<1> QED
  BY <1>1, InitTyped, TypesKept, RunKept, PTL DEF Spec

-----------------------------------------------------------------------------
(* The slot                                                                 *)

\* A step of run r keeps SlotInv.
LEMMA WorkerKeepsSlot ==
    ASSUME TypeOK, RunInv, SlotInv, NEW r \in Runs, Worker(r)
    PROVE  SlotInv'
<1> USE TorrentLifecycleAssumption DEF queue, auth
<1>1. CASE ~ WorkerReleases(r)
  <2>1. /\ UNCHANGED <<gen, req, runs, flag, active, entry, overtaken>>
        /\ at[r] \notin {"none", "starting", "over"}
        /\ \E where \in Positions \ {"none", "starting", "over"} : at' = [at EXCEPT ![r] = where]
    <3>1. CASE WorkerCloses(r)
      BY <3>1 DEF WorkerCloses, Closing, AfterClosing, Fail, Move, Positions
    <3> QED
      BY <1>1, <3>1 DEF Worker, WorkerProbes, WorkerRechecks, WorkerDownloads, WorkerServes,
         WorkerDriven, WorkerTimes, Fail, FinishCancelled, Move, Positions
  <2>2. \A o \in Runs : Occupies(o)' <=> Occupies(o)
    BY <2>1 DEF Occupies, Live, TypeOK
  <2>3. \A o \in Runs : at'[o] \in {"starting", "over"} <=> at[o] \in {"starting", "over"}
    BY <2>1 DEF TypeOK
  <2>4. gen # 0 => gen \in Runs
    BY DEF TypeOK, Runs
  <2> QED
    BY <2>1, <2>2, <2>3, <2>4 DEF SlotInv
<1>2. CASE WorkerReleases(r)
  <2>1. /\ UNCHANGED <<gen, req, runs, overtaken>>
        /\ Occupies(r) /\ at' = [at EXCEPT ![r] = "over"]
        /\ flag' = FALSE /\ active' = (IF flag /\ active > 0 THEN active - 1 ELSE active)
    BY <1>2 DEF WorkerReleases, ReleaseSlot, Occupies, Live, Move
  <2>2. \A o \in Runs : Occupies(o)' <=> Occupies(o) /\ o # r
    BY <2>1 DEF Occupies, Live, TypeOK
  <2>3. gen # 0 => gen \in Runs /\ at[gen] # "none"
    BY DEF TypeOK, Runs, RunInv, Numbered
  <2> SUFFICES ASSUME ~ overtaken
               PROVE  SlotInv'
    BY <2>1 DEF SlotInv
  <2>4. active' = OtherSlots
    BY <2>1 DEF SlotInv, TypeOK
  <2>5. gen # 0 => at'[gen] \in {"starting", "over"}
    BY <2>1, <2>3 DEF SlotInv, Occupies, Live, TypeOK
  <2> QED
    BY <2>1, <2>2, <2>4, <2>5 DEF SlotInv
<1> QED
  BY <1>1, <1>2

\* A step of a handler that starts no run and leaves the queue alone.
LEMMA QueueKeptSlot ==
    ASSUME TypeOK, SlotInv, UNCHANGED <<at, flag, active, entry, overtaken>>,
           gen' \in {gen, 0},
           \A t \in Handlers : req'[t].at \in {"release", "stop"} =>
              req[t].at \in {"release", "stop"} \/ gen' = 0
    PROVE  SlotInv'
<1>1. \A o \in Runs : Occupies(o)' <=> Occupies(o)
  BY DEF Occupies, Live
<1> QED
  BY <1>1 DEF SlotInv

\* A request keeps SlotInv.
LEMMA AskKeepsSlot ==
    ASSUME TypeOK, SlotInv, NEW t \in Threads, Asks(t)
    PROVE  SlotInv'
<1> USE DEF queue, auth
<1>1. UNCHANGED <<at, flag, active, entry, overtaken>> /\ gen' \in {gen, 0}
  BY DEF Asks, Resume, Pause, Delete, Redownload, Reauthorize, UpdateSeeding, Shutdown
<1>2. \A s \in Handlers : req'[s].at \in {"release", "stop"} =>
         req[s].at \in {"release", "stop"} \/ gen' = 0
  BY DEF Asks, Resume, Pause, Delete, Redownload, Reauthorize, UpdateSeeding, Shutdown,
     SetReq, Done, NoReq, TypeOK
<1> QED
  BY <1>1, <1>2, QueueKeptSlot

\* The next step of a handler keeps SlotInv.
LEMMA ContinueKeepsSlot ==
    ASSUME TypeOK, RunInv, SlotInv, NEW t \in Handlers, Continues(t)
    PROVE  SlotInv'
<1> USE TorrentLifecycleAssumption DEF queue, auth
<1>0. gen # 0 => gen \in Runs
  BY DEF TypeOK, Runs
<1>1. CASE DeleteReleases(t) \/ ShutdownReleases(t)
  <2>1. /\ UNCHANGED <<gen, at, overtaken>> /\ req[t].at \in {"release", "stop"}
        /\ flag' = FALSE /\ active' = (IF flag /\ active > 0 THEN active - 1 ELSE active)
        /\ \A s \in Handlers : req'[s].at \in {"release", "stop"} =>
              req[s].at \in {"release", "stop"}
    BY <1>1 DEF DeleteReleases, ShutdownReleases, ReleaseSlot, Goto, Done, NoReq, TypeOK
  <2>2. \A o \in Runs : Occupies(o)' <=> Occupies(o)
    BY <2>1 DEF Occupies, Live
  <2> QED
    BY <2>1, <2>2 DEF SlotInv, TypeOK
<1>2. CASE RedownloadInstalls(t)
  <2>1. /\ UNCHANGED at /\ gen' \in {gen, 0}
        /\ \A s \in Handlers : req'[s].at \in {"release", "stop"} =>
              req[s].at \in {"release", "stop"}
        /\ \/ UNCHANGED <<flag, active, entry, overtaken>>
           \/ overtaken' = (overtaken \/ flag) /\ flag' = FALSE /\ UNCHANGED <<active, entry>>
    BY <1>2 DEF RedownloadInstalls, Goto, Done, NoReq, TypeOK
  <2>2. ~ overtaken' => UNCHANGED <<flag, active, entry, overtaken>>
    BY <2>1 DEF TypeOK
  <2> QED
    BY <2>1, <2>2, QueueKeptSlot DEF SlotInv
<1>3. CASE StartLocked(t)
  <2>1. CASE Done(t) /\ UNCHANGED <<gen, at, flag, active, entry, overtaken>>
    <3>1. \A s \in Handlers : req'[s].at \in {"release", "stop"} =>
             req[s].at \in {"release", "stop"}
      BY <2>1 DEF Done, NoReq, TypeOK
    <3> QED
      BY <2>1, <3>1, QueueKeptSlot
  <2>2. CASE ~ (Done(t) /\ UNCHANGED <<gen, at, flag, active, entry, overtaken>>)
    <3> DEFINE n == runs + 1
    <3>1. /\ n \in Runs /\ gen' = n /\ UNCHANGED <<flag, active, entry, overtaken>>
          /\ req' = [req EXCEPT ![t] = [kind |-> req[t].kind, at |-> "occupy", gen |-> n]]
          /\ at' = [at EXCEPT ![n] = "starting"]
      BY <1>3, <2>2, StartForms
    <3>2. at[n] = "none"
      BY <3>1 DEF RunInv, Numbered, TypeOK, Runs
    <3> HIDE DEF n
    <3>3. \A o \in Runs : Occupies(o)' <=> Occupies(o)
      BY <3>1, <3>2 DEF Occupies, Live, TypeOK
    <3>4. at'[gen'] = "starting"
      BY <3>1 DEF TypeOK
    <3> QED
      BY <3>1, <3>3, <3>4 DEF SlotInv
  <2> QED
    BY <2>1, <2>2
<1>4. CASE StartOccupies(t)
  <2> DEFINE r == req[t].gen
  <2>0. req[t].at = "occupy" /\ UNCHANGED gen /\ Done(t)
    BY <1>4 DEF StartOccupies
  <2>1. /\ r \in Runs /\ at[r] = "starting" /\ UNCHANGED gen
        /\ req' = [req EXCEPT ![t] = [kind |-> "none", at |-> "none", gen |-> 0]]
    BY <2>0 DEF Done, NoReq, RunInv, HandlersInStep, TypeOK, Runs
  <2>2. \A s \in Handlers : req'[s].at \in {"release", "stop"} =>
           req[s].at \in {"release", "stop"}
    BY <2>1 DEF TypeOK
  <2>3. CASE Occupied(r)
    <3>1. /\ active' = active + 1 /\ flag' = TRUE /\ entry' = TRUE
          /\ at' = [at EXCEPT ![r] = "spawned"]
          /\ ~ overtaken' => /\ ~ overtaken /\ ~ flag
                             /\ \A o \in Runs : Live(o) => o = r
                             /\ \A s \in Handlers : req[s].at \notin {"release", "stop"}
      BY <2>3 DEF Occupied, Move
    <3> HIDE DEF r
    <3>2. \E o \in Runs : Occupies(o)'
      BY <2>1, <3>1 DEF Occupies, Live, TypeOK
    <3>3. ~ overtaken' => \A o \in Runs : Occupies(o)' => o = r
      BY <2>1, <3>1 DEF Occupies, Live, TypeOK
    <3> QED
      BY <2>1, <2>2, <3>1, <3>2, <3>3 DEF SlotInv
  <2>4. CASE status = Gone /\ Move(r, "over") /\ UNCHANGED queue
    <3> HIDE DEF r
    <3>1. at' = [at EXCEPT ![r] = "over"] /\ UNCHANGED <<flag, active, entry, overtaken>>
      BY <2>4 DEF Move
    <3>2. \A o \in Runs : Occupies(o)' <=> Occupies(o)
      BY <2>1, <3>1 DEF Occupies, Live, TypeOK
    <3>3. \A o \in Runs : at'[o] \in {"starting", "over"} <=> at[o] \in {"starting", "over"}
      BY <2>1, <3>1 DEF TypeOK
    <3> QED
      BY <1>0, <2>1, <2>2, <3>1, <3>2, <3>3 DEF SlotInv
  <2> QED
    BY <1>4, <2>3, <2>4 DEF StartOccupies
<1>5. CASE \/ PauseSettles(t) \/ DeleteEnds(t) \/ RedownloadPauses(t)
           \/ ReauthorizeReseeds(t) \/ RequestServes(t) \/ RecheckVerdict(t)
  <2>1. /\ UNCHANGED <<at, flag, active, entry, overtaken>> /\ gen' \in {gen, 0}
    BY <1>5 DEF PauseSettles, DeleteEnds, RedownloadPauses, ReauthorizeReseeds, RequestServes,
       RecheckVerdict
  <2>2. \A s \in Handlers : req'[s].at \in {"release", "stop"} =>
           req[s].at \in {"release", "stop"}
    BY <1>5 DEF PauseSettles, DeleteEnds, RedownloadPauses, ReauthorizeReseeds, RequestServes,
       RecheckVerdict, SetReq, Goto, Done, NoReq, TypeOK
  <2> QED
    BY <2>1, <2>2, QueueKeptSlot
<1> QED
  BY <1>1, <1>2, <1>3, <1>4, <1>5 DEF Continues

\* For any number of handlers, runs and requests: as long as no run starts
\* before an older one has let go, the task takes exactly one slot from the
\* queue while its run goes on and none afterwards, because whoever swaps the
\* active_slot flag first gives the slot back and nobody else does.
THEOREM TorrentSlotFollowsRun == Spec => []SlotFollowsRun
<1>1. Init => SlotInv
  BY TorrentLifecycleAssumption DEF Init, SlotInv, Occupies, Live
<1>2. TypeOK /\ RunInv /\ SlotInv /\ [Next]_vars => SlotInv'
  <2> SUFFICES ASSUME TypeOK, RunInv, SlotInv, [Next]_vars
               PROVE  SlotInv'
    OBVIOUS
  <2>1. CASE \E t \in Threads : Asks(t)
    BY <2>1, AskKeepsSlot
  <2>2. CASE \E t \in Handlers : Continues(t)
    BY <2>2, ContinueKeepsSlot
  <2>3. CASE \E r \in Runs : Worker(r)
    BY <2>3, WorkerKeepsSlot
  <2>4. CASE WatchSeed \/ WatchLimit \/ UNCHANGED vars
    BY <2>4, QueueKeptSlot DEF WatchSeed, WatchLimit, vars, queue
  <2> QED
    BY <2>1, <2>2, <2>3, <2>4 DEF Next
<1>3. SlotInv => SlotFollowsRun
  BY DEF SlotInv, SlotFollowsRun, Occupies
<1> QED
  BY <1>1, <1>2, <1>3, InitTyped, TypesKept, RunKept, PTL DEF Spec

-----------------------------------------------------------------------------
(* The status                                                               *)

\* What a step may do to the status: see LifecycleRespected.
StatusMoves ==
    /\ status # Gone
    /\ \/ status' = Gone
       \/ CanTransition(status, status')
       \/ CanTransition(status, "Queued") /\ CanTransition("Queued", status')
       \/ status' = "Queued" /\ \E t \in Threads : req[t].kind = "redo"
       \/ status = "Completed" /\ status' = "Failed" /\ req[First].at = "verdict"

\* Where the table leads from the states in which a request finds a task.
LEMMA TableFacts ==
    /\ \A st \in TaskStates \ {"Completed"} : CanTransition(st, "Paused")
    /\ \A st \in TaskStates \ (ActiveStates \cup {"Completed"}) : CanTransition(st, "Queued")
    /\ CanTransition("Queued", "Preparing")
  BY DEF TaskStates, ActiveStates, CanTransition, Successors

LEMMA StatusStep ==
    ASSUME TypeOK, RunInv, [Next]_vars
    PROVE  [StatusMoves]_status
<1> SUFFICES ASSUME status' # status
             PROVE  StatusMoves
  OBVIOUS
<1> USE TableFacts DEF StatusMoves, Gone
<1>1. ASSUME NEW t \in Threads, Asks(t)
      PROVE  StatusMoves
  <2>1. CASE Resume(t)
    BY <2>1 DEF Resume, TaskStates
  <2>2. CASE Pause(t)
    BY <2>2 DEF Pause, PauseLocked, TaskStates
  <2>3. CASE Delete(t)
    BY <2>3 DEF Delete, TypeOK
  <2>4. CASE Reauthorize(t)
    BY <2>4 DEF Reauthorize, TaskStates, ActiveStates
  <2>5. CASE Shutdown(t)
    BY <2>5 DEF Shutdown, TypeOK
  <2>6. CASE Redownload(t) \/ \E on \in BOOLEAN : UpdateSeeding(t, on)
    BY <2>6 DEF Redownload, UpdateSeeding
  <2> QED
    BY <1>1, <2>1, <2>2, <2>3, <2>4, <2>5, <2>6 DEF Asks
<1>2. ASSUME NEW t \in Handlers, Continues(t)
      PROVE  StatusMoves
  <2>1. CASE StartLocked(t)
    BY <2>1, StartForms
  <2>2. CASE PauseSettles(t)
    BY <2>2 DEF PauseSettles, TaskStates
  <2>3. CASE DeleteEnds(t)
    BY <2>3 DEF DeleteEnds
  <2>4. CASE RedownloadPauses(t)
    BY <2>4 DEF RedownloadPauses, PauseLocked, TypeOK
  <2>5. CASE RedownloadInstalls(t)
    BY <2>5 DEF RedownloadInstalls, RunInv, HandlersInStep
  <2>6. CASE RecheckVerdict(t)
    BY <2>6 DEF RecheckVerdict, RunInv, HandlersInStep
  <2>7. CASE \/ StartOccupies(t) \/ DeleteReleases(t) \/ ReauthorizeReseeds(t)
             \/ RequestServes(t) \/ ShutdownReleases(t)
    BY <2>7 DEF StartOccupies, DeleteReleases, ReauthorizeReseeds, RequestServes,
       ShutdownReleases
  <2> QED
    BY <1>2, <2>1, <2>2, <2>3, <2>4, <2>5, <2>6, <2>7 DEF Continues
<1>3. ASSUME NEW r \in Runs, Worker(r)
      PROVE  StatusMoves
  BY <1>3 DEF Worker, WorkerProbes, WorkerRechecks, WorkerDownloads, WorkerServes,
     WorkerDriven, WorkerCloses, WorkerTimes, WorkerReleases, Fail, FinishCancelled,
     Transition,
     TaskStates
<1>4. CASE WatchSeed \/ WatchLimit \/ UNCHANGED vars
  BY <1>4 DEF WatchSeed, WatchLimit, vars
<1> QED
  BY <1>1, <1>2, <1>3, <1>4 DEF Next

\* For any number of handlers, runs and requests the status moves along the
\* lifecycle's table; only a redownload under way requeues a finished or running
\* torrent, only the recheck at the start fails a finished one, and a removed
\* one stays removed.
THEOREM TorrentLifecycleRespected == Spec => LifecycleRespected
<1>1. TypeOK /\ RunInv /\ [Next]_vars => [StatusMoves]_status
  BY StatusStep
<1> QED
  BY <1>1, InitTyped, TypesKept, RunKept, PTL DEF Spec, LifecycleRespected, StatusMoves

\* What a step may do when a run moves that is not the task's: see StaleRunsAreInert.
StaleStep ==
    \A r \in Runs :
       at'[r] # at[r] /\ Live(r) /\ gen # r /\ req' = req => UNCHANGED <<status, gen, token>>

\* A worker that was paused, replaced, deleted or redownloaded changes neither
\* the status nor the generation nor any token by what it still does, however
\* many runs the task has had.
THEOREM StaleTorrentRunsAreInert == Spec => StaleRunsAreInert
<1>1. TypeOK /\ RunInv /\ [Next]_vars => [StaleStep]_vars
  <2> SUFFICES ASSUME TypeOK, RunInv, [Next]_vars,
                      NEW r \in Runs, at'[r] # at[r], Live(r), gen # r, req' = req
               PROVE  UNCHANGED <<status, gen, token>>
    BY DEF StaleStep
  <2>1. ASSUME NEW o \in Runs, Worker(o)
        PROVE  UNCHANGED <<status, gen, token>>
    <3>1. at' = [at EXCEPT ![o] = at'[o]]
      BY <2>1 DEF Worker, WorkerProbes, WorkerRechecks, WorkerDownloads, WorkerServes,
         WorkerDriven, WorkerCloses, WorkerTimes, WorkerReleases, Fail, FinishCancelled,
         Move, TypeOK
    <3>2. o = r
      BY <3>1 DEF TypeOK
    <3> QED
      BY <2>1, <3>2 DEF Worker, WorkerProbes, WorkerRechecks, WorkerDownloads, WorkerServes,
         WorkerDriven, WorkerCloses, WorkerTimes, WorkerReleases, Fail, FinishCancelled,
         Transition
  <2>2. ASSUME NEW t \in Handlers, StartLocked(t) \/ StartOccupies(t)
        PROVE  FALSE
    <3>1. CASE StartLocked(t)
      <4>1. req[t].at = "start"
        BY <3>1 DEF StartLocked
      <4> QED
        BY <3>1, <4>1, StartForms DEF Done, NoReq, TypeOK
    <3>2. CASE StartOccupies(t)
      BY <3>2 DEF StartOccupies, Done, NoReq, TypeOK
    <3> QED
      BY <2>2, <3>1, <3>2
  <2>3. CASE \/ \E t \in Threads : Asks(t)
             \/ \E t \in Handlers : Continues(t)
             \/ WatchSeed \/ WatchLimit \/ UNCHANGED vars
    BY <2>2, <2>3 DEF Asks, Resume, Pause, Delete, Redownload, Reauthorize, UpdateSeeding,
       Shutdown,
       Continues, PauseSettles, DeleteReleases, DeleteEnds, RedownloadPauses,
       RedownloadInstalls,
       ReauthorizeReseeds, RequestServes, RecheckVerdict, ShutdownReleases, WatchSeed,
       WatchLimit,
       vars
  <2> QED
    BY <2>1, <2>3 DEF Next
<1> QED
  BY <1>1, InitTyped, TypesKept, RunKept, PTL DEF Spec, StaleRunsAreInert, StaleStep

=============================================================================

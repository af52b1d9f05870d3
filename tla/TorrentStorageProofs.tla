------------------------ MODULE TorrentStorageProofs ------------------------
(***************************************************************************)
(* Theorems about TorrentStorage, for any layout of pieces and files, any   *)
(* number of sessions, runs and requests, and any number of crashes: the    *)
(* torrent leaves the user's own files alone, a pause that has returned     *)
(* leaves the storage quiet, a piece that counts as verified is in its      *)
(* files, and a task that completes has them whole.                         *)
(***************************************************************************)
EXTENDS TorrentStorage, FiniteSetTheorems, WellFoundedInduction, TLAPS

\* Lowest picks a member: a nonempty set of file indices has a least one.
LEMMA LowestIsMember ==
  ASSUME NEW S \in SUBSET Files, S # {}
  PROVE  Lowest(S) \in S
<1> DEFINE Below(x) == {y \in S : y < x}
           T == {Below(x) : x \in S}
<1>1. IsFiniteSet(S) /\ S \subseteq Nat
  BY TorrentStorageAssumption, FS_Subset
<1>2. FiniteSubsetsOf(S) = SUBSET S
  BY <1>1, FS_FiniteSubsetsOfFinite
<1>3. IsWellFoundedOn(StrictSubsetOrdering(S), SUBSET S)
  BY <1>2, FS_StrictSubsetOrderingWellFounded
<1>4. T \subseteq SUBSET S /\ T # {}
  OBVIOUS
<1>5. PICK U \in T : \A V \in T : <<V, U>> \notin StrictSubsetOrdering(S)
  BY <1>3, <1>4, WFMin
<1>6. PICK x \in S : U = Below(x)
  BY <1>5
<1>7. ASSUME NEW y \in S, y < x PROVE FALSE
  <2>1. y \in Nat /\ x \in Nat
    BY <1>1
  <2>2. /\ \A z \in Below(y) : z \in Below(x)
        /\ y \in Below(x) /\ y \notin Below(y)
    BY <1>1, <1>7, <2>1
  <2>3. Below(y) \in T /\ Below(y) \in SUBSET S /\ U \in SUBSET S
    BY <1>4, <1>5
  <2> QED
    BY <1>5, <1>6, <2>2, <2>3 DEF StrictSubsetOrdering
<1>8. \A y \in S : x <= y
  BY <1>1, <1>7
<1> QED
  BY <1>8 DEF Lowest

----------------------------------------------------------------------------
\* The values of the variables.
Making == {"checkpoint", "create"}
Loading == Making \cup {"open"}
Kinds == Loading \cup {"select", "reselect", "delete", "commit"}
Whos == ({"run"} \X Runs) \cup ({"req"} \X Threads)
Operations ==
  [kind : Kinds \ {"commit"}, who : Whos, sel : SUBSET Files, todo : SUBSET Files,
   made : Files \cup {0}]
  \cup [kind : {"commit"}, who : {"run"} \X Runs, sel : {{p} : p \in Pieces},
        todo : SUBSET Files, made : {0, 1}]
Places == {"over", "open", "lease", "drive", "stop", "finalize", "close"}
RunStates ==
  [at : Places, s : 0 .. MaxSessions,
   todo : SUBSET Pieces, cancelled : BOOLEAN, stop : BOOLEAN]
ReqStates ==
  [kind : {"none", "create", "pause", "select", "delete", "forget", "redo", "verify"},
   at : {"none", "cancel", "settle", "invalidate", "open", "act", "gone", "create",
         "making", "install"},
   s : 0 .. MaxSessions, run : 0 .. MaxRuns, sel : SUBSET Files]

Types ==
  /\ file \in [Files -> {"none", "user", "nova"}]
  /\ mem \in [Sessions -> Checkpoints \cup {NoState}]
  /\ ckpt \in Checkpoints \cup {NoState}
  /\ op \in [Sessions -> Operations \cup {Idle}]
  /\ run \in [Runs -> RunStates]
  /\ req \in [Threads -> ReqStates]
  /\ slot \in 0 .. MaxSessions /\ cur \in 0 .. MaxRuns
  /\ quiet \subseteq Sessions
  /\ used \in [sessions : Nat, runs : Nat, requests : Nat, crashes : Nat]
  /\ used.sessions <= MaxSessions

\* Sessions are numbered as they are made.
Fresh ==
  /\ slot <= used.sessions
  /\ \A r \in Runs : run[r].s <= used.sessions
  /\ \A t \in Threads : req[t].s <= used.sessions
  /\ \A s \in Sessions : s > used.sessions => mem[s] = NoState /\ op[s] = Idle

\* A task, a run and a request have a session.
Named ==
  /\ job # "none" => slot \in Sessions
  /\ \A r \in Runs : run[r].at # "over" => run[r].s \in Sessions
  /\ \A t \in Threads : req[t].at # "none" => req[t].s \in Sessions

\* A run that has opened its session and asks for, holds or has held a lease.
Leasing == {"lease", "drive", "stop", "finalize", "close"}

\* Whoever is past the opening of its session finds it open.
InHand ==
  /\ \A s \in Sessions : op[s] # Idle => mem[s] # NoState
  /\ \A r \in Runs : run[r].at \in Leasing =>
        mem[run[r].s] # NoState /\ op[run[r].s].kind # "open"
  /\ \A t \in Threads : req[t].at \in {"invalidate", "act"} =>
        mem[req[t].s] # NoState /\ op[req[t].s].kind # "open"

\* A session that is being made is known only to its maker.
Private ==
  \A s \in Sessions : op[s].kind \in Making =>
    /\ slot # s
    /\ \A r \in Runs : run[r].s # s
    /\ \A t \in Threads : req[t].s = s => req[t].at = "making"

\* The request that asked for the operation under way waits for it.
WaitsAt(kind) ==
  IF kind \in Making THEN "making" ELSE IF kind = "open" THEN "open" ELSE "act"

Asked ==
  \A s \in Sessions : op[s] # Idle =>
    IF op[s].who[1] = "req"
    THEN /\ op[s].kind # "commit"
         /\ req[op[s].who[2]].s = s /\ req[op[s].who[2]].at = WaitsAt(op[s].kind)
    ELSE op[s].kind \in {"open", "commit"}

SessionInv == Types /\ Fresh /\ Named /\ InHand /\ Private /\ Asked

----------------------------------------------------------------------------
\* What a step other than a crash may do to each session ...
SameOp(x)  == op'[x] = op[x] /\ (mem'[x] = NoState <=> mem[x] = NoState)
GoesOn(x)  == /\ op[x] # Idle /\ op'[x] # Idle /\ mem'[x] # NoState
              /\ op'[x].who = op[x].who
              /\ op'[x].kind \in Making <=> op[x].kind \in Making
              /\ op'[x].kind = "open" <=> op[x].kind = "open"
              /\ op'[x].kind = "commit" <=> op[x].kind = "commit"
Ends(x)    == /\ op[x] # Idle /\ op'[x] = Idle
              /\ mem'[x] # NoState \/ op[x].kind \in Loading
Starts(x)  == /\ op[x] = Idle /\ op'[x] # Idle /\ mem'[x] # NoState
              /\ op'[x].kind = "open" => mem[x] = NoState
              /\ op'[x].kind \in Making => x > used.sessions
              /\ x <= used'.sessions
              /\ IF op'[x].who[1] = "req"
                 THEN /\ op'[x].kind # "commit"
                      /\ req'[op'[x].who[2]].s = x
                      /\ req'[op'[x].who[2]].at = WaitsAt(op'[x].kind)
                 ELSE op'[x].kind \in {"open", "commit"}

OpMoves == \A x \in Sessions : SameOp(x) \/ GoesOn(x) \/ Ends(x) \/ Starts(x)

\* ... to the task, ...
Installs(t) == req[t].at = "install" /\ slot' = req[t].s
TaskMoves ==
  \/ (slot' = slot /\ (job' # "none" => job # "none"))
  \/ (slot' = 0 /\ job' = "none")
  \/ \E t \in Threads : Installs(t)

\* ... to each run ...
RunMove(r) ==
  \/ run'[r].s = 0 /\ run'[r].at = "over"
  \/ run'[r].s = slot /\ run'[r].at = "open" /\ job # "none"
  \/ /\ run'[r].s = run[r].s /\ (run'[r].at # "over" => run[r].at # "over")
     /\ run'[r].at \in Leasing =>
          run[r].at \in Leasing \/ (run[r].at = "open" /\ Opened(run[r].s))

\* ... and to each request: one that waits for an operation waits until its end.
ReqKept(t) == req'[t].s = req[t].s /\ req'[t].at = req[t].at
ReqGoesOn(t) ==
  /\ req[t].at \in {"making", "act", "open"} =>
       req[t].s \in Sessions /\ (op[req[t].s] = Idle \/ op'[req[t].s] = Idle)
  /\ \/ req'[t].s = 0 /\ req'[t].at = "none"
     \/ req'[t].s = slot /\ req'[t].at \in {"cancel", "open"} /\ job # "none"
     \/ /\ req'[t].at = "making" /\ req'[t].s \in Sessions
        /\ req'[t].s > used.sessions /\ req'[t].s <= used'.sessions
     \/ req'[t].s = req[t].s /\ req[t].at = "making" /\ req'[t].at = "install"
     \/ /\ req'[t].s = req[t].s /\ req[t].at \notin {"none", "making"}
        /\ req'[t].at # "making"
        /\ req'[t].at \in {"invalidate", "act"} =>
             mem'[req[t].s] # NoState /\ op'[req[t].s].kind # "open"

StepOK ==
  /\ used.sessions <= used'.sessions
  /\ OpMoves /\ TaskMoves
  /\ \A r \in Runs : RunMove(r)
  /\ \A t \in Threads : ReqKept(t) \/ ReqGoesOn(t)

\* An operation under way has its fields.
LEMMA BusyTyped ==
  ASSUME Types, NEW x \in Sessions, op[x] # Idle
  PROVE  op[x] \in Operations
BY DEF Types

\* Such a step keeps the invariant.
LEMMA StepKeepsSessions ==
  ASSUME SessionInv, Types', StepOK
  PROVE  SessionInv'
<1>0. /\ used.sessions \in Nat /\ used'.sessions \in Nat /\ MaxSessions \in Nat
      /\ used.sessions <= used'.sessions /\ used'.sessions <= MaxSessions
      /\ slot \in Nat /\ \A t \in Threads : req[t].s \in Nat /\ req'[t].s \in Nat
      /\ \A r \in Runs : run[r].s \in Nat
      /\ Sessions = 1 .. MaxSessions
      /\ 0 \notin Sessions
  <2>1. MaxSessions \in Nat /\ Sessions = 1 .. MaxSessions /\ 0 \notin Sessions
    BY TorrentStorageAssumption DEF Sessions
  <2>2. /\ used.sessions \in Nat /\ used'.sessions \in Nat /\ slot \in Nat
        /\ used.sessions <= used'.sessions /\ used'.sessions <= MaxSessions
    BY <2>1 DEF SessionInv, Types, StepOK
  <2>s. ASSUME NEW q \in ReqStates PROVE q.s \in Nat
    BY <2>1 DEF ReqStates
  <2>3. \A t \in Threads : req[t].s \in Nat /\ req'[t].s \in Nat
    BY <2>s DEF SessionInv, Types
  <2>4. \A r \in Runs : run[r].s \in Nat
    BY <2>1 DEF SessionInv, Types, RunStates
  <2> QED
    BY <2>1, <2>2, <2>3, <2>4
<1>f. /\ slot <= used.sessions
      /\ \A r \in Runs : run[r].s <= used.sessions
      /\ \A t \in Threads : req[t].s <= used.sessions
      /\ \A s \in Sessions : s > used.sessions => mem[s] = NoState /\ op[s] = Idle
  BY DEF SessionInv, Fresh
<1>n. /\ job # "none" => slot \in Sessions
      /\ \A r \in Runs : run[r].at # "over" => run[r].s \in Sessions
      /\ \A t \in Threads : req[t].at # "none" => req[t].s \in Sessions
  BY DEF SessionInv, Named
<1>i. Idle.kind = "idle" /\ "idle" \notin Kinds /\ Making \subseteq Loading /\ Loading \subseteq Kinds
      /\ "open" \in Loading /\ "open" \notin Making
  BY DEF Idle, Kinds, Loading, Making
<1>1. Fresh'
  <2>1. slot' <= used'.sessions
    BY <1>0, <1>f DEF StepOK, TaskMoves, Installs
  <2>2. ASSUME NEW r \in Runs PROVE run'[r].s <= used'.sessions
    <3>1. RunMove(r)
      BY DEF StepOK
    <3> QED
      BY <1>0, <1>f, <3>1 DEF RunMove
  <2>3. ASSUME NEW t \in Threads PROVE req'[t].s <= used'.sessions
    <3>1. ReqKept(t) \/ ReqGoesOn(t)
      BY DEF StepOK
    <3> QED
      BY <1>0, <1>f, <3>1 DEF ReqKept, ReqGoesOn
  <2>4. ASSUME NEW s \in Sessions, s > used'.sessions PROVE mem'[s] = NoState /\ op'[s] = Idle
    <3>1. s > used.sessions /\ ~(s <= used'.sessions)
      BY <1>0, <2>4
    <3>2. mem[s] = NoState /\ op[s] = Idle
      BY <1>f, <3>1
    <3>3. SameOp(s) \/ GoesOn(s) \/ Ends(s) \/ Starts(s)
      BY DEF StepOK, OpMoves
    <3> QED
      BY <3>1, <3>2, <3>3 DEF SameOp, GoesOn, Ends, Starts
  <2> QED
    BY <2>1, <2>2, <2>3, <2>4 DEF Fresh
<1>2. Named'
  <2>1. job' # "none" => slot' \in Sessions
    BY <1>n DEF StepOK, TaskMoves, Installs
  <2>2. ASSUME NEW r \in Runs, run'[r].at # "over" PROVE run'[r].s \in Sessions
    <3>1. RunMove(r)
      BY DEF StepOK
    <3> QED
      BY <1>n, <2>2, <3>1 DEF RunMove
  <2>3. ASSUME NEW t \in Threads, req'[t].at # "none" PROVE req'[t].s \in Sessions
    <3>1. ReqKept(t) \/ ReqGoesOn(t)
      BY DEF StepOK
    <3> QED
      BY <1>n, <2>3, <3>1 DEF ReqKept, ReqGoesOn
  <2> QED
    BY <2>1, <2>2, <2>3 DEF Named
<1>3. ASSUME NEW x \in Sessions, mem[x] # NoState, op[x].kind \notin Loading
      PROVE  mem'[x] # NoState /\ op'[x].kind # "open"
  <2>1. SameOp(x) \/ GoesOn(x) \/ Ends(x) \/ Starts(x)
    BY DEF StepOK, OpMoves
  <2> QED
    BY <1>i, <1>3, <2>1 DEF SameOp, GoesOn, Ends, Starts
<1>4. InHand'
  <2>1. ASSUME NEW s \in Sessions, op'[s] # Idle PROVE mem'[s] # NoState
    <3>1. SameOp(s) \/ GoesOn(s) \/ Ends(s) \/ Starts(s)
      BY DEF StepOK, OpMoves
    <3> QED
      BY <2>1, <3>1 DEF SameOp, GoesOn, Ends, Starts, SessionInv, InHand
  <2>2. ASSUME NEW r \in Runs, run'[r].at \in Leasing
        PROVE  mem'[run'[r].s] # NoState /\ op'[run'[r].s].kind # "open"
    <3>1. /\ run'[r].s = run[r].s /\ run[r].s \in Sessions
          /\ run[r].at \in Leasing \/ Opened(run[r].s)
      BY <1>n, <2>2 DEF StepOK, RunMove, Leasing
    <3>2. mem[run[r].s] # NoState /\ op[run[r].s].kind \notin Loading
      BY <1>i, <3>1 DEF SessionInv, InHand, Private, Opened, Free, Loading
    <3> QED
      BY <1>3, <3>1, <3>2
  <2>3. ASSUME NEW t \in Threads, req'[t].at \in {"invalidate", "act"}
        PROVE  mem'[req'[t].s] # NoState /\ op'[req'[t].s].kind # "open"
    <3>1. ReqKept(t) \/ ReqGoesOn(t)
      BY DEF StepOK
    <3>2. CASE ReqKept(t)
      <4>1. req[t].s \in Sessions /\ mem[req[t].s] # NoState /\ op[req[t].s].kind \notin Loading
        BY <1>n, <1>i, <2>3, <3>2 DEF ReqKept, SessionInv, InHand, Private, Loading
      <4> QED
        BY <1>3, <3>2, <4>1 DEF ReqKept
    <3>3. CASE ReqGoesOn(t)
      BY <2>3, <3>3 DEF ReqGoesOn
    <3> QED
      BY <3>1, <3>2, <3>3
  <2> QED
    BY <2>1, <2>2, <2>3 DEF InHand
<1>5. Private'
  <2> SUFFICES ASSUME NEW x \in Sessions, op'[x].kind \in Making
               PROVE  /\ slot' # x
                      /\ \A r \in Runs : run'[r].s # x
                      /\ \A t \in Threads : req'[t].s = x => req'[t].at = "making"
    BY DEF Private
  <2>1. op'[x] # Idle /\ (op[x].kind \in Making \/ (op[x] = Idle /\ x > used.sessions))
    BY <1>i DEF StepOK, OpMoves, SameOp, GoesOn, Ends, Starts
  <2>2. /\ slot # x /\ x # 0
        /\ \A r \in Runs : run[r].s # x
        /\ \A t \in Threads : req[t].s = x => req[t].at = "making" /\ op[x] # Idle
    BY <1>0, <1>f, <1>i, <2>1 DEF SessionInv, Private
  <2>3. slot' # x
    BY <2>2 DEF StepOK, TaskMoves, Installs
  <2>4. \A r \in Runs : run'[r].s # x
    BY <2>2 DEF StepOK, RunMove
  <2>5. ASSUME NEW t \in Threads, req'[t].s = x PROVE req'[t].at = "making"
    <3>1. ReqKept(t) \/ ReqGoesOn(t)
      BY DEF StepOK
    <3> QED
      BY <2>1, <2>2, <2>5, <3>1 DEF ReqKept, ReqGoesOn
  <2> QED
    BY <2>3, <2>4, <2>5
<1>6. Asked'
  <2> SUFFICES ASSUME NEW x \in Sessions, op'[x] # Idle
               PROVE  IF op'[x].who[1] = "req"
                      THEN /\ op'[x].kind # "commit"
                           /\ req'[op'[x].who[2]].s = x
                           /\ req'[op'[x].who[2]].at = WaitsAt(op'[x].kind)
                      ELSE op'[x].kind \in {"open", "commit"}
    BY DEF Asked
  <2>1. SameOp(x) \/ GoesOn(x) \/ Ends(x) \/ Starts(x)
    BY DEF StepOK, OpMoves
  <2>2. CASE SameOp(x) \/ GoesOn(x)
    <3>1. /\ op[x] # Idle /\ op'[x].who = op[x].who
          /\ WaitsAt(op'[x].kind) = WaitsAt(op[x].kind)
          /\ op'[x].kind \in {"open", "commit"} <=> op[x].kind \in {"open", "commit"}
          /\ op'[x].kind = "commit" <=> op[x].kind = "commit"
      BY <2>2 DEF SameOp, GoesOn, WaitsAt
    <3>2. CASE op[x].who[1] = "req"
      <4> DEFINE w == op[x].who[2]
      <4>1. op[x] \in Operations
        BY <3>1, BusyTyped DEF SessionInv
      <4>2. op[x].who \in Whos
        BY <4>1 DEF Operations, Whos
      <4>3. w \in Threads
        BY <3>2, <4>2 DEF Whos
      <4>4. op[x].kind # "commit" /\ req[w].s = x /\ req[w].at = WaitsAt(op[x].kind)
        BY <3>1, <3>2 DEF SessionInv, Asked
      <4>5. req[w].at \in {"making", "act", "open"}
        BY <4>4 DEF WaitsAt
      <4>6. ~ReqGoesOn(w)
        BY <3>1, <4>4, <4>5 DEF ReqGoesOn
      <4>7. ReqKept(w)
        BY <4>3, <4>6 DEF StepOK
      <4> QED
        BY <3>1, <3>2, <4>4, <4>7 DEF ReqKept
    <3>3. CASE op[x].who[1] # "req"
      BY <3>1, <3>3 DEF SessionInv, Asked
    <3> QED
      BY <3>2, <3>3
  <2>3. CASE Starts(x)
    BY <2>3 DEF Starts
  <2> QED
    BY <2>1, <2>2, <2>3 DEF Ends
<1> QED
  BY <1>1, <1>2, <1>4, <1>5, <1>6 DEF SessionInv

----------------------------------------------------------------------------
\* No session owns a file of the user; one selects such a file only while it
\* is being prepared, and then still has it to look at.
User == {f \in Files : file[f] = "user"}

UserFree(x) ==
  /\ mem[x] # NoState => mem[x].owned \cap User = {}
  /\ mem[x] # NoState /\ op[x].kind \notin Loading => mem[x].sel \cap User = {}
  /\ op[x].kind \in Loading => mem[x].sel = op[x].sel
  /\ op[x].kind \in Loading \cup {"select", "reselect"} =>
        (op[x].sel \ op[x].todo) \cap User = {} /\ op[x].made \notin User
  /\ op[x].kind = "reselect" => op[x].todo = {}
  /\ op[x].kind = "commit" => op[x].todo \subseteq mem[x].sel
  /\ op[x].kind = "delete" => op[x].todo \subseteq mem[x].owned

UserInv ==
  /\ \A x \in Sessions : UserFree(x)
  /\ ckpt # NoState => ckpt.owned \cap User = {}
  /\ \A ps \in good : ps[2] \notin User

\* A paused session has no generation that a lease could have been given.
Still(x) ==
  x \in quiet =>
    mem[x] # NoState /\ mem[x].gen = 0 /\ op[x].kind \notin Loading \cup {"commit"}
QuietInv == \A x \in Sessions : Still(x)

StorageInv == SessionInv /\ UserInv /\ QuietInv

\* What every step but a crash is shown to do.
Kept == Types' /\ StepOK /\ User' = User /\ UserInv' /\ QuietInv'

\* A step that writes one session's entries leaves the others alone.
LEMMA OneSession ==
  ASSUME Types, NEW s \in Sessions,
         NEW o \in Operations \cup {Idle}, NEW m \in Checkpoints \cup {NoState},
         op' = [op EXCEPT ![s] = o], mem' = [mem EXCEPT ![s] = m]
  PROVE  /\ op' \in [Sessions -> Operations \cup {Idle}]
         /\ mem' \in [Sessions -> Checkpoints \cup {NoState}]
         /\ op'[s] = o /\ mem'[s] = m
         /\ \A x \in Sessions \ {s} : op'[x] = op[x] /\ mem'[x] = mem[x]
BY DEF Types

LEMMA OthersKept ==
  ASSUME StorageInv, NEW s \in Sessions,
         \A x \in Sessions \ {s} : op'[x] = op[x] /\ mem'[x] = mem[x],
         SameOp(s) \/ GoesOn(s) \/ Ends(s) \/ Starts(s),
         User' = User, quiet' \subseteq quiet \cup {s}, UserFree(s)', Still(s)'
  PROVE  /\ OpMoves /\ QuietInv'
         /\ \A x \in Sessions : UserFree(x)'
<1>1. ASSUME NEW x \in Sessions \ {s} PROVE SameOp(x)
  BY <1>1 DEF SameOp
<1>2. ASSUME NEW x \in Sessions \ {s} PROVE UserFree(x)'
  BY <1>2 DEF UserFree, StorageInv, UserInv
<1>3. ASSUME NEW x \in Sessions \ {s} PROVE Still(x)'
  BY <1>3 DEF Still, StorageInv, QuietInv
<1> QED
  BY <1>1, <1>2, <1>3 DEF OpMoves, QuietInv

\* What becomes of the payload files, and of the task, runs and requests.
Payload ==
  /\ file' \in [Files -> {"none", "user", "nova"}] /\ User' = User
  /\ \A ps \in good' : ps[2] \notin User

RunsOK ==
  /\ run' \in [Runs -> RunStates] /\ \A r \in Runs : RunMove(r)
RequestsOK ==
  /\ req' \in [Threads -> ReqStates]
  /\ \A t \in Threads : ReqKept(t) \/ ReqGoesOn(t)
TaskOK ==
  /\ slot' \in 0 .. MaxSessions /\ cur' \in 0 .. MaxRuns /\ TaskMoves
CountersOK ==
  /\ used' \in [sessions : Nat, runs : Nat, requests : Nat, crashes : Nat]
  /\ used.sessions <= used'.sessions /\ used'.sessions <= MaxSessions
CallersOK == RunsOK /\ RequestsOK /\ TaskOK /\ CountersOK

\* Whoever a step does not concern keeps its place.
LEMMA Bystanders ==
  ASSUME StorageInv
  PROVE  /\ UNCHANGED run => RunsOK
         /\ UNCHANGED req => RequestsOK
         /\ UNCHANGED task => TaskOK
         /\ UNCHANGED used => CountersOK
         /\ UNCHANGED <<file, good>> => Payload
<1>1. Types /\ UserInv
  BY DEF StorageInv, SessionInv
<1>2. UNCHANGED run => RunsOK
  BY <1>1 DEF Types, RunsOK, RunMove, Leasing
<1>3. UNCHANGED req => RequestsOK
  BY <1>1 DEF Types, RequestsOK, ReqKept
<1>4. UNCHANGED task => TaskOK
  BY <1>1 DEF Types, TaskOK, task, TaskMoves
<1>5. UNCHANGED used => CountersOK
  <2>1. used.sessions \in Nat /\ used.sessions <= used.sessions
    BY <1>1 DEF Types
  <2> QED
    BY <1>1, <2>1 DEF Types, CountersOK
<1>6. UNCHANGED <<file, good>> => Payload
  BY <1>1 DEF Types, UserInv, Payload, User
<1> QED
  BY <1>2, <1>3, <1>4, <1>5, <1>6

LEMMA SessionWritten ==
  ASSUME StorageInv, NEW s \in Sessions,
         NEW o \in Operations \cup {Idle}, NEW m \in Checkpoints \cup {NoState},
         op' = [op EXCEPT ![s] = o], mem' = [mem EXCEPT ![s] = m],
         Payload, CallersOK, ckpt' = ckpt \/ ckpt' = NoState \/ ckpt' = m,
         quiet' \subseteq quiet \cup {s},
         SameOp(s) \/ GoesOn(s) \/ Ends(s) \/ Starts(s), UserFree(s)', Still(s)'
  PROVE  Kept
<1>0. Types
  BY DEF StorageInv, SessionInv
<1>1. /\ op' \in [Sessions -> Operations \cup {Idle}]
      /\ mem' \in [Sessions -> Checkpoints \cup {NoState}]
      /\ op'[s] = o /\ mem'[s] = m
      /\ \A x \in Sessions \ {s} : op'[x] = op[x] /\ mem'[x] = mem[x]
  BY <1>0, OneSession
<1>2. OpMoves /\ QuietInv' /\ \A x \in Sessions : UserFree(x)'
  BY <1>1, OthersKept DEF Payload
<1>3. UserInv'
  <2>1. ckpt' # NoState => ckpt'.owned \cap User = {}
    <3>1. CASE ckpt' = m
      BY <1>1, <3>1 DEF UserFree, Payload
    <3> QED
      BY <3>1 DEF StorageInv, UserInv
  <2> QED
    BY <1>2, <2>1 DEF UserInv, Payload
<1>4. Types'
  BY <1>0, <1>1 DEF Types, Payload, CallersOK, RunsOK, RequestsOK, TaskOK, CountersOK
<1>5. StepOK
  BY <1>2 DEF StepOK, CallersOK, RunsOK, RequestsOK, TaskOK, CountersOK
<1> QED
  BY <1>2, <1>3, <1>4, <1>5 DEF Kept, Payload

LEMMA NoneWritten ==
  ASSUME StorageInv, UNCHANGED <<op, mem, quiet>>, Payload, CallersOK,
         ckpt' = ckpt \/ ckpt' = NoState
  PROVE  Kept
<1>0. Types
  BY DEF StorageInv, SessionInv
<1>1. OpMoves
  BY DEF OpMoves, SameOp
<1>2. UserInv'
  BY DEF StorageInv, UserInv, UserFree, Payload
<1>3. QuietInv'
  BY DEF StorageInv, QuietInv, Still
<1>4. Types'
  BY <1>0 DEF Types, Payload, CallersOK, RunsOK, RequestsOK, TaskOK, CountersOK
<1>5. StepOK
  BY <1>1 DEF StepOK, CallersOK, RunsOK, RequestsOK, TaskOK, CountersOK
<1> QED
  BY <1>2, <1>3, <1>4, <1>5 DEF Kept, Payload

\* What a session's entries are while an operation is under way.
LEMMA Busy ==
  ASSUME StorageInv, NEW s \in Sessions, op[s].kind # "idle"
  PROVE  /\ op[s] \in Operations /\ op[s] # Idle
         /\ mem[s] \in Checkpoints /\ mem[s] # NoState
         /\ UserFree(s) /\ Still(s)
<1>1. op[s] # Idle /\ Types
  BY DEF Idle, StorageInv, SessionInv
<1> QED
  BY <1>1, BusyTyped DEF StorageInv, SessionInv, InHand, Types, UserInv, QuietInv

LEMMA PrepareFileKeeps ==
  ASSUME StorageInv, NEW s \in Sessions, PrepareFile(s)
  PROVE  Kept
<1> DEFINE f == Lowest(op[s].todo)
           o == IF file[f] = "none" THEN [op[s] EXCEPT !.made = f]
                ELSE [op[s] EXCEPT !.todo = @ \ {f}]
<1>0. Types /\ op[s].kind \in Preparing
  BY DEF StorageInv, SessionInv, PrepareFile
<1>1. /\ op[s] \in Operations /\ op[s] # Idle /\ mem[s] \in Checkpoints /\ mem[s] # NoState
      /\ UserFree(s) /\ Still(s)
  BY <1>0, Busy DEF Preparing
<1>2. f \in op[s].todo /\ f \in Files /\ f # 0
  BY <1>1, LowestIsMember, TorrentStorageAssumption DEF PrepareFile, Operations
<1>3. o \in Operations /\ o.kind = op[s].kind /\ o.who = op[s].who /\ o.sel = op[s].sel /\ o # Idle
  BY <1>0, <1>1, <1>2 DEF Operations, Preparing, Kinds, Idle
<1>4. op' = [op EXCEPT ![s] = o] /\ mem' = [mem EXCEPT ![s] = mem[s]]
  BY <1>0 DEF PrepareFile, Types
<1>5. op'[s] = o /\ mem'[s] = mem[s]
  BY <1>0, <1>4 DEF Types
<1>6. Payload
  <2>1. User' = User
    BY <1>0, <1>2 DEF PrepareFile, Types, User
  <2>2. file' \in [Files -> {"none", "user", "nova"}]
    BY <1>0, <1>2 DEF PrepareFile, Types
  <2> QED
    BY <2>1, <2>2 DEF PrepareFile, Payload, StorageInv, UserInv
<1>7. UserFree(s)'
  <2>1. file[f] # "none" => f \notin User
    BY <1>1 DEF PrepareFile, UserFree
  <2>2. file[f] = "none" => f \notin User
    BY DEF User
  <2> QED
    BY <1>0, <1>1, <1>2, <1>3, <1>5, <1>6, <2>1, <2>2 DEF UserFree, Payload, PrepareFile, Preparing
<1>8. Still(s)'
  BY <1>1, <1>3, <1>5 DEF Still, PrepareFile, history
<1>9. GoesOn(s)
  BY <1>1, <1>3, <1>5 DEF GoesOn
<1>10. CallersOK /\ UNCHANGED <<ckpt, quiet>>
  BY Bystanders DEF PrepareFile, CallersOK, history
<1> HIDE DEF o, f
<1> QED
  BY <1>1, <1>3, <1>4, <1>6, <1>7, <1>8, <1>9, <1>10, SessionWritten

LEMMA OwnFileKeeps ==
  ASSUME StorageInv, NEW s \in Sessions, OwnFile(s)
  PROVE  Kept
<1> DEFINE o == [op[s] EXCEPT !.made = 0, !.todo = @ \ {op[s].made}]
           m == [mem[s] EXCEPT !.owned = @ \cup {op[s].made}]
<1>0. Types /\ op[s].kind \in Preparing
  BY DEF StorageInv, SessionInv, OwnFile
<1>1. /\ op[s] \in Operations /\ op[s] # Idle /\ mem[s] \in Checkpoints /\ mem[s] # NoState
      /\ UserFree(s) /\ Still(s)
  BY <1>0, Busy DEF Preparing
<1>2. op[s].made \in Files
  BY <1>0, <1>1 DEF OwnFile, Operations, Preparing
<1>3. /\ o \in Operations /\ o.kind = op[s].kind /\ o.who = op[s].who /\ o.sel = op[s].sel
      /\ o.todo = op[s].todo \ {op[s].made} /\ o.made = 0 /\ o # Idle
  BY <1>0, <1>1, <1>2 DEF Operations, Preparing, Kinds, Idle
<1>4. /\ m \in Checkpoints /\ m.sel = mem[s].sel /\ m.gen = mem[s].gen
      /\ m.owned = mem[s].owned \cup {op[s].made} /\ m # NoState
  BY <1>1, <1>2 DEF Checkpoints, NoState
<1>5. op' = [op EXCEPT ![s] = o] /\ mem' = [mem EXCEPT ![s] = m]
  BY <1>0 DEF OwnFile, Types, Save
<1>6. op'[s] = o /\ mem'[s] = m
  BY <1>0, <1>5 DEF Types
<1> HIDE DEF o, m
<1>7. Payload /\ CallersOK /\ ckpt' = m /\ quiet' = quiet
  BY <1>5, <1>0, <1>6, Bystanders DEF OwnFile, CallersOK, history, Save, m
<1>8. UserFree(s)'
  <2>1. 0 \notin User
    BY TorrentStorageAssumption DEF User
  <2> QED
    BY <1>0, <1>1, <1>2, <1>3, <1>4, <1>6, <1>7, <2>1 DEF UserFree, Payload, Preparing, Loading, Making
<1>9. Still(s)'
  BY <1>1, <1>3, <1>4, <1>6, <1>7 DEF Still
<1>10. GoesOn(s)
  BY <1>1, <1>3, <1>4, <1>6 DEF GoesOn
<1> QED
  BY <1>3, <1>4, <1>5, <1>7, <1>8, <1>9, <1>10, SessionWritten

LEMMA OpenEndsKeeps ==
  ASSUME StorageInv, NEW s \in Sessions, OpenEnds(s)
  PROVE  Kept
<1>0. Types /\ op[s].kind = "open" /\ op[s].made = 0 /\ op[s].todo = {}
  BY DEF StorageInv, SessionInv, OpenEnds, Prepared
<1>1. /\ op[s] \in Operations /\ op[s] # Idle /\ mem[s] \in Checkpoints /\ mem[s] # NoState
      /\ UserFree(s) /\ Still(s)
  BY <1>0, Busy
<1>2. op' = [op EXCEPT ![s] = Idle] /\ mem' = [mem EXCEPT ![s] = mem[s]]
  BY <1>0 DEF OpenEnds, Types
<1>3. op'[s] = Idle /\ mem'[s] = mem[s]
  BY <1>0, <1>2 DEF Types
<1>4. Payload /\ CallersOK /\ ckpt' = ckpt /\ quiet' = quiet
  BY Bystanders DEF OpenEnds, CallersOK, history, disk
<1>5. UserFree(s)'
  BY <1>0, <1>1, <1>3, <1>4 DEF UserFree, Payload, Idle, Loading, Making
<1>6. Still(s)'
  BY <1>1, <1>3, <1>4 DEF Still, Idle, Loading, Making
<1>7. Ends(s)
  BY <1>1, <1>3 DEF Ends
<1> QED
  BY <1>1, <1>2, <1>4, <1>5, <1>6, <1>7, SessionWritten

LEMMA CreateManifestKeeps ==
  ASSUME StorageInv, NEW s \in Sessions, CreateManifest(s)
  PROVE  Kept
<1> DEFINE o == [op[s] EXCEPT !.kind = "create"]
<1>0. Types /\ op[s].kind = "checkpoint"
  BY DEF StorageInv, SessionInv, CreateManifest
<1>1. /\ op[s] \in Operations /\ op[s] # Idle /\ mem[s] \in Checkpoints /\ mem[s] # NoState
      /\ UserFree(s) /\ Still(s)
  BY <1>0, Busy
<1>2. /\ o \in Operations /\ o.kind = "create" /\ o.who = op[s].who /\ o.sel = op[s].sel
      /\ o.todo = op[s].todo /\ o.made = op[s].made /\ o # Idle
  BY <1>0, <1>1 DEF Operations, Kinds, Loading, Making, Idle
<1>3. op' = [op EXCEPT ![s] = o] /\ mem' = [mem EXCEPT ![s] = mem[s]]
  BY <1>0 DEF CreateManifest, Types
<1>4. op'[s] = o /\ mem'[s] = mem[s]
  BY <1>0, <1>3 DEF Types
<1> HIDE DEF o
<1>5. Payload /\ CallersOK /\ ckpt' = ckpt /\ quiet' = quiet
  BY Bystanders DEF CreateManifest, CallersOK, history
<1>6. UserFree(s)'
  BY <1>0, <1>1, <1>2, <1>4, <1>5 DEF UserFree, Payload, Loading, Making
<1>7. Still(s)'
  BY <1>0, <1>1, <1>2, <1>4, <1>5 DEF Still, Loading, Making
<1>8. GoesOn(s)
  BY <1>0, <1>1, <1>2, <1>4 DEF GoesOn, Making
<1> QED
  BY <1>1, <1>2, <1>3, <1>5, <1>6, <1>7, <1>8, SessionWritten

LEMMA SelectClearsKeeps ==
  ASSUME StorageInv, NEW s \in Sessions, SelectClears(s)
  PROVE  Kept
<1> DEFINE new == Changed(s, op[s].sel)
           o == [op[s] EXCEPT !.kind = "reselect"]
           m == [mem[s] EXCEPT !.verified = @ \ new, !.cached = @ \ new]
<1>0. Types /\ op[s].kind = "select" /\ op[s].made = 0 /\ op[s].todo = {}
  BY DEF StorageInv, SessionInv, SelectClears, Prepared
<1>1. /\ op[s] \in Operations /\ op[s] # Idle /\ mem[s] \in Checkpoints /\ mem[s] # NoState
      /\ UserFree(s) /\ Still(s)
  BY <1>0, Busy
<1>2. /\ o \in Operations /\ o.kind = "reselect" /\ o.who = op[s].who /\ o.sel = op[s].sel
      /\ o.todo = op[s].todo /\ o.made = op[s].made /\ o # Idle
  BY <1>0, <1>1 DEF Operations, Kinds, Loading, Making, Idle
<1>3. /\ m \in Checkpoints /\ m.sel = mem[s].sel /\ m.gen = mem[s].gen
      /\ m.owned = mem[s].owned /\ m # NoState
  BY <1>1 DEF Checkpoints, NoState
<1>4. op' = [op EXCEPT ![s] = o] /\ mem' = [mem EXCEPT ![s] = m]
  BY <1>0 DEF SelectClears, Types
<1>5. op'[s] = o /\ mem'[s] = m
  BY <1>0, <1>4 DEF Types
<1> HIDE DEF o, m
<1>6. Payload /\ CallersOK /\ ckpt' = ckpt /\ quiet' = quiet
  BY Bystanders DEF SelectClears, CallersOK, history
<1>7. UserFree(s)'
  BY <1>0, <1>1, <1>2, <1>3, <1>5, <1>6 DEF UserFree, Payload, Loading, Making
<1>8. Still(s)'
  BY <1>0, <1>1, <1>2, <1>3, <1>5, <1>6 DEF Still, Loading, Making
<1>9. GoesOn(s)
  BY <1>0, <1>1, <1>2, <1>3, <1>5 DEF GoesOn, Making
<1> QED
  BY <1>2, <1>3, <1>4, <1>6, <1>7, <1>8, <1>9, SessionWritten

\* A request that ends, or that moves on, waits for no operation that goes on.
LEMMA RequestGoesOn ==
  ASSUME Types, NEW t \in Threads, NEW q \in ReqStates,
         req' = [req EXCEPT ![t] = q],
         req[t].at \in {"making", "act", "open"} =>
           req[t].s \in Sessions /\ (op[req[t].s] = Idle \/ op'[req[t].s] = Idle),
         \/ q.s = 0 /\ q.at = "none"
         \/ q.s = slot /\ q.at \in {"cancel", "open"} /\ job # "none"
         \/ /\ q.at = "making" /\ q.s \in Sessions
            /\ q.s > used.sessions /\ q.s <= used'.sessions
         \/ q.s = req[t].s /\ req[t].at = "making" /\ q.at = "install"
         \/ /\ q.s = req[t].s /\ req[t].at \notin {"none", "making"} /\ q.at # "making"
            /\ q.at \in {"invalidate", "act"} =>
                 mem'[req[t].s] # NoState /\ op'[req[t].s].kind # "open"
  PROVE  RequestsOK
<1>1. req' \in [Threads -> ReqStates] /\ req'[t] = q
  BY DEF Types
<1>2. \A u \in Threads \ {t} : req'[u] = req[u]
  BY DEF Types
<1>3. ReqGoesOn(t)
  BY <1>1 DEF ReqGoesOn
<1> QED
  BY <1>1, <1>2, <1>3 DEF RequestsOK, ReqKept

LEMMA RequestEnds ==
  ASSUME Types, NEW t \in Threads, req' = [req EXCEPT ![t] = NoReq],
         req[t].at \in {"making", "act", "open"} =>
           req[t].s \in Sessions /\ (op[req[t].s] = Idle \/ op'[req[t].s] = Idle)
  PROVE  RequestsOK
<1>1. NoReq \in ReqStates /\ NoReq.s = 0 /\ NoReq.at = "none"
  BY TorrentStorageAssumption DEF NoReq, ReqStates
<1> QED
  BY <1>1, RequestGoesOn

LEMMA SelectSavesKeeps ==
  ASSUME StorageInv, NEW s \in Sessions, SelectSaves(s)
  PROVE  Kept
<1> DEFINE w == op[s].who[2]
           m == [mem[s] EXCEPT !.sel = op[s].sel, !.gen = 0]
<1>0. Types /\ op[s].kind = "reselect"
  BY DEF StorageInv, SessionInv, SelectSaves
<1>1. /\ op[s] \in Operations /\ op[s] # Idle /\ mem[s] \in Checkpoints /\ mem[s] # NoState
      /\ UserFree(s) /\ Still(s)
  BY <1>0, Busy
<1>2. op[s].sel \subseteq Files
  BY <1>0, <1>1 DEF Operations
<1>3. w \in Threads /\ req[w].s = s
  <2>1. op[s].who[1] = "req" /\ req[w].s = s
    BY <1>0, <1>1 DEF StorageInv, SessionInv, Asked
  <2>2. op[s].who \in Whos
    BY <1>0, <1>1 DEF Operations
  <2> QED
    BY <2>1, <2>2 DEF Whos
<1>4. /\ m \in Checkpoints /\ m.sel = op[s].sel /\ m.gen = 0
      /\ m.owned = mem[s].owned /\ m # NoState
  <2>1. 0 \in 0 .. MaxRuns
    BY TorrentStorageAssumption
  <2>2. m \in Checkpoints /\ m.sel = op[s].sel /\ m.gen = 0 /\ m.owned = mem[s].owned
    BY <1>1, <1>2, <2>1 DEF Checkpoints
  <2> QED
    BY <2>2 DEF Checkpoints, NoState
<1>5. op' = [op EXCEPT ![s] = Idle] /\ mem' = [mem EXCEPT ![s] = m]
  BY <1>0 DEF SelectSaves, Types, Save
<1>6. op'[s] = Idle /\ mem'[s] = m
  BY <1>0, <1>5 DEF Types
<1>7. ckpt' = m /\ quiet' = quiet /\ req' = [req EXCEPT ![w] = NoReq]
  BY DEF SelectSaves, Save, history, SetReq
<1> HIDE DEF w, m
<1>8. RequestsOK
  BY <1>0, <1>3, <1>6, <1>7, RequestEnds
<1>9. Payload /\ CallersOK
  BY <1>8, Bystanders DEF SelectSaves, CallersOK
<1>10. UserFree(s)'
  BY <1>0, <1>1, <1>4, <1>6, <1>9 DEF UserFree, Payload, Idle, Loading, Making
<1>11. Still(s)'
  BY <1>1, <1>4, <1>6, <1>7 DEF Still, Idle, Loading, Making
<1>12. Ends(s)
  BY <1>1, <1>4, <1>6 DEF Ends
<1> QED
  BY <1>4, <1>5, <1>7, <1>9, <1>10, <1>11, <1>12, SessionWritten

LEMMA DeleteFileKeeps ==
  ASSUME StorageInv, NEW s \in Sessions, DeleteFile(s)
  PROVE  Kept
<1> DEFINE f == Lowest(op[s].todo)
           o == [op[s] EXCEPT !.todo = @ \ {f}]
           m == [mem[s] EXCEPT !.owned = @ \ {f}]
<1>0. Types /\ op[s].kind = "delete"
  BY DEF StorageInv, SessionInv, DeleteFile
<1>1. /\ op[s] \in Operations /\ op[s] # Idle /\ mem[s] \in Checkpoints /\ mem[s] # NoState
      /\ UserFree(s) /\ Still(s)
  BY <1>0, Busy
<1>2. f \in op[s].todo /\ f \in Files
  BY <1>0, <1>1, LowestIsMember DEF DeleteFile, Operations
<1>3. /\ o \in Operations /\ o.kind = op[s].kind /\ o.who = op[s].who
      /\ o.todo = op[s].todo \ {f} /\ o # Idle
  BY <1>0, <1>1, <1>2 DEF Operations, Kinds, Loading, Making, Idle
<1>4. /\ m \in Checkpoints /\ m.sel = mem[s].sel /\ m.gen = mem[s].gen
      /\ m.owned = mem[s].owned \ {f} /\ m # NoState
  BY <1>1 DEF Checkpoints, NoState
<1>5. op' = [op EXCEPT ![s] = o] /\ mem' = [mem EXCEPT ![s] = m]
  BY <1>0 DEF DeleteFile, Types
<1>6. op'[s] = o /\ mem'[s] = m
  BY <1>0, <1>5 DEF Types
<1>7. Payload
  <2>1. f \notin User
    BY <1>0, <1>1, <1>2 DEF UserFree
  <2>2. file' = [file EXCEPT ![f] = "none"] /\ good' \subseteq good
    BY DEF DeleteFile
  <2> HIDE DEF f
  <2>3. User' = User
    BY <1>0, <1>2, <2>1, <2>2 DEF Types, User
  <2> QED
    BY <1>0, <1>2, <2>2, <2>3 DEF Payload, Types, StorageInv, UserInv
<1> HIDE DEF f, o, m
<1>8. CallersOK /\ ckpt' = ckpt /\ quiet' = quiet
  BY Bystanders DEF DeleteFile, CallersOK
<1>9. UserFree(s)'
  BY <1>0, <1>1, <1>3, <1>4, <1>6, <1>7 DEF UserFree, Payload, Loading, Making
<1>10. Still(s)'
  BY <1>0, <1>1, <1>3, <1>4, <1>6, <1>8 DEF Still, Loading, Making
<1>11. GoesOn(s)
  BY <1>0, <1>1, <1>3, <1>4, <1>6 DEF GoesOn, Making
<1> QED
  BY <1>3, <1>4, <1>5, <1>7, <1>8, <1>9, <1>10, <1>11, SessionWritten

LEMMA DeleteEndsKeeps ==
  ASSUME StorageInv, NEW s \in Sessions, DeleteEnds(s)
  PROVE  Kept
<1> DEFINE w == op[s].who[2]
           q == [req[w] EXCEPT !.at = IF req[w].kind = "redo" THEN "create" ELSE "gone"]
<1>0. Types /\ op[s].kind = "delete"
  BY DEF StorageInv, SessionInv, DeleteEnds
<1>1. /\ op[s] \in Operations /\ op[s] # Idle /\ mem[s] \in Checkpoints /\ mem[s] # NoState
      /\ UserFree(s) /\ Still(s)
  BY <1>0, Busy
<1>2. w \in Threads /\ req[w].s = s /\ req[w].at = "act"
  <2>1. op[s].who[1] = "req" /\ req[w].s = s /\ req[w].at = "act"
    BY <1>0, <1>1 DEF StorageInv, SessionInv, Asked, WaitsAt, Making
  <2>2. op[s].who \in Whos
    BY <1>0, <1>1 DEF Operations
  <2> QED
    BY <2>1, <2>2 DEF Whos
<1>3. op' = [op EXCEPT ![s] = Idle] /\ mem' = [mem EXCEPT ![s] = mem[s]]
  BY <1>0 DEF DeleteEnds, Types
<1>4. op'[s] = Idle /\ mem'[s] = mem[s]
  BY <1>0, <1>3 DEF Types
<1>5. ckpt' = NoState /\ quiet' = quiet /\ req' = [req EXCEPT ![w] = q]
  BY <1>0 DEF DeleteEnds, RemoveControl, history, Types
<1>6. q \in ReqStates /\ q.s = req[w].s /\ q.at \in {"create", "gone"}
  BY <1>0, <1>2 DEF Types, ReqStates
<1> HIDE DEF w, q
<1>7. RequestsOK
  BY <1>0, <1>2, <1>4, <1>5, <1>6, RequestGoesOn
<1>8. Payload /\ CallersOK
  BY <1>7, Bystanders DEF DeleteEnds, CallersOK
<1>9. UserFree(s)'
  BY <1>0, <1>1, <1>4, <1>8 DEF UserFree, Payload, Idle, Loading, Making
<1>10. Still(s)'
  BY <1>1, <1>4, <1>5 DEF Still, Idle, Loading, Making
<1>11. Ends(s)
  BY <1>1, <1>4 DEF Ends
<1> QED
  BY <1>1, <1>3, <1>5, <1>8, <1>9, <1>10, <1>11, SessionWritten

LEMMA CreateEndsKeeps ==
  ASSUME StorageInv, NEW s \in Sessions, CreateEnds(s)
  PROVE  Kept
<1> DEFINE w == op[s].who[2]
           q == [req[w] EXCEPT !.at = "install"]
<1>0. Types /\ op[s].kind = "create" /\ op[s].made = 0 /\ op[s].todo = {}
  BY DEF StorageInv, SessionInv, CreateEnds, Prepared
<1>1. /\ op[s] \in Operations /\ op[s] # Idle /\ mem[s] \in Checkpoints /\ mem[s] # NoState
      /\ UserFree(s) /\ Still(s)
  BY <1>0, Busy
<1>2. w \in Threads /\ req[w].s = s /\ req[w].at = "making"
  <2>1. op[s].who[1] = "req" /\ req[w].s = s /\ req[w].at = "making"
    BY <1>0, <1>1 DEF StorageInv, SessionInv, Asked, WaitsAt, Making
  <2>2. op[s].who \in Whos
    BY <1>0, <1>1 DEF Operations
  <2> QED
    BY <2>1, <2>2 DEF Whos
<1>3. op' = [op EXCEPT ![s] = Idle] /\ mem' = [mem EXCEPT ![s] = mem[s]]
  BY <1>0 DEF CreateEnds, Types
<1>4. op'[s] = Idle /\ mem'[s] = mem[s]
  BY <1>0, <1>3 DEF Types
<1>5. ckpt' = ckpt /\ quiet' = quiet /\ req' = [req EXCEPT ![w] = q]
  BY <1>0 DEF CreateEnds, disk, history, Types
<1>6. q \in ReqStates /\ q.s = req[w].s /\ q.at = "install"
  BY <1>0, <1>2 DEF Types, ReqStates
<1> HIDE DEF w, q
<1>7. RequestsOK
  BY <1>0, <1>2, <1>4, <1>5, <1>6, RequestGoesOn
<1>8. Payload /\ CallersOK
  BY <1>7, Bystanders DEF CreateEnds, CallersOK, disk
<1>9. UserFree(s)'
  BY <1>0, <1>1, <1>4, <1>8 DEF UserFree, Payload, Idle, Loading, Making
<1>10. Still(s)'
  BY <1>1, <1>4, <1>5 DEF Still, Idle, Loading, Making
<1>11. Ends(s)
  BY <1>1, <1>4 DEF Ends
<1> QED
  BY <1>1, <1>3, <1>5, <1>8, <1>9, <1>10, <1>11, SessionWritten

\* The same for the runs: one that ends, and those whose token is cancelled.
LEMMA RunEnds ==
  ASSUME Types, NEW r \in Runs, RunOver(r)
  PROVE  RunsOK /\ TaskOK
<1>1. NoRun \in RunStates /\ NoRun.s = 0 /\ NoRun.at = "over"
  BY TorrentStorageAssumption DEF NoRun, RunStates, Places
<1>2. RunsOK
  <2>1. run' \in [Runs -> RunStates] /\ run'[r] = NoRun
    BY <1>1 DEF RunOver, Types
  <2>2. \A x \in Runs \ {r} : run'[x] = run[x]
    BY DEF RunOver, Types
  <2> QED
    BY <1>1, <2>1, <2>2 DEF RunsOK, RunMove, Leasing
<1>3. slot' = slot /\ cur' = cur /\ (job' # "none" => job # "none")
  BY DEF RunOver, Inactive
<1> QED
  BY <1>2, <1>3 DEF TaskOK, TaskMoves, Types

LEMMA RunsKept ==
  ASSUME run' \in [Runs -> RunStates],
         \A x \in Runs : run'[x].s = run[x].s /\ run'[x].at = run[x].at
  PROVE  RunsOK
BY DEF RunsOK, RunMove, Leasing

LEMMA LiveCancelled ==
  ASSUME Types, NEW s
  PROVE  /\ CancelLive(s) \in [Runs -> RunStates]
         /\ \A x \in Runs : /\ CancelLive(s)[x].s = run[x].s
                            /\ CancelLive(s)[x].at = run[x].at
<1>1. ASSUME NEW x \in Runs
      PROVE  /\ [run[x] EXCEPT !.cancelled = TRUE] \in RunStates
             /\ [run[x] EXCEPT !.cancelled = TRUE].s = run[x].s
             /\ [run[x] EXCEPT !.cancelled = TRUE].at = run[x].at
  <2>1. run[x] \in RunStates
    BY DEF Types
  <2> QED
    BY <2>1 DEF RunStates
<1> QED
  BY <1>1 DEF Types, CancelLive

LEMMA CurrentStopped ==
  ASSUME Types
  PROVE  /\ StopCurrent \in [Runs -> RunStates]
         /\ \A x \in Runs : StopCurrent[x].s = run[x].s /\ StopCurrent[x].at = run[x].at
<1>1. ASSUME NEW x \in Runs
      PROVE  /\ [run[x] EXCEPT !.stop = TRUE] \in RunStates
             /\ [run[x] EXCEPT !.stop = TRUE].s = run[x].s
             /\ [run[x] EXCEPT !.stop = TRUE].at = run[x].at
  <2>1. run[x] \in RunStates
    BY DEF Types
  <2> QED
    BY <2>1 DEF RunStates
<1> QED
  BY <1>1 DEF Types, StopCurrent

LEMMA DriverStopped ==
  ASSUME Types, NEW r \in Runs, run[r].at = "drive", run' = Stopping(r)
  PROVE  RunsOK
<1>1. /\ CancelLive(run[r].s) \in [Runs -> RunStates]
      /\ \A x \in Runs : /\ CancelLive(run[r].s)[x].s = run[x].s
                         /\ CancelLive(run[r].s)[x].at = run[x].at
  BY LiveCancelled
<1> DEFINE c == CancelLive(run[r].s)
           n == [c[r] EXCEPT !.cancelled = TRUE, !.at = "stop"]
<1> HIDE DEF c
<1>2. run' = [c EXCEPT ![r] = n]
  BY <1>1 DEF Stopping, c
<1>3. n \in RunStates /\ n.s = run[r].s /\ n.at = "stop"
  BY <1>1 DEF RunStates, Places, c
<1> HIDE DEF n
<1>4. run' \in [Runs -> RunStates] /\ run'[r] = n /\ \A x \in Runs \ {r} : run'[x] = c[x]
  BY <1>1, <1>2, <1>3 DEF c
<1>5. \A x \in Runs : c[x].s = run[x].s /\ c[x].at = run[x].at
  BY <1>1 DEF c
<1> QED
  BY <1>3, <1>4, <1>5 DEF RunsOK, RunMove, Leasing

\* The caller of an operation that has ended gets its error.
LEMMA CallerIsTold ==
  ASSUME Types, NEW who \in Whos, CallerFails(who),
         who[1] = "req" =>
           /\ req[who[2]].s \in Sessions
           /\ op[req[who[2]].s] = Idle \/ op'[req[who[2]].s] = Idle
  PROVE  RunsOK /\ RequestsOK /\ TaskOK
<1>1. CASE who[1] = "run"
  <2>1. who[2] \in Runs
    BY <1>1 DEF Whos
  <2>2. RunOver(who[2]) /\ req' = req
    BY <1>1 DEF CallerFails
  <2>3. RequestsOK
    BY <2>2 DEF RequestsOK, ReqKept, Types
  <2> QED
    BY <2>1, <2>2, <2>3, RunEnds
<1>2. CASE who[1] # "run"
  <2>1. who[1] = "req" /\ who[2] \in Threads
    BY <1>2 DEF Whos
  <2>2. /\ req' = [req EXCEPT ![who[2]] = NoReq]
        /\ run' = run /\ slot' = slot /\ cur' = cur /\ (job' # "none" => job # "none")
    BY <1>2 DEF CallerFails, SetReq
  <2>3. RequestsOK
    BY <2>1, <2>2, RequestEnds
  <2>4. RunsOK
    BY <2>2, RunsKept DEF Types
  <2> QED
    BY <2>2, <2>3, <2>4 DEF TaskOK, TaskMoves, Types
<1> QED
  BY <1>1, <1>2

LEMMA PrepareRefusedKeeps ==
  ASSUME StorageInv, NEW s \in Sessions, PrepareRefused(s)
  PROVE  Kept
<1> DEFINE who == op[s].who
           m == IF op[s].kind = "select" THEN mem[s] ELSE NoState
<1>0. Types /\ op[s].kind \in Preparing
  BY DEF StorageInv, SessionInv, PrepareRefused
<1>1. /\ op[s] \in Operations /\ op[s] # Idle /\ mem[s] \in Checkpoints /\ mem[s] # NoState
      /\ UserFree(s) /\ Still(s)
  BY <1>0, Busy DEF Preparing
<1>2. op' = [op EXCEPT ![s] = Idle] /\ mem' = [mem EXCEPT ![s] = m]
  BY <1>0 DEF PrepareRefused, Types
<1>3. op'[s] = Idle /\ mem'[s] = m
  BY <1>0, <1>2 DEF Types
<1>4. ckpt' = ckpt /\ quiet' = quiet /\ CallerFails(who)
  BY DEF PrepareRefused, disk
<1>5. RunsOK /\ RequestsOK /\ TaskOK
  <2>1. who \in Whos
    BY <1>0, <1>1 DEF Operations, Preparing
  <2>2. who[1] = "req" => req[who[2]].s = s
    BY <1>1 DEF StorageInv, SessionInv, Asked
  <2> HIDE DEF who
  <2> QED
    BY <1>0, <1>3, <1>4, <2>1, <2>2, CallerIsTold
<1>6. Payload /\ CallersOK
  BY <1>5, Bystanders DEF PrepareRefused, CallersOK, disk
<1>7. UserFree(s)'
  BY <1>0, <1>1, <1>3, <1>6 DEF UserFree, Payload, Idle, Loading, Making
<1>8. Still(s)'
  BY <1>0, <1>1, <1>3, <1>4 DEF Still, Idle, Loading, Making, Preparing
<1>9. Ends(s)
  BY <1>0, <1>1, <1>3 DEF Ends, Loading, Making, Preparing
<1> QED
  BY <1>1, <1>2, <1>4, <1>6, <1>7, <1>8, <1>9, SessionWritten

\* The callers of OpenStarts and OpenMisses wait for a session to open.
LEMMA CallersAreTyped ==
  ASSUME NEW s \in Sessions, NEW who \in Callers(s)
  PROVE  /\ who \in Whos
         /\ who[1] = "run" \/ (who[1] = "req" /\ req[who[2]].s = s /\ req[who[2]].at = "open")
BY DEF Callers, Whos

LEMMA OpenStartsKeeps ==
  ASSUME StorageInv, NEW s \in Sessions, NEW who \in Callers(s), OpenStarts(who, s)
  PROVE  Kept
<1> DEFINE o == Prepare("open", who, ckpt.sel)
<1>0. /\ Types /\ mem[s] = NoState /\ op[s] = Idle /\ ckpt \in Checkpoints /\ ckpt # NoState
      /\ ckpt.owned \cap User = {}
  BY DEF StorageInv, SessionInv, UserInv, OpenStarts, Types, Free
<1>1. /\ who \in Whos
      /\ who[1] = "run" \/ (who[1] = "req" /\ req[who[2]].s = s /\ req[who[2]].at = "open")
  BY CallersAreTyped
<1>2. /\ o \in Operations /\ o.kind = "open" /\ o.who = who /\ o.sel = ckpt.sel
      /\ o.todo = ckpt.sel /\ o.made = 0 /\ o # Idle
  BY <1>0, <1>1 DEF Operations, Kinds, Loading, Making, Idle, Prepare, Checkpoints
<1>3. op' = [op EXCEPT ![s] = o] /\ mem' = [mem EXCEPT ![s] = ckpt]
  BY DEF OpenStarts
<1>4. op'[s] = o /\ mem'[s] = ckpt
  BY <1>0, <1>3 DEF Types
<1> HIDE DEF o
<1>5. Payload /\ CallersOK /\ ckpt' = ckpt /\ quiet' = quiet /\ req' = req /\ used' = used
  BY Bystanders DEF OpenStarts, CallersOK, history, disk
<1>6. UserFree(s)'
  <2>1. 0 \notin User
    BY TorrentStorageAssumption DEF User
  <2> QED
    BY <1>0, <1>2, <1>4, <1>5, <2>1 DEF UserFree, Payload, Loading, Making
<1>7. Still(s)'
  BY <1>0, <1>5 DEF Still, StorageInv, QuietInv
<1>8. Starts(s)
  <2>1. req[who[2]].at = "open" /\ who[1] = "req" => s <= used'.sessions
    BY <1>1, <1>5 DEF StorageInv, SessionInv, Fresh, Whos
  <2>2. who[1] = "run" => s <= used'.sessions
    BY <1>1, <1>5 DEF StorageInv, SessionInv, Fresh, Callers
  <2> QED
    BY <1>0, <1>1, <1>2, <1>4, <1>5, <2>1, <2>2 DEF Starts, WaitsAt, Making
<1> QED
  BY <1>0, <1>2, <1>3, <1>5, <1>6, <1>7, <1>8, SessionWritten

LEMMA OpenMissesKeeps ==
  ASSUME StorageInv, NEW s \in Sessions, NEW who \in Callers(s), OpenMisses(who, s)
  PROVE  Kept
<1>0. Types /\ op[s] = Idle
  BY DEF StorageInv, SessionInv, OpenMisses, Free
<1>1. /\ who \in Whos
      /\ who[1] = "run" \/ (who[1] = "req" /\ req[who[2]].s = s /\ req[who[2]].at = "open")
  BY CallersAreTyped
<1>2. RunsOK /\ RequestsOK /\ TaskOK
  BY <1>0, <1>1, CallerIsTold DEF OpenMisses
<1>3. Payload /\ CallersOK
  BY <1>2, Bystanders DEF OpenMisses, CallersOK, disk
<1> QED
  BY <1>3, NoneWritten DEF OpenMisses, disk, history

\* A commit is a run's, of one piece.
LEMMA CommitTyped ==
  ASSUME StorageInv, NEW s \in Sessions, op[s].kind = "commit"
  PROVE  /\ op[s].who[2] \in Runs /\ Committed(s) \in Pieces
         /\ op[s].todo \subseteq Files /\ op[s].todo \cap User = {}
<1>1. op[s] \in Operations /\ mem[s] \in Checkpoints /\ mem[s] # NoState /\ UserFree(s)
  BY Busy
<1>2. PICK p \in Pieces : op[s].sel = {p}
  BY <1>1 DEF Operations
<1>3. p \in Nat
  BY TorrentStorageAssumption
<1>4. Committed(s) = p
  BY <1>2, <1>3 DEF Committed, Lowest
<1>5. op[s].todo \subseteq mem[s].sel /\ mem[s].sel \cap User = {}
  BY <1>1 DEF UserFree, Loading, Making
<1>6. op[s].who[2] \in Runs /\ op[s].todo \subseteq Files
  BY <1>1 DEF Operations
<1> QED
  BY <1>4, <1>5, <1>6

LEMMA CommitSliceKeeps ==
  ASSUME StorageInv, NEW s \in Sessions, CommitSlice(s)
  PROVE  Kept
<1> DEFINE f == Lowest(op[s].todo)
           o == [op[s] EXCEPT !.todo = @ \ {f}]
<1>0. Types /\ op[s].kind = "commit"
  BY DEF StorageInv, SessionInv, CommitSlice
<1>1. /\ op[s] \in Operations /\ op[s] # Idle /\ mem[s] \in Checkpoints /\ mem[s] # NoState
      /\ UserFree(s) /\ Still(s)
  BY <1>0, Busy
<1>2. f \in op[s].todo /\ f \notin User
  BY <1>0, CommitTyped, LowestIsMember DEF CommitSlice
<1>3. /\ o \in Operations /\ o.kind = op[s].kind /\ o.who = op[s].who
      /\ o.todo = op[s].todo \ {f} /\ o # Idle
  BY <1>0, <1>1, <1>2 DEF Operations, Kinds, Loading, Making, Idle
<1>4. op' = [op EXCEPT ![s] = o] /\ mem' = [mem EXCEPT ![s] = mem[s]]
  BY <1>0 DEF CommitSlice, Types
<1>5. op'[s] = o /\ mem'[s] = mem[s]
  BY <1>0, <1>4 DEF Types
<1>6. Payload
  <2>1. file' = file /\ good' = good \cup {<<Committed(s), f>>}
    BY DEF CommitSlice
  <2> HIDE DEF f
  <2>2. User' = User
    BY <2>1 DEF User
  <2> QED
    BY <1>0, <1>2, <2>1, <2>2 DEF Payload, Types, StorageInv, UserInv
<1> HIDE DEF f, o
<1>7. CallersOK /\ ckpt' = ckpt /\ quiet' = quiet
  BY Bystanders DEF CommitSlice, CallersOK, history
<1>8. UserFree(s)'
  BY <1>0, <1>1, <1>3, <1>5, <1>6 DEF UserFree, Payload, Loading, Making
<1>9. Still(s)'
  BY <1>0, <1>1, <1>3, <1>5, <1>7 DEF Still, Loading, Making
<1>10. GoesOn(s)
  BY <1>0, <1>1, <1>3, <1>5 DEF GoesOn, Making
<1> QED
  BY <1>1, <1>3, <1>4, <1>6, <1>7, <1>8, <1>9, <1>10, SessionWritten

LEMMA CommitCachesKeeps ==
  ASSUME StorageInv, NEW s \in Sessions, CommitCaches(s)
  PROVE  Kept
<1> DEFINE o == [op[s] EXCEPT !.made = 1]
<1>0. Types /\ op[s].kind = "commit"
  BY DEF StorageInv, SessionInv, CommitCaches
<1>1. /\ op[s] \in Operations /\ op[s] # Idle /\ mem[s] \in Checkpoints /\ mem[s] # NoState
      /\ UserFree(s) /\ Still(s)
  BY <1>0, Busy
<1>2. /\ o \in Operations /\ o.kind = op[s].kind /\ o.who = op[s].who
      /\ o.todo = op[s].todo /\ o # Idle
  BY <1>0, <1>1 DEF Operations, Kinds, Loading, Making, Idle
<1>3. op' = [op EXCEPT ![s] = o] /\ mem' = [mem EXCEPT ![s] = mem[s]]
  BY <1>0 DEF CommitCaches, Types
<1>4. op'[s] = o /\ mem'[s] = mem[s]
  BY <1>0, <1>3 DEF Types
<1> HIDE DEF o
<1>5. Payload /\ CallersOK /\ ckpt' = ckpt /\ quiet' = quiet
  BY Bystanders DEF CommitCaches, CallersOK, history
<1>6. UserFree(s)'
  BY <1>0, <1>1, <1>2, <1>4, <1>5 DEF UserFree, Payload, Loading, Making
<1>7. Still(s)'
  BY <1>0, <1>1, <1>2, <1>4, <1>5 DEF Still, Loading, Making
<1>8. GoesOn(s)
  BY <1>0, <1>1, <1>2, <1>4 DEF GoesOn, Making
<1> QED
  BY <1>1, <1>2, <1>3, <1>5, <1>6, <1>7, <1>8, SessionWritten

LEMMA CommitSavesKeeps ==
  ASSUME StorageInv, NEW s \in Sessions, CommitSaves(s)
  PROVE  Kept
<1> DEFINE p == Committed(s)
           r == op[s].who[2]
           left == run[r].todo \ {p}
           m == [mem[s] EXCEPT !.verified = @ \cup {p},
                   !.cached = IF IsBoundary(p, mem[s].sel) THEN @ \cup {p} ELSE @ \ {p}]
           n == [run[r] EXCEPT !.todo = left,
                   !.at = IF @ = "drive" /\ left = {} THEN "finalize" ELSE @]
<1>0. Types /\ op[s].kind = "commit"
  BY DEF StorageInv, SessionInv, CommitSaves
<1>1. /\ op[s] \in Operations /\ op[s] # Idle /\ mem[s] \in Checkpoints /\ mem[s] # NoState
      /\ UserFree(s) /\ Still(s)
  BY <1>0, Busy
<1>2. r \in Runs /\ p \in Pieces
  BY <1>0, CommitTyped
<1>3. /\ m \in Checkpoints /\ m.sel = mem[s].sel /\ m.gen = mem[s].gen
      /\ m.owned = mem[s].owned /\ m # NoState
  <2> HIDE DEF p
  <2> QED
    BY <1>1, <1>2 DEF Checkpoints, NoState
<1>4. /\ n \in RunStates /\ n.s = run[r].s
      /\ n.at = run[r].at \/ (run[r].at = "drive" /\ n.at = "finalize")
  <2>1. run[r] \in RunStates /\ left \in SUBSET Pieces
    <3> HIDE DEF r, p
    <3>1. run[r] \in RunStates
      BY <1>0, <1>2 DEF Types
    <3> QED
      BY <3>1 DEF RunStates
  <2> HIDE DEF p, r, left
  <2> QED
    BY <2>1 DEF RunStates, Places
<1>5. op' = [op EXCEPT ![s] = Idle] /\ mem' = [mem EXCEPT ![s] = m]
  BY <1>0 DEF CommitSaves, Save
<1>6. op'[s] = Idle /\ mem'[s] = m
  BY <1>0, <1>5 DEF Types
<1>7. run' = [run EXCEPT ![r] = n]
  BY <1>0, <1>2 DEF CommitSaves, Types
<1>8. ckpt' = m /\ quiet' = quiet
  BY DEF CommitSaves, Save, history
<1> HIDE DEF p, r, left, m, n
<1>9. RunsOK
  <2>1. run' \in [Runs -> RunStates] /\ run'[r] = n /\ \A x \in Runs \ {r} : run'[x] = run[x]
    BY <1>0, <1>2, <1>4, <1>7 DEF Types
  <2> QED
    BY <1>4, <2>1 DEF RunsOK, RunMove, Leasing
<1>10. Payload /\ CallersOK
  BY <1>9, Bystanders DEF CommitSaves, CallersOK
<1>11. UserFree(s)'
  BY <1>0, <1>1, <1>3, <1>6, <1>10 DEF UserFree, Payload, Idle, Loading, Making
<1>12. Still(s)'
  BY <1>0, <1>1, <1>3, <1>6, <1>8 DEF Still, Idle, Loading, Making
<1>13. Ends(s)
  BY <1>1, <1>3, <1>6 DEF Ends
<1> QED
  BY <1>3, <1>5, <1>8, <1>10, <1>11, <1>12, <1>13, SessionWritten

LEMMA CommitFailsKeeps ==
  ASSUME StorageInv, NEW s \in Sessions, CommitFails(s)
  PROVE  Kept
<1>0. Types /\ op[s].kind = "commit"
  BY DEF StorageInv, SessionInv, CommitFails
<1>1. /\ op[s] \in Operations /\ op[s] # Idle /\ mem[s] \in Checkpoints /\ mem[s] # NoState
      /\ UserFree(s) /\ Still(s)
  BY <1>0, Busy
<1>2. op[s].who[2] \in Runs
  BY <1>0, CommitTyped
<1>3. op' = [op EXCEPT ![s] = Idle] /\ mem' = [mem EXCEPT ![s] = mem[s]]
  BY <1>0 DEF CommitFails, Types
<1>4. op'[s] = Idle /\ mem'[s] = mem[s]
  BY <1>0, <1>3 DEF Types
<1>5. RunsOK
  <2>1. CASE run[op[s].who[2]].at = "drive"
    BY <1>0, <1>2, <2>1, DriverStopped DEF CommitFails
  <2>2. CASE run[op[s].who[2]].at # "drive"
    BY <2>2, Bystanders DEF CommitFails
  <2> QED
    BY <2>1, <2>2
<1>6. Payload /\ CallersOK /\ ckpt' = ckpt /\ quiet' = quiet
  BY <1>5, Bystanders DEF CommitFails, CallersOK, disk, history
<1>7. UserFree(s)'
  BY <1>0, <1>1, <1>4, <1>6 DEF UserFree, Payload, Idle, Loading, Making
<1>8. Still(s)'
  BY <1>0, <1>1, <1>4, <1>6 DEF Still, Idle, Loading, Making
<1>9. Ends(s)
  BY <1>1, <1>4 DEF Ends
<1> QED
  BY <1>1, <1>3, <1>6, <1>7, <1>8, <1>9, SessionWritten

LEMMA StorageStepKeeps ==
  ASSUME StorageInv, NEW s \in Sessions, StorageStep(s)
  PROVE  Kept
BY PrepareFileKeeps, OwnFileKeeps, PrepareRefusedKeeps, OpenEndsKeeps, CreateManifestKeeps,
   CreateEndsKeeps, SelectClearsKeeps, SelectSavesKeeps, DeleteFileKeeps, DeleteEndsKeeps,
   CommitSliceKeeps, CommitCachesKeeps, CommitSavesKeeps, CommitFailsKeeps, OpenStartsKeeps,
   OpenMissesKeeps
   DEF StorageStep

----------------------------------------------------------------------------
\* A save of an open session at rest that leaves its selection and its files.
LEMMA SessionSaved ==
  ASSUME StorageInv, NEW s \in Sessions, op[s] = Idle, mem[s] # NoState,
         NEW m \in Checkpoints, m.sel = mem[s].sel, m.owned = mem[s].owned,
         op' = op, mem' = [mem EXCEPT ![s] = m],
         Payload, CallersOK, ckpt' = ckpt \/ ckpt' = m,
         quiet' \subseteq quiet \cup {s}, s \in quiet' => m.gen = 0
  PROVE  Kept
<1>0. Types /\ UserFree(s)
  BY DEF StorageInv, SessionInv, UserInv
<1>1. op' = [op EXCEPT ![s] = op[s]] /\ op[s] \in Operations \cup {Idle}
  BY <1>0 DEF Types
<1>2. op'[s] = Idle /\ mem'[s] = m /\ m # NoState
  <2>1. m # NoState
    BY DEF Checkpoints, NoState
  <2> QED
    BY <1>0, <2>1 DEF Types
<1>3. UserFree(s)'
  BY <1>0, <1>2 DEF UserFree, Payload, Idle, Loading, Making
<1>4. Still(s)'
  BY <1>2 DEF Still, Idle, Loading, Making
<1>5. SameOp(s)
  BY <1>2 DEF SameOp
<1> QED
  BY <1>1, <1>3, <1>4, <1>5, SessionWritten

\* The first save of a session that is being made.
LEMMA SessionMade ==
  ASSUME StorageInv, NEW t \in Threads, NEW sel \in SUBSET Files, NEW q \in ReqStates,
         NEW s \in Sessions, s = used.sessions + 1, CanCreate(sel), Save(s, NewCheckpoint(sel)),
         op' = [op EXCEPT ![s] = Prepare("checkpoint", <<"req", t>>, sel)],
         Spend("sessions"), req' = [req EXCEPT ![t] = q],
         q.at = "making", q.s = s, req[t].at \in {"none", "create"},
         UNCHANGED <<file, good, live, run, task, history>>
  PROVE  Kept
<1> DEFINE o == Prepare("checkpoint", <<"req", t>>, sel)
           m == NewCheckpoint(sel)
<1>0. Types
  BY DEF StorageInv, SessionInv
<1>1. /\ used.sessions \in Nat /\ MaxSessions \in Nat /\ s \in 1 .. MaxSessions /\ s > used.sessions
      /\ 0 \in 0 .. MaxRuns
  BY <1>0, TorrentStorageAssumption DEF Types, Sessions
<1>2. used'.sessions = s /\ CountersOK
  BY <1>0, <1>1 DEF Spend, Types, CountersOK
<1>3. mem[s] = NoState /\ op[s] = Idle
  BY <1>1 DEF StorageInv, SessionInv, Fresh
<1>4. /\ o \in Operations /\ o.kind = "checkpoint" /\ o.who = <<"req", t>> /\ o.sel = sel
      /\ o.todo = sel /\ o.made = 0 /\ o # Idle
  BY DEF Operations, Kinds, Loading, Making, Idle, Prepare, Whos
<1>5. m \in Checkpoints /\ m.sel = sel /\ m.owned = {} /\ m # NoState
  BY <1>1 DEF NewCheckpoint, Checkpoints, NoState
<1>6. op' = [op EXCEPT ![s] = o] /\ mem' = [mem EXCEPT ![s] = m] /\ ckpt' = m
  BY DEF Save
<1> HIDE DEF o, m
<1>7. op'[s] = o /\ mem'[s] = m /\ req'[t] = q
  BY <1>0, <1>1, <1>6 DEF Types
<1>8. RequestsOK
  <2>1. q.s \in Sessions /\ q.s > used.sessions /\ q.s <= used'.sessions
    BY <1>1, <1>2
  <2>2. req[t].at \notin {"making", "act", "open"}
    OBVIOUS
  <2> QED
    BY <1>0, <2>1, <2>2, RequestGoesOn
<1>9. Payload /\ CallersOK /\ quiet' = quiet
  BY <1>2, <1>8, Bystanders DEF CallersOK, history
<1>10. UserFree(s)'
  <2>1. 0 \notin User
    BY TorrentStorageAssumption DEF User
  <2> QED
    BY <1>4, <1>5, <1>7, <1>9, <2>1 DEF UserFree, Payload, Loading, Making
<1>11. Still(s)'
  BY <1>1, <1>3, <1>9 DEF Still, StorageInv, QuietInv
<1>12. Starts(s)
  <2>1. /\ o.who[1] = "req" /\ o.who[2] = t /\ req'[t].s = s /\ req'[t].at = "making"
    BY <1>4, <1>7
  <2>2. s <= used'.sessions
    BY <1>1, <1>2
  <2> QED
    BY <1>1, <1>3, <1>4, <1>5, <1>7, <2>1, <2>2 DEF Starts, WaitsAt, Making
<1> QED
  BY <1>1, <1>4, <1>5, <1>6, <1>9, <1>10, <1>11, <1>12, SessionWritten

LEMMA AskCreateKeeps ==
  ASSUME StorageInv, NEW t \in Threads, NEW sel \in Selections, AskCreate(t, sel)
  PROVE  Kept
<1> DEFINE q == [NoReq EXCEPT !.kind = "create", !.at = "making", !.s = used.sessions + 1]
<1>1. sel \in SUBSET Files
  BY TorrentStorageAssumption
<1>2. q \in ReqStates /\ q.at = "making" /\ q.s = used.sessions + 1
  <2>1. used.sessions + 1 \in 0 .. MaxSessions /\ 0 \in 0 .. MaxRuns
    BY TorrentStorageAssumption DEF AskCreate, StorageInv, SessionInv, Types
  <2> QED
    BY <2>1 DEF NoReq, ReqStates
<1>3. req' = [req EXCEPT ![t] = q] /\ req[t].at = "none"
  BY DEF AskCreate, SetReq, NoReq
<1> HIDE DEF q
<1>4. PICK s \in Sessions : s = used.sessions + 1
  BY TorrentStorageAssumption DEF AskCreate, StorageInv, SessionInv, Types, Sessions
<1> QED
  BY <1>1, <1>2, <1>3, <1>4, SessionMade DEF AskCreate

LEMMA RequestCreatesKeeps ==
  ASSUME StorageInv, NEW t \in Threads, RequestCreates(t)
  PROVE  Kept
<1>0. Types /\ req[t] \in ReqStates /\ req[t].at = "create" /\ req[t].sel \in SUBSET Files
  BY DEF StorageInv, SessionInv, Types, RequestCreates, ReqStates
<1>1. CASE CanCreate(req[t].sel)
  <2> DEFINE q == [req[t] EXCEPT !.at = "making", !.s = used.sessions + 1]
  <2>1. used.sessions < MaxSessions /\ CreateStarts(t, used.sessions + 1, req[t].sel)
    BY <1>1 DEF RequestCreates
  <2>2. q \in ReqStates /\ q.at = "making" /\ q.s = used.sessions + 1
    <3>1. used.sessions + 1 \in 0 .. MaxSessions
      BY <1>0, <2>1, TorrentStorageAssumption DEF Types
    <3> QED
      BY <1>0, <3>1 DEF ReqStates
  <2>3. req' = [req EXCEPT ![t] = q]
    BY <1>0, <1>1 DEF RequestCreates, Types
  <2> HIDE DEF q
  <2>4. PICK s \in Sessions : s = used.sessions + 1
    BY <1>0, <2>1, TorrentStorageAssumption DEF Types, Sessions
  <2> QED
    BY <1>0, <1>1, <2>1, <2>2, <2>3, <2>4, SessionMade DEF RequestCreates, CreateStarts
<1>2. CASE ~CanCreate(req[t].sel)
  <2>1. req' = [req EXCEPT ![t] = NoReq] /\ UNCHANGED <<mem, op, ckpt, control, used>>
    BY <1>2 DEF RequestCreates, SetReq
  <2>2. RequestsOK
    BY <1>0, <2>1, RequestEnds
  <2>3. Payload /\ CallersOK
    BY <2>1, <2>2, Bystanders DEF RequestCreates, CallersOK
  <2> QED
    BY <2>1, <2>3, NoneWritten DEF RequestCreates, history
<1> QED
  BY <1>1, <1>2

\* A request that is asked of the task goes to the session in its slot.
LEMMA Asks ==
  ASSUME StorageInv, NEW t \in Threads, NEW sel \in SUBSET Files,
         NEW kind \in {"pause", "select", "delete", "forget", "redo"},
         NEW at \in {"cancel", "open"}, MayAsk(t), job # "none", Ask(t, kind, at, sel)
  PROVE  RequestsOK /\ CountersOK
<1> DEFINE q == [kind |-> kind, at |-> at, s |-> slot, run |-> cur, sel |-> sel]
<1>0. Types
  BY DEF StorageInv, SessionInv
<1>1. q \in ReqStates /\ q.s = slot /\ q.at = at
  BY <1>0 DEF Types, ReqStates
<1>2. req' = [req EXCEPT ![t] = q] /\ req[t].at = "none"
  BY DEF Ask, SetReq, MayAsk, NoReq
<1> HIDE DEF q
<1>3. RequestsOK
  BY <1>0, <1>1, <1>2, RequestGoesOn
<1>4. CountersOK
  <2>1. /\ used' \in [sessions : Nat, runs : Nat, requests : Nat, crashes : Nat]
        /\ used'.sessions = used.sessions
    BY <1>0 DEF Ask, Spend, Types
  <2>2. used.sessions <= used.sessions
    BY <1>0 DEF Types
  <2> QED
    BY <1>0, <2>1, <2>2 DEF CountersOK, Types
<1> QED
  BY <1>3, <1>4

LEMMA AskPauseKeeps ==
  ASSUME StorageInv, NEW t \in Threads, AskPause(t)
  PROVE  Kept
<1>0. Types
  BY DEF StorageInv, SessionInv
<1>1. RequestsOK /\ CountersOK
  BY Asks DEF AskPause
<1>2. RunsOK
  BY <1>0, CurrentStopped, RunsKept DEF AskPause
<1>3. TaskOK
  BY <1>0 DEF AskPause, TaskOK, TaskMoves, Types
<1>4. Payload /\ CallersOK
  BY <1>1, <1>2, <1>3, Bystanders DEF AskPause, CallersOK, disk
<1> QED
  BY <1>4, NoneWritten DEF AskPause, disk, history

LEMMA AskSelectKeeps ==
  ASSUME StorageInv, NEW t \in Threads, NEW sel \in Selections, AskSelect(t, sel)
  PROVE  Kept
<1>1. sel \in SUBSET Files
  BY TorrentStorageAssumption
<1>2. RequestsOK /\ CountersOK
  BY <1>1, Asks DEF AskSelect
<1>3. Payload /\ CallersOK
  BY <1>2, Bystanders DEF AskSelect, CallersOK, disk
<1> QED
  BY <1>3, NoneWritten DEF AskSelect, disk, history

LEMMA AskDeleteKeeps ==
  ASSUME StorageInv, NEW t \in Threads, NEW kind \in {"delete", "forget"}, AskDelete(t, kind)
  PROVE  Kept
<1>0. Types
  BY DEF StorageInv, SessionInv
<1>1. RequestsOK /\ CountersOK
  BY Asks DEF AskDelete
<1>2. RunsOK
  BY <1>0, CurrentStopped, RunsKept DEF AskDelete
<1>3. TaskOK
  BY <1>0, TorrentStorageAssumption DEF AskDelete, TaskOK, TaskMoves, Types
<1>4. Payload /\ CallersOK
  BY <1>1, <1>2, <1>3, Bystanders DEF AskDelete, CallersOK, disk
<1> QED
  BY <1>4, NoneWritten DEF AskDelete, disk, history

LEMMA AskRedownloadKeeps ==
  ASSUME StorageInv, NEW t \in Threads, AskRedownload(t)
  PROVE  Kept
<1>0. Types
  BY DEF StorageInv, SessionInv
<1>1. /\ MayAsk(t) /\ job # "none"
      /\ \/ job' = "pausing" /\ run' = StopCurrent /\ Ask(t, "redo", "cancel", {})
         \/ Ask(t, "redo", "open", {}) /\ UNCHANGED <<job, run>>
  BY DEF AskRedownload
<1>2. RequestsOK /\ CountersOK
  BY <1>1, Asks
<1>3. RunsOK
  BY <1>0, <1>1, CurrentStopped, RunsKept, Bystanders
<1>4. TaskOK
  BY <1>0, <1>1 DEF AskRedownload, TaskOK, TaskMoves, Types
<1>5. Payload /\ CallersOK
  BY <1>2, <1>3, <1>4, Bystanders DEF AskRedownload, CallersOK, disk
<1> QED
  BY <1>5, NoneWritten DEF AskRedownload, disk, history

\* The session of a request under way.
LEMMA RequestTyped ==
  ASSUME StorageInv, NEW t \in Threads, req[t].at # "none"
  PROVE  req[t] \in ReqStates /\ req[t].s \in Sessions /\ req[t].s <= used.sessions
BY DEF StorageInv, SessionInv, Types, Named, Fresh

LEMMA RequestCancelsKeeps ==
  ASSUME StorageInv, NEW t \in Threads, RequestCancels(t)
  PROVE  Kept
<1> DEFINE q == [req[t] EXCEPT !.at = IF mem[req[t].s] = NoState THEN "settle" ELSE "invalidate"]
<1>0. Types /\ req[t].at = "cancel" /\ op[req[t].s].kind # "open"
  BY DEF StorageInv, SessionInv, RequestCancels
<1>1. req[t] \in ReqStates /\ req[t].s \in Sessions
  BY <1>0, RequestTyped
<1>2. /\ q \in ReqStates /\ q.s = req[t].s /\ q.at \in {"settle", "invalidate"}
      /\ q.at = "invalidate" => mem[req[t].s] # NoState
  BY <1>1 DEF ReqStates
<1>3. req' = [req EXCEPT ![t] = q] /\ op' = op /\ mem' = mem
  BY <1>0 DEF RequestCancels, Types
<1> HIDE DEF q
<1>4. RequestsOK
  BY <1>0, <1>1, <1>2, <1>3, RequestGoesOn
<1>5. RunsOK
  BY <1>0, LiveCancelled, RunsKept DEF RequestCancels
<1>6. Payload /\ CallersOK
  BY <1>4, <1>5, Bystanders DEF RequestCancels, CallersOK, disk
<1> QED
  BY <1>6, NoneWritten DEF RequestCancels, disk, history

LEMMA RequestInvalidatesKeeps ==
  ASSUME StorageInv, NEW t \in Threads, RequestInvalidates(t)
  PROVE  Kept
<1> DEFINE q == IF req[t].kind = "redo" THEN [req[t] EXCEPT !.at = "open"] ELSE NoReq
<1>0. Types /\ req[t].at \in {"invalidate", "settle"}
  BY DEF StorageInv, SessionInv, RequestInvalidates
<1>1. req[t] \in ReqStates /\ req[t].s \in Sessions
  BY <1>0, RequestTyped
<1>2. /\ q \in ReqStates
      /\ (q.s = 0 /\ q.at = "none") \/ (q.s = req[t].s /\ q.at = "open")
  BY <1>1, TorrentStorageAssumption DEF ReqStates, NoReq
<1>3. req' = [req EXCEPT ![t] = q] /\ op' = op
  BY <1>0 DEF RequestInvalidates, SetReq
<1> HIDE DEF q
<1>4. RequestsOK
  BY <1>0, <1>1, <1>2, <1>3, RequestGoesOn
<1>5. TaskOK
  BY <1>0 DEF RequestInvalidates, TaskOK, TaskMoves, Types
<1>6. Payload /\ CallersOK
  BY <1>4, <1>5, Bystanders DEF RequestInvalidates, CallersOK
<1>7. CASE req[t].at = "settle"
  BY <1>3, <1>6, <1>7, NoneWritten DEF RequestInvalidates
<1>8. CASE req[t].at = "invalidate"
  <2>1. PICK s \in Sessions : s = req[t].s
    BY <1>1
  <2> DEFINE m == [mem[s] EXCEPT !.gen = 0]
  <2>2. op[s] = Idle /\ mem[s] # NoState /\ mem[s] \in Checkpoints
    BY <1>0, <1>8, <2>1 DEF StorageInv, SessionInv, InHand, Types, RequestInvalidates, Free
  <2>3. m \in Checkpoints /\ m.sel = mem[s].sel /\ m.owned = mem[s].owned /\ m.gen = 0
    <3>1. 0 \in 0 .. MaxRuns
      BY TorrentStorageAssumption
    <3> QED
      BY <2>2, <3>1 DEF Checkpoints
  <2>4. mem' = [mem EXCEPT ![s] = m] /\ ckpt' = m /\ quiet' = quiet \cup {s}
    BY <1>8, <2>1 DEF RequestInvalidates, Save
  <2> HIDE DEF m
  <2> QED
    BY <1>3, <1>6, <2>2, <2>3, <2>4, SessionSaved
<1> QED
  BY <1>0, <1>7, <1>8

LEMMA RequestSelectsKeeps ==
  ASSUME StorageInv, NEW t \in Threads, RequestSelects(t)
  PROVE  Kept
<1> DEFINE q == [req[t] EXCEPT !.at = "act"]
<1>0. /\ Types /\ req[t].at = "open" /\ mem[req[t].s] # NoState /\ op[req[t].s] = Idle
      /\ UNCHANGED <<op, mem>>
  BY DEF StorageInv, SessionInv, RequestSelects, Opened, Free
<1>1. req[t] \in ReqStates /\ req[t].s \in Sessions
  BY <1>0, RequestTyped
<1>2. q \in ReqStates /\ q.s = req[t].s /\ q.at = "act"
  BY <1>1 DEF ReqStates
<1>3. req' = [req EXCEPT ![t] = q]
  BY <1>0 DEF RequestSelects, Types
<1> HIDE DEF q
<1>4. RequestsOK
  <2>1. mem'[req[t].s] # NoState /\ op'[req[t].s].kind # "open"
    BY <1>0 DEF Idle
  <2> QED
    BY <1>0, <1>1, <1>2, <1>3, <2>1, RequestGoesOn
<1>5. RunsOK
  BY <1>0, LiveCancelled, RunsKept DEF RequestSelects
<1>6. Payload /\ CallersOK
  BY <1>4, <1>5, Bystanders DEF RequestSelects, CallersOK, disk
<1> QED
  BY <1>6, NoneWritten DEF RequestSelects, disk, history

LEMMA SelectStartsKeeps ==
  ASSUME StorageInv, NEW t \in Threads, SelectStarts(t)
  PROVE  Kept
<1>0. Types /\ req[t].at = "act" /\ op[req[t].s] = Idle
  BY DEF StorageInv, SessionInv, SelectStarts, Free
<1>1. PICK s \in Sessions : s = req[t].s
  BY <1>0, RequestTyped
<1> DEFINE o == Prepare("select", <<"req", t>>, req[t].sel)
<1>2. /\ req[t].sel \subseteq Files /\ s <= used.sessions /\ mem[s] # NoState /\ mem[s] \in Checkpoints
      /\ UserFree(s) /\ Still(s) /\ op[s] = Idle
  BY <1>0, <1>1, RequestTyped
     DEF ReqStates, StorageInv, SessionInv, InHand, Types, UserInv, QuietInv
<1>3. /\ o \in Operations /\ o.kind = "select" /\ o.who = <<"req", t>> /\ o.sel = req[t].sel
      /\ o.todo = req[t].sel /\ o.made = 0 /\ o # Idle
  BY <1>2 DEF Operations, Kinds, Loading, Making, Idle, Prepare, Whos
<1>4. op' = [op EXCEPT ![s] = o] /\ mem' = [mem EXCEPT ![s] = mem[s]]
  BY <1>0, <1>1 DEF SelectStarts, Types
<1> HIDE DEF o
<1>5. op'[s] = o /\ mem'[s] = mem[s] /\ req' = req /\ used' = used
  BY <1>0, <1>4 DEF Types, SelectStarts
<1>6. Payload /\ CallersOK /\ ckpt' = ckpt /\ quiet' = quiet
  BY Bystanders DEF SelectStarts, CallersOK, disk, history
<1>7. UserFree(s)'
  <2>1. 0 \notin User
    BY TorrentStorageAssumption DEF User
  <2> QED
    BY <1>2, <1>3, <1>5, <1>6, <2>1 DEF UserFree, Payload, Idle, Loading, Making
<1>8. Still(s)'
  BY <1>2, <1>3, <1>5, <1>6 DEF Still, Idle, Loading, Making
<1>9. Starts(s)
  BY <1>0, <1>1, <1>2, <1>3, <1>5 DEF Starts, WaitsAt, Making
<1> QED
  BY <1>2, <1>3, <1>4, <1>6, <1>7, <1>8, <1>9, SessionWritten

LEMMA DeleteStartsKeeps ==
  ASSUME StorageInv, NEW t \in Threads, DeleteStarts(t)
  PROVE  Kept
<1>0. Types /\ req[t].at = "open" /\ op[req[t].s] = Idle /\ mem[req[t].s] # NoState
  BY DEF StorageInv, SessionInv, DeleteStarts, Opened, Free
<1>1. PICK s \in Sessions : s = req[t].s
  BY <1>0, RequestTyped
<1> DEFINE o == [Prepare("delete", <<"req", t>>, {}) EXCEPT !.todo = mem[s].owned]
           q == [req[t] EXCEPT !.at = "act", !.sel = mem[s].sel]
<1>2. /\ req[t] \in ReqStates /\ s <= used.sessions /\ mem[s] # NoState /\ mem[s] \in Checkpoints
      /\ UserFree(s) /\ Still(s) /\ op[s] = Idle
  BY <1>0, <1>1, RequestTyped DEF StorageInv, SessionInv, Types, UserInv, QuietInv
<1>3. /\ o \in Operations /\ o.kind = "delete" /\ o.who = <<"req", t>>
      /\ o.todo = mem[s].owned /\ o # Idle
  BY <1>2 DEF Operations, Kinds, Loading, Making, Idle, Prepare, Whos, Checkpoints
<1>4. q \in ReqStates /\ q.s = s /\ q.at = "act"
  BY <1>1, <1>2 DEF ReqStates, Checkpoints
<1>5. /\ op' = [op EXCEPT ![s] = o] /\ mem' = [mem EXCEPT ![s] = mem[s]]
      /\ req' = [req EXCEPT ![t] = q]
  BY <1>0, <1>1 DEF DeleteStarts, Types
<1> HIDE DEF o, q
<1>6. op'[s] = o /\ mem'[s] = mem[s] /\ req'[t] = q /\ used' = used
  BY <1>0, <1>5 DEF Types, DeleteStarts
<1>7. RequestsOK
  <2>1. mem'[req[t].s] # NoState /\ op'[req[t].s].kind # "open"
    BY <1>1, <1>2, <1>3, <1>6
  <2> QED
    BY <1>0, <1>1, <1>4, <1>5, <2>1, RequestGoesOn
<1>8. Payload /\ CallersOK /\ ckpt' = ckpt /\ quiet' = quiet
  BY <1>7, Bystanders DEF DeleteStarts, CallersOK, disk, history
<1>9. UserFree(s)'
  BY <1>2, <1>3, <1>6, <1>8 DEF UserFree, Payload, Idle, Loading, Making
<1>10. Still(s)'
  BY <1>2, <1>3, <1>6, <1>8 DEF Still, Idle, Loading, Making
<1>11. Starts(s)
  BY <1>2, <1>3, <1>4, <1>6 DEF Starts, WaitsAt, Making
<1> QED
  BY <1>2, <1>3, <1>5, <1>8, <1>9, <1>10, <1>11, SessionWritten

LEMMA RequestRemovesStateKeeps ==
  ASSUME StorageInv, NEW t \in Threads, RequestRemovesState(t)
  PROVE  Kept
<1> DEFINE q == [req[t] EXCEPT !.at = "gone"]
<1>0. Types /\ req[t].at = "open" /\ op[req[t].s] = Idle
  BY DEF StorageInv, SessionInv, RequestRemovesState, Opened, Free
<1>1. req[t] \in ReqStates /\ req[t].s \in Sessions
  BY <1>0, RequestTyped
<1>2. q \in ReqStates /\ q.s = req[t].s /\ q.at = "gone"
  BY <1>1 DEF ReqStates
<1>3. req' = [req EXCEPT ![t] = q]
  BY <1>0 DEF RequestRemovesState, Types
<1> HIDE DEF q
<1>4. RequestsOK
  BY <1>0, <1>1, <1>2, <1>3, RequestGoesOn
<1>5. Payload /\ CallersOK
  BY <1>4, Bystanders DEF RequestRemovesState, CallersOK
<1> QED
  BY <1>5, NoneWritten DEF RequestRemovesState, RemoveControl, history

LEMMA RequestForgetsKeeps ==
  ASSUME StorageInv, NEW t \in Threads, RequestForgets(t)
  PROVE  Kept
<1>0. /\ Types
      /\ req[t].at = "gone" \/ (req[t].at = "open" /\ op[req[t].s] = Idle)
      /\ req' = [req EXCEPT ![t] = NoReq]
  BY DEF StorageInv, SessionInv, RequestForgets, Free, SetReq
<1>1. RequestsOK
  <2>1. req[t].s \in Sessions
    BY <1>0, RequestTyped
  <2> QED
    BY <1>0, <2>1, RequestEnds
<1>2. TaskOK
  BY TorrentStorageAssumption DEF RequestForgets, TaskOK, TaskMoves
<1>3. Payload /\ CallersOK
  BY <1>1, <1>2, Bystanders DEF RequestForgets, CallersOK, disk
<1> QED
  BY <1>3, NoneWritten DEF RequestForgets, disk, history

LEMMA RequestInstallsKeeps ==
  ASSUME StorageInv, NEW t \in Threads, RequestInstalls(t)
  PROVE  Kept
<1>0. Types /\ req[t].at = "install" /\ req' = [req EXCEPT ![t] = NoReq]
  BY DEF StorageInv, SessionInv, RequestInstalls, SetReq
<1>1. RequestsOK
  BY <1>0, RequestEnds
<1>2. TaskOK
  <2>1. CASE UNCHANGED task
    BY <2>1, Bystanders
  <2>2. CASE job' = "idle" /\ slot' = req[t].s /\ cur' = 0
    <3>1. slot' \in 0 .. MaxSessions /\ cur' \in 0 .. MaxRuns
      BY <1>0, <2>2, RequestTyped, TorrentStorageAssumption DEF ReqStates
    <3> QED
      BY <1>0, <2>2, <3>1 DEF TaskOK, TaskMoves, Installs
  <2> QED
    BY <2>1, <2>2 DEF RequestInstalls
<1>3. Payload /\ CallersOK
  BY <1>1, <1>2, Bystanders DEF RequestInstalls, CallersOK, disk
<1> QED
  BY <1>3, NoneWritten DEF RequestInstalls, disk, history

\* A recheck only drops bits.
LEMMA RecheckSaves ==
  ASSUME StorageInv, NEW s \in Sessions, mem[s] # NoState, Recheck(s)
  PROVE  \E m \in Checkpoints :
           /\ m.sel = mem[s].sel /\ m.owned = mem[s].owned /\ m.gen = mem[s].gen
           /\ mem' = [mem EXCEPT ![s] = m]
           /\ ckpt' = ckpt \/ ckpt' = m
<1> DEFINE ok == Recheckable(mem[s])
           n == [mem[s] EXCEPT !.verified = ok,
                               !.cached = {p \in ok : IsBoundary(p, mem[s].sel)}]
<1>1. mem[s] \in Checkpoints
  BY DEF StorageInv, SessionInv, Types
<1>2. ok \subseteq Pieces
  BY <1>1 DEF Recheckable, Checkpoints
<1>3. mem' = [mem EXCEPT ![s] = n] /\ (ckpt' = ckpt \/ ckpt' = n)
  BY DEF Recheck
<1> HIDE DEF ok
<1>4. n \in Checkpoints /\ n.sel = mem[s].sel /\ n.owned = mem[s].owned /\ n.gen = mem[s].gen
  BY <1>1, <1>2 DEF Checkpoints
<1> HIDE DEF n
<1> QED
  BY <1>3, <1>4

LEMMA RequestVerifiesKeeps ==
  ASSUME StorageInv, NEW t \in Threads, RequestVerifies(t)
  PROVE  Kept
<1>0. /\ Types /\ req[t].at = "open" /\ mem[req[t].s] # NoState /\ op[req[t].s] = Idle
      /\ UNCHANGED <<op, quiet>> /\ Recheck(req[t].s) /\ req' = [req EXCEPT ![t] = NoReq]
  BY DEF StorageInv, SessionInv, RequestVerifies, Opened, Free, SetReq, history
<1>1. PICK s \in Sessions : s = req[t].s
  BY <1>0, RequestTyped
<1>2. PICK m \in Checkpoints :
        /\ m.sel = mem[s].sel /\ m.owned = mem[s].owned /\ m.gen = mem[s].gen
        /\ mem' = [mem EXCEPT ![s] = m]
        /\ ckpt' = ckpt \/ ckpt' = m
  BY <1>0, <1>1, RecheckSaves
<1>3. RequestsOK
  BY <1>0, <1>1, RequestEnds
<1>4. TaskOK
  BY <1>0 DEF RequestVerifies, TaskOK, TaskMoves, Types
<1>5. Payload /\ CallersOK
  BY <1>3, <1>4, Bystanders DEF RequestVerifies, CallersOK
<1>6. s \in quiet' => m.gen = 0
  BY <1>0, <1>2 DEF StorageInv, QuietInv, Still
<1> QED
  BY <1>0, <1>1, <1>2, <1>5, <1>6, SessionSaved

LEMMA RequestStepKeeps ==
  ASSUME StorageInv, NEW t \in Threads, RequestStep(t)
  PROVE  Kept
BY AskCreateKeeps, AskSelectKeeps, AskPauseKeeps, AskRedownloadKeeps, AskDeleteKeeps,
   RequestCancelsKeeps, RequestInvalidatesKeeps, RequestSelectsKeeps, SelectStartsKeeps,
   DeleteStartsKeeps, RequestRemovesStateKeeps, RequestForgetsKeeps, RequestCreatesKeeps,
   RequestInstallsKeeps, RequestVerifiesKeeps
   DEF RequestStep

----------------------------------------------------------------------------
\* The session of a run under way.
LEMMA RunTyped ==
  ASSUME StorageInv, NEW r \in Runs, run[r].at # "over"
  PROVE  /\ run[r] \in RunStates /\ run[r].s \in Sessions
         /\ run[r].at \in Leasing =>
              mem[run[r].s] \in Checkpoints /\ mem[run[r].s] # NoState
<1>1. run[r] \in RunStates /\ run[r].s \in Sessions
  BY DEF StorageInv, SessionInv, Types, Named
<1> QED
  BY <1>1 DEF StorageInv, SessionInv, Types, InHand

LEMMA RunRechecksKeeps ==
  ASSUME StorageInv, NEW r \in Runs, RunRechecks(r)
  PROVE  Kept
<1>0. /\ Types /\ run[r].at = "open" /\ mem[run[r].s] # NoState /\ op[run[r].s] = Idle
      /\ UNCHANGED <<op, quiet>> /\ Recheck(run[r].s)
  BY DEF StorageInv, SessionInv, RunRechecks, Opened, Free
<1>1. PICK s \in Sessions : s = run[r].s
  BY <1>0, RunTyped
<1>2. PICK m \in Checkpoints :
        /\ m.sel = mem[s].sel /\ m.owned = mem[s].owned /\ m.gen = mem[s].gen
        /\ mem' = [mem EXCEPT ![s] = m]
        /\ ckpt' = ckpt \/ ckpt' = m
  BY <1>0, <1>1, RecheckSaves
<1>3. RunsOK /\ TaskOK
  <2>1. CASE RunOver(r)
    BY <1>0, <2>1, RunEnds
  <2>2. CASE run' = [run EXCEPT ![r].at = "lease"] /\ UNCHANGED task
    <3> DEFINE n == [run[r] EXCEPT !.at = "lease"]
    <3>1. n \in RunStates /\ n.s = run[r].s /\ n.at = "lease"
      BY <1>0 DEF Types, RunStates, Places
    <3>2. run' = [run EXCEPT ![r] = n]
      BY <1>0, <2>2 DEF Types
    <3> HIDE DEF n
    <3>3. run' \in [Runs -> RunStates] /\ run'[r] = n /\ \A x \in Runs \ {r} : run'[x] = run[x]
      BY <1>0, <3>1, <3>2 DEF Types
    <3>4. RunMove(r)
      BY <1>0, <3>1, <3>3 DEF RunMove, Opened, Free
    <3>5. \A x \in Runs \ {r} : RunMove(x)
      BY <3>3 DEF RunMove, Leasing
    <3> QED
      BY <2>2, <3>3, <3>4, <3>5, Bystanders DEF RunsOK
  <2> QED
    BY <2>1, <2>2 DEF RunRechecks
<1>4. Payload /\ CallersOK
  BY <1>3, Bystanders DEF RunRechecks, CallersOK
<1>5. s \in quiet' => m.gen = 0
  BY <1>0, <1>2 DEF StorageInv, QuietInv, Still
<1> QED
  BY <1>0, <1>1, <1>2, <1>4, <1>5, SessionSaved

LEMMA RunLeasesKeeps ==
  ASSUME StorageInv, NEW r \in Runs, RunLeases(r)
  PROVE  Kept
<1>0. Types /\ run[r].at = "lease" /\ op[run[r].s] = Idle /\ op' = op
  BY DEF StorageInv, SessionInv, RunLeases, Free
<1>1. PICK s \in Sessions : s = run[r].s
  BY <1>0, RunTyped
<1> DEFINE todo == {p \in Pieces : IsSelected(p, mem[s].sel) /\ p \notin mem[s].verified}
           m == [mem[s] EXCEPT !.gen = r]
           c == CancelLive(s)
           n == [c[r] EXCEPT !.at = IF todo = {} THEN "finalize" ELSE "drive",
                             !.todo = todo, !.cancelled = FALSE]
<1>2. mem[s] \in Checkpoints /\ mem[s] # NoState
  BY <1>0, <1>1, RunTyped DEF Leasing
<1>3. m \in Checkpoints /\ m.sel = mem[s].sel /\ m.owned = mem[s].owned
  <2>1. r \in 0 .. MaxRuns
    BY TorrentStorageAssumption DEF Runs
  <2> QED
    BY <1>2, <2>1 DEF Checkpoints
<1>4. /\ c \in [Runs -> RunStates]
      /\ \A x \in Runs : c[x].s = run[x].s /\ c[x].at = run[x].at
  BY <1>0, LiveCancelled
<1>5. /\ mem' = [mem EXCEPT ![s] = m] /\ ckpt' = m /\ quiet' = quiet \ {s}
      /\ run' = [CancelLive(s) EXCEPT
                   ![r].at = IF todo = {} THEN "finalize" ELSE "drive",
                   ![r].todo = todo, ![r].cancelled = FALSE]
  BY <1>1 DEF RunLeases, Save
<1> HIDE DEF c, m, todo
<1>6. run' = [c EXCEPT ![r] = n]
  BY <1>4, <1>5 DEF c
<1>7. n \in RunStates /\ n.s = run[r].s /\ n.at \in {"finalize", "drive"}
  <2>1. todo \subseteq Pieces
    BY DEF todo
  <2> QED
    BY <1>4, <2>1 DEF RunStates, Places
<1> HIDE DEF n
<1>8. RunsOK
  <2>1. run' \in [Runs -> RunStates] /\ run'[r] = n /\ \A x \in Runs \ {r} : run'[x] = c[x]
    BY <1>4, <1>6, <1>7
  <2>2. RunMove(r)
    BY <1>0, <1>7, <2>1 DEF RunMove, Leasing
  <2>3. \A x \in Runs \ {r} : RunMove(x)
    BY <1>4, <2>1 DEF RunMove, Leasing
  <2> QED
    BY <2>1, <2>2, <2>3 DEF RunsOK
<1>9. Payload /\ CallersOK
  BY <1>8, Bystanders DEF RunLeases, CallersOK
<1> QED
  BY <1>0, <1>1, <1>2, <1>3, <1>5, <1>9, SessionSaved

LEMMA RunStopsKeeps ==
  ASSUME StorageInv, NEW r \in Runs, RunStops(r)
  PROVE  Kept
<1>1. RunsOK
  BY DriverStopped DEF RunStops, StorageInv, SessionInv
<1>2. Payload /\ CallersOK
  BY <1>1, Bystanders DEF RunStops, CallersOK, disk
<1> QED
  BY <1>2, NoneWritten DEF RunStops, disk, history

LEMMA RunInvalidatesKeeps ==
  ASSUME StorageInv, NEW r \in Runs, RunInvalidates(r)
  PROVE  Kept
<1>0. Types /\ run[r].at = "stop" /\ op[run[r].s] = Idle /\ op' = op
  BY DEF StorageInv, SessionInv, RunInvalidates, Free
<1>1. PICK s \in Sessions : s = run[r].s
  BY <1>0, RunTyped
<1> DEFINE m == [mem[s] EXCEPT !.gen = 0]
<1>2. mem[s] \in Checkpoints /\ mem[s] # NoState
  BY <1>0, <1>1, RunTyped DEF Leasing
<1>3. m \in Checkpoints /\ m.sel = mem[s].sel /\ m.owned = mem[s].owned /\ m.gen = 0
  <2>1. 0 \in 0 .. MaxRuns
    BY TorrentStorageAssumption
  <2> QED
    BY <1>2, <2>1 DEF Checkpoints
<1>4. mem' = [mem EXCEPT ![s] = m] /\ ckpt' = m /\ quiet' = quiet
  BY <1>1 DEF RunInvalidates, Save, history
<1>5. RunsOK /\ TaskOK
  BY <1>0, RunEnds DEF RunInvalidates
<1>6. Payload /\ CallersOK
  BY <1>5, Bystanders DEF RunInvalidates, CallersOK
<1> HIDE DEF m
<1> QED
  BY <1>0, <1>1, <1>2, <1>3, <1>4, <1>6, SessionSaved

LEMMA RunCancelledKeeps ==
  ASSUME StorageInv, NEW r \in Runs, RunCancelled(r)
  PROVE  Kept
<1>1. RunsOK /\ TaskOK
  BY RunEnds DEF RunCancelled, StorageInv, SessionInv
<1>2. Payload /\ CallersOK
  BY <1>1, Bystanders DEF RunCancelled, CallersOK, disk
<1> QED
  BY <1>2, NoneWritten DEF RunCancelled, disk, history

\* The finalize of a run and the completion of its task write no session.
LEMMA RunFinalizesKeeps ==
  ASSUME StorageInv, NEW r \in Runs, RunFinalizes(r)
  PROVE  Kept
<1>0. Types /\ run[r].at = "finalize"
  BY DEF StorageInv, SessionInv, RunFinalizes
<1>1. RunsOK /\ TaskOK
  <2>1. CASE RunOver(r)
    BY <1>0, <2>1, RunEnds
  <2>2. CASE run' = [run EXCEPT ![r].at = "close"] /\ UNCHANGED task
    <3> DEFINE n == [run[r] EXCEPT !.at = "close"]
    <3>1. n \in RunStates /\ n.s = run[r].s /\ n.at = "close"
      BY <1>0 DEF Types, RunStates, Places
    <3>2. run' = [run EXCEPT ![r] = n]
      BY <1>0, <2>2 DEF Types, RunStates
    <3> HIDE DEF n
    <3>3. run' \in [Runs -> RunStates] /\ run'[r] = n /\ \A x \in Runs \ {r} : run'[x] = run[x]
      BY <1>0, <3>1, <3>2 DEF Types
    <3>4. RunsOK
      BY <1>0, <3>1, <3>3 DEF RunsOK, RunMove, Leasing
    <3> QED
      BY <1>0, <2>2, <3>4 DEF TaskOK, TaskMoves, Types, task
  <2> QED
    BY <2>1, <2>2 DEF RunFinalizes
<1>2. Payload /\ CallersOK
  BY <1>1, Bystanders DEF RunFinalizes, CallersOK, disk
<1> QED
  BY <1>2, NoneWritten DEF RunFinalizes, disk, history

LEMMA RunCompletesKeeps ==
  ASSUME StorageInv, NEW r \in Runs, RunCompletes(r)
  PROVE  Kept
<1>0. Types
  BY DEF StorageInv, SessionInv
<1>1. RunsOK /\ TaskOK
  <2>1. CASE RunOver(r)
    BY <1>0, <2>1, RunEnds
  <2>2. CASE /\ job = "active" /\ job' = "done" /\ run' = [run EXCEPT ![r] = NoRun]
             /\ UNCHANGED <<slot, cur>>
    <3>1. NoRun \in RunStates /\ NoRun.s = 0 /\ NoRun.at = "over"
      BY TorrentStorageAssumption DEF NoRun, RunStates, Places
    <3>2. run' \in [Runs -> RunStates] /\ run'[r] = NoRun /\ \A x \in Runs \ {r} : run'[x] = run[x]
      BY <1>0, <2>2, <3>1 DEF Types
    <3>3. RunsOK
      BY <3>1, <3>2 DEF RunsOK, RunMove, Leasing
    <3> QED
      BY <1>0, <2>2, <3>3 DEF TaskOK, TaskMoves, Types
  <2> QED
    BY <2>1, <2>2 DEF RunCompletes
<1>2. Payload /\ CallersOK
  BY <1>1, Bystanders DEF RunCompletes, CallersOK, disk
<1> QED
  BY <1>2, NoneWritten DEF RunCompletes, disk, history

\* A commit starts only under the lease's own generation: the session is not quiet.
LEMMA CommitStartsKeeps ==
  ASSUME StorageInv, NEW r \in Runs, NEW p \in Pieces, CommitStarts(r, p)
  PROVE  Kept
<1>0. /\ Types /\ run[r].at = "drive" /\ op[run[r].s] = Idle /\ mem[run[r].s].gen = r
      /\ UNCHANGED <<mem, req, used>>
  BY DEF StorageInv, SessionInv, CommitStarts, Free, Current
<1>1. PICK s \in Sessions : s = run[r].s
  BY <1>0, RunTyped
<1> DEFINE o == [kind |-> "commit", who |-> <<"run", r>>, sel |-> {p}, made |-> 0,
                 todo |-> SelectedPart(p, mem[s].sel)]
<1>2. mem[s] \in Checkpoints /\ mem[s] # NoState /\ UserFree(s) /\ Still(s)
  BY <1>0, <1>1, RunTyped DEF Leasing, StorageInv, UserInv, QuietInv
<1>3. s \notin quiet
  BY <1>0, <1>1, <1>2 DEF Still, Runs
<1>4. SelectedPart(p, mem[s].sel) \subseteq mem[s].sel /\ mem[s].sel \subseteq Files
  BY <1>2 DEF SelectedPart, Checkpoints
<1>5. /\ o \in Operations /\ o.kind = "commit" /\ o.who = <<"run", r>>
      /\ o.todo \subseteq mem[s].sel /\ o # Idle
  BY <1>4 DEF Operations, Idle
<1>6. op' = [op EXCEPT ![s] = o] /\ mem' = [mem EXCEPT ![s] = mem[s]]
  BY <1>0, <1>1 DEF CommitStarts, Types
<1> HIDE DEF o
<1>7. op'[s] = o /\ mem'[s] = mem[s]
  BY <1>0, <1>6 DEF Types
<1>8. Payload /\ CallersOK /\ ckpt' = ckpt /\ quiet' = quiet
  BY Bystanders DEF CommitStarts, CallersOK, disk, history
<1>9. UserFree(s)'
  BY <1>0, <1>1, <1>2, <1>5, <1>7, <1>8 DEF UserFree, Payload, Idle, Loading, Making
<1>10. Still(s)'
  BY <1>3, <1>8 DEF Still
<1>11. Starts(s)
  <2>1. s <= used'.sessions
    BY <1>0, <1>1 DEF StorageInv, SessionInv, Fresh
  <2> QED
    BY <1>0, <1>1, <1>2, <1>5, <1>7, <2>1 DEF Starts, Making
<1> QED
  BY <1>2, <1>5, <1>6, <1>8, <1>9, <1>10, <1>11, SessionWritten

LEMMA RunStepKeeps ==
  ASSUME StorageInv, NEW r \in Runs, RunStep(r)
  PROVE  Kept
BY RunRechecksKeeps, RunLeasesKeeps, RunStopsKeeps, RunInvalidatesKeeps, RunCancelledKeeps,
   RunFinalizesKeeps, RunCompletesKeeps, CommitStartsKeeps
   DEF RunStep

LEMMA StartRunKeeps ==
  ASSUME StorageInv, StartRun
  PROVE  Kept
<1> DEFINE c == StopCurrent
<1>0. /\ Types /\ used.runs \in Nat /\ MaxRuns \in Nat /\ used.sessions \in Nat
      /\ used.sessions <= MaxSessions
  BY TorrentStorageAssumption DEF StorageInv, SessionInv, Types
<1>1. PICK n \in Runs : n = used.runs + 1
  BY <1>0 DEF StartRun, Runs
<1>2. c \in [Runs -> RunStates] /\ \A x \in Runs : c[x].s = run[x].s /\ c[x].at = run[x].at
  BY <1>0, CurrentStopped
<1> DEFINE v == [c[n] EXCEPT !.at = "open", !.s = slot]
<1> HIDE DEF c
<1>3. run' = [c EXCEPT ![n] = v]
  BY <1>1, <1>2 DEF StartRun, c
<1>4. v \in RunStates /\ v.at = "open" /\ v.s = slot
  <2>1. c[n] \in RunStates /\ slot \in 0 .. MaxSessions
    BY <1>0, <1>2 DEF Types
  <2> QED
    BY <2>1 DEF RunStates, Places
<1> HIDE DEF v
<1>5. RunsOK
  <2>1. run' \in [Runs -> RunStates] /\ run'[n] = v /\ \A x \in Runs \ {n} : run'[x] = c[x]
    BY <1>2, <1>3, <1>4
  <2>2. RunMove(n)
    BY <1>4, <2>1 DEF RunMove, StartRun
  <2>3. \A x \in Runs \ {n} : RunMove(x)
    BY <1>2, <2>1 DEF RunMove, Leasing
  <2> QED
    BY <2>1, <2>2, <2>3 DEF RunsOK
<1>6. TaskOK
  <2>1. cur' \in 0 .. MaxRuns
    BY <1>0, <1>1 DEF StartRun, Runs
  <2> QED
    BY <1>0, <2>1 DEF StartRun, TaskOK, TaskMoves, Types
<1>7. CountersOK
  BY <1>0 DEF StartRun, Spend, Types, CountersOK
<1>8. Payload /\ CallersOK
  BY <1>5, <1>6, <1>7, Bystanders DEF StartRun, CallersOK, disk
<1> QED
  BY <1>8, NoneWritten DEF StartRun, disk, history

LEMMA ReadBlockKeeps ==
  ASSUME StorageInv, NEW p \in Pieces, ReadBlock(p)
  PROVE  Kept
<1>0. Types /\ op[slot] = Idle /\ mem[slot] # NoState /\ UNCHANGED <<op, quiet>>
  BY DEF StorageInv, SessionInv, ReadBlock, Opened, Free, history
<1>1. PICK s \in Sessions : s = slot
  BY DEF StorageInv, SessionInv, Named, ReadBlock
<1> DEFINE m == [mem[s] EXCEPT !.verified = @ \ {p}, !.cached = @ \ {p}]
<1>2. mem[s] \in Checkpoints
  BY <1>0, <1>1 DEF Types
<1>3. m \in Checkpoints /\ m.sel = mem[s].sel /\ m.owned = mem[s].owned /\ m.gen = mem[s].gen
  BY <1>2 DEF Checkpoints
<1>4. mem' = [mem EXCEPT ![s] = m] /\ ckpt' = m
  BY <1>1 DEF ReadBlock, Save
<1>5. Payload /\ CallersOK
  BY Bystanders DEF ReadBlock, CallersOK
<1>6. s \in quiet' => m.gen = 0
  BY <1>0, <1>3 DEF StorageInv, QuietInv, Still
<1> HIDE DEF m
<1> QED
  BY <1>0, <1>1, <1>3, <1>4, <1>5, <1>6, SessionSaved

\* A crash forgets every session, run and request; the checkpoint stays.
LEMMA CrashKeeps ==
  ASSUME StorageInv, Crash
  PROVE  StorageInv' /\ User' = User
<1>0. /\ Types /\ UserInv /\ used.sessions \in Nat /\ MaxSessions \in Nat /\ MaxRuns \in Nat
      /\ used.sessions < MaxSessions /\ Sessions = 1 .. MaxSessions
  BY TorrentStorageAssumption DEF StorageInv, SessionInv, Types, Crash, Sessions
<1>1. /\ \A s \in Sessions : mem'[s] = NoState /\ op'[s] = Idle
      /\ \A r \in Runs : run'[r] = NoRun
      /\ job' # "none" => slot' = used.sessions + 1
      /\ slot' = 0 \/ slot' = used.sessions + 1
      /\ cur' = 0 /\ quiet' = {} /\ UNCHANGED <<file, good, ckpt>>
      /\ used'.sessions = used.sessions + 1
  BY <1>0 DEF Crash, disk, Types
<1> DEFINE again == [NoReq EXCEPT !.kind = "verify", !.at = "open", !.s = used.sessions + 1]
<1>2. \A t \in Threads : req'[t] = again \/ req'[t] = NoReq
  BY DEF Crash
<1>3. /\ NoReq \in ReqStates /\ NoReq.s = 0 /\ NoReq.at = "none"
      /\ again \in ReqStates /\ again.s = used.sessions + 1 /\ again.at = "open"
      /\ NoRun \in RunStates /\ NoRun.s = 0 /\ NoRun.at = "over"
  <2>1. 0 \in 0 .. MaxSessions /\ used.sessions + 1 \in 0 .. MaxSessions /\ 0 \in 0 .. MaxRuns
    BY <1>0
  <2> QED
    BY <2>1 DEF NoReq, ReqStates, NoRun, RunStates, Places
<1> HIDE DEF again
<1>4. Types'
  <2>1. /\ mem' \in [Sessions -> Checkpoints \cup {NoState}]
        /\ op' \in [Sessions -> Operations \cup {Idle}]
    BY DEF Crash
  <2>2. run' \in [Runs -> RunStates]
    BY <1>3 DEF Crash
  <2>3. req' \in [Threads -> ReqStates]
    <3>1. PICK first \in Threads :
            req' = [t \in Threads |->
                      IF t = first /\ job = "done"
                      THEN [NoReq EXCEPT !.kind = "verify", !.at = "open",
                                         !.s = used.sessions + 1]
                      ELSE NoReq]
      BY DEF Crash
    <3> QED
      BY <1>2, <1>3, <3>1
  <2>4. used' \in [sessions : Nat, runs : Nat, requests : Nat, crashes : Nat]
    <3>1. used' = [used EXCEPT !.crashes = @ + 1, !.sessions = @ + 1]
      BY DEF Crash
    <3>2. used \in [sessions : Nat, runs : Nat, requests : Nat, crashes : Nat]
      BY <1>0 DEF Types
    <3> DEFINE u == [used EXCEPT !.crashes = @ + 1]
    <3>3. /\ u \in [sessions : Nat, runs : Nat, requests : Nat, crashes : Nat]
          /\ used' = [u EXCEPT !.sessions = u.sessions + 1]
      BY <3>1, <3>2
    <3> HIDE DEF u
    <3> QED
      BY <3>3
  <2>5. slot' \in 0 .. MaxSessions /\ cur' \in 0 .. MaxRuns /\ used'.sessions <= MaxSessions
    BY <1>0, <1>1
  <2> QED
    BY <1>0, <1>1, <2>1, <2>2, <2>3, <2>4, <2>5 DEF Types
<1>5. Fresh'
  BY <1>0, <1>1, <1>2, <1>3 DEF Fresh
<1>6. Named'
  BY <1>0, <1>1, <1>2, <1>3 DEF Named
<1>7. InHand'
  <2>1. \A r \in Runs : run'[r].at \notin Leasing
    BY <1>1, <1>3 DEF Leasing
  <2>2. \A t \in Threads : req'[t].at \notin {"invalidate", "act"}
    BY <1>2, <1>3
  <2> QED
    BY <1>1, <2>1, <2>2 DEF InHand
<1>8. Private' /\ Asked'
  BY <1>1 DEF Private, Asked, Idle, Making
<1>9. User' = User
  BY <1>1 DEF User
<1>10. UserInv' /\ QuietInv'
  <2>1. \A s \in Sessions : UserFree(s)'
    BY <1>1 DEF UserFree, Idle, Loading, Making
  <2> QED
    BY <1>0, <1>1, <1>9, <2>1 DEF UserInv, QuietInv, Still
<1> QED
  BY <1>4, <1>5, <1>6, <1>7, <1>8, <1>9, <1>10 DEF StorageInv, SessionInv

----------------------------------------------------------------------------
\* The invariant holds at the start, and every step keeps it and the user's files.
LEMMA InitStorage ==
  ASSUME Init
  PROVE  StorageInv
<1>0. /\ MaxSessions \in Nat /\ MaxRuns \in Nat /\ 0 \in 0 .. MaxSessions /\ 0 \in 0 .. MaxRuns
      /\ Sessions = 1 .. MaxSessions
  BY TorrentStorageAssumption DEF Sessions
<1>1. /\ \A s \in Sessions : mem[s] = NoState /\ op[s] = Idle
      /\ \A r \in Runs : run[r] = NoRun
      /\ \A t \in Threads : req[t] = NoReq
      /\ good = {} /\ ckpt = NoState /\ job = "none" /\ slot = 0 /\ cur = 0 /\ quiet = {}
      /\ used = [sessions |-> 0, runs |-> 0, requests |-> 0, crashes |-> 0]
  BY DEF Init
<1>2. /\ NoReq \in ReqStates /\ NoReq.s = 0 /\ NoReq.at = "none"
      /\ NoRun \in RunStates /\ NoRun.s = 0 /\ NoRun.at = "over"
  BY <1>0 DEF NoReq, ReqStates, NoRun, RunStates, Places
<1>3. Types
  <2>1. file \in [Files -> {"none", "user", "nova"}]
    BY DEF Init
  <2>2. /\ mem \in [Sessions -> Checkpoints \cup {NoState}]
        /\ op \in [Sessions -> Operations \cup {Idle}]
        /\ run \in [Runs -> RunStates] /\ req \in [Threads -> ReqStates]
    BY <1>2 DEF Init
  <2> QED
    BY <1>0, <1>1, <2>1, <2>2 DEF Types
<1>4. Fresh
  BY <1>0, <1>1, <1>2 DEF Fresh
<1>5. Named /\ InHand
  BY <1>1, <1>2 DEF Named, InHand, Leasing
<1>6. Private /\ Asked
  BY <1>1 DEF Private, Asked, Idle, Making
<1>7. UserInv
  BY <1>1 DEF UserInv, UserFree, Idle, Loading, Making
<1>8. QuietInv
  BY <1>1 DEF QuietInv, Still
<1> QED
  BY <1>3, <1>4, <1>5, <1>6, <1>7, <1>8 DEF StorageInv, SessionInv

LEMMA KeptIsInvariant ==
  ASSUME StorageInv, Kept
  PROVE  StorageInv' /\ User' = User
BY StepKeepsSessions DEF StorageInv, Kept

LEMMA StepKeepsStorage ==
  ASSUME StorageInv, [Next]_vars
  PROVE  StorageInv' /\ User' = User
<1>1. ASSUME NEW s \in Sessions, StorageStep(s) PROVE StorageInv' /\ User' = User
  BY <1>1, StorageStepKeeps, KeptIsInvariant
<1>2. ASSUME NEW t \in Threads, RequestStep(t) PROVE StorageInv' /\ User' = User
  BY <1>2, RequestStepKeeps, KeptIsInvariant
<1>3. ASSUME NEW r \in Runs, RunStep(r) PROVE StorageInv' /\ User' = User
  BY <1>3, RunStepKeeps, KeptIsInvariant
<1>4. CASE StartRun
  BY <1>4, StartRunKeeps, KeptIsInvariant
<1>5. ASSUME NEW p \in Pieces, ReadBlock(p) PROVE StorageInv' /\ User' = User
  BY <1>5, ReadBlockKeeps, KeptIsInvariant
<1>6. CASE Crash
  BY <1>6, CrashKeeps
<1>7. CASE UNCHANGED vars
  <2>1. UNCHANGED <<file, good, ckpt, mem, op, run, job, slot, cur, req, quiet, used>>
    BY <1>7 DEF vars
  <2>2. Types' /\ Fresh' /\ Named' /\ InHand' /\ Private' /\ Asked'
    BY <2>1 DEF StorageInv, SessionInv, Types, Fresh, Named, InHand, Private, Asked
  <2>3. User' = User
    BY <2>1 DEF User
  <2>4. UserInv' /\ QuietInv'
    BY <2>1, <2>3 DEF StorageInv, UserInv, UserFree, QuietInv, Still
  <2> QED
    BY <2>2, <2>3, <2>4 DEF StorageInv, SessionInv
<1> QED
  BY <1>1, <1>2, <1>3, <1>4, <1>5, <1>6, <1>7 DEF Next

LEMMA StorageInvariant == Spec => []StorageInv
<1>1. Init => StorageInv
  BY InitStorage
<1>2. StorageInv /\ [Next]_vars => StorageInv'
  BY StepKeepsStorage
<1> QED
  BY <1>1, <1>2, PTL DEF Spec

\* UserFilesUntouched: no create, resume, change of selection, commit, redownload,
\* delete or crash writes, adopts or removes a file that was there before the
\* torrent.  A path is only ever owned after NOVA made it, a commit writes only
\* the selected files of a session whose files were all prepared, and a delete
\* removes only what is owned.
THEOREM UserFilesAreSafe == Spec => UserFilesUntouched
<1>1. ASSUME StorageInv, StorageInv', User' = User
      PROVE  \A f \in Files : file[f] = "user" =>
               file'[f] = "user" /\ \A p \in Pieces : <<p, f>> \notin good'
  <2> SUFFICES ASSUME NEW f \in Files, file[f] = "user"
               PROVE  file'[f] = "user" /\ \A p \in Pieces : <<p, f>> \notin good'
    OBVIOUS
  <2>1. f \in User'
    BY <1>1 DEF User
  <2>2. file'[f] = "user"
    BY <2>1 DEF User
  <2>3. \A p \in Pieces : <<p, f>> \notin good'
    BY <1>1, <2>1 DEF StorageInv, UserInv
  <2> QED
    BY <2>2, <2>3
<1>2. StorageInv /\ [Next]_vars =>
        [\A f \in Files : file[f] = "user" =>
           /\ file'[f] = "user"
           /\ \A p \in Pieces : <<p, f>> \notin good']_vars
  BY <1>1, StepKeepsStorage
<1> QED
  BY <1>2, StorageInvariant, PTL DEF Spec, UserFilesUntouched

\* PausedIsQuiet: once a pause has returned, no piece of the session is being
\* written until a run takes a new lease: the pause took the generation away
\* under the mutex, and a commit looks at the generation under the same mutex.
THEOREM PausedStorageIsQuiet == Spec => []PausedIsQuiet
<1>1. StorageInv => PausedIsQuiet
  BY DEF StorageInv, SessionInv, Types, QuietInv, Still, PausedIsQuiet
<1> QED
  BY <1>1, StorageInvariant, PTL

----------------------------------------------------------------------------
\* The task's run is past its recheck and under way.
Reading == cur # 0 /\ run[cur].at \in Leasing
CurHere == cur # 0 /\ run[cur].at # "over" => run[cur].s = slot

\* A slice is where session x says it is: it was written, and only a deletion has
\* taken it away since; after the recheck for the task's run, since that recheck.
Reached(x, p, f) ==
  \/ <<p, f>> \in good
  \/ f \in removed /\ (x = slot /\ Reading /\ ~ IsBoundary(p, mem[x].sel) => f \in gone)

Claims(x) ==
  mem[x] # NoState =>
    \A p \in mem[x].verified : \A f \in SelectedPart(p, mem[x].sel) : Reached(x, p, f)

\* A commit has written the slices it has taken off its list, and all of them
\* when it has dealt with the cache.
Writes(x) ==
  op[x].kind = "commit" =>
    /\ op[x].made = 1 => op[x].todo = {}
    /\ op[x].todo \subseteq SelectedPart(Committed(x), mem[x].sel)
    /\ \A f \in SelectedPart(Committed(x), mem[x].sel) \ op[x].todo :
         Reached(x, Committed(x), f)

\* The pieces a change of selection would change have lost their bits.
Reselects(x) ==
  op[x].kind = "reselect" =>
    \A p \in mem[x].verified :
      SelectedPart(p, mem[x].sel) = SelectedPart(p, op[x].sel)

CachesVerified(m) ==
  m # NoState => \A p \in m.cached : p \in m.verified /\ IsBoundary(p, m.sel)

Surface ==
  /\ good \subseteq Slices /\ gone \subseteq removed /\ cache \subseteq Pieces
  /\ job \in {"none", "idle", "active", "pausing", "done"}
  /\ (ckpt # NoState \/ manifest) => control

DiskInv ==
  /\ Surface /\ CurHere
  /\ Backed(ckpt) /\ CachesVerified(ckpt)
  /\ \A x \in Sessions :
       Claims(x) /\ Writes(x) /\ Reselects(x) /\ CachesVerified(mem[x])

\* What becomes of the slices, of the runs, of the task, and of each session.
NoneLost ==
  /\ \A ps \in good : ps \in good' \/ (ps[2] \in removed' /\ ps[2] \in gone')
  /\ removed \subseteq removed' /\ gone \subseteq gone'
NoneJoins == \A r \in Runs : run'[r].at \in Leasing => run[r].at \in Leasing
TaskStep ==
  \/ cur' = 0
  \/ cur' = cur /\ slot' = slot
  \/ run'[cur'].at = "open" /\ run'[cur'].s = slot'
CkptStep == ckpt' \in {ckpt, NoState} \/ \E x \in Sessions : ckpt' = mem'[x]

Says(x) ==
  mem'[x] # NoState =>
    \/ mem[x] = NoState /\ mem'[x] = ckpt
    \/ \A p \in mem'[x].verified :
         /\ SelectedPart(p, mem'[x].sel) = SelectedPart(p, mem[x].sel)
         /\ mem[x] # NoState
         /\ \/ p \in mem[x].verified
            \/ op[x].kind = "commit" /\ op[x].todo = {} /\ p = Committed(x)
Commits(x) ==
  op'[x].kind = "commit" =>
    \/ /\ op[x].kind = "commit" /\ op'[x].sel = op[x].sel
       /\ mem[x] # NoState /\ mem'[x].sel = mem[x].sel
       /\ op'[x].todo \subseteq op[x].todo
       /\ op'[x].made = 1 => op[x].made = 1 \/ op[x].todo = {}
       /\ \A f \in op[x].todo \ op'[x].todo : <<Committed(x), f>> \in good'
    \/ op'[x].todo = SelectedPart(Committed(x)', mem'[x].sel) /\ op'[x].made = 0
SessionStep(x) ==
  Says(x) /\ Commits(x) /\ Reselects(x)' /\ CachesVerified(mem'[x])

DiskStep ==
  /\ Surface' /\ NoneLost /\ NoneJoins /\ TaskStep /\ CkptStep
  /\ \A x \in Sessions : SessionStep(x)

\* A piece is a boundary piece by the files of its own that are selected.
LEMMA BoundaryBySelected ==
  ASSUME NEW p, NEW a, NEW b, SelectedPart(p, a) = SelectedPart(p, b)
  PROVE  IsBoundary(p, a) <=> IsBoundary(p, b)
BY DEF IsBoundary, IsSelected, SelectedPart

\* A step that no run joins the readers in moves no session into the task's hands.
LEMMA ReadingKept ==
  ASSUME Types', NoneJoins, TaskStep, Reading'
  PROVE  Reading /\ cur' = cur /\ slot' = slot
<1>1. cur' # 0 /\ cur' \in 0 .. MaxRuns /\ MaxRuns \in Nat
  BY TorrentStorageAssumption DEF Reading, Types
<1>2. cur' \in Runs
  BY <1>1 DEF Runs
<1>3. run'[cur'].at \in Leasing /\ run'[cur'].at # "open"
  BY DEF Reading, Leasing
<1> QED
  BY <1>1, <1>2, <1>3 DEF NoneJoins, TaskStep, Reading

LEMMA ReachedKept ==
  ASSUME Types', NoneJoins, TaskStep, NoneLost,
         NEW x \in Sessions, NEW p, NEW f, Reached(x, p, f),
         SelectedPart(p, mem'[x].sel) = SelectedPart(p, mem[x].sel)
  PROVE  Reached(x, p, f)'
<1>1. IsBoundary(p, mem'[x].sel) <=> IsBoundary(p, mem[x].sel)
  BY BoundaryBySelected
<1>2. CASE <<p, f>> \in good
  <2>1. <<p, f>> \in good' \/ (f \in removed' /\ f \in gone')
    BY <1>2 DEF NoneLost
  <2> QED
    BY <2>1 DEF Reached
<1>3. CASE <<p, f>> \notin good
  <2>1. /\ f \in removed' /\ gone \subseteq gone'
        /\ (x = slot /\ Reading /\ ~ IsBoundary(p, mem[x].sel) => f \in gone)
    BY <1>3 DEF Reached, NoneLost
  <2>2. x = slot' /\ Reading' => x = slot /\ Reading
    BY ReadingKept
  <2> QED
    BY <1>1, <2>1, <2>2 DEF Reached
<1> QED
  BY <1>2, <1>3

\* What a checkpoint claims, it claims of slices that were written.
LEMMA ClaimsBacked ==
  ASSUME NEW x \in Sessions, Claims(x)
  PROVE  Backed(mem[x])
BY DEF Claims, Backed, Reached

\* A session that a lease was given on is open.
LEMMA ReadingIsOpen ==
  ASSUME StorageInv, CurHere, Reading
  PROVE  slot \in Sessions /\ mem[slot] # NoState
<1>1. cur \in Runs /\ run[cur].at \in Leasing
  <2>1. cur # 0 /\ cur \in 0 .. MaxRuns /\ MaxRuns \in Nat
    BY TorrentStorageAssumption DEF Reading, StorageInv, SessionInv, Types
  <2> QED
    BY <2>1 DEF Runs, Reading
<1>2. run[cur].s = slot /\ run[cur].s \in Sessions
  BY <1>1 DEF CurHere, Reading, Leasing, StorageInv, SessionInv, Named
<1> QED
  BY <1>1, <1>2 DEF StorageInv, SessionInv, InHand

LEMMA DiskStepKeeps ==
  ASSUME StorageInv, DiskInv, Types', DiskStep, CurHere'
  PROVE  DiskInv'
<1>1. ASSUME NEW x \in Sessions PROVE Claims(x)'
  <2> SUFFICES ASSUME mem'[x] # NoState,
                      NEW p \in mem'[x].verified, NEW f \in SelectedPart(p, mem'[x].sel)
               PROVE  Reached(x, p, f)'
    BY DEF Claims
  <2>1. Says(x) /\ Claims(x) /\ Writes(x)
    BY DEF DiskStep, SessionStep, DiskInv
  <2>2. CASE mem[x] = NoState /\ mem'[x] = ckpt
    <3>1. <<p, f>> \in good \/ f \in removed
      BY <2>2 DEF DiskInv, Backed
    <3>2. ~ (x = slot' /\ Reading')
      BY <2>2, ReadingKept, ReadingIsOpen DEF DiskInv, DiskStep
    <3> QED
      BY <3>1, <3>2 DEF Reached, DiskStep, NoneLost
  <2>3. CASE /\ SelectedPart(p, mem'[x].sel) = SelectedPart(p, mem[x].sel)
             /\ mem[x] # NoState /\ p \in mem[x].verified
    <3>1. Reached(x, p, f)
      BY <2>1, <2>3 DEF Claims
    <3> QED
      BY <2>3, <3>1, ReachedKept DEF DiskStep
  <2>4. CASE /\ SelectedPart(p, mem'[x].sel) = SelectedPart(p, mem[x].sel)
             /\ op[x].kind = "commit" /\ op[x].todo = {} /\ p = Committed(x)
    <3>1. Reached(x, p, f)
      BY <2>1, <2>4 DEF Writes
    <3> QED
      BY <2>4, <3>1, ReachedKept DEF DiskStep
  <2> QED
    BY <2>1, <2>2, <2>3, <2>4 DEF Says
<1>2. ASSUME NEW x \in Sessions PROVE Writes(x)'
  <2> SUFFICES ASSUME op'[x].kind = "commit"
               PROVE  /\ op'[x].made = 1 => op'[x].todo = {}
                      /\ op'[x].todo \subseteq SelectedPart(Committed(x)', mem'[x].sel)
                      /\ (\A f \in SelectedPart(Committed(x), mem[x].sel) \ op[x].todo :
                            Reached(x, Committed(x), f))'
    BY DEF Writes
  <2>1. Commits(x) /\ Writes(x)
    BY DEF DiskStep, SessionStep, DiskInv
  <2>2. CASE op'[x].todo = SelectedPart(Committed(x)', mem'[x].sel) /\ op'[x].made = 0
    BY <2>2
  <2>3. CASE /\ op[x].kind = "commit" /\ op'[x].sel = op[x].sel
             /\ mem'[x].sel = mem[x].sel /\ op'[x].todo \subseteq op[x].todo
             /\ op'[x].made = 1 => op[x].made = 1 \/ op[x].todo = {}
             /\ \A f \in op[x].todo \ op'[x].todo : <<Committed(x), f>> \in good'
    <3>1. Committed(x)' = Committed(x)
      BY <2>3 DEF Committed
    <3>2. /\ op[x].made = 1 => op[x].todo = {}
          /\ op[x].todo \subseteq SelectedPart(Committed(x), mem[x].sel)
          /\ \A f \in SelectedPart(Committed(x), mem[x].sel) \ op[x].todo :
               Reached(x, Committed(x), f)
      BY <2>1, <2>3 DEF Writes
    <3>3. ASSUME NEW f \in SelectedPart(Committed(x), mem[x].sel), f \notin op'[x].todo
          PROVE  Reached(x, Committed(x), f)'
      <4>1. CASE f \in op[x].todo
        BY <2>3, <3>1, <3>3, <4>1 DEF Reached
      <4>2. CASE f \notin op[x].todo
        <5> DEFINE q == Committed(x)
        <5>1. Reached(x, q, f) /\ SelectedPart(q, mem'[x].sel) = SelectedPart(q, mem[x].sel)
          BY <2>3, <3>2, <3>3, <4>2
        <5>2. q' = q
          BY <3>1
        <5>3. PICK c : c = q
          OBVIOUS
        <5>4. Reached(x, c, f) /\ SelectedPart(c, mem'[x].sel) = SelectedPart(c, mem[x].sel)
          BY <5>1, <5>3
        <5>5. Reached(x, c, f)'
          BY <5>4, ReachedKept DEF DiskStep
        <5> QED
          BY <5>2, <5>3, <5>5 DEF Reached
      <4> QED
        BY <4>1, <4>2
    <3> QED
      BY <2>3, <3>1, <3>2, <3>3
  <2> QED
    BY <2>1, <2>2, <2>3 DEF Commits
<1>3. Backed(ckpt)' /\ CachesVerified(ckpt)'
  <2>1. CASE ckpt' = ckpt
    <3>1. Backed(ckpt)'
      BY <2>1 DEF DiskInv, DiskStep, Backed, NoneLost
    <3> QED
      BY <2>1, <3>1 DEF DiskInv, CachesVerified
  <2>2. CASE ckpt' = NoState
    BY <2>2 DEF Backed, CachesVerified
  <2>3. CASE \E x \in Sessions : ckpt' = mem'[x]
    <3>1. PICK x \in Sessions : ckpt' = mem'[x]
      BY <2>3
    <3>2. Backed(ckpt)'
      BY <1>1, <3>1 DEF Claims, Backed, Reached
    <3>3. CachesVerified(mem'[x])
      BY DEF DiskStep, SessionStep
    <3> QED
      BY <3>1, <3>2, <3>3 DEF CachesVerified
  <2> QED
    BY <2>1, <2>2, <2>3 DEF DiskStep, CkptStep
<1>4. ASSUME NEW x \in Sessions PROVE Reselects(x)' /\ CachesVerified(mem[x])'
  BY DEF DiskStep, SessionStep, CachesVerified
<1> QED
  BY <1>1, <1>2, <1>3, <1>4 DEF DiskInv, DiskStep

\* The task's run stays on the task's session.
LEMMA CurHereKept ==
  ASSUME StorageInv, DiskInv, Types', \A r \in Runs : RunMove(r), TaskStep
  PROVE  CurHere'
<1> SUFFICES ASSUME cur' # 0, run'[cur'].at # "over" PROVE run'[cur'].s = slot'
  BY DEF CurHere
<1>1. cur' \in Runs
  <2>1. cur' \in 0 .. MaxRuns /\ MaxRuns \in Nat
    BY TorrentStorageAssumption DEF Types
  <2> QED
    BY <2>1 DEF Runs
<1>2. CASE cur' = cur /\ slot' = slot
  BY <1>1, <1>2 DEF RunMove, DiskInv, CurHere
<1> QED
  BY <1>2 DEF TaskStep

\* Most steps leave the slices and the deletions alone.
LEMMA NothingLost ==
  ASSUME UNCHANGED <<removed, gone>>, good \subseteq good'
  PROVE  NoneLost
BY DEF NoneLost

LEMMA CallersStill ==
  /\ UNCHANGED run => NoneJoins
  /\ UNCHANGED task => TaskStep
BY DEF NoneJoins, TaskStep, task

LEMMA SurfaceKept ==
  ASSUME DiskInv, UNCHANGED <<removed, gone>>, good' \subseteq Slices, cache' \subseteq Pieces,
         job' \in {"none", "idle", "active", "pausing", "done"},
         control' \/ UNCHANGED <<ckpt, manifest, control>>
  PROVE  Surface'
BY DEF DiskInv, Surface

\* A session whose entries a step leaves alone.
LEMMA SessionStill ==
  ASSUME StorageInv, DiskInv, NEW x \in Sessions, op'[x] = op[x], mem'[x] = mem[x]
  PROVE  SessionStep(x)
<1>1. op[x].kind = "commit" => mem[x] # NoState
  BY Busy
<1> QED
  BY <1>1 DEF SessionStep, Says, Commits, Reselects, CachesVerified, DiskInv

LEMMA OneSessionStep ==
  ASSUME StorageInv, DiskInv, NEW s \in Sessions,
         \A x \in Sessions \ {s} : op'[x] = op[x] /\ mem'[x] = mem[x],
         SessionStep(s), ckpt' \in {ckpt, NoState, mem'[s]},
         Surface', NoneLost, NoneJoins, TaskStep
  PROVE  DiskStep
<1>1. \A x \in Sessions : SessionStep(x)
  BY SessionStill
<1> QED
  BY <1>1 DEF DiskStep, CkptStep

LEMMA NoSessionStep ==
  ASSUME StorageInv, DiskInv, UNCHANGED <<op, mem>>, ckpt' \in {ckpt, NoState},
         Surface', NoneLost, NoneJoins, TaskStep
  PROVE  DiskStep
<1>1. \A x \in Sessions : SessionStep(x)
  BY SessionStill
<1> QED
  BY <1>1 DEF DiskStep, CkptStep

\* A step of the callers alone.
LEMMA CallersMove ==
  ASSUME StorageInv, DiskInv, UNCHANGED <<disk, op, mem, removed, gone>>,
         job' \in {"none", "idle", "active", "pausing", "done"}, NoneJoins, TaskStep
  PROVE  DiskStep
<1>1. Surface'
  BY DEF DiskInv, Surface, disk
<1>2. NoneLost
  BY NothingLost DEF disk
<1> QED
  BY <1>1, <1>2, NoSessionStep DEF disk

\* A session that keeps its selection and sets no bit, in no commit.
LEMMA BitsKept ==
  ASSUME StorageInv, DiskInv, NEW s \in Sessions, mem[s] # NoState,
         mem'[s].sel = mem[s].sel, mem'[s].verified \subseteq mem[s].verified,
         \A p \in mem'[s].cached : p \in mem[s].cached /\ p \in mem'[s].verified,
         op'[s].kind \notin {"commit", "reselect"}
  PROVE  SessionStep(s)
<1>1. Says(s)
  BY DEF Says
<1>2. CachesVerified(mem'[s])
  BY DEF CachesVerified, DiskInv
<1> QED
  BY <1>1, <1>2 DEF SessionStep, Commits, Reselects

\* The cached pieces of an open session are verified.
LEMMA CachedAreVerified ==
  ASSUME DiskInv, NEW s \in Sessions, mem[s] # NoState
  PROVE  \A p \in mem[s].cached : p \in mem[s].verified /\ IsBoundary(p, mem[s].sel)
BY DEF DiskInv, CachesVerified

LEMMA PrepareFileDisk ==
  ASSUME StorageInv, DiskInv, NEW s \in Sessions, PrepareFile(s)
  PROVE  DiskStep
<1>0. op[s].kind \in Preparing /\ op \in [Sessions -> Operations \cup {Idle}]
  BY DEF StorageInv, SessionInv, Types, PrepareFile
<1>1. op[s] \in Operations /\ mem[s] # NoState
  BY <1>0, Busy DEF Preparing
<1>2. /\ \A x \in Sessions \ {s} : op'[x] = op[x]
      /\ op'[s].kind = op[s].kind /\ UNCHANGED mem
  BY <1>0, <1>1 DEF PrepareFile, Operations
<1>3. SessionStep(s)
  BY <1>0, <1>1, <1>2, BitsKept, CachedAreVerified DEF Preparing
<1>4. Surface' /\ NoneLost /\ NoneJoins /\ TaskStep
  BY SurfaceKept, NothingLost, CallersStill DEF PrepareFile, history, DiskInv, Surface, task
<1> QED
  BY <1>2, <1>3, <1>4, OneSessionStep DEF PrepareFile

LEMMA OwnFileDisk ==
  ASSUME StorageInv, DiskInv, NEW s \in Sessions, OwnFile(s)
  PROVE  DiskStep
<1>0. /\ op[s].kind \in Preparing /\ op \in [Sessions -> Operations \cup {Idle}]
      /\ mem \in [Sessions -> Checkpoints \cup {NoState}]
  BY DEF StorageInv, SessionInv, Types, OwnFile
<1>1. op[s] \in Operations /\ mem[s] # NoState /\ mem[s] \in Checkpoints
  BY <1>0, Busy DEF Preparing
<1>2. /\ \A x \in Sessions \ {s} : op'[x] = op[x] /\ mem'[x] = mem[x]
      /\ op'[s].kind = op[s].kind
  BY <1>0, <1>1 DEF OwnFile, Save, Operations
<1>3. /\ mem'[s].sel = mem[s].sel /\ mem'[s].verified = mem[s].verified
      /\ mem'[s].cached = mem[s].cached /\ ckpt' = mem'[s] /\ control'
  BY <1>0, <1>1 DEF OwnFile, Save, Checkpoints
<1>4. SessionStep(s)
  BY <1>0, <1>1, <1>2, <1>3, BitsKept, CachedAreVerified DEF Preparing
<1>5. Surface' /\ NoneLost /\ NoneJoins /\ TaskStep
  BY <1>3, SurfaceKept, NothingLost, CallersStill
     DEF OwnFile, history, DiskInv, Surface, task
<1> QED
  BY <1>2, <1>3, <1>4, <1>5, OneSessionStep

LEMMA OpenEndsDisk ==
  ASSUME StorageInv, DiskInv, NEW s \in Sessions, OpenEnds(s)
  PROVE  DiskStep
<1>0. op[s].kind = "open" /\ op \in [Sessions -> Operations \cup {Idle}]
  BY DEF StorageInv, SessionInv, Types, OpenEnds, Prepared
<1>1. mem[s] # NoState
  BY <1>0, Busy
<1>2. \A x \in Sessions \ {s} : op'[x] = op[x]
  BY <1>0 DEF OpenEnds
<1>3. op'[s].kind = "idle" /\ UNCHANGED mem
  BY <1>0 DEF OpenEnds, Idle
<1>4. SessionStep(s)
  BY <1>1, <1>3, BitsKept, CachedAreVerified
<1>5. Surface' /\ NoneLost /\ NoneJoins /\ TaskStep
  BY SurfaceKept, NothingLost, CallersStill
     DEF OpenEnds, disk, history, DiskInv, Surface, task
<1> QED
  BY <1>2, <1>3, <1>4, <1>5, OneSessionStep DEF OpenEnds, disk

LEMMA CreateManifestDisk ==
  ASSUME StorageInv, DiskInv, NEW s \in Sessions, CreateManifest(s)
  PROVE  DiskStep
<1>0. op[s].kind = "checkpoint" /\ op \in [Sessions -> Operations \cup {Idle}]
  BY DEF StorageInv, SessionInv, Types, CreateManifest
<1>1. op[s] \in Operations /\ mem[s] # NoState
  BY <1>0, Busy
<1>2. /\ \A x \in Sessions \ {s} : op'[x] = op[x]
      /\ op'[s].kind = "create" /\ UNCHANGED mem
  BY <1>0, <1>1 DEF CreateManifest, Operations
<1>3. SessionStep(s)
  BY <1>1, <1>2, BitsKept, CachedAreVerified
<1>4. Surface' /\ NoneLost /\ NoneJoins /\ TaskStep
  BY SurfaceKept, NothingLost, CallersStill
     DEF CreateManifest, history, DiskInv, Surface, task
<1> QED
  BY <1>2, <1>3, <1>4, OneSessionStep DEF CreateManifest

LEMMA CreateEndsDisk ==
  ASSUME StorageInv, DiskInv, NEW s \in Sessions, CreateEnds(s)
  PROVE  DiskStep
<1>0. op[s].kind = "create" /\ op \in [Sessions -> Operations \cup {Idle}]
  BY DEF StorageInv, SessionInv, Types, CreateEnds, Prepared
<1>1. mem[s] # NoState
  BY <1>0, Busy
<1>2. \A x \in Sessions \ {s} : op'[x] = op[x]
  BY <1>0 DEF CreateEnds
<1>3. op'[s].kind = "idle" /\ UNCHANGED mem
  BY <1>0 DEF CreateEnds, Idle
<1>4. SessionStep(s)
  BY <1>1, <1>3, BitsKept, CachedAreVerified
<1>5. Surface' /\ NoneLost /\ NoneJoins /\ TaskStep
  BY SurfaceKept, NothingLost, CallersStill
     DEF CreateEnds, disk, history, DiskInv, Surface, task
<1> QED
  BY <1>2, <1>3, <1>4, <1>5, OneSessionStep DEF CreateEnds, disk

LEMMA SelectClearsDisk ==
  ASSUME StorageInv, DiskInv, NEW s \in Sessions, SelectClears(s)
  PROVE  DiskStep
<1> DEFINE new == Changed(s, op[s].sel)
<1>0. /\ op[s].kind = "select" /\ op \in [Sessions -> Operations \cup {Idle}]
      /\ mem \in [Sessions -> Checkpoints \cup {NoState}]
  BY DEF StorageInv, SessionInv, Types, SelectClears, Prepared
<1>1. op[s] \in Operations /\ mem[s] # NoState /\ mem[s] \in Checkpoints
  BY <1>0, Busy
<1>2. op' = [op EXCEPT ![s].kind = "reselect"]
  BY DEF SelectClears
<1>3. /\ mem' = [mem EXCEPT ![s].verified = @ \ new, ![s].cached = @ \ new]
      /\ cache' \subseteq cache
  BY DEF SelectClears
<1>4. \A p \in Pieces \ new : SelectedPart(p, mem[s].sel) = SelectedPart(p, op[s].sel)
  BY DEF Changed
<1>5. \A x \in Sessions \ {s} : op'[x] = op[x]
  BY <1>0, <1>2
<1>6. op'[s].kind = "reselect" /\ op'[s].sel = op[s].sel
  BY <1>0, <1>1, <1>2 DEF Operations
<1> HIDE DEF new
<1>7. \A x \in Sessions \ {s} : mem'[x] = mem[x]
  BY <1>0, <1>3
<1>8. /\ mem'[s].sel = mem[s].sel /\ mem'[s].verified = mem[s].verified \ new
      /\ mem'[s].cached = mem[s].cached \ new /\ mem[s].verified \subseteq Pieces
  BY <1>0, <1>1, <1>3 DEF Checkpoints
<1>9. SessionStep(s)
  <2>1. CachesVerified(mem'[s])
    BY <1>1, <1>8, CachedAreVerified DEF CachesVerified
  <2>2. Says(s) /\ Commits(s)
    BY <1>1, <1>6, <1>8 DEF Says, Commits
  <2>3. Reselects(s)'
    BY <1>4, <1>6, <1>8 DEF Reselects
  <2> QED
    BY <2>1, <2>2, <2>3 DEF SessionStep
<1>10. Surface' /\ NoneLost /\ NoneJoins /\ TaskStep
  BY <1>3, SurfaceKept, NothingLost, CallersStill
     DEF SelectClears, history, DiskInv, Surface, task
<1> QED
  BY <1>5, <1>7, <1>9, <1>10, OneSessionStep DEF SelectClears

LEMMA SelectSavesDisk ==
  ASSUME StorageInv, DiskInv, NEW s \in Sessions, SelectSaves(s)
  PROVE  DiskStep
<1>0. /\ op[s].kind = "reselect" /\ op \in [Sessions -> Operations \cup {Idle}]
      /\ mem \in [Sessions -> Checkpoints \cup {NoState}]
  BY DEF StorageInv, SessionInv, Types, SelectSaves
<1>1. op[s] \in Operations /\ mem[s] # NoState /\ mem[s] \in Checkpoints
  BY <1>0, Busy
<1>2. \A x \in Sessions \ {s} : op'[x] = op[x] /\ mem'[x] = mem[x]
  BY <1>0 DEF SelectSaves, Save
<1>3. op'[s].kind = "idle"
  BY <1>0 DEF SelectSaves, Idle
<1>4. /\ mem'[s].sel = op[s].sel /\ mem'[s].verified = mem[s].verified
      /\ mem'[s].cached = mem[s].cached /\ ckpt' = mem'[s] /\ control'
  BY <1>0, <1>1 DEF SelectSaves, Save, Checkpoints
<1>5. \A p \in mem[s].verified : SelectedPart(p, mem[s].sel) = SelectedPart(p, op[s].sel)
  BY <1>0 DEF DiskInv, Reselects
<1>6. SessionStep(s)
  <2>1. CachesVerified(mem'[s])
    BY <1>1, <1>4, <1>5, CachedAreVerified, BoundaryBySelected DEF CachesVerified
  <2>2. Says(s) /\ Commits(s) /\ Reselects(s)'
    BY <1>1, <1>3, <1>4, <1>5 DEF Says, Commits, Reselects
  <2> QED
    BY <2>1, <2>2 DEF SessionStep
<1>7. Surface' /\ NoneLost /\ NoneJoins /\ TaskStep
  BY <1>4, SurfaceKept, NothingLost, CallersStill
     DEF SelectSaves, history, DiskInv, Surface, task
<1> QED
  BY <1>2, <1>4, <1>6, <1>7, OneSessionStep

LEMMA DeleteFileDisk ==
  ASSUME StorageInv, DiskInv, NEW s \in Sessions, DeleteFile(s)
  PROVE  DiskStep
<1> DEFINE f == Lowest(op[s].todo)
<1>0. /\ op[s].kind = "delete" /\ op \in [Sessions -> Operations \cup {Idle}]
      /\ mem \in [Sessions -> Checkpoints \cup {NoState}]
  BY DEF StorageInv, SessionInv, Types, DeleteFile
<1>1. op[s] \in Operations /\ mem[s] # NoState /\ mem[s] \in Checkpoints
  BY <1>0, Busy
<1>2. /\ op' = [op EXCEPT ![s].todo = @ \ {f}] /\ mem' = [mem EXCEPT ![s].owned = @ \ {f}]
      /\ good' = {ps \in good : ps[2] # f}
      /\ removed' = removed \cup {f} /\ gone' = gone \cup {f}
  BY DEF DeleteFile
<1> HIDE DEF f
<1>3. \A x \in Sessions \ {s} : op'[x] = op[x] /\ mem'[x] = mem[x]
  BY <1>0, <1>2
<1>4. op'[s].kind = "delete"
  BY <1>0, <1>1, <1>2 DEF Operations
<1>5. /\ mem'[s].sel = mem[s].sel /\ mem'[s].verified = mem[s].verified
      /\ mem'[s].cached = mem[s].cached
  BY <1>0, <1>1, <1>2 DEF Checkpoints
<1>6. SessionStep(s)
  BY <1>1, <1>4, <1>5, BitsKept, CachedAreVerified
<1>7. NoneLost
  BY <1>2 DEF NoneLost
<1>8. Surface'
  BY <1>2 DEF DeleteFile, DiskInv, Surface, task
<1>9. NoneJoins /\ TaskStep /\ ckpt' = ckpt
  BY CallersStill DEF DeleteFile
<1> QED
  BY <1>3, <1>6, <1>7, <1>8, <1>9, OneSessionStep

LEMMA DeleteEndsDisk ==
  ASSUME StorageInv, DiskInv, NEW s \in Sessions, DeleteEnds(s)
  PROVE  DiskStep
<1>0. op[s].kind = "delete" /\ op \in [Sessions -> Operations \cup {Idle}]
  BY DEF StorageInv, SessionInv, Types, DeleteEnds
<1>1. mem[s] # NoState
  BY <1>0, Busy
<1>2. \A x \in Sessions \ {s} : op'[x] = op[x]
  BY <1>0 DEF DeleteEnds
<1>3. op'[s].kind = "idle" /\ UNCHANGED mem /\ ckpt' = NoState
  BY <1>0 DEF DeleteEnds, RemoveControl, Idle
<1>4. SessionStep(s)
  BY <1>1, <1>3, BitsKept, CachedAreVerified
<1>5. Surface'
  BY DEF DeleteEnds, RemoveControl, history, DiskInv, Surface, task
<1>6. NoneLost /\ NoneJoins /\ TaskStep
  BY NothingLost, CallersStill DEF DeleteEnds, history
<1> QED
  BY <1>2, <1>3, <1>4, <1>5, <1>6, OneSessionStep

LEMMA CommitSliceDisk ==
  ASSUME StorageInv, DiskInv, NEW s \in Sessions, CommitSlice(s)
  PROVE  DiskStep
<1> DEFINE f == Lowest(op[s].todo)
<1>0. op[s].kind = "commit" /\ op \in [Sessions -> Operations \cup {Idle}]
  BY DEF StorageInv, SessionInv, Types, CommitSlice
<1>1. op[s] \in Operations /\ mem[s] # NoState /\ mem[s] \in Checkpoints
  BY <1>0, Busy
<1>2. f \in op[s].todo /\ Committed(s) \in Pieces
  BY <1>0, CommitTyped, LowestIsMember DEF CommitSlice
<1>3. /\ op' = [op EXCEPT ![s].todo = @ \ {f}] /\ UNCHANGED mem
      /\ good' = good \cup {<<Committed(s), f>>}
  BY DEF CommitSlice
<1> HIDE DEF f
<1>4. \A x \in Sessions \ {s} : op'[x] = op[x] /\ mem'[x] = mem[x]
  BY <1>0, <1>3
<1>5. /\ op'[s].kind = "commit" /\ op'[s].sel = op[s].sel /\ op'[s].todo = op[s].todo \ {f}
      /\ op'[s].made = op[s].made
  BY <1>0, <1>1, <1>3 DEF Operations
<1>6. SessionStep(s)
  <2>1. Says(s) /\ Reselects(s)'
    BY <1>1, <1>3, <1>5 DEF Says, Reselects
  <2>2. Commits(s)
    BY <1>0, <1>1, <1>3, <1>5 DEF Commits
  <2>3. CachesVerified(mem'[s])
    BY <1>3 DEF DiskInv
  <2> QED
    BY <2>1, <2>2, <2>3 DEF SessionStep
<1>7. <<Committed(s), f>> \in Slices
  <2>1. f \in SelectedPart(Committed(s), mem[s].sel)
    BY <1>0, <1>2 DEF DiskInv, Writes
  <2>2. PICK p \in Pieces : p = Committed(s)
    BY <1>2
  <2>3. f \in Layout[p] /\ f \in Files
    BY <2>1, <2>2, <1>1, TorrentStorageAssumption DEF SelectedPart, Checkpoints
  <2> QED
    BY <2>2, <2>3 DEF Slices
<1>8. Surface'
  BY <1>3, <1>7, SurfaceKept DEF CommitSlice, history, DiskInv, Surface, task
<1>9. NoneLost /\ NoneJoins /\ TaskStep /\ ckpt' = ckpt
  BY <1>3, NothingLost, CallersStill DEF CommitSlice, history
<1> QED
  BY <1>4, <1>6, <1>8, <1>9, OneSessionStep

LEMMA CommitCachesDisk ==
  ASSUME StorageInv, DiskInv, NEW s \in Sessions, CommitCaches(s)
  PROVE  DiskStep
<1>0. /\ op[s].kind = "commit" /\ op \in [Sessions -> Operations \cup {Idle}]
      /\ op[s].todo = {}
  BY DEF StorageInv, SessionInv, Types, CommitCaches
<1>1. op[s] \in Operations /\ mem[s] # NoState /\ Committed(s) \in Pieces
  BY <1>0, Busy, CommitTyped
<1>2. \A x \in Sessions \ {s} : op'[x] = op[x] /\ mem'[x] = mem[x]
  BY <1>0 DEF CommitCaches
<1>3. /\ op'[s].kind = "commit" /\ op'[s].sel = op[s].sel /\ op'[s].todo = op[s].todo
      /\ UNCHANGED mem
  BY <1>0, <1>1 DEF CommitCaches, Operations
<1>4. SessionStep(s)
  <2>1. Says(s) /\ Reselects(s)' /\ Commits(s)
    BY <1>0, <1>1, <1>3 DEF Says, Reselects, Commits
  <2>2. CachesVerified(mem'[s])
    BY <1>3 DEF DiskInv
  <2> QED
    BY <2>1, <2>2 DEF SessionStep
<1>5. Surface'
  <2>1. cache' \subseteq Pieces
    BY <1>1 DEF CommitCaches, DiskInv, Surface
  <2>2. job' = job /\ good' = good /\ UNCHANGED <<removed, gone>>
        /\ UNCHANGED <<ckpt, manifest>> /\ control' = (control \/ IsBoundary(Committed(s), mem[s].sel))
    BY DEF CommitCaches, task, history
  <2> QED
    BY <2>1, <2>2 DEF DiskInv, Surface
<1>6. NoneLost /\ NoneJoins /\ TaskStep /\ ckpt' = ckpt
  BY NothingLost, CallersStill DEF CommitCaches, history
<1> QED
  BY <1>2, <1>4, <1>5, <1>6, OneSessionStep

LEMMA CommitSavesDisk ==
  ASSUME StorageInv, DiskInv, NEW s \in Sessions, CommitSaves(s)
  PROVE  DiskStep
<1> DEFINE p == Committed(s)
           r == op[s].who[2]
<1>0. /\ op[s].kind = "commit" /\ op \in [Sessions -> Operations \cup {Idle}]
      /\ mem \in [Sessions -> Checkpoints \cup {NoState}] /\ op[s].made = 1
      /\ run \in [Runs -> RunStates]
  BY DEF StorageInv, SessionInv, Types, CommitSaves
<1>1. op[s] \in Operations /\ mem[s] # NoState /\ mem[s] \in Checkpoints /\ r \in Runs
  BY <1>0, Busy, CommitTyped
<1>2. \A x \in Sessions \ {s} : op'[x] = op[x] /\ mem'[x] = mem[x]
  BY <1>0 DEF CommitSaves, Save
<1>3. op'[s].kind = "idle"
  BY <1>0 DEF CommitSaves, Idle
<1>4. /\ mem'[s].sel = mem[s].sel /\ mem'[s].verified = mem[s].verified \cup {p}
      /\ mem'[s].cached = IF IsBoundary(p, mem[s].sel) THEN mem[s].cached \cup {p}
                          ELSE mem[s].cached \ {p}
      /\ ckpt' = mem'[s] /\ control'
  <2> HIDE DEF p
  <2>1. /\ mem' = [mem EXCEPT ![s] = [mem[s] EXCEPT !.verified = @ \cup {p},
                     !.cached = IF IsBoundary(p, mem[s].sel) THEN @ \cup {p} ELSE @ \ {p}]]
        /\ ckpt' = [mem[s] EXCEPT !.verified = @ \cup {p},
                     !.cached = IF IsBoundary(p, mem[s].sel) THEN @ \cup {p} ELSE @ \ {p}]
        /\ control'
    BY DEF CommitSaves, Save, p
  <2> QED
    BY <1>0, <1>1, <2>1 DEF Checkpoints
<1>5. op[s].todo = {}
  BY <1>0 DEF DiskInv, Writes
<1>6. SessionStep(s)
  <2>1. CachesVerified(mem'[s])
    BY <1>1, <1>4, CachedAreVerified DEF CachesVerified
  <2>2. Says(s) /\ Commits(s) /\ Reselects(s)'
    BY <1>0, <1>1, <1>3, <1>4, <1>5 DEF Says, Commits, Reselects
  <2> QED
    BY <2>1, <2>2 DEF SessionStep
<1>7. NoneJoins
  BY <1>0, <1>1 DEF CommitSaves, NoneJoins, RunStates, Leasing
<1>8. Surface' /\ NoneLost /\ TaskStep
  BY <1>4, SurfaceKept, NothingLost, CallersStill
     DEF CommitSaves, history, DiskInv, Surface, task
<1> QED
  BY <1>2, <1>4, <1>6, <1>7, <1>8, OneSessionStep

Jobs == {"none", "idle", "active", "pausing", "done"}

\* A run that ends, or is told to stop, does not join the readers.
LEMMA RunOverJoins ==
  ASSUME Types, NEW r \in Runs, RunOver(r), job \in Jobs
  PROVE  NoneJoins /\ TaskStep /\ job' \in Jobs
<1>1. NoneJoins
  BY DEF RunOver, Types, NoneJoins, NoRun, Leasing
<1>2. TaskStep
  BY DEF RunOver, TaskStep
<1> QED
  BY <1>1, <1>2 DEF RunOver, Inactive, Jobs

LEMMA StoppingJoins ==
  ASSUME Types, NEW r \in Runs, run[r].at = "drive", run' = Stopping(r)
  PROVE  NoneJoins
<1> DEFINE c == CancelLive(run[r].s)
<1>1. c \in [Runs -> RunStates] /\ \A x \in Runs : c[x].at = run[x].at
  BY LiveCancelled
<1>2. run' = [c EXCEPT ![r].cancelled = TRUE, ![r].at = "stop"]
  BY DEF Stopping
<1> HIDE DEF c
<1>3. \A x \in Runs \ {r} : run'[x] = c[x]
  BY <1>1, <1>2
<1> QED
  BY <1>1, <1>3 DEF NoneJoins, Leasing

LEMMA CancelJoins ==
  ASSUME Types
  PROVE  /\ \A s : run' = CancelLive(s) => NoneJoins
         /\ run' = StopCurrent => NoneJoins
<1>1. ASSUME NEW s, run' = CancelLive(s) PROVE NoneJoins
  BY <1>1, LiveCancelled DEF NoneJoins
<1>2. ASSUME run' = StopCurrent PROVE NoneJoins
  BY <1>2, CurrentStopped DEF NoneJoins
<1> QED
  BY <1>1, <1>2

LEMMA CallerFailsJoins ==
  ASSUME Types, NEW who \in Whos, CallerFails(who), job \in Jobs
  PROVE  NoneJoins /\ TaskStep /\ job' \in Jobs
<1>1. CASE who[1] = "run"
  <2>1. who[2] \in Runs /\ RunOver(who[2])
    BY <1>1 DEF Whos, CallerFails
  <2> QED
    BY <2>1, RunOverJoins
<1>2. CASE who[1] # "run"
  <2>1. run' = run /\ slot' = slot /\ cur' = cur /\ job' \in {job, "idle"}
    BY <1>2 DEF CallerFails
  <2> QED
    BY <2>1 DEF NoneJoins, TaskStep, Jobs
<1> QED
  BY <1>1, <1>2

LEMMA JobTyped ==
  ASSUME DiskInv
  PROVE  job \in Jobs
BY DEF DiskInv, Surface, Jobs

LEMMA CommitFailsDisk ==
  ASSUME StorageInv, DiskInv, NEW s \in Sessions, CommitFails(s)
  PROVE  DiskStep
<1>0. /\ op[s].kind = "commit" /\ op \in [Sessions -> Operations \cup {Idle}] /\ Types
  BY DEF StorageInv, SessionInv, Types, CommitFails
<1>1. mem[s] # NoState /\ op[s].who[2] \in Runs
  BY <1>0, Busy, CommitTyped
<1>2. \A x \in Sessions \ {s} : op'[x] = op[x]
  BY <1>0 DEF CommitFails
<1>3. op'[s].kind = "idle" /\ UNCHANGED mem
  BY <1>0 DEF CommitFails, Idle
<1>4. SessionStep(s)
  BY <1>1, <1>3, BitsKept, CachedAreVerified
<1>5. NoneJoins
  <2>1. CASE run[op[s].who[2]].at = "drive"
    BY <1>0, <1>1, <2>1, StoppingJoins DEF CommitFails
  <2>2. CASE run[op[s].who[2]].at # "drive"
    BY <2>2, CallersStill DEF CommitFails
  <2> QED
    BY <2>1, <2>2
<1>6. Surface' /\ NoneLost /\ TaskStep
  BY SurfaceKept, NothingLost, CallersStill
     DEF CommitFails, disk, history, DiskInv, Surface, task
<1> QED
  BY <1>2, <1>3, <1>4, <1>5, <1>6, OneSessionStep DEF CommitFails, disk

LEMMA PrepareRefusedDisk ==
  ASSUME StorageInv, DiskInv, NEW s \in Sessions, PrepareRefused(s)
  PROVE  DiskStep
<1>0. /\ op[s].kind \in Preparing /\ op \in [Sessions -> Operations \cup {Idle}]
      /\ mem \in [Sessions -> Checkpoints \cup {NoState}] /\ Types
  BY DEF StorageInv, SessionInv, Types, PrepareRefused
<1>1. op[s] \in Operations /\ mem[s] # NoState
  BY <1>0, Busy DEF Preparing
<1>2. \A x \in Sessions \ {s} : op'[x] = op[x] /\ mem'[x] = mem[x]
  BY <1>0 DEF PrepareRefused
<1>3. op'[s].kind = "idle" /\ (mem'[s] = mem[s] \/ mem'[s] = NoState)
  BY <1>0 DEF PrepareRefused, Idle
<1>4. SessionStep(s)
  <2>1. CASE mem'[s] = mem[s]
    BY <1>1, <1>3, <2>1, BitsKept, CachedAreVerified
  <2>2. CASE mem'[s] = NoState
    BY <1>3, <2>2 DEF SessionStep, Says, Commits, Reselects, CachesVerified
  <2> QED
    BY <1>3, <2>1, <2>2
<1>5. NoneJoins /\ TaskStep /\ job' \in Jobs
  <2>1. op[s].who \in Whos
    BY <1>0, <1>1 DEF Operations, Preparing
  <2> QED
    BY <1>0, <2>1, CallerFailsJoins, JobTyped DEF PrepareRefused
<1>6. Surface' /\ NoneLost
  BY <1>5, SurfaceKept, NothingLost
     DEF PrepareRefused, disk, Jobs, DiskInv, Surface
<1> QED
  BY <1>2, <1>4, <1>5, <1>6, OneSessionStep DEF PrepareRefused, disk

LEMMA OpenStartsDisk ==
  ASSUME StorageInv, DiskInv, NEW s \in Sessions, NEW who \in Callers(s), OpenStarts(who, s)
  PROVE  DiskStep
<1>0. /\ mem[s] = NoState /\ op \in [Sessions -> Operations \cup {Idle}]
      /\ mem \in [Sessions -> Checkpoints \cup {NoState}]
  BY DEF StorageInv, SessionInv, Types, OpenStarts
<1>1. \A x \in Sessions \ {s} : op'[x] = op[x] /\ mem'[x] = mem[x]
  BY <1>0 DEF OpenStarts
<1>2. op'[s].kind = "open" /\ mem'[s] = ckpt
  BY <1>0 DEF OpenStarts, Prepare
<1>3. SessionStep(s)
  BY <1>0, <1>2 DEF SessionStep, Says, Commits, Reselects, DiskInv
<1>4. Surface' /\ NoneLost /\ NoneJoins /\ TaskStep
  BY SurfaceKept, NothingLost, CallersStill
     DEF OpenStarts, disk, history, DiskInv, Surface, task
<1> QED
  BY <1>1, <1>3, <1>4, OneSessionStep DEF OpenStarts, disk

LEMMA OpenMissesDisk ==
  ASSUME StorageInv, DiskInv, NEW s \in Sessions, NEW who \in Callers(s), OpenMisses(who, s)
  PROVE  DiskStep
<1>1. NoneJoins /\ TaskStep /\ job' \in Jobs
  BY CallersAreTyped, CallerFailsJoins, JobTyped DEF OpenMisses, StorageInv, SessionInv
<1> QED
  BY <1>1, CallersMove DEF OpenMisses, history, Jobs

LEMMA StorageStepDisk ==
  ASSUME StorageInv, DiskInv, NEW s \in Sessions, StorageStep(s)
  PROVE  DiskStep
BY PrepareFileDisk, OwnFileDisk, PrepareRefusedDisk, OpenEndsDisk, CreateManifestDisk,
   CreateEndsDisk, SelectClearsDisk, SelectSavesDisk, DeleteFileDisk, DeleteEndsDisk,
   CommitSliceDisk, CommitCachesDisk, CommitSavesDisk, CommitFailsDisk, OpenStartsDisk,
   OpenMissesDisk
   DEF StorageStep

----------------------------------------------------------------------------
\* An open session at rest that saves with its selection and without new bits.
LEMMA RestingSave ==
  ASSUME StorageInv, DiskInv, NEW s \in Sessions, mem[s] # NoState, op[s] = Idle, op' = op,
         NEW m \in Checkpoints, m.sel = mem[s].sel, m.verified \subseteq mem[s].verified,
         \A p \in m.cached : p \in mem[s].cached /\ p \in m.verified,
         mem' = [mem EXCEPT ![s] = m], ckpt' = ckpt \/ ckpt' = m,
         Surface', NoneLost, NoneJoins, TaskStep
  PROVE  DiskStep
<1>1. mem'[s] = m /\ \A x \in Sessions \ {s} : mem'[x] = mem[x]
  BY DEF StorageInv, SessionInv, Types
<1>2. SessionStep(s)
  BY <1>1, BitsKept DEF Idle
<1> QED
  BY <1>1, <1>2, OneSessionStep

LEMMA AsksDisk ==
  ASSUME StorageInv, DiskInv, NEW t \in Threads,
         \/ \E sel \in Selections : AskSelect(t, sel)
         \/ AskPause(t) \/ AskRedownload(t)
         \/ \E kind \in {"delete", "forget"} : AskDelete(t, kind)
  PROVE  DiskStep
<1>0. Types /\ job \in Jobs
  BY JobTyped DEF StorageInv, SessionInv
<1>1. ASSUME NEW sel \in Selections, AskSelect(t, sel) PROVE DiskStep
  BY <1>0, <1>1, CallersMove, CallersStill DEF AskSelect, history, task, Jobs
<1>2. CASE AskPause(t)
  BY <1>0, <1>2, CallersMove, CancelJoins DEF AskPause, history, Jobs, TaskStep
<1>3. CASE AskRedownload(t)
  <2>1. NoneJoins
    BY <1>0, <1>3, CancelJoins, CallersStill DEF AskRedownload
  <2>2. job' \in Jobs
    BY <1>0, <1>3 DEF AskRedownload, Jobs
  <2> QED
    BY <1>3, <2>1, <2>2, CallersMove DEF AskRedownload, history, Jobs, TaskStep
<1>4. ASSUME NEW kind \in {"delete", "forget"}, AskDelete(t, kind) PROVE DiskStep
  <2>1. job' \in Jobs
    BY <1>4 DEF AskDelete, Jobs
  <2> QED
    BY <1>0, <1>4, <2>1, CallersMove, CancelJoins DEF AskDelete, history, Jobs, TaskStep
<1> QED
  BY <1>1, <1>2, <1>3, <1>4

\* The session of a new torrent: it calls nothing verified.
LEMMA MadeDisk ==
  ASSUME StorageInv, DiskInv, NEW t, NEW sel, NEW s \in Sessions,
         Save(s, NewCheckpoint(sel)),
         op' = [op EXCEPT ![s] = Prepare("checkpoint", <<"req", t>>, sel)],
         UNCHANGED <<file, good, cache, run, task, history>>
  PROVE  DiskStep
<1> DEFINE m == NewCheckpoint(sel)
<1>0. /\ op \in [Sessions -> Operations \cup {Idle}]
      /\ mem \in [Sessions -> Checkpoints \cup {NoState}]
  BY DEF StorageInv, SessionInv, Types
<1>1. m.verified = {} /\ m.cached = {}
  BY DEF NewCheckpoint
<1>2. mem' = [mem EXCEPT ![s] = m] /\ ckpt' = m /\ control'
  BY DEF Save
<1> HIDE DEF m
<1>3. \A x \in Sessions \ {s} : op'[x] = op[x] /\ mem'[x] = mem[x]
  BY <1>0, <1>2
<1>4. op'[s].kind = "checkpoint" /\ mem'[s] = m
  BY <1>0, <1>2 DEF Prepare
<1>5. SessionStep(s)
  BY <1>1, <1>4 DEF SessionStep, Says, Commits, Reselects, CachesVerified
<1>6. Surface' /\ NoneLost /\ NoneJoins /\ TaskStep
  BY <1>2, SurfaceKept, NothingLost, CallersStill DEF history, DiskInv, Surface, task
<1> QED
  BY <1>2, <1>3, <1>4, <1>5, <1>6, OneSessionStep

LEMMA AskCreateDisk ==
  ASSUME StorageInv, DiskInv, NEW t \in Threads, NEW sel \in Selections, AskCreate(t, sel)
  PROVE  DiskStep
<1>1. PICK s \in Sessions : s = used.sessions + 1
  BY TorrentStorageAssumption DEF AskCreate, StorageInv, SessionInv, Types, Sessions
<1> QED
  BY <1>1, MadeDisk DEF AskCreate

LEMMA RequestCreatesDisk ==
  ASSUME StorageInv, DiskInv, NEW t \in Threads, RequestCreates(t)
  PROVE  DiskStep
<1>1. CASE CanCreate(req[t].sel)
  <2>1. used.sessions < MaxSessions /\ CreateStarts(t, used.sessions + 1, req[t].sel)
    BY <1>1 DEF RequestCreates
  <2>2. PICK s \in Sessions : s = used.sessions + 1
    BY <2>1, TorrentStorageAssumption DEF StorageInv, SessionInv, Types, Sessions
  <2> QED
    BY <2>1, <2>2, MadeDisk DEF RequestCreates, CreateStarts
<1>2. CASE ~ CanCreate(req[t].sel)
  <2>1. UNCHANGED <<disk, op, mem, removed, gone, run, task>>
    BY <1>2 DEF RequestCreates, disk, history
  <2> QED
    BY <2>1, CallersMove, CallersStill, JobTyped DEF Jobs, task
<1> QED
  BY <1>1, <1>2

LEMMA RequestCancelsDisk ==
  ASSUME StorageInv, DiskInv, NEW t \in Threads, RequestCancels(t) \/ RequestSelects(t)
  PROVE  DiskStep
<1>1. Types /\ run' = CancelLive(req[t].s)
  BY DEF StorageInv, SessionInv, RequestCancels, RequestSelects
<1>2. UNCHANGED <<disk, mem, op, task, history>>
  BY DEF RequestCancels, RequestSelects
<1> QED
  BY <1>1, <1>2, CallersMove, CancelJoins, CallersStill, JobTyped DEF history, task, Jobs

LEMMA RequestInvalidatesDisk ==
  ASSUME StorageInv, DiskInv, NEW t \in Threads, RequestInvalidates(t)
  PROVE  DiskStep
<1>0. Types /\ req[t].at \in {"invalidate", "settle"}
  BY DEF StorageInv, SessionInv, RequestInvalidates
<1>1. NoneJoins /\ TaskStep /\ job' \in Jobs
  BY JobTyped DEF RequestInvalidates, NoneJoins, TaskStep, Jobs
<1>2. CASE /\ req[t].at = "invalidate" /\ Free(req[t].s)
           /\ Save(req[t].s, [mem[req[t].s] EXCEPT !.gen = 0])
  <2>1. PICK s \in Sessions : s = req[t].s
    BY <1>0, RequestTyped
  <2>2. mem[s] # NoState /\ op[s] = Idle /\ mem[s] \in Checkpoints
    BY <1>0, <1>2, <2>1 DEF StorageInv, SessionInv, InHand, Free, Types
  <2> DEFINE m == [mem[s] EXCEPT !.gen = 0]
  <2>3. /\ m \in Checkpoints /\ m.sel = mem[s].sel /\ m.verified = mem[s].verified
        /\ m.cached = mem[s].cached
    BY <2>2, TorrentStorageAssumption DEF Checkpoints
  <2>4. mem' = [mem EXCEPT ![s] = m] /\ ckpt' = m /\ control'
    BY <1>2, <2>1 DEF Save
  <2> HIDE DEF m
  <2>5. Surface' /\ NoneLost
    BY <1>1, <2>4, SurfaceKept, NothingLost DEF RequestInvalidates, Jobs, DiskInv, Surface
  <2>6. op' = op
    BY DEF RequestInvalidates
  <2> QED
    BY <1>1, <2>2, <2>3, <2>4, <2>5, <2>6, RestingSave, CachedAreVerified
<1>3. CASE UNCHANGED <<mem, ckpt, control, quiet>>
  <2>1. UNCHANGED <<disk, op, mem, removed, gone>>
    BY <1>3 DEF RequestInvalidates, disk
  <2> QED
    BY <1>1, <2>1, CallersMove DEF Jobs
<1> QED
  BY <1>2, <1>3 DEF RequestInvalidates

LEMMA SelectStartsDisk ==
  ASSUME StorageInv, DiskInv, NEW t \in Threads, SelectStarts(t)
  PROVE  DiskStep
<1>0. /\ req[t].at = "act" /\ op \in [Sessions -> Operations \cup {Idle}]
  BY DEF StorageInv, SessionInv, Types, SelectStarts
<1>1. PICK s \in Sessions : s = req[t].s
  BY <1>0, RequestTyped
<1>2. mem[s] # NoState
  BY <1>0, <1>1 DEF StorageInv, SessionInv, InHand
<1>3. \A x \in Sessions \ {s} : op'[x] = op[x]
  BY <1>0, <1>1 DEF SelectStarts
<1>4. op'[s].kind = "select" /\ UNCHANGED mem
  BY <1>0, <1>1 DEF SelectStarts, Prepare
<1>5. SessionStep(s)
  BY <1>2, <1>4, BitsKept, CachedAreVerified
<1>6. Surface' /\ NoneLost /\ NoneJoins /\ TaskStep
  BY SurfaceKept, NothingLost, CallersStill
     DEF SelectStarts, disk, history, DiskInv, Surface, task
<1> QED
  BY <1>3, <1>4, <1>5, <1>6, OneSessionStep DEF SelectStarts, disk

LEMMA DeleteStartsDisk ==
  ASSUME StorageInv, DiskInv, NEW t \in Threads, DeleteStarts(t)
  PROVE  DiskStep
<1>0. /\ req[t].at = "open" /\ op \in [Sessions -> Operations \cup {Idle}]
      /\ mem[req[t].s] # NoState
  BY DEF StorageInv, SessionInv, Types, DeleteStarts, Opened
<1>1. PICK s \in Sessions : s = req[t].s
  BY <1>0, RequestTyped
<1>2. op' = [op EXCEPT ![s] = [Prepare("delete", <<"req", t>>, {}) EXCEPT !.todo = mem[s].owned]]
  BY <1>1 DEF DeleteStarts
<1>3. \A x \in Sessions \ {s} : op'[x] = op[x]
  BY <1>0, <1>2
<1>4. op'[s].kind = "delete" /\ UNCHANGED mem
  BY <1>0, <1>2 DEF DeleteStarts, Prepare
<1>5. SessionStep(s)
  BY <1>0, <1>1, <1>4, BitsKept, CachedAreVerified
<1>6. Surface' /\ NoneLost /\ NoneJoins /\ TaskStep
  BY SurfaceKept, NothingLost, CallersStill
     DEF DeleteStarts, disk, history, DiskInv, Surface, task
<1> QED
  BY <1>3, <1>4, <1>5, <1>6, OneSessionStep DEF DeleteStarts, disk

LEMMA RequestRemovesStateDisk ==
  ASSUME StorageInv, DiskInv, NEW t \in Threads, RequestRemovesState(t)
  PROVE  DiskStep
<1>1. Surface'
  BY DEF RequestRemovesState, RemoveControl, history, DiskInv, Surface, task
<1>2. NoneLost /\ NoneJoins /\ TaskStep
  BY NothingLost, CallersStill DEF RequestRemovesState, history
<1> QED
  BY <1>1, <1>2, NoSessionStep DEF RequestRemovesState, RemoveControl

LEMMA RequestForgetsDisk ==
  ASSUME StorageInv, DiskInv, NEW t \in Threads, RequestForgets(t)
  PROVE  DiskStep
<1>1. job' = "none" /\ cur' = 0 /\ run' = run
  BY DEF RequestForgets
<1> QED
  BY <1>1, CallersMove, CallersStill DEF RequestForgets, history, TaskStep

LEMMA RequestInstallsDisk ==
  ASSUME StorageInv, DiskInv, NEW t \in Threads, RequestInstalls(t)
  PROVE  DiskStep
<1>1. TaskStep /\ job' \in Jobs
  BY JobTyped DEF RequestInstalls, TaskStep, task, Jobs
<1> QED
  BY <1>1, CallersMove, CallersStill DEF RequestInstalls, history, Jobs

LEMMA RunLeasesDisk ==
  ASSUME StorageInv, DiskInv, NEW r \in Runs, RunLeases(r)
  PROVE  DiskStep
<1>0. /\ Types /\ run[r].at = "lease" /\ run[r].at \in Leasing
      /\ op[run[r].s] = Idle /\ op' = op
  BY DEF StorageInv, SessionInv, RunLeases, Free, Leasing
<1>1. PICK s \in Sessions : s = run[r].s /\ mem[s] \in Checkpoints /\ mem[s] # NoState
  BY <1>0, RunTyped
<1> DEFINE m == [mem[s] EXCEPT !.gen = r]
<1>2. /\ m \in Checkpoints /\ m.sel = mem[s].sel /\ m.verified = mem[s].verified
      /\ m.cached = mem[s].cached
  BY <1>1, TorrentStorageAssumption DEF Checkpoints, Runs
<1>3. mem' = [mem EXCEPT ![s] = m] /\ ckpt' = m /\ control'
  BY <1>1 DEF RunLeases, Save
<1> HIDE DEF m
<1>4. NoneJoins
  <2> DEFINE c == CancelLive(run[r].s)
  <2>1. c \in [Runs -> RunStates] /\ \A x \in Runs : c[x].at = run[x].at
    BY <1>0, LiveCancelled
  <2>2. \E a, todo : run' = [c EXCEPT ![r].at = a, ![r].todo = todo, ![r].cancelled = FALSE]
    BY DEF RunLeases
  <2> HIDE DEF c
  <2>3. \A x \in Runs \ {r} : run'[x] = c[x]
    BY <2>1, <2>2
  <2> QED
    BY <1>0, <2>1, <2>3 DEF NoneJoins
<1>5. Surface' /\ NoneLost /\ TaskStep
  BY <1>3, SurfaceKept, NothingLost, CallersStill DEF RunLeases, DiskInv, Surface, task
<1> QED
  BY <1>0, <1>1, <1>2, <1>3, <1>4, <1>5, RestingSave, CachedAreVerified

LEMMA RunInvalidatesDisk ==
  ASSUME StorageInv, DiskInv, NEW r \in Runs, RunInvalidates(r)
  PROVE  DiskStep
<1>0. /\ Types /\ run[r].at \in Leasing
      /\ op[run[r].s] = Idle /\ op' = op
  BY DEF StorageInv, SessionInv, RunInvalidates, Free, Leasing
<1>1. PICK s \in Sessions : s = run[r].s /\ mem[s] \in Checkpoints /\ mem[s] # NoState
  BY <1>0, RunTyped DEF Leasing
<1> DEFINE m == [mem[s] EXCEPT !.gen = 0]
<1>2. /\ m \in Checkpoints /\ m.sel = mem[s].sel /\ m.verified = mem[s].verified
      /\ m.cached = mem[s].cached
  BY <1>1, TorrentStorageAssumption DEF Checkpoints
<1>3. mem' = [mem EXCEPT ![s] = m] /\ ckpt' = m /\ control'
  BY <1>1 DEF RunInvalidates, Save
<1> HIDE DEF m
<1>4. NoneJoins /\ TaskStep /\ job' \in Jobs
  BY <1>0, RunOverJoins, JobTyped DEF RunInvalidates
<1>5. Surface' /\ NoneLost
  BY <1>3, <1>4, SurfaceKept, NothingLost DEF RunInvalidates, history, Jobs, DiskInv, Surface
<1> QED
  BY <1>0, <1>1, <1>2, <1>3, <1>4, <1>5, RestingSave, CachedAreVerified

LEMMA RunCallersDisk ==
  ASSUME StorageInv, DiskInv, NEW r \in Runs,
         RunStops(r) \/ RunCancelled(r) \/ RunFinalizes(r) \/ RunCompletes(r)
  PROVE  DiskStep
<1>0. Types
  BY DEF StorageInv, SessionInv
<1>1. CASE RunStops(r)
  BY <1>0, <1>1, StoppingJoins, CallersMove, CallersStill, JobTyped
     DEF RunStops, history, task, Jobs
<1>2. CASE RunCancelled(r)
  BY <1>0, <1>2, RunOverJoins, CallersMove, JobTyped DEF RunCancelled, history, Jobs
<1>3. CASE RunFinalizes(r)
  <2>1. NoneJoins /\ TaskStep /\ job' \in Jobs
    <3>1. CASE RunOver(r)
      BY <1>0, <3>1, RunOverJoins, JobTyped
    <3>2. CASE run' = [run EXCEPT ![r].at = "close"] /\ UNCHANGED task
      <4>1. run[r].at \in Leasing /\ \A x \in Runs \ {r} : run'[x] = run[x]
        BY <1>0, <1>3, <3>2 DEF RunFinalizes, Types, Leasing
      <4> QED
        BY <3>2, <4>1, JobTyped, CallersStill DEF NoneJoins, task
    <3> QED
      BY <1>3, <3>1, <3>2 DEF RunFinalizes
  <2> QED
    BY <1>3, <2>1, CallersMove DEF RunFinalizes, history, Jobs
<1>4. CASE RunCompletes(r)
  <2>1. NoneJoins /\ TaskStep /\ job' \in Jobs
    <3>1. CASE RunOver(r)
      BY <1>0, <3>1, RunOverJoins, JobTyped
    <3>2. CASE job' = "done" /\ run' = [run EXCEPT ![r] = NoRun] /\ UNCHANGED <<slot, cur>>
      BY <1>0, <3>2 DEF Types, NoneJoins, NoRun, Leasing, TaskStep, Jobs
    <3> QED
      BY <1>4, <3>1, <3>2 DEF RunCompletes
  <2> QED
    BY <1>4, <2>1, CallersMove DEF RunCompletes, history, Jobs
<1> QED
  BY <1>1, <1>2, <1>3, <1>4

LEMMA CommitStartsDisk ==
  ASSUME StorageInv, DiskInv, NEW r \in Runs, NEW p \in Pieces, CommitStarts(r, p)
  PROVE  DiskStep
<1>0. /\ run[r].at = "drive" /\ op \in [Sessions -> Operations \cup {Idle}]
  BY DEF StorageInv, SessionInv, Types, CommitStarts
<1>1. PICK s \in Sessions : s = run[r].s /\ mem[s] # NoState
  BY <1>0, RunTyped DEF Leasing
<1>2. \A x \in Sessions \ {s} : op'[x] = op[x]
  BY <1>0, <1>1 DEF CommitStarts
<1>3. /\ op'[s].kind = "commit" /\ op'[s].sel = {p} /\ op'[s].made = 0 /\ UNCHANGED mem
      /\ op'[s].todo = SelectedPart(p, mem[s].sel)
  BY <1>0, <1>1 DEF CommitStarts
<1>4. Committed(s)' = p
  <2>1. p \in Nat
    BY TorrentStorageAssumption
  <2> QED
    BY <1>3, <2>1 DEF Committed, Lowest
<1>5. SessionStep(s)
  <2>1. Says(s) /\ Reselects(s)'
    BY <1>1, <1>3 DEF Says, Reselects
  <2>2. Commits(s)
    BY <1>3, <1>4 DEF Commits
  <2>3. CachesVerified(mem'[s])
    BY <1>3 DEF DiskInv
  <2> QED
    BY <2>1, <2>2, <2>3 DEF SessionStep
<1>6. Surface' /\ NoneLost /\ NoneJoins /\ TaskStep
  BY SurfaceKept, NothingLost, CallersStill
     DEF CommitStarts, disk, history, DiskInv, Surface, task
<1> QED
  BY <1>2, <1>3, <1>5, <1>6, OneSessionStep DEF CommitStarts, disk

\* What a recheck leaves of a session: the pieces it could read and verify.
LEMMA Rechecked ==
  ASSUME StorageInv, NEW s \in Sessions, mem[s] # NoState, Recheck(s)
  PROVE  \E m \in Checkpoints :
           /\ m.sel = mem[s].sel /\ m.verified = Recheckable(mem[s])
           /\ \A p \in m.cached : p \in m.verified /\ IsBoundary(p, m.sel)
           /\ mem' = [mem EXCEPT ![s] = m]
           /\ UNCHANGED <<ckpt, control>> \/ (ckpt' = m /\ control')
<1> DEFINE ok == Recheckable(mem[s])
           n == [mem[s] EXCEPT !.verified = ok,
                               !.cached = {p \in ok : IsBoundary(p, mem[s].sel)}]
<1>1. mem[s] \in Checkpoints
  BY DEF StorageInv, SessionInv, Types
<1>2. ok \subseteq Pieces
  BY <1>1 DEF Recheckable, Checkpoints
<1>3. mem' = [mem EXCEPT ![s] = n] /\ (UNCHANGED <<ckpt, control>> \/ (ckpt' = n /\ control'))
  BY DEF Recheck
<1> HIDE DEF ok
<1>4. /\ n \in Checkpoints /\ n.sel = mem[s].sel /\ n.verified = ok
      /\ n.cached = {p \in ok : IsBoundary(p, mem[s].sel)}
  BY <1>1, <1>2 DEF Checkpoints
<1> HIDE DEF n
<1> QED
  BY <1>3, <1>4 DEF ok

\* A recheck only drops bits.
LEMMA RecheckStep ==
  ASSUME StorageInv, DiskInv, NEW s \in Sessions, mem[s] # NoState, op[s] = Idle,
         Recheck(s), UNCHANGED <<file, good, manifest, op, slot, cur, removed, gone>>,
         job' \in Jobs, NoneJoins
  PROVE  DiskStep
<1>1. PICK m \in Checkpoints :
        /\ m.sel = mem[s].sel /\ m.verified = Recheckable(mem[s])
        /\ \A p \in m.cached : p \in m.verified /\ IsBoundary(p, m.sel)
        /\ mem' = [mem EXCEPT ![s] = m]
        /\ UNCHANGED <<ckpt, control>> \/ (ckpt' = m /\ control')
  BY Rechecked
<1>2. mem'[s] = m /\ \A x \in Sessions \ {s} : mem'[x] = mem[x]
  BY <1>1 DEF StorageInv, SessionInv, Types
<1>3. \A p \in m.verified : p \in mem[s].verified
  BY <1>1 DEF Recheckable
<1>4. cache' \subseteq cache
  BY DEF Recheck
<1>5. Surface'
  BY <1>1, <1>4 DEF DiskInv, Surface, Jobs
<1>6. CachesVerified(mem'[s])
  BY <1>1, <1>2 DEF CachesVerified
<1>7. op[s].kind \notin {"commit", "reselect"}
  BY DEF Idle
<1>8. SessionStep(s)
  BY <1>1, <1>2, <1>3, <1>6, <1>7 DEF SessionStep, Says, Commits, Reselects
<1>9. NoneLost /\ TaskStep
  BY NothingLost DEF TaskStep
<1> QED
  BY <1>1, <1>2, <1>5, <1>8, <1>9, OneSessionStep

\* The recheck for the task's run reads the files of every piece that is not a
\* boundary piece: whichever of them is left is there.
LEMMA RecheckDisk ==
  ASSUME StorageInv, DiskInv, NEW s \in Sessions, mem[s] # NoState, op[s] = Idle,
         Recheck(s), UNCHANGED <<file, good, manifest, op, slot, cur, removed>>,
         job' \in Jobs, s = slot, gone' = {}, CurHere'
  PROVE  DiskInv'
<1>1. PICK m \in Checkpoints :
        /\ m.sel = mem[s].sel /\ m.verified = Recheckable(mem[s])
        /\ \A p \in m.cached : p \in m.verified /\ IsBoundary(p, m.sel)
        /\ mem' = [mem EXCEPT ![s] = m]
        /\ UNCHANGED <<ckpt, control>> \/ (ckpt' = m /\ control')
  BY Rechecked
<1>2. mem'[s] = m /\ \A x \in Sessions \ {s} : mem'[x] = mem[x]
  BY <1>1 DEF StorageInv, SessionInv, Types
<1>3. \A p \in m.verified : p \in mem[s].verified /\ Verifies(p, mem[s])
  BY <1>1 DEF Recheckable
<1>4. cache' \subseteq cache
  BY DEF Recheck
<1>5. Surface'
  BY <1>1, <1>4 DEF DiskInv, Surface, Jobs
<1>6. CachesVerified(mem'[s])
  BY <1>1, <1>2 DEF CachesVerified
<1>7. op[s].kind \notin {"commit", "reselect"}
  BY DEF Idle
<1>8. ASSUME NEW x \in Sessions PROVE Claims(x)'
  <2> SUFFICES ASSUME mem'[x] # NoState,
                      NEW p \in mem'[x].verified, NEW f \in SelectedPart(p, mem'[x].sel)
               PROVE  Reached(x, p, f)'
    BY DEF Claims
  <2>1. mem'[x].sel = mem[x].sel /\ p \in mem[x].verified /\ mem[x] # NoState
    BY <1>1, <1>2, <1>3
  <2>2. Reached(x, p, f)
    BY <2>1 DEF DiskInv, Claims
  <2>3. CASE x = s /\ ~ IsBoundary(p, mem[s].sel)
    <3>1. \A g \in Layout[p] : <<p, g>> \in good
      BY <1>2, <1>3, <2>3 DEF Verifies
    <3> QED
      BY <3>1 DEF SelectedPart, Reached
  <2>4. CASE x # s \/ IsBoundary(p, mem[s].sel)
    BY <2>1, <2>2, <2>4 DEF Reached
  <2> QED
    BY <2>3, <2>4
<1>9. ASSUME NEW x \in Sessions PROVE Writes(x)'
  <2>1. CASE x = s
    BY <1>7, <2>1 DEF Writes
  <2>2. CASE x # s
    <3>1. op'[x] = op[x] /\ mem'[x] = mem[x] /\ x # slot'
      BY <1>2, <2>2
    <3>2. Writes(x)
      BY DEF DiskInv
    <3> QED
      BY <3>1, <3>2 DEF Writes, Reached, Committed
  <2> QED
    BY <2>1, <2>2
<1>10. ASSUME NEW x \in Sessions PROVE Reselects(x)' /\ CachesVerified(mem[x])'
  <2>1. CASE x = s
    BY <1>6, <1>7, <2>1 DEF Reselects, CachesVerified
  <2>2. CASE x # s
    BY <1>2, <2>2 DEF DiskInv, Reselects, CachesVerified
  <2> QED
    BY <2>1, <2>2
<1>11. Backed(ckpt)' /\ CachesVerified(ckpt)'
  <2>1. CASE ckpt' = ckpt
    BY <2>1 DEF DiskInv, Backed, CachesVerified
  <2>2. CASE ckpt' = m
    BY <1>2, <1>6, <1>8, <2>2 DEF Claims, Backed, Reached, CachesVerified
  <2> QED
    BY <1>1, <2>1, <2>2
<1> QED
  BY <1>5, <1>8, <1>9, <1>10, <1>11 DEF DiskInv

LEMMA RunsMoved ==
  ASSUME Kept
  PROVE  Types' /\ \A r \in Runs : RunMove(r)
BY DEF Kept, StepOK

LEMMA DiskStepHolds ==
  ASSUME StorageInv, DiskInv, Kept, DiskStep
  PROVE  DiskInv'
<1>1. CurHere'
  BY RunsMoved, CurHereKept DEF DiskStep
<1> QED
  BY <1>1, RunsMoved, DiskStepKeeps

LEMMA RequestVerifiesDisk ==
  ASSUME StorageInv, DiskInv, NEW t \in Threads, RequestVerifies(t)
  PROVE  DiskStep
<1>0. /\ req[t].at = "open" /\ mem[req[t].s] # NoState /\ op[req[t].s] = Idle
      /\ Recheck(req[t].s)
      /\ UNCHANGED <<file, good, manifest, op, run, slot, cur, removed, gone>>
  BY DEF RequestVerifies, Opened, Free, history
<1>1. PICK s \in Sessions : s = req[t].s
  BY <1>0, RequestTyped
<1>2. NoneJoins
  BY <1>0 DEF NoneJoins
<1>3. job' \in Jobs
  BY JobTyped DEF RequestVerifies, Jobs
<1> QED
  BY <1>0, <1>1, <1>2, <1>3, RecheckStep

\* The recheck of a run that was replaced ends it.
LEMMA RunRechecksDisk ==
  ASSUME StorageInv, DiskInv, NEW r \in Runs, RunRechecks(r)
  PROVE  DiskStep \/ (cur = r /\ DiskInv')
<1>0. /\ run[r].at = "open" /\ mem[run[r].s] # NoState /\ op[run[r].s] = Idle
      /\ Recheck(run[r].s) /\ UNCHANGED <<file, good, manifest, op, removed>> /\ Types
      /\ gone' = IF cur = r THEN {} ELSE gone
  BY DEF RunRechecks, Opened, Free, StorageInv, SessionInv
<1>1. PICK s \in Sessions : s = run[r].s
  BY <1>0, RunTyped
<1>2. UNCHANGED <<slot, cur>> /\ job' \in Jobs
  BY JobTyped DEF RunRechecks, RunOver, Inactive, task, Jobs
<1>3. CASE cur # r
  <2>1. RunOver(r)
    BY <1>3 DEF RunRechecks
  <2>2. NoneJoins
    BY <1>0, <2>1, RunOverJoins, JobTyped
  <2> QED
    BY <1>0, <1>1, <1>2, <1>3, <2>2, RecheckStep
<1>4. CASE cur = r
  <2>1. s = slot
    <3>1. r # 0
      BY TorrentStorageAssumption DEF Runs
    <3> QED
      BY <1>0, <1>1, <1>4, <3>1 DEF DiskInv, CurHere
  <2>2. CurHere'
    <3>1. TaskStep
      BY <1>2 DEF TaskStep
    <3> QED
      BY <3>1, RunRechecksKeeps, RunsMoved, CurHereKept
  <2>3. DiskInv'
    BY <1>0, <1>1, <1>2, <1>4, <2>1, <2>2, RecheckDisk
  <2> QED
    BY <1>4, <2>3
<1> QED
  BY <1>3, <1>4

LEMMA StartRunDisk ==
  ASSUME StorageInv, DiskInv, StartRun
  PROVE  DiskStep
<1> DEFINE n == used.runs + 1
<1>0. Types
  BY DEF StorageInv, SessionInv
<1>1. n \in Runs
  BY <1>0, TorrentStorageAssumption DEF StartRun, Types, Runs
<1>2. /\ run' = [StopCurrent EXCEPT ![n].at = "open", ![n].s = slot]
      /\ cur' = n /\ slot' = slot /\ job' = "active"
      /\ UNCHANGED <<disk, mem, op, history>>
  BY DEF StartRun
<1> HIDE DEF n
<1>3. StopCurrent \in [Runs -> RunStates] /\ \A x \in Runs : StopCurrent[x].at = run[x].at
  BY <1>0, CurrentStopped
<1>4. PICK c : c = StopCurrent
  OBVIOUS
<1>5. /\ \A x \in Runs \ {n} : run'[x] = c[x]
      /\ run'[n].at = "open" /\ run'[n].s = slot
  <2>1. c[n] \in RunStates /\ c \in [Runs -> RunStates]
    BY <1>1, <1>3, <1>4
  <2>2. run' = [c EXCEPT ![n].at = "open", ![n].s = slot]
    BY <1>2, <1>4
  <2> QED
    BY <1>1, <2>1, <2>2 DEF RunStates
<1>6. NoneJoins
  BY <1>3, <1>4, <1>5 DEF NoneJoins, Leasing
<1>7. TaskStep
  BY <1>2, <1>5 DEF TaskStep
<1> QED
  BY <1>2, <1>6, <1>7, CallersMove DEF history

LEMMA ReadBlockDisk ==
  ASSUME StorageInv, DiskInv, NEW p \in Pieces, ReadBlock(p)
  PROVE  DiskStep
<1>0. /\ mem[slot] # NoState /\ op[slot] = Idle /\ op' = op /\ slot # 0
  BY DEF ReadBlock, Opened, Free
<1>1. PICK s \in Sessions : s = slot /\ mem[s] \in Checkpoints
  <2>1. slot \in Sessions
    BY <1>0, TorrentStorageAssumption DEF StorageInv, SessionInv, Types, Sessions
  <2> QED
    BY <1>0, <2>1 DEF StorageInv, SessionInv, Types
<1> DEFINE m == [mem[s] EXCEPT !.verified = @ \ {p}, !.cached = @ \ {p}]
<1>2. /\ m \in Checkpoints /\ m.sel = mem[s].sel /\ m.verified = mem[s].verified \ {p}
      /\ m.cached = mem[s].cached \ {p}
  BY <1>1 DEF Checkpoints
<1>3. mem' = [mem EXCEPT ![s] = m] /\ ckpt' = m /\ control'
  BY <1>1 DEF ReadBlock, Save
<1> HIDE DEF m
<1>4. Surface' /\ NoneLost /\ NoneJoins /\ TaskStep
  BY <1>3, SurfaceKept, NothingLost, CallersStill
     DEF ReadBlock, history, DiskInv, Surface, task
<1>5. \A q \in m.cached : q \in mem[s].cached /\ q \in m.verified
  BY <1>0, <1>1, <1>2, CachedAreVerified
<1> QED
  BY <1>0, <1>1, <1>2, <1>3, <1>4, <1>5, RestingSave

\* A crash leaves the disk, and nothing in memory that could claim a slice.
LEMMA CrashDisk ==
  ASSUME StorageInv, DiskInv, Crash
  PROVE  DiskStep /\ CurHere'
<1>1. /\ \A x \in Sessions : mem'[x] = NoState /\ op'[x] = Idle
      /\ \A r \in Runs : run'[r] = NoRun
      /\ cur' = 0 /\ UNCHANGED <<disk, removed, gone>>
  BY DEF Crash
<1>2. job' \in Jobs
  BY JobTyped DEF Crash, Jobs
<1>3. NoneJoins /\ TaskStep /\ CurHere'
  BY <1>1 DEF NoneJoins, NoRun, Leasing, TaskStep, CurHere
<1>4. ASSUME NEW x \in Sessions PROVE SessionStep(x)
  BY <1>1 DEF SessionStep, Says, Commits, Reselects, CachesVerified, Idle
<1>5. Surface' /\ NoneLost /\ CkptStep
  BY <1>1, <1>2, NothingLost DEF disk, Surface, DiskInv, Jobs, CkptStep
<1> QED
  BY <1>3, <1>4, <1>5 DEF DiskStep

LEMMA InitDisk ==
  ASSUME Init
  PROVE  DiskInv
<1>1. /\ \A s \in Sessions : mem[s] = NoState /\ op[s] = Idle
      /\ good = {} /\ gone = {} /\ removed = {} /\ cache = {}
      /\ ckpt = NoState /\ manifest = FALSE /\ cur = 0 /\ job = "none"
  BY DEF Init
<1>2. Surface /\ CurHere /\ Backed(ckpt) /\ CachesVerified(ckpt)
  BY <1>1 DEF Surface, CurHere, Backed, CachesVerified
<1>3. ASSUME NEW x \in Sessions
      PROVE  Claims(x) /\ Writes(x) /\ Reselects(x) /\ CachesVerified(mem[x])
  BY <1>1 DEF Claims, Writes, Reselects, CachesVerified, Idle
<1> QED
  BY <1>2, <1>3 DEF DiskInv

\* Every step but the recheck for the task's run is one of these.
LEMMA MostStepsDisk ==
  ASSUME StorageInv, DiskInv, Next, ~ \E r \in Runs : cur = r /\ RunRechecks(r)
  PROVE  DiskStep
<1>1. ASSUME NEW s \in Sessions, StorageStep(s) PROVE DiskStep
  BY <1>1, StorageStepDisk
<1>2. ASSUME NEW t \in Threads, RequestStep(t) PROVE DiskStep
  BY <1>2, AskCreateDisk, AsksDisk, RequestCancelsDisk, RequestInvalidatesDisk,
     SelectStartsDisk, DeleteStartsDisk, RequestRemovesStateDisk, RequestForgetsDisk,
     RequestCreatesDisk, RequestInstallsDisk, RequestVerifiesDisk
     DEF RequestStep
<1>3. ASSUME NEW r \in Runs, RunStep(r) PROVE DiskStep
  BY <1>3, RunRechecksDisk, RunLeasesDisk, RunInvalidatesDisk, RunCallersDisk, CommitStartsDisk
     DEF RunStep
<1> QED
  BY <1>1, <1>2, <1>3, StartRunDisk, ReadBlockDisk, CrashDisk DEF Next

LEMMA StepKeepsDisk ==
  ASSUME StorageInv, StorageInv', DiskInv, [Next]_vars
  PROVE  DiskInv'
<1>1. ASSUME NEW s \in Sessions, StorageStep(s) PROVE DiskInv'
  BY <1>1, StorageStepKeeps, StorageStepDisk, DiskStepHolds
<1>2. ASSUME NEW t \in Threads, RequestStep(t) PROVE DiskInv'
  <2>1. DiskStep
    BY <1>2, AskCreateDisk, AsksDisk, RequestCancelsDisk, RequestInvalidatesDisk,
       SelectStartsDisk, DeleteStartsDisk, RequestRemovesStateDisk, RequestForgetsDisk,
       RequestCreatesDisk, RequestInstallsDisk, RequestVerifiesDisk
       DEF RequestStep
  <2> QED
    BY <1>2, <2>1, RequestStepKeeps, DiskStepHolds
<1>3. ASSUME NEW r \in Runs, RunStep(r) PROVE DiskInv'
  <2>1. DiskStep \/ DiskInv'
    BY <1>3, RunRechecksDisk, RunLeasesDisk, RunInvalidatesDisk, RunCallersDisk,
       CommitStartsDisk DEF RunStep
  <2> QED
    BY <1>3, <2>1, RunStepKeeps, DiskStepHolds
<1>4. CASE StartRun
  BY <1>4, StartRunKeeps, StartRunDisk, DiskStepHolds
<1>5. ASSUME NEW p \in Pieces, ReadBlock(p) PROVE DiskInv'
  BY <1>5, ReadBlockKeeps, ReadBlockDisk, DiskStepHolds
<1>6. CASE Crash
  BY <1>6, CrashDisk, DiskStepKeeps DEF StorageInv, SessionInv
<1>7. CASE UNCHANGED vars
  BY <1>7 DEF vars, DiskInv, Surface, CurHere, Backed, CachesVerified, Claims, Writes,
     Reselects, Reached, Reading, Committed
<1> QED
  BY <1>1, <1>2, <1>3, <1>4, <1>5, <1>6, <1>7 DEF Next

LEMMA DiskInvariant == Spec => [](StorageInv /\ DiskInv)
<1>1. Init => StorageInv /\ DiskInv
  BY InitStorage, InitDisk
<1>2. StorageInv /\ DiskInv /\ [Next]_vars => (StorageInv /\ DiskInv)'
  BY StepKeepsStorage, StepKeepsDisk
<1> QED
  BY <1>1, <1>2, PTL DEF Spec

\* What the task's session claims while its run is under way.
LEMMA TaskClaims ==
  ASSUME StorageInv, DiskInv, Reading
  PROVE  /\ run[cur].s = slot /\ slot \in Sessions /\ mem[slot] # NoState
         /\ \A p \in mem[slot].verified : \A f \in SelectedPart(p, mem[slot].sel) :
              SliceHere(p, f, mem[slot].sel)
<1>1. run[cur].s = slot /\ slot \in Sessions /\ mem[slot] # NoState
  BY ReadingIsOpen DEF DiskInv, CurHere, Reading, Leasing
<1>2. Claims(slot) /\ gone \subseteq removed
  BY <1>1 DEF DiskInv, Surface
<1> QED
  BY <1>1, <1>2 DEF Claims, Reached, SliceHere

\* VerifiedIsOnDisk: whatever is crashed, refused, reselected or saved by a session
\* that was replaced, no checkpoint calls a piece verified before its bytes are
\* written, and the task's run has its session's pieces in their files.  A commit
\* writes every slice under the mutex before it saves the bit, a change of selection
\* clears the bits of the pieces it changes before it saves, and the recheck reads
\* what a loaded checkpoint claims.
THEOREM VerifiedOnDisk == Spec => []VerifiedIsOnDisk
<1>1. ASSUME StorageInv, DiskInv PROVE VerifiedIsOnDisk
  <2>1. TypeOK
    BY <1>1 DEF StorageInv, SessionInv, Types, DiskInv, Surface, CachesVerified, TypeOK
  <2>2. Backed(ckpt) /\ \A s \in Sessions : Backed(mem[s])
    BY <1>1, ClaimsBacked DEF DiskInv
  <2>3. ASSUME NEW r \in Runs, r = cur, run[r].at \in {"drive", "finalize", "close"}
        PROVE  \A p \in mem[run[r].s].verified :
                 \A f \in SelectedPart(p, mem[run[r].s].sel) :
                   SliceHere(p, f, mem[run[r].s].sel)
    <3>1. Reading
      BY <2>3, TorrentStorageAssumption DEF Reading, Leasing, Runs
    <3> QED
      BY <1>1, <2>3, <3>1, TaskClaims
  <2> QED
    BY <2>1, <2>2, <2>3 DEF VerifiedIsOnDisk
<1> QED
  BY <1>1, DiskInvariant, PTL

----------------------------------------------------------------------------
\* Between the finalize of the task's run and the end of that run.
Closing == cur # 0 /\ run[cur].at = "close" /\ cur \notin shifted
ClosedInv == Closing => Whole(mem[slot].sel)

\* A run that the finalize lets through has every selected slice: it is on the
\* task's session, which claims every selected piece and selects no file of the
\* user.
LEMMA FinalizedWhole ==
  ASSUME StorageInv, DiskInv, NEW r \in Runs, r = cur, run[r].at = "finalize",
         Complete(mem[run[r].s]), \A f \in mem[run[r].s].sel : file[f] # "none"
  PROVE  Whole(mem[slot].sel)
<1> SUFFICES ASSUME NEW p \in Pieces, NEW f \in SelectedPart(p, mem[slot].sel)
             PROVE  file[f] = "nova" /\ SliceHere(p, f, mem[slot].sel)
  BY DEF Whole
<1>1. Reading
  BY TorrentStorageAssumption DEF Reading, Leasing, Runs
<1>2. /\ run[r].s = slot /\ slot \in Sessions /\ mem[slot] # NoState
      /\ \A q \in mem[slot].verified : \A g \in SelectedPart(q, mem[slot].sel) :
           SliceHere(q, g, mem[slot].sel)
  BY <1>1, TaskClaims
<1>3. p \in mem[slot].verified /\ f \in mem[slot].sel
  BY <1>2 DEF Complete, IsSelected, SelectedPart
<1>4. file[f] \in {"none", "user", "nova"} /\ f \in Files
  BY <1>2, <1>3 DEF StorageInv, SessionInv, Types, Checkpoints
<1>5. op[slot].kind \notin Loading
  <2>1. op[slot].kind # "open"
    BY <1>2 DEF StorageInv, SessionInv, InHand, Leasing
  <2>2. op[slot].kind \notin Making
    BY <1>2 DEF StorageInv, SessionInv, Private
  <2> QED
    BY <2>1, <2>2 DEF Loading
<1>6. f \notin User
  BY <1>2, <1>3, <1>5 DEF StorageInv, UserInv, UserFree
<1> QED
  BY <1>2, <1>3, <1>4, <1>6 DEF User

\* A file that NOVA made goes only in a deletion.
FilesLast == \A f \in Files : file[f] = "nova" => file'[f] = "nova" \/ f \in gone'

LEMMA FilesOutlast ==
  ASSUME Types, [Next]_vars
  PROVE  FilesLast
<1>1. ASSUME NEW s \in Sessions, StorageStep(s) PROVE FilesLast
  <2>1. CASE PrepareFile(s)
    BY <2>1 DEF PrepareFile, FilesLast, Types
  <2>2. CASE DeleteFile(s)
    BY <2>2 DEF DeleteFile, FilesLast, Types
  <2>3. CASE ~ PrepareFile(s) /\ ~ DeleteFile(s)
    <3>1. file' = file
      BY <1>1, <2>3 DEF StorageStep, OwnFile, PrepareRefused, OpenEnds, CreateManifest,
         CreateEnds, SelectClears, SelectSaves, DeleteEnds, CommitSlice, CommitCaches,
         CommitSaves, CommitFails, OpenStarts, OpenMisses, disk
    <3> QED
      BY <3>1 DEF FilesLast
  <2> QED
    BY <2>1, <2>2, <2>3
<1>2. ASSUME NEW t \in Threads, RequestStep(t) PROVE file' = file
  BY <1>2 DEF RequestStep, AskCreate, AskSelect, AskPause, AskRedownload, AskDelete,
     RequestCancels, RequestInvalidates, RequestSelects, SelectStarts, DeleteStarts,
     RequestRemovesState, RequestForgets, RequestCreates, RequestInstalls,
     RequestVerifies, disk
<1>3. ASSUME NEW r \in Runs, RunStep(r) PROVE file' = file
  BY <1>3 DEF RunStep, RunRechecks, RunLeases, RunStops, RunInvalidates, RunCancelled,
     RunFinalizes, RunCompletes, CommitStarts, disk
<1>4. ASSUME StartRun \/ Crash \/ UNCHANGED vars \/ \E p \in Pieces : ReadBlock(p)
      PROVE  file' = file
  BY <1>4 DEF StartRun, Crash, vars, ReadBlock, disk
<1> QED
  BY <1>1, <1>2, <1>3, <1>4 DEF Next, FilesLast

\* Only a change of selection changes what an open session has selected, until
\* the session is lost.
SelectionStays(x) == mem'[x] = NoState \/ mem'[x].sel = mem[x].sel \/ SelectSaves(x)

LEMMA OnlySelectReselects ==
  ASSUME StorageInv, [Next]_vars, NEW x \in Sessions, mem[x] # NoState
  PROVE  SelectionStays(x)
<1>0. /\ mem \in [Sessions -> Checkpoints \cup {NoState}] /\ mem[x] \in Checkpoints
      /\ \A s \in Sessions : s > used.sessions => mem[s] = NoState
  BY DEF StorageInv, SessionInv, Types, Fresh
<1>s. ASSUME NEW s \in Sessions, NEW m, mem' = [mem EXCEPT ![s] = m],
             s = x => m = NoState \/ m.sel = mem[x].sel
      PROVE  SelectionStays(x)
  BY <1>0, <1>s DEF SelectionStays
<1>1. ASSUME NEW s \in Sessions, StorageStep(s) PROVE SelectionStays(x)
  <2>1. CASE OwnFile(s)
    BY <1>0, <2>1, <1>s DEF OwnFile, Save, Checkpoints
  <2>2. CASE PrepareRefused(s)
    BY <1>0, <2>2 DEF PrepareRefused, SelectionStays
  <2>3. CASE SelectClears(s)
    <3> DEFINE m == [mem[s] EXCEPT !.verified = @ \ Changed(s, op[s].sel),
                                   !.cached = @ \ Changed(s, op[s].sel)]
    <3>1. mem' = [mem EXCEPT ![s] = m]
      BY <1>0, <2>3 DEF SelectClears
    <3>2. s = x => m.sel = mem[x].sel
      BY <1>0 DEF Checkpoints
    <3> HIDE DEF m
    <3> QED
      BY <3>1, <3>2, <1>s
  <2>4. CASE SelectSaves(s)
    BY <1>0, <2>4 DEF SelectSaves, Save, SelectionStays
  <2>5. CASE DeleteFile(s)
    <3> DEFINE m == [mem[s] EXCEPT !.owned = @ \ {Lowest(op[s].todo)}]
    <3>1. mem' = [mem EXCEPT ![s] = m]
      BY <1>0, <2>5 DEF DeleteFile
    <3>2. s = x => m.sel = mem[x].sel
      BY <1>0 DEF Checkpoints
    <3> HIDE DEF m
    <3> QED
      BY <3>1, <3>2, <1>s
  <2>6. CASE CommitSaves(s)
    <3> DEFINE p == Committed(s)
               m == [mem[s] EXCEPT !.verified = @ \cup {p},
                       !.cached = IF IsBoundary(p, mem[s].sel) THEN @ \cup {p} ELSE @ \ {p}]
    <3>1. mem' = [mem EXCEPT ![s] = m]
      BY <2>6 DEF CommitSaves, Save
    <3>2. s = x => m.sel = mem[x].sel
      BY <1>0 DEF Checkpoints
    <3> HIDE DEF m
    <3> QED
      BY <3>1, <3>2, <1>s
  <2>7. CASE \E who \in Callers(s) : OpenStarts(who, s)
    BY <1>0, <2>7 DEF OpenStarts, SelectionStays
  <2>8. CASE UNCHANGED mem
    BY <2>8 DEF SelectionStays
  <2>9. OwnFile(s) \/ PrepareRefused(s) \/ SelectClears(s) \/ SelectSaves(s) \/ DeleteFile(s)
        \/ CommitSaves(s) \/ (\E who \in Callers(s) : OpenStarts(who, s)) \/ UNCHANGED mem
    BY <1>1 DEF StorageStep, PrepareFile, OpenEnds, CreateManifest, CreateEnds, DeleteEnds,
       CommitSlice, CommitCaches, CommitFails, OpenMisses
  <2> QED
    BY <2>1, <2>2, <2>3, <2>4, <2>5, <2>6, <2>7, <2>8, <2>9
<1>m. ASSUME NEW s, NEW m, s = used.sessions + 1, s <= MaxSessions, mem' = [mem EXCEPT ![s] = m]
      PROVE  SelectionStays(x)
  <2>1. s # x
    BY <1>0, <1>m DEF StorageInv, SessionInv, Types, Sessions
  <2> QED
    BY <1>0, <1>m, <2>1 DEF SelectionStays
<1>r. ASSUME NEW s \in Sessions, Recheck(s), mem[s] # NoState PROVE SelectionStays(x)
  BY <1>0, <1>r, <1>s, Rechecked
<1>g. ASSUME NEW s \in Sessions, NEW g, mem' = [mem EXCEPT ![s] = [mem[s] EXCEPT !.gen = g]]
      PROVE  SelectionStays(x)
  <2> DEFINE m == [mem[s] EXCEPT !.gen = g]
  <2>1. s = x => m.sel = mem[x].sel
    BY <1>0 DEF Checkpoints
  <2>2. mem' = [mem EXCEPT ![s] = m]
    BY <1>g
  <2> HIDE DEF m
  <2> QED
    BY <2>1, <2>2, <1>s
<1>2. ASSUME NEW t \in Threads, RequestStep(t) PROVE SelectionStays(x)
  <2>0. used.sessions \in Nat /\ MaxSessions \in Nat
    BY TorrentStorageAssumption DEF StorageInv, SessionInv, Types
  <2>1. CASE \E sel \in Selections : AskCreate(t, sel)
    <3>1. PICK sel \in Selections : AskCreate(t, sel)
      BY <2>1
    <3>2. /\ mem' = [mem EXCEPT ![used.sessions + 1] = NewCheckpoint(sel)]
          /\ used.sessions < MaxSessions
      BY <3>1 DEF AskCreate, Save
    <3>3. used.sessions + 1 <= MaxSessions
      BY <2>0, <3>2
    <3> QED
      BY <3>2, <3>3, <1>m
  <2>2. CASE RequestCreates(t)
    <3>1. CASE UNCHANGED mem
      BY <3>1 DEF SelectionStays
    <3>2. CASE ~ UNCHANGED mem
      BY <2>2, <3>2, <2>0, <1>m DEF RequestCreates, CreateStarts, Save
    <3> QED
      BY <3>1, <3>2
  <2>3. CASE RequestInvalidates(t)
    <3>1. CASE req[t].at = "invalidate"
      <4>1. req[t].s \in Sessions
        BY <3>1, RequestTyped
      <4> QED
        BY <2>3, <3>1, <4>1, <1>g DEF RequestInvalidates, Save
    <3>2. CASE req[t].at # "invalidate"
      BY <2>3, <3>2 DEF RequestInvalidates, SelectionStays
    <3> QED
      BY <3>1, <3>2
  <2>4. CASE RequestVerifies(t)
    <3>1. req[t].s \in Sessions
      BY <2>4, RequestTyped DEF RequestVerifies
    <3> QED
      BY <2>4, <3>1, <1>r DEF RequestVerifies, Opened
  <2>5. CASE UNCHANGED mem
    BY <2>5 DEF SelectionStays
  <2>6. \/ \E sel \in Selections : AskCreate(t, sel)
        \/ RequestCreates(t) \/ RequestInvalidates(t) \/ RequestVerifies(t) \/ UNCHANGED mem
    BY <1>2 DEF RequestStep, AskSelect, AskPause, AskRedownload, AskDelete, RequestCancels,
       RequestSelects, SelectStarts, DeleteStarts, RequestRemovesState, RequestForgets,
       RequestInstalls
  <2> QED
    BY <2>1, <2>2, <2>3, <2>4, <2>5, <2>6
<1>3. ASSUME NEW r \in Runs, RunStep(r) PROVE SelectionStays(x)
  <2>1. CASE RunRechecks(r)
    BY <2>1, <1>r, RunTyped DEF RunRechecks, Opened, StorageInv, SessionInv
  <2>2. CASE RunLeases(r)
    BY <2>2, <1>g, RunTyped DEF RunLeases, Save, StorageInv, SessionInv
  <2>3. CASE RunInvalidates(r)
    BY <2>3, <1>g, RunTyped DEF RunInvalidates, Save, StorageInv, SessionInv
  <2>4. CASE UNCHANGED mem
    BY <2>4 DEF SelectionStays
  <2>5. RunRechecks(r) \/ RunLeases(r) \/ RunInvalidates(r) \/ UNCHANGED mem
    BY <1>3 DEF RunStep, RunStops, RunCancelled, RunFinalizes, RunCompletes, CommitStarts
  <2> QED
    BY <2>1, <2>2, <2>3, <2>4, <2>5
<1>4. ASSUME NEW p \in Pieces, ReadBlock(p) PROVE SelectionStays(x)
  <2> DEFINE m == [mem[slot] EXCEPT !.verified = @ \ {p}, !.cached = @ \ {p}]
  <2>1. slot \in Sessions /\ mem' = [mem EXCEPT ![slot] = m]
    BY <1>4 DEF ReadBlock, Save, StorageInv, SessionInv, Named
  <2>2. slot = x => m.sel = mem[x].sel
    BY <1>0 DEF Checkpoints
  <2> HIDE DEF m
  <2> QED
    BY <2>1, <2>2, <1>s
<1>5. CASE StartRun \/ Crash \/ UNCHANGED vars
  BY <1>5 DEF StartRun, Crash, vars, SelectionStays
<1> QED
  BY <1>1, <1>2, <1>3, <1>4, <1>5 DEF Next

\* A run comes to its close only through the finalize...
LEMMA OnlyFinalizeCloses ==
  ASSUME StorageInv, [Next]_vars, NEW r \in Runs, run'[r].at = "close", run[r].at # "close"
  PROVE  /\ RunFinalizes(r) /\ Complete(mem[run[r].s])
         /\ \A f \in mem[run[r].s].sel : file[f] # "none"
<1>0. Types /\ run \in [Runs -> RunStates]
  BY DEF StorageInv, SessionInv, Types
<1>c. ASSUME NEW s, run' = CancelLive(s) PROVE FALSE
  BY <1>0, <1>c, LiveCancelled
<1>e. ASSUME NEW q \in Runs, NEW n, run' = [run EXCEPT ![q] = n], n.at # "close" PROVE FALSE
  BY <1>0, <1>e
<1>o. ASSUME NEW q \in Runs, RunOver(q) PROVE FALSE
  BY <1>e, <1>o DEF RunOver, NoRun
<1>t. ASSUME NEW q \in Runs, run' = Stopping(q) PROVE FALSE
  BY <1>0, <1>t, LiveCancelled DEF Stopping
<1>1. ASSUME NEW s \in Sessions, StorageStep(s) PROVE FALSE
  <2>1. CASE PrepareRefused(s) \/ \E who \in Callers(s) : OpenMisses(who, s)
    <3>1. PICK who \in Whos : CallerFails(who)
      <4>1. CASE PrepareRefused(s)
        <5>1. op[s] \in Operations /\ op[s].kind # "commit"
          BY <1>0, <4>1, BusyTyped DEF PrepareRefused, Preparing, Idle
        <5> QED
          BY <4>1, <5>1 DEF PrepareRefused, Operations
      <4> QED
        BY <2>1, <4>1, CallersAreTyped DEF OpenMisses
    <3> QED
      BY <3>1, <1>o DEF CallerFails, Whos
  <2>2. CASE CommitSaves(s)
    <3>1. op[s].who[2] \in Runs
      BY <1>0, <2>2, CommitTyped DEF CommitSaves
    <3> QED
      BY <1>0, <2>2, <3>1 DEF CommitSaves, RunStates
  <2>3. CASE CommitFails(s)
    <3>1. op[s].who[2] \in Runs
      BY <1>0, <2>3, CommitTyped DEF CommitFails
    <3> QED
      BY <2>3, <3>1, <1>t DEF CommitFails
  <2>4. PrepareRefused(s) \/ (\E who \in Callers(s) : OpenMisses(who, s)) \/ CommitSaves(s)
        \/ CommitFails(s)
    BY <1>1 DEF StorageStep, PrepareFile, OwnFile, OpenEnds, CreateManifest, CreateEnds,
       SelectClears, SelectSaves, DeleteFile, DeleteEnds, CommitSlice, CommitCaches, OpenStarts
  <2> QED
    BY <2>1, <2>2, <2>3, <2>4
<1>2. ASSUME NEW t \in Threads, RequestStep(t) PROVE FALSE
  <2>1. ASSUME run' = StopCurrent PROVE FALSE
    BY <1>0, <2>1, CurrentStopped
  <2>2. UNCHANGED run \/ run' = StopCurrent \/ \E s : run' = CancelLive(s)
    BY <1>2 DEF RequestStep, AskCreate, AskSelect, AskPause, AskRedownload, AskDelete,
       RequestCancels, RequestInvalidates, RequestSelects, SelectStarts, DeleteStarts,
       RequestRemovesState, RequestForgets, RequestCreates, RequestInstalls, RequestVerifies
  <2> QED
    BY <1>c, <2>1, <2>2
<1>3. ASSUME NEW q \in Runs, RunStep(q), ~ RunFinalizes(r) PROVE FALSE
  <2>1. CASE RunRechecks(q)
    <3>1. CASE run' = [run EXCEPT ![q].at = "lease"]
      BY <1>0, <3>1
    <3> QED
      BY <1>o, <2>1, <3>1 DEF RunRechecks
  <2>2. CASE RunLeases(q)
    <3> DEFINE c == CancelLive(run[q].s)
               todo == {p \in Pieces : IsSelected(p, mem[run[q].s].sel)
                                       /\ p \notin mem[run[q].s].verified}
    <3>1. c \in [Runs -> RunStates] /\ \A x \in Runs : c[x].at = run[x].at
      BY <1>0, LiveCancelled
    <3>2. run' = [c EXCEPT ![q].at = IF todo = {} THEN "finalize" ELSE "drive",
                           ![q].todo = todo, ![q].cancelled = FALSE]
      BY <2>2 DEF RunLeases
    <3> HIDE DEF c, todo
    <3>3. run'[q].at # "close"
      <4> DEFINE at == IF todo = {} THEN "finalize" ELSE "drive"
                 n == [c[q] EXCEPT !.at = at, !.todo = todo, !.cancelled = FALSE]
      <4>1. run'[q] = n
        BY <3>1, <3>2
      <4>2. c[q] \in RunStates /\ at # "close"
        BY <3>1
      <4> HIDE DEF at
      <4>3. n.at = at
        BY <4>2 DEF RunStates
      <4> QED
        BY <4>1, <4>2, <4>3
    <3>4. \A x \in Runs \ {q} : run'[x] = c[x]
      BY <3>1, <3>2
    <3> QED
      BY <3>1, <3>3, <3>4
  <2>3. CASE RunFinalizes(q)
    BY <1>0, <1>3, <1>o, <2>3 DEF RunFinalizes
  <2>4. CASE RunCompletes(q)
    BY <1>o, <1>e, <2>4 DEF RunCompletes, NoRun
  <2>5. CASE RunStops(q) \/ RunInvalidates(q) \/ RunCancelled(q) \/ \E p \in Pieces : CommitStarts(q, p)
    BY <1>o, <1>t, <2>5 DEF RunStops, RunInvalidates, RunCancelled, CommitStarts
  <2> QED
    BY <1>3, <2>1, <2>2, <2>3, <2>4, <2>5 DEF RunStep
<1>4. CASE StartRun
  BY <1>0, <1>4, CurrentStopped DEF StartRun
<1>5. CASE Crash
  <2>1. run'[r] = NoRun
    BY <1>5 DEF Crash
  <2> QED
    BY <2>1 DEF NoRun
<1>u. CASE UNCHANGED vars \/ \E p \in Pieces : ReadBlock(p)
  BY <1>u DEF vars, ReadBlock
<1>6. RunFinalizes(r)
  BY <1>1, <1>2, <1>3, <1>4, <1>5, <1>u DEF Next
<1> QED
  BY <1>6, <1>o DEF RunFinalizes

\* ...and only a run at its close completes a task, its own.
LEMMA OnlyCloseCompletes ==
  ASSUME [Next]_vars, job # "done", job' = "done"
  PROVE  \E r \in Runs : run[r].at = "close" /\ cur = r
<1>1. ASSUME NEW s \in Sessions, StorageStep(s) PROVE FALSE
  <2>1. ASSUME NEW who, CallerFails(who) PROVE FALSE
    BY <2>1 DEF CallerFails, RunOver, Inactive
  <2> QED
    BY <1>1, <2>1 DEF StorageStep, PrepareFile, OwnFile, PrepareRefused, OpenEnds,
       CreateManifest, CreateEnds, SelectClears, SelectSaves, DeleteFile, DeleteEnds,
       CommitSlice, CommitCaches, CommitSaves, CommitFails, OpenStarts, OpenMisses, task
<1>2. ASSUME NEW t \in Threads, RequestStep(t) PROVE FALSE
  BY <1>2 DEF RequestStep, AskCreate, AskSelect, AskPause, AskRedownload, AskDelete,
     RequestCancels, RequestInvalidates, RequestSelects, SelectStarts, DeleteStarts,
     RequestRemovesState, RequestForgets, RequestCreates, RequestInstalls,
     RequestVerifies, task
<1>3. ASSUME NEW r \in Runs, RunStep(r), ~ RunCompletes(r) PROVE FALSE
  BY <1>3 DEF RunStep, RunRechecks, RunLeases, RunStops, RunInvalidates, RunCancelled,
     RunFinalizes, CommitStarts, RunOver, Inactive, task
<1>4. ASSUME StartRun \/ Crash \/ UNCHANGED vars \/ \E p \in Pieces : ReadBlock(p) PROVE FALSE
  BY <1>4 DEF StartRun, Crash, vars, ReadBlock, task
<1>5. PICK r \in Runs : RunCompletes(r)
  BY <1>1, <1>2, <1>3, <1>4 DEF Next
<1> QED
  BY <1>5 DEF RunCompletes, RunOver, Inactive

\* A selection saved while the run closes is remembered.
LEMMA ShiftedStays ==
  ASSUME [Next]_vars
  PROVE  /\ shifted \subseteq shifted'
         /\ \A s \in Sessions : SelectSaves(s) =>
              \A r \in Runs : run[r].s = s /\ run[r].at = "close" => r \in shifted'
<1>1. ASSUME NEW s \in Sessions, StorageStep(s) PROVE shifted \subseteq shifted'
  BY <1>1 DEF StorageStep, PrepareFile, OwnFile, PrepareRefused, OpenEnds,
     CreateManifest, CreateEnds, SelectClears, SelectSaves, DeleteFile, DeleteEnds,
     CommitSlice, CommitCaches, CommitSaves, CommitFails, OpenStarts, OpenMisses, history
<1>2. ASSUME NEW t \in Threads, RequestStep(t) PROVE shifted' = shifted
  BY <1>2 DEF RequestStep, AskCreate, AskSelect, AskPause, AskRedownload, AskDelete,
     RequestCancels, RequestInvalidates, RequestSelects, SelectStarts, DeleteStarts,
     RequestRemovesState, RequestForgets, RequestCreates, RequestInstalls,
     RequestVerifies, history
<1>3. ASSUME NEW r \in Runs, RunStep(r) PROVE shifted' = shifted
  BY <1>3 DEF RunStep, RunRechecks, RunLeases, RunStops, RunInvalidates, RunCancelled,
     RunFinalizes, RunCompletes, CommitStarts, history
<1>4. ASSUME StartRun \/ Crash \/ UNCHANGED vars \/ \E p \in Pieces : ReadBlock(p)
      PROVE  shifted' = shifted
  BY <1>4 DEF StartRun, Crash, vars, ReadBlock, history
<1> QED
  BY <1>1, <1>2, <1>3, <1>4 DEF Next, SelectSaves

\* A closing run was finalized in this step, or was closing before it, on the
\* same session.
LEMMA ClosingBefore ==
  ASSUME StorageInv, StorageInv', DiskInv, DiskInv', Next, Closing'
  PROVE  /\ cur' = cur /\ slot' = slot /\ cur \in Runs /\ run[cur].s = slot
         /\ slot \in Sessions /\ mem[slot] # NoState /\ mem'[slot] # NoState
         /\ run[cur].at # "open"
<1>1. cur' \in Runs /\ cur' # 0
  BY TorrentStorageAssumption DEF Closing, StorageInv, SessionInv, Types, Runs
<1>2. Reading'
  BY DEF Closing, Reading, Leasing
<1>3. CASE \E r \in Runs : cur = r /\ RunRechecks(r)
  <2>1. PICK r \in Runs : cur = r /\ RunRechecks(r)
    BY <1>3
  <2>2. cur' = cur /\ run[r].at = "open"
    BY <2>1 DEF RunRechecks, RunOver, task
  <2>3. run'[cur'].at = "close" /\ run[cur'].at # "close"
    BY <2>1, <2>2 DEF Closing
  <2>4. RunFinalizes(cur')
    BY <1>1, <2>3, OnlyFinalizeCloses
  <2> QED
    BY <2>1, <2>2, <2>4 DEF RunFinalizes
<1>4. CASE ~ \E r \in Runs : cur = r /\ RunRechecks(r)
  <2>1. DiskStep
    BY <1>4, MostStepsDisk
  <2>2. Reading /\ cur' = cur /\ slot' = slot
    BY <1>2, <2>1, ReadingKept DEF DiskStep, StorageInv, SessionInv
  <2>3. run[cur].s = slot /\ slot \in Sessions /\ mem[slot] # NoState
    BY <2>2, TaskClaims
  <2>4. mem'[slot] # NoState
    <3>1. (slot \in Sessions /\ mem[slot] # NoState)'
      BY <1>2, ReadingIsOpen, PTL DEF DiskInv
    <3> QED
      BY <2>2, <3>1
  <2> QED
    BY <1>1, <2>2, <2>3, <2>4 DEF Reading, Leasing
<1> QED
  BY <1>3, <1>4

LEMMA StepKeepsClosed ==
  ASSUME StorageInv, StorageInv', DiskInv, DiskInv', ClosedInv, [Next]_vars
  PROVE  ClosedInv'
<1>1. CASE UNCHANGED vars
  BY <1>1 DEF vars, ClosedInv, Closing, Whole, SliceHere
<1>2. CASE Next
  <2> SUFFICES ASSUME Closing' PROVE Whole(mem[slot].sel)'
    BY DEF ClosedInv
  <2>1. /\ cur' = cur /\ slot' = slot /\ cur \in Runs /\ run[cur].s = slot
        /\ slot \in Sessions /\ mem[slot] # NoState /\ mem'[slot] # NoState
        /\ run[cur].at # "open"
    BY <1>2, ClosingBefore
  <2>2. DiskStep
    BY <1>2, <2>1, MostStepsDisk DEF RunRechecks
  <2>3. Whole(mem[slot].sel)
    <3>1. CASE run[cur].at = "close"
      <4>1. cur \notin shifted
        BY <1>2, <2>1, ShiftedStays DEF Closing
      <4> QED
        BY <2>1, <3>1, <4>1, TorrentStorageAssumption DEF ClosedInv, Closing, Runs
    <3>2. CASE run[cur].at # "close"
      BY <1>2, <2>1, <3>2, OnlyFinalizeCloses, FinalizedWhole DEF Closing, RunFinalizes
    <3> QED
      BY <3>1, <3>2
  <2>4. mem'[slot].sel = mem[slot].sel
    <3>1. SelectSaves(slot) => run[cur].at # "close"
      BY <1>2, <2>1, ShiftedStays DEF Closing
    <3>2. ~ SelectSaves(slot)
      <4>1. ASSUME SelectSaves(slot) PROVE run' = run
        BY <4>1 DEF SelectSaves
      <4> QED
        BY <2>1, <3>1, <4>1 DEF Closing
    <3> QED
      BY <1>2, <2>1, <3>2, OnlySelectReselects DEF SelectionStays
  <2>5. FilesLast /\ NoneLost
    BY <1>2, <2>2, FilesOutlast DEF DiskStep, StorageInv, SessionInv
  <2> SUFFICES ASSUME NEW p \in Pieces, NEW f \in SelectedPart(p, mem'[slot'].sel)
               PROVE  /\ file'[f] = "nova" \/ f \in gone'
                      /\ \/ <<p, f>> \in good'
                         \/ f \in IF IsBoundary(p, mem'[slot'].sel) THEN removed' ELSE gone'
    BY DEF Whole, SliceHere
  <2>6. f \in SelectedPart(p, mem[slot].sel) /\ f \in Files
    BY <2>1, <2>4, TorrentStorageAssumption DEF SelectedPart
  <2>7. (file[f] = "nova" \/ f \in gone) /\ SliceHere(p, f, mem[slot].sel)
    BY <2>3, <2>6 DEF Whole
  <2>8. file'[f] = "nova" \/ f \in gone'
    BY <2>5, <2>6, <2>7 DEF FilesLast, NoneLost
  <2>9. <<p, f>> \in good' \/ f \in (IF IsBoundary(p, mem[slot].sel) THEN removed' ELSE gone')
    BY <2>5, <2>7 DEF SliceHere, NoneLost
  <2> QED
    BY <2>1, <2>4, <2>8, <2>9
<1> QED
  BY <1>1, <1>2

LEMMA ClosedInvariant == Spec => [](StorageInv /\ DiskInv /\ ClosedInv)
<1>1. Init => ClosedInv
  BY DEF Init, ClosedInv, Closing
<1>2. StorageInv /\ DiskInv /\ ClosedInv /\ [Next]_vars => ClosedInv'
  BY StepKeepsStorage, StepKeepsDisk, StepKeepsClosed
<1> QED
  BY <1>1, <1>2, DiskInvariant, PTL DEF Spec

\* CompletedIsWhole: a task becomes completed only with every selected slice on disk,
\* in files that NOVA made, but for what a deletion took after the recheck, unless its
\* selection was changed after the finalize.  The finalize finds the slices there and
\* lets the session go; whatever comes before the last of the status changes takes
\* them only by deleting a file, and the run that completes the task is still the
\* task's own.
THEOREM CompletedWhole == Spec => CompletedIsWhole
<1>1. ASSUME StorageInv, DiskInv, ClosedInv, [Next]_vars, job # "done", job' = "done",
             cur \notin shifted
      PROVE  Whole(mem[slot].sel)
  <2>1. PICK r \in Runs : run[r].at = "close" /\ cur = r
    BY <1>1, OnlyCloseCompletes
  <2> QED
    BY <1>1, <2>1, TorrentStorageAssumption DEF ClosedInv, Closing, Runs
<1>2. StorageInv /\ DiskInv /\ ClosedInv /\ [Next]_vars =>
        [job # "done" /\ job' = "done" /\ cur \notin shifted => Whole(mem[slot].sel)]_vars
  BY <1>1
<1> QED
  BY <1>2, ClosedInvariant, PTL DEF Spec, CompletedIsWhole

=============================================================================

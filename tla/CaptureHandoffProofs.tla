------------------------ MODULE CaptureHandoffProofs ------------------------
(***************************************************************************)
(* The hand-off of captures for any number of captures, jobs, retry runs,   *)
(* kills of the worker and late requests: what is recorded as sent was      *)
(* accepted and stays sent, and a retry makes no second review.             *)
(***************************************************************************)
EXTENDS CaptureHandoff, FiniteSetTheorems, SequenceTheorems, TLAPS

-----------------------------------------------------------------------------
(* The inductive invariant                                                  *)

RunRecord ==
  [at: Places, job: Claims \cup {NoJob}, todo: SUBSET Claims]

Unsettled == {"pending", "failed", "sending"}

\* The outbox.  A kill takes an attempt from the count only once: the one that was
\* under way.
OutboxInv ==
  /\ DOMAIN jobs \subseteq JobIds /\ IsFiniteSet(DOMAIN jobs)
  /\ Cardinality(DOMAIN jobs) <= MAX_OUTBOX_JOBS
  /\ kills \in 0 .. MaxKills
  /\ \A id \in DOMAIN jobs :
       /\ jobs[id] \in Job
       /\ jobs[id].status = "sent" => jobs[id].accepted
       /\ jobs[id].attempts <= MAX_ATTEMPTS + kills
       /\ jobs[id].status \in Unsettled =>
            \/ jobs[id].attempts < MAX_ATTEMPTS + kills
            \/ \E f \in Flights : run[f].job.id = id

Working(f) == run[f].at \notin {"idle", "next"}

\* What a run holds in memory agrees with the outbox: no other run has touched the
\* jobs it claimed, the one it works on is "sending", and it has made that attempt.
RunAgrees(f) ==
  /\ run[f].at = "idle" => run[f].todo = {}
  /\ Working(f) => run[f].job # NoJob
  /\ ~ Working(f) => run[f].job = NoJob
  /\ \A j \in run[f].todo :
       /\ \A i \in run[f].todo : i.id = j.id => i = j
       /\ j.id # run[f].job.id
       /\ j.attempts < MAX_ATTEMPTS + kills
       /\ j.id \in DOMAIN jobs => jobs[j.id].status \in Unsettled
  /\ Working(f) =>
       /\ run[f].job.attempts <= MAX_ATTEMPTS + kills
       /\ run[f].job.id \in DOMAIN jobs =>
            /\ jobs[run[f].job.id].status = "sending"
            /\ jobs[run[f].job.id].attempts = run[f].job.attempts
            /\ run[f].at = "accepted" => jobs[run[f].job.id].accepted

\* SingleFlight: of the runs, at most one is not idle.
RunsInv ==
  /\ run \in [Flights -> RunRecord]
  /\ \A f, g \in Flights : run[f].at # "idle" /\ run[g].at # "idle" => f = g
  /\ \A f \in Flights : RunAgrees(f)

HandoffInv == OutboxInv /\ RunsInv

-----------------------------------------------------------------------------
(* Steps that leave the outcome of every job alone                          *)

LEMMA Bounds ==
  /\ MAX_ATTEMPTS \in Nat /\ MAX_OUTBOX_JOBS \in Nat /\ MaxKills \in Nat
  /\ MAX_ATTEMPTS > 0 /\ MAX_OUTBOX_JOBS > 0
  /\ JobIds \subseteq Nat /\ 0 \notin JobIds
  BY HandoffAssumption

\* Jobs may go and flags change, but no status and no attempt.
Benign ==
  /\ DOMAIN jobs' \subseteq DOMAIN jobs
  /\ \A id \in DOMAIN jobs' :
       /\ jobs'[id] \in Job
       /\ jobs'[id].status = jobs[id].status
       /\ jobs'[id].attempts = jobs[id].attempts
       /\ jobs[id].accepted => jobs'[id].accepted

LEMMA SmallerOutbox ==
  ASSUME OutboxInv, NEW S, S \subseteq DOMAIN jobs
  PROVE  IsFiniteSet(S) /\ Cardinality(S) <= MAX_OUTBOX_JOBS
<1>1. IsFiniteSet(S) /\ Cardinality(S) <= Cardinality(DOMAIN jobs)
  BY FS_Subset DEF OutboxInv
<1>2. Cardinality(S) \in Nat /\ Cardinality(DOMAIN jobs) \in Nat
  BY <1>1, FS_CardinalityType DEF OutboxInv
<1> QED
  BY <1>1, <1>2, Bounds DEF OutboxInv

LEMMA BenignKeeps ==
  ASSUME HandoffInv, Benign, UNCHANGED <<run, kills>>
  PROVE  HandoffInv'
<1>1. OutboxInv'
  BY SmallerOutbox DEF HandoffInv, OutboxInv, Benign
<1>2. RunsInv'
  BY DEF HandoffInv, RunsInv, RunAgrees, Working, Benign
<1> QED
  BY <1>1, <1>2 DEF HandoffInv

\* The run goes on with its job.
LEMMA GoesKeeps ==
  ASSUME HandoffInv, Benign, UNCHANGED kills, NEW f \in Flights, Working(f),
         NEW place \in Places \ {"idle", "next"}, Goes(f, place),
         place = "accepted" /\ run[f].job.id \in DOMAIN jobs' =>
           jobs'[run[f].job.id].accepted
  PROVE  HandoffInv'
<1>1. run' \in [Flights -> RunRecord]
  BY DEF Goes, HandoffInv, RunsInv, RunRecord
<1>2. /\ \A g \in Flights : run'[g].job = run[g].job /\ run'[g].todo = run[g].todo
      /\ \A g \in Flights : g # f => run'[g] = run[g]
      /\ run'[f].at = place
  BY DEF Goes, HandoffInv, RunsInv, RunRecord
<1>3. OutboxInv'
  BY <1>2, SmallerOutbox DEF HandoffInv, OutboxInv, Benign
<1>4. \A g, h \in Flights : run'[g].at # "idle" /\ run'[h].at # "idle" => g = h
  BY <1>2 DEF HandoffInv, RunsInv, Working
<1>5. ASSUME NEW g \in Flights PROVE RunAgrees(g)'
  BY <1>2 DEF HandoffInv, RunsInv, RunAgrees, Working, Benign
<1> QED
  BY <1>1, <1>3, <1>4, <1>5 DEF HandoffInv, RunsInv

LEMMA TakesIsBenign ==
  ASSUME HandoffInv, NEW id, NEW k, Takes(id, k)
  PROVE  Benign /\ (id \in DOMAIN jobs' => jobs'[id].accepted)
<1>1. CASE id \notin DOMAIN jobs
  BY <1>1 DEF HandoffInv, OutboxInv, Takes, Benign
<1>2. CASE id \in DOMAIN jobs
  <2> DEFINE new == [jobs[id] EXCEPT !.accepted = TRUE]
  <2>1. /\ new \in Job /\ new.status = jobs[id].status
        /\ new.attempts = jobs[id].attempts /\ new.accepted = TRUE
    BY <1>2 DEF HandoffInv, OutboxInv, Job
  <2>2. jobs' = [i \in DOMAIN jobs |-> IF i = id THEN new ELSE jobs[i]]
    BY <1>2 DEF Takes, Update
  <2> HIDE DEF new
  <2> QED
    BY <2>1, <2>2 DEF HandoffInv, OutboxInv, Benign
<1> QED
  BY <1>1, <1>2

-----------------------------------------------------------------------------
(* Captures                                                                 *)

LEMMA KeptIsBenign ==
  ASSUME HandoffInv, NEW old, jobs' = Kept(old)
  PROVE  Benign
  BY DEF HandoffInv, OutboxInv, Kept, Restrict, Benign

\* A new job, under an id that nothing refers to, in an outbox with room for it.
LEMMA StoredKeeps ==
  ASSUME HandoffInv, NEW rest, NEW id \in JobIds \ InUse, NEW k \in Keys,
         DOMAIN rest \subseteq DOMAIN jobs, \A i \in DOMAIN rest : rest[i] = jobs[i],
         Cardinality(DOMAIN rest) < MAX_OUTBOX_JOBS,
         jobs' = Stored(rest, id, NewJob(k)), UNCHANGED <<run, kills>>
  PROVE  HandoffInv'
<1>1. /\ id \notin DOMAIN jobs
      /\ \A f \in Flights : id # run[f].job.id /\ \A j \in run[f].todo : id # j.id
  BY DEF InUse
<1>2. /\ DOMAIN jobs' = DOMAIN rest \cup {id} /\ jobs'[id] = NewJob(k)
      /\ \A i \in DOMAIN rest : jobs'[i] = jobs[i]
  BY <1>1 DEF Stored
<1>3. IsFiniteSet(DOMAIN jobs') /\ Cardinality(DOMAIN jobs') <= MAX_OUTBOX_JOBS
  <2>1. IsFiniteSet(DOMAIN rest) /\ id \notin DOMAIN rest
    BY <1>1, SmallerOutbox DEF HandoffInv
  <2>2. /\ IsFiniteSet(DOMAIN rest \cup {id})
        /\ Cardinality(DOMAIN rest \cup {id}) = Cardinality(DOMAIN rest) + 1
    BY <2>1, FS_AddElement
  <2> QED
    BY <1>2, <2>1, <2>2, FS_CardinalityType, Bounds
<1>4. /\ NewJob(k) \in Job /\ NewJob(k).status = "pending" /\ NewJob(k).attempts = 0
  BY Bounds DEF NewJob, Job, Statuses
<1>5. OutboxInv'
  <2>1. ASSUME NEW i \in DOMAIN jobs'
        PROVE  /\ jobs'[i] \in Job
               /\ jobs'[i].status = "sent" => jobs'[i].accepted
               /\ jobs'[i].attempts <= MAX_ATTEMPTS + kills'
               /\ jobs'[i].status \in Unsettled =>
                    \/ jobs'[i].attempts < MAX_ATTEMPTS + kills'
                    \/ \E f \in Flights : run'[f].job.id = i
    <3>1. CASE i = id
      BY <3>1, <1>2, <1>4, Bounds DEF HandoffInv, OutboxInv
    <3>2. CASE i # id
      BY <3>2, <1>2 DEF HandoffInv, OutboxInv
    <3> QED
      BY <3>1, <3>2
  <2> QED
    BY <1>2, <1>3, <2>1 DEF HandoffInv, OutboxInv
<1>6. RunsInv'
  BY <1>1, <1>2 DEF HandoffInv, RunsInv, RunAgrees, Working
<1> QED
  BY <1>5, <1>6 DEF HandoffInv

LEMMA CaptureKeeps ==
  ASSUME HandoffInv, NEW k \in Keys, Capture(k)
  PROVE  HandoffInv'
<1>1. UNCHANGED <<run, kills>>
  BY DEF Capture, boundVars
<1>2. PICK old \in SUBSET Terminal :
        LET store == Kept(old) IN
        \/ jobs' = store
        \/ \E id \in JobIds \ InUse :
           \/ /\ Cardinality(DOMAIN store) < MAX_OUTBOX_JOBS
              /\ jobs' = Stored(store, id, NewJob(k))
           \/ \E gone \in Removable(store) :
                jobs' = Stored(Restrict(store, DOMAIN store \ {gone}), id, NewJob(k))
  BY DEF Capture
<1> DEFINE store == Kept(old)
<1>3. /\ DOMAIN store \subseteq DOMAIN jobs
      /\ \A i \in DOMAIN store : store[i] = jobs[i]
  BY DEF Kept, Restrict
<1>4. CASE jobs' = store
  BY <1>1, <1>4, KeptIsBenign, BenignKeeps
<1>5. ASSUME NEW id \in JobIds \ InUse, Cardinality(DOMAIN store) < MAX_OUTBOX_JOBS,
             jobs' = Stored(store, id, NewJob(k))
      PROVE  HandoffInv'
  BY <1>1, <1>3, <1>5, StoredKeeps
<1>6. ASSUME NEW id \in JobIds \ InUse, NEW gone \in Removable(store),
             jobs' = Stored(Restrict(store, DOMAIN store \ {gone}), id, NewJob(k))
      PROVE  HandoffInv'
  <2> DEFINE rest == Restrict(store, DOMAIN store \ {gone})
  <2>1. /\ DOMAIN rest = DOMAIN store \ {gone} /\ gone \in DOMAIN store
        /\ \A i \in DOMAIN rest : rest[i] = store[i]
    BY <1>6 DEF Restrict, Removable
  <2>2. IsFiniteSet(DOMAIN store) /\ Cardinality(DOMAIN store) <= MAX_OUTBOX_JOBS
    BY <1>3, SmallerOutbox DEF HandoffInv
  <2> HIDE DEF rest, store
  <2>3. Cardinality(DOMAIN rest) = Cardinality(DOMAIN store) - 1
    BY <2>1, <2>2, FS_RemoveElement
  <2>4. Cardinality(DOMAIN rest) < MAX_OUTBOX_JOBS
    BY <2>2, <2>3, FS_CardinalityType, Bounds
  <2> QED
    BY <1>1, <1>3, <1>6, <2>1, <2>4, StoredKeeps DEF rest
<1> QED
  BY <1>2, <1>4, <1>5, <1>6

-----------------------------------------------------------------------------
(* The retry run                                                            *)

\* No run is under way: none holds a job.
LEMMA AllIdle ==
  ASSUME HandoffInv, \A f \in Flights : run[f].at = "idle"
  PROVE  \A f \in Flights : run[f].todo = {} /\ run[f].job = NoJob /\ run[f].job.id = 0
  BY DEF HandoffInv, RunsInv, RunAgrees, Working, NoJob

LEMMA StartRunIsBenign ==
  ASSUME HandoffInv, NEW f \in Flights, StartRun(f)
  PROVE  Benign
<1>1. PICK old \in SUBSET Terminal :
        LET store == Kept(old)
            due   == {id \in DOMAIN store : Claimable(store[id])}
        IN jobs' = [id \in DOMAIN store |->
                        IF id \in due THEN [store[id] EXCEPT !.leased = TRUE]
                                      ELSE store[id]]
  BY DEF StartRun
<1> DEFINE store == Kept(old)
<1>2. /\ DOMAIN store \subseteq DOMAIN jobs
      /\ \A i \in DOMAIN store : store[i] = jobs[i]
  BY DEF Kept, Restrict
<1>3. DOMAIN jobs' = DOMAIN store
  BY <1>1
<1>4. ASSUME NEW id \in DOMAIN store
      PROVE  /\ jobs'[id] \in Job
             /\ jobs'[id].status = jobs[id].status
             /\ jobs'[id].attempts = jobs[id].attempts
             /\ jobs'[id].accepted = jobs[id].accepted
  <2>1. jobs[id] \in Job
    BY <1>2 DEF HandoffInv, OutboxInv
  <2>2. \/ jobs'[id] = [jobs[id] EXCEPT !.leased = TRUE]
        \/ jobs'[id] = jobs[id]
    BY <1>1, <1>2
  <2> QED
    BY <2>1, <2>2 DEF Job
<1> QED
  BY <1>2, <1>3, <1>4 DEF Benign

LEMMA StartRunKeeps ==
  ASSUME HandoffInv, NEW f \in Flights, StartRun(f)
  PROVE  HandoffInv'
<1>0. UNCHANGED kills /\ \A g \in Flights : run[g].at = "idle"
  BY DEF StartRun, boundVars, FlightFree
<1>1. PICK old \in SUBSET Terminal :
        LET store == Kept(old)
            due   == {id \in DOMAIN store : Claimable(store[id])}
        IN /\ jobs' = [id \in DOMAIN store |->
                        IF id \in due THEN [store[id] EXCEPT !.leased = TRUE]
                                      ELSE store[id]]
           /\ run' = [run EXCEPT ![f] =
                       [at |-> "next", job |-> NoJob,
                        todo |-> {[id |-> id, key |-> store[id].key,
                                   attempts |-> store[id].attempts] : id \in due}]]
  BY DEF StartRun
<1> DEFINE store == Kept(old)
           due   == {id \in DOMAIN store : Claimable(store[id])}
           todo  == {[id |-> id, key |-> store[id].key,
                      attempts |-> store[id].attempts] : id \in due}
<1>2. /\ DOMAIN store \subseteq DOMAIN jobs
      /\ \A i \in DOMAIN store : store[i] = jobs[i]
  BY DEF Kept, Restrict
<1>3. Benign
  BY StartRunIsBenign
<1>4. \A i \in due : /\ i \in DOMAIN jobs /\ i \in JobIds /\ store[i] = jobs[i] /\ jobs[i] \in Job
                     /\ jobs[i].status \in Unsettled /\ jobs[i].attempts < MAX_ATTEMPTS + kills
  <2>1. \A i \in due : i \in DOMAIN jobs /\ i \in JobIds /\ store[i] = jobs[i]
                         /\ jobs[i].status \in Unsettled /\ jobs[i] \in Job
    BY <1>2 DEF Claimable, Due, Unsettled, HandoffInv, OutboxInv
  <2>2. \A i \in DOMAIN jobs, g \in Flights : run[g].job.id # i
    BY <1>0, AllIdle, Bounds DEF HandoffInv, OutboxInv
  <2> QED
    BY <2>1, <2>2 DEF HandoffInv, OutboxInv
<1>5. /\ todo \subseteq Claims
      /\ \A j \in todo : /\ j.id \in due /\ j.id \in JobIds
                         /\ j.attempts = jobs[j.id].attempts /\ j.key = jobs[j.id].key
                         /\ j = [id |-> j.id, key |-> j.key, attempts |-> j.attempts]
  BY <1>4 DEF Claims, Job
<1>6. run' = [run EXCEPT ![f] = [at |-> "next", job |-> NoJob, todo |-> todo]]
  BY <1>1
<1> HIDE DEF store, due, todo
<1>7. /\ run' \in [Flights -> RunRecord]
      /\ \A g \in Flights : g # f => run'[g] = run[g]
      /\ run'[f].at = "next" /\ run'[f].job = NoJob /\ run'[f].todo = todo
  BY <1>5, <1>6 DEF HandoffInv, RunsInv, RunRecord, Places
<1>8. OutboxInv'
  BY <1>0, <1>3, <1>7, AllIdle, SmallerOutbox, Bounds DEF HandoffInv, OutboxInv, Benign, NoJob
<1>9. \A g, h \in Flights : run'[g].at # "idle" /\ run'[h].at # "idle" => g = h
  BY <1>0, <1>7
<1>10. ASSUME NEW g \in Flights PROVE RunAgrees(g)'
  <2>1. CASE g = f
    <3>1. ASSUME NEW j \in todo
          PROVE  /\ \A i \in todo : i.id = j.id => i = j
                 /\ j.id # 0
                 /\ j.attempts < MAX_ATTEMPTS + kills
                 /\ j.id \in DOMAIN jobs' => jobs'[j.id].status \in Unsettled
      BY <1>3, <1>4, <1>5, Bounds DEF Benign
    <3> QED
      BY <1>0, <1>7, <2>1, <3>1 DEF RunAgrees, Working, NoJob
  <2>2. CASE g # f
    BY <1>0, <1>7, <2>2 DEF HandoffInv, RunsInv, RunAgrees, Working
  <2> QED
    BY <2>1, <2>2
<1> QED
  BY <1>7, <1>8, <1>9, <1>10 DEF HandoffInv, RunsInv

\* Runs other than the one under way hold nothing.
LEMMA OthersIdle ==
  ASSUME HandoffInv, NEW f \in Flights, run[f].at # "idle"
  PROVE  \A g \in Flights : g # f =>
           /\ run[g].at = "idle" /\ run[g].todo = {} /\ run[g].job = NoJob
           /\ \A id \in DOMAIN jobs : run[g].job.id # id
  BY Bounds DEF HandoffInv, OutboxInv, RunsInv, RunAgrees, Working, NoJob

LEMMA MarkSendingKeeps ==
  ASSUME HandoffInv, NEW f \in Flights, MarkSending(f)
  PROVE  HandoffInv'
<1>0. /\ UNCHANGED kills /\ run[f].at = "next" /\ run[f].job = NoJob /\ kills \in Nat
      /\ kills <= MaxKills
  BY Bounds DEF MarkSending, boundVars, HandoffInv, OutboxInv, RunsInv, RunAgrees, Working
<1>1. PICK j \in run[f].todo :
       /\ run' = [run EXCEPT ![f] =
                    [at |-> "ready", todo |-> run[f].todo \ {j},
                     job |-> [j EXCEPT !.attempts = j.attempts + 1]]]
       /\ jobs' = IF j.id \in DOMAIN jobs
                  THEN Update(j.id, [jobs[j.id] EXCEPT !.status = "sending",
                                     !.attempts = j.attempts + 1, !.waiting = TRUE])
                  ELSE jobs
  BY DEF MarkSending
<1> DEFINE made == [j EXCEPT !.attempts = j.attempts + 1]
<1>2. /\ j \in Claims /\ j.attempts < MAX_ATTEMPTS + kills /\ j.attempts \in Nat
      /\ \A i \in run[f].todo : i.id = j.id => i = j
      /\ run[f].todo \subseteq Claims
  BY Bounds DEF HandoffInv, RunsInv, RunAgrees, RunRecord, Claims
<1>3. made \in Claims /\ made.id = j.id /\ made.attempts = j.attempts + 1 /\ made # NoJob
  <2>1. made \in Claims /\ made.id = j.id /\ made.attempts = j.attempts + 1
    BY <1>0, <1>2, Bounds DEF Claims
  <2> QED
    BY <2>1, Bounds DEF Claims, NoJob
<1>4. /\ run' \in [Flights -> RunRecord]
      /\ \A g \in Flights : g # f => run'[g] = run[g]
      /\ run'[f].at = "ready" /\ run'[f].job = made /\ run'[f].todo = run[f].todo \ {j}
  BY <1>1, <1>2, <1>3 DEF HandoffInv, RunsInv, RunRecord, Places
<1> DEFINE new == [jobs[j.id] EXCEPT !.status = "sending", !.attempts = j.attempts + 1,
                                     !.waiting = TRUE]
<1>5. ASSUME j.id \in DOMAIN jobs
      PROVE  new \in Job /\ new.status = "sending" /\ new.attempts = j.attempts + 1
  <2>1. jobs[j.id] \in Job /\ j.attempts + 1 \in 0 .. (MAX_ATTEMPTS + MaxKills)
    BY <1>0, <1>2, <1>5, Bounds DEF HandoffInv, OutboxInv
  <2> QED
    BY <2>1 DEF Job, Statuses
<1>6. /\ DOMAIN jobs' = DOMAIN jobs
      /\ \A i \in DOMAIN jobs : i # j.id => jobs'[i] = jobs[i]
      /\ j.id \in DOMAIN jobs => jobs'[j.id] = new
  BY <1>1 DEF Update
<1> HIDE DEF made, new
<1>7. OutboxInv'
  <2>1. \A i \in DOMAIN jobs, g \in Flights : run[g].job.id # i
    BY <1>0, OthersIdle, Bounds DEF HandoffInv, OutboxInv, NoJob
  <2>2. ASSUME NEW i \in DOMAIN jobs
        PROVE  /\ jobs'[i] \in Job
               /\ jobs'[i].status = "sent" => jobs'[i].accepted
               /\ jobs'[i].attempts <= MAX_ATTEMPTS + kills
               /\ jobs'[i].status \in Unsettled =>
                    \/ jobs'[i].attempts < MAX_ATTEMPTS + kills
                    \/ \E g \in Flights : run'[g].job.id = i
    <3>1. CASE i = j.id
      BY <3>1, <1>0, <1>2, <1>3, <1>4, <1>5, <1>6, Bounds
    <3>2. CASE i # j.id
      BY <3>2, <1>6, <2>1 DEF HandoffInv, OutboxInv
    <3> QED
      BY <3>1, <3>2
  <2> QED
    BY <1>0, <1>6, <2>2 DEF HandoffInv, OutboxInv
<1>8. \A g, h \in Flights : run'[g].at # "idle" /\ run'[h].at # "idle" => g = h
  BY <1>0, <1>4, OthersIdle
<1>9. ASSUME NEW g \in Flights PROVE RunAgrees(g)'
  <2>1. CASE g = f
    <3>1. \A i \in run'[f].todo :
             /\ \A h \in run'[f].todo : h.id = i.id => h = i
             /\ i.id # run'[f].job.id
             /\ i.attempts < MAX_ATTEMPTS + kills
             /\ i.id \in DOMAIN jobs => jobs'[i.id].status \in Unsettled
      BY <1>2, <1>3, <1>4, <1>6 DEF HandoffInv, RunsInv, RunAgrees
    <3>2. /\ run'[f].job.attempts <= MAX_ATTEMPTS + kills
          /\ run'[f].job.id \in DOMAIN jobs =>
               /\ jobs'[run'[f].job.id].status = "sending"
               /\ jobs'[run'[f].job.id].attempts = run'[f].job.attempts
      BY <1>0, <1>2, <1>3, <1>4, <1>5, <1>6, Bounds
    <3> QED
      BY <1>0, <1>3, <1>4, <1>6, <2>1, <3>1, <3>2 DEF RunAgrees, Working
  <2>2. CASE g # f
    BY <1>0, <1>4, <2>2, OthersIdle DEF RunAgrees, Working
  <2> QED
    BY <2>1, <2>2
<1> QED
  BY <1>4, <1>7, <1>8, <1>9 DEF HandoffInv, RunsInv

\* The run records the outcome of its job and turns to the next one.
LEMMA RecordKeeps ==
  ASSUME HandoffInv, NEW f \in Flights, Working(f), Done(f), UNCHANGED kills, NEW new,
         LET id == run[f].job.id IN
           /\ jobs' = IF id \in DOMAIN jobs THEN Update(id, new) ELSE jobs
           /\ id \in DOMAIN jobs =>
                /\ new \in Job /\ new.attempts = jobs[id].attempts
                /\ new.status = "sent" => new.accepted
                /\ new.status \in Unsettled => new.attempts < MAX_ATTEMPTS
  PROVE  HandoffInv'
<1> DEFINE id == run[f].job.id
<1>0. /\ kills \in Nat /\ run[f].at # "idle" /\ run[f].todo \subseteq Claims
      /\ \A i \in run[f].todo : i.id # id
  BY Bounds DEF HandoffInv, OutboxInv, RunsInv, RunAgrees, RunRecord, Working
<1>1. /\ run' \in [Flights -> RunRecord]
      /\ \A g \in Flights : g # f => run'[g] = run[g]
      /\ run'[f].todo = run[f].todo /\ run'[f].job = NoJob
      /\ run'[f].at = (IF run[f].todo = {} THEN "idle" ELSE "next")
  <2>1. CASE run[f].todo = {}
    BY <2>1 DEF Done, Idle, HandoffInv, RunsInv, RunRecord, Places
  <2>2. CASE run[f].todo # {}
    <3>1. /\ run[f] \in RunRecord /\ run \in [Flights -> RunRecord]
          /\ run' = [run EXCEPT ![f] = [run[f] EXCEPT !.at = "next", !.job = NoJob]]
      BY <2>2 DEF Done, HandoffInv, RunsInv
    <3>2. LET next == [run[f] EXCEPT !.at = "next", !.job = NoJob] IN
          /\ next \in RunRecord /\ next.at = "next" /\ next.job = NoJob
          /\ next.todo = run[f].todo
      BY <3>1 DEF RunRecord, Places
    <3> QED
      BY <2>2, <3>1, <3>2
  <2> QED
    BY <2>1, <2>2
<1>2. /\ DOMAIN jobs' = DOMAIN jobs
      /\ \A i \in DOMAIN jobs : i # id => jobs'[i] = jobs[i]
      /\ id \in DOMAIN jobs => jobs'[id] = new
  BY DEF Update
<1> HIDE DEF id
<1>3. OutboxInv'
  <2>1. ASSUME NEW i \in DOMAIN jobs
        PROVE  /\ jobs'[i] \in Job
               /\ jobs'[i].status = "sent" => jobs'[i].accepted
               /\ jobs'[i].attempts <= MAX_ATTEMPTS + kills
               /\ jobs'[i].status \in Unsettled => jobs'[i].attempts < MAX_ATTEMPTS + kills
    <3>1. CASE i = id
      <4>1. /\ new \in Job /\ new.attempts = jobs[id].attempts
            /\ new.status = "sent" => new.accepted
            /\ new.status \in Unsettled => new.attempts < MAX_ATTEMPTS
        BY <3>1 DEF id
      <4>2. jobs[id].attempts <= MAX_ATTEMPTS + kills /\ jobs[id].attempts \in Nat
        BY <3>1, Bounds DEF HandoffInv, OutboxInv, Job
      <4> QED
        BY <3>1, <4>1, <4>2, <1>0, <1>2, Bounds
    <3>2. CASE i # id
      <4>1. \A g \in Flights : run[g].job.id # i
        BY <3>2, <1>0, OthersIdle DEF id
      <4> QED
        BY <3>2, <4>1, <1>2 DEF HandoffInv, OutboxInv
    <3> QED
      BY <3>1, <3>2
  <2> QED
    BY <1>2, <2>1 DEF HandoffInv, OutboxInv
<1>4. \A g, h \in Flights : run'[g].at # "idle" /\ run'[h].at # "idle" => g = h
  BY <1>0, <1>1, OthersIdle
<1>5. ASSUME NEW g \in Flights PROVE RunAgrees(g)'
  <2>1. CASE g = f
    <3>1. \A i \in run[f].todo :
             /\ \A h \in run[f].todo : h.id = i.id => h = i
             /\ i.id # 0
             /\ i.attempts < MAX_ATTEMPTS + kills
             /\ i.id \in DOMAIN jobs => jobs'[i.id].status \in Unsettled
      BY <1>0, <1>2, Bounds DEF HandoffInv, RunsInv, RunAgrees, Claims
    <3> QED
      BY <1>1, <1>2, <2>1, <3>1 DEF RunAgrees, Working, NoJob
  <2>2. CASE g # f
    BY <1>0, <1>1, <2>2, OthersIdle DEF RunAgrees, Working
  <2> QED
    BY <2>1, <2>2
<1> QED
  BY <1>1, <1>3, <1>4, <1>5 DEF HandoffInv, RunsInv

LEMMA RecordSentKeeps ==
  ASSUME HandoffInv, NEW f \in Flights, RecordSent(f)
  PROVE  HandoffInv'
<1> DEFINE id  == run[f].job.id
           new == [jobs[id] EXCEPT !.status = "sent", !.leased = FALSE, !.waiting = FALSE]
<1>1. Working(f) /\ Done(f) /\ UNCHANGED kills
  BY DEF RecordSent, Working, boundVars
<1>2. jobs' = IF id \in DOMAIN jobs THEN Update(id, new) ELSE jobs
  BY DEF RecordSent
<1>3. ASSUME id \in DOMAIN jobs
      PROVE  /\ new \in Job /\ new.attempts = jobs[id].attempts
             /\ new.status = "sent" /\ new.accepted
  <2>1. jobs[id] \in Job /\ jobs[id].accepted
    BY <1>1, <1>3 DEF RecordSent, HandoffInv, OutboxInv, RunsInv, RunAgrees
  <2> QED
    BY <2>1 DEF Job, Statuses
<1> HIDE DEF new
<1> QED
  BY <1>1, <1>2, <1>3, RecordKeeps DEF Unsettled

LEMMA RecordFailureKeeps ==
  ASSUME HandoffInv, NEW f \in Flights, RecordFailure(f)
  PROVE  HandoffInv'
<1> DEFINE id  == run[f].job.id
           new == [jobs[id] EXCEPT !.status = IF GivesUp(f) THEN "dead-letter" ELSE "failed",
                                   !.leased = FALSE, !.waiting = ~GivesUp(f)]
<1>1. Working(f) /\ Done(f) /\ UNCHANGED kills
  BY DEF RecordFailure, Working, boundVars
<1>2. jobs' = IF id \in DOMAIN jobs THEN Update(id, new) ELSE jobs
  BY DEF RecordFailure
<1>3. ASSUME id \in DOMAIN jobs
      PROVE  /\ new \in Job /\ new.attempts = jobs[id].attempts
             /\ new.status # "sent"
             /\ new.status \in Unsettled => new.attempts < MAX_ATTEMPTS
  <2>1. jobs[id] \in Job /\ jobs[id].attempts = run[f].job.attempts /\ jobs[id].attempts \in Nat
    BY <1>1, <1>3, Bounds DEF HandoffInv, OutboxInv, RunsInv, RunAgrees, Job
  <2>2. new \in Job /\ new.attempts = jobs[id].attempts
        /\ new.status = IF GivesUp(f) THEN "dead-letter" ELSE "failed"
    BY <2>1 DEF Job, Statuses
  <2> QED
    BY <2>1, <2>2, Bounds DEF GivesUp, Unsettled
<1> HIDE DEF new
<1> QED
  BY <1>1, <1>2, <1>3, RecordKeeps

LEMMA KillKeeps ==
  ASSUME HandoffInv, Kill
  PROVE  HandoffInv'
<1>1. /\ UNCHANGED jobs /\ run' = [f \in Flights |-> Idle]
      /\ kills \in Nat /\ kills' = kills + 1 /\ kills' \in 0 .. MaxKills
  BY Bounds DEF Kill, outboxVars, HandoffInv, OutboxInv
<1>2. \A id \in DOMAIN jobs : jobs[id].attempts < MAX_ATTEMPTS + kills'
  <2>1. \A id \in DOMAIN jobs : jobs[id].attempts \in Nat
                                  /\ jobs[id].attempts <= MAX_ATTEMPTS + kills
    BY Bounds DEF HandoffInv, OutboxInv, Job
  <2> QED
    BY <1>1, <2>1, Bounds
<1>3. OutboxInv'
  BY <1>1, <1>2, Bounds DEF HandoffInv, OutboxInv, Job
<1>4. RunsInv'
  BY <1>1 DEF RunsInv, RunAgrees, Working, Idle, RunRecord, Places
<1> QED
  BY <1>3, <1>4 DEF HandoffInv

\* The steps of a run between "sending" and its outcome.
LEMMA SendKeeps ==
  ASSUME HandoffInv, NEW f \in Flights,
         EnsureReady(f) \/ Accepted(f) \/ AnswerLost(f) \/ Rejected(f) \/ Unreachable(f)
           \/ TimedOut(f)
  PROVE  HandoffInv'
<1>0. UNCHANGED kills /\ Working(f)
  BY DEF EnsureReady, Accepted, AnswerLost, Rejected, Unreachable, TimedOut, Sending, Working,
         boundVars
<1>1. ASSUME UNCHANGED jobs PROVE Benign
  BY <1>1 DEF Benign, HandoffInv, OutboxInv
<1>2. CASE EnsureReady(f) \/ Rejected(f) \/ Unreachable(f) \/ TimedOut(f)
  <2>1. UNCHANGED jobs
    BY <1>2 DEF EnsureReady, Rejected, Unreachable, TimedOut, outboxVars
  <2>2. PICK place \in {"native", "http", "failing", "refused"} : Goes(f, place)
    BY <1>2 DEF EnsureReady, Rejected, Unreachable, TimedOut, OnError
  <2> QED
    BY <1>0, <1>1, <2>1, <2>2, GoesKeeps DEF Places
<1>3. CASE Accepted(f)
  BY <1>0, <1>3, TakesIsBenign, GoesKeeps DEF Accepted, Places
<1>4. CASE AnswerLost(f)
  <2>1. PICK place \in {"http", "failing"} : Goes(f, place)
    BY <1>4 DEF AnswerLost, OnError
  <2> QED
    BY <1>0, <1>4, <2>1, TakesIsBenign, GoesKeeps DEF AnswerLost, Places
<1> QED
  BY <1>2, <1>3, <1>4

LEMMA NextKeeps ==
  ASSUME HandoffInv, [Next]_vars
  PROVE  HandoffInv'
<1>1. ASSUME UNCHANGED <<jobs, run, kills>> PROVE HandoffInv'
  BY <1>1, BenignKeeps DEF Benign, HandoffInv, OutboxInv
<1>2. CASE Clear
  <2>1. jobs' = <<>> => Benign
    BY DEF Benign
  <2> QED
    BY <1>2, <2>1, KeptIsBenign, BenignKeeps DEF Clear, boundVars
<1>3. ASSUME NEW id \in DOMAIN jobs, LeaseLapses(id) \/ WaitEnds(id)
      PROVE  HandoffInv'
  <2>1. Benign
    <3>1. jobs[id] \in Job /\ \A i \in DOMAIN jobs : jobs[i] \in Job
      BY DEF HandoffInv, OutboxInv
    <3>2. PICK new \in {[jobs[id] EXCEPT !.leased = FALSE], [jobs[id] EXCEPT !.waiting = FALSE]} :
             jobs' = [jobs EXCEPT ![id] = new]
      BY <1>3 DEF LeaseLapses, WaitEnds
    <3>3. /\ new \in Job /\ new.status = jobs[id].status /\ new.attempts = jobs[id].attempts
          /\ new.accepted = jobs[id].accepted
      BY <3>1, <3>2 DEF Job
    <3> QED
      BY <3>1, <3>2, <3>3 DEF Benign
  <2> QED
    BY <1>3, <2>1, BenignKeeps DEF LeaseLapses, WaitEnds, boundVars
<1>4. ASSUME NEW l \in late, LateDelivered(l)
      PROVE  HandoffInv'
  <2>1. CASE Takes(l.id, l.key)
    BY <1>4, <2>1, TakesIsBenign, BenignKeeps DEF LateDelivered, boundVars
  <2>2. CASE UNCHANGED jobs
    BY <1>1, <1>4, <2>2 DEF LateDelivered, boundVars
  <2> QED
    BY <1>4, <2>1, <2>2 DEF LateDelivered
<1>5. ASSUME NEW i, Consume(i) \/ Discard(i) \/ ConsumeSucceeds(i) \/ ConsumeFails(i)
      PROVE  HandoffInv'
  BY <1>1, <1>5 DEF Consume, Discard, ConsumeSucceeds, ConsumeFails, boundVars
<1>6. CASE DaemonStops \/ DaemonStarts \/ UNCHANGED vars
  BY <1>1, <1>6 DEF DaemonStops, DaemonStarts, vars, boundVars
<1>7. ASSUME NEW f \in Flights, StartRun(f) \/ RunStep(f)
      PROVE  HandoffInv'
  BY <1>7, StartRunKeeps, MarkSendingKeeps, SendKeeps, RecordSentKeeps, RecordFailureKeeps
     DEF RunStep
<1> QED
  BY <1>2, <1>3, <1>4, <1>5, <1>6, <1>7, CaptureKeeps, KillKeeps DEF Next

LEMMA InitHandoff ==
  ASSUME Init PROVE HandoffInv
<1>1. OutboxInv
  BY FS_EmptySet, Bounds DEF Init, OutboxInv
<1>2. RunsInv
  BY DEF Init, RunsInv, RunAgrees, Working, Idle, RunRecord, Places
<1> QED
  BY <1>1, <1>2 DEF HandoffInv

\* What the outbox holds and what the runs of the retry worker claim stay in step,
\* through every kill of the service worker and every run that overlaps another.
THEOREM HandoffInductive == Spec => []HandoffInv
<1>1. Init => HandoffInv
  BY InitHandoff
<1>2. HandoffInv /\ [Next]_vars => HandoffInv'
  BY NextKeeps
<1> QED
  BY <1>1, <1>2, PTL DEF Spec

-----------------------------------------------------------------------------
(* The reviews                                                              *)

Unrepeated(q) ==
  \A i, j \in DOMAIN q : i # j /\ q[i].key = q[j].key => q[i].back \/ q[j].back

LEMMA RemoveAtProperties ==
  ASSUME NEW q \in Seq(Review), NEW i \in DOMAIN q
  PROVE  /\ RemoveAt(q, i) \in Seq(Review)
         /\ Unrepeated(q) => Unrepeated(RemoveAt(q, i))
<1> DEFINE a == SubSeq(q, 1, i - 1)
           b == SubSeq(q, i + 1, Len(q))
<1>1. i \in 1 .. Len(q) /\ Len(q) \in Nat
  OBVIOUS
<1>2. a \in Seq(Review) /\ Len(a) = i - 1 /\ \A n \in 1 .. i - 1 : a[n] = q[n]
  BY <1>1
<1>3. /\ b \in Seq(Review) /\ Len(b) = Len(q) - i
      /\ \A n \in 1 .. Len(q) - i : b[n] = q[i + n]
  BY <1>1
<1>4. RemoveAt(q, i) = a \o b
  BY DEF RemoveAt
<1> HIDE DEF a, b
<1>5. /\ a \o b \in Seq(Review) /\ DOMAIN (a \o b) = 1 .. Len(q) - 1
      /\ \A n \in 1 .. Len(q) - 1 : (a \o b)[n] = q[IF n < i THEN n ELSE n + 1]
  BY <1>1, <1>2, <1>3
<1>6. ASSUME Unrepeated(q), NEW m \in 1 .. Len(q) - 1, NEW n \in 1 .. Len(q) - 1, m # n,
             (a \o b)[m].key = (a \o b)[n].key
      PROVE  (a \o b)[m].back \/ (a \o b)[n].back
  <2> DEFINE p == IF m < i THEN m ELSE m + 1
             o == IF n < i THEN n ELSE n + 1
  <2>1. p \in DOMAIN q /\ o \in DOMAIN q /\ p # o
    BY <1>1, <1>6
  <2>2. (a \o b)[m] = q[p] /\ (a \o b)[n] = q[o]
    BY <1>5
  <2> HIDE DEF p, o
  <2> QED
    BY <1>6, <2>1, <2>2 DEF Unrepeated
<1> QED
  BY <1>4, <1>5, <1>6 DEF Unrepeated

LEMMA RoomProperties ==
  ASSUME NEW q \in Seq(Review)
  PROVE  /\ Room(q) \in Seq(Review)
         /\ Unrepeated(q) => Unrepeated(Room(q))
         /\ \A k : (\A i \in DOMAIN q : q[i].key # k) => \A i \in DOMAIN Room(q) : Room(q)[i].key # k
<1>1. CASE Len(q) < MAX_PENDING_CAPTURE_REVIEWS
  BY <1>1 DEF Room
<1>2. CASE ~ (Len(q) < MAX_PENDING_CAPTURE_REVIEWS)
  <2> DEFINE d == Len(q) - MAX_PENDING_CAPTURE_REVIEWS + 1
  <2>1. d \in Nat /\ d >= 1 /\ d <= Len(q) /\ Len(q) \in Nat
    BY <1>2, HandoffAssumption
  <2>2. Room(q) = SubSeq(q, d + 1, Len(q))
    <3>1. MAX_PENDING_CAPTURE_REVIEWS \in Nat /\ Len(q) \in Nat
      BY HandoffAssumption
    <3>2. d + 1 = Len(q) - MAX_PENDING_CAPTURE_REVIEWS + 2
      BY <3>1
    <3> HIDE DEF d
    <3> QED
      BY <1>2, <3>2, Zenon DEF Room
  <2> HIDE DEF d
  <2>3. /\ Room(q) \in Seq(Review) /\ DOMAIN Room(q) = 1 .. Len(q) - d
        /\ \A n \in 1 .. Len(q) - d : Room(q)[n] = q[n + d] /\ n + d \in DOMAIN q
    BY <2>1, <2>2
  <2>4. ASSUME Unrepeated(q), NEW m \in DOMAIN Room(q), NEW n \in DOMAIN Room(q), m # n,
               Room(q)[m].key = Room(q)[n].key
        PROVE  Room(q)[m].back \/ Room(q)[n].back
    <3>1. m + d \in DOMAIN q /\ n + d \in DOMAIN q /\ m + d # n + d
      BY <2>1, <2>3, <2>4
    <3>2. Room(q)[m] = q[m + d] /\ Room(q)[n] = q[n + d]
      BY <2>3
    <3> QED
      BY <2>4, <3>1, <3>2 DEF Unrepeated
  <2>5. Unrepeated(q) => Unrepeated(Room(q))
    BY <2>4 DEF Unrepeated
  <2> QED
    BY <2>3, <2>5
<1> QED
  BY <1>1, <1>2

\* The variables the daemon and the transports keep.
ReviewsInv ==
  /\ late \subseteq LateRequest
  /\ reviews \in Seq(Review) /\ taken \in Seq(Review)
  /\ connected \in BOOLEAN /\ up \in BOOLEAN
  /\ Unrepeated(reviews)

LEMMA QueuedProperties ==
  ASSUME ReviewsInv, NEW k \in Keys
  PROVE  Queued(k) \in Seq(Review) /\ Unrepeated(Queued(k))
<1>1. CASE Pending(k)
  BY <1>1 DEF Queued, ReviewsInv
<1>2. CASE ~ Pending(k)
  <2> DEFINE q == Room(reviews)
             new == [key |-> k, back |-> FALSE]
  <2>1. /\ q \in Seq(Review) /\ Unrepeated(q) /\ \A i \in DOMAIN q : q[i].key # k
    BY <1>2, RoomProperties DEF ReviewsInv, Pending
  <2>2. new \in Review /\ new.key = k
    BY DEF Review
  <2>3. Queued(k) = Append(q, new)
    BY <1>2 DEF Queued
  <2> HIDE DEF q, new
  <2>4. /\ Append(q, new) \in Seq(Review) /\ DOMAIN Append(q, new) = 1 .. Len(q) + 1
        /\ Append(q, new)[Len(q) + 1] = new
        /\ \A i \in 1 .. Len(q) : Append(q, new)[i] = q[i]
        /\ Len(q) \in Nat /\ DOMAIN q = 1 .. Len(q)
    BY <2>1, <2>2
  <2> QED
    BY <2>1, <2>2, <2>3, <2>4 DEF Unrepeated
<1> QED
  BY <1>1, <1>2

\* A review that returns to the front says so.
LEMMA ReturnProperties ==
  ASSUME ReviewsInv, NEW i \in DOMAIN taken
  PROVE  LET q == <<[taken[i] EXCEPT !.back = TRUE]>> \o Room(reviews) IN
         q \in Seq(Review) /\ Unrepeated(q)
<1> DEFINE r == [taken[i] EXCEPT !.back = TRUE]
           q == Room(reviews)
<1>1. r \in Review /\ r.back = TRUE
  <2>1. taken[i] \in Review
    BY DEF ReviewsInv
  <2> QED
    BY <2>1 DEF Review
<1>2. q \in Seq(Review) /\ Unrepeated(q)
  BY RoomProperties DEF ReviewsInv
<1> HIDE DEF r, q
<1>3. /\ <<r>> \o q \in Seq(Review) /\ DOMAIN (<<r>> \o q) = 1 .. Len(q) + 1
      /\ (<<r>> \o q)[1] = r
      /\ \A n \in 2 .. Len(q) + 1 : (<<r>> \o q)[n] = q[n - 1]
      /\ Len(q) \in Nat /\ DOMAIN q = 1 .. Len(q)
  BY <1>1, <1>2
<1>4. Unrepeated(<<r>> \o q)
  BY <1>1, <1>2, <1>3 DEF Unrepeated
<1> QED
  BY <1>3, <1>4 DEF r, q

\* A request that is sent is one of a job.
LEMMA SendersClaim ==
  ASSUME HandoffInv, NEW f \in Flights, Sending(f)
  PROVE  /\ run[f].job.id \in JobIds /\ run[f].job.key \in Keys
         /\ [id |-> run[f].job.id, key |-> run[f].job.key, via |-> run[f].at] \in LateRequest
<1>1. run[f].job \in Claims
  BY DEF HandoffInv, RunsInv, RunAgrees, RunRecord, Working, Sending
<1> QED
  BY <1>1 DEF Claims, Sending, LateRequest

LEMMA NextKeepsReviews ==
  ASSUME HandoffInv, ReviewsInv, [Next]_vars
  PROVE  ReviewsInv'
<1>1. ASSUME UNCHANGED <<late, reviews, taken, connected, up>> PROVE ReviewsInv'
  BY <1>1 DEF ReviewsInv
<1>2. CASE \/ \E k \in Keys : Capture(k)
           \/ Clear
           \/ \E id \in DOMAIN jobs : LeaseLapses(id) \/ WaitEnds(id)
           \/ \E f \in Flights : StartRun(f) \/ MarkSending(f) \/ Rejected(f)
                                   \/ Unreachable(f) \/ RecordSent(f) \/ RecordFailure(f)
           \/ UNCHANGED vars
  BY <1>1, <1>2 DEF Capture, Clear, LeaseLapses, WaitEnds, StartRun, MarkSending, Rejected,
                    Unreachable, RecordSent, RecordFailure, daemonVars, vars
<1>3. ASSUME NEW f \in Flights, EnsureReady(f)
      PROVE  ReviewsInv'
  <2>1. connected' \in BOOLEAN
    BY <1>3, Zenon DEF EnsureReady
  <2> QED
    BY <1>3, <2>1 DEF EnsureReady, daemonVars, ReviewsInv
<1>4. ASSUME NEW f \in Flights, Accepted(f) \/ AnswerLost(f)
      PROVE  ReviewsInv'
  <2>1. run[f].job.key \in Keys /\ reviews' = Queued(run[f].job.key)
    BY <1>4, SendersClaim DEF Accepted, AnswerLost, Takes
  <2> QED
    BY <1>4, <2>1, QueuedProperties DEF Accepted, AnswerLost, ReviewsInv
<1>5. ASSUME NEW f \in Flights, TimedOut(f)
      PROVE  ReviewsInv'
  BY <1>5, SendersClaim DEF TimedOut, daemonVars, ReviewsInv
<1>6. ASSUME NEW l \in late, LateDelivered(l)
      PROVE  ReviewsInv'
  <2>1. l.key \in Keys /\ late' \subseteq LateRequest
    BY <1>6 DEF LateDelivered, ReviewsInv, LateRequest
  <2>2. reviews' = Queued(l.key) \/ reviews' = reviews
    BY <1>6 DEF LateDelivered, Takes
  <2> QED
    BY <1>6, <2>1, <2>2, QueuedProperties DEF LateDelivered, ReviewsInv
<1>7. CASE Kill
  <2>1. late' \subseteq LateRequest
    BY <1>7, SendersClaim DEF Kill, ReviewsInv
  <2>2. connected' \in BOOLEAN
    BY <1>7, Zenon DEF Kill
  <2> QED
    BY <1>7, <2>1, <2>2 DEF Kill, daemonVars, ReviewsInv
<1>8. ASSUME NEW i \in DOMAIN reviews, Consume(i) \/ Discard(i)
      PROVE  ReviewsInv'
  <2>1. RemoveAt(reviews, i) \in Seq(Review) /\ Unrepeated(RemoveAt(reviews, i))
    BY RemoveAtProperties DEF ReviewsInv
  <2>2. taken' \in Seq(Review)
    BY <1>8 DEF Consume, Discard, ReviewsInv
  <2> QED
    BY <1>8, <2>1, <2>2 DEF Consume, Discard, ReviewsInv
<1>9. ASSUME NEW i \in DOMAIN taken, ConsumeSucceeds(i) \/ ConsumeFails(i)
      PROVE  ReviewsInv'
  <2>1. RemoveAt(taken, i) \in Seq(Review)
    BY RemoveAtProperties DEF ReviewsInv
  <2> QED
    BY <1>9, <2>1, ReturnProperties DEF ConsumeSucceeds, ConsumeFails, ReviewsInv
<1>10. CASE DaemonStops \/ DaemonStarts
  <2>1. up' \in BOOLEAN
    BY <1>10, Zenon DEF DaemonStops, DaemonStarts
  <2>2. <<>> \in Seq(Review) /\ Unrepeated(<<>>)
    BY DEF Unrepeated
  <2> QED
    BY <1>10, <2>1, <2>2 DEF DaemonStops, DaemonStarts, daemonVars, ReviewsInv
<1> QED
  BY <1>2, <1>3, <1>4, <1>5, <1>6, <1>7, <1>8, <1>9, <1>10 DEF Next, RunStep

LEMMA InitReviews ==
  ASSUME Init PROVE ReviewsInv
<1>1. connected \in BOOLEAN /\ up \in BOOLEAN
  BY Zenon DEF Init
<1> QED
  BY <1>1 DEF Init, ReviewsInv, Unrepeated

\* The daemon's queue of reviews holds each capture once, whatever arrives late.
THEOREM ReviewsInductive == Spec => []ReviewsInv
<1>1. Init => ReviewsInv
  BY InitReviews
<1>2. HandoffInv /\ ReviewsInv /\ [Next]_vars => ReviewsInv'
  BY NextKeepsReviews
<1> QED
  BY <1>1, <1>2, HandoffInductive, PTL DEF Spec

-----------------------------------------------------------------------------
(* What the hand-off promises                                               *)

\* No error path, fallback, kill of the worker or late request records a capture as
\* sent that the daemon never took; and the outbox keeps its limit and its types,
\* the count of attempts at most one over the limit for each kill.
THEOREM CaptureSentWasAccepted == Spec => []SentWasAccepted
<1>1. HandoffInv /\ ReviewsInv => SentWasAccepted
  <2> SUFFICES ASSUME HandoffInv, ReviewsInv PROVE SentWasAccepted
    OBVIOUS
  <2>1. \A f \in Flights : /\ run[f].at \in Places /\ run[f].job \in Claims \cup {NoJob}
                           /\ run[f].todo \subseteq Claims
    BY DEF HandoffInv, RunsInv, RunRecord
  <2>2. (\A i \in DOMAIN reviews : reviews[i] \in Review) /\ \A i \in DOMAIN taken : taken[i] \in Review
    BY DEF ReviewsInv
  <2>3. {connected, up} \subseteq BOOLEAN
    BY Zenon DEF ReviewsInv
  <2> QED
    BY <2>1, <2>2, <2>3 DEF HandoffInv, OutboxInv, ReviewsInv, SentWasAccepted, TypeOK
<1> QED
  BY <1>1, HandoffInductive, ReviewsInductive, PTL

\* However often a capture is sent, over whichever transport and however late, the
\* daemon holds two reviews of it only after a failed approval.
THEOREM CaptureRetriesAreDeduplicated == Spec => []RetriesAreDeduplicated
<1>1. ReviewsInv => RetriesAreDeduplicated
  BY DEF ReviewsInv, Unrepeated, RetriesAreDeduplicated
<1> QED
  BY <1>1, ReviewsInductive, PTL

\* A job recorded as sent stays so until it is removed: no run, however slow, still
\* writes to it.
THEOREM CaptureSentIsFinal == Spec => SentIsFinal
<1> DEFINE Final == \A id \in DOMAIN jobs :
                      jobs[id].status = "sent" =>
                        (id \in DOMAIN jobs' => jobs'[id].status = "sent")
<1>1. ASSUME HandoffInv, [Next]_vars
      PROVE  [Final]_vars
  <2>1. ASSUME Benign PROVE Final
    BY <2>1 DEF Benign
  <2>2. ASSUME NEW f \in Flights, MarkSending(f)
        PROVE  Final
    <3>1. PICK j \in run[f].todo :
               \E new : jobs' = IF j.id \in DOMAIN jobs THEN Update(j.id, new) ELSE jobs
      BY <2>2 DEF MarkSending
    <3>2. j.id \in DOMAIN jobs => jobs[j.id].status # "sent"
      BY <1>1 DEF HandoffInv, RunsInv, RunAgrees, Unsettled
    <3> QED
      BY <3>1, <3>2 DEF Update
  <2>3. ASSUME NEW f \in Flights, RecordSent(f) \/ RecordFailure(f)
        PROVE  Final
    <3>1. PICK new : jobs' = IF run[f].job.id \in DOMAIN jobs
                             THEN Update(run[f].job.id, new) ELSE jobs
      BY <2>3 DEF RecordSent, RecordFailure
    <3>2. run[f].job.id \in DOMAIN jobs => jobs[run[f].job.id].status # "sent"
      BY <1>1, <2>3 DEF RecordSent, RecordFailure, HandoffInv, RunsInv, RunAgrees, Working
    <3> QED
      BY <3>1, <3>2 DEF Update
  <2>4. ASSUME NEW k \in Keys, Capture(k)
        PROVE  Final
    <3>1. PICK old \in SUBSET Terminal :
            LET store == Kept(old) IN
            \/ jobs' = store
            \/ \E id \in JobIds \ InUse :
               \/ jobs' = Stored(store, id, NewJob(k))
               \/ \E gone \in Removable(store) :
                    jobs' = Stored(Restrict(store, DOMAIN store \ {gone}), id, NewJob(k))
      BY <2>4 DEF Capture
    <3>2. /\ DOMAIN Kept(old) \subseteq DOMAIN jobs
          /\ \A i \in DOMAIN Kept(old) : Kept(old)[i] = jobs[i]
      BY DEF Kept, Restrict
    <3>3. CASE jobs' = Kept(old)
      BY <3>2, <3>3
    <3>4. ASSUME NEW id \in JobIds \ InUse, NEW rest, jobs' = Stored(rest, id, NewJob(k)),
                 DOMAIN rest \subseteq DOMAIN jobs, \A i \in DOMAIN rest : rest[i] = jobs[i]
          PROVE  Final
      <4>1. id \notin DOMAIN jobs
        BY <3>4 DEF InUse
      <4> QED
        BY <3>4, <4>1 DEF Stored
    <3>5. ASSUME NEW gone
          PROVE  LET rest == Restrict(Kept(old), DOMAIN Kept(old) \ {gone}) IN
                 DOMAIN rest \subseteq DOMAIN jobs /\ \A i \in DOMAIN rest : rest[i] = jobs[i]
      BY <3>2 DEF Restrict
    <3> HIDE DEF Final
    <3> QED
      BY <3>1, <3>2, <3>3, <3>4, <3>5
  <2>5. ASSUME NEW f \in Flights, StartRun(f)
        PROVE  Final
    BY <1>1, <2>1, <2>5, StartRunIsBenign
  <2>6. ASSUME NEW f \in Flights, Accepted(f) \/ AnswerLost(f)
        PROVE  Final
    BY <1>1, <2>1, <2>6, TakesIsBenign DEF Accepted, AnswerLost
  <2>7. ASSUME NEW l \in late, LateDelivered(l)
        PROVE  Final
    BY <1>1, <2>1, <2>7, TakesIsBenign DEF LateDelivered
  <2>8. CASE Clear
    BY <2>8 DEF Clear, Kept, Restrict
  <2>9. ASSUME NEW id \in DOMAIN jobs, LeaseLapses(id) \/ WaitEnds(id)
        PROVE  Final
    BY <1>1, <2>9 DEF LeaseLapses, WaitEnds, HandoffInv, OutboxInv, Job
  <2>10. ASSUME UNCHANGED jobs PROVE Final
    BY <2>10
  <2>11. ASSUME NEW f \in Flights, EnsureReady(f) \/ Rejected(f) \/ Unreachable(f)
                \/ TimedOut(f)
         PROVE  UNCHANGED jobs
    BY <2>11 DEF EnsureReady, Rejected, Unreachable, TimedOut, outboxVars
  <2>12. ASSUME NEW i, Consume(i) \/ Discard(i) \/ ConsumeSucceeds(i) \/ ConsumeFails(i)
         PROVE  UNCHANGED jobs
    BY <2>12 DEF Consume, Discard, ConsumeSucceeds, ConsumeFails
  <2>13. CASE Kill \/ DaemonStops \/ DaemonStarts \/ UNCHANGED vars
    BY <2>10, <2>13 DEF Kill, DaemonStops, DaemonStarts, vars, outboxVars
  <2> HIDE DEF Final
  <2> QED
    BY <1>1, <2>2, <2>3, <2>4, <2>5, <2>6, <2>7, <2>8, <2>9, <2>10, <2>11, <2>12, <2>13
       DEF Next, RunStep
<1> QED
  BY <1>1, HandoffInductive, PTL DEF Spec, SentIsFinal

=============================================================================

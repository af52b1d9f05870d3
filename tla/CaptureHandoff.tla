---------------------------- MODULE CaptureHandoff ----------------------------
(***************************************************************************)
(* The hand-off of a captured download from the browser extension to the   *)
(* desktop daemon.                                                         *)
(*                                                                         *)
(* The extension cancels the browser's own download and stores a job in a  *)
(* durable outbox (IndexedDB).  A retry run claims the due jobs under a    *)
(* two-minute lease and sends each one, first through the native host and, *)
(* on any error, over loopback HTTP, with the same idempotency key.  The   *)
(* browser may end the service worker between any two awaits; the outbox   *)
(* survives, the run and the bridge's connection state do not.  The daemon *)
(* keeps an accepted candidate in memory as a review, until the user       *)
(* starts or discards it.                                                  *)
(*                                                                         *)
(* One candidate stands for its idempotency key.  Time is not counted: a   *)
(* job remembers whether its lease is in force and whether it still waits  *)
(* (for nextRetryAt, or for two minutes in "sending").                     *)
(***************************************************************************)
EXTENDS Naturals, Sequences, FiniteSets, FiniteSetsExt, Functions, SequencesExt

CONSTANTS
  Keys,         \* idempotency keys of the candidates the user captures
  Invalid,      \* keys whose URL the daemon refuses
  JobIds,       \* random identifiers: a job's place in the index is arbitrary
  Flights,      \* retry runs that could be in flight together
  MAX_ATTEMPTS,
  MAX_OUTBOX_JOBS,
  MAX_PENDING_CAPTURE_REVIEWS,
  MaxCaptures,  \* bound: captures
  MaxKills,     \* bound: times the browser ends the service worker
  MaxLate,      \* bound: requests that outlive the call that sent them
  MaxStops,     \* bound: times the daemon stops
  MaxConsumes   \* bound: times the user approves a review

ASSUME HandoffAssumption ==
  /\ Invalid \subseteq Keys
  /\ JobIds \subseteq Nat \ {0}
  /\ Flights \subseteq Nat /\ Flights # {}
  /\ {MAX_ATTEMPTS, MAX_OUTBOX_JOBS, MAX_PENDING_CAPTURE_REVIEWS} \subseteq Nat \ {0}
  /\ MaxKills \in Nat

VARIABLES
  jobs,       \* the outbox: job id -> record, durable
  run,        \* per flight, where the retry run is
  connected,  \* the bridge state says "connected": kept in memory only
  late,       \* requests abandoned by their sender and not yet delivered
  up,         \* the daemon runs and can be reached
  reviews,    \* the daemon's pending reviews, in memory
  taken,      \* reviews removed by an approval whose task is being created
  captures, kills, stops, consumes

outboxVars == <<jobs, captures>>
daemonVars == <<reviews, taken>>
boundVars  == <<kills, stops, consumes>>
vars == <<jobs, run, connected, late, up, reviews, taken, captures, boundVars>>

Statuses == {"pending", "sending", "failed", "sent", "dead-letter"}

(***************************************************************************)
(* A stored job.  "accepted" is history: the daemon has taken a request of *)
(* this job.                                                               *)
(***************************************************************************)
Job == [key: Keys, status: Statuses, attempts: 0 .. (MAX_ATTEMPTS + MaxKills),
        leased: BOOLEAN, waiting: BOOLEAN, accepted: BOOLEAN]

NewJob(k) == [key |-> k, status |-> "pending", attempts |-> 0,
              leased |-> FALSE, waiting |-> FALSE, accepted |-> FALSE]

Terminal == {id \in DOMAIN jobs : jobs[id].status \in {"sent", "dead-letter"}}

\* The job a run works on, and the ones it has claimed and not reached.
Claims == [id: JobIds, key: Keys, attempts: 0 .. (MAX_ATTEMPTS + MaxKills)]
NoJob  == [id |-> 0]
Idle   == [at |-> "idle", job |-> NoJob, todo |-> {}]

Places == {"idle", "next", "ready", "native", "http", "accepted", "failing", "refused"}

Review == [key: Keys, back: BOOLEAN]

LateRequest == [id: JobIds, key: Keys, via: {"native", "http"}]

----------------------------------------------------------------------------
(* The outbox store *)

\* maintenance(): sent jobs go after a week, dead letters after a month.
Kept(old) == Restrict(jobs, DOMAIN jobs \ old)

\* store.update(): a job cleared meanwhile is not created again.
Update(id, new) == [i \in DOMAIN jobs |-> IF i = id THEN new ELSE jobs[i]]

\* store.put(): a job under a new id.
Stored(store, id, job) ==
  [i \in DOMAIN store \cup {id} |-> IF i = id THEN job ELSE store[i]]

\* where('idempotencyKey').first(): at most one job, the lowest id of the key.
First(store, k) ==
  {id \in DOMAIN store :
     store[id].key = k /\ \A other \in DOMAIN store : store[other].key = k => id <= other}

Absent(store, k) == \A id \in First(store, k) : store[id].status = "dead-letter"

\* Ids are never used twice while anything still refers to them.
InUse ==
  DOMAIN jobs \cup {l.id : l \in late}
  \cup UNION {{run[f].job.id} \cup {j.id : j \in run[f].todo} : f \in Flights}

\* Defect: a job left in "sending" by a dead worker is never due again.
Due_Bug(j) == j.status \in {"pending", "failed"} /\ ~j.waiting

Due(j) ==
  \/ j.status \in {"pending", "failed"} /\ ~j.waiting
  \/ j.status = "sending" /\ ~j.waiting

Claimable(j) == Due(j) /\ ~j.leased

\* Jobs that may go when the outbox is full.
Removable(store) ==
  {id \in DOMAIN store : store[id].status \in {"sent", "dead-letter"}}

(***************************************************************************)
(* sendCandidate: the capture is stored unless its key is already there    *)
(* and not a dead letter.  The retry run it then asks for is StartRun.     *)
(***************************************************************************)
Capture(k) ==
  /\ captures < MaxCaptures
  /\ captures' = captures + 1
  /\ \E old \in SUBSET Terminal :
       LET store == Kept(old) IN
       \/ ~Absent(store, k) /\ jobs' = store
       \/ /\ Absent(store, k)
          /\ \E id \in JobIds \ InUse :
             \/ /\ Cardinality(DOMAIN store) < MAX_OUTBOX_JOBS
                /\ jobs' = Stored(store, id, NewJob(k))
             \/ /\ Cardinality(DOMAIN store) >= MAX_OUTBOX_JOBS
                /\ \E gone \in Removable(store) :
                     jobs' = Stored(Restrict(store, DOMAIN store \ {gone}), id, NewJob(k))
       \/ /\ Absent(store, k)
          /\ Cardinality(DOMAIN store) >= MAX_OUTBOX_JOBS
          /\ Removable(store) = {}
          /\ jobs' = store
  /\ UNCHANGED <<run, connected, late, up, daemonVars, boundVars>>

\* clearLocalData: the user empties the outbox, or its finished jobs.
Clear ==
  /\ jobs # <<>>
  /\ jobs' \in {<<>>, Kept(Terminal)}
  /\ UNCHANGED <<run, connected, late, up, daemonVars, captures, boundVars>>

\* Two minutes pass since the claim.
LeaseLapses(id) ==
  /\ jobs[id].leased
  /\ jobs' = [jobs EXCEPT ![id].leased = FALSE]
  /\ UNCHANGED <<run, connected, late, up, daemonVars, captures, boundVars>>

\* nextRetryAt passes, or two minutes in "sending"; the claim was no later.
WaitEnds(id) ==
  /\ jobs[id].waiting
  /\ jobs[id].status = "sending" => ~jobs[id].leased
  /\ jobs' = [jobs EXCEPT ![id].waiting = FALSE]
  /\ UNCHANGED <<run, connected, late, up, daemonVars, captures, boundVars>>

----------------------------------------------------------------------------
(* The retry run *)

\* Defect: a second run starts while one is in flight.
FlightFree_Bug == \E f \in Flights : run[f].at = "idle"

\* SingleFlight.run: a run in flight is joined, never doubled.
FlightFree == \A f \in Flights : run[f].at = "idle"

\* runOnce: maintenance, then claimDue under the lease.
StartRun(f) ==
  /\ FlightFree
  /\ f = Min({g \in Flights : run[g].at = "idle"})
  /\ \E old \in SUBSET Terminal :
       LET store == Kept(old)
           due   == {id \in DOMAIN store : Claimable(store[id])}
       IN /\ due # {}
          /\ jobs' = [id \in DOMAIN store |->
                        IF id \in due THEN [store[id] EXCEPT !.leased = TRUE]
                                      ELSE store[id]]
          /\ run' = [run EXCEPT ![f] =
                       [at |-> "next", job |-> NoJob,
                        todo |-> {[id |-> id, key |-> store[id].key,
                                   attempts |-> store[id].attempts] : id \in due}]]
  /\ UNCHANGED <<connected, late, up, daemonVars, captures, boundVars>>

Goes(f, place) == run' = [run EXCEPT ![f].at = place]

\* The run's next job; the run ends with its last one.
Done(f) ==
  run' = [run EXCEPT ![f] = IF run[f].todo = {} THEN Idle
                            ELSE [run[f] EXCEPT !.at = "next", !.job = NoJob]]

\* update(job, { status: 'sending', attempts }).
MarkSending(f) ==
  /\ run[f].at = "next"
  /\ \E j \in run[f].todo :
       /\ run' = [run EXCEPT ![f] =
                    [at |-> "ready", todo |-> run[f].todo \ {j},
                     job |-> [j EXCEPT !.attempts = j.attempts + 1]]]
       /\ jobs' = IF j.id \in DOMAIN jobs
                  THEN Update(j.id, [jobs[j.id] EXCEPT !.status = "sending",
                                     !.attempts = j.attempts + 1, !.waiting = TRUE])
                  ELSE jobs
  /\ UNCHANGED <<connected, late, up, daemonVars, captures, boundVars>>

\* ensureReadyToSend: a plain Error, which is not retryable, if the daemon is away.
EnsureReady(f) ==
  /\ run[f].at = "ready"
  /\ connected' = (connected \/ up)
  /\ Goes(f, IF connected' THEN "native" ELSE "refused")
  /\ UNCHANGED <<late, up, daemonVars, outboxVars, boundVars>>

----------------------------------------------------------------------------
(* The daemon's reviews *)

Pending(k) == \E i \in DOMAIN reviews : reviews[i].key = k

\* The oldest reviews make room for one more.
Room(q) ==
  IF Len(q) < MAX_PENDING_CAPTURE_REVIEWS THEN q
  ELSE SubSeq(q, Len(q) - MAX_PENDING_CAPTURE_REVIEWS + 2, Len(q))

\* Defect: the idempotency key is not looked up.
Queued_Bug(k) == Append(Room(reviews), [key |-> k, back |-> FALSE])

\* queue_capture_review: a key that is pending already is answered as a duplicate.
Queued(k) ==
  IF Pending(k) THEN reviews
  ELSE Append(Room(reviews), [key |-> k, back |-> FALSE])

\* The daemon takes a request of job id.
Takes(id, k) ==
  /\ up
  /\ k \notin Invalid
  /\ reviews' = Queued(k)
  /\ jobs' = IF id \in DOMAIN jobs
             THEN Update(id, [jobs[id] EXCEPT !.accepted = TRUE]) ELSE jobs

\* Defect: an error of the native call is logged and taken for success.
OnError_Bug(at, verdict) == IF at = "native" THEN "accepted" ELSE verdict

\* An error of the native call falls back to HTTP; one of HTTP ends the attempt.
OnError(at, verdict) == IF at = "native" THEN "http" ELSE verdict

Sending(f) == run[f].at \in {"native", "http"}

\* The daemon accepts and its answer arrives.
Accepted(f) ==
  /\ Sending(f)
  /\ Takes(run[f].job.id, run[f].job.key)
  /\ Goes(f, "accepted")
  /\ UNCHANGED <<connected, late, up, taken, captures, boundVars>>

\* The daemon accepts and its answer is lost: the sender sees an error.
AnswerLost(f) ==
  /\ Sending(f)
  /\ Takes(run[f].job.id, run[f].job.key)
  /\ Goes(f, OnError(run[f].at, "failing"))
  /\ UNCHANGED <<connected, late, up, taken, captures, boundVars>>

\* The daemon refuses the candidate: assertTaskAccepted throws TASK_REJECTED.
Rejected(f) ==
  /\ Sending(f)
  /\ up /\ run[f].job.key \in Invalid
  /\ Goes(f, OnError(run[f].at, "refused"))
  /\ UNCHANGED <<connected, late, up, daemonVars, outboxVars, boundVars>>

\* The request never reaches the daemon.
Unreachable(f) ==
  /\ Sending(f)
  /\ Goes(f, OnError(run[f].at, "failing"))
  /\ UNCHANGED <<connected, late, up, daemonVars, outboxVars, boundVars>>

\* The sender times out and its request is still on the way.
TimedOut(f) ==
  /\ Sending(f)
  /\ Cardinality(late) < MaxLate
  /\ late' = late \cup {[id |-> run[f].job.id, key |-> run[f].job.key, via |-> run[f].at]}
  /\ Goes(f, OnError(run[f].at, "failing"))
  /\ UNCHANGED <<connected, up, daemonVars, outboxVars, boundVars>>

\* A request nobody waits for is delivered, or lost with the daemon.
LateDelivered(l) ==
  /\ late' = late \ {l}
  /\ \/ Takes(l.id, l.key)
     \/ UNCHANGED <<jobs, reviews>>
  /\ UNCHANGED <<run, connected, up, taken, captures, boundVars>>

\* update(job, { status: 'sent', lease cleared }).
RecordSent(f) ==
  /\ run[f].at = "accepted"
  /\ LET id == run[f].job.id IN
     jobs' = IF id \in DOMAIN jobs
             THEN Update(id, [jobs[id] EXCEPT !.status = "sent",
                              !.leased = FALSE, !.waiting = FALSE])
             ELSE jobs
  /\ Done(f)
  /\ UNCHANGED <<connected, late, up, daemonVars, captures, boundVars>>

GivesUp(f) == run[f].at = "refused" \/ run[f].job.attempts >= MAX_ATTEMPTS

\* The catch of runOnce: failed until nextRetryAt, or a dead letter.
RecordFailure(f) ==
  /\ run[f].at \in {"failing", "refused"}
  /\ LET id == run[f].job.id IN
     jobs' = IF id \in DOMAIN jobs
             THEN Update(id, [jobs[id] EXCEPT
                    !.status = IF GivesUp(f) THEN "dead-letter" ELSE "failed",
                    !.leased = FALSE, !.waiting = ~GivesUp(f)])
             ELSE jobs
  /\ Done(f)
  /\ UNCHANGED <<connected, late, up, daemonVars, captures, boundVars>>

(***************************************************************************)
(* The browser ends the service worker: the run is gone wherever it was,   *)
(* its request may still be on the way, and init() forgets the connection. *)
(***************************************************************************)
Kill ==
  /\ kills < MaxKills
  /\ kills' = kills + 1
  /\ run' = [f \in Flights |-> Idle]
  /\ connected' = FALSE
  /\ \/ late' = late
     \/ \E f \in Flights :
          /\ Sending(f)
          /\ Cardinality(late) < MaxLate
          /\ late' = late \cup {[id |-> run[f].job.id, key |-> run[f].job.key,
                                 via |-> run[f].at]}
  /\ UNCHANGED <<up, daemonVars, outboxVars, stops, consumes>>

----------------------------------------------------------------------------
(* The desktop *)

\* handle_consume_capture_review removes the review before it creates the task.
Consume(i) ==
  /\ up
  /\ consumes < MaxConsumes
  /\ consumes' = consumes + 1
  /\ taken' = Append(taken, reviews[i])
  /\ reviews' = RemoveAt(reviews, i)
  /\ UNCHANGED <<jobs, run, connected, late, up, captures, kills, stops>>

\* The task exists.
ConsumeSucceeds(i) ==
  /\ taken' = RemoveAt(taken, i)
  /\ UNCHANGED <<jobs, run, connected, late, up, reviews, captures, boundVars>>

\* The task could not be created: the review returns to the front.
ConsumeFails(i) ==
  /\ taken' = RemoveAt(taken, i)
  /\ reviews' = <<[taken[i] EXCEPT !.back = TRUE]>> \o Room(reviews)
  /\ UNCHANGED <<jobs, run, connected, late, up, captures, boundVars>>

\* The user discards a review, or fifteen minutes pass over it.
Discard(i) ==
  /\ reviews' = RemoveAt(reviews, i)
  /\ UNCHANGED <<jobs, run, connected, late, up, taken, captures, boundVars>>

DaemonStops ==
  /\ up
  /\ stops < MaxStops
  /\ stops' = stops + 1
  /\ up' = FALSE
  /\ reviews' = <<>>
  /\ taken' = <<>>
  /\ UNCHANGED <<jobs, run, connected, late, captures, kills, consumes>>

DaemonStarts ==
  /\ ~up
  /\ up' = TRUE
  /\ UNCHANGED <<jobs, run, connected, late, daemonVars, captures, boundVars>>

----------------------------------------------------------------------------
Init ==
  /\ jobs = <<>>
  /\ run = [f \in Flights |-> Idle]
  /\ connected = FALSE
  /\ late = {}
  /\ up = TRUE
  /\ reviews = <<>>
  /\ taken = <<>>
  /\ captures = 0
  /\ kills = 0
  /\ stops = 0
  /\ consumes = 0

RunStep(f) ==
  \/ MarkSending(f) \/ EnsureReady(f)
  \/ Accepted(f) \/ AnswerLost(f) \/ Rejected(f) \/ Unreachable(f) \/ TimedOut(f)
  \/ RecordSent(f) \/ RecordFailure(f)

Next ==
  \/ \E k \in Keys : Capture(k)
  \/ Clear
  \/ \E id \in DOMAIN jobs : LeaseLapses(id) \/ WaitEnds(id)
  \/ \E f \in Flights : StartRun(f) \/ RunStep(f)
  \/ \E l \in late : LateDelivered(l)
  \/ Kill
  \/ \E i \in DOMAIN reviews : Consume(i) \/ Discard(i)
  \/ \E i \in DOMAIN taken : ConsumeSucceeds(i) \/ ConsumeFails(i)
  \/ DaemonStops \/ DaemonStarts

Spec == Init /\ [][Next]_vars

(***************************************************************************)
(* The one-minute alarm starts runs again and again, time passes, and      *)
(* every request of a run is answered or times out.                        *)
(***************************************************************************)
Fairness ==
  /\ WF_vars(\E f \in Flights : StartRun(f))
  /\ WF_vars(\E f \in Flights : RunStep(f))
  /\ WF_vars(\E id \in DOMAIN jobs : LeaseLapses(id) \/ WaitEnds(id))

FairSpec == Spec /\ Fairness

----------------------------------------------------------------------------
(* Properties *)

TypeOK ==
  /\ DOMAIN jobs \subseteq JobIds
  /\ \A id \in DOMAIN jobs : jobs[id] \in Job
  /\ Cardinality(DOMAIN jobs) <= MAX_OUTBOX_JOBS
  /\ \A f \in Flights :
       /\ run[f].at \in Places
       /\ run[f].job \in Claims \cup {NoJob}
       /\ run[f].todo \subseteq Claims
  /\ late \subseteq LateRequest
  /\ \A i \in DOMAIN reviews : reviews[i] \in Review
  /\ \A i \in DOMAIN taken : taken[i] \in Review
  /\ {connected, up} \subseteq BOOLEAN

(***************************************************************************)
(* Types, and: a job recorded as sent was taken by the daemon: no error    *)
(* path, fallback or restart of the worker records a capture the daemon    *)
(* never saw.                                                              *)
(***************************************************************************)
SentWasAccepted ==
  /\ TypeOK
  /\ \A id \in DOMAIN jobs : jobs[id].status = "sent" => jobs[id].accepted

(***************************************************************************)
(* A job that was recorded as sent is never sent again: whatever an older  *)
(* or slower run still writes, "sent" stays until the job is removed.      *)
(***************************************************************************)
SentIsFinal ==
  [][\A id \in DOMAIN jobs :
       jobs[id].status = "sent" =>
         (id \in DOMAIN jobs' => jobs'[id].status = "sent")]_vars

(***************************************************************************)
(* The daemon never holds two reviews of one capture because of a retry, a *)
(* fallback or a late request: if it does, one of them came back from an   *)
(* approval that failed.                                                   *)
(***************************************************************************)
RetriesAreDeduplicated ==
  \A i, j \in DOMAIN reviews :
    i # j /\ reviews[i].key = reviews[j].key => reviews[i].back \/ reviews[j].back

(***************************************************************************)
(* Every captured job ends as sent or as a dead letter, unless the user    *)
(* clears it: no kill of the worker leaves one leased or sending for good. *)
(***************************************************************************)
EveryJobSettles ==
  \A id \in JobIds :
    (id \in DOMAIN jobs /\ id \notin Terminal) ~>
      (id \notin DOMAIN jobs \/ id \in Terminal)

(***************************************************************************)
(* What the extension's README says of the outbox: a captured item is      *)
(* retried once the desktop becomes reachable, so only the daemon's        *)
(* refusal or the last attempt makes a dead letter.                        *)
(***************************************************************************)
UnreachableIsRetried ==
  \A id \in DOMAIN jobs :
    jobs[id].status = "dead-letter" =>
      jobs[id].attempts >= MAX_ATTEMPTS \/ jobs[id].key \in Invalid

=============================================================================

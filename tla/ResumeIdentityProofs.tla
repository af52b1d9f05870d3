------------------------ MODULE ResumeIdentityProofs ------------------------
(***************************************************************************)
(* What is proved of ResumeIdentity for every number of representations,    *)
(* changes, runs, attempts and crashes.                                     *)
(*                                                                          *)
(* The argument orders the representations by their number: a server that   *)
(* takes none back only moves up. Every validator the daemon holds is at    *)
(* most the representation of the bytes on disk (Ordered), and a response    *)
(* is at least that; a response that passes the checks has the validator of  *)
(* the plan, so all three are the same. What the argument needs besides is   *)
(* that a validator is known and saved whenever there are bytes (Bound),     *)
(* which a 206 without a validator could undo.                               *)
(***************************************************************************)
EXTENDS ResumeIdentity, TLAPS

\* What the first byte of the file is of.
First == file[1].rep

Begins(r) == \A i \in DOMAIN file : file[i] = [rep |-> r, off |-> i]

Before     == {"preflight", "compare", "adopt", "adopt size", "learn", "dispatch"}
Attempting == {"open", "request", "body", "readopt", "readopt size", "error",
               "validate"}

----------------------------------------------------------------------------
\* Types, and what a response being read looks like.

ResponseInv ==
  pc = "body" =>
    /\ resp.rep \in Reps /\ resp.status \in {200, 206}
    /\ resp.status = 206 => /\ 0 < resp.from /\ resp.from < Size[resp.rep]
                            /\ cur.res
    /\ resp.status = 200 /\ resp.from > 0 => resp.next = 1
    /\ resp.next \in 1 .. Size[resp.rep] + 1
    /\ resume > 0 => cur.val # None /\ cur.res /\ resp.from = resume
    /\ resp.val \in {None, resp.rep}
    /\ resp.val = None => /\ "terse" \in env /\ resp.status = 206
                          /\ cur.val \in {resp.rep, None}
    /\ resp.from > 0 => cur.res
    /\ cur.val # None /\ cur.res => resume = resp.from

RequestInv == pc = "request" => resume = IF cur.res /\ cur.val # None THEN Len(file) ELSE 0

BaseInv == TypeOK /\ ResponseInv /\ RequestInv

----------------------------------------------------------------------------
\* The saved validator, where no representation comes back.

Stale(p) == p.val < rep \/ p.size \notin {None, Size[p.val]}

\* What is in the state file agrees with the job, but for a validator the user's new
\* URL has cleared.
JobSaved ==
  /\ job.val # saved.val => /\ job.val = None
                            /\ pc \in Before \cup Attempting => plan.val = None
                            /\ pc \in Attempting => cur.val = None
  /\ pc \in Before => plan.val = job.val
  /\ pc \in {"adopt", "readopt"} => job.val = saved.val

\* No representation newer than the server's is known.
Known ==
  "revert" \notin env =>
    /\ job.val <= rep /\ saved.val <= rep /\ plan.val <= rep /\ cur.val <= rep
    /\ seen.val <= rep /\ resp.rep <= rep /\ resp.val <= rep

\* A validator that is no longer the saved one belongs to a representation that is
\* gone, or comes with the size of another.
Superseded ==
  "revert" \notin env =>
    /\ pc \in Attempting =>
         /\ plan.val \in {None, saved.val} \/ Stale(plan)
         /\ plan.val = None \/ Stale(plan) \/ (cur.val = plan.val /\ ~Stale(cur))
    /\ pc \in {"readopt", "readopt size"} =>
         seen.val = None \/ seen.size = Size[seen.val]
    /\ pc = "readopt" => plan.val \in {None, seen.val} \/ Stale(plan)
    /\ pc = "readopt size" => cur.val = seen.val /\ cur.val \in {None, saved.val}
    /\ pc \in {"open", "request"} => cur.val \in {None, saved.val} \/ Stale(cur)
    /\ pc = "body" =>
         /\ cur.val <= resp.rep
         /\ \/ cur.val \in {None, saved.val} \/ cur.val < resp.rep
            \/ cur.size \notin {None, Size[cur.val]}

SavedInv == JobSaved /\ Known /\ Superseded

----------------------------------------------------------------------------
\* A resumable task in a trusted environment.

Bound ==
  /\ job.val = saved.val
  /\ file # <<>> => saved.val # None
  /\ pc \in {"compare", "adopt", "adopt size", "learn", "readopt", "readopt size"} =>
       seen.val # None /\ seen.size # None
  /\ pc \in {"dispatch"} \cup Attempting => plan.val # None /\ plan.size # None
  /\ pc \in Attempting => cur.val # None /\ cur.size # None /\ saved.val # None
  /\ pc \in {"adopt", "adopt size", "readopt", "readopt size"} => file = <<>>

Restarted ==
  /\ pc \in Before => plan.res
  /\ pc \in Attempting => cur.res = plan.res
  /\ pc \in {"open", "request"} /\ ~cur.res => file = <<>>
  /\ pc \in {"readopt", "readopt size"} => cur.res

Ordered ==
  /\ pc \in Attempting => plan.val <= job.val /\ cur.val <= job.val
  /\ pc = "body" => job.val <= resp.rep
  /\ pc = "readopt" => job.val <= seen.val
  /\ file # <<>> =>
       /\ pc # "accepted" => job.val <= First
       /\ First <= rep
       /\ pc = "body" => First <= resp.rep

Whole(f) == f # <<>> /\ Len(f) = Size[f[1].rep]

Contents ==
  /\ Begins(First)
  /\ pc = "body" =>
       /\ resp.from = 0 \/ resp.status = 206 => Len(file) = resp.next - 1
       /\ resp.next > resp.from + 1 => First = resp.rep
  /\ pc \in {"validate", "accepted"} => Whole(file)

TrustedInv == Trusted => Bound /\ Restarted /\ Ordered /\ Contents

----------------------------------------------------------------------------
\* A task that is not resumable.

Unresumable == env \subseteq {"rude", "whole"} /\ "whole" \in env

\* The plan never resumes, and its size is known.
FixedPlan ==
  /\ pc \in {"compare", "adopt", "adopt size", "learn"} => seen.size # None
  /\ pc = "dispatch" \/ pc \in Attempting => plan.size # None
  /\ pc \in Before \cup Attempting => ~plan.res
  /\ pc \in Attempting => cur = plan
  /\ pc \notin {"readopt", "readopt size"}
  /\ pc \in {"request", "body"} => resume = 0
  /\ pc = "body" => resp.from = 0

\* The file is the beginning of the response, or the response was appended to one that
\* already had the size of the plan and is now too long to pass.
FreshOrTooLong ==
  /\ pc = "request" => file = <<>> \/ Len(file) = plan.size
  /\ pc = "body" => \/ Begins(resp.rep) /\ Len(file) = resp.next - 1
                    \/ Len(file) = plan.size + resp.next - 1
  /\ pc = "validate" => (Begins(First) /\ Whole(file)) \/ Len(file) > plan.size
  /\ pc = "accepted" => Begins(First) /\ Whole(file)

WholeInv == Unresumable => FixedPlan /\ FreshOrTooLong

----------------------------------------------------------------------------
\* Types.

USE DEF None

\* The representations are numbers and their sizes are positive.
LEMMA RepsAreNumbers ==
  /\ \A r \in Reps : r \in Nat /\ r # None /\ Size[r] \in Nat /\ Size[r] # None
  /\ \A r \in Reps : Size[r] \in Sizes
  /\ Sizes \subseteq Nat
BY ResumeAssumption DEF Sizes

\* The records the actions build.
LEMMA Records ==
  /\ NoIdentity \in Identity /\ NoPlan \in Plan /\ NoResponse \in Response
  /\ \A v \in Reps \cup {None}, s \in Sizes : [val |-> v, size |-> s] \in Identity
  /\ \A v \in Reps \cup {None}, s \in Sizes, b \in BOOLEAN :
       [val |-> v, size |-> s, res |-> b] \in Plan
  /\ \A i \in Identity : i.val \in Reps \cup {None} /\ i.size \in Sizes
  /\ \A q \in Plan : q.val \in Reps \cup {None} /\ q.size \in Sizes /\ q.res \in BOOLEAN
<1>1. NoIdentity \in Identity /\ NoPlan \in Plan /\ NoResponse \in Response
  BY DEF NoIdentity, NoPlan, NoResponse, Identity, Plan, Response, Sizes
<1>2. \A v \in Reps \cup {None}, s \in Sizes : [val |-> v, size |-> s] \in Identity
  BY DEF Identity
<1>3. \A v \in Reps \cup {None}, s \in Sizes, b \in BOOLEAN :
        [val |-> v, size |-> s, res |-> b] \in Plan
  BY DEF Plan
<1>4. \A i \in Identity : i.val \in Reps \cup {None} /\ i.size \in Sizes
  BY DEF Identity
<1>5. \A q \in Plan : q.val \in Reps \cup {None} /\ q.size \in Sizes /\ q.res \in BOOLEAN
  BY DEF Plan
<1> QED
  BY <1>1, <1>2, <1>3, <1>4, <1>5

\* The same records with one field changed.
LEMMA Updates ==
  /\ \A i \in Identity, v \in Reps \cup {None} : [i EXCEPT !.val = v] \in Identity
  /\ \A i \in Identity, s \in Sizes : [i EXCEPT !.size = s] \in Identity
  /\ \A q \in Plan, v \in Reps \cup {None} : [q EXCEPT !.val = v] \in Plan
  /\ \A q \in Plan, s \in Sizes : [q EXCEPT !.size = s] \in Plan
  /\ \A q \in Plan, v \in Reps \cup {None}, s \in Sizes :
       [q EXCEPT !.val = v, !.size = s] \in Plan
  /\ \A q \in Plan, b \in BOOLEAN : [q EXCEPT !.res = b] \in Plan
<1>1. \A i \in Identity, v \in Reps \cup {None} : [i EXCEPT !.val = v] \in Identity
  BY DEF Identity
<1>2. \A i \in Identity, s \in Sizes : [i EXCEPT !.size = s] \in Identity
  BY DEF Identity
<1>3. \A q \in Plan, v \in Reps \cup {None} : [q EXCEPT !.val = v] \in Plan
  BY DEF Plan
<1>4. \A q \in Plan, s \in Sizes : [q EXCEPT !.size = s] \in Plan
  BY DEF Plan
<1>5. \A q \in Plan, v \in Reps \cup {None}, s \in Sizes :
        [q EXCEPT !.val = v, !.size = s] \in Plan
  BY DEF Plan
<1>6. \A q \in Plan, b \in BOOLEAN : [q EXCEPT !.res = b] \in Plan
  BY DEF Plan
<1> QED
  BY <1>1, <1>2, <1>3, <1>4, <1>5, <1>6

\* The parts of the type invariant: the identities, the transfer, the counters.
IdTypes   == /\ job \in Identity /\ saved \in Identity /\ seen \in Identity
             /\ plan \in Plan /\ cur \in Plan
FileTypes == /\ file \in Seq(Byte) /\ resume \in Nat /\ resp \in Response
EnvTypes  == /\ env \in Envs /\ rep \in Reps /\ overwrite \in BOOLEAN
             /\ pc \in PC /\ attempt \in 0 .. Attempts - 1
             /\ changes \in 0 .. MaxChanges /\ runs \in 0 .. MaxRuns
             /\ crashes \in 0 .. MaxCrashes

LEMMA TypeParts == TypeOK <=> IdTypes /\ FileTypes /\ EnvTypes
BY DEF TypeOK, IdTypes, FileTypes, EnvTypes

LEMMA BaseInit == Init => BaseInv
<1> SUFFICES ASSUME Init PROVE BaseInv
  OBVIOUS
<1>1. IdTypes
  BY Records DEF Init, IdTypes
<1>2. FileTypes
  BY Records DEF Init, FileTypes
<1>3. EnvTypes
  BY ResumeAssumption DEF Init, EnvTypes, PC
<1> QED
  BY <1>1, <1>2, <1>3, TypeParts DEF Init, BaseInv, ResponseInv, RequestInv

LEMMA IdTypesStep == BaseInv /\ [Next]_vars => IdTypes'
<1> SUFFICES ASSUME BaseInv, [Next]_vars PROVE IdTypes'
  OBVIOUS
<1> USE TypeParts, Records DEF BaseInv
<1>1. CASE change
  BY <1>1 DEF change, IdTypes, idVars
<1>2. CASE update_task_metadata
  BY <1>2, Updates DEF update_task_metadata, IdTypes, idVars
<1>3. CASE save
  BY <1>3 DEF save, IdTypes, idVars
<1>4. CASE crash
  BY <1>4 DEF crash, IdTypes, idVars
<1>5. CASE plan_from_job
  BY <1>5 DEF plan_from_job, IdTypes, idVars
<1>6. CASE resolve_effective_target
  BY <1>6, RepsAreNumbers DEF resolve_effective_target, IdTypes, idVars, EnvTypes
<1>7. CASE compare_identity
  BY <1>7 DEF compare_identity, IdTypes, idVars
<1>8. CASE adopt_validator
  BY <1>8, Updates DEF adopt_validator, IdTypes, idVars
<1>9. CASE adopt_size
  BY <1>9, Updates DEF adopt_size, IdTypes, idVars
<1>10. CASE learn
  BY <1>10, Updates DEF learn, IdTypes, idVars
<1>11. CASE auto_rename
  BY <1>11 DEF auto_rename, IdTypes, idVars
<1>12. CASE open_output
  BY <1>12 DEF open_output, IdTypes, idVars
<1>13. CASE request
  BY <1>13 DEF request, IdTypes, idVars
<1>14. CASE range_refused
  BY <1>14 DEF range_refused, IdTypes, idVars
<1>15. CASE write
  BY <1>15 DEF write, IdTypes, idVars
<1>16. CASE tick
  <2>1. (IF cur.size # None THEN cur.size ELSE Size[resp.rep]) \in Sizes
    BY <1>16, RepsAreNumbers DEF tick, IdTypes, ResponseInv
  <2> QED
    BY <1>16, <2>1, Updates DEF tick, IdTypes
<1>17. CASE range_ignored
  BY <1>17 DEF range_ignored, IdTypes, idVars
<1>18. CASE reject_unsafe_range_response
  BY <1>18, RepsAreNumbers DEF reject_unsafe_range_response, IdTypes, idVars, ResponseInv,
     observed, FileTypes, Response
<1>19. CASE interrupted
  BY <1>19 DEF interrupted, IdTypes, idVars
<1>20. CASE body_ends
  BY <1>20 DEF body_ends, IdTypes, idVars
<1>21. CASE validate_transfer_size
  BY <1>21, Updates DEF validate_transfer_size, IdTypes, idVars, FileTypes, Response
<1>22. CASE attempt_failed
  BY <1>22, Updates DEF attempt_failed, IdTypes, idVars
<1>23. CASE cancelled
  BY <1>23 DEF cancelled, IdTypes, idVars
<1>24. CASE UNCHANGED vars
  BY <1>24 DEF vars, idVars, runVars, envVars, IdTypes
<1> QED
  BY <1>1, <1>2, <1>3, <1>4, <1>5, <1>6, <1>7, <1>8, <1>9, <1>10, <1>11, <1>12, <1>13,
     <1>14, <1>15, <1>16, <1>17, <1>18, <1>19, <1>20, <1>21, <1>22, <1>23, <1>24 DEF Next

LEMMA FileTypesStep == BaseInv /\ [Next]_vars => FileTypes'
<1> SUFFICES ASSUME BaseInv, [Next]_vars PROVE FileTypes'
  OBVIOUS
<1> USE TypeParts DEF BaseInv
<1>1. CASE change
  BY <1>1 DEF change, FileTypes, runVars
<1>2. CASE update_task_metadata
  BY <1>2 DEF update_task_metadata, FileTypes, runVars
<1>3. CASE save
  BY <1>3 DEF save, FileTypes, runVars
<1>4. CASE crash
  BY <1>4, Records DEF crash, FileTypes, runVars
<1>5. CASE plan_from_job
  BY <1>5 DEF plan_from_job, FileTypes, runVars
<1>6. CASE resolve_effective_target
  BY <1>6 DEF resolve_effective_target, FileTypes, runVars
<1>7. CASE compare_identity
  <2>1. file' = <<>> \/ file' = file
    BY <1>7 DEF compare_identity
  <2>2. resume' = resume /\ resp' = resp
    BY <1>7 DEF compare_identity, runVars
  <2>3. CASE file' = <<>>
    BY <2>2, <2>3 DEF FileTypes
  <2>4. CASE file' = file
    BY <2>2, <2>4 DEF FileTypes
  <2> QED
    BY <2>1, <2>3, <2>4
<1>8. CASE adopt_validator
  BY <1>8 DEF adopt_validator, FileTypes, runVars
<1>9. CASE adopt_size
  BY <1>9 DEF adopt_size, FileTypes, runVars
<1>10. CASE learn
  BY <1>10 DEF learn, FileTypes, runVars
<1>11. CASE auto_rename
  BY <1>11 DEF auto_rename, FileTypes, runVars
<1>12. CASE open_output
  BY <1>12 DEF open_output, FileTypes, runVars
<1>13. CASE request
  BY <1>13 DEF request, FileTypes, runVars, EnvTypes, Answer, RangeStart, Response
<1>14. CASE range_refused
  BY <1>14 DEF range_refused, FileTypes, runVars
<1>15. CASE write
  <2>1. [rep |-> resp.rep, off |-> resp.next] \in Byte
    BY <1>15 DEF write, ResponseInv, Byte, FileTypes, Response
  <2>2. [resp EXCEPT !.next = resp.next + 1] \in Response
    BY DEF FileTypes, Response
  <2> QED
    BY <1>15, <2>1, <2>2 DEF write, FileTypes
<1>16. CASE tick
  BY <1>16 DEF tick, FileTypes, runVars
<1>17. CASE range_ignored
  <2>1. file' = <<>> \/ file' = file
    BY <1>17 DEF range_ignored
  <2>2. resume' = resume /\ resp' = resp
    BY <1>17 DEF range_ignored, runVars
  <2>3. CASE file' = <<>>
    BY <2>2, <2>3 DEF FileTypes
  <2>4. CASE file' = file
    BY <2>2, <2>4 DEF FileTypes
  <2> QED
    BY <2>1, <2>3, <2>4
<1>18. CASE reject_unsafe_range_response
  BY <1>18 DEF reject_unsafe_range_response, FileTypes, runVars
<1>19. CASE interrupted
  BY <1>19 DEF interrupted, FileTypes, runVars
<1>20. CASE body_ends
  BY <1>20 DEF body_ends, FileTypes, runVars
<1>21. CASE validate_transfer_size
  BY <1>21 DEF validate_transfer_size, FileTypes, runVars
<1>22. CASE attempt_failed
  <2>1. file' = <<>> \/ file' = file
    BY <1>22 DEF attempt_failed
  <2>2. resume' = resume /\ resp' = resp
    BY <1>22 DEF attempt_failed, runVars
  <2>3. CASE file' = <<>>
    BY <2>2, <2>3 DEF FileTypes
  <2>4. CASE file' = file
    BY <2>2, <2>4 DEF FileTypes
  <2> QED
    BY <2>1, <2>3, <2>4
<1>23. CASE cancelled
  BY <1>23 DEF cancelled, FileTypes, runVars
<1>24. CASE UNCHANGED vars
  BY <1>24 DEF vars, idVars, runVars, envVars, FileTypes
<1> QED
  BY <1>1, <1>2, <1>3, <1>4, <1>5, <1>6, <1>7, <1>8, <1>9, <1>10, <1>11, <1>12, <1>13,
     <1>14, <1>15, <1>16, <1>17, <1>18, <1>19, <1>20, <1>21, <1>22, <1>23, <1>24 DEF Next

LEMMA EnvTypesStep == BaseInv /\ [Next]_vars => EnvTypes'
<1> SUFFICES ASSUME BaseInv, [Next]_vars PROVE EnvTypes'
  OBVIOUS
<1> USE TypeParts, ResumeAssumption DEF BaseInv
<1>1. CASE change
  BY <1>1 DEF change, EnvTypes, runVars, Replacements
<1>2. CASE update_task_metadata
  BY <1>2 DEF update_task_metadata, EnvTypes, envVars, runVars, PC, Replacements
<1>3. CASE save
  BY <1>3 DEF save, EnvTypes, envVars, runVars, PC
<1>4. CASE crash
  <2>1. pc' \in PC
    BY <1>4 DEF crash, PC
  <2> QED
    BY <1>4, <2>1 DEF crash, EnvTypes
<1>5. CASE plan_from_job
  BY <1>5 DEF plan_from_job, EnvTypes, envVars, runVars, PC
<1>6. CASE resolve_effective_target
  BY <1>6 DEF resolve_effective_target, EnvTypes, envVars, runVars, PC
<1>7. CASE compare_identity
  BY <1>7 DEF compare_identity, EnvTypes, envVars, runVars, PC
<1>8. CASE adopt_validator
  BY <1>8 DEF adopt_validator, EnvTypes, envVars, runVars, PC
<1>9. CASE adopt_size
  BY <1>9 DEF adopt_size, EnvTypes, envVars, runVars, PC
<1>10. CASE learn
  BY <1>10 DEF learn, EnvTypes, envVars, runVars, PC
<1>11. CASE auto_rename
  BY <1>11 DEF auto_rename, EnvTypes, envVars, runVars, PC
<1>12. CASE open_output
  BY <1>12 DEF open_output, EnvTypes, envVars, runVars, PC
<1>13. CASE request
  BY <1>13 DEF request, EnvTypes, envVars, runVars, PC
<1>14. CASE range_refused
  BY <1>14 DEF range_refused, EnvTypes, envVars, runVars, PC
<1>15. CASE write
  BY <1>15 DEF write, EnvTypes, envVars, runVars, PC
<1>16. CASE tick
  BY <1>16 DEF tick, EnvTypes, envVars, runVars, PC
<1>17. CASE range_ignored
  BY <1>17 DEF range_ignored, EnvTypes, envVars, runVars, PC
<1>18. CASE reject_unsafe_range_response
  BY <1>18 DEF reject_unsafe_range_response, EnvTypes, envVars, runVars, PC
<1>19. CASE interrupted
  BY <1>19 DEF interrupted, EnvTypes, envVars, runVars, PC
<1>20. CASE body_ends
  BY <1>20 DEF body_ends, EnvTypes, envVars, runVars, PC
<1>21. CASE validate_transfer_size
  BY <1>21 DEF validate_transfer_size, EnvTypes, envVars, runVars, PC
<1>22. CASE attempt_failed
  <2>1. pc' \in PC
    BY <1>22 DEF attempt_failed, PC
  <2> QED
    BY <1>22, <2>1 DEF attempt_failed, MayRetry, EnvTypes, envVars
<1>23. CASE cancelled
  <2>1. pc' \in PC
    BY <1>23 DEF cancelled, PC
  <2> QED
    BY <1>23, <2>1 DEF cancelled, EnvTypes, envVars
<1>24. CASE UNCHANGED vars
  BY <1>24 DEF vars, idVars, runVars, envVars, EnvTypes, PC
<1> QED
  BY <1>1, <1>2, <1>3, <1>4, <1>5, <1>6, <1>7, <1>8, <1>9, <1>10, <1>11, <1>12, <1>13,
     <1>14, <1>15, <1>16, <1>17, <1>18, <1>19, <1>20, <1>21, <1>22, <1>23, <1>24 DEF Next

\* Steps that neither read a response nor wait for one say nothing about either.
LEMMA ResponseStep == BaseInv /\ [Next]_vars => ResponseInv' /\ RequestInv'
<1> SUFFICES ASSUME BaseInv, [Next]_vars PROVE ResponseInv' /\ RequestInv'
  OBVIOUS
<1> USE TypeParts DEF BaseInv
<1>1. CASE pc' \notin {"request", "body"}
  BY <1>1 DEF ResponseInv, RequestInv
<1>2. CASE change \/ save \/ UNCHANGED vars
  BY <1>2 DEF change, save, vars, idVars, runVars, envVars, ResponseInv, RequestInv
<1>3. CASE open_output
  BY <1>3 DEF open_output, idVars, envVars, ResponseInv, RequestInv
<1>4. CASE request
  <2>1. CASE pc' = "error"
    BY <2>1 DEF ResponseInv, RequestInv
  <2>2. ASSUME Answer(200, 1), pc' = "body" PROVE ResponseInv' /\ RequestInv'
    BY <1>4, <2>2, RepsAreNumbers DEF request, Answer, RangeStart, idVars, envVars,
       ResponseInv, RequestInv, EnvTypes, IdTypes, FileTypes, Plan
  <2>3. ASSUME 0 < RangeStart, RangeStart < Size[rep], Answer(206, RangeStart + 1),
               pc' = "body"
        PROVE  ResponseInv' /\ RequestInv'
    BY <1>4, <2>3, RepsAreNumbers DEF request, Answer, RangeStart, idVars, envVars,
       ResponseInv, RequestInv, EnvTypes, IdTypes, FileTypes, Plan
  <2> QED
    BY <1>4, <2>1, <2>2, <2>3 DEF request
<1>5. CASE write
  BY <1>5, RepsAreNumbers DEF write, idVars, envVars, ResponseInv, RequestInv, FileTypes,
     Response
<1>6. CASE tick
  BY <1>6 DEF tick, runVars, envVars, ResponseInv, RequestInv
<1>7. ASSUME update_task_metadata \/ crash \/ plan_from_job \/ resolve_effective_target
             \/ compare_identity \/ adopt_validator \/ adopt_size \/ learn \/ auto_rename
             \/ range_refused \/ range_ignored \/ reject_unsafe_range_response
             \/ interrupted \/ body_ends \/ validate_transfer_size \/ attempt_failed
             \/ cancelled
      PROVE pc' \notin {"request", "body"}
  BY <1>7 DEF update_task_metadata, crash, plan_from_job, resolve_effective_target,
     compare_identity, adopt_validator, adopt_size, learn, auto_rename, range_refused,
     range_ignored, reject_unsafe_range_response, interrupted, body_ends,
     validate_transfer_size, attempt_failed, cancelled
<1> QED
  BY <1>1, <1>2, <1>3, <1>4, <1>5, <1>6, <1>7 DEF Next

LEMMA BaseStep == BaseInv /\ [Next]_vars => BaseInv'
<1> SUFFICES ASSUME BaseInv, [Next]_vars PROVE BaseInv'
  OBVIOUS
<1>1. IdTypes' /\ FileTypes' /\ EnvTypes'
  BY IdTypesStep, FileTypesStep, EnvTypesStep
<1>2. TypeOK'
  BY <1>1 DEF TypeOK, IdTypes, FileTypes, EnvTypes
<1> QED
  BY <1>2, ResponseStep DEF BaseInv

LEMMA BaseHolds == Spec => []BaseInv
BY BaseInit, BaseStep, PTL DEF Spec

----------------------------------------------------------------------------
\* The saved validator.

\* Validators are numbers, whether a representation's or none.
LEMMA Validators ==
  BaseInv => /\ job.val \in Nat /\ saved.val \in Nat /\ seen.val \in Nat
             /\ plan.val \in Nat /\ cur.val \in Nat
             /\ rep \in Nat /\ resp.rep \in Nat /\ resp.val \in Nat
<1> SUFFICES ASSUME BaseInv
             PROVE  /\ job.val \in Nat /\ saved.val \in Nat /\ seen.val \in Nat
                    /\ plan.val \in Nat /\ cur.val \in Nat
                    /\ rep \in Nat /\ resp.rep \in Nat /\ resp.val \in Nat
  OBVIOUS
<1>1. IdTypes /\ resp \in Response /\ rep \in Reps
  BY TypeParts DEF BaseInv, FileTypes, EnvTypes
<1>2. /\ job.val \in Reps \cup {None} /\ saved.val \in Reps \cup {None}
      /\ seen.val \in Reps \cup {None}
      /\ plan.val \in Reps \cup {None} /\ cur.val \in Reps \cup {None}
  BY <1>1, Records DEF IdTypes
<1>3. resp.rep \in Reps \cup {None} /\ resp.val \in Reps \cup {None}
  BY <1>1 DEF Response
<1> QED
  BY <1>1, <1>2, <1>3, RepsAreNumbers

\* The fields of the identities after a change of one of them.
LEMMA Fields ==
  BaseInv =>
    /\ \A v : [job EXCEPT !.val = v].val = v /\ [job EXCEPT !.size = v].val = job.val
    /\ \A v : [plan EXCEPT !.val = v].val = v /\ [plan EXCEPT !.val = v].size = plan.size
    /\ \A v : [cur EXCEPT !.val = v].val = v /\ [cur EXCEPT !.val = v].size = cur.size
    /\ \A v : [plan EXCEPT !.size = v].val = plan.val /\ [plan EXCEPT !.size = v].size = v
    /\ \A v : [cur EXCEPT !.size = v].val = cur.val /\ [cur EXCEPT !.size = v].size = v
    /\ [plan EXCEPT !.res = FALSE].val = plan.val
    /\ [plan EXCEPT !.res = FALSE].size = plan.size
BY TypeParts DEF BaseInv, IdTypes, Identity, Plan

\* A server that takes nothing back moves up.
LEMMA NewerReplaces ==
  BaseInv /\ "revert" \notin env => \A r \in Replacements \cup {rep} : r \in Nat /\ rep <= r
<1> SUFFICES ASSUME BaseInv, "revert" \notin env, NEW r \in Replacements \cup {rep}
             PROVE  r \in Nat /\ rep <= r
  OBVIOUS
<1>1. r = rep \/ (r \in Reps /\ r > rep)
  BY Zenon DEF Replacements
<1> QED
  BY <1>1, Validators, RepsAreNumbers

\* What the retry decides about the plan.
LEMMA RetryKeepsIdentity ==
  BaseInv /\ attempt_failed =>
    /\ job' = job /\ saved' = saved /\ rep' = rep /\ env' = env /\ seen' = seen /\ resp' = resp
    /\ pc = "error" /\ pc' \in {"open", "idle"}
    /\ plan'.val = plan.val /\ plan'.size = plan.size
    /\ pc' = "open" => cur' = plan'
    /\ cur' = plan' \/ cur' = cur
<1> SUFFICES ASSUME BaseInv, attempt_failed
             PROVE  /\ job' = job /\ saved' = saved /\ rep' = rep /\ env' = env /\ seen' = seen
                    /\ resp' = resp
                    /\ pc = "error" /\ pc' \in {"open", "idle"}
                    /\ plan'.val = plan.val /\ plan'.size = plan.size
                    /\ pc' = "open" => cur' = plan'
                    /\ cur' = plan' \/ cur' = cur
  OBVIOUS
<1>1. plan' = plan \/ plan' = [plan EXCEPT !.res = FALSE]
  BY Zenon DEF attempt_failed
<1>2. /\ pc = "error"
      /\ job' = job /\ saved' = saved /\ rep' = rep /\ env' = env /\ seen' = seen
      /\ resp' = resp
  BY Zenon DEF attempt_failed, envVars
<1>3. (pc' = "open" /\ cur' = plan') \/ (pc' = "idle" /\ cur' = cur)
  BY Zenon DEF attempt_failed
<1>4. plan'.val = plan.val /\ plan'.size = plan.size
  BY <1>1, Fields
<1> QED
  BY <1>2, <1>3, <1>4

LEMMA SavedInit == Init => SavedInv
BY RepsAreNumbers DEF Init, SavedInv, JobSaved, Known, Superseded, NoIdentity, NoPlan,
   NoResponse, Before, Attempting

LEMMA JobSavedStep == BaseInv /\ JobSaved /\ [Next]_vars => JobSaved'
<1> SUFFICES ASSUME BaseInv, JobSaved, [Next]_vars PROVE JobSaved'
  OBVIOUS
<1>1. CASE change
  BY <1>1 DEF change, JobSaved, Before, Attempting, idVars, envVars
<1>2. CASE update_task_metadata
  BY <1>2, Fields DEF update_task_metadata, JobSaved, Before, Attempting, idVars, envVars
<1>3. CASE save
  BY <1>3 DEF save, JobSaved, Before, Attempting, idVars, envVars
<1>4. CASE crash
  BY <1>4 DEF crash, JobSaved, Before, Attempting, idVars, envVars, NoPlan
<1>5. CASE plan_from_job
  BY <1>5 DEF plan_from_job, JobSaved, Before, Attempting, idVars, envVars
<1>6. CASE resolve_effective_target
  BY <1>6 DEF resolve_effective_target, JobSaved, Before, Attempting, idVars, envVars
<1>7. CASE compare_identity
  BY <1>7 DEF compare_identity, JobSaved, Before, Attempting, idVars, envVars
<1>8. CASE adopt_validator
  <2>1. job'.val = seen.val /\ saved'.val = job'.val
    BY <1>8, Fields DEF adopt_validator, JobSaved
  <2>2. pc' \in Before => pc = "adopt" /\ plan'.val = seen.val
    BY <1>8, Fields DEF adopt_validator, Before
  <2>3. pc' \notin {"adopt", "readopt"}
    BY <1>8 DEF adopt_validator
  <2> QED
    BY <2>1, <2>2, <2>3 DEF JobSaved
<1>9. CASE adopt_size
  BY <1>9, Fields DEF adopt_size, JobSaved, Before, Attempting, idVars, envVars
<1>10. CASE learn
  BY <1>10, Fields DEF learn, JobSaved, Before, Attempting, idVars, envVars
<1>11. CASE auto_rename
  BY <1>11 DEF auto_rename, JobSaved, Before, Attempting, idVars, envVars
<1>12. CASE open_output
  BY <1>12 DEF open_output, JobSaved, Before, Attempting, idVars, envVars
<1>13. CASE request
  BY <1>13 DEF request, JobSaved, Before, Attempting, idVars, envVars
<1>14. CASE range_refused
  BY <1>14 DEF range_refused, JobSaved, Before, Attempting, idVars, envVars
<1>15. CASE write
  BY <1>15 DEF write, JobSaved, Before, Attempting, idVars, envVars
<1>16. CASE tick
  BY <1>16, Fields DEF tick, JobSaved, Before, Attempting, idVars, envVars
<1>17. CASE range_ignored
  BY <1>17 DEF range_ignored, JobSaved, Before, Attempting, idVars, envVars
<1>18. CASE reject_unsafe_range_response
  BY <1>18 DEF reject_unsafe_range_response, JobSaved, Before, Attempting, idVars,
     envVars, BaseInv, ResponseInv
<1>19. CASE interrupted
  BY <1>19 DEF interrupted, JobSaved, Before, Attempting, idVars, envVars
<1>20. CASE body_ends
  BY <1>20 DEF body_ends, JobSaved, Before, Attempting, idVars, envVars
<1>21. CASE validate_transfer_size
  BY <1>21, Fields DEF validate_transfer_size, JobSaved, Before, Attempting, idVars, envVars
<1>22. CASE attempt_failed
  BY <1>22, RetryKeepsIdentity DEF JobSaved, Before, Attempting
<1>23. CASE cancelled
  BY <1>23 DEF cancelled, JobSaved, Before, Attempting, idVars, envVars
<1>24. CASE UNCHANGED vars
  BY <1>24 DEF vars, idVars, runVars, envVars, JobSaved, Before, Attempting
<1> QED
  BY <1>1, <1>2, <1>3, <1>4, <1>5, <1>6, <1>7, <1>8, <1>9, <1>10, <1>11, <1>12, <1>13,
     <1>14, <1>15, <1>16, <1>17, <1>18, <1>19, <1>20, <1>21, <1>22, <1>23, <1>24 DEF Next

LEMMA KnownStep == BaseInv /\ JobSaved /\ Known /\ [Next]_vars => Known'
<1> SUFFICES ASSUME BaseInv, JobSaved, Known, [Next]_vars PROVE Known'
  OBVIOUS
<1> USE Validators DEF Known
<1>1. CASE change
  BY <1>1, NewerReplaces DEF change, idVars, runVars
<1>2. CASE update_task_metadata
  BY <1>2, Fields, NewerReplaces DEF update_task_metadata, runVars
<1>3. CASE save
  BY <1>3 DEF save, idVars, envVars, runVars
<1>4. CASE crash
  BY <1>4 DEF crash, idVars, envVars, NoPlan, NoIdentity, NoResponse
<1>5. CASE plan_from_job
  BY <1>5 DEF plan_from_job, idVars, envVars, runVars
<1>6. CASE resolve_effective_target
  BY <1>6 DEF resolve_effective_target, idVars, envVars, NoIdentity, runVars
<1>7. CASE compare_identity
  BY <1>7 DEF compare_identity, idVars, envVars, runVars
<1>8. CASE adopt_validator
  BY <1>8, Fields DEF adopt_validator, idVars, envVars, runVars
<1>9. CASE adopt_size
  BY <1>9, Fields DEF adopt_size, idVars, envVars, runVars
<1>10. CASE learn
  BY <1>10, Fields DEF learn, idVars, envVars, runVars
<1>11. CASE auto_rename
  BY <1>11 DEF auto_rename, idVars, envVars, runVars
<1>12. CASE open_output
  BY <1>12 DEF open_output, idVars, envVars
<1>13. CASE request
  BY <1>13 DEF request, idVars, envVars, Answer
<1>14. CASE range_refused
  BY <1>14 DEF range_refused, idVars, envVars, runVars
<1>15. CASE write
  BY <1>15 DEF write, idVars, envVars
<1>16. CASE tick
  BY <1>16, Fields DEF tick, idVars, envVars, runVars
<1>17. CASE range_ignored
  BY <1>17 DEF range_ignored, idVars, envVars, runVars
<1>18. CASE reject_unsafe_range_response
  BY <1>18 DEF reject_unsafe_range_response, idVars, envVars, BaseInv, ResponseInv,
               observed, runVars
<1>19. CASE interrupted
  BY <1>19 DEF interrupted, idVars, envVars, runVars
<1>20. CASE body_ends
  BY <1>20 DEF body_ends, idVars, envVars, runVars
<1>21. CASE validate_transfer_size
  BY <1>21, Fields DEF validate_transfer_size, idVars, envVars
<1>22. CASE attempt_failed
  BY <1>22, RetryKeepsIdentity
<1>23. CASE cancelled
  BY <1>23 DEF cancelled, idVars, envVars
<1>24. CASE UNCHANGED vars
  BY <1>24 DEF vars, idVars, runVars, envVars
<1> QED
  BY <1>1, <1>2, <1>3, <1>4, <1>5, <1>6, <1>7, <1>8, <1>9, <1>10, <1>11, <1>12, <1>13,
     <1>14, <1>15, <1>16, <1>17, <1>18, <1>19, <1>20, <1>21, <1>22, <1>23, <1>24 DEF Next

\* The environment of a behaviour is chosen once.
LEMMA EnvStays == [Next]_vars => env' = env
BY DEF Next, vars, idVars, runVars, envVars, change, update_task_metadata, save, crash,
       plan_from_job, resolve_effective_target, compare_identity, adopt_validator,
       adopt_size, learn, auto_rename, open_output, request, range_refused, write, tick,
       range_ignored, reject_unsafe_range_response, interrupted, body_ends,
       validate_transfer_size, attempt_failed, cancelled

LEMMA SupersededStep ==
  BaseInv /\ SavedInv /\ [Next]_vars => Superseded'
<1> SUFFICES ASSUME BaseInv, SavedInv, [Next]_vars, "revert" \notin env
             PROVE  Superseded'
  BY EnvStays DEF Superseded
<1> USE Validators DEF SavedInv
<1>1. CASE change
  <2>1. rep \in Nat /\ rep' \in Nat /\ rep <= rep'
    BY <1>1, NewerReplaces DEF change
  <2>2. /\ plan' = plan /\ cur' = cur /\ saved' = saved /\ seen' = seen /\ resp' = resp
        /\ pc' = pc
    BY <1>1 DEF change, idVars, runVars
  <2>3. plan.val <= rep /\ cur.val <= rep
    BY DEF Known
  <2>4. (Stale(plan) => Stale(plan)') /\ (Stale(cur) => Stale(cur)')
    BY <2>1, <2>2, <2>3 DEF Stale
  <2>5. cur.val = plan.val /\ ~Stale(cur) => Stale(plan)' \/ ~Stale(cur)'
    BY <2>1, <2>2, <2>3 DEF Stale
  <2> HIDE DEF Stale
  <2> QED
    BY <2>2, <2>4, <2>5 DEF Superseded
<1>2. CASE update_task_metadata
  BY <1>2 DEF update_task_metadata, Superseded, Stale, Attempting
<1>3. CASE save
  BY <1>3 DEF save, runVars, envVars, Superseded, Stale, Attempting, JobSaved
<1>4. CASE crash
  BY <1>4 DEF crash, Superseded, Stale, Attempting
<1>5. CASE plan_from_job
  BY <1>5 DEF plan_from_job, Superseded, Stale, Attempting
<1>6. CASE resolve_effective_target
  BY <1>6 DEF resolve_effective_target, Superseded, Stale, Attempting
<1>7. CASE compare_identity
  BY <1>7 DEF compare_identity, Superseded, Stale, Attempting
<1>8. CASE adopt_validator
  <2>1. CASE pc = "adopt"
    BY <1>8, <2>1 DEF adopt_validator, Superseded, Attempting
  <2>2. CASE pc = "readopt"
    <3>1. saved'.val = seen.val
      BY <1>8, Fields DEF adopt_validator, JobSaved
    <3>2. cur'.val = seen.val /\ cur'.size = cur.size
      BY <1>8, <2>2, Fields DEF adopt_validator
    <3> QED
      BY <1>8, <2>2, <3>1, <3>2 DEF adopt_validator, runVars, envVars, Superseded, Stale,
                                    Attempting, Known
  <2> QED
    BY <1>8, <2>1, <2>2 DEF adopt_validator
<1>9. CASE adopt_size
  <2>1. CASE pc = "adopt size"
    BY <1>9, <2>1 DEF adopt_size, Superseded, Attempting
  <2>2. CASE pc = "readopt size"
    <3>1. saved'.val = job.val
      BY <1>9, Fields DEF adopt_size
    <3>2. cur'.val = cur.val /\ cur'.size = seen.size /\ plan' = plan
      BY <1>9, <2>2, Fields DEF adopt_size
    <3>3. plan.val = None \/ Stale(plan) \/ ~Stale(cur)'
      BY <1>9, <2>2, <3>2 DEF adopt_size, envVars, Superseded, Stale, Attempting
    <3> QED
      BY <1>9, <2>2, <3>1, <3>2, <3>3 DEF adopt_size, runVars, envVars, Superseded, Stale,
                                         Attempting, JobSaved
  <2> QED
    BY <1>9, <2>1, <2>2 DEF adopt_size
<1>10. CASE learn
  BY <1>10 DEF learn, Superseded, Stale, Attempting
<1>11. CASE auto_rename
  <2>1. plan.val \in {None, saved.val}
    BY <1>11 DEF auto_rename, JobSaved, Before
  <2> QED
    BY <1>11, <2>1 DEF auto_rename, idVars, runVars, envVars, Superseded, Stale, Attempting
<1>12. CASE open_output
  BY <1>12 DEF open_output, idVars, envVars, Superseded, Stale, Attempting
<1>13. CASE request
  <2>1. pc' \in {"body", "error"} /\ (pc' = "body" => resp'.rep = rep)
    BY <1>13 DEF request, Answer
  <2> QED
    BY <1>13, <2>1 DEF request, idVars, envVars, Superseded, Stale, Attempting, Known
<1>14. CASE range_refused
  BY <1>14 DEF range_refused, idVars, runVars, envVars, Superseded, Stale, Attempting
<1>15. CASE write
  <2>1. resp'.rep = resp.rep
    BY <1>15, TypeParts DEF write, BaseInv, FileTypes, Response
  <2> QED
    BY <1>15, <2>1 DEF write, idVars, envVars, Superseded, Stale, Attempting
<1>16. CASE tick
  <2>1. job'.val = job.val
    BY <1>16, Fields DEF tick
  <2> QED
    BY <1>16, <2>1 DEF tick, runVars, envVars, Superseded, Stale, Attempting
<1>17. CASE range_ignored
  BY <1>17 DEF range_ignored, idVars, runVars, envVars, Superseded, Stale, Attempting
<1>18. CASE reject_unsafe_range_response
  <2> resp.rep \in Reps /\ cur.val # None /\ resp.from = resume /\ resume \in Nat
    BY <1>18, TypeParts DEF reject_unsafe_range_response, BaseInv, ResponseInv, FileTypes
  <2>1. saved'.val = saved.val
    BY <1>18 DEF reject_unsafe_range_response, JobSaved, Attempting
  <2>2. seen'.val = resp.val /\ seen'.size = Size[resp.rep]
    BY <1>18 DEF reject_unsafe_range_response, observed
  <2>3. resp.val = None \/ resp.val = resp.rep
    BY <1>18 DEF reject_unsafe_range_response, BaseInv, ResponseInv
  <2>4. ASSUME plan.val # None, ~Stale(plan) PROVE plan.val = resp.val
    <3>1. cur.val = plan.val /\ ~Stale(cur)
      BY <1>18, <2>4 DEF reject_unsafe_range_response, Superseded, Attempting
    <3>2. cur.val = resp.rep /\ cur.size \in {None, Size[cur.val]}
      BY <1>18, <3>1 DEF reject_unsafe_range_response, Superseded, Known, Stale
    <3>3. ASSUME resp.val = None PROVE FALSE
      <4>1. resp.status = 206
        BY <1>18, <3>3 DEF reject_unsafe_range_response, BaseInv, ResponseInv
      <4>2. ~conflicts_with(cur, observed)
        BY <3>2, <3>3 DEF conflicts_with, observed
      <4>3. cur.size > resume => Size[resp.rep] = cur.size
        BY <3>2, RepsAreNumbers
      <4> QED
        BY <1>18, <4>1, <4>2, <4>3 DEF reject_unsafe_range_response, range_response_is_safe
    <3> QED
      BY <2>3, <3>1, <3>2, <3>3
  <2> QED
    BY <1>18, <2>1, <2>2, <2>3, <2>4 DEF reject_unsafe_range_response, runVars, envVars,
                                        Superseded, Stale, Attempting
<1>19. CASE interrupted
  BY <1>19 DEF interrupted, idVars, runVars, envVars, Superseded, Stale, Attempting
<1>20. CASE body_ends
  BY <1>20 DEF body_ends, idVars, runVars, envVars, Superseded, Stale, Attempting
<1>21. CASE validate_transfer_size
  BY <1>21 DEF validate_transfer_size, Superseded, Stale, Attempting
<1>22. CASE attempt_failed
  BY <1>22, RetryKeepsIdentity DEF Superseded, Stale, Attempting
<1>23. CASE cancelled
  BY <1>23 DEF cancelled, Superseded, Stale, Attempting
<1>24. CASE UNCHANGED vars
  BY <1>24 DEF vars, idVars, runVars, envVars, Superseded, Stale, Attempting
<1> QED
  BY <1>1, <1>2, <1>3, <1>4, <1>5, <1>6, <1>7, <1>8, <1>9, <1>10, <1>11, <1>12, <1>13,
     <1>14, <1>15, <1>16, <1>17, <1>18, <1>19, <1>20, <1>21, <1>22, <1>23, <1>24 DEF Next

LEMMA SavedStep == BaseInv /\ SavedInv /\ [Next]_vars => SavedInv'
BY JobSavedStep, KnownStep, SupersededStep DEF SavedInv

\* A response that continues a part is of the representation the plan names.
LEMMA SafeResponse ==
  ASSUME BaseInv, pc = "body", resume > 0, range_response_is_safe
  PROVE  /\ resp.status = 206 /\ cur.val # None /\ cur.val = resp.rep
         /\ cur.size \in {None, Size[cur.val]}
<1>1. /\ resp.rep \in Reps /\ cur.val # None /\ resp.val \in {None, resp.rep}
      /\ resp.val = None => cur.val \in {resp.rep, None}
  BY DEF BaseInv, ResponseInv
<1>2. resp.status = 206 /\ ~conflicts_with(cur, observed)
  BY DEF range_response_is_safe
<1>3. cur.val = resp.rep
  BY <1>1, <1>2 DEF conflicts_with, observed
<1>4. Size[resp.rep] # None
  BY <1>1, RepsAreNumbers
<1> QED
  BY <1>1, <1>2, <1>3, <1>4 DEF conflicts_with, observed

LEMMA SavedBeforeContinuing == BaseInv /\ SavedInv => ValidatorSavedFirst
<1> SUFFICES ASSUME BaseInv, SavedInv, "revert" \notin env, pc = "body", resume > 0,
                    range_response_is_safe
             PROVE  saved.val = cur.val
  BY DEF ValidatorSavedFirst
<1> QED
  BY SafeResponse, Validators DEF SavedInv, Superseded

\* Every variable keeps its type, whatever the server answers and whenever the daemon
\* dies; no run makes more attempts than the retry policy allows.
THEOREM ResumeTypeCorrect == Spec => []TypeOK
<1>1. BaseInv => TypeOK
  BY DEF BaseInv
<1> QED
  BY <1>1, BaseHolds, PTL

\* The validator a response continues a part by is in the state file, for every number
\* of representations, attempts and crashes: what persist_resume_validator saves
\* before the transfer is what the checks in front of the first byte use.
THEOREM ResumeValidatorIsSaved == Spec => []ValidatorSavedFirst
BY BaseInit, BaseStep, SavedInit, SavedStep, SavedBeforeContinuing, PTL DEF Spec

----------------------------------------------------------------------------
\* A resumable task in a trusted environment.

LEMMA TrustedEnv ==
  Trusted => /\ "silent" \notin env /\ "terse" \notin env /\ "newurl" \notin env
             /\ "revert" \notin env /\ "whole" \notin env
BY DEF Trusted

LEMMA BoundStep ==
  BaseInv /\ SavedInv /\ Bound /\ Trusted /\ [Next]_vars => Bound'
<1> SUFFICES ASSUME BaseInv, SavedInv, Bound, Trusted, [Next]_vars PROVE Bound'
  OBVIOUS
<1> USE TrustedEnv DEF Bound, Attempting
<1>1. CASE change
  BY <1>1 DEF change, idVars, runVars, envVars
<1>2. CASE update_task_metadata
  BY <1>2 DEF update_task_metadata, idVars, runVars, envVars
<1>3. CASE save
  BY <1>3 DEF save, idVars, runVars, envVars
<1>4. CASE crash
  BY <1>4 DEF crash, idVars, runVars, envVars
<1>5. CASE plan_from_job
  BY <1>5 DEF plan_from_job, idVars, runVars, envVars
<1>6. CASE resolve_effective_target
  BY <1>6, RepsAreNumbers, TypeParts DEF resolve_effective_target, idVars, runVars,
     envVars, BaseInv, EnvTypes
<1>7. CASE compare_identity
  BY <1>7 DEF compare_identity, idVars, runVars, envVars
<1>8. CASE adopt_validator
  BY <1>8, Fields DEF adopt_validator, idVars, runVars, envVars
<1>9. CASE adopt_size
  BY <1>9, Fields DEF adopt_size, idVars, runVars, envVars
<1>10. CASE learn
  BY <1>10, Fields DEF learn, idVars, runVars, envVars
<1>11. CASE auto_rename
  BY <1>11 DEF auto_rename, idVars, runVars, envVars, SavedInv, JobSaved, Before
<1>12. CASE open_output
  BY <1>12 DEF open_output, idVars, runVars, envVars
<1>13. CASE request
  BY <1>13 DEF request, idVars, runVars, envVars
<1>14. CASE range_refused
  BY <1>14 DEF range_refused, idVars, runVars, envVars
<1>15. CASE write
  BY <1>15 DEF write, idVars, runVars, envVars
<1>16. CASE tick
  BY <1>16, Fields DEF tick, idVars, runVars, envVars
<1>17. CASE range_ignored
  BY <1>17 DEF range_ignored, idVars, runVars, envVars
<1>18. CASE reject_unsafe_range_response
  BY <1>18, RepsAreNumbers DEF reject_unsafe_range_response, idVars, runVars, envVars,
                               BaseInv, ResponseInv, observed
<1>19. CASE interrupted
  BY <1>19 DEF interrupted, idVars, runVars, envVars
<1>20. CASE body_ends
  BY <1>20 DEF body_ends, idVars, runVars, envVars
<1>21. CASE validate_transfer_size
  BY <1>21, Fields DEF validate_transfer_size, idVars, runVars, envVars
<1>22. CASE attempt_failed
  BY <1>22, RetryKeepsIdentity DEF attempt_failed, idVars, runVars, envVars
<1>23. CASE cancelled
  BY <1>23 DEF cancelled, idVars, runVars, envVars
<1>24. CASE UNCHANGED vars
  BY <1>24 DEF vars, idVars, runVars, envVars
<1> QED
  BY <1>1, <1>2, <1>3, <1>4, <1>5, <1>6, <1>7, <1>8, <1>9, <1>10, <1>11, <1>12, <1>13,
     <1>14, <1>15, <1>16, <1>17, <1>18, <1>19, <1>20, <1>21, <1>22, <1>23, <1>24 DEF Next

\* The field that says whether the plan resumes, after the actions that touch the plan.
LEMMA ResumeField ==
  BaseInv =>
    /\ \A v : [plan EXCEPT !.val = v].res = plan.res /\ [plan EXCEPT !.size = v].res = plan.res
    /\ \A v, w : [plan EXCEPT !.val = v, !.size = w].res = plan.res
    /\ \A v : [cur EXCEPT !.val = v].res = cur.res /\ [cur EXCEPT !.size = v].res = cur.res
    /\ [plan EXCEPT !.res = FALSE].res = FALSE
BY TypeParts DEF BaseInv, IdTypes, Plan

LEMMA RestartedStep ==
  BaseInv /\ Restarted /\ Trusted /\ [Next]_vars => Restarted'
<1> SUFFICES ASSUME BaseInv, Restarted, Trusted, [Next]_vars PROVE Restarted'
  OBVIOUS
<1> USE TrustedEnv DEF Restarted, Attempting, Before
<1>1. CASE change
  BY <1>1 DEF change, idVars, runVars, envVars
<1>2. CASE update_task_metadata
  BY <1>2 DEF update_task_metadata, idVars, runVars, envVars
<1>3. CASE save
  BY <1>3 DEF save, idVars, runVars, envVars
<1>4. CASE crash
  BY <1>4 DEF crash, idVars, runVars, envVars
<1>5. CASE plan_from_job
  BY <1>5 DEF plan_from_job, idVars, runVars, envVars
<1>6. CASE resolve_effective_target
  BY <1>6 DEF resolve_effective_target, idVars, runVars, envVars
<1>7. CASE compare_identity
  BY <1>7 DEF compare_identity, idVars, runVars, envVars
<1>8. CASE adopt_validator
  BY <1>8, ResumeField DEF adopt_validator, idVars, runVars, envVars
<1>9. CASE adopt_size
  BY <1>9, ResumeField DEF adopt_size, idVars, runVars, envVars
<1>10. CASE learn
  BY <1>10, ResumeField DEF learn, idVars, runVars, envVars
<1>11. CASE auto_rename
  BY <1>11 DEF auto_rename, idVars, runVars, envVars
<1>12. CASE open_output
  BY <1>12 DEF open_output, idVars, runVars, envVars
<1>13. CASE request
  BY <1>13 DEF request, idVars, runVars, envVars
<1>14. CASE range_refused
  BY <1>14 DEF range_refused, idVars, runVars, envVars
<1>15. CASE write
  BY <1>15 DEF write, idVars, runVars, envVars
<1>16. CASE tick
  BY <1>16 DEF tick, idVars, runVars, envVars
<1>17. CASE range_ignored
  BY <1>17 DEF range_ignored, idVars, runVars, envVars
<1>18. CASE reject_unsafe_range_response
  BY <1>18 DEF reject_unsafe_range_response, idVars, runVars, envVars, BaseInv,
               ResponseInv
<1>19. CASE interrupted
  BY <1>19 DEF interrupted, idVars, runVars, envVars
<1>20. CASE body_ends
  BY <1>20 DEF body_ends, idVars, runVars, envVars
<1>21. CASE validate_transfer_size
  BY <1>21 DEF validate_transfer_size, idVars, runVars, envVars
<1>22. CASE attempt_failed
  BY <1>22, ResumeField DEF attempt_failed, idVars, runVars, envVars
<1>23. CASE cancelled
  BY <1>23 DEF cancelled, idVars, runVars, envVars
<1>24. CASE UNCHANGED vars
  BY <1>24 DEF vars, idVars, runVars, envVars
<1> QED
  BY <1>1, <1>2, <1>3, <1>4, <1>5, <1>6, <1>7, <1>8, <1>9, <1>10, <1>11, <1>12, <1>13,
     <1>14, <1>15, <1>16, <1>17, <1>18, <1>19, <1>20, <1>21, <1>22, <1>23, <1>24 DEF Next

LEMMA FirstIsRep == BaseInv /\ file # <<>> => First \in Nat /\ First \in Reps
<1> SUFFICES ASSUME BaseInv, file # <<>> PROVE First \in Nat /\ First \in Reps
  OBVIOUS
<1>1. file \in Seq(Byte)
  BY TypeParts DEF BaseInv, FileTypes
<1>2. file[1] \in Byte
  BY <1>1
<1> QED
  BY <1>2, RepsAreNumbers DEF Byte, First

LEMMA FirstStays == file' = file => First' = First
BY DEF First

\* One byte more, and the file's first byte stays what it is.
LEMMA AfterWrite ==
  ASSUME BaseInv, write
  PROVE  /\ file' # <<>> /\ Len(file') = Len(file) + 1
         /\ file'[Len(file')] = [rep |-> resp.rep, off |-> resp.next]
         /\ \A i \in DOMAIN file : file'[i] = file[i]
         /\ file'[1].rep = IF file = <<>> THEN resp.rep ELSE file[1].rep
         /\ resp' = [resp EXCEPT !.next = resp.next + 1]
         /\ resp'.rep = resp.rep /\ resp'.from = resp.from /\ resp'.status = resp.status
         /\ resp'.next = resp.next + 1
<1>1. file \in Seq(Byte) /\ resp \in Response
  BY TypeParts DEF BaseInv, FileTypes
<1>2. /\ resp' = [resp EXCEPT !.next = resp.next + 1]
      /\ resp'.rep = resp.rep /\ resp'.from = resp.from /\ resp'.status = resp.status
      /\ resp'.next = resp.next + 1
  BY <1>1 DEF write, Response
<1>3. file' = Append(file, [rep |-> resp.rep, off |-> resp.next])
  BY DEF write
<1>4. [rep |-> resp.rep, off |-> resp.next] \in Byte
  BY <1>1 DEF write, BaseInv, ResponseInv, Byte, Response
<1> DEFINE b == [rep |-> resp.rep, off |-> resp.next]
<1>5. b \in Byte /\ b.rep = resp.rep /\ file' = Append(file, b)
  BY <1>3, <1>4
<1> HIDE DEF b
<1>6. /\ Len(file') = Len(file) + 1 /\ file'[Len(file')] = b
      /\ \A i \in DOMAIN file : file'[i] = file[i]
      /\ file' # <<>>
  BY <1>1, <1>5
<1>7. file'[1].rep = IF file = <<>> THEN resp.rep ELSE file[1].rep
  BY <1>1, <1>5, <1>6
<1> QED
  BY <1>2, <1>6, <1>7 DEF b

LEMMA OrderedStep ==
  BaseInv /\ SavedInv /\ Bound /\ Ordered /\ Trusted /\ [Next]_vars => Ordered'
<1> SUFFICES ASSUME BaseInv, SavedInv, Bound, Ordered, Trusted, [Next]_vars
             PROVE  Ordered'
  OBVIOUS
<1> USE TrustedEnv, Validators, FirstIsRep, FirstStays DEF Ordered, Attempting
<1>1. CASE change
  <2>1. rep \in Nat /\ rep' \in Nat /\ rep <= rep'
    BY <1>1, NewerReplaces DEF change
  <2>2. /\ pc' = pc /\ file' = file /\ job' = job /\ plan' = plan /\ cur' = cur
        /\ seen' = seen /\ resp' = resp
    BY <1>1 DEF change, idVars, runVars
  <2>3. First' = First /\ (file # <<>> => First \in Nat)
    BY <2>2, FirstIsRep DEF First
  <2>4. file # <<>> => First <= rep /\ (pc # "accepted" => job.val <= First)
    OBVIOUS
  <2> HIDE DEF Ordered
  <2>5. file # <<>> => First <= rep'
    BY <2>1, <2>3, <2>4
  <2> USE DEF Ordered
  <2>6. pc' = "body" => job'.val <= resp'.rep /\ (file' # <<>> => First' <= resp'.rep)
    BY <2>2, <2>3
  <2> QED
    BY <2>2, <2>3, <2>4, <2>5, <2>6
<1>2. CASE update_task_metadata
  BY <1>2 DEF update_task_metadata, idVars, runVars, envVars
<1>3. CASE save
  BY <1>3 DEF save, idVars, runVars, envVars
<1>4. CASE crash
  BY <1>4 DEF crash, idVars, runVars, envVars, Bound
<1>5. CASE plan_from_job
  BY <1>5 DEF plan_from_job, idVars, runVars, envVars
<1>6. CASE resolve_effective_target
  BY <1>6 DEF resolve_effective_target, idVars, runVars, envVars
<1>7. CASE compare_identity
  BY <1>7 DEF compare_identity, idVars, runVars, envVars
<1>8. CASE adopt_validator
  <2>1. job'.val = seen.val /\ file = <<>> /\ file' = file
    BY <1>8, Fields DEF adopt_validator, Bound
  <2>2. CASE pc = "adopt"
    BY <1>8, <2>1, <2>2 DEF adopt_validator
  <2>3. CASE pc = "readopt"
    <3>1. cur'.val = seen.val /\ plan' = plan /\ pc' = "readopt size"
      BY <1>8, <2>3, Fields DEF adopt_validator
    <3>2. plan.val <= job.val /\ job.val <= seen.val
      BY <2>3
    <3> HIDE DEF Ordered
    <3>3. plan.val <= seen.val /\ seen.val <= seen.val
      BY <3>2
    <3>4. plan'.val <= job'.val /\ cur'.val <= job'.val
      BY <2>1, <3>1, <3>3
    <3> QED
      BY <2>1, <3>1, <3>4 DEF Ordered
  <2> QED
    BY <1>8, <2>2, <2>3 DEF adopt_validator
<1>9. CASE adopt_size
  BY <1>9, Fields DEF adopt_size, idVars, runVars, envVars
<1>10. CASE learn
  BY <1>10, Fields DEF learn, idVars, runVars, envVars, Bound, SavedInv, JobSaved,
                       Before
<1>11. CASE auto_rename
  BY <1>11 DEF auto_rename, idVars, runVars, envVars, SavedInv, JobSaved, Before
<1>12. CASE open_output
  BY <1>12 DEF open_output, idVars, runVars, envVars
<1>13. CASE request
  <2>1. pc' \in {"body", "error"} /\ (pc' = "body" => resp'.rep = rep)
    BY <1>13 DEF request, Answer
  <2>2. /\ pc = "request" /\ file' = file /\ job' = job /\ plan' = plan /\ cur' = cur
        /\ rep' = rep /\ job.val <= rep
    BY <1>13 DEF request, idVars, envVars, SavedInv, Known
  <2>3. First' = First
    BY <2>2 DEF First
  <2> QED
    BY <2>1, <2>2, <2>3
<1>14. CASE range_refused
  BY <1>14 DEF range_refused, idVars, runVars, envVars
<1>15. CASE write
  <2>1. file' # <<>> /\ First' = IF file = <<>> THEN resp.rep ELSE First
    BY <1>15, AfterWrite DEF First
  <2>2. resp'.rep = resp.rep
    BY <1>15, AfterWrite
  <2> QED
    BY <1>15, <2>1, <2>2 DEF write, idVars, envVars, SavedInv, Known
<1>16. CASE tick
  BY <1>16, Fields DEF tick, idVars, runVars, envVars
<1>17. CASE range_ignored
  BY <1>17 DEF range_ignored, idVars, runVars, envVars
<1>18. CASE reject_unsafe_range_response
  BY <1>18 DEF reject_unsafe_range_response, idVars, runVars, envVars, BaseInv,
               ResponseInv, observed
<1>19. CASE interrupted
  BY <1>19 DEF interrupted, idVars, runVars, envVars
<1>20. CASE body_ends
  BY <1>20 DEF body_ends, idVars, runVars, envVars
<1>21. CASE validate_transfer_size
  BY <1>21, Fields DEF validate_transfer_size, idVars, runVars, envVars
<1>22. CASE attempt_failed
  BY <1>22, RetryKeepsIdentity DEF attempt_failed, idVars, runVars, envVars,
                                   attempt_failed
<1>23. CASE cancelled
  BY <1>23 DEF cancelled, idVars, runVars, envVars
<1>24. CASE UNCHANGED vars
  BY <1>24 DEF vars, idVars, runVars, envVars
<1> QED
  BY <1>1, <1>2, <1>3, <1>4, <1>5, <1>6, <1>7, <1>8, <1>9, <1>10, <1>11, <1>12, <1>13,
     <1>14, <1>15, <1>16, <1>17, <1>18, <1>19, <1>20, <1>21, <1>22, <1>23, <1>24 DEF Next

LEMMA BeginsStays == Begins(First) /\ (file' = file \/ file' = <<>>) => Begins(First)'
BY DEF Begins, First

LEMMA ContentsStep ==
  BaseInv /\ Bound /\ Restarted /\ Ordered /\ Contents /\ Trusted /\ [Next]_vars => Contents'
<1> SUFFICES ASSUME BaseInv, Bound, Restarted, Ordered, Contents, Trusted, [Next]_vars
             PROVE  Contents'
  OBVIOUS
<1> USE TypeParts
<1>1. ASSUME pc' \notin {"body", "validate", "accepted"}, file' = file \/ file' = <<>>
      PROVE  Contents'
  BY <1>1, BeginsStays DEF Contents
<1>2. CASE update_task_metadata \/ crash \/ plan_from_job \/ resolve_effective_target
           \/ compare_identity \/ adopt_validator \/ adopt_size
           \/ learn \/ auto_rename \/ open_output \/ range_refused
           \/ reject_unsafe_range_response \/ interrupted \/ attempt_failed \/ cancelled
  <2>1. file' = file \/ file' = <<>>
    BY <1>2 DEF update_task_metadata, crash, plan_from_job, resolve_effective_target,
                compare_identity, adopt_validator, adopt_size, learn, auto_rename,
                open_output, range_refused, reject_unsafe_range_response, interrupted,
                attempt_failed, cancelled
  <2>2. pc' \notin {"body", "validate", "accepted"}
    BY <1>2 DEF update_task_metadata, crash, plan_from_job, resolve_effective_target,
                compare_identity, adopt_validator, adopt_size, learn, auto_rename,
                open_output, range_refused, reject_unsafe_range_response, interrupted,
                attempt_failed, cancelled
  <2> QED
    BY <1>1, <2>1, <2>2
<1>3. CASE change \/ save \/ tick \/ UNCHANGED vars
  <2>1. file' = file /\ pc' = pc /\ resp' = resp
    BY <1>3 DEF change, save, tick, vars, runVars
  <2> QED
    BY <2>1 DEF Contents, Begins, First, Whole
<1>4. CASE request
  <2>1. file' = file /\ First' = First /\ pc' \in {"body", "error"} /\ pc = "request"
    BY <1>4 DEF request, First
  <2>2. CASE pc' = "body"
    <3>1. RangeStart = 0 => Len(file) = 0
      BY <2>1 DEF RangeStart, Restarted, Contents
    <3>2. RangeStart > 0 => Len(file) = RangeStart
      BY DEF RangeStart
    <3>3. /\ resp'.from = RangeStart
          /\ \/ resp'.status = 200 /\ resp'.next = 1
             \/ resp'.status = 206 /\ resp'.next = RangeStart + 1 /\ RangeStart > 0
      BY <1>4, <2>2 DEF request, Answer
    <3>4. RangeStart \in Nat
      BY DEF RangeStart, BaseInv, FileTypes
    <3> QED
      BY <2>1, <2>2, <3>1, <3>2, <3>3, <3>4, BeginsStays DEF Contents
  <2> QED
    BY <1>1, <2>1, <2>2
<1>5. CASE write
  <2>1. file \in Seq(Byte) /\ resp.from \in Nat /\ resp.next \in Nat \ {0}
    BY DEF BaseInv, FileTypes, Response
  <2>2. pc = "body" /\ pc' = pc /\ (resp.from > 0 => resp.status = 206)
    BY <1>5 DEF write
  <2>3. Len(file) = resp.next - 1
    BY <2>1, <2>2 DEF Contents
  <2>4. file # <<>> => First = resp.rep
    <3> SUFFICES ASSUME file # <<>> PROVE First = resp.rep
      OBVIOUS
    <3>1. CASE resp.from = 0
      BY <2>1, <2>2, <2>3, <3>1 DEF Contents
    <3>2. CASE resp.from > 0
      <4>1. resume > 0 /\ cur.val # None
        BY <2>2, <3>2 DEF BaseInv, ResponseInv, Bound, Attempting
      <4>2. cur.val = resp.rep
        BY <1>5, <2>2, <4>1, SafeResponse DEF write
      <4>3. cur.val <= job.val /\ job.val <= First /\ First <= resp.rep
        BY <2>2 DEF Ordered, Attempting
      <4> QED
        BY <4>2, <4>3, Validators, FirstIsRep
    <3> QED
      BY <2>1, <3>1, <3>2
  <2>5. First' = resp.rep
    BY <1>5, <2>4, AfterWrite DEF First
  <2>6. \A i \in DOMAIN file' : i \in DOMAIN file \/ i = Len(file')
    BY <1>5, <2>1 DEF write
  <2>7. \A i \in DOMAIN file : file[i] = [rep |-> resp.rep, off |-> i]
    BY <2>1, <2>4 DEF Contents, Begins
  <2>8. Len(file') = resp.next /\ file'[Len(file')] = [rep |-> resp.rep, off |-> resp.next]
    BY <1>5, <2>1, <2>3, AfterWrite
  <2>9. \A i \in DOMAIN file' : file'[i] = [rep |-> resp.rep, off |-> i]
    BY <1>5, <2>6, <2>7, <2>8, AfterWrite
  <2>10. Begins(First)'
    BY <2>5, <2>9 DEF Begins
  <2> QED
    BY <1>5, <2>1, <2>2, <2>5, <2>8, <2>10, AfterWrite DEF Contents
<1>6. CASE range_ignored
  <2>1. pc' # "validate"
    BY <1>6 DEF range_ignored, BaseInv, ResponseInv, Bound, Attempting
  <2>2. pc' \in {"error", "validate"} /\ (file' = file \/ file' = <<>>)
    BY <1>6 DEF range_ignored
  <2> QED
    BY <1>1, <2>1, <2>2
<1>7. CASE body_ends
  <2>1. /\ pc = "body" /\ pc' = "validate" /\ file' = file
        /\ resp.next > Size[resp.rep]
    BY <1>7 DEF body_ends
  <2>2. resp.rep \in Reps /\ Size[resp.rep] \in Nat \ {0} /\ resp.next = Size[resp.rep] + 1
    BY <2>1, RepsAreNumbers DEF BaseInv, ResponseInv
  <2>3. resp.from \in Nat
    BY DEF BaseInv, FileTypes, Response
  <2>4. (resp.from = 0 \/ resp.status = 206) /\ resp.next > resp.from + 1
    BY <2>1, <2>2, <2>3 DEF BaseInv, ResponseInv
  <2>5. First = resp.rep /\ Len(file) = Size[resp.rep] /\ file # <<>>
    BY <2>1, <2>2, <2>4 DEF Contents
  <2>6. Whole(file)
    BY <2>5 DEF Whole, First
  <2> QED
    BY <2>1, <2>6, BeginsStays DEF Contents, Whole
<1>8. CASE validate_transfer_size
  <2>1. pc = "validate" /\ pc' \in {"accepted", "idle"} /\ file' = file
    BY <1>8 DEF validate_transfer_size
  <2> QED
    BY <2>1, BeginsStays DEF Contents, Whole
<1> QED
  BY <1>2, <1>3, <1>4, <1>5, <1>6, <1>7, <1>8 DEF Next

LEMMA TrustedInit == Init => TrustedInv
BY DEF Init, TrustedInv, Bound, Restarted, Ordered, Contents, Begins, Before, Attempting,
   NoIdentity

LEMMA TrustedStep == BaseInv /\ SavedInv /\ TrustedInv /\ [Next]_vars => TrustedInv'
BY EnvStays, BoundStep, RestartedStep, OrderedStep, ContentsStep DEF TrustedInv, Trusted

\* The bytes of two representations never meet in the file of a resumable task, for
\* every number of representations, attempts, runs, changes at the server and crashes:
\* the comparison in front of a run, If-Range and the checks in front of the first
\* byte together refuse every response that is not of the part on disk.
THEOREM ResumedFileIsOneRepresentation == Spec => []TrustedNeverMixed
<1>1. TrustedInv => TrustedNeverMixed
  BY DEF TrustedInv, TrustedNeverMixed, Contents, Begins, Mixed, First
<1> QED
  BY <1>1, BaseInit, BaseStep, SavedInit, SavedStep, TrustedInit, TrustedStep, PTL DEF Spec

----------------------------------------------------------------------------
\* A task that is not resumable.

LEMMA UnresumableEnv ==
  Unresumable => /\ "silent" \notin env /\ "terse" \notin env /\ "newurl" \notin env
                 /\ "revert" \notin env /\ "whole" \in env
BY DEF Unresumable

LEMMA FixedPlanStep ==
  BaseInv /\ FixedPlan /\ Unresumable /\ [Next]_vars => FixedPlan'
<1> SUFFICES ASSUME BaseInv, FixedPlan, Unresumable, [Next]_vars PROVE FixedPlan'
  OBVIOUS
<1> USE UnresumableEnv DEF FixedPlan, Attempting, Before
<1>1. CASE change
  BY <1>1 DEF change, idVars, runVars, envVars
<1>2. CASE update_task_metadata
  BY <1>2 DEF update_task_metadata, idVars, runVars, envVars
<1>3. CASE save
  BY <1>3 DEF save, idVars, runVars, envVars
<1>4. CASE crash
  BY <1>4 DEF crash, idVars, runVars, envVars
<1>5. CASE plan_from_job
  BY <1>5 DEF plan_from_job, idVars, runVars, envVars
<1>6. CASE resolve_effective_target
  BY <1>6, RepsAreNumbers, TypeParts DEF resolve_effective_target, idVars, runVars,
     envVars, BaseInv, EnvTypes
<1>7. CASE compare_identity
  BY <1>7 DEF compare_identity, idVars, runVars, envVars
<1>8. CASE adopt_validator
  BY <1>8, Fields, ResumeField DEF adopt_validator, idVars, runVars, envVars
<1>9. CASE adopt_size
  BY <1>9, Fields, ResumeField DEF adopt_size, idVars, runVars, envVars
<1>10. CASE learn
  BY <1>10, Fields, ResumeField DEF learn, idVars, runVars, envVars
<1>11. CASE auto_rename
  BY <1>11 DEF auto_rename, idVars, runVars, envVars
<1>12. CASE open_output
  BY <1>12 DEF open_output, idVars, runVars, envVars
<1>13. CASE request
  <2>1. /\ pc = "request" /\ pc' \in {"body", "error"} /\ cur = plan /\ ~cur.res
        /\ UNCHANGED <<env, plan, cur, resume>>
    BY <1>13 DEF request, idVars, envVars
  <2>2. RangeStart = 0 /\ resume = 0 /\ plan.size # None
    BY <2>1 DEF RangeStart
  <2>3. pc' = "body" => resp'.from = 0
    BY <1>13, <2>2 DEF request, Answer
  <2> QED
    BY <2>1, <2>2, <2>3
<1>14. CASE range_refused
  BY <1>14 DEF range_refused, idVars, runVars, envVars
<1>15. CASE write
  BY <1>15, AfterWrite DEF write, idVars, runVars, envVars
<1>16. CASE tick
  BY <1>16 DEF tick, idVars, runVars, envVars
<1>17. CASE range_ignored
  BY <1>17 DEF range_ignored, idVars, runVars, envVars
<1>18. CASE reject_unsafe_range_response
  BY <1>18 DEF reject_unsafe_range_response, idVars, runVars, envVars
<1>19. CASE interrupted
  BY <1>19 DEF interrupted, idVars, runVars, envVars
<1>20. CASE body_ends
  BY <1>20 DEF body_ends, idVars, runVars, envVars
<1>21. CASE validate_transfer_size
  BY <1>21 DEF validate_transfer_size, idVars, runVars, envVars
<1>22. CASE attempt_failed
  BY <1>22 DEF attempt_failed, idVars, runVars, envVars
<1>23. CASE cancelled
  BY <1>23 DEF cancelled, idVars, runVars, envVars
<1>24. CASE UNCHANGED vars
  BY <1>24 DEF vars, idVars, runVars, envVars
<1> QED
  BY <1>1, <1>2, <1>3, <1>4, <1>5, <1>6, <1>7, <1>8, <1>9, <1>10, <1>11, <1>12, <1>13,
     <1>14, <1>15, <1>16, <1>17, <1>18, <1>19, <1>20, <1>21, <1>22, <1>23, <1>24 DEF Next

LEMMA FreshStep ==
  BaseInv /\ FixedPlan /\ FreshOrTooLong /\ Unresumable /\ [Next]_vars => FreshOrTooLong'
<1> SUFFICES ASSUME BaseInv, FixedPlan, FreshOrTooLong, Unresumable, [Next]_vars
             PROVE  FreshOrTooLong'
  OBVIOUS
<1> USE TypeParts
<1>0. /\ file \in Seq(Byte) /\ resp.next \in Nat \ {0} /\ plan.size \in Nat /\ cur.size \in Nat
  BY RepsAreNumbers, Records DEF BaseInv, FileTypes, IdTypes, Response
<1>1. CASE update_task_metadata \/ crash \/ plan_from_job \/ resolve_effective_target
           \/ compare_identity \/ adopt_validator \/ adopt_size
           \/ learn \/ auto_rename \/ range_refused \/ reject_unsafe_range_response
           \/ interrupted \/ attempt_failed \/ cancelled
  <2>1. pc' \notin {"request", "body", "validate", "accepted"}
    BY <1>1 DEF update_task_metadata, crash, plan_from_job, resolve_effective_target,
                compare_identity, adopt_validator, adopt_size, learn, auto_rename,
                range_refused, reject_unsafe_range_response, interrupted, attempt_failed,
                cancelled
  <2> QED
    BY <2>1 DEF FreshOrTooLong
<1>2. CASE change \/ save \/ tick \/ UNCHANGED vars
  <2>1. file' = file /\ pc' = pc /\ resp' = resp /\ plan' = plan
    BY <1>2 DEF change, save, tick, vars, runVars, idVars
  <2> QED
    BY <2>1 DEF FreshOrTooLong, Begins, First, Whole
<1>3. CASE open_output
  <2>1. cur = plan /\ ~cur.res /\ plan' = plan
    BY <1>3 DEF open_output, FixedPlan, Attempting, idVars
  <2>2. ASSUME ~Refused PROVE file' = <<>> \/ Len(file') = plan.size
    <3>1. CASE overwrite
      <4>1. Replaced \/ Len(file) = 0 \/ AtSize
        BY <2>1, <3>1 DEF Replaced
      <4> QED
        BY <1>0, <1>3, <2>1, <4>1 DEF open_output, AtSize
    <3>2. CASE ~overwrite
      <4>1. Len(file) = 0 \/ AtSize
        BY <1>0, <2>1, <2>2, <3>2 DEF Refused
      <4>2. file' = file
        BY <1>3, <3>2 DEF open_output, Replaced
      <4> QED
        BY <1>0, <2>1, <4>1, <4>2 DEF AtSize
    <3> QED
      BY <3>1, <3>2
  <2>3. pc' = IF Refused THEN "error" ELSE "request"
    BY <1>3 DEF open_output
  <2> QED
    BY <2>1, <2>2, <2>3 DEF FreshOrTooLong
<1>4. CASE request
  <2>1. file' = file /\ plan' = plan /\ pc' \in {"body", "error"} /\ pc = "request"
    BY <1>4 DEF request, idVars
  <2>2. CASE pc' = "body"
    <3>1. resp'.next = 1
      BY <1>4, <2>2 DEF request, Answer, RangeStart, FixedPlan, Attempting
    <3>2. CASE file = <<>>
      BY <1>0, <2>1, <2>2, <3>1, <3>2 DEF FreshOrTooLong, Begins
    <3>3. CASE Len(file) = plan.size
      BY <1>0, <2>1, <2>2, <3>1, <3>3 DEF FreshOrTooLong
    <3> QED
      BY <2>1, <3>2, <3>3 DEF FreshOrTooLong
  <2> QED
    BY <2>1, <2>2 DEF FreshOrTooLong
<1>5. CASE write
  <2>1. pc = "body" /\ pc' = pc /\ plan' = plan
    BY <1>5 DEF write, idVars
  <2>2. CASE Len(file) = plan.size + resp.next - 1
    <3>1. Len(file') = Len(file) + 1
      BY <1>0, <1>5 DEF write
    <3>2. resp'.next = resp.next + 1
      BY <1>5, AfterWrite
    <3>3. Len(file') = plan.size + resp'.next - 1
      BY <1>0, <2>2, <3>1, <3>2
    <3> QED
      BY <2>1, <3>3 DEF FreshOrTooLong
  <2>3. CASE Begins(resp.rep) /\ Len(file) = resp.next - 1
    <3>1. \A i \in DOMAIN file' : i \in DOMAIN file \/ i = Len(file')
      BY <1>0, <1>5 DEF write
    <3>2. Len(file') = resp.next /\ file'[Len(file')] = [rep |-> resp.rep, off |-> resp.next]
      BY <1>0, <1>5, <2>3, AfterWrite
    <3>3. \A i \in DOMAIN file : file[i] = [rep |-> resp.rep, off |-> i]
      BY <2>3 DEF Begins
    <3>4. \A i \in DOMAIN file' : file'[i] = [rep |-> resp.rep, off |-> i]
      BY <1>5, <3>1, <3>2, <3>3, AfterWrite
    <3>5. Begins(resp.rep)'
      BY <1>5, <3>4, AfterWrite DEF Begins
    <3> QED
      BY <1>0, <1>5, <2>1, <3>2, <3>5, AfterWrite DEF FreshOrTooLong
  <2> QED
    BY <2>1, <2>2, <2>3 DEF FreshOrTooLong
<1>6. CASE range_ignored
  BY <1>6 DEF range_ignored, FixedPlan
<1>7. CASE body_ends
  <2>1. /\ pc = "body" /\ pc' = "validate" /\ file' = file /\ plan' = plan
        /\ resp.next > Size[resp.rep]
    BY <1>7 DEF body_ends, idVars
  <2>2. resp.rep \in Reps /\ Size[resp.rep] \in Nat \ {0} /\ resp.next = Size[resp.rep] + 1
    BY <2>1, RepsAreNumbers DEF BaseInv, ResponseInv
  <2>3. CASE Len(file) = plan.size + resp.next - 1
    <3>1. Len(file) > plan.size
      BY <1>0, <2>2, <2>3
    <3> QED
      BY <2>1, <3>1 DEF FreshOrTooLong
  <2>4. CASE Begins(resp.rep) /\ Len(file) = resp.next - 1
    <3>1. Len(file) = Size[resp.rep] /\ file # <<>> /\ 1 \in DOMAIN file
      BY <1>0, <2>2, <2>4
    <3>2. First = resp.rep
      BY <2>4, <3>1 DEF Begins, First
    <3>3. Begins(First) /\ Whole(file)
      BY <2>4, <3>1, <3>2 DEF Whole, First
    <3>4. (Begins(First) /\ Whole(file))'
      BY <2>1, <3>3 DEF Begins, Whole, First
    <3> QED
      BY <2>1, <3>4 DEF FreshOrTooLong
  <2> QED
    BY <2>1, <2>3, <2>4 DEF FreshOrTooLong
<1>8. CASE validate_transfer_size
  <2>1. /\ pc = "validate" /\ pc' \in {"accepted", "idle"} /\ file' = file
        /\ pc' = "accepted" => plan.size \in {None, Len(file)}
    BY <1>8 DEF validate_transfer_size
  <2>2. plan.size # None
    BY <2>1 DEF FixedPlan, Attempting
  <2>3. ASSUME pc' = "accepted" PROVE (Begins(First) /\ Whole(file))'
    <3>1. Begins(First) /\ Whole(file)
      BY <1>0, <2>1, <2>2, <2>3 DEF FreshOrTooLong
    <3> QED
      BY <2>1, <3>1 DEF Begins, Whole, First
  <2> QED
    BY <2>1, <2>3 DEF FreshOrTooLong
<1> QED
  BY <1>1, <1>2, <1>3, <1>4, <1>5, <1>6, <1>7, <1>8 DEF Next

LEMMA WholeInit == Init => WholeInv
BY DEF Init, WholeInv, FixedPlan, FreshOrTooLong, Before, Attempting

LEMMA WholeStep == BaseInv /\ WholeInv /\ [Next]_vars => WholeInv'
BY EnvStays, FixedPlanStep, FreshStep DEF WholeInv, Unresumable

\* A file that passes for complete is one representation from its first byte to its
\* last, for a resumable task and for one that is not, where every answer identifies
\* what it carries: what validate_transfer_size accepts by its length alone is whole.
THEOREM AcceptedFileIsWhole == Spec => []TrustedAcceptsWhole
<1>1. BaseInv /\ TrustedInv /\ WholeInv => TrustedAcceptsWhole
  <2> SUFFICES ASSUME TrustedInv, WholeInv, env \subseteq {"rude", "whole"},
                      pc = "accepted"
               PROVE  ~Mixed /\ Len(file) = Size[file[1].rep]
    BY DEF TrustedAcceptsWhole
  <2>1. Trusted \/ Unresumable
    BY DEF Trusted, Unresumable
  <2>2. Begins(First) /\ Whole(file)
    BY <2>1 DEF TrustedInv, Contents, WholeInv, FreshOrTooLong
  <2> QED
    BY <2>2 DEF Begins, Whole, First, Mixed
<1> QED
  BY <1>1, BaseInit, BaseStep, SavedInit, SavedStep, TrustedInit, TrustedStep, WholeInit,
     WholeStep, PTL DEF Spec

=============================================================================

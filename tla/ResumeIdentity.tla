--------------------------- MODULE ResumeIdentity ---------------------------
(***************************************************************************)
(* What keeps the bytes of two versions of a remote file apart when a       *)
(* single-connection download is interrupted and resumed, daemon/curl:      *)
(* the preflight and its comparison with the saved identity, the choice     *)
(* between append and restart, If-Range, the header checks in front of the  *)
(* first written byte, and the saved validator and size.                    *)
(* The server is external: it holds one of several representations, each    *)
(* named by its validator, and may replace it at any time. The file is the  *)
(* sequence of the bytes written, each with the representation and offset   *)
(* it came from. Identity encoding is assumed, as the code asks for it in   *)
(* every range request. Validators are of one kind, so two of them always    *)
(* compare. skipExisting, 304 and digests are left out.                      *)
(***************************************************************************)
EXTENDS Naturals, Sequences

CONSTANTS
  Reps,         \* the representations, as numbers from 1; also their validators
  Size,         \* the length of each
  Envs,         \* the environments to consider, each a set of what may happen
                \* besides good answers:
                \*   "silent"  a preflight that fails or carries no identity
                \*   "rude"    a 206 although If-Range does not match
                \*   "terse"   a 206 without the validator of what it carries
                \*   "newurl"  the user gives the task another URL
                \*   "revert"  an older representation comes back
                \* and "whole" for a task created with resumable = false
  MaxChanges,   \* bound on the changes at the server
  MaxRuns,      \* bound on the runs of the task
  Attempts,     \* retry_policy.attempts
  MaxCrashes    \* bound on the crashes of the daemon

ASSUME ResumeAssumption ==
  /\ Reps \subseteq Nat \ {0} /\ Reps # {}
  /\ Size \in [Reps -> Nat \ {0}]
  /\ Envs \subseteq SUBSET {"silent", "rude", "terse", "newurl", "revert", "whole"}
  /\ MaxChanges \in Nat /\ MaxRuns \in Nat /\ Attempts \in Nat \ {0}
  /\ MaxCrashes \in Nat

None     == 0                                   \* no validator, unknown size
Sizes    == {Size[r] : r \in Reps} \cup {None}
Identity == [val : Reps \cup {None}, size : Sizes]
Plan     == [val : Reps \cup {None}, size : Sizes, res : BOOLEAN]
Byte     == [rep : Reps, off : Nat \ {0}]
Response == [status : {None, 200, 206}, rep : Reps \cup {None}, from : Nat,
             next : Nat \ {0}, val : Reps \cup {None}]

VARIABLES
  env,          \* the environment of this behaviour, a member of Envs
  rep,          \* the representation the server holds
  file,         \* the destination file
  overwrite,    \* allowOverwrite of the task
  job, saved,   \* validator and size in the CurlJob, and in the state file
  plan,         \* the plan of run_libcurl_download
  cur,          \* the plan of the run_single_libcurl call
  seen,         \* the identity the preflight or the response showed
  resume,       \* resume_existing
  resp,         \* the response being read: status, representation, first byte
                \* asked for, next byte, validator header
  pc, attempt, changes, runs, crashes

idVars  == <<job, saved, plan, cur, seen>>
runVars == <<resume, resp, attempt>>
envVars == <<env, rep, changes, runs, crashes>>
vars == <<file, overwrite, idVars, runVars, envVars, pc>>

NoIdentity == [val |-> None, size |-> None]
NoPlan     == [val |-> None, size |-> None, res |-> FALSE]
NoResponse == [status |-> None, rep |-> None, from |-> 0, next |-> 1, val |-> None]

PC == {"idle", "preflight", "compare", "adopt", "learn", "dispatch", "open",
       "request", "body", "readopt", "error", "validate", "accepted",
       "adopt size", "readopt size"}

\* Every variable has its type; the retry loop stays within retry_policy.attempts.
TypeOK ==
  /\ env \in Envs /\ rep \in Reps /\ file \in Seq(Byte) /\ overwrite \in BOOLEAN
  /\ job \in Identity /\ saved \in Identity /\ seen \in Identity
  /\ plan \in Plan /\ cur \in Plan
  /\ resume \in Nat /\ resp \in Response
  /\ pc \in PC /\ attempt \in 0 .. Attempts - 1
  /\ changes \in 0 .. MaxChanges /\ runs \in 0 .. MaxRuns
  /\ crashes \in 0 .. MaxCrashes

Init ==
  /\ env \in Envs /\ rep \in Reps /\ file = <<>> /\ overwrite \in BOOLEAN
  /\ job = NoIdentity /\ saved = NoIdentity /\ seen = NoIdentity
  /\ plan = NoPlan /\ cur = NoPlan
  /\ resume = 0 /\ resp = NoResponse
  /\ pc = "idle" /\ attempt = 0 /\ changes = 0 /\ runs = 0 /\ crashes = 0

----------------------------------------------------------------------------
\* Identities.

\* RemoteFingerprint::conflicts_with: only concrete contradictions count.
conflicts_with(a, b) ==
  \/ a.val # None /\ b.val # None /\ a.val # b.val
  \/ a.size # None /\ b.size # None /\ a.size # b.size

\* observed_fingerprint of the response.
observed == [val |-> resp.val, size |-> Size[resp.rep]]

----------------------------------------------------------------------------
\* The environment.

Replacements == {r \in Reps : r > rep \/ (r # rep /\ "revert" \in env)}

change ==
  /\ changes < MaxChanges /\ changes' = changes + 1
  /\ rep' \in Replacements
  /\ UNCHANGED <<env, file, overwrite, idVars, runVars, runs, crashes, pc>>

\* update_task_metadata with a new URL, allowed only while no run is active: the
\* validators are cleared, the partial file and the size stay.
update_task_metadata ==
  /\ "newurl" \in env /\ pc = "idle"
  /\ changes < MaxChanges /\ changes' = changes + 1
  /\ rep' \in Replacements \cup {rep}
  /\ job' = [job EXCEPT !.val = None]
  /\ UNCHANGED <<env, file, overwrite, saved, plan, cur, seen, runVars, runs,
                 crashes, pc>>

\* The periodic save of persist.rs.
save ==
  /\ saved # job /\ saved' = job
  /\ UNCHANGED <<file, overwrite, job, plan, cur, seen, runVars, envVars, pc>>

\* The daemon dies; the file keeps what was written, the job comes back as saved.
crash ==
  /\ crashes < MaxCrashes /\ crashes' = crashes + 1
  /\ pc # "accepted" /\ pc' = "idle"
  /\ job' = saved
  /\ plan' = NoPlan /\ cur' = NoPlan /\ seen' = NoIdentity
  /\ resume' = 0 /\ resp' = NoResponse /\ attempt' = 0
  /\ UNCHANGED <<env, rep, file, overwrite, saved, changes, runs>>

----------------------------------------------------------------------------
\* run_libcurl_download up to the first attempt.

plan_from_job ==
  /\ pc = "idle" /\ runs < MaxRuns /\ runs' = runs + 1
  /\ plan' = [val |-> job.val, size |-> job.size,
              res |-> "whole" \notin env]
  /\ pc' = "preflight"
  /\ UNCHANGED <<env, rep, file, overwrite, job, saved, cur, seen, runVars,
                 changes, crashes>>

\* resolve_effective_target asks for one byte and reports what the headers say;
\* a failure, or a probe by the resource intelligence engine, reports nothing.
resolve_effective_target ==
  /\ pc = "preflight"
  /\ \/ seen' = [val |-> rep, size |-> Size[rep]]
     \/ "silent" \in env /\ seen' \in {NoIdentity, [val |-> None, size |-> Size[rep]]}
  /\ pc' = "compare"
  /\ UNCHANGED <<file, overwrite, job, saved, plan, cur, runVars, envVars>>

task_has_any_checkpoint ==
  Len(file) > 0 /\ (plan.size = None \/ Len(file) < plan.size)

\* A checkpoint of another representation is discarded ...
compare_identity ==
  /\ pc = "compare"
  /\ IF task_has_any_checkpoint /\ conflicts_with(plan, seen)
     THEN file' = <<>> /\ saved' = job /\ pc' = "adopt"
     ELSE pc' = "learn" /\ UNCHANGED <<file, saved>>
  /\ UNCHANGED <<overwrite, job, plan, cur, seen, runVars, envVars>>

\* ... and the new identity takes its place: first the validator, then the size,
\* each saved before the next step. A fresh attempt after a rejected response
\* ("readopt") puts it in its own plan only.
adopt_validator ==
  /\ pc \in {"adopt", "readopt"}
  /\ plan' = IF pc = "adopt" THEN [plan EXCEPT !.val = seen.val] ELSE plan
  /\ cur' = IF pc = "readopt" THEN [cur EXCEPT !.val = seen.val] ELSE cur
  /\ job' = [job EXCEPT !.val = seen.val]
  /\ saved' = IF job' # job THEN job' ELSE saved
  /\ pc' = IF pc = "adopt" THEN "adopt size" ELSE "readopt size"
  /\ UNCHANGED <<file, overwrite, seen, runVars, envVars>>

adopt_size ==
  /\ pc \in {"adopt size", "readopt size"} /\ seen.size # None
  /\ plan' = IF pc = "adopt size" THEN [plan EXCEPT !.size = seen.size] ELSE plan
  /\ cur' = IF pc = "readopt size" THEN [cur EXCEPT !.size = seen.size] ELSE cur
  /\ job' = [job EXCEPT !.size = seen.size] /\ saved' = job'
  /\ pc' = IF pc = "adopt size" THEN "learn" ELSE "open"
  /\ UNCHANGED <<file, overwrite, seen, runVars, envVars>>

learn_Bug ==
  /\ pc = "learn"
  /\ plan' = [plan EXCEPT !.val = IF plan.val = None THEN seen.val ELSE plan.val,
                          !.size = IF plan.size = None THEN seen.size ELSE plan.size]
  /\ job' = [val |-> IF plan.val = None /\ seen.val # None THEN seen.val ELSE job.val,
             size |-> IF job.size = None THEN seen.size ELSE job.size]
  /\ pc' = "dispatch"
  /\ UNCHANGED <<file, overwrite, saved, cur, seen, runVars, envVars>>

\* What was not known is learned: the validator, saved before any byte depends
\* on it (persist_resume_validator), and the size, which is not.
learn ==
  /\ pc = "learn"
  /\ LET tag  == plan.val = None /\ seen.val # None
         grow == plan.size = None /\ seen.size # None
         val  == IF tag THEN seen.val ELSE job.val
     IN  /\ plan' = [plan EXCEPT !.val = IF tag THEN seen.val ELSE plan.val,
                                 !.size = IF grow THEN seen.size ELSE plan.size]
         /\ job' = [val |-> val,
                    size |-> IF grow /\ job.size = None THEN seen.size ELSE job.size]
         /\ saved' = IF val # job.val THEN [job EXCEPT !.val = val] ELSE saved
  /\ pc' = "dispatch"
  /\ UNCHANGED <<file, overwrite, cur, seen, runVars, envVars>>

\* A file that is not a part to resume, and may not be overwritten, is left alone
\* and another name taken.
has_partial_output_checkpoint == plan.res /\ task_has_any_checkpoint

auto_rename ==
  /\ pc = "dispatch"
  /\ file' = IF ~overwrite /\ ~has_partial_output_checkpoint THEN <<>> ELSE file
  /\ cur' = plan
  /\ pc' = "open"
  /\ UNCHANGED <<overwrite, job, saved, plan, seen, runVars, envVars>>

----------------------------------------------------------------------------
\* One attempt, run_single_libcurl.

AtSize   == cur.size # None /\ Len(file) = cur.size
OverSize == cur.size # None /\ Len(file) > cur.size
Refused  == /\ ~overwrite /\ Len(file) > 0 /\ ~AtSize
            /\ OverSize \/ ~cur.res \/ cur.size = None
Replaced == overwrite /\ (AtSize \/ OverSize \/ ~cur.res)

\* What is on disk is replaced, refused or kept; only with a validator is a kept
\* part going to be checked.
open_output ==
  /\ pc = "open"
  /\ file' = IF Replaced THEN <<>> ELSE file
  /\ resume' = IF cur.res /\ cur.val # None THEN Len(file') ELSE 0
  /\ pc' = IF Refused THEN "error" ELSE "request"
  /\ UNCHANGED <<overwrite, idVars, resp, attempt, envVars>>

\* The request goes out with a range when there are bytes to keep, and with
\* If-Range when there is a validator. A 206 for another representation than
\* If-Range names carries its validator; a terse server leaves it out otherwise.
RangeStart == IF cur.res THEN Len(file) ELSE 0

Answer(status, next) ==
  \E v \in {rep, None} :
     /\ v = rep \/ ("terse" \in env /\ status = 206 /\ cur.val \in {rep, None})
     /\ resp' = [status |-> status, rep |-> rep, from |-> RangeStart,
                 next |-> next, val |-> v]

request ==
  /\ pc = "request"
  /\ \/ Answer(200, 1) /\ pc' = "body"
     \/ /\ 0 < RangeStart /\ RangeStart < Size[rep]
        /\ cur.val \in {rep, None} \/ "rude" \in env
        /\ Answer(206, RangeStart + 1) /\ pc' = "body"
     \/ pc' = "error" /\ UNCHANGED resp            \* no answer, or HTTP >= 400
  /\ UNCHANGED <<file, overwrite, idVars, resume, attempt, envVars>>

\* 412 and 416: the part on disk is given up.
range_refused ==
  /\ pc = "request" /\ RangeStart > 0
  /\ file' = <<>> /\ pc' = "error"
  /\ UNCHANGED <<overwrite, idVars, runVars, envVars>>

\* range_response_is_safe: a checked part is continued only by a 206 at the
\* requested place, of the same total, that contradicts nothing known.
range_response_is_safe_Bug == resp.status = 206
range_response_is_safe ==
  /\ resp.status = 206 /\ resp.from = resume
  /\ cur.size > resume => Size[resp.rep] = cur.size
  /\ ~conflicts_with(cur, observed)

\* SegmentWriter::write, one byte at a time.
write ==
  /\ pc = "body" /\ resp.next <= Size[resp.rep]
  /\ resp.from > 0 => resp.status = 206
  /\ resume > 0 => range_response_is_safe
  /\ file' = Append(file, [rep |-> resp.rep, off |-> resp.next])
  /\ resp' = [resp EXCEPT !.next = resp.next + 1]
  /\ UNCHANGED <<overwrite, idVars, resume, attempt, envVars, pc>>

\* The progress tick stores the size: the one of the plan once that is known,
\* else the one in the headers.
tick ==
  /\ pc = "body"
  /\ job' = [job EXCEPT !.size = IF cur.size # None THEN cur.size ELSE Size[resp.rep]]
  /\ job' # job
  /\ UNCHANGED <<file, overwrite, saved, plan, cur, seen, runVars, envVars, pc>>

\* A range request answered with 200: libcurl stops it, unless the part is as
\* long as the whole; then the transfer succeeds with nothing written, and a
\* checked part is truncated as corrupted.
range_ignored ==
  /\ pc = "body" /\ resp.from > 0 /\ resp.status = 200
  /\ IF resp.from # Size[resp.rep]
     THEN pc' = "error" /\ UNCHANGED file
     ELSE /\ file' = IF resume > 0 THEN <<>> ELSE file
          /\ pc' = IF resume > 0 THEN "error" ELSE "validate"
  /\ UNCHANGED <<overwrite, idVars, runVars, envVars>>

\* The first write refuses an unsafe response: the part is discarded and the
\* attempt starts over with what the response showed. The plan of
\* run_libcurl_download does not learn of it.
reject_unsafe_range_response ==
  /\ pc = "body" /\ resume > 0 /\ ~range_response_is_safe
  /\ file' = <<>> /\ saved' = job /\ seen' = observed
  /\ pc' = "readopt"
  /\ UNCHANGED <<overwrite, job, plan, cur, runVars, envVars>>

\* The connection drops before the last byte.
interrupted ==
  /\ pc = "body" /\ resp.next <= Size[resp.rep]
  /\ pc' = "error"
  /\ UNCHANGED <<file, overwrite, idVars, runVars, envVars>>

body_ends_Bug ==
  /\ pc = "body" /\ resp.next > 1
  /\ pc' = "validate"
  /\ UNCHANGED <<file, overwrite, idVars, runVars, envVars>>

body_ends ==
  /\ pc = "body" /\ resp.next > Size[resp.rep]
  /\ pc' = "validate"
  /\ UNCHANGED <<file, overwrite, idVars, runVars, envVars>>

----------------------------------------------------------------------------
\* The end of an attempt, in run_libcurl_download.

\* validate_transfer_size against the plan's size; a wrong size fails the run, a
\* right one accepts the file and saves the validator of the response.
validate_transfer_size ==
  /\ pc = "validate"
  /\ LET ok    == plan.size \in {None, Len(file)}
         adopt == ok /\ resp.val # None /\ resp.val # job.val
     IN  /\ pc' = IF ok THEN "accepted" ELSE "idle"
         /\ job' = IF adopt THEN [job EXCEPT !.val = resp.val] ELSE job
         /\ saved' = IF adopt THEN job' ELSE saved
         /\ attempt' = IF ok THEN attempt ELSE 0
  /\ UNCHANGED <<file, overwrite, plan, cur, seen, resume, resp, envVars>>

MayRetry_Bug == attempt < Attempts
MayRetry == attempt + 1 < Attempts

\* The self-healer (decide_recovery) keeps the plan, or after persistent failures
\* has the next attempt start from nothing: a resuming task that has received no
\* byte, and then every time until it gives up. It counts the failures of tasks
\* that were once segmented, so a task that is not resumable keeps its plan. Or
\* the error is final.
attempt_failed ==
  /\ pc = "error"
  /\ \/ (plan.res \/ "whole" \in env) /\ UNCHANGED <<plan, file>>
     \/ /\ "whole" \notin env
        /\ plan' = [plan EXCEPT !.res = FALSE] /\ file' = <<>>
  /\ \/ /\ MayRetry
        /\ attempt' = attempt + 1 /\ cur' = plan' /\ pc' = "open"
     \/ attempt' = 0 /\ pc' = "idle" /\ UNCHANGED cur
  /\ UNCHANGED <<overwrite, job, saved, seen, resume, resp, envVars>>

\* A pause, noticed where the run looks at its token: the run ends.
cancelled ==
  /\ pc \in {"preflight", "compare", "open", "body", "error", "validate"}
  /\ pc' = "idle" /\ attempt' = 0
  /\ UNCHANGED <<file, overwrite, idVars, resume, resp, envVars>>

----------------------------------------------------------------------------
Next ==
  \/ change \/ update_task_metadata \/ save \/ crash
  \/ plan_from_job \/ resolve_effective_target \/ compare_identity
  \/ adopt_validator \/ adopt_size \/ learn \/ auto_rename
  \/ open_output \/ request \/ range_refused \/ write \/ tick \/ range_ignored
  \/ reject_unsafe_range_response \/ interrupted \/ body_ends
  \/ validate_transfer_size \/ attempt_failed \/ cancelled

Spec == Init /\ [][Next]_vars

----------------------------------------------------------------------------
\* Properties.

\* The file is not the beginning of one representation.
Mixed == \E i \in DOMAIN file : file[i] # [rep |-> file[1].rep, off |-> i]

\* A part that a response is about to continue, after every check has passed, was
\* written from the representation of that response.
CheckedPartIsSame ==
  pc = "body" /\ resume > 0 /\ range_response_is_safe =>
    \A i \in DOMAIN file : file[i].rep = resp.rep

\* A resumable task; every preflight and every 206 carries the validator, the URL
\* stays and no validator comes back.
Trusted == env \subseteq {"rude"}

\* The bytes of two representations never meet in the destination file of a resumable
\* task, where every preflight and every 206 identifies the representation, the URL
\* stays and no validator comes back: the server may change between any two steps,
\* ignore or misread If-Range, and the daemon may crash, retry and be paused.
TrustedNeverMixed == Trusted => ~Mixed

\* In that environment, and for a task that is not resumable too, a file that passes
\* for complete is one representation from its first byte to its last, whatever
\* plan, retry and restart it went through.
TrustedAcceptsWhole ==
  env \subseteq {"rude", "whole"} /\ pc = "accepted" =>
    ~Mixed /\ Len(file) = Size[file[1].rep]

\* The validator that lets a response continue a part is in the state file before
\* the first such byte is written: a crash then cannot leave a part whose validator
\* nobody knows. (A server that takes an old representation back is left out: the
\* retry loop keeps the validator a restart has replaced.)
ValidatorSavedFirst ==
  /\ "revert" \notin env
  /\ pc = "body" /\ resume > 0 /\ range_response_is_safe
  => saved.val = cur.val

=============================================================================

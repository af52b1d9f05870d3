------------------------- MODULE SegmentedTransfer -------------------------
(***************************************************************************)
(* The segmented transfer of one download (run_segmented_libcurl): the     *)
(* planner cuts the file into ranges, every range has a part file that its *)
(* libcurl handle appends to, the adaptive engine splits, merges and       *)
(* shifts the ranges while the handles run, the drive loop rebuilds the    *)
(* handles from the new geometry, and the parts are concatenated at the    *)
(* end.  A run may be paused, fail or be cut by a crash; the next run      *)
(* starts from what the part files and the saved task say.                 *)
(*                                                                         *)
(* A byte is its offset in the remote file, so a part file is the sequence *)
(* of the offsets it holds and a correct output is 0, 1, 2, ...  Speeds    *)
(* are not kept: what they decide is a choice, bounded by the code's other *)
(* conditions.  The bytes a handle has counted and the bytes it found on   *)
(* disk are always the length of its part, so no counter is kept either.   *)
(***************************************************************************)
EXTENDS Integers, Sequences, FiniteSets, TLC

CONSTANTS Total,          \* bytes of the remote file
          MinSegment,     \* min_segment_bytes
          MaxConnections, \* max_connections_per_download
          Connections,    \* effective connection counts a run may start with
          Adaptive,       \* the task's "adaptive" option
          Block,          \* bytes a write callback delivers, the last one fewer
          MaxId,          \* bound: highest segment id
          MaxDecisions,   \* bound: geometry decisions, of all runs together
          MaxRuns         \* bound: runs of the transfer

ASSUME SegmentedAssumption ==
    /\ Total \in Nat \ {0} /\ MinSegment \in Nat \ {0}
    /\ MaxConnections \in Nat \ {0} /\ Connections \subseteq 1..MaxConnections
    /\ Adaptive \in BOOLEAN /\ Block \in Nat \ {0}
    /\ MaxId \in Nat /\ MaxDecisions \in Nat /\ MaxRuns \in Nat
    /\ MaxConnections <= MaxId + 1

Ids == 0..MaxId

VARIABLES
    phase,      \* where the run is
    segments,   \* SegmentController.segments, in vector order, ends exclusive
    active,     \* the drive loop's ranges, in vector order, ends inclusive
    handles,    \* ids of the ranges that have an easy handle
    parts,      \* part file of each id: the offsets it holds
    output,     \* the destination: <<>> until the merge has renamed it
    saved,      \* downloaded_bytes of the task's segments, by position
    keeps,      \* the parts are bound to a saved validator and may be resumed
    target,     \* connection count the engine is redistributing for
    wants,      \* the tick asked for a rebuild
    decisions,  \* geometry decisions taken
    runs,       \* runs started
    adopted,    \* history: a range was given the part file of another range
    merged      \* history: a segment was merged away

vars == <<phase, segments, active, handles, parts, output, saved, keeps,
          target, wants, decisions, runs, adopted, merged>>
history == <<adopted, merged>>

Lowest(S) == CHOOSE x \in S : \A y \in S : x <= y
Highest(S) == CHOOSE x \in S : \A y \in S : x >= y
MinOf(a, b) == IF a <= b THEN a ELSE b
Monus(a, b) == IF a >= b THEN a - b ELSE 0
Without(s, j) == [k \in 1..Len(s) - 1 |-> IF k < j THEN s[k] ELSE s[k + 1]]
NoParts == [i \in Ids |-> <<>>]
Whole == [k \in 1..Total |-> k - 1]

-----------------------------------------------------------------------------
(* The planner and the byte ranges of the transfer: direct.rs              *)

\* plan_transfer_ranges_with_limit: balanced ranges, the first `remainder` of
\* them one byte longer
PlanRanges(n) ==
    LET count == MinOf(MinOf(n, MaxConnections), Total)
        base == Total \div count
        rem == Total % count
    IN  [k \in 1..count |->
            LET start == (k - 1) * base + MinOf(k - 1, rem)
                len == base + (IF k - 1 < rem THEN 1 ELSE 0)
            IN  [id |-> k - 1, start |-> start, end |-> start + len - 1]]

\* SegmentRange::len, for inclusive ends
PartSize(r) == IF r.end < r.start THEN 0 ELSE r.end - r.start + 1

\* Geometry as the merge wants it: distinct ids, every byte exactly once
\* (validate_segment_geometry)
ValidGeometry(ranges) ==
    /\ \A i, j \in DOMAIN ranges : i # j => ranges[i].id # ranges[j].id
    /\ \A i \in DOMAIN ranges : ranges[i].start <= ranges[i].end
    /\ \A b \in 0..Total - 1 :
          Cardinality({i \in DOMAIN ranges :
              ranges[i].start <= b /\ b <= ranges[i].end}) = 1
    /\ \A i \in DOMAIN ranges : ranges[i].end < Total

\* merge_parts of a valid geometry in start order, each part cut to its range
Merged(ranges) ==
    [k \in 1..Total |->
        LET i == CHOOSE i \in DOMAIN ranges :
                    ranges[i].start <= k - 1 /\ k - 1 <= ranges[i].end
        IN  parts[ranges[i].id][k - ranges[i].start]]

-----------------------------------------------------------------------------
(* SegmentController: segment_controller.rs.  An exclusive end, a progress *)
(* counter that is a hint, and whether the segment is still Active.        *)

TotalBytes(s) == Monus(s.end, s.start)
Remaining(s) == Monus(TotalBytes(s), s.downloaded)
ActiveSegs(segs) == {i \in DOMAIN segs : segs[i].live}
NewSegment(id, start, end) ==
    [id |-> id, start |-> start, end |-> end, downloaded |-> 0, live |-> TRUE]
NextId(segs) == Highest({segs[i].id : i \in DOMAIN segs}) + 1

\* The engine numbers the segments by itself, from one
Seeded_Bug(ranges) ==
    [k \in DOMAIN ranges |->
        NewSegment(k, ranges[k].start, ranges[k].end + 1)]
\* seed_from_ranges: the planner's ids and ranges, ends made exclusive
Seeded(ranges) ==
    [k \in DOMAIN ranges |->
        NewSegment(ranges[k].id, ranges[k].start, ranges[k].end + 1)]

\* update_progress of every range the drive loop holds; a range the engine no
\* longer knows is dropped, a full one is Completed for good
Updated(segs, ranges) ==
    [k \in DOMAIN segs |->
        LET r == {i \in DOMAIN ranges : ranges[i].id = segs[k].id}
            got == Lowest({MinOf(Len(parts[segs[k].id]), PartSize(ranges[i])) :
                              i \in r})
            s == [segs[k] EXCEPT !.downloaded = got]
        IN  IF r = {} THEN segs[k] ELSE [s EXCEPT !.live = @ /\ Remaining(s) # 0]]

\* split_segment_at
CanSplit(segs, i) ==
    segs[i].live /\ Remaining(segs[i]) >= 2 * MinSegment
Split(segs, i) ==
    LET s == segs[i]
        mid == s.start + s.downloaded + Remaining(s) \div 2
    IN  IF CanSplit(segs, i)
        THEN Append([segs EXCEPT ![i].end = mid],
                    NewSegment(NextId(segs), mid, s.end))
        ELSE segs

\* merge_adjacent_segments: the survivor keeps its id and its part, the other
\* segment goes and its part file stays where it is
Merge(segs, i, j) ==
    IF i < j /\ segs[j].start = segs[i].end
    THEN Without([segs EXCEPT ![i] =
                    [segs[i] EXCEPT !.end = segs[j].end,
                                    !.downloaded = @ + segs[j].downloaded,
                                    !.live = TRUE]], j)
    ELSE segs

\* The Rebalance arm of apply_plan: the end of the slow segment becomes a
\* segment of its own
Rebalance(segs, i, bytes) ==
    LET s == segs[i]
        transfer == MinOf(bytes, Remaining(s))
        cut == s.end - transfer
    IN  IF transfer = 0 THEN segs
        ELSE Append([segs EXCEPT ![i] = [s EXCEPT !.end = cut,
                          !.downloaded = MinOf(@, Monus(cut, s.start))]],
                    NewSegment(NextId(segs), cut, s.end))

\* apply_plan sorts by start_byte whatever the plan did (a stable sort of
\* distinct starts)
SortedByStart(segs) ==
    LET Before(i) == {j \in DOMAIN segs :
                        \/ segs[j].start < segs[i].start
                        \/ segs[j].start = segs[i].start /\ j < i}
    IN  [k \in DOMAIN segs |->
            segs[CHOOSE i \in DOMAIN segs : Cardinality(Before(i)) = k - 1]]

\* What SegmentController::evaluate may return, over every assignment of
\* speeds: a median needs two others for a rebalance and two slow neighbours
\* below it for a merge
SplitPlans(segs) ==
    {i \in ActiveSegs(segs) :
        IF Cardinality(ActiveSegs(segs)) = 1
        THEN TotalBytes(segs[i]) >= 2 * MinSegment
        ELSE Remaining(segs[i]) > MinSegment}
RebalancePlans(segs) ==
    {p \in ActiveSegs(segs) \X ActiveSegs(segs) \X (MinSegment..Total) :
        /\ Cardinality(ActiveSegs(segs)) >= 3
        /\ segs[p[1]].end = segs[p[2]].start
        /\ Remaining(segs[p[1]]) > MinSegment
        /\ p[3] <= Remaining(segs[p[1]]) \div 4}
MergePlans(segs) ==
    {p \in ActiveSegs(segs) \X ActiveSegs(segs) :
        /\ Cardinality(ActiveSegs(segs)) >= 4
        /\ segs[p[1]].end = segs[p[2]].start
        /\ Remaining(segs[p[1]]) + Remaining(segs[p[2]]) < 2 * MinSegment}

\* The geometries the engine may leave behind one evaluation
Planned(segs) ==
    {SortedByStart(Split(segs, i)) : i \in SplitPlans(segs)}
    \cup {SortedByStart(Rebalance(segs, p[1], p[3])) : p \in RebalancePlans(segs)}
    \cup {SortedByStart(Merge(segs, p[1], p[2])) : p \in MergePlans(segs)}

\* largest_active_remaining (of equals max_by_key takes the last) and
\* smallest_adjacent_pair (neighbours in the vector, of equals the first)
Largest(segs) ==
    LET c == {i \in DOMAIN segs : CanSplit(segs, i)}
    IN  {i \in c : \A k \in c :
            \/ Remaining(segs[k]) < Remaining(segs[i])
            \/ Remaining(segs[k]) = Remaining(segs[i]) /\ k <= i}
Combined(segs, p) == Remaining(segs[p[1]]) + Remaining(segs[p[2]])
SmallestPair(segs) ==
    LET c == {p \in ActiveSegs(segs) \X ActiveSegs(segs) :
                /\ p[1] < p[2]
                /\ \A k \in ActiveSegs(segs) : k <= p[1] \/ k >= p[2]
                /\ segs[p[1]].end = segs[p[2]].start
                /\ Combined(segs, p) >= MinSegment}
    IN  {p \in c : \A q \in c :
            \/ Combined(segs, q) > Combined(segs, p)
            \/ Combined(segs, q) = Combined(segs, p) /\ q[1] >= p[1]}

-----------------------------------------------------------------------------
Init ==
    /\ phase = "idle"
    /\ segments = <<>> /\ active = <<>> /\ handles = {}
    /\ parts = NoParts /\ output = <<>>
    /\ saved = <<>>
    /\ keeps \in BOOLEAN
    /\ target = 0 /\ wants = FALSE /\ decisions = 0 /\ runs = 0
    /\ adopted = FALSE /\ merged = FALSE

\* Some range finds bytes in the part file of its id that no range with the
\* same id and start has written
Adopts(ranges, disk) ==
    \E k \in DOMAIN ranges :
        /\ disk[ranges[k].id] # <<>>
        /\ \A j \in DOMAIN active :
              <<active[j].id, active[j].start>> # <<ranges[k].id, ranges[k].start>>

\* A run starts: anonymous or unresumable parts go; each range takes what its
\* part file holds, except a part that is too long, or full without the saved
\* progress confirming it; the engine is seeded with the same ranges.  When
\* nothing is left to fetch the parts are merged at once.
Start(n) ==
    /\ phase = "idle" /\ output = <<>> /\ runs < MaxRuns
    /\ LET ranges == PlanRanges(n)
           disk == IF keeps THEN parts ELSE NoParts
           counted == IF keeps THEN saved ELSE <<>>
           Confirmed(k) == k \in DOMAIN counted /\ counted[k] >= PartSize(ranges[k])
           Kept(k) ==
               LET p == disk[ranges[k].id]
               IN  \/ Len(p) < PartSize(ranges[k])
                   \/ Len(p) = PartSize(ranges[k]) /\ Confirmed(k)
           found == [i \in Ids |->
                        IF \E k \in DOMAIN ranges : ranges[k].id = i /\ ~Kept(k)
                        THEN <<>> ELSE disk[i]]
           open == {k \in DOMAIN ranges :
                       Len(found[ranges[k].id]) < PartSize(ranges[k])}
       IN  /\ parts' = found
           /\ saved' = counted
           /\ segments' = Seeded(ranges)
           /\ active' = ranges
           /\ handles' = {ranges[k].id : k \in open}
           /\ phase' = IF open = {} THEN "merging" ELSE "driving"
           /\ adopted' = (adopted \/ Adopts(ranges, found))
    /\ runs' = runs + 1
    /\ UNCHANGED <<output, keeps, target, wants, decisions, merged>>

\* SegmentWriter::write: the handle of a range appends the next bytes it asked
\* for at the end of its part file
Receive(k) ==
    /\ phase = "driving" /\ k \in DOMAIN active /\ active[k].id \in handles
    /\ LET id == active[k].id
           have == Len(parts[id])
           size == PartSize(active[k])
       IN  /\ have < size
           /\ parts' = [parts EXCEPT ![id] =
                          @ \o [i \in 1..MinOf(Block, size - have) |->
                                   active[k].start + have + i - 1]]
    /\ UNCHANGED <<phase, segments, active, handles, output, saved, keeps,
                   target, wants, decisions, runs, history>>

Complete(k) == Len(parts[active[k].id]) >= PartSize(active[k])
Running == \E k \in DOMAIN active : active[k].id \in handles /\ ~Complete(k)

\* update_curl_task_progress
Counted == [k \in DOMAIN active |-> MinOf(Len(parts[active[k].id]), PartSize(active[k]))]

\* A tick without a geometry decision records the progress in the task, and the
\* periodic flush saves it.  (What it tells the engine the next decision tells
\* it again.)  Nothing reads the record before the next run.
TickProgress ==
    /\ phase = "driving" /\ Running /\ runs < MaxRuns
    /\ saved' = Counted
    /\ UNCHANGED <<phase, segments, active, handles, parts, output, keeps, target,
                   wants, decisions, runs, history>>

\* A tick whose decision changes the geometry, or repeats the last decision:
\* the engine's plan is applied, then the connections are adjusted when their
\* number differs from the handles; a rebuild follows unless the last one is
\* too recent
TickDecision(n, rebuild) ==
    /\ phase = "driving" /\ Running /\ Adaptive /\ decisions < MaxDecisions
    /\ LET updated == Updated(segments, active)
       IN  \E next \in Planned(updated) \cup {updated} :
             /\ next # updated \/ n # Cardinality(handles) \/ decisions > 0
             /\ \A i \in DOMAIN next : next[i].id \in Ids
             /\ segments' = next
             /\ merged' = (merged \/ Len(next) < Len(updated))
    /\ decisions' = decisions + 1
    /\ IF n # Cardinality(handles)
       THEN phase' = "adjusting" /\ target' = n /\ wants' = rebuild
       ELSE /\ phase' = IF rebuild THEN "rebuilding" ELSE "driving"
            /\ UNCHANGED <<target, wants>>
    /\ UNCHANGED <<active, handles, parts, output, saved, keeps, runs, adopted>>

\* redistribute_for_count: one split or merge of its loop
Adjust ==
    /\ phase = "adjusting"
    /\ \/ /\ target > Cardinality(ActiveSegs(segments))
          /\ NextId(segments) \in Ids
          /\ \E i \in Largest(segments) : segments' = Split(segments, i)
          /\ UNCHANGED merged
       \/ /\ target < Cardinality(ActiveSegs(segments))
          /\ \E p \in SmallestPair(segments) :
                segments' = Merge(segments, p[1], p[2])
          /\ merged' = TRUE
    /\ UNCHANGED <<phase, active, handles, parts, output, saved, keeps,
                   target, wants, decisions, runs, adopted>>

\* The loop has reached its count or finds nothing more to split or merge
AdjustEnds ==
    /\ phase = "adjusting"
    /\ \/ target = Cardinality(ActiveSegs(segments))
       \/ /\ target > Cardinality(ActiveSegs(segments))
          /\ Largest(segments) = {} \/ NextId(segments) \notin Ids
       \/ /\ target < Cardinality(ActiveSegs(segments))
          /\ SmallestPair(segments) = {}
    /\ phase' = IF wants THEN "rebuilding" ELSE "driving"
    /\ target' = 0 /\ wants' = FALSE
    /\ UNCHANGED <<segments, active, handles, parts, output, saved, keeps,
                   decisions, runs, history>>

\* The exclusive end taken for an inclusive one
InclusiveEnd_Bug(s) == s.end
\* The end the rebuilt ByteRange gets from the engine's exclusive end
InclusiveEnd(s) == Monus(s.end, 1)

\* The part is left as long as it is
Trimmed_Bug(part, size) == part
\* A part file longer than its segment has become is cut with set_len
Trimmed(part, size) == IF Len(part) > size THEN SubSeq(part, 1, size) ELSE part

\* The segments the rebuild turns into ranges, in their order
NonEmpty(segs) ==
    LET Kept == {i \in DOMAIN segs : TotalBytes(segs[i]) # 0}
    IN  [k \in 1..Cardinality(Kept) |->
            segs[CHOOSE i \in Kept : Cardinality({j \in Kept : j <= i}) = k]]

\* The rebuild: every handle goes, every segment of the engine becomes a range
\* of the part file of its id, cut to the segment when it is longer and resumed
\* at its length; an empty segment is skipped
Rebuild ==
    /\ phase = "rebuilding"
    /\ LET kept == NonEmpty(segments)
           SizeOf(id) == TotalBytes(kept[CHOOSE k \in DOMAIN kept : kept[k].id = id])
           held == {kept[k].id : k \in DOMAIN kept}
           cut == [i \in Ids |->
                     IF i \in held THEN Trimmed(parts[i], SizeOf(i)) ELSE parts[i]]
       IN  /\ parts' = cut
           /\ active' = [k \in DOMAIN kept |->
                           [id |-> kept[k].id, start |-> kept[k].start,
                            end |-> InclusiveEnd(kept[k])]]
           /\ handles' = {i \in held : Len(cut[i]) < SizeOf(i)}
           /\ adopted' = (adopted \/ Adopts(kept, cut))
    /\ phase' = "driving"
    /\ UNCHANGED <<segments, output, saved, keeps, target, wants, decisions,
                   runs, merged>>

-----------------------------------------------------------------------------
(* The ends of a run.  The handles go with the run; the engine stays in the *)
(* tracker only until the next run replaces it, so it is dropped here.      *)

EndRun ==
    /\ segments' = <<>> /\ handles' = {}
    /\ target' = 0 /\ wants' = FALSE
    /\ UNCHANGED <<active, keeps, decisions, runs, history>>

WithoutActiveParts ==
    [i \in Ids |-> IF \E k \in DOMAIN active : active[k].id = i
                   THEN <<>> ELSE parts[i]]

\* Every handle has ended: the last progress update, the geometry gate and the
\* merge, which removes the parts it has read.  A geometry the gate refuses, or a
\* short part, is an error and the run falls back to a single connection with the
\* parts as they are.
Finish ==
    /\ phase \in {"driving", "merging"} /\ ~Running
    /\ IF /\ phase = "merging" \/ ValidGeometry(active)
          /\ \A k \in DOMAIN active : Complete(k)
       THEN /\ output' = Merged(active)
            /\ parts' = WithoutActiveParts
            /\ phase' = "finished"
       ELSE phase' = "single" /\ UNCHANGED <<output, parts>>
    /\ saved' = IF phase = "driving" THEN Counted ELSE saved
    /\ EndRun

\* The user pauses: the drive loop returns, the parts stay, the worker saves
\* the task with the progress of its last tick
Pause ==
    /\ phase = "driving" /\ Running
    /\ phase' = "idle" /\ saved' \in {saved, Counted}
    /\ EndRun /\ UNCHANGED <<parts, output>>

\* A handle fails: the error ends the run, the parts stay
SegmentError ==
    /\ phase = "driving" /\ Running
    /\ phase' = "single"
    /\ EndRun /\ UNCHANGED <<parts, output, saved>>

\* An answer that is not the range asked for stops every writer; all parts go
\* and the counters are reset with the identity the answer showed
RangeRejected ==
    /\ phase = "driving" /\ Running
    /\ phase' = "single" /\ parts' = NoParts /\ saved' = <<>>
    /\ EndRun /\ UNCHANGED output

\* A content encoding, a 412 or a 416: only the parts of the current ranges go
AttemptRefused ==
    /\ phase = "driving" /\ Running
    /\ phase' = "single" /\ parts' = WithoutActiveParts
    /\ EndRun /\ UNCHANGED <<output, saved>>

\* The single-connection fallback writes the destination, which later runs then
\* continue without segments, or fails before its first byte; its own ticks
\* replace the task's segments by one
SingleTakesOver ==
    /\ phase = "single"
    /\ \/ phase' = "left" /\ UNCHANGED saved
       \/ phase' = "idle" /\ saved' \in {saved, <<0>>}
    /\ EndRun /\ UNCHANGED <<parts, output>>

\* The process dies: the part files stay, the task comes back as it was saved
Crash ==
    /\ phase \notin {"idle", "finished", "left"}
    /\ phase' = "idle"
    /\ EndRun /\ UNCHANGED <<parts, output, saved>>

Next ==
    \/ \E n \in Connections : Start(n)
    \/ \E k \in 1..MaxId + 1 : Receive(k)
    \/ TickProgress
    \/ \E n \in 1..MaxConnections, rebuild \in BOOLEAN : TickDecision(n, rebuild)
    \/ Adjust \/ AdjustEnds \/ Rebuild
    \/ Finish \/ Pause \/ SegmentError \/ RangeRejected \/ AttemptRefused
    \/ SingleTakesOver \/ Crash

Spec == Init /\ [][Next]_vars

-----------------------------------------------------------------------------
RangeRecord == [id : Ids, start : 0..Total, end : 0..Total]
SegmentRecord == [id : Ids, start : 0..Total, end : 0..Total,
                  downloaded : Nat, live : BOOLEAN]

\* The state variables have their types.
TypeOK ==
    /\ phase \in {"idle", "driving", "adjusting", "rebuilding", "merging",
                  "single", "finished", "left"}
    /\ segments \in Seq(SegmentRecord)
    /\ active \in Seq(RangeRecord)
    /\ handles \subseteq Ids
    /\ parts \in [Ids -> Seq(0..Total - 1)]
    /\ output \in Seq(0..Total - 1)
    /\ saved \in Seq(0..Total)
    /\ keeps \in BOOLEAN /\ wants \in BOOLEAN
    /\ target \in 0..MaxConnections
    /\ decisions \in 0..MaxDecisions /\ runs \in 0..MaxRuns
    /\ adopted \in BOOLEAN /\ merged \in BOOLEAN

\* Types, and: whatever the planner, the engine's splits, merges and rebalances
\* and the rebuilds do, both the engine's segments and the ranges of the drive loop
\* have distinct ids and cover every byte of the file exactly once: the gate
\* before the merge (validate_segment_geometry) never refuses a transfer.
GeometryCovers ==
    /\ TypeOK
    /\ segments # <<>> =>
          /\ ValidGeometry(active)
          /\ ValidGeometry([k \in DOMAIN segments |->
                 [id |-> segments[k].id, start |-> segments[k].start,
                  end |-> segments[k].end - 1]])

\* The part of every current range holds the bytes of that range from its start
\* on, and no more than the range: the resume offset is the on-disk length, and
\* what a wider geometry left behind is cut.
PartsHoldTheirRange ==
    phase \notin {"adjusting", "rebuilding"} =>
        \A k \in DOMAIN active :
            LET p == parts[active[k].id]
            IN  /\ Len(p) <= PartSize(active[k])
                /\ \A i \in DOMAIN p : p[i] = active[k].start + i - 1

\* As long as no range was given the part file of another range, every part
\* holds its own range and the merged file is the remote file, byte for byte.
OwnPartsMergeWhole ==
    ~adopted => PartsHoldTheirRange /\ output \in {<<>>, Whole}

\* Splits and rebalances alone never give a range foreign bytes, because a new
\* segment has an id no part file carries: it takes a merge, whose freed id is
\* given out again while its part file is still there, or a second run.
AdoptionHasCause == adopted => merged \/ runs > 1

\* What the pause and resume test promises: the part files of an earlier run
\* are resumed into a byte-for-byte correct final output.
ResumedOutputIsWhole == output \in {<<>>, Whole}
=============================================================================

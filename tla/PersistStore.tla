---------------------------- MODULE PersistStore ----------------------------
(***************************************************************************)
(* How the daemon keeps its download list on disk, daemon/persist.rs: the   *)
(* dirty flag, the periodic loop, the immediate flush of save_now, the      *)
(* steps of save on downloads-state.json and its .tmp and .bak siblings,    *)
(* and what load finds after a process crash or a power loss.               *)
(* The list is abstracted to a version number that grows with every change. *)
(* Files are inodes reached through directory names, because savers write   *)
(* through open files while others rename the names.                        *)
(***************************************************************************)
EXTENDS Naturals, FiniteSets

CONSTANTS
  Loops,         \* the persistence loop, or {}: between two of its checks
  Workers,       \* threads that change the list and call mark_dirty
  Flushers,      \* the workers that may call save_now as well
  NoFile,        \* what a name without a file leads to
  Empty, Torn,   \* contents that do not parse: truncated, cut off or mixed
  Inodes,        \* enough of them that a new file always finds a free one
  PowerLoss,     \* power losses as well as process crashes
  SyncFails,     \* an fsync may fail, which save at most logs
  RenameFails,   \* a rename over an existing file may be refused (Windows)
  MaxVersion,    \* bound on the number of changes
  MaxFaults,     \* bound on the number of I/O errors
  MaxCrashes     \* bound on the number of crashes

Savers   == Loops \cup Flushers
Threads  == Loops \cup Workers
Names    == {"state", "tmp", "bak"}
Versions == 0 .. MaxVersion

ASSUME PersistAssumption ==
  /\ Flushers \subseteq Workers /\ Loops \cap Workers = {}
  /\ NoFile \notin Inodes /\ Empty \notin Versions /\ Torn \notin Versions
  /\ PowerLoss \in BOOLEAN /\ SyncFails \in BOOLEAN /\ RenameFails \in BOOLEAN
  /\ MaxVersion \in Nat /\ MaxFaults \in Nat /\ MaxCrashes \in Nat

VARIABLES
  mem,           \* version of the list in memory
  clock,         \* the newest version there has been
  dirty,         \* persist_dirty
  dir, ddir,     \* the directory: name to inode, as seen and on disk
  content,       \* inode to version, Empty or Torn
  synced,        \* the inodes whose content has reached the disk
  pc, sver, fd,  \* threads: next step, version to write, open file
  acked,         \* newest version whose save returned true
  unsynced,      \* history: an fsync failed
  overlapped,    \* history: a save began while another was under way
  faults, crashes

fsVars == <<dir, ddir, content, synced>>
faultVars == <<unsynced, faults>>
vars == <<mem, clock, dirty, fsVars, pc, sver, fd, acked, faultVars, overlapped, crashes>>

PC == {"idle", "mark", "build", "open", "write", "sync", "rename", "unbak",
       "stage", "install", "restore", "cleanup", "rmbak", "dirsync", "rearm"}

\* save is under way, with the version it has built.
Saving == {"open", "write", "sync", "rename", "unbak", "stage", "install",
           "restore", "cleanup", "rmbak", "dirsync"}

\* Every variable has its type: whatever load accepts is a version of the list, never
\* a truncated or mixed file.
TypeOK ==
  /\ mem \in Versions /\ clock \in Versions /\ acked \in Versions
  /\ dirty \in BOOLEAN /\ unsynced \in BOOLEAN
  /\ overlapped \in BOOLEAN
  /\ dir \in [Names -> Inodes \cup {NoFile}]
  /\ ddir \in [Names -> Inodes \cup {NoFile}]
  /\ content \in [Inodes -> Versions \cup {Empty, Torn}]
  /\ synced \in SUBSET Inodes
  /\ pc \in [Threads -> PC]
  /\ sver \in [Threads -> Versions]
  /\ fd \in [Threads -> Inodes \cup {NoFile}]
  /\ faults \in 0 .. MaxFaults /\ crashes \in 0 .. MaxCrashes

\* A first start: no file, an empty list.
Init ==
  /\ mem = 0 /\ clock = 0 /\ acked = 0 /\ dirty = FALSE /\ unsynced = FALSE
  /\ overlapped = FALSE
  /\ dir = [n \in Names |-> NoFile] /\ ddir = dir
  /\ content = [i \in Inodes |-> Empty] /\ synced = {}
  /\ pc = [t \in Threads |-> "idle"]
  /\ sver = [t \in Threads |-> 0] /\ fd = [t \in Threads |-> NoFile]
  /\ faults = 0 /\ crashes = 0

----------------------------------------------------------------------------
\* What load finds: the first of the three files that parses, or nothing.

Parses_Bug(d, cont, n) == d[n] # NoFile
Parses(d, cont, n) == d[n] # NoFile /\ cont[d[n]] \in Versions

load(d, cont) ==
  IF Parses(d, cont, "state") THEN cont[d["state"]]
  ELSE IF Parses(d, cont, "tmp") THEN cont[d["tmp"]]
  ELSE IF Parses(d, cont, "bak") THEN cont[d["bak"]]
  ELSE 0

----------------------------------------------------------------------------
\* Changes.

Goto(t, p) == pc' = [pc EXCEPT ![t] = p]

\* A worker changes the list (an insert under the task_snapshot lock) ...
change(w) ==
  /\ pc[w] = "idle" /\ clock < MaxVersion
  /\ clock' = clock + 1 /\ mem' = clock + 1
  /\ Goto(w, "mark")
  /\ UNCHANGED <<dirty, fsVars, sver, fd, acked, faultVars, overlapped, crashes>>

\* ... and then calls mark_dirty, and save_now where it must not wait for the
\* loop; save_now leaves the flag alone.
mark_dirty(w) ==
  /\ pc[w] = "mark"
  /\ dirty' = TRUE
  /\ Goto(w, "idle") \/ (w \in Flushers /\ Goto(w, "build"))
  /\ UNCHANGED <<mem, clock, fsVars, sver, fd, acked, faultVars, overlapped, crashes>>

----------------------------------------------------------------------------
\* save, one system call at a time.

\* The loop re-arms the flag of a save that failed, save_now only logs.
AfterFailure_Bug(s) == "idle"
AfterFailure(s) == IF s \in Loops THEN "rearm" ELSE "idle"

\* save returns; its locals and open file are gone.
Return(s, next) ==
  /\ Goto(s, next)
  /\ sver' = [sver EXCEPT ![s] = 0]
  /\ fd' = [fd EXCEPT ![s] = NoFile]

ReturnFalse(s) == Return(s, AfterFailure(s)) /\ UNCHANGED <<acked, overlapped>>

FaultCount == faults < MaxFaults /\ faults' = faults + 1
Fault == FaultCount /\ UNCHANGED unsynced
SyncFault == SyncFails /\ FaultCount /\ unsynced' = TRUE

Unlinked(n) == [dir EXCEPT ![n] = NoFile]
Remove(n) == dir' \in {Unlinked(n), dir}     \* whether it worked is ignored
Renamed(from, to) == [dir EXCEPT ![to] = dir[from], ![from] = NoFile]

\* The loop looks at the flag and takes it.
check_dirty(l) ==
  /\ pc[l] = "idle" /\ dirty
  /\ dirty' = FALSE
  /\ Goto(l, "build")
  /\ UNCHANGED <<mem, clock, fsVars, sver, fd, acked, faultVars, overlapped, crashes>>

\* build_snapshot under the locks.
build_snapshot(s) ==
  /\ pc[s] = "build"
  /\ sver' = [sver EXCEPT ![s] = mem]
  /\ Goto(s, "open")
  /\ overlapped' = (overlapped \/ \E t \in Savers : pc[t] \in Saving)
  /\ UNCHANGED <<mem, clock, dirty, fsVars, fd, acked, faultVars, crashes>>

\* The file system's choice: any inode that no name and no open file leads to.
Free(i) == /\ \A n \in Names : dir[n] # i /\ ddir[n] # i
           /\ \A t \in Threads : fd[t] # i
FreeInode == CHOOSE i \in Inodes : Free(i)

\* std::fs::write: create or truncate the temporary file ...
open_tmp(s) ==
  /\ pc[s] = "open"
  /\ \/ /\ dir["tmp"] = NoFile => \E i \in Inodes : Free(i)
        /\ \E i \in {IF dir["tmp"] = NoFile THEN FreeInode ELSE dir["tmp"]} :
              /\ dir' = [dir EXCEPT !["tmp"] = i]
              /\ content' = [content EXCEPT ![i] = Empty]
              /\ synced' = synced \ {i}
              /\ fd' = [fd EXCEPT ![s] = i]
        /\ Goto(s, "write")
        /\ UNCHANGED <<sver, acked, faultVars, overlapped>>
     \/ Fault /\ ReturnFalse(s) /\ UNCHANGED <<dir, content, synced>>
  /\ UNCHANGED <<mem, clock, dirty, ddir, crashes>>

\* ... and write the payload through the open file, wherever its name is by
\* now. Over the bytes of another saver the two payloads may mix.
write_tmp(s) ==
  /\ pc[s] = "write"
  /\ synced' = synced \ {fd[s]}
  /\ \/ /\ \/ content' = [content EXCEPT ![fd[s]] = sver[s]]
           \/ /\ content[fd[s]] \notin {Empty, sver[s]}
              /\ content' = [content EXCEPT ![fd[s]] = Torn]
        /\ fd' = [fd EXCEPT ![s] = NoFile]
        /\ Goto(s, "sync")
        /\ UNCHANGED <<sver, acked, faultVars, overlapped>>
     \/ /\ Fault /\ ReturnFalse(s)
        /\ content' = [content EXCEPT ![fd[s]] = Torn]
  /\ UNCHANGED <<mem, clock, dirty, dir, ddir, crashes>>

\* Open the temporary file again, by name, and fsync it; a failing fsync is only
\* logged, a failing open ends the save and removes the file.
sync_tmp_Bug(s) ==
  /\ pc[s] = "sync" /\ Goto(s, "rename")
  /\ UNCHANGED <<mem, clock, dirty, fsVars, sver, fd, acked, faultVars, overlapped,
                 crashes>>

sync_tmp(s) ==
  /\ pc[s] = "sync"
  /\ \/ /\ dir["tmp"] # NoFile
        /\ synced' = synced \cup {dir["tmp"]}
        /\ Goto(s, "rename")
        /\ UNCHANGED <<dir, sver, fd, acked, faultVars, overlapped>>
     \/ /\ dir["tmp"] # NoFile /\ SyncFault
        /\ Goto(s, "rename") /\ UNCHANGED <<dir, synced, sver, fd, acked, overlapped>>
     \/ /\ IF dir["tmp"] = NoFile THEN UNCHANGED faultVars ELSE Fault
        /\ Remove("tmp")
        /\ ReturnFalse(s) /\ UNCHANGED synced
  /\ UNCHANGED <<mem, clock, dirty, ddir, content, crashes>>

\* The rename into place. When it fails and there is a previous file, the
\* two-rename fallback follows.
rename_tmp(s) ==
  /\ pc[s] = "rename"
  /\ \/ /\ dir["tmp"] # NoFile
        /\ dir' = Renamed("tmp", "state")
        /\ Goto(s, "dirsync") /\ UNCHANGED <<sver, fd, acked, faultVars, overlapped>>
     \/ /\ dir["state"] # NoFile
        /\ dir["tmp"] # NoFile => RenameFails
        /\ Goto(s, "unbak")
        /\ UNCHANGED <<dir, sver, fd, acked, faultVars, overlapped>>
     \/ /\ dir["state"] = NoFile
        /\ IF dir["tmp"] = NoFile THEN UNCHANGED faultVars ELSE Fault
        /\ Remove("tmp")
        /\ ReturnFalse(s)
  /\ UNCHANGED <<mem, clock, dirty, ddir, content, synced, crashes>>

remove_bak(s) ==
  /\ pc[s] = "unbak"
  /\ Remove("bak")
  /\ Goto(s, "stage")
  /\ UNCHANGED <<mem, clock, dirty, ddir, content, synced, sver, fd, acked,
                 faultVars, overlapped, crashes>>

\* The previous file becomes the backup; if that fails the save ends.
stage_bak(s) ==
  /\ pc[s] = "stage"
  /\ \/ /\ dir["state"] # NoFile
        /\ dir' = Renamed("state", "bak")
        /\ Goto(s, "install") /\ UNCHANGED <<sver, fd, acked, faultVars, overlapped>>
     \/ /\ IF dir["state"] = NoFile THEN UNCHANGED faultVars ELSE Fault
        /\ Remove("tmp")
        /\ ReturnFalse(s)
  /\ UNCHANGED <<mem, clock, dirty, ddir, content, synced, crashes>>

install_tmp(s) ==
  /\ pc[s] = "install"
  /\ \/ /\ dir["tmp"] # NoFile
        /\ dir' = Renamed("tmp", "state")
        /\ Goto(s, "rmbak") /\ UNCHANGED faultVars
     \/ /\ IF dir["tmp"] = NoFile THEN UNCHANGED faultVars ELSE Fault
        /\ Goto(s, "restore") /\ UNCHANGED dir
  /\ UNCHANGED <<mem, clock, dirty, ddir, content, synced, sver, fd, acked,
                 overlapped, crashes>>

\* The new file could not be installed: the backup goes back, the temporary file
\* is removed and the save fails. If it cannot go back, .bak is all there is.
restore_bak(s) ==
  /\ pc[s] = "restore"
  /\ \/ /\ dir["bak"] # NoFile
        /\ dir' = Renamed("bak", "state") /\ UNCHANGED faultVars
     \/ /\ IF dir["bak"] = NoFile THEN UNCHANGED faultVars ELSE Fault
        /\ UNCHANGED dir
  /\ Goto(s, "cleanup")
  /\ UNCHANGED <<mem, clock, dirty, ddir, content, synced, sver, fd, acked,
                 overlapped, crashes>>

remove_tmp(s) ==
  /\ pc[s] = "cleanup"
  /\ Remove("tmp")
  /\ ReturnFalse(s)
  /\ UNCHANGED <<mem, clock, dirty, ddir, content, synced, faultVars, crashes>>

drop_bak(s) ==
  /\ pc[s] = "rmbak"
  /\ Remove("bak")
  /\ Goto(s, "dirsync")
  /\ UNCHANGED <<mem, clock, dirty, ddir, content, synced, sver, fd, acked,
                 faultVars, overlapped, crashes>>

\* The directory is synced, or cannot be, and save returns true.
sync_dir(s) ==
  /\ pc[s] = "dirsync"
  /\ \/ ddir' = dir /\ UNCHANGED faultVars
     \/ SyncFault /\ UNCHANGED ddir
  /\ acked' = IF sver[s] > acked THEN sver[s] ELSE acked
  /\ Return(s, "idle")
  /\ UNCHANGED <<mem, clock, dirty, dir, content, synced, overlapped, crashes>>

rearm(l) ==
  /\ pc[l] = "rearm"
  /\ dirty' = TRUE
  /\ Goto(l, "idle")
  /\ UNCHANGED <<mem, clock, fsVars, sver, fd, acked, faultVars, overlapped, crashes>>

----------------------------------------------------------------------------
\* The process dies and the daemon starts again from what load finds.
Restart(d, cont) ==
  /\ crashes < MaxCrashes /\ crashes' = crashes + 1
  /\ dir' = d /\ content' = cont
  /\ mem' = load(d, cont) /\ dirty' = FALSE
  /\ pc' = [t \in Threads |-> "idle"]
  /\ sver' = [t \in Threads |-> 0]
  /\ fd' = [t \in Threads |-> NoFile]
  /\ UNCHANGED <<clock, acked, faultVars, overlapped>>

crash == Restart(dir, content) /\ UNCHANGED <<ddir, synced>>

\* The system writes the directory to disk when it likes, not only when asked.
writeback ==
  /\ PowerLoss /\ ddir # dir
  /\ ddir' = dir
  /\ UNCHANGED <<mem, clock, dirty, dir, content, synced, pc, sver, fd, acked,
                 faultVars, overlapped, crashes>>

\* Power loss: names that were not written are as they were before, contents
\* that were not synced may be gone.
power_loss ==
  /\ PowerLoss
  /\ \E lost \in SUBSET (Inodes \ synced) :
        Restart(ddir, [i \in Inodes |-> IF i \in lost THEN Torn ELSE content[i]])
  /\ synced' = Inodes /\ UNCHANGED ddir

----------------------------------------------------------------------------
SaveStep(s) ==
  \/ build_snapshot(s) \/ open_tmp(s) \/ write_tmp(s) \/ sync_tmp(s)
  \/ rename_tmp(s) \/ remove_bak(s) \/ stage_bak(s) \/ install_tmp(s)
  \/ restore_bak(s) \/ remove_tmp(s) \/ drop_bak(s) \/ sync_dir(s)

Next ==
  \/ \E w \in Workers : change(w) \/ mark_dirty(w)
  \/ \E l \in Loops : check_dirty(l) \/ rearm(l)
  \/ \E s \in Savers : SaveStep(s)
  \/ crash \/ writeback \/ power_loss

Spec == Init /\ [][Next]_vars

\* The loop wakes up again and again, and a thread that is in a call gets on.
Fairness ==
  /\ \A w \in Workers : WF_vars(mark_dirty(w))
  /\ \A l \in Loops : WF_vars(check_dirty(l) \/ rearm(l))
  /\ \A s \in Savers : WF_vars(SaveStep(s))

FairSpec == Spec /\ Fairness

----------------------------------------------------------------------------
\* Properties.

\* What a save that returned true has written is never lost: whenever the
\* process or the machine dies, load finds that version or a newer one, unless
\* an fsync failed, which save only logs, or two saves have overlapped, the
\* loop's and a save_now or two of the latter, which share one .tmp file.
AckedSurvives == unsynced \/ overlapped \/ acked <= mem

\* A clean flag means that nothing is left to save: with no thread at work, what
\* load would find is what is in memory, unless two saves have overlapped.
CleanMeansSaved ==
  ~dirty /\ (\A t \in Threads : pc[t] = "idle") =>
    overlapped \/ load(dir, content) = mem

\* Every change reaches the disk: the list on disk is again and again the one in
\* memory, whatever errors and crashes there were, unless two saves have overlapped.
EverySaved == []<>(overlapped \/ load(dir, content) = mem)

\* Without that exception: what a save has returned true for is on disk. The code
\* does not keep it.
AcknowledgedIsKept == unsynced \/ acked <= mem

=============================================================================

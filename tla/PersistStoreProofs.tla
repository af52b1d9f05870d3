------------------------- MODULE PersistStoreProofs -------------------------
(***************************************************************************)
(* What save promises, for any number of changes, crashes, power losses and *)
(* I/O errors, and for any set of threads that save: the persistence loop   *)
(* and every caller of save_now. Where two saves overlap the code promises  *)
(* nothing, and AckedSurvives and CleanMeansSaved excuse it.                *)
(***************************************************************************)
EXTENDS PersistStore, TLAPS

----------------------------------------------------------------------------
(* The inductive invariant                                                  *)

\* The file holds a version as new as the last acknowledged one, on disk.
Solid(i) == i \in synced /\ content[i] \in Versions /\ acked <= content[i]

\* If the file parses at all, it is as new as the last acknowledged version.
Weak(i) == i # NoFile /\ content[i] \in Versions => acked <= content[i]

\* A directory from which load finds an acknowledged version, whatever was not
\* synced is lost: the state file is good if it is there, the backup is good
\* when it is not, and a temporary file that parses is no older.
Sound(d) ==
  /\ d["state"] # NoFile => Solid(d["state"])
  /\ Weak(d["tmp"])
  /\ d["state"] = NoFile => acked = 0 \/ Solid(d["bak"])

\* Nothing else leads to the temporary file, which the next save truncates.
Apart ==
  /\ dir["tmp"] # NoFile =>
       dir["tmp"] \notin {dir["state"], dir["bak"], ddir["state"], ddir["bak"]}
  /\ ddir["tmp"] # NoFile => ddir["tmp"] \notin {ddir["state"], ddir["bak"]}

\* At most one save is under way.
Alone == \A s, t \in Savers : pc[s] \in Saving /\ pc[t] \in Saving => s = t

\* What the only save has brought about by the step it is at.
ByNow(l) ==
  /\ pc[l] = "write" => /\ fd[l] = dir["tmp"] /\ dir["tmp"] # NoFile
                        /\ content[dir["tmp"]] = Empty
  /\ pc[l] \in {"sync", "rename", "unbak", "stage", "install"} =>
       dir["tmp"] # NoFile /\ content[dir["tmp"]] = sver[l]
  /\ pc[l] \in {"rename", "unbak", "stage", "install"} =>
       unsynced \/ dir["tmp"] \in synced
  /\ pc[l] \in {"unbak", "stage"} => dir["state"] # NoFile
  /\ pc[l] \in {"install", "restore"} => dir["state"] = NoFile
  /\ pc[l] \in {"install", "restore"} => unsynced \/ Solid(dir["bak"])
  /\ pc[l] \in {"rmbak", "dirsync"} =>
       /\ dir["state"] # NoFile /\ content[dir["state"]] = sver[l]
       /\ dir["tmp"] = NoFile
  /\ pc[l] \in Saving => unsynced \/ acked <= sver[l]

\* Versions are never ahead of the clock, nor a save ahead of the list.
Ordered ==
  /\ acked <= clock /\ mem <= clock
  /\ \A t \in Threads : sver[t] <= mem
  /\ \A i \in Inodes : content[i] \in Versions => content[i] <= clock

\* As long as no fsync has failed, both views of the directory are sound.
Durable == unsynced \/ (Sound(dir) /\ Sound(ddir) /\ acked <= mem)

\* As long as no two saves have overlapped.
SaveInv == Ordered /\ Apart /\ Durable /\ Alone /\ \A s \in Savers : ByNow(s)

\* The list in memory is in the state file, or in the backup that stands in for it.
Anchored ==
  \/ dir["state"] # NoFile /\ content[dir["state"]] = mem
  \/ dir["state"] = NoFile /\ dir["bak"] # NoFile /\ content[dir["bak"]] = mem

\* A clear flag, with no change about to set it and no loop about to build: the save
\* under way has built what is in memory, and when the loops sleep that is what load
\* would find; a save_now under way or about to begin cannot take it away.
CleanInv ==
  ~dirty /\ (\A w \in Workers : pc[w] # "mark") /\ (\A l \in Loops : pc[l] # "build") =>
    /\ \A s \in Savers : pc[s] \in Saving => sver[s] = mem
    /\ (\A l \in Loops : pc[l] = "idle") =>
         /\ load(dir, content) = mem
         /\ (\E f \in Flushers : pc[f] = "build" \/ pc[f] \in Saving) => Anchored

----------------------------------------------------------------------------
(* Types                                                                    *)

\* FreeInode is a free inode when there is one.
LEMMA FreeInodeIsFree ==
  ASSUME \E i \in Inodes : Free(i)
  PROVE  FreeInode \in Inodes /\ Free(FreeInode)
  BY DEF FreeInode

\* load returns a version: the bytes of a file that does not parse never get into memory.
LEMMA LoadTyped ==
  ASSUME NEW d \in [Names -> Inodes \cup {NoFile}],
         NEW cont \in [Inodes -> Versions \cup {Empty, Torn}]
  PROVE  load(d, cont) \in Versions
  BY PersistAssumption DEF load, Parses, Versions

\* What the steps of a save may do to the directory.
LEMMA DirectoryTyped ==
  ASSUME TypeOK, NEW from \in Names, NEW to \in Names
  PROVE  /\ Renamed(from, to) \in [Names -> Inodes \cup {NoFile}]
         /\ Unlinked(to) \in [Names -> Inodes \cup {NoFile}]
  BY DEF TypeOK, Renamed, Unlinked

LEMMA ReturnTyped ==
  ASSUME TypeOK, NEW s \in Savers, NEW next \in PC, Return(s, next)
  PROVE  /\ pc' \in [Threads -> PC]
         /\ sver' \in [Threads -> Versions]
         /\ fd' \in [Threads -> Inodes \cup {NoFile}]
  BY PersistAssumption DEF TypeOK, Return, Goto, Versions, Savers, Threads

LEMMA RestartTyped ==
  ASSUME TypeOK,
         NEW d \in [Names -> Inodes \cup {NoFile}],
         NEW cont \in [Inodes -> Versions \cup {Empty, Torn}],
         Restart(d, cont), UNCHANGED ddir, synced' \in SUBSET Inodes
  PROVE  TypeOK'
<1>1. mem' \in Versions
  BY LoadTyped DEF Restart
<1>2. /\ pc' \in [Threads -> PC]
      /\ sver' \in [Threads -> Versions]
      /\ fd' \in [Threads -> Inodes \cup {NoFile}]
  BY PersistAssumption DEF Restart, PC, Versions
<1>3. crashes' \in 0 .. MaxCrashes
  BY PersistAssumption DEF Restart, TypeOK
<1> QED
  BY <1>1, <1>2, <1>3 DEF Restart, TypeOK, faultVars

LEMMA FaultTyped ==
  ASSUME TypeOK, Fault \/ SyncFault \/ UNCHANGED faultVars
  PROVE  unsynced' \in BOOLEAN /\ faults' \in 0 .. MaxFaults
<1>1. unsynced' \in BOOLEAN
  BY Zenon DEF TypeOK, Fault, SyncFault, faultVars
<1>2. faults' \in 0 .. MaxFaults
  BY PersistAssumption DEF TypeOK, Fault, SyncFault, FaultCount, faultVars
<1> QED
  BY <1>1, <1>2

\* Every step of a save keeps the types.
LEMMA SaveTyped ==
  ASSUME TypeOK, NEW s \in Savers, SaveStep(s)
  PROVE  TypeOK'
<1> USE PersistAssumption DEF fsVars, faultVars, Savers, Threads, Names
<1>0. /\ s \in Threads /\ AfterFailure(s) \in PC
      /\ Unlinked("tmp") \in [Names -> Inodes \cup {NoFile}]
      /\ Unlinked("bak") \in [Names -> Inodes \cup {NoFile}]
      /\ "idle" \in PC
  BY DirectoryTyped DEF AfterFailure, PC
<1>1. CASE build_snapshot(s)
  BY <1>0, <1>1 DEF build_snapshot, TypeOK, Goto, PC
<1>2. CASE open_tmp(s)
  <2>1. (IF dir["tmp"] = NoFile THEN FreeInode ELSE dir["tmp"]) \in Inodes
          \/ ReturnFalse(s)
    BY <1>2, FreeInodeIsFree DEF open_tmp, TypeOK
  <2> QED
    BY <1>0, <1>2, <2>1, ReturnTyped, FaultTyped
       DEF open_tmp, ReturnFalse, TypeOK, Goto, PC
<1>3. CASE write_tmp(s)
  BY <1>0, <1>3, ReturnTyped, FaultTyped DEF write_tmp, ReturnFalse, TypeOK, Goto, PC
<1>4. CASE sync_tmp(s)
  BY <1>0, <1>4, ReturnTyped, FaultTyped
     DEF sync_tmp, ReturnFalse, Remove, TypeOK, Goto, PC
<1>5. CASE rename_tmp(s)
  BY <1>0, <1>5, ReturnTyped, FaultTyped, DirectoryTyped
     DEF rename_tmp, ReturnFalse, Remove, TypeOK, Goto, PC
<1>6. CASE remove_bak(s) \/ drop_bak(s)
  BY <1>0, <1>6 DEF remove_bak, drop_bak, Remove, TypeOK, Goto, PC
<1>7. CASE stage_bak(s)
  BY <1>0, <1>7, ReturnTyped, FaultTyped, DirectoryTyped
     DEF stage_bak, ReturnFalse, Remove, TypeOK, Goto, PC
<1>8. CASE install_tmp(s) \/ restore_bak(s)
  BY <1>0, <1>8, FaultTyped, DirectoryTyped DEF install_tmp, restore_bak, TypeOK, Goto, PC
<1>9. CASE remove_tmp(s)
  BY <1>0, <1>9, ReturnTyped DEF remove_tmp, ReturnFalse, Remove, TypeOK
<1>10. CASE sync_dir(s)
  BY <1>0, <1>10, ReturnTyped, FaultTyped DEF sync_dir, TypeOK
<1> QED
  BY <1>1, <1>2, <1>3, <1>4, <1>5, <1>6, <1>7, <1>8, <1>9, <1>10 DEF SaveStep

\* Whatever fails and whenever the process or the machine dies, what load
\* accepts and a save writes is a version of the list, never a truncated or
\* mixed file, for any number of savers.
THEOREM PersistTypeCorrect == Spec => []TypeOK
<1> USE PersistAssumption DEF fsVars, faultVars
<1>1. Init => TypeOK
  <2> SUFFICES ASSUME Init PROVE TypeOK
    OBVIOUS
  <2>1. /\ mem \in Versions /\ clock \in Versions /\ acked \in Versions
        /\ faults \in 0 .. MaxFaults /\ crashes \in 0 .. MaxCrashes
    BY DEF Init, Versions
  <2>2. /\ dir \in [Names -> Inodes \cup {NoFile}]
        /\ ddir \in [Names -> Inodes \cup {NoFile}]
        /\ content \in [Inodes -> Versions \cup {Empty, Torn}]
        /\ synced \in SUBSET Inodes
    BY DEF Init
  <2>3. /\ pc \in [Threads -> PC]
        /\ sver \in [Threads -> Versions]
        /\ fd \in [Threads -> Inodes \cup {NoFile}]
    BY DEF Init, PC, Versions
  <2> QED
    BY <2>1, <2>2, <2>3 DEF Init, TypeOK
<1>2. TypeOK /\ [Next]_vars => TypeOK'
  <2> SUFFICES ASSUME TypeOK, [Next]_vars
               PROVE  TypeOK'
    OBVIOUS
  <2>1. CASE \E t \in Workers : change(t) \/ mark_dirty(t)
    <3> PICK t \in Workers : change(t) \/ mark_dirty(t)
      BY <2>1
    <3>1. CASE change(t)
      BY <3>1 DEF change, TypeOK, Goto, PC, Versions, Threads
    <3>2. CASE mark_dirty(t)
      BY <3>2 DEF mark_dirty, TypeOK, Goto, PC, Threads
    <3> QED
      BY <3>1, <3>2
  <2>2. CASE \E l \in Loops : check_dirty(l) \/ rearm(l)
    BY <2>2 DEF check_dirty, rearm, TypeOK, Goto, PC, Threads
  <2>3. CASE \E s \in Savers : SaveStep(s)
    BY <2>3, SaveTyped
  <2>4. CASE crash
    BY <2>4, RestartTyped DEF crash, TypeOK
  <2>5. CASE writeback
    BY <2>5 DEF writeback, TypeOK
  <2>6. CASE power_loss
    <3> PICK lost \in SUBSET (Inodes \ synced) :
          Restart(ddir, [i \in Inodes |-> IF i \in lost THEN Torn ELSE content[i]])
      BY <2>6 DEF power_loss
    <3>1. [i \in Inodes |-> IF i \in lost THEN Torn ELSE content[i]]
            \in [Inodes -> Versions \cup {Empty, Torn}]
      BY DEF TypeOK
    <3> QED
      BY <2>6, <3>1, RestartTyped DEF power_loss, TypeOK
  <2>7. CASE UNCHANGED vars
    BY <2>7 DEF vars, TypeOK
  <2> QED
    BY <2>1, <2>2, <2>3, <2>4, <2>5, <2>6, <2>7 DEF Next
<1> QED
  BY <1>1, <1>2, PTL DEF Spec

----------------------------------------------------------------------------
(* Durability                                                               *)

\* What holds of the inodes and numbers in every typed state.
LEMMA Numbers ==
  ASSUME TypeOK
  PROVE  /\ mem \in Nat /\ clock \in Nat /\ acked \in Nat
         /\ \A t \in Threads : sver[t] \in Nat
         /\ \A i \in Inodes : content[i] \in Versions => content[i] \in Nat
         /\ \A n \in Names : dir[n] # NoFile => dir[n] \in Inodes
         /\ \A n \in Names : ddir[n] # NoFile => ddir[n] \in Inodes
         /\ Empty \notin Versions /\ Torn \notin Versions /\ NoFile \notin synced
         /\ Names = {"state", "tmp", "bak"}
  BY PersistAssumption DEF TypeOK, Versions, Names

\* From a sound directory load finds what was acknowledged, even when files that
\* were not synced are lost.
LEMMA LoadSound ==
  ASSUME TypeOK, NEW d \in [Names -> Inodes \cup {NoFile}], Sound(d),
         NEW cont \in [Inodes -> Versions \cup {Empty, Torn}],
         \A i \in Inodes : cont[i] = content[i] \/ (i \notin synced /\ cont[i] = Torn)
  PROVE  acked <= load(d, cont)
  BY Numbers DEF Sound, Solid, Weak, load, Parses

\* A thread changes the list or the flag, or the system writes the directory
\* to disk: no file changes.
LEMMA FilesKeptSave ==
  ASSUME TypeOK, TypeOK', SaveInv,
         UNCHANGED <<dir, content, synced, fd, acked, unsynced>>,
         ddir' \in {ddir, dir}, mem <= mem', mem' <= clock', clock <= clock',
         \A t \in Threads : sver'[t] = sver[t],
         \A s \in Savers : pc'[s] = pc[s] \/ pc'[s] \in {"build", "idle", "mark"}
  PROVE  SaveInv'
<1> USE Numbers DEF SaveInv, Threads
<1>1. Ordered'
  BY DEF Ordered, TypeOK, Versions
<1>2. Apart'
  BY DEF Apart
<1>3. Durable'
  BY DEF Durable, Sound, Solid, Weak, TypeOK, Versions
<1>4. ASSUME NEW s \in Savers PROVE ByNow(s)'
  <2>1. s \in Threads
    BY PersistAssumption DEF Savers
  <2> QED
    BY <2>1 DEF ByNow, Saving, Solid
<1>5. Alone'
  BY DEF Alone, Saving
<1> QED
  BY <1>1, <1>2, <1>3, <1>4, <1>5

\* The daemon starts again, from a sound directory if no fsync has failed.
LEMMA RestartKeepsSave ==
  ASSUME TypeOK, TypeOK', SaveInv,
         NEW d \in [Names -> Inodes \cup {NoFile}], d = dir \/ d = ddir,
         NEW cont \in [Inodes -> Versions \cup {Empty, Torn}],
         \A i \in Inodes : cont[i] = content[i] \/ (i \notin synced /\ cont[i] = Torn),
         Restart(d, cont), UNCHANGED ddir, synced \subseteq synced'
  PROVE  SaveInv'
<1> USE Numbers DEF SaveInv
<1>1. unsynced \/ acked <= mem'
  BY LoadSound DEF Durable, Restart
<1>2. mem' <= clock
  BY DEF Ordered, Restart, load, Parses
<1>3. Ordered'
  BY <1>2 DEF Ordered, Restart, TypeOK, Versions
<1>4. Apart'
  BY DEF Apart, Restart
<1>5. Durable'
  BY <1>1 DEF Durable, Sound, Solid, Weak, Restart, faultVars
<1>6. ASSUME NEW s \in Savers PROVE pc'[s] = "idle"
  BY PersistAssumption DEF Restart, Threads, Savers
<1>7. Alone' /\ \A s \in Savers : ByNow(s)'
  BY <1>6 DEF ByNow, Saving, Alone
<1> QED
  BY <1>3, <1>4, <1>5, <1>7

\* A step of a save is a step of the only one.
LEMMA OnlyOneSaves ==
  ASSUME TypeOK, SaveInv, NEW l \in Savers, SaveStep(l), ~overlapped'
  PROVE  /\ ~overlapped /\ l \in Threads
         /\ \A s \in Savers : s # l => pc[s] \notin Saving /\ pc'[s] = pc[s]
<1> USE DEF Savers, Threads, Saving
<1>1. l \in Threads
  BY PersistAssumption
<1>2. ~overlapped /\ \A s \in Threads : s # l => pc'[s] = pc[s]
  BY <1>1 DEF SaveStep, build_snapshot, open_tmp, write_tmp, sync_tmp, rename_tmp, remove_bak,
     stage_bak, install_tmp, restore_bak, remove_tmp, drop_bak, sync_dir,
     ReturnFalse, Return, Goto, TypeOK
<1>3. CASE build_snapshot(l)
  BY <1>1, <1>2, <1>3, PersistAssumption DEF build_snapshot
<1>4. CASE ~build_snapshot(l)
  <2>1. pc[l] \in Saving
    BY <1>4 DEF SaveStep, open_tmp, write_tmp, sync_tmp, rename_tmp, remove_bak,
       stage_bak, install_tmp, restore_bak, remove_tmp, drop_bak, sync_dir
  <2> QED
    BY <1>1, <1>2, <2>1, PersistAssumption DEF SaveInv, Alone
<1> QED
  BY <1>3, <1>4

\* So what has to be shown of such a step is about this save alone.
LEMMA OthersAreQuiet ==
  ASSUME TypeOK, SaveInv, NEW l \in Savers, SaveStep(l), ~overlapped',
         Ordered', Apart', Durable', ByNow(l)'
  PROVE  SaveInv'
<1>1. \A s \in Savers : s # l => pc'[s] \notin Saving
  BY OnlyOneSaves
<1>2. \A s \in Savers : s # l => ByNow(s)'
  BY <1>1 DEF ByNow, Saving
<1>3. Alone'
  BY <1>1 DEF Alone
<1> QED
  BY <1>2, <1>3 DEF SaveInv

\* A save builds a version, and opens and writes the temporary file: files that
\* load may need are out of its reach.
LEMMA WritingKeepsSave ==
  ASSUME TypeOK, TypeOK', SaveInv, ~overlapped', NEW l \in Savers,
         build_snapshot(l) \/ open_tmp(l) \/ write_tmp(l)
  PROVE  SaveInv'
<1>0. SUFFICES Ordered' /\ Apart' /\ Durable' /\ ByNow(l)'
  BY OthersAreQuiet DEF SaveStep
<1> USE PersistAssumption, Numbers DEF SaveInv, fsVars, faultVars, Threads, Savers
<1>1. CASE build_snapshot(l)
  <2> USE <1>1 DEF build_snapshot
  <2>1. Ordered'
    BY DEF Ordered, TypeOK
  <2>2. Apart' /\ Durable'
    BY DEF Apart, Durable, Sound, Solid, Weak
  <2>3. ByNow(l)'
    BY DEF ByNow, Saving, Durable, Goto, TypeOK
  <2> QED
    BY <2>1, <2>2, <2>3
<1>2. CASE open_tmp(l)
  <2>1. CASE ReturnFalse(l) /\ Fault /\ UNCHANGED <<dir, content, synced>>
    <3> USE <1>2, <2>1 DEF open_tmp, ReturnFalse, Return, Fault
    <3>1. Ordered'
      BY DEF Ordered, TypeOK
    <3>2. Apart' /\ Durable'
      BY DEF Apart, Durable, Sound, Solid, Weak
    <3>3. ByNow(l)'
      BY DEF ByNow, Saving, Goto, TypeOK, AfterFailure
    <3> QED
      BY <3>1, <3>2, <3>3
  <2>2. CASE ~(ReturnFalse(l) /\ Fault /\ UNCHANGED <<dir, content, synced>>)
    <3> DEFINE i == IF dir["tmp"] = NoFile THEN FreeInode ELSE dir["tmp"]
    <3>1. /\ dir' = [dir EXCEPT !["tmp"] = i]
          /\ content' = [content EXCEPT ![i] = Empty]
          /\ synced' = synced \ {i}
          /\ fd' = [fd EXCEPT ![l] = i]
          /\ Goto(l, "write")
          /\ UNCHANGED <<mem, clock, ddir, sver, acked, unsynced>>
      BY <1>2, <2>2 DEF open_tmp
    <3>2. /\ i \in Inodes /\ i # NoFile
          /\ i \notin {dir["state"], dir["bak"], ddir["state"], ddir["bak"]}
      BY <1>2, <2>2, FreeInodeIsFree DEF open_tmp, Free, Apart
    <3> HIDE DEF i
    <3>3. Ordered'
      BY <3>1, <3>2 DEF Ordered, TypeOK
    <3>4. Apart'
      BY <3>1, <3>2 DEF Apart, TypeOK
    <3>5. Durable'
      BY <3>1, <3>2 DEF Durable, Sound, Solid, Weak, TypeOK
    <3>6. ByNow(l)'
      BY <1>2, <3>1, <3>2 DEF open_tmp, ByNow, Saving, Goto, TypeOK
    <3> QED
      BY <3>3, <3>4, <3>5, <3>6
  <2> QED
    BY <2>1, <2>2
<1>3. CASE write_tmp(l)
  <2>0. pc[l] = "write"
    BY <1>3 DEF write_tmp
  <2>1. /\ fd[l] = dir["tmp"] /\ fd[l] \in Inodes /\ content[fd[l]] = Empty
        /\ fd[l] \notin {dir["state"], dir["bak"], ddir["state"], ddir["bak"]}
        /\ unsynced \/ acked <= sver[l]
        /\ sver[l] \in Versions /\ sver[l] <= clock
    BY <2>0 DEF ByNow, Apart, Ordered, Saving, TypeOK
  <2>2. /\ content' \in { [content EXCEPT ![fd[l]] = sver[l]], [content EXCEPT ![fd[l]] = Torn] }
        /\ synced' = synced \ {fd[l]}
        /\ UNCHANGED <<mem, clock, dir, ddir, acked, unsynced>>
        /\ sver' \in {sver, [sver EXCEPT ![l] = 0]}
    BY <1>3, <2>1 DEF write_tmp, ReturnFalse, Return, Fault
  <2>3. Ordered'
    BY <2>1, <2>2 DEF Ordered, TypeOK
  <2>4. Apart'
    BY <2>2 DEF Apart
  <2>5. Durable'
    BY <2>1, <2>2 DEF Durable, Sound, Solid, Weak, TypeOK
  <2>6. ByNow(l)'
    BY <1>3, <2>1
       DEF write_tmp, ReturnFalse, Return, AfterFailure, Goto, ByNow, Saving, TypeOK
  <2> QED
    BY <2>3, <2>4, <2>5, <2>6
<1> QED
  BY <1>1, <1>2, <1>3

\* A save syncs the temporary file, moves files or gives up: no content changes,
\* and the names are moved so that load always finds a good file.
LEMMA MovingKeepsSave ==
  ASSUME TypeOK, TypeOK', SaveInv, ~overlapped', NEW l \in Savers,
         \/ sync_tmp(l) \/ rename_tmp(l) \/ remove_bak(l) \/ stage_bak(l)
         \/ install_tmp(l) \/ restore_bak(l) \/ remove_tmp(l) \/ drop_bak(l)
  PROVE  SaveInv'
<1>0. SUFFICES Ordered' /\ Apart' /\ Durable' /\ ByNow(l)'
  BY OthersAreQuiet DEF SaveStep
<1> USE PersistAssumption, Numbers DEF SaveInv, fsVars, faultVars, Threads, Savers
<1>1. /\ UNCHANGED <<mem, clock, ddir, content, acked>>
      /\ synced \subseteq synced'
      /\ sver' \in {sver, [sver EXCEPT ![l] = 0]}
      /\ unsynced => unsynced'
  BY DEF sync_tmp, rename_tmp, remove_bak, stage_bak, install_tmp, restore_bak,
     remove_tmp, drop_bak, ReturnFalse, Return, Fault, SyncFault
<1>2. Ordered'
  BY <1>1 DEF Ordered, TypeOK
<1>3. dir' \in {dir, Unlinked("tmp"), Unlinked("bak"), Renamed("tmp", "state"),
                Renamed("state", "bak"), Renamed("bak", "state")}
  BY DEF sync_tmp, rename_tmp, remove_bak, stage_bak, install_tmp, restore_bak,
     remove_tmp, drop_bak, Remove
<1>4. Apart'
  BY <1>1, <1>3 DEF Apart, Unlinked, Renamed, TypeOK
<1>5. Durable /\ ~unsynced' => Sound(ddir)'
  BY <1>1 DEF Durable, Sound, Solid, Weak
<1>6. CASE sync_tmp(l)
  <2>1. unsynced' \/ Sound(dir)'
    BY <1>1, <1>6 DEF sync_tmp, Remove, Unlinked, Durable, Sound, Solid, Weak, TypeOK
  <2>2. ByNow(l)'
    BY <1>1, <1>6 DEF sync_tmp, ReturnFalse, Return, AfterFailure, Fault, SyncFault, Goto,
       ByNow,
       Saving, TypeOK
  <2> QED
    BY <1>2, <1>4, <1>1, <1>5, <2>1, <2>2 DEF Durable
<1>7. CASE rename_tmp(l)
  <2>1. unsynced' \/ Sound(dir)'
    BY <1>1, <1>7 DEF rename_tmp, Remove, Unlinked, Renamed, Durable, Sound, Solid, Weak,
       TypeOK,
       ByNow, Saving
  <2>2. ByNow(l)'
    BY <1>1, <1>7 DEF rename_tmp, ReturnFalse, Return, AfterFailure, Fault, Goto, ByNow,
       Renamed,
       Saving, TypeOK
  <2> QED
    BY <1>2, <1>4, <1>1, <1>5, <2>1, <2>2 DEF Durable
<1>8. CASE remove_bak(l)
  <2>1. unsynced' \/ Sound(dir)'
    BY <1>1, <1>8 DEF remove_bak, Remove, Unlinked, Durable, Sound, Solid, Weak, TypeOK, ByNow
  <2>2. ByNow(l)'
    BY <1>1, <1>8 DEF remove_bak, Remove, Unlinked, Goto, ByNow, Saving, TypeOK
  <2> QED
    BY <1>2, <1>4, <1>1, <1>5, <2>1, <2>2 DEF Durable
<1>9. CASE stage_bak(l)
  <2>1. unsynced' \/ Sound(dir)'
    BY <1>1, <1>9 DEF stage_bak, Remove, Unlinked, Renamed, Durable, Sound, Solid, Weak,
       TypeOK
  <2>2. ByNow(l)'
    BY <1>1, <1>9 DEF stage_bak, ReturnFalse, Return, AfterFailure, Fault, Goto, ByNow,
       Renamed,
       Saving, TypeOK, Durable, Sound, Solid
  <2> QED
    BY <1>2, <1>4, <1>1, <1>5, <2>1, <2>2 DEF Durable
<1>10. CASE install_tmp(l)
  <2>1. unsynced' \/ Sound(dir)'
    BY <1>1, <1>10 DEF install_tmp, Renamed, Durable, Sound, Solid, Weak, TypeOK, ByNow,
       Saving
  <2>2. ByNow(l)'
    BY <1>1, <1>10 DEF install_tmp, Fault, Goto, ByNow, Renamed, Saving, TypeOK, Solid
  <2> QED
    BY <1>2, <1>4, <1>1, <1>5, <2>1, <2>2 DEF Durable
<1>11. CASE restore_bak(l)
  <2>1. unsynced' \/ Sound(dir)'
    BY <1>1, <1>11 DEF restore_bak, Renamed, Durable, Sound, Solid, Weak, TypeOK, ByNow
  <2>2. ByNow(l)'
    BY <1>1, <1>11 DEF restore_bak, Fault, Goto, ByNow, Saving, TypeOK
  <2> QED
    BY <1>2, <1>4, <1>1, <1>5, <2>1, <2>2 DEF Durable
<1>12. CASE remove_tmp(l)
  <2>1. unsynced' \/ Sound(dir)'
    BY <1>1, <1>12 DEF remove_tmp, Remove, Unlinked, Durable, Sound, Solid, Weak, TypeOK
  <2>2. ByNow(l)'
    BY <1>1, <1>12 DEF remove_tmp, ReturnFalse, Return, AfterFailure, Goto, ByNow, Saving,
       TypeOK
  <2> QED
    BY <1>2, <1>4, <1>1, <1>5, <2>1, <2>2 DEF Durable
<1>13. CASE drop_bak(l)
  <2>1. unsynced' \/ Sound(dir)'
    BY <1>1, <1>13 DEF drop_bak, Remove, Unlinked, Durable, Sound, Solid, Weak, TypeOK, ByNow
  <2>2. ByNow(l)'
    BY <1>1, <1>13 DEF drop_bak, Remove, Unlinked, Goto, ByNow, Saving, TypeOK
  <2> QED
    BY <1>2, <1>4, <1>1, <1>5, <2>1, <2>2 DEF Durable
<1> QED
  BY <1>6, <1>7, <1>8, <1>9, <1>10, <1>11, <1>12, <1>13

\* The directory is synced and the version acknowledged.
LEMMA AckKeepsSave ==
  ASSUME TypeOK, TypeOK', SaveInv, ~overlapped', NEW l \in Savers, sync_dir(l)
  PROVE  SaveInv'
<1>0. SUFFICES Ordered' /\ Apart' /\ Durable' /\ ByNow(l)'
  BY OthersAreQuiet DEF SaveStep
<1> USE PersistAssumption, Numbers DEF SaveInv, fsVars, faultVars, Threads, Savers
<1>1. /\ UNCHANGED <<mem, clock, dir, content, synced>>
      /\ acked' = (IF sver[l] > acked THEN sver[l] ELSE acked)
      /\ sver' = [sver EXCEPT ![l] = 0]
      /\ (UNCHANGED unsynced /\ ddir' = dir) \/ (unsynced' /\ ddir' = ddir)
      /\ pc[l] = "dirsync" /\ pc'[l] = "idle"
  BY DEF sync_dir, Return, Goto, SyncFault, TypeOK
<1>2. Ordered'
  BY <1>1 DEF Ordered, TypeOK
<1>3. Apart'
  BY <1>1 DEF Apart
<1>4. unsynced \/ (acked' = sver[l] /\ content[dir["state"]] = sver[l])
  BY <1>1 DEF ByNow, Saving, TypeOK
<1>5. dir["state"] # NoFile /\ dir["tmp"] = NoFile /\ sver[l] <= mem
  BY <1>1 DEF ByNow, Ordered
<1>6. Durable'
  BY <1>1, <1>4, <1>5 DEF Durable, Sound, Solid, Weak, TypeOK
<1>7. ByNow(l)'
  BY <1>1 DEF ByNow, Saving
<1> QED
  BY <1>2, <1>3, <1>6, <1>7
\* That two saves have overlapped is never forgotten.
LEMMA OverlapStays ==
  ASSUME [Next]_vars, overlapped PROVE overlapped'
  BY DEF Next, SaveStep, change, mark_dirty, check_dirty, rearm, build_snapshot, open_tmp,
     write_tmp, sync_tmp, rename_tmp, remove_bak, stage_bak, install_tmp, restore_bak,
     remove_tmp, drop_bak, sync_dir, ReturnFalse, crash, writeback, power_loss, Restart, vars

\* SaveInv is inductive.
LEMMA SaveStepKeepsSave ==
  ASSUME TypeOK, TypeOK', SaveInv, ~overlapped', [Next]_vars
  PROVE  SaveInv'
<1> USE PersistAssumption, Numbers DEF fsVars, faultVars, Threads
<1>1. CASE \E t \in Workers : change(t) \/ mark_dirty(t)
  <2> PICK t \in Workers : change(t) \/ mark_dirty(t)
    BY <1>1
  <2>1. \A s \in Savers : pc'[s] = pc[s] \/ pc'[s] \in {"build", "idle", "mark"}
    BY DEF change, mark_dirty, Goto, TypeOK, Savers
  <2>2. /\ UNCHANGED <<dir, ddir, content, synced, fd, sver, acked, unsynced>>
        /\ mem <= mem' /\ mem' <= clock' /\ clock <= clock'
    BY DEF change, mark_dirty, SaveInv, Ordered
  <2> QED
    BY <2>1, <2>2, FilesKeptSave
<1>2. CASE \E l \in Loops : check_dirty(l) \/ rearm(l)
  <2> PICK l \in Loops : check_dirty(l) \/ rearm(l)
    BY <1>2
  <2>1. \A s \in Savers : pc'[s] = pc[s] \/ pc'[s] \in {"build", "idle", "mark"}
    BY DEF check_dirty, rearm, Goto, TypeOK, Savers
  <2>2. UNCHANGED <<mem, clock, dir, ddir, content, synced, fd, sver, acked, unsynced>>
    BY DEF check_dirty, rearm
  <2> QED
    BY <2>1, <2>2, FilesKeptSave DEF SaveInv, Ordered
<1>3. CASE \E s \in Savers : SaveStep(s)
  BY <1>3, WritingKeepsSave, MovingKeepsSave, AckKeepsSave DEF SaveStep
<1>4. CASE crash
  BY <1>4, RestartKeepsSave DEF crash, TypeOK
<1>5. CASE writeback
  BY <1>5, FilesKeptSave DEF writeback, SaveInv, Ordered
<1>6. CASE power_loss
  <2> PICK lost \in SUBSET (Inodes \ synced) :
        Restart(ddir, [i \in Inodes |-> IF i \in lost THEN Torn ELSE content[i]])
    BY <1>6 DEF power_loss
  <2> DEFINE cont == [i \in Inodes |-> IF i \in lost THEN Torn ELSE content[i]]
  <2>1. /\ cont \in [Inodes -> Versions \cup {Empty, Torn}]
        /\ \A i \in Inodes : cont[i] = content[i] \/ (i \notin synced /\ cont[i] = Torn)
    BY DEF TypeOK
  <2> QED
    BY <1>6, <2>1, RestartKeepsSave DEF power_loss, TypeOK
<1>7. CASE UNCHANGED vars
  BY <1>7, FilesKeptSave DEF vars, SaveInv, Ordered
<1> QED
  BY <1>1, <1>2, <1>3, <1>4, <1>5, <1>6, <1>7 DEF Next

LEMMA SaveInvariant == Spec => [](overlapped \/ SaveInv)
<1>1. Init => SaveInv
  BY PersistAssumption
     DEF Init, SaveInv, Ordered, Apart, Durable, Sound, Weak, ByNow, Saving, Alone, Names,
         Threads, Savers
<1>2. TypeOK /\ TypeOK' /\ (overlapped \/ SaveInv) /\ [Next]_vars
        => (overlapped \/ SaveInv)'
  BY SaveStepKeepsSave, OverlapStays
<1> QED
  BY <1>1, <1>2, PersistTypeCorrect, PTL DEF Spec

\* A version for which save has returned true, the loop's save or one of save_now,
\* is never lost: after any crash or power loss, at any point of the rename or of
\* the two-rename fallback and after any errors, load finds it or a newer one,
\* unless an fsync failed, which save only logs, or two saves have overlapped.
THEOREM AckedIsDurable == Spec => []AckedSurvives
<1>1. overlapped \/ SaveInv => AckedSurvives
  BY DEF SaveInv, Durable, AckedSurvives
<1> QED
  BY <1>1, SaveInvariant, PTL

----------------------------------------------------------------------------
(* The dirty flag                                                           *)

\* load returns the version of a state file that parses.
LEMMA LoadState ==
  ASSUME TypeOK, dir["state"] # NoFile, content[dir["state"]] \in Versions
  PROVE  load(dir, content) = content[dir["state"]]
  BY DEF load, Parses

\* While the list is anchored, a save_now that has built it keeps it within load's
\* reach at every step, whether it succeeds or gives up.
LEMMA FlushKeepsList ==
  ASSUME TypeOK, SaveInv, NEW f \in Savers, SaveStep(f), ~build_snapshot(f),
         sver[f] = mem, Anchored, load(dir, content) = mem
  PROVE  Anchored' /\ load(dir, content)' = mem
<1> USE PersistAssumption, Numbers DEF Anchored, load, Parses
<1>0. /\ ByNow(f) /\ Apart /\ mem \in Versions /\ mem' = mem
  BY DEF TypeOK, SaveInv, SaveStep, open_tmp, write_tmp, sync_tmp, rename_tmp, remove_bak,
     stage_bak, install_tmp, restore_bak, remove_tmp, drop_bak, sync_dir
<1>1. CASE open_tmp(f)
  <2>1. CASE UNCHANGED <<dir, content>>
    BY <1>0, <2>1
  <2>2. CASE ~UNCHANGED <<dir, content>>
    <3> DEFINE i == IF dir["tmp"] = NoFile THEN FreeInode ELSE dir["tmp"]
    <3>1. dir' = [dir EXCEPT !["tmp"] = i] /\ content' = [content EXCEPT ![i] = Empty]
      BY <1>1, <2>2 DEF open_tmp
    <3>2. /\ i \in Inodes /\ i # NoFile
          /\ i \notin {dir["state"], dir["bak"]}
      BY <1>0, <1>1, <2>2, FreeInodeIsFree DEF open_tmp, Free, Apart, TypeOK
    <3> HIDE DEF i
    <3> QED
      BY <1>0, <3>1, <3>2 DEF TypeOK
  <2> QED
    BY <2>1, <2>2
<1>2. CASE write_tmp(f)
  <2>1. /\ fd[f] = dir["tmp"] /\ fd[f] \in Inodes /\ dir' = dir
        /\ fd[f] \notin {dir["state"], dir["bak"]}
    BY <1>0, <1>2 DEF write_tmp, ByNow, Apart, TypeOK
  <2>2. content' \in {[content EXCEPT ![fd[f]] = mem], [content EXCEPT ![fd[f]] = Torn]}
    BY <1>2 DEF write_tmp
  <2> QED
    BY <1>0, <2>1, <2>2 DEF TypeOK
<1>3. CASE sync_tmp(f) \/ rename_tmp(f) \/ stage_bak(f) \/ install_tmp(f)
  <2>1. content' = content /\ content[dir["tmp"]] = mem /\ dir["tmp"] # NoFile
    BY <1>0, <1>3 DEF sync_tmp, rename_tmp, stage_bak, install_tmp, ByNow, fsVars
  <2>2. dir' \in {dir, Unlinked("tmp"), Renamed("tmp", "state")}
          \/ (dir["state"] # NoFile /\ dir' = Renamed("state", "bak"))
    BY <1>3 DEF sync_tmp, rename_tmp, stage_bak, install_tmp, Remove
  <2> QED
    BY <1>0, <2>1, <2>2 DEF Unlinked, Renamed, TypeOK
<1>4. CASE remove_bak(f) \/ drop_bak(f)
  <2>1. content' = content /\ dir' \in {dir, Unlinked("bak")} /\ dir["state"] # NoFile
    BY <1>0, <1>4 DEF remove_bak, drop_bak, ByNow, Remove
  <2> QED
    BY <1>0, <2>1 DEF Unlinked, TypeOK
<1>5. CASE restore_bak(f)
  <2>1. /\ content' = content /\ dir["state"] = NoFile
        /\ dir' = dir \/ dir' = Renamed("bak", "state")
    BY <1>0, <1>5 DEF restore_bak, ByNow
  <2> QED
    BY <1>0, <2>1 DEF Renamed, TypeOK
<1>6. CASE remove_tmp(f)
  BY <1>0, <1>6 DEF remove_tmp, Remove, Unlinked, TypeOK
<1>7. CASE sync_dir(f)
  BY <1>0, <1>7 DEF sync_dir
<1> QED
  BY <1>1, <1>2, <1>3, <1>4, <1>5, <1>6, <1>7 DEF SaveStep

\* A save that has returned true has put the list into the state file.
LEMMA AckAnchors ==
  ASSUME TypeOK, SaveInv, NEW s \in Savers, sync_dir(s), sver[s] = mem
  PROVE  Anchored' /\ load(dir, content)' = mem
<1>1. /\ pc[s] = "dirsync" /\ dir["state"] # NoFile /\ content[dir["state"]] = sver[s]
      /\ UNCHANGED <<dir, content, mem>> /\ mem \in Versions
  BY DEF sync_dir, SaveInv, ByNow, TypeOK
<1>2. load(dir, content) = mem
  BY <1>1, LoadState
<1> QED
  BY <1>1, <1>2 DEF Anchored, load, Parses

\* A save leaves the list and the flag alone; the loop's, if it fails, ends in a
\* step that sets the flag again.
LEMMA SaveStepFrame ==
  ASSUME TypeOK, NEW s \in Savers, SaveStep(s)
  PROVE  /\ UNCHANGED <<mem, dirty>>
         /\ \A t \in Threads : t # s => pc'[t] = pc[t] /\ sver'[t] = sver[t]
         /\ ~build_snapshot(s) =>
              /\ pc[s] \in Saving
              /\ pc'[s] \in Saving => sver'[s] = sver[s]
              /\ pc'[s] \notin {"build", "mark"}
              /\ s \in Loops => pc'[s] # "idle" \/ sync_dir(s)
<1> USE PersistAssumption DEF Savers, Threads
<1>1. UNCHANGED <<mem, dirty>>
  BY DEF SaveStep, build_snapshot, open_tmp, write_tmp, sync_tmp, rename_tmp, remove_bak,
     stage_bak, install_tmp, restore_bak, remove_tmp, drop_bak, sync_dir
<1>2. \A t \in Threads : t # s => pc'[t] = pc[t] /\ sver'[t] = sver[t]
  BY DEF SaveStep, build_snapshot, open_tmp, write_tmp, sync_tmp, rename_tmp, remove_bak,
     stage_bak, install_tmp, restore_bak, remove_tmp, drop_bak, sync_dir,
     ReturnFalse, Return, Goto, TypeOK
<1>3. CASE build_snapshot(s)
  BY <1>1, <1>2, <1>3
<1>4. CASE sync_dir(s)
  BY <1>1, <1>2, <1>4 DEF sync_dir, Return, Goto, TypeOK, Saving
<1>5. CASE ~build_snapshot(s) /\ ~sync_dir(s)
  <2>1. /\ pc[s] \in Saving
        /\ \/ pc'[s] \in Saving /\ sver'[s] = sver[s]
           \/ pc'[s] = AfterFailure(s)
    BY <1>5 DEF SaveStep, open_tmp, write_tmp, sync_tmp, rename_tmp, remove_bak,
       stage_bak, install_tmp, restore_bak, remove_tmp, drop_bak, ReturnFalse, Return,
       Goto, TypeOK, Saving
  <2> QED
    BY <1>1, <1>2, <1>5, <2>1 DEF AfterFailure, Saving
<1> QED
  BY <1>3, <1>4, <1>5

LEMMA CleanStep ==
  ASSUME TypeOK, TypeOK', SaveInv, CleanInv, ~overlapped', [Next]_vars
  PROVE  CleanInv'
<1> USE PersistAssumption DEF fsVars, faultVars, Threads, Savers
<1>1. CASE \E t \in Workers : change(t) \/ mark_dirty(t)
  BY <1>1 DEF CleanInv, change, mark_dirty, Goto, TypeOK
<1>2. CASE \E l \in Loops : check_dirty(l) \/ rearm(l)
  BY <1>2 DEF CleanInv, check_dirty, rearm, Goto, TypeOK
<1>3. CASE \E s \in Savers : SaveStep(s)
  <2> PICK s \in Savers : SaveStep(s)
    BY <1>3
  <2> SUFFICES ASSUME ~dirty, \A w \in Workers : pc'[w] # "mark",
                      \A l \in Loops : pc'[l] # "build"
               PROVE  /\ \A t \in Savers : pc'[t] \in Saving => sver'[t] = mem
                      /\ (\A l \in Loops : pc'[l] = "idle") =>
                           /\ load(dir, content)' = mem
                           /\ (\E f \in Flushers : pc'[f] = "build" \/ pc'[f] \in Saving)
                                => Anchored'
    BY SaveStepFrame DEF CleanInv
  <2>1. \A t \in Savers : t # s => pc'[t] \notin Saving
    BY OnlyOneSaves
  <2>2. \A w \in Workers : pc[w] # "mark"
    BY SaveStepFrame DEF SaveStep, build_snapshot, open_tmp, write_tmp, sync_tmp, rename_tmp,
       remove_bak, stage_bak, install_tmp, restore_bak, remove_tmp, drop_bak, sync_dir
  <2>3. CASE build_snapshot(s)
    <3>1. /\ pc[s] = "build" /\ pc'[s] = "open" /\ sver'[s] = mem
          /\ UNCHANGED <<dir, content, mem>>
      BY <2>3 DEF build_snapshot, Goto, TypeOK
    <3>2. CASE s \in Loops
      BY <2>1, <3>1, <3>2
    <3>3. CASE s \notin Loops
      <4>1. s \in Flushers /\ \A l \in Loops : pc[l] = pc'[l]
        BY <3>3, SaveStepFrame
      <4>2. (\A l \in Loops : pc'[l] = "idle") => load(dir, content) = mem /\ Anchored
        BY <2>2, <3>1, <4>1 DEF CleanInv
      <4> QED
        BY <2>1, <3>1, <4>2 DEF Anchored, load, Parses
    <3> QED
      BY <3>2, <3>3
  <2>4. CASE ~build_snapshot(s)
    <3>1. \A l \in Loops : pc[l] # "build"
      BY <2>4, SaveStepFrame DEF Saving
    <3>2. sver[s] = mem
      BY <2>2, <2>4, <3>1, SaveStepFrame DEF CleanInv
    <3>3. \A t \in Savers : pc'[t] \in Saving => sver'[t] = mem
      BY <2>1, <2>4, <3>2, SaveStepFrame
    <3>4. ASSUME \A l \in Loops : pc'[l] = "idle"
          PROVE  Anchored' /\ load(dir, content)' = mem
      <4>1. CASE sync_dir(s)
        BY <3>2, <4>1, AckAnchors
      <4>2. CASE ~sync_dir(s)
        <5>1. s \in Flushers /\ s \notin Loops /\ pc[s] \in Saving
          BY <2>4, <3>4, <4>2, SaveStepFrame
        <5>2. \A l \in Loops : pc[l] = "idle"
          BY <3>4, <5>1, SaveStepFrame
        <5>3. Anchored /\ load(dir, content) = mem
          BY <2>2, <3>1, <5>1, <5>2 DEF CleanInv
        <5> QED
          BY <2>4, <3>2, <5>3, FlushKeepsList
      <4> QED
        BY <4>1, <4>2
    <3> QED
      BY <3>3, <3>4
  <2> QED
    BY <2>3, <2>4
<1>4. CASE crash \/ power_loss
  <2>1. /\ mem' = load(dir', content')
        /\ \A t \in Threads : pc'[t] = "idle"
    BY <1>4 DEF crash, power_loss, Restart
  <2> QED
    BY <2>1 DEF CleanInv, Saving, load, Parses
<1>5. CASE writeback \/ UNCHANGED vars
  BY <1>5 DEF CleanInv, Anchored, load, Parses, writeback, vars
<1> QED
  BY <1>1, <1>2, <1>3, <1>4, <1>5 DEF Next

\* A clear dirty flag and no thread at work mean that the file holds what is in
\* memory: a save of the loop that failed has set the flag again, a change during a
\* save is not forgotten, and a save_now that failed has lost nothing, unless two
\* saves have overlapped.
THEOREM CleanIsSaved == Spec => []CleanMeansSaved
<1>1. Init => CleanInv
  BY PersistAssumption DEF Init, CleanInv, Saving, load, Parses, Names, Threads, Savers, Anchored
<1>2. TypeOK /\ TypeOK' /\ (overlapped \/ SaveInv) /\ (overlapped \/ CleanInv)
        /\ [Next]_vars => (overlapped \/ CleanInv)'
  BY CleanStep, OverlapStays
<1>3. overlapped \/ CleanInv => CleanMeansSaved
  BY PersistAssumption DEF CleanInv, CleanMeansSaved, Threads
<1> QED
  BY <1>1, <1>2, <1>3, PersistTypeCorrect, SaveInvariant, PTL DEF Spec

=============================================================================

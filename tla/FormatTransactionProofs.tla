---------------------- MODULE FormatTransactionProofs ----------------------
(***************************************************************************)
(* Proofs about the formatter's write transaction, for any number of files  *)
(* and any number of edits.                                                 *)
(***************************************************************************)
EXTENDS FormatTransaction, TLAPS

-----------------------------------------------------------------------------
(* What the three names of a file hold, one by one.                         *)
LEMMA NamesEntry ==
    ASSUME NEW p \in Content, NEW t \in Content, NEW b \in Content
    PROVE  Names(p, t, b) \in Entry
  BY DEF Names, Entry

(* The record Names builds has the fields it was given.                     *)
LEMMA NamesFields ==
    ASSUME NEW p, NEW t, NEW b
    PROVE  /\ Names(p, t, b).path = p
           /\ Names(p, t, b).temporary = t
           /\ Names(p, t, b).backup = b
  BY DEF Names

(* The three names of an entry hold contents.                               *)
LEMMA EntryFields ==
    ASSUME NEW e \in Entry
    PROVE  e.path \in Content /\ e.temporary \in Content /\ e.backup \in Content
  BY DEF Entry

(* The contents the transaction itself writes.                              *)
LEMMA ContentMembers ==
    /\ "original" \in Content /\ "formatted" \in Content
    /\ "edited" \in Content /\ "junk" \in Content /\ "absent" \in Content
  BY DEF Content

(* A change of one file's names keeps disk and survivors well typed.        *)
LEMMA RenameType ==
    ASSUME TypeOK, NEW i \in Files, NEW e \in Entry, Rename(i, e)
    PROVE  disk' \in [Files -> Entry] /\ survivors' \in [Files -> SUBSET Entry]
  BY DEF TypeOK, Rename

(* sol_fsync_parent keeps disk and survivors well typed.                    *)
LEMMA FsyncType ==
    ASSUME TypeOK, NEW i \in Files, sol_fsync_parent(i)
    PROVE  disk' \in [Files -> Entry] /\ survivors' \in [Files -> SUBSET Entry]
  BY DEF TypeOK, sol_fsync_parent

(* Removing names from an entry leaves an entry.                            *)
LEMMA WithoutEntry ==
    ASSUME NEW e \in Entry, NEW gone
    PROVE  Without(e, gone) \in Entry
  BY EntryFields, NamesEntry, ContentMembers DEF Without

-----------------------------------------------------------------------------
(* The control variables stay in range: in particular the downward loop of  *)
(* the rollback and the index it starts from never leave the array.         *)
ControlType == phase \in Phases /\ index \in Files
                 /\ result \in {"none", "ok", "failed"}

NamesType == disk \in [Files -> Entry] /\ survivors \in [Files -> SUBSET Entry]

WriteType == /\ temporary \in [Files -> BOOLEAN]
             /\ backup \in [Files -> BOOLEAN]
             /\ original_in_backup \in [Files -> BOOLEAN]
             /\ faults \subseteq {"unlink", "restore"}

WorldType == /\ edits \in 0..MaxEdits
             /\ lastEdit \in [Files -> {"none", "edited", "original", "absent"}]
             /\ when \in [Files -> {"never", "early", "window", "moving", "settled"}]

(* Steps keep the control variables well typed.                             *)
LEMMA ControlTypeStep == TypeOK /\ Step => ControlType'
<1> SUFFICES ASSUME TypeOK, Step PROVE ControlType'
  OBVIOUS
<1> USE NAssumption DEF Files, Goto, Fail, Advance, Phases
<1>1. phase \in Phases /\ index \in 1..N /\ result \in {"none", "ok", "failed"}
  BY DEF TypeOK
<1>2. ControlType' <=> phase' \in Phases /\ index' \in 1..N
                         /\ result' \in {"none", "ok", "failed"}
  BY DEF ControlType
<1>3. CASE Stat \/ Format \/ Stage \/ Reserve \/ Verify
  BY <1>1, <1>2, <1>3 DEF Stat, Format, Stage, Reserve, Verify
<1>4. CASE Take \/ Install \/ Sync \/ Unlink \/ Flush
  BY <1>1, <1>2, <1>4 DEF Take, Install, Sync, Unlink, Flush
<1>5. CASE Rollback \/ Cleanup
  BY <1>1, <1>2, <1>5 DEF Rollback, RollbackNext, Cleanup
<1> QED
  BY <1>3, <1>4, <1>5 DEF Step

(* Steps keep the names on disk, and those a power loss may leave, well     *)
(* typed.                                                                   *)
LEMMA NamesTypeStep == TypeOK /\ Step => NamesType'
<1> SUFFICES ASSUME TypeOK, Step PROVE NamesType'
  OBVIOUS
<1> USE ContentMembers
<1>1. index \in Files /\ disk \in [Files -> Entry]
        /\ survivors \in [Files -> SUBSET Entry]
  BY DEF TypeOK
<1>2. disk[index] \in Entry
  BY <1>1
<1>3. disk[index].path \in Content /\ disk[index].temporary \in Content
        /\ disk[index].backup \in Content
  BY <1>2, EntryFields
<1>4. ASSUME UNCHANGED names PROVE NamesType'
  BY <1>1, <1>4 DEF names, NamesType
<1>5. ASSUME NEW e \in Entry, Rename(index, e) PROVE NamesType'
  BY <1>1, <1>5, RenameType DEF NamesType
<1>6. ASSUME sol_fsync_parent(index) PROVE NamesType'
  BY <1>1, <1>6, FsyncType DEF NamesType
<1>7. CASE Stat \/ Format \/ Verify
  BY <1>4, <1>7 DEF Stat, Format, Verify
<1>8. CASE Stage
  <2> DEFINE made == Names(disk[index].path, "junk", disk[index].backup)
             full == Names(disk[index].path, "formatted", disk[index].backup)
  <2>1. made \in Entry /\ full \in Entry
    BY <1>3, NamesEntry
  <2>2. \/ UNCHANGED names
        \/ Rename(index, made)
        \/ /\ disk' = [disk EXCEPT ![index] = full]
           /\ survivors' = [survivors EXCEPT ![index] = @ \cup {made, full}]
    BY <1>8 DEF Stage
  <2> QED
    BY <2>1, <2>2, <1>1, <1>4, <1>5 DEF NamesType
<1>9. CASE Reserve
  BY <1>3, <1>4, <1>5, <1>9, NamesEntry DEF Reserve
<1>10. CASE Take \/ Install \/ Unlink
  BY <1>3, <1>4, <1>5, <1>10, NamesEntry DEF Take, Install, Unlink
<1>11. CASE Sync \/ Flush
  BY <1>4, <1>6, <1>11 DEF Sync, Flush
<1>12. CASE Rollback
  <2> DEFINE restored == Names(disk[index].backup, disk[index].temporary, "absent")
  <2>1. restored \in Entry
    BY <1>3, NamesEntry
  <2>2. \/ UNCHANGED names
        \/ /\ disk' = [disk EXCEPT ![index] = restored]
           /\ \E s \in {{restored}, survivors[index] \cup {restored}} :
                survivors' = [survivors EXCEPT ![index] = s]
    BY <1>12 DEF Rollback
  <2> QED
    BY <2>1, <2>2, <1>1, <1>4 DEF NamesType
<1>13. CASE Cleanup
  <2>1. PICK gone \in SUBSET Owned(index) :
          /\ disk' = [disk EXCEPT ![index] = Without(@, gone)]
          /\ survivors' = [survivors EXCEPT ![index] = @ \cup
               {Without(disk[index], gone \ {"backup"}),
                Without(disk[index], gone)}]
    BY <1>13 DEF Cleanup
  <2>2. /\ Without(disk[index], gone) \in Entry
        /\ Without(disk[index], gone \ {"backup"}) \in Entry
    BY <1>2, WithoutEntry
  <2> QED
    BY <2>1, <2>2, <1>1 DEF NamesType
<1> QED
  BY <1>7, <1>8, <1>9, <1>10, <1>11, <1>12, <1>13 DEF Step

(* Steps keep the write's own record well typed and leave the editor's      *)
(* alone.                                                                   *)
LEMMA WriteTypeStep == TypeOK /\ Step => WriteType' /\ UNCHANGED world
<1> SUFFICES ASSUME TypeOK, Step PROVE WriteType' /\ UNCHANGED world
  OBVIOUS
<1> USE DEF WriteType, write
<1>1. index \in Files /\ WriteType
  BY DEF TypeOK
<1>2. CASE Stat \/ Format \/ Stage \/ Reserve \/ Verify
  BY <1>1, <1>2 DEF Stat, Format, Stage, Reserve, Verify
<1>3. CASE Take \/ Install \/ Sync \/ Unlink \/ Flush
  BY <1>1, <1>3 DEF Take, Install, Sync, Unlink, Flush
<1>4. CASE Rollback \/ Cleanup
  BY <1>1, <1>4 DEF Rollback, Cleanup
<1> QED
  BY <1>2, <1>3, <1>4 DEF Step

(* Type correctness of the write transaction.                               *)
THEOREM TypeCorrect == Spec => []TypeOK
<1>1. Init => TypeOK
  BY NAssumption, MaxEditsAssumption, NamesEntry, ContentMembers
     DEF Init, TypeOK, Files, Phases, Pristine
<1>2. TypeOK /\ [Next]_vars => TypeOK'
  <2> SUFFICES ASSUME TypeOK, [Next]_vars PROVE TypeOK'
    OBVIOUS
  <2>1. CASE Step
    <3>1. WorldType'
      BY <2>1, WriteTypeStep DEF TypeOK, WorldType, world
    <3> QED
      BY <2>1, <3>1, ControlTypeStep, NamesTypeStep, WriteTypeStep
         DEF TypeOK, ControlType, NamesType, WriteType, WorldType
  <2>2. CASE Crash
    BY <2>2 DEF Crash, TypeOK, Phases, write, world
  <2>3. ASSUME NEW i \in Files, Edit(i) PROVE TypeOK'
    <3>1. disk[i] \in Entry
      BY DEF TypeOK
    <3>2. PICK c \in {"edited", "original", "absent"} :
            /\ Rename(i, Names(c, disk[i].temporary, disk[i].backup))
            /\ lastEdit' = [lastEdit EXCEPT ![i] = c]
      BY <2>3 DEF Edit
    <3>3. Names(c, disk[i].temporary, disk[i].backup) \in Entry
      BY <3>1, EntryFields, NamesEntry, ContentMembers
    <3>4. NamesType'
      BY <3>2, <3>3, RenameType DEF NamesType
    <3>5. Moment(i) \in {"early", "window", "moving", "settled"}
      BY DEF Moment
    <3>6. WorldType'
      BY <2>3, <3>2, <3>5, MaxEditsAssumption DEF Edit, TypeOK, WorldType
    <3> QED
      BY <2>3, <3>4, <3>6 DEF Edit, TypeOK, NamesType, WorldType, control, write
  <2>4. CASE UNCHANGED vars
    BY <2>4 DEF vars, control, names, write, world, TypeOK
  <2> QED
    BY <2>1, <2>2, <2>3, <2>4 DEF Next, QuietNext
<1> QED
  BY <1>1, <1>2, PTL DEF Spec
-----------------------------------------------------------------------------
(* The bookkeeping of the transaction, true whether or not anybody edits.   *)
(* How far the staging, renaming and rollback loops have come is what the   *)
(* flags and the staged contents say, and what a name holds is owned by a   *)
(* pointer that the cleanup will look at.                                   *)
ResultFollows ==
    /\ phase \in {"stat", "format", "stage", "reserve", "verify", "take",
                  "install", "sync"} => result = "none"
    /\ phase \in {"unlink", "flush"} => result = "ok"
    /\ phase = "rollback" => result = "failed"
    /\ phase \in {"cleanup", "returned"} => result \in {"ok", "failed"}

(* Which originals have been moved aside.                                   *)
Taken(j) ==
    /\ phase \in {"stat", "format", "stage", "reserve", "verify"}
         => ~original_in_backup[j]
    /\ phase = "take" => (original_in_backup[j] <=> j < index)
    /\ phase = "install" => (original_in_backup[j] <=> j <= index)
    /\ phase = "sync" => original_in_backup[j]
    /\ phase = "unlink" /\ j < index /\ original_in_backup[j] => "unlink" \in faults
    /\ phase = "rollback" /\ j > index /\ original_in_backup[j] => "restore" \in faults
    /\ phase \in {"flush", "cleanup", "returned"} /\ original_in_backup[j]
         => /\ result = "ok" => "unlink" \in faults
            /\ result = "failed" => "restore" \in faults

(* Which staging files are complete and which backups reserved.             *)
Staged(j) ==
    /\ phase \in {"stat", "format"} => ~temporary[j] /\ ~backup[j]
    /\ (\/ phase = "stage" /\ j < index
        \/ phase = "reserve" /\ j <= index
        \/ phase = "verify"
        \/ phase \in {"take", "install"} /\ j >= index)
         => disk[j].temporary = "formatted"
    /\ (\/ phase \in {"stage", "reserve"} /\ j < index
        \/ phase = "verify"
        \/ phase \in {"take", "install"} /\ j >= index)
         => backup[j]

(* What lies on the disk beside a source is owned, until it is cleaned up.  *)
Tidy(j) ==
    /\ phase # "crashed" => /\ disk[j].temporary # "absent" => temporary[j]
                            /\ disk[j].backup # "absent" => backup[j]
    /\ (phase = "returned" \/ (phase = "cleanup" /\ j < index)) /\ faults = {}
         => disk[j].temporary = "absent" /\ disk[j].backup = "absent"

Bookkeeping ==
    /\ TypeOK
    /\ ResultFollows
    /\ \A j \in Files : Taken(j) /\ Staged(j) /\ Tidy(j)

(* With nobody editing: whatever survives a power loss still has the        *)
(* original, unless the transaction was decided, and then it shows the      *)
(* formatted text; and the flag original_in_backup tells the truth.         *)
Safe(j) ==
    /\ disk[j] \in survivors[j]
    /\ \A s \in survivors[j] :
         IF result = "ok" THEN s.path = "formatted"
                          ELSE "original" \in {s.path, s.backup}

Truthful(j) ==
    /\ result # "ok" /\ phase # "crashed" =>
         IF original_in_backup[j] THEN disk[j].backup = "original"
                                  ELSE disk[j].path = "original"
    /\ phase = "sync" \/ (phase \in {"take", "install"} /\ j < index)
         => disk[j].path = "formatted"
    /\ phase = "sync" /\ j < index => survivors[j] = {disk[j]}

QuietInv == Quiet => \A j \in Files : Safe(j) /\ Truthful(j)

(* A file with an early edit never gets past its verification.              *)
EarlyEdited(i) == when[i] \in {"early", "settled"} /\ lastEdit[i] = "edited"

PastVerification(i) ==
    \/ phase \in {"take", "install", "sync", "unlink", "flush", "rollback"}
    \/ phase = "verify" /\ i < index

EarlyInv == \A i \in Files :
              /\ PastVerification(i) => ~EarlyEdited(i)
              /\ phase # "crashed" /\ EarlyEdited(i) => disk[i].path = "edited"
-----------------------------------------------------------------------------
(* What the file operations do to each file's names.                        *)
LEMMA RenameEffect ==
    ASSUME TypeOK, NEW i \in Files, NEW e, Rename(i, e), NEW j \in Files
    PROVE  /\ disk'[j] = IF j = i THEN e ELSE disk[j]
           /\ survivors'[j] = IF j = i THEN survivors[j] \cup {e} ELSE survivors[j]
  BY DEF TypeOK, Rename

(* sol_fsync_parent makes one file's current names the only ones to         *)
(* survive.                                                                 *)
LEMMA FsyncEffect ==
    ASSUME TypeOK, NEW i \in Files, sol_fsync_parent(i), NEW j \in Files
    PROVE  /\ disk'[j] = disk[j]
           /\ survivors'[j] = IF j = i THEN {disk[j]} ELSE survivors[j]
  BY DEF TypeOK, sol_fsync_parent

(* Removing names makes exactly those absent.                               *)
LEMMA WithoutFields ==
    ASSUME NEW e, NEW gone
    PROVE  /\ Without(e, gone).path = e.path
           /\ Without(e, gone).temporary =
                IF "temporary" \in gone THEN "absent" ELSE e.temporary
           /\ Without(e, gone).backup =
                IF "backup" \in gone THEN "absent" ELSE e.backup
  BY NamesFields DEF Without

(* Steps of the transaction keep its bookkeeping in line with the disk.     *)
LEMMA BookkeepingStep ==
    ASSUME Bookkeeping, Step, NEW j \in Files
    PROVE  ResultFollows' /\ Taken(j)' /\ Staged(j)' /\ Tidy(j)'
<1> USE NAssumption
<1>t. TypeOK /\ ResultFollows /\ Taken(j) /\ Staged(j) /\ Tidy(j)
  BY DEF Bookkeeping
<1>i. /\ index \in 1..N /\ j \in 1..N /\ index \in Files
      /\ temporary \in [Files -> BOOLEAN] /\ backup \in [Files -> BOOLEAN]
      /\ original_in_backup \in [Files -> BOOLEAN]
  BY <1>t DEF TypeOK, Files
<1>n. ASSUME NEW e, Rename(index, e)
      PROVE  disk'[j] = IF j = index THEN e ELSE disk[j]
  BY <1>n, <1>t, <1>i, RenameEffect
<1> USE DEF ResultFollows, Taken, Staged, Tidy
<1>1. CASE Stat
  BY <1>1, <1>t, <1>i DEF Stat, Advance, Goto, names, write
<1>2. CASE Format
  BY <1>2, <1>t, <1>i DEF Format, Goto, names, write
<1>3. CASE Stage
  <2> DEFINE e == disk[index]
             made == Names(e.path, "junk", e.backup)
             full == Names(e.path, "formatted", e.backup)
  <2>1. made.temporary = "junk" /\ made.backup = e.backup
    BY NamesFields
  <2>2. full.temporary = "formatted" /\ full.backup = e.backup
    BY NamesFields
  <2> HIDE DEF made, full
  <2>3. \/ Fail /\ UNCHANGED <<names, temporary>>
        \/ /\ Fail
           /\ disk'[j] = IF j = index THEN made ELSE disk[j]
           /\ temporary' = [temporary EXCEPT ![index] = TRUE]
        \/ /\ Goto("reserve", index, result)
           /\ disk'[j] = IF j = index THEN full ELSE disk[j]
           /\ temporary' = [temporary EXCEPT ![index] = TRUE]
    BY <1>3, <1>t, <1>i, <1>n DEF Stage, made, full, TypeOK
  <2>4. phase = "stage" /\ UNCHANGED <<backup, original_in_backup, faults>>
    BY <1>3 DEF Stage
  <2> QED
    BY <2>1, <2>2, <2>3, <2>4, <1>t, <1>i DEF Fail, Goto, names
<1>4. CASE Reserve
  <2> DEFINE e == Names(disk[index].path, disk[index].temporary, "junk")
  <2>1. e.temporary = disk[index].temporary /\ e.backup = "junk"
    BY NamesFields
  <2> HIDE DEF e
  <2>2. \/ Fail /\ UNCHANGED <<names, backup>>
        \/ /\ disk'[j] = IF j = index THEN e ELSE disk[j]
           /\ backup' = [backup EXCEPT ![index] = TRUE]
           /\ \/ Fail
              \/ IF index < N THEN Goto("stage", index + 1, result)
                              ELSE Goto("verify", 1, result)
    BY <1>4, <1>n DEF Reserve, e
  <2>3. phase = "reserve" /\ UNCHANGED <<temporary, original_in_backup, faults>>
    BY <1>4 DEF Reserve
  <2> QED
    BY <2>1, <2>2, <2>3, <1>t, <1>i DEF Fail, Goto, names
<1>5. CASE Verify
  <2>1. /\ phase = "verify" /\ (Advance("take") \/ Fail)
        /\ UNCHANGED <<disk, temporary, backup, original_in_backup, faults>>
    BY <1>5 DEF Verify, names, write
  <2> QED
    BY <2>1, <1>t, <1>i DEF Advance, Fail, Goto
<1>6. CASE Take
  <2> DEFINE e == Names("absent", disk[index].temporary, disk[index].path)
  <2>1. e.temporary = disk[index].temporary
    BY NamesFields
  <2> HIDE DEF e
  <2>2. \/ /\ disk'[j] = IF j = index THEN e ELSE disk[j]
           /\ original_in_backup' = [original_in_backup EXCEPT ![index] = TRUE]
           /\ Goto("install", index, result)
        \/ Goto("rollback", index, "failed") /\ UNCHANGED <<names, original_in_backup>>
    BY <1>6, <1>n DEF Take, e
  <2>3. phase = "take" /\ UNCHANGED <<temporary, backup, faults>>
    BY <1>6 DEF Take
  <2> QED
    BY <2>1, <2>2, <2>3, <1>t, <1>i DEF Goto, names
<1>7. CASE Install
  <2> DEFINE e == Names(disk[index].temporary, "absent", disk[index].backup)
  <2>1. e.temporary = "absent" /\ e.backup = disk[index].backup
    BY NamesFields
  <2> HIDE DEF e
  <2>2. \/ /\ disk'[j] = IF j = index THEN e ELSE disk[j]
           /\ temporary' = [temporary EXCEPT ![index] = FALSE]
           /\ IF index < N THEN Goto("take", index + 1, result)
                           ELSE Goto("sync", 1, result)
        \/ Goto("rollback", index, "failed") /\ UNCHANGED <<names, temporary>>
    BY <1>7, <1>n DEF Install, e
  <2>3. phase = "install" /\ UNCHANGED <<backup, original_in_backup, faults>>
    BY <1>7 DEF Install
  <2> QED
    BY <2>1, <2>2, <2>3, <1>t, <1>i DEF Goto, names
<1>8. CASE Sync
  <2>1. phase = "sync" /\ UNCHANGED <<disk, temporary, backup, original_in_backup, faults>>
    BY <1>8 DEF Sync, sol_fsync_parent, names, write
  <2>2. \/ index < N /\ Goto("sync", index + 1, result)
        \/ Goto("unlink", 1, "ok")
        \/ Goto("rollback", N, "failed")
    BY <1>8 DEF Sync
  <2> QED
    BY <2>1, <2>2, <1>t, <1>i DEF Goto
<1>9. CASE Unlink
  <2> DEFINE e == Names(disk[index].path, disk[index].temporary, "absent")
  <2>1. e.temporary = disk[index].temporary /\ e.backup = "absent"
    BY NamesFields
  <2> HIDE DEF e
  <2>2. \/ /\ disk'[j] = IF j = index THEN e ELSE disk[j]
           /\ backup' = [backup EXCEPT ![index] = FALSE]
           /\ original_in_backup' = [original_in_backup EXCEPT ![index] = FALSE]
           /\ UNCHANGED faults
        \/ /\ faults' = faults \cup {"unlink"}
           /\ UNCHANGED <<names, backup, original_in_backup>>
    BY <1>9, <1>n DEF Unlink, e
  <2>3. phase = "unlink" /\ Advance("flush") /\ UNCHANGED temporary
    BY <1>9 DEF Unlink
  <2> QED
    BY <2>1, <2>2, <2>3, <1>t, <1>i DEF Advance, names
<1>10. CASE Flush
  BY <1>10, <1>t, <1>i DEF Flush, sol_fsync_parent, Advance, names, write
<1>11. CASE Rollback
  <2> DEFINE e == Names(disk[index].backup, disk[index].temporary, "absent")
  <2>1. e.temporary = disk[index].temporary /\ e.backup = "absent"
    BY NamesFields
  <2>2. \/ /\ ~original_in_backup[index]
           /\ UNCHANGED <<disk, backup, original_in_backup, faults>>
        \/ /\ faults' = faults \cup {"restore"}
           /\ UNCHANGED <<disk, backup, original_in_backup>>
        \/ /\ disk' = [disk EXCEPT ![index] = e]
           /\ backup' = [backup EXCEPT ![index] = FALSE]
           /\ original_in_backup' = [original_in_backup EXCEPT ![index] = FALSE]
           /\ UNCHANGED faults
    BY <1>11 DEF Rollback, names
  <2> HIDE DEF e
  <2>3. disk' = [disk EXCEPT ![index] = e] => disk'[j] = IF j = index THEN e ELSE disk[j]
    BY <1>t DEF TypeOK
  <2>4. phase = "rollback" /\ RollbackNext /\ UNCHANGED temporary
    BY <1>11 DEF Rollback
  <2> QED
    BY <2>1, <2>2, <2>3, <2>4, <1>t, <1>i DEF RollbackNext, Goto
<1>12. CASE Cleanup
  <2>1. PICK gone \in SUBSET Owned(index) :
          /\ disk' = [disk EXCEPT ![index] = Without(@, gone)]
          /\ faults' = IF gone = Owned(index) THEN faults ELSE faults \cup {"unlink"}
    BY <1>12 DEF Cleanup
  <2> DEFINE e == Without(disk[index], gone)
  <2>2. /\ e.temporary = IF "temporary" \in gone THEN "absent" ELSE disk[index].temporary
        /\ e.backup = IF "backup" \in gone THEN "absent" ELSE disk[index].backup
    BY WithoutFields
  <2>3. disk'[j] = IF j = index THEN e ELSE disk[j]
    BY <2>1, <1>t, <1>i DEF TypeOK
  <2> HIDE DEF e
  <2>4. /\ phase = "cleanup" /\ Advance("returned")
        /\ UNCHANGED <<temporary, backup, original_in_backup>>
    BY <1>12 DEF Cleanup, write
  <2>5. faults \subseteq faults' /\ (faults' = {} => gone = Owned(index))
    BY <2>1
  <2>6. gone = Owned(index) =>
          /\ temporary[index] => "temporary" \in gone
          /\ backup[index] /\ ~original_in_backup[index] => "backup" \in gone
    BY DEF Owned
  <2>7. faults = {} => ~original_in_backup[j]
    BY <2>4, <1>t
  <2> QED
    BY <2>2, <2>3, <2>4, <2>5, <2>6, <2>7, <1>t, <1>i DEF Advance
<1> QED
  BY <1>1, <1>2, <1>3, <1>4, <1>5, <1>6, <1>7, <1>8, <1>9, <1>10, <1>11, <1>12
     DEF Step

(* The bookkeeping holds throughout, also under edits and power losses.     *)
THEOREM BookkeepingHolds == Spec => []Bookkeeping
<1>1. Init => Bookkeeping
  <2> SUFFICES ASSUME Init PROVE Bookkeeping
    OBVIOUS
  <2>1. TypeOK
    BY NAssumption, MaxEditsAssumption, NamesEntry, ContentMembers
       DEF Init, TypeOK, Files, Phases, Pristine
  <2>2. \A j \in Files : disk[j].temporary = "absent" /\ disk[j].backup = "absent"
    BY NamesFields DEF Init, Pristine
  <2> QED
    BY <2>1, <2>2 DEF Init, Bookkeeping, ResultFollows, Taken, Staged, Tidy
<1>2. TypeOK' /\ Bookkeeping /\ [Next]_vars => Bookkeeping'
  <2> SUFFICES ASSUME TypeOK', Bookkeeping, [Next]_vars PROVE Bookkeeping'
    OBVIOUS
  <2>1. CASE Step
    BY <2>1, NAssumption, BookkeepingStep DEF Bookkeeping, Files, TypeOK
  <2>2. CASE Crash
    BY <2>2 DEF Crash, Bookkeeping, ResultFollows, Taken, Staged, Tidy
  <2>3. ASSUME NEW i \in Files, Edit(i) PROVE Bookkeeping'
    <3>1. PICK c : Rename(i, Names(c, disk[i].temporary, disk[i].backup))
      BY <2>3 DEF Edit
    <3> DEFINE e == Names(c, disk[i].temporary, disk[i].backup)
    <3>2. e.temporary = disk[i].temporary /\ e.backup = disk[i].backup
      BY NamesFields
    <3>3. \A j \in Files : disk'[j] = IF j = i THEN e ELSE disk[j]
      BY <3>1, RenameEffect DEF Bookkeeping
    <3> HIDE DEF e
    <3>4. UNCHANGED <<phase, index, result, temporary, backup, original_in_backup, faults>>
      BY <2>3 DEF Edit, control, write
    <3> QED
      BY <3>2, <3>3, <3>4 DEF Bookkeeping, ResultFollows, Taken, Staged, Tidy, Files
  <2>4. CASE UNCHANGED vars
    BY <2>4 DEF vars, control, names, write, world, Bookkeeping, ResultFollows,
                Taken, Staged, Tidy, Files
  <2> QED
    BY <2>1, <2>2, <2>3, <2>4 DEF Next, QuietNext
<1> QED
  BY <1>1, <1>2, TypeCorrect, PTL DEF Spec

(* The transaction leaves no staging file and no backup behind when it      *)
(* returns and every unlink and restoring rename it tried succeeded.        *)
THEOREM LeavesNoLitter == Spec => []NoLitter
<1>1. Bookkeeping => NoLitter
  BY DEF Bookkeeping, Tidy, NoLitter
<1> QED
  BY <1>1, BookkeepingHolds, PTL
-----------------------------------------------------------------------------
(* Steps of the transaction keep the originals safe while nobody edits.     *)
LEMMA QuietStep ==
    ASSUME Bookkeeping, QuietInv, Quiet, Step, NEW j \in Files
    PROVE  Safe(j)' /\ Truthful(j)'
<1> USE NAssumption
<1>t. TypeOK /\ ResultFollows /\ Taken(j) /\ Staged(j) /\ Safe(j) /\ Truthful(j)
  BY DEF Bookkeeping, QuietInv
<1>i. index \in Files /\ index \in 1..N /\ j \in 1..N
  BY <1>t DEF TypeOK, Files
<1>k. Taken(index) /\ Staged(index) /\ Safe(index) /\ Truthful(index)
  BY <1>i DEF Bookkeeping, QuietInv
<1>n. ASSUME NEW e, Rename(index, e)
      PROVE  /\ disk'[j] = IF j = index THEN e ELSE disk[j]
             /\ survivors'[j] = IF j = index THEN survivors[j] \cup {e} ELSE survivors[j]
  BY <1>n, <1>t, <1>i, RenameEffect
<1>r. ASSUME NEW e, Rename(index, e), result' = "ok" <=> result = "ok",
             IF result = "ok" THEN e.path = "formatted"
                              ELSE "original" \in {e.path, e.backup}
      PROVE  Safe(j)'
  <2>1. /\ disk'[j] = IF j = index THEN e ELSE disk[j]
        /\ survivors'[j] = IF j = index THEN survivors[j] \cup {e} ELSE survivors[j]
    BY <1>r, <1>n
  <2>2. CASE j = index
    BY <2>1, <2>2, <1>r, <1>t DEF Safe
  <2>3. CASE j # index
    BY <2>1, <2>3, <1>r, <1>t DEF Safe
  <2> QED
    BY <2>2, <2>3
<1>u. ASSUME UNCHANGED names, result' = "ok" <=> result = "ok" PROVE Safe(j)'
  BY <1>u, <1>t DEF Safe, names
<1>1. CASE Stat \/ Format
  <2>1. phase \in {"stat", "format"} /\ phase' \in {"stat", "format", "stage", "returned"}
          /\ result' \in {result, "none", "failed"} /\ UNCHANGED <<names, original_in_backup>>
    BY <1>1 DEF Stat, Format, Advance, Goto, write
  <2> QED
    BY <2>1, <1>t, <1>u DEF Truthful, ResultFollows, names
<1>3. CASE Stage
  <2> DEFINE e == disk[index]
             made == Names(e.path, "junk", e.backup)
             full == Names(e.path, "formatted", e.backup)
  <2>1. /\ made.path = e.path /\ made.backup = e.backup
        /\ full.path = e.path /\ full.backup = e.backup
    BY NamesFields
  <2>2. e.path = "original"
    BY <1>3, <1>k DEF Stage, Taken, Truthful, ResultFollows, Bookkeeping
  <2> HIDE DEF made, full
  <2>3. /\ phase = "stage" /\ UNCHANGED original_in_backup
        /\ Fail \/ Goto("reserve", index, result)
        /\ \/ UNCHANGED names
           \/ Rename(index, made)
           \/ /\ disk' = [disk EXCEPT ![index] = full]
              /\ survivors' = [survivors EXCEPT ![index] = @ \cup {made, full}]
    BY <1>3 DEF Stage, made, full
  <2>4. Safe(j)'
    <3>1. CASE UNCHANGED names
      BY <3>1, <2>3, <1>t, <1>u DEF Fail, Goto, ResultFollows
    <3>2. CASE Rename(index, made)
      BY <3>2, <2>1, <2>2, <2>3, <1>t, <1>r DEF Fail, Goto, ResultFollows
    <3>3. CASE /\ disk' = [disk EXCEPT ![index] = full]
               /\ survivors' = [survivors EXCEPT ![index] = @ \cup {made, full}]
      <4>1. result # "ok" /\ result' # "ok"
        BY <2>3, <1>t DEF Fail, Goto, ResultFollows
      <4>2. /\ disk'[j] = IF j = index THEN full ELSE disk[j]
            /\ survivors'[j] = IF j = index THEN survivors[j] \cup {made, full}
                                            ELSE survivors[j]
        BY <3>3, <1>t, <1>i DEF TypeOK
      <4> QED
        BY <4>1, <4>2, <2>1, <2>2, <1>t DEF Safe
    <3> QED
      BY <2>3, <3>1, <3>2, <3>3
  <2>5. disk'[j].path = disk[j].path
    BY <2>1, <2>3, <1>n, <1>t, <1>i DEF names, TypeOK
  <2>6. phase' \in {"cleanup", "reserve"} /\ ~original_in_backup'[j]
    BY <2>3, <1>t DEF Fail, Goto, Taken
  <2> QED
    BY <2>3, <2>4, <2>5, <2>6, <1>t DEF Truthful, Taken, ResultFollows
<1>4. CASE Reserve
  <2> DEFINE e == Names(disk[index].path, disk[index].temporary, "junk")
  <2>1. e.path = disk[index].path
    BY NamesFields
  <2>2. /\ phase = "reserve" /\ UNCHANGED original_in_backup
        /\ UNCHANGED names \/ Rename(index, e)
        /\ phase' \in {"cleanup", "stage", "verify"} /\ result' \in {"failed", result}
    BY <1>4 DEF Reserve, Fail, Goto
  <2> HIDE DEF e
  <2>3. result # "ok" /\ result' # "ok" /\ e.path = "original"
          /\ ~original_in_backup[j] /\ disk[j].path = "original"
    BY <2>1, <2>2, <1>t, <1>k DEF Taken, Truthful, ResultFollows
  <2>4. disk'[j].path = disk[j].path
    BY <2>1, <2>2, <1>n DEF names
  <2> QED
    BY <2>2, <2>3, <2>4, <1>r, <1>u DEF Truthful
<1>5. CASE Verify
  <2>1. /\ phase = "verify" /\ UNCHANGED <<names, original_in_backup>>
        /\ \/ phase' = "verify"
           \/ phase' = "take" /\ index' = 1
           \/ phase' = "cleanup"
        /\ result' \in {"failed", result}
    BY <1>5 DEF Verify, Advance, Fail, Goto, write
  <2> QED
    BY <2>1, <1>t, <1>i, <1>u DEF Truthful, ResultFollows, names
<1>6. CASE Take
  <2> DEFINE e == Names("absent", disk[index].temporary, disk[index].path)
  <2>1. e.path = "absent" /\ e.backup = disk[index].path
    BY NamesFields
  <2>2. phase = "take" /\ result = "none"
    BY <1>6, <1>t DEF Take, ResultFollows
  <2>3. disk[index].path = "original"
    BY <2>2, <1>k, <1>i DEF Taken, Truthful
  <2>4. \/ /\ Rename(index, e)
           /\ original_in_backup' = [original_in_backup EXCEPT ![index] = TRUE]
           /\ Goto("install", index, result)
        \/ Goto("rollback", index, "failed") /\ UNCHANGED <<names, original_in_backup>>
    BY <1>6 DEF Take
  <2> HIDE DEF e
  <2>5. CASE Goto("rollback", index, "failed") /\ UNCHANGED <<names, original_in_backup>>
    BY <2>2, <2>5, <1>t, <1>u DEF Goto, Truthful, names
  <2>6. CASE /\ Rename(index, e)
             /\ original_in_backup' = [original_in_backup EXCEPT ![index] = TRUE]
             /\ Goto("install", index, result)
    <3>1. Safe(j)'
      BY <2>1, <2>2, <2>3, <2>6, <1>r DEF Goto
    <3>2. disk'[j] = IF j = index THEN e ELSE disk[j]
      BY <2>6, <1>n
    <3>3. original_in_backup'[j] = IF j = index THEN TRUE ELSE original_in_backup[j]
      BY <2>6, <1>t DEF TypeOK
    <3>4. phase' = "install" /\ index' = index
      BY <2>6 DEF Goto
    <3> QED
      BY <3>1, <3>2, <3>3, <3>4, <2>1, <2>2, <2>3, <1>t, <1>i DEF Truthful
  <2> QED
    BY <2>4, <2>5, <2>6
<1>7. CASE Install
  <2> DEFINE e == Names(disk[index].temporary, "absent", disk[index].backup)
  <2>1. e.path = disk[index].temporary /\ e.backup = disk[index].backup
    BY NamesFields
  <2>2. phase = "install" /\ result = "none" /\ UNCHANGED original_in_backup
    BY <1>7, <1>t DEF Install, ResultFollows
  <2>3. disk[index].backup = "original" /\ disk[index].temporary = "formatted"
    BY <2>2, <1>k, <1>i DEF Taken, Truthful, Staged
  <2>4. \/ /\ Rename(index, e)
           /\ IF index < N THEN Goto("take", index + 1, result)
                           ELSE Goto("sync", 1, result)
        \/ Goto("rollback", index, "failed") /\ UNCHANGED names
    BY <1>7 DEF Install
  <2> HIDE DEF e
  <2>5. CASE Goto("rollback", index, "failed") /\ UNCHANGED names
    BY <2>2, <2>5, <1>t, <1>u DEF Goto, Truthful, names
  <2>6. CASE /\ Rename(index, e)
             /\ IF index < N THEN Goto("take", index + 1, result)
                             ELSE Goto("sync", 1, result)
    <3>1. Safe(j)'
      BY <2>1, <2>2, <2>3, <2>6, <1>r DEF Goto
    <3>2. disk'[j] = IF j = index THEN e ELSE disk[j]
      BY <2>6, <1>n
    <3>3. \/ phase' = "take" /\ index' = index + 1
          \/ phase' = "sync" /\ index' = 1 /\ index = N
      BY <2>6, <1>i DEF Goto
    <3>4. j <= index => disk'[j].path = "formatted"
      BY <3>2, <2>1, <2>2, <2>3, <1>t, <1>i DEF Truthful
    <3>5. /\ original_in_backup[j] => disk'[j].backup = "original"
          /\ ~original_in_backup[j] => disk'[j].path = "original"
      BY <3>2, <2>1, <2>2, <2>3, <1>t, <1>k, <1>i DEF Truthful, Taken
    <3> QED
      BY <3>1, <3>3, <3>4, <3>5, <2>2, <1>i DEF Truthful
  <2> QED
    BY <2>4, <2>5, <2>6
<1>8. CASE Sync
  <2>1. phase = "sync" /\ result = "none" /\ UNCHANGED <<disk, original_in_backup>>
    BY <1>8, <1>t DEF Sync, ResultFollows, sol_fsync_parent, names, write
  <2>2. CASE Goto("rollback", N, "failed") /\ UNCHANGED names
    BY <2>1, <2>2, <1>t, <1>u DEF Goto, Truthful, names
  <2>3. CASE /\ sol_fsync_parent(index)
             /\ IF index < N THEN Goto("sync", index + 1, result)
                             ELSE Goto("unlink", 1, "ok")
    <3>1. survivors'[j] = IF j = index THEN {disk[j]} ELSE survivors[j]
      BY <2>3, <1>t, <1>i, FsyncEffect
    <3>2. j < index => survivors[j] = {disk[j]}
      BY <2>1, <1>t DEF Truthful
    <3>3. disk[j].path = "formatted"
      BY <2>1, <1>t DEF Truthful
    <3>4. CASE phase' = "sync" /\ index' = index + 1 /\ result' = result
      BY <3>1, <3>2, <3>4, <2>1, <1>t, <1>i DEF Safe, Truthful
    <3>5. CASE phase' = "unlink" /\ index = N /\ result' = "ok"
      BY <3>1, <3>2, <3>3, <3>5, <2>1, <1>t, <1>i DEF Safe, Truthful
    <3> QED
      BY <3>4, <3>5, <2>3, <1>i DEF Goto
  <2> QED
    BY <1>8, <2>2, <2>3 DEF Sync
<1>9. CASE Unlink
  <2> DEFINE e == Names(disk[index].path, disk[index].temporary, "absent")
  <2>1. e.path = disk[index].path
    BY NamesFields
  <2>2. phase = "unlink" /\ result = "ok" /\ result' = "ok" /\ phase' \in {"unlink", "flush"}
    BY <1>9, <1>t DEF Unlink, ResultFollows, Advance
  <2>3. Rename(index, e) \/ UNCHANGED names
    BY <1>9 DEF Unlink
  <2>4. disk[index].path = "formatted"
    BY <2>2, <1>k DEF Safe
  <2> QED
    BY <2>1, <2>2, <2>3, <2>4, <1>r, <1>u DEF Truthful
<1>10. CASE Flush
  <2>1. phase = "flush" /\ result = "ok" /\ result' = "ok" /\ phase' \in {"flush", "cleanup"}
    BY <1>10, <1>t DEF Flush, ResultFollows, Advance
  <2>2. CASE UNCHANGED names
    BY <2>1, <2>2, <1>u DEF Truthful
  <2>3. CASE sol_fsync_parent(index)
    <3>1. /\ disk'[j] = disk[j]
          /\ survivors'[j] = IF j = index THEN {disk[j]} ELSE survivors[j]
      BY <2>3, <1>t, <1>i, FsyncEffect
    <3> QED
      BY <3>1, <2>1, <1>t DEF Safe, Truthful
  <2> QED
    BY <1>10, <2>2, <2>3 DEF Flush
<1>11. CASE Rollback
  <2> DEFINE e == Names(disk[index].backup, disk[index].temporary, "absent")
  <2>1. e.path = disk[index].backup
    BY NamesFields
  <2>2. /\ phase = "rollback" /\ result = "failed" /\ result' = "failed"
        /\ phase' \in {"rollback", "cleanup"}
    BY <1>11, <1>t DEF Rollback, RollbackNext, ResultFollows, Goto
  <2>3. CASE UNCHANGED <<names, original_in_backup>>
    BY <2>2, <2>3, <1>t, <1>u DEF Truthful, names
  <2>4. CASE /\ original_in_backup[index]
             /\ disk' = [disk EXCEPT ![index] = e]
             /\ \E s \in {{e}, survivors[index] \cup {e}} :
                  survivors' = [survivors EXCEPT ![index] = s]
             /\ original_in_backup' = [original_in_backup EXCEPT ![index] = FALSE]
    <3>1. disk[index].backup = "original"
      BY <2>2, <2>4, <1>k DEF Truthful
    <3> HIDE DEF e
    <3>2. /\ disk'[j] = IF j = index THEN e ELSE disk[j]
          /\ original_in_backup'[j] = IF j = index THEN FALSE ELSE original_in_backup[j]
      BY <2>4, <1>t, <1>i DEF TypeOK
    <3>3. IF j = index THEN survivors'[j] \in {{e}, survivors[j] \cup {e}}
                       ELSE survivors'[j] = survivors[j]
      BY <2>4, <1>t, <1>i DEF TypeOK
    <3>4. Safe(j)'
      BY <3>1, <3>2, <3>3, <2>1, <2>2, <1>t DEF Safe
    <3> QED
      BY <3>1, <3>2, <3>4, <2>1, <2>2, <1>t DEF Truthful
  <2> QED
    BY <1>11, <2>3, <2>4 DEF Rollback
<1>12. CASE Cleanup
  <2>1. PICK gone \in SUBSET Owned(index) :
          /\ disk' = [disk EXCEPT ![index] = Without(@, gone)]
          /\ survivors' = [survivors EXCEPT ![index] = @ \cup
               {Without(disk[index], gone \ {"backup"}),
                Without(disk[index], gone)}]
    BY <1>12 DEF Cleanup
  <2> DEFINE e == Without(disk[index], gone)
             m == Without(disk[index], gone \ {"backup"})
  <2>2. /\ e.path = disk[index].path /\ m.path = disk[index].path
        /\ "backup" \notin gone => e.backup = disk[index].backup
        /\ m.backup = disk[index].backup
    BY WithoutFields
  <2>3. /\ disk'[j] = IF j = index THEN e ELSE disk[j]
        /\ survivors'[j] = IF j = index THEN survivors[j] \cup {m, e} ELSE survivors[j]
    BY <2>1, <1>t, <1>i DEF TypeOK
  <2> HIDE DEF e, m
  <2>4. /\ phase = "cleanup" /\ phase' \in {"cleanup", "returned"} /\ result' = result
        /\ UNCHANGED original_in_backup
    BY <1>12 DEF Cleanup, Advance, write
  <2>5. "backup" \in gone => ~original_in_backup[index]
    BY <2>1 DEF Owned
  <2>6. Safe(j)'
    <3>1. CASE result = "ok"
      BY <3>1, <2>2, <2>3, <2>4, <1>t, <1>k DEF Safe
    <3>2. CASE result # "ok"
      <4>1. /\ "original" \in {m.path, m.backup}
            /\ "original" \in {e.path, e.backup}
        BY <3>2, <2>2, <2>4, <2>5, <1>k DEF Safe, Truthful
      <4> QED
        BY <3>2, <4>1, <2>3, <2>4, <1>t DEF Safe
    <3> QED
      BY <3>1, <3>2
  <2> QED
    BY <2>2, <2>3, <2>4, <2>5, <2>6, <1>t DEF Truthful
<1> QED
  BY <1>1, <1>3, <1>4, <1>5, <1>6, <1>7, <1>8, <1>9, <1>10, <1>11, <1>12 DEF Step

(* At first every original is at its path.                                  *)
LEMMA QuietInit == Init => QuietInv
<1> SUFFICES ASSUME Init, NEW j \in Files PROVE Safe(j) /\ Truthful(j)
  BY DEF QuietInv
<1>1. disk[j] = Pristine /\ survivors[j] = {Pristine} /\ Pristine.path = "original"
  BY NamesFields DEF Init, Pristine
<1> QED
  BY <1>1 DEF Init, Safe, Truthful

(* A power loss leaves one of the recorded survivors, and each is safe.     *)
LEMMA QuietCrash == TypeOK /\ QuietInv /\ Crash => QuietInv'
<1> SUFFICES ASSUME TypeOK, QuietInv, Crash, Quiet', NEW j \in Files
             PROVE  Safe(j)' /\ Truthful(j)'
  BY DEF QuietInv
<1>1. Quiet /\ Safe(j)
  BY DEF Crash, Quiet, QuietInv, world
<1>2. disk'[j] \in survivors[j] /\ survivors' = survivors /\ result' = result
        /\ phase' = "crashed"
  BY DEF Crash
<1> QED
  BY <1>1, <1>2 DEF Safe, Truthful

(* While nobody edits, the originals are safe and the result is truthful.   *)
THEOREM QuietHolds == Spec => []QuietInv
<1>1. Bookkeeping /\ QuietInv /\ [Next]_vars => QuietInv'
  <2> SUFFICES ASSUME Bookkeeping, QuietInv, [Next]_vars PROVE QuietInv'
    OBVIOUS
  <2>1. CASE Step
    <3>1. Quiet' <=> Quiet
      BY <2>1, WriteTypeStep DEF Quiet, world, Bookkeeping
    <3> QED
      BY <2>1, <3>1, QuietStep DEF QuietInv, Files
  <2>2. CASE Crash
    BY <2>2, QuietCrash DEF Bookkeeping
  <2>3. CASE \E i \in Files : Edit(i)
    BY <2>3 DEF Edit, Bookkeeping, TypeOK, QuietInv, Quiet
  <2>4. CASE UNCHANGED vars
    BY <2>4 DEF vars, control, names, write, world, QuietInv, Quiet, Safe, Truthful
  <2> QED
    BY <2>1, <2>2, <2>3, <2>4 DEF Next, QuietNext
<1> QED
  BY <1>1, QuietInit, BookkeepingHolds, PTL DEF Spec

(* With nobody editing, every instant and every outcome of a power loss     *)
(* leaves either all originals (under their paths or their backups) or all  *)
(* formatted files.                                                         *)
THEOREM AllOrNothingHolds == Spec => []AllOrNothing
<1>1. QuietInv => AllOrNothing
  BY DEF QuietInv, Safe, AllOrNothing, OriginalKept
<1> QED
  BY <1>1, QuietHolds, PTL

(* A transaction that reports failure has put every original back, unless a *)
(* restoring rename itself failed.                                          *)
THEOREM FailureRestoresHolds == Spec => []FailureRestores
<1>1. Bookkeeping /\ QuietInv => FailureRestores
  BY DEF Bookkeeping, Taken, QuietInv, Truthful, FailureRestores
<1> QED
  BY <1>1, BookkeepingHolds, QuietHolds, PTL
-----------------------------------------------------------------------------
(* Steps of the transaction leave the path of an early-edited file alone.   *)
LEMMA EarlyStep ==
    ASSUME TypeOK, EarlyInv, Step, NEW i \in Files
    PROVE  /\ PastVerification(i)' => ~EarlyEdited(i)'
           /\ EarlyEdited(i)' => disk'[i].path = "edited"
<1>t. /\ PastVerification(i) => ~EarlyEdited(i)
      /\ phase # "crashed" /\ EarlyEdited(i) => disk[i].path = "edited"
  BY DEF EarlyInv
<1>i. index \in Files /\ index \in 1..N /\ i \in 1..N /\ N \in Nat
  BY NAssumption DEF TypeOK, Files
<1>e. EarlyEdited(i)' <=> EarlyEdited(i)
  BY WriteTypeStep DEF EarlyEdited, world
<1>p. phase # "crashed"
  BY DEF Step, Stat, Format, Stage, Reserve, Verify, Take, Install, Sync, Unlink,
         Flush, Rollback, Cleanup
<1>n. ASSUME NEW e, Rename(index, e), e.path = disk[index].path
      PROVE  disk'[i].path = disk[i].path
  BY <1>n, <1>i, RenameEffect
<1>1. CASE Stat \/ Format
  BY <1>1, <1>t, <1>e, <1>p DEF Stat, Format, Advance, Goto, names, PastVerification
<1>2. CASE Stage
  <2> DEFINE made == Names(disk[index].path, "junk", disk[index].backup)
             full == Names(disk[index].path, "formatted", disk[index].backup)
  <2>1. made.path = disk[index].path /\ full.path = disk[index].path
    BY NamesFields
  <2> HIDE DEF made, full
  <2>2. UNCHANGED names \/ Rename(index, made) \/ disk' = [disk EXCEPT ![index] = full]
    BY <1>2 DEF Stage, made, full
  <2>3. disk'[i].path = disk[i].path
    BY <2>1, <2>2, <1>n, <1>i DEF names, TypeOK
  <2>4. phase' \in {"cleanup", "reserve"}
    BY <1>2 DEF Stage, Fail, Goto
  <2> QED
    BY <2>3, <2>4, <1>t, <1>e, <1>p DEF PastVerification
<1>3. CASE Reserve
  <2> DEFINE e == Names(disk[index].path, disk[index].temporary, "junk")
  <2>1. e.path = disk[index].path
    BY NamesFields
  <2>2. UNCHANGED names \/ Rename(index, e)
    BY <1>3 DEF Reserve
  <2>3. disk'[i].path = disk[i].path
    BY <2>1, <2>2, <1>n DEF names
  <2>4. phase' \in {"cleanup", "stage"} \/ (phase' = "verify" /\ index' = 1)
    BY <1>3 DEF Reserve, Fail, Goto
  <2> QED
    BY <2>3, <2>4, <1>t, <1>e, <1>p, <1>i DEF PastVerification
<1>4. CASE Verify
  <2>1. phase = "verify" /\ UNCHANGED disk
    BY <1>4 DEF Verify, names
  <2>2. CASE Fail
    BY <2>1, <2>2, <1>t, <1>e, <1>p DEF Fail, Goto, PastVerification
  <2>3. CASE Unchanged(index) /\ Advance("take")
    <3>1. ~EarlyEdited(index)
      BY <2>3, <1>i, <1>p DEF Unchanged, EarlyInv
    <3>2. i <= index => ~EarlyEdited(i)
      BY <3>1, <2>1, <1>t, <1>i DEF PastVerification
    <3>3. \/ phase' = "verify" /\ index' = index + 1
          \/ phase' = "take" /\ index = N
      BY <2>1, <2>3, <1>i DEF Advance
    <3> QED
      BY <3>2, <3>3, <2>1, <1>t, <1>e, <1>p, <1>i DEF PastVerification
  <2> QED
    BY <1>4, <2>2, <2>3 DEF Verify
<1>5. CASE Take \/ Install \/ Sync \/ Unlink \/ Flush \/ Rollback
  <2>1. phase \in {"take", "install", "sync", "unlink", "flush", "rollback"}
    BY <1>5 DEF Take, Install, Sync, Unlink, Flush, Rollback
  <2> QED
    BY <2>1, <1>t, <1>e DEF PastVerification
<1>6. CASE Cleanup
  <2>1. PICK gone : disk' = [disk EXCEPT ![index] = Without(@, gone)]
    BY <1>6 DEF Cleanup
  <2>2. Without(disk[index], gone).path = disk[index].path
    BY WithoutFields
  <2>3. disk'[i].path = disk[i].path
    BY <2>1, <2>2, <1>i DEF TypeOK
  <2>4. phase' \in {"cleanup", "returned"}
    BY <1>6 DEF Cleanup, Advance
  <2> QED
    BY <2>3, <2>4, <1>t, <1>e, <1>p DEF PastVerification
<1> QED
  BY <1>1, <1>2, <1>3, <1>4, <1>5, <1>6 DEF Step

(* An edit made before a file is verified, or once the renames are over, is *)
(* still under the file's path whatever the transaction does.               *)
THEOREM EarlyEditSurvivesHolds == Spec => []EarlyEditSurvives
<1>1. Init => EarlyInv
  BY DEF Init, EarlyInv, EarlyEdited
<1>2. TypeOK /\ EarlyInv /\ [Next]_vars => EarlyInv'
  <2> SUFFICES ASSUME TypeOK, EarlyInv, [Next]_vars PROVE EarlyInv'
    OBVIOUS
  <2>1. CASE Step
    BY <2>1, EarlyStep DEF EarlyInv, Files
  <2>2. CASE Crash
    BY <2>2 DEF Crash, EarlyInv, PastVerification
  <2>3. ASSUME NEW i \in Files, Edit(i) PROVE EarlyInv'
    <3>1. PICK c \in {"edited", "original", "absent"} :
            /\ Rename(i, Names(c, disk[i].temporary, disk[i].backup))
            /\ lastEdit' = [lastEdit EXCEPT ![i] = c]
      BY <2>3 DEF Edit
    <3>2. Names(c, disk[i].temporary, disk[i].backup).path = c
      BY NamesFields
    <3>3. UNCHANGED <<phase, index>> /\ when' = [when EXCEPT ![i] = Moment(i)]
      BY <2>3 DEF Edit, control
    <3>4. index \in Nat /\ N \in Nat
      BY NAssumption DEF TypeOK, Files
    <3>5. PastVerification(i) => Moment(i) \in {"window", "moving"}
      BY <3>4 DEF PastVerification, Moment, Files
    <3>6. ASSUME NEW k \in Files
          PROVE  /\ PastVerification(k)' => ~EarlyEdited(k)'
                 /\ phase' # "crashed" /\ EarlyEdited(k)' => disk'[k].path = "edited"
      <4>1. disk'[k] = IF k = i THEN Names(c, disk[i].temporary, disk[i].backup)
                                ELSE disk[k]
        BY <3>1, RenameEffect
      <4>2. PastVerification(k)' <=> PastVerification(k)
        BY <3>3 DEF PastVerification
      <4>3. CASE k = i
        BY <4>1, <4>2, <4>3, <3>1, <3>2, <3>3, <3>5 DEF EarlyEdited, TypeOK
      <4>4. CASE k # i
        BY <4>1, <4>2, <4>4, <3>1, <3>3 DEF EarlyEdited, EarlyInv, TypeOK
      <4> QED
        BY <4>3, <4>4
    <3> QED
      BY <3>6 DEF EarlyInv, Files
  <2>4. CASE UNCHANGED vars
    BY <2>4 DEF vars, control, names, world, EarlyInv, PastVerification, EarlyEdited
  <2> QED
    BY <2>1, <2>2, <2>3, <2>4 DEF Next, QuietNext
<1>3. EarlyInv => EarlyEditSurvives
  BY DEF EarlyInv, EarlyEdited, EarlyEditSurvives
<1> QED
  BY <1>1, <1>2, <1>3, TypeCorrect, PTL DEF Spec
-----------------------------------------------------------------------------
(* Which names a step of the transaction changes: those of one file, and    *)
(* its path only while paths are taken, installed or restored.              *)
LEMMA StepIsLocal ==
    ASSUME TypeOK, Step, NEW j \in Files
    PROVE  /\ j # index => disk'[j] = disk[j]
           /\ phase \notin {"take", "install", "rollback"} => disk'[j].path = disk[j].path
<1>i. index \in Files /\ disk \in [Files -> Entry]
  BY DEF TypeOK
<1>n. ASSUME NEW e, Rename(index, e)
      PROVE  disk'[j] = IF j = index THEN e ELSE disk[j]
  BY <1>n, <1>i, RenameEffect
<1>1. CASE Stat \/ Format \/ Verify \/ Sync \/ Flush
  BY <1>1 DEF Stat, Format, Verify, Sync, Flush, sol_fsync_parent, names
<1>2. CASE Stage
  <2> DEFINE made == Names(disk[index].path, "junk", disk[index].backup)
             full == Names(disk[index].path, "formatted", disk[index].backup)
  <2>1. made.path = disk[index].path /\ full.path = disk[index].path
    BY NamesFields
  <2> HIDE DEF made, full
  <2>2. UNCHANGED names \/ Rename(index, made) \/ disk' = [disk EXCEPT ![index] = full]
    BY <1>2 DEF Stage, made, full
  <2> QED
    BY <2>1, <2>2, <1>n, <1>i DEF names
<1>3. CASE Reserve \/ Unlink
  <2> DEFINE r == Names(disk[index].path, disk[index].temporary, "junk")
             u == Names(disk[index].path, disk[index].temporary, "absent")
  <2>1. r.path = disk[index].path /\ u.path = disk[index].path
    BY NamesFields
  <2> HIDE DEF r, u
  <2>2. UNCHANGED names \/ Rename(index, r) \/ Rename(index, u)
    BY <1>3 DEF Reserve, Unlink, r, u
  <2> QED
    BY <2>1, <2>2, <1>n DEF names
<1>4. CASE Take \/ Install
  BY <1>4, <1>n DEF Take, Install, names
<1>5. CASE Rollback
  BY <1>5, <1>i DEF Rollback, names
<1>6. CASE Cleanup
  <2>1. PICK gone : disk' = [disk EXCEPT ![index] = Without(@, gone)]
    BY <1>6 DEF Cleanup
  <2>2. Without(disk[index], gone).path = disk[index].path
    BY WithoutFields
  <2> QED
    BY <2>1, <2>2, <1>i
<1> QED
  BY <1>1, <1>2, <1>3, <1>4, <1>5, <1>6 DEF Step

(* The refinement mapping, by name.                                         *)
AView == [i \in Files |-> View(disk[i].path)]
ASaved == {i \in Files : OriginalKept(i)}

(* A step of the transaction is a step of AtomicRewrite or leaves its state alone. *)
LEMMA StepRefines ==
    ASSUME Bookkeeping, QuietInv, Quiet, Step, Bookkeeping', QuietInv', Quiet'
    PROVE  Rewrite!Next \/ UNCHANGED <<AView, ASaved, Decision>>
<1> USE DEF Rewrite!Next
<1>t. /\ TypeOK /\ ResultFollows /\ index \in Files /\ result \in {"none", "ok", "failed"}
      /\ \A j \in Files : Taken(j) /\ Staged(j) /\ Safe(j) /\ Truthful(j)
      /\ \A j \in Files : Safe(j)'
  BY DEF Bookkeeping, QuietInv, TypeOK, Files
<1>l. \A j \in Files :
         /\ j # index => disk'[j] = disk[j]
         /\ phase \notin {"take", "install", "rollback"} => disk'[j].path = disk[j].path
  BY <1>t, StepIsLocal
<1>p. phase \notin {"crashed", "returned"} /\ phase' # "crashed"
  BY DEF Step, Stat, Format, Stage, Reserve, Verify, Take, Install, Sync, Unlink,
         Flush, Rollback, Cleanup, RollbackNext, Advance, Goto, Fail
<1>s. /\ result # "ok" => ASaved = Files
      /\ result' # "ok" => ASaved' = Files
  BY <1>t DEF ASaved, OriginalKept, Safe, Files
<1>v. \A j \in Files : View(disk[j].path) \in {"old", "none", "new"}
                       /\ View(disk'[j].path) \in {"old", "none", "new"}
  BY DEF View
<1>1. CASE result = "none" /\ result' = "none"
  <2>1. Decision = "open" /\ Decision' = "open"
    BY <1>1, <1>p DEF Decision
  <2>2. AView' = [AView EXCEPT ![index] = View(disk'[index].path)]
    BY <1>l, <1>t DEF AView, Files, View
  <2>3. Rewrite!Swap(index)
    BY <2>1, <2>2, <1>1, <1>s, <1>v, <1>t DEF Rewrite!Swap, Rewrite!View, AView, ASaved
  <2> QED
    BY <2>3, <1>t
<1>2. CASE result = "none" /\ result' = "failed"
  <2>1. Decision = "open" /\ Decision' = "aborted"
    BY <1>2, <1>p DEF Decision
  <2>2. phase \in {"take", "install"} => disk' = disk
    BY <1>2 DEF Step, Stat, Format, Stage, Reserve, Verify, Take, Install, Sync,
                Unlink, Flush, Rollback, Cleanup, Goto, names
  <2>3. phase # "rollback"
    BY <1>2, <1>t DEF ResultFollows
  <2>4. \A j \in Files : disk'[j].path = disk[j].path
    BY <2>2, <2>3, <1>l
  <2>5. AView' = AView
    BY <2>4 DEF AView, Files, View
  <2>6. Rewrite!Abort
    BY <2>1, <2>5, <1>2, <1>s DEF Rewrite!Abort, AView, ASaved
  <2> QED
    BY <2>6
<1>3. CASE result = "none" /\ result' = "ok"
  <2>1. Decision = "open" /\ Decision' = "committed"
    BY <1>3, <1>p DEF Decision
  <2>2. Sync
    BY <1>3 DEF Step, Stat, Format, Stage, Reserve, Verify, Take, Install,
                Unlink, Flush, Rollback, Cleanup, Goto, Fail, Advance, RollbackNext
  <2>3. disk' = disk /\ phase = "sync"
    BY <2>2 DEF Sync, sol_fsync_parent, names
  <2>4. \A j \in Files : View(disk[j].path) = "new"
    BY <2>3, <1>t DEF Truthful, View
  <2>5. AView' = AView /\ ASaved' = ASaved /\ \A j \in Files : AView[j] = "new"
    BY <2>3, <2>4 DEF AView, ASaved, OriginalKept, View
  <2>6. Rewrite!Commit
    BY <2>1, <2>5 DEF Rewrite!Commit, AView, ASaved
  <2> QED
    BY <2>6
<1>4. CASE result = "failed"
  <2>1. result' = "failed"
    BY <1>4, <1>t DEF ResultFollows, Step, Stat, Format, Stage, Reserve, Verify, Take,
                Install, Sync, Unlink, Flush, Rollback, Cleanup, Goto, Fail, Advance,
                RollbackNext
  <2>2. Decision = "aborted" /\ Decision' = "aborted" /\ ASaved' = ASaved
    BY <2>1, <1>4, <1>p, <1>s DEF Decision
  <2>3. CASE disk'[index].path = disk[index].path
    BY <2>2, <2>3, <1>l DEF AView, Files, View
  <2>4. CASE disk'[index].path # disk[index].path
    <3>1. Rollback
      BY <2>4, <1>4, <1>l, <1>t DEF ResultFollows, Step, Stat, Format, Stage, Reserve,
           Verify, Take, Install, Sync, Unlink, Flush, Cleanup
    <3>2. /\ original_in_backup[index]
          /\ disk' = [disk EXCEPT ![index] =
                        Names(disk[index].backup, disk[index].temporary, "absent")]
      BY <3>1, <2>4 DEF Rollback, names
    <3>3. disk[index].backup = "original"
      BY <3>2, <1>4, <1>p, <1>t DEF Truthful
    <3>4. disk'[index].path = "original"
      BY <3>2, <3>3, <1>t, NamesFields DEF TypeOK
    <3>5. AView' = [AView EXCEPT ![index] = "old"]
      BY <3>4, <1>l, <1>t DEF AView, Files, View
    <3>6. Rewrite!Restore(index)
      BY <3>5, <2>2 DEF Rewrite!Restore, AView, ASaved
    <3> QED
      BY <3>6, <1>t
  <2> QED
    BY <2>3, <2>4
<1>5. CASE result = "ok"
  <2>1. phase \in {"unlink", "flush", "cleanup"} /\ result' = "ok"
    BY <1>5, <1>t DEF ResultFollows, Step, Stat, Format, Stage, Reserve, Verify, Take,
                Install, Sync, Unlink, Flush, Rollback, Cleanup, Goto, Fail, Advance,
                RollbackNext
  <2>2. Decision = "committed" /\ Decision' = "committed"
    BY <2>1, <1>5, <1>p DEF Decision
  <2>3. AView' = AView
    BY <2>1, <1>l DEF AView, Files, View
  <2>4. \A j \in Files : disk[j].path = "formatted" /\ disk'[j].path = "formatted"
    BY <2>1, <1>5, <1>t DEF Safe
  <2>5. disk'[index].backup \in {disk[index].backup, "absent"}
    <3>1. CASE Unlink
      <4> DEFINE e == Names(disk[index].path, disk[index].temporary, "absent")
      <4>1. e.backup = "absent"
        BY DEF Names
      <4> HIDE DEF e
      <4>2. UNCHANGED names \/ Rename(index, e)
        BY <3>1 DEF Unlink, e
      <4>3. Rename(index, e) => disk'[index] = e
        BY <1>t, RenameEffect
      <4> QED
        BY <4>1, <4>2, <4>3 DEF names
    <3>2. CASE Cleanup
      <4>1. PICK gone : disk' = [disk EXCEPT ![index] = Without(@, gone)]
        BY <3>2 DEF Cleanup
      <4>2. Without(disk[index], gone).backup \in {disk[index].backup, "absent"}
        BY WithoutFields
      <4> QED
        BY <4>1, <4>2, <1>t DEF TypeOK
    <3>3. CASE Flush
      BY <3>3 DEF Flush, sol_fsync_parent, names
    <3> QED
      BY <3>1, <3>2, <3>3, <2>1 DEF Step, Stat, Format, Stage, Reserve, Verify, Take,
                Install, Sync, Rollback
  <2>6. ASaved' = ASaved \/ ASaved' = ASaved \ {index}
    <3>1. ASaved = {j \in Files : disk[j].backup = "original"}
      BY <2>4 DEF ASaved, OriginalKept
    <3>2. ASaved' = {j \in Files : disk'[j].backup = "original"}
      BY <2>4 DEF ASaved, OriginalKept, Files
    <3>3. CASE disk'[index].backup = disk[index].backup
      BY <3>1, <3>2, <3>3, <1>l
    <3>4. CASE disk'[index].backup = "absent"
      BY <3>1, <3>2, <3>4, <1>l
    <3> QED
      BY <2>5, <3>3, <3>4
  <2>7. CASE ASaved' = ASaved
    BY <2>2, <2>3, <2>7
  <2>8. CASE ASaved' = ASaved \ {index}
    <3>1. Rewrite!Discard(index)
      BY <2>2, <2>3, <2>8 DEF Rewrite!Discard, AView, ASaved
    <3> QED
      BY <3>1, <1>t
  <2> QED
    BY <2>6, <2>7, <2>8
<1> QED
  BY <1>1, <1>2, <1>3, <1>4, <1>5, <1>t DEF Bookkeeping, TypeOK

(* A power loss during the transaction is one that AtomicRewrite allows.     *)
LEMMA CrashRefines ==
    ASSUME Bookkeeping, QuietInv, Quiet, Crash
    PROVE  Rewrite!Crash
<1>t. \A j \in Files : Safe(j)
  BY DEF QuietInv
<1>1. /\ phase # "crashed" /\ phase' = "crashed" /\ result' = result
      /\ \A j \in Files : disk'[j] \in survivors[j]
  BY DEF Crash
<1>2. Decision' = "crashed" /\ Decision # "crashed" /\ (Decision = "committed" <=> result = "ok")
  BY <1>1 DEF Decision
<1>3. CASE result = "ok"
  <2>1. \A j \in Files : disk[j].path = "formatted" /\ disk'[j].path = "formatted"
    BY <1>3, <1>1, <1>t DEF Safe
  <2>2. AView' = AView
    BY <2>1 DEF AView, Files, View
  <2>3. ASaved' \in SUBSET Files
    BY DEF ASaved, Files
  <2> QED
    BY <1>2, <1>3, <2>2, <2>3 DEF Rewrite!Crash, AView, ASaved
<1>4. CASE result # "ok"
  <2>1. AView' \in [Files -> {"old", "none", "new"}]
    BY DEF AView, Files, View
  <2>2. ASaved = Files /\ ASaved' = Files
    BY <1>1, <1>4, <1>t DEF ASaved, OriginalKept, Safe, Files
  <2> QED
    BY <1>2, <1>4, <2>1, <2>2 DEF Rewrite!Crash, Rewrite!View, AView, ASaved
<1> QED
  BY <1>3, <1>4

(* With nobody editing, the write transaction implements the abstract       *)
(* promise of AtomicRewrite, for every number of files and every pattern of *)
(* failing calls and power losses.                                          *)
THEOREM Refinement == QuietSpec => ImplementsRewrite
<1>1. Init => Rewrite!Init
  <2> SUFFICES ASSUME Init PROVE Rewrite!Init
    OBVIOUS
  <2>1. \A i \in Files : disk[i].path = "original"
    BY NamesFields DEF Init, Pristine
  <2>2. [i \in Files |-> View(disk[i].path)] = [i \in Files |-> "old"]
    BY <2>1 DEF View
  <2>3. {i \in Files : OriginalKept(i)} = Files
    BY <2>1 DEF OriginalKept
  <2>4. Decision = "open"
    BY DEF Init, Decision
  <2> QED
    BY <2>2, <2>3, <2>4 DEF Rewrite!Init
<1>2. Init /\ [][QuietNext]_vars => Spec
  <2>1. [QuietNext]_vars => [Next]_vars
    BY DEF Next
  <2> QED
    BY <2>1, PTL DEF Spec
<1>3. Init => Quiet
  BY DEF Init, Quiet
<1>4. Bookkeeping /\ Quiet /\ [QuietNext]_vars => Quiet'
  BY WriteTypeStep DEF Bookkeeping, Quiet, QuietNext, Crash, vars, world
<1>5. /\ Bookkeeping /\ QuietInv /\ Quiet /\ Bookkeeping' /\ QuietInv' /\ Quiet'
      /\ [QuietNext]_vars
      => [Rewrite!Next]_(Rewrite!vars)
  <2> SUFFICES ASSUME Bookkeeping, QuietInv, Quiet, Bookkeeping', QuietInv', Quiet',
                      [QuietNext]_vars
               PROVE  Rewrite!Next \/ UNCHANGED <<AView, ASaved, Decision>>
    BY DEF Rewrite!vars, AView, ASaved
  <2>1. CASE Step
    BY <2>1, StepRefines
  <2>2. CASE Crash
    BY <2>2, CrashRefines DEF Rewrite!Next
  <2>3. CASE UNCHANGED vars
    BY <2>3 DEF vars, control, names, AView, ASaved, Decision, OriginalKept, View
  <2> QED
    BY <2>1, <2>2, <2>3 DEF QuietNext
<1> QED
  BY <1>1, <1>2, <1>3, <1>4, <1>5, BookkeepingHolds, QuietHolds, PTL
     DEF QuietSpec, ImplementsRewrite, Rewrite!Spec
=============================================================================

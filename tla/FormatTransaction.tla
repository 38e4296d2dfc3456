------------------------- MODULE FormatTransaction -------------------------
(***************************************************************************)
(* The in-place rewrite of `sol fmt` (src/src/main.c): sol_fmt_path from    *)
(* the point where the package is loaded, sol_format_write_transaction, its *)
(* rollback and its cleanup.  One file of the model is one SolFormatWrite,  *)
(* a package file whose formatted text differs from its source.             *)
(*                                                                          *)
(* A file owns three sibling names: its path, the staging file and the      *)
(* backup.  `disk` says what each name holds now; `survivors` holds every   *)
(* state of the three names a power loss may leave: the state at the last   *)
(* fsync of the parent directory and every state since (metadata changes of *)
(* one directory reach the disk in order).  Every system call may fail, and *)
(* an editor may touch a path between any two steps.                        *)
(***************************************************************************)
EXTENDS Integers, FiniteSets

CONSTANTS N,         \* number of files to rewrite (`count`)
          MaxEdits   \* bound: edits made by other programs

ASSUME NAssumption == N \in Nat \ {0}
ASSUME MaxEditsAssumption == MaxEdits \in Nat

VARIABLES phase,               \* the loop the transaction is in
          index,               \* the file that loop is at
          result,              \* the value the transaction returns
          disk,                \* what the names of each file hold
          survivors,           \* what a power loss may leave of them
          temporary,           \* write->temporary is not NULL
          backup,              \* write->backup is not NULL
          original_in_backup,
          edits,               \* edits so far
          lastEdit,            \* what the last edit left under the path
          when,                \* where in the transaction that edit fell
          faults               \* calls that failed and left a name behind

control == <<phase, index, result>>
names == <<disk, survivors>>
write == <<temporary, backup, original_in_backup>>
world == <<edits, lastEdit, when>>
vars == <<control, names, write, world, faults>>

Files == 1..N

Content == {"original", "formatted", "edited", "junk", "absent"}

Entry == [path : Content, temporary : Content, backup : Content]

Names(p, t, b) == [path |-> p, temporary |-> t, backup |-> b]

Phases == {"stat", "format", "stage", "reserve", "verify", "take", "install",
           "sync", "unlink", "flush", "rollback", "cleanup", "returned",
           "crashed"}

(* Where an edit of file i falls: before its verification, between that and *)
(* the rename that moves it aside, while paths are being moved, or once     *)
(* they no longer are.                                                      *)
Moment(i) ==
    CASE phase \in {"stat", "format", "stage", "reserve"} -> "early"
      [] phase = "verify" -> IF index > i THEN "window" ELSE "early"
      [] phase \in {"take", "install"} -> IF index > i \/ (index = i /\ phase = "install")
                                          THEN "moving" ELSE "window"
      [] phase \in {"sync", "unlink", "flush", "rollback"} -> "moving"
      [] OTHER -> "settled"

TypeOK ==
    /\ phase \in Phases
    /\ index \in Files
    /\ result \in {"none", "ok", "failed"}
    /\ disk \in [Files -> Entry]
    /\ survivors \in [Files -> SUBSET Entry]
    /\ temporary \in [Files -> BOOLEAN]
    /\ backup \in [Files -> BOOLEAN]
    /\ original_in_backup \in [Files -> BOOLEAN]
    /\ edits \in 0..MaxEdits
    /\ lastEdit \in [Files -> {"none", "edited", "original", "absent"}]
    /\ when \in [Files -> {"never", "early", "window", "moving", "settled"}]
    /\ faults \subseteq {"unlink", "restore"}

Pristine == Names("original", "absent", "absent")

(* The package is loaded: "original" is by definition what the load read.   *)
Init ==
    /\ phase = "stat" /\ index = 1 /\ result = "none"
    /\ disk = [i \in Files |-> Pristine]
    /\ survivors = [i \in Files |-> {Pristine}]
    /\ temporary = [i \in Files |-> FALSE]
    /\ backup = [i \in Files |-> FALSE]
    /\ original_in_backup = [i \in Files |-> FALSE]
    /\ edits = 0
    /\ lastEdit = [i \in Files |-> "none"]
    /\ when = [i \in Files |-> "never"]
    /\ faults = {}
-----------------------------------------------------------------------------
(* Control: a loop over the files goes on to the next file or, after the    *)
(* last one, to the next phase; an early return goes to the cleanup loop.   *)
Advance(next) ==
    /\ IF index < N THEN index' = index + 1 /\ phase' = phase
                    ELSE index' = 1 /\ phase' = next
    /\ UNCHANGED result

Goto(p, i, r) == phase' = p /\ index' = i /\ result' = r

Fail == Goto("cleanup", 1, "failed")

(* Names: a change of one file's names, and the fsync of its directory.     *)
Rename(i, e) ==
    /\ disk' = [disk EXCEPT ![i] = e]
    /\ survivors' = [survivors EXCEPT ![i] = @ \cup {e}]

sol_fsync_parent(i) ==
    /\ survivors' = [survivors EXCEPT ![i] = {disk[i]}]
    /\ UNCHANGED disk
-----------------------------------------------------------------------------
(* lstat of every loaded path; nothing is written yet, so a failure returns *)
(* at once.                                                                 *)
Stat ==
    /\ phase = "stat"
    /\ \/ /\ disk[index].path # "absent"
          /\ Advance("format")
       \/ Goto("returned", 1, "failed")
    /\ UNCHANGED <<names, write, world, faults>>

(* sol_format_source of every file: all succeed, or nothing is written.     *)
Format ==
    /\ phase = "format"
    /\ \/ Goto("stage", 1, "none")
       \/ Goto("returned", 1, "failed")
    /\ UNCHANGED <<names, write, world, faults>>

(* Create the staging sibling, write the formatted text, copy the mode,     *)
(* fsync and close it.                                                      *)
Stage ==
    /\ phase = "stage"
    /\ LET e == disk[index]
           made == Names(e.path, "junk", e.backup)
           full == Names(e.path, "formatted", e.backup)
       IN \/ /\ Fail
             /\ UNCHANGED <<names, temporary>>
          \/ /\ Fail
             /\ Rename(index, made)
             /\ temporary' = [temporary EXCEPT ![index] = TRUE]
          \/ /\ Goto("reserve", index, result)
             /\ disk' = [disk EXCEPT ![index] = full]
             /\ survivors' = [survivors EXCEPT ![index] = @ \cup {made, full}]
             /\ temporary' = [temporary EXCEPT ![index] = TRUE]
    /\ UNCHANGED <<backup, original_in_backup, world, faults>>

(* Reserve the backup name with an empty sibling; its close may still fail. *)
Reserve ==
    /\ phase = "reserve"
    /\ \/ /\ Fail
          /\ UNCHANGED <<names, backup>>
       \/ /\ Rename(index, Names(disk[index].path, disk[index].temporary, "junk"))
          /\ backup' = [backup EXCEPT ![index] = TRUE]
          /\ \/ Fail
             \/ IF index < N THEN Goto("stage", index + 1, result)
                             ELSE Goto("verify", 1, result)
    /\ UNCHANGED <<temporary, original_in_backup, world, faults>>

(* Mutant: the bytes are not compared, only that the path is a file.        *)
UnchangedNoBytes(i) == disk[i].path # "absent"

(* sol_format_write_unchanged: a file goes through only if its bytes are    *)
(* the ones that were formatted.  It is also turned away when a call fails  *)
(* or its status is not the one lstat saw: with timestamps in whole seconds *)
(* that may or may not happen to a file whose bytes are the same.           *)
Unchanged(i) == disk[i].path = "original"

Verify ==
    /\ phase = "verify"
    /\ \/ Unchanged(index) /\ Advance("take")
       \/ Fail
    /\ UNCHANGED <<names, write, world, faults>>

(* rename(path, backup)                                                     *)
Take ==
    /\ phase = "take"
    /\ \/ /\ disk[index].path # "absent"
          /\ Rename(index, Names("absent", disk[index].temporary, disk[index].path))
          /\ original_in_backup' = [original_in_backup EXCEPT ![index] = TRUE]
          /\ Goto("install", index, result)
       \/ /\ Goto("rollback", index, "failed")
          /\ UNCHANGED <<names, original_in_backup>>
    /\ UNCHANGED <<temporary, backup, world, faults>>

(* Mutant: a failed install rolls back only the files before this one       *)
(* (`committed` instead of `committed + 1`).                                *)
InstallSkipsOwnRollback ==
    /\ phase = "install"
    /\ \/ /\ Rename(index, Names(disk[index].temporary, "absent", disk[index].backup))
          /\ temporary' = [temporary EXCEPT ![index] = FALSE]
          /\ IF index < N THEN Goto("take", index + 1, result)
                          ELSE Goto("sync", 1, result)
       \/ /\ IF index > 1 THEN Goto("rollback", index - 1, "failed")
                          ELSE Fail
          /\ UNCHANGED <<names, temporary>>
    /\ UNCHANGED <<backup, original_in_backup, world, faults>>

(* rename(temporary, path)                                                  *)
Install ==
    /\ phase = "install"
    /\ \/ /\ Rename(index, Names(disk[index].temporary, "absent", disk[index].backup))
          /\ temporary' = [temporary EXCEPT ![index] = FALSE]
          /\ IF index < N THEN Goto("take", index + 1, result)
                          ELSE Goto("sync", 1, result)
       \/ /\ Goto("rollback", index, "failed")
          /\ UNCHANGED <<names, temporary>>
    /\ UNCHANGED <<backup, original_in_backup, world, faults>>

(* Mutant: the parent directories are not synced before the backups go.     *)
SyncSkipped ==
    /\ phase = "sync"
    /\ Goto("unlink", 1, "ok")
    /\ UNCHANGED <<names, write, world, faults>>

(* Make every rename durable before any backup is given up.                 *)
Sync ==
    /\ phase = "sync"
    /\ \/ /\ sol_fsync_parent(index)
          /\ IF index < N THEN Goto("sync", index + 1, result)
                          ELSE Goto("unlink", 1, "ok")
       \/ /\ Goto("rollback", N, "failed")
          /\ UNCHANGED names
    /\ UNCHANGED <<write, world, faults>>

(* unlink(backup); a failure is a warning and keeps the backup.             *)
Unlink ==
    /\ phase = "unlink"
    /\ \/ /\ Rename(index, Names(disk[index].path, disk[index].temporary, "absent"))
          /\ backup' = [backup EXCEPT ![index] = FALSE]
          /\ original_in_backup' = [original_in_backup EXCEPT ![index] = FALSE]
          /\ UNCHANGED faults
       \/ /\ faults' = faults \cup {"unlink"}
          /\ UNCHANGED <<names, backup, original_in_backup>>
    /\ Advance("flush")
    /\ UNCHANGED <<temporary, world>>

Flush ==
    /\ phase = "flush"
    /\ sol_fsync_parent(index) \/ UNCHANGED names
    /\ Advance("cleanup")
    /\ UNCHANGED <<write, world, faults>>
-----------------------------------------------------------------------------

(* Mutants: the loop runs one file too far, or never counts down.           *)
RollbackNextTooFar ==
    IF index > 0 THEN Goto("rollback", index - 1, result)
                 ELSE Goto("cleanup", 1, result)

RollbackNextStuck ==
    IF index > 1 THEN Goto("rollback", index, result)
                 ELSE Goto("cleanup", 1, result)

(* sol_rollback_format_writes, one file per step from the last one touched  *)
(* down to the first; its return value is not used.                         *)
RollbackNext ==
    IF index > 1 THEN Goto("rollback", index - 1, result)
                 ELSE Goto("cleanup", 1, result)

Rollback ==
    /\ phase = "rollback"
    /\ LET restored == Names(disk[index].backup, disk[index].temporary, "absent")
       IN \/ /\ ~original_in_backup[index]
             /\ UNCHANGED <<names, backup, original_in_backup, faults>>
          \/ /\ original_in_backup[index]
             /\ faults' = faults \cup {"restore"}
             /\ UNCHANGED <<names, backup, original_in_backup>>
          \/ /\ original_in_backup[index]
             /\ disk' = [disk EXCEPT ![index] = restored]
             /\ \E s \in {{restored}, survivors[index] \cup {restored}} :
                  survivors' = [survivors EXCEPT ![index] = s]
             /\ backup' = [backup EXCEPT ![index] = FALSE]
             /\ original_in_backup' = [original_in_backup EXCEPT ![index] = FALSE]
             /\ UNCHANGED faults
    /\ RollbackNext
    /\ UNCHANGED <<temporary, world>>

(* Mutants: the cleanup forgets the backup reservations, or does not ask    *)
(* whether a backup holds the original.                                     *)
OwnedTemporaryOnly(i) == IF temporary[i] THEN {"temporary"} ELSE {}

OwnedEveryBackup(i) ==
    (IF temporary[i] THEN {"temporary"} ELSE {})
      \cup (IF backup[i] THEN {"backup"} ELSE {})

(* sol_format_writes_cleanup: unlink what this run created and still owns.  *)
(* A backup that holds the original is never unlinked here.                 *)
Owned(i) ==
    (IF temporary[i] THEN {"temporary"} ELSE {})
      \cup (IF backup[i] /\ ~original_in_backup[i] THEN {"backup"} ELSE {})

Without(e, gone) ==
    Names(e.path,
          IF "temporary" \in gone THEN "absent" ELSE e.temporary,
          IF "backup" \in gone THEN "absent" ELSE e.backup)

Cleanup ==
    /\ phase = "cleanup"
    /\ \E gone \in SUBSET Owned(index) :
         /\ disk' = [disk EXCEPT ![index] = Without(@, gone)]
         /\ survivors' = [survivors EXCEPT ![index] = @ \cup
              {Without(disk[index], gone \ {"backup"}),
               Without(disk[index], gone)}]
         /\ faults' = IF gone = Owned(index) THEN faults
                                             ELSE faults \cup {"unlink"}
    /\ Advance("returned")
    /\ UNCHANGED <<write, world>>
-----------------------------------------------------------------------------
(* The environment.  Another program saves, restores or deletes a file...   *)
Edit(i) ==
    /\ phase # "crashed"
    /\ edits < MaxEdits
    /\ \E c \in {"edited", "original", "absent"} :
         /\ c # disk[i].path
         /\ Rename(i, Names(c, disk[i].temporary, disk[i].backup))
         /\ lastEdit' = [lastEdit EXCEPT ![i] = c]
    /\ edits' = edits + 1
    /\ when' = [when EXCEPT ![i] = Moment(i)]
    /\ UNCHANGED <<control, write, faults>>

(* ... and the machine may lose power, or the process be killed, at any     *)
(* point, also after the transaction has returned.                          *)
Crash ==
    /\ phase # "crashed"
    /\ phase' = "crashed"
    /\ \E left \in [Files -> UNION {survivors[i] : i \in Files}] :
         /\ \A i \in Files : left[i] \in survivors[i]
         /\ disk' = left
    /\ UNCHANGED <<index, result, survivors, write, world, faults>>

Step ==
    \/ Stat \/ Format \/ Stage \/ Reserve \/ Verify
    \/ Take \/ Install \/ Sync \/ Unlink \/ Flush
    \/ Rollback \/ Cleanup

QuietNext == Step \/ Crash

Next == QuietNext \/ \E i \in Files : Edit(i)

(* Nobody else writes to the package.                                       *)
QuietSpec == Init /\ [][QuietNext]_vars

Spec == Init /\ [][Next]_vars

FairSpec == QuietSpec /\ WF_vars(Step)
-----------------------------------------------------------------------------
(***************************************************************************)
(* Properties.                                                              *)
(***************************************************************************)
Quiet == edits = 0

OriginalKept(i) == "original" \in {disk[i].path, disk[i].backup}

(* At every instant, including whatever a power loss leaves, the package    *)
(* can be brought to one of the two states a user may want: every original  *)
(* still exists under its path or its backup, or every path already holds   *)
(* the formatted text.  The code owes this to syncing all renames before it *)
(* unlinks the first backup, and to a rollback and a cleanup that never     *)
(* drop a backup holding an original.                                       *)
AllOrNothing ==
    Quiet => \/ \A i \in Files : OriginalKept(i)
             \/ \A i \in Files : disk[i].path = "formatted"

(* When the transaction returns false and no restoring rename failed, every *)
(* path holds its original again, wherever in the staging, the verification,*)
(* the renames or the syncs the failure struck.                             *)
FailureRestores ==
    (Quiet /\ phase = "returned" /\ result = "failed" /\ "restore" \notin faults)
      => \A i \in Files : disk[i].path = "original"

(* When the transaction returns and no unlink or restoring rename failed,   *)
(* no staging file and no backup is left beside the sources, whether or not *)
(* an editor interfered.                                                    *)
NoLitter ==
    (phase = "returned" /\ faults = {})
      => \A i \in Files : disk[i].temporary = "absent" /\ disk[i].backup = "absent"

(* An edit made before the file is verified, even one that slips in between *)
(* the load and the lstat, is never overwritten or moved: the byte          *)
(* comparison turns the whole transaction away.  An edit made once the      *)
(* renames are over survives as well.                                       *)
EarlyEditSurvives ==
    \A i \in Files :
      (phase # "crashed" /\ when[i] \in {"early", "settled"} /\ lastEdit[i] = "edited")
        => disk[i].path = "edited"

(* docs/compiler-status.md says the rewrite detects concurrent source       *)
(* changes before commit: an edit that is there when its file is about to   *)
(* be committed is not lost to a transaction that returns true.             *)
EditBeforeCommitSurvives ==
    \A i \in Files :
      (phase = "returned" /\ result = "ok" /\ when[i] = "window" /\ lastEdit[i] = "edited")
        => "edited" \in {disk[i].path, disk[i].backup}

(* With nobody else writing, the transaction keeps the abstract promise of  *)
(* AtomicRewrite: it is decided once all renames are durable.               *)
View(c) == CASE c = "original" -> "old"
             [] c = "formatted" -> "new"
             [] OTHER -> "none"

Decision ==
    CASE phase = "crashed" -> "crashed"
      [] phase # "crashed" /\ result = "ok" -> "committed"
      [] phase # "crashed" /\ result = "failed" -> "aborted"
      [] OTHER -> "open"

Rewrite == INSTANCE AtomicRewrite
             WITH view <- [i \in Files |-> View(disk[i].path)],
                  saved <- {i \in Files : OriginalKept(i)},
                  decision <- Decision

ImplementsRewrite == Rewrite!Spec

(* The transaction ends: every loop, the rollback's downward one included,  *)
(* is left.                                                                 *)
Ends == <>(phase \in {"returned", "crashed"})
=============================================================================

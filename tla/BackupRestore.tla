---------------------------- MODULE BackupRestore ----------------------------
(***************************************************************************)
(* Restoring a backup: the upload is staged beside the live database       *)
(* (backup_service.py) and swapped in when the process next starts         *)
(* (core/backup_restore.py), file by file, before anything opens it.       *)
(*                                                                         *)
(* A database is the set of the commits in it, in its main file or in the  *)
(* -wal beside it; whoever opens a main file reads whatever -wal lies next *)
(* to it.  The boot may die between any two file operations.  What leaves  *)
(* a -wal behind when the server stops is SQLite's business: any stop may. *)
(***************************************************************************)
EXTENDS Integers, Sequences, SequencesExt

CONSTANTS
    MaxCommits,    \* bound: commits ever made
    KeepReplaced,  \* _KEEP_REPLACED
    MaxRestores,   \* bound: restores staged
    MaxFaults      \* bound: boots that die, staged files that spoil

ASSUME RestoreAssumption ==
    /\ MaxCommits \in Nat
    /\ KeepReplaced \in Nat \ {0}
    /\ MaxRestores \in Nat
    /\ MaxFaults \in Nat

VARIABLES
    server,     \* up, down, or how far the boot's swap has come
    main, wal,  \* the live database's two files
    pending,    \* <db>.pending-restore
    kept,       \* <db>.pre-restore-*, oldest first
    exports,    \* the backups the operator has
    truth,      \* ghost: what the live database has to hold
    emptied,    \* ghost: the staged file was refused when the old one was gone
    lastCommit, restores, faults

ghosts == <<truth, emptied>>
restoreVars == <<server, main, wal, pending, kept, exports, ghosts, lastCommit,
                 restores, faults>>

Commits == 1..MaxCommits
NoFile == [there |-> FALSE, data |-> {}, readable |-> TRUE]
File(data) == [there |-> TRUE, data |-> data, readable |-> TRUE]
Files == [there : BOOLEAN, data : SUBSET Commits, readable : BOOLEAN]
Retained == [data : SUBSET Commits, wal : SUBSET Commits, whole : SUBSET Commits]

RestoreTypeOK ==
    /\ server \in {"up", "down", "aside", "walAside", "cleared", "placed"}
    /\ main \in Files /\ pending \in Files
    /\ wal \subseteq Commits
    /\ kept \in Seq(Retained)
    /\ exports \subseteq SUBSET Commits
    /\ truth \subseteq Commits /\ emptied \in BOOLEAN
    /\ lastCommit \in 0..MaxCommits /\ restores \in 0..MaxRestores /\ faults \in 0..MaxFaults

-----------------------------------------------------------------------------
(* A running server.                                                       *)

CommitWork ==
    /\ server = "up" /\ lastCommit < MaxCommits
    /\ lastCommit' = lastCommit + 1
    /\ wal' = wal \cup {lastCommit'}
    /\ truth' = truth \cup {lastCommit'}
    /\ UNCHANGED <<server, main, pending, kept, exports, emptied, restores, faults>>

\* SQLite's own, and what a clean stop does last.
Checkpoint ==
    /\ server = "up" /\ wal # {}
    /\ main' = File(main.data \cup wal)
    /\ wal' = {}
    /\ UNCHANGED <<server, pending, kept, exports, ghosts, lastCommit, restores, faults>>

\* create_backup_snapshot reads through the WAL.
CreateSnapshot ==
    /\ server = "up"
    /\ exports' = exports \cup {main.data \cup wal}
    /\ UNCHANGED <<server, main, wal, pending, kept, ghosts, lastCommit, restores, faults>>

\* stage_restore: an export, or a retained copy's main file, to undo a restore.
\* A later upload takes the place of the one that waits.
Uploads == exports \cup {kept[i].data : i \in 1..Len(kept)}

StageRestore(data) ==
    /\ server = "up" /\ restores < MaxRestores
    /\ restores' = restores + 1
    /\ pending' = File(data)
    /\ UNCHANGED <<server, main, wal, kept, exports, ghosts, lastCommit, faults>>

ClearPending ==
    /\ server = "up" /\ pending.there
    /\ pending' = NoFile
    /\ UNCHANGED <<server, main, wal, kept, exports, ghosts, lastCommit, restores, faults>>

Stop ==
    /\ server = "up"
    /\ server' = "down"
    /\ UNCHANGED <<main, wal, pending, kept, exports, ghosts, lastCommit, restores, faults>>

-----------------------------------------------------------------------------
(* The next start: apply_pending_restore_if_present.                       *)

\* The staged file is damaged on disk, or an older build is about to start.
Spoils ==
    /\ server = "down" /\ pending.there /\ pending.readable /\ faults < MaxFaults
    /\ faults' = faults + 1
    /\ pending' = [pending EXCEPT !.readable = FALSE]
    /\ UNCHANGED <<server, main, wal, kept, exports, ghosts, lastCommit, restores>>

\* Mutant of Start: a refused file is left where it is.
StartLeavesPending ==
    /\ server = "down"
    /\ ~pending.there \/ ~pending.readable
    /\ server' = "up"
    /\ main' = File(main.data)
    /\ emptied' = (emptied \/ ~main.there)
    /\ UNCHANGED <<wal, pending, kept, exports, truth, lastCommit, restores, faults>>

\* Nothing staged, or a refused file set aside: the database is opened as it
\* is, or created where a boot that died has moved it away.
Start ==
    /\ server = "down"
    /\ ~pending.there \/ ~pending.readable
    /\ pending' = NoFile
    /\ server' = "up"
    /\ main' = File(main.data)
    /\ emptied' = (emptied \/ ~main.there)
    /\ UNCHANGED <<wal, kept, exports, truth, lastCommit, restores, faults>>

Applies == server = "down" /\ pending.there /\ pending.readable

\* _retain_replaced_database, rename by rename.
MoveAside ==
    /\ Applies /\ main.there
    /\ kept' = Append(kept, [data |-> main.data, wal |-> {}, whole |-> main.data \cup wal])
    /\ main' = NoFile
    /\ server' = "aside"
    /\ UNCHANGED <<wal, pending, exports, ghosts, lastCommit, restores, faults>>

MoveWalAside ==
    /\ server = "aside"
    /\ kept' = [kept EXCEPT ![Len(kept)].wal = wal]
    /\ wal' = {}
    /\ server' = "walAside"
    /\ UNCHANGED <<main, pending, exports, ghosts, lastCommit, restores, faults>>

\* _fold_wal_into is best effort.
FoldWal ==
    /\ server = "walAside"
    /\ \/ LET copy == Last(kept) IN
          kept' = [kept EXCEPT ![Len(kept)] =
                     [copy EXCEPT !.data = @ \cup copy.wal, !.wal = {}]]
       \/ UNCHANGED kept
    /\ server' = "cleared"
    /\ UNCHANGED <<main, wal, pending, exports, ghosts, lastCommit, restores, faults>>

\* Mutant of DropWal: without a main file nothing is taken away.
DropWalNot ==
    /\ Applies /\ ~main.there
    /\ server' = "cleared"
    /\ UNCHANGED <<main, wal, pending, kept, exports, ghosts, lastCommit, restores, faults>>

\* No main file: what is left of it is taken away.
DropWal ==
    /\ Applies /\ ~main.there
    /\ wal' = {}
    /\ server' = "cleared"
    /\ UNCHANGED <<main, pending, kept, exports, ghosts, lastCommit, restores, faults>>

MoveIntoPlace ==
    /\ server = "cleared"
    /\ main' = pending
    /\ pending' = NoFile
    /\ truth' = pending.data /\ emptied' = FALSE
    /\ server' = "placed"
    /\ UNCHANGED <<wal, kept, exports, lastCommit, restores, faults>>

\* _prune_retained_copies; then the server starts.
Newest(copies) == SubSeq(copies, Len(copies) - KeepReplaced + 1, Len(copies))

PruneCopies ==
    /\ server = "placed"
    /\ kept' = IF Len(kept) > KeepReplaced THEN Newest(kept) ELSE kept
    /\ server' = "up"
    /\ UNCHANGED <<main, wal, pending, exports, ghosts, lastCommit, restores, faults>>

BootDies ==
    /\ server \notin {"up", "down"} /\ faults < MaxFaults
    /\ faults' = faults + 1
    /\ server' = "down"
    /\ UNCHANGED <<main, wal, pending, kept, exports, ghosts, lastCommit, restores>>

-----------------------------------------------------------------------------
RestoreInit ==
    /\ server = "up" /\ main = File({}) /\ wal = {}
    /\ pending = NoFile /\ kept = <<>> /\ exports = {} /\ truth = {} /\ emptied = FALSE
    /\ lastCommit = 0 /\ restores = 0 /\ faults = 0

BootStep ==
    \/ Start \/ MoveAside \/ MoveWalAside \/ FoldWal \/ DropWal
    \/ MoveIntoPlace \/ PruneCopies

RestoreNext ==
    \/ CommitWork \/ Checkpoint \/ CreateSnapshot \/ ClearPending \/ Stop \/ Spoils
    \/ \E data \in Uploads : StageRestore(data)
    \/ BootStep \/ BootDies

\* The container is restarted until it runs.
RestoreFairness == WF_restoreVars(BootStep)

RestoreSpec == RestoreInit /\ [][RestoreNext]_restoreVars
-----------------------------------------------------------------------------
(* Properties.                                                             *)

\* A server that runs has the database it had, or the one that was staged, in
\* full and with nothing of the other's -wal, wherever boots died; all but the
\* one that refuses the staged file when a boot that died has moved the old
\* database away.
LiveIsWhole == server = "up" /\ ~emptied => main.data \cup wal = truth

\* No staged file reports "restore pending" for ever while every boot refuses
\* it: a boot that runs has applied it or set it aside.
BootsLeaveNothing == [][server # "up" /\ server' = "up" => ~pending'.there]_restoreVars

RestoreSettles == []<>(server = "up") /\ BootsLeaveNothing

\* "The WAL goes with it": the copy kept of a replaced database has all of it.
RetainedIsWhole ==
    server = "up" => \A i \in 1..Len(kept) : kept[i].data \cup kept[i].wal = kept[i].whole
=============================================================================

---------------------------- MODULE BookmarkSync ----------------------------
(***************************************************************************)
(* Bookmarks, offline first: the phone's rows and outbox                   *)
(* (bookmarks_dao.dart), the controller that pushes and pulls them         *)
(* (bookmark_outbox_provider.dart) and the server's merge                  *)
(* (bookmark_service.py), with other devices, the web and a switch of      *)
(* profile in between.                                                     *)
(*                                                                         *)
(* A bookmark is its tombstone flag and the clock that last-write-wins     *)
(* compares.  The controller has no mutex: a tap and the lifecycle gate    *)
(* run its methods at the same time, each as a flow with its own locals.   *)
(* Outbox rows are ops in the order of their ids; no two are equal, since  *)
(* an id is minted once and tombstoned once.                               *)
(***************************************************************************)
EXTENDS Integers, Sequences, SequencesExt, SeqFilter

CONSTANTS
    BookmarkProfiles,
    BookmarkIds,     \* client ids
    Owner,           \* the profile in which each id is minted
    LastStamp,       \* bound: the clocks' values
    ChunkOps,        \* kBookmarkBatchMaxItems
    MaxEdits,        \* bound: what other devices and the web send
    MaxCuts,         \* bound: requests or answers lost, and kills
    MaxSwitches      \* bound: switches of profile

ASSUME BookmarkAssumption ==
    /\ Owner \in [BookmarkIds -> BookmarkProfiles]
    /\ ChunkOps \in Nat \ {0}
    /\ LastStamp \in Nat /\ MaxEdits \in Nat /\ MaxCuts \in Nat /\ MaxSwitches \in Nat

VARIABLES
    device,      \* bookmarks, by scope and client id
    queuedOps,   \* bookmark_outbox, by scope
    cloud,       \* the server's bookmarks, by profile and client id
    active,      \* the active profile
    flow,        \* the calls under way
    minted,      \* ids that exist somewhere
    edits, cuts, switches   \* what is left of each

bookmarkVars == <<device, queuedOps, cloud, active, flow, minted, edits, cuts, switches>>

Stamps == 1..LastStamp
Absent == [deleted |-> FALSE, at |-> 0]
BookmarkRow == [deleted : BOOLEAN, at : Stamps] \cup {Absent}
BookmarkOp == [op : {"upsert", "delete"}, id : BookmarkIds, at : Stamps]
Flows == {"tap", "gate"}

NoProfile == CHOOSE p \in BookmarkProfiles : TRUE
NoFlow == [phase |-> "idle", store |-> NoProfile, startedIn |-> NoProfile,
           pending |-> <<>>, refused |-> FALSE, bare |-> FALSE,
           known |-> [b \in BookmarkIds |-> Absent]]

BookmarkRows == [BookmarkIds -> BookmarkRow]
Flow ==
    [phase : {"idle", "saved", "sending", "posted", "answered", "flushed", "heard"},
     store : BookmarkProfiles, startedIn : BookmarkProfiles, pending : Seq(BookmarkOp),
     refused : BOOLEAN, bare : BOOLEAN, known : BookmarkRows]

BookmarkTypeOK ==
    /\ device \in [BookmarkProfiles -> BookmarkRows]
    /\ queuedOps \in [BookmarkProfiles -> Seq(BookmarkOp)]
    /\ cloud \in [BookmarkProfiles -> BookmarkRows]
    /\ active \in BookmarkProfiles
    /\ flow \in [Flows -> Flow]
    /\ minted \subseteq BookmarkIds
    /\ edits \in 0..MaxEdits /\ cuts \in 0..MaxCuts /\ switches \in 0..MaxSwitches

WithRow(table, p, b, row) == [table EXCEPT ![p] = [@ EXCEPT ![b] = row]]
-----------------------------------------------------------------------------
(* The server.                                                             *)

\* Mutant of Status: the last write wins, over a tombstone too.
StatusByClock(stored, op) ==
    IF op.op = "delete" THEN IF stored.deleted THEN "already_deleted" ELSE "tombstoned"
    ELSE IF stored = Absent THEN "created"
    ELSE IF op.at <= stored.at THEN "stale" ELSE "updated"

\* decide: a tombstone is terminal; ties go to the stored row.
Status(stored, op) ==
    IF op.op = "delete" THEN IF stored.deleted THEN "already_deleted" ELSE "tombstoned"
    ELSE IF stored = Absent THEN "created"
    ELSE IF stored.deleted THEN "rejected_deleted"
    ELSE IF op.at <= stored.at THEN "stale" ELSE "updated"

Refusals == {"already_deleted", "rejected_deleted", "stale"}

\* _apply_one on the row as the request read it.
Applied(stored, op) ==
    IF Status(stored, op) \in Refusals THEN stored
    ELSE [deleted |-> op.op = "delete", at |-> op.at]

\* The session's rows after each op of a batch: later ops see the earlier ones.
AfterEach(known, ops) ==
    LET rows[n \in 0..Len(ops)] ==
            IF n = 0 THEN known
            ELSE [rows[n - 1] EXCEPT ![ops[n].id] = Applied(@, ops[n])]
    IN  rows

AfterOps(known, ops) == AfterEach(known, ops)[Len(ops)]

AnyRefused(known, ops) ==
    \E i \in 1..Len(ops) :
        Status(AfterEach(known, ops)[i - 1][ops[i].id], ops[i]) \in Refusals

\* A flush writes the columns that changed: a live row that the session moves
\* keeps the tombstone another request committed since it was read.
MovedColumns(stored, before, after) ==
    IF after = before THEN stored
    ELSE [deleted |-> after.deleted \/ stored.deleted, at |-> after.at]

\* Another request inserted a row this session is about to insert: the UNIQUE
\* constraint fails the whole batch.
InsertClash(p, known, after) ==
    \E b \in BookmarkIds : known[b] = Absent /\ after[b] # Absent /\ cloud[p][b] # Absent

-----------------------------------------------------------------------------
(* The phone.                                                              *)

Chunk(ops) == SubSeq(ops, 1, IF Len(ops) < ChunkOps THEN Len(ops) ELSE ChunkOps)
Unsent(ops) == SubSeq(ops, Len(Chunk(ops)) + 1, Len(ops))

\* The outbox without some of its rows.
Without(ops, sent) == Keeping(ops, ToSet(ops) \ sent)

Becomes(f, next) == flow' = [flow EXCEPT ![f] = next]

\* saveBookmark and tombstoneBookmark: the row and its op in one transaction.
Record(p, op) ==
    /\ device' = WithRow(device, p, op.id, [deleted |-> op.op = "delete", at |-> op.at])
    /\ queuedOps' = [queuedOps EXCEPT ![p] = Append(@, op)]

\* create mints an id; the flush comes after the write has been awaited.
AddBookmark(b, t) ==
    /\ flow["tap"].phase = "idle"
    /\ Owner[b] = active /\ b \notin minted
    /\ minted' = minted \cup {b}
    /\ Record(active, [op |-> "upsert", id |-> b, at |-> t])
    /\ Becomes("tap", [NoFlow EXCEPT !.phase = "saved", !.store = active])
    /\ UNCHANGED <<cloud, active, edits, cuts, switches>>

Unbookmark(b, t) ==
    /\ flow["tap"].phase = "idle"
    /\ device[active][b] # Absent /\ ~device[active][b].deleted
    /\ Record(active, [op |-> "delete", id |-> b, at |-> t])
    /\ Becomes("tap", [NoFlow EXCEPT !.phase = "saved", !.store = active])
    /\ UNCHANGED <<cloud, active, minted, edits, cuts, switches>>

\* flush begins: the scope is read, then the outbox.
Flush ==
    /\ flow["tap"].phase = "saved"
    /\ Becomes("tap", [flow["tap"] EXCEPT !.phase = "sending", !.startedIn = active,
                          !.pending = queuedOps[flow["tap"].store]])
    /\ UNCHANGED <<device, queuedOps, cloud, active, minted, edits, cuts, switches>>

\* The gate's own flush, at a launch, a resume or when the network is back:
\* no call waits to hear whether anything was refused.
BareFlush ==
    /\ flow["tap"].phase = "idle" /\ queuedOps[active] # <<>>
    /\ Becomes("tap", [NoFlow EXCEPT !.phase = "sending", !.store = active,
                          !.startedIn = active, !.pending = queuedOps[active], !.bare = TRUE])
    /\ UNCHANGED <<device, queuedOps, cloud, active, minted, edits, cuts, switches>>

\* sync begins with a flush.
Sync ==
    /\ flow["gate"].phase = "idle"
    /\ Becomes("gate", [NoFlow EXCEPT !.phase = "sending", !.store = active,
                           !.startedIn = active, !.pending = queuedOps[active]])
    /\ UNCHANGED <<device, queuedOps, cloud, active, minted, edits, cuts, switches>>

SwitchedAway(f) == active # flow[f].startedIn

\* A chunk leaves under the active profile's header; apply_batch reads the
\* rows it names.
Post(f) ==
    /\ flow[f].phase = "sending" /\ flow[f].pending # <<>> /\ ~SwitchedAway(f)
    /\ Becomes(f, [flow[f] EXCEPT !.phase = "posted", !.known = cloud[active]])
    /\ UNCHANGED <<device, queuedOps, cloud, active, minted, edits, cuts, switches>>

\* apply_batch decides, writes and commits for the profile of the header,
\* which is startedIn; a failed request ends the flush.
ApplyBatch(f) ==
    LET p == flow[f].startedIn
        ops == Chunk(flow[f].pending)
        known == flow[f].known
        after == AfterOps(known, ops)
    IN
    /\ flow[f].phase = "posted"
    /\ IF InsertClash(p, known, after)
       THEN /\ Becomes(f, [flow[f] EXCEPT !.phase = "flushed"])
            /\ UNCHANGED cloud
       ELSE /\ cloud' = [cloud EXCEPT ![p] = [b \in BookmarkIds |->
                             MovedColumns(cloud[p][b], known[b], after[b])]]
            /\ Becomes(f, [flow[f] EXCEPT !.phase = "answered",
                                           !.refused = @ \/ AnyRefused(known, ops)])
    /\ UNCHANGED <<device, queuedOps, active, minted, edits, cuts, switches>>

\* Mutant of ClearOps: the outbox is emptied, with what was queued since.
ClearOpsAll(f) ==
    /\ flow[f].phase = "answered"
    /\ queuedOps' = [queuedOps EXCEPT ![flow[f].store] = <<>>]
    /\ Becomes(f, [flow[f] EXCEPT !.phase = "sending", !.pending = Unsent(@)])
    /\ UNCHANGED <<device, cloud, active, minted, edits, cuts, switches>>

\* The ops of an answered chunk are cleared, refused or not.
ClearOps(f) ==
    LET sent == ToSet(Chunk(flow[f].pending)) IN
    /\ flow[f].phase = "answered"
    /\ queuedOps' = [queuedOps EXCEPT ![flow[f].store] = Without(@, sent)]
    /\ Becomes(f, [flow[f] EXCEPT !.phase = "sending", !.pending = Unsent(@)])
    /\ UNCHANGED <<device, cloud, active, minted, edits, cuts, switches>>

\* flush returns; a tap that was refused nothing, or a bare flush, is over.
FlushEnds(f) ==
    /\ flow[f].phase = "sending"
    /\ flow[f].pending = <<>> \/ SwitchedAway(f)
    /\ Becomes(f, [flow[f] EXCEPT !.phase = "flushed"])
    /\ UNCHANGED <<device, queuedOps, cloud, active, minted, edits, cuts, switches>>

\* The listing, tombstones included, of the profile active when it is asked for.
Pull(f) ==
    /\ flow[f].phase = "flushed"
    /\ f = "gate" \/ (flow[f].refused /\ ~flow[f].bare)
    /\ Becomes(f, [flow[f] EXCEPT !.phase = "heard", !.known = cloud[active],
                                   !.startedIn = IF f = "gate" THEN @ ELSE active])
    /\ UNCHANGED <<device, queuedOps, cloud, active, minted, edits, cuts, switches>>

TapEnds ==
    /\ flow["tap"].phase = "flushed" /\ (flow["tap"].bare \/ ~flow["tap"].refused)
    /\ Becomes("tap", NoFlow)
    /\ UNCHANGED <<device, queuedOps, cloud, active, minted, edits, cuts, switches>>

\* Mutant of Merged: the clocks decide, tombstones or not.
MergedByClock(local, incoming) ==
    IF incoming = Absent \/ incoming.at <= local.at THEN local
    ELSE IF local.deleted THEN local ELSE incoming

\* mergeServerBookmarks, row by row.
Merged(local, incoming) ==
    IF incoming = Absent THEN local
    ELSE IF local = Absent THEN incoming
    ELSE IF local.deleted THEN local
    ELSE IF ~incoming.deleted /\ incoming.at <= local.at THEN local
    ELSE incoming

Merge(f) ==
    /\ flow[f].phase = "heard"
    /\ device' = IF SwitchedAway(f) THEN device
                 ELSE [device EXCEPT ![flow[f].store] =
                         [b \in BookmarkIds |-> Merged(@[b], flow[f].known[b])]]
    /\ Becomes(f, NoFlow)
    /\ UNCHANGED <<queuedOps, cloud, active, minted, edits, cuts, switches>>

-----------------------------------------------------------------------------
(* Everybody else.                                                         *)

\* A request or its answer is lost: flush returns what it has.
Cut(f) ==
    /\ cuts > 0 /\ flow[f].phase \in {"posted", "answered", "heard"}
    /\ cuts' = cuts - 1
    /\ Becomes(f, IF flow[f].phase = "heard" THEN NoFlow
                  ELSE [flow[f] EXCEPT !.phase = "flushed"])
    /\ UNCHANGED <<device, queuedOps, cloud, active, minted, edits, switches>>

KillApp ==
    /\ cuts > 0
    /\ cuts' = cuts - 1
    /\ flow' = [f \in Flows |-> NoFlow]
    /\ UNCHANGED <<device, queuedOps, cloud, active, minted, edits, switches>>

Switch(p) ==
    /\ switches > 0 /\ p # active
    /\ switches' = switches - 1
    /\ active' = p
    /\ UNCHANGED <<device, queuedOps, cloud, flow, minted, edits, cuts>>

\* Another device's op, or a tap on the web.  It knows an id because it minted
\* it or because the server listed it.
Elsewhere(op) ==
    LET p == Owner[op.id] IN
    /\ edits > 0
    /\ edits' = edits - 1
    /\ \/ op.id \notin minted /\ op.op = "upsert"
       \/ cloud[p][op.id] # Absent
    /\ minted' = minted \cup {op.id}
    /\ cloud' = WithRow(cloud, p, op.id, Applied(cloud[p][op.id], op))
    /\ UNCHANGED <<device, queuedOps, active, flow, cuts, switches>>

BookmarkInit ==
    /\ device = [p \in BookmarkProfiles |-> [b \in BookmarkIds |-> Absent]]
    /\ cloud = device
    /\ queuedOps = [p \in BookmarkProfiles |-> <<>>]
    /\ active \in BookmarkProfiles
    /\ flow = [f \in Flows |-> NoFlow]
    /\ minted = {} /\ edits = MaxEdits /\ cuts = MaxCuts /\ switches = MaxSwitches

FlowStep(f) ==
    Post(f) \/ ApplyBatch(f) \/ ClearOps(f) \/ FlushEnds(f) \/ Pull(f) \/ Merge(f)

BookmarkNext ==
    \/ \E b \in BookmarkIds, t \in Stamps : AddBookmark(b, t) \/ Unbookmark(b, t)
    \/ Flush \/ BareFlush \/ Sync \/ TapEnds
    \/ \E f \in Flows : FlowStep(f) \/ Cut(f)
    \/ KillApp
    \/ \E p \in BookmarkProfiles : Switch(p)
    \/ \E op \in BookmarkOp : Elsewhere(op)

\* Calls run to their end, and the gate syncs at every launch and resume,
\* where it matters when something is unsent or unheard.
SyncDue == queuedOps[active] # <<>> \/ device[active] # cloud[active]

BookmarkFairness ==
    /\ WF_bookmarkVars(SyncDue /\ Sync)
    /\ WF_bookmarkVars(Flush \/ TapEnds)
    /\ \A f \in Flows : WF_bookmarkVars(FlowStep(f))

BookmarkSpec == BookmarkInit /\ [][BookmarkNext]_bookmarkVars
-----------------------------------------------------------------------------
(* Properties.                                                             *)

\* No interleaving of pushes, pulls and edits brings a deleted bookmark back,
\* on the phone or on the server.
TombstonesAreTerminal ==
    [][\A p \in BookmarkProfiles, b \in BookmarkIds :
         /\ device[p][b].deleted => device'[p][b].deleted
         /\ cloud[p][b].deleted => cloud'[p][b].deleted]_bookmarkVars

\* A profile's bookmarks stay that profile's, on the phone and on the server.
OwnProfileOnly ==
    \A p \in BookmarkProfiles, b \in BookmarkIds :
        Owner[b] # p => device[p][b] = Absent /\ cloud[p][b] = Absent

\* What the phone did and the server does not show is still in the outbox.
NothingUnsent ==
    OwnProfileOnly =>
        \A p \in BookmarkProfiles, b \in BookmarkIds :
            /\ device[p][b] # Absent /\ cloud[p][b] = Absent =>
                 \E op \in ToSet(queuedOps[p]) : op.id = b /\ op.op = "upsert"
            /\ device[p][b].deleted /\ ~cloud[p][b].deleted =>
                 \E op \in ToSet(queuedOps[p]) : op.id = b /\ op.op = "delete"

\* Once everybody stops, the active profile's phone shows what the server holds.
Agrees(b) ==
    LET here == device[active][b]
        there == cloud[active][b]
    IN (here.deleted /\ there.deleted) \/ here = there

BookmarksConverge == <>[](OwnProfileOnly => \A b \in BookmarkIds : Agrees(b))
=============================================================================

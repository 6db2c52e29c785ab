---------------------------- MODULE ProgressSync ----------------------------
(***************************************************************************)
(* Reading progress from the page turn to the stored row, for one profile  *)
(* reading one series on some phones and on the web.                       *)
(*                                                                         *)
(*  - A phone writes every save to its outbox and drains the outbox in     *)
(*    batches (ProgressOutboxController).  While the network is away it    *)
(*    folds the outbox in place (_compact).                                *)
(*  - The web reader pushes each save once and keeps nothing.              *)
(*  - The server runs each push in a worker thread: it loads the rows      *)
(*    outside SQLite's write lock, merges, and writes and commits under    *)
(*    the lock (ProgressService._apply_one, save_one, save_batch).         *)
(*                                                                         *)
(* A request or its answer may be lost, the phone may give up while the    *)
(* server is still working, and the app may be killed, in any state.       *)
(***************************************************************************)
EXTENDS ProgressMerge, FiniteSetsExt

CONSTANTS
    Phones,         \* devices with an outbox
    Chapters,       \* the chapters of the series, by chapter number
    LastPage,       \* pages in a chapter
    Workers,        \* server threads that can hold a push at once
    Unparseable,    \* chapters whose queued rows the server cannot parse
    PhoneAhead,     \* how far a phone's clock runs ahead of the server's
    ServerCap,      \* PROGRESS_BATCH_MAX_ITEMS
    ClientCap,      \* kProgressBatchMaxItems
    CompactRows,    \* kProgressOutboxCompactRows
    MaxGroups,      \* kProgressOutboxMaxGroups
    MaxRowId,       \* bound: a phone saves no more once it used this many row ids
    MaxWebPushes,   \* bound: saves made on the web
    MaxFailures     \* bound: lost requests, lost answers and app kills

ASSUME SyncAssumption ==
    /\ IsFiniteSet(Phones)
    /\ IsFiniteSet(Chapters)
    /\ Chapters \subseteq Nat \ {0}
    /\ LastPage \in Nat \ {0}
    /\ Unparseable \subseteq Chapters
    /\ PhoneAhead \in Nat
    /\ ServerCap \in Nat \ {0}
    /\ ClientCap \in Nat \ {0}
    /\ CompactRows \in Nat
    /\ MaxGroups \in Nat
    /\ MaxRowId \in Nat
    /\ MaxWebPushes \in Nat
    /\ MaxFailures \in Nat
    /\ "nobody" \notin Phones

VARIABLES
    row,        \* chapter_progress: one row per chapter
    handler,    \* what each server thread is doing
    clock,      \* the household's wall clock
    outbox,     \* progress_outbox of each phone
    nextId,     \* its AUTOINCREMENT counter
    sinceRead,  \* _queuedSinceRead
    hold,       \* whether the last drain failed (_holdFlushUntil)
    limit,      \* _batchLimit
    drain,      \* the drain in progress
    compact,    \* the compaction in progress
    captured,   \* furthest page saved per phone and chapter, unless dropped
    reported,   \* every page a client has reported, per chapter
    spent,      \* seconds of reading the clients measured, per chapter
    merged,     \* queued pushes already merged into the row, per chapter
    webPushes,  \* counters behind the bounds
    failures

serverVars == <<row, handler, merged>>
phoneVars  == <<outbox, nextId, sinceRead, hold, limit, drain, compact>>
ghostVars  == <<captured, reported, spent>>
boundVars  == <<clock, webPushes, failures>>
vars == <<serverVars, phoneVars, ghostVars, boundVars>>

Nobody == "nobody"
Pages  == 1..LastPage

\* Mutant of PushAt: the page is counted from zero.
PushFromZero(c, page, num, at) ==
    [page |-> page - 1, num |-> num, done |-> page >= LastPage, at |-> at, secs |-> 1]

\* A reader reports the chapter finished on its last page.
PushAt(c, page, num, at) ==
    [page |-> page, num |-> num, done |-> page >= LastPage, at |-> at, secs |-> 1]

-----------------------------------------------------------------------------
(* The outbox. *)

OutboxRow == [id : Nat, ch : Chapters, push : Push]

RowsOf(rows, c) == {r \in rows : r.ch = c}
Ids(rows)       == {r.id : r \in rows}
Grouped(rows)   == [c \in Chapters |-> RowsOf(rows, c)]
NoGroups        == [c \in Chapters |-> {}]

\* The seconds of a set of queued rows, as the size of a set of ticks.
TotalSeconds(rows) ==
    Cardinality(UNION {{r.id} \X (1..r.push.secs) : r \in rows})

\* One push that stands for all the queued rows of a chapter.
Collapse(rows) ==
    LET numbers == {r.push.num : r \in rows}
    IN  [page |-> Max({r.push.page : r \in rows}),
         num  |-> Max(numbers),
         done |-> \E r \in rows : r.push.done,
         at   |-> Max({r.push.at : r \in rows}),
         secs |-> TotalSeconds(rows)]

\* Mutant of CostsMore: only how recently a chapter was read counts.
CostsMoreIfNewer(groups, c, other) ==
    Max({r.push.at : r \in groups[c]}) > Max({r.push.at : r \in groups[other]})

\* Chapters in the order of what losing them costs: the series' furthest
\* chapter first, then the most recently read.
CostsMore(groups, c, other) ==
    LET queued == {k \in Chapters : groups[k] # {}}
        newest(k) == Max({r.push.at : r \in groups[k]})
    IN  \/ c = Max(queued)
        \/ other # Max(queued) /\ newest(c) > newest(other)

\* The groups beyond the outbox's ceiling.
GroupsToDrop(groups) ==
    LET queued == {k \in Chapters : groups[k] # {}}
    IN  {c \in queued :
            Cardinality({k \in queued \ {c} : CostsMore(groups, k, c)})
                >= Larger(MaxGroups, 1)}

\* A drain holds the rows it read, by chapter, and the chunk it has posted.
NotDraining == [groups |-> NoGroups, chunk |-> {}]
ToDeliver(d) == {c \in Chapters : drain[d].groups[c] # {}}

\* A compaction holds the groups left to fold or drop, and the rows whose fold
\* is already written.
NotCompacting == [groups |-> NoGroups, drop |-> {}, clear |-> {}]

-----------------------------------------------------------------------------
(* The server's threads. *)

NoPush == [page |-> 0, num |-> NoNumber, done |-> FALSE, at |-> NoStamp, secs |-> 0]

NoItems == [c \in Chapters |-> NoPush]
NoRows  == [c \in Chapters |-> NoRow]

Free == [phase |-> "free", from |-> Nobody, items |-> NoItems,
         loaded |-> NoRows, now |-> 0, tooLarge |-> FALSE]

Received(from, items) == [Free EXCEPT !.phase = "received", !.from = from, !.items = items]

Sent(h)   == {c \in Chapters : h.items[c] # NoPush}
Parsed(h) == Sent(h) \ Unparseable

\* What a phone that stops waiting leaves behind: its request runs on, its
\* answer goes nowhere.
Abandoned(d) ==
    [w \in Workers |->
        IF handler[w].from # d THEN handler[w]
        ELSE IF handler[w].phase = "replied" THEN Free
        ELSE [handler[w] EXCEPT !.from = Nobody]]

-----------------------------------------------------------------------------
Init ==
    /\ row       = NoRows
    /\ handler   = [w \in Workers |-> Free]
    /\ clock     = 1
    /\ outbox    = [d \in Phones |-> {}]
    /\ nextId    = [d \in Phones |-> 1]
    /\ sinceRead = [d \in Phones |-> 0]
    /\ hold      = [d \in Phones |-> FALSE]
    /\ limit     = [d \in Phones |-> ClientCap]
    /\ drain     = [d \in Phones |-> NotDraining]
    /\ compact   = [d \in Phones |-> NotCompacting]
    /\ captured  = [d \in Phones |-> [c \in Chapters |-> 0]]
    /\ reported  = [c \in Chapters |-> {}]
    /\ spent     = [c \in Chapters |-> 0]
    /\ merged    = [c \in Chapters |-> {}]
    /\ webPushes = 0
    /\ failures  = 0

-----------------------------------------------------------------------------
(* Phone actions. *)

Insert(d, c, push) ==
    /\ outbox' = [outbox EXCEPT ![d] = @ \cup {[id |-> nextId[d], ch |-> c, push |-> push]}]
    /\ nextId' = [nextId EXCEPT ![d] = @ + 1]

Clear(d, ids) == outbox' = [outbox EXCEPT ![d] = {r \in @ : r.id \notin ids}]

\* The reader settles on a page: the push is stamped and queued.
Save(d, c, page) ==
    LET push == PushAt(c, page, c, clock + PhoneAhead)
    IN  /\ nextId[d] <= MaxRowId
        /\ Insert(d, c, push)
        /\ sinceRead' = [sinceRead EXCEPT ![d] = @ + 1]
        /\ captured'  = [captured EXCEPT ![d][c] = Larger(@, page)]
        /\ reported'  = [reported EXCEPT ![c] = @ \cup {page}]
        /\ spent'     = [spent EXCEPT ![c] = @ + push.secs]
        /\ clock'     = clock + 1
        /\ UNCHANGED <<serverVars, hold, limit, drain, compact, webPushes, failures>>

\* A flush with no drain running reads every queued row.
DrainStart(d) ==
    /\ drain[d] = NotDraining
    /\ outbox[d] # {} \/ hold[d] \/ sinceRead[d] > 0
    /\ drain' = [drain EXCEPT ![d].groups = Grouped(outbox[d])]
    /\ hold' = [hold EXCEPT ![d] = @ /\ outbox[d] # {}]
    /\ sinceRead' = [sinceRead EXCEPT ![d] = 0]
    /\ UNCHANGED <<serverVars, outbox, nextId, limit, compact, ghostVars, boundVars>>

\* Mutant of PostChunk: the rows are deleted when they are sent.
PostChunkForgets(d, w, chunk) ==
    /\ drain[d].chunk = {}
    /\ chunk \subseteq ToDeliver(d)
    /\ chunk # {}
    /\ Cardinality(chunk) = Smaller(limit[d], Cardinality(ToDeliver(d)))
    /\ handler[w] = Free
    /\ Clear(d, UNION {Ids(drain[d].groups[c]) : c \in chunk})
    /\ drain' = [drain EXCEPT ![d].chunk = chunk]
    /\ handler' = [handler EXCEPT ![w] =
          Received(d, [c \in Chapters |->
              IF c \in chunk THEN Collapse(drain[d].groups[c]) ELSE NoPush])]
    /\ UNCHANGED <<row, merged, nextId, sinceRead, hold, limit, compact,
                   ghostVars, boundVars>>

\* The next chunk is posted, one collapsed push per chapter.
PostChunk(d, w, chunk) ==
    /\ drain[d].chunk = {}
    /\ chunk \subseteq ToDeliver(d)
    /\ chunk # {}
    /\ Cardinality(chunk) = Smaller(limit[d], Cardinality(ToDeliver(d)))
    /\ handler[w] = Free
    /\ drain' = [drain EXCEPT ![d].chunk = chunk]
    /\ handler' = [handler EXCEPT ![w] =
          Received(d, [c \in Chapters |->
              IF c \in chunk THEN Collapse(drain[d].groups[c]) ELSE NoPush])]
    /\ UNCHANGED <<row, merged, outbox, nextId, sinceRead, hold, limit, compact,
                   ghostVars, boundVars>>

\* Mutant of ChunkAccepted: the chapters' rows are deleted, those queued since
\* the drain read the outbox with them.
ChunkAcceptedByChapter(d, w) ==
    /\ handler[w].from = d
    /\ handler[w].phase = "replied"
    /\ ~handler[w].tooLarge
    /\ outbox' = [outbox EXCEPT ![d] = {r \in @ : r.ch \notin drain[d].chunk}]
    /\ drain' = [drain EXCEPT ![d].chunk = {},
                              ![d].groups = [c \in Chapters |->
                                  IF c \in drain[d].chunk THEN {} ELSE @[c]]]
    /\ handler' = [handler EXCEPT ![w] = Free]
    /\ UNCHANGED <<row, merged, nextId, sinceRead, hold, limit, compact, ghostVars, boundVars>>

\* A 2xx answer: only now are the chunk's rows deleted.
ChunkAccepted(d, w) ==
    LET delivered == UNION {Ids(drain[d].groups[c]) : c \in drain[d].chunk}
        left == [c \in Chapters |->
                    IF c \in drain[d].chunk THEN {} ELSE drain[d].groups[c]]
    IN  /\ handler[w].from = d
        /\ handler[w].phase = "replied"
        /\ ~handler[w].tooLarge
        /\ Clear(d, delivered)
        /\ drain' = [drain EXCEPT ![d] = [groups |-> left, chunk |-> {}]]
        /\ hold' = [hold EXCEPT ![d] = @ /\ left # NoGroups]
        /\ handler' = [handler EXCEPT ![w] = Free]
        /\ UNCHANGED <<row, merged, nextId, sinceRead, limit, compact, ghostVars, boundVars>>

\* Mutant of ChunkTooLarge: the cap is not adopted.
ChunkTooLargeAgain(d, w) ==
    /\ handler[w].from = d
    /\ handler[w].phase = "replied"
    /\ handler[w].tooLarge
    /\ drain' = [drain EXCEPT ![d] = NotDraining]
    /\ hold' = [hold EXCEPT ![d] = TRUE]
    /\ handler' = [handler EXCEPT ![w] = Free]
    /\ UNCHANGED <<row, merged, outbox, nextId, sinceRead, limit, compact,
                   ghostVars, boundVars>>

\* A 413 names the server's cap: it is adopted and the drain stops.
ChunkTooLarge(d, w) ==
    /\ handler[w].from = d
    /\ handler[w].phase = "replied"
    /\ handler[w].tooLarge
    /\ limit' = [limit EXCEPT ![d] = ServerCap]
    /\ drain' = [drain EXCEPT ![d] = NotDraining]
    /\ hold' = [hold EXCEPT ![d] = TRUE]
    /\ handler' = [handler EXCEPT ![w] = Free]
    /\ UNCHANGED <<row, merged, outbox, nextId, sinceRead, compact, ghostVars, boundVars>>

\* A timeout, or an answer lost on the way back: the rows stay queued.
GiveUp(d) ==
    /\ drain[d].chunk # {}
    /\ failures < MaxFailures
    /\ drain' = [drain EXCEPT ![d] = NotDraining]
    /\ hold' = [hold EXCEPT ![d] = TRUE]
    /\ handler' = Abandoned(d)
    /\ failures' = failures + 1
    /\ UNCHANGED <<row, merged, outbox, nextId, sinceRead, limit, compact,
                   ghostVars, clock, webPushes>>

\* The app is killed: only the outbox survives.
Crash(d) ==
    /\ failures < MaxFailures
    /\ drain' = [drain EXCEPT ![d] = NotDraining]
    /\ compact' = [compact EXCEPT ![d] = NotCompacting]
    /\ sinceRead' = [sinceRead EXCEPT ![d] = 0]
    /\ hold' = [hold EXCEPT ![d] = FALSE]
    /\ limit' = [limit EXCEPT ![d] = ClientCap]
    /\ handler' = Abandoned(d)
    /\ failures' = failures + 1
    /\ UNCHANGED <<row, merged, outbox, nextId, ghostVars, clock, webPushes>>

\* A save that finds the network held back and the outbox long reads it all,
\* to fold every chapter with several rows and drop what is over the ceiling.
CompactStart(d) ==
    LET groups == Grouped(outbox[d])
        drop   == GroupsToDrop(groups)
    IN  /\ compact[d] = NotCompacting
        /\ hold[d]
        /\ sinceRead[d] >= CompactRows
        /\ outbox[d] # {}
        /\ compact' = [compact EXCEPT ![d] =
              [groups |-> [c \in Chapters |->
                  IF c \in drop \/ Cardinality(groups[c]) >= 2 THEN groups[c] ELSE {}],
               drop |-> drop, clear |-> {}]]
        /\ sinceRead' = [sinceRead EXCEPT ![d] = 0]
        /\ UNCHANGED <<serverVars, outbox, nextId, hold, limit, drain, ghostVars, boundVars>>

\* The folded row is written first...
CompactFold(d, c) ==
    /\ compact[d].clear = {}
    /\ compact[d].groups[c] # {}
    /\ c \notin compact[d].drop
    /\ Insert(d, c, Collapse(compact[d].groups[c]))
    /\ compact' = [compact EXCEPT ![d].groups[c] = {},
                                  ![d].clear = Ids(compact[d].groups[c])]
    /\ UNCHANGED <<serverVars, sinceRead, hold, limit, drain, ghostVars, boundVars>>

\* ... and the rows it stands for are deleted after it.
CompactClear(d) ==
    /\ compact[d].clear # {}
    /\ Clear(d, compact[d].clear)
    /\ compact' = [compact EXCEPT ![d].clear = {}]
    /\ UNCHANGED <<serverVars, nextId, sinceRead, hold, limit, drain, ghostVars, boundVars>>

CompactDrop(d, c) ==
    /\ compact[d].clear = {}
    /\ compact[d].groups[c] # {}
    /\ c \in compact[d].drop
    /\ Clear(d, Ids(compact[d].groups[c]))
    /\ compact' = [compact EXCEPT ![d].groups[c] = {}, ![d].drop = @ \ {c}]
    /\ captured' = [captured EXCEPT ![d][c] = 0]
    /\ UNCHANGED <<serverVars, nextId, sinceRead, hold, limit, drain, reported, spent, boundVars>>

-----------------------------------------------------------------------------
(* Server actions. *)

\* The web reader's push arrives; it carries no stamp and is never repeated.
WebPush(w, c, page, num) ==
    LET push == PushAt(c, page, num, NoStamp)
    IN  /\ webPushes < MaxWebPushes
        /\ handler[w] = Free
        /\ handler' = [handler EXCEPT ![w] = Received(Nobody, [NoItems EXCEPT ![c] = push])]
        /\ reported' = [reported EXCEPT ![c] = @ \cup {page}]
        /\ spent' = [spent EXCEPT ![c] = @ + push.secs]
        /\ clock' = clock + 1
        /\ webPushes' = webPushes + 1
        /\ UNCHANGED <<row, merged, phoneVars, captured, failures>>

\* A batch over the cap is refused whole.
Refuse(w) ==
    /\ handler[w].phase = "received"
    /\ Cardinality(Sent(handler[w])) > ServerCap
    /\ handler' = [handler EXCEPT ![w] =
          IF handler[w].from = Nobody THEN Free
          ELSE [@ EXCEPT !.phase = "replied", !.tooLarge = TRUE]]
    /\ UNCHANGED <<row, merged, phoneVars, ghostVars, boundVars>>

\* The rows are read, outside the write lock.
Load(w) ==
    /\ handler[w].phase = "received"
    /\ Cardinality(Sent(handler[w])) <= ServerCap
    /\ handler' = [handler EXCEPT ![w] =
          [@ EXCEPT !.phase = "loaded", !.now = clock,
                    !.loaded = [c \in Chapters |->
                        IF c \in Parsed(handler[w]) THEN row[c] ELSE NoRow]]]
    /\ UNCHANGED <<row, merged, phoneVars, ghostVars, boundVars>>

\* Mutant of Written: a first push found inserted meanwhile is put over it.
WrittenOver(current, loaded, push, now) ==
    IF loaded # NoRow
    THEN ChangedColumns(current, loaded, MergeProgress(loaded, push, now))
    ELSE FirstRow(push, now)

\* What one push writes.  A row that was loaded is updated; a chapter without
\* one is inserted, and whoever finds it inserted meanwhile merges onto that.
Written(current, loaded, push, now) ==
    IF loaded # NoRow
    THEN ChangedColumns(current, loaded, MergeProgress(loaded, push, now))
    ELSE MergeProgress(current, push, now)

\* The whole batch is written and committed under the write lock.
Commit(w) ==
    LET h == handler[w]
    IN  /\ h.phase = "loaded"
        /\ row' = [c \in Chapters |->
              IF c \in Parsed(h) THEN Written(row[c], h.loaded[c], h.items[c], h.now)
              ELSE row[c]]
        /\ merged' = [c \in Chapters |->
              IF c \in Parsed(h) /\ h.items[c].at # NoStamp
              THEN merged[c] \cup {h.items[c]} ELSE merged[c]]
        /\ handler' = [handler EXCEPT ![w] =
              IF h.from = Nobody THEN Free
              ELSE [Free EXCEPT !.phase = "replied", !.from = h.from]]
        /\ UNCHANGED <<phoneVars, ghostVars, boundVars>>

\* The request never arrives, the server dies, or the write lock stays busy
\* through both attempts (503): nothing is written.
RequestFails(w) ==
    LET client == handler[w].from
    IN  /\ handler[w].phase \in {"received", "loaded"}
        /\ failures < MaxFailures
        /\ handler' = [handler EXCEPT ![w] = Free]
        /\ drain' = [d \in Phones |-> IF d = client THEN NotDraining ELSE drain[d]]
        /\ hold' = [d \in Phones |-> hold[d] \/ d = client]
        /\ failures' = failures + 1
        /\ UNCHANGED <<row, merged, outbox, nextId, sinceRead, limit, compact,
                       ghostVars, clock, webPushes>>

-----------------------------------------------------------------------------
PhoneNext(d) ==
    \/ \E c \in Chapters, page \in Pages : Save(d, c, page)
    \/ DrainStart(d)
    \/ \E w \in Workers, chunk \in SUBSET Chapters : PostChunk(d, w, chunk)
    \/ \E w \in Workers : ChunkAccepted(d, w) \/ ChunkTooLarge(d, w)
    \/ GiveUp(d)
    \/ Crash(d)
    \/ CompactStart(d)
    \/ \E c \in Chapters : CompactFold(d, c) \/ CompactDrop(d, c)
    \/ CompactClear(d)

ServerNext(w) ==
    \/ \E c \in Chapters, page \in Pages : \E num \in {NoNumber, c} : WebPush(w, c, page, num)
    \/ Refuse(w)
    \/ Load(w)
    \/ Commit(w)
    \/ RequestFails(w)

Next ==
    \/ \E d \in Phones : PhoneNext(d)
    \/ \E w \in Workers : ServerNext(w)

Spec == Init /\ [][Next]_vars

\* A flush is triggered again on every resume and connectivity change, and a
\* request that is not lost is served and answered.
Fairness ==
    /\ \A d \in Phones :
          /\ WF_vars(DrainStart(d))
          /\ WF_vars(\E w \in Workers, chunk \in SUBSET Chapters : PostChunk(d, w, chunk))
          /\ WF_vars(\E w \in Workers : ChunkAccepted(d, w) \/ ChunkTooLarge(d, w))
          /\ WF_vars(CompactClear(d) \/
                     \E c \in Chapters : CompactFold(d, c) \/ CompactDrop(d, c))
    /\ \A w \in Workers : WF_vars(Refuse(w) \/ Load(w) \/ Commit(w))

-----------------------------------------------------------------------------
(* Properties. *)

Group   == [Chapters -> SUBSET OutboxRow]
Handler == [phase : {"free", "received", "loaded", "replied"},
            from : Phones \cup {Nobody},
            items : [Chapters -> Push \cup {NoPush}],
            loaded : [Chapters -> Row],
            now : Nat, tooLarge : BOOLEAN]

\* The type of every variable.
TypeOK ==
    /\ row \in [Chapters -> Row]
    /\ handler \in [Workers -> Handler]
    /\ clock \in Nat \ {0}
    /\ outbox \in [Phones -> SUBSET OutboxRow]
    /\ nextId \in [Phones -> Nat \ {0}]
    /\ sinceRead \in [Phones -> Nat]
    /\ hold \in [Phones -> BOOLEAN]
    /\ limit \in [Phones -> Nat \ {0}]
    /\ drain \in [Phones -> [groups : Group, chunk : SUBSET Chapters]]
    /\ compact \in [Phones -> [groups : Group, drop : SUBSET Chapters, clear : SUBSET Nat]]
    /\ captured \in [Phones -> [Chapters -> 0..LastPage]]
    /\ reported \in [Chapters -> SUBSET Pages]
    /\ spent \in [Chapters -> Nat]
    /\ merged \in [Chapters -> SUBSET Push]
    /\ webPushes \in Nat
    /\ failures \in Nat

Delivers(d, c, page) ==
    \/ row[c].page >= page
    \/ \E r \in outbox[d] : r.ch = c /\ r.push.page >= page

\* The outbox never forgets a position: the furthest page the phone saved of a
\* chapter is stored on the server or still queued, through lost answers,
\* retries, compactions and kills.
PositionNeverLost ==
    \A d \in Phones, c \in Chapters \ Unparseable : Delivers(d, c, captured[d][c])

\* The same of completion, however many pushes overlap on the server: a chapter
\* finished on the phone is completed in its row or queued as completed.
CompletionNeverLost ==
    \A d \in Phones, c \in Chapters \ Unparseable :
        captured[d][c] = LastPage =>
            row[c].done \/ \E r \in outbox[d] : r.ch = c /\ r.push.done

\* "A (chapter_number, last_page) pair only moves forward" (ARCHITECTURE.md).
PositionNeverRewinds ==
    [][\A c \in Chapters : row'[c].page >= row[c].page]_row

\* No push, however stale what it loaded, takes a completion back.
CompletionSticky ==
    [][\A c \in Chapters : row[c].done => row'[c].done]_row

\* completed_at is stamped once and never moved.
CompletionStampedOnce ==
    [][\A c \in Chapters : row[c].doneAt # NoStamp => row'[c].doneAt = row[c].doneAt]_row

\* A queued push that is delivered a second time, unchanged, adds no time.
ReplayCreditsNothing ==
    [][\A w \in Workers, c \in Chapters :
          Commit(w) /\ c \in Parsed(handler[w]) /\ handler[w].items[c] \in merged[c]
              => row'[c].secs = row[c].secs]_vars

\* Two first pushes of one chapter race: the one that finds the row inserted
\* merges onto it, and does not put it back.
InsertRaceMerges ==
    [][\A w \in Workers, c \in Chapters :
          Commit(w) /\ c \in Parsed(handler[w]) /\ handler[w].loaded[c] = NoRow
              => /\ row'[c].page >= Larger(row[c].page, handler[w].items[c].page)
                 /\ row'[c].secs >= row[c].secs]_vars

\* "A delta is believed once": a chapter is never credited more reading time
\* than the clients measured.
TimeBelievedOnce ==
    \A c \in Chapters : row[c].secs <= spent[c]

\* Compaction drops chapters over the outbox's ceiling, never the furthest
\* chapter the phone has saved: losing that one rewinds the series.
FurthestChapterKept ==
    [][\A d \in Phones, c \in Chapters :
          (captured[d][c] > 0 /\ \A k \in Chapters : k > c => captured[d][k] = 0)
              => captured'[d][c] > 0]_captured

\* Whatever the batch cap and whatever the server cannot parse, every queued
\* row leaves the phone once the network stops failing.
OutboxDrains == <>[](\A d \in Phones : outbox[d] = {})
=============================================================================

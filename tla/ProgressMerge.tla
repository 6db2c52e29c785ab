--------------------------- MODULE ProgressMerge ---------------------------
(***************************************************************************)
(* The pure rules of reading progress: what one push does to a stored      *)
(* chapter_progress row (merge_progress in progress_service.py) and what   *)
(* the phone does to two of its own pushes before it sends them            *)
(* (collapseProgressOutbox in progress_outbox_batch.dart).                 *)
(*                                                                         *)
(* Instants are natural numbers and 0 is "no stamp"; a chapter number of   *)
(* 0 is NULL; a row whose page is 0 does not exist (last_page starts at    *)
(* 1).  page_count and scroll_offset_px follow the fields kept here and    *)
(* decide nothing, so they are left out.                                   *)
(***************************************************************************)
EXTENDS Integers, FiniteSets

CONSTANTS
    MaxPushSeconds,   \* the most reading time one push may claim
    ClockSkew,        \* how far ahead of the server a client clock is believed
    MaxClockAge       \* how far behind it (five years, MAX_CLIENT_CLOCK_AGE)

ASSUME MergeAssumption ==
    /\ MaxPushSeconds \in Nat \ {0}
    /\ ClockSkew \in Nat
    /\ MaxClockAge \in Nat

NoNumber == 0
NoStamp  == 0

Push == [page : Nat \ {0}, num : Nat, done : BOOLEAN, at : Nat, secs : Nat]
Row  == [page : Nat, num : Nat, done : BOOLEAN,
         doneAt : Nat, readAt : Nat, secs : Nat]

NoRow == [page |-> 0, num |-> NoNumber, done |-> FALSE,
          doneAt |-> NoStamp, readAt |-> NoStamp, secs |-> 0]

Larger(a, b)  == IF a >= b THEN a ELSE b
Smaller(a, b) == IF a <= b THEN a ELSE b

\* A stamp is taken as sent, capped a little into the future; no stamp, or one
\* so old that the clock behind it must be broken, is "now".
BelievableStamp(at, now) ==
    IF at = NoStamp \/ at + MaxClockAge < now THEN now ELSE Smaller(at, now + ClockSkew)

\* A push that carries no number is about the chapter the row already names.
ResolveNumber(primary, fallback) ==
    IF primary # NoNumber THEN primary ELSE fallback

\* Mutant of Ahead: the last write wins within a chapter.
AheadLastWriteWins(stored, p) ==
    LET incoming == ResolveNumber(p.num, stored.num)
        held     == ResolveNumber(stored.num, p.num)
    IN  incoming > held \/ (incoming = held /\ p.page # stored.page)

\* The lexicographic order of (chapter_number, last_page).
Ahead(stored, p) ==
    LET incoming == ResolveNumber(p.num, stored.num)
        held     == ResolveNumber(stored.num, p.num)
    IN  incoming > held \/ (incoming = held /\ p.page > stored.page)

\* Mutant of CreditedSeconds: only a push stamped before the row is a replay.
CreditedSecondsStrictly(stored, p, at) ==
    IF stored # NoRow /\ at < stored.readAt /\ ~Ahead(stored, p)
    THEN 0
    ELSE Smaller(MaxPushSeconds, p.secs)

\* The seconds a push may add: none when it is stamped no later than the row
\* and does not move the position, which is what a replay looks like.
CreditedSeconds(stored, p, at) ==
    IF stored # NoRow /\ at <= stored.readAt /\ ~Ahead(stored, p)
    THEN 0
    ELSE Smaller(MaxPushSeconds, p.secs)

\* The first push of a chapter.
FirstRow(p, now) ==
    [page   |-> p.page,
     num    |-> p.num,
     done   |-> p.done,
     doneAt |-> IF p.done THEN now ELSE NoStamp,
     readAt |-> BelievableStamp(p.at, now),
     secs   |-> CreditedSeconds(NoRow, p, BelievableStamp(p.at, now))]

\* Mutant of CompletedAt: every completed push stamps it.
CompletedAtAgain(stored, p, at, now) ==
    IF p.done THEN at ELSE stored.doneAt

\* When a chapter was completed: stamped once, then kept.
CompletedAt(stored, p, at, now) ==
    IF stored.doneAt = NoStamp /\ (stored.done \/ p.done)
    THEN IF p.done THEN at ELSE now
    ELSE stored.doneAt

\* Furthest-wins: the position moves only forward, completion is sticky, the
\* newest read is kept and the believed seconds are added.
MergeProgress(stored, p, now) ==
    LET at    == BelievableStamp(p.at, now)
        ahead == Ahead(stored, p)
    IN  IF stored = NoRow
        THEN FirstRow(p, now)
        ELSE [page   |-> IF ahead THEN p.page ELSE stored.page,
              num    |-> IF ahead THEN ResolveNumber(p.num, stored.num)
                                  ELSE ResolveNumber(stored.num, p.num),
              done   |-> stored.done \/ p.done,
              doneAt |-> CompletedAt(stored, p, at, now),
              readAt |-> Larger(stored.readAt, at),
              secs   |-> stored.secs + CreditedSeconds(stored, p, at)]

\* Mutant of ChangedColumns: the whole row is written.
EveryColumn(current, loaded, merged) == merged

\* The UPDATE the ORM sends names only the columns that changed from what the
\* request loaded: the others keep whatever the table holds by then.
ChangedColumns(current, loaded, merged) ==
    LET column(now, was, new) == IF new = was THEN now ELSE new
    IN  [page   |-> column(current.page,   loaded.page,   merged.page),
         num    |-> column(current.num,    loaded.num,    merged.num),
         done   |-> column(current.done,   loaded.done,   merged.done),
         doneAt |-> column(current.doneAt, loaded.doneAt, merged.doneAt),
         readAt |-> column(current.readAt, loaded.readAt, merged.readAt),
         secs   |-> column(current.secs,   loaded.secs,   merged.secs)]

\* The phone's own merge of two queued pushes of one chapter, older first.
Furthest(a, b) ==
    LET winner == IF b.page > a.page THEN b ELSE a
        loser  == IF b.page > a.page THEN a ELSE b
    IN  [page |-> winner.page,
         num  |-> ResolveNumber(winner.num, loser.num),
         done |-> a.done \/ b.done,
         at   |-> Larger(a.at, b.at),
         secs |-> a.secs + b.secs]

=============================================================================

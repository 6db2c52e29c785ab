---------------------------- MODULE ProgressProofs ----------------------------
(***************************************************************************)
(* Theorems of ProgressMerge, for every stored row and every push, and of  *)
(* ProgressSync, for any number of phones, chapters, server threads and    *)
(* failures.                                                               *)
(*                                                                         *)
(* First, types, and that completion is sticky.  TypeOK is not inductive   *)
(* by itself: collapsing a chapter's queued rows takes maxima and counts   *)
(* ticks, which have a value only over finite sets, so the invariant       *)
(* (TypeInv) also says that every set of queued rows a phone holds is      *)
(* finite (FiniteQueues).                                                  *)
(*                                                                         *)
(* Then, a chapter finished on a phone is never lost, however its pushes   *)
(* overlap (CompletionNeverLost).  The property alone is not inductive.    *)
(* Rows are deleted on the strength of an answer (ChunkAccepted) or of a   *)
(* folded row (CompactClear) that refers to them by id, so the invariant   *)
(* says that ids name one row each (RowsAgree), that a phone waits for one *)
(* request at a time (OneRequest), what that request carries and what its  *)
(* answer means (Requests), that what a push loaded is no newer than the   *)
(* table (Loads), and that a row about to be deleted by a compaction is    *)
(* covered (Folds).                                                        *)
(*                                                                         *)
(* Two first pushes of one chapter that race are merged (Numbered),        *)
(* and a compaction never drops the furthest chapter (KnownBelow and       *)
(* DropsLess).                                                             *)
(*                                                                         *)
(* Last, what overlapping pushes do break holds when they do not overlap   *)
(* (MergesApart): no position is lost or moved back, no completion's stamp *)
(* is moved, and no replay is credited.  What a push has loaded is then    *)
(* what the table holds (Steady), and the pages of the queued rows are     *)
(* followed on their way (PagesCarried, PagesFolded), as are their stamps  *)
(* (StampedKnown, StampedItems, MergedStays).                              *)
(***************************************************************************)
EXTENDS ProgressSync, FiniteSetTheorems, TLAPS

HasMax(S) == \E m \in S : \A x \in S : m >= x

\* Max of FiniteSetsExt is a CHOOSE: it has a value on finite sets of naturals.
LEMMA NatSetHasMax ==
    ASSUME NEW S \in SUBSET Nat, IsFiniteSet(S), S # {}
    PROVE  HasMax(S)
<1> DEFINE T == {A \in SUBSET S : A # {} /\ ~HasMax(A)}
<1> SUFFICES ASSUME T # {} PROVE FALSE
    OBVIOUS
<1>1. IsWellFoundedOn(StrictSubsetOrdering(S), FiniteSubsetsOf(S))
    BY FS_StrictSubsetOrderingWellFounded
<1>2. T \subseteq FiniteSubsetsOf(S)
    BY FS_Subset DEF FiniteSubsetsOf
<1>3. PICK A \in T : \A B \in T : ~(<<B, A>> \in StrictSubsetOrdering(S))
    <2> HIDE DEF T
    <2> QED BY <1>1, <1>2, WFMin
<1>4. PICK x \in A : TRUE
    OBVIOUS
<1> DEFINE B == A \ {x}
<1>5. B # {} => HasMax(B)
    <2>1. B \in SUBSET S /\ A \in SUBSET S /\ B \subseteq A /\ B # A
        BY <1>3, <1>4
    <2>2. <<B, A>> \in StrictSubsetOrdering(S)
        BY <2>1 DEF StrictSubsetOrdering
    <2>3. B \notin T
        BY <1>3, <2>2
    <2> QED BY <2>1, <2>3
<1>6. HasMax(A)
    <2>1. CASE B = {}
        BY <2>1, <1>4 DEF HasMax
    <2>2. CASE B # {}
        <3>1. PICK m \in B : \A y \in B : m >= y
            BY <2>2, <1>5 DEF HasMax
        <3>2. m \in Nat /\ x \in Nat /\ A \subseteq Nat
            BY <1>3, <1>4
        <3>3. CASE m >= x
            BY <3>1, <3>2, <3>3 DEF HasMax
        <3>4. CASE x >= m
            BY <3>1, <3>2, <3>4, <1>4 DEF HasMax
        <3> QED BY <3>2, <3>3, <3>4
    <2> QED BY <2>1, <2>2
<1> QED BY <1>3, <1>6

\* What Max returns.
LEMMA MaxOfNats ==
    ASSUME NEW S \in SUBSET Nat, IsFiniteSet(S), S # {}
    PROVE  Max(S) \in S /\ \A x \in S : Max(S) >= x
BY NatSetHasMax DEF Max, HasMax

\* FS_Image without its operator parameter.
LEMMA FiniteImage ==
    ASSUME NEW S, IsFiniteSet(S), NEW f, f = [x \in S |-> f[x]]
    PROVE  IsFiniteSet({f[x] : x \in S})
<1> DEFINE T == {f[x] : x \in S}
<1>1. f \in Surjection(S, T)
    BY DEF Surjection
<1> HIDE DEF T
<1>2. IsFiniteSet(T)
    BY <1>1, FS_Surjection
<1> QED BY <1>2 DEF T

-----------------------------------------------------------------------------
(* The pure rules of reading progress. *)

\* The order of positions: by chapter number, then by page.
NotBehind(new, old) ==
    new.num > old.num \/ (new.num = old.num /\ new.page >= old.page)

\* The stored position, (chapter_number, last_page), never moves back in one
\* merge, whatever the push says.
THEOREM MergeMovesForward ==
    ASSUME NEW stored \in Row, NEW p \in Push, NEW now \in Nat
    PROVE  NotBehind(MergeProgress(stored, p, now), stored)
<1>1. CASE stored = NoRow
    BY <1>1 DEF NotBehind, MergeProgress, FirstRow, NoRow, NoNumber, Push
<1>2. CASE stored # NoRow
    BY <1>2 DEF NotBehind, MergeProgress, Ahead, ResolveNumber, NoNumber, Row, Push
<1> QED BY <1>1, <1>2

\* A push whose stamp the server believes as sent is taken as sent again.
LEMMA SameStamp ==
    ASSUME NEW p \in Push, p.at # NoStamp, NEW now \in Nat, NEW later \in Nat,
           p.at <= now + ClockSkew, now <= later, later <= p.at + MaxClockAge
    PROVE  BelievableStamp(p.at, now) = p.at /\ BelievableStamp(p.at, later) = p.at
BY MergeAssumption DEF BelievableStamp, Smaller, Push

\* Delivering a queued push again changes nothing: a lost answer, a retry or a
\* kill between the answer and the delete is harmless as long as the server
\* still believes the phone's clock, whatever the first delivery found stored.
THEOREM ReplayIsHarmless ==
    ASSUME NEW stored \in Row, NEW p \in Push, p.at # NoStamp,
           NEW now \in Nat \ {0}, NEW later \in Nat,
           p.at <= now + ClockSkew, now <= later, later <= p.at + MaxClockAge
    PROVE  LET once == MergeProgress(stored, p, now)
           IN  MergeProgress(once, p, later) = once
<1> DEFINE once == MergeProgress(stored, p, now)
<1>1. BelievableStamp(p.at, now) = p.at /\ BelievableStamp(p.at, later) = p.at
    BY SameStamp
<1>2. /\ CreditedSeconds(stored, p, p.at) \in Nat
      /\ CreditedSeconds(NoRow, p, p.at) \in Nat
    BY MergeAssumption DEF CreditedSeconds, Smaller, Push
<1>3. /\ once.page \in Nat /\ once.num \in Nat /\ once.done \in BOOLEAN
      /\ once.doneAt \in Nat /\ once.readAt \in Nat /\ once.secs \in Nat
      /\ once = [page |-> once.page, num |-> once.num, done |-> once.done,
                 doneAt |-> once.doneAt, readAt |-> once.readAt, secs |-> once.secs]
    <2>1. CASE stored = NoRow
        BY <1>1, <1>2, <2>1 DEF MergeProgress, FirstRow, Push, NoStamp
    <2>2. CASE stored # NoRow
        <3>1. CompletedAt(stored, p, p.at, now) \in Nat
            BY DEF CompletedAt, Row, Push
        <3> QED BY <1>1, <1>2, <2>2, <3>1
                DEF MergeProgress, ResolveNumber, Larger, Row, Push
    <2> QED BY <2>1, <2>2
<1>4. once.page # 0 \/ once.num # NoNumber
    <2>1. CASE stored = NoRow
        BY <2>1 DEF MergeProgress, FirstRow, Push
    <2>2. CASE stored # NoRow
        BY <2>2 DEF MergeProgress, Ahead, ResolveNumber, NoNumber, Row, Push
    <2> QED BY <2>1, <2>2
<1>5. ~Ahead(once, p) /\ ResolveNumber(once.num, p.num) = once.num
    <2>1. CASE stored = NoRow
        BY <2>1 DEF MergeProgress, FirstRow, Ahead, ResolveNumber, NoNumber, Push
    <2>2. CASE stored # NoRow
        BY <2>2 DEF MergeProgress, Ahead, ResolveNumber, NoNumber, Row, Push
    <2> QED BY <2>1, <2>2
<1>6. once.readAt >= p.at
    BY <1>1 DEF MergeProgress, FirstRow, Larger, Row, Push
<1>7. (p.done => once.done) /\ (once.done => once.doneAt # NoStamp)
    BY <1>1 DEF MergeProgress, FirstRow, CompletedAt, NoStamp, NoRow, Row, Push
<1> HIDE DEF once
<1>8. once # NoRow
    BY <1>4 DEF NoRow, NoNumber
<1>9. CreditedSeconds(once, p, p.at) = 0
    BY <1>5, <1>6, <1>8 DEF CreditedSeconds, Push
<1>10. CompletedAt(once, p, p.at, later) = once.doneAt
    BY <1>7 DEF CompletedAt
<1>11. /\ (once.done \/ p.done) = once.done
       /\ Larger(once.readAt, p.at) = once.readAt
    BY <1>3, <1>6, <1>7 DEF Larger, Push
<1>12. MergeProgress(once, p, later) =
          [page |-> once.page, num |-> once.num, done |-> once.done,
           doneAt |-> once.doneAt, readAt |-> once.readAt, secs |-> once.secs]
    BY <1>1, <1>3, <1>5, <1>8, <1>9, <1>10, <1>11 DEF MergeProgress
<1> QED BY <1>3, <1>12 DEF once

\* "Merges exactly the way the server's merge_progress does": folding two queued
\* pushes of a chapter and merging the fold leaves the same position, completion
\* and stamp of the last read as merging one after the other, whether or not the
\* chapter has a row yet.  The pushes must bear the same number and stamps the
\* server believes, none so old that it is taken for a broken clock.  (It does
\* not leave the same reading time or completion time.)
THEOREM FoldMergesAlike ==
    ASSUME NEW stored \in Row, NEW a \in Push, NEW b \in Push, NEW now \in Nat,
           a.num = b.num, stored.num \in {NoNumber, a.num},
           a.at # NoStamp, b.at # NoStamp,
           now <= a.at + MaxClockAge, now <= b.at + MaxClockAge
    PROVE  LET folded == MergeProgress(stored, Furthest(a, b), now)
               apart  == MergeProgress(MergeProgress(stored, a, now), b, now)
           IN  /\ folded.page = apart.page
               /\ folded.done = apart.done
               /\ folded.readAt = apart.readAt
<1> DEFINE fold  == Furthest(a, b)
           first == MergeProgress(stored, a, now)
           Best(x, y) == IF y > x THEN y ELSE x
\* One merge of a push of this chapter.
<1>1. ASSUME NEW r \in Row, r.num \in {NoNumber, a.num},
             NEW p \in Push, p.num = a.num
      PROVE  LET m == MergeProgress(r, p, now)
             IN  /\ m.page = Best(r.page, p.page)
                 /\ m.num \in {NoNumber, a.num}
                 /\ m.done = (r.done \/ p.done)
                 /\ m.readAt = Larger(r.readAt, BelievableStamp(p.at, now))
    <2>1. CASE r # NoRow
        BY <1>1, <2>1 DEF MergeProgress, Ahead, ResolveNumber, NoNumber, Row, Push
    <2>2. CASE r = NoRow
        <3>1. MergeProgress(r, p, now) = FirstRow(p, now)
            BY <2>2 DEF MergeProgress
        <3>2. r.page = 0 /\ r.done = FALSE /\ r.readAt = 0
            BY <2>2 DEF NoRow, NoStamp
        <3>3. BelievableStamp(p.at, now) \in Nat
            BY <1>1, MergeAssumption DEF BelievableStamp, Smaller, Push
        <3> QED BY <1>1, <3>1, <3>2, <3>3 DEF FirstRow, Larger, Push
    <2> QED BY <2>1, <2>2
<1>2. /\ fold \in Push /\ fold.num = a.num
      /\ fold.page = Best(a.page, b.page)
      /\ fold.done = (a.done \/ b.done)
      /\ fold.at = Larger(a.at, b.at)
    BY DEF Furthest, ResolveNumber, NoNumber, Larger, Push
<1>3. first \in Row
    <2>1. CreditedSeconds(stored, a, BelievableStamp(a.at, now)) \in Nat
        BY MergeAssumption DEF CreditedSeconds, Smaller, Push
    <2>2. BelievableStamp(a.at, now) \in Nat
        BY MergeAssumption DEF BelievableStamp, Smaller, Push
    <2>3. CompletedAt(stored, a, BelievableStamp(a.at, now), now) \in Nat
        BY <2>2 DEF CompletedAt, Row, Push
    <2>4. CASE stored # NoRow
        BY <2>1, <2>2, <2>3, <2>4 DEF MergeProgress, ResolveNumber, Larger, Row, Push
    <2>5. CASE stored = NoRow
        BY <2>1, <2>2, <2>5 DEF MergeProgress, FirstRow, NoStamp, Row, Push
    <2> QED BY <2>4, <2>5
<1>4. BelievableStamp(fold.at, now) =
          Larger(BelievableStamp(a.at, now), BelievableStamp(b.at, now))
    BY <1>2, MergeAssumption DEF BelievableStamp, Larger, Smaller, NoStamp, Push
<1>5. /\ first.page = Best(stored.page, a.page)
      /\ first.num \in {NoNumber, a.num}
      /\ first.done = (stored.done \/ a.done)
      /\ first.readAt = Larger(stored.readAt, BelievableStamp(a.at, now))
    BY <1>1
<1> DEFINE folded == MergeProgress(stored, fold, now)
           apart  == MergeProgress(first, b, now)
<1>6. /\ folded.page = Best(stored.page, fold.page)
      /\ folded.done = (stored.done \/ fold.done)
      /\ folded.readAt = Larger(stored.readAt, BelievableStamp(fold.at, now))
    BY <1>1, <1>2
<1>7. /\ apart.page = Best(first.page, b.page)
      /\ apart.done = (first.done \/ b.done)
      /\ apart.readAt = Larger(first.readAt, BelievableStamp(b.at, now))
    BY <1>1, <1>3, <1>5
<1> HIDE DEF fold, first
<1> SUFFICES /\ folded.page = apart.page
             /\ folded.done = apart.done
             /\ folded.readAt = apart.readAt
    BY DEF fold, first
<1> HIDE DEF folded, apart
<1>8. folded.page = apart.page
    BY <1>2, <1>5, <1>6, <1>7 DEF Row, Push
<1>9. folded.done = apart.done
    BY <1>2, <1>5, <1>6, <1>7
<1>10. folded.readAt = apart.readAt
    <2>1. BelievableStamp(a.at, now) \in Nat /\ BelievableStamp(b.at, now) \in Nat
        BY MergeAssumption DEF BelievableStamp, Smaller, Push
    <2> QED BY <1>4, <1>5, <1>6, <1>7, <2>1 DEF Larger, Row
<1> QED BY <1>8, <1>9, <1>10

-----------------------------------------------------------------------------
(* Merging. *)

\* A push credits a natural number of seconds...
LEMMA CreditedType ==
    ASSUME NEW stored \in Row, NEW p \in Push, NEW at \in Nat
    PROVE  CreditedSeconds(stored, p, at) \in Nat
BY MergeAssumption DEF CreditedSeconds, Smaller, Push

\* ... and its stamp is believed as a natural number.
LEMMA BelievableType ==
    ASSUME NEW at \in Nat, NEW now \in Nat
    PROVE  BelievableStamp(at, now) \in Nat
BY MergeAssumption DEF BelievableStamp, Smaller

\* A merge returns a row, completed when either side is.
LEMMA MergeType ==
    ASSUME NEW stored \in Row, NEW p \in Push, NEW now \in Nat
    PROVE  /\ MergeProgress(stored, p, now) \in Row
           /\ MergeProgress(stored, p, now).done = (stored.done \/ p.done)
<1>1. BelievableStamp(p.at, now) \in Nat
    BY BelievableType DEF Push
<1>2. NoRow \in Row /\ NoRow.done = FALSE
    BY DEF NoRow, Row, NoNumber, NoStamp
<1>3. CreditedSeconds(NoRow, p, BelievableStamp(p.at, now)) \in Nat
    BY <1>1, <1>2, CreditedType
<1>4. CreditedSeconds(stored, p, BelievableStamp(p.at, now)) \in Nat
    BY <1>1, CreditedType
<1>5. CASE stored = NoRow
    BY <1>1, <1>2, <1>3, <1>5 DEF MergeProgress, FirstRow, Row, Push, NoStamp
<1>6. CASE stored # NoRow
    <2>1. CompletedAt(stored, p, BelievableStamp(p.at, now), now) \in Nat
        BY <1>1 DEF CompletedAt, Row
    <2> QED
        BY <1>1, <1>4, <1>6, <2>1 DEF MergeProgress, Row, Push, Larger, ResolveNumber
<1> QED BY <1>5, <1>6

\* An UPDATE of the changed columns leaves completion to the newer of the two.
LEMMA ChangedType ==
    ASSUME NEW current \in Row, NEW loaded \in Row, NEW new \in Row
    PROVE  /\ ChangedColumns(current, loaded, new) \in Row
           /\ ChangedColumns(current, loaded, new).done =
                  IF new.done = loaded.done THEN current.done ELSE new.done
BY DEF ChangedColumns, Row

\* A push never takes completion back, and stores its own as long as the row it
\* loaded is no newer than the table.
LEMMA WrittenType ==
    ASSUME NEW current \in Row, NEW loaded \in Row, NEW p \in Push, NEW now \in Nat
    PROVE  /\ Written(current, loaded, p, now) \in Row
           /\ current.done => Written(current, loaded, p, now).done
           /\ p.done /\ (loaded.done => current.done) => Written(current, loaded, p, now).done
<1>1. /\ MergeProgress(loaded, p, now) \in Row
      /\ MergeProgress(loaded, p, now).done = (loaded.done \/ p.done)
    BY MergeType
<1>2. /\ MergeProgress(current, p, now) \in Row
      /\ MergeProgress(current, p, now).done = (current.done \/ p.done)
    BY MergeType
<1>3. /\ ChangedColumns(current, loaded, MergeProgress(loaded, p, now)) \in Row
      /\ ChangedColumns(current, loaded, MergeProgress(loaded, p, now)).done =
            IF MergeProgress(loaded, p, now).done = loaded.done
            THEN current.done ELSE MergeProgress(loaded, p, now).done
    BY <1>1, ChangedType
<1>4. current.done \in BOOLEAN /\ loaded.done \in BOOLEAN /\ p.done \in BOOLEAN
    BY DEF Row, Push
<1>5. CASE loaded = NoRow
    BY <1>2, <1>5 DEF Written
<1>6. CASE loaded # NoRow
    <2>1. Written(current, loaded, p, now) =
              ChangedColumns(current, loaded, MergeProgress(loaded, p, now))
        BY <1>6 DEF Written
    <2> QED BY <2>1, <1>1, <1>3, <1>4
<1> QED BY <1>5, <1>6

-----------------------------------------------------------------------------
(* Queued rows. *)

\* The seconds of finitely many queued rows add up.
LEMMA TotalSecondsType ==
    ASSUME NEW rows \in SUBSET OutboxRow, IsFiniteSet(rows)
    PROVE  TotalSeconds(rows) \in Nat
<1> DEFINE ticks(r) == {r.id} \X (1..r.push.secs)
           all == {ticks(r) : r \in rows}
<1>1. IsFiniteSet(all)
    <2> DEFINE f == [r \in rows |-> ticks(r)]
    <2>1. {f[r] : r \in rows} = all /\ f = [r \in rows |-> f[r]]
        OBVIOUS
    <2> HIDE DEF f, all
    <2>2. IsFiniteSet({f[r] : r \in rows})
        BY <2>1, FiniteImage
    <2> QED BY <2>1, <2>2
<1>2. ASSUME NEW r \in rows PROVE IsFiniteSet(ticks(r))
    <2>1. r.push.secs \in Nat
        BY DEF OutboxRow, Push
    <2>2. IsFiniteSet({r.id})
        BY FS_Singleton
    <2>3. IsFiniteSet(1..r.push.secs)
        <3>1. r.push.secs \in Int /\ 1 \in Int
            BY <2>1
        <3> QED BY <3>1, FS_Interval
    <2> QED BY <2>2, <2>3, FS_Product
<1>3. IsFiniteSet(UNION all)
    <2>1. \A A \in all : IsFiniteSet(A)
        BY <1>2
    <2> HIDE DEF all
    <2> QED BY <1>1, <2>1, FS_UNION
<1> QED BY <1>3, FS_CardinalityType DEF TotalSeconds

\* A collapsed push is a push, completed when one of its rows is.
LEMMA CollapseType ==
    ASSUME NEW rows \in SUBSET OutboxRow, IsFiniteSet(rows), rows # {}
    PROVE  /\ Collapse(rows) \in Push
           /\ Collapse(rows).done = \E r \in rows : r.push.done
<1> DEFINE pages == {r.push.page : r \in rows}
           nums  == {r.push.num : r \in rows}
           ats   == {r.push.at : r \in rows}
<1>1. \A r \in rows : r.push \in Push
    BY DEF OutboxRow
<1>2. /\ pages \in SUBSET (Nat \ {0}) /\ pages # {}
      /\ nums \in SUBSET Nat /\ nums # {}
      /\ ats \in SUBSET Nat /\ ats # {}
    BY <1>1 DEF Push
<1>5. IsFiniteSet(pages) /\ IsFiniteSet(nums) /\ IsFiniteSet(ats)
    <2> DEFINE f == [r \in rows |-> r.push.page]
               g == [r \in rows |-> r.push.num]
               h == [r \in rows |-> r.push.at]
    <2>1. /\ {f[r] : r \in rows} = pages /\ f = [r \in rows |-> f[r]]
          /\ {g[r] : r \in rows} = nums /\ g = [r \in rows |-> g[r]]
          /\ {h[r] : r \in rows} = ats /\ h = [r \in rows |-> h[r]]
        OBVIOUS
    <2> HIDE DEF f, g, h, pages, nums, ats
    <2>2. /\ IsFiniteSet({f[r] : r \in rows})
          /\ IsFiniteSet({g[r] : r \in rows})
          /\ IsFiniteSet({h[r] : r \in rows})
        BY <2>1, FiniteImage
    <2> QED BY <2>1, <2>2
<1>3. Max(pages) \in pages /\ Max(nums) \in nums /\ Max(ats) \in ats
    <2> HIDE DEF pages, nums, ats
    <2> QED BY <1>2, <1>5, MaxOfNats
<1>4. TotalSeconds(rows) \in Nat
    BY TotalSecondsType
<1> QED BY <1>2, <1>3, <1>4 DEF Collapse, Push
-----------------------------------------------------------------------------
(* Types. *)

FiniteQueues ==
    \A d \in Phones :
        /\ IsFiniteSet(outbox[d])
        /\ \A c \in Chapters : IsFiniteSet(drain[d].groups[c])
                            /\ IsFiniteSet(compact[d].groups[c])

TypeInv == TypeOK /\ FiniteQueues

\* The types of the constant values, and what they hold.
LEMMA ConstantTypes ==
    /\ NoRow \in Row
    /\ NoRows \in [Chapters -> Row]
    /\ NoItems \in [Chapters -> Push \cup {NoPush}]
    /\ NoGroups \in Group
    /\ \A c \in Chapters : NoGroups[c] = {}
    /\ Nobody \notin Phones
    /\ Free \in Handler
    /\ Free.phase = "free" /\ Free.from = Nobody
    /\ NotDraining \in [groups : Group, chunk : SUBSET Chapters]
    /\ NotCompacting \in [groups : Group, drop : SUBSET Chapters, clear : SUBSET Nat]
    /\ \A c \in Chapters : NotDraining.groups[c] = {} /\ NotCompacting.groups[c] = {}
    /\ NotDraining.chunk = {}
    /\ NotCompacting.clear = {}
<1>1. NoRow \in Row
    BY DEF NoRow, Row, NoNumber, NoStamp
<1>2. NoRows \in [Chapters -> Row] /\ NoItems \in [Chapters -> Push \cup {NoPush}]
    BY <1>1 DEF NoRows, NoItems
<1>3. NoGroups \in Group /\ \A c \in Chapters : NoGroups[c] = {}
    BY DEF NoGroups, Group
<1>4. Nobody \notin Phones
    BY SyncAssumption DEF Nobody
<1>5. Free \in Handler /\ Free.phase = "free" /\ Free.from = Nobody
    BY <1>2 DEF Free, Handler
<1>6. /\ NotDraining \in [groups : Group, chunk : SUBSET Chapters]
      /\ NotCompacting \in [groups : Group, drop : SUBSET Chapters, clear : SUBSET Nat]
      /\ NotDraining.groups = NoGroups /\ NotDraining.chunk = {}
      /\ NotCompacting.groups = NoGroups /\ NotCompacting.clear = {}
    BY <1>3 DEF NotDraining, NotCompacting
<1> QED BY <1>1, <1>2, <1>3, <1>4, <1>5, <1>6

\* What a reader pushes.
LEMMA PushAtType ==
    ASSUME NEW c \in Chapters, NEW page \in Pages, NEW num \in Nat, NEW at \in Nat
    PROVE  /\ PushAt(c, page, num, at) \in Push
           /\ PushAt(c, page, num, at).page = page
           /\ PushAt(c, page, num, at).done = (page >= LastPage)
           /\ PushAt(c, page, num, at).secs = 1
BY SyncAssumption DEF PushAt, Push, Pages

\* A phone that stops waiting leaves well-formed threads, none of them its own.
LEMMA AbandonedType ==
    ASSUME TypeOK, NEW d \in Phones
    PROVE  /\ Abandoned(d) \in [Workers -> Handler]
           /\ \A w \in Workers : Abandoned(d)[w].from = d => d = Nobody
<1> SUFFICES ASSUME NEW w \in Workers
             PROVE  Abandoned(d)[w] \in Handler /\ (Abandoned(d)[w].from = d => d = Nobody)
    BY DEF Abandoned
<1>1. handler[w] \in Handler
    BY DEF TypeOK
<1>2. [handler[w] EXCEPT !.from = Nobody] \in Handler
    BY <1>1 DEF Handler
<1>3. [handler[w] EXCEPT !.from = Nobody].from = Nobody
    BY <1>1 DEF Handler
<1> QED BY <1>1, <1>2, <1>3, ConstantTypes DEF Abandoned

\* A thread that has just received a push.
LEMMA ReceivedType ==
    ASSUME NEW from \in Phones \cup {Nobody}, NEW items \in [Chapters -> Push \cup {NoPush}]
    PROVE  /\ Received(from, items) \in Handler
           /\ Received(from, items).from = from
           /\ Received(from, items).items = items
           /\ Received(from, items).phase = "received"
BY ConstantTypes DEF Received, Handler, Free

\* Grouping queued rows by chapter.
LEMMA GroupedType ==
    ASSUME NEW rows \in SUBSET OutboxRow, IsFiniteSet(rows)
    PROVE  /\ Grouped(rows) \in Group
           /\ \A c \in Chapters : /\ IsFiniteSet(Grouped(rows)[c])
                                  /\ Grouped(rows)[c] = {r \in rows : r.ch = c}
BY FS_Subset DEF Grouped, RowsOf, Group

\* Inserting a queued row keeps the outbox well formed and finite.
LEMMA InsertType ==
    ASSUME TypeInv, NEW d \in Phones, NEW c \in Chapters, NEW push \in Push,
           Insert(d, c, push)
    PROVE  /\ outbox' \in [Phones -> SUBSET OutboxRow]
           /\ nextId' \in [Phones -> Nat \ {0}]
           /\ \A e \in Phones : IsFiniteSet(outbox'[e])
<1> DEFINE new == [id |-> nextId[d], ch |-> c, push |-> push]
<1>1. new \in OutboxRow
    BY DEF OutboxRow, TypeInv, TypeOK
<1>2. outbox' = [outbox EXCEPT ![d] = @ \cup {new}] /\ nextId' = [nextId EXCEPT ![d] = @ + 1]
    BY DEF Insert
<1> HIDE DEF new
<1>3. IsFiniteSet(outbox[d] \cup {new})
    BY FS_AddElement DEF TypeInv, FiniteQueues
<1> QED BY <1>1, <1>2, <1>3 DEF TypeInv, TypeOK, FiniteQueues

\* So does deleting rows.
LEMMA ClearType ==
    ASSUME TypeInv, NEW d \in Phones, NEW ids, Clear(d, ids)
    PROVE  /\ outbox' \in [Phones -> SUBSET OutboxRow]
           /\ \A e \in Phones : IsFiniteSet(outbox'[e])
<1>1. IsFiniteSet({r \in outbox[d] : r.id \notin ids})
    BY FS_Subset DEF TypeInv, FiniteQueues
<1> QED BY <1>1 DEF Clear, TypeInv, TypeOK, FiniteQueues
-----------------------------------------------------------------------------
Drain      == [groups : Group, chunk : SUBSET Chapters]
Compaction == [groups : Group, drop : SUBSET Chapters, clear : SUBSET Nat]

\* Replacing a drain by a well-formed, finite one.
LEMMA DrainUpdate ==
    ASSUME TypeInv, NEW d \in Phones, NEW new \in Drain,
           \A c \in Chapters : IsFiniteSet(new.groups[c]),
           drain' = [drain EXCEPT ![d] = new]
    PROVE  /\ drain' \in [Phones -> Drain]
           /\ \A e \in Phones, c \in Chapters : IsFiniteSet(drain'[e].groups[c])
<1>1. drain \in [Phones -> Drain]
    BY DEF TypeInv, TypeOK, Drain
<1>2. \A e \in Phones : drain'[e] = IF e = d THEN new ELSE drain[e]
    BY <1>1
<1>3. drain' \in [Phones -> Drain]
    BY <1>1
<1>4. ASSUME NEW e \in Phones, NEW c \in Chapters PROVE IsFiniteSet(drain'[e].groups[c])
    <2>1. CASE e = d
        BY <2>1, <1>2
    <2>2. CASE e # d
        BY <2>2, <1>2 DEF TypeInv, FiniteQueues
    <2> QED BY <2>1, <2>2
<1> QED BY <1>3, <1>4

\* Replacing a compaction by a well-formed, finite one.
LEMMA CompactUpdate ==
    ASSUME TypeInv, NEW d \in Phones, NEW new \in Compaction,
           \A c \in Chapters : IsFiniteSet(new.groups[c]),
           compact' = [compact EXCEPT ![d] = new]
    PROVE  /\ compact' \in [Phones -> Compaction]
           /\ \A e \in Phones, c \in Chapters : IsFiniteSet(compact'[e].groups[c])
<1>1. compact \in [Phones -> Compaction]
    BY DEF TypeInv, TypeOK, Compaction
<1>2. \A e \in Phones : compact'[e] = IF e = d THEN new ELSE compact[e]
    BY <1>1
<1>3. compact' \in [Phones -> Compaction]
    BY <1>1
<1>4. ASSUME NEW e \in Phones, NEW c \in Chapters PROVE IsFiniteSet(compact'[e].groups[c])
    <2>1. CASE e = d
        BY <2>1, <1>2
    <2>2. CASE e # d
        BY <2>2, <1>2 DEF TypeInv, FiniteQueues
    <2> QED BY <2>1, <2>2
<1> QED BY <1>3, <1>4

\* The compaction record after one fold.
LEMMA FoldedCompaction ==
    ASSUME NEW r \in Compaction, NEW g \in Group, NEW ids \in SUBSET Nat
    PROVE  /\ [r EXCEPT !.groups = g, !.clear = ids] \in Compaction
           /\ [r EXCEPT !.groups = g, !.clear = ids].groups = g
           /\ [r EXCEPT !.groups = g, !.clear = ids].clear = ids
BY DEF Compaction

\* The compaction record after a chapter's rows have been dropped.
LEMMA DroppedCompaction ==
    ASSUME NEW r \in Compaction, NEW g \in Group, NEW left \in SUBSET Chapters
    PROVE  /\ [r EXCEPT !.groups = g, !.drop = left] \in Compaction
           /\ [r EXCEPT !.groups = g, !.drop = left].groups = g
BY DEF Compaction

\* Dropping a drain or a compaction.
LEMMA Reset ==
    ASSUME TypeInv, NEW d \in Phones
    PROVE  /\ drain' = [drain EXCEPT ![d] = NotDraining] =>
                /\ drain' \in [Phones -> Drain]
                /\ \A e \in Phones, c \in Chapters : IsFiniteSet(drain'[e].groups[c])
           /\ compact' = [compact EXCEPT ![d] = NotCompacting] =>
                /\ compact' \in [Phones -> Compaction]
                /\ \A e \in Phones, c \in Chapters : IsFiniteSet(compact'[e].groups[c])
<1>1. /\ NotDraining \in Drain /\ NotCompacting \in Compaction
      /\ \A c \in Chapters : /\ NotDraining.groups[c] = {}
                             /\ NotCompacting.groups[c] = {}
    BY ConstantTypes DEF Drain, Compaction
<1>2. \A c \in Chapters : /\ IsFiniteSet(NotDraining.groups[c])
                          /\ IsFiniteSet(NotCompacting.groups[c])
    BY <1>1, FS_EmptySet
<1> QED BY <1>1, <1>2, DrainUpdate, CompactUpdate

\* The initial state.
LEMMA InitType == Init => TypeInv
<1> SUFFICES ASSUME Init PROVE TypeInv
    OBVIOUS
<1>1. TypeOK
    BY ConstantTypes, SyncAssumption DEF Init, TypeOK
<1>2. FiniteQueues
    BY ConstantTypes, FS_EmptySet DEF Init, FiniteQueues
<1> QED BY <1>1, <1>2 DEF TypeInv

\* Every step of a phone.
LEMMA PhoneTypeStep ==
    ASSUME TypeInv, NEW d \in Phones, PhoneNext(d)
    PROVE  TypeInv'
<1> USE DEF TypeInv
<1>1. ASSUME NEW c \in Chapters, NEW page \in Pages, Save(d, c, page) PROVE TypeInv'
    <2> DEFINE push == PushAt(c, page, c, clock + PhoneAhead)
    <2>1. push \in Push /\ push.secs = 1
        BY PushAtType, SyncAssumption DEF TypeOK
    <2>2. Insert(d, c, push) /\ spent' = [spent EXCEPT ![c] = @ + push.secs]
        BY <1>1 DEF Save
    <2> HIDE DEF push
    <2>3. /\ outbox' \in [Phones -> SUBSET OutboxRow]
          /\ nextId' \in [Phones -> Nat \ {0}]
          /\ \A e \in Phones : IsFiniteSet(outbox'[e])
        BY <2>1, <2>2, InsertType
    <2>4. captured' \in [Phones -> [Chapters -> 0..LastPage]]
        BY <1>1, SyncAssumption DEF Save, TypeOK, Larger, Pages
    <2>5. spent' \in [Chapters -> Nat] /\ reported' \in [Chapters -> SUBSET Pages]
        BY <1>1, <2>1, <2>2 DEF Save, TypeOK
    <2>6. clock' \in Nat \ {0} /\ sinceRead' \in [Phones -> Nat]
        BY <1>1 DEF Save, TypeOK
    <2> QED BY <1>1, <2>3, <2>4, <2>5, <2>6 DEF Save, serverVars, TypeOK, FiniteQueues
<1>2. ASSUME DrainStart(d) PROVE TypeInv'
    <2> DEFINE new == [groups |-> Grouped(outbox[d]), chunk |-> drain[d].chunk]
    <2>1. /\ Grouped(outbox[d]) \in Group
          /\ \A c \in Chapters : IsFiniteSet(Grouped(outbox[d])[c])
        BY GroupedType DEF TypeOK, FiniteQueues
    <2>2. new \in Drain /\ \A c \in Chapters : IsFiniteSet(new.groups[c])
        BY <2>1 DEF TypeOK, Drain
    <2>3. drain' = [drain EXCEPT ![d] = new]
        <3>1. drain' = [drain EXCEPT ![d] = [drain[d] EXCEPT !.groups = Grouped(outbox[d])]]
            BY <1>2 DEF DrainStart
        <3>2. drain[d] \in Drain
            BY DEF TypeOK, Drain
        <3>3. [drain[d] EXCEPT !.groups = Grouped(outbox[d])] = new
            BY <3>2 DEF Drain
        <3> QED BY <3>1, <3>3
    <2> HIDE DEF new
    <2>4. /\ drain' \in [Phones -> Drain]
          /\ \A e \in Phones, c \in Chapters : IsFiniteSet(drain'[e].groups[c])
        BY <2>2, <2>3, DrainUpdate
    <2> QED BY <1>2, <2>4 DEF DrainStart, serverVars, ghostVars, boundVars, Drain, TypeOK, FiniteQueues
<1>3. ASSUME NEW w \in Workers, NEW chunk \in SUBSET Chapters, PostChunk(d, w, chunk)
      PROVE  TypeInv'
    <2> DEFINE items == [c \in Chapters |->
                            IF c \in chunk THEN Collapse(drain[d].groups[c]) ELSE NoPush]
    <2>1. items \in [Chapters -> Push \cup {NoPush}]
        <3>1. \A c \in chunk : /\ drain[d].groups[c] \in SUBSET OutboxRow
                               /\ drain[d].groups[c] # {}
                               /\ IsFiniteSet(drain[d].groups[c])
            BY <1>3 DEF PostChunk, ToDeliver, TypeOK, FiniteQueues, Group
        <3>2. \A c \in chunk : Collapse(drain[d].groups[c]) \in Push
            BY <3>1, CollapseType
        <3> QED BY <3>2
    <2>2. handler' = [handler EXCEPT ![w] = Received(d, items)]
        BY <1>3 DEF PostChunk
    <2> HIDE DEF items
    <2>3. handler' \in [Workers -> Handler]
        BY <2>1, <2>2, ReceivedType DEF TypeOK
    <2> DEFINE new == [groups |-> drain[d].groups, chunk |-> chunk]
    <2>4. new \in Drain /\ \A c \in Chapters : IsFiniteSet(new.groups[c])
        BY DEF TypeOK, FiniteQueues, Drain
    <2>5. drain' = [drain EXCEPT ![d] = new]
        <3>1. drain' = [drain EXCEPT ![d] = [drain[d] EXCEPT !.chunk = chunk]]
            BY <1>3 DEF PostChunk
        <3>2. drain[d] \in Drain
            BY DEF TypeOK, Drain
        <3>3. [drain[d] EXCEPT !.chunk = chunk] = new
            BY <3>2 DEF Drain
        <3> QED BY <3>1, <3>3
    <2> HIDE DEF new
    <2>6. /\ drain' \in [Phones -> Drain]
          /\ \A e \in Phones, c \in Chapters : IsFiniteSet(drain'[e].groups[c])
        BY <2>4, <2>5, DrainUpdate
    <2> QED BY <1>3, <2>3, <2>6 DEF PostChunk, ghostVars, boundVars, Drain, TypeOK, FiniteQueues
<1>4. ASSUME NEW w \in Workers, ChunkAccepted(d, w) PROVE TypeInv'
    <2> DEFINE ids == UNION {Ids(drain[d].groups[c]) : c \in drain[d].chunk}
               left == [c \in Chapters |->
                           IF c \in drain[d].chunk THEN {} ELSE drain[d].groups[c]]
    <2>1. /\ Clear(d, ids)
          /\ drain' = [drain EXCEPT ![d] = [groups |-> left, chunk |-> {}]]
          /\ hold' = [hold EXCEPT ![d] = @ /\ left # NoGroups]
          /\ handler' = [handler EXCEPT ![w] = Free]
        BY <1>4 DEF ChunkAccepted
    <2>2. left \in Group /\ \A c \in Chapters : IsFiniteSet(left[c])
        BY FS_EmptySet DEF Group, TypeOK, FiniteQueues
    <2> HIDE DEF ids, left
    <2>3. /\ outbox' \in [Phones -> SUBSET OutboxRow]
          /\ \A e \in Phones : IsFiniteSet(outbox'[e])
        BY <2>1, ClearType
    <2>4. /\ drain' \in [Phones -> Drain]
          /\ \A e \in Phones, c \in Chapters : IsFiniteSet(drain'[e].groups[c])
        <3> DEFINE new == [groups |-> left, chunk |-> {}]
        <3>1. new \in Drain /\ \A c \in Chapters : IsFiniteSet(new.groups[c])
            BY <2>2 DEF Drain
        <3>2. drain' = [drain EXCEPT ![d] = new]
            BY <2>1
        <3> HIDE DEF new
        <3> QED BY <3>1, <3>2, DrainUpdate
    <2>5. hold' \in [Phones -> BOOLEAN] /\ handler' \in [Workers -> Handler]
        BY <2>1, ConstantTypes DEF TypeOK
    <2> QED BY <1>4, <2>3, <2>4, <2>5
            DEF ChunkAccepted, ghostVars, boundVars, Drain, TypeOK, FiniteQueues
<1>5. ASSUME NEW w \in Workers, ChunkTooLarge(d, w) PROVE TypeInv'
    <2>1. /\ drain' \in [Phones -> Drain]
          /\ \A e \in Phones, c \in Chapters : IsFiniteSet(drain'[e].groups[c])
        BY <1>5, Reset DEF ChunkTooLarge
    <2>2. /\ limit' \in [Phones -> Nat \ {0}]
          /\ hold' \in [Phones -> BOOLEAN]
          /\ handler' \in [Workers -> Handler]
        BY <1>5, ConstantTypes, SyncAssumption DEF ChunkTooLarge, TypeOK
    <2> QED BY <1>5, <2>1, <2>2
            DEF ChunkTooLarge, ghostVars, boundVars, Drain, TypeOK, FiniteQueues
<1>6. ASSUME GiveUp(d) PROVE TypeInv'
    <2>1. /\ drain' \in [Phones -> Drain]
          /\ \A e \in Phones, c \in Chapters : IsFiniteSet(drain'[e].groups[c])
        BY <1>6, Reset DEF GiveUp
    <2>2. /\ hold' \in [Phones -> BOOLEAN]
          /\ handler' \in [Workers -> Handler]
          /\ failures' \in Nat
        BY <1>6, AbandonedType DEF GiveUp, TypeOK
    <2> QED BY <1>6, <2>1, <2>2 DEF GiveUp, ghostVars, Drain, TypeOK, FiniteQueues
<1>7. ASSUME Crash(d) PROVE TypeInv'
    <2>1. /\ drain' \in [Phones -> Drain]
          /\ compact' \in [Phones -> Compaction]
          /\ \A e \in Phones, c \in Chapters : /\ IsFiniteSet(drain'[e].groups[c])
                                               /\ IsFiniteSet(compact'[e].groups[c])
        BY <1>7, Reset DEF Crash
    <2>2. /\ sinceRead' \in [Phones -> Nat]
          /\ hold' \in [Phones -> BOOLEAN]
          /\ limit' \in [Phones -> Nat \ {0}]
          /\ handler' \in [Workers -> Handler]
          /\ failures' \in Nat
        BY <1>7, AbandonedType, SyncAssumption DEF Crash, TypeOK
    <2> QED BY <1>7, <2>1, <2>2
            DEF Crash, ghostVars, Drain, Compaction, TypeOK, FiniteQueues
<1>8. ASSUME CompactStart(d) PROVE TypeInv'
    <2> DEFINE drop == GroupsToDrop(Grouped(outbox[d]))
               groups == [c \in Chapters |->
                  IF c \in drop \/ Cardinality(Grouped(outbox[d])[c]) >= 2
                  THEN Grouped(outbox[d])[c] ELSE {}]
    <2>1. /\ Grouped(outbox[d]) \in Group
          /\ \A c \in Chapters : IsFiniteSet(Grouped(outbox[d])[c])
        BY GroupedType DEF TypeOK, FiniteQueues
    <2>2. groups \in Group /\ \A c \in Chapters : IsFiniteSet(groups[c])
        BY <2>1, FS_EmptySet DEF Group
    <2>3. drop \in SUBSET Chapters
        BY DEF GroupsToDrop
    <2>4. compact' = [compact EXCEPT ![d] = [groups |-> groups, drop |-> drop, clear |-> {}]]
        BY <1>8 DEF CompactStart
    <2> HIDE DEF groups, drop
    <2>5. /\ compact' \in [Phones -> Compaction]
          /\ \A e \in Phones, c \in Chapters : IsFiniteSet(compact'[e].groups[c])
        <3> DEFINE new == [groups |-> groups, drop |-> drop, clear |-> {}]
        <3>1. new \in Compaction /\ \A c \in Chapters : IsFiniteSet(new.groups[c])
            BY <2>2, <2>3 DEF Compaction
        <3>2. compact' = [compact EXCEPT ![d] = new]
            BY <2>4
        <3> HIDE DEF new
        <3> QED BY <3>1, <3>2, CompactUpdate
    <2> QED BY <1>8, <2>5
            DEF CompactStart, serverVars, ghostVars, boundVars, Compaction, TypeOK, FiniteQueues
<1>9. ASSUME NEW c \in Chapters, CompactFold(d, c) PROVE TypeInv'
    <2> DEFINE old == compact[d].groups[c]
    <2>1. old \in SUBSET OutboxRow /\ old # {} /\ IsFiniteSet(old)
        BY <1>9 DEF CompactFold, TypeOK, FiniteQueues, Group
    <2>2. Collapse(old) \in Push
        BY <2>1, CollapseType
    <2>3. Ids(old) \in SUBSET Nat
        BY <2>1 DEF Ids, OutboxRow
    <2>4. /\ outbox' \in [Phones -> SUBSET OutboxRow]
          /\ nextId' \in [Phones -> Nat \ {0}]
          /\ \A e \in Phones : IsFiniteSet(outbox'[e])
        BY <1>9, <2>2, InsertType DEF CompactFold
    <2> DEFINE rest == [compact[d].groups EXCEPT ![c] = {}]
               new  == [compact[d] EXCEPT !.groups = rest, !.clear = Ids(old)]
    <2>5. compact' = [compact EXCEPT ![d] = new]
        BY <1>9 DEF CompactFold
    <2>6. new \in Compaction /\ \A k \in Chapters : IsFiniteSet(new.groups[k])
        <3>1. compact[d] \in Compaction
            BY DEF TypeOK, Compaction
        <3>2. rest \in Group /\ \A k \in Chapters : IsFiniteSet(rest[k])
            BY <3>1, FS_EmptySet DEF FiniteQueues, Group, Compaction
        <3> HIDE DEF rest, old
        <3>3. new \in Compaction
            BY <2>3, <3>1, <3>2, FoldedCompaction
        <3>4. new.groups = rest
            BY <3>1 DEF Compaction
        <3> QED BY <3>2, <3>3, <3>4
    <2> HIDE DEF new, old
    <2>7. /\ compact' \in [Phones -> Compaction]
          /\ \A e \in Phones, k \in Chapters : IsFiniteSet(compact'[e].groups[k])
        BY <2>5, <2>6, CompactUpdate
    <2> QED BY <1>9, <2>4, <2>7
            DEF CompactFold, serverVars, ghostVars, boundVars, Compaction, TypeOK, FiniteQueues
<1>10. ASSUME CompactClear(d) PROVE TypeInv'
    <2>1. /\ outbox' \in [Phones -> SUBSET OutboxRow]
          /\ \A e \in Phones : IsFiniteSet(outbox'[e])
        BY <1>10, ClearType DEF CompactClear
    <2> DEFINE new == [groups |-> compact[d].groups, drop |-> compact[d].drop, clear |-> {}]
    <2>2. compact' = [compact EXCEPT ![d] = new]
        <3>1. compact' = [compact EXCEPT ![d] = [compact[d] EXCEPT !.clear = {}]]
            BY <1>10 DEF CompactClear
        <3>2. compact[d] \in Compaction
            BY DEF TypeOK, Compaction
        <3>3. [compact[d] EXCEPT !.clear = {}] = new
            BY <3>2 DEF Compaction
        <3> QED BY <3>1, <3>3
    <2>3. new \in Compaction /\ \A k \in Chapters : IsFiniteSet(new.groups[k])
        BY DEF TypeOK, FiniteQueues, Compaction
    <2> HIDE DEF new
    <2>4. /\ compact' \in [Phones -> Compaction]
          /\ \A e \in Phones, k \in Chapters : IsFiniteSet(compact'[e].groups[k])
        BY <2>2, <2>3, CompactUpdate
    <2> QED BY <1>10, <2>1, <2>4
            DEF CompactClear, serverVars, ghostVars, boundVars, Compaction, TypeOK, FiniteQueues
<1>11. ASSUME NEW c \in Chapters, CompactDrop(d, c) PROVE TypeInv'
    <2>1. /\ outbox' \in [Phones -> SUBSET OutboxRow]
          /\ \A e \in Phones : IsFiniteSet(outbox'[e])
        BY <1>11, ClearType DEF CompactDrop
    <2> DEFINE rest == [compact[d].groups EXCEPT ![c] = {}]
               left == compact[d].drop \ {c}
               new  == [compact[d] EXCEPT !.groups = rest, !.drop = left]
    <2>2. compact' = [compact EXCEPT ![d] = new]
        BY <1>11 DEF CompactDrop
    <2>3. new \in Compaction /\ \A k \in Chapters : IsFiniteSet(new.groups[k])
        <3>1. compact[d] \in Compaction
            BY DEF TypeOK, Compaction
        <3>2. /\ rest \in Group /\ \A k \in Chapters : IsFiniteSet(rest[k])
              /\ left \in SUBSET Chapters
            BY <3>1, FS_EmptySet DEF FiniteQueues, Group, Compaction
        <3> HIDE DEF rest, left
        <3>3. new \in Compaction /\ new.groups = rest
            BY <3>1, <3>2, DroppedCompaction
        <3> QED BY <3>2, <3>3
    <2> HIDE DEF new
    <2>4. /\ compact' \in [Phones -> Compaction]
          /\ \A e \in Phones, k \in Chapters : IsFiniteSet(compact'[e].groups[k])
        BY <2>2, <2>3, CompactUpdate
    <2>5. captured' \in [Phones -> [Chapters -> 0..LastPage]]
        BY <1>11, SyncAssumption DEF CompactDrop, TypeOK
    <2> QED BY <1>11, <2>1, <2>4, <2>5
            DEF CompactDrop, serverVars, boundVars, Compaction, TypeOK, FiniteQueues
<1> QED BY <1>1, <1>2, <1>3, <1>4, <1>5, <1>6, <1>7, <1>8, <1>9, <1>10, <1>11 DEF PhoneNext

\* What a committing thread reads and writes.
LEMMA CommitType ==
    ASSUME TypeOK, NEW w \in Workers, handler[w].phase = "loaded",
           NEW c \in Parsed(handler[w])
    PROVE  /\ handler[w].items[c] \in Push
           /\ handler[w].loaded[c] \in Row
           /\ handler[w].now \in Nat
           /\ row[c] \in Row
           /\ Written(row[c], handler[w].loaded[c], handler[w].items[c], handler[w].now) \in Row
<1>1. handler[w] \in Handler /\ row[c] \in Row
    BY DEF TypeOK, Parsed, Sent
<1>2. /\ handler[w].items[c] \in Push
      /\ handler[w].loaded[c] \in Row
      /\ handler[w].now \in Nat
    BY <1>1 DEF Handler, Parsed, Sent
<1> QED BY <1>1, <1>2, WrittenType

\* Every step of a server thread.
LEMMA ServerTypeStep ==
    ASSUME TypeInv, NEW w \in Workers, ServerNext(w)
    PROVE  TypeInv'
<1> USE DEF TypeInv
<1>1. ASSUME NEW c \in Chapters, NEW page \in Pages, NEW num \in {NoNumber, c},
             WebPush(w, c, page, num)
      PROVE  TypeInv'
    <2> DEFINE push == PushAt(c, page, num, NoStamp)
               items == [NoItems EXCEPT ![c] = push]
    <2>1. push \in Push /\ push.secs = 1
        <3>1. num \in Nat /\ NoStamp \in Nat
            BY SyncAssumption DEF NoNumber, NoStamp
        <3> QED BY <3>1, PushAtType
    <2>2. items \in [Chapters -> Push \cup {NoPush}]
        BY <2>1, ConstantTypes
    <2>3. /\ handler' = [handler EXCEPT ![w] = Received(Nobody, items)]
          /\ spent' = [spent EXCEPT ![c] = @ + push.secs]
        BY <1>1 DEF WebPush
    <2> HIDE DEF push, items
    <2>4. handler' \in [Workers -> Handler]
        BY <2>2, <2>3, ReceivedType DEF TypeOK
    <2>5. spent' \in [Chapters -> Nat] /\ reported' \in [Chapters -> SUBSET Pages]
        BY <1>1, <2>1, <2>3 DEF WebPush, TypeOK
    <2>6. clock' \in Nat \ {0} /\ webPushes' \in Nat
        BY <1>1 DEF WebPush, TypeOK
    <2> QED BY <1>1, <2>4, <2>5, <2>6 DEF WebPush, phoneVars, TypeOK, FiniteQueues
<1>2. ASSUME Refuse(w) PROVE TypeInv'
    <2>1. handler' \in [Workers -> Handler]
        <3>1. handler[w] \in Handler
            BY DEF TypeOK
        <3>2. [handler[w] EXCEPT !.phase = "replied", !.tooLarge = TRUE] \in Handler
            BY <3>1 DEF Handler
        <3> QED BY <1>2, <3>2, ConstantTypes DEF Refuse, TypeOK
    <2> QED BY <1>2, <2>1 DEF Refuse, phoneVars, ghostVars, boundVars, TypeOK, FiniteQueues
<1>3. ASSUME Load(w) PROVE TypeInv'
    <2> DEFINE loaded == [c \in Chapters |->
                             IF c \in Parsed(handler[w]) THEN row[c] ELSE NoRow]
    <2>1. loaded \in [Chapters -> Row]
        BY ConstantTypes DEF TypeOK
    <2>2. handler' = [handler EXCEPT ![w] =
              [@ EXCEPT !.phase = "loaded", !.now = clock, !.loaded = loaded]]
        BY <1>3 DEF Load
    <2> HIDE DEF loaded
    <2>3. handler' \in [Workers -> Handler]
        <3>1. handler[w] \in Handler /\ clock \in Nat
            BY DEF TypeOK
        <3>2. [handler[w] EXCEPT !.phase = "loaded", !.now = clock, !.loaded = loaded] \in Handler
            BY <2>1, <3>1 DEF Handler
        <3> QED BY <2>2, <3>2 DEF TypeOK
    <2> QED BY <1>3, <2>3 DEF Load, phoneVars, ghostVars, boundVars, TypeOK, FiniteQueues
<1>4. ASSUME Commit(w) PROVE TypeInv'
    <2>1. handler' \in [Workers -> Handler]
        <3>1. handler[w] \in Handler
            BY DEF TypeOK
        <3>2. handler[w].from \in Phones \cup {Nobody}
            BY <3>1 DEF Handler
        <3>3. [Free EXCEPT !.phase = "replied", !.from = handler[w].from] \in Handler
            BY <3>2, ConstantTypes DEF Handler
        <3> QED BY <1>4, <3>3, ConstantTypes DEF Commit, TypeOK
    <2>2. row' \in [Chapters -> Row]
        BY <1>4, CommitType DEF Commit, TypeOK
    <2>3. merged' \in [Chapters -> SUBSET Push]
        BY <1>4, CommitType DEF Commit, TypeOK
    <2> QED BY <1>4, <2>1, <2>2, <2>3 DEF Commit, phoneVars, ghostVars, boundVars, TypeOK, FiniteQueues
<1>5. ASSUME RequestFails(w) PROVE TypeInv'
    <2>1. handler' \in [Workers -> Handler] /\ failures' \in Nat
        BY <1>5, ConstantTypes DEF RequestFails, TypeOK
    <2>2. /\ drain' \in [Phones -> [groups : Group, chunk : SUBSET Chapters]]
          /\ hold' \in [Phones -> BOOLEAN]
          /\ \A e \in Phones, c \in Chapters : IsFiniteSet(drain'[e].groups[c])
        BY <1>5, ConstantTypes, FS_EmptySet DEF RequestFails, TypeOK, FiniteQueues
    <2> QED BY <1>5, <2>1, <2>2 DEF RequestFails, ghostVars, TypeOK, FiniteQueues
<1> QED BY <1>1, <1>2, <1>3, <1>4, <1>5 DEF ServerNext

\* Every step.
LEMMA TypeStep ==
    ASSUME TypeInv, [Next]_vars
    PROVE  TypeInv'
<1>1. CASE Next
    BY <1>1, PhoneTypeStep, ServerTypeStep DEF Next
<1>2. CASE UNCHANGED vars
    BY <1>2 DEF vars, serverVars, phoneVars, ghostVars, boundVars,
                TypeInv, TypeOK, FiniteQueues
<1> QED BY <1>1, <1>2

\* Every variable keeps its type, and every set of queued rows a phone holds
\* stays finite (a batch is collapsed over it), for any number of phones,
\* chapters, server threads and failures.
THEOREM TypeCorrect == Spec => []TypeOK
<1>1. Init => TypeInv
    BY InitType
<1>2. TypeInv /\ [Next]_vars => TypeInv'
    BY TypeStep
<1>3. TypeInv => TypeOK
    BY DEF TypeInv
<1> QED BY <1>1, <1>2, <1>3, PTL DEF Spec

-----------------------------------------------------------------------------
\* No step takes completion back from a row.
LEMMA TableStep ==
    ASSUME TypeOK, NEW c \in Chapters, row[c].done
    PROVE  /\ \A w \in Workers : Commit(w) => row'[c].done
           /\ row' = row => row'[c].done
<1>1. ASSUME NEW w \in Workers, Commit(w) PROVE row'[c].done
    <2>1. CASE c \in Parsed(handler[w])
        <3>1. handler[w].phase = "loaded"
            BY <1>1 DEF Commit
        <3>2. /\ handler[w].items[c] \in Push /\ handler[w].loaded[c] \in Row
              /\ handler[w].now \in Nat /\ row[c] \in Row
            BY <2>1, <3>1, CommitType
        <3>3. Written(row[c], handler[w].loaded[c], handler[w].items[c], handler[w].now).done
            BY <3>2, WrittenType
        <3> QED BY <1>1, <2>1, <3>3 DEF Commit
    <2>2. CASE c \notin Parsed(handler[w])
        BY <1>1, <2>2 DEF Commit
    <2> QED BY <2>1, <2>2
<1> QED BY <1>1

\* Only a commit changes the table.
LEMMA RowChangedOnlyByCommit ==
    ASSUME [Next]_vars
    PROVE  row' = row \/ \E w \in Workers : Commit(w)
<1>1. ASSUME NEW d \in Phones, PhoneNext(d) PROVE row' = row
    BY <1>1 DEF PhoneNext, Save, DrainStart, PostChunk, ChunkAccepted, ChunkTooLarge, GiveUp,
                Crash, CompactStart, CompactFold, CompactDrop, CompactClear, serverVars
<1>2. ASSUME NEW w \in Workers, ServerNext(w) PROVE row' = row \/ Commit(w)
    BY <1>2 DEF ServerNext, WebPush, Refuse, Load, RequestFails
<1> QED BY <1>1, <1>2 DEF Next, vars, serverVars

\* A chapter once completed in the table stays completed, whatever stale row
\* the pushes that overlap on the server had loaded.
THEOREM CompletionIsSticky == Spec => CompletionSticky
<1>1. TypeOK /\ [Next]_vars => [\A c \in Chapters : row[c].done => row'[c].done]_row
    BY TableStep, RowChangedOnlyByCommit
<1> QED BY <1>1, TypeCorrect, PTL DEF Spec, CompletionSticky

-----------------------------------------------------------------------------
(* What the outbox and the server keep of the reader's progress. *)

Known(d) ==
    outbox[d] \cup UNION {drain[d].groups[c] \cup compact[d].groups[c] : c \in Chapters}

Agree(d) ==
    /\ \A q, r \in Known(d) : q.id = r.id => q = r
    /\ \A q \in Known(d) : q.id < nextId[d]
    /\ \A i \in compact[d].clear : i < nextId[d]
    /\ \A c \in Chapters : \A q \in drain[d].groups[c] \cup compact[d].groups[c] : q.ch = c

RowsAgree == \A d \in Phones : Agree(d)

OneRequest ==
    \A v, w \in Workers :
        handler[v].from \in Phones /\ handler[v].from = handler[w].from => v = w

Serving(d, w) ==
    /\ drain[d].chunk # {}
    /\ handler[w].phase \in {"received", "loaded"} =>
          \A c \in drain[d].chunk :
              /\ handler[w].items[c] # NoPush
              /\ \A q \in drain[d].groups[c] : q.push.done => handler[w].items[c].done
    /\ handler[w].phase = "replied" /\ ~handler[w].tooLarge =>
          \A c \in drain[d].chunk \ Unparseable : \A q \in drain[d].groups[c] :
              q.push.done => row[c].done

Requests == \A d \in Phones, w \in Workers : handler[w].from = d => Serving(d, w)

Loads == \A w \in Workers, c \in Chapters : handler[w].loaded[c].done => row[c].done

Covered(d, q) ==
    \/ row[q.ch].done
    \/ q.ch \in Unparseable
    \/ \E r \in outbox[d] : r.ch = q.ch /\ r.push.done /\ r.id \notin compact[d].clear

Folds ==
    \A d \in Phones : \A q \in outbox[d] :
        q.push.done /\ q.id \in compact[d].clear => Covered(d, q)

\* The inductive invariant.
IInv == TypeInv /\ RowsAgree /\ OneRequest /\ Requests /\ Loads /\ Folds /\ CompletionNeverLost

-----------------------------------------------------------------------------
(* Ids. *)

\* A step after which the phone knows no new row keeps Agree...
LEMMA KnownShrinks ==
    ASSUME TypeInv, NEW d \in Phones, Agree(d),
           Known(d)' \subseteq Known(d), nextId'[d] = nextId[d],
           compact'[d].clear \subseteq compact[d].clear \cup Ids(Known(d)),
           \A c \in Chapters : \A q \in drain'[d].groups[c] \cup compact'[d].groups[c] : q.ch = c
    PROVE  Agree(d)'
BY DEF Agree, Ids

\* ... or grows by one row with a new id.
LEMMA KnownGrows ==
    ASSUME TypeInv, NEW d \in Phones, Agree(d), NEW new, new.id = nextId[d],
           Known(d)' \subseteq Known(d) \cup {new}, nextId'[d] = nextId[d] + 1,
           compact'[d].clear \subseteq compact[d].clear \cup Ids(Known(d)),
           \A c \in Chapters : \A q \in drain'[d].groups[c] \cup compact'[d].groups[c] : q.ch = c
    PROVE  Agree(d)'
<1>1. nextId[d] \in Nat /\ \A q \in Known(d) : q.id \in Nat
    BY DEF TypeInv, TypeOK, Known, Group, OutboxRow
<1>2. compact[d].clear \subseteq Nat
    BY DEF TypeInv, TypeOK
<1>3. \A i \in compact'[d].clear : i < nextId'[d]
    BY <1>1, <1>2 DEF Agree, Ids
<1>4. \A q \in Known(d)' : q.id < nextId'[d]
    BY <1>1 DEF Agree
<1>5. \A q, r \in Known(d)' : q.id = r.id => q = r
    BY <1>1 DEF Agree
<1> QED BY <1>3, <1>4, <1>5 DEF Agree

\* ... or is left alone.
LEMMA KnownSame ==
    ASSUME NEW d \in Phones, Agree(d),
           outbox'[d] = outbox[d], nextId'[d] = nextId[d],
           drain'[d] = drain[d], compact'[d] = compact[d]
    PROVE  Agree(d)'
BY DEF Agree, Known

\* Every step keeps one row to an id.
LEMMA AgreeStep ==
    ASSUME TypeInv, RowsAgree, [Next]_vars
    PROVE  RowsAgree'
<1> SUFFICES ASSUME NEW d \in Phones PROVE Agree(d)'
    BY DEF RowsAgree
<1>1. Agree(d)
    BY DEF RowsAgree
<1>2. /\ outbox \in [Phones -> SUBSET OutboxRow]
      /\ nextId \in [Phones -> Nat \ {0}]
      /\ drain \in [Phones -> Drain]
      /\ compact \in [Phones -> Compaction]
    BY DEF TypeInv, TypeOK, Drain, Compaction
<1>3. ASSUME NEW e \in Phones, NEW c \in Chapters, NEW page \in Pages, Save(e, c, page)
      PROVE  Agree(d)'
    <2> DEFINE new == [id |-> nextId[e], ch |-> c,
                       push |-> PushAt(c, page, c, clock + PhoneAhead)]
    <2>1. /\ outbox' = [outbox EXCEPT ![e] = @ \cup {new}]
          /\ nextId' = [nextId EXCEPT ![e] = @ + 1]
          /\ drain' = drain /\ compact' = compact
        BY <1>3 DEF Save, Insert
    <2>2. new.id = nextId[e]
        OBVIOUS
    <2> HIDE DEF new
    <2>3. CASE d = e
        <3>1. Known(d)' \subseteq Known(d) \cup {new} /\ nextId'[d] = nextId[d] + 1
            BY <1>2, <2>1, <2>3 DEF Known
        <3> QED BY <1>1, <2>1, <2>2, <2>3, <3>1, KnownGrows DEF Agree
    <2>4. CASE d # e
        BY <1>1, <1>2, <2>1, <2>4, KnownSame
    <2> QED BY <2>3, <2>4
<1>4. ASSUME NEW e \in Phones, DrainStart(e) PROVE Agree(d)'
    <2>1. /\ outbox' = outbox /\ nextId' = nextId /\ compact' = compact
          /\ drain' = [drain EXCEPT ![e].groups = Grouped(outbox[e])]
        BY <1>4 DEF DrainStart
    <2>2. CASE d = e
        <3>1. drain'[d].groups = Grouped(outbox[d])
            BY <1>2, <2>1, <2>2 DEF Drain
        <3>2. \A c \in Chapters : drain'[d].groups[c] = {r \in outbox[d] : r.ch = c}
            BY <3>1 DEF Grouped, RowsOf
        <3>3. Known(d)' \subseteq Known(d)
            BY <2>1, <3>2 DEF Known
        <3> QED BY <1>1, <2>1, <3>2, <3>3, KnownShrinks DEF Agree
    <2>3. CASE d # e
        BY <1>1, <1>2, <2>1, <2>3, KnownSame
    <2> QED BY <2>2, <2>3
<1>5. ASSUME NEW e \in Phones, NEW w \in Workers, NEW chunk \in SUBSET Chapters,
             PostChunk(e, w, chunk)
      PROVE  Agree(d)'
    <2>1. /\ outbox' = outbox /\ nextId' = nextId /\ compact' = compact
          /\ drain' = [drain EXCEPT ![e].chunk = chunk]
        BY <1>5 DEF PostChunk
    <2>2. drain'[d].groups = drain[d].groups
        BY <1>2, <2>1 DEF Drain
    <2> QED BY <1>1, <2>1, <2>2 DEF Agree, Known
<1>6. ASSUME NEW e \in Phones, NEW w \in Workers, ChunkAccepted(e, w) PROVE Agree(d)'
    <2>1. /\ nextId' = nextId /\ compact' = compact
          /\ outbox'[d] \subseteq outbox[d]
          /\ \A c \in Chapters : drain'[d].groups[c] \subseteq drain[d].groups[c]
        BY <1>2, <1>6 DEF ChunkAccepted, Clear, Drain
    <2>2. Known(d)' \subseteq Known(d)
        BY <2>1 DEF Known
    <2> QED BY <1>1, <2>1, <2>2, KnownShrinks DEF Agree
<1>7. ASSUME NEW e \in Phones, \/ GiveUp(e)
                               \/ Crash(e)
                               \/ \E w \in Workers : ChunkTooLarge(e, w)
      PROVE  Agree(d)'
    <2>1. /\ nextId' = nextId /\ outbox' = outbox
          /\ drain'[d] = drain[d] \/ drain'[d] = NotDraining
          /\ compact'[d] = compact[d] \/ compact'[d] = NotCompacting
        BY <1>2, <1>7 DEF GiveUp, Crash, ChunkTooLarge
    <2>2. /\ compact'[d].clear \subseteq compact[d].clear
          /\ \A c \in Chapters : /\ drain'[d].groups[c] \subseteq drain[d].groups[c]
                                 /\ compact'[d].groups[c] \subseteq compact[d].groups[c]
        BY <2>1, ConstantTypes
    <2>3. Known(d)' \subseteq Known(d)
        BY <2>1, <2>2 DEF Known
    <2> QED BY <1>1, <2>1, <2>2, <2>3, KnownShrinks DEF Agree
<1>8. ASSUME NEW e \in Phones, CompactStart(e) PROVE Agree(d)'
    <2>1. /\ outbox' = outbox /\ nextId' = nextId /\ drain' = drain
        BY <1>8 DEF CompactStart
    <2>2. CASE d = e
        <3>1. /\ compact'[d].clear = {}
              /\ \A c \in Chapters : compact'[d].groups[c] \subseteq Grouped(outbox[d])[c]
            BY <1>2, <1>8, <2>2 DEF CompactStart
        <3>2. \A c \in Chapters : Grouped(outbox[d])[c] = {r \in outbox[d] : r.ch = c}
            BY DEF Grouped, RowsOf
        <3>3. Known(d)' \subseteq Known(d)
            BY <2>1, <3>1, <3>2 DEF Known
        <3> QED BY <1>1, <2>1, <3>1, <3>2, <3>3, KnownShrinks DEF Agree
    <2>3. CASE d # e
        BY <1>1, <1>2, <1>8, <2>1, <2>3, KnownSame DEF CompactStart
    <2> QED BY <2>2, <2>3
<1>9. ASSUME NEW e \in Phones, NEW c \in Chapters, CompactFold(e, c) PROVE Agree(d)'
    <2> DEFINE old == compact[e].groups[c]
               new == [id |-> nextId[e], ch |-> c, push |-> Collapse(old)]
    <2>1. /\ outbox' = [outbox EXCEPT ![e] = @ \cup {new}]
          /\ nextId' = [nextId EXCEPT ![e] = @ + 1]
          /\ drain' = drain
          /\ compact' = [compact EXCEPT ![e].groups[c] = {}, ![e].clear = Ids(old)]
        BY <1>9 DEF CompactFold, Insert
    <2>2. new.id = nextId[e]
        OBVIOUS
    <2> HIDE DEF new
    <2>3. CASE d = e
        <3>1. /\ compact'[d].clear = Ids(old)
              /\ \A k \in Chapters : compact'[d].groups[k] \subseteq compact[d].groups[k]
            BY <1>2, <2>1, <2>3 DEF Compaction, Group
        <3>2. Known(d)' \subseteq Known(d) \cup {new} /\ nextId'[d] = nextId[d] + 1
            BY <1>2, <2>1, <2>3, <3>1 DEF Known
        <3>3. Ids(old) \subseteq Ids(Known(d))
            BY <2>3 DEF Ids, Known
        <3>4. \A k \in Chapters :
                  \A q \in drain'[d].groups[k] \cup compact'[d].groups[k] : q.ch = k
            BY <1>1, <2>1, <3>1 DEF Agree
        <3>5. compact'[d].clear \subseteq compact[d].clear \cup Ids(Known(d))
            BY <3>1, <3>3
        <3>6. new.id = nextId[d]
            BY <2>2, <2>3
        <3> QED BY <1>1, <3>2, <3>4, <3>5, <3>6, KnownGrows
    <2>4. CASE d # e
        BY <1>1, <1>2, <2>1, <2>4, KnownSame
    <2> QED BY <2>3, <2>4
<1>10. ASSUME NEW e \in Phones, CompactClear(e) PROVE Agree(d)'
    <2>1. /\ nextId' = nextId /\ drain' = drain
          /\ outbox'[d] \subseteq outbox[d]
          /\ compact'[d].clear \subseteq compact[d].clear
          /\ \A c \in Chapters : compact'[d].groups[c] \subseteq compact[d].groups[c]
        BY <1>2, <1>10 DEF CompactClear, Clear, Compaction
    <2>2. Known(d)' \subseteq Known(d)
        BY <2>1 DEF Known
    <2> QED BY <1>1, <2>1, <2>2, KnownShrinks DEF Agree
<1>11. ASSUME NEW e \in Phones, NEW k \in Chapters, CompactDrop(e, k) PROVE Agree(d)'
    <2>1. /\ nextId' = nextId /\ drain' = drain
          /\ outbox'[d] \subseteq outbox[d]
        BY <1>2, <1>11 DEF CompactDrop, Clear
    <2>3. /\ compact'[d].clear = compact[d].clear
          /\ \A c \in Chapters : compact'[d].groups[c] \subseteq compact[d].groups[c]
        <3>1. compact' = [compact EXCEPT ![e].groups[k] = {}, ![e].drop = @ \ {k}]
            BY <1>11 DEF CompactDrop
        <3> QED BY <1>2, <3>1 DEF Compaction, Group
    <2>2. Known(d)' \subseteq Known(d)
        BY <2>1, <2>3 DEF Known
    <2> QED BY <1>1, <2>1, <2>2, <2>3, KnownShrinks DEF Agree
<1>12. ASSUME NEW w \in Workers, ServerNext(w) PROVE Agree(d)'
    <2>1. /\ outbox' = outbox /\ nextId' = nextId /\ compact' = compact
          /\ drain'[d] = drain[d] \/ drain'[d] = NotDraining
        BY <1>12 DEF ServerNext, WebPush, Refuse, Load, Commit, RequestFails, phoneVars
    <2>2. \A c \in Chapters : drain'[d].groups[c] \subseteq drain[d].groups[c]
        BY <2>1, ConstantTypes
    <2>3. Known(d)' \subseteq Known(d)
        BY <2>1, <2>2 DEF Known
    <2> QED BY <1>1, <2>1, <2>2, <2>3, KnownShrinks DEF Agree
<1>13. CASE UNCHANGED vars
    BY <1>1, <1>13, KnownSame DEF vars, phoneVars
<1> QED BY <1>3, <1>4, <1>5, <1>6, <1>7, <1>8, <1>9, <1>10, <1>11, <1>12, <1>13 DEF Next, PhoneNext
-----------------------------------------------------------------------------
(* What a push loaded. *)

\* What the next step leaves in a thread's loaded rows.
LEMMA LoadedStep ==
    ASSUME TypeInv, [Next]_vars, NEW w \in Workers, NEW c \in Chapters
    PROVE  \/ handler'[w].loaded[c] = handler[w].loaded[c]
           \/ handler'[w].loaded[c] = NoRow
           \/ handler'[w].loaded[c] = row[c] /\ row' = row
<1>1. handler \in [Workers -> Handler]
    BY DEF TypeInv, TypeOK
<1>2. Free.loaded[c] = NoRow
    BY DEF Free, NoRows
<1>3. ASSUME NEW d \in Phones, PhoneNext(d)
      PROVE  handler'[w].loaded[c] \in {handler[w].loaded[c], NoRow}
    <2>1. ASSUME NEW v \in Workers, NEW chunk \in SUBSET Chapters, PostChunk(d, v, chunk)
          PROVE  handler'[w].loaded[c] \in {handler[w].loaded[c], NoRow}
        <3>1. \A items : Received(d, items).loaded[c] = NoRow
            BY DEF Received, Free, NoRows
        <3> QED BY <1>1, <2>1, <3>1 DEF PostChunk
    <2>2. ASSUME NEW v \in Workers, ChunkAccepted(d, v) \/ ChunkTooLarge(d, v)
          PROVE  handler'[w].loaded[c] \in {handler[w].loaded[c], NoRow}
        BY <1>1, <1>2, <2>2 DEF ChunkAccepted, ChunkTooLarge
    <2>3. ASSUME GiveUp(d) \/ Crash(d)
          PROVE  handler'[w].loaded[c] \in {handler[w].loaded[c], NoRow}
        <3>1. handler'[w] = Abandoned(d)[w]
            BY <2>3 DEF GiveUp, Crash
        <3>2. [handler[w] EXCEPT !.from = Nobody].loaded = handler[w].loaded
            BY <1>1 DEF Handler
        <3> QED BY <1>1, <1>2, <3>1, <3>2 DEF Abandoned
    <2>4. ASSUME handler' = handler
          PROVE  handler'[w].loaded[c] \in {handler[w].loaded[c], NoRow}
        BY <2>4
    <2> QED BY <1>3, <2>1, <2>2, <2>3, <2>4
            DEF PhoneNext, Save, DrainStart, CompactStart, CompactFold, CompactDrop,
                CompactClear, serverVars
<1>4. ASSUME NEW v \in Workers, NEW k \in Chapters, NEW page \in Pages, NEW num,
             WebPush(v, k, page, num)
      PROVE  handler'[w].loaded[c] \in {handler[w].loaded[c], NoRow}
    <2>1. \A items : Received(Nobody, items).loaded[c] = NoRow
        BY DEF Received, Free, NoRows
    <2> QED BY <1>1, <1>4, <2>1 DEF WebPush
<1>5. ASSUME NEW v \in Workers, Refuse(v)
      PROVE  handler'[w].loaded[c] \in {handler[w].loaded[c], NoRow}
    <2>1. [handler[v] EXCEPT !.phase = "replied", !.tooLarge = TRUE].loaded = handler[v].loaded
        BY <1>1 DEF Handler
    <2> QED BY <1>1, <1>2, <1>5, <2>1 DEF Refuse
<1>6. ASSUME NEW v \in Workers, Load(v)
      PROVE  /\ handler'[w].loaded[c] \in {handler[w].loaded[c], NoRow, row[c]}
             /\ row' = row
    <2> DEFINE loaded == [k \in Chapters |-> IF k \in Parsed(handler[v]) THEN row[k] ELSE NoRow]
    <2>1. [handler[v] EXCEPT !.phase = "loaded", !.now = clock, !.loaded = loaded].loaded = loaded
        BY <1>1 DEF Handler
    <2>2. loaded[c] \in {NoRow, row[c]}
        OBVIOUS
    <2>3. handler' = [handler EXCEPT ![v] =
              [handler[v] EXCEPT !.phase = "loaded", !.now = clock, !.loaded = loaded]]
        BY <1>6 DEF Load
    <2> HIDE DEF loaded
    <2> QED BY <1>1, <1>6, <2>1, <2>2, <2>3 DEF Load
<1>7. ASSUME NEW v \in Workers, Commit(v) \/ RequestFails(v)
      PROVE  handler'[w].loaded[c] \in {handler[w].loaded[c], NoRow}
    <2>1. \A from : [Free EXCEPT !.phase = "replied", !.from = from].loaded[c] = NoRow
        BY DEF Free, NoRows
    <2>2. CASE Commit(v)
        <3> DEFINE after == IF handler[v].from = Nobody THEN Free
                            ELSE [Free EXCEPT !.phase = "replied", !.from = handler[v].from]
        <3>1. handler' = [handler EXCEPT ![v] = after]
            BY <2>2 DEF Commit
        <3>2. after.loaded[c] = NoRow
            BY <1>2, <2>1
        <3> HIDE DEF after
        <3> QED BY <1>1, <3>1, <3>2
    <2>3. CASE RequestFails(v)
        BY <1>1, <1>2, <2>3 DEF RequestFails
    <2> QED BY <1>7, <2>2, <2>3
<1>8. CASE UNCHANGED vars
    BY <1>8 DEF vars, serverVars
<1> QED BY <1>3, <1>4, <1>5, <1>6, <1>7, <1>8 DEF Next, ServerNext

\* What a push loaded stays no newer than the table.
LEMMA LoadsStep ==
    ASSUME TypeInv, Loads, [Next]_vars
    PROVE  Loads'
<1> SUFFICES ASSUME NEW w \in Workers, NEW c \in Chapters, handler'[w].loaded[c].done
             PROVE  row'[c].done
    BY DEF Loads
<1>1. handler[w].loaded[c].done => row'[c].done
    BY TableStep, RowChangedOnlyByCommit DEF Loads, TypeInv
<1>2. NoRow.done = FALSE
    BY DEF NoRow
<1> QED BY <1>1, <1>2, LoadedStep
-----------------------------------------------------------------------------
(* The request a phone waits for. *)

\* A request no step touches keeps its meaning while the table only gains completions.
LEMMA ServingSame ==
    ASSUME TypeInv, [Next]_vars, NEW d \in Phones, NEW w \in Workers, Serving(d, w),
           drain'[d] = drain[d], handler'[w] = handler[w]
    PROVE  Serving(d, w)'
<1>1. \A c \in Chapters : row[c].done => row'[c].done
    BY TableStep, RowChangedOnlyByCommit DEF TypeInv
<1>2. drain[d].chunk \subseteq Chapters
    BY DEF TypeInv, TypeOK
<1> QED BY <1>1, <1>2 DEF Serving

\* A commit stores every completion it carries.
LEMMA CommitDelivers ==
    ASSUME TypeInv, NEW v \in Workers, Commit(v), NEW c \in Parsed(handler[v]),
           handler[v].items[c].done,
           handler[v].loaded[c].done => row[c].done
    PROVE  row'[c].done
<1>1. handler[v].phase = "loaded" /\ c \in Chapters
    BY DEF Commit, Parsed, Sent
<1>2. /\ handler[v].items[c] \in Push /\ handler[v].loaded[c] \in Row
      /\ handler[v].now \in Nat /\ row[c] \in Row
    BY <1>1, CommitType DEF TypeInv
<1>3. Written(row[c], handler[v].loaded[c], handler[v].items[c], handler[v].now).done
    BY <1>2, WrittenType
<1> QED BY <1>1, <1>3 DEF Commit

\* A phone's request is the only one it waits for, and a step either leaves it
\* alone, or is its own.
LEMMA RequestsStep ==
    ASSUME TypeInv, OneRequest, Requests, Loads, [Next]_vars
    PROVE  OneRequest' /\ Requests'
<1>1. handler \in [Workers -> Handler] /\ drain \in [Phones -> Drain] /\ Nobody \notin Phones
    BY ConstantTypes DEF TypeInv, TypeOK, Drain
<1>2. /\ Free.from = Nobody
      /\ NotDraining.chunk = {}
    BY ConstantTypes
<1> DEFINE Kept(d, w)  == handler'[w] = handler[w] /\ drain'[d] = drain[d]
           Same(d)     == \A w \in Workers : handler'[w].from = d => handler[w].from = d
           Good(d)     == /\ \A w \in Workers : handler'[w].from = d => Serving(d, w)'
                          /\ \A v, w \in Workers : handler'[v].from = d /\ handler'[w].from = d
                                                      => v = w
<1>3. SUFFICES ASSUME NEW d \in Phones PROVE Good(d)
    BY DEF OneRequest, Requests
<1>4. ASSUME \A w \in Workers : handler'[w].from = d => handler[w].from = d /\ Kept(d, w)
      PROVE  Good(d)
    BY <1>4, ServingSame DEF OneRequest, Requests
<1> HIDE DEF Good
<1>5. ASSUME handler' = handler, drain' = drain PROVE Good(d)
    BY <1>4, <1>5
<1>6. ASSUME NEW e \in Phones, DrainStart(e) PROVE Good(d)
    <2>1. handler' = handler /\ drain[e].chunk = {}
        BY <1>2, <1>6 DEF DrainStart, serverVars
    <2>2. e # d => drain'[d] = drain[d]
        BY <1>6 DEF DrainStart
    <2>3. \A w \in Workers : handler[w].from = d => d # e
        BY <2>1 DEF Requests, Serving
    <2> QED BY <1>4, <2>1, <2>2, <2>3
<1>7. ASSUME NEW e \in Phones, NEW v \in Workers, NEW chunk \in SUBSET Chapters,
             PostChunk(e, v, chunk)
      PROVE  Good(d)
    <2> DEFINE items == [c \in Chapters |->
                            IF c \in chunk THEN Collapse(drain[e].groups[c]) ELSE NoPush]
    <2>1. /\ handler' = [handler EXCEPT ![v] = Received(e, items)]
          /\ drain' = [drain EXCEPT ![e].chunk = chunk]
          /\ drain[e].chunk = {} /\ chunk # {} /\ chunk \subseteq ToDeliver(e)
        BY <1>7 DEF PostChunk
    <2>2. CASE e = d
        <3>1. \A w \in Workers : handler[w].from # d
            BY <2>1, <2>2 DEF Requests, Serving
        <3>2. /\ drain'[d].chunk = chunk
              /\ drain'[d].groups = drain[d].groups
            BY <1>1, <2>1, <2>2 DEF Drain
        <3>3. \A c \in chunk : /\ items[c] # NoPush
                               /\ \A q \in drain[d].groups[c] : q.push.done => items[c].done
            <4> SUFFICES ASSUME NEW c \in chunk
                         PROVE  /\ items[c] # NoPush
                                /\ \A q \in drain[d].groups[c] : q.push.done => items[c].done
                OBVIOUS
            <4>1. /\ drain[d].groups[c] \in SUBSET OutboxRow
                  /\ drain[d].groups[c] # {}
                  /\ IsFiniteSet(drain[d].groups[c])
                BY <2>1, <2>2 DEF ToDeliver, TypeInv, TypeOK, FiniteQueues, Group
            <4>2. /\ Collapse(drain[d].groups[c]) \in Push
                  /\ Collapse(drain[d].groups[c]).done = \E r \in drain[d].groups[c] : r.push.done
                BY <4>1, CollapseType
            <4>3. Collapse(drain[d].groups[c]).page # NoPush.page
                BY <4>2 DEF Push, NoPush
            <4> QED BY <2>2, <4>2, <4>3
        <3>4. handler'[v].phase = "received" /\ handler'[v].items = items
            BY <1>1, <2>1 DEF Received, Free
        <3> HIDE DEF items
        <3>5. Serving(d, v)'
            BY <2>1, <3>2, <3>3, <3>4 DEF Serving
        <3>6. \A w \in Workers : handler'[w].from = d => w = v
            BY <1>1, <2>1, <3>1
        <3> QED BY <3>5, <3>6 DEF Good
    <2>3. CASE e # d
        <3>1. drain'[d] = drain[d]
            BY <1>1, <2>1, <2>3
        <3>2. handler'[v].from # d
            BY <1>1, <2>1, <2>3 DEF Received, Free
        <3>3. \A w \in Workers \ {v} : handler'[w] = handler[w]
            BY <1>1, <2>1
        <3> QED BY <1>4, <3>1, <3>2, <3>3
    <2> QED BY <2>2, <2>3
<1>8. ASSUME NEW e \in Phones, NEW v \in Workers, ChunkAccepted(e, v) \/ ChunkTooLarge(e, v)
      PROVE  Good(d)
    <2>1. /\ handler' = [handler EXCEPT ![v] = Free]
          /\ handler[v].from = e
          /\ e # d => drain'[d] = drain[d]
        BY <1>1, <1>8 DEF ChunkAccepted, ChunkTooLarge
    <2>2. ASSUME NEW w \in Workers, handler'[w].from = d PROVE handler[w].from = d /\ Kept(d, w)
        <3>1. w # v /\ handler'[w] = handler[w]
            BY <1>1, <1>2, <2>1, <2>2
        <3>2. d # e
            BY <2>1, <2>2, <3>1 DEF OneRequest
        <3> QED BY <2>1, <2>2, <3>1, <3>2
    <2> QED BY <1>4, <2>2
<1>9. ASSUME NEW e \in Phones, GiveUp(e) \/ Crash(e) PROVE Good(d)
    <2>1. /\ handler' = Abandoned(e)
          /\ e # d => drain'[d] = drain[d]
        BY <1>1, <1>9 DEF GiveUp, Crash
    <2>2. ASSUME NEW w \in Workers, handler'[w].from = d PROVE handler[w].from = d /\ Kept(d, w)
        <3>1. [handler[w] EXCEPT !.from = Nobody].from = Nobody
            BY <1>1 DEF Handler
        <3>2. handler[w].from # e /\ handler'[w] = handler[w]
            BY <1>1, <1>2, <2>1, <2>2, <3>1 DEF Abandoned
        <3> QED BY <2>1, <2>2, <3>2
    <2> QED BY <1>4, <2>2
<1>10. ASSUME NEW v \in Workers, NEW c \in Chapters, NEW page \in Pages, NEW num,
              WebPush(v, c, page, num)
       PROVE  Good(d)
    <2>1. drain' = drain
        BY <1>10 DEF WebPush, phoneVars
    <2>2. handler'[v].from = Nobody /\ \A w \in Workers \ {v} : handler'[w] = handler[w]
        BY <1>1, <1>10 DEF WebPush, Received, Free
    <2> QED BY <1>1, <1>4, <2>1, <2>2
<1>11. ASSUME NEW v \in Workers, NEW new \in Handler,
              handler' = [handler EXCEPT ![v] = new], drain' = drain,
              new.from = handler[v].from \/ new.from = Nobody,
              handler[v].from = d /\ new.from = d => Serving(d, v)'
       PROVE  Good(d)
    <2>1. \A w \in Workers \ {v} : handler'[w] = handler[w] /\ drain'[d] = drain[d]
        BY <1>1, <1>11
    <2>2. handler'[v] = new
        BY <1>1, <1>11
    <2>3. ASSUME NEW w \in Workers, handler'[w].from = d PROVE Serving(d, w)'
        <3>1. CASE w = v
            BY <1>1, <1>11, <2>2, <2>3, <3>1
        <3>2. CASE w # v
            BY <2>1, <2>3, <3>2, ServingSame DEF Requests
        <3> QED BY <3>1, <3>2
    <2>4. \A w \in Workers : handler'[w].from = d => handler[w].from = d
        BY <1>1, <1>11, <2>1, <2>2
    <2> QED BY <2>3, <2>4 DEF Good, OneRequest
<1>12. ASSUME NEW v \in Workers, Refuse(v) PROVE Good(d)
    <2> DEFINE new == IF handler[v].from = Nobody THEN Free
                      ELSE [handler[v] EXCEPT !.phase = "replied", !.tooLarge = TRUE]
    <2>1. handler' = [handler EXCEPT ![v] = new] /\ drain' = drain
        BY <1>12 DEF Refuse, phoneVars
    <2>2. /\ new \in Handler
          /\ new.from = handler[v].from \/ new.from = Nobody
          /\ new.from # Nobody => new.tooLarge = TRUE /\ new.phase = "replied"
        <3>1. handler[v] \in Handler
            BY <1>1
        <3>2. LET h == [handler[v] EXCEPT !.phase = "replied", !.tooLarge = TRUE]
              IN  h \in Handler /\ h.from = handler[v].from /\ h.tooLarge = TRUE
                    /\ h.phase = "replied"
            BY <3>1 DEF Handler
        <3> QED BY <3>2, ConstantTypes
    <2> HIDE DEF new
    <2>3. handler[v].from = d /\ new.from = d => Serving(d, v)'
        BY <1>1, <2>1, <2>2 DEF Requests, Serving
    <2> QED BY <1>11, <2>1, <2>2, <2>3
<1>13. ASSUME NEW v \in Workers, Load(v) PROVE Good(d)
    <2> DEFINE loaded == [k \in Chapters |-> IF k \in Parsed(handler[v]) THEN row[k] ELSE NoRow]
               new == [handler[v] EXCEPT !.phase = "loaded", !.now = clock, !.loaded = loaded]
    <2>1. handler' = [handler EXCEPT ![v] = new] /\ drain' = drain /\ handler[v].phase = "received"
        BY <1>13 DEF Load, phoneVars
    <2>2. /\ new \in Handler
          /\ new.from = handler[v].from
          /\ new.items = handler[v].items
          /\ new.phase = "loaded"
        <3>1. handler[v] \in Handler /\ clock \in Nat /\ loaded \in [Chapters -> Row]
            BY <1>1, ConstantTypes DEF TypeInv, TypeOK
        <3> HIDE DEF loaded
        <3> QED BY <3>1 DEF Handler
    <2> HIDE DEF new
    <2>3. handler[v].from = d /\ new.from = d => Serving(d, v)'
        BY <1>1, <2>1, <2>2 DEF Requests, Serving
    <2> QED BY <1>11, <2>1, <2>2, <2>3
<1>14. ASSUME NEW v \in Workers, Commit(v) PROVE Good(d)
    <2> DEFINE new == IF handler[v].from = Nobody THEN Free
                      ELSE [Free EXCEPT !.phase = "replied", !.from = handler[v].from]
    <2>1. handler' = [handler EXCEPT ![v] = new] /\ drain' = drain
        BY <1>14 DEF Commit, phoneVars
    <2>2. /\ new \in Handler
          /\ new.from = handler[v].from
        BY <1>1, ConstantTypes DEF Handler
    <2> HIDE DEF new
    <2>3. ASSUME handler[v].from = d PROVE Serving(d, v)'
        <3>1. /\ handler'[v].phase = "replied" /\ drain'[d] = drain[d]
              /\ handler[v].phase = "loaded"
            BY <1>1, <1>14, <2>1, <2>3 DEF new, Commit, Free
        <3>2. Serving(d, v) /\ drain[d].chunk \subseteq Chapters
            BY <1>1, <2>3 DEF Requests, Drain
        <3>3. ASSUME NEW c \in drain[d].chunk \ Unparseable, NEW q \in drain[d].groups[c],
                     q.push.done
              PROVE  row'[c].done
            <4>1. handler[v].items[c].done /\ c \in Parsed(handler[v])
                BY <3>1, <3>2, <3>3 DEF Serving, Parsed, Sent
            <4>2. handler[v].loaded[c].done => row[c].done
                BY <4>1 DEF Loads, Parsed, Sent
            <4> QED BY <1>14, <4>1, <4>2, CommitDelivers
        <3> QED BY <3>1, <3>2, <3>3 DEF Serving
    <2> QED BY <1>11, <2>1, <2>2, <2>3
<1>15. ASSUME NEW v \in Workers, RequestFails(v) PROVE Good(d)
    <2>1. handler' = [handler EXCEPT ![v] = Free]
        BY <1>15 DEF RequestFails
    <2>2. ASSUME NEW w \in Workers, handler'[w].from = d PROVE handler[w].from = d /\ Kept(d, w)
        <3>1. w # v /\ handler'[w] = handler[w]
            BY <1>1, <1>2, <2>1, <2>2
        <3>2. handler[v].from # d
            BY <2>2, <3>1 DEF OneRequest
        <3>3. drain'[d] = drain[d]
            BY <1>15, <3>2 DEF RequestFails
        <3> QED BY <2>2, <3>1, <3>3
    <2> QED BY <1>4, <2>2
<1>16. CASE UNCHANGED vars
    BY <1>5, <1>16 DEF vars, serverVars, phoneVars
<1>17. ASSUME NEW e \in Phones, PhoneNext(e) PROVE Good(d)
    <2>1. ASSUME \/ \E c \in Chapters, page \in Pages : Save(e, c, page)
                 \/ CompactStart(e)
                 \/ \E c \in Chapters : CompactFold(e, c) \/ CompactDrop(e, c)
                 \/ CompactClear(e)
          PROVE  handler' = handler /\ drain' = drain
        BY <2>1 DEF Save, CompactStart, CompactFold, CompactDrop, CompactClear, serverVars
    <2> QED BY <1>5, <1>6, <1>7, <1>8, <1>9, <1>17, <2>1 DEF PhoneNext
<1>18. ASSUME NEW v \in Workers, ServerNext(v) PROVE Good(d)
    BY <1>10, <1>12, <1>13, <1>14, <1>15, <1>18 DEF ServerNext
<1> QED BY <1>16, <1>17, <1>18
        DEF Next
-----------------------------------------------------------------------------
(* Deleted rows. *)

\* The table only gains completions.
LEMMA RowsKeepCompletion ==
    ASSUME TypeInv, [Next]_vars
    PROVE  \A c \in Chapters : row[c].done => row'[c].done
BY TableStep, RowChangedOnlyByCommit DEF TypeInv

\* A completed row is deleted on an answer only once its chapter is completed
\* in the table, or when the server cannot parse it.
LEMMA AcceptedIsStored ==
    ASSUME TypeInv, RowsAgree, Requests, NEW e \in Phones, NEW v \in Workers,
           ChunkAccepted(e, v), NEW d \in Phones, NEW q \in outbox[d], q.push.done,
           q \notin outbox'[d]
    PROVE  row'[q.ch].done \/ q.ch \in Unparseable
<1>1. /\ outbox \in [Phones -> SUBSET OutboxRow]
      /\ drain[e].chunk \subseteq Chapters
    BY DEF TypeInv, TypeOK
<1>2. /\ e = d
      /\ \E c \in drain[e].chunk : q.id \in Ids(drain[e].groups[c])
    BY <1>1 DEF ChunkAccepted, Clear
<1>3. PICK c \in drain[e].chunk : q.id \in Ids(drain[e].groups[c])
    BY <1>2
<1>4. PICK r \in drain[e].groups[c] : r.id = q.id
    BY <1>3 DEF Ids
<1>5. q = r /\ q.ch = c
    <2>1. q \in Known(d) /\ r \in Known(d) /\ c \in Chapters
        BY <1>1, <1>2, <1>3, <1>4 DEF Known
    <2> QED BY <1>2, <1>4, <2>1 DEF RowsAgree, Agree
<1>6. /\ Serving(e, v) /\ handler[v].phase = "replied" /\ ~handler[v].tooLarge
      /\ row' = row
    BY DEF ChunkAccepted, Requests
<1> QED BY <1>3, <1>4, <1>5, <1>6 DEF Serving

\* A compaction deletes a completed row only when the chapter keeps its
\* completion without it.
LEMMA ClearedIsCovered ==
    ASSUME Folds, NEW e \in Phones, CompactClear(e), NEW d \in Phones,
           outbox \in [Phones -> SUBSET OutboxRow],
           NEW q \in outbox[d], q.push.done, q \notin outbox'[d], row' = row
    PROVE  \/ row'[q.ch].done
           \/ q.ch \in Unparseable
           \/ \E r \in outbox'[d] : r.ch = q.ch /\ r.push.done
<1>1. e = d /\ q.id \in compact[d].clear
    BY DEF CompactClear, Clear
<1>2. Covered(d, q)
    BY <1>1 DEF Folds
<1>3. outbox'[d] = {r \in outbox[d] : r.id \notin compact[d].clear}
    BY <1>1 DEF CompactClear, Clear
<1> QED BY <1>2, <1>3 DEF Covered

-----------------------------------------------------------------------------
\* Every completed row about to be deleted by a compaction stays covered.
LEMMA FoldsStep ==
    ASSUME TypeInv, RowsAgree, Requests, Folds, [Next]_vars
    PROVE  Folds'
<1>1. /\ outbox \in [Phones -> SUBSET OutboxRow]
      /\ nextId \in [Phones -> Nat \ {0}]
      /\ compact \in [Phones -> Compaction]
    BY DEF TypeInv, TypeOK, Compaction
<1>2. \A c \in Chapters : row[c].done => row'[c].done
    BY RowsKeepCompletion
<1> SUFFICES ASSUME NEW d \in Phones, NEW q \in outbox'[d], q.push.done,
                    q.id \in compact'[d].clear
             PROVE  Covered(d, q)'
    BY DEF Folds
<1>3. ASSUME q \in outbox[d], compact'[d].clear = compact[d].clear,
             outbox[d] \subseteq outbox'[d]
      PROVE  Covered(d, q)'
    <2>1. Covered(d, q)
        BY <1>3 DEF Folds
    <2>2. q.ch \in Chapters
        BY <1>1, <1>3 DEF OutboxRow
    <2> QED BY <1>2, <1>3, <2>1, <2>2 DEF Covered
<1>4. ASSUME NEW e \in Phones, NEW c \in Chapters, NEW page \in Pages, Save(e, c, page)
      PROVE  Covered(d, q)'
    <2> DEFINE new == [id |-> nextId[e], ch |-> c,
                       push |-> PushAt(c, page, c, clock + PhoneAhead)]
    <2>1. /\ outbox' = [outbox EXCEPT ![e] = @ \cup {new}]
          /\ compact' = compact
        BY <1>4 DEF Save, Insert
    <2>4. new.id = nextId[e]
        OBVIOUS
    <2> HIDE DEF new
    <2>2. q.id < nextId[d] /\ nextId[d] \in Nat
        BY <1>1, <2>1 DEF RowsAgree, Agree
    <2>3. q \in outbox[d]
        BY <1>1, <2>1, <2>2, <2>4
    <2> QED BY <1>1, <1>3, <2>1, <2>3
<1>5. ASSUME outbox'[d] = outbox[d], compact'[d].clear \in {compact[d].clear, {}}
      PROVE  Covered(d, q)'
    BY <1>3, <1>5
<1>6. ASSUME NEW e \in Phones, NEW v \in Workers, ChunkAccepted(e, v) PROVE Covered(d, q)'
    <2>1. compact' = compact /\ outbox'[d] \subseteq outbox[d] /\ row' = row
        BY <1>1, <1>6 DEF ChunkAccepted, Clear
    <2>2. Covered(d, q)
        BY <2>1 DEF Folds
    <2>3. CASE \E r \in outbox[d] : /\ r.ch = q.ch /\ r.push.done
                                    /\ r.id \notin compact[d].clear
        <3>1. PICK r \in outbox[d] : /\ r.ch = q.ch /\ r.push.done
                                     /\ r.id \notin compact[d].clear
            BY <2>3
        <3>2. r \notin outbox'[d] => row'[r.ch].done \/ r.ch \in Unparseable
            BY <1>6, <3>1, AcceptedIsStored
        <3> QED BY <2>1, <3>1, <3>2 DEF Covered
    <2> QED BY <2>1, <2>2, <2>3 DEF Covered
<1>7. ASSUME NEW e \in Phones, NEW c \in Chapters, CompactFold(e, c) PROVE Covered(d, q)'
    <2> DEFINE old == compact[e].groups[c]
               new == [id |-> nextId[e], ch |-> c, push |-> Collapse(old)]
    <2>1. /\ outbox' = [outbox EXCEPT ![e] = @ \cup {new}]
          /\ compact' = [compact EXCEPT ![e].groups[c] = {}, ![e].clear = Ids(old)]
        BY <1>7 DEF CompactFold, Insert
    <2>2. CASE e # d
        BY <1>1, <1>5, <2>1, <2>2
    <2>3. CASE e = d
        <3>1. compact'[d].clear = Ids(old) /\ outbox'[d] = outbox[d] \cup {new}
            BY <1>1, <2>1, <2>3 DEF Compaction
        <3>2. PICK o \in old : o.id = q.id
            BY <3>1 DEF Ids
        <3>3. old \in SUBSET OutboxRow /\ old # {} /\ IsFiniteSet(old) /\ old \subseteq Known(d)
            BY <1>7, <2>3 DEF CompactFold, Known, TypeInv, TypeOK, FiniteQueues, Group
        <3>4. \A r \in old : r.id < nextId[d] /\ r.ch = c
            BY <2>3, <3>3 DEF RowsAgree, Agree
        <3>5. /\ new.id = nextId[d] /\ new.ch = c /\ new.push = Collapse(old)
              /\ nextId[d] \in Nat
            BY <1>1, <2>3
        <3>6. Collapse(old).done = \E r \in old : r.push.done
            BY <3>3, CollapseType
        <3> HIDE DEF new, old
        <3>7. q \in outbox[d]
            BY <3>1, <3>2, <3>4, <3>5
        <3>8. q = o
            BY <3>2, <3>3, <3>7 DEF RowsAgree, Agree, Known
        <3>9. new.push.done /\ new.ch = q.ch
            BY <3>2, <3>4, <3>5, <3>6, <3>8
        <3>10. new.id \notin compact'[d].clear
            <4>1. \A r \in old : r.id # nextId[d]
                BY <3>4, <3>5
            <4> QED BY <3>1, <3>5, <4>1 DEF Ids
        <3> QED BY <3>1, <3>9, <3>10 DEF Covered
    <2> QED BY <2>2, <2>3
<1>8. ASSUME NEW e \in Phones, CompactClear(e) PROVE Covered(d, q)'
    <2>1. CASE e = d
        <3>1. compact'[d].clear = {}
            BY <1>1, <1>8, <2>1 DEF CompactClear, Compaction
        <3> QED BY <3>1
    <2>2. CASE e # d
        BY <1>1, <1>5, <1>8, <2>2 DEF CompactClear, Clear
    <2> QED BY <2>1, <2>2
<1>9. ASSUME NEW e \in Phones, NEW c \in Chapters, CompactDrop(e, c) PROVE Covered(d, q)'
    <2>1. CASE e = d
        <3>1. compact'[d].clear = {}
            BY <1>1, <1>9, <2>1 DEF CompactDrop, Compaction
        <3> QED BY <3>1
    <2>2. CASE e # d
        BY <1>1, <1>5, <1>9, <2>2 DEF CompactDrop, Clear
    <2> QED BY <2>1, <2>2
<1>10. ASSUME NEW e \in Phones, \/ DrainStart(e)
                                \/ \E v \in Workers, chunk \in SUBSET Chapters : PostChunk(e, v, chunk)
                                \/ \E v \in Workers : ChunkTooLarge(e, v)
                                \/ GiveUp(e)
                                \/ Crash(e)
                                \/ CompactStart(e)
       PROVE  Covered(d, q)'
    <2>1. outbox' = outbox
        BY <1>10 DEF DrainStart, PostChunk, ChunkTooLarge, GiveUp, Crash, CompactStart
    <2>2. compact'[d].clear \in {compact[d].clear, {}}
        <3>1. CASE CompactStart(e)
            BY <1>1, <3>1 DEF CompactStart
        <3>2. CASE Crash(e)
            <4>1. compact'[d] \in {compact[d], NotCompacting}
                BY <1>1, <3>2 DEF Crash
            <4> QED BY <4>1, ConstantTypes
        <3>3. CASE compact' = compact
            BY <3>3
        <3> QED BY <1>10, <3>1, <3>2, <3>3 DEF DrainStart, PostChunk, ChunkTooLarge, GiveUp
    <2> QED BY <1>5, <2>1, <2>2
<1>11. ASSUME NEW v \in Workers, ServerNext(v) PROVE Covered(d, q)'
    <2>1. outbox' = outbox /\ compact' = compact
        BY <1>11 DEF ServerNext, WebPush, Refuse, Load, Commit, RequestFails, phoneVars
    <2> QED BY <1>5, <2>1
<1>12. CASE UNCHANGED vars
    BY <1>5, <1>12 DEF vars, phoneVars
<1> QED BY <1>4, <1>6, <1>7, <1>8, <1>9, <1>10, <1>11, <1>12 DEF Next, PhoneNext

\* Every step keeps the property.
LEMMA NeverLostStep ==
    ASSUME TypeInv, RowsAgree, Requests, Folds, CompletionNeverLost, [Next]_vars
    PROVE  CompletionNeverLost'
<1>1. /\ outbox \in [Phones -> SUBSET OutboxRow]
      /\ captured \in [Phones -> [Chapters -> 0..LastPage]]
      /\ LastPage \in Nat \ {0}
    BY SyncAssumption DEF TypeInv, TypeOK
<1>2. \A c \in Chapters : row[c].done => row'[c].done
    BY RowsKeepCompletion
<1> SUFFICES ASSUME NEW d \in Phones, NEW c \in Chapters \ Unparseable,
                    captured'[d][c] = LastPage
             PROVE  row'[c].done \/ \E r \in outbox'[d] : r.ch = c /\ r.push.done
    BY DEF CompletionNeverLost
<1>3. ASSUME captured'[d][c] = captured[d][c], outbox[d] \subseteq outbox'[d]
      PROVE  row'[c].done \/ \E r \in outbox'[d] : r.ch = c /\ r.push.done
    BY <1>2, <1>3 DEF CompletionNeverLost
<1>4. ASSUME captured'[d][c] = captured[d][c],
             \A q \in outbox[d] :
                q.push.done /\ q \notin outbox'[d] /\ q.ch = c
                   => row'[c].done \/ \E r \in outbox'[d] : r.ch = c /\ r.push.done
      PROVE  row'[c].done \/ \E r \in outbox'[d] : r.ch = c /\ r.push.done
    BY <1>2, <1>4 DEF CompletionNeverLost
<1>5. ASSUME NEW e \in Phones, NEW k \in Chapters, NEW page \in Pages, Save(e, k, page)
      PROVE  row'[c].done \/ \E r \in outbox'[d] : r.ch = c /\ r.push.done
    <2> DEFINE push == PushAt(k, page, k, clock + PhoneAhead)
               new  == [id |-> nextId[e], ch |-> k, push |-> push]
    <2>1. /\ outbox' = [outbox EXCEPT ![e] = @ \cup {new}]
          /\ captured' = [captured EXCEPT ![e][k] = Larger(@, page)]
        BY <1>5 DEF Save, Insert
    <2>2. new.ch = k /\ (page = LastPage => new.push.done)
        <3>1. new.ch = k /\ new.push.done = (page >= LastPage)
            BY DEF PushAt
        <3> HIDE DEF new
        <3>2. page = LastPage => page >= LastPage
            BY <1>1
        <3> QED BY <3>1, <3>2
    <2> HIDE DEF new
    <2>3. CASE e = d /\ k = c /\ page = LastPage
        <3>1. new \in outbox'[d]
            BY <1>1, <2>1, <2>3
        <3> QED BY <2>2, <2>3, <3>1
    <2>4. CASE ~(e = d /\ k = c /\ page = LastPage)
        <3>1. captured'[d][c] = captured[d][c]
            BY <1>1, <2>1, <2>4 DEF Larger, Pages
        <3>2. outbox[d] \subseteq outbox'[d]
            BY <1>1, <2>1
        <3> QED BY <1>3, <3>1, <3>2
    <2> QED BY <2>3, <2>4
<1>6. ASSUME NEW e \in Phones, NEW v \in Workers, ChunkAccepted(e, v)
      PROVE  row'[c].done \/ \E r \in outbox'[d] : r.ch = c /\ r.push.done
    <2>1. captured' = captured
        BY <1>6 DEF ChunkAccepted, ghostVars
    <2> QED BY <1>4, <1>6, <2>1, AcceptedIsStored
<1>7. ASSUME NEW e \in Phones, CompactClear(e)
      PROVE  row'[c].done \/ \E r \in outbox'[d] : r.ch = c /\ r.push.done
    <2>1. captured' = captured /\ row' = row
        BY <1>7 DEF CompactClear, ghostVars, serverVars
    <2> QED BY <1>1, <1>4, <1>7, <2>1, ClearedIsCovered
<1>8. ASSUME NEW e \in Phones, NEW k \in Chapters, CompactDrop(e, k)
      PROVE  row'[c].done \/ \E r \in outbox'[d] : r.ch = c /\ r.push.done
    <2>1. /\ captured' = [captured EXCEPT ![e][k] = 0]
          /\ outbox' = [outbox EXCEPT ![e] = {r \in @ : r.id \notin Ids(compact[e].groups[k])}]
        BY <1>8 DEF CompactDrop, Clear
    <2>2. ~(e = d /\ k = c)
        BY <1>1, <2>1
    <2>3. captured'[d][c] = captured[d][c]
        BY <1>1, <2>1, <2>2
    <2>4. ASSUME NEW q \in outbox[d], q \notin outbox'[d] PROVE q.ch # c
        <3>1. e = d /\ q.id \in Ids(compact[d].groups[k])
            BY <1>1, <2>1, <2>4
        <3>2. PICK r \in compact[d].groups[k] : r.id = q.id
            BY <3>1 DEF Ids
        <3>3. q = r /\ r.ch = k
            BY <3>2 DEF RowsAgree, Agree, Known
        <3> QED BY <2>2, <3>1, <3>3
    <2> QED BY <1>4, <2>3, <2>4
<1>9. ASSUME outbox' = outbox, captured' = captured
      PROVE  row'[c].done \/ \E r \in outbox'[d] : r.ch = c /\ r.push.done
    BY <1>3, <1>9
<1>10. ASSUME NEW e \in Phones, \/ DrainStart(e)
                                \/ \E v \in Workers, chunk \in SUBSET Chapters : PostChunk(e, v, chunk)
                                \/ \E v \in Workers : ChunkTooLarge(e, v)
                                \/ GiveUp(e)
                                \/ Crash(e)
                                \/ CompactStart(e)
       PROVE  outbox' = outbox /\ captured' = captured
    BY <1>10 DEF DrainStart, PostChunk, ChunkTooLarge, GiveUp, Crash, CompactStart, ghostVars
<1>11. ASSUME NEW e \in Phones, NEW k \in Chapters, CompactFold(e, k)
       PROVE  row'[c].done \/ \E r \in outbox'[d] : r.ch = c /\ r.push.done
    <2>1. captured' = captured /\ outbox[d] \subseteq outbox'[d]
        BY <1>1, <1>11 DEF CompactFold, Insert, ghostVars
    <2> QED BY <1>3, <2>1
<1>12. ASSUME NEW v \in Workers, ServerNext(v)
       PROVE  outbox' = outbox /\ captured' = captured
    BY <1>12 DEF ServerNext, WebPush, Refuse, Load, Commit, RequestFails, phoneVars, ghostVars
<1>13. CASE UNCHANGED vars
    BY <1>9, <1>13 DEF vars, phoneVars, ghostVars
<1> QED BY <1>5, <1>6, <1>7, <1>8, <1>9, <1>10, <1>11, <1>12, <1>13 DEF Next, PhoneNext

-----------------------------------------------------------------------------
\* The initial state.
LEMMA InitInvariant == Init => IInv
<1> SUFFICES ASSUME Init PROVE IInv
    OBVIOUS
<1>1. TypeInv
    BY InitType
<1>2. RowsAgree
    <2>1. \A d \in Phones : Known(d) = {} /\ compact[d].clear = {}
        BY ConstantTypes DEF Init, Known
    <2>2. \A d \in Phones, c \in Chapters :
              drain[d].groups[c] \cup compact[d].groups[c] = {}
        BY ConstantTypes DEF Init
    <2> QED BY <2>1, <2>2 DEF RowsAgree, Agree
<1>3. OneRequest /\ Requests
    BY ConstantTypes DEF Init, OneRequest, Requests
<1>4. Loads
    BY DEF Init, Loads, Free, NoRows, NoRow
<1>5. Folds
    BY DEF Init, Folds
<1>6. CompletionNeverLost
    BY SyncAssumption DEF Init, CompletionNeverLost
<1> QED BY <1>1, <1>2, <1>3, <1>4, <1>5, <1>6 DEF IInv

\* A chapter finished on a phone is completed in the table or still queued as
\* completed, through overlapping pushes, lost requests and answers, retries,
\* compactions and kills, on any number of phones and server threads.
THEOREM CompletionIsNeverLost == Spec => []CompletionNeverLost
<1>1. Init => IInv
    BY InitInvariant
<1>2. IInv /\ [Next]_vars => IInv'
    BY TypeStep, AgreeStep, RequestsStep, LoadsStep, FoldsStep, NeverLostStep DEF IInv
<1>3. IInv => CompletionNeverLost
    BY DEF IInv
<1> QED BY <1>1, <1>2, <1>3, PTL DEF Spec

-----------------------------------------------------------------------------
(* A chapter's number, and what it does to positions. *)

\* Everybody who names a chapter of a row names the row's own.
Numbered ==
    /\ \A d \in Phones : \A q \in Known(d) : q.push.num = q.ch
    /\ \A w \in Workers, c \in Chapters :
         /\ handler[w].items[c].num \in {NoNumber, c}
         /\ handler[w].loaded[c].num \in {NoNumber, c}
    /\ \A c \in Chapters : row[c].num \in {NoNumber, c}

\* Then a merge takes the further page, keeps the stamp and adds time.
LEMMA MergedPage ==
    ASSUME NEW c \in Nat \ {0}, NEW stored \in Row, stored.num \in {NoNumber, c},
           NEW p \in Push, p.num \in {NoNumber, c}, NEW now \in Nat
    PROVE  /\ MergeProgress(stored, p, now).page = Larger(stored.page, p.page)
           /\ MergeProgress(stored, p, now).num \in {NoNumber, c}
           /\ stored.doneAt # NoStamp =>
                MergeProgress(stored, p, now).doneAt = stored.doneAt
           /\ MergeProgress(stored, p, now).secs >= stored.secs
<1>1. CreditedSeconds(stored, p, BelievableStamp(p.at, now)) \in Nat
    BY CreditedType, BelievableType DEF Push
<1>2. CASE stored = NoRow
    <2>1. CreditedSeconds(NoRow, p, BelievableStamp(p.at, now)) \in Nat
        BY <1>1, <1>2
    <2> QED BY <1>2, <2>1 DEF MergeProgress, FirstRow, NoRow, NoStamp, NoNumber, Larger, Push
<1>3. CASE stored # NoRow
    <2> DEFINE m == MergeProgress(stored, p, now)
    <2>1. m.page = Larger(stored.page, p.page)
        BY <1>3 DEF MergeProgress, Ahead, ResolveNumber, NoNumber, Larger, Row, Push
    <2>2. m.num \in {NoNumber, c}
        BY <1>3 DEF MergeProgress, ResolveNumber, NoNumber, Row, Push
    <2>3. stored.doneAt # NoStamp => m.doneAt = stored.doneAt
        BY <1>3 DEF MergeProgress, CompletedAt
    <2>4. m.secs >= stored.secs
        BY <1>1, <1>3 DEF MergeProgress, Row
    <2> QED BY <2>1, <2>2, <2>3, <2>4
<1> QED BY <1>2, <1>3

\* What a commit writes over the row it has loaded, or where it loaded none.
LEMMA WrittenPage ==
    ASSUME NEW c \in Nat \ {0}, NEW current \in Row, current.num \in {NoNumber, c},
           NEW loaded \in {current, NoRow},
           NEW p \in Push, p.num \in {NoNumber, c}, NEW now \in Nat
    PROVE  /\ Written(current, loaded, p, now).page = Larger(current.page, p.page)
           /\ current.doneAt # NoStamp =>
                Written(current, loaded, p, now).doneAt = current.doneAt
           /\ Written(current, loaded, p, now).secs >= current.secs
<1> DEFINE m == MergeProgress(current, p, now)
<1>1. /\ m.page = Larger(current.page, p.page)
      /\ current.doneAt # NoStamp => m.doneAt = current.doneAt
      /\ m.secs >= current.secs
    BY MergedPage
<1> HIDE DEF m
<1>2. CASE loaded = NoRow
    BY <1>1, <1>2 DEF Written, m
<1>3. CASE loaded = current /\ loaded # NoRow
    <2>1. Written(current, loaded, p, now) = ChangedColumns(current, current, m)
        BY <1>3 DEF Written, m
    <2>2. /\ ChangedColumns(current, current, m).page = m.page
          /\ ChangedColumns(current, current, m).doneAt = m.doneAt
          /\ ChangedColumns(current, current, m).secs = m.secs
        BY DEF ChangedColumns
    <2> QED BY <1>1, <2>1, <2>2
<1> QED BY <1>2, <1>3

\* Whatever was loaded, the number written is the chapter's.
LEMMA WrittenNumber ==
    ASSUME NEW c \in Nat \ {0}, NEW current \in Row, current.num \in {NoNumber, c},
           NEW loaded \in Row, loaded.num \in {NoNumber, c},
           NEW p \in Push, p.num \in {NoNumber, c}, NEW now \in Nat
    PROVE  Written(current, loaded, p, now).num \in {NoNumber, c}
<1>1. /\ MergeProgress(current, p, now).num \in {NoNumber, c}
      /\ MergeProgress(loaded, p, now).num \in {NoNumber, c}
    BY MergedPage
<1> QED BY <1>1 DEF Written, ChangedColumns

\* A collapsed push is as far as each of its rows, and of their chapter.
LEMMA CollapsePage ==
    ASSUME NEW rows \in SUBSET OutboxRow, IsFiniteSet(rows), rows # {}
    PROVE  /\ \A r \in rows : Collapse(rows).page >= r.push.page
           /\ \E r \in rows : Collapse(rows).num = r.push.num
           /\ \E r \in rows : Collapse(rows).at = r.push.at
<1> DEFINE pages == {r.push.page : r \in rows}
           nums  == {r.push.num : r \in rows}
           ats   == {r.push.at : r \in rows}
<1>1. \A r \in rows : r.push \in Push
    BY DEF OutboxRow
<1>2. /\ pages \in SUBSET Nat /\ pages # {}
      /\ nums \in SUBSET Nat /\ nums # {}
      /\ ats \in SUBSET Nat /\ ats # {}
    BY <1>1 DEF Push
<1>3. IsFiniteSet(pages) /\ IsFiniteSet(nums) /\ IsFiniteSet(ats)
    <2> DEFINE f == [r \in rows |-> r.push.page]
               g == [r \in rows |-> r.push.num]
               h == [r \in rows |-> r.push.at]
    <2>1. /\ {f[r] : r \in rows} = pages /\ f = [r \in rows |-> f[r]]
          /\ {g[r] : r \in rows} = nums /\ g = [r \in rows |-> g[r]]
          /\ {h[r] : r \in rows} = ats /\ h = [r \in rows |-> h[r]]
        OBVIOUS
    <2> HIDE DEF f, g, h, pages, nums, ats
    <2>2. /\ IsFiniteSet({f[r] : r \in rows})
          /\ IsFiniteSet({g[r] : r \in rows})
          /\ IsFiniteSet({h[r] : r \in rows})
        BY <2>1, FiniteImage
    <2> QED BY <2>1, <2>2
<1>4. Max(nums) \in nums /\ Max(ats) \in ats /\ \A n \in pages : Max(pages) >= n
    <2> HIDE DEF pages, nums, ats
    <2> QED BY <1>2, <1>3, MaxOfNats
<1>5. /\ Collapse(rows).page = Max(pages) /\ Collapse(rows).num = Max(nums)
      /\ Collapse(rows).at = Max(ats)
    BY DEF Collapse
<1> HIDE DEF pages, nums, ats
<1>6. \A r \in rows : r.push.page \in pages
    BY DEF pages
<1>7. \E r \in rows : r.push.num = Max(nums)
    BY <1>4 DEF nums
<1>8. \E r \in rows : r.push.at = Max(ats)
    BY <1>4 DEF ats
<1> QED BY <1>4, <1>5, <1>6, <1>7, <1>8

-----------------------------------------------------------------------------
(* What a step can bring. *)

SavedRow(d, q) ==
    \E c \in Chapters, page \in Pages :
        Save(d, c, page) /\ q.ch = c /\ q.push = PushAt(c, page, c, clock + PhoneAhead)

FoldedRow(d, q) ==
    \E c \in Chapters :
        /\ compact[d].groups[c] # {}
        /\ q.ch = c /\ q.push = Collapse(compact[d].groups[c])

\* A row a phone did not know is one just saved, or one just folded.
LEMMA NewRows ==
    ASSUME TypeInv, [Next]_vars, NEW d \in Phones, NEW q \in Known(d)'
    PROVE  q \in Known(d) \/ SavedRow(d, q) \/ FoldedRow(d, q)
<1>1. /\ outbox \in [Phones -> SUBSET OutboxRow]
      /\ drain \in [Phones -> Drain]
      /\ compact \in [Phones -> Compaction]
    BY DEF TypeInv, TypeOK, Drain, Compaction
<1>2. ASSUME outbox'[d] \subseteq outbox[d],
             \A c \in Chapters :
                /\ drain'[d].groups[c] \subseteq drain[d].groups[c] \cup outbox[d]
                /\ compact'[d].groups[c] \subseteq compact[d].groups[c] \cup outbox[d]
      PROVE  q \in Known(d)
    BY <1>2 DEF Known
<1>3. ASSUME NEW e \in Phones, NEW c \in Chapters, NEW page \in Pages, Save(e, c, page)
      PROVE  q \in Known(d) \/ SavedRow(d, q)
    <2> DEFINE new == [id |-> nextId[e], ch |-> c,
                       push |-> PushAt(c, page, c, clock + PhoneAhead)]
    <2>1. /\ outbox' = [outbox EXCEPT ![e] = @ \cup {new}]
          /\ drain' = drain /\ compact' = compact
        BY <1>3 DEF Save, Insert
    <2>2. SavedRow(e, new)
        BY <1>3 DEF SavedRow
    <2> HIDE DEF new
    <2>3. q \in Known(d) \/ (q = new /\ d = e)
        BY <1>1, <2>1 DEF Known
    <2> QED BY <2>2, <2>3
<1>4. ASSUME NEW e \in Phones, DrainStart(e) PROVE q \in Known(d)
    <2>1. /\ outbox' = outbox /\ compact' = compact
          /\ drain' = [drain EXCEPT ![e].groups = Grouped(outbox[e])]
        BY <1>4 DEF DrainStart
    <2>2. CASE d = e
        <3>1. drain'[d].groups = Grouped(outbox[d])
            BY <1>1, <2>1, <2>2 DEF Drain
        <3>2. \A c \in Chapters : drain'[d].groups[c] \subseteq outbox[d]
            BY <3>1 DEF Grouped, RowsOf
        <3> QED BY <1>2, <2>1, <3>2
    <2>3. CASE d # e
        <3>1. drain'[d] = drain[d]
            BY <1>1, <2>1, <2>3
        <3> QED BY <1>2, <2>1, <3>1
    <2> QED BY <2>2, <2>3
<1>5. ASSUME NEW e \in Phones, NEW w \in Workers, NEW chunk \in SUBSET Chapters,
             PostChunk(e, w, chunk)
      PROVE  q \in Known(d)
    <2>1. /\ outbox' = outbox /\ compact' = compact
          /\ drain' = [drain EXCEPT ![e].chunk = chunk]
        BY <1>5 DEF PostChunk
    <2>2. drain'[d].groups = drain[d].groups
        BY <1>1, <2>1 DEF Drain
    <2> QED BY <1>2, <2>1, <2>2
<1>6. ASSUME NEW e \in Phones, NEW w \in Workers, ChunkAccepted(e, w) PROVE q \in Known(d)
    <2>1. /\ compact' = compact
          /\ outbox'[d] \subseteq outbox[d]
          /\ \A c \in Chapters : drain'[d].groups[c] \subseteq drain[d].groups[c]
        BY <1>1, <1>6 DEF ChunkAccepted, Clear, Drain
    <2> QED BY <1>2, <2>1
<1>7. ASSUME NEW e \in Phones, \/ GiveUp(e)
                               \/ Crash(e)
                               \/ \E w \in Workers : ChunkTooLarge(e, w)
      PROVE  q \in Known(d)
    <2>1. /\ outbox' = outbox
          /\ drain'[d] = drain[d] \/ drain'[d] = NotDraining
          /\ compact'[d] = compact[d] \/ compact'[d] = NotCompacting
        BY <1>1, <1>7 DEF GiveUp, Crash, ChunkTooLarge
    <2>2. \A c \in Chapters : /\ drain'[d].groups[c] \subseteq drain[d].groups[c]
                              /\ compact'[d].groups[c] \subseteq compact[d].groups[c]
        BY <2>1, ConstantTypes
    <2> QED BY <1>2, <2>1, <2>2
<1>8. ASSUME NEW e \in Phones, CompactStart(e) PROVE q \in Known(d)
    <2>1. outbox' = outbox /\ drain' = drain
        BY <1>8 DEF CompactStart
    <2>2. CASE d = e
        <3>1. \A c \in Chapters : compact'[d].groups[c] \subseteq Grouped(outbox[d])[c]
            BY <1>1, <1>8, <2>2 DEF CompactStart
        <3>2. \A c \in Chapters : Grouped(outbox[d])[c] \subseteq outbox[d]
            BY DEF Grouped, RowsOf
        <3> QED BY <1>2, <2>1, <3>1, <3>2
    <2>3. CASE d # e
        <3>1. compact'[d] = compact[d]
            BY <1>1, <1>8, <2>3 DEF CompactStart
        <3> QED BY <1>2, <2>1, <3>1
    <2> QED BY <2>2, <2>3
<1>9. ASSUME NEW e \in Phones, NEW c \in Chapters, CompactFold(e, c)
      PROVE  q \in Known(d) \/ FoldedRow(d, q)
    <2> DEFINE old == compact[e].groups[c]
               new == [id |-> nextId[e], ch |-> c, push |-> Collapse(old)]
    <2>1. /\ outbox' = [outbox EXCEPT ![e] = @ \cup {new}]
          /\ drain' = drain
          /\ compact' = [compact EXCEPT ![e].groups[c] = {}, ![e].clear = Ids(old)]
          /\ old # {}
        BY <1>9 DEF CompactFold, Insert
    <2>2. CASE d = e
        <3>1. \A k \in Chapters : compact'[d].groups[k] \subseteq compact[d].groups[k]
            BY <1>1, <2>1, <2>2 DEF Compaction, Group
        <3>2. FoldedRow(d, new)
            BY <2>1, <2>2 DEF FoldedRow
        <3> HIDE DEF new, old
        <3>3. q \in Known(d) \/ q = new
            BY <1>1, <2>1, <3>1 DEF Known
        <3> QED BY <3>2, <3>3
    <2>3. CASE d # e
        <3>1. outbox'[d] = outbox[d] /\ compact'[d] = compact[d]
            BY <1>1, <2>1, <2>3
        <3> QED BY <1>2, <2>1, <3>1
    <2> QED BY <2>2, <2>3
<1>10. ASSUME NEW e \in Phones, CompactClear(e) PROVE q \in Known(d)
    <2>1. /\ drain' = drain
          /\ outbox'[d] \subseteq outbox[d]
          /\ \A c \in Chapters : compact'[d].groups[c] \subseteq compact[d].groups[c]
        BY <1>1, <1>10 DEF CompactClear, Clear, Compaction
    <2> QED BY <1>2, <2>1
<1>11. ASSUME NEW e \in Phones, NEW k \in Chapters, CompactDrop(e, k) PROVE q \in Known(d)
    <2>1. /\ drain' = drain
          /\ outbox'[d] \subseteq outbox[d]
          /\ compact' = [compact EXCEPT ![e].groups[k] = {}, ![e].drop = @ \ {k}]
        BY <1>1, <1>11 DEF CompactDrop, Clear
    <2>2. \A c \in Chapters : compact'[d].groups[c] \subseteq compact[d].groups[c]
        BY <1>1, <2>1 DEF Compaction, Group
    <2> QED BY <1>2, <2>1, <2>2
<1>12. ASSUME NEW w \in Workers, ServerNext(w) PROVE q \in Known(d)
    <2>1. /\ outbox' = outbox /\ compact' = compact
          /\ drain'[d] = drain[d] \/ drain'[d] = NotDraining
        BY <1>12 DEF ServerNext, WebPush, Refuse, Load, Commit, RequestFails, phoneVars
    <2>2. \A c \in Chapters : drain'[d].groups[c] \subseteq drain[d].groups[c]
        BY <2>1, ConstantTypes
    <2> QED BY <1>2, <2>1, <2>2
<1>13. CASE UNCHANGED vars
    BY <1>2, <1>13 DEF vars, phoneVars
<1> QED BY <1>3, <1>4, <1>5, <1>6, <1>7, <1>8, <1>9, <1>10, <1>11, <1>12, <1>13 DEF Next, PhoneNext

Posts(d, w) == \E chunk \in SUBSET Chapters : PostChunk(d, w, chunk)

WebPushes(w) ==
    \E c \in Chapters, page \in Pages : \E num \in {NoNumber, c} : WebPush(w, c, page, num)

\* A thread goes on serving what it has, takes a push, reads, or is done.
LEMMA ThreadMoves ==
    ASSUME TypeInv, [Next]_vars, NEW w \in Workers
    PROVE  \/ /\ handler'[w].phase = handler[w].phase /\ handler'[w].items = handler[w].items
              /\ handler'[w].loaded = handler[w].loaded /\ handler'[w].now = handler[w].now
           \/ handler'[w] = Free
           \/ \E d \in Phones : Posts(d, w)
           \/ WebPushes(w)
           \/ Refuse(w) \/ Load(w) \/ Commit(w)
<1>1. handler \in [Workers -> Handler]
    BY DEF TypeInv, TypeOK
<1> DEFINE Stands == /\ handler'[w].phase = handler[w].phase
                     /\ handler'[w].items = handler[w].items
                     /\ handler'[w].loaded = handler[w].loaded
                     /\ handler'[w].now = handler[w].now
<1>2. ASSUME NEW d \in Phones, NEW v \in Workers, Posts(d, v)
      PROVE  Stands \/ Posts(d, w)
    BY <1>1, <1>2 DEF Posts, PostChunk
<1>3. ASSUME NEW d \in Phones, NEW v \in Workers, ChunkAccepted(d, v) \/ ChunkTooLarge(d, v)
      PROVE  Stands \/ handler'[w] = Free
    BY <1>1, <1>3 DEF ChunkAccepted, ChunkTooLarge
<1>4. ASSUME NEW d \in Phones, GiveUp(d) \/ Crash(d)
      PROVE  Stands \/ handler'[w] = Free
    <2>1. handler'[w] = Abandoned(d)[w]
        BY <1>4 DEF GiveUp, Crash
    <2>2. /\ [handler[w] EXCEPT !.from = Nobody].phase = handler[w].phase
          /\ [handler[w] EXCEPT !.from = Nobody].items = handler[w].items
          /\ [handler[w] EXCEPT !.from = Nobody].loaded = handler[w].loaded
          /\ [handler[w] EXCEPT !.from = Nobody].now = handler[w].now
        BY <1>1 DEF Handler
    <2> QED BY <2>1, <2>2 DEF Abandoned
<1>5. CASE handler' = handler
    BY <1>5
<1>6. ASSUME NEW d \in Phones, PhoneNext(d)
      PROVE  Stands \/ handler'[w] = Free \/ Posts(d, w)
    <2>1. ASSUME NEW v \in Workers, NEW chunk \in SUBSET Chapters, PostChunk(d, v, chunk)
          PROVE  Posts(d, v)
        BY <2>1 DEF Posts
    <2> HIDE DEF Stands
    <2>2. ASSUME \/ \E c \in Chapters, page \in Pages : Save(d, c, page)
                 \/ DrainStart(d)
                 \/ CompactStart(d)
                 \/ \E c \in Chapters : CompactFold(d, c) \/ CompactDrop(d, c)
                 \/ CompactClear(d)
          PROVE  handler' = handler
        BY <2>2 DEF Save, DrainStart, CompactStart, CompactFold, CompactDrop, CompactClear, serverVars
    <2>3. handler' = handler => Stands
        BY DEF Stands
    <2> QED BY <1>2, <1>3, <1>4, <1>6, <2>1, <2>2, <2>3 DEF PhoneNext
<1>7. ASSUME NEW v \in Workers, v # w, ServerNext(v) PROVE Stands
    <2>1. \E h : handler' = [handler EXCEPT ![v] = h]
        BY <1>7 DEF ServerNext, WebPush, Refuse, Load, Commit, RequestFails
    <2> QED BY <1>1, <1>7, <2>1
<1>8. CASE ServerNext(w)
    <2>1. RequestFails(w) => handler'[w] = Free
        BY <1>1 DEF RequestFails
    <2> QED BY <1>8, <2>1 DEF ServerNext, WebPushes
<1>9. CASE UNCHANGED vars
    BY <1>5, <1>9 DEF vars, serverVars
<1> QED BY <1>6, <1>7, <1>8, <1>9 DEF Next

-----------------------------------------------------------------------------
(* The numbers. *)

\* A push just received.
LEMMA ReceivedFields ==
    ASSUME NEW from, NEW items
    PROVE  /\ Received(from, items).phase = "received" /\ Received(from, items).items = items
           /\ Received(from, items).loaded = NoRows /\ Received(from, items).from = from
BY DEF Received, Free

\* The rows a phone knows stay numbered, ...
LEMMA KnownNumbered ==
    ASSUME TypeInv, RowsAgree, Numbered, [Next]_vars, NEW d \in Phones, NEW q \in Known(d)'
    PROVE  q.push.num = q.ch
<1>1. CASE q \in Known(d)
    BY <1>1 DEF Numbered
<1>2. CASE SavedRow(d, q)
    BY <1>2 DEF SavedRow, PushAt
<1>3. CASE FoldedRow(d, q)
    <2>1. PICK c \in Chapters : /\ compact[d].groups[c] # {}
                                /\ q.ch = c /\ q.push = Collapse(compact[d].groups[c])
        BY <1>3 DEF FoldedRow
    <2> DEFINE old == compact[d].groups[c]
    <2>2. old \in SUBSET OutboxRow /\ IsFiniteSet(old) /\ old \subseteq Known(d)
        BY DEF TypeInv, TypeOK, FiniteQueues, Group, Known
    <2>3. \A r \in old : r.ch = c /\ r.push.num = r.ch
        BY <2>2 DEF RowsAgree, Agree, Numbered
    <2>4. \E r \in old : Collapse(old).num = r.push.num
        BY <2>1, <2>2, CollapsePage
    <2> QED BY <2>1, <2>3, <2>4
<1> QED BY <1>1, <1>2, <1>3, NewRows

\* ... and so do the pushes a thread takes.
LEMMA PostedNumbered ==
    ASSUME TypeInv, RowsAgree, Numbered, NEW d \in Phones, NEW w \in Workers, Posts(d, w),
           NEW c \in Chapters
    PROVE  handler'[w].items[c].num \in {NoNumber, c}
<1>1. PICK chunk \in SUBSET Chapters : PostChunk(d, w, chunk)
    BY DEF Posts
<1> DEFINE items == [k \in Chapters |->
                        IF k \in chunk THEN Collapse(drain[d].groups[k]) ELSE NoPush]
           old == drain[d].groups[c]
<1>2. handler'[w] = Received(d, items)
    BY <1>1 DEF PostChunk, TypeInv, TypeOK
<1>3. handler'[w].items[c] = IF c \in chunk THEN Collapse(old) ELSE NoPush
    BY <1>2, ReceivedFields
<1>4. CASE c \in chunk
    <2>1. old # {} /\ old \in SUBSET OutboxRow /\ IsFiniteSet(old) /\ old \subseteq Known(d)
        BY <1>1, <1>4 DEF PostChunk, ToDeliver, TypeInv, TypeOK, FiniteQueues, Group, Known
    <2>2. \A r \in old : r.ch = c /\ r.push.num = r.ch
        BY <2>1 DEF RowsAgree, Agree, Numbered
    <2>3. \E r \in old : Collapse(old).num = r.push.num
        BY <2>1, CollapsePage
    <2> QED BY <1>3, <1>4, <2>2, <2>3
<1>5. CASE c \notin chunk
    BY <1>3, <1>5 DEF NoPush
<1> QED BY <1>4, <1>5

\* Every step keeps the numbers.
LEMMA NumberedStep ==
    ASSUME TypeInv, RowsAgree, Numbered, [Next]_vars
    PROVE  Numbered'
<1>1. handler \in [Workers -> Handler] /\ row \in [Chapters -> Row] /\ Chapters \subseteq Nat \ {0}
    BY SyncAssumption DEF TypeInv, TypeOK
<1>2. ASSUME NEW c \in Chapters PROVE row'[c].num \in {NoNumber, c}
    <2>1. ASSUME NEW w \in Workers, Commit(w), c \in Parsed(handler[w])
          PROVE  row'[c].num \in {NoNumber, c}
        <3>1. handler[w].phase = "loaded"
            BY <2>1 DEF Commit
        <3>2. /\ handler[w].items[c] \in Push /\ handler[w].loaded[c] \in Row
              /\ handler[w].now \in Nat /\ row[c] \in Row
            BY <2>1, <3>1, CommitType DEF TypeInv
        <3>3. row'[c] = Written(row[c], handler[w].loaded[c], handler[w].items[c], handler[w].now)
            BY <2>1 DEF Commit
        <3> QED BY <1>1, <3>2, <3>3, WrittenNumber DEF Numbered
    <2>2. CASE row'[c] = row[c]
        BY <2>2 DEF Numbered
    <2>3. ASSUME NEW w \in Workers, Commit(w), c \notin Parsed(handler[w])
          PROVE  row'[c] = row[c]
        BY <2>3 DEF Commit
    <2> QED BY <2>1, <2>2, <2>3, RowChangedOnlyByCommit
<1>3. ASSUME NEW w \in Workers, NEW c \in Chapters
      PROVE  /\ handler'[w].items[c].num \in {NoNumber, c}
             /\ handler'[w].loaded[c].num \in {NoNumber, c}
    <2>1. NoRow.num = NoNumber /\ NoPush.num = NoNumber /\ NoRows[c] = NoRow /\ NoItems[c] = NoPush
        BY DEF NoRow, NoPush, NoRows, NoItems
    <2>2. handler'[w].loaded[c].num \in {NoNumber, c}
        BY <2>1, LoadedStep DEF Numbered
    <2>3. Free.items = NoItems
        BY DEF Free
    <2>4. CASE handler'[w].items = handler[w].items
        BY <2>2, <2>4 DEF Numbered
    <2>5. CASE handler'[w] = Free
        BY <2>1, <2>2, <2>3, <2>5
    <2>6. CASE \E d \in Phones : Posts(d, w)
        BY <2>2, <2>6, PostedNumbered
    <2>7. CASE WebPushes(w)
        <3>0. PICK k \in Chapters, page \in Pages :
                  \E num \in {NoNumber, k} : WebPush(w, k, page, num)
            BY <2>7 DEF WebPushes
        <3>1. PICK num \in {NoNumber, k} : WebPush(w, k, page, num)
            BY <3>0
        <3> DEFINE push == PushAt(k, page, num, NoStamp)
        <3>2. handler'[w] = Received(Nobody, [NoItems EXCEPT ![k] = push])
            BY <1>1, <3>1 DEF WebPush
        <3>3. push.num = num
            BY DEF PushAt
        <3> HIDE DEF push
        <3>4. handler'[w].items[c] = IF c = k THEN push ELSE NoPush
            BY <3>2, ReceivedFields DEF NoItems
        <3> QED BY <2>1, <2>2, <3>1, <3>3, <3>4
    <2>8. CASE Refuse(w) \/ Load(w) \/ Commit(w)
        <3>1. Load(w) => handler'[w].items = handler[w].items
            BY <1>1 DEF Load, Handler
        <3>2. Refuse(w) => handler'[w] = Free \/ handler'[w].items = handler[w].items
            BY <1>1 DEF Refuse, Handler
        <3>3. Commit(w) => handler'[w] = Free \/ handler'[w].items = NoItems
            BY <1>1 DEF Commit, Free, Handler
        <3> QED BY <2>1, <2>2, <2>4, <2>5, <2>8, <3>1, <3>2, <3>3
    <2> QED BY <2>4, <2>5, <2>6, <2>7, <2>8, ThreadMoves
<1>4. \A d \in Phones : \A q \in Known(d)' : q.push.num = q.ch
    BY KnownNumbered
<1> QED BY <1>2, <1>3, <1>4 DEF Numbered

\* The initial state names no chapter.
LEMMA InitNumbered == Init => Numbered
<1> SUFFICES ASSUME Init PROVE Numbered
    OBVIOUS
<1>1. \A d \in Phones : Known(d) = {}
    BY ConstantTypes DEF Init, Known
<1>2. \A c \in Chapters : Free.items[c] = NoPush /\ Free.loaded[c] = NoRow /\ NoRows[c] = NoRow
    BY DEF Free, NoItems, NoRows
<1> QED BY <1>1, <1>2 DEF Init, Numbered, NoPush, NoRow

\* Two first pushes of one chapter race: the one that finds the row inserted
\* merges onto it, and does not put it back.
THEOREM RacingInsertsMerge == Spec => InsertRaceMerges
<1> DEFINE Num == TypeInv /\ RowsAgree /\ Numbered
<1>1. Init => Num
    BY InitNumbered, InitInvariant DEF IInv
<1>2. Num /\ [Next]_vars => Num'
    BY TypeStep, AgreeStep, NumberedStep
<1>3. Num => [\A w \in Workers, c \in Chapters :
                 Commit(w) /\ c \in Parsed(handler[w]) /\ handler[w].loaded[c] = NoRow
                    => /\ row'[c].page >= Larger(row[c].page, handler[w].items[c].page)
                       /\ row'[c].secs >= row[c].secs]_vars
    <2> SUFFICES ASSUME Num, NEW w \in Workers, NEW c \in Chapters, Commit(w),
                        c \in Parsed(handler[w]), handler[w].loaded[c] = NoRow
                 PROVE  /\ row'[c].page >= Larger(row[c].page, handler[w].items[c].page)
                        /\ row'[c].secs >= row[c].secs
        OBVIOUS
    <2>1. /\ handler[w].items[c] \in Push /\ handler[w].loaded[c] \in Row
          /\ handler[w].now \in Nat /\ row[c] \in Row
        BY CommitType DEF TypeInv, Commit
    <2>2. row'[c] = Written(row[c], handler[w].loaded[c], handler[w].items[c], handler[w].now)
        BY DEF Commit
    <2>3. /\ c \in Nat \ {0}
          /\ row[c].num \in {NoNumber, c} /\ handler[w].items[c].num \in {NoNumber, c}
        BY SyncAssumption DEF Numbered
    <2>4. /\ row'[c].page = Larger(row[c].page, handler[w].items[c].page)
          /\ row'[c].secs >= row[c].secs
        BY <2>1, <2>2, <2>3, WrittenPage
    <2>5. Larger(row[c].page, handler[w].items[c].page) \in Nat
        BY <2>1 DEF Larger, Row, Push
    <2> QED BY <2>4, <2>5
<1> HIDE DEF Num
<1> QED BY <1>1, <1>2, <1>3, PTL DEF Spec, InsertRaceMerges

-----------------------------------------------------------------------------
(* The furthest chapter. *)

\* Beyond every row a phone knows there is a chapter it has captured, ...
KnownBelow ==
    \A d \in Phones : \A q \in Known(d) : \E k \in Chapters : k >= q.ch /\ captured[d][k] > 0

\* ... and beyond every chapter it is about to drop one it is not.
DropsLess ==
    \A d \in Phones : \A c \in compact[d].drop :
        \E k \in Chapters \ compact[d].drop : k > c /\ captured[d][k] > 0

\* Whatever the ceiling, a compaction drops only queued chapters, and never
\* the furthest of them.
LEMMA FurthestNotDropped ==
    ASSUME NEW groups, NEW c \in GroupsToDrop(groups)
    PROVE  LET queued == {k \in Chapters : groups[k] # {}}
           IN  /\ c \in queued /\ c # Max(queued)
               /\ Max(queued) \in queued /\ \A k \in queued : Max(queued) >= k
<1> DEFINE queued == {k \in Chapters : groups[k] # {}}
           above  == {k \in queued \ {c} : CostsMore(groups, k, c)}
<1>1. c \in queued /\ Cardinality(above) >= Larger(MaxGroups, 1)
    BY DEF GroupsToDrop
<1>2. Max(queued) \in queued /\ \A k \in queued : Max(queued) >= k
    <2>1. IsFiniteSet(queued) /\ queued \in SUBSET Nat /\ queued # {}
        BY <1>1, SyncAssumption, FS_Subset
    <2> HIDE DEF queued
    <2> QED BY <2>1, MaxOfNats
<1>3. c # Max(queued)
    <2> SUFFICES ASSUME c = Max(queued) PROVE FALSE
        OBVIOUS
    <2>1. above = {}
        BY DEF CostsMore
    <2>2. Cardinality(above) = 0
        BY <2>1, FS_EmptySet
    <2> HIDE DEF above, queued
    <2> QED BY <1>1, <2>2, SyncAssumption DEF Larger
<1> QED BY <1>1, <1>2, <1>3

\* A phone forgets what it captured of a chapter only by dropping the chapter.
LEMMA CapturedStep ==
    ASSUME TypeInv, [Next]_vars, NEW d \in Phones, NEW k \in Chapters, captured[d][k] > 0
    PROVE  captured'[d][k] > 0 \/ CompactDrop(d, k)
<1>1. captured \in [Phones -> [Chapters -> 0..LastPage]]
    BY DEF TypeInv, TypeOK
<1>2. ASSUME NEW e \in Phones, NEW c \in Chapters, NEW page \in Pages, Save(e, c, page)
      PROVE  captured'[d][k] > 0
    <2>1. captured' = [captured EXCEPT ![e][c] = Larger(@, page)]
        BY <1>2 DEF Save
    <2>2. captured[d][k] \in Nat /\ page \in Nat
        BY <1>1, SyncAssumption DEF Pages
    <2>3. captured'[d][k] \in {captured[d][k], Larger(captured[d][k], page)}
        BY <1>1, <2>1
    <2> QED BY <2>2, <2>3 DEF Larger
<1>3. ASSUME NEW e \in Phones, NEW c \in Chapters, CompactDrop(e, c), ~CompactDrop(d, k)
      PROVE  captured'[d][k] > 0
    <2>1. captured' = [captured EXCEPT ![e][c] = 0]
        BY <1>3 DEF CompactDrop
    <2>2. ~(e = d /\ c = k)
        BY <1>3
    <2> QED BY <1>1, <2>1, <2>2
<1>4. ASSUME captured' = captured PROVE captured'[d][k] > 0
    BY <1>4
<1>5. ASSUME NEW e \in Phones, PhoneNext(e)
      PROVE  captured'[d][k] > 0 \/ CompactDrop(d, k)
    <2>1. ASSUME \/ DrainStart(e)
                 \/ \E w \in Workers, chunk \in SUBSET Chapters : PostChunk(e, w, chunk)
                 \/ \E w \in Workers : ChunkAccepted(e, w) \/ ChunkTooLarge(e, w)
                 \/ GiveUp(e)
                 \/ Crash(e)
                 \/ CompactStart(e)
                 \/ \E c \in Chapters : CompactFold(e, c)
                 \/ CompactClear(e)
          PROVE  captured' = captured
        BY <2>1 DEF DrainStart, PostChunk, ChunkAccepted, ChunkTooLarge, GiveUp, Crash,
                    CompactStart, CompactFold, CompactClear, ghostVars
    <2> QED BY <1>2, <1>3, <1>4, <1>5, <2>1 DEF PhoneNext
<1>6. ASSUME NEW w \in Workers, ServerNext(w) PROVE captured' = captured
    BY <1>6 DEF ServerNext, WebPush, Refuse, Load, Commit, RequestFails, ghostVars
<1>7. CASE UNCHANGED vars
    BY <1>4, <1>7 DEF vars, ghostVars
<1> QED BY <1>4, <1>5, <1>6, <1>7 DEF Next

\* While a chapter is dropped, one beyond it stays captured.
LEMMA BeyondTheDropped ==
    ASSUME TypeInv, DropsLess, [Next]_vars, NEW d \in Phones, NEW k \in Chapters,
           captured[d][k] > 0
    PROVE  \E l \in Chapters : l >= k /\ captured'[d][l] > 0
<1>0. Chapters \subseteq Nat
    BY SyncAssumption
<1>1. CASE captured'[d][k] > 0
    BY <1>0, <1>1
<1>2. CASE CompactDrop(d, k)
    <2>1. k \in compact[d].drop
        BY <1>2 DEF CompactDrop
    <2>2. PICK l \in Chapters \ compact[d].drop : l > k /\ captured[d][l] > 0
        BY <2>1 DEF DropsLess
    <2>3. captured' = [captured EXCEPT ![d][k] = 0]
        BY <1>2 DEF CompactDrop
    <2>4. captured'[d][l] = captured[d][l]
        BY <2>1, <2>2, <2>3 DEF TypeInv, TypeOK
    <2> QED BY <1>0, <2>2, <2>4
<1> QED BY <1>1, <1>2, CapturedStep

\* Every step keeps a captured chapter beyond every row a phone knows.
LEMMA KnownBelowStep ==
    ASSUME TypeInv, RowsAgree, KnownBelow, DropsLess, [Next]_vars
    PROVE  KnownBelow'
<1> SUFFICES ASSUME NEW d \in Phones, NEW q \in Known(d)'
             PROVE  \E k \in Chapters : k >= q.ch /\ captured'[d][k] > 0
    BY DEF KnownBelow
<1>0. Chapters \subseteq Nat
    BY SyncAssumption
<1>1. ASSUME NEW r \in Known(d), r.ch = q.ch
      PROVE  \E k \in Chapters : k >= q.ch /\ captured'[d][k] > 0
    <2>1. PICK k \in Chapters : k >= r.ch /\ captured[d][k] > 0
        BY DEF KnownBelow
    <2>2. PICK l \in Chapters : l >= k /\ captured'[d][l] > 0
        BY <2>1, BeyondTheDropped
    <2>3. r.ch \in Nat
        <3>1. /\ outbox[d] \in SUBSET OutboxRow
              /\ \A c \in Chapters : /\ drain[d].groups[c] \in SUBSET OutboxRow
                                     /\ compact[d].groups[c] \in SUBSET OutboxRow
            BY DEF TypeInv, TypeOK, Group
        <3>2. r \in OutboxRow
            BY <3>1 DEF Known
        <3> QED BY <1>0, <3>2 DEF OutboxRow
    <2> QED BY <1>0, <1>1, <2>1, <2>2, <2>3
<1>2. CASE SavedRow(d, q)
    <2>1. PICK c \in Chapters, page \in Pages : Save(d, c, page) /\ q.ch = c
        BY <1>2 DEF SavedRow
    <2>2. captured' = [captured EXCEPT ![d][c] = Larger(@, page)]
        BY <2>1 DEF Save
    <2>3. captured'[d][c] = Larger(captured[d][c], page)
        BY <2>2 DEF TypeInv, TypeOK
    <2>4. captured[d][c] \in Nat /\ page \in Nat \ {0}
        BY SyncAssumption DEF TypeInv, TypeOK, Pages
    <2> QED BY <1>0, <2>1, <2>3, <2>4 DEF Larger
<1>3. CASE FoldedRow(d, q)
    <2>1. PICK c \in Chapters : compact[d].groups[c] # {} /\ q.ch = c
        BY <1>3 DEF FoldedRow
    <2>2. PICK r \in compact[d].groups[c] : TRUE
        BY <2>1
    <2>3. r \in Known(d) /\ r.ch = c
        BY DEF Known, RowsAgree, Agree
    <2> QED BY <1>1, <2>1, <2>3
<1> QED BY <1>1, <1>2, <1>3, NewRows

\* A compaction starts with what it may drop, and drops it or dies with it.
LEMMA DropStep ==
    ASSUME TypeInv, [Next]_vars, NEW d \in Phones
    PROVE  \/ compact'[d].drop \in {compact[d].drop, {}}
           \/ /\ compact'[d].drop = GroupsToDrop(Grouped(outbox[d]))
              /\ captured' = captured
           \/ \E c \in Chapters : CompactDrop(d, c) /\ compact'[d].drop = compact[d].drop \ {c}
<1>1. compact \in [Phones -> Compaction]
    BY DEF TypeInv, TypeOK, Compaction
<1>2. ASSUME NEW e \in Phones, CompactStart(e)
      PROVE  \/ compact'[d].drop = compact[d].drop
             \/ /\ compact'[d].drop = GroupsToDrop(Grouped(outbox[d]))
                /\ captured' = captured
    BY <1>1, <1>2 DEF CompactStart, ghostVars
<1>3. ASSUME NEW e \in Phones, NEW c \in Chapters, CompactFold(e, c)
      PROVE  compact'[d].drop = compact[d].drop
    <2>1. compact' = [compact EXCEPT ![e].groups[c] = {}, ![e].clear = Ids(compact[e].groups[c])]
        BY <1>3 DEF CompactFold
    <2> QED BY <1>1, <2>1 DEF Compaction
<1>4. ASSUME NEW e \in Phones, CompactClear(e)
      PROVE  compact'[d].drop = compact[d].drop
    BY <1>1, <1>4 DEF CompactClear, Compaction
<1>5. ASSUME NEW e \in Phones, NEW c \in Chapters, CompactDrop(e, c)
      PROVE  \/ compact'[d].drop = compact[d].drop
             \/ CompactDrop(d, c) /\ compact'[d].drop = compact[d].drop \ {c}
    <2>1. compact' = [compact EXCEPT ![e].groups[c] = {}, ![e].drop = @ \ {c}]
        BY <1>5 DEF CompactDrop
    <2>2. compact'[d].drop = IF d = e THEN compact[d].drop \ {c} ELSE compact[d].drop
        BY <1>1, <2>1 DEF Compaction
    <2> QED BY <1>5, <2>2
<1>6. ASSUME NEW e \in Phones, Crash(e)
      PROVE  compact'[d].drop \in {compact[d].drop, {}}
    BY <1>1, <1>6, ConstantTypes DEF Crash, NotCompacting
<1>7. ASSUME compact' = compact PROVE compact'[d].drop = compact[d].drop
    BY <1>7
<1>8. ASSUME NEW e \in Phones,
             \/ \E c \in Chapters, page \in Pages : Save(e, c, page)
             \/ DrainStart(e)
             \/ \E w \in Workers, chunk \in SUBSET Chapters : PostChunk(e, w, chunk)
             \/ \E w \in Workers : ChunkAccepted(e, w) \/ ChunkTooLarge(e, w)
             \/ GiveUp(e)
      PROVE  compact' = compact
    BY <1>8 DEF Save, DrainStart, PostChunk, ChunkAccepted, ChunkTooLarge, GiveUp
<1>9. ASSUME NEW w \in Workers, ServerNext(w) PROVE compact' = compact
    BY <1>9 DEF ServerNext, WebPush, Refuse, Load, Commit, RequestFails, phoneVars
<1>10. CASE UNCHANGED vars
    BY <1>7, <1>10 DEF vars, phoneVars
<1>11. ASSUME NEW e \in Phones, PhoneNext(e)
       PROVE  \/ compact'[d].drop \in {compact[d].drop, {}}
              \/ /\ compact'[d].drop = GroupsToDrop(Grouped(outbox[d]))
                 /\ captured' = captured
              \/ \E c \in Chapters : CompactDrop(d, c) /\ compact'[d].drop = compact[d].drop \ {c}
    BY <1>2, <1>3, <1>4, <1>5, <1>6, <1>7, <1>8, <1>11 DEF PhoneNext
<1> QED BY <1>7, <1>9, <1>10, <1>11 DEF Next

\* Every step keeps one beyond every chapter about to be dropped.
LEMMA DropsLessStep ==
    ASSUME TypeInv, KnownBelow, DropsLess, [Next]_vars
    PROVE  DropsLess'
<1> SUFFICES ASSUME NEW d \in Phones, NEW c \in compact'[d].drop
             PROVE  \E k \in Chapters \ compact'[d].drop : k > c /\ captured'[d][k] > 0
    BY DEF DropsLess
<1>0. Chapters \subseteq Nat
    BY SyncAssumption
<1>1. CASE compact'[d].drop = compact[d].drop
    <2>1. PICK k \in Chapters \ compact[d].drop : k > c /\ captured[d][k] > 0
        BY <1>1 DEF DropsLess
    <2>2. ~CompactDrop(d, k)
        BY <2>1 DEF CompactDrop
    <2> QED BY <1>1, <2>1, <2>2, CapturedStep
<1>2. CASE compact'[d].drop = GroupsToDrop(Grouped(outbox[d])) /\ captured' = captured
    <2> DEFINE groups == Grouped(outbox[d])
               queued == {k \in Chapters : groups[k] # {}}
               last   == Max(queued)
    <2>1. \A b \in GroupsToDrop(groups) : b \in queued /\ b # last
        BY FurthestNotDropped
    <2>2. last \in queued /\ \A k \in queued : last >= k
        BY <1>2, FurthestNotDropped
    <2>3. PICK q \in outbox[d] : q.ch = last
        BY <2>2 DEF Grouped, RowsOf
    <2>4. PICK k \in Chapters : k >= last /\ captured[d][k] > 0
        BY <2>3 DEF KnownBelow, Known
    <2> HIDE DEF last, queued
    <2>5. last \in Nat /\ k \in Nat /\ c \in Nat /\ queued \subseteq Nat
        BY <1>0, <1>2, <2>1, <2>2 DEF queued
    <2>6. k \notin GroupsToDrop(groups)
        BY <2>1, <2>2, <2>4, <2>5
    <2>7. k > c
        BY <1>2, <2>1, <2>2, <2>4, <2>5
    <2> QED BY <1>2, <2>4, <2>6, <2>7
<1>3. ASSUME NEW b \in Chapters, CompactDrop(d, b), compact'[d].drop = compact[d].drop \ {b}
      PROVE  \E k \in Chapters \ compact'[d].drop : k > c /\ captured'[d][k] > 0
    <2>1. PICK k \in Chapters \ compact[d].drop : k > c /\ captured[d][k] > 0
        BY <1>3 DEF DropsLess
    <2>2. ~CompactDrop(d, k)
        BY <2>1 DEF CompactDrop
    <2> QED BY <1>3, <2>1, <2>2, CapturedStep
<1> QED BY <1>1, <1>2, <1>3, DropStep

\* Compaction drops chapters over the outbox's ceiling, never the furthest
\* chapter the phone has saved: losing that one rewinds the series.
THEOREM FurthestIsKept == Spec => FurthestChapterKept
<1> DEFINE FoldInv == TypeInv /\ RowsAgree /\ KnownBelow /\ DropsLess
<1>1. Init => FoldInv
    <2> SUFFICES ASSUME Init PROVE KnownBelow /\ DropsLess
        BY InitInvariant DEF IInv
    <2>1. \A d \in Phones : Known(d) = {} /\ compact[d].drop = {}
        BY ConstantTypes DEF Init, Known, NotCompacting
    <2> QED BY <2>1 DEF KnownBelow, DropsLess
<1>2. FoldInv /\ [Next]_vars => FoldInv'
    BY TypeStep, AgreeStep, KnownBelowStep, DropsLessStep
<1>3. FoldInv /\ [Next]_vars =>
        [\A d \in Phones, c \in Chapters :
            (captured[d][c] > 0 /\ \A k \in Chapters : k > c => captured[d][k] = 0)
                => captured'[d][c] > 0]_captured
    <2> SUFFICES ASSUME FoldInv, [Next]_vars, NEW d \in Phones, NEW c \in Chapters,
                        captured[d][c] > 0,
                        \A k \in Chapters : k > c => captured[d][k] = 0
                 PROVE  captured'[d][c] > 0
        OBVIOUS
    <2>1. ~CompactDrop(d, c)
        BY DEF CompactDrop, DropsLess
    <2> QED BY <2>1, CapturedStep
<1> HIDE DEF FoldInv
<1> QED BY <1>1, <1>2, <1>3, PTL DEF Spec, FurthestChapterKept

-----------------------------------------------------------------------------
(* Pushes that do not overlap. *)

\* No two pushes of one chapter are between their load and their commit at
\* once.  The server does not see to it; what follows holds when it is so.
MergesApart ==
    \A v, w \in Workers :
        handler[v].phase = "loaded" /\ handler[w].phase = "loaded" /\ v # w
            => Parsed(handler[v]) \cap Parsed(handler[w]) = {}

\* Then what a push has loaded is what the table holds.
Steady ==
    \A w \in Workers : handler[w].phase = "loaded" =>
        \A c \in Parsed(handler[w]) : handler[w].loaded[c] = row[c]

\* Every step keeps what is loaded current.
LEMMA SteadyStep ==
    ASSUME TypeInv, MergesApart, Steady, [Next]_vars
    PROVE  Steady'
<1> SUFFICES ASSUME NEW w \in Workers, handler'[w].phase = "loaded",
                    NEW c \in Parsed(handler'[w])
             PROVE  handler'[w].loaded[c] = row'[c]
    BY DEF Steady
<1>1. handler \in [Workers -> Handler] /\ c \in Chapters
    BY DEF TypeInv, TypeOK, Parsed, Sent
<1>2. Free.phase = "free"
    BY DEF Free
<1>3. CASE /\ handler'[w].phase = handler[w].phase /\ handler'[w].items = handler[w].items
           /\ handler'[w].loaded = handler[w].loaded
    <2>1. handler[w].phase = "loaded" /\ c \in Parsed(handler[w])
        BY <1>3 DEF Parsed, Sent
    <2>2. handler'[w].loaded[c] = row[c]
        BY <1>3, <2>1 DEF Steady
    <2>3. ASSUME NEW v \in Workers, Commit(v) PROVE row'[c] = row[c]
        <3>1. v # w
            <4>1. ASSUME v = w PROVE handler'[w].phase \in {"free", "replied"}
                BY <1>1, <1>2, <2>3, <4>1 DEF Commit, Free
            <4> QED BY <4>1
        <3>2. c \notin Parsed(handler[v])
            BY <2>1, <2>3, <3>1 DEF MergesApart, Commit
        <3> QED BY <1>1, <2>3, <3>2 DEF Commit
    <2> QED BY <2>2, <2>3, RowChangedOnlyByCommit
<1>4. handler'[w] # Free
    BY <1>2
<1>5. ~\E d \in Phones : Posts(d, w)
    <2> SUFFICES ASSUME NEW d \in Phones, NEW chunk \in SUBSET Chapters, PostChunk(d, w, chunk)
                 PROVE  FALSE
        BY DEF Posts
    <2> QED BY <1>1, ReceivedFields DEF PostChunk
<1>6. ~WebPushes(w)
    <2> SUFFICES ASSUME NEW k, NEW page, NEW num, WebPush(w, k, page, num) PROVE FALSE
        BY DEF WebPushes
    <2> QED BY <1>1, ReceivedFields DEF WebPush
<1>7. ~Refuse(w) /\ ~Commit(w)
    <2>1. Refuse(w) => handler'[w].phase \in {"free", "replied"}
        BY <1>1, <1>2 DEF Refuse, Handler
    <2>2. Commit(w) => handler'[w].phase \in {"free", "replied"}
        BY <1>1, <1>2 DEF Commit, Free
    <2> QED BY <2>1, <2>2
<1>8. CASE Load(w)
    <2> DEFINE loaded == [k \in Chapters |-> IF k \in Parsed(handler[w]) THEN row[k] ELSE NoRow]
    <2>1. /\ handler'[w] = [handler[w] EXCEPT !.phase = "loaded", !.now = clock, !.loaded = loaded]
          /\ row' = row
        BY <1>1, <1>8 DEF Load
    <2>2. handler'[w].loaded = loaded /\ handler'[w].items = handler[w].items
        <3> HIDE DEF loaded
        <3> QED BY <1>1, <2>1 DEF Handler
    <2>3. c \in Parsed(handler[w])
        BY <2>2 DEF Parsed, Sent
    <2> QED BY <1>1, <2>1, <2>2, <2>3
<1> QED BY <1>3, <1>4, <1>5, <1>6, <1>7, <1>8, ThreadMoves

\* A commit of a push that has loaded what the table holds.
LEMMA SteadyCommit ==
    ASSUME TypeInv, Numbered, Steady, NEW w \in Workers, Commit(w), NEW c \in Parsed(handler[w])
    PROVE  /\ row'[c].page = Larger(row[c].page, handler[w].items[c].page)
           /\ row[c].doneAt # NoStamp => row'[c].doneAt = row[c].doneAt
           /\ row'[c].secs >= row[c].secs
<1>1. handler[w].phase = "loaded" /\ c \in Chapters /\ c \in Nat \ {0}
    BY SyncAssumption DEF Commit, Parsed, Sent
<1>2. /\ handler[w].items[c] \in Push /\ handler[w].now \in Nat /\ row[c] \in Row
    BY <1>1, CommitType DEF TypeInv
<1>3. handler[w].loaded[c] = row[c]
    BY <1>1 DEF Steady
<1>4. row'[c] = Written(row[c], handler[w].loaded[c], handler[w].items[c], handler[w].now)
    BY <1>1 DEF Commit
<1>5. row[c].num \in {NoNumber, c} /\ handler[w].items[c].num \in {NoNumber, c}
    BY <1>1 DEF Numbered
<1> QED BY <1>1, <1>2, <1>3, <1>4, <1>5, WrittenPage

\* No step moves a position back, or a completion's stamp.
LEMMA RowsAdvance ==
    ASSUME TypeInv, Numbered, Steady, [Next]_vars, NEW c \in Chapters
    PROVE  /\ row[c].page \in Nat /\ row'[c].page \in Nat /\ row'[c].page >= row[c].page
           /\ row[c].doneAt # NoStamp => row'[c].doneAt = row[c].doneAt
<1>1. row[c].page \in Nat
    BY DEF TypeInv, TypeOK, Row
<1>2. ASSUME NEW w \in Workers, Commit(w), c \in Parsed(handler[w])
      PROVE  /\ row'[c].page \in Nat /\ row'[c].page >= row[c].page
             /\ row[c].doneAt # NoStamp => row'[c].doneAt = row[c].doneAt
    <2>1. handler[w].items[c].page \in Nat
        BY <1>2, CommitType DEF TypeInv, Commit, Push
    <2> QED BY <1>1, <1>2, <2>1, SteadyCommit DEF Larger
<1>3. ASSUME NEW w \in Workers, Commit(w), c \notin Parsed(handler[w])
      PROVE  row'[c] = row[c]
    BY <1>3 DEF Commit
<1> QED BY <1>1, <1>2, <1>3, RowChangedOnlyByCommit

-----------------------------------------------------------------------------
(* Pages on their way. *)

\* What a phone's request carries of its rows, and what its answer means.
Carries(d, w) ==
    /\ handler[w].phase \in {"received", "loaded"} =>
          \A c \in drain[d].chunk : \A q \in drain[d].groups[c] :
              handler[w].items[c].page >= q.push.page
    /\ handler[w].phase = "replied" /\ ~handler[w].tooLarge =>
          \A c \in drain[d].chunk \ Unparseable : \A q \in drain[d].groups[c] :
              row[c].page >= q.push.page

PagesCarried == \A d \in Phones, w \in Workers : handler[w].from = d => Carries(d, w)

\* A row about to be cleared by a compaction has its page elsewhere.
Behind(d, q) ==
    \/ row[q.ch].page >= q.push.page
    \/ q.ch \in Unparseable
    \/ \E r \in outbox[d] : r.ch = q.ch /\ r.push.page >= q.push.page /\ r.id \notin compact[d].clear

PagesFolded == \A d \in Phones : \A q \in outbox[d] : q.id \in compact[d].clear => Behind(d, q)

\* The request a phone waits for has just been posted, or stands, or its
\* thread goes on with it.
LEMMA RequestMoves ==
    ASSUME TypeInv, OneRequest, Requests, [Next]_vars, NEW d \in Phones, NEW w \in Workers,
           handler'[w].from = d
    PROVE  \/ Posts(d, w)
           \/ /\ handler[w].from = d /\ drain'[d] = drain[d]
              /\ handler'[w] = handler[w] \/ Refuse(w) \/ Load(w) \/ Commit(w)
<1>1. handler \in [Workers -> Handler] /\ drain \in [Phones -> Drain] /\ Nobody \notin Phones
    BY ConstantTypes DEF TypeInv, TypeOK, Drain
<1>2. Free.from = Nobody /\ Nobody # d
    BY <1>1, ConstantTypes
<1> DEFINE Stands == handler[w].from = d /\ drain'[d] = drain[d] /\ handler'[w] = handler[w]
<1>3. ASSUME handler' = handler, drain' = drain PROVE Stands
    BY <1>3
<1>4. ASSUME NEW e \in Phones, DrainStart(e) PROVE Stands
    <2>1. handler' = handler /\ drain[e].chunk = {}
        BY <1>2, <1>4, ConstantTypes DEF DrainStart, serverVars
    <2>2. e # d
        BY <2>1 DEF Requests, Serving
    <2> QED BY <1>4, <2>1, <2>2 DEF DrainStart
<1>5. ASSUME NEW e \in Phones, NEW v \in Workers, NEW chunk \in SUBSET Chapters,
             PostChunk(e, v, chunk)
      PROVE  Stands \/ Posts(d, w)
    <2> DEFINE items == [c \in Chapters |->
                            IF c \in chunk THEN Collapse(drain[e].groups[c]) ELSE NoPush]
    <2>1. /\ handler' = [handler EXCEPT ![v] = Received(e, items)]
          /\ drain' = [drain EXCEPT ![e].chunk = chunk]
          /\ drain[e].chunk = {}
        BY <1>5 DEF PostChunk
    <2> HIDE DEF items
    <2>2. CASE w = v
        <3>1. e = d
            BY <1>1, <2>1, <2>2, ReceivedFields
        <3> QED BY <1>5, <2>2, <3>1 DEF Posts
    <2>3. CASE w # v
        <3>1. handler'[w] = handler[w]
            BY <1>1, <2>1, <2>3
        <3>2. e # d
            BY <2>1, <3>1 DEF Requests, Serving
        <3> QED BY <1>1, <2>1, <3>1, <3>2
    <2> QED BY <2>2, <2>3
<1>6. ASSUME NEW e \in Phones, NEW v \in Workers, ChunkAccepted(e, v) \/ ChunkTooLarge(e, v)
      PROVE  Stands
    <2>1. /\ handler' = [handler EXCEPT ![v] = Free]
          /\ handler[v].from = e
          /\ e # d => drain'[d] = drain[d]
        BY <1>1, <1>6 DEF ChunkAccepted, ChunkTooLarge
    <2>2. w # v /\ handler'[w] = handler[w]
        BY <1>1, <1>2, <2>1
    <2>3. e # d
        BY <2>1, <2>2 DEF OneRequest
    <2> QED BY <2>1, <2>2, <2>3
<1>7. ASSUME NEW e \in Phones, GiveUp(e) \/ Crash(e) PROVE Stands
    <2>1. /\ handler'[w] = Abandoned(e)[w]
          /\ e # d => drain'[d] = drain[d]
        BY <1>1, <1>7 DEF GiveUp, Crash
    <2>2. [handler[w] EXCEPT !.from = Nobody].from = Nobody
        BY <1>1 DEF Handler
    <2>3. handler[w].from # e /\ handler'[w] = handler[w]
        BY <1>1, <1>2, <2>1, <2>2 DEF Abandoned
    <2> QED BY <2>1, <2>3
<1>8. ASSUME NEW v \in Workers, NEW k, NEW page, NEW num, WebPush(v, k, page, num)
      PROVE  Stands
    <2>1. drain' = drain
        BY <1>8 DEF WebPush, phoneVars
    <2>2. w # v
        BY <1>1, <1>2, <1>8, ReceivedFields DEF WebPush
    <2>3. handler'[w] = handler[w]
        BY <1>1, <1>8, <2>2 DEF WebPush
    <2> QED BY <2>1, <2>3
<1>9. ASSUME NEW v \in Workers, Refuse(v) \/ Load(v) \/ Commit(v)
      PROVE  Stands \/ (/\ handler[w].from = d /\ drain'[d] = drain[d]
                        /\ Refuse(w) \/ Load(w) \/ Commit(w))
    <2>1. drain' = drain /\ \E h : handler' = [handler EXCEPT ![v] = h]
        BY <1>9 DEF Refuse, Load, Commit, phoneVars
    <2>2. CASE w # v
        BY <1>1, <2>1, <2>2
    <2>3. CASE w = v
        <3>1. Refuse(w) => handler[w].from = d
            BY <1>1, <1>2 DEF Refuse, Handler
        <3>2. Load(w) => handler[w].from = d
            BY <1>1 DEF Load, Handler
        <3>3. Commit(w) => handler[w].from = d
            BY <1>1, <1>2 DEF Commit, Free
        <3> QED BY <1>9, <2>1, <2>3, <3>1, <3>2, <3>3
    <2> QED BY <2>2, <2>3
<1>10. ASSUME NEW v \in Workers, RequestFails(v) PROVE Stands
    <2>1. handler' = [handler EXCEPT ![v] = Free]
        BY <1>10 DEF RequestFails
    <2>2. w # v /\ handler'[w] = handler[w]
        BY <1>1, <1>2, <2>1
    <2>3. handler[v].from # d
        BY <2>2 DEF OneRequest
    <2>4. drain'[d] = drain[d]
        BY <1>10, <2>3 DEF RequestFails
    <2> QED BY <2>2, <2>4
<1>11. CASE UNCHANGED vars
    BY <1>3, <1>11 DEF vars, serverVars, phoneVars
<1>12. ASSUME NEW e \in Phones, PhoneNext(e) PROVE Stands \/ Posts(d, w)
    <2>1. ASSUME \/ \E c \in Chapters, page \in Pages : Save(e, c, page)
                 \/ CompactStart(e)
                 \/ \E c \in Chapters : CompactFold(e, c) \/ CompactDrop(e, c)
                 \/ CompactClear(e)
          PROVE  handler' = handler /\ drain' = drain
        BY <2>1 DEF Save, CompactStart, CompactFold, CompactDrop, CompactClear, serverVars
    <2> HIDE DEF Stands
    <2> QED BY <1>3, <1>4, <1>5, <1>6, <1>7, <1>12, <2>1 DEF PhoneNext
<1>13. ASSUME NEW v \in Workers, ServerNext(v)
       PROVE  Stands \/ (/\ handler[w].from = d /\ drain'[d] = drain[d]
                         /\ Refuse(w) \/ Load(w) \/ Commit(w))
    <2> HIDE DEF Stands
    <2> QED BY <1>8, <1>9, <1>10, <1>13 DEF ServerNext
<1> QED BY <1>11, <1>12, <1>13 DEF Next

\* Every step keeps the pages of a request.
LEMMA PagesCarriedStep ==
    ASSUME TypeInv, OneRequest, Requests, Numbered, Steady, PagesCarried, [Next]_vars
    PROVE  PagesCarried'
<1> SUFFICES ASSUME NEW d \in Phones, NEW w \in Workers, handler'[w].from = d
             PROVE  Carries(d, w)'
    BY DEF PagesCarried
<1>1. /\ handler \in [Workers -> Handler]
      /\ drain[d].chunk \subseteq Chapters
      /\ \A c \in Chapters : drain[d].groups[c] \in SUBSET OutboxRow
    BY DEF TypeInv, TypeOK, Group
<1>2. \A c \in Chapters : \A q \in drain[d].groups[c] : q.push.page \in Nat
    BY <1>1 DEF OutboxRow, Push
<1>3. \A c \in Chapters : /\ row[c].page \in Nat /\ row'[c].page \in Nat
                          /\ row'[c].page >= row[c].page
    BY RowsAdvance
<1>4. ASSUME handler[w].from = d, drain'[d] = drain[d], handler'[w] = handler[w]
      PROVE  Carries(d, w)'
    BY <1>1, <1>2, <1>3, <1>4 DEF PagesCarried, Carries
<1>5. ASSUME Posts(d, w) PROVE Carries(d, w)'
    <2>1. PICK chunk \in SUBSET Chapters : PostChunk(d, w, chunk)
        BY <1>5 DEF Posts
    <2> DEFINE items == [c \in Chapters |->
                            IF c \in chunk THEN Collapse(drain[d].groups[c]) ELSE NoPush]
    <2>2. handler'[w] = Received(d, items)
        BY <1>1, <2>1 DEF PostChunk
    <2>3. drain'[d].chunk = chunk /\ drain'[d].groups = drain[d].groups
        BY <2>1 DEF PostChunk, TypeInv, TypeOK
    <2>4. ASSUME NEW c \in chunk, NEW q \in drain[d].groups[c]
          PROVE  items[c].page >= q.push.page
        <3>1. drain[d].groups[c] # {} /\ IsFiniteSet(drain[d].groups[c])
            BY <2>4 DEF TypeInv, FiniteQueues
        <3> QED BY <1>1, <2>4, <3>1, CollapsePage
    <2> HIDE DEF items
    <2>5. handler'[w].phase = "received" /\ handler'[w].items = items
        BY <2>2, ReceivedFields
    <2> QED BY <2>3, <2>4, <2>5 DEF Carries
<1>6. ASSUME handler[w].from = d, drain'[d] = drain[d], Refuse(w) PROVE Carries(d, w)'
    <2>1. handler'[w].tooLarge /\ handler'[w].phase = "replied"
        BY <1>1, <1>6, ConstantTypes DEF Refuse, Handler
    <2> QED BY <2>1 DEF Carries
<1>7. ASSUME handler[w].from = d, drain'[d] = drain[d], Load(w) PROVE Carries(d, w)'
    <2>1. /\ handler'[w].items = handler[w].items /\ handler'[w].phase = "loaded"
          /\ handler[w].phase = "received"
        BY <1>1, <1>7 DEF Load, Handler
    <2> QED BY <1>7, <2>1 DEF PagesCarried, Carries
<1>8. ASSUME handler[w].from = d, drain'[d] = drain[d], Commit(w) PROVE Carries(d, w)'
    <2>1. handler'[w].phase = "replied" /\ handler[w].phase = "loaded"
        <3>1. handler[w].from # Nobody
            BY <1>8, ConstantTypes
        <3>2. handler'[w] = [Free EXCEPT !.phase = "replied", !.from = handler[w].from]
            BY <1>1, <1>8, <3>1 DEF Commit
        <3>3. \A from : [Free EXCEPT !.phase = "replied", !.from = from].phase = "replied"
            BY DEF Free
        <3> QED BY <1>8, <3>2, <3>3 DEF Commit
    <2>2. ASSUME NEW c \in drain[d].chunk \ Unparseable, NEW q \in drain[d].groups[c]
          PROVE  row'[c].page >= q.push.page
        <3>1. c \in Parsed(handler[w])
            BY <1>1, <1>8, <2>1 DEF Requests, Serving, Parsed, Sent
        <3>2. handler[w].items[c].page >= q.push.page
            BY <1>8, <2>1 DEF PagesCarried, Carries
        <3>3. row'[c].page = Larger(row[c].page, handler[w].items[c].page)
            BY <1>8, <3>1, SteadyCommit
        <3>4. handler[w].items[c].page \in Nat /\ c \in Chapters
            BY <1>1, <2>1, <3>1, CommitType DEF TypeInv, Push
        <3> QED BY <1>2, <1>3, <3>2, <3>3, <3>4 DEF Larger
    <2> QED BY <1>8, <2>1, <2>2 DEF Carries
<1> QED BY <1>4, <1>5, <1>6, <1>7, <1>8, RequestMoves

\* What a step does to a phone's outbox.
LEMMA OutboxMoves ==
    ASSUME TypeInv, [Next]_vars, NEW d \in Phones
    PROVE  \/ /\ outbox'[d] = outbox[d] /\ captured'[d] = captured[d]
              /\ compact'[d].clear \in {compact[d].clear, {}}
           \/ \E c \in Chapters, page \in Pages : Save(d, c, page)
           \/ \E w \in Workers : ChunkAccepted(d, w)
           \/ \E c \in Chapters : CompactFold(d, c) \/ CompactDrop(d, c)
           \/ CompactClear(d)
<1>1. /\ outbox \in [Phones -> SUBSET OutboxRow]
      /\ compact \in [Phones -> Compaction]
      /\ captured \in [Phones -> [Chapters -> 0..LastPage]]
    BY DEF TypeInv, TypeOK, Compaction
<1> DEFINE Stands == /\ outbox'[d] = outbox[d] /\ captured'[d] = captured[d]
                     /\ compact'[d].clear \in {compact[d].clear, {}}
<1>2. ASSUME NEW e \in Phones, NEW c \in Chapters, NEW page \in Pages, Save(e, c, page), e # d
      PROVE  Stands
    <2>1. \E new : outbox' = [outbox EXCEPT ![e] = @ \cup {new}]
        BY <1>2 DEF Save, Insert
    <2>2. captured' = [captured EXCEPT ![e][c] = Larger(@, page)] /\ compact' = compact
        BY <1>2 DEF Save
    <2> QED BY <1>1, <1>2, <2>1, <2>2
<1>3. ASSUME NEW e \in Phones, NEW w \in Workers, ChunkAccepted(e, w), e # d
      PROVE  Stands
    BY <1>1, <1>3 DEF ChunkAccepted, Clear, ghostVars
<1>4. ASSUME NEW e \in Phones, NEW c \in Chapters, CompactFold(e, c) \/ CompactDrop(e, c), e # d
      PROVE  Stands
    <2>1. CASE CompactFold(e, c)
        <3>1. captured' = captured /\ compact'[d] = compact[d] /\ outbox'[d] = outbox[d]
            BY <1>1, <1>4, <2>1 DEF CompactFold, Insert, ghostVars
        <3> QED BY <3>1
    <2>2. CASE CompactDrop(e, c)
        <3>1. captured'[d] = captured[d] /\ compact'[d] = compact[d] /\ outbox'[d] = outbox[d]
            BY <1>1, <1>4, <2>2 DEF CompactDrop, Clear
        <3> QED BY <3>1
    <2> QED BY <1>4, <2>1, <2>2
<1>5. ASSUME NEW e \in Phones, CompactClear(e), e # d PROVE Stands
    BY <1>1, <1>5 DEF CompactClear, Clear, ghostVars
<1>6. ASSUME NEW e \in Phones, CompactStart(e) PROVE Stands
    BY <1>1, <1>6 DEF CompactStart, ghostVars
<1>7. ASSUME NEW e \in Phones, Crash(e) PROVE Stands
    BY <1>1, <1>7, ConstantTypes DEF Crash, ghostVars
<1>8. ASSUME outbox' = outbox, captured' = captured, compact' = compact PROVE Stands
    BY <1>8
<1>9. ASSUME NEW e \in Phones,
             \/ DrainStart(e)
             \/ \E w \in Workers, chunk \in SUBSET Chapters : PostChunk(e, w, chunk)
             \/ \E w \in Workers : ChunkTooLarge(e, w)
             \/ GiveUp(e)
      PROVE  outbox' = outbox /\ captured' = captured /\ compact' = compact
    BY <1>9 DEF DrainStart, PostChunk, ChunkTooLarge, GiveUp, ghostVars
<1>10. ASSUME NEW w \in Workers, ServerNext(w)
       PROVE  outbox' = outbox /\ captured' = captured /\ compact' = compact
    BY <1>10 DEF ServerNext, WebPush, Refuse, Load, Commit, RequestFails, phoneVars, ghostVars
<1>11. CASE UNCHANGED vars
    BY <1>8, <1>11 DEF vars, phoneVars, ghostVars
<1>12. ASSUME NEW e \in Phones, PhoneNext(e)
       PROVE  \/ Stands
              \/ \E c \in Chapters, page \in Pages : Save(d, c, page)
              \/ \E w \in Workers : ChunkAccepted(d, w)
              \/ \E c \in Chapters : CompactFold(d, c) \/ CompactDrop(d, c)
              \/ CompactClear(d)
    <2> HIDE DEF Stands
    <2> QED BY <1>2, <1>3, <1>4, <1>5, <1>6, <1>7, <1>8, <1>9, <1>12 DEF PhoneNext
<1> QED BY <1>8, <1>10, <1>11, <1>12 DEF Next

\* A queued row is deleted on an answer only once its page is stored.
LEMMA AcceptedPageStored ==
    ASSUME TypeInv, RowsAgree, PagesCarried, NEW d \in Phones, NEW v \in Workers,
           ChunkAccepted(d, v), NEW q \in outbox[d], q \notin outbox'[d]
    PROVE  row'[q.ch].page >= q.push.page \/ q.ch \in Unparseable
<1>1. /\ outbox \in [Phones -> SUBSET OutboxRow]
      /\ drain[d].chunk \subseteq Chapters
    BY DEF TypeInv, TypeOK
<1>2. PICK c \in drain[d].chunk : q.id \in Ids(drain[d].groups[c])
    BY <1>1 DEF ChunkAccepted, Clear
<1>3. PICK r \in drain[d].groups[c] : r.id = q.id
    BY <1>2 DEF Ids
<1>4. q = r /\ q.ch = c
    <2>1. q \in Known(d) /\ r \in Known(d) /\ c \in Chapters
        BY <1>1, <1>2, <1>3 DEF Known
    <2> QED BY <1>3, <2>1 DEF RowsAgree, Agree
<1>5. /\ Carries(d, v) /\ handler[v].phase = "replied" /\ ~handler[v].tooLarge
      /\ row' = row
    BY DEF ChunkAccepted, PagesCarried
<1> QED BY <1>2, <1>3, <1>4, <1>5 DEF Carries

\* The row a fold writes is new, and as far as every row it stands for.
LEMMA FoldCovers ==
    ASSUME TypeInv, RowsAgree, NEW d \in Phones, NEW c \in Chapters, CompactFold(d, c)
    PROVE  \E new \in outbox'[d] :
              /\ outbox'[d] = outbox[d] \cup {new}
              /\ new.ch = c /\ new.id = nextId[d]
              /\ compact'[d].clear = Ids(compact[d].groups[c])
              /\ \A r \in compact[d].groups[c] : /\ r \in Known(d) /\ r.ch = c
                                                 /\ new.push.page >= r.push.page
<1> DEFINE old == compact[d].groups[c]
           new == [id |-> nextId[d], ch |-> c, push |-> Collapse(old)]
<1>1. outbox'[d] = outbox[d] \cup {new}
    BY DEF CompactFold, Insert, TypeInv, TypeOK
<1>2. compact'[d].clear = Ids(old)
    <2>1. compact \in [Phones -> Compaction]
        BY DEF TypeInv, TypeOK, Compaction
    <2>2. compact' = [compact EXCEPT ![d].groups[c] = {}, ![d].clear = Ids(old)]
        BY DEF CompactFold
    <2> HIDE DEF old
    <2> QED BY <2>1, <2>2 DEF Compaction
<1>3. old \in SUBSET OutboxRow /\ old # {} /\ IsFiniteSet(old) /\ old \subseteq Known(d)
    BY DEF CompactFold, Known, TypeInv, TypeOK, FiniteQueues, Group
<1>4. \A r \in old : r.ch = c
    BY DEF RowsAgree, Agree
<1>5. \A r \in old : Collapse(old).page >= r.push.page
    BY <1>3, CollapsePage
<1>6. new.ch = c /\ new.id = nextId[d] /\ new.push = Collapse(old)
    OBVIOUS
<1> HIDE DEF new, old
<1>7. \A r \in old : r \in Known(d) /\ r.ch = c /\ new.push.page >= r.push.page
    BY <1>3, <1>4, <1>5, <1>6
<1> QED BY <1>1, <1>2, <1>6, <1>7 DEF old

\* The pages of queued rows are numbers.
LEMMA QueuedPages ==
    ASSUME TypeInv, NEW d \in Phones, NEW q \in outbox[d]
    PROVE  q.ch \in Chapters /\ q.id \in Nat /\ q.push.page \in Nat
BY DEF TypeInv, TypeOK, OutboxRow, Push

\* Every row about to be cleared keeps its page elsewhere.
LEMMA PagesFoldedStep ==
    ASSUME TypeInv, RowsAgree, Numbered, Steady, PagesCarried, PagesFolded, [Next]_vars
    PROVE  PagesFolded'
<1> SUFFICES ASSUME NEW d \in Phones, NEW q \in outbox'[d], q.id \in compact'[d].clear
             PROVE  Behind(d, q)'
    BY DEF PagesFolded
<1>1. \A c \in Chapters : /\ row[c].page \in Nat /\ row'[c].page \in Nat
                          /\ row'[c].page >= row[c].page
    BY RowsAdvance
<1>2. ASSUME q \in outbox[d], outbox[d] \subseteq outbox'[d], compact'[d].clear = compact[d].clear
      PROVE  Behind(d, q)'
    <2>1. Behind(d, q)
        BY <1>2 DEF PagesFolded
    <2> QED BY <1>1, <1>2, <2>1, QueuedPages DEF Behind
<1>3. CASE outbox'[d] = outbox[d] /\ compact'[d].clear \in {compact[d].clear, {}}
    BY <1>2, <1>3
<1>4. ASSUME NEW c \in Chapters, NEW page \in Pages, Save(d, c, page) PROVE Behind(d, q)'
    <2>1. \E new : new.id = nextId[d] /\ outbox'[d] = outbox[d] \cup {new}
        BY <1>4 DEF Save, Insert, TypeInv, TypeOK
    <2>2. compact' = compact
        BY <1>4 DEF Save
    <2>3. q.id < nextId[d] /\ nextId[d] \in Nat
        BY <2>2 DEF RowsAgree, Agree, TypeInv, TypeOK
    <2>4. q \in outbox[d] /\ outbox[d] \subseteq outbox'[d]
        BY <2>1, <2>3
    <2> QED BY <1>2, <2>2, <2>4
<1>5. ASSUME NEW v \in Workers, ChunkAccepted(d, v) PROVE Behind(d, q)'
    <2>1. compact' = compact /\ outbox'[d] \subseteq outbox[d] /\ row' = row
        BY <1>5 DEF ChunkAccepted, Clear, TypeInv, TypeOK
    <2>2. Behind(d, q) /\ q \in outbox[d]
        BY <2>1 DEF PagesFolded
    <2>3. ASSUME NEW r \in outbox[d], r.ch = q.ch, r.push.page >= q.push.page,
                 r.id \notin compact[d].clear
          PROVE  Behind(d, q)'
        <3>1. CASE r \in outbox'[d]
            BY <2>1, <2>3, <3>1 DEF Behind
        <3>2. CASE r \notin outbox'[d]
            <4>1. row'[r.ch].page >= r.push.page \/ r.ch \in Unparseable
                BY <1>5, <3>2, AcceptedPageStored
            <4>2. /\ r.push.page \in Nat /\ q.push.page \in Nat /\ q.ch \in Chapters
                  /\ row'[q.ch].page \in Nat
                BY <1>1, <2>2, QueuedPages
            <4> QED BY <2>3, <4>1, <4>2 DEF Behind
        <3> QED BY <3>1, <3>2
    <2> QED BY <2>1, <2>2, <2>3 DEF Behind
<1>6. ASSUME NEW c \in Chapters, CompactFold(d, c) PROVE Behind(d, q)'
    <2>1. PICK new \in outbox'[d] :
              /\ outbox'[d] = outbox[d] \cup {new}
              /\ new.ch = c /\ new.id = nextId[d]
              /\ compact'[d].clear = Ids(compact[d].groups[c])
              /\ \A r \in compact[d].groups[c] : /\ r \in Known(d) /\ r.ch = c
                                                 /\ new.push.page >= r.push.page
        BY <1>6, FoldCovers
    <2>2. PICK o \in compact[d].groups[c] : o.id = q.id
        BY <2>1 DEF Ids
    <2>3. \A r \in Known(d) : r.id < nextId[d]
        BY DEF RowsAgree, Agree
    <2>4. nextId[d] \in Nat /\ ~(nextId[d] < nextId[d])
        BY DEF TypeInv, TypeOK
    <2>5. q = o
        <3>1. q \in outbox[d]
            BY <2>1, <2>2, <2>3, <2>4
        <3> QED BY <2>1, <2>2, <3>1 DEF RowsAgree, Agree, Known
    <2>6. new.id \notin compact'[d].clear
        BY <2>1, <2>3, <2>4 DEF Ids
    <2> QED BY <2>1, <2>2, <2>5, <2>6 DEF Behind
<1>7. ASSUME NEW c \in Chapters, CompactDrop(d, c) PROVE FALSE
    <2>1. compact \in [Phones -> Compaction]
        BY DEF TypeInv, TypeOK, Compaction
    <2>2. /\ compact[d].clear = {}
          /\ compact' = [compact EXCEPT ![d].groups[c] = {}, ![d].drop = @ \ {c}]
        BY <1>7 DEF CompactDrop
    <2>3. compact'[d].clear = {}
        BY <2>1, <2>2 DEF Compaction
    <2> QED BY <2>3
<1>8. ASSUME CompactClear(d) PROVE FALSE
    <2>1. compact'[d].clear = {}
        BY <1>8 DEF CompactClear, TypeInv, TypeOK
    <2> QED BY <2>1
<1> QED BY <1>3, <1>4, <1>5, <1>6, <1>7, <1>8, OutboxMoves

\* Every step keeps the furthest page of every chapter.
LEMMA PositionStep ==
    ASSUME TypeInv, RowsAgree, Numbered, Steady, PagesCarried, PagesFolded,
           PositionNeverLost, [Next]_vars
    PROVE  PositionNeverLost'
<1> SUFFICES ASSUME NEW d \in Phones, NEW c \in Chapters \ Unparseable
             PROVE  Delivers(d, c, captured[d][c])'
    BY DEF PositionNeverLost
<1>1. /\ row[c].page \in Nat /\ row'[c].page \in Nat /\ row'[c].page >= row[c].page
      /\ captured[d][c] \in Nat
    <2>1. captured[d][c] \in 0..LastPage
        BY DEF TypeInv, TypeOK
    <2>2. captured[d][c] \in Nat
        BY <2>1, SyncAssumption
    <2> QED BY <2>2, RowsAdvance
<1>2. Delivers(d, c, captured[d][c])
    BY DEF PositionNeverLost
<1>3. ASSUME captured'[d][c] = captured[d][c],
             \A r \in outbox[d] : r \in outbox'[d] \/ r.ch # c \/ row'[c].page >= r.push.page
                \/ \E s \in outbox'[d] : s.ch = c /\ s.push.page >= r.push.page
      PROVE  Delivers(d, c, captured[d][c])'
    <2>1. CASE row[c].page >= captured[d][c]
        BY <1>1, <1>3, <2>1 DEF Delivers
    <2>2. ASSUME NEW r \in outbox[d], r.ch = c, r.push.page >= captured[d][c]
          PROVE  Delivers(d, c, captured[d][c])'
        <3>1. r.push.page \in Nat
            BY QueuedPages
        <3>2. CASE r \in outbox'[d]
            BY <1>3, <2>2, <3>2 DEF Delivers
        <3>3. CASE row'[c].page >= r.push.page
            BY <1>1, <1>3, <2>2, <3>1, <3>3 DEF Delivers
        <3>4. ASSUME NEW s \in outbox'[d], s.ch = c, s.push.page >= r.push.page
              PROVE  Delivers(d, c, captured[d][c])'
            <4>1. s.push.page \in Nat
                BY TypeStep DEF TypeInv, TypeOK, OutboxRow, Push
            <4> QED BY <1>1, <1>3, <2>2, <3>1, <3>4, <4>1 DEF Delivers
        <3> QED BY <1>3, <2>2, <3>2, <3>3, <3>4
    <2> QED BY <1>2, <2>1, <2>2 DEF Delivers
<1>4. CASE outbox'[d] = outbox[d] /\ captured'[d] = captured[d]
    BY <1>3, <1>4
<1>5. ASSUME NEW k \in Chapters, NEW page \in Pages, Save(d, k, page)
      PROVE  Delivers(d, c, captured[d][c])'
    <2> DEFINE push == PushAt(k, page, k, clock + PhoneAhead)
               new  == [id |-> nextId[d], ch |-> k, push |-> push]
    <2>1. /\ outbox'[d] = outbox[d] \cup {new}
          /\ captured'[d] = [captured[d] EXCEPT ![k] = Larger(@, page)]
        BY <1>5 DEF Save, Insert, TypeInv, TypeOK
    <2>2. new.ch = k /\ new.push.page = page
        BY DEF PushAt
    <2> HIDE DEF new
    <2>3. captured[d] \in [Chapters -> 0..LastPage] /\ page \in Nat
        BY SyncAssumption DEF TypeInv, TypeOK, Pages
    <2>4. CASE k = c /\ captured'[d][c] = page
        <3>1. new \in outbox'[d] /\ new.push.page >= captured'[d][c]
            BY <2>1, <2>2, <2>3, <2>4
        <3> QED BY <2>2, <2>4, <3>1 DEF Delivers
    <2>5. CASE captured'[d][c] = captured[d][c]
        BY <1>3, <2>1, <2>5
    <2>6. (k = c /\ captured'[d][c] = page) \/ captured'[d][c] = captured[d][c]
        BY <2>1, <2>3 DEF Larger
    <2> QED BY <2>4, <2>5, <2>6
<1>6. ASSUME NEW v \in Workers, ChunkAccepted(d, v) PROVE Delivers(d, c, captured[d][c])'
    <2>1. captured' = captured
        BY <1>6 DEF ChunkAccepted, ghostVars
    <2>2. ASSUME NEW r \in outbox[d], r \notin outbox'[d], r.ch = c
          PROVE  row'[c].page >= r.push.page
        BY <1>6, <2>2, AcceptedPageStored
    <2> QED BY <1>3, <2>1, <2>2
<1>7. ASSUME NEW k \in Chapters, CompactFold(d, k) PROVE Delivers(d, c, captured[d][c])'
    <2>1. captured' = captured
        BY <1>7 DEF CompactFold, ghostVars
    <2>2. outbox[d] \subseteq outbox'[d]
        BY <1>7, FoldCovers
    <2> QED BY <1>3, <2>1, <2>2
<1>8. ASSUME CompactClear(d) PROVE Delivers(d, c, captured[d][c])'
    <2>1. captured' = captured /\ row' = row
        BY <1>8 DEF CompactClear, ghostVars, serverVars
    <2>2. outbox'[d] = {r \in outbox[d] : r.id \notin compact[d].clear}
        BY <1>8 DEF CompactClear, Clear, TypeInv, TypeOK
    <2>3. ASSUME NEW r \in outbox[d], r \notin outbox'[d], r.ch = c
          PROVE  \/ row'[c].page >= r.push.page
                 \/ \E s \in outbox'[d] : s.ch = c /\ s.push.page >= r.push.page
        <3>1. Behind(d, r)
            BY <2>2, <2>3 DEF PagesFolded
        <3> QED BY <2>1, <2>2, <2>3, <3>1 DEF Behind
    <2> QED BY <1>3, <2>1, <2>3
<1>9. ASSUME NEW k \in Chapters, CompactDrop(d, k) PROVE Delivers(d, c, captured[d][c])'
    <2>1. /\ captured'[d] = [captured[d] EXCEPT ![k] = 0]
          /\ outbox'[d] = {r \in outbox[d] : r.id \notin Ids(compact[d].groups[k])}
        BY <1>9 DEF CompactDrop, Clear, TypeInv, TypeOK
    <2>2. captured[d] \in [Chapters -> 0..LastPage]
        BY DEF TypeInv, TypeOK
    <2>3. CASE k = c
        <3>1. captured'[d][c] = 0
            BY <2>1, <2>2, <2>3
        <3> QED BY <1>1, <3>1 DEF Delivers
    <2>4. CASE k # c
        <3>1. captured'[d][c] = captured[d][c]
            BY <2>1, <2>2, <2>4
        <3>2. ASSUME NEW r \in outbox[d], r \notin outbox'[d] PROVE r.ch = k
            <4>1. PICK o \in compact[d].groups[k] : o.id = r.id
                BY <2>1, <3>2 DEF Ids
            <4> QED BY <4>1 DEF RowsAgree, Agree, Known
        <3> QED BY <1>3, <2>4, <3>1, <3>2
    <2> QED BY <2>3, <2>4
<1> QED BY <1>4, <1>5, <1>6, <1>7, <1>8, <1>9, OutboxMoves

\* The inductive invariant of pushes that do not overlap.
ApartInv ==
    /\ TypeInv /\ RowsAgree /\ OneRequest /\ Requests /\ Loads
    /\ Numbered /\ Steady /\ PagesCarried /\ PagesFolded /\ PositionNeverLost

\* The initial state ...
LEMMA InitApart == Init => ApartInv
<1> SUFFICES ASSUME Init PROVE ApartInv
    OBVIOUS
<1>1. TypeInv /\ RowsAgree /\ OneRequest /\ Requests /\ Loads /\ Numbered
    BY InitInvariant, InitNumbered DEF IInv
<1>2. \A w \in Workers : handler[w].phase = "free" /\ handler[w].from = Nobody
    BY DEF Init, Free
<1>3. Steady /\ PagesCarried /\ PagesFolded
    BY <1>2, ConstantTypes DEF Steady, PagesCarried, PagesFolded, Init
<1>4. PositionNeverLost
    BY DEF Init, PositionNeverLost, Delivers, NoRows, NoRow
<1> QED BY <1>1, <1>3, <1>4 DEF ApartInv

\* ... and every step of a server whose pushes do not overlap.
LEMMA ApartStep == ApartInv /\ MergesApart /\ [Next]_vars => ApartInv'
BY TypeStep, AgreeStep, RequestsStep, LoadsStep, NumberedStep, SteadyStep, PagesCarriedStep,
   PagesFoldedStep, PositionStep DEF ApartInv

\* While no two pushes of a chapter overlap on the server, no position is lost:
\* the furthest page a phone saved of a chapter is stored or still queued,
\* through lost requests and answers, retries, compactions and kills.
THEOREM PositionIsNeverLostApart == Spec /\ []MergesApart => []PositionNeverLost
<1>1. ApartInv => PositionNeverLost
    BY DEF ApartInv
<1> QED BY <1>1, InitApart, ApartStep, PTL DEF Spec

\* Nor does the table move one back ...
THEOREM PositionNeverRewindsApart == Spec /\ []MergesApart => PositionNeverRewinds
<1>1. ApartInv /\ [Next]_vars => [\A c \in Chapters : row'[c].page >= row[c].page]_row
    BY RowsAdvance DEF ApartInv
<1> QED BY <1>1, InitApart, ApartStep, PTL DEF Spec, PositionNeverRewinds

\* ... or a completion's stamp.
THEOREM CompletionStampedOnceApart == Spec /\ []MergesApart => CompletionStampedOnce
<1>1. ApartInv /\ [Next]_vars =>
        [\A c \in Chapters : row[c].doneAt # NoStamp => row'[c].doneAt = row[c].doneAt]_row
    BY RowsAdvance DEF ApartInv
<1> QED BY <1>1, InitApart, ApartStep, PTL DEF Spec, CompletionStampedOnce

-----------------------------------------------------------------------------
(* Replays. *)

\* The household's clock is one the server believes: its phones run ahead by
\* no more than the skew allowed, and no stamp is older than the age allowed.
ClockBelieved == PhoneAhead <= ClockSkew /\ clock <= MaxClockAge

\* A row a phone knows was stamped, no later than its clock says now; ...
StampedKnown ==
    \A d \in Phones : \A q \in Known(d) :
        q.push.at # NoStamp /\ q.push.at <= clock + PhoneAhead

\* ... so was a push that carries a stamp, no later than its load ...
StampedItem(w, c) ==
    LET h == handler[w]
    IN  /\ h.items[c].at <= clock + PhoneAhead
        /\ h.items[c].at # NoStamp => h.items[c].num = c
        /\ h.phase = "loaded" => h.items[c].at <= h.now + PhoneAhead /\ h.now <= clock

StampedItems == \A w \in Workers, c \in Chapters : StampedItem(w, c)

\* ... and what was merged of a push is still there.
MergedStays ==
    \A c \in Chapters : \A p \in merged[c] :
        /\ p.at # NoStamp /\ p.num = c /\ row[c].num = c
        /\ row[c].readAt >= p.at /\ row[c].page >= p.page

\* What a merge leaves of the stamps and the number.
LEMMA MergedStamp ==
    ASSUME NEW c \in Nat \ {0}, NEW stored \in Row, stored.num \in {NoNumber, c},
           NEW p \in Push, p.num \in {NoNumber, c}, NEW now \in Nat
    PROVE  LET m == MergeProgress(stored, p, now)
           IN  /\ m.readAt >= stored.readAt
               /\ m.readAt >= BelievableStamp(p.at, now)
               /\ stored.num = c \/ p.num = c => m.num = c
<1>1. BelievableStamp(p.at, now) \in Nat /\ stored.readAt \in Nat
    BY BelievableType DEF Push, Row
<1>2. CASE stored = NoRow
    BY <1>1, <1>2 DEF MergeProgress, FirstRow, NoRow, NoStamp, NoNumber
<1>3. CASE stored # NoRow
    <2>1. MergeProgress(stored, p, now).readAt = Larger(stored.readAt, BelievableStamp(p.at, now))
        BY <1>3 DEF MergeProgress
    <2>2. stored.num = c \/ p.num = c => MergeProgress(stored, p, now).num = c
        BY <1>3 DEF MergeProgress, ResolveNumber, NoNumber
    <2> QED BY <1>1, <2>1, <2>2 DEF Larger
<1> QED BY <1>2, <1>3

\* A push that does not move the row and is stamped no later adds no time.
LEMMA ReplayedTime ==
    ASSUME NEW c \in Nat \ {0}, NEW stored \in Row, stored.num = c,
           NEW p \in Push, p.num = c, NEW now \in Nat,
           BelievableStamp(p.at, now) = p.at,
           stored.readAt >= p.at, stored.page >= p.page
    PROVE  MergeProgress(stored, p, now).secs = stored.secs
<1>1. stored # NoRow
    BY DEF NoRow, NoNumber
<1>2. ~Ahead(stored, p)
    BY DEF Ahead, ResolveNumber, NoNumber, Row, Push
<1>3. CreditedSeconds(stored, p, p.at) = 0
    BY <1>1, <1>2 DEF CreditedSeconds, Row, Push
<1> QED BY <1>1, <1>3 DEF MergeProgress, Row

\* What a commit writes over the row it has loaded is the merge.
LEMMA WrittenIsMerged ==
    ASSUME NEW r, NEW p, NEW now
    PROVE  LET m == MergeProgress(r, p, now)
           IN  /\ Written(r, r, p, now).page = m.page
               /\ Written(r, r, p, now).num = m.num
               /\ Written(r, r, p, now).readAt = m.readAt
               /\ Written(r, r, p, now).secs = m.secs
<1> DEFINE m == MergeProgress(r, p, now)
<1>1. CASE r = NoRow
    BY <1>1 DEF Written
<1>2. CASE r # NoRow
    <2>1. Written(r, r, p, now) = ChangedColumns(r, r, m)
        BY <1>2 DEF Written
    <2> HIDE DEF m
    <2>2. /\ ChangedColumns(r, r, m).page = m.page /\ ChangedColumns(r, r, m).num = m.num
          /\ ChangedColumns(r, r, m).readAt = m.readAt /\ ChangedColumns(r, r, m).secs = m.secs
        BY DEF ChangedColumns
    <2> QED BY <2>1, <2>2 DEF m
<1> QED BY <1>1, <1>2

\* The clock does not go back.
LEMMA ClockStep ==
    ASSUME TypeInv, [Next]_vars
    PROVE  clock \in Nat /\ clock' \in Nat /\ clock' >= clock
<1>1. clock \in Nat
    BY DEF TypeInv, TypeOK
<1>2. ASSUME NEW d \in Phones, PhoneNext(d) PROVE clock' \in {clock, clock + 1}
    BY <1>2 DEF PhoneNext, Save, DrainStart, PostChunk, ChunkAccepted, ChunkTooLarge, GiveUp,
                Crash, CompactStart, CompactFold, CompactDrop, CompactClear, boundVars
<1>3. ASSUME NEW w \in Workers, ServerNext(w) PROVE clock' \in {clock, clock + 1}
    BY <1>3 DEF ServerNext, WebPush, Refuse, Load, Commit, RequestFails, boundVars
<1>4. clock' \in {clock, clock + 1}
    BY <1>2, <1>3 DEF Next, vars, boundVars
<1> QED BY <1>1, <1>4

\* Every step keeps the stamps of the rows, ...
LEMMA StampedKnownStep ==
    ASSUME TypeInv, StampedKnown, [Next]_vars
    PROVE  StampedKnown'
<1> SUFFICES ASSUME NEW d \in Phones, NEW q \in Known(d)'
             PROVE  q.push.at # NoStamp /\ q.push.at <= clock' + PhoneAhead
    BY DEF StampedKnown
<1>1. clock \in Nat \ {0} /\ clock' \in Nat /\ clock' >= clock /\ PhoneAhead \in Nat
    BY ClockStep, SyncAssumption DEF TypeInv, TypeOK
<1>2. ASSUME NEW r \in Known(d), q.push.at = r.push.at
      PROVE  q.push.at # NoStamp /\ q.push.at <= clock' + PhoneAhead
    <2>1. /\ outbox[d] \in SUBSET OutboxRow
          /\ \A c \in Chapters : /\ drain[d].groups[c] \in SUBSET OutboxRow
                                 /\ compact[d].groups[c] \in SUBSET OutboxRow
        BY DEF TypeInv, TypeOK, Group
    <2>2. r \in OutboxRow
        BY <2>1 DEF Known
    <2>3. r.push.at \in Nat
        BY <2>2 DEF OutboxRow, Push
    <2> QED BY <1>1, <1>2, <2>3 DEF StampedKnown
<1>3. CASE SavedRow(d, q)
    <2>1. q.push.at = clock + PhoneAhead
        BY <1>3 DEF SavedRow, PushAt
    <2> QED BY <1>1, <2>1 DEF NoStamp
<1>4. CASE FoldedRow(d, q)
    <2>1. PICK c \in Chapters : /\ compact[d].groups[c] # {}
                                /\ q.ch = c /\ q.push = Collapse(compact[d].groups[c])
        BY <1>4 DEF FoldedRow
    <2> DEFINE old == compact[d].groups[c]
    <2>2. old \in SUBSET OutboxRow /\ IsFiniteSet(old) /\ old \subseteq Known(d)
        BY DEF TypeInv, TypeOK, FiniteQueues, Group, Known
    <2>3. \E r \in old : Collapse(old).at = r.push.at
        BY <2>1, <2>2, CollapsePage
    <2> QED BY <1>2, <2>1, <2>2, <2>3
<1> QED BY <1>2, <1>3, <1>4, NewRows

\* ... those of the pushes on their way, ...
LEMMA StampedItemsStep ==
    ASSUME TypeInv, RowsAgree, Numbered, StampedKnown, StampedItems, [Next]_vars
    PROVE  StampedItems'
<1> SUFFICES ASSUME NEW w \in Workers, NEW c \in Chapters PROVE StampedItem(w, c)'
    BY DEF StampedItems
<1>1. clock \in Nat /\ clock' \in Nat /\ clock' >= clock /\ PhoneAhead \in Nat
    BY ClockStep, SyncAssumption
<1>2. handler \in [Workers -> Handler] /\ handler[w] \in Handler
    BY DEF TypeInv, TypeOK
<1>3. handler[w].items[c].at \in Nat /\ handler[w].now \in Nat
    BY <1>2 DEF Handler, Push, NoPush, NoStamp
<1>4. StampedItem(w, c)
    BY DEF StampedItems
<1>5. ASSUME handler'[w].items[c].at = NoStamp, handler'[w].phase # "loaded"
      PROVE  StampedItem(w, c)'
    <2>1. NoStamp = 0
        BY DEF NoStamp
    <2>2. clock' \in Nat /\ PhoneAhead \in Nat
        BY <1>1
    <2>3. \A a, b \in Nat : 0 <= a + b
        OBVIOUS
    <2>4. 0 <= clock' + PhoneAhead
        BY <2>2, <2>3
    <2> QED BY <1>5, <2>1, <2>4 DEF StampedItem
<1>6. NoPush.at = NoStamp /\ NoItems[c] = NoPush /\ Free.items = NoItems /\ Free.phase = "free"
    BY DEF NoPush, NoItems, Free
<1>7. CASE /\ handler'[w].phase = handler[w].phase /\ handler'[w].items = handler[w].items
           /\ handler'[w].now = handler[w].now
    <2>1. /\ handler'[w].items[c].at = handler[w].items[c].at
          /\ handler'[w].items[c].num = handler[w].items[c].num
        BY <1>7
    <2>2. handler[w].items[c].at <= clock + PhoneAhead
        BY <1>4 DEF StampedItem
    <2>3. handler[w].items[c].at <= clock' + PhoneAhead
        BY <1>1, <1>3, <2>2
    <2>4. handler[w].now <= clock => handler[w].now <= clock'
        BY <1>1, <1>3
    <2> QED BY <1>4, <1>7, <2>1, <2>3, <2>4 DEF StampedItem
<1>8. CASE handler'[w] = Free
    BY <1>5, <1>6, <1>8
<1>9. CASE \E d \in Phones : Posts(d, w)
    <2>1. PICK d \in Phones : Posts(d, w)
        BY <1>9
    <2>2. PICK chunk \in SUBSET Chapters : PostChunk(d, w, chunk)
        BY <2>1 DEF Posts
    <2> DEFINE items == [k \in Chapters |->
                            IF k \in chunk THEN Collapse(drain[d].groups[k]) ELSE NoPush]
               old == drain[d].groups[c]
    <2>3. handler'[w] = Received(d, items)
        BY <1>2, <2>2 DEF PostChunk
    <2>4. /\ handler'[w].phase = "received"
          /\ handler'[w].items[c] = IF c \in chunk THEN Collapse(old) ELSE NoPush
        BY <2>3, ReceivedFields
    <2>5. CASE c \in chunk
        <3>1. old # {} /\ old \in SUBSET OutboxRow /\ IsFiniteSet(old) /\ old \subseteq Known(d)
            BY <2>2, <2>5 DEF PostChunk, ToDeliver, TypeInv, TypeOK, FiniteQueues, Group, Known
        <3>2. PICK r \in old : Collapse(old).at = r.push.at
            BY <3>1, CollapsePage
        <3>3. PICK s \in old : Collapse(old).num = s.push.num
            BY <3>1, CollapsePage
        <3>4. s.push.num = c
            BY <3>1 DEF RowsAgree, Agree, Numbered
        <3>5. r.push.at <= clock + PhoneAhead /\ r.push.at \in Nat
            BY <3>1 DEF StampedKnown, OutboxRow, Push
        <3>6. /\ handler'[w].items[c].at = r.push.at
              /\ handler'[w].items[c].num = c
            BY <2>4, <2>5, <3>2, <3>3, <3>4
        <3> QED BY <1>1, <2>4, <3>5, <3>6 DEF StampedItem
    <2>6. CASE c \notin chunk
        BY <1>5, <1>6, <2>4, <2>6
    <2> QED BY <2>5, <2>6
<1>10. CASE WebPushes(w)
    <2>1. PICK k \in Chapters, page \in Pages : \E num \in {NoNumber, k} : WebPush(w, k, page, num)
        BY <1>10 DEF WebPushes
    <2>2. PICK num \in {NoNumber, k} : WebPush(w, k, page, num)
        BY <2>1
    <2> DEFINE push == PushAt(k, page, num, NoStamp)
    <2>3. handler'[w] = Received(Nobody, [NoItems EXCEPT ![k] = push])
        BY <1>2, <2>2 DEF WebPush
    <2>4. push.at = NoStamp
        BY DEF PushAt
    <2> HIDE DEF push
    <2>5. /\ handler'[w].items[c] = IF c = k THEN push ELSE NoPush
          /\ handler'[w].phase = "received"
        BY <2>3, ReceivedFields DEF NoItems
    <2> QED BY <1>5, <1>6, <2>4, <2>5
<1>11. CASE Load(w)
    <2>1. /\ handler'[w].items = handler[w].items
          /\ handler'[w].now = clock /\ clock' = clock
        BY <1>2, <1>11 DEF Load, Handler, boundVars
    <2> QED BY <1>1, <1>4, <2>1 DEF StampedItem
<1>12. CASE Refuse(w)
    <2>1. \/ handler'[w] = Free
          \/ handler'[w].phase = "replied" /\ handler'[w].items = handler[w].items
        BY <1>2, <1>12 DEF Refuse, Handler
    <2>2. ASSUME handler'[w].phase = "replied", handler'[w].items = handler[w].items
          PROVE  StampedItem(w, c)'
        BY <1>1, <1>3, <1>4, <2>2 DEF StampedItem
    <2> QED BY <1>8, <2>1, <2>2
<1>13. CASE Commit(w)
    <2>1. /\ handler'[w].items = NoItems
          /\ handler'[w].phase \in {"free", "replied"}
        <3>1. \A from : /\ [Free EXCEPT !.phase = "replied", !.from = from].items = NoItems
                        /\ [Free EXCEPT !.phase = "replied", !.from = from].phase = "replied"
            BY DEF Free
        <3>2. \/ handler'[w] = Free
              \/ handler'[w] = [Free EXCEPT !.phase = "replied", !.from = handler[w].from]
            BY <1>2, <1>13 DEF Commit
        <3> QED BY <1>6, <3>1, <3>2
    <2> QED BY <1>5, <1>6, <2>1
<1> QED BY <1>7, <1>8, <1>9, <1>10, <1>11, <1>12, <1>13, ThreadMoves

\* A stamped push is believed as it is.
LEMMA BelievedItem ==
    ASSUME TypeInv, ClockBelieved, StampedItems, NEW w \in Workers, Commit(w),
           NEW c \in Parsed(handler[w]), handler[w].items[c].at # NoStamp
    PROVE  BelievableStamp(handler[w].items[c].at, handler[w].now) = handler[w].items[c].at
<1>1. /\ handler[w].phase = "loaded" /\ c \in Chapters
      /\ handler[w].items[c].at \in Nat /\ handler[w].now \in Nat
    BY CommitType DEF Commit, TypeInv, Parsed, Sent, Push
<1>2. /\ handler[w].items[c].at <= handler[w].now + PhoneAhead
      /\ handler[w].now <= clock
    BY <1>1 DEF StampedItems, StampedItem
<1>3. clock \in Nat /\ PhoneAhead \in Nat /\ ClockSkew \in Nat /\ MaxClockAge \in Nat
    BY SyncAssumption, MergeAssumption DEF TypeInv, TypeOK
<1> QED BY <1>1, <1>2, <1>3 DEF ClockBelieved, BelievableStamp, Smaller

\* ... and what was merged.
LEMMA MergedStaysStep ==
    ASSUME TypeInv, Numbered, Steady, ClockBelieved, StampedItems, MergedStays, [Next]_vars
    PROVE  MergedStays'
<1> SUFFICES ASSUME NEW c \in Chapters, NEW p \in merged'[c]
             PROVE  /\ p.at # NoStamp /\ p.num = c /\ row'[c].num = c
                    /\ row'[c].readAt >= p.at /\ row'[c].page >= p.page
    BY DEF MergedStays
<1>1. ASSUME NEW w \in Workers, Commit(w), c \in Parsed(handler[w])
      PROVE  /\ p.at # NoStamp /\ p.num = c /\ row'[c].num = c
             /\ row'[c].readAt >= p.at /\ row'[c].page >= p.page
    <2> DEFINE item == handler[w].items[c]
    <2>1. /\ item \in Push /\ handler[w].now \in Nat /\ row[c] \in Row
          /\ handler[w].phase = "loaded" /\ c \in Nat \ {0}
        BY <1>1, CommitType, SyncAssumption DEF TypeInv, Commit
    <2>2. row'[c] = Written(row[c], row[c], item, handler[w].now)
        BY <1>1, <2>1 DEF Commit, Steady
    <2>3. row[c].num \in {NoNumber, c} /\ item.num \in {NoNumber, c}
        BY DEF Numbered
    <2> DEFINE m == MergeProgress(row[c], item, handler[w].now)
    <2>4. /\ m.page = Larger(row[c].page, item.page)
          /\ m.readAt >= row[c].readAt
          /\ m.readAt >= BelievableStamp(item.at, handler[w].now)
          /\ row[c].num = c \/ item.num = c => m.num = c
        BY <2>1, <2>3, MergedPage, MergedStamp
    <2>5. row'[c].page = m.page /\ row'[c].num = m.num /\ row'[c].readAt = m.readAt
        BY <2>2, WrittenIsMerged
    <2>6. row'[c].readAt \in Nat /\ row[c].readAt \in Nat /\ row[c].page \in Nat
        BY <2>1, TypeStep DEF TypeInv, TypeOK, Row
    <2>7. CASE p \in merged[c]
        <3>1. /\ p.at # NoStamp /\ p.num = c /\ row[c].num = c
              /\ row[c].readAt >= p.at /\ row[c].page >= p.page
            BY <2>7 DEF MergedStays
        <3>2. p.at \in Nat /\ p.page \in Nat /\ item.page \in Nat
            BY <2>1, <2>7 DEF TypeInv, TypeOK, Push
        <3> HIDE DEF m, item
        <3> QED BY <2>4, <2>5, <2>6, <3>1, <3>2 DEF Larger
    <2>8. CASE p = item /\ item.at # NoStamp
        <3>1. BelievableStamp(item.at, handler[w].now) = item.at
            BY <1>1, <2>8, BelievedItem
        <3>2. item.num = c
            BY <2>8 DEF StampedItems, StampedItem
        <3>3. item.page \in Nat
            BY <2>1 DEF Push
        <3> HIDE DEF m, item
        <3> QED BY <2>4, <2>5, <2>6, <2>8, <3>1, <3>2, <3>3 DEF Larger
    <2>9. merged'[c] \subseteq merged[c] \cup (IF item.at # NoStamp THEN {item} ELSE {})
        BY <1>1 DEF Commit
    <2> QED BY <2>7, <2>8, <2>9
<1>2. ASSUME row'[c] = row[c], merged'[c] = merged[c]
      PROVE  /\ p.at # NoStamp /\ p.num = c /\ row'[c].num = c
             /\ row'[c].readAt >= p.at /\ row'[c].page >= p.page
    BY <1>2 DEF MergedStays
<1>3. ASSUME NEW w \in Workers, Commit(w), c \notin Parsed(handler[w])
      PROVE  row'[c] = row[c] /\ merged'[c] = merged[c]
    BY <1>3 DEF Commit
<1>4. ASSUME NEW d \in Phones, PhoneNext(d) PROVE row' = row /\ merged' = merged
    BY <1>4 DEF PhoneNext, Save, DrainStart, PostChunk, ChunkAccepted, ChunkTooLarge, GiveUp,
                Crash, CompactStart, CompactFold, CompactDrop, CompactClear, serverVars
<1>5. ASSUME NEW w \in Workers, ServerNext(w)
      PROVE  Commit(w) \/ (row' = row /\ merged' = merged)
    BY <1>5 DEF ServerNext, WebPush, Refuse, Load, RequestFails
<1> QED BY <1>1, <1>2, <1>3, <1>4, <1>5 DEF Next, vars, serverVars

\* The inductive invariant of such pushes under such a clock.
ReplayInv == ApartInv /\ StampedKnown /\ StampedItems /\ MergedStays

LEMMA InitReplay == Init => ReplayInv
<1> SUFFICES ASSUME Init PROVE StampedKnown /\ StampedItems /\ MergedStays
    BY InitApart DEF ReplayInv
<1>1. \A d \in Phones : Known(d) = {}
    BY ConstantTypes DEF Init, Known
<1>2. \A c \in Chapters : Free.items[c].at = NoStamp /\ Free.phase = "free"
    BY DEF Free, NoItems, NoPush
<1>3. clock = 1 /\ PhoneAhead \in Nat /\ NoStamp = 0
    BY SyncAssumption DEF Init, NoStamp
<1>4. StampedItems
    BY <1>2, <1>3 DEF Init, StampedItems, StampedItem
<1> QED BY <1>1, <1>4 DEF Init, StampedKnown, MergedStays

LEMMA ReplayStep == ReplayInv /\ MergesApart /\ ClockBelieved /\ [Next]_vars => ReplayInv'
BY ApartStep, StampedKnownStep, StampedItemsStep, MergedStaysStep DEF ApartInv, ReplayInv

\* A queued push that is committed again, unchanged, adds no time.
LEMMA ReplayAddsNoTime ==
    ASSUME ReplayInv, ClockBelieved, NEW w \in Workers, NEW c \in Chapters, Commit(w),
           c \in Parsed(handler[w]), handler[w].items[c] \in merged[c]
    PROVE  row'[c].secs = row[c].secs
<1> DEFINE item == handler[w].items[c]
<1> USE DEF ReplayInv
<1>1. /\ item \in Push /\ handler[w].now \in Nat /\ row[c] \in Row
      /\ handler[w].phase = "loaded" /\ c \in Nat \ {0}
    BY CommitType, SyncAssumption DEF ApartInv, TypeInv, Commit
<1>2. row'[c] = Written(row[c], row[c], item, handler[w].now)
    BY <1>1 DEF Commit, ApartInv, Steady
<1>3. /\ item.at # NoStamp /\ item.num = c /\ row[c].num = c
      /\ row[c].readAt >= item.at /\ row[c].page >= item.page
    BY DEF MergedStays
<1>4. BelievableStamp(item.at, handler[w].now) = item.at
    BY <1>3, BelievedItem DEF ApartInv
<1>5. MergeProgress(row[c], item, handler[w].now).secs = row[c].secs
    BY <1>1, <1>3, <1>4, ReplayedTime
<1> QED BY <1>2, <1>5, WrittenIsMerged

\* While no two pushes of a chapter overlap and the server believes the
\* household's clock, a queued push that is delivered a second time, unchanged,
\* adds no time.
THEOREM ReplayCreditsNothingApart ==
    Spec /\ [](MergesApart /\ ClockBelieved) => ReplayCreditsNothing
<1> DEFINE Apart == MergesApart /\ ClockBelieved
<1>1. ReplayInv /\ Apart /\ [Next]_vars => ReplayInv'
    BY ReplayStep
<1>2. ReplayInv /\ Apart /\ [Next]_vars =>
        [\A w \in Workers, c \in Chapters :
            Commit(w) /\ c \in Parsed(handler[w]) /\ handler[w].items[c] \in merged[c]
                => row'[c].secs = row[c].secs]_vars
    BY ReplayAddsNoTime
<1> HIDE DEF Apart
<1>3. Spec /\ []Apart => ReplayCreditsNothing
    BY <1>1, <1>2, InitReplay, PTL DEF Spec, ReplayCreditsNothing
<1> QED BY <1>3 DEF Apart
=============================================================================

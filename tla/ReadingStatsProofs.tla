------------------------- MODULE ReadingStatsProofs -------------------------
(***************************************************************************)
(* Proofs about the statistics' roll-up, for any requests, days, sessions, *)
(* repair window and locks: its types, that the streaks count what they    *)
(* say, and that a request that no day's change reaches answers with the   *)
(* days the sessions tell and finds a rebuild sufficient.                  *)
(***************************************************************************)
EXTENDS ReadingStats, FiniteSetTheorems, TLAPS

Counts == [Days -> 0..MaxSessions]

\* Every session of the instance is recorded or still to come.
SessionsAddUp == Total(readOn, Days) + unread = MaxSessions

\* A row never counts a session that is not there, and no row is of a day that
\* has not closed.
RowsAreCounts ==
    \A d \in Days : dayStats[d] <= readOn[d] /\ (dayStats[d] > 0 => d < clockDay)

\* No request is of a day to come.
AskedByNow == \A q \in StatReaders : statRead[q].now <= clockDay

\* A request that rolls has a day to roll from, and a plan ends with the rebuild.
PlanEnds(x) ==
    /\ x.phase = "rolling" => x.planned /\ x.plan # <<>>
    /\ x.plan # <<>> => x.plan[Len(x.plan)] = 0

BooksInv ==
    /\ StatsTypeOK /\ SessionsAddUp /\ RowsAreCounts /\ AskedByNow
    /\ \A q \in StatReaders : PlanEnds(statRead[q])

-----------------------------------------------------------------------------
\* A request that no day's change has reached is of today.
WithinItsDay ==
    \A q \in StatReaders :
        UnderWay(statRead[q]) /\ ~statRead[q].crossed => statRead[q].now = clockDay

\* A request that a day's change reaches; a request that anything overtakes.
Cross(x) == [x EXCEPT !.crossed = @ \/ UnderWay(x)]
Overtaken(x, y) ==
    \E b, c \in BOOLEAN : /\ y = [x EXCEPT !.disturbed = b, !.crossed = c]
                         /\ (x.disturbed => b) /\ (x.crossed => c)

\* A repair by a request that has outlasted its day.
LateRoll(q) == RollClosedDays(q) /\ statRead[q].now # clockDay

\* A request on its way to tell the sessions, with the counts as they are: it
\* misses no day that was active when it asked, and adds none.
Tells(x, on, rows) ==
    /\ x.before \subseteq {d \in Days : on[d] > 0}
    /\ x.phase = "comparing" => x.rolled <= Total(rows, Days)
    /\ x.phase = "closed" => \A d \in x.before : d < x.now => rows[d] > 0
    /\ x.phase = "open" => /\ x.closed \subseteq {d \in Days : on[d] > 0}
                           /\ \A d \in x.before : d < x.now => d \in x.closed
    /\ x.phase = "answered" => /\ x.before \subseteq x.answer
                               /\ x.answer \subseteq {d \in Days : on[d] > 0}

\* The rows are the sessions of the closed days.
Level(on, rows, now) == \A d \in Days : rows[d] = IF d < now THEN on[d] ELSE 0

\* A request that nothing has overtaken finds the roll-up level after its
\* rebuild.
Suffices(x, on, rows) ==
    ~x.disturbed =>
        /\ x.phase \in {"counting", "comparing"} /\ x.planned /\ x.plan = <<>>
              => Level(on, rows, x.now)
        /\ x.phase = "comparing" /\ x.planned /\ x.plan = <<>> => x.rolled = Total(rows, Days)
        /\ x.phase # "shortOfOne"

ReadsInv ==
    /\ WithinItsDay
    /\ \A q \in StatReaders :
         ~statRead[q].crossed => /\ Tells(statRead[q], readOn, dayStats)
                                 /\ Suffices(statRead[q], readOn, dayStats)

-----------------------------------------------------------------------------
(* Counting. *)

\* What is counted: the first sessions of each day.
LEMMA CountedPairs ==
    ASSUME NEW counts, NEW days, NEW d, NEW i
    PROVE  <<d, i>> \in Counted(counts, days) <=> d \in days /\ i \in 1..counts[d]
BY DEF Counted

\* No day counts more than the instance has.
LEMMA CountedInside ==
    ASSUME NEW counts \in Counts, NEW days \in SUBSET Days
    PROVE  Counted(counts, days) \subseteq Days \X (1..MaxSessions)
<1> SUFFICES ASSUME NEW d \in days, NEW i \in 1..counts[d] PROVE i \in 1..MaxSessions
    BY DEF Counted
<1>1. counts[d] \in 0..MaxSessions
    BY DEF Counts
<1> QED BY <1>1, StatsAssumption

\* So there are finitely many, and a number of them.
LEMMA CountedFinite ==
    ASSUME NEW counts \in Counts, NEW days \in SUBSET Days
    PROVE  IsFiniteSet(Counted(counts, days)) /\ Total(counts, days) \in Nat
<1>1. IsFiniteSet(0..LastDay) /\ IsFiniteSet(1..MaxSessions)
    BY FS_Interval, StatsAssumption
<1>2. IsFiniteSet(Days \X (1..MaxSessions))
    BY <1>1, FS_Product DEF Days
<1>3. IsFiniteSet(Counted(counts, days))
    BY <1>2, CountedInside, FS_Subset
<1> QED BY <1>3, FS_CardinalityType DEF Total

\* Counts that grow day by day grow together.
LEMMA TotalGrows ==
    ASSUME NEW a \in Counts, NEW b \in Counts, \A d \in Days : a[d] <= b[d]
    PROVE  Total(a, Days) <= Total(b, Days)
<1>1. \A d \in Days : a[d] \in Nat /\ b[d] \in Nat
    BY StatsAssumption DEF Counts
<1>2. Counted(a, Days) \subseteq Counted(b, Days)
    <2> SUFFICES ASSUME NEW d \in Days, NEW i \in 1..a[d] PROVE i \in 1..b[d]
        BY DEF Counted
    <2> QED BY <1>1
<1>3. IsFiniteSet(Counted(b, Days))
    BY CountedFinite
<1> QED BY <1>2, <1>3, FS_Subset DEF Total

\* A roll-up that counts no less than all the sessions of the closed days has
\* every one of them.
LEMMA FullCountIsLevel ==
    ASSUME NEW on \in Counts, NEW rows \in Counts, NEW now \in Days,
           \A d \in Days : rows[d] <= on[d] /\ (rows[d] > 0 => d < now),
           Total(on, {d \in Days : d < now}) <= Total(rows, Days)
    PROVE  Level(on, rows, now)
<1> DEFINE closed == {d \in Days : d < now}
<1>1. \A d \in Days : on[d] \in Nat /\ rows[d] \in Nat /\ d \in Nat
    BY StatsAssumption DEF Counts, Days
<1>2. Counted(rows, Days) \subseteq Counted(on, closed)
    <2> SUFFICES ASSUME NEW d \in Days, NEW i \in 1..rows[d]
                 PROVE  d \in closed /\ i \in 1..on[d]
        BY DEF Counted
    <2> QED BY <1>1
<1>3. closed \in SUBSET Days
    OBVIOUS
<1>4. /\ IsFiniteSet(Counted(on, closed))
      /\ Total(on, closed) \in Nat /\ Total(rows, Days) \in Nat
    BY <1>3, CountedFinite
<1>5. Counted(rows, Days) = Counted(on, closed)
    <2>1. Total(rows, Days) <= Total(on, closed)
        BY <1>2, <1>4, FS_Subset DEF Total
    <2>2. Total(rows, Days) = Total(on, closed)
        BY <2>1, <1>4
    <2> QED BY <2>2, <1>2, <1>4, FS_Subset DEF Total
<1>6. ASSUME NEW d \in Days, d < now PROVE rows[d] = on[d]
    <2>1. CASE on[d] = 0
        BY <2>1, <1>1
    <2>2. CASE on[d] > 0
        <3>1. <<d, on[d]>> \in Counted(on, closed)
            BY <2>2, <1>1, <1>6, CountedPairs
        <3>2. on[d] \in 1..rows[d]
            BY <3>1, <1>5, CountedPairs
        <3> QED BY <3>2, <1>1
    <2> QED BY <2>1, <2>2, <1>1
<1>7. ASSUME NEW d \in Days, ~(d < now) PROVE rows[d] = 0
    BY <1>7, <1>1
<1> QED BY <1>6, <1>7 DEF Level

\* ... and one that is level counts exactly them.
LEMMA LevelCounts ==
    ASSUME NEW on \in Counts, NEW rows \in Counts, NEW now \in Days, Level(on, rows, now)
    PROVE  Total(rows, Days) = Total(on, {d \in Days : d < now})
<1>1. \A d \in Days : on[d] \in Nat /\ rows[d] \in Nat
    BY StatsAssumption DEF Counts
<1>2. ASSUME NEW d, NEW i
      PROVE  d \in Days /\ i \in 1..rows[d] <=> d \in {k \in Days : k < now} /\ i \in 1..on[d]
    <2>1. CASE d \in Days /\ d < now
        BY <2>1 DEF Level
    <2>2. CASE d \in Days /\ ~(d < now)
        BY <2>2 DEF Level
    <2> QED BY <2>1, <2>2
<1>3. Counted(rows, Days) = Counted(on, {d \in Days : d < now})
    <2> DEFINE closed == {k \in Days : k < now}
    <2>1. ASSUME NEW x \in Counted(rows, Days) PROVE x \in Counted(on, closed)
        <3>1. PICK d \in Days : \E i \in 1..rows[d] : x = <<d, i>>
            BY DEF Counted
        <3>2. PICK i \in 1..rows[d] : x = <<d, i>>
            BY <3>1
        <3>3. d \in closed /\ i \in 1..on[d]
            BY <1>2
        <3> HIDE DEF closed
        <3> QED BY <3>2, <3>3, CountedPairs
    <2>2. ASSUME NEW x \in Counted(on, closed) PROVE x \in Counted(rows, Days)
        <3>1. PICK d \in closed : \E i \in 1..on[d] : x = <<d, i>>
            BY DEF Counted
        <3>2. PICK i \in 1..on[d] : x = <<d, i>>
            BY <3>1
        <3>3. d \in Days /\ i \in 1..rows[d]
            BY <1>2
        <3> QED BY <3>2, <3>3, CountedPairs
    <2> QED BY <2>1, <2>2
<1> QED BY <1>3 DEF Total

\* One more session is one more.
LEMMA OneMore ==
    ASSUME NEW a \in Counts, NEW b \in Counts, NEW d \in Days,
           b = [a EXCEPT ![d] = @ + 1]
    PROVE  Total(b, Days) = Total(a, Days) + 1
<1> DEFINE last == <<d, a[d] + 1>>
<1>1. \A k \in Days : a[k] \in Nat
    BY StatsAssumption DEF Counts
<1>2. b[d] = a[d] + 1 /\ \A k \in Days \ {d} : b[k] = a[k]
    BY DEF Counts
<1>3. ASSUME NEW k \in Days, NEW i
      PROVE  i \in 1..b[k] <=> i \in 1..a[k] \/ (k = d /\ i = a[d] + 1)
    BY <1>1, <1>2
<1>4. Counted(b, Days) = Counted(a, Days) \cup {last}
    <2>1. ASSUME NEW x \in Counted(b, Days) PROVE x \in Counted(a, Days) \cup {last}
        <3>1. PICK k \in Days : \E i \in 1..b[k] : x = <<k, i>>
            BY DEF Counted
        <3> QED BY <3>1, <1>3, CountedPairs
    <2>2. Counted(a, Days) \subseteq Counted(b, Days)
        BY <1>3 DEF Counted
    <2>3. last \in Counted(b, Days)
        BY <1>3, CountedPairs
    <2> QED BY <2>1, <2>2, <2>3
<1>5. last \notin Counted(a, Days)
    BY <1>1, CountedPairs
<1>6. IsFiniteSet(Counted(a, Days))
    BY CountedFinite
<1> QED BY <1>4, <1>5, <1>6, FS_AddElement DEF Total

\* A day has no more sessions than all days together.
LEMMA DayWithinTotal ==
    ASSUME NEW a \in Counts, NEW d \in Days
    PROVE  a[d] <= Total(a, Days)
<1>1. a[d] \in Nat
    BY StatsAssumption DEF Counts
<1> DEFINE S == 1..a[d]
           f == [i \in S |-> <<d, i>>]
<1>2. f \in Injection(S, Counted(a, Days))
    <2>1. f \in [S -> Counted(a, Days)]
        BY CountedPairs
    <2> QED BY <2>1 DEF Injection, IsInjective
<1>3. Cardinality(S) <= Cardinality(Counted(a, Days))
    <2> HIDE DEF S, f
    <2> QED BY <1>2, CountedFinite, FS_Injection
<1>4. Cardinality(S) = a[d]
    BY <1>1, FS_Interval
<1> QED BY <1>3, <1>4 DEF Total
-----------------------------------------------------------------------------
(* The roll-up's books. *)

\* A nonempty set of numbers has a least one.
LEMMA LeastOf ==
    ASSUME NEW T \in SUBSET Nat, T # {}
    PROVE  Min(T) \in T /\ \A n \in T : Min(T) <= n
<1>1. PICK m \in T : \A n \in T : m <= n
    <2>1. PICK m \in T : \A n \in T : <<n, m>> \notin OpToRel(<, Nat)
        BY NatLessThanWellFounded, WFMin
    <2>2. ASSUME NEW n \in T PROVE ~(n < m)
        BY <2>1 DEF OpToRel
    <2> QED BY <2>2
<1> QED BY <1>1 DEF Min

\* A nonempty set of days has a last one.
LEMMA LastOfDays ==
    ASSUME NEW S \in SUBSET Days, S # {}
    PROVE  Max(S) \in S /\ \A d \in S : Max(S) >= d
<1> DEFINE T == {n \in Nat : LastDay - n \in S}
<1>1. \A d \in S : d \in 0..LastDay
    BY DEF Days
<1>2. PICK d \in S : TRUE
    OBVIOUS
<1>3. LastDay - d \in T
    BY <1>1, <1>2, StatsAssumption
<1>4. T \in SUBSET Nat /\ T # {}
    BY <1>3
<1>5. PICK m \in T : \A n \in T : m <= n
    <2> HIDE DEF T
    <2> QED BY <1>4, LeastOf
<1>6. \A k \in S : LastDay - m >= k
    <2> TAKE k \in S
    <2>1. LastDay - k \in T
        BY <1>1, StatsAssumption
    <2>2. m <= LastDay - k
        BY <1>5, <2>1
    <2> QED BY <2>2, <1>1, StatsAssumption
<1>7. \E x \in S : \A y \in S : x >= y
    BY <1>5, <1>6
<1> QED BY <1>7 DEF Max

\* A repair plan is one of days, and ends with the rebuild.
LEMMA PlanType ==
    ASSUME dayStats \in Counts, NEW now \in Days
    PROVE  /\ RepairPlan(now) \in Seq(Days) /\ RepairPlan(now) # <<>>
           /\ RepairPlan(now)[Len(RepairPlan(now))] = 0
<1>1. LastRolledDay \in Days \cup {NoDay}
    BY LastOfDays DEF LastRolledDay
<1> DEFINE last == LastRolledDay
           window == IF now < RepairDays THEN 0 ELSE now - RepairDays
<1>2. window \in Days
    BY StatsAssumption DEF Days
<1>3. 0 \in Days
    BY StatsAssumption DEF Days
<1>4. last # NoDay /\ ~(last >= now - 1) => last + 1 \in Days
    BY <1>1, StatsAssumption DEF Days
<1>5. RepairPlan(now) = IF last = NoDay THEN <<0>>
                        ELSE IF last >= now - 1 THEN <<window, 0>>
                        ELSE <<last + 1, window, 0>>
    BY DEF RepairPlan
<1> HIDE DEF last, window
<1> QED BY <1>2, <1>3, <1>4, <1>5

\* Rolling re-derives rows from sessions, and no day that is still open.
LEMMA RolledRows ==
    ASSUME StatsTypeOK, RowsAreCounts, NEW since \in Days, NEW now \in Days, now <= clockDay
    PROVE  /\ Rolled(since, now) \in Counts
           /\ \A d \in Days : /\ Rolled(since, now)[d] <= readOn[d]
                              /\ Rolled(since, now)[d] > 0 => d < clockDay
<1>1. readOn \in Counts /\ dayStats \in Counts
    BY DEF StatsTypeOK, Counts
<1>2. \A d \in Days : readOn[d] \in 0..MaxSessions /\ dayStats[d] \in 0..MaxSessions
    BY <1>1 DEF Counts
<1>3. 0 \in 0..MaxSessions
    BY StatsAssumption
<1>4. Rolled(since, now) \in Counts
    BY <1>2, <1>3 DEF Rolled, Counts
<1>5. ASSUME NEW d \in Days
      PROVE  /\ Rolled(since, now)[d] <= readOn[d]
             /\ Rolled(since, now)[d] > 0 => d < clockDay
    <2>1. Rolled(since, now)[d] =
            IF d < since THEN dayStats[d] ELSE IF d < now THEN readOn[d] ELSE 0
        BY DEF Rolled
    <2>2. dayStats[d] <= readOn[d] /\ (dayStats[d] > 0 => d < clockDay)
        BY DEF RowsAreCounts
    <2>3. d \in Int /\ now \in Int /\ since \in Int /\ clockDay \in Int
        BY DEF StatsTypeOK, Days
    <2> QED BY <2>1, <2>2, <2>3, <1>2, StatsAssumption
<1> QED BY <1>4, <1>5
\* What a step of a request does to the request itself.
ReadMoves(q, x) ==
    \/ AskStats(q) /\ \E phase \in {"counting", "direct"} :
          x = [NoRead EXCEPT !.phase = phase, !.now = clockDay, !.before = ActiveDays]
    \/ CountRolled(q)
         /\ x = [statRead[q] EXCEPT !.phase = "comparing", !.rolled = Total(dayStats, Days)]
    \/ CountRecorded(q)
         /\ x = [statRead[q] EXCEPT !.phase =
                   IF CountsEverySession(q) THEN "closed"
                   ELSE IF ~statRead[q].planned THEN "planning"
                   ELSE IF statRead[q].plan # <<>> THEN "rolling" ELSE "shortOfOne"]
    \/ PlanRepair(q)
         /\ x = [statRead[q] EXCEPT !.phase = "rolling", !.planned = TRUE,
                                    !.plan = RepairPlan(statRead[q].now)]
    \/ RollClosedDays(q)
         /\ x = [statRead[q] EXCEPT !.phase = "counting", !.plan = Tail(statRead[q].plan),
                    !.crossed = statRead[q].crossed \/ statRead[q].now # clockDay]
    \/ RollMeetsLock(q) /\ x = [statRead[q] EXCEPT !.phase = "direct"]
    \/ ReadClosed(q)
         /\ x = [statRead[q] EXCEPT !.phase = "open", !.closed = {d \in Days : dayStats[d] > 0}]
    \/ ReadOpen(q)
         /\ x = Answered(statRead[q],
                         statRead[q].closed \cup {d \in ActiveDays : d >= statRead[q].now})
    \/ ReadDirect(q) /\ x = Answered(statRead[q], ActiveDays)
    \/ Leave(q) /\ x = NoRead

\* It leaves the other requests alone, or its late repair reaches them.
LEMMA ReadMovesOne ==
    ASSUME StatsTypeOK, NEW q \in StatReaders, ReadStep(q)
    PROVE  /\ ReadMoves(q, statRead'[q])
           /\ \/ statRead' = [statRead EXCEPT ![q] = statRead'[q]]
              \/ /\ LateRoll(q)
                 /\ statRead' = [r \in StatReaders |->
                                   IF r = q THEN statRead'[q] ELSE Cross(statRead[r])]
<1>1. statRead \in [StatReaders -> StatRead] /\ statRead[q] \in StatRead
    BY DEF StatsTypeOK
<1> DEFINE x == statRead[q]
           Reached == [r \in StatReaders |-> IF r = q THEN statRead'[q] ELSE Cross(statRead[r])]
           One == /\ ReadMoves(q, statRead'[q])
                  /\ \/ statRead' = [statRead EXCEPT ![q] = statRead'[q]]
                     \/ LateRoll(q) /\ statRead' = Reached
<1>2. ASSUME AskStats(q) PROVE One
    BY <1>1, <1>2 DEF AskStats, ReadMoves
<1>3. ASSUME CountRolled(q) PROVE One
    <2>1. statRead' = [statRead EXCEPT ![q] =
                [x EXCEPT !.phase = "comparing", !.rolled = Total(dayStats, Days)]]
        BY <1>3 DEF CountRolled
    <2> QED BY <1>1, <1>3, <2>1 DEF ReadMoves
<1>4. ASSUME CountRecorded(q) PROVE One
    <2> DEFINE phase == IF CountsEverySession(q) THEN "closed"
                        ELSE IF ~statRead[q].planned THEN "planning"
                        ELSE IF statRead[q].plan # <<>> THEN "rolling" ELSE "shortOfOne"
    <2>1. statRead' = [statRead EXCEPT ![q] = [x EXCEPT !.phase = phase]]
        BY <1>4 DEF CountRecorded, GoesTo
    <2> QED BY <1>1, <1>4, <2>1 DEF ReadMoves
<1>5. ASSUME PlanRepair(q) PROVE One
    <2>1. statRead' = [statRead EXCEPT ![q] =
                [x EXCEPT !.phase = "rolling", !.planned = TRUE, !.plan = RepairPlan(x.now)]]
        BY <1>5 DEF PlanRepair
    <2> QED BY <1>1, <1>5, <2>1 DEF ReadMoves
<1>6. ASSUME RollClosedDays(q) PROVE One
    <2> DEFINE late == x.now # clockDay
               rest == Tail(x.plan)
               y == [x EXCEPT !.plan = rest, !.phase = "counting"]
               on == [statRead EXCEPT ![q] = y]
               z == [x EXCEPT !.phase = "counting", !.plan = rest, !.crossed = x.crossed \/ late]
    <2>1. statRead' = IF late THEN Crossed(on) ELSE on
        <3> DEFINE turned == [statRead EXCEPT ![q].plan = Tail(@), ![q].phase = "counting"]
        <3>1. turned = on
            BY <1>1
        <3> HIDE DEF on
        <3>2. statRead' = IF x.now = clockDay THEN turned ELSE Crossed(turned)
            BY <1>6 DEF RollClosedDays
        <3> HIDE DEF turned
        <3> QED BY <3>1, <3>2
    <2>2. on[q] = y /\ \A r \in StatReaders \ {q} : on[r] = statRead[r]
        BY <1>1
    <2> HIDE DEF on, rest
    <2>3. UnderWay(y) /\ [y EXCEPT !.crossed = @ \/ TRUE] = [z EXCEPT !.crossed = TRUE]
        BY <1>1 DEF StatRead, UnderWay
    <2>4. CASE late
        <3>1. statRead' = [r \in StatReaders |-> [on[r] EXCEPT !.crossed = @ \/ UnderWay(on[r])]]
            BY <2>1, <2>4 DEF Crossed
        <3>2. statRead'[q] = z
            BY <2>2, <2>3, <2>4, <3>1, <1>1 DEF StatRead
        <3>3. statRead' = Reached
            BY <2>2, <3>1 DEF Cross
        <3> QED BY <3>2, <3>3, <2>4, <1>6 DEF ReadMoves, LateRoll, rest
    <2>5. CASE ~late
        <3>1. statRead' = [statRead EXCEPT ![q] = y]
            BY <2>1, <2>5 DEF on
        <3>2. y = z
            BY <1>1, <2>5 DEF StatRead
        <3>3. statRead'[q] = z
            BY <3>1, <3>2, <1>1
        <3>4. statRead' = [statRead EXCEPT ![q] = statRead'[q]]
            BY <3>1, <3>2, <3>3
        <3> QED BY <3>3, <3>4, <1>6 DEF ReadMoves, rest
    <2> QED BY <2>4, <2>5
<1>7. ASSUME RollMeetsLock(q) PROVE One
    <2>1. statRead' = [statRead EXCEPT ![q] = [x EXCEPT !.phase = "direct"]]
        BY <1>7 DEF RollMeetsLock, GoesTo
    <2> QED BY <1>1, <1>7, <2>1 DEF ReadMoves
<1>8. ASSUME ReadClosed(q) PROVE One
    <2>1. statRead' = [statRead EXCEPT ![q] =
                [x EXCEPT !.phase = "open", !.closed = {d \in Days : dayStats[d] > 0}]]
        BY <1>8 DEF ReadClosed
    <2> QED BY <1>1, <1>8, <2>1 DEF ReadMoves
<1>9. ASSUME ReadOpen(q) PROVE One
    <2> DEFINE days == x.closed \cup {d \in ActiveDays : d >= x.now}
    <2>1. statRead' = [statRead EXCEPT ![q] = Answered(x, days)]
        BY <1>9 DEF ReadOpen, Answers
    <2> QED BY <1>1, <1>9, <2>1 DEF ReadMoves
<1>10. ASSUME ReadDirect(q) PROVE One
    <2>1. statRead' = [statRead EXCEPT ![q] = Answered(x, ActiveDays)]
        BY <1>10 DEF ReadDirect, Answers
    <2> QED BY <1>1, <1>10, <2>1 DEF ReadMoves
<1>11. ASSUME Leave(q) PROVE One
    BY <1>1, <1>11 DEF Leave, ReadMoves
<1> QED BY <1>2, <1>3, <1>4, <1>5, <1>6, <1>7, <1>8, <1>9, <1>10, <1>11 DEF ReadStep

\* A request stays one, of its day or of the day it is asked, and its plan ends
\* with the rebuild.
LEMMA ReadType ==
    ASSUME StatsTypeOK, NEW q \in StatReaders, ReadStep(q), PlanEnds(statRead[q])
    PROVE  /\ statRead'[q] \in StatRead /\ PlanEnds(statRead'[q])
           /\ \/ statRead'[q].now = clockDay \/ statRead'[q] = NoRead
              \/ statRead[q].phase # "idle" /\ statRead'[q].now = statRead[q].now
<1>1. statRead[q] \in StatRead /\ readOn \in Counts /\ dayStats \in Counts /\ clockDay \in Days
    BY DEF StatsTypeOK, Counts
<1> DEFINE x == statRead'[q]
           under == statRead[q].phase # "idle"
           Typed(y) == /\ y \in StatRead /\ PlanEnds(y)
                       /\ y.now = clockDay \/ y = NoRead \/ (under /\ y.now = statRead[q].now)
<1>2. ReadMoves(q, x)
    BY ReadMovesOne
<1>3. NoRead \in StatRead /\ NoRead.now = 0 /\ NoRead.plan = <<>> /\ NoRead.phase = "idle"
    BY StatsAssumption DEF NoRead, StatRead, Days
<1>4. ActiveDays \in SUBSET Days
    BY DEF ActiveDays
<1> HIDE DEF x
<1>5. ASSUME AskStats(q), NEW phase \in {"counting", "direct"},
             x = [NoRead EXCEPT !.phase = phase, !.now = clockDay, !.before = ActiveDays]
      PROVE  Typed(x)
    BY <1>1, <1>3, <1>4, <1>5 DEF StatRead, PlanEnds
<1>6. ASSUME under, x = [statRead[q] EXCEPT !.phase = "comparing", !.rolled = Total(dayStats, Days)]
      PROVE  Typed(x)
    <2>1. Total(dayStats, Days) \in Nat
        BY <1>1, CountedFinite
    <2> QED BY <1>1, <1>6, <2>1 DEF StatRead, PlanEnds
<1>7. ASSUME under, CountRecorded(q),
             x = [statRead[q] EXCEPT !.phase =
                    IF CountsEverySession(q) THEN "closed"
                    ELSE IF ~statRead[q].planned THEN "planning"
                    ELSE IF statRead[q].plan # <<>> THEN "rolling" ELSE "shortOfOne"]
      PROVE  Typed(x)
    <2>1. CASE CountsEverySession(q)
        BY <1>1, <1>7, <2>1 DEF StatRead, PlanEnds
    <2>2. CASE ~CountsEverySession(q) /\ ~statRead[q].planned
        BY <1>1, <1>7, <2>2 DEF StatRead, PlanEnds
    <2>3. CASE ~CountsEverySession(q) /\ statRead[q].planned /\ statRead[q].plan # <<>>
        BY <1>1, <1>7, <2>3 DEF StatRead, PlanEnds
    <2>4. CASE ~CountsEverySession(q) /\ statRead[q].planned /\ statRead[q].plan = <<>>
        BY <1>1, <1>7, <2>4 DEF StatRead, PlanEnds
    <2> QED BY <2>1, <2>2, <2>3, <2>4
<1>8. ASSUME under, x = [statRead[q] EXCEPT !.phase = "rolling", !.planned = TRUE,
                                     !.plan = RepairPlan(statRead[q].now)]
      PROVE  Typed(x)
    <2> DEFINE plan == RepairPlan(statRead[q].now)
    <2>1. plan \in Seq(Days) /\ plan # <<>> /\ plan[Len(plan)] = 0
        BY <1>1, PlanType DEF StatRead
    <2> HIDE DEF plan
    <2>2. x = [statRead[q] EXCEPT !.phase = "rolling", !.planned = TRUE, !.plan = plan]
        BY <1>8 DEF plan
    <2> QED BY <1>1, <1>8, <2>1, <2>2 DEF StatRead, PlanEnds
<1>9. ASSUME under, RollClosedDays(q),
             x = [statRead[q] EXCEPT !.phase = "counting", !.plan = Tail(statRead[q].plan),
                    !.crossed = statRead[q].crossed \/ statRead[q].now # clockDay]
      PROVE  Typed(x)
    <2> DEFINE plan == statRead[q].plan
               rest == Tail(plan)
    <2>1. plan \in Seq(Days) /\ plan # <<>> /\ plan[Len(plan)] = 0
        BY <1>1, <1>9 DEF StatRead, PlanEnds, RollClosedDays
    <2> HIDE DEF plan
    <2>2. rest \in Seq(Days) /\ (rest # <<>> => rest[Len(rest)] = 0)
        BY <2>1
    <2> HIDE DEF rest
    <2> DEFINE crossed == statRead[q].crossed \/ statRead[q].now # clockDay
    <2>3. x = [statRead[q] EXCEPT !.phase = "counting", !.plan = rest, !.crossed = crossed]
        BY <1>9 DEF plan, rest
    <2>4. crossed \in BOOLEAN
        BY <1>1 DEF StatRead
    <2> HIDE DEF crossed
    <2> QED BY <1>1, <1>9, <2>2, <2>3, <2>4 DEF StatRead, PlanEnds
<1>10. ASSUME under, x = [statRead[q] EXCEPT !.phase = "direct"] PROVE Typed(x)
    BY <1>1, <1>10 DEF StatRead, PlanEnds
<1>11. ASSUME under, x = [statRead[q] EXCEPT !.phase = "open",
                                      !.closed = {d \in Days : dayStats[d] > 0}]
       PROVE  Typed(x)
    <2> DEFINE days == {d \in Days : dayStats[d] > 0}
    <2>1. days \in SUBSET Days
        OBVIOUS
    <2>2. x = [statRead[q] EXCEPT !.phase = "open", !.closed = days]
        BY <1>11
    <2> HIDE DEF days
    <2> QED BY <1>1, <1>11, <2>1, <2>2 DEF StatRead, PlanEnds
<1>12. ASSUME under, NEW days \in SUBSET Days, x = Answered(statRead[q], days)
       PROVE  Typed(x)
    <2>1. x = [phase |-> "answered", now |-> statRead[q].now, rolled |-> 0, planned |-> FALSE,
               plan |-> <<>>, closed |-> {}, before |-> statRead[q].before, disturbed |-> FALSE,
               crossed |-> statRead[q].crossed, answer |-> days]
        BY <1>12 DEF Answered, NoRead
    <2>2. /\ statRead[q].now \in Days /\ statRead[q].before \in SUBSET Days
          /\ statRead[q].crossed \in BOOLEAN
        BY <1>1 DEF StatRead
    <2> QED BY <2>1, <2>2, <1>12 DEF StatRead, PlanEnds
<1>13. statRead[q].closed \cup {d \in ActiveDays : d >= statRead[q].now} \in SUBSET Days
    BY <1>1, <1>4 DEF StatRead
<1>14. ASSUME x = NoRead PROVE Typed(x)
    BY <1>3, <1>14 DEF PlanEnds
<1>15. /\ CountRolled(q) \/ CountRecorded(q) \/ PlanRepair(q) \/ RollClosedDays(q) => under
       /\ RollMeetsLock(q) \/ ReadClosed(q) \/ ReadOpen(q) \/ ReadDirect(q) => under
    BY DEF CountRolled, CountRecorded, PlanRepair, RollClosedDays, RollMeetsLock, ReadClosed,
           ReadOpen, ReadDirect
<1>16. Typed(x)
    <2> HIDE DEF Typed, under
    <2> QED BY <1>2, <1>4, <1>5, <1>6, <1>7, <1>8, <1>9, <1>10, <1>11, <1>12, <1>13, <1>14,
               <1>15
               DEF ReadMoves
<1> QED BY <1>16 DEF x
\* A session or midnight leaves the requests what they are, apart from the marks.
LEMMA MarkedReads ==
    ASSUME StatsTypeOK
    PROVE  /\ Disturbed = [q \in StatReaders |-> Disturbed[q]]
           /\ Crossed(Disturbed) = [q \in StatReaders |-> Crossed(Disturbed)[q]]
           /\ \A q \in StatReaders :
                /\ Overtaken(statRead[q], Disturbed[q])
                /\ Overtaken(statRead[q], Crossed(Disturbed)[q])
                /\ Overtaken(statRead[q], Cross(statRead[q]))
                /\ Overtaken(statRead[q], statRead[q])
                /\ UnderWay(statRead[q]) => /\ Disturbed[q].disturbed
                                            /\ Crossed(Disturbed)[q].disturbed
                                            /\ Crossed(Disturbed)[q].crossed
                                            /\ Cross(statRead[q]).crossed
<1>1. Disturbed = [q \in StatReaders |-> Disturbed[q]]
    BY DEF Disturbed
<1>2. Crossed(Disturbed) = [q \in StatReaders |-> Crossed(Disturbed)[q]]
    BY DEF Crossed
<1>3. ASSUME NEW q \in StatReaders
      PROVE  /\ Overtaken(statRead[q], Disturbed[q])
             /\ Overtaken(statRead[q], Crossed(Disturbed)[q])
             /\ Overtaken(statRead[q], Cross(statRead[q]))
             /\ Overtaken(statRead[q], statRead[q])
             /\ UnderWay(statRead[q]) => /\ Disturbed[q].disturbed
                                         /\ Crossed(Disturbed)[q].disturbed
                                         /\ Crossed(Disturbed)[q].crossed
                                         /\ Cross(statRead[q]).crossed
    <2> DEFINE x == statRead[q]
               b == x.disturbed \/ UnderWay(x)
               c == x.crossed \/ UnderWay(x)
    <2>1. x \in StatRead
        BY DEF StatsTypeOK
    <2>2. Disturbed[q] = [x EXCEPT !.disturbed = b]
        BY DEF Disturbed
    <2>3. Crossed(Disturbed)[q] =
            [Disturbed[q] EXCEPT !.crossed = @ \/ UnderWay(Disturbed[q])]
        BY DEF Crossed
    <2>4. Cross(x) = [x EXCEPT !.crossed = c]
        BY DEF Cross
    <2>5. b \in BOOLEAN /\ c \in BOOLEAN /\ x.disturbed \in BOOLEAN /\ x.crossed \in BOOLEAN
        BY <2>1 DEF StatRead
    <2>6. /\ UnderWay(x) => b /\ c
          /\ (x.disturbed => b) /\ (x.crossed => c)
        OBVIOUS
    <2>7. ASSUME NEW e \in BOOLEAN PROVE UnderWay([x EXCEPT !.disturbed = e]) = UnderWay(x)
        BY <2>1 DEF StatRead, UnderWay
    <2> HIDE DEF b, c, x
    <2>8. Disturbed[q].crossed = x.crossed /\ UnderWay(Disturbed[q]) = UnderWay(x)
        BY <2>1, <2>2, <2>5, <2>7 DEF StatRead
    <2>9. Crossed(Disturbed)[q] = [x EXCEPT !.disturbed = b, !.crossed = c]
        <3>1. Crossed(Disturbed)[q] = [Disturbed[q] EXCEPT !.crossed = c]
            BY <2>3, <2>8, <2>1, <2>2 DEF StatRead, c
        <3> QED BY <3>1, <2>1, <2>2 DEF StatRead
    <2>10. /\ [x EXCEPT !.disturbed = b] = [x EXCEPT !.disturbed = b, !.crossed = x.crossed]
           /\ [x EXCEPT !.crossed = c] = [x EXCEPT !.disturbed = x.disturbed, !.crossed = c]
           /\ x = [x EXCEPT !.disturbed = x.disturbed, !.crossed = x.crossed]
        BY <2>1 DEF StatRead
    <2>11. Overtaken(x, Disturbed[q])
        BY <2>2, <2>5, <2>6, <2>10 DEF Overtaken
    <2>12. Overtaken(x, Crossed(Disturbed)[q])
        BY <2>9, <2>5, <2>6 DEF Overtaken
    <2>13. Overtaken(x, Cross(x))
        BY <2>4, <2>5, <2>6, <2>10 DEF Overtaken
    <2>14. Overtaken(x, x)
        BY <2>5, <2>10 DEF Overtaken
    <2>15. UnderWay(x) => /\ Disturbed[q].disturbed
                          /\ Crossed(Disturbed)[q].disturbed /\ Crossed(Disturbed)[q].crossed
                          /\ Cross(x).crossed
        BY <2>1, <2>2, <2>4, <2>6, <2>9 DEF StatRead
    <2> QED BY <2>11, <2>12, <2>13, <2>14, <2>15 DEF x
<1> QED BY <1>1, <1>2, <1>3

\* An overtaken request has only its marks changed.
LEMMA OvertakenFields ==
    ASSUME NEW x \in StatRead, NEW y, Overtaken(x, y)
    PROVE  /\ y \in StatRead
           /\ y.phase = x.phase /\ y.now = x.now /\ y.rolled = x.rolled
           /\ y.planned = x.planned /\ y.plan = x.plan /\ y.closed = x.closed
           /\ y.before = x.before /\ y.answer = x.answer
           /\ (x.disturbed => y.disturbed) /\ (x.crossed => y.crossed)
           /\ PlanEnds(x) => PlanEnds(y)
           /\ UnderWay(x) <=> UnderWay(y)
<1>1. PICK b, c \in BOOLEAN : /\ y = [x EXCEPT !.disturbed = b, !.crossed = c]
                              /\ (x.disturbed => b) /\ (x.crossed => c)
    BY DEF Overtaken
<1>2. /\ y \in StatRead
      /\ y.phase = x.phase /\ y.now = x.now /\ y.rolled = x.rolled
      /\ y.planned = x.planned /\ y.plan = x.plan /\ y.closed = x.closed
      /\ y.before = x.before /\ y.answer = x.answer
      /\ (x.disturbed => y.disturbed) /\ (x.crossed => y.crossed)
    BY <1>1 DEF StatRead
<1> QED BY <1>2 DEF PlanEnds, UnderWay

\* What a step does to a request that it is not a step of.
LEMMA OthersOvertaken ==
    ASSUME StatsTypeOK, [StatsNext]_statsVars, NEW q \in StatReaders, ~ReadStep(q)
    PROVE  /\ Overtaken(statRead[q], statRead'[q])
           /\ UnderWay(statRead[q]) =>
                /\ readOn' = readOn \/ statRead'[q].disturbed
                /\ clockDay' = clockDay \/ statRead'[q].crossed
                /\ (\E r \in StatReaders : LateRoll(r)) => statRead'[q].crossed
<1>1. statRead \in [StatReaders -> StatRead]
    BY DEF StatsTypeOK
<1> DEFINE Marked == /\ Overtaken(statRead[q], statRead'[q])
                     /\ UnderWay(statRead[q]) =>
                           /\ readOn' = readOn \/ statRead'[q].disturbed
                           /\ clockDay' = clockDay \/ statRead'[q].crossed
<1>2. ASSUME NEW d \in Days, RecordSession(d) PROVE Marked
    BY <1>2, MarkedReads DEF RecordSession
<1>3. ASSUME Midnight PROVE Marked
    BY <1>3, MarkedReads DEF Midnight
<1>4. ASSUME statRead' = statRead, readOn' = readOn, clockDay' = clockDay PROVE Marked
    BY <1>4, MarkedReads
<1>5. ASSUME NEW r \in StatReaders, ReadStep(r) PROVE Marked
    <2>1. readOn' = readOn /\ clockDay' = clockDay
        BY <1>5 DEF ReadStep, AskStats, CountRolled, CountRecorded, PlanRepair, RollClosedDays,
                    RollMeetsLock, ReadClosed, ReadOpen, ReadDirect, Leave, Answers
    <2>2. r # q
        BY <1>5
    <2>3. statRead'[q] = statRead[q] \/ statRead'[q] = Cross(statRead[q])
        <3> DEFINE x == statRead'[r]
        <3>1. \/ statRead' = [statRead EXCEPT ![r] = x]
              \/ statRead' = [k \in StatReaders |-> IF k = r THEN x ELSE Cross(statRead[k])]
            BY <1>5, ReadMovesOne
        <3> HIDE DEF x
        <3> QED BY <3>1, <2>2, <1>1
    <2> QED BY <2>1, <2>3, MarkedReads
<1>6. ASSUME NEW r \in StatReaders, LateRoll(r), UnderWay(statRead[q])
      PROVE  statRead'[q].crossed
    <2> DEFINE on == [statRead EXCEPT ![r].plan = Tail(@), ![r].phase = "counting"]
    <2>1. r # q
        BY <1>6 DEF LateRoll, ReadStep
    <2>2. statRead' = Crossed(on) /\ on[q] = statRead[q]
        BY <1>1, <1>6, <2>1 DEF LateRoll, RollClosedDays
    <2> HIDE DEF on
    <2>3. statRead'[q] = Cross(statRead[q])
        BY <2>2 DEF Crossed, Cross
    <2> QED BY <2>3, <1>6, MarkedReads
<1>7. Marked
    <2> HIDE DEF Marked
    <2> QED BY <1>2, <1>3, <1>4, <1>5 DEF StatsNext, Rebuild, statsVars
<1> QED BY <1>6, <1>7

\* The rows are written by a rebuild or by a request's roll, and by nothing else.
LEMMA RowsWritten ==
    ASSUME StatsTypeOK, AskedByNow, \A q \in StatReaders : PlanEnds(statRead[q]),
           [StatsNext]_statsVars
    PROVE  \/ dayStats' = dayStats
           \/ /\ readOn' = readOn /\ clockDay' = clockDay
              /\ \E since \in Days : dayStats' = Rolled(since, clockDay)
           \/ /\ readOn' = readOn /\ clockDay' = clockDay
              /\ \E q \in StatReaders, since \in Days :
                   /\ RollClosedDays(q)
                   /\ dayStats' = Rolled(since, statRead[q].now)
<1> DEFINE Rows == \/ dayStats' = dayStats
                   \/ /\ readOn' = readOn /\ clockDay' = clockDay
                      /\ \E since \in Days : dayStats' = Rolled(since, clockDay)
                   \/ /\ readOn' = readOn /\ clockDay' = clockDay
                      /\ \E q \in StatReaders, since \in Days :
                           /\ RollClosedDays(q)
                           /\ dayStats' = Rolled(since, statRead[q].now)
<1>1. ASSUME NEW d \in Days, RecordSession(d) PROVE Rows
    BY <1>1 DEF RecordSession
<1>2. ASSUME Midnight PROVE Rows
    BY <1>2 DEF Midnight
<1>3. ASSUME Rebuild PROVE Rows
    BY <1>3, StatsAssumption DEF Rebuild, Days
<1>4. ASSUME NEW q \in StatReaders, RollClosedDays(q) PROVE Rows
    <2>1. statRead[q].plan \in Seq(Days) /\ statRead[q].plan # <<>>
        BY <1>4 DEF StatsTypeOK, StatRead, RollClosedDays, PlanEnds
    <2>2. Head(statRead[q].plan) \in Days
        BY <2>1
    <2> QED BY <1>4, <2>2 DEF RollClosedDays
<1>5. ASSUME NEW q \in StatReaders, ReadStep(q), ~RollClosedDays(q) PROVE Rows
    BY <1>5 DEF ReadStep, AskStats, CountRolled, CountRecorded, PlanRepair, RollMeetsLock,
                ReadClosed, ReadOpen, ReadDirect, Leave, Answers
<1>6. ASSUME UNCHANGED statsVars PROVE Rows
    BY <1>6 DEF statsVars
<1> QED BY <1>1, <1>2, <1>3, <1>4, <1>5, <1>6 DEF StatsNext

\* An empty roll-up keeps its books.
LEMMA BooksInit == StatsInit => BooksInv
<1> SUFFICES ASSUME StatsInit PROVE BooksInv
    OBVIOUS
<1>1. NoRead \in StatRead /\ NoRead.now = 0 /\ PlanEnds(NoRead)
    BY StatsAssumption DEF NoRead, StatRead, Days, PlanEnds
<1>2. StatsTypeOK
    BY <1>1, StatsAssumption DEF StatsInit, StatsTypeOK, Days
<1>3. Counted(readOn, Days) = {}
    <2>1. \A d \in Days : 1..readOn[d] = {}
        BY DEF StatsInit
    <2> QED BY <2>1 DEF Counted
<1>4. SessionsAddUp
    BY <1>3, FS_EmptySet, StatsAssumption DEF StatsInit, SessionsAddUp, Total
<1>5. RowsAreCounts /\ AskedByNow
    BY <1>1 DEF StatsInit, RowsAreCounts, AskedByNow
<1> QED BY <1>1, <1>2, <1>4, <1>5 DEF BooksInv, StatsInit

\* The roll-up's books are kept by every step.
LEMMA BooksStep == BooksInv /\ [StatsNext]_statsVars => BooksInv'
<1> SUFFICES ASSUME BooksInv, [StatsNext]_statsVars PROVE BooksInv'
    OBVIOUS
<1>1. /\ StatsTypeOK /\ SessionsAddUp /\ RowsAreCounts /\ AskedByNow
      /\ \A q \in StatReaders : PlanEnds(statRead[q])
    BY DEF BooksInv
<1>2. /\ clockDay \in Days /\ readOn \in Counts /\ dayStats \in Counts
      /\ statRead \in [StatReaders -> StatRead]
      /\ unread \in 0..MaxSessions /\ busy \in 0..MaxBusy
    BY <1>1 DEF StatsTypeOK, Counts
<1>3. \A d \in Days : readOn[d] \in Nat /\ dayStats[d] \in Nat
    BY <1>2, StatsAssumption DEF Counts
<1> DEFINE Sessions == readOn' \in Counts /\ unread' \in 0..MaxSessions /\ SessionsAddUp'
           Reads == /\ statRead' \in [StatReaders -> StatRead]
                    /\ \A q \in StatReaders : PlanEnds(statRead'[q])
                    /\ \A q \in StatReaders : statRead'[q].now <= clockDay'
           Day == clockDay' \in Days /\ clockDay' >= clockDay /\ busy' \in 0..MaxBusy
           Rows == /\ dayStats' \in Counts
                   /\ \A d \in Days : /\ dayStats'[d] <= readOn'[d]
                                      /\ dayStats'[d] > 0 => d < clockDay'
<1>4. Sessions /\ \A d \in Days : readOn'[d] >= readOn[d]
    <2>1. ASSUME NEW d \in Days, RecordSession(d)
          PROVE  Sessions /\ \A k \in Days : readOn'[k] >= readOn[k]
        <3>1. readOn' = [readOn EXCEPT ![d] = @ + 1] /\ unread' = unread - 1 /\ unread > 0
            BY <2>1 DEF RecordSession
        <3>2. readOn[d] <= Total(readOn, Days) /\ Total(readOn, Days) \in Nat
            BY <1>2, DayWithinTotal, CountedFinite
        <3>3. readOn[d] + 1 \in 0..MaxSessions
            BY <3>1, <3>2, <1>1, <1>2, <1>3, StatsAssumption DEF SessionsAddUp
        <3>4. readOn' \in Counts
            BY <3>1, <3>3, <1>2 DEF Counts
        <3>5. Total(readOn', Days) = Total(readOn, Days) + 1
            BY <3>1, <3>4, <1>2, OneMore
        <3>6. unread' \in 0..MaxSessions
            BY <3>1, <1>2, StatsAssumption
        <3>7. SessionsAddUp'
            BY <3>1, <3>2, <3>5, <1>1, <1>2, StatsAssumption DEF SessionsAddUp
        <3>8. ASSUME NEW k \in Days PROVE readOn'[k] >= readOn[k]
            BY <3>1, <1>2, <1>3 DEF Counts
        <3> QED BY <3>4, <3>6, <3>7, <3>8
    <2>2. ASSUME \A d \in Days : ~RecordSession(d) PROVE readOn' = readOn /\ unread' = unread
        BY <2>2 DEF StatsNext, Midnight, Rebuild, ReadStep, AskStats, CountRolled, CountRecorded,
                    PlanRepair, RollClosedDays, RollMeetsLock, ReadClosed, ReadOpen, ReadDirect,
                    Leave, Answers, statsVars
    <2>3. ASSUME readOn' = readOn, unread' = unread
          PROVE  Sessions /\ \A k \in Days : readOn'[k] >= readOn[k]
        BY <2>3, <1>1, <1>2, <1>3 DEF SessionsAddUp
    <2> QED BY <2>1, <2>2, <2>3
<1>5. Day
    <2>1. ASSUME Midnight PROVE Day
        BY <2>1, <1>2, StatsAssumption DEF Midnight, Days
    <2>2. ASSUME NEW q \in StatReaders, RollMeetsLock(q) PROVE Day
        BY <2>2, <1>2, StatsAssumption DEF RollMeetsLock, Days
    <2>3. ASSUME clockDay' = clockDay, busy' = busy PROVE Day
        BY <2>3, <1>2 DEF Days
    <2>4. ASSUME ~Midnight, \A q \in StatReaders : ~RollMeetsLock(q)
          PROVE  clockDay' = clockDay /\ busy' = busy
        BY <2>4 DEF StatsNext, RecordSession, Rebuild, ReadStep, AskStats, CountRolled,
                    CountRecorded, PlanRepair, RollClosedDays, ReadClosed, ReadOpen, ReadDirect,
                    Leave, Answers, statsVars
    <2> QED BY <2>1, <2>2, <2>3, <2>4
<1>6. Reads
    <2>1. clockDay \in Int /\ clockDay' \in Int /\ 0 <= clockDay
        BY <1>2, <1>5 DEF Days
    <2>2. \A q \in StatReaders : statRead[q].now \in Int /\ statRead[q].now <= clockDay
        BY <1>1, <1>2 DEF StatRead, Days, AskedByNow
    <2>3. statRead' = [q \in StatReaders |-> statRead'[q]]
        <3>1. ASSUME NEW q \in StatReaders, ReadStep(q)
              PROVE  statRead' = [r \in StatReaders |-> statRead'[r]]
            <4> DEFINE x == statRead'[q]
            <4>1. \/ statRead' = [statRead EXCEPT ![q] = x]
                  \/ statRead' = [r \in StatReaders |-> IF r = q THEN x ELSE Cross(statRead[r])]
                BY <3>1, <1>1, ReadMovesOne
            <4> HIDE DEF x
            <4> QED BY <4>1, <1>2
        <3> QED BY <3>1, <1>1, <1>2, MarkedReads
                DEF StatsNext, RecordSession, Midnight, Rebuild, statsVars
    <2>4. ASSUME NEW q \in StatReaders
          PROVE  /\ statRead'[q] \in StatRead /\ PlanEnds(statRead'[q])
                 /\ statRead'[q].now <= clockDay'
        <3>1. CASE ReadStep(q)
            <4>1. /\ statRead'[q] \in StatRead /\ PlanEnds(statRead'[q])
                  /\ statRead'[q].now \in {statRead[q].now, clockDay, 0}
                BY <3>1, <1>1, ReadType DEF NoRead
            <4> QED BY <4>1, <2>1, <2>2, <1>5
        <3>2. CASE ~ReadStep(q)
            <4>1. statRead[q] \in StatRead /\ Overtaken(statRead[q], statRead'[q])
                BY <3>2, <1>1, <1>2, OthersOvertaken
            <4>2. /\ statRead'[q] \in StatRead /\ PlanEnds(statRead'[q])
                  /\ statRead'[q].now = statRead[q].now
                BY <4>1, <1>1, OvertakenFields
            <4> QED BY <4>2, <2>1, <2>2, <1>5
        <3> QED BY <3>1, <3>2
    <2>5. statRead' \in [StatReaders -> StatRead]
        BY <2>3, <2>4
    <2> QED BY <2>4, <2>5
<1>7. Rows
    <2>1. clockDay \in Int /\ clockDay' \in Int /\ \A d \in Days : d \in Int
        BY <1>2, <1>5 DEF Days
    <2>2. \A d \in Days : readOn'[d] \in Nat
        BY <1>4, StatsAssumption DEF Counts
    <2>3. ASSUME dayStats' = dayStats PROVE Rows
        BY <2>1, <2>2, <2>3, <1>1, <1>2, <1>3, <1>4, <1>5 DEF RowsAreCounts
    <2>4. ASSUME NEW since \in Days, NEW now \in Days, now <= clockDay,
                 dayStats' = Rolled(since, now), readOn' = readOn, clockDay' = clockDay
          PROVE  Rows
        BY <2>4, <1>1, RolledRows
    <2>5. \A q \in StatReaders : statRead[q].now \in Days /\ statRead[q].now <= clockDay
        BY <1>1, <1>2 DEF StatRead, AskedByNow
    <2> HIDE DEF Rows
    <2>6. clockDay <= clockDay
        BY <2>1
    <2> QED BY <1>1, <1>2, <2>3, <2>4, <2>5, <2>6, RowsWritten
<1> QED BY <1>4, <1>5, <1>6, <1>7 DEF BooksInv, StatsTypeOK, RowsAreCounts, AskedByNow, Counts

\* Every variable of the statistics keeps its type: in particular a day's row
\* never counts more sessions than the profile has.
THEOREM StatsTypes == StatsSpec => []StatsTypeOK
<1>1. BooksInv => StatsTypeOK
    BY DEF BooksInv
<1> QED BY <1>1, BooksInit, BooksStep, PTL DEF StatsSpec
-----------------------------------------------------------------------------
(* The answers. *)

\* Sessions are only added.
LEMMA SessionsGrow ==
    BooksInv /\ [StatsNext]_statsVars => \A d \in Days : readOn[d] <= readOn'[d]
<1> SUFFICES ASSUME BooksInv, [StatsNext]_statsVars PROVE \A d \in Days : readOn[d] <= readOn'[d]
    OBVIOUS
<1>1. readOn \in Counts /\ \A d \in Days : readOn[d] \in Nat
    BY StatsAssumption DEF BooksInv, StatsTypeOK, Counts
<1>2. ASSUME NEW d \in Days, RecordSession(d), NEW k \in Days PROVE readOn[k] <= readOn'[k]
    <2>1. readOn' = [readOn EXCEPT ![d] = @ + 1]
        BY <1>2 DEF RecordSession
    <2> QED BY <2>1, <1>1 DEF Counts
<1>3. ASSUME \A d \in Days : ~RecordSession(d) PROVE readOn' = readOn
    BY <1>3 DEF StatsNext, Midnight, Rebuild, ReadStep, AskStats, CountRolled, CountRecorded,
                PlanRepair, RollClosedDays, RollMeetsLock, ReadClosed, ReadOpen, ReadDirect,
                Leave, Answers, statsVars
<1> QED BY <1>1, <1>2, <1>3

\* A roll that is of today takes no session from a row, and leaves a level
\* roll-up as it is.
LEMMA RowsGrow ==
    BooksInv /\ [StatsNext]_statsVars /\ (\A q \in StatReaders : ~LateRoll(q)) =>
        /\ \A d \in Days : dayStats[d] <= dayStats'[d]
        /\ Level(readOn, dayStats, clockDay) => dayStats' = dayStats
<1> SUFFICES ASSUME BooksInv, [StatsNext]_statsVars, \A q \in StatReaders : ~LateRoll(q)
             PROVE  /\ \A d \in Days : dayStats[d] <= dayStats'[d]
                    /\ Level(readOn, dayStats, clockDay) => dayStats' = dayStats
    OBVIOUS
<1>1. dayStats \in Counts /\ \A d \in Days : readOn[d] \in Nat /\ dayStats[d] \in Nat
    BY StatsAssumption DEF BooksInv, StatsTypeOK, Counts
<1>2. ASSUME NEW since \in Days, dayStats' = Rolled(since, clockDay)
      PROVE  /\ \A d \in Days : dayStats[d] <= dayStats'[d]
             /\ Level(readOn, dayStats, clockDay) => dayStats' = dayStats
    <2>1. ASSUME NEW d \in Days
          PROVE  /\ dayStats[d] <= dayStats'[d]
                 /\ Level(readOn, dayStats, clockDay) => dayStats'[d] = dayStats[d]
        <3>1. dayStats'[d] =
                IF d < since THEN dayStats[d] ELSE IF d < clockDay THEN readOn[d] ELSE 0
            BY <1>2 DEF Rolled
        <3>2. dayStats[d] <= readOn[d] /\ (dayStats[d] > 0 => d < clockDay)
            BY DEF BooksInv, RowsAreCounts
        <3> QED BY <3>1, <3>2, <1>1 DEF Level
    <2>2. dayStats' = [d \in Days |-> dayStats'[d]] /\ dayStats = [d \in Days |-> dayStats[d]]
        BY <1>1, <1>2 DEF Rolled, Counts
    <2> QED BY <2>1, <2>2
<1>3. CASE dayStats' = dayStats
    BY <1>1, <1>3
<1> QED BY <1>2, <1>3, RowsWritten DEF BooksInv, LateRoll

\* What a request has seen stays true as counts and rows grow.
LEMMA TellsOn ==
    ASSUME NEW on \in Counts, NEW rows \in Counts, NEW on2 \in Counts, NEW rows2 \in Counts,
           \A d \in Days : on[d] <= on2[d] /\ rows[d] <= rows2[d],
           NEW x \in StatRead, NEW y \in StatRead,
           y.phase = x.phase, y.before = x.before, y.rolled = x.rolled, y.closed = x.closed,
           y.now = x.now, y.answer = x.answer, Tells(x, on, rows)
    PROVE  Tells(y, on2, rows2)
<1>1. \A d \in Days : on[d] \in Nat /\ rows[d] \in Nat /\ on2[d] \in Nat /\ rows2[d] \in Nat
    BY StatsAssumption DEF Counts
<1>2. /\ Total(rows, Days) \in Nat /\ Total(rows2, Days) \in Nat
      /\ Total(rows, Days) <= Total(rows2, Days)
    BY CountedFinite, TotalGrows
<1>3. \A d \in Days : (on[d] > 0 => on2[d] > 0) /\ (rows[d] > 0 => rows2[d] > 0)
    BY <1>1
<1>4. x.rolled \in Nat /\ x.before \in SUBSET Days
    BY DEF StatRead
<1>5. {d \in Days : on[d] > 0} \subseteq {d \in Days : on2[d] > 0}
    BY <1>3
<1>6. x.phase = "comparing" => y.rolled <= Total(rows2, Days)
    BY <1>2, <1>4 DEF Tells
<1>7. x.phase = "closed" => \A d \in y.before : d < y.now => rows2[d] > 0
    BY <1>3, <1>4 DEF Tells
<1> QED BY <1>5, <1>6, <1>7 DEF Tells

\* No request has seen anything yet.
LEMMA ReadsInit == StatsInit => ReadsInv
BY DEF StatsInit, ReadsInv, WithinItsDay, UnderWay, NoRead, Tells, Suffices

\* The requests that a session or somebody else's step overtakes.
LEMMA OvertakenReads ==
    ASSUME BooksInv, BooksInv', ReadsInv, [StatsNext]_statsVars, NEW q \in StatReaders,
           ~ReadStep(q), ~statRead'[q].crossed
    PROVE  Tells(statRead'[q], readOn', dayStats') /\ Suffices(statRead'[q], readOn', dayStats')
<1> DEFINE x == statRead[q]
           y == statRead'[q]
<1>1. /\ readOn \in Counts /\ dayStats \in Counts /\ readOn' \in Counts /\ dayStats' \in Counts
      /\ x \in StatRead /\ y \in StatRead /\ clockDay \in Days
    BY DEF BooksInv, StatsTypeOK, Counts
<1>2. Overtaken(x, y)
    BY OthersOvertaken DEF BooksInv
<1>3. /\ y.phase = x.phase /\ y.before = x.before /\ y.rolled = x.rolled
      /\ y.closed = x.closed /\ y.now = x.now /\ y.answer = x.answer
      /\ y.planned = x.planned /\ y.plan = x.plan
      /\ (x.disturbed => y.disturbed) /\ ~x.crossed
    BY <1>1, <1>2, OvertakenFields
<1>4. Tells(x, readOn, dayStats) /\ Suffices(x, readOn, dayStats)
    BY <1>3 DEF ReadsInv
<1>5. \A d \in Days : readOn[d] <= readOn'[d]
    BY SessionsGrow
<1>6. CASE UnderWay(x)
    <2>1. /\ readOn' = readOn \/ y.disturbed
          /\ clockDay' = clockDay /\ \A r \in StatReaders : ~LateRoll(r)
        BY <1>6, OthersOvertaken DEF BooksInv
    <2>2. /\ \A d \in Days : dayStats[d] <= dayStats'[d]
          /\ Level(readOn, dayStats, clockDay) => dayStats' = dayStats
        BY <2>1, RowsGrow
    <2>3. x.now = clockDay
        BY <1>3, <1>6 DEF ReadsInv, WithinItsDay
    <2> HIDE DEF x, y
    <2>4. Tells(y, readOn', dayStats')
        BY <1>1, <1>3, <1>4, <1>5, <2>2, TellsOn
    <2>5. Suffices(y, readOn', dayStats')
        BY <1>3, <1>4, <2>1, <2>2, <2>3 DEF Suffices
    <2> QED BY <2>4, <2>5 DEF y
<1>7. CASE ~UnderWay(x)
    <2>1. x.phase \in {"idle", "answered"}
        BY <1>7 DEF UnderWay
    <2>2. \A d \in Days : readOn[d] > 0 => readOn'[d] > 0
        BY <1>1, <1>5, StatsAssumption DEF Counts
    <2> HIDE DEF x, y
    <2>3. Tells(y, readOn', dayStats')
        BY <1>3, <1>4, <2>1, <2>2 DEF Tells
    <2>4. Suffices(y, readOn', dayStats')
        BY <1>3, <2>1 DEF Suffices
    <2> QED BY <2>3, <2>4 DEF y
<1> QED BY <1>6, <1>7
\* The request that takes a step itself.
LEMMA OwnReads ==
    ASSUME BooksInv, BooksInv', ReadsInv, NEW q \in StatReaders, ReadStep(q),
           ~statRead'[q].crossed
    PROVE  Tells(statRead'[q], readOn', dayStats') /\ Suffices(statRead'[q], readOn', dayStats')
<1> DEFINE x == statRead[q]
           y == statRead'[q]
           Fine == Tells(y, readOn', dayStats') /\ Suffices(y, readOn', dayStats')
<1>0. ~y.crossed
    OBVIOUS
<1>1. /\ readOn \in Counts /\ dayStats \in Counts /\ readOn' \in Counts /\ dayStats' \in Counts
      /\ x \in StatRead /\ y \in StatRead /\ clockDay \in Days
    BY DEF BooksInv, StatsTypeOK, Counts
<1>2. PlanEnds(x) /\ (~x.crossed => Tells(x, readOn, dayStats) /\ Suffices(x, readOn, dayStats))
    BY DEF BooksInv, ReadsInv
<1>3. UnderWay(x) /\ ~x.crossed => x.now = clockDay
    BY DEF ReadsInv, WithinItsDay
<1>4. \A d \in Days : dayStats[d] <= readOn[d] /\ (dayStats[d] > 0 => d < clockDay)
    BY DEF BooksInv, RowsAreCounts
<1>5. \A d \in Days : readOn[d] \in Nat /\ dayStats[d] \in Nat /\ d \in Nat
    BY <1>1, StatsAssumption DEF Counts, Days
<1>6. ReadMoves(q, y)
    BY ReadMovesOne DEF BooksInv
<1>7. readOn' = readOn /\ (~RollClosedDays(q) => dayStats' = dayStats)
    BY DEF ReadStep, AskStats, CountRolled, CountRecorded, PlanRepair, RollClosedDays,
           RollMeetsLock, ReadClosed, ReadOpen, ReadDirect, Leave, Answers
<1>8. ActiveDays = {d \in Days : readOn[d] > 0}
    BY DEF ActiveDays
<1>9. \A days \in SUBSET Days : Total(readOn, days) \in Nat /\ Total(dayStats, days) \in Nat
    BY <1>1, CountedFinite
<1>10. ~RollClosedDays(q) => (Fine <=> Tells(y, readOn, dayStats) /\ Suffices(y, readOn, dayStats))
    BY <1>7
<1>11. x.before \in SUBSET Days /\ x.closed \in SUBSET Days /\ x.rolled \in Nat
    BY <1>1 DEF StatRead
<1>12. ~x.crossed => x.before \subseteq {d \in Days : readOn[d] > 0}
    BY <1>2 DEF Tells
<1>13. /\ AskStats(q) => x.phase = "idle"
       /\ CountRolled(q) => x.phase = "counting"
       /\ CountRecorded(q) => x.phase = "comparing"
       /\ PlanRepair(q) => x.phase = "planning"
       /\ RollClosedDays(q) \/ RollMeetsLock(q) => x.phase = "rolling"
       /\ ReadClosed(q) => x.phase = "closed"
       /\ ReadOpen(q) => x.phase = "open"
       /\ ReadDirect(q) => x.phase \in {"direct", "shortOfOne"}
       /\ Leave(q) => x.phase = "answered"
    BY DEF AskStats, CountRolled, CountRecorded, PlanRepair, RollClosedDays, RollMeetsLock,
           ReadClosed, ReadOpen, ReadDirect, Leave
<1>14. RollClosedDays(q) => /\ dayStats' = Rolled(Head(x.plan), x.now)
                            /\ ~(AskStats(q) \/ CountRolled(q) \/ CountRecorded(q) \/ PlanRepair(q))
                            /\ ~(ReadClosed(q) \/ ReadOpen(q) \/ ReadDirect(q) \/ Leave(q))
    BY <1>13 DEF RollClosedDays
<1>15. RollClosedDays(q) /\ RollMeetsLock(q) => FALSE
    <2> SUFFICES ASSUME RollClosedDays(q), RollMeetsLock(q) PROVE FALSE
        OBVIOUS
    <2> DEFINE on == [statRead EXCEPT ![q].plan = Tail(@), ![q].phase = "counting"]
    <2>1. statRead' = on \/ statRead' = Crossed(on)
        BY DEF RollClosedDays
    <2>2. statRead' = [statRead EXCEPT ![q].phase = "direct"]
        BY DEF RollMeetsLock, GoesTo
    <2>3. on[q].phase = "counting" /\ Crossed(on)[q].phase = on[q].phase
        BY <1>1 DEF BooksInv, StatsTypeOK, StatRead, Crossed
    <2>4. statRead'[q].phase = "direct"
        BY <2>2, <1>1 DEF BooksInv, StatsTypeOK, StatRead
    <2> HIDE DEF on
    <2> QED BY <2>1, <2>3, <2>4
<1> HIDE DEF x, y
<1>16. ASSUME AskStats(q), NEW phase \in {"counting", "direct"},
              y = [NoRead EXCEPT !.phase = phase, !.now = clockDay, !.before = ActiveDays]
       PROVE  Fine
    <2>1. y.phase = phase /\ y.before = ActiveDays /\ y.planned = FALSE
        BY <1>16 DEF NoRead
    <2> QED BY <2>1, <1>8, <1>10, <1>14, <1>16 DEF Tells, Suffices
<1>17. ASSUME CountRolled(q),
              y = [x EXCEPT !.phase = "comparing", !.rolled = Total(dayStats, Days)]
       PROVE  Fine
    <2>1. /\ y.phase = "comparing" /\ y.rolled = Total(dayStats, Days) /\ y.before = x.before
          /\ y.planned = x.planned /\ y.plan = x.plan /\ y.disturbed = x.disturbed
          /\ y.now = x.now /\ ~x.crossed
        BY <1>1, <1>17, <1>0 DEF StatRead
    <2>2. Total(dayStats, Days) \in Nat
        BY <1>9
    <2>3. Tells(y, readOn, dayStats)
        BY <2>1, <2>2, <1>12 DEF Tells
    <2>4. Suffices(y, readOn, dayStats)
        BY <2>1, <1>2, <1>13, <1>17 DEF Suffices
    <2> QED BY <2>3, <2>4, <1>10, <1>14, <1>17
<1>18. ASSUME CountRecorded(q),
              y = [x EXCEPT !.phase = IF CountsEverySession(q) THEN "closed"
                                      ELSE IF ~x.planned THEN "planning"
                                      ELSE IF x.plan # <<>> THEN "rolling" ELSE "shortOfOne"]
       PROVE  Fine
    <2>1. /\ y.phase = IF CountsEverySession(q) THEN "closed"
                       ELSE IF ~x.planned THEN "planning"
                       ELSE IF x.plan # <<>> THEN "rolling" ELSE "shortOfOne"
          /\ y.before = x.before /\ y.now = x.now /\ y.disturbed = x.disturbed
          /\ ~x.crossed
        BY <1>1, <1>18, <1>0 DEF StatRead
    <2>8. x.phase = "comparing" /\ x.now = clockDay
        BY <2>1, <1>3, <1>13, <1>18 DEF UnderWay
    <2>2. CountsEverySession(q) <=> x.rolled = Total(readOn, {d \in Days : d < clockDay})
        BY <2>8 DEF CountsEverySession, x
    <2>3. x.rolled <= Total(dayStats, Days)
        BY <2>1, <2>8, <1>2 DEF Tells
    <2>4. ASSUME CountsEverySession(q) PROVE \A d \in x.before : d < x.now => dayStats[d] > 0
        <3>1. Level(readOn, dayStats, clockDay)
            BY <2>2, <2>3, <2>4, <1>1, <1>4, FullCountIsLevel
        <3> QED BY <3>1, <2>1, <2>8, <1>11, <1>12 DEF Level
    <2>5. Tells(y, readOn, dayStats)
        BY <2>1, <2>4, <1>12 DEF Tells
    <2>6. ASSUME ~CountsEverySession(q), x.planned, x.plan = <<>> PROVE x.disturbed
        <3> SUFFICES ASSUME ~x.disturbed PROVE FALSE
            OBVIOUS
        <3>1. Level(readOn, dayStats, clockDay) /\ x.rolled = Total(dayStats, Days)
            BY <2>1, <2>6, <2>8, <1>2 DEF Suffices
        <3>2. Total(dayStats, Days) = Total(readOn, {d \in Days : d < clockDay})
            BY <3>1, <1>1, LevelCounts
        <3> QED BY <3>1, <3>2, <2>2, <2>6
    <2>7. Suffices(y, readOn, dayStats)
        BY <2>1, <2>6 DEF Suffices
    <2> QED BY <2>5, <2>7, <1>10, <1>14, <1>18
<1>19. ASSUME PlanRepair(q),
              y = [x EXCEPT !.phase = "rolling", !.planned = TRUE, !.plan = RepairPlan(x.now)]
       PROVE  Fine
    <2>1. y.phase = "rolling" /\ y.before = x.before /\ ~x.crossed
        BY <1>1, <1>19, <1>0 DEF StatRead
    <2> QED BY <2>1, <1>10, <1>12, <1>14, <1>19 DEF Tells, Suffices
<1>20. ASSUME RollClosedDays(q),
              y = [x EXCEPT !.phase = "counting", !.plan = Tail(x.plan),
                            !.crossed = x.crossed \/ x.now # clockDay]
       PROVE  Fine
    <2>1. /\ y.phase = "counting" /\ y.plan = Tail(x.plan) /\ y.before = x.before
          /\ y.now = x.now /\ ~x.crossed
        BY <1>1, <1>20, <1>0 DEF StatRead
    <2>2. x.plan \in Seq(Days) /\ x.plan # <<>> /\ x.plan[Len(x.plan)] = 0
        BY <1>1, <1>2, <1>13, <1>20 DEF StatRead, PlanEnds
    <2>3. ASSUME y.plan = <<>> PROVE Level(readOn, dayStats', x.now)
        <3>1. Len(x.plan) = 1 /\ Head(x.plan) = 0
            <4> DEFINE plan == x.plan
            <4>1. plan \in Seq(Days) /\ plan # <<>> /\ plan[Len(plan)] = 0 /\ Tail(plan) = <<>>
                BY <2>1, <2>2, <2>3
            <4> HIDE DEF plan
            <4>2. Len(Tail(plan)) = Len(plan) - 1 /\ Len(plan) \in Nat
                BY <4>1
            <4>3. Len(plan) = 1
                <5>1. Len(<<>>) = 0 /\ Len(Tail(plan)) = Len(<<>>)
                    BY <4>1
                <5> QED BY <4>2, <5>1
            <4>4. Head(plan) = plan[1]
                BY <4>1
            <4> QED BY <4>1, <4>3, <4>4 DEF plan
        <3>2. \A d \in Days : ~(d < 0)
            BY <1>5
        <3>3. dayStats' = Rolled(0, x.now)
            BY <3>1, <1>14, <1>20
        <3> QED BY <3>2, <3>3 DEF Rolled, Level
    <2>4. Tells(y, readOn, dayStats')
        BY <2>1, <1>12 DEF Tells
    <2>5. Suffices(y, readOn, dayStats')
        BY <2>1, <2>3 DEF Suffices
    <2> QED BY <2>4, <2>5, <1>7
<1>21. ASSUME RollMeetsLock(q), y = [x EXCEPT !.phase = "direct"] PROVE Fine
    <2>1. y.phase = "direct" /\ y.before = x.before /\ ~x.crossed
        BY <1>1, <1>21, <1>0 DEF StatRead
    <2> QED BY <2>1, <1>10, <1>12, <1>15, <1>21 DEF Tells, Suffices
<1>22. ASSUME ReadClosed(q),
              y = [x EXCEPT !.phase = "open", !.closed = {d \in Days : dayStats[d] > 0}]
       PROVE  Fine
    <2>1. /\ y.phase = "open" /\ y.before = x.before /\ y.now = x.now
          /\ y.closed = {d \in Days : dayStats[d] > 0} /\ ~x.crossed
        BY <1>1, <1>22, <1>0 DEF StatRead
    <2>2. \A d \in x.before : d < x.now => dayStats[d] > 0
        BY <2>1, <1>2, <1>13, <1>22 DEF Tells
    <2>3. {d \in Days : dayStats[d] > 0} \subseteq {d \in Days : readOn[d] > 0}
        BY <1>4, <1>5
    <2> QED BY <2>1, <2>2, <2>3, <1>10, <1>11, <1>12, <1>14, <1>22 DEF Tells, Suffices
<1>23. ASSUME ReadOpen(q),
              y = Answered(x, x.closed \cup {d \in ActiveDays : d >= x.now})
       PROVE  Fine
    <2>1. /\ y.phase = "answered" /\ y.before = x.before
          /\ y.answer = x.closed \cup {d \in ActiveDays : d >= x.now} /\ ~x.crossed
        BY <1>23, <1>0 DEF Answered, NoRead
    <2>2. /\ x.closed \subseteq {d \in Days : readOn[d] > 0}
          /\ \A d \in x.before : d < x.now => d \in x.closed
        BY <2>1, <1>2, <1>13, <1>23 DEF Tells
    <2>3. x.now \in Nat
        BY <1>1, StatsAssumption DEF StatRead, Days
    <2>4. x.before \subseteq y.answer
        BY <2>1, <2>2, <2>3, <1>5, <1>8, <1>12
    <2> QED BY <2>1, <2>2, <2>4, <1>8, <1>10, <1>12, <1>14, <1>23 DEF Tells, Suffices
<1>24. ASSUME ReadDirect(q), y = Answered(x, ActiveDays)
       PROVE  Fine
    <2>1. y.phase = "answered" /\ y.before = x.before /\ y.answer = ActiveDays /\ ~x.crossed
        BY <1>24, <1>0 DEF Answered, NoRead
    <2> QED BY <2>1, <1>8, <1>10, <1>12, <1>14, <1>24 DEF Tells, Suffices
<1>25. ASSUME Leave(q), y = NoRead PROVE Fine
    <2>1. y.phase = "idle" /\ y.before = {}
        BY <1>25 DEF NoRead
    <2> QED BY <2>1, <1>10, <1>14, <1>25 DEF Tells, Suffices
<1>26. Fine
    <2> HIDE DEF Fine
    <2> QED BY <1>6, <1>16, <1>17, <1>18, <1>19, <1>20, <1>21, <1>22, <1>23, <1>24, <1>25
               DEF ReadMoves, x
<1> QED BY <1>26 DEF y

\* A request that no day's change has reached stays of today ...
LEMMA WithinStep ==
    ASSUME BooksInv, WithinItsDay, [StatsNext]_statsVars
    PROVE  WithinItsDay'
<1> SUFFICES ASSUME NEW q \in StatReaders, UnderWay(statRead'[q]), ~statRead'[q].crossed
             PROVE  statRead'[q].now = clockDay'
    BY DEF WithinItsDay
<1>1. StatsTypeOK /\ statRead[q] \in StatRead
    BY DEF BooksInv, StatsTypeOK
<1>2. CASE ReadStep(q)
    <2> DEFINE x == statRead[q]
               y == statRead'[q]
    <2>1. clockDay' = clockDay
        BY <1>2 DEF ReadStep, AskStats, CountRolled, CountRecorded, PlanRepair, RollClosedDays,
                    RollMeetsLock, ReadClosed, ReadOpen, ReadDirect, Leave, Answers
    <2>2. ReadMoves(q, y)
        BY <1>1, <1>2, ReadMovesOne
    <2>3. UnderWay(y) /\ ~y.crossed
        OBVIOUS
    <2>4. UnderWay(x) /\ ~x.crossed => x.now = clockDay
        BY DEF WithinItsDay
    <2>5. x \in StatRead
        BY <1>1
    <2> HIDE DEF y
    <2> DEFINE Kept == UnderWay(x) /\ y.now = x.now /\ (x.crossed => y.crossed)
    <2>6. ASSUME NEW phase \in {"counting", "direct"},
                 y = [NoRead EXCEPT !.phase = phase, !.now = clockDay, !.before = ActiveDays]
          PROVE  y.now = clockDay
        BY <2>6 DEF NoRead
    <2>7. ASSUME CountRolled(q),
                 y = [x EXCEPT !.phase = "comparing", !.rolled = Total(dayStats, Days)]
          PROVE  Kept
        BY <2>5, <2>7 DEF CountRolled, UnderWay, StatRead
    <2>8. ASSUME CountRecorded(q),
                 y = [x EXCEPT !.phase = IF CountsEverySession(q) THEN "closed"
                                         ELSE IF ~x.planned THEN "planning"
                                         ELSE IF x.plan # <<>> THEN "rolling" ELSE "shortOfOne"]
          PROVE  Kept
        BY <2>5, <2>8 DEF CountRecorded, UnderWay, StatRead
    <2>9. ASSUME PlanRepair(q),
                 y = [x EXCEPT !.phase = "rolling", !.planned = TRUE, !.plan = RepairPlan(x.now)]
          PROVE  Kept
        BY <2>5, <2>9 DEF PlanRepair, UnderWay, StatRead
    <2>10. ASSUME RollClosedDays(q),
                  y = [x EXCEPT !.phase = "counting", !.plan = Tail(x.plan),
                                !.crossed = x.crossed \/ x.now # clockDay]
           PROVE  Kept
        BY <2>5, <2>10 DEF RollClosedDays, UnderWay, StatRead
    <2>11. ASSUME RollMeetsLock(q), y = [x EXCEPT !.phase = "direct"] PROVE Kept
        BY <2>5, <2>11 DEF RollMeetsLock, UnderWay, StatRead
    <2>12. ASSUME ReadClosed(q),
                  y = [x EXCEPT !.phase = "open", !.closed = {d \in Days : dayStats[d] > 0}]
           PROVE  Kept
        BY <2>5, <2>12 DEF ReadClosed, UnderWay, StatRead
    <2>13. y = NoRead => ~UnderWay(y)
        BY DEF NoRead, UnderWay
    <2>14. ASSUME NEW days, y = Answered(x, days) PROVE ~UnderWay(y)
        BY <2>14 DEF Answered, NoRead, UnderWay
    <2>15. Kept => y.now = clockDay
        BY <2>3, <2>4
    <2> HIDE DEF Kept
    <2> DEFINE days == x.closed \cup {d \in ActiveDays : d >= x.now}
    <2> HIDE DEF x
    <2>16. \/ y.now = clockDay \/ Kept
           \/ y = Answered(x, days) \/ y = Answered(x, ActiveDays) \/ y = NoRead
        BY <2>2, <2>6, <2>7, <2>8, <2>9, <2>10, <2>11, <2>12 DEF ReadMoves, x
    <2> HIDE DEF days
    <2>17. y.now = clockDay
        BY <2>3, <2>13, <2>14, <2>15, <2>16
    <2> QED BY <2>1, <2>17 DEF y
<1>3. CASE ~ReadStep(q)
    <2>1. Overtaken(statRead[q], statRead'[q])
        BY <1>1, <1>3, OthersOvertaken
    <2>2. UnderWay(statRead[q]) /\ ~statRead[q].crossed /\ statRead'[q].now = statRead[q].now
        BY <1>1, <2>1, OvertakenFields
    <2>3. clockDay' = clockDay
        BY <1>1, <1>3, <2>2, OthersOvertaken
    <2> QED BY <2>2, <2>3 DEF WithinItsDay
<1> QED BY <1>2, <1>3

\* ... and what it has seen, and will see, is what the sessions tell.
LEMMA ReadsStep == BooksInv /\ ReadsInv /\ [StatsNext]_statsVars => ReadsInv'
<1> SUFFICES ASSUME BooksInv, ReadsInv, [StatsNext]_statsVars PROVE ReadsInv'
    OBVIOUS
<1>1. BooksInv'
    BY BooksStep
<1>2. WithinItsDay'
    BY WithinStep DEF ReadsInv
<1>3. ASSUME NEW q \in StatReaders, ~statRead'[q].crossed
      PROVE  /\ Tells(statRead'[q], readOn', dayStats')
             /\ Suffices(statRead'[q], readOn', dayStats')
    BY <1>1, <1>3, OwnReads, OvertakenReads
<1> QED BY <1>2, <1>3 DEF ReadsInv

\* However late sessions are delivered, and whatever other requests and the
\* operator's rebuild do to the roll-up between its check and its two reads, a
\* request answers with the days of the sessions, unless it outlasts its day or
\* a repair overtakes it that outlasts its own.
THEOREM AnswersTellTheSessions == StatsSpec => []StatsTellTheSessions
<1>1. ReadsInv => StatsTellTheSessions
    BY DEF ReadsInv, StatsTellTheSessions, Tells, ActiveDays
<1> QED BY <1>1, BooksInit, BooksStep, ReadsInit, ReadsStep, PTL DEF StatsSpec

\* "A full rebuild makes the count true by construction": a request that is
\* still short of one after it was overtaken by a session, or reached by a day's
\* change, its own or that of a request that repairs.
THEOREM RebuildIsEnough == StatsSpec => []RebuildSuffices
<1>1. ReadsInv => RebuildSuffices
    BY DEF ReadsInv, RebuildSuffices, Suffices
<1> QED BY <1>1, BooksInit, BooksStep, ReadsInit, ReadsStep, PTL DEF StatsSpec
-----------------------------------------------------------------------------
(* The streak. *)

\* A set of numbers with 0 and, with each of the first ones, the next.
LEMMA UpTo ==
    ASSUME NEW N \in Nat, NEW T \in SUBSET Nat, 0 \in T, \A n \in T : n < N => n + 1 \in T
    PROVE  0..N \subseteq T
<1> SUFFICES ASSUME (0..N) \ T # {} PROVE FALSE
    OBVIOUS
<1> DEFINE m == Min((0..N) \ T)
<1>1. m \in (0..N) \ T /\ \A n \in (0..N) \ T : m <= n
    BY LeastOf
<1> HIDE DEF m
<1>2. m - 1 \in 0..N /\ m - 1 < N /\ m - 1 + 1 = m /\ ~(m <= m - 1)
    BY <1>1
<1>3. m - 1 \in T
    BY <1>1, <1>2
<1> QED BY <1>1, <1>2, <1>3

\* The greatest is the one that none exceeds.
LEMMA MaxIs ==
    ASSUME NEW S \in SUBSET Int, NEW m \in S, \A x \in S : x <= m
    PROVE  Max(S) = m
<1>1. \E x \in S : \A y \in S : x >= y
    OBVIOUS
<1>2. PICK k \in S : k = Max(S) /\ \A y \in S : k >= y
    BY <1>1 DEF Max
<1>3. k >= m /\ k <= m /\ k \in Int /\ m \in Int
    BY <1>2
<1> QED BY <1>2, <1>3

\* What the loop has after the active days among the first n.
Turn(active, runs, n) == IF n - 1 \in active THEN StreakStep(runs, n - 1) ELSE runs
Start == [run |-> 0, longest |-> 0, last |-> NoDay]
Course(active, N, f) ==
    f = [n \in 0..N |-> IF n = 0 THEN Start ELSE Turn(active, f[n - 1], n)]

\* A loop of any number of turns has a course.
LEMMA CourseExists ==
    ASSUME NEW active, NEW N \in Nat
    PROVE  \E f : Course(active, N, f)
<1> DEFINE T == {m \in Nat : \E f : Course(active, m, f)}
<1>1. 0 \in T
    <2>1. Course(active, 0, [n \in 0..0 |-> Start])
        BY DEF Course
    <2> QED BY <2>1
<1>2. ASSUME NEW m \in T PROVE m + 1 \in T
    <2>1. PICK f : Course(active, m, f)
        OBVIOUS
    <2> DEFINE g == [n \in 0..(m + 1) |-> IF n = m + 1 THEN Turn(active, f[m], m + 1) ELSE f[n]]
    <2>2. ASSUME NEW n \in 0..(m + 1)
          PROVE  g[n] = IF n = 0 THEN Start ELSE Turn(active, g[n - 1], n)
        <3>1. CASE n = m + 1
            <4>1. n - 1 = m /\ m \in 0..(m + 1) /\ m # m + 1 /\ n # 0
                BY <3>1
            <4>2. g[m] = f[m]
                BY <4>1
            <4> QED BY <3>1, <4>1, <4>2
        <3>2. CASE n # m + 1 /\ n # 0
            <4>1. n \in 0..m /\ n - 1 \in 0..(m + 1) /\ n - 1 # m + 1
                BY <3>2
            <4>2. g[n] = f[n] /\ g[n - 1] = f[n - 1]
                BY <4>1, <3>2
            <4>3. f[n] = Turn(active, f[n - 1], n)
                BY <2>1, <4>1, <3>2 DEF Course
            <4> QED BY <4>2, <4>3, <3>2
        <3>3. CASE n = 0
            <4>1. 0 \in 0..m /\ 0 # m + 1
                OBVIOUS
            <4>2. f[0] = Start
                BY <2>1, <4>1 DEF Course
            <4> QED BY <3>3, <4>1, <4>2
        <3> QED BY <3>1, <3>2, <3>3
    <2>3. DOMAIN g = 0..(m + 1) /\ g = [n \in 0..(m + 1) |-> g[n]]
        OBVIOUS
    <2> HIDE DEF g
    <2>4. g = [n \in 0..(m + 1) |-> IF n = 0 THEN Start ELSE Turn(active, g[n - 1], n)]
        BY <2>2, <2>3
    <2>5. Course(active, m + 1, g)
        BY <2>4 DEF Course
    <2> QED BY <2>5
<1>3. N \in 0..N /\ T \in SUBSET Nat
    OBVIOUS
<1> HIDE DEF T
<1>4. N \in T
    BY <1>1, <1>2, <1>3, UpTo
<1> QED BY <1>4 DEF T

\* The loop of the code is the last of one.
LEMMA LoopFollows ==
    ASSUME NEW active
    PROVE  \E f : Course(active, LastDay + 1, f) /\ StreakLoop(active) = f[LastDay + 1]
<1> DEFINE f == CHOOSE f : Course(active, LastDay + 1, f)
<1>1. Course(active, LastDay + 1, f)
    BY CourseExists, StatsAssumption
<1>2. StreakLoop(active) = f[LastDay + 1]
    BY DEF StreakLoop, Course, Turn, Start
<1> QED BY <1>1, <1>2
\* Of two, ...
LEMMA MaxOfTwo ==
    ASSUME NEW a \in Int, NEW b \in Int
    PROVE  Max({a, b}) = IF a >= b THEN a ELSE b
<1>1. CASE a >= b
    BY <1>1, MaxIs
<1>2. CASE ~(a >= b)
    BY <1>2, MaxIs
<1> QED BY <1>1, <1>2

\* What is so after the active days among the first n: the last one, the run
\* that ends there, and the longest of all.
IsRun(active, a, b) == a \in Days /\ b \in Days /\ a <= b /\ a..b \subseteq active
SoFar(active, n, runs) ==
    /\ runs.run \in Nat /\ runs.longest \in Nat
    /\ runs.last = NoDay =>
         /\ runs.longest = 0
         /\ \A d \in active : d >= n
    /\ runs.last # NoDay =>
         /\ runs.last \in active /\ runs.last < n
         /\ \A d \in active : d < n => d <= runs.last
         /\ runs.run > 0
         /\ runs.last - runs.run \notin active
         /\ IsRun(active, runs.last - runs.run + 1, runs.last)
         /\ \E a, b \in Days : IsRun(active, a, b) /\ b < n /\ runs.longest = b - a + 1
         /\ \A a, b \in Days : IsRun(active, a, b) /\ b < n => b - a + 1 <= runs.longest

\* A turn keeps it so.
LEMMA TurnHolds ==
    ASSUME NEW active \in SUBSET Days, NEW n \in 1..(LastDay + 1), NEW runs,
           SoFar(active, n - 1, runs)
    PROVE  SoFar(active, n, Turn(active, runs, n))
<1> DEFINE d == n - 1
<1>1. d \in Days /\ d \in Nat /\ n = d + 1
    BY StatsAssumption DEF Days
<1>2. \A k \in Days : k \in Nat
    BY DEF Days
<1>3. \A a, b \in Days : IsRun(active, a, b) => b \in active
    BY <1>2 DEF IsRun
<1>4. NoDay = -1 /\ \A k \in active : k # NoDay /\ k \in Days
    BY <1>2 DEF NoDay
<1> HIDE DEF d
<1>5. CASE d \notin active
    <2>1. Turn(active, runs, n) = runs
        BY <1>1, <1>5 DEF Turn, d
    <2>2. \A k \in active : k < n => k < d
        BY <1>1, <1>2, <1>5
    <2>3. \A k \in active : k >= d => k >= n
        BY <1>1, <1>2, <1>5
    <2>4. SoFar(active, d, runs)
        BY DEF d
    <2>5. \A a, b \in Days : IsRun(active, a, b) /\ b < n => b < d
        BY <1>3, <2>2
    <2>6. \A k \in Days : k < d => k < n
        BY <1>1, <1>2
    <2> QED BY <2>1, <2>2, <2>3, <2>4, <2>5, <2>6, <1>4 DEF SoFar
<1>6. CASE d \in active
    <2> DEFINE goesOn == runs.last # NoDay /\ d - runs.last = 1
               run == IF goesOn THEN runs.run + 1 ELSE 1
               longest == Max({run, runs.longest})
    <2>1. Turn(active, runs, n) = [run |-> run, longest |-> longest, last |-> d]
        BY <1>1, <1>6 DEF Turn, d, StreakStep
    <2>2. SoFar(active, d, runs)
        BY DEF d
    <2>3. run \in Nat /\ run > 0
        BY <2>2 DEF SoFar
    <2>4. longest = IF run >= runs.longest THEN run ELSE runs.longest
        BY <2>2, <2>3, MaxOfTwo DEF SoFar
    <2>5. longest \in Nat /\ run <= longest /\ runs.longest <= longest
        BY <2>2, <2>3, <2>4 DEF SoFar
    <2>6. ASSUME goesOn PROVE runs.last = d - 1
        <3>1. runs.last \in active
            BY <2>2, <2>6 DEF SoFar
        <3>2. runs.last \in Nat
            BY <3>1, <1>2, <1>4
        <3> QED BY <2>6, <3>2, <1>1
    <2>7. IsRun(active, d - run + 1, d)
        <3>1. CASE goesOn
            <4>1. run = runs.run + 1 /\ d - run + 1 = runs.last - runs.run + 1
                BY <3>1, <2>2, <2>6, <1>1, <1>2 DEF SoFar
            <4>2. IsRun(active, d - run + 1, d - 1)
                BY <3>1, <4>1, <2>2, <2>6 DEF SoFar
            <4> HIDE DEF run
            <4>3. ASSUME NEW k \in (d - run + 1)..d PROVE k \in active
                <5>1. k = d \/ k \in (d - run + 1)..(d - 1)
                    BY <1>1, <2>3
                <5> QED BY <5>1, <4>2, <1>6 DEF IsRun
            <4> QED BY <4>2, <4>3, <1>1, <2>3 DEF IsRun
        <3>2. CASE ~goesOn
            <4>1. run = 1 /\ d - run + 1 = d
                BY <3>2, <1>1
            <4>2. d..d = {d} /\ d <= d
                BY <1>1
            <4> QED BY <4>1, <4>2, <1>1, <1>6 DEF IsRun
        <3> QED BY <3>1, <3>2
    <2>8. d - run \notin active
        <3>1. CASE goesOn
            <4>1. d - run = runs.last - runs.run
                BY <3>1, <2>2, <2>6, <1>1, <1>2 DEF SoFar
            <4> QED BY <3>1, <4>1, <2>2 DEF SoFar
        <3>2. CASE ~goesOn
            <4>1. SUFFICES ASSUME d - 1 \in active PROVE FALSE
                BY <3>2
            <4>2. runs.last # NoDay
                BY <4>1, <2>2, <1>1 DEF SoFar
            <4>3. /\ runs.last \in active /\ runs.last < d
                  /\ \A k \in active : k < d => k <= runs.last
                BY <4>2, <2>2 DEF SoFar
            <4>4. runs.last \in Days
                BY <4>3, <1>4
            <4>5. runs.last \in Nat
                BY <4>4, <1>2
            <4>6. d - 1 < d
                BY <1>1
            <4> QED BY <4>1, <4>2, <4>3, <4>5, <4>6, <3>2, <1>1
        <3> QED BY <3>1, <3>2
    <2>9. ASSUME NEW a \in Days, NEW b \in Days, IsRun(active, a, b), b < n
          PROVE  b - a + 1 <= longest
        <3>1. a \in Nat /\ b \in Nat
            BY <1>2
        <3> HIDE DEF longest, run
        <3>2. CASE b < d
            <4>1. runs.last # NoDay
                BY <2>2, <2>9, <3>1, <3>2, <1>1, <1>3 DEF SoFar
            <4>2. b - a + 1 <= runs.longest
                BY <4>1, <2>2, <2>9, <3>2 DEF SoFar
            <4>3. runs.longest \in Nat
                BY <2>2 DEF SoFar
            <4> QED BY <4>2, <4>3, <2>5, <3>1
        <3>3. CASE b = d
            <4>1. ~(a <= d - run)
                <5> SUFFICES ASSUME a <= d - run PROVE FALSE
                    OBVIOUS
                <5>1. d - run \in a..b
                    BY <3>1, <3>3, <2>3, <1>1
                <5> QED BY <5>1, <2>8, <2>9 DEF IsRun
            <4> QED BY <4>1, <2>3, <2>5, <3>1, <3>3, <1>1
        <3> QED BY <3>1, <3>2, <3>3, <2>9, <1>1
    <2>10. \E a, b \in Days : IsRun(active, a, b) /\ b < n /\ longest = b - a + 1
        <3> HIDE DEF run
        <3>1. CASE run >= runs.longest
            <4>1. d - run + 1 \in Days /\ d < n /\ run = d - (d - run + 1) + 1
                BY <2>3, <2>7, <1>1 DEF IsRun
            <4> QED BY <3>1, <4>1, <2>4, <2>7, <1>1
        <3>2. CASE ~(run >= runs.longest)
            <4>1. runs.last # NoDay
                BY <3>2, <2>2, <2>3 DEF SoFar
            <4>2. PICK a, b \in Days : IsRun(active, a, b) /\ b < d /\ runs.longest = b - a + 1
                BY <4>1, <2>2 DEF SoFar
            <4>3. b < n
                BY <4>2, <1>1, <1>2
            <4> QED BY <3>2, <4>2, <4>3, <2>4
        <3> QED BY <3>1, <3>2
    <2>11. d # NoDay /\ d < n /\ \A k \in active : k < n => k <= d
        BY <1>1, <1>2, <1>4, <1>6
    <2> HIDE DEF run, longest
    <2> QED BY <2>1, <2>3, <2>5, <2>7, <2>8, <2>9, <2>10, <2>11, <1>6 DEF SoFar
<1> QED BY <1>5, <1>6
\* So it is after all of them.
LEMMA LoopHolds ==
    ASSUME NEW active \in SUBSET Days
    PROVE  SoFar(active, LastDay + 1, StreakLoop(active))
<1>1. PICK f : Course(active, LastDay + 1, f) /\ StreakLoop(active) = f[LastDay + 1]
    BY LoopFollows
<1> DEFINE T == {n \in Nat : n <= LastDay + 1 => SoFar(active, n, f[n])}
<1>2. LastDay + 1 \in Nat /\ 0 \in 0..(LastDay + 1)
    BY StatsAssumption
<1>3. 0 \in T
    <2>1. f[0] = Start
        BY <1>1, <1>2 DEF Course
    <2>2. \A d \in active : d >= 0
        BY DEF Days
    <2> QED BY <2>1, <2>2 DEF SoFar, Start
<1>4. ASSUME NEW n \in T, n < LastDay + 1 PROVE n + 1 \in T
    <2>1. n + 1 \in 1..(LastDay + 1) /\ n + 1 - 1 = n /\ n + 1 # 0
        BY <1>2, <1>4
    <2>2. SoFar(active, n, f[n])
        BY <1>2, <1>4
    <2>3. f[n + 1] = Turn(active, f[n], n + 1)
        <3>1. n + 1 \in 0..(LastDay + 1)
            BY <2>1
        <3>2. \A k \in 0..(LastDay + 1) :
                 f[k] = IF k = 0 THEN Start ELSE Turn(active, f[k - 1], k)
            <4> HIDE DEF T
            <4> QED BY <1>1, Zenon DEF Course
        <3> QED BY <2>1, <3>1, <3>2
    <2>4. SoFar(active, n + 1 - 1, f[n])
        BY <2>1, <2>2
    <2>5. SoFar(active, n + 1, f[n + 1])
        BY <2>1, <2>3, <2>4, TurnHolds
    <2> QED BY <2>5
<1>5. T \in SUBSET Nat
    OBVIOUS
<1> HIDE DEF T
<1>6. LastDay + 1 \in T
    BY <1>2, <1>3, <1>4, <1>5, UpTo
<1> QED BY <1>1, <1>2, <1>6 DEF T

\* The days from a to b, all active, are a run; ...
LEMMA RunOfDays ==
    ASSUME NEW active \in SUBSET Days, NEW a \in Days, NEW b \in Days, IsRun(active, a, b)
    PROVE  /\ a..b \in Runs(active)
           /\ Max(a..b) = b /\ Cardinality(a..b) = b - a + 1
<1>1. a \in Nat /\ b \in Nat /\ a <= b
    BY DEF IsRun, Days
<1>2. b \in a..b /\ a..b \in SUBSET Int /\ \A k \in a..b : k <= b
    BY <1>1
<1>3. Max(a..b) = b
    <2> DEFINE r == a..b
    <2> HIDE DEF r
    <2>1. b \in r /\ r \in SUBSET Int /\ \A k \in r : k <= b
        BY <1>2 DEF r
    <2>2. Max(r) = b
        BY <2>1, MaxIs
    <2> QED BY <2>2 DEF r
<1>4. a \in a..b /\ a..b \in SUBSET Nat /\ \A k \in a..b : a <= k
    BY <1>1
<1>5. Min(a..b) = a
    <2> DEFINE r == a..b
    <2> HIDE DEF r
    <2>1. a \in r /\ r \in SUBSET Nat /\ \A k \in r : a <= k
        BY <1>4 DEF r
    <2>2. Min(r) \in r /\ Min(r) <= a
        BY <2>1, LeastOf
    <2>3. Min(r) = a
        <3> DEFINE m == Min(r)
        <3>1. m \in Nat /\ m <= a /\ a <= m
            BY <2>1, <2>2
        <3> HIDE DEF m
        <3>2. m = a
            BY <3>1, <1>1
        <3> QED BY <3>2 DEF m
    <2> QED BY <2>3 DEF r
<1>6. Cardinality(a..b) = b - a + 1
    BY <1>1, FS_Interval
<1>7. a..b # {} /\ a..b \subseteq active
    BY <1>2 DEF IsRun
<1> QED BY <1>1, <1>3, <1>5, <1>6, <1>7 DEF Runs

\* ... and a set of days that is as large as it is wide is one of these.
LEMMA RunsAreRuns ==
    ASSUME NEW active \in SUBSET Days, NEW r \in Runs(active)
    PROVE  \E a, b \in Days : /\ IsRun(active, a, b) /\ r = a..b
                              /\ Max(r) = b /\ Cardinality(r) = b - a + 1
<1>1. \A k \in Days : k \in Nat
    BY DEF Days
<1>3. \E a, b \in Days : IsRun(active, a, b) /\ r = a..b
    <2>1. /\ r \in SUBSET active /\ r \in SUBSET Days /\ r \in SUBSET Nat /\ r # {}
          /\ Max(r) - Min(r) + 1 = Cardinality(r)
        BY <1>1 DEF Runs
    <2> DEFINE a == Min(r)
               b == Max(r)
    <2>2. /\ a \in r /\ b \in r /\ \A k \in r : a <= k
          /\ \A k \in r : b >= k
        BY <2>1, LeastOf, LastOfDays
    <2> HIDE DEF a, b
    <2>3. a \in Nat /\ b \in Nat /\ a <= b
        BY <2>1, <2>2
    <2>4. r \subseteq a..b
        BY <2>1, <2>2, <2>3
    <2>5. IsFiniteSet(a..b) /\ Cardinality(a..b) = b - a + 1
        BY <2>3, FS_Interval
    <2>6. Cardinality(r) = b - a + 1
        BY <2>1 DEF a, b
    <2>7. r = a..b
        BY <2>4, <2>5, <2>6, FS_Subset
    <2> QED BY <2>1, <2>2, <2>3, <2>7 DEF IsRun
<1> QED BY <1>3, RunOfDays

\* The loop counts the longest run of days and the run that reaches today or
\* yesterday.
LEMMA StreakIsRight ==
    ASSUME NEW active \in SUBSET Days, NEW today \in Days
    PROVE  Streak(active, today) =
             [current |-> Longest({r \in Runs(active) :
                                     Max(r) = Max(active) /\ Max(r) >= today - 1}),
              longest |-> Longest(Runs(active))]
<1> DEFINE end == StreakLoop(active)
           Sizes(runs) == {Cardinality(r) : r \in runs}
           latest == {r \in Runs(active) : Max(r) = Max(active) /\ Max(r) >= today - 1}
<1>1. SoFar(active, LastDay + 1, end)
    BY LoopHolds
<1>2. \A k \in Days : k \in Nat /\ k < LastDay + 1
    BY StatsAssumption DEF Days
<1>3. today \in Nat
    BY <1>2
<1> HIDE DEF end
<1>4. CASE end.last = NoDay
    <2>1. active = {}
        <3> SUFFICES ASSUME NEW d \in active PROVE FALSE
            OBVIOUS
        <3>1. d >= LastDay + 1
            BY <1>1, <1>4 DEF SoFar
        <3> QED BY <3>1, <1>2, StatsAssumption
    <2>2. Runs(active) = {} /\ latest = {}
        BY <2>1 DEF Runs
    <2>3. end.longest = 0
        BY <1>1, <1>4 DEF SoFar
    <2> QED BY <2>2, <2>3, <1>4 DEF Streak, Longest, end
<1>5. CASE end.last # NoDay
    <2>1. /\ end.run \in Nat /\ end.longest \in Nat /\ end.last \in active /\ end.run > 0
          /\ end.last - end.run \notin active
          /\ IsRun(active, end.last - end.run + 1, end.last)
        BY <1>1, <1>5 DEF SoFar
    <2>2. end.last \in Nat /\ end.last \in Days
        BY <2>1, <1>2
    <2>3. \A d \in active : d <= end.last
        BY <1>1, <1>2, <1>5 DEF SoFar
    <2>4. Max(active) = end.last
        BY <2>1, <2>2, <2>3, <1>2, MaxIs
    <2>5. \A a, b \in Days : IsRun(active, a, b) => b - a + 1 <= end.longest
        BY <1>1, <1>2, <1>5 DEF SoFar
    <2>6. PICK a, b \in Days : IsRun(active, a, b) /\ end.longest = b - a + 1
        BY <1>1, <1>5 DEF SoFar
    <2>7. Longest(Runs(active)) = end.longest
        <3>1. a..b \in Runs(active) /\ Cardinality(a..b) = end.longest
            BY <2>6, RunOfDays
        <3>2. \A r \in Runs(active) : Cardinality(r) \in Int /\ Cardinality(r) <= end.longest
            BY <2>5, <1>2, RunsAreRuns
        <3>3. end.longest \in Sizes(Runs(active)) /\ Sizes(Runs(active)) \in SUBSET Int
            BY <3>1, <3>2
        <3>4. \A s \in Sizes(Runs(active)) : s <= end.longest
            BY <3>2
        <3>5. Max(Sizes(Runs(active))) = end.longest
            <4> HIDE DEF Sizes
            <4> QED BY <3>3, <3>4, MaxIs
        <3> QED BY <3>1, <3>5 DEF Longest
    <2>8. Longest(latest) = IF today - end.last <= 1 THEN end.run ELSE 0
        <3>1. CASE ~(today - end.last <= 1)
            <4>1. latest = {}
                BY <3>1, <2>2, <2>4, <1>3
            <4> QED BY <3>1, <4>1 DEF Longest
        <3>2. CASE today - end.last <= 1
            <4> DEFINE first == end.last - end.run + 1
            <4>1. first \in Days /\ IsRun(active, first, end.last) /\ end.last - first + 1 = end.run
                BY <2>1, <2>2 DEF IsRun
            <4> HIDE DEF first
            <4>2. /\ first..end.last \in Runs(active) /\ Max(first..end.last) = end.last
                  /\ Cardinality(first..end.last) = end.run
                BY <4>1, <2>2, RunOfDays
            <4>3. end.last >= today - 1
                BY <3>2, <2>2, <1>3
            <4>4. first..end.last \in latest
                BY <4>2, <4>3, <2>4
            <4>5. ASSUME NEW r \in latest PROVE Cardinality(r) \in Int /\ Cardinality(r) <= end.run
                <5>1. PICK c, k \in Days : /\ IsRun(active, c, k) /\ r = c..k
                                           /\ Max(r) = k /\ Cardinality(r) = k - c + 1
                    BY RunsAreRuns
                <5>2. k = end.last
                    BY <5>1, <2>4
                <5>3. c \in Nat /\ k \in Nat
                    BY <1>2
                <5>4. ~(c <= end.last - end.run)
                    <6> SUFFICES ASSUME c <= end.last - end.run PROVE FALSE
                        OBVIOUS
                    <6>1. end.last - end.run \in c..k
                        BY <5>2, <5>3, <2>1, <2>2
                    <6> QED BY <6>1, <5>1, <2>1 DEF IsRun
                <5> QED BY <5>1, <5>2, <5>3, <5>4, <2>1, <2>2
            <4>6. end.run \in Sizes(latest) /\ Sizes(latest) \in SUBSET Int
                BY <4>2, <4>4, <4>5
            <4>7. \A s \in Sizes(latest) : s <= end.run
                BY <4>5
            <4>8. Max(Sizes(latest)) = end.run
                <5> HIDE DEF Sizes, latest
                <5> QED BY <4>6, <4>7, MaxIs
            <4> HIDE DEF latest
            <4> QED BY <3>2, <4>4, <4>8 DEF Longest
        <3> QED BY <3>1, <3>2
    <2> HIDE DEF latest
    <2>9. Streak(active, today) = [current |-> Longest(latest), longest |-> Longest(Runs(active))]
        BY <2>7, <2>8, <1>5 DEF Streak, end
    <2> QED BY <2>9 DEF latest
<1> QED BY <1>4, <1>5
\* The streaks a request answers with are what their names say of its days.
THEOREM StreaksCount == StatsSpec => []StreakCountsDays
<1>1. BooksInv => StreakCountsDays
    <2> SUFFICES ASSUME BooksInv, NEW q \in StatReaders
                 PROVE  LET active == statRead[q].answer
                            today == statRead[q].now
                        IN  Streak(active, today) =
                              [current |-> Longest({r \in Runs(active) :
                                             Max(r) = Max(active) /\ Max(r) >= today - 1}),
                               longest |-> Longest(Runs(active))]
        BY DEF StreakCountsDays
    <2>1. statRead[q].answer \in SUBSET Days /\ statRead[q].now \in Days
        BY DEF BooksInv, StatsTypeOK, StatRead
    <2> QED BY <2>1, StreakIsRight
<1> QED BY <1>1, BooksInit, BooksStep, PTL DEF StatsSpec
=============================================================================

---------------------------- MODULE ReadingStats ----------------------------
(***************************************************************************)
(* The streak of the statistics screen and the roll-up it is read from     *)
(* (reading_stats_service.py): one profile's reading_sessions, the rows of *)
(* reading_day_stats that summarise its closed days, and the requests that *)
(* repair the roll-up before they believe it.                              *)
(*                                                                         *)
(* A statement sees what is committed when it runs (SELECTs open no        *)
(* transaction); the delete and the insert of a roll are one transaction.  *)
(* Days are numbers, a session is its day, and a day's row is its count of *)
(* sessions, which is what the checksum compares.                          *)
(***************************************************************************)
EXTENDS Integers, FiniteSets, Sequences, FiniteSetsExt

CONSTANTS
    StatReaders,     \* requests for the statistics
    LastDay,         \* bound: the last day
    RepairDays,      \* _REPAIR_DAYS
    MaxSessions,     \* bound: sessions recorded
    MaxBusy          \* bound: rolls that meet a locked database

ASSUME StatsAssumption ==
    /\ IsFiniteSet(StatReaders)
    /\ LastDay \in Nat
    /\ RepairDays \in Nat \ {0}
    /\ MaxSessions \in Nat /\ MaxBusy \in Nat

VARIABLES
    clockDay,    \* today, at the roll-up's offset
    readOn,      \* reading_sessions: how many began on each day
    dayStats,    \* reading_day_stats.sessions of each day, 0 without a row
    statRead,    \* the requests
    unread,      \* sessions still to come
    busy         \* locked databases still to come

statsVars == <<clockDay, readOn, dayStats, statRead, unread, busy>>

Days == 0..LastDay
NoDay == -1

\* Each day's first session, its second, ...; and how many there are.
Counted(counts, days) == UNION {{d} \X (1..counts[d]) : d \in days}
Total(counts, days) == Cardinality(Counted(counts, days))

ActiveDays == {d \in Days : readOn[d] > 0}

NoRead == [phase |-> "idle", now |-> 0, rolled |-> 0, planned |-> FALSE, plan |-> <<>>,
           closed |-> {}, before |-> {}, disturbed |-> FALSE, crossed |-> FALSE,
           answer |-> {}]

StatRead ==
    [phase : {"idle", "counting", "comparing", "planning", "rolling", "closed", "open",
              "direct", "shortOfOne", "answered"},
     now : Days, rolled : Nat, planned : BOOLEAN, plan : Seq(Days), closed : SUBSET Days,
     before : SUBSET Days, disturbed : BOOLEAN, crossed : BOOLEAN,
     answer : SUBSET Days]

StatsTypeOK ==
    /\ clockDay \in Days
    /\ readOn \in [Days -> 0..MaxSessions] /\ dayStats \in [Days -> 0..MaxSessions]
    /\ statRead \in [StatReaders -> StatRead]
    /\ unread \in 0..MaxSessions /\ busy \in 0..MaxBusy

-----------------------------------------------------------------------------
(* The rest of the server.                                                 *)

UnderWay(x) == x.phase \notin {"idle", "answered"}

\* The requests under way that a session or midnight overtakes.
Disturbed ==
    [q \in StatReaders |-> [statRead[q] EXCEPT !.disturbed = @ \/ UnderWay(statRead[q])]]

\* The requests under way that a day's change reaches, at midnight or through the
\* late repair of a request that has outlasted its day.
Crossed(reads) ==
    [q \in StatReaders |-> [reads[q] EXCEPT !.crossed = @ \/ UnderWay(reads[q])]]

\* save_progress records a session; its start is the phone's, who may deliver
\* it days later, or be a little ahead.
RecordSession(d) ==
    /\ unread > 0 /\ d <= clockDay + 1
    /\ unread' = unread - 1
    /\ readOn' = [readOn EXCEPT ![d] = @ + 1]
    /\ statRead' = Disturbed
    /\ UNCHANGED <<clockDay, dayStats, busy>>

Midnight ==
    /\ clockDay < LastDay
    /\ clockDay' = clockDay + 1
    /\ statRead' = Crossed(Disturbed)
    /\ UNCHANGED <<readOn, dayStats, unread, busy>>

\* Mutant of Rolled: today gets a row too.
RolledWithToday(since, now) ==
    [d \in Days |-> IF d < since THEN dayStats[d]
                    ELSE IF d <= now THEN readOn[d] ELSE 0]

\* Mutant of Rolled: the rows that were there are not deleted first.
RolledOnTop(since, now) ==
    [d \in Days |-> IF d < since THEN dayStats[d]
                    ELSE dayStats[d] + IF d < now THEN readOn[d] ELSE 0]

\* _closed_day_source over the days from since, inserted in place of the rows
\* that were there: before is exclusive, so the current day never gets a row.
Rolled(since, now) ==
    [d \in Days |-> IF d < since THEN dayStats[d]
                    ELSE IF d < now THEN readOn[d] ELSE 0]

\* backfill_reading_day_stats, the operator's rebuild.
Rebuild ==
    /\ dayStats' = Rolled(0, clockDay)
    /\ UNCHANGED <<clockDay, readOn, statRead, unread, busy>>

-----------------------------------------------------------------------------
(* One request.                                                            *)

GoesTo(q, phase) == statRead' = [statRead EXCEPT ![q].phase = phase]

\* __init__ reads the clock once.  A request at another offset, or with the
\* gate shut, answers from the sessions.
AskStats(q) ==
    /\ statRead[q].phase = "idle"
    /\ \E phase \in {"counting", "direct"} :
         statRead' = [statRead EXCEPT ![q] = [NoRead EXCEPT
                        !.phase = phase, !.now = clockDay, !.before = ActiveDays]]
    /\ UNCHANGED <<clockDay, readOn, dayStats, unread, busy>>

\* _rollup_counts_every_session: what is rolled up, then what is recorded.
CountRolled(q) ==
    /\ statRead[q].phase = "counting"
    /\ statRead' = [statRead EXCEPT ![q].phase = "comparing",
                                    ![q].rolled = Total(dayStats, Days)]
    /\ UNCHANGED <<clockDay, readOn, dayStats, unread, busy>>

\* Mutant of CountsEverySession: any roll-up is believed.
CountsSomething(q) == statRead[q].rolled > 0

CountsEverySession(q) ==
    statRead[q].rolled = Total(readOn, {d \in Days : d < statRead[q].now})

\* A short count leads to a repair; after the last one the sessions answer.
CountRecorded(q) ==
    /\ statRead[q].phase = "comparing"
    /\ GoesTo(q, IF CountsEverySession(q) THEN "closed"
                 ELSE IF ~statRead[q].planned THEN "planning"
                 ELSE IF statRead[q].plan # <<>> THEN "rolling" ELSE "shortOfOne")
    /\ UNCHANGED <<clockDay, readOn, dayStats, unread, busy>>

\* _repair_plan: the days since the last row, the trailing window, everything.
LastRolledDay ==
    LET rows == {d \in Days : dayStats[d] > 0} IN
    IF rows = {} THEN NoDay ELSE Max(rows)

RepairPlan(now) ==
    LET last == LastRolledDay
        window == IF now < RepairDays THEN 0 ELSE now - RepairDays
    IN  IF last = NoDay THEN <<0>>
        ELSE IF last >= now - 1 THEN <<window, 0>>
        ELSE <<last + 1, window, 0>>

PlanRepair(q) ==
    /\ statRead[q].phase = "planning"
    /\ statRead' = [statRead EXCEPT ![q].phase = "rolling", ![q].planned = TRUE,
                                    ![q].plan = RepairPlan(statRead[q].now)]
    /\ UNCHANGED <<clockDay, readOn, dayStats, unread, busy>>

\* _roll_closed_days from the next day of the plan, and another count.  A request
\* that has outlasted its day deletes the rows of the days closed since.
RollClosedDays(q) ==
    /\ statRead[q].phase = "rolling"
    /\ dayStats' = Rolled(Head(statRead[q].plan), statRead[q].now)
    /\ LET on == [statRead EXCEPT ![q].plan = Tail(@), ![q].phase = "counting"]
       IN  statRead' = IF statRead[q].now = clockDay THEN on ELSE Crossed(on)
    /\ UNCHANGED <<clockDay, readOn, unread, busy>>

\* A locked database: the sessions answer.
RollMeetsLock(q) ==
    /\ statRead[q].phase = "rolling" /\ busy > 0
    /\ busy' = busy - 1
    /\ GoesTo(q, "direct")
    /\ UNCHANGED <<clockDay, readOn, dayStats, unread>>

\* _active_days: the rows of the closed days, then the days from today on.
ReadClosed(q) ==
    /\ statRead[q].phase = "closed"
    /\ statRead' = [statRead EXCEPT ![q].phase = "open",
                                    ![q].closed = {d \in Days : dayStats[d] > 0}]
    /\ UNCHANGED <<clockDay, readOn, dayStats, unread, busy>>

\* A request that has its answer holds nothing else of what it read.
Answered(x, days) ==
    [NoRead EXCEPT !.phase = "answered", !.now = x.now, !.before = x.before,
                   !.crossed = x.crossed, !.answer = days]

Answers(q, days) ==
    /\ statRead' = [statRead EXCEPT ![q] = Answered(statRead[q], days)]
    /\ UNCHANGED <<clockDay, readOn, dayStats, unread, busy>>

ReadOpen(q) ==
    /\ statRead[q].phase = "open"
    /\ Answers(q, statRead[q].closed \cup {d \in ActiveDays : d >= statRead[q].now})

ReadDirect(q) ==
    /\ statRead[q].phase \in {"direct", "shortOfOne"}
    /\ Answers(q, ActiveDays)

Leave(q) ==
    /\ statRead[q].phase = "answered"
    /\ statRead' = [statRead EXCEPT ![q] = NoRead]
    /\ UNCHANGED <<clockDay, readOn, dayStats, unread, busy>>

StatsInit ==
    /\ clockDay = 0
    /\ readOn = [d \in Days |-> 0] /\ dayStats = readOn
    /\ statRead = [q \in StatReaders |-> NoRead]
    /\ unread = MaxSessions /\ busy = MaxBusy

ReadStep(q) ==
    \/ AskStats(q) \/ CountRolled(q) \/ CountRecorded(q) \/ PlanRepair(q)
    \/ RollClosedDays(q) \/ RollMeetsLock(q)
    \/ ReadClosed(q) \/ ReadOpen(q) \/ ReadDirect(q) \/ Leave(q)

StatsNext ==
    \/ \E d \in Days : RecordSession(d)
    \/ Midnight \/ Rebuild
    \/ \E q \in StatReaders : ReadStep(q)

StatsSpec == StatsInit /\ [][StatsNext]_statsVars
-----------------------------------------------------------------------------
(* The streak.                                                             *)

\* Mutant of StreakStep: a day without reading does not break a run.
StepOverAGap(runs, d) ==
    LET run == IF runs.last # NoDay /\ d - runs.last <= 2 THEN runs.run + 1 ELSE 1
    IN  [run |-> run, longest |-> Max({run, runs.longest}), last |-> d]

\* One turn of _streak's loop: the next active day goes on with the run of the
\* last one or begins another.
StreakStep(runs, d) ==
    LET run == IF runs.last # NoDay /\ d - runs.last = 1 THEN runs.run + 1 ELSE 1
    IN  [run |-> run, longest |-> Max({run, runs.longest}), last |-> d]

\* The loop over the active days, oldest first: after[n] is what it has after
\* those of the first n days.
StreakLoop(active) ==
    LET after[n \in 0..(LastDay + 1)] ==
            IF n = 0 THEN [run |-> 0, longest |-> 0, last |-> NoDay]
            ELSE IF n - 1 \in active THEN StreakStep(after[n - 1], n - 1) ELSE after[n - 1]
    IN  after[LastDay + 1]

\* The last day is part of the current streak as long as it is today or
\* yesterday.
Streak(active, today) ==
    LET end == StreakLoop(active)
    IN  [current |-> IF end.last # NoDay /\ today - end.last <= 1 THEN end.run ELSE 0,
         longest |-> end.longest]
-----------------------------------------------------------------------------
(* Properties.                                                             *)

\* Whatever the roll-up held, a request answers with the days that the
\* sessions themselves would have given it while it ran.  Two requests are
\* excepted: one that outlasts its day, and one that a repair overtakes which
\* outlasts its own.
StatsTellTheSessions ==
    \A q \in StatReaders :
        statRead[q].phase = "answered" /\ ~statRead[q].crossed =>
            /\ statRead[q].before \subseteq statRead[q].answer
            /\ statRead[q].answer \subseteq ActiveDays

\* A full rebuild makes the count true: a request that is still short after it
\* was overtaken by a session, or it outlasted its day, or a repair that
\* outlasted its own overtook it.
RebuildSuffices ==
    \A q \in StatReaders :
        statRead[q].phase = "shortOfOne" => statRead[q].disturbed \/ statRead[q].crossed

\* The streaks are what their names say of the days answered: the longest run
\* of days, and the run that reaches today or yesterday.
Runs(active) == {r \in SUBSET active : r # {} /\ Max(r) - Min(r) + 1 = Cardinality(r)}
Longest(runs) == IF runs = {} THEN 0 ELSE Max({Cardinality(r) : r \in runs})

StreakCountsDays ==
    \A q \in StatReaders :
        statRead[q].phase = "answered" =>
            LET active == statRead[q].answer
                today == statRead[q].now
            IN  Streak(active, today) =
                  [current |-> Longest({r \in Runs(active) :
                                          Max(r) = Max(active) /\ Max(r) >= today - 1}),
                   longest |-> Longest(Runs(active))]
=============================================================================

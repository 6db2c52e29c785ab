---------------------------- MODULE SourceHealth ----------------------------
(***************************************************************************)
(* Which sources answer: the failure streaks of source_health.py and the   *)
(* four that record into them - the search fan-out and a reader's own      *)
(* requests (browse_service.py), the update sweep (update_service.py) and  *)
(* the re-probe of the scheduler's tick (source_probe_service.py).         *)
(*                                                                         *)
(* Each asks some sources, loads their rows and later commits the columns  *)
(* that changed; the others, and the sources themselves, move in between.  *)
(* last_checked_at is a colour: 0 up to REFRESH_INTERVAL, 1 up to          *)
(* REPROBE_INTERVAL, 2 up to DEAD_BACKOFF, then 3; unchecked keeps the     *)
(* order in which rows were last checked.                                  *)
(***************************************************************************)
EXTENDS Integers, SequencesExt, SeqFilter

CONSTANTS
    HealthSources,
    FollowedSources,  \* those of a followed series, which the sweep asks
    SearchTiers,      \* the sets of sources a search may ask
    Recorders,        \* of "search", "traffic", "sweep", "reprobe"
    DemoteAfter,      \* DEMOTE_AFTER_FAILURES
    MaxStreak,        \* MAX_STREAK
    ProbeBatch,       \* BATCH
    MaxTurns          \* bound: sites that go or come back, timeouts, locked databases

ASSUME HealthAssumption ==
    /\ IsFiniteSet(HealthSources)
    /\ FollowedSources \subseteq HealthSources
    /\ SearchTiers \subseteq SUBSET HealthSources
    /\ Recorders \subseteq {"search", "traffic", "sweep", "reprobe"}
    /\ DemoteAfter \in Nat \ {0} /\ MaxStreak \in Nat /\ DemoteAfter <= MaxStreak
    /\ ProbeBatch \in Nat \ {0}
    /\ MaxTurns \in Nat

VARIABLES
    answers,    \* the sites that answer
    health,     \* source_health by source
    unchecked,  \* the sources with a row, the longest unchecked first
    recorder,   \* what each recorder is doing
    spaced,     \* sources with a failure of traffic within TRAFFIC_FAILURE_SPACING
    turns       \* what is left of the bound

healthVars == <<answers, health, unchecked, recorder, spaced, turns>>

NoHealth == [there |-> FALSE, streak |-> 0, age |-> 0]
NotWritten == -1
NoWrite == [kind |-> "none", streak |-> NotWritten]
Resting == [phase |-> "idle", heard |-> [s \in HealthSources |-> "none"],
            writes |-> [s \in HealthSources |-> NoWrite]]

Heard == [HealthSources -> {"none", "ok", "failed"}]
HealthWrite == [kind : {"none", "insert", "update"}, streak : NotWritten..MaxStreak]
Recorder == [phase : {"idle", "asked", "loaded"}, heard : Heard,
             writes : [HealthSources -> HealthWrite]]
HealthRow == [there : BOOLEAN, streak : 0..MaxStreak, age : 0..3]

HealthTypeOK ==
    /\ answers \subseteq HealthSources /\ spaced \subseteq HealthSources
    /\ health \in [HealthSources -> HealthRow]
    /\ unchecked \in Seq(HealthSources)
    /\ ToSet(unchecked) = {s \in HealthSources : health[s].there}
    /\ recorder \in [Recorders -> Recorder]
    /\ turns \in 0..MaxTurns

Demoted(s) == health[s].streak >= DemoteAfter

-----------------------------------------------------------------------------
(* Asking.                                                                 *)

\* What the asked sources say, where late times out although its site is up.
Hears(r, asked, late) ==
    recorder' = [recorder EXCEPT ![r] = [Resting EXCEPT !.phase = "asked",
                   !.heard = [s \in HealthSources |->
                       IF s \notin asked THEN "none"
                       ELSE IF s \in answers \ late THEN "ok" ELSE "failed"]]]

\* A timeout is a turn of the bound.
Times(late) ==
    /\ late = {} \/ turns > 0
    /\ turns' = IF late = {} THEN turns ELSE turns - 1

\* _fan_out_search asks every source of the tier.
Search(asked, late) ==
    /\ "search" \in Recorders /\ recorder["search"].phase = "idle"
    /\ asked \in SearchTiers
    /\ Times(late)
    /\ Hears("search", asked, late)
    /\ UNCHANGED <<answers, health, unchecked, spaced>>

\* A reader's own request: a timeout is no evidence, and the failures of a
\* minute are one.
Traffic(s) ==
    /\ "traffic" \in Recorders /\ recorder["traffic"].phase = "idle"
    /\ s \notin answers => s \notin spaced
    /\ spaced' = IF s \in answers THEN spaced ELSE spaced \cup {s}
    /\ Hears("traffic", {s}, {})
    /\ UNCHANGED <<answers, health, unchecked, turns>>

MinuteOver(s) ==
    /\ s \in spaced
    /\ spaced' = spaced \ {s}
    /\ UNCHANGED <<answers, health, unchecked, recorder, turns>>

\* run_check has heard some of the followed sources, before its deadline.
SweepEnds(asked, late) ==
    /\ "sweep" \in Recorders /\ recorder["sweep"].phase = "idle"
    /\ asked \subseteq FollowedSources
    /\ Times(late)
    /\ Hears("sweep", asked, late)
    /\ UNCHANGED <<answers, health, unchecked, spaced>>

\* Mutant of Due: a source at the ceiling is left alone.
DueUnlessDead(s) ==
    \/ ~health[s].there
    \/ health[s].age >= 2 /\ health[s].streak < MaxStreak

\* select_reprobe_targets: never seen, or unchecked for long enough.
Due(s) ==
    \/ ~health[s].there
    \/ health[s].age >= IF health[s].streak = MaxStreak THEN 3 ELSE 2

\* The due sources in the order they are asked: those never seen come first.
ProbeOrder ==
    SetToSeq({s \in HealthSources : ~health[s].there})
      \o Keeping(unchecked, {s \in HealthSources : Due(s)})

\* reprobe_sources, which may stop at its budget after the first.
Reprobe(late) ==
    /\ "reprobe" \in Recorders /\ recorder["reprobe"].phase = "idle"
    /\ Times(late)
    /\ \E n \in 1..Len(ProbeOrder) :
         /\ n <= ProbeBatch
         /\ Hears("reprobe", ToSet(SubSeq(ProbeOrder, 1, n)), late)
    /\ UNCHANGED <<answers, health, unchecked, spaced>>

-----------------------------------------------------------------------------
(* Recording: record_outcomes.                                             *)

\* _should_persist.
ShouldPersist(row, ok) ==
    \/ ~row.there
    \/ row.age >= 1
    \/ IF ok THEN row.streak > 0 ELSE row.streak < MaxStreak

NewStreak(row, ok) ==
    IF ok THEN 0 ELSE IF row.streak < MaxStreak THEN row.streak + 1 ELSE MaxStreak

\* What a commit will write: of an old row, a streak only if it has changed.
WriteFor(row, heard) ==
    LET ok == heard = "ok" IN
    IF heard = "none" \/ ~ShouldPersist(row, ok) THEN NoWrite
    ELSE [kind |-> IF row.there THEN "update" ELSE "insert",
          streak |-> IF row.there /\ NewStreak(row, ok) = row.streak THEN NotWritten
                     ELSE NewStreak(row, ok)]

LoadRows(r) ==
    /\ recorder[r].phase = "asked"
    /\ recorder' = [recorder EXCEPT ![r] = [Resting EXCEPT !.phase = "loaded",
                      !.writes = [s \in HealthSources |->
                                     WriteFor(health[s], recorder[r].heard[s])]]]
    /\ UNCHANGED <<answers, health, unchecked, spaced, turns>>

Written(r) == {s \in HealthSources : recorder[r].writes[s].kind # "none"}

\* Somebody else inserted a row this commit would insert: the whole batch is
\* rolled back.
InsertRace(r) ==
    \E s \in Written(r) : recorder[r].writes[s].kind = "insert" /\ health[s].there

CommitOutcomes(r) ==
    /\ recorder[r].phase = "loaded" /\ ~InsertRace(r)
    /\ health' = [s \in HealthSources |->
                    LET streak == recorder[r].writes[s].streak IN
                    IF s \notin Written(r) THEN health[s]
                    ELSE [there |-> TRUE, age |-> 0,
                          streak |-> IF streak = NotWritten THEN health[s].streak ELSE streak]]
    /\ unchecked' = Keeping(unchecked, HealthSources \ Written(r))
                      \o SetToSeq(Written(r))
    /\ recorder' = [recorder EXCEPT ![r] = Resting]
    /\ UNCHANGED <<answers, spaced, turns>>

\* The race above, or a locked database: a diagnostic that is not recorded.
NotRecorded(r) ==
    /\ recorder[r].phase = "loaded"
    /\ IF InsertRace(r) THEN UNCHANGED turns ELSE turns > 0 /\ turns' = turns - 1
    /\ recorder' = [recorder EXCEPT ![r] = Resting]
    /\ UNCHANGED <<answers, health, unchecked, spaced>>

-----------------------------------------------------------------------------
(* The sites and the clock.                                                *)

SiteTurns(s) ==
    /\ turns > 0
    /\ turns' = turns - 1
    /\ answers' = IF s \in answers THEN answers \ {s} ELSE answers \cup {s}
    /\ UNCHANGED <<health, unchecked, recorder, spaced>>

\* No row gets older than one that has been unchecked for longer.
TimePasses(s) ==
    /\ health[s].there /\ health[s].age < 3
    /\ \A i, j \in 1..Len(unchecked) :
         i < j /\ unchecked[j] = s => health[unchecked[i]].age > health[s].age
    /\ health' = [health EXCEPT ![s].age = @ + 1]
    /\ UNCHANGED <<answers, unchecked, recorder, spaced, turns>>

HealthInit ==
    /\ answers \in {{}, HealthSources}
    /\ health = [s \in HealthSources |-> NoHealth] /\ unchecked = <<>>
    /\ recorder = [r \in Recorders |-> Resting]
    /\ spaced = {} /\ turns = MaxTurns

Recording(r) == LoadRows(r) \/ CommitOutcomes(r) \/ NotRecorded(r)

HealthNext ==
    \/ \E asked \in SUBSET HealthSources \ {{}} : \E late \in SUBSET (asked \cap answers) :
         Search(asked, late) \/ SweepEnds(asked, late)
    \/ \E late \in SUBSET answers : Reprobe(late)
    \/ \E s \in HealthSources : Traffic(s) \/ MinuteOver(s) \/ SiteTurns(s) \/ TimePasses(s)
    \/ \E r \in Recorders : Recording(r)

\* The tick comes round with scheduled checks on, which matters when a source
\* is failing, recordings end and time passes.  Nobody has to search, read or
\* follow anything.
SomeFailing == \E s \in HealthSources : health[s].streak > 0

HealthFairness ==
    /\ WF_healthVars(SomeFailing /\ \E late \in SUBSET answers : Reprobe(late))
    /\ \A r \in Recorders : WF_healthVars(Recording(r))
    /\ \A s \in HealthSources : WF_healthVars(TimePasses(s))

HealthSpec == HealthInit /\ [][HealthNext]_healthVars
-----------------------------------------------------------------------------
(* Properties.                                                             *)

\* A source that is back does not stay demoted, whether anybody follows it or
\* searches it or not, and whatever a slower recorder wrote over the good news.
ComesBack == \A s \in HealthSources : []<>(s \notin answers \/ ~Demoted(s))
=============================================================================

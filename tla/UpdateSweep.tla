---------------------------- MODULE UpdateSweep ----------------------------
(***************************************************************************)
(* Update checks: the scheduler's single-check lock                        *)
(* (update_scheduler.py), the walk over the followed series and the        *)
(* diff that notifies their owners (update_service.py), with follows and   *)
(* unfollows (followed_series_service.py) in between.                      *)
(*                                                                         *)
(* Two threads walk: the pool's worker, one sweep at a time, and the       *)
(* request that checks one series inline.  Each has its own session, whose *)
(* loaded rows are not looked at again until a rollback expires them.      *)
(* What the source answers is external: all it has released, a part of it, *)
(* nothing, or a failure.                                                  *)
(***************************************************************************)
EXTENDS Integers, FiniteSets

CONSTANTS
    Series,          \* what can be followed
    MaxFollows,      \* bound: rows of followed_series
    LastRelease,     \* bound: chapters of a series
    MaxBadAnswers,   \* bound: answers that miss something, and failures
    MaxWalks         \* bound: single checks, and startups that check nothing

ASSUME SweepAssumption ==
    /\ IsFiniteSet(Series)
    /\ MaxFollows \in Nat
    /\ LastRelease \in Nat \ {0}
    /\ MaxBadAnswers \in Nat
    /\ MaxWalks \in Nat

VARIABLES
    follows,     \* followed_series: the rows there are, by id
    released,    \* what the site has of each series
    notices,     \* update_notifications by follow and chapter
    checkLock,   \* _check_lock
    walk,        \* run_check in each thread
    guard,       \* _series_guards
    clashed,     \* ghost: an insert met uq_update_notifications_chapter
    badAnswers, walks   \* what is left of each

sweepVars == <<follows, released, notices, checkLock, walk, guard, clashed,
               badAnswers, walks>>

FollowIds == 1..MaxFollows
Releases == 1..LastRelease
AllChapters == Series \X Releases
Listing(s) == {s} \X (1..released[s])
Walkers == {"pool", "request"}
NoWalk == [phase |-> "idle", todo |-> {}, expired |-> {}, fresh |-> TRUE, at |-> {},
           live |-> {}, known |-> {}, own |-> TRUE, notify |-> TRUE, told |-> {},
           status |-> "none"]

\* A walk between two rows: nothing of the last one is left.
BetweenRows(w) ==
    [w EXCEPT !.phase = "walking", !.fresh = FALSE, !.at = {}, !.live = {}, !.known = {},
              !.own = TRUE, !.notify = TRUE, !.told = {}]

Here(f) == f \in DOMAIN follows
Current(t) == CHOOSE f \in walk[t].at : TRUE
Reading(t, f) == walk[t].phase \in {"guarded", "told"} /\ walk[t].at = {f}

\* quiet is a ghost: what is in the snapshot by right without a notification.
FollowRow == [series : Series, known : SUBSET AllChapters, quiet : SUBSET AllChapters]

\* own is a ghost: the row that the walk read in the guard is still that row.
Walk == [phase : {"idle", "queued", "walking", "fetched", "guarded", "told"},
         todo : SUBSET (FollowIds \X Series), expired : SUBSET FollowIds,
         fresh : BOOLEAN, at : SUBSET FollowIds, live : SUBSET AllChapters,
         known : SUBSET AllChapters, own : BOOLEAN, notify : BOOLEAN,
         told : SUBSET AllChapters, status : {"none", "running", "failed"}]

SweepTypeOK ==
    /\ DOMAIN follows \subseteq FollowIds
    /\ follows \in [DOMAIN follows -> FollowRow]
    /\ released \in [Series -> 0..LastRelease]
    /\ notices \in [FollowIds -> [AllChapters -> {"none", "unread", "read", "pruned"}]]
    /\ checkLock \in BOOLEAN /\ clashed \in BOOLEAN
    /\ walk \in [Walkers -> Walk]
    /\ guard \in [FollowIds -> SUBSET Walkers]
    /\ badAnswers \in 0..MaxBadAnswers /\ walks \in 0..MaxWalks

-----------------------------------------------------------------------------
(* Readers and the site.                                                   *)

\* An INTEGER PRIMARY KEY is one more than the highest there is: the id of a
\* follow that was deleted comes back.
NextId(f) ==
    /\ \A g \in DOMAIN follows : g < f
    /\ f > 1 => Here(f - 1)

\* follow: the baseline is what the source lists, or nothing while it is down.
Follow(f, s) ==
    /\ NextId(f)
    /\ \A g \in DOMAIN follows : follows[g].series # s   \* one profile follows it once
    /\ \E chapters \in {{}, Listing(s)} :
         follows' = [g \in DOMAIN follows \union {f} |->
                       IF g = f THEN [series |-> s, known |-> chapters, quiet |-> chapters]
                       ELSE follows[g]]
    /\ UNCHANGED <<released, notices, checkLock, walk, guard, clashed, badAnswers, walks>>

\* unfollow: the notifications go with the row.
Unfollow(f) ==
    /\ Here(f)
    /\ follows' = [g \in DOMAIN follows \ {f} |-> follows[g]]
    /\ notices' = [notices EXCEPT ![f] = [c \in AllChapters |-> "none"]]
    /\ walk' = [t \in Walkers |->
                  [walk[t] EXCEPT !.own = walk[t].own /\ ~Reading(t, f)]]
    /\ UNCHANGED <<released, checkLock, guard, clashed, badAnswers, walks>>

\* Opening the chapter, or "mark read".
ReadNotice(f, c) ==
    /\ notices[f][c] = "unread"
    /\ notices' = [notices EXCEPT ![f][c] = "read"]
    /\ UNCHANGED <<follows, released, checkLock, walk, guard, clashed, badAnswers, walks>>

Release(s) ==
    /\ released[s] < LastRelease
    /\ released' = [released EXCEPT ![s] = @ + 1]
    /\ UNCHANGED <<follows, notices, checkLock, walk, guard, clashed, badAnswers, walks>>

-----------------------------------------------------------------------------
(* Starting a check.                                                       *)

\* trigger_check, from the tick, the startup or "check now": refused while
\* another sweep holds the lock.
TriggerCheck ==
    /\ ~checkLock
    /\ checkLock' = TRUE
    /\ walk' = [walk EXCEPT !["pool"].phase = "queued"]
    /\ UNCHANGED <<follows, released, notices, guard, clashed, badAnswers, walks>>

\* run_check loads the rows it will walk.
StartRun(t, rows) ==
    walk' = [walk EXCEPT ![t] = [NoWalk EXCEPT !.phase = "walking", !.todo = rows,
                                                !.status = "running"]]

StartSweep ==
    /\ walk["pool"].phase = "queued"
    /\ StartRun("pool", {<<f, follows[f].series>> : f \in DOMAIN follows})
    /\ UNCHANGED <<follows, released, notices, checkLock, guard, clashed, badAnswers, walks>>

\* Mutant of SkipStartup: only a walk that ends releases the lock.
SkipStartupLocked ==
    /\ walk["pool"].phase = "queued" /\ walks > 0
    /\ walks' = walks - 1
    /\ walk' = [walk EXCEPT !["pool"] = NoWalk]
    /\ UNCHANGED <<follows, released, notices, checkLock, guard, clashed, badAnswers>>

\* A startup check within the interval of the last sweep walks nothing.
SkipStartup ==
    /\ walk["pool"].phase = "queued" /\ walks > 0
    /\ walks' = walks - 1
    /\ walk' = [walk EXCEPT !["pool"] = NoWalk]
    /\ checkLock' = FALSE
    /\ UNCHANGED <<follows, released, notices, guard, clashed, badAnswers>>

\* check_followed_by_id runs in the request's own thread, without the lock.
CheckFollowed(f) ==
    /\ walk["request"].phase = "idle" /\ Here(f) /\ walks > 0
    /\ walks' = walks - 1
    /\ StartRun("request", {<<f, follows[f].series>>})
    /\ UNCHANGED <<follows, released, notices, checkLock, guard, clashed, badAnswers>>

-----------------------------------------------------------------------------
(* One row.                                                                *)

HasRow(t, f) == \E row \in walk[t].todo : row[1] = f
RowsButOf(t, f) == {row \in walk[t].todo : row[1] # f}

\* The handler of a failed row rolls back, notes the error on the row and
\* commits.  A rollback of an open transaction expires all the session holds,
\* so that naming the row's source reads it again; a row that was deleted
\* meanwhile then raises out of the handler and ends the run.  Without one the
\* commit raises, unless the note says what the row already said.
Aborts(f, expires) ==
    IF Here(f) THEN {FALSE} ELSE IF expires THEN {TRUE} ELSE BOOLEAN

\* Mutant of FailRow: a run has a status of its own for this.
FailRowWithError(t, f, expires) ==
    \E aborts \in Aborts(f, expires) :
        walk' = [walk EXCEPT ![t] =
                   [BetweenRows(walk[t]) EXCEPT
                      !.todo = IF aborts THEN {} ELSE RowsButOf(t, f),
                      !.status = IF aborts THEN "error" ELSE walk[t].status]]

FailRow(t, f, expires) ==
    \E aborts \in Aborts(f, expires) :
        LET rest == RowsButOf(t, f) IN
        walk' = [walk EXCEPT ![t] =
                   [BetweenRows(walk[t]) EXCEPT
                      !.todo = IF aborts THEN {} ELSE rest,
                      !.expired = IF aborts THEN {}
                                  ELSE IF expires THEN {row[1] : row \in rest}
                                  ELSE walk[t].expired \ {f},
                      !.status = IF aborts THEN "failed" ELSE walk[t].status]]

\* The row's id, and the series it names: the one that was loaded, or what the
\* row says now if it has to be read again.
NextRow(t, f) ==
    /\ walk[t].phase = "walking" /\ HasRow(t, f)
    /\ f \in walk[t].expired => Here(f)

Asked(t, f) ==
    IF f \in walk[t].expired THEN follows[f].series
    ELSE (CHOOSE row \in walk[t].todo : row[1] = f)[2]

\* get_chapters answers: in full, or with what a hiccup leaves of it.
Fetch(t, f, live) ==
    LET all == Listing(Asked(t, f)) IN
    /\ NextRow(t, f)
    /\ live \subseteq all
    /\ live # all => badAnswers > 0
    /\ badAnswers' = IF live = all THEN badAnswers ELSE badAnswers - 1
    /\ walk' = [walk EXCEPT ![t].phase = "fetched", ![t].at = {f}, ![t].live = live,
                            ![t].todo = RowsButOf(t, f), ![t].expired = @ \ {f}]
    /\ UNCHANGED <<follows, released, notices, checkLock, guard, clashed, walks>>

\* No statement has run since the last row's commit, unless this row had to be
\* read again; before the first row the rows were selected.
FetchFails(t, f) ==
    /\ NextRow(t, f)
    /\ badAnswers > 0
    /\ badAnswers' = badAnswers - 1
    /\ FailRow(t, f, walk[t].fresh \/ f \in walk[t].expired)
    /\ UNCHANGED <<follows, released, notices, checkLock, guard, clashed, walks>>

\* A row that was expired by an earlier failure and is gone ends the run too.
ExpiredRowGone(t, f) ==
    /\ walk[t].phase = "walking" /\ HasRow(t, f)
    /\ f \in walk[t].expired /\ ~Here(f)
    /\ walk' = [walk EXCEPT ![t].todo = {}, ![t].expired = {}, ![t].status = "failed"]
    /\ UNCHANGED <<follows, released, notices, checkLock, guard, clashed, badAnswers, walks>>

\* Mutant of Guarded: nobody waits.
GuardedByNobody(f) == TRUE

\* The guard, then the row again: it may be gone, or newer than the walk's.
Guarded(f) == guard[f] = {}

Enter(t) ==
    LET f == Current(t) IN
    /\ walk[t].phase = "fetched" /\ Guarded(f)
    /\ IF Here(f)
       THEN /\ guard' = [guard EXCEPT ![f] = {t}]
            /\ walk' = [walk EXCEPT ![t].phase = "guarded", ![t].known = follows[f].known]
       ELSE /\ walk' = [walk EXCEPT ![t] = BetweenRows(@)]
            /\ UNCHANGED guard
    /\ UNCHANGED <<follows, released, notices, checkLock, clashed, badAnswers, walks>>

\* An empty answer is not evidence: the snapshot is kept, with a note that the
\* walk commits.
Degraded(t) == walk[t].live = {} /\ walk[t].known # {}

KeepSnapshot(t) ==
    /\ walk[t].phase = "guarded" /\ Degraded(t)
    /\ FailRow(t, Current(t), FALSE)
    /\ guard' = [guard EXCEPT ![Current(t)] = {}]
    /\ UNCHANGED <<follows, released, notices, checkLock, clashed, badAnswers, walks>>

\* The chapters to announce: new ones of a series with a baseline, except
\* those announced before, and none where notifications are off.
Told(f) == {c \in AllChapters : notices[f][c] \in {"unread", "read"}}

\* Mutant of ToAnnounce: only the latest chapter, when several came at once.
ToAnnounceLatest(live, known, emitted, notify) ==
    IF known = {} \/ ~notify THEN {}
    ELSE {c \in (live \ known) \ emitted : \A k \in live : k[2] <= c[2]}

ToAnnounce(live, known, emitted, notify) ==
    IF known = {} \/ ~notify THEN {} ELSE (live \ known) \ emitted

\* notify: the follow's flag and the settings' flag, which their owners set at
\* any time, are both on.
Diff(t) ==
    LET w == walk[t] IN
    /\ w.phase = "guarded" /\ ~Degraded(t)
    /\ \E notify \in BOOLEAN :
         walk' = [walk EXCEPT ![t].phase = "told", ![t].notify = notify,
                    ![t].told = ToAnnounce(w.live, w.known, Told(Current(t)), notify)]
    /\ UNCHANGED <<follows, released, notices, checkLock, guard, clashed, badAnswers, walks>>

\* What the row's snapshot holds unannounced once the walk has written it: a
\* baseline, what came while notifications were off, and all that is written
\* by a walk whose own row was deleted, to the row that has its id now.
Quiet(w, before) ==
    IF w.known = {} \/ ~w.own THEN w.live
    ELSE IF w.notify THEN before ELSE before \union (w.live \ w.known)

\* The commit, before the guard is released.
CommitRow(t) ==
    LET w == walk[t]
        f == Current(t)
        twice == w.told \cap Told(f) # {}
    IN
    /\ w.phase = "told"
    /\ clashed' = (clashed \/ (Here(f) /\ twice))
    /\ IF Here(f) /\ ~twice
       THEN /\ notices' = [notices EXCEPT ![f] = [c \in AllChapters |->
                             IF c \in w.told THEN "unread" ELSE notices[f][c]]]
            /\ follows' = [follows EXCEPT ![f].known = w.live, ![f].quiet = Quiet(w, @)]
            /\ walk' = [walk EXCEPT ![t] = BetweenRows(@)]
       ELSE /\ FailRow(t, f, TRUE)
            /\ UNCHANGED <<notices, follows>>
    /\ guard' = [guard EXCEPT ![f] = {}]
    /\ UNCHANGED <<released, checkLock, badAnswers, walks>>

-----------------------------------------------------------------------------
(* The end of a run.                                                       *)

\* The deadline ends a walk early.  Any walk may meet it: a pass takes as long
\* as its sources make it, and the next one starts from the same rows.
Deadline(t) ==
    /\ walk[t].phase = "walking" /\ walk[t].todo # {}
    /\ walk' = [walk EXCEPT ![t].todo = {}, ![t].expired = {}]
    /\ UNCHANGED <<follows, released, notices, checkLock, guard, clashed, badAnswers, walks>>

\* A row is skipped when its source has burned its seconds in this pass.
BudgetSkip(t, f) ==
    /\ NextRow(t, f)
    /\ walk' = [walk EXCEPT ![t].todo = RowsButOf(t, f), ![t].expired = @ \ {f},
                            ![t].fresh = @ \/ f \in walk[t].expired]
    /\ UNCHANGED <<follows, released, notices, checkLock, guard, clashed, badAnswers, walks>>

\* _prune_history forgets read notifications that are old enough.
Pruned(old) ==
    [f \in FollowIds |-> [c \in AllChapters |->
        IF <<f, c>> \in old THEN "pruned" ELSE notices[f][c]]]

ReadNotices == {n \in FollowIds \X AllChapters : notices[n[1]][n[2]] = "read"}

EndRun(t) ==
    /\ walk[t].phase = "walking" /\ walk[t].todo = {}
    /\ walk' = [walk EXCEPT ![t] = NoWalk]
    /\ checkLock' = IF t = "pool" THEN FALSE ELSE checkLock
    /\ \E old \in {{}, ReadNotices} :
         notices' = IF t = "pool" THEN Pruned(old) ELSE notices
    /\ UNCHANGED <<follows, released, guard, clashed, badAnswers, walks>>

SweepInit ==
    /\ follows = [f \in {} |-> {}]
    /\ released \in [Series -> 0..1]
    /\ notices = [f \in FollowIds |-> [c \in AllChapters |-> "none"]]
    /\ checkLock = FALSE /\ clashed = FALSE
    /\ walk = [t \in Walkers |-> NoWalk]
    /\ guard = [f \in FollowIds |-> {}]
    /\ badAnswers = MaxBadAnswers /\ walks = MaxWalks

WalkStep(t) ==
    \/ \E f \in FollowIds :
         \/ \E live \in SUBSET AllChapters : Fetch(t, f, live)
         \/ FetchFails(t, f) \/ ExpiredRowGone(t, f)
    \/ Enter(t) \/ KeepSnapshot(t) \/ Diff(t) \/ CommitRow(t) \/ EndRun(t)

SweepNext ==
    \/ \E f \in FollowIds :
         \/ \E s \in Series : Follow(f, s)
         \/ Unfollow(f) \/ CheckFollowed(f)
         \/ \E c \in AllChapters : ReadNotice(f, c)
         \/ \E t \in Walkers : BudgetSkip(t, f)
    \/ \E s \in Series : Release(s)
    \/ TriggerCheck \/ StartSweep \/ SkipStartup
    \/ \E t \in Walkers : WalkStep(t) \/ Deadline(t)

\* The tick comes round, which matters when somebody follows a series, and a
\* walk's fetches are bounded by their timeouts.  Nothing is promised of the
\* deadline and the budget, which may cut every pass.
Followed == DOMAIN follows # {}

SweepFairness ==
    /\ WF_sweepVars(Followed /\ TriggerCheck) /\ WF_sweepVars(StartSweep)
    /\ \A t \in Walkers : WF_sweepVars(WalkStep(t))

SweepSpec == SweepInit /\ [][SweepNext]_sweepVars
-----------------------------------------------------------------------------
(* Properties.                                                             *)

\* Two checks of one series at once never insert the same notification, which
\* would fail the row, and with it what the walk had found for it.
NeverToldTwice == ~clashed

\* A chapter enters the snapshot of a series that has a baseline only together
\* with its notification, unless notifications are off at its diff, whichever
\* threads walk and whatever fails.  Excepted is what a walk writes to a row
\* that was followed under the id of its own row, deleted since it read it.
SnapshotIsAnnounced ==
    \A f \in DOMAIN follows :
        \A c \in follows[f].known \ follows[f].quiet : notices[f][c] # "none"

\* A chapter that is out and missing from the baseline does not stay missing
\* and unannounced, unless the series is unfollowed, or pass after pass ends
\* before its row: by the deadline, by its source's budget, or because a reader
\* unfollowed the row in hand.  Nothing in the code gives the rows that the last
\* pass did not reach their turn in the next one.
Overdue(f, c) ==
    /\ Here(f) /\ follows[f].known # {}
    /\ c \in Listing(follows[f].series)
    /\ c \notin follows[f].known /\ notices[f][c] = "none"

LeftUntried(f) ==
    \E t \in Walkers :
        \/ BudgetSkip(t, f)
        \/ HasRow(t, f) /\ (Deadline(t) \/ walk'[t].status = "failed")

NewsArrives ==
    \A f \in FollowIds, c \in AllChapters :
        []<>~Overdue(f, c) \/ []<><<LeftUntried(f)>>_sweepVars

\* A row's snapshot is of the row's own series, whatever was unfollowed and
\* followed while a walk was under way.
SnapshotIsOwn ==
    \A f \in DOMAIN follows : \A c \in follows[f].known : c[1] = follows[f].series

\* Whatever happens to one row, the sweep goes on to the others.
RunsComplete == walk["pool"].status # "failed"
=============================================================================

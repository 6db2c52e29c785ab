---------------------------- MODULE ServerProofs ----------------------------
(***************************************************************************)
(* Proofs about the server's parts beside the render queue, and of the     *)
(* server as MCServer puts it together, which is each of its parts.        *)
(*                                                                         *)
(* The update sweep, for any series, chapters and numbers of checks and    *)
(* bad answers: no chapter is announced twice, and none enters a snapshot  *)
(* unannounced.                                                            *)
(*                                                                         *)
(* The restore of a backup, for any number of commits, restores, kept      *)
(* copies and deaths of a boot: a server that runs has a whole database,   *)
(* and no boot leaves a staged file behind.                                *)
(*                                                                         *)
(* Source health, for any sources and recorders: whatever they commit over *)
(* each other stays within the bounds of a streak, and the order in which  *)
(* the re-probe asks lists the sources that have a row.                    *)
(***************************************************************************)
EXTENDS MCServer, RenderQueueProofs, SeqFilterProofs, SequenceTheorems, TLAPS
-----------------------------------------------------------------------------
(* The update sweep. *)

\* A walk has one row in hand between its fetch and its commit, and else none.
OneRowInHand ==
    \A t \in Walkers :
        IF walk[t].phase \in {"fetched", "guarded", "told"}
        THEN \E f \in FollowIds : walk[t].at = {f}
        ELSE walk[t].at = {}

\* A guard has one holder, the walk that is at work on its series.
GuardHasOneHolder ==
    \A f \in FollowIds :
        /\ \A t \in Walkers : t \in guard[f] <=> Reading(t, f)
        /\ \A t, u \in guard[f] : t = u

\* The snapshot that a walk diffs against is the row's, as long as the row is
\* there.
SnapshotIsLatest ==
    \A t \in Walkers, f \in FollowIds :
        Reading(t, f) /\ walk[t].own => Here(f) /\ walk[t].known = follows[f].known

\* What a walk is about to announce has not been announced meanwhile.
ToldIsNew ==
    \A t \in Walkers, f \in FollowIds :
        Reading(t, f) /\ walk[t].phase = "told" => walk[t].told \cap Told(f) = {}

\* What a walk is about to put in its own row's snapshot, it announces or finds
\* announced, where there is a baseline and notifications are on.
LiveIsAnnounced ==
    \A t \in Walkers, f \in FollowIds :
        /\ Reading(t, f) /\ walk[t].phase = "told" /\ walk[t].own
        /\ walk[t].known # {} /\ walk[t].notify
        => \A c \in walk[t].live \ walk[t].known :
             c \in walk[t].told \/ notices[f][c] # "none"

\* A check of the pool holds the lock from its trigger to its end.
PoolHasLock == walk["pool"].phase # "idle" => checkLock

SweepInv ==
    /\ SweepTypeOK
    /\ PoolHasLock
    /\ OneRowInHand
    /\ GuardHasOneHolder
    /\ SnapshotIsLatest
    /\ ToldIsNew
    /\ LiveIsAnnounced
    /\ NeverToldTwice
    /\ SnapshotIsAnnounced

-----------------------------------------------------------------------------
(* Lemmas about the model's operators.                                     *)

\* The row a walk has in hand is the one Current names.
LEMMA CurrentRow ==
  ASSUME SweepInv, NEW t \in Walkers, walk[t].phase \in {"fetched", "guarded", "told"}
  PROVE  Current(t) \in FollowIds /\ walk[t].at = {Current(t)}
<1>1. PICK f \in FollowIds : walk[t].at = {f}
  BY DEF SweepInv, OneRowInHand
<1>2. Current(t) = f
  BY <1>1 DEF Current
<1> QED  BY <1>1, <1>2

\* A walk between two rows is a walk with no row in hand.
LEMMA RowLeft ==
  ASSUME NEW w \in Walk
  PROVE  /\ BetweenRows(w) \in Walk
         /\ BetweenRows(w).phase = "walking" /\ BetweenRows(w).at = {}
BY DEF BetweenRows, Walk

\* A failed row leaves the walk between two rows, whatever it expires.
LEMMA FailedRow ==
  ASSUME SweepTypeOK, NEW t \in Walkers, NEW f \in FollowIds,
         NEW expires \in BOOLEAN, FailRow(t, f, expires)
  PROVE  /\ walk' \in [Walkers -> Walk]
         /\ \A u \in Walkers \ {t} : walk'[u] = walk[u]
         /\ walk'[t].phase = "walking" /\ walk'[t].at = {}
<1> DEFINE rest == RowsButOf(t, f)
           between == BetweenRows(walk[t])
<1>1. PICK aborts \in Aborts(f, expires) :
        walk' = [walk EXCEPT ![t] =
                   [between EXCEPT
                      !.todo = IF aborts THEN {} ELSE rest,
                      !.expired = IF aborts THEN {}
                                  ELSE IF expires THEN {row[1] : row \in rest}
                                  ELSE walk[t].expired \ {f},
                      !.status = IF aborts THEN "failed" ELSE walk[t].status]]
  BY DEF FailRow
<1>2. walk \in [Walkers -> Walk] /\ walk[t] \in Walk
  BY DEF SweepTypeOK
<1>3. between \in Walk /\ between.phase = "walking" /\ between.at = {}
  BY <1>2, RowLeft
<1>4. rest \subseteq walk[t].todo /\ walk[t].todo \subseteq FollowIds \X Series
  BY <1>2 DEF Walk, RowsButOf
<1>5. PICK todo \in SUBSET (FollowIds \X Series) : todo = IF aborts THEN {} ELSE rest
  BY <1>4
<1>6. {row[1] : row \in rest} \subseteq FollowIds
  BY <1>4
<1> HIDE DEF between, rest
<1>7. PICK expired \in SUBSET FollowIds :
        expired = IF aborts THEN {}
                  ELSE IF expires THEN {row[1] : row \in rest} ELSE walk[t].expired \ {f}
  BY <1>2, <1>6 DEF Walk
<1>8. PICK status \in {"none", "running", "failed"} :
        status = IF aborts THEN "failed" ELSE walk[t].status
  BY <1>2 DEF Walk
<1>9. walk' = [walk EXCEPT ![t] =
                 [between EXCEPT !.todo = todo, !.expired = expired, !.status = status]]
  BY <1>1, <1>5, <1>7, <1>8
<1>10. /\ [between EXCEPT !.todo = todo, !.expired = expired, !.status = status] \in Walk
       /\ [between EXCEPT !.todo = todo, !.expired = expired, !.status = status].phase
            = "walking"
       /\ [between EXCEPT !.todo = todo, !.expired = expired, !.status = status].at = {}
  BY <1>3 DEF Walk
<1> QED  BY <1>2, <1>9, <1>10

\* Notifications are forgotten only when they have been read, and none is new.
NoticesWane ==
    \A f \in FollowIds, c \in AllChapters :
        notices'[f][c] # notices[f][c] =>
            notices[f][c] \in {"unread", "read"} /\ notices'[f][c] \in {"read", "pruned"}

\* A walk that gives up its row and its guard, if it has any, leaves the
\* others their own.
LEMMA StepsAside ==
  ASSUME SweepInv, NEW t \in Walkers,
         \A u \in Walkers \ {t} : walk'[u] = walk[u],
         walk'[t].phase \in {"idle", "queued", "walking"}, walk'[t].at = {},
         \A f \in FollowIds : guard'[f] = guard[f] \ {t},
         NoticesWane, UNCHANGED <<follows, clashed>>
  PROVE  /\ OneRowInHand' /\ GuardHasOneHolder' /\ SnapshotIsLatest'
         /\ ToldIsNew' /\ LiveIsAnnounced'
         /\ NeverToldTwice' /\ SnapshotIsAnnounced'
<1>1. \A u \in Walkers, f \in FollowIds : Reading(u, f)' => u # t /\ Reading(u, f)
  BY DEF Reading
<1>2. \A f \in FollowIds : Told(f)' \subseteq Told(f)
  BY DEF Told, NoticesWane
<1>3. OneRowInHand'
  BY DEF SweepInv, OneRowInHand
<1>4. GuardHasOneHolder'
  BY <1>1 DEF SweepInv, GuardHasOneHolder, Reading
<1>5. SnapshotIsLatest'
  BY <1>1 DEF SweepInv, SnapshotIsLatest, Here
<1>6. ToldIsNew'
  BY <1>1, <1>2 DEF SweepInv, ToldIsNew
<1>7. LiveIsAnnounced'
  <2> SUFFICES ASSUME NEW u \in Walkers, NEW f \in FollowIds, Reading(u, f)',
                      walk'[u].phase = "told", walk'[u].own,
                      walk'[u].known # {}, walk'[u].notify,
                      NEW c \in walk'[u].live \ walk'[u].known
               PROVE  c \in walk'[u].told \/ notices'[f][c] # "none"
    BY DEF LiveIsAnnounced
  <2>1. u # t /\ Reading(u, f) /\ walk'[u] = walk[u]
    BY <1>1
  <2>2. c \in AllChapters
    BY <2>1 DEF SweepInv, SweepTypeOK, Walk
  <2>3. c \in walk[u].told \/ notices[f][c] # "none"
    BY <2>1 DEF SweepInv, LiveIsAnnounced
  <2> QED  BY <2>1, <2>2, <2>3 DEF NoticesWane
<1>8. NeverToldTwice'
  BY DEF SweepInv, NeverToldTwice
<1>9. SnapshotIsAnnounced'
  BY DEF SweepInv, SweepTypeOK, FollowRow, SnapshotIsAnnounced, NoticesWane
<1> QED  BY <1>3, <1>4, <1>5, <1>6, <1>7, <1>8, <1>9

-----------------------------------------------------------------------------
(* The invariant holds at the start, and every step keeps it.              *)

LEMMA SweepStarts == SweepInit => SweepInv
<1> SUFFICES ASSUME SweepInit PROVE SweepInv
  OBVIOUS
<1>1. NoWalk \in Walk /\ NoWalk.phase = "idle" /\ NoWalk.at = {}
  BY DEF NoWalk, Walk
<1>2. SweepTypeOK
  <2>1. released \in [Series -> 0..LastRelease]
    BY SweepAssumption DEF SweepAssumption, SweepInit
  <2>2. badAnswers \in 0..MaxBadAnswers /\ walks \in 0..MaxWalks
    BY SweepAssumption DEF SweepAssumption, SweepInit
  <2>3. /\ DOMAIN follows = {} /\ follows \in [DOMAIN follows -> FollowRow]
        /\ notices \in [FollowIds -> [AllChapters -> {"none", "unread", "read", "pruned"}]]
    BY DEF SweepInit
  <2>4. checkLock \in BOOLEAN /\ clashed \in BOOLEAN
    BY Zenon DEF SweepInit
  <2>5. walk \in [Walkers -> Walk] /\ guard \in [FollowIds -> SUBSET Walkers]
    BY <1>1 DEF SweepInit
  <2> QED  BY <2>1, <2>2, <2>3, <2>4, <2>5 DEF SweepTypeOK
<1>3. PoolHasLock /\ OneRowInHand /\ GuardHasOneHolder
  BY <1>1 DEF SweepInit, Walkers, PoolHasLock, OneRowInHand, GuardHasOneHolder, Reading
<1>4. SnapshotIsLatest /\ ToldIsNew /\ LiveIsAnnounced
  BY <1>1 DEF SweepInit, SnapshotIsLatest, ToldIsNew, LiveIsAnnounced, Reading
<1>5. NeverToldTwice /\ SnapshotIsAnnounced
  BY <1>2, Zenon DEF SweepInit, NeverToldTwice, SnapshotIsAnnounced
<1> QED  BY <1>2, <1>3, <1>4, <1>5 DEF SweepInv

\* Readers and the site: no walk moves.
LEMMA ReadersStep ==
  ASSUME SweepInv,
         \/ \E f \in FollowIds, s \in Series : Follow(f, s)
         \/ \E f \in FollowIds : Unfollow(f)
         \/ \E f \in FollowIds, c \in AllChapters : ReadNotice(f, c)
         \/ \E s \in Series : Release(s)
  PROVE  SweepInv'
<1>1. ASSUME NEW f \in FollowIds, NEW s \in Series, Follow(f, s) PROVE SweepInv'
  <2>1. UNCHANGED <<released, notices, checkLock, walk, guard, clashed, badAnswers, walks>>
    BY <1>1 DEF Follow
  <2>2. ~Here(f)
    <3>1. \A g \in DOMAIN follows : g < f
      BY <1>1 DEF Follow, NextId
    <3>2. f \in Int
      BY SweepAssumption DEF SweepAssumption, FollowIds
    <3> QED  BY <3>1, <3>2 DEF Here
  <2>3. PICK chapters \in SUBSET AllChapters :
          follows' = [g \in DOMAIN follows \union {f} |->
                        IF g = f
                        THEN [series |-> s, known |-> chapters, quiet |-> chapters]
                        ELSE follows[g]]
    <3>1. Listing(s) \subseteq AllChapters
      BY SweepAssumption
      DEF SweepAssumption, SweepInv, SweepTypeOK, Listing, AllChapters, Releases
    <3> QED  BY <1>1, <3>1 DEF Follow
  <2> DEFINE new == [series |-> s, known |-> chapters, quiet |-> chapters]
  <2>4. new \in FollowRow /\ new.known \ new.quiet = {}
    BY DEF FollowRow
  <2>5. /\ DOMAIN follows' = DOMAIN follows \union {f} /\ follows'[f] = new
        /\ \A g \in DOMAIN follows : follows'[g] = follows[g]
    BY <2>2, <2>3 DEF Here
  <2> HIDE DEF new
  <2>6. /\ DOMAIN follows' \subseteq FollowIds
        /\ follows' \in [DOMAIN follows' -> FollowRow]
    BY <2>3, <2>4, <2>5 DEF SweepInv, SweepTypeOK
  <2>7. SweepTypeOK'
    BY <2>1, <2>6 DEF SweepInv, SweepTypeOK
  <2>8. \A t \in Walkers, g \in FollowIds : Reading(t, g)' <=> Reading(t, g)
    BY <2>1 DEF Reading
  <2>9. PoolHasLock' /\ OneRowInHand' /\ GuardHasOneHolder' /\ NeverToldTwice'
    BY <2>1, <2>8 DEF SweepInv, PoolHasLock, OneRowInHand, GuardHasOneHolder, NeverToldTwice
  <2>10. SnapshotIsLatest'
    BY <2>1, <2>5, <2>8 DEF SweepInv, SnapshotIsLatest, Here
  <2>11. ToldIsNew' /\ LiveIsAnnounced'
    BY <2>1, <2>8 DEF SweepInv, ToldIsNew, LiveIsAnnounced, Told
  <2>12. SnapshotIsAnnounced'
    BY <2>1, <2>4, <2>5 DEF SweepInv, SnapshotIsAnnounced
  <2> QED  BY <2>7, <2>9, <2>10, <2>11, <2>12 DEF SweepInv
<1>2. ASSUME NEW f \in FollowIds, Unfollow(f) PROVE SweepInv'
  <2>1. /\ UNCHANGED <<guard, clashed, released, checkLock, badAnswers, walks>>
        /\ follows' = [g \in DOMAIN follows \ {f} |-> follows[g]]
        /\ notices' = [notices EXCEPT ![f] = [c \in AllChapters |-> "none"]]
        /\ walk' = [t \in Walkers |->
                      [walk[t] EXCEPT !.own = walk[t].own /\ ~Reading(t, f)]]
    BY <1>2 DEF Unfollow
  <2>2. \A t \in Walkers :
          /\ walk'[t] \in Walk
          /\ walk'[t].phase = walk[t].phase /\ walk'[t].at = walk[t].at
          /\ walk'[t].live = walk[t].live /\ walk'[t].known = walk[t].known
          /\ walk'[t].told = walk[t].told /\ walk'[t].notify = walk[t].notify
          /\ walk'[t].own => walk[t].own /\ ~Reading(t, f)
    <3> SUFFICES ASSUME NEW t \in Walkers
                 PROVE  /\ walk'[t] \in Walk
                        /\ walk'[t].phase = walk[t].phase /\ walk'[t].at = walk[t].at
                        /\ walk'[t].live = walk[t].live /\ walk'[t].known = walk[t].known
                        /\ walk'[t].told = walk[t].told /\ walk'[t].notify = walk[t].notify
                        /\ walk'[t].own => walk[t].own /\ ~Reading(t, f)
      OBVIOUS
    <3>1. walk[t] \in Walk
      BY DEF SweepInv, SweepTypeOK
    <3>2. PICK own \in BOOLEAN : own = (walk[t].own /\ ~Reading(t, f))
      OBVIOUS
    <3>3. walk'[t] = [walk[t] EXCEPT !.own = own]
      BY <2>1, <3>2
    <3>4. walk'[t] \in Walk /\ walk'[t].own = own
      BY <3>1, <3>3 DEF Walk
    <3> QED  BY <3>1, <3>2, <3>3, <3>4 DEF Walk
  <2>3. /\ DOMAIN follows' = DOMAIN follows \ {f}
        /\ \A g \in DOMAIN follows \ {f} : follows'[g] = follows[g]
        /\ \A g \in FollowIds \ {f} : notices'[g] = notices[g]
        /\ Told(f)' = {}
    BY <2>1 DEF SweepInv, SweepTypeOK, Told
  <2>4. SweepTypeOK'
    <3>1. walk' \in [Walkers -> Walk]
      BY <2>1, <2>2
    <3>2. /\ DOMAIN follows' \subseteq FollowIds
          /\ follows' \in [DOMAIN follows' -> FollowRow]
      BY <2>1, <2>3 DEF SweepInv, SweepTypeOK
    <3>3. notices' \in [FollowIds -> [AllChapters -> {"none", "unread", "read", "pruned"}]]
      BY <2>1 DEF SweepInv, SweepTypeOK
    <3> QED  BY <2>1, <3>1, <3>2, <3>3 DEF SweepInv, SweepTypeOK
  <2>5. \A t \in Walkers, g \in FollowIds : Reading(t, g)' <=> Reading(t, g)
    BY <2>2 DEF Reading
  <2>6. PoolHasLock' /\ OneRowInHand' /\ GuardHasOneHolder' /\ NeverToldTwice'
    BY <2>1, <2>2, <2>5
    DEF SweepInv, PoolHasLock, OneRowInHand, GuardHasOneHolder, NeverToldTwice, Walkers
  <2>7. SnapshotIsLatest' /\ LiveIsAnnounced'
    <3> SUFFICES ASSUME NEW t \in Walkers, NEW g \in FollowIds, Reading(t, g)',
                        walk'[t].own
                 PROVE  /\ Here(g)' /\ walk'[t].known = follows'[g].known
                        /\ walk'[t].phase = "told" /\ walk'[t].known # {}
                             /\ walk'[t].notify
                           => \A c \in walk'[t].live \ walk'[t].known :
                                c \in walk'[t].told \/ notices'[g][c] # "none"
      BY DEF SnapshotIsLatest, LiveIsAnnounced
    <3>1. Reading(t, g) /\ walk[t].own /\ g # f
      BY <2>2, <2>5
    <3> QED
      BY <2>2, <2>3, <3>1 DEF SweepInv, SnapshotIsLatest, LiveIsAnnounced, Here
  <2>8. SnapshotIsAnnounced'
    BY <2>3 DEF SweepInv, SweepTypeOK, SnapshotIsAnnounced
  <2>9. ToldIsNew'
    BY <2>2, <2>3, <2>5 DEF SweepInv, ToldIsNew, Told
  <2> QED  BY <2>4, <2>6, <2>7, <2>8, <2>9 DEF SweepInv
<1>3. ASSUME NEW s \in Series, Release(s) PROVE SweepInv'
  <2>1. SweepTypeOK'
    <3>1. released' \in [Series -> 0..LastRelease]
      BY <1>3, SweepAssumption DEF SweepAssumption, SweepInv, SweepTypeOK, Release
    <3> QED  BY <1>3, <3>1 DEF SweepInv, SweepTypeOK, Release
  <2>2. UNCHANGED <<follows, notices, walk, guard, clashed, checkLock>>
    BY <1>3 DEF Release
  <2> QED
    BY <2>1, <2>2
    DEF SweepInv, PoolHasLock, OneRowInHand, GuardHasOneHolder, Reading, SnapshotIsLatest,
        ToldIsNew, LiveIsAnnounced, NeverToldTwice, SnapshotIsAnnounced, Here, Told
<1>4. ASSUME NEW f \in FollowIds, NEW c \in AllChapters, ReadNotice(f, c) PROVE SweepInv'
  <2>1. /\ UNCHANGED <<follows, walk, guard, clashed, released, checkLock, badAnswers,
                       walks>>
        /\ notices[f][c] = "unread"
        /\ notices' = [notices EXCEPT ![f][c] = "read"]
    BY <1>4 DEF ReadNotice
  <2>2. SweepTypeOK'
    BY <2>1 DEF SweepInv, SweepTypeOK
  <2>3. \A t \in Walkers, g \in FollowIds : Reading(t, g)' <=> Reading(t, g)
    BY <2>1 DEF Reading
  <2>4. \A g \in FollowIds, k \in AllChapters :
          /\ notices[g][k] # "none" => notices'[g][k] # "none"
          /\ notices'[g][k] \in {"unread", "read"} => notices[g][k] \in {"unread", "read"}
    BY <2>1 DEF SweepInv, SweepTypeOK
  <2>5. /\ PoolHasLock' /\ OneRowInHand' /\ GuardHasOneHolder'
        /\ SnapshotIsLatest' /\ NeverToldTwice'
    BY <2>1, <2>3
    DEF SweepInv, PoolHasLock, OneRowInHand, GuardHasOneHolder, SnapshotIsLatest, NeverToldTwice, Here
  <2>6. ToldIsNew'
    BY <2>1, <2>3, <2>4 DEF SweepInv, ToldIsNew, Told
  <2>7. LiveIsAnnounced'
    BY <2>1, <2>3, <2>4 DEF SweepInv, SweepTypeOK, Walk, LiveIsAnnounced
  <2>8. SnapshotIsAnnounced'
    BY <2>1, <2>4 DEF SweepInv, SweepTypeOK, FollowRow, SnapshotIsAnnounced
  <2> QED  BY <2>2, <2>5, <2>6, <2>7, <2>8 DEF SweepInv
<1> QED  BY <1>1, <1>2, <1>3, <1>4

\* Nobody has a row in hand, and nobody's guard is held, between two rows.
LEMMA NothingHeld ==
  ASSUME SweepInv, NEW t \in Walkers,
         walk[t].phase \in {"idle", "queued", "walking"}
  PROVE  walk[t].at = {} /\ \A f \in FollowIds : guard[f] \ {t} = guard[f]
BY DEF SweepInv, OneRowInHand, GuardHasOneHolder, Reading

\* Starting a check.
LEMMA StartsStep ==
  ASSUME SweepInv,
         TriggerCheck \/ StartSweep \/ SkipStartup
           \/ \E f \in FollowIds : CheckFollowed(f)
  PROVE  SweepInv'
<1> USE DEF Walkers
<1>1. CASE TriggerCheck
  <2>1. walk["pool"].phase = "idle" /\ walk["pool"].at = {}
    BY <1>1 DEF TriggerCheck, SweepInv, PoolHasLock, OneRowInHand
  <2>2. /\ checkLock' = TRUE
        /\ walk' = [walk EXCEPT !["pool"].phase = "queued"]
        /\ UNCHANGED <<follows, released, notices, guard, clashed, badAnswers, walks>>
    BY <1>1 DEF TriggerCheck
  <2>3. /\ walk' \in [Walkers -> Walk] /\ walk'["request"] = walk["request"]
        /\ walk'["pool"].phase = "queued" /\ walk'["pool"].at = {}
    <3>1. walk \in [Walkers -> Walk] /\ walk["pool"] \in Walk
      BY DEF SweepInv, SweepTypeOK
    <3>2. walk' = [walk EXCEPT !["pool"] = [walk["pool"] EXCEPT !.phase = "queued"]]
      BY <2>2, <3>1
    <3>3. [walk["pool"] EXCEPT !.phase = "queued"] \in Walk
      BY <3>1 DEF Walk
    <3> QED  BY <2>1, <3>1, <3>2, <3>3 DEF Walk
  <2>4. SweepTypeOK' /\ PoolHasLock'
    BY <2>2, <2>3, Zenon DEF SweepInv, SweepTypeOK, PoolHasLock
  <2> QED
    BY <2>1, <2>2, <2>3, <2>4, NothingHeld, StepsAside DEF SweepInv, NoticesWane
<1>2. CASE StartSweep
  <2> DEFINE loaded == {<<f, follows[f].series>> : f \in DOMAIN follows}
             started == [NoWalk EXCEPT !.phase = "walking",
                                       !.todo = loaded,
                                       !.status = "running"]
  <2>1. /\ walk["pool"].phase = "queued"
        /\ walk' = [walk EXCEPT !["pool"] = started]
        /\ UNCHANGED <<follows, released, notices, checkLock, guard, clashed, badAnswers,
                       walks>>
    BY <1>2 DEF StartSweep, StartRun
  <2>2. started \in Walk /\ started.phase = "walking" /\ started.at = {}
    <3>1. loaded \subseteq FollowIds \X Series
      BY DEF SweepInv, SweepTypeOK, FollowRow
    <3> HIDE DEF loaded
    <3> QED  BY <3>1 DEF NoWalk, Walk
  <2>3. /\ walk' \in [Walkers -> Walk] /\ walk'["request"] = walk["request"]
        /\ walk'["pool"] = started
    BY <2>1, <2>2 DEF SweepInv, SweepTypeOK
  <2>4. SweepTypeOK' /\ PoolHasLock'
    BY <2>1, <2>3 DEF SweepInv, SweepTypeOK, PoolHasLock
  <2> QED
    BY <2>1, <2>2, <2>3, <2>4, NothingHeld, StepsAside DEF SweepInv, NoticesWane
<1>3. CASE SkipStartup
  <2>1. /\ walk["pool"].phase = "queued" /\ walks > 0 /\ walks' = walks - 1
        /\ walk' = [walk EXCEPT !["pool"] = NoWalk] /\ checkLock' = FALSE
        /\ UNCHANGED <<follows, released, notices, guard, clashed, badAnswers>>
    BY <1>3 DEF SkipStartup
  <2>2. NoWalk \in Walk /\ NoWalk.phase = "idle" /\ NoWalk.at = {}
    BY DEF NoWalk, Walk
  <2>3. /\ walk' \in [Walkers -> Walk] /\ walk'["request"] = walk["request"]
        /\ walk'["pool"] = NoWalk
    BY <2>1, <2>2 DEF SweepInv, SweepTypeOK
  <2>4. walks' \in 0..MaxWalks
    BY <2>1, SweepAssumption DEF SweepAssumption, SweepInv, SweepTypeOK
  <2>5. SweepTypeOK' /\ PoolHasLock'
    BY <2>1, <2>2, <2>3, <2>4, Zenon DEF SweepInv, SweepTypeOK, PoolHasLock
  <2> QED
    BY <2>1, <2>2, <2>3, <2>5, NothingHeld, StepsAside DEF SweepInv, NoticesWane
<1>4. ASSUME NEW f \in FollowIds, CheckFollowed(f) PROVE SweepInv'
  <2> DEFINE loaded == {<<f, follows[f].series>>}
             started == [NoWalk EXCEPT !.phase = "walking", !.todo = loaded,
                                       !.status = "running"]
  <2>1. /\ walk["request"].phase = "idle" /\ walks > 0 /\ walks' = walks - 1
        /\ walk' = [walk EXCEPT !["request"] = started]
        /\ UNCHANGED <<follows, released, notices, checkLock, guard, clashed, badAnswers>>
    BY <1>4 DEF CheckFollowed, StartRun
  <2>2. started \in Walk /\ started.phase = "walking" /\ started.at = {}
    <3>1. loaded \subseteq FollowIds \X Series
      BY <1>4 DEF CheckFollowed, Here, SweepInv, SweepTypeOK, FollowRow
    <3> HIDE DEF loaded
    <3> QED  BY <3>1 DEF NoWalk, Walk
  <2>3. /\ walk' \in [Walkers -> Walk] /\ walk'["pool"] = walk["pool"]
        /\ walk'["request"] = started
    BY <2>1, <2>2 DEF SweepInv, SweepTypeOK
  <2>4. walks' \in 0..MaxWalks
    BY <2>1, SweepAssumption DEF SweepAssumption, SweepInv, SweepTypeOK
  <2>5. SweepTypeOK' /\ PoolHasLock'
    BY <2>1, <2>3, <2>4 DEF SweepInv, SweepTypeOK, PoolHasLock
  <2> QED
    BY <2>1, <2>2, <2>3, <2>5, NothingHeld, StepsAside DEF SweepInv, NoticesWane
<1> QED  BY <1>1, <1>2, <1>3, <1>4

\* The lock stays with the pool's check while a walk of any thread goes on.
LEMMA LockKept ==
  ASSUME SweepInv, NEW t \in Walkers, walk[t].phase # "idle",
         \A u \in Walkers \ {t} : walk'[u] = walk[u], UNCHANGED checkLock
  PROVE  PoolHasLock'
BY DEF SweepInv, PoolHasLock, Walkers

\* A walk that takes no row, or fails with the one it has taken.
LEMMA RowEndsStep ==
  ASSUME SweepInv, NEW t \in Walkers,
         \/ EndRun(t) \/ Deadline(t)
         \/ \E f \in FollowIds :
              FetchFails(t, f) \/ ExpiredRowGone(t, f) \/ BudgetSkip(t, f)
  PROVE  SweepInv'
<1>0. walk \in [Walkers -> Walk] /\ walk[t] \in Walk /\ walk[t].phase = "walking"
  BY DEF SweepInv, SweepTypeOK, FetchFails, ExpiredRowGone, Deadline, BudgetSkip, NextRow,
         EndRun
<1>1. walk[t].at = {} /\ \A g \in FollowIds : guard[g] \ {t} = guard[g]
  BY <1>0, NothingHeld
<1>2. ASSUME NEW f \in FollowIds, FetchFails(t, f) PROVE SweepInv'
  <2>1. /\ badAnswers > 0 /\ badAnswers' = badAnswers - 1
        /\ FailRow(t, f, walk[t].fresh \/ f \in walk[t].expired)
        /\ UNCHANGED <<follows, released, notices, checkLock, guard, clashed, walks>>
    BY <1>2 DEF FetchFails
  <2>2. /\ walk' \in [Walkers -> Walk] /\ \A u \in Walkers \ {t} : walk'[u] = walk[u]
        /\ walk'[t].phase = "walking" /\ walk'[t].at = {}
    <3>1. (walk[t].fresh \/ f \in walk[t].expired) \in BOOLEAN
      OBVIOUS
    <3> QED  BY <2>1, <3>1, FailedRow, Zenon DEF SweepInv
  <2>3. badAnswers' \in 0..MaxBadAnswers
    BY <2>1, SweepAssumption DEF SweepAssumption, SweepInv, SweepTypeOK
  <2>4. SweepTypeOK' /\ PoolHasLock'
    BY <1>0, <2>1, <2>2, <2>3, LockKept DEF SweepInv, SweepTypeOK
  <2> QED  BY <1>1, <2>1, <2>2, <2>4, StepsAside DEF SweepInv, NoticesWane
<1>3. ASSUME NEW f \in FollowIds, ExpiredRowGone(t, f) PROVE SweepInv'
  <2>1. /\ walk' = [walk EXCEPT ![t] = [walk[t] EXCEPT !.todo = {}, !.expired = {},
                                                        !.status = "failed"]]
        /\ UNCHANGED <<follows, released, notices, checkLock, guard, clashed, badAnswers,
                       walks>>
    BY <1>0, <1>3 DEF ExpiredRowGone
  <2>2. [walk[t] EXCEPT !.todo = {}, !.expired = {}, !.status = "failed"] \in Walk
    BY <1>0 DEF Walk
  <2>3. /\ walk' \in [Walkers -> Walk] /\ \A u \in Walkers \ {t} : walk'[u] = walk[u]
        /\ walk'[t].phase = "walking" /\ walk'[t].at = {}
    BY <1>0, <1>1, <2>1, <2>2 DEF Walk
  <2>4. SweepTypeOK' /\ PoolHasLock'
    BY <1>0, <2>1, <2>3, LockKept DEF SweepInv, SweepTypeOK
  <2> QED  BY <1>1, <2>1, <2>3, <2>4, StepsAside DEF SweepInv, NoticesWane
<1>4. CASE Deadline(t)
  <2>1. /\ walk' = [walk EXCEPT ![t] = [walk[t] EXCEPT !.todo = {}, !.expired = {}]]
        /\ UNCHANGED <<follows, released, notices, checkLock, guard, clashed, badAnswers,
                       walks>>
    BY <1>0, <1>4 DEF Deadline
  <2>2. [walk[t] EXCEPT !.todo = {}, !.expired = {}] \in Walk
    BY <1>0 DEF Walk
  <2>3. /\ walk' \in [Walkers -> Walk] /\ \A u \in Walkers \ {t} : walk'[u] = walk[u]
        /\ walk'[t].phase = "walking" /\ walk'[t].at = {}
    BY <1>0, <1>1, <2>1, <2>2 DEF Walk
  <2>4. SweepTypeOK' /\ PoolHasLock'
    BY <1>0, <2>1, <2>3, LockKept DEF SweepInv, SweepTypeOK
  <2> QED  BY <1>1, <2>1, <2>3, <2>4, StepsAside DEF SweepInv, NoticesWane
<1>6. ASSUME NEW f \in FollowIds, BudgetSkip(t, f) PROVE SweepInv'
  <2> DEFINE rest == RowsButOf(t, f)
  <2>1. PICK fresh \in BOOLEAN : fresh = (walk[t].fresh \/ f \in walk[t].expired)
    OBVIOUS
  <2> DEFINE next == [walk[t] EXCEPT !.todo = rest, !.expired = @ \ {f}, !.fresh = fresh]
  <2>2. /\ walk' = [walk EXCEPT ![t] = next]
        /\ UNCHANGED <<follows, released, notices, checkLock, guard, clashed, badAnswers,
                       walks>>
    BY <1>0, <1>6, <2>1 DEF BudgetSkip
  <2>3. next \in Walk /\ next.phase = "walking" /\ next.at = {}
    <3>1. rest \subseteq FollowIds \X Series
      BY <1>0 DEF Walk, RowsButOf
    <3> HIDE DEF rest
    <3> QED  BY <1>0, <1>1, <3>1 DEF Walk
  <2> HIDE DEF next
  <2>4. /\ walk' \in [Walkers -> Walk] /\ \A u \in Walkers \ {t} : walk'[u] = walk[u]
        /\ walk'[t] = next
    BY <1>0, <2>2, <2>3
  <2>5. SweepTypeOK' /\ PoolHasLock'
    BY <1>0, <2>2, <2>4, LockKept DEF SweepInv, SweepTypeOK
  <2> QED  BY <1>1, <2>2, <2>3, <2>4, <2>5, StepsAside DEF SweepInv, NoticesWane
<1>5. CASE EndRun(t)
  <2>1. /\ walk' = [walk EXCEPT ![t] = NoWalk]
        /\ checkLock' = IF t = "pool" THEN FALSE ELSE checkLock
        /\ UNCHANGED <<follows, released, guard, clashed, badAnswers, walks>>
    BY <1>5 DEF EndRun
  <2>2. PICK old \in {{}, ReadNotices} :
          notices' = IF t = "pool" THEN Pruned(old) ELSE notices
    BY <1>5 DEF EndRun
  <2>3. NoWalk \in Walk /\ NoWalk.phase = "idle" /\ NoWalk.at = {}
    BY DEF NoWalk, Walk
  <2>4. /\ walk' \in [Walkers -> Walk] /\ \A u \in Walkers \ {t} : walk'[u] = walk[u]
        /\ walk'[t] = NoWalk
    BY <1>0, <2>1, <2>3
  <2>5. /\ notices' \in [FollowIds -> [AllChapters -> {"none", "unread", "read", "pruned"}]]
        /\ NoticesWane
    <3>1. notices \in [FollowIds -> [AllChapters -> {"none", "unread", "read", "pruned"}]]
      BY DEF SweepInv, SweepTypeOK
    <3>2. \A g \in FollowIds, c \in AllChapters :
            <<g, c>> \in old => notices[g][c] = "read"
      BY DEF ReadNotices
    <3>3. CASE notices' = notices
      BY <3>1, <3>3 DEF NoticesWane
    <3>4. CASE notices' = Pruned(old)
      BY <3>1, <3>2, <3>4 DEF NoticesWane, Pruned
    <3> QED  BY <2>2, <3>3, <3>4
  <2>6. checkLock' \in BOOLEAN /\ PoolHasLock'
    BY <2>1, <2>3, <2>4, Zenon DEF SweepInv, SweepTypeOK, PoolHasLock, Walkers
  <2>7. SweepTypeOK'
    BY <2>1, <2>4, <2>5, <2>6 DEF SweepInv, SweepTypeOK
  <2> QED  BY <1>1, <2>1, <2>3, <2>4, <2>5, <2>6, <2>7, StepsAside DEF SweepInv
<1> QED  BY <1>2, <1>3, <1>4, <1>5, <1>6

\* A fetched row is in hand, and its guard is not yet held.
LEMMA FetchStep ==
  ASSUME SweepInv, NEW t \in Walkers, NEW f \in FollowIds,
         NEW live \in SUBSET AllChapters, Fetch(t, f, live)
  PROVE  SweepInv'
<1> DEFINE rest == RowsButOf(t, f)
           fetched == [walk[t] EXCEPT !.phase = "fetched", !.at = {f}, !.live = live,
                                      !.todo = rest, !.expired = @ \ {f}]
<1>1. walk \in [Walkers -> Walk] /\ walk[t] \in Walk /\ walk[t].phase = "walking"
  BY DEF SweepInv, SweepTypeOK, Fetch, NextRow
<1>2. /\ walk' = [walk EXCEPT ![t] = fetched]
      /\ UNCHANGED <<follows, released, notices, checkLock, guard, clashed, walks>>
  BY <1>1 DEF Fetch
<1>3. fetched \in Walk /\ fetched.phase = "fetched" /\ fetched.at = {f}
  <2>1. rest \subseteq FollowIds \X Series
    BY <1>1 DEF Walk, RowsButOf
  <2> HIDE DEF rest
  <2> QED  BY <1>1, <2>1 DEF Walk
<1> HIDE DEF fetched
<1>4. /\ walk' \in [Walkers -> Walk] /\ walk'[t] = fetched
      /\ \A u \in Walkers \ {t} : walk'[u] = walk[u]
  BY <1>1, <1>2, <1>3
<1>5. badAnswers' \in 0..MaxBadAnswers
  BY SweepAssumption DEF SweepAssumption, SweepInv, SweepTypeOK, Fetch
<1>6. SweepTypeOK' /\ PoolHasLock'
  BY <1>1, <1>2, <1>4, <1>5, LockKept DEF SweepInv, SweepTypeOK
<1>7. \A u \in Walkers, g \in FollowIds :
        /\ Reading(u, g)' <=> Reading(u, g)
        /\ Reading(u, g) => walk'[u] = walk[u]
  BY <1>1, <1>3, <1>4 DEF Reading
<1>8. OneRowInHand'
  BY <1>3, <1>4 DEF SweepInv, OneRowInHand
<1>9. GuardHasOneHolder' /\ SnapshotIsLatest' /\ NeverToldTwice'
  BY <1>2, <1>7
  DEF SweepInv, GuardHasOneHolder, SnapshotIsLatest, NeverToldTwice, Here
<1>10. ToldIsNew' /\ LiveIsAnnounced' /\ SnapshotIsAnnounced'
  BY <1>2, <1>7
  DEF SweepInv, ToldIsNew, LiveIsAnnounced, SnapshotIsAnnounced, Here, Told
<1> QED  BY <1>6, <1>8, <1>9, <1>10 DEF SweepInv

\* Entering the guard: the row is read again, or has gone.
LEMMA EnterStep ==
  ASSUME SweepInv, NEW t \in Walkers, Enter(t)
  PROVE  SweepInv'
<1> DEFINE f == Current(t)
<1>1. walk \in [Walkers -> Walk] /\ walk[t] \in Walk /\ walk[t].phase = "fetched"
  BY DEF SweepInv, SweepTypeOK, Enter
<1>2. f \in FollowIds /\ walk[t].at = {f} /\ guard[f] = {}
  BY <1>1, CurrentRow DEF Enter, Guarded
<1>3. UNCHANGED <<follows, released, notices, checkLock, clashed, badAnswers, walks>>
  BY DEF Enter
<1> HIDE DEF f
<1>4. CASE Here(f)
  <2> DEFINE entered == [walk[t] EXCEPT !.phase = "guarded", !.known = follows[f].known]
  <2>1. /\ guard' = [guard EXCEPT ![f] = {t}]
        /\ walk' = [walk EXCEPT ![t] = entered]
    BY <1>1, <1>4 DEF Enter, f
  <2>2. /\ entered \in Walk /\ entered.phase = "guarded" /\ entered.at = {f}
        /\ entered.known = follows[f].known
    BY <1>1, <1>2, <1>4 DEF Walk, SweepInv, SweepTypeOK, FollowRow, Here
  <2>3. /\ walk' \in [Walkers -> Walk] /\ walk'[t] = entered
        /\ \A u \in Walkers \ {t} : walk'[u] = walk[u]
    BY <1>1, <2>1, <2>2
  <2>4. /\ guard' \in [FollowIds -> SUBSET Walkers] /\ guard'[f] = {t}
        /\ \A g \in FollowIds \ {f} : guard'[g] = guard[g]
    BY <1>2, <2>1 DEF SweepInv, SweepTypeOK
  <2>5. SweepTypeOK' /\ PoolHasLock'
    BY <1>1, <1>3, <2>3, <2>4, LockKept DEF SweepInv, SweepTypeOK
  <2>6. /\ \A g \in FollowIds : Reading(t, g)' <=> g = f
        /\ \A g \in FollowIds : ~Reading(t, g)
        /\ \A u \in Walkers \ {t}, g \in FollowIds : Reading(u, g)' <=> Reading(u, g)
    BY <1>1, <1>2, <2>2, <2>3 DEF Reading
  <2>7. OneRowInHand'
    BY <1>2, <2>2, <2>3 DEF SweepInv, OneRowInHand
  <2>8. GuardHasOneHolder'
    BY <1>2, <2>4, <2>6 DEF SweepInv, GuardHasOneHolder
  <2>9. SnapshotIsLatest'
    <3> SUFFICES ASSUME NEW u \in Walkers, NEW g \in FollowIds, Reading(u, g)',
                        walk'[u].own
                 PROVE  Here(g) /\ walk'[u].known = follows[g].known
      BY <1>3 DEF SnapshotIsLatest, Here
    <3>1. CASE u = t
      BY <1>4, <2>2, <2>3, <2>6, <3>1
    <3>2. CASE u # t
      BY <2>3, <2>6, <3>2 DEF SweepInv, SnapshotIsLatest
    <3> QED  BY <3>1, <3>2
  <2>10. ToldIsNew' /\ LiveIsAnnounced'
    <3>1. \A u \in Walkers, g \in FollowIds :
            Reading(u, g)' /\ walk'[u].phase = "told" =>
              Reading(u, g) /\ walk'[u] = walk[u]
      BY <2>2, <2>3, <2>6
    <3> QED  BY <1>3, <3>1 DEF SweepInv, ToldIsNew, LiveIsAnnounced, Here, Told
  <2>11. NeverToldTwice' /\ SnapshotIsAnnounced'
    BY <1>3 DEF SweepInv, NeverToldTwice, SnapshotIsAnnounced, Here
  <2> QED  BY <2>5, <2>7, <2>8, <2>9, <2>10, <2>11 DEF SweepInv
<1>5. CASE ~Here(f)
  <2> DEFINE left == BetweenRows(walk[t])
  <2>1. UNCHANGED guard /\ walk' = [walk EXCEPT ![t] = left]
    BY <1>1, <1>5 DEF Enter, f
  <2>2. left \in Walk /\ left.phase = "walking" /\ left.at = {}
    BY <1>1, RowLeft
  <2>3. /\ walk' \in [Walkers -> Walk] /\ walk'[t] = left
        /\ \A u \in Walkers \ {t} : walk'[u] = walk[u]
    BY <1>1, <2>1, <2>2
  <2>4. SweepTypeOK' /\ PoolHasLock'
    BY <1>1, <1>3, <2>1, <2>3, LockKept DEF SweepInv, SweepTypeOK
  <2>5. \A g \in FollowIds : guard'[g] = guard[g] \ {t}
    BY <1>1, <2>1 DEF SweepInv, GuardHasOneHolder, Reading
  <2> QED
    BY <1>3, <2>2, <2>3, <2>4, <2>5, StepsAside DEF SweepInv, NoticesWane
<1> QED  BY <1>4, <1>5

\* Keeping the snapshot, or diffing it, inside the guard.
LEMMA DiffStep ==
  ASSUME SweepInv, NEW t \in Walkers, KeepSnapshot(t) \/ Diff(t)
  PROVE  SweepInv'
<1> DEFINE f == Current(t)
<1>1. walk \in [Walkers -> Walk] /\ walk[t] \in Walk /\ walk[t].phase = "guarded"
  BY DEF SweepInv, SweepTypeOK, KeepSnapshot, Diff
<1>2. f \in FollowIds /\ walk[t].at = {f}
  BY <1>1, CurrentRow
<1> HIDE DEF f
<1>3. Reading(t, f) /\ t \in guard[f] /\ \A g \in FollowIds \ {f} : t \notin guard[g]
  BY <1>1, <1>2 DEF Reading, SweepInv, GuardHasOneHolder
<1>4. CASE KeepSnapshot(t)
  <2>1. /\ FailRow(t, f, FALSE) /\ guard' = [guard EXCEPT ![f] = {}]
        /\ UNCHANGED <<follows, released, notices, checkLock, clashed, badAnswers, walks>>
    BY <1>4 DEF KeepSnapshot, f
  <2>2. /\ walk' \in [Walkers -> Walk] /\ \A u \in Walkers \ {t} : walk'[u] = walk[u]
        /\ walk'[t].phase = "walking" /\ walk'[t].at = {}
    BY <1>2, <2>1, FailedRow DEF SweepInv
  <2>3. /\ guard' \in [FollowIds -> SUBSET Walkers]
        /\ \A g \in FollowIds : guard'[g] = guard[g] \ {t}
    BY <1>2, <1>3, <2>1 DEF SweepInv, SweepTypeOK, GuardHasOneHolder
  <2>4. SweepTypeOK' /\ PoolHasLock'
    BY <1>1, <2>1, <2>2, <2>3, LockKept DEF SweepInv, SweepTypeOK
  <2> QED  BY <2>1, <2>2, <2>3, <2>4, StepsAside DEF SweepInv, NoticesWane
<1>5. CASE Diff(t)
  <2>0. PICK notify \in BOOLEAN :
          walk' = [walk EXCEPT ![t].phase = "told", ![t].notify = notify,
                     ![t].told = ToAnnounce(walk[t].live, walk[t].known, Told(f), notify)]
    BY <1>5 DEF Diff, f
  <2> DEFINE tell == ToAnnounce(walk[t].live, walk[t].known, Told(f), notify)
             diffed == [walk[t] EXCEPT !.phase = "told", !.notify = notify, !.told = tell]
  <2>1. /\ walk' = [walk EXCEPT ![t] = diffed]
        /\ UNCHANGED <<follows, released, notices, checkLock, guard, clashed, badAnswers,
                       walks>>
    BY <1>1, <1>5, <2>0 DEF Diff
  <2>2. tell \subseteq AllChapters /\ tell \cap Told(f) = {}
    BY <1>1 DEF ToAnnounce, Walk
  <2>3. \A c \in walk[t].live \ walk[t].known :
          walk[t].known # {} /\ notify => c \in tell \/ notices[f][c] # "none"
    BY <1>1, <1>2 DEF ToAnnounce, Told, Walk
  <2> HIDE DEF tell
  <2>4. /\ diffed \in Walk /\ diffed.phase = "told" /\ diffed.at = {f}
        /\ diffed.told = tell /\ diffed.known = walk[t].known
        /\ diffed.live = walk[t].live /\ diffed.notify = notify
        /\ diffed.own = walk[t].own
    BY <1>1, <1>2, <2>2 DEF Walk
  <2>5. /\ walk' \in [Walkers -> Walk] /\ walk'[t] = diffed
        /\ \A u \in Walkers \ {t} : walk'[u] = walk[u]
    BY <1>1, <2>1, <2>4
  <2>6. SweepTypeOK' /\ PoolHasLock'
    BY <1>1, <2>1, <2>5, LockKept DEF SweepInv, SweepTypeOK
  <2>7. \A u \in Walkers, g \in FollowIds :
          /\ Reading(u, g)' <=> Reading(u, g)
          /\ Reading(t, g) => g = f
    BY <1>1, <1>2, <2>4, <2>5 DEF Reading
  <2>8. OneRowInHand'
    BY <1>2, <2>4, <2>5 DEF SweepInv, OneRowInHand
  <2>9. GuardHasOneHolder' /\ NeverToldTwice' /\ SnapshotIsAnnounced'
    BY <2>1, <2>7
    DEF SweepInv, GuardHasOneHolder, NeverToldTwice, SnapshotIsAnnounced, Here
  <2>10. SnapshotIsLatest'
    BY <2>1, <2>4, <2>5, <2>7 DEF SweepInv, SnapshotIsLatest, Here
  <2>11. ToldIsNew'
    BY <2>1, <2>2, <2>4, <2>5, <2>7 DEF SweepInv, ToldIsNew, Told
  <2>12. LiveIsAnnounced'
    BY <2>1, <2>3, <2>4, <2>5, <2>7 DEF SweepInv, LiveIsAnnounced, Here
  <2> QED
    BY <2>6, <2>8, <2>9, <2>10, <2>11, <2>12 DEF SweepInv
<1> QED  BY <1>4, <1>5

\* The commit: what is announced is in the table when the snapshot has it.
LEMMA CommitStep ==
  ASSUME SweepInv, NEW t \in Walkers, CommitRow(t)
  PROVE  SweepInv'
<1> DEFINE f == Current(t)
           w == walk[t]
           twice == w.told \cap Told(f) # {}
<1>1. walk \in [Walkers -> Walk] /\ w \in Walk /\ w.phase = "told"
  BY DEF SweepInv, SweepTypeOK, CommitRow
<1>2. f \in FollowIds /\ w.at = {f}
  BY <1>1, CurrentRow
<1>3. /\ clashed' = (clashed \/ (Here(f) /\ twice))
      /\ guard' = [guard EXCEPT ![f] = {}]
      /\ UNCHANGED <<released, checkLock, badAnswers, walks>>
  BY DEF CommitRow
<1>4. CASE ~(Here(f) /\ ~twice)
  <2>1. FailRow(t, f, TRUE) /\ UNCHANGED <<notices, follows>>
    BY <1>4 DEF CommitRow
  <2> HIDE DEF f
  <2>2. /\ Reading(t, f) /\ t \in guard[f]
        /\ \A g \in FollowIds \ {f} : t \notin guard[g]
    BY <1>1, <1>2 DEF Reading, SweepInv, GuardHasOneHolder
  <2>3. ~twice
    BY <1>1, <1>2, <2>2 DEF SweepInv, ToldIsNew
  <2>4. ~clashed /\ ~clashed'
    BY <1>3, <2>3 DEF SweepInv, NeverToldTwice
  <2>5. /\ walk' \in [Walkers -> Walk] /\ \A u \in Walkers \ {t} : walk'[u] = walk[u]
        /\ walk'[t].phase = "walking" /\ walk'[t].at = {}
    BY <1>2, <2>1, FailedRow DEF SweepInv
  <2>6. /\ guard' \in [FollowIds -> SUBSET Walkers]
        /\ \A g \in FollowIds : guard'[g] = guard[g] \ {t}
    BY <1>2, <1>3, <2>2 DEF SweepInv, SweepTypeOK, GuardHasOneHolder
  <2>7. clashed' = clashed
    BY <1>3, <2>3, Zenon DEF SweepInv, SweepTypeOK, NeverToldTwice
  <2>8. SweepTypeOK' /\ PoolHasLock'
    BY <1>1, <1>3, <2>1, <2>5, <2>6, <2>7, LockKept DEF SweepInv, SweepTypeOK
  <2> QED  BY <2>1, <2>5, <2>6, <2>7, <2>8, StepsAside DEF SweepInv, NoticesWane
<1>5. CASE Here(f) /\ ~twice
  <2> DEFINE done == BetweenRows(w)
             shown == [c \in AllChapters |-> IF c \in w.told THEN "unread" ELSE notices[f][c]]
             quiet == Quiet(w, follows[f].quiet)
             row == [follows[f] EXCEPT !.known = w.live, !.quiet = quiet]
  <2>1. /\ notices' = [notices EXCEPT ![f] = shown]
        /\ follows' = [follows EXCEPT ![f] = row]
        /\ walk' = [walk EXCEPT ![t] = done]
    <3>1. follows' = [follows EXCEPT ![f].known = w.live, ![f].quiet = Quiet(w, @)]
      BY <1>5 DEF CommitRow
    <3>2. walk' = [walk EXCEPT ![t] = BetweenRows(@)]
      BY <1>5 DEF CommitRow
    <3>3. notices' = [notices EXCEPT ![f] = shown]
      BY <1>5 DEF CommitRow
    <3> HIDE DEF f
    <3> QED  BY <1>1, <1>2, <1>5, <3>1, <3>2, <3>3 DEF SweepInv, SweepTypeOK, Here
  <2> HIDE DEF f
  <2>2. /\ Reading(t, f)
        /\ \A u \in Walkers, g \in FollowIds : Reading(u, g) /\ (u = t \/ g = f) =>
             u = t /\ g = f
    BY <1>1, <1>2 DEF Reading, SweepInv, GuardHasOneHolder
  <2>3. w.own => w.known = follows[f].known
    BY <1>2, <1>5, <2>2 DEF SweepInv, SnapshotIsLatest
  <2>4. /\ done \in Walk /\ done.phase = "walking" /\ done.at = {}
        /\ walk' \in [Walkers -> Walk] /\ walk'[t] = done
        /\ \A u \in Walkers \ {t} : walk'[u] = walk[u]
    <3>1. done \in Walk /\ done.phase = "walking" /\ done.at = {}
      BY <1>1, RowLeft
    <3> HIDE DEF done
    <3> QED  BY <1>1, <2>1, <3>1
  <2>5. quiet \in SUBSET AllChapters
    BY <1>1, <1>2, <1>5 DEF SweepInv, SweepTypeOK, FollowRow, Here, Walk, Quiet
  <2>6. row \in FollowRow /\ row.known = w.live /\ row.quiet = quiet
    <3>1. follows[f] \in FollowRow
      BY <1>5 DEF SweepInv, SweepTypeOK, Here
    <3>2. w.live \in SUBSET AllChapters
      BY <1>1 DEF Walk
    <3> HIDE DEF quiet
    <3> QED  BY <2>5, <3>1, <3>2 DEF FollowRow
  <2>7. /\ shown \in [AllChapters -> {"none", "unread", "read", "pruned"}]
        /\ \A c \in AllChapters : c \in w.told \/ notices[f][c] # "none" => shown[c] # "none"
    BY <1>2 DEF SweepInv, SweepTypeOK
  <2>8. \A c \in w.live \ quiet : shown[c] # "none"
    <3> SUFFICES ASSUME NEW c \in w.live \ quiet PROVE shown[c] # "none"
      OBVIOUS
    <3>1. c \in AllChapters /\ w.known # {} /\ w.own
      BY <1>1 DEF Walk, Quiet
    <3>2. CASE c \in w.known
      <4>1. c \in follows[f].known \ follows[f].quiet
        BY <2>3, <3>1, <3>2 DEF Quiet
      <4> QED  BY <1>5, <2>7, <3>1, <4>1 DEF SweepInv, SnapshotIsAnnounced, Here
    <3>3. CASE c \notin w.known
      <4>1. w.notify
        BY <3>1, <3>3 DEF Quiet
      <4>2. c \in w.told \/ notices[f][c] # "none"
        BY <1>1, <1>2, <2>2, <3>1, <3>3, <4>1 DEF SweepInv, LiveIsAnnounced
      <4> QED  BY <2>7, <3>1, <4>2
    <3> QED  BY <3>2, <3>3
  <2> HIDE DEF shown
  <2>9. /\ notices' \in [FollowIds -> [AllChapters -> {"none", "unread", "read", "pruned"}]]
        /\ DOMAIN follows' = DOMAIN follows /\ follows' \in [DOMAIN follows -> FollowRow]
        /\ notices'[f] = shown /\ follows'[f] = row
        /\ \A g \in FollowIds \ {f} : notices'[g] = notices[g]
        /\ \A g \in DOMAIN follows \ {f} : follows'[g] = follows[g]
    <3> HIDE DEF row
    <3> QED  BY <1>2, <1>5, <2>1, <2>6, <2>7 DEF SweepInv, SweepTypeOK, Here
  <2>10. \A c \in row.known \ row.quiet : shown[c] # "none"
    BY <2>6, <2>8
  <2> HIDE DEF row, done
  <2>11. /\ guard' \in [FollowIds -> SUBSET Walkers] /\ guard'[f] = {}
         /\ \A g \in FollowIds \ {f} : guard'[g] = guard[g]
    BY <1>2, <1>3 DEF SweepInv, SweepTypeOK
  <2>12. clashed' = clashed
    BY <1>3, <1>5, Zenon DEF SweepInv, SweepTypeOK, NeverToldTwice
  <2>13. SweepTypeOK' /\ PoolHasLock'
    BY <1>1, <1>3, <2>4, <2>9, <2>11, <2>12, LockKept DEF SweepInv, SweepTypeOK
  <2>14. \A u \in Walkers, g \in FollowIds :
           Reading(u, g)' <=> u # t /\ g # f /\ Reading(u, g)
    BY <2>2, <2>4 DEF Reading
  <2>15. OneRowInHand'
    BY <2>4 DEF SweepInv, OneRowInHand
  <2>16. GuardHasOneHolder'
    <3>1. \A g \in FollowIds \ {f} : ~Reading(t, g)
      BY <2>2
    <3> QED  BY <2>11, <2>14, <3>1 DEF SweepInv, GuardHasOneHolder
  <2>17. SnapshotIsLatest' /\ ToldIsNew' /\ LiveIsAnnounced'
    <3> SUFFICES ASSUME NEW u \in Walkers, NEW g \in FollowIds, Reading(u, g)'
                 PROVE  /\ walk'[u].own => Here(g)' /\ walk'[u].known = follows'[g].known
                        /\ walk'[u].phase = "told" =>
                             /\ walk'[u].told \cap Told(g)' = {}
                             /\ walk'[u].own /\ walk'[u].known # {} /\ walk'[u].notify =>
                                  \A c \in walk'[u].live \ walk'[u].known :
                                    c \in walk'[u].told \/ notices'[g][c] # "none"
      BY DEF SnapshotIsLatest, ToldIsNew, LiveIsAnnounced
    <3>1. /\ Reading(u, g) /\ walk'[u] = walk[u] /\ notices'[g] = notices[g]
          /\ Here(g) => Here(g)' /\ follows'[g] = follows[g]
      BY <2>4, <2>9, <2>14 DEF Here
    <3>2. Told(g)' = Told(g)
      BY <3>1 DEF Told
    <3> QED
      BY <3>1, <3>2 DEF SweepInv, SnapshotIsLatest, ToldIsNew, LiveIsAnnounced
  <2>18. NeverToldTwice'
    BY <2>12 DEF SweepInv, NeverToldTwice
  <2>19. SnapshotIsAnnounced'
    BY <1>2, <2>9, <2>10 DEF SweepInv, SweepTypeOK, SnapshotIsAnnounced
  <2> QED
    BY <2>13, <2>15, <2>16, <2>17, <2>18, <2>19 DEF SweepInv
<1> QED  BY <1>4, <1>5

LEMMA SweepStep == SweepInv /\ [SweepNext]_sweepVars => SweepInv'
<1> SUFFICES ASSUME SweepInv, [SweepNext]_sweepVars PROVE SweepInv'
  OBVIOUS
<1>1. ASSUME \/ \E f \in FollowIds, s \in Series : Follow(f, s)
             \/ \E f \in FollowIds : Unfollow(f)
             \/ \E f \in FollowIds, c \in AllChapters : ReadNotice(f, c)
             \/ \E s \in Series : Release(s)
      PROVE SweepInv'
  BY <1>1, ReadersStep
<1>2. ASSUME TriggerCheck \/ StartSweep \/ SkipStartup
               \/ \E f \in FollowIds : CheckFollowed(f)
      PROVE SweepInv'
  BY <1>2, StartsStep
<1>3. ASSUME NEW t \in Walkers,
             Deadline(t) \/ \E f \in FollowIds : BudgetSkip(t, f)
      PROVE SweepInv'
  BY <1>3, RowEndsStep
<1>4. ASSUME NEW t \in Walkers, WalkStep(t) PROVE SweepInv'
  <2>1. ASSUME NEW f \in FollowIds, NEW live \in SUBSET AllChapters, Fetch(t, f, live)
        PROVE SweepInv'
    BY <2>1, FetchStep
  <2>2. ASSUME NEW f \in FollowIds, FetchFails(t, f) \/ ExpiredRowGone(t, f)
        PROVE SweepInv'
    BY <2>2, RowEndsStep
  <2>3. CASE EndRun(t)
    BY <2>3, RowEndsStep
  <2>4. CASE Enter(t) \/ KeepSnapshot(t) \/ Diff(t) \/ CommitRow(t)
    BY <2>4, EnterStep, DiffStep, CommitStep
  <2> QED  BY <1>4, <2>1, <2>2, <2>3, <2>4 DEF WalkStep
<1>5. CASE UNCHANGED sweepVars
  <2>1. SweepTypeOK' /\ PoolHasLock' /\ OneRowInHand' /\ NeverToldTwice'
    BY <1>5
    DEF sweepVars, SweepInv, SweepTypeOK, PoolHasLock, OneRowInHand, NeverToldTwice
  <2>2. GuardHasOneHolder'
    BY <1>5 DEF sweepVars, SweepInv, GuardHasOneHolder, Reading
  <2>3. SnapshotIsLatest' /\ SnapshotIsAnnounced'
    BY <1>5
    DEF sweepVars, SweepInv, SnapshotIsLatest, SnapshotIsAnnounced, Reading, Here
  <2>4. ToldIsNew' /\ LiveIsAnnounced'
    BY <1>5 DEF sweepVars, SweepInv, ToldIsNew, LiveIsAnnounced, Reading, Here, Told
  <2> QED  BY <2>1, <2>2, <2>3, <2>4 DEF SweepInv
<1> QED  BY <1>1, <1>2, <1>3, <1>4, <1>5 DEF SweepNext

-----------------------------------------------------------------------------
(* What every run of the sweep keeps.                                      *)

\* The inductive invariant, with the types, in every reachable state.
THEOREM SweepHolds == SweepSpec => []SweepInv
BY SweepStarts, SweepStep, PTL DEF SweepSpec

\* No chapter's notification is inserted twice, however the pool's sweep and a
\* single check interleave on one series: the guard makes the second walk read
\* the row, and what it announces, after the first one's commit.
THEOREM NobodyIsToldTwice == SweepSpec => []NeverToldTwice
<1>1. SweepInv => NeverToldTwice
  BY DEF SweepInv
<1> QED  BY <1>1, SweepHolds, PTL

\* No chapter enters a snapshot that has a baseline without its notification,
\* unless notifications were off at its diff, or its walk's own row was deleted
\* and another follow has its id: what a diff leaves out was announced before,
\* and pruning forgets only what was read.
THEOREM NewsIsNeverSwallowed == SweepSpec => []SnapshotIsAnnounced
<1>1. SweepInv => SnapshotIsAnnounced
  BY DEF SweepInv
<1> QED  BY <1>1, SweepHolds, PTL

-----------------------------------------------------------------------------
(* The restore of a backup. *)

\* From the rename of the old database to that of the staged file there is no
\* live database, and the staged file is there.
SwapInProgress ==
    /\ server \in {"aside", "walAside", "cleared"} => ~main.there /\ pending.there
    /\ server \in {"aside", "walAside"} => Len(kept) > 0
    /\ server = "up" => main.there

\* Before the staged file goes into place the old -wal has gone.
NoOldWal == server \in {"walAside", "cleared", "placed"} => wal = {}

\* What is in the live database's files, whenever they are there.
MainIsWhole ==
    /\ server \in {"up", "down"} /\ main.there /\ ~emptied => main.data \cup wal = truth
    /\ server = "placed" => main.there /\ main.data = truth /\ ~emptied /\ ~pending.there

RestoreInv == RestoreTypeOK /\ SwapInProgress /\ NoOldWal /\ MainIsWhole

-----------------------------------------------------------------------------
LEMMA RestoreStarts == RestoreInit => RestoreInv
<1> SUFFICES ASSUME RestoreInit PROVE RestoreInv
  OBVIOUS
<1>1. File({}) \in Files /\ File({}).there /\ File({}).data = {} /\ NoFile \in Files
  BY DEF File, NoFile, Files
<1>2. kept \in Seq(Retained)
  BY EmptySeq DEF RestoreInit
<1>3. lastCommit \in 0..MaxCommits /\ restores \in 0..MaxRestores /\ faults \in 0..MaxFaults
  BY RestoreAssumption DEF RestoreAssumption, RestoreInit
<1>4. emptied \in BOOLEAN
  BY Zenon DEF RestoreInit
<1>5. RestoreTypeOK
  BY <1>1, <1>2, <1>3, <1>4 DEF RestoreInit, RestoreTypeOK
<1>6. SwapInProgress /\ NoOldWal /\ MainIsWhole
  BY <1>1 DEF RestoreInit, SwapInProgress, NoOldWal, MainIsWhole
<1> QED  BY <1>5, <1>6 DEF RestoreInv

\* A running server, and what befalls a stopped one.
LEMMA ServingStep ==
  ASSUME RestoreInv,
         \/ CommitWork \/ Checkpoint \/ CreateSnapshot \/ ClearPending \/ Stop
         \/ Spoils \/ BootDies
         \/ \E data \in Uploads : StageRestore(data)
  PROVE  RestoreInv'
<1>1. UNCHANGED <<kept, emptied>>
  BY DEF CommitWork, Checkpoint, CreateSnapshot, ClearPending, Stop, Spoils, BootDies,
         StageRestore, ghosts
<1>2. CASE CommitWork
  <2>1. /\ lastCommit' \in 0..MaxCommits /\ lastCommit' \in Commits
        /\ wal' = wal \cup {lastCommit'} /\ truth' = truth \cup {lastCommit'}
    BY <1>2, RestoreAssumption DEF RestoreAssumption, RestoreInv, RestoreTypeOK, CommitWork, Commits
  <2>2. /\ server = "up" /\ UNCHANGED <<server, main, pending, exports, restores, faults>>
    BY <1>2 DEF CommitWork
  <2>3. RestoreTypeOK'
    BY <1>1, <2>1, <2>2 DEF RestoreInv, RestoreTypeOK
  <2> QED
    BY <1>1, <2>1, <2>2, <2>3
    DEF RestoreInv, SwapInProgress, NoOldWal, MainIsWhole
<1>3. CASE Checkpoint
  <2>1. /\ server = "up" /\ main' = File(main.data \cup wal) /\ wal' = {}
        /\ UNCHANGED <<server, pending, exports, truth, lastCommit, restores, faults>>
    BY <1>3 DEF Checkpoint, ghosts
  <2>2. main.data \cup wal \subseteq Commits
    BY DEF RestoreInv, RestoreTypeOK, Files
  <2>3. main' \in Files /\ main'.there /\ main'.data = main.data \cup wal
    BY <2>1, <2>2 DEF File, Files
  <2>4. RestoreTypeOK'
    BY <1>1, <2>1, <2>3 DEF RestoreInv, RestoreTypeOK
  <2> QED
    BY <1>1, <2>1, <2>3, <2>4
    DEF RestoreInv, SwapInProgress, NoOldWal, MainIsWhole
<1>4. CASE CreateSnapshot \/ ClearPending \/ \E data \in Uploads : StageRestore(data)
  <2>1. server = "up" /\ UNCHANGED <<server, main, wal, truth, lastCommit, faults>>
    BY <1>4 DEF CreateSnapshot, ClearPending, StageRestore, ghosts
  <2>2. main.data \cup wal \subseteq Commits
    BY DEF RestoreInv, RestoreTypeOK, Files
  <2>3. exports' \subseteq SUBSET Commits
    BY <1>4, <2>2
    DEF CreateSnapshot, ClearPending, StageRestore, RestoreInv, RestoreTypeOK
  <2>4. Uploads \subseteq SUBSET Commits
    <3>1. \A i \in 1..Len(kept) : kept[i] \in Retained
      BY ElementOfSeq DEF RestoreInv, RestoreTypeOK
    <3> QED  BY <3>1 DEF Uploads, Retained, RestoreInv, RestoreTypeOK
  <2>5. pending' \in Files
    <3>1. CASE CreateSnapshot
      BY <3>1 DEF CreateSnapshot, RestoreInv, RestoreTypeOK
    <3>2. CASE ClearPending
      BY <3>2 DEF ClearPending, NoFile, Files
    <3>3. ASSUME NEW data \in Uploads, StageRestore(data) PROVE pending' \in Files
      BY <2>4, <3>3 DEF StageRestore, File, Files
    <3> QED  BY <1>4, <3>1, <3>2, <3>3
  <2>6. restores' \in 0..MaxRestores
    BY <1>4, RestoreAssumption
    DEF RestoreAssumption, CreateSnapshot, ClearPending, StageRestore, RestoreInv,
        RestoreTypeOK
  <2>7. RestoreTypeOK'
    BY <1>1, <2>1, <2>3, <2>5, <2>6 DEF RestoreInv, RestoreTypeOK
  <2> QED
    BY <1>1, <2>1, <2>7 DEF RestoreInv, SwapInProgress, NoOldWal, MainIsWhole
<1>5. CASE Stop
  <2>1. /\ server = "up" /\ server' = "down"
        /\ UNCHANGED <<main, wal, pending, exports, truth, lastCommit, restores, faults>>
    BY <1>5 DEF Stop, ghosts
  <2>2. RestoreTypeOK'
    BY <1>1, <2>1 DEF RestoreInv, RestoreTypeOK
  <2> QED
    BY <1>1, <2>1, <2>2 DEF RestoreInv, SwapInProgress, NoOldWal, MainIsWhole
<1>6. CASE Spoils
  <2>1. /\ server = "down" /\ pending' = [pending EXCEPT !.readable = FALSE]
        /\ UNCHANGED <<server, main, wal, exports, truth, lastCommit, restores>>
    BY <1>6 DEF Spoils, ghosts
  <2>2. faults' \in 0..MaxFaults
    BY <1>6, RestoreAssumption
    DEF RestoreAssumption, Spoils, RestoreInv, RestoreTypeOK
  <2>3. pending' \in Files
    BY <2>1 DEF RestoreInv, RestoreTypeOK, Files
  <2>4. RestoreTypeOK'
    BY <1>1, <2>1, <2>2, <2>3 DEF RestoreInv, RestoreTypeOK
  <2> QED
    BY <1>1, <2>1, <2>4 DEF RestoreInv, SwapInProgress, NoOldWal, MainIsWhole
<1>7. CASE BootDies
  <2>1. /\ server \notin {"up", "down"} /\ server' = "down"
        /\ UNCHANGED <<main, wal, pending, exports, truth, lastCommit, restores>>
    BY <1>7 DEF BootDies, ghosts
  <2>2. faults' \in 0..MaxFaults
    BY <1>7, RestoreAssumption
    DEF RestoreAssumption, BootDies, RestoreInv, RestoreTypeOK
  <2>3. RestoreTypeOK'
    BY <1>1, <2>1, <2>2 DEF RestoreInv, RestoreTypeOK
  <2>4. MainIsWhole'
    <3>1. CASE server = "placed"
      BY <1>1, <2>1, <3>1 DEF RestoreInv, NoOldWal, MainIsWhole
    <3>2. CASE server \in {"aside", "walAside", "cleared"}
      BY <1>1, <2>1, <3>2 DEF RestoreInv, SwapInProgress, MainIsWhole
    <3> QED  BY <2>1, <3>1, <3>2 DEF RestoreInv, RestoreTypeOK
  <2> QED
    BY <2>1, <2>3, <2>4 DEF RestoreInv, SwapInProgress, NoOldWal
<1> QED  BY <1>2, <1>3, <1>4, <1>5, <1>6, <1>7

\* The boot: the database is opened as it is, or swapped, rename by rename.
LEMMA BootingStep ==
  ASSUME RestoreInv, BootStep
  PROVE  RestoreInv'
<1>1. UNCHANGED <<exports, lastCommit, restores, faults>>
  BY DEF BootStep, Start, MoveAside, MoveWalAside, FoldWal, DropWal, MoveIntoPlace,
         PruneCopies
<1>2. kept \in Seq(Retained) /\ Len(kept) \in Nat
      /\ \A i \in 1..Len(kept) : kept[i] \in Retained
  BY LenProperties, ElementOfSeq DEF RestoreInv, RestoreTypeOK
<1>3. CASE Start
  <2>1. /\ server = "down" /\ server' = "up" /\ pending' = NoFile
        /\ main' = File(main.data) /\ UNCHANGED <<wal, kept, truth>>
        /\ emptied' = (emptied \/ ~main.there)
    BY <1>3 DEF Start
  <2>2. main' \in Files /\ main'.there /\ main'.data = main.data /\ pending' \in Files
    BY <2>1 DEF RestoreInv, RestoreTypeOK, File, NoFile, Files
  <2>3. emptied' \in BOOLEAN /\ (~emptied' => ~emptied /\ main.there)
    BY <2>1, Zenon DEF RestoreInv, RestoreTypeOK
  <2>4. RestoreTypeOK'
    BY <1>1, <2>1, <2>2, <2>3 DEF RestoreInv, RestoreTypeOK
  <2> QED
    BY <2>1, <2>2, <2>3, <2>4 DEF RestoreInv, SwapInProgress, NoOldWal, MainIsWhole
<1>4. CASE MoveAside
  <2> DEFINE copy == [data |-> main.data, wal |-> {}, whole |-> main.data \cup wal]
  <2>1. /\ server = "down" /\ pending.there /\ server' = "aside" /\ main' = NoFile
        /\ kept' = Append(kept, copy) /\ UNCHANGED <<wal, pending, truth, emptied>>
    BY <1>4 DEF MoveAside, Applies, ghosts
  <2>2. copy \in Retained
    BY DEF RestoreInv, RestoreTypeOK, Files, Retained
  <2> HIDE DEF copy
  <2>3. kept' \in Seq(Retained) /\ Len(kept') > 0
    BY <1>2, <2>1, <2>2, AppendProperties
  <2>4. main' \in Files /\ ~main'.there
    BY <2>1 DEF NoFile, Files
  <2>5. RestoreTypeOK'
    BY <1>1, <2>1, <2>3, <2>4 DEF RestoreInv, RestoreTypeOK
  <2> QED
    BY <2>1, <2>3, <2>4, <2>5 DEF RestoreInv, SwapInProgress, NoOldWal, MainIsWhole
<1>5. CASE MoveWalAside
  <2> DEFINE copy == [kept[Len(kept)] EXCEPT !.wal = wal]
  <2>1. /\ server = "aside" /\ server' = "walAside" /\ wal' = {}
        /\ kept' = [kept EXCEPT ![Len(kept)].wal = wal]
        /\ UNCHANGED <<main, pending, truth, emptied>>
    BY <1>5 DEF MoveWalAside, ghosts
  <2>2. Len(kept) \in 1..Len(kept)
    BY <1>2, <2>1 DEF RestoreInv, SwapInProgress
  <2>3. copy \in Retained
    <3>1. kept[Len(kept)] \in Retained /\ wal \in SUBSET Commits
      BY <1>2, <2>2 DEF RestoreInv, RestoreTypeOK
    <3> QED  BY <3>1 DEF Retained
  <2>4. kept' = [kept EXCEPT ![Len(kept)] = copy]
    BY <1>2, <2>1, <2>2
  <2> HIDE DEF copy
  <2>5. kept' \in Seq(Retained) /\ Len(kept') = Len(kept)
    BY <1>2, <2>2, <2>3, <2>4, ExceptSeq
  <2>6. RestoreTypeOK'
    BY <1>1, <2>1, <2>5 DEF RestoreInv, RestoreTypeOK
  <2> QED
    BY <2>1, <2>5, <2>6 DEF RestoreInv, SwapInProgress, NoOldWal, MainIsWhole
<1>6. CASE FoldWal
  <2>1. /\ server = "walAside" /\ server' = "cleared"
        /\ UNCHANGED <<main, wal, pending, truth, emptied>>
    BY <1>6 DEF FoldWal, ghosts
  <2>2. Len(kept) \in 1..Len(kept) /\ Last(kept) = kept[Len(kept)]
    BY <1>2, <2>1 DEF RestoreInv, SwapInProgress, Last
  <2> DEFINE last == kept[Len(kept)]
             copy == [last EXCEPT !.data = @ \cup last.wal, !.wal = {}]
  <2>3. kept' = kept \/ kept' = [kept EXCEPT ![Len(kept)] = copy]
    BY <1>6, <2>2 DEF FoldWal
  <2>4. copy \in Retained
    BY <1>2, <2>2 DEF Retained
  <2> HIDE DEF copy
  <2>5. kept' \in Seq(Retained)
    BY <1>2, <2>2, <2>3, <2>4, ExceptSeq
  <2>6. RestoreTypeOK'
    BY <1>1, <2>1, <2>5 DEF RestoreInv, RestoreTypeOK
  <2> QED
    BY <2>1, <2>6 DEF RestoreInv, SwapInProgress, NoOldWal, MainIsWhole
<1>7. CASE DropWal
  <2>1. /\ server = "down" /\ pending.there /\ ~main.there
        /\ server' = "cleared" /\ wal' = {}
        /\ UNCHANGED <<main, pending, kept, truth, emptied>>
    BY <1>7 DEF DropWal, Applies, ghosts
  <2>2. RestoreTypeOK'
    BY <1>1, <2>1 DEF RestoreInv, RestoreTypeOK
  <2> QED
    BY <2>1, <2>2 DEF RestoreInv, SwapInProgress, NoOldWal, MainIsWhole
<1>8. CASE MoveIntoPlace
  <2>1. /\ server = "cleared" /\ server' = "placed" /\ main' = pending
        /\ pending' = NoFile /\ truth' = pending.data /\ emptied' = FALSE
        /\ UNCHANGED <<wal, kept>>
    BY <1>8 DEF MoveIntoPlace
  <2>2. pending' \in Files /\ ~pending'.there /\ main'.there /\ truth' \subseteq Commits
    BY <2>1 DEF RestoreInv, RestoreTypeOK, SwapInProgress, NoFile, Files
  <2>3. emptied' \in BOOLEAN /\ ~emptied'
    BY <2>1, Zenon
  <2>4. RestoreTypeOK'
    BY <1>1, <2>1, <2>2, <2>3 DEF RestoreInv, RestoreTypeOK
  <2> QED
    BY <2>1, <2>2, <2>3, <2>4 DEF RestoreInv, SwapInProgress, NoOldWal, MainIsWhole
<1>9. CASE PruneCopies
  <2>1. /\ server = "placed" /\ server' = "up"
        /\ kept' = IF Len(kept) > KeepReplaced THEN Newest(kept) ELSE kept
        /\ UNCHANGED <<main, wal, pending, truth, emptied>>
    BY <1>9 DEF PruneCopies, ghosts
  <2>2. kept' \in Seq(Retained)
    <3>1. CASE Len(kept) > KeepReplaced
      <4> DEFINE first == Len(kept) - KeepReplaced + 1
      <4>1. first \in Int /\ Len(kept) \in Int /\ \A i \in first..Len(kept) : kept[i] \in Retained
        BY <1>2, <3>1, RestoreAssumption DEF RestoreAssumption
      <4>2. SubSeq(kept, first, Len(kept)) \in Seq(Retained)
        BY <4>1, SubSeqProperties
      <4> QED  BY <2>1, <3>1, <4>2 DEF Newest
    <3>2. CASE ~(Len(kept) > KeepReplaced)
      BY <1>2, <2>1, <3>2
    <3> QED  BY <3>1, <3>2
  <2>3. RestoreTypeOK'
    BY <1>1, <2>1, <2>2 DEF RestoreInv, RestoreTypeOK
  <2> QED
    BY <2>1, <2>3 DEF RestoreInv, SwapInProgress, NoOldWal, MainIsWhole
<1> QED  BY <1>3, <1>4, <1>5, <1>6, <1>7, <1>8, <1>9 DEF BootStep

LEMMA RestoreStep == RestoreInv /\ [RestoreNext]_restoreVars => RestoreInv'
<1> SUFFICES ASSUME RestoreInv, [RestoreNext]_restoreVars PROVE RestoreInv'
  OBVIOUS
<1>1. CASE RestoreNext
  BY <1>1, ServingStep, BootingStep DEF RestoreNext
<1>2. CASE UNCHANGED restoreVars
  BY <1>2
  DEF restoreVars, ghosts, RestoreInv, RestoreTypeOK, SwapInProgress, NoOldWal,
      MainIsWhole
<1> QED  BY <1>1, <1>2

-----------------------------------------------------------------------------
(* What every run of restores keeps.                                       *)

\* The inductive invariant, with the types, in every reachable state.
THEOREM RestoreHolds == RestoreSpec => []RestoreInv
BY RestoreStarts, RestoreStep, PTL DEF RestoreSpec

\* A server that runs has one database and all of it, wherever boots died in
\* the renames of a swap: no commit of the old database's -wal gets into the
\* restored one, and none is missing from the one that stayed.
THEOREM RunsAreWhole == RestoreSpec => []LiveIsWhole
<1>1. RestoreInv => LiveIsWhole
  BY DEF RestoreInv, LiveIsWhole, SwapInProgress, MainIsWhole
<1> QED  BY <1>1, RestoreHolds, PTL

\* A boot that runs has applied the staged file or set it aside: the safety half
\* of RestoreSettles.
THEOREM NothingStaysStaged == RestoreSpec => BootsLeaveNothing
<1>1. ASSUME RestoreInv, [RestoreNext]_restoreVars
      PROVE  [server # "up" /\ server' = "up" => ~pending'.there]_restoreVars
  <2> SUFFICES ASSUME server # "up", server' = "up"
               PROVE  ~pending'.there
    OBVIOUS
  <2>1. Start \/ PruneCopies
    BY <1>1
    DEF RestoreNext, BootStep, restoreVars, CommitWork, Checkpoint, CreateSnapshot,
        ClearPending, Stop, Spoils, StageRestore, MoveAside, MoveWalAside, FoldWal,
        DropWal, MoveIntoPlace, BootDies
  <2> QED  BY <1>1, <2>1 DEF Start, PruneCopies, NoFile, RestoreInv, MainIsWhole
<1> QED  BY <1>1, RestoreHolds, PTL DEF RestoreSpec, BootsLeaveNothing

-----------------------------------------------------------------------------
(* Source health. *)

LEMMA RecorderTypes ==
    /\ Resting \in Recorder
    /\ NoWrite \in HealthWrite /\ NoHealth \in HealthRow
<1>1. NotWritten \in NotWritten..MaxStreak /\ 0 \in 0..MaxStreak /\ 0 \in 0..3
    BY HealthAssumption DEF HealthAssumption, NotWritten
<1>2. NoWrite \in HealthWrite /\ NoHealth \in HealthRow
    BY <1>1 DEF NoWrite, HealthWrite, NoHealth, HealthRow
<1> QED BY <1>2 DEF Resting, Recorder, Heard

LEMMA HealthStarts == HealthInit => HealthTypeOK
<1> SUFFICES ASSUME HealthInit PROVE HealthTypeOK
    OBVIOUS
<1>1. health \in [HealthSources -> HealthRow] /\ recorder \in [Recorders -> Recorder]
    BY RecorderTypes DEF HealthInit
<1>2. unchecked \in Seq(HealthSources) /\ ToSet(unchecked) = {}
    BY DEF HealthInit, ToSet
<1>3. {s \in HealthSources : health[s].there} = {}
    BY DEF HealthInit, NoHealth
<1>4. turns \in 0..MaxTurns
    BY HealthAssumption DEF HealthAssumption, HealthInit
<1> QED BY <1>1, <1>2, <1>3, <1>4 DEF HealthInit, HealthTypeOK

\* A recorder's next state, the rows left alone.
LEMMA RecorderMoves ==
    ASSUME HealthTypeOK, NEW r \in Recorders, NEW x \in Recorder,
           recorder' = [recorder EXCEPT ![r] = x],
           UNCHANGED <<answers, health, unchecked>>,
           spaced' \subseteq HealthSources, turns' \in 0..MaxTurns
    PROVE  HealthTypeOK'
<1>1. recorder' \in [Recorders -> Recorder]
    BY DEF HealthTypeOK
<1> QED BY <1>1 DEF HealthTypeOK

LEMMA Hearing ==
    ASSUME HealthTypeOK, NEW r \in Recorders, NEW asked, NEW late, Hears(r, asked, late),
           UNCHANGED <<answers, health, unchecked>>,
           spaced' \subseteq HealthSources, turns' \in 0..MaxTurns
    PROVE  HealthTypeOK'
<1> DEFINE said == [s \in HealthSources |->
                      IF s \notin asked THEN "none"
                      ELSE IF s \in answers \ late THEN "ok" ELSE "failed"]
           x == [Resting EXCEPT !.phase = "asked", !.heard = said]
<1>1. said \in Heard
    BY DEF Heard
<1>2. x \in Recorder
    BY <1>1, RecorderTypes DEF Recorder
<1>3. recorder' = [recorder EXCEPT ![r] = x]
    BY DEF Hears
<1> HIDE DEF x
<1> QED BY <1>2, <1>3, RecorderMoves

LEMMA TurnsStay == HealthTypeOK => \A late : Times(late) => turns' \in 0..MaxTurns
<1> SUFFICES ASSUME HealthTypeOK, NEW late, Times(late) PROVE turns' \in 0..MaxTurns
    OBVIOUS
<1>1. turns \in 0..MaxTurns /\ MaxTurns \in Nat
    BY HealthAssumption DEF HealthAssumption, HealthTypeOK
<1> QED BY <1>1 DEF Times

\* What a commit will write of a row.
LEMMA WritesAreTyped ==
    ASSUME NEW old \in HealthRow, NEW heard \in {"none", "ok", "failed"}
    PROVE  WriteFor(old, heard) \in HealthWrite
<1>1. old.streak \in 0..MaxStreak /\ MaxStreak \in Nat
    BY HealthAssumption DEF HealthAssumption, HealthRow
<1>2. NewStreak(old, heard = "ok") \in NotWritten..MaxStreak
    BY <1>1 DEF NewStreak, NotWritten
<1>3. NotWritten \in NotWritten..MaxStreak
    BY <1>1 DEF NotWritten
<1> QED BY <1>2, <1>3, RecorderTypes DEF WriteFor, HealthWrite

LEMMA LoadRowsTyped ==
    ASSUME HealthTypeOK, NEW r \in Recorders, LoadRows(r)
    PROVE  HealthTypeOK'
<1> DEFINE w == [s \in HealthSources |-> WriteFor(health[s], recorder[r].heard[s])]
           x == [Resting EXCEPT !.phase = "loaded", !.writes = w]
<1>1. \A s \in HealthSources :
        health[s] \in HealthRow /\ recorder[r].heard[s] \in {"none", "ok", "failed"}
    BY DEF HealthTypeOK, Recorder, Heard
<1>2. w \in [HealthSources -> HealthWrite]
    BY <1>1, WritesAreTyped
<1> HIDE DEF w
<1>3. x \in Recorder
    BY <1>2, RecorderTypes DEF Recorder
<1>4. recorder' = [recorder EXCEPT ![r] = x]
    BY DEF LoadRows, w
<1> HIDE DEF x
<1>5. UNCHANGED <<answers, health, unchecked, spaced, turns>>
    BY DEF LoadRows
<1> QED BY <1>3, <1>4, <1>5, RecorderMoves DEF HealthTypeOK

\* The rows of a commit go to the end of the order in which rows were last
\* checked, so that order still lists the sources that have a row.
LEMMA CommitTyped ==
    ASSUME HealthTypeOK, NEW r \in Recorders, CommitOutcomes(r)
    PROVE  HealthTypeOK'
<1> DEFINE W == Written(r)
           rest == Keeping(unchecked, HealthSources \ W)
<1>1. /\ W \subseteq HealthSources
      /\ \A s \in HealthSources : recorder[r].writes[s].streak \in NotWritten..MaxStreak
      /\ \A s \in HealthSources : health[s] \in HealthRow
    BY DEF HealthTypeOK, Recorder, HealthWrite, Written
<1>2. IsFiniteSet(W)
    BY <1>1, HealthAssumption, FS_Subset DEF HealthAssumption
<1>3. /\ health' = [s \in HealthSources |->
                      LET streak == recorder[r].writes[s].streak IN
                      IF s \notin W THEN health[s]
                      ELSE [there |-> TRUE, age |-> 0,
                            streak |-> IF streak = NotWritten THEN health[s].streak ELSE streak]]
      /\ unchecked' = rest \o SetToSeq(W)
      /\ recorder' = [recorder EXCEPT ![r] = Resting]
      /\ UNCHANGED <<answers, spaced, turns>>
    BY DEF CommitOutcomes
<1> HIDE DEF W
<1>4. unchecked \in Seq(HealthSources)
      /\ ToSet(unchecked) = {s \in HealthSources : health[s].there}
    BY DEF HealthTypeOK
<1>5. rest \in Seq(HealthSources) /\ ToSet(rest) = ToSet(unchecked) \cap (HealthSources \ W)
    BY <1>4, KeepingIsThePart
<1> HIDE DEF rest
<1>6. SetToSeq(W) \in Seq(W) /\ ToSet(SetToSeq(W)) = W
    BY <1>2, ListHasAll
<1>7. SetToSeq(W) \in Seq(HealthSources)
    BY <1>1, <1>6
<1>8. unchecked' \in Seq(HealthSources) /\ ToSet(unchecked') = ToSet(rest) \cup W
    BY <1>3, <1>5, <1>6, <1>7, ConcatenationHasBoth
<1>9. MaxStreak \in Nat /\ 0 \in 0..3
    BY HealthAssumption DEF HealthAssumption
<1>10. \A s \in HealthSources :
         /\ health'[s] \in HealthRow
         /\ health'[s].there <=> s \in W \/ health[s].there
    <2> SUFFICES ASSUME NEW s \in HealthSources
                 PROVE  /\ health'[s] \in HealthRow
                        /\ health'[s].there <=> s \in W \/ health[s].there
        OBVIOUS
    <2> DEFINE streak == recorder[r].writes[s].streak
               new == IF streak = NotWritten THEN health[s].streak ELSE streak
    <2>1. new \in 0..MaxStreak
        BY <1>1, <1>9 DEF NotWritten, HealthRow
    <2>2. health'[s] = IF s \notin W THEN health[s]
                       ELSE [there |-> TRUE, age |-> 0, streak |-> new]
        BY <1>3
    <2> HIDE DEF new
    <2> QED BY <1>1, <1>9, <2>1, <2>2 DEF HealthRow
<1>11. health' \in [HealthSources -> HealthRow]
    BY <1>3, <1>10
<1>12. ToSet(unchecked') = {s \in HealthSources : health'[s].there}
    BY <1>1, <1>4, <1>5, <1>8, <1>10
<1>13. recorder' \in [Recorders -> Recorder]
    BY <1>3, RecorderTypes DEF HealthTypeOK
<1> QED BY <1>3, <1>8, <1>11, <1>12, <1>13 DEF HealthTypeOK

LEMMA TimePassesTyped ==
    ASSUME HealthTypeOK, NEW s \in HealthSources, TimePasses(s)
    PROVE  HealthTypeOK'
<1> DEFINE older == [health[s] EXCEPT !.age = @ + 1]
<1>1. health[s] \in HealthRow /\ health[s].age < 3
    BY DEF HealthTypeOK, TimePasses
<1>2. older \in HealthRow /\ older.there = health[s].there
    BY <1>1 DEF HealthRow
<1>3. health' = [health EXCEPT ![s] = older]
    BY DEF TimePasses, HealthTypeOK
<1> HIDE DEF older
<1>4. health' \in [HealthSources -> HealthRow]
      /\ \A t \in HealthSources : health'[t].there = health[t].there
    BY <1>2, <1>3 DEF HealthTypeOK
<1>5. UNCHANGED <<answers, unchecked, recorder, spaced, turns>>
    BY DEF TimePasses
<1> QED BY <1>4, <1>5 DEF HealthTypeOK

LEMMA HealthStep == HealthTypeOK /\ [HealthNext]_healthVars => HealthTypeOK'
<1> SUFFICES ASSUME HealthTypeOK, [HealthNext]_healthVars PROVE HealthTypeOK'
    OBVIOUS
<1>1. ASSUME NEW asked, NEW late, Search(asked, late) PROVE HealthTypeOK'
    <2>1. /\ "search" \in Recorders /\ Hears("search", asked, late) /\ Times(late)
          /\ UNCHANGED <<answers, health, unchecked, spaced>>
        BY <1>1 DEF Search
    <2> QED BY <2>1, Hearing, TurnsStay DEF HealthTypeOK
<1>2. ASSUME NEW asked, NEW late, SweepEnds(asked, late) PROVE HealthTypeOK'
    <2>1. /\ "sweep" \in Recorders /\ Hears("sweep", asked, late) /\ Times(late)
          /\ UNCHANGED <<answers, health, unchecked, spaced>>
        BY <1>2 DEF SweepEnds
    <2> QED BY <2>1, Hearing, TurnsStay DEF HealthTypeOK
<1>3. ASSUME NEW late, Reprobe(late) PROVE HealthTypeOK'
    <2>1. PICK asked : Hears("reprobe", asked, late)
        BY <1>3 DEF Reprobe
    <2>2. /\ "reprobe" \in Recorders /\ Times(late)
          /\ UNCHANGED <<answers, health, unchecked, spaced>>
        BY <1>3 DEF Reprobe
    <2> QED BY <2>1, <2>2, Hearing, TurnsStay DEF HealthTypeOK
<1>4. ASSUME NEW s \in HealthSources, Traffic(s) PROVE HealthTypeOK'
    <2>1. /\ "traffic" \in Recorders /\ Hears("traffic", {s}, {})
          /\ UNCHANGED <<answers, health, unchecked, turns>>
          /\ spaced' \in {spaced, spaced \cup {s}}
        BY <1>4 DEF Traffic
    <2> QED BY <2>1, Hearing DEF HealthTypeOK
<1>5. ASSUME NEW s \in HealthSources, MinuteOver(s) PROVE HealthTypeOK'
    BY <1>5 DEF MinuteOver, HealthTypeOK
<1>6. ASSUME NEW s \in HealthSources, SiteTurns(s) PROVE HealthTypeOK'
    <2>1. turns' \in 0..MaxTurns /\ answers' \subseteq HealthSources
        BY <1>6, HealthAssumption DEF HealthAssumption, SiteTurns, HealthTypeOK
    <2> QED BY <1>6, <2>1 DEF SiteTurns, HealthTypeOK
<1>7. ASSUME NEW r \in Recorders, NotRecorded(r) PROVE HealthTypeOK'
    <2>1. /\ recorder' = [recorder EXCEPT ![r] = Resting]
          /\ UNCHANGED <<answers, health, unchecked, spaced>>
        BY <1>7 DEF NotRecorded
    <2>2. turns' = turns \/ (turns > 0 /\ turns' = turns - 1)
        BY <1>7 DEF NotRecorded
    <2>3. turns' \in 0..MaxTurns
        BY <2>2, HealthAssumption DEF HealthAssumption, HealthTypeOK
    <2> QED BY <2>1, <2>3, RecorderTypes, RecorderMoves DEF HealthTypeOK
<1>8. CASE UNCHANGED healthVars
    BY <1>8 DEF healthVars, HealthTypeOK
<1> QED BY <1>1, <1>2, <1>3, <1>4, <1>5, <1>6, <1>7, <1>8, LoadRowsTyped, CommitTyped,
           TimePassesTyped DEF HealthNext, Recording

\* Health rows keep their types whatever two recorders commit over each other,
\* and the order in which sources are asked again lists those with a row.
THEOREM HealthTypes == HealthSpec => []HealthTypeOK
BY HealthStarts, HealthStep, PTL DEF HealthSpec

-----------------------------------------------------------------------------
(* The server. *)

wholeServer == <<part, vars, sweepVars, restoreVars, healthVars>>

\* One step of the server is a step of one part; the others stand still.
LEMMA EachServerPartSteps ==
    ASSUME [ServerNext]_wholeServer
    PROVE  /\ [Next]_vars /\ [SweepNext]_sweepVars
           /\ [RestoreNext]_restoreVars /\ [HealthNext]_healthVars
BY DEF ServerNext, wholeServer

\* The server is each of its parts: what is proved of the render queue, the
\* update sweep, the restore and the health of sources holds of the server
\* that has them all.
THEOREM ServerIsItsParts ==
    ServerSpec => Spec /\ SweepSpec /\ RestoreSpec /\ HealthSpec
<1>1. ServerInit => Init /\ SweepInit /\ RestoreInit /\ HealthInit
    BY DEF ServerInit
<1>2. [ServerNext]_wholeServer =>
        /\ [Next]_vars /\ [SweepNext]_sweepVars
        /\ [RestoreNext]_restoreVars /\ [HealthNext]_healthVars
    BY EachServerPartSteps
<1>3. ServerSpec => ServerInit /\ [][ServerNext]_wholeServer
    BY DEF ServerSpec, wholeServer
<1> QED BY <1>1, <1>2, <1>3, PTL DEF Spec, SweepSpec, RestoreSpec, HealthSpec

\* The variables of the sweep, the restore and the health of sources keep their
\* types in the server that has them all.
THEOREM ServerTypes == ServerSpec => []ServerTypesOK
<1>1. SweepInv /\ RestoreInv /\ HealthTypeOK => ServerTypesOK
    BY DEF SweepInv, RestoreInv, ServerTypesOK
<1> QED BY <1>1, ServerIsItsParts, SweepHolds, RestoreHolds, HealthTypes, PTL
=============================================================================

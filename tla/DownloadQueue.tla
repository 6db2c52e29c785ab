---------------------------- MODULE DownloadQueue ----------------------------
(***************************************************************************)
(* The download queue's loop (download_queue_controller.dart): which       *)
(* chapters it takes, when it stops and says why, and how a pause, a       *)
(* cancel, a full disk, the home screen and a kill meet it.                *)
(*                                                                         *)
(* Dart code runs without interruption up to an await, so a step here is   *)
(* the code between two awaits.  What a worker stores is DownloadStore;    *)
(* here it only lands with an outcome.                                     *)
(***************************************************************************)
EXTENDS Integers, FiniteSets

CONSTANTS
    QueueChapters,   \* chapters of the active profile
    BatchWidth,      \* downloadConcurrencyProvider
    MaxChapterTries, \* kMaxChapterManifestRetries
    MaxTaps          \* bound: what the user and the system do to the queue

ASSUME QueueAssumption ==
    /\ IsFiniteSet(QueueChapters)
    /\ BatchWidth \in Nat \ {0}
    /\ MaxChapterTries \in Nat \ {0}
    /\ MaxTaps \in Nat

VARIABLES
    entry,       \* the chapter's row, with queued and downloading as pending
    tries,       \* its retry_count, 0 where there is no row
    loop,        \* where _processLoop stands; resting when it does not run
    seen,        \* pendingChapters as the pass read it, then its batch
    gone,        \* those of seen whose listed row was deleted since; a row the
                 \* chapter has now is another one, which the loop does not own
    claimed,     \* _inFlightRowIds
    cancelled,   \* _cancelledRowIds
    deleting,    \* chapters with a cancel in deleteDownload
    outcome,     \* how each worker of the batch stands
    reason,      \* DownloadQueueState.pauseReason
    userPaused, foreground,
    full,        \* the disk is below the floor or the downloads at the cap
    measured,    \* what the pass made of that
    dropped,     \* ghost: chapters the user cancelled and did not ask for since
    taps         \* taps left

queueVars == <<entry, tries, loop, seen, gone, claimed, cancelled, deleting, outcome,
               reason, userPaused, foreground, full, measured, dropped, taps>>

Reasons == {"none", "userPaused", "backgrounded", "storage"}
Outcomes == {"none", "running", "completed", "failed", "cancelled", "pausedUser",
             "pausedStorage"}

QueueTypeOK ==
    /\ entry \in [QueueChapters -> {"none", "pending", "complete", "failed"}]
    /\ tries \in [QueueChapters -> 0..MaxChapterTries]
    /\ loop \in {"resting", "top", "measuring", "deciding", "priming", "running", "landing"}
    /\ seen \subseteq QueueChapters /\ gone \subseteq seen
    /\ claimed \subseteq QueueChapters /\ cancelled \subseteq QueueChapters
    /\ deleting \subseteq QueueChapters
    /\ outcome \in [QueueChapters -> Outcomes]
    /\ reason \in Reasons
    /\ userPaused \in BOOLEAN /\ foreground \in BOOLEAN
    /\ full \in BOOLEAN /\ measured \in BOOLEAN
    /\ dropped \subseteq QueueChapters
    /\ taps \in 0..MaxTaps

Idle == [c \in QueueChapters |-> "none"]
Pending == {c \in QueueChapters : entry[c] = "pending"}

\* _kick: it does nothing while the loop runs.
Kicked == IF loop = "resting" THEN "top" ELSE loop

\* The loop goes on without an await: no tap and no other event comes between.
Uninterrupted ==
    \/ loop = "top"
    \/ loop = "running" /\ \A c \in seen : outcome[c] # "running"
    \/ loop = "landing" /\ seen \cap cancelled = {}

Tap == taps > 0 /\ ~Uninterrupted /\ taps' = taps - 1

-----------------------------------------------------------------------------
(* The user and the system.                                                *)

\* enqueueChapter and retryChapter: ensureQueued, then a kick.
Enqueue(c) ==
    /\ Tap
    /\ IF entry[c] \in {"none", "failed"}
       THEN /\ entry' = [entry EXCEPT ![c] = "pending"]
            /\ tries' = [tries EXCEPT ![c] = 0]
       ELSE UNCHANGED <<entry, tries>>
    /\ dropped' = dropped \ {c}
    /\ loop' = Kicked
    /\ UNCHANGED <<seen, gone, claimed, cancelled, deleting, outcome, reason,
                   userPaused, foreground, full, measured>>

\* The loop owns the chapter's row, and not only one it had before.
Owned(c) == loop # "resting" /\ c \in claimed \ gone

\* cancelChapter: a row the loop owns is left to the loop.
CancelDefers(c) ==
    /\ Tap
    /\ entry[c] # "none" /\ Owned(c)
    /\ cancelled' = cancelled \union {c}
    /\ dropped' = dropped \union {c}
    /\ UNCHANGED <<entry, tries, loop, seen, gone, claimed, deleting, outcome, reason,
                   userPaused, foreground, full, measured>>

\* Any other row is deleted, which takes awaits: the loop may claim the row
\* before it goes.  One cancel of a chapter at a time is in deleteDownload.
CancelDeletes(c) ==
    /\ Tap
    /\ entry[c] # "none" /\ ~Owned(c) /\ c \notin deleting
    /\ deleting' = deleting \union {c}
    /\ dropped' = dropped \union {c}
    /\ UNCHANGED <<entry, tries, loop, seen, gone, claimed, cancelled, outcome, reason,
                   userPaused, foreground, full, measured>>

\* The row goes.  A loop that has it works on in vain: savePage, markComplete
\* and the failure count ask for the row and find none.
Unlisted(c) == IF c \in seen /\ entry[c] # "none" THEN gone \union {c} ELSE gone

\* Mutant of DeleteLands: a chapter that has completed meanwhile is kept.
DeleteLandsUnlessDone(c) ==
    /\ c \in deleting /\ ~Uninterrupted /\ entry[c] # "complete"
    /\ deleting' = deleting \ {c}
    /\ entry' = [entry EXCEPT ![c] = "none"]
    /\ tries' = [tries EXCEPT ![c] = 0]
    /\ gone' = Unlisted(c)
    /\ UNCHANGED <<loop, seen, claimed, cancelled, outcome, reason, userPaused,
                   foreground, full, measured, dropped, taps>>

DeleteLands(c) ==
    /\ c \in deleting /\ ~Uninterrupted
    /\ deleting' = deleting \ {c}
    /\ entry' = [entry EXCEPT ![c] = "none"]
    /\ tries' = [tries EXCEPT ![c] = 0]
    /\ gone' = Unlisted(c)
    /\ UNCHANGED <<loop, seen, claimed, cancelled, outcome, reason, userPaused,
                   foreground, full, measured, dropped, taps>>

Pause ==
    /\ Tap
    /\ ~userPaused
    /\ userPaused' = TRUE
    /\ reason' = "userPaused"
    /\ UNCHANGED <<entry, tries, loop, seen, gone, claimed, cancelled, deleting,
                   outcome, foreground, full, measured, dropped>>

\* Mutant of Resume: the loop is not kicked.
ResumeWithoutKick ==
    /\ Tap
    /\ userPaused
    /\ userPaused' = FALSE
    /\ reason' = "none"
    /\ UNCHANGED <<entry, tries, loop, seen, gone, claimed, cancelled, deleting,
                   outcome, foreground, full, measured, dropped>>

Resume ==
    /\ Tap
    /\ userPaused
    /\ userPaused' = FALSE
    /\ reason' = "none"
    /\ loop' = Kicked
    /\ UNCHANGED <<entry, tries, seen, gone, claimed, cancelled, deleting, outcome,
                   foreground, full, measured, dropped>>

\* setForeground(false).
Background ==
    /\ Tap
    /\ foreground
    /\ foreground' = FALSE
    /\ reason' = IF userPaused THEN reason ELSE "backgrounded"
    /\ UNCHANGED <<entry, tries, loop, seen, gone, claimed, cancelled, deleting,
                   outcome, userPaused, full, measured, dropped>>

\* The lifecycle gate on resume: setForeground(true), then
\* resumePendingOnLaunch.  Coming back costs no tap.
Foreground ==
    /\ ~foreground /\ ~Uninterrupted
    /\ foreground' = TRUE
    /\ loop' = Kicked
    /\ UNCHANGED <<entry, tries, seen, gone, claimed, cancelled, deleting, outcome,
                   reason, userPaused, full, measured, dropped, taps>>

StorageFills ==
    /\ Tap
    /\ ~full
    /\ full' = TRUE
    /\ UNCHANGED <<entry, tries, loop, seen, gone, claimed, cancelled, deleting,
                   outcome, reason, userPaused, foreground, measured, dropped>>

\* The user frees space or raises the cap: retryAfterStorageChange.
StorageFrees ==
    /\ full /\ ~Uninterrupted
    /\ full' = FALSE
    /\ loop' = IF userPaused THEN loop ELSE Kicked
    /\ UNCHANGED <<entry, tries, seen, gone, claimed, cancelled, deleting, outcome,
                   reason, userPaused, foreground, measured, dropped, taps>>

\* A kill and the next launch: the rows are all that is left, and
\* resumePendingOnLaunch kicks the loop.  The cancels not yet carried out are
\* forgotten with the rest.
KillAndLaunch ==
    /\ Tap
    /\ loop' = "top"
    /\ seen' = {} /\ gone' = {} /\ claimed' = {} /\ cancelled' = {} /\ deleting' = {}
    /\ outcome' = Idle
    /\ reason' = "none" /\ userPaused' = FALSE /\ foreground' = TRUE
    /\ measured' = FALSE
    /\ dropped' = dropped \ (cancelled \union deleting)
    /\ UNCHANGED <<entry, tries, full>>

-----------------------------------------------------------------------------
(* The loop.                                                               *)

Rest(why) ==
    /\ loop' = "resting"
    /\ reason' = why
    /\ seen' = {} /\ gone' = {} /\ outcome' = Idle /\ measured' = FALSE

LoopTop ==
    /\ loop = "top"
    /\ \/ userPaused /\ Rest("userPaused")
       \/ ~userPaused /\ ~foreground /\ Rest("backgrounded")
       \/ ~userPaused /\ foreground /\ Pending = {} /\ Rest("none")
       \/ /\ ~userPaused /\ foreground /\ Pending # {}
          /\ loop' = "measuring"
          /\ seen' = Pending /\ gone' = {}
          /\ UNCHANGED <<reason, outcome, measured>>
    /\ UNCHANGED <<entry, tries, claimed, cancelled, deleting, userPaused, foreground,
                   full, dropped, taps>>

\* _isBelowFreeSpaceFloor and _isAtOrOverCap answer after an await.
LoopMeasure ==
    /\ loop = "measuring"
    /\ loop' = "deciding"
    /\ measured' = full
    /\ UNCHANGED <<entry, tries, seen, gone, claimed, cancelled, deleting, outcome,
                   reason, userPaused, foreground, full, dropped, taps>>

\* The batch is claimed before the windows are primed.
LoopDecide ==
    /\ loop = "deciding"
    /\ \/ measured /\ Rest("storage") /\ UNCHANGED claimed
       \/ /\ ~measured
          /\ \E batch \in SUBSET seen :
               /\ Cardinality(batch) <= BatchWidth
               /\ batch = {} => seen = {}
               /\ seen' = batch /\ gone' = gone \cap batch
               /\ claimed' = claimed \union batch
          /\ loop' = "priming"
          /\ UNCHANGED <<reason, outcome, measured>>
    /\ UNCHANGED <<entry, tries, cancelled, deleting, userPaused, foreground, full,
                   dropped, taps>>

\* The workers start together; a cancelled one ends at once.
LoopStart ==
    /\ loop = "priming"
    /\ loop' = "running"
    /\ reason' = "none"
    /\ outcome' = [c \in QueueChapters |->
                     IF c \notin seen THEN "none"
                     ELSE IF c \in cancelled THEN "cancelled" ELSE "running"]
    /\ UNCHANGED <<entry, tries, seen, gone, claimed, cancelled, deleting, userPaused,
                   foreground, full, measured, dropped, taps>>

\* Mutant of OutOfTries: one more.
OutOfTriesLate(n) == n > MaxChapterTries

\* Whether a retry_count fails the chapter.
OutOfTries(n) == n >= MaxChapterTries

\* A worker looks at the flags between chunks of pages; one that is past its
\* last chunk completes whatever they say.  One whose row has gone writes
\* nothing.
WorkerEnds(c, how) ==
    /\ outcome[c] = "running"
    /\ outcome' = [outcome EXCEPT ![c] = how]
    /\ how = "cancelled" => c \in cancelled
    /\ how = "pausedUser" => userPaused
    /\ how = "pausedStorage" => full
    /\ IF c \in gone THEN UNCHANGED <<entry, tries>>
       ELSE CASE how = "completed" ->
                   /\ entry' = [entry EXCEPT ![c] = "complete"]
                   /\ UNCHANGED tries
              [] how = "failed" ->
                   /\ tries' = [tries EXCEPT ![c] = @ + 1]
                   /\ entry' = [entry EXCEPT ![c] =
                                  IF OutOfTries(tries'[c]) THEN "failed" ELSE @]
              [] OTHER -> UNCHANGED <<entry, tries>>
    /\ UNCHANGED <<loop, seen, gone, claimed, cancelled, deleting, reason, userPaused,
                   foreground, full, measured, dropped, taps>>

\* Future.wait is over: the rows are not the loop's any longer.
LoopLands ==
    /\ loop = "running"
    /\ \A c \in seen : outcome[c] # "running"
    /\ loop' = "landing"
    /\ claimed' = claimed \ seen
    /\ UNCHANGED <<entry, tries, seen, gone, cancelled, deleting, outcome, reason,
                   userPaused, foreground, full, measured, dropped, taps>>

\* Mutant of LandDelete: a chapter that has completed meanwhile is kept.
LandDeleteUnlessDone(c) ==
    /\ loop = "landing"
    /\ c \in seen \cap cancelled
    /\ cancelled' = cancelled \ {c}
    /\ entry' = [entry EXCEPT ![c] = IF @ = "complete" THEN @ ELSE "none"]
    /\ tries' = [tries EXCEPT ![c] = 0]
    /\ UNCHANGED <<loop, seen, gone, claimed, deleting, outcome, reason,
                   userPaused, foreground, full, measured, dropped, taps>>

\* A cancel is honoured whatever the outcome was, by the chapter's identity.
LandDelete(c) ==
    /\ loop = "landing"
    /\ c \in seen \cap cancelled
    /\ cancelled' = cancelled \ {c}
    /\ entry' = [entry EXCEPT ![c] = "none"]
    /\ tries' = [tries EXCEPT ![c] = 0]
    /\ UNCHANGED <<loop, seen, gone, claimed, deleting, outcome, reason,
                   userPaused, foreground, full, measured, dropped, taps>>

\* _stopReason, or another pass.
LoopTurns ==
    /\ loop = "landing"
    /\ seen \cap cancelled = {}
    /\ LET how == {outcome[c] : c \in seen} IN
         \/ "pausedUser" \in how /\ Rest("userPaused")
         \/ /\ "pausedUser" \notin how /\ "pausedStorage" \in how
            /\ Rest("storage")
         \/ /\ how \cap {"pausedUser", "pausedStorage"} = {}
            /\ loop' = "top"
            /\ seen' = {} /\ gone' = {} /\ outcome' = Idle
            /\ UNCHANGED <<reason, measured>>
    /\ UNCHANGED <<entry, tries, claimed, cancelled, deleting, userPaused, foreground,
                   full, dropped, taps>>

-----------------------------------------------------------------------------
QueueInit ==
    /\ entry = [c \in QueueChapters |-> "none"]
    /\ tries = [c \in QueueChapters |-> 0]
    /\ loop = "resting" /\ seen = {} /\ gone = {} /\ claimed = {}
    /\ cancelled = {} /\ deleting = {}
    /\ outcome = Idle /\ reason = "none"
    /\ userPaused = FALSE /\ foreground = TRUE /\ full = FALSE /\ measured = FALSE
    /\ dropped = {} /\ taps = MaxTaps

LoopStep ==
    \/ LoopTop \/ LoopMeasure \/ LoopDecide \/ LoopStart \/ LoopLands \/ LoopTurns
    \/ \E c \in QueueChapters : LandDelete(c)

QueueNext ==
    \/ \E c \in QueueChapters :
         \/ Enqueue(c) \/ CancelDefers(c) \/ CancelDeletes(c) \/ DeleteLands(c)
         \/ \E how \in Outcomes \ {"none", "running"} : WorkerEnds(c, how)
    \/ Pause \/ Resume \/ Background \/ Foreground
    \/ StorageFills \/ StorageFrees \/ KillAndLaunch
    \/ LoopStep

\* The loop's awaits and a deletion's return, and a worker ends: its fetches
\* and retries are bounded.  Nothing is asked of the user, who may leave the queue paused,
\* the disk full or the app in the background.
QueueFairness ==
    /\ WF_queueVars(LoopStep)
    /\ \A c \in QueueChapters :
         /\ WF_queueVars(DeleteLands(c))
         /\ WF_queueVars(\E how \in Outcomes \ {"none", "running"} : WorkerEnds(c, how))

QueueSpec == QueueInit /\ [][QueueNext]_queueVars
-----------------------------------------------------------------------------
(* Properties.                                                             *)

\* A chapter the user cancelled is gone, or its deletion is under way, or a
\* running loop still owes it.
CancelledIsOwed ==
    \A c \in dropped :
        \/ entry[c] = "none"
        \/ c \in deleting
        \/ c \in cancelled /\ loop # "resting"

\* A cancel takes effect, whatever the loop is at, and also while the queue is
\* paused or the app in the background; unless the user asks for the chapter
\* again, or the app is killed first.
CancelsTakeEffect ==
    \A c \in QueueChapters : c \in dropped ~> (entry[c] = "none" \/ c \notin dropped)

\* A chapter that was asked for settles, or the queue says why it waits.
QueueNeverStallsSilently ==
    \A c \in QueueChapters : []<>(entry[c] # "pending" \/ reason # "none")

\* A queue that says the user paused it is paused by the user.
PauseReasonIsTrue ==
    loop = "resting" /\ reason = "userPaused" => userPaused
=============================================================================

---------------------------- MODULE RenderQueue ----------------------------
(***************************************************************************)
(* The narration queue: jobs in SQLite (novel_render_queue.py), the routes *)
(* that serve the render boxes (novel_render.py), the reaper in the        *)
(* scheduler's tick, and the boxes' own loop (render_worker.py).           *)
(*                                                                         *)
(* A request reads its job outside SQLite's write lock and later writes    *)
(* and commits the columns it changed, so requests, the reaper and an      *)
(* owner's cancel interleave.  An upload also puts two files in place      *)
(* before its row is written.  Any request may go unanswered or die with   *)
(* the server, and a box may be killed.                                    *)
(*                                                                         *)
(* A lease is a colour, not a clock: claims and heartbeats make it good,   *)
(* time makes it expired.  Whether a claimed chapter can be planned (its   *)
(* text, voices and attribution) is a choice.  A claim takes any queued    *)
(* job, where the code orders them.                                        *)
(***************************************************************************)
EXTENDS Naturals

CONSTANTS
    Jobs,         \* the job ids requests will be given
    Chapters,
    ChapterOf,    \* the chapter each job renders
    Boxes,        \* worker ids
    Threads,      \* requests the server holds at once
    MaxAttempts,  \* MAX_ATTEMPTS
    Segments,     \* bound: heartbeats a box sends during one render
    MaxClaims,    \* bound: a job is claimed no more once its attempts reach this
    MaxUpsets     \* bound: cancels, unanswered requests, crashes, disk errors, kills

ASSUME QueueAssumption ==
    /\ ChapterOf \in [Jobs -> Chapters]
    /\ MaxAttempts \in Nat \ {0}
    /\ Segments \in Nat
    /\ MaxClaims \in Nat
    /\ MaxUpsets \in Nat
    /\ {"none"} \cap (Jobs \cup Boxes \cup Threads) = {}

VARIABLES
    job,       \* novel_audio_jobs
    audio,     \* chapters with an .opus
    timing,    \* chapters with a .timing.json
    spooled,   \* chapters with an .opus.tmp
    thread,    \* what each server thread is doing
    reaping,   \* the expired jobs the reaper has read and not yet put back
    box,       \* each render box's loop
    stale,     \* whether a write has ever landed on a row that changed since it was read
    upsets

rows  == <<job, stale>>
files == <<audio, timing, spooled>>
vars  == <<rows, files, thread, reaping, box, upsets>>

None == "none"

Active   == {"queued", "rendering"}          \* "planning" is never committed
Terminal == {"done", "failed", "cancelled"}

Absent == [status |-> "absent", worker |-> None, lease |-> None, attempts |-> 0]

\* The partial unique index: one job in flight per chapter.
OneInFlight(jobs) ==
    \A j, k \in Jobs :
        j # k /\ ChapterOf[j] = ChapterOf[k] => ~{jobs[j].status, jobs[k].status} \subseteq Active

\* The UPDATE names the columns that changed from what was read.
Stored(current, read, new) ==
    [f \in DOMAIN current |-> IF new[f] = read[f] THEN current[f] ELSE new[f]]

\* A row nobody wrote to since it was read: at most its lease ran out.
Unchanged(current, read) ==
    current \in {read, [read EXCEPT !.lease = IF @ = "good" THEN "expired" ELSE @]}

Held(j, w) == job[j].worker = w

Upset == upsets < MaxUpsets /\ upsets' = upsets + 1

-----------------------------------------------------------------------------
(* Threads and boxes. *)

Free == [op |-> "free", step |-> "none", job |-> None, by |-> None,
         read |-> Absent, retryable |-> FALSE]

Request(op, j, w) ==
    [op |-> op, step |-> "read", job |-> j, by |-> w,
     read |-> job[j], retryable |-> box[w].retryable]

\* A box does one thing at a time, and "awaits" the thread that serves it.
Idle == [phase |-> "idle", job |-> None, awaits |-> None, beats |-> 0, retryable |-> TRUE]

Rendering(w) == box[w].phase = "rendering" /\ box[w].awaits = None

Proceeds(w, phase) ==
    [box EXCEPT ![w] = IF phase = "idle" THEN Idle
                       ELSE [@ EXCEPT !.phase = phase, !.awaits = None]]

Awaited(t) == thread[t].by # None /\ box[thread[t].by].awaits = t

\* The thread is done, and its box, if it still waits, proceeds.
Answer(t, phase) ==
    /\ thread' = [thread EXCEPT ![t] = Free]
    /\ box' = IF Awaited(t) THEN Proceeds(thread[t].by, phase) ELSE box

Ask(t, w, op) ==
    /\ thread[t] = Free
    /\ thread' = [thread EXCEPT ![t] = Request(op, box[w].job, w)]
    /\ box' = [box EXCEPT ![w].awaits = t]

\* What a request is to a box that gets no answer to it.  "refused" is an error
\* urllib wraps (URLError, HTTPError), "silent" one it does not (a timeout).
PhaseAfter(op, phase, how) ==
    CASE op = "claim"     -> IF how = "refused" THEN "idle" ELSE "exited"
      [] op = "heartbeat" -> IF how = "refused" THEN "rendering" ELSE "failing"
      [] op = "complete"  -> "failing"
      [] op \in {"fail", "release"} -> IF phase = "rendering" THEN "failing" ELSE "exited"

-----------------------------------------------------------------------------
Init ==
    /\ job      = [j \in Jobs |-> Absent]
    /\ audio    = {}
    /\ timing   = {}
    /\ spooled  = {}
    /\ thread   = [t \in Threads |-> Free]
    /\ reaping  = [j \in Jobs |-> Absent]
    /\ box      = [w \in Boxes |-> Idle]
    /\ stale    = FALSE
    /\ upsets   = 0

-----------------------------------------------------------------------------
(* Writing a job back. *)

\* One job as a request leaves it, unless the index refuses the row.
Updated(t, new) ==
    [job EXCEPT ![thread[t].job] = Stored(@, thread[t].read, new)]

Write(t, new, phase, phaseIfRefused) ==
    LET j == thread[t].job
    IN  IF OneInFlight(Updated(t, new))
        THEN /\ job' = Updated(t, new)
             /\ stale' = (stale \/ ~Unchanged(job[j], thread[t].read))
             /\ Answer(t, phase)
        ELSE /\ UNCHANGED rows
             /\ Answer(t, phaseIfRefused)

Requeued(read) == [read EXCEPT !.status = "queued", !.worker = None, !.lease = None]
Failed(read)   == [read EXCEPT !.status = "failed", !.worker = None, !.lease = None]

\* Mutant of AfterFailure: one try too many.
AfterFailureOnceMore(read, retryable) ==
    IF retryable /\ read.attempts <= MaxAttempts THEN Requeued(read) ELSE Failed(read)

\* fail(): back in the queue until the attempts are used up.
AfterFailure(read, retryable) ==
    IF retryable /\ read.attempts < MaxAttempts THEN Requeued(read) ELSE Failed(read)

\* release(): back in the queue with the attempt given back.
AfterRelease(read) ==
    [Requeued(read) EXCEPT !.attempts = IF @ = 0 THEN 0 ELSE @ - 1]

-----------------------------------------------------------------------------
(* The owner. *)

\* A chapter with audio is asked for again only by force.
Enqueue(j, force) ==
    LET after == [job EXCEPT ![j] = [Absent EXCEPT !.status = "queued"]]
    IN  /\ job[j] = Absent
        /\ force \/ ChapterOf[j] \notin audio
        /\ OneInFlight(after)
        /\ job' = after
        /\ UNCHANGED <<stale, files, thread, reaping, box, upsets>>

CancelRead(t, j) ==
    /\ thread[t] = Free
    /\ job[j].status \in Active
    /\ thread' = [thread EXCEPT ![t] = [Free EXCEPT !.op = "cancel", !.step = "read",
                                                    !.job = j, !.read = job[j]]]
    /\ Upset
    /\ UNCHANGED <<rows, files, reaping, box>>

CancelWrite(t) ==
    /\ thread[t].op = "cancel"
    /\ Write(t, [thread[t].read EXCEPT !.status = "cancelled"], "idle", "idle")
    /\ UNCHANGED <<files, reaping, upsets>>

-----------------------------------------------------------------------------
(* Claim, heartbeat, fail and release. *)

ClaimPick(t, w, j) ==
    /\ box[w] = Idle
    /\ thread[t] = Free
    /\ job[j].status = "queued"
    /\ job[j].attempts < MaxClaims
    /\ thread' = [thread EXCEPT ![t] = Request("claim", j, w)]
    /\ box' = [box EXCEPT ![w].awaits = t]
    /\ UNCHANGED <<rows, files, reaping, upsets>>

\* Mutant of ClaimTake: the UPDATE does not ask whether the job is still queued.
ClaimTakeUnconditional(t, plannable) ==
    LET w == thread[t].by
        j == thread[t].job
        claimed == [job[j] EXCEPT !.status = "rendering", !.worker = w,
                                  !.lease = "good", !.attempts = @ + 1]
    IN  /\ thread[t].op = "claim"
        /\ job' = [job EXCEPT ![j] = IF plannable THEN claimed ELSE Failed(claimed)]
        /\ thread' = [thread EXCEPT ![t] = Free]
        /\ box' = IF ~Awaited(t) THEN box
                  ELSE [box EXCEPT ![w] = IF plannable
                           THEN [Idle EXCEPT !.phase = "rendering", !.job = j] ELSE Idle]
        /\ UNCHANGED <<stale, files, reaping, upsets>>

\* Mutant of ClaimTake: the row is left at "planning".
ClaimTakePlanning(t, plannable) ==
    LET w == thread[t].by
        j == thread[t].job
    IN  /\ thread[t].op = "claim"
        /\ job[j].status = "queued"
        /\ job' = [job EXCEPT ![j].status = "planning", ![j].worker = w,
                              ![j].lease = "good", ![j].attempts = @ + 1]
        /\ thread' = [thread EXCEPT ![t] = Free]
        /\ box' = IF ~Awaited(t) THEN box
                  ELSE [box EXCEPT ![w] = [Idle EXCEPT !.phase = "rendering", !.job = j]]
        /\ UNCHANGED <<stale, files, reaping, upsets>>

\* The conditional UPDATE: the job this claim took, or failed at once because
\* the chapter cannot be planned.  The transaction holds the write lock.
ClaimTake(t, plannable) ==
    LET w == thread[t].by
        j == thread[t].job
        claimed == [job[j] EXCEPT !.status = "rendering", !.worker = w,
                                  !.lease = "good", !.attempts = @ + 1]
    IN  /\ thread[t].op = "claim"
        /\ job[j].status = "queued"
        /\ job' = [job EXCEPT ![j] = IF plannable THEN claimed ELSE Failed(claimed)]
        /\ thread' = [thread EXCEPT ![t] = Free]
        /\ box' = IF ~Awaited(t) THEN box
                  ELSE [box EXCEPT ![w] = IF plannable
                           THEN [Idle EXCEPT !.phase = "rendering", !.job = j] ELSE Idle]
        /\ UNCHANGED <<stale, files, reaping, upsets>>

ClaimMissed(t) ==
    /\ thread[t].op = "claim"
    /\ job[thread[t].job].status # "queued"
    /\ Answer(t, "idle")
    /\ UNCHANGED <<rows, files, reaping, upsets>>

Beats(w) == Rendering(w) /\ box[w].beats < Segments

BeatRead(t, w) ==
    /\ Beats(w)
    /\ Held(box[w].job, w)
    /\ job[box[w].job].status = "rendering"
    /\ thread[t] = Free
    /\ thread' = [thread EXCEPT ![t] = Request("heartbeat", box[w].job, w)]
    /\ box' = [box EXCEPT ![w].awaits = t, ![w].beats = @ + 1]
    /\ UNCHANGED <<rows, files, reaping, upsets>>

\* The status it read is the status it sets, so only the lease is written.
BeatWrite(t) ==
    LET j == thread[t].job
    IN  /\ thread[t].op = "heartbeat"
        /\ job' = [job EXCEPT ![j].lease = "good"]
        /\ stale' = (stale \/ ~Unchanged(job[j], thread[t].read))
        /\ Answer(t, "rendering")
        /\ UNCHANGED <<files, reaping, upsets>>

\* The box drops the work when it hears of the cancel.
BeatCancelled(w) ==
    /\ Beats(w)
    /\ Held(box[w].job, w)
    /\ job[box[w].job].status = "cancelled"
    /\ box' = [box EXCEPT ![w] = Idle]
    /\ UNCHANGED <<rows, files, thread, reaping, upsets>>

\* A 409 is taken for a network blip: the box renders on without a lease.
BeatRefused(w) ==
    /\ Beats(w)
    /\ ~(Held(box[w].job, w) /\ job[box[w].job].status \in {"rendering", "cancelled"})
    /\ box' = [box EXCEPT ![w].beats = @ + 1]
    /\ UNCHANGED <<rows, files, thread, reaping, upsets>>

RenderFails(w, retryable) ==
    /\ Rendering(w)
    /\ box' = [box EXCEPT ![w].phase = "failing", ![w].retryable = retryable]
    /\ UNCHANGED <<rows, files, thread, reaping, upsets>>

\* The card is wanted by another process.
Yield(w) ==
    /\ Rendering(w)
    /\ box' = [box EXCEPT ![w].phase = "releasing"]
    /\ UNCHANGED <<rows, files, thread, reaping, upsets>>

\* fail() and release() answer 204 whether or not the box still holds the job.
GivesBack(w, op) ==
    /\ box[w].phase = IF op = "fail" THEN "failing" ELSE "releasing"
    /\ box[w].awaits = None

\* Mutant of GiveBackRead: only the holder is asked about, not the status.
GiveBackReadEnded(t, w, op) ==
    /\ GivesBack(w, op)
    /\ Held(box[w].job, w)
    /\ Ask(t, w, op)
    /\ UNCHANGED <<rows, files, reaping, upsets>>

GiveBackRead(t, w, op) ==
    /\ GivesBack(w, op)
    /\ Held(box[w].job, w)
    /\ job[box[w].job].status \notin Terminal
    /\ Ask(t, w, op)
    /\ UNCHANGED <<rows, files, reaping, upsets>>

GiveBackIgnored(w, op) ==
    /\ GivesBack(w, op)
    /\ ~Held(box[w].job, w) \/ job[box[w].job].status \in Terminal
    /\ box' = [box EXCEPT ![w] = Idle]
    /\ UNCHANGED <<rows, files, thread, reaping, upsets>>

FailWrite(t) ==
    /\ thread[t].op = "fail"
    /\ thread[t].step = "read"
    /\ Write(t, AfterFailure(thread[t].read, thread[t].retryable), "idle", "exited")
    /\ UNCHANGED <<files, reaping, upsets>>

ReleaseWrite(t) ==
    /\ thread[t].op = "release"
    /\ Write(t, AfterRelease(thread[t].read), "idle", "exited")
    /\ UNCHANGED <<files, reaping, upsets>>

-----------------------------------------------------------------------------
(* Upload: complete_render runs on the event loop and yields it only while   *)
(* it spools the audio.                                                      *)

LoopFree == \A t \in Threads : thread[t].step \notin {"placing", "placed"}

AtStep(t, step) == thread[t].op = "complete" /\ thread[t].step = step
Chapter(t)      == ChapterOf[thread[t].job]
ToStep(t, step) == thread' = [thread EXCEPT ![t].step = step]

\* A disk error turns the upload into a failed attempt.
UploadFailed(t) ==
    thread' = [thread EXCEPT ![t].op = "fail", ![t].step = "placed", ![t].retryable = TRUE]

UploadRead(t, w) ==
    /\ Rendering(w)
    /\ LoopFree
    /\ Held(box[w].job, w)
    /\ job[box[w].job].status = "rendering"
    /\ Ask(t, w, "complete")
    /\ UNCHANGED <<rows, files, reaping, upsets>>

\* The lease is lost: a 409, and the box reports a failure.
UploadRefused(w) ==
    /\ Rendering(w)
    /\ ~(Held(box[w].job, w) /\ job[box[w].job].status = "rendering")
    /\ box' = [box EXCEPT ![w].phase = "failing"]
    /\ UNCHANGED <<rows, files, thread, reaping, upsets>>

\* Every upload of a chapter spools to the same .tmp.
Spool(t) ==
    /\ AtStep(t, "read")
    /\ LoopFree
    /\ spooled' = spooled \cup {Chapter(t)}
    /\ ToStep(t, "spooled")
    /\ UNCHANGED <<rows, audio, timing, reaping, box, upsets>>

\* Mutant of SpoolFails: a disk error is logged and the upload goes on.
SpoolFailsSilently(t) ==
    /\ AtStep(t, "read")
    /\ LoopFree
    /\ Upset
    /\ ToStep(t, "placed")
    /\ spooled' = spooled \ {Chapter(t)}
    /\ UNCHANGED <<rows, audio, timing, reaping, box>>

SpoolFails(t) ==
    /\ AtStep(t, "read")
    /\ LoopFree
    /\ Upset
    /\ UploadFailed(t)
    /\ spooled' = spooled \ {Chapter(t)}
    /\ UNCHANGED <<rows, audio, timing, reaping, box>>

\* The map goes in first...
PlaceTiming(t) ==
    /\ AtStep(t, "spooled")
    /\ LoopFree
    /\ timing' = timing \cup {Chapter(t)}
    /\ ToStep(t, "placing")
    /\ UNCHANGED <<rows, audio, spooled, reaping, box, upsets>>

\* ... then the audio, unless another upload has taken or deleted its .tmp.
PlaceAudio(t) ==
    /\ AtStep(t, "placing")
    /\ IF Chapter(t) \in spooled
       THEN audio' = audio \cup {Chapter(t)} /\ ToStep(t, "placed")
       ELSE UNCHANGED audio /\ UploadFailed(t)
    /\ spooled' = spooled \ {Chapter(t)}
    /\ UNCHANGED <<rows, timing, reaping, box, upsets>>

\* complete() asks the session for the job again, and gets what was read before
\* the upload.
CompleteWrite(t) ==
    /\ AtStep(t, "placed")
    /\ Write(t, [thread[t].read EXCEPT !.status = "done", !.lease = None], "idle", "failing")
    /\ UNCHANGED <<files, reaping, upsets>>

UploadFailedWrite(t) ==
    /\ thread[t].op = "fail"
    /\ thread[t].step = "placed"
    /\ Write(t, AfterFailure(thread[t].read, TRUE), "failing", "failing")
    /\ UNCHANGED <<files, reaping, upsets>>

-----------------------------------------------------------------------------
(* Leases and the reaper. *)

\* Nobody asks about the lease of a job that is not rendering.
Expire(j) ==
    /\ job[j].status = "rendering"
    /\ job[j].lease = "good"
    /\ job' = [job EXCEPT ![j].lease = "expired"]
    /\ UNCHANGED <<stale, files, thread, reaping, box, upsets>>

\* Mutant of Expired: the reaper takes every job being rendered.
ExpiredOrNot(j) == job[j].status = "rendering"

\* Mutant of Expired: the reaper looks at jobs that are being planned.
ExpiredPlanning(j) == job[j].status = "planning" /\ job[j].lease = "expired"

Expired(j) == job[j].status = "rendering" /\ job[j].lease = "expired"
NotReaping == [j \in Jobs |-> Absent]

ReapRead ==
    /\ reaping = NotReaping
    /\ \E j \in Jobs : Expired(j)
    /\ reaping' = [j \in Jobs |-> IF Expired(j) THEN job[j] ELSE Absent]
    /\ UNCHANGED <<rows, files, thread, box, upsets>>

\* All the jobs it read are put back in one transaction.
ReapWrite ==
    LET read  == {j \in Jobs : reaping[j] # Absent}
        after == [j \in Jobs |->
                    IF j \in read
                    THEN Stored(job[j], reaping[j], AfterFailure(reaping[j], TRUE))
                    ELSE job[j]]
    IN  /\ reaping # NotReaping
        /\ reaping' = NotReaping
        /\ IF OneInFlight(after)
           THEN /\ job' = after
                /\ stale' = (stale \/ \E j \in read : ~Unchanged(job[j], reaping[j]))
           ELSE UNCHANGED rows
        /\ UNCHANGED <<files, thread, box, upsets>>

-----------------------------------------------------------------------------
(* Failures. *)

\* The box stops waiting; its request runs on.
Unanswered(w, how) ==
    /\ box[w].awaits # None
    /\ Upset
    /\ box' = Proceeds(w, PhaseAfter(thread[box[w].awaits].op, box[w].phase, how))
    /\ UNCHANGED <<rows, files, thread, reaping>>

\* The request dies before its commit: the server goes down, or the write lock
\* stays busy.
RequestDies(t, how) ==
    /\ thread[t] # Free
    /\ Upset
    /\ IF Awaited(t)
       THEN Answer(t, PhaseAfter(thread[t].op, box[thread[t].by].phase, how))
       ELSE Answer(t, "idle")
    /\ UNCHANGED <<rows, files, reaping>>

ReapDies ==
    /\ reaping # NotReaping
    /\ Upset
    /\ reaping' = NotReaping
    /\ UNCHANGED <<rows, files, thread, box>>

BoxKilled(w) ==
    /\ box[w].phase \notin {"killed", "exited"}
    /\ Upset
    /\ box' = [box EXCEPT ![w] = [Idle EXCEPT !.phase = "killed"]]
    /\ UNCHANGED <<rows, files, thread, reaping>>

BoxStarts(w) ==
    /\ box[w].phase \in {"killed", "exited"}
    /\ box' = [box EXCEPT ![w] = Idle]
    /\ UNCHANGED <<rows, files, thread, reaping, upsets>>

-----------------------------------------------------------------------------
BoxNext(w) ==
    \/ \E t \in Threads, j \in Jobs : ClaimPick(t, w, j)
    \/ \E t \in Threads : BeatRead(t, w) \/ UploadRead(t, w)
    \/ \E t \in Threads, op \in {"fail", "release"} : GiveBackRead(t, w, op)
    \/ \E op \in {"fail", "release"} : GiveBackIgnored(w, op)
    \/ BeatCancelled(w)
    \/ BeatRefused(w)
    \/ UploadRefused(w)
    \/ \E retryable \in BOOLEAN : RenderFails(w, retryable)
    \/ Yield(w)
    \/ \E how \in {"refused", "silent"} : Unanswered(w, how)
    \/ BoxKilled(w)
    \/ BoxStarts(w)

\* A thread finishing what it has read.
Serve(t) ==
    \/ CancelWrite(t)
    \/ \E plannable \in BOOLEAN : ClaimTake(t, plannable)
    \/ ClaimMissed(t)
    \/ BeatWrite(t)
    \/ FailWrite(t)
    \/ ReleaseWrite(t)
    \/ Spool(t)
    \/ PlaceTiming(t)
    \/ PlaceAudio(t)
    \/ CompleteWrite(t)
    \/ UploadFailedWrite(t)

Next ==
    \/ \E j \in Jobs, force \in BOOLEAN : Enqueue(j, force)
    \/ \E t \in Threads, j \in Jobs : CancelRead(t, j)
    \/ \E w \in Boxes : BoxNext(w)
    \/ \E t \in Threads : Serve(t) \/ SpoolFails(t)
    \/ \E t \in Threads, how \in {"refused", "silent"} : RequestDies(t, how)
    \/ \E j \in Jobs : Expire(j)
    \/ ReapRead
    \/ ReapWrite
    \/ ReapDies

Spec == Init /\ [][Next]_vars

\* Time passes, the scheduler keeps ticking, and a request that was read is
\* served.  Nothing is asked of the boxes.
Fairness ==
    /\ \A j \in Jobs : WF_vars(Expire(j))
    /\ WF_vars(ReapRead)
    /\ WF_vars(ReapWrite)
    /\ \A t \in Threads : WF_vars(Serve(t))

-----------------------------------------------------------------------------
(* Properties. *)

JobRow == [status : {"absent"} \cup Active \cup Terminal, worker : Boxes \cup {None},
           lease : {None, "good", "expired"}, attempts : Nat]

ThreadRow == [op : {"free", "claim", "heartbeat", "complete", "fail", "release", "cancel"},
              step : {None, "read", "spooled", "placing", "placed"},
              job : Jobs \cup {None}, by : Boxes \cup {None},
              read : JobRow, retryable : BOOLEAN]

BoxRow == [phase : {"idle", "rendering", "failing", "releasing", "exited", "killed"},
           job : Jobs \cup {None}, awaits : Threads \cup {None},
           beats : Nat, retryable : BOOLEAN]

\* The type of every variable.
TypeOK ==
    /\ job \in [Jobs -> JobRow]
    /\ audio \in SUBSET Chapters
    /\ timing \in SUBSET Chapters
    /\ spooled \in SUBSET Chapters
    /\ thread \in [Threads -> ThreadRow]
    /\ reaping \in [Jobs -> JobRow]
    /\ box \in [Boxes -> BoxRow]
    /\ stale \in BOOLEAN
    /\ upsets \in Nat

\* "The files must be in place before the row says done."
DoneHasAudio ==
    \A j \in Jobs : job[j].status = "done" => ChapterOf[j] \in audio

\* Two boxes cannot take the same job: it is handed over only through the queue.
HandedOverThroughQueue ==
    [][\A j \in Jobs :
          job'[j].worker \notin {None, job[j].worker} => job[j].status = "queued"]_job

\* "A render that has failed this many times stops being retried": through
\* failures, expired leases, given-back attempts and refused claims, no job waits
\* for another try with its attempts used up, unless a write has landed on a row
\* that changed under it.
RetriesEnd ==
    ~stale => \A j \in Jobs : job[j].status = "queued" => job[j].attempts < MaxAttempts

\* "Nothing further will happen to a job in one of these" terminal states: an
\* ended job is not put back in flight.
EndedStaysEnded ==
    [][\A j \in Jobs :
          job[j].status \in Terminal => job'[j].status \in Terminal]_job

\* As long as no write lands on a row that changed under it, an ended job does
\* not even change how it ended.
TerminalStaysUnlessStale ==
    [][\A j \in Jobs :
          job[j].status \in Terminal /\ ~stale' => job'[j].status = job[j].status]_rows

\* A job is written back from a row that has changed since it was read.
Overtaken(j) ==
    \/ /\ reaping[j] # Absent /\ reaping' = NotReaping
       /\ ~Unchanged(job[j], reaping[j])
    \/ \E t \in Threads :
         /\ thread[t].job = j /\ thread'[t] = Free
         /\ ~Unchanged(job[j], thread[t].read)

\* A box that is rendering under a good lease loses its job only to a cancel, or
\* to somebody who read the job before that lease was made good: the reaper that
\* saw it expired and writes after the heartbeat that renewed it, or a request
\* of the job's box before, and both do happen.  Once such a write has landed,
\* attempts may have been given back, and a row read long ago may look unchanged.
LeaseLostOnlyIfOvertaken ==
    [][\A j \in Jobs, w \in Boxes :
          /\ box[w].phase = "rendering" /\ box[w].awaits = None /\ box[w].job = j
          /\ Held(j, w) /\ job[j].status = "rendering" /\ job[j].lease = "good"
          /\ ~stale
          => \/ job'[j].status \in {"rendering", "cancelled"} /\ Held(j, w)'
             \/ Overtaken(j)]_vars

\* A box that slept mid-render does not wedge its chapter: whatever the boxes
\* do, a job leaves "rendering".
RenderingEnds ==
    \A j \in Jobs : []<>(job[j].status # "rendering")

=============================================================================

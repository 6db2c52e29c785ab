------------------------- MODULE RenderQueueProofs -------------------------
(***************************************************************************)
(* What is proved of RenderQueue for any number of jobs, boxes and server  *)
(* threads.                                                                *)
(*                                                                         *)
(* The actions are many and the invariants relate the three tables they    *)
(* write, so the proof goes through what a step does to ONE row of each    *)
(* table: RowStep, ThreadStep and BoxStep.  Every action is shown to be    *)
(* such a step (Stepped, from the bookkeeping invariant Paired), and every *)
(* property is shown from the steps alone.                                 *)
(***************************************************************************)
EXTENDS RenderQueue, TLAPS

-----------------------------------------------------------------------------
(* The bookkeeping invariant: threads and boxes agree on who serves whom. *)

GiveBackOps == {"complete", "fail", "release"}

NotServing == {"idle", "exited", "killed"}

\* A job that was never asked for has no columns yet.
RowsBegin == \A j \in Jobs : job[j].status = "absent" => job[j] = Absent

\* A busy thread has a job in the table that had not ended when it was read,
\* and one that gives a job back read it in the hands of its own box.
Serving(t) ==
    /\ thread[t].job \in Jobs
    /\ job[thread[t].job].status # "absent"
    /\ thread[t].read.status \notin Terminal
    /\ IF thread[t].op = "cancel" THEN thread[t].by = None ELSE thread[t].by \in Boxes
    /\ thread[t].op \in GiveBackOps => thread[t].read.worker = thread[t].by

ThreadsServe ==
    \A t \in Threads : IF thread[t].op = "free" THEN thread[t] = Free ELSE Serving(t)

\* What a thread can be doing for a box that still waits for it.
Serves(t, w) ==
    /\ thread[t].by = w
    /\ \/ thread[t].op = "claim" /\ box[w].phase = "idle"
       \/ thread[t].op \in {"heartbeat", "complete", "fail"} /\ box[w].phase = "rendering"
       \/ thread[t].op = "fail" /\ thread[t].step = "read" /\ box[w].phase = "failing"
       \/ thread[t].op = "release" /\ box[w].phase = "releasing"

AwaitsServed == \A w \in Boxes, t \in Threads : box[w].awaits = t => Serves(t, w)

BoxHasJob == \A w \in Boxes : box[w].phase \notin NotServing => box[w].job \in Jobs

\* The reaper puts back only jobs whose lease it saw run out.
ReadsExpired ==
    \A j \in Jobs : reaping[j] # Absent =>
        /\ reaping[j].status = "rendering"
        /\ reaping[j].lease = "expired"
        /\ job[j].status # "absent"

Paired ==
    TypeOK /\ RowsBegin /\ ThreadsServe /\ AwaitsServed /\ BoxHasJob /\ ReadsExpired

-----------------------------------------------------------------------------
(* What a step does to one row of each table. *)

\* A row keeps all but its lease.
SameRow(j) ==
    /\ job'[j].status = job[j].status
    /\ job'[j].worker = job[j].worker
    /\ job'[j].attempts = job[j].attempts
    /\ job'[j] = job[j] \/ job[j].status # "absent"

\* What fail() makes of a job: back in the queue, or failed.
TriedAgain(read, new) ==
    /\ \/ new.status = "queued" /\ read.attempts < MaxAttempts
       \/ new.status = "failed"
    /\ new.worker = None
    /\ new.attempts = read.attempts

\* What the write of each request makes of the job it read.
Result(t, new) ==
    \/ /\ thread[t].op = "cancel"
       /\ new.status = "cancelled"
       /\ new.worker = thread[t].read.worker
       /\ new.attempts = thread[t].read.attempts
    \/ /\ AtStep(t, "placed")
       /\ new.status = "done"
       /\ new.worker = thread[t].read.worker
       /\ new.attempts = thread[t].read.attempts
    \/ thread[t].op = "fail" /\ TriedAgain(thread[t].read, new)
    \/ /\ thread[t].op = "release"
       /\ new.status = "queued"
       /\ new.worker = None
       /\ new.attempts = IF thread[t].read.attempts = 0 THEN 0 ELSE thread[t].read.attempts - 1

\* The row takes the columns of new that differ from what was read, and all of
\* them when nobody wrote to it in between.
Landed(j, read, new) ==
    /\ job'[j].status \in {job[j].status, new.status}
    /\ job'[j].worker \in {job[j].worker, new.worker} \/ new.worker = read.worker
    /\ new.worker = read.worker => job'[j].worker = job[j].worker
    /\ \/ stale' /\ ~Unchanged(job[j], read)
       \/ /\ job[j].status = read.status
          /\ job[j].worker = read.worker
          /\ job[j].attempts = read.attempts
          /\ job[j].lease = read.lease \/ job[j].lease = "expired"
          /\ job'[j].status = new.status
          /\ job'[j].worker = new.worker
          /\ job'[j].attempts = new.attempts

Enqueued(j) ==
    /\ job[j].status = "absent"
    /\ job'[j].status = "queued"
    /\ job'[j].worker = None
    /\ job'[j].attempts = 0

Claimed(j) ==
    /\ job[j].status = "queued"
    /\ job'[j].status \in {"rendering", "failed"}
    /\ job'[j].attempts = job[j].attempts + 1

WrittenBack(j, t) ==
    /\ thread[t].job = j
    /\ thread'[t] = Free
    /\ \E new \in JobRow : Result(t, new) /\ Landed(j, thread[t].read, new)

PutBack(j) ==
    /\ reaping[j] # Absent
    /\ reaping' = NotReaping
    /\ \E new \in JobRow : TriedAgain(reaping[j], new) /\ Landed(j, reaping[j], new)

RowStep(j) ==
    SameRow(j) \/ Enqueued(j) \/ Claimed(j) \/ PutBack(j) \/ \E t \in Threads : WrittenBack(j, t)

\* A thread that reads a job for a box.
AskedBy(t, w) ==
    /\ box[w].awaits = None
    /\ box'[w].awaits = t
    /\ thread'[t].by = w
    /\ thread'[t].job \in Jobs
    /\ thread'[t].read = job[thread'[t].job]
    /\ thread'[t].step = "read"
    /\ \/ thread'[t].op = "claim" /\ thread'[t].read.status = "queued"
       \/ /\ thread'[t].op \in {"heartbeat"} \cup GiveBackOps
          /\ thread'[t].read.status \notin Terminal
          /\ thread'[t].read.worker = w
          /\ box[w].job = thread'[t].job
          /\ Serves(t, w)'
          /\ box'[w].phase = box[w].phase
          /\ box'[w].job = box[w].job

CancelAsked(t) ==
    /\ thread'[t].op = "cancel"
    /\ thread'[t].by = None
    /\ thread'[t].job \in Jobs
    /\ thread'[t].read = job[thread'[t].job]
    /\ thread'[t].read.status \in Active

\* An upload goes on, or turns into a failed attempt.
GoesOn(t) ==
    /\ thread[t].op = "complete"
    /\ thread'[t].op \in {"complete", "fail"}
    /\ thread'[t].job = thread[t].job
    /\ thread'[t].by = thread[t].by
    /\ thread'[t].read = thread[t].read
    /\ AtStep(t, "placed")' => Chapter(t) \in audio'

ThreadStep(t) ==
    \/ thread'[t] = thread[t]
    \/ thread'[t] = Free /\ \A w \in Boxes : box'[w].awaits # t
    \/ thread[t] = Free /\ UNCHANGED rows /\ CancelAsked(t)
    \/ thread[t] = Free /\ UNCHANGED rows /\ \E w \in Boxes : AskedBy(t, w)
    \/ GoesOn(t)

SameBox(w) ==
    /\ box'[w].phase = box[w].phase
    /\ box'[w].job = box[w].job
    /\ box'[w].awaits = box[w].awaits

Rests(w) == box'[w].phase \in NotServing /\ box'[w].awaits = None

Starts(w) ==
    /\ box'[w].phase = "rendering"
    /\ box'[w].awaits = None
    /\ box'[w].job \in Jobs
    /\ job[box'[w].job].status = "queued"

Asks(w, t) ==
    /\ box[w].awaits = None
    /\ box'[w].awaits = t
    /\ box'[w].phase = box[w].phase
    /\ box'[w].job = box[w].job
    /\ Serves(t, w)'

\* A box that was rendering stops waiting, or goes on to give its job back.
Leaves(w) ==
    /\ box[w].phase = "rendering"
    /\ box'[w].awaits = None
    /\ box'[w].job = box[w].job
    /\ \/ box[w].awaits = None /\ box'[w].phase \in {"failing", "releasing"}
       \/ \E t \in Threads :
             /\ box[w].awaits = t
             /\ \/ thread'[t] = Free /\ box'[w].phase \in {"rendering", "failing"}
                \/ /\ thread'[t] = thread[t]
                   /\ \/ box'[w].phase = "rendering" /\ thread[t].op = "heartbeat"
                      \/ box'[w].phase = "failing" /\ thread[t].op # "release"

BoxStep(w) ==
    SameBox(w) \/ Rests(w) \/ Starts(w) \/ Leaves(w) \/ \E t \in Threads : Asks(w, t)

ReapStep(j) ==
    \/ reaping'[j] \in {reaping[j], Absent}
    \/ Expired(j) /\ reaping'[j] = job[j]

Stepped ==
    /\ TypeOK'
    /\ \A j \in Jobs : RowStep(j) /\ ReapStep(j)
    /\ \A t \in Threads : ThreadStep(t)
    /\ \A w \in Boxes : BoxStep(w)
    /\ audio \subseteq audio'
    /\ stale => stale'

-----------------------------------------------------------------------------
(* The operators of the model. *)

\* The UPDATE of a row leaves a row, column by column.
LEMMA StoredRow ==
    ASSUME NEW current \in JobRow, NEW read \in JobRow, NEW new \in JobRow
    PROVE  /\ Stored(current, read, new) \in JobRow
           /\ Stored(current, read, new).status
                = IF new.status = read.status THEN current.status ELSE new.status
           /\ Stored(current, read, new).worker
                = IF new.worker = read.worker THEN current.worker ELSE new.worker
           /\ Stored(current, read, new).lease
                = IF new.lease = read.lease THEN current.lease ELSE new.lease
           /\ Stored(current, read, new).attempts
                = IF new.attempts = read.attempts THEN current.attempts ELSE new.attempts
PROOF
<1>1. DOMAIN current = {"status", "worker", "lease", "attempts"}
  BY DEF JobRow
<1>2. Stored(current, read, new) =
        [status   |-> IF new.status = read.status THEN current.status ELSE new.status,
         worker   |-> IF new.worker = read.worker THEN current.worker ELSE new.worker,
         lease    |-> IF new.lease = read.lease THEN current.lease ELSE new.lease,
         attempts |-> IF new.attempts = read.attempts THEN current.attempts ELSE new.attempts]
  BY <1>1 DEF Stored
<1> QED
  BY <1>2 DEF JobRow

\* A row nobody wrote to is the one read, but for a lease that ran out.
LEMMA UnchangedRow ==
    ASSUME NEW current \in JobRow, NEW read \in JobRow, Unchanged(current, read)
    PROVE  /\ current.status = read.status
           /\ current.worker = read.worker
           /\ current.attempts = read.attempts
           /\ current.lease = read.lease \/ current.lease = "expired"
PROOF
<1>1. CASE current = read
  BY <1>1
<1>2. CASE current = [read EXCEPT !.lease = IF @ = "good" THEN "expired" ELSE @]
  BY <1>2 DEF JobRow
<1> QED
  BY <1>1, <1>2 DEF Unchanged

\* A stored row is one Landed speaks of.
LEMMA StoredLands ==
    ASSUME NEW j \in Jobs, job[j] \in JobRow, NEW read \in JobRow, NEW new \in JobRow,
           job'[j] = Stored(job[j], read, new),
           stale' \/ Unchanged(job[j], read)
    PROVE  Landed(j, read, new)
PROOF
<1>1. /\ job'[j].status = IF new.status = read.status THEN job[j].status ELSE new.status
      /\ job'[j].worker = IF new.worker = read.worker THEN job[j].worker ELSE new.worker
      /\ job'[j].attempts = IF new.attempts = read.attempts THEN job[j].attempts ELSE new.attempts
  BY StoredRow
<1>2. CASE stale' /\ ~Unchanged(job[j], read)
  BY <1>1, <1>2 DEF Landed
<1>3. CASE Unchanged(job[j], read)
  BY <1>1, <1>3, UnchangedRow DEF Landed
<1> QED
  BY <1>2, <1>3

\* Rows the program makes.
LEMMA Rows ==
    /\ Absent \in JobRow
    /\ Free \in ThreadRow
    /\ Idle \in BoxRow
    /\ [Absent EXCEPT !.status = "queued"] \in JobRow
PROOF BY DEF Absent, Free, Idle, None, JobRow, ThreadRow, BoxRow, Active, Terminal

LEMMA FailureRow ==
    ASSUME NEW read \in JobRow, NEW retryable \in BOOLEAN
    PROVE  /\ AfterFailure(read, retryable) \in JobRow
           /\ TriedAgain(read, AfterFailure(read, retryable))
           /\ Failed(read) \in JobRow
           /\ Failed(read).status = "failed"
           /\ Failed(read).attempts = read.attempts
PROOF BY DEF AfterFailure, Requeued, Failed, TriedAgain, JobRow, Active, Terminal

LEMMA ReleaseRow ==
    ASSUME NEW read \in JobRow
    PROVE  /\ AfterRelease(read) \in JobRow
           /\ AfterRelease(read).status = "queued"
           /\ AfterRelease(read).worker = None
           /\ AfterRelease(read).attempts
                = IF read.attempts = 0 THEN 0 ELSE read.attempts - 1
PROOF
<1> DEFINE given == Requeued(read)
           left  == IF given.attempts = 0 THEN 0 ELSE given.attempts - 1
<1>1. /\ given \in JobRow
      /\ given.status = "queued"
      /\ given.worker = None
      /\ given.attempts = read.attempts
  BY DEF Requeued, JobRow, Active
<1>2. left \in Nat
  BY <1>1 DEF JobRow
<1>3. AfterRelease(read) = [given EXCEPT !.attempts = left]
  BY DEF AfterRelease
<1> HIDE DEF given
<1>4. left = IF read.attempts = 0 THEN 0 ELSE read.attempts - 1
  BY <1>1
<1> HIDE DEF left
<1> QED
  BY <1>1, <1>2, <1>3, <1>4 DEF JobRow

-----------------------------------------------------------------------------
(* Pieces several actions share. *)

Phases == {"idle", "rendering", "failing", "releasing", "exited", "killed"}

\* An answered thread is free, nobody waits for it, and its box proceeds.
LEMMA Answering ==
    ASSUME Paired, NEW t \in Threads, NEW phase \in Phases, Answer(t, phase)
    PROVE  /\ thread' \in [Threads -> ThreadRow]
           /\ thread'[t] = Free
           /\ \A u \in Threads \ {t} : thread'[u] = thread[u]
           /\ box' \in [Boxes -> BoxRow]
           /\ \A w \in Boxes : box[w].awaits # t => box'[w] = box[w]
           /\ \A w \in Boxes : box[w].awaits = t =>
                 /\ box'[w].phase = phase
                 /\ box'[w].awaits = None
                 /\ phase # "idle" => box'[w].job = box[w].job
           /\ \A w \in Boxes : box'[w].awaits # t
PROOF
<1> USE DEF Paired, TypeOK
<1>1. /\ thread' \in [Threads -> ThreadRow]
      /\ thread'[t] = Free
      /\ \A u \in Threads \ {t} : thread'[u] = thread[u]
  BY Rows DEF Answer
<1>2. None \notin Boxes /\ None # t
  BY QueueAssumption DEF None
<1>3. CASE Awaited(t)
  <2> DEFINE b == thread[t].by
             after == IF phase = "idle" THEN Idle
                      ELSE [box[b] EXCEPT !.phase = phase, !.awaits = None]
  <2>1. b \in Boxes /\ box[b].awaits = t
    BY <1>3 DEF Awaited, ThreadRow
  <2>2. box' = [box EXCEPT ![b] = after]
    BY <1>3 DEF Answer, Proceeds
  <2>3. /\ after \in BoxRow
        /\ after.phase = phase
        /\ after.awaits = None
        /\ phase # "idle" => after.job = box[b].job
    <3>1. CASE phase = "idle"
      BY <3>1, Rows DEF Idle
    <3>2. CASE phase # "idle"
      <4>1. box[b] \in BoxRow
        BY <2>1
      <4>2. after = [box[b] EXCEPT !.phase = phase, !.awaits = None]
        BY <3>2
      <4> HIDE DEF after
      <4> QED
        BY <3>2, <4>1, <4>2 DEF BoxRow, Phases
    <3> QED
      BY <3>1, <3>2
  <2> HIDE DEF after
  <2>4. \A w \in Boxes : box[w].awaits = t => w = b
    BY DEF AwaitsServed, Serves
  <2> QED
    BY <1>1, <1>2, <2>1, <2>2, <2>3, <2>4
<1>4. CASE ~Awaited(t)
  <2>1. box' = box
    BY <1>4 DEF Answer
  <2>2. \A w \in Boxes : box[w].awaits # t
    BY <1>2, <1>4 DEF Awaited, AwaitsServed, Serves
  <2> QED
    BY <1>1, <2>1, <2>2
<1> QED
  BY <1>3, <1>4

\* A write puts the job it read back, or leaves the table when the index
\* refuses the row; either way the request is answered.
LEMMA Writing ==
    ASSUME Paired, NEW t \in Threads, thread[t].op # "free", NEW new \in JobRow,
           NEW phase \in Phases, NEW refused \in Phases,
           Write(t, new, phase, refused)
    PROVE  /\ job' \in [Jobs -> JobRow]
           /\ stale' \in BOOLEAN
           /\ stale => stale'
           /\ \A k \in Jobs \ {thread[t].job} : job'[k] = job[k]
           /\ \/ job'[thread[t].job] = job[thread[t].job]
              \/ Landed(thread[t].job, thread[t].read, new)
           /\ \E p \in {phase, refused} : p \in Phases /\ Answer(t, p)
PROOF
<1> DEFINE j == thread[t].job
           after == Stored(job[j], thread[t].read, new)
<1>1. j \in Jobs /\ job[j] \in JobRow /\ thread[t].read \in JobRow
  BY DEF Paired, TypeOK, ThreadsServe, Serving, ThreadRow
<1>2. after \in JobRow
  BY <1>1, StoredRow
<1>3. CASE OneInFlight(Updated(t, new))
  <2>1. /\ job' = Updated(t, new)
        /\ stale' = (stale \/ ~Unchanged(job[j], thread[t].read))
        /\ Answer(t, phase)
    BY <1>3 DEF Write
  <2>2. job' = [job EXCEPT ![j] = after]
    BY <2>1 DEF Updated
  <2> HIDE DEF after
  <2>3. /\ job' \in [Jobs -> JobRow]
        /\ \A k \in Jobs \ {j} : job'[k] = job[k]
        /\ job'[j] = after
    BY <1>1, <1>2, <2>2 DEF Paired, TypeOK
  <2>4. stale' \in BOOLEAN /\ (stale => stale') /\ (stale' \/ Unchanged(job[j], thread[t].read))
    BY <2>1 DEF Paired, TypeOK
  <2>5. Landed(j, thread[t].read, new)
    BY <1>1, <2>3, <2>4, StoredLands DEF after
  <2> QED
    BY <2>1, <2>3, <2>4, <2>5
<1>4. CASE ~OneInFlight(Updated(t, new))
  BY <1>4 DEF Write, rows, Paired, TypeOK
<1> QED
  BY <1>3, <1>4
\* An answer is a step of its thread and of its box.
LEMMA AnswerSteps ==
    ASSUME Paired, NEW t \in Threads, NEW phase \in Phases, Answer(t, phase),
           \A w \in Boxes : box[w].awaits = t =>
              phase \in NotServing
                \/ (box[w].phase = "rendering" /\ phase \in {"rendering", "failing"})
    PROVE  /\ thread' \in [Threads -> ThreadRow]
           /\ box' \in [Boxes -> BoxRow]
           /\ \A u \in Threads : ThreadStep(u)
           /\ \A w \in Boxes : BoxStep(w)
PROOF
<1>1. /\ thread' \in [Threads -> ThreadRow]
      /\ thread'[t] = Free
      /\ \A u \in Threads \ {t} : thread'[u] = thread[u]
      /\ box' \in [Boxes -> BoxRow]
      /\ \A w \in Boxes : box[w].awaits # t => box'[w] = box[w]
      /\ \A w \in Boxes : box[w].awaits = t =>
            /\ box'[w].phase = phase
            /\ box'[w].awaits = None
            /\ phase # "idle" => box'[w].job = box[w].job
      /\ \A w \in Boxes : box'[w].awaits # t
  BY Answering
<1>2. \A u \in Threads : ThreadStep(u)
  BY <1>1 DEF ThreadStep
<1>3. ASSUME NEW w \in Boxes
      PROVE  BoxStep(w)
  <2>1. CASE box[w].awaits # t
    BY <1>1, <2>1 DEF BoxStep, SameBox
  <2>2. CASE box[w].awaits = t /\ phase \in NotServing
    BY <1>1, <2>2 DEF BoxStep, Rests
  <2>3. CASE /\ box[w].awaits = t
             /\ box[w].phase = "rendering" /\ phase \in {"rendering", "failing"}
    BY <1>1, <2>3 DEF BoxStep, Leaves
  <2> QED
    BY <2>1, <2>2, <2>3
<1> QED
  BY <1>1, <1>2, <1>3

\* Reading a job for a box is a step of both.
LEMMA AskSteps ==
    ASSUME Paired, NEW t \in Threads, NEW w \in Boxes, NEW j \in Jobs,
           NEW op \in {"claim", "heartbeat", "complete", "fail", "release"},
           thread[t] = Free,
           thread' = [thread EXCEPT ![t] = Request(op, j, w)],
           box[w].awaits = None,
           box' \in [Boxes -> BoxRow],
           \A v \in Boxes \ {w} : box'[v] = box[v],
           box'[w].awaits = t,
           box'[w].phase = box[w].phase,
           box'[w].job = box[w].job,
           UNCHANGED rows,
           \/ op = "claim" /\ job[j].status = "queued" /\ box[w].phase = "idle"
           \/ /\ op # "claim"
              /\ job[j].status \notin Terminal
              /\ job[j].worker = w
              /\ box[w].job = j
              /\ \/ op \in {"heartbeat", "complete"} /\ box[w].phase = "rendering"
                 \/ op = "fail" /\ box[w].phase = "failing"
                 \/ op = "release" /\ box[w].phase = "releasing"
    PROVE  /\ thread' \in [Threads -> ThreadRow]
           /\ \A u \in Threads : ThreadStep(u)
           /\ \A v \in Boxes : BoxStep(v)
PROOF
<1>0. Request(op, j, w) \in ThreadRow
  BY DEF Request, Paired, TypeOK, ThreadRow, BoxRow
<1>1. /\ thread' \in [Threads -> ThreadRow]
      /\ \A u \in Threads \ {t} : thread'[u] = thread[u]
      /\ thread'[t].op = op
      /\ thread'[t].step = "read"
      /\ thread'[t].job = j
      /\ thread'[t].by = w
      /\ thread'[t].read = job[j]
  BY <1>0 DEF Request, Paired, TypeOK
<1>2. Serves(t, w)'
  BY <1>1 DEF Serves
<1>3. AskedBy(t, w)
  BY <1>1, <1>2 DEF AskedBy, GiveBackOps
<1>4. \A u \in Threads : ThreadStep(u)
  BY <1>1, <1>3 DEF ThreadStep
<1>5. Asks(w, t)
  BY <1>2 DEF Asks
<1>6. \A v \in Boxes : BoxStep(v)
  BY <1>5 DEF BoxStep, SameBox
<1> QED
  BY <1>1, <1>4, <1>6

\* What an action leaves alone takes no step.
LEMMA StillRows ==
    ASSUME Paired, UNCHANGED rows
    PROVE  /\ \A j \in Jobs : RowStep(j)
           /\ stale' \in BOOLEAN
           /\ stale => stale'
PROOF BY DEF rows, RowStep, SameRow, Paired, TypeOK

LEMMA StillThreads ==
    ASSUME UNCHANGED thread
    PROVE  \A t \in Threads : ThreadStep(t)
PROOF BY DEF ThreadStep

LEMMA StillBoxes ==
    ASSUME UNCHANGED box
    PROVE  \A w \in Boxes : BoxStep(w)
PROOF BY DEF BoxStep, SameBox

LEMMA StillReaping ==
    ASSUME UNCHANGED reaping
    PROVE  \A j \in Jobs : ReapStep(j)
PROOF BY DEF ReapStep

-----------------------------------------------------------------------------
(* Every action is a step. *)

\* A request that writes its job back.
LEMMA WriteSteps ==
    ASSUME Paired, NEW t \in Threads, NEW new \in JobRow, thread[t].op # "free",
           Result(t, new),
           NEW phase \in {"idle", "failing"}, NEW refused \in {"idle", "exited", "failing"},
           "failing" \in {phase, refused} =>
              thread[t].op \in {"complete", "fail"} /\ thread[t].step = "placed",
           Write(t, new, phase, refused),
           UNCHANGED <<files, reaping, upsets>>
    PROVE  Stepped
PROOF
<1> DEFINE j == thread[t].job
<1>1. phase \in Phases /\ refused \in Phases
  BY DEF Phases
<1>2. /\ job' \in [Jobs -> JobRow]
      /\ stale' \in BOOLEAN
      /\ stale => stale'
      /\ \A k \in Jobs \ {j} : job'[k] = job[k]
      /\ \/ job'[j] = job[j]
         \/ Landed(j, thread[t].read, new)
      /\ \E p \in {phase, refused} : p \in Phases /\ Answer(t, p)
  BY <1>1, Writing
<1>3. PICK p \in {phase, refused} : p \in Phases /\ Answer(t, p)
  BY <1>2
<1>4. \A w \in Boxes : box[w].awaits = t =>
         p \in NotServing \/ (box[w].phase = "rendering" /\ p \in {"rendering", "failing"})
  BY <1>3 DEF Paired, AwaitsServed, Serves, NotServing
<1>5. /\ thread' \in [Threads -> ThreadRow]
      /\ box' \in [Boxes -> BoxRow]
      /\ \A u \in Threads : ThreadStep(u)
      /\ \A w \in Boxes : BoxStep(w)
  BY <1>3, <1>4, AnswerSteps
<1>6. thread'[t] = Free
  BY <1>3, Answering
<1>7. ASSUME NEW k \in Jobs
      PROVE  RowStep(k)
  <2>1. CASE job'[k] = job[k]
    BY <2>1 DEF RowStep, SameRow
  <2>2. CASE job'[k] # job[k]
    <3>1. k = j /\ Landed(j, thread[t].read, new)
      BY <1>2, <2>2
    <3>2. WrittenBack(k, t)
      BY <1>6, <3>1 DEF WrittenBack
    <3> QED
      BY <3>2 DEF RowStep
  <2> QED
    BY <2>1, <2>2
<1>8. TypeOK'
  BY <1>2, <1>5 DEF Paired, TypeOK, files
<1> QED
  BY <1>2, <1>5, <1>7, <1>8, StillReaping DEF Stepped, files
LEMMA WritersStep ==
    ASSUME Paired, NEW t \in Threads,
           CancelWrite(t) \/ FailWrite(t) \/ ReleaseWrite(t)
             \/ CompleteWrite(t) \/ UploadFailedWrite(t)
    PROVE  Stepped
PROOF
<1>1. thread[t].read \in JobRow /\ thread[t].retryable \in BOOLEAN
  BY DEF Paired, TypeOK, ThreadRow
<1> DEFINE read == thread[t].read
<1>2. CASE CancelWrite(t)
  <2> DEFINE new == [read EXCEPT !.status = "cancelled"]
  <2>1. /\ new \in JobRow
        /\ new.status = "cancelled" /\ new.worker = read.worker /\ new.attempts = read.attempts
    BY <1>1 DEF JobRow, Terminal
  <2>2. /\ thread[t].op = "cancel"
        /\ Write(t, new, "idle", "idle")
        /\ UNCHANGED <<files, reaping, upsets>>
    BY <1>2 DEF CancelWrite
  <2> HIDE DEF new
  <2>3. Result(t, new)
    BY <2>1, <2>2 DEF Result
  <2> QED
    BY <2>1, <2>2, <2>3, WriteSteps
<1>3. CASE FailWrite(t)
  <2> DEFINE new == AfterFailure(read, thread[t].retryable)
  <2>1. new \in JobRow /\ TriedAgain(read, new)
    BY <1>1, FailureRow
  <2>2. /\ thread[t].op = "fail"
        /\ Write(t, new, "idle", "exited")
        /\ UNCHANGED <<files, reaping, upsets>>
    BY <1>3 DEF FailWrite
  <2> HIDE DEF new
  <2>3. Result(t, new)
    BY <2>1, <2>2 DEF Result
  <2> QED
    BY <2>1, <2>2, <2>3, WriteSteps
<1>4. CASE ReleaseWrite(t)
  <2> DEFINE new == AfterRelease(read)
  <2>1. /\ new \in JobRow
        /\ new.status = "queued"
        /\ new.worker = None
        /\ new.attempts = IF read.attempts = 0 THEN 0 ELSE read.attempts - 1
    BY <1>1, ReleaseRow
  <2>2. /\ thread[t].op = "release"
        /\ Write(t, new, "idle", "exited")
        /\ UNCHANGED <<files, reaping, upsets>>
    BY <1>4 DEF ReleaseWrite
  <2> HIDE DEF new
  <2>3. Result(t, new)
    BY <2>1, <2>2 DEF Result
  <2> QED
    BY <2>1, <2>2, <2>3, WriteSteps
<1>5. CASE CompleteWrite(t)
  <2> DEFINE new == [read EXCEPT !.status = "done", !.lease = None]
  <2>1. /\ new \in JobRow
        /\ new.status = "done" /\ new.worker = read.worker /\ new.attempts = read.attempts
    BY <1>1 DEF JobRow, Terminal
  <2>2. /\ AtStep(t, "placed")
        /\ Write(t, new, "idle", "failing")
        /\ UNCHANGED <<files, reaping, upsets>>
    BY <1>5 DEF CompleteWrite
  <2> HIDE DEF new
  <2>3. Result(t, new) /\ thread[t].op = "complete" /\ thread[t].step = "placed"
    BY <2>1, <2>2 DEF Result, AtStep
  <2> QED
    BY <2>1, <2>2, <2>3, WriteSteps
<1>6. CASE UploadFailedWrite(t)
  <2> DEFINE new == AfterFailure(read, TRUE)
  <2>1. new \in JobRow /\ TriedAgain(read, new)
    BY <1>1, FailureRow
  <2>2. /\ thread[t].op = "fail" /\ thread[t].step = "placed"
        /\ Write(t, new, "failing", "failing")
        /\ UNCHANGED <<files, reaping, upsets>>
    BY <1>6 DEF UploadFailedWrite
  <2> HIDE DEF new
  <2>3. Result(t, new)
    BY <2>1, <2>2 DEF Result
  <2> QED
    BY <2>1, <2>2, <2>3, WriteSteps
<1> QED
  BY <1>2, <1>3, <1>4, <1>5, <1>6

\* A request that is answered, or dies, without its write.
LEMMA AnswersStep ==
    ASSUME Paired, NEW t \in Threads,
           ClaimMissed(t) \/ \E how \in {"refused", "silent"} : RequestDies(t, how)
    PROVE  Stepped
PROOF
<1> DEFINE Fits(phase) ==
             \A w \in Boxes : box[w].awaits = t =>
                phase \in NotServing
                  \/ (box[w].phase = "rendering" /\ phase \in {"rendering", "failing"})
<1>1. \E phase \in Phases : Answer(t, phase) /\ Fits(phase)
  <2>1. CASE ClaimMissed(t)
    BY <2>1 DEF ClaimMissed, Phases, NotServing
  <2>2. ASSUME NEW how \in {"refused", "silent"}, RequestDies(t, how)
        PROVE  \E phase \in Phases : Answer(t, phase) /\ Fits(phase)
    <3>1. CASE Awaited(t)
      <4> DEFINE w == thread[t].by
                 phase == PhaseAfter(thread[t].op, box[w].phase, how)
      <4>1. w \in Boxes /\ box[w].awaits = t
        BY <3>1 DEF Awaited, Paired, TypeOK, ThreadRow
      <4>2. Serves(t, w)
        BY <4>1 DEF Paired, AwaitsServed
      <4>3. /\ phase \in Phases
            /\ phase \in NotServing \/ (box[w].phase = "rendering" /\ phase \in {"rendering", "failing"})
        BY <4>2 DEF Serves, PhaseAfter, Phases, NotServing
      <4>4. Answer(t, phase)
        BY <2>2, <3>1 DEF RequestDies
      <4>5. \A v \in Boxes : box[v].awaits = t => v = w
        BY DEF Paired, AwaitsServed, Serves
      <4> HIDE DEF phase
      <4> QED
        BY <4>3, <4>4, <4>5
    <3>2. CASE ~Awaited(t)
      <4>1. Answer(t, "idle")
        BY <2>2, <3>2 DEF RequestDies
      <4> QED
        BY <4>1 DEF Phases, NotServing
    <3> QED
      BY <3>1, <3>2
  <2> QED
    BY <2>1, <2>2
<1>2. /\ UNCHANGED <<rows, files, reaping>>
      /\ upsets' \in Nat
  BY DEF ClaimMissed, RequestDies, Upset, Paired, TypeOK
<1>3. /\ thread' \in [Threads -> ThreadRow]
      /\ box' \in [Boxes -> BoxRow]
      /\ \A u \in Threads : ThreadStep(u)
      /\ \A w \in Boxes : BoxStep(w)
  BY <1>1, AnswerSteps
<1>4. TypeOK'
  BY <1>2, <1>3 DEF Paired, TypeOK, files, rows
<1> QED
  BY <1>2, <1>3, <1>4, StillRows, StillReaping DEF Stepped, files
\* A heartbeat writes nothing but the lease.
LEMMA BeatWriteStep ==
    ASSUME Paired, NEW t \in Threads, BeatWrite(t)
    PROVE  Stepped
PROOF
<1> DEFINE j == thread[t].job
           after == [job[j] EXCEPT !.lease = "good"]
<1>1. thread[t].op = "heartbeat" /\ Answer(t, "rendering")
  BY DEF BeatWrite
<1>2. j \in Jobs /\ job[j].status # "absent" /\ job[j] \in JobRow
  BY <1>1 DEF Paired, TypeOK, ThreadsServe, Serving
<1>3. /\ after \in JobRow
      /\ after.status = job[j].status
      /\ after.worker = job[j].worker
      /\ after.attempts = job[j].attempts
  BY <1>2 DEF JobRow
<1>4. job' = [job EXCEPT ![j] = after]
  BY DEF BeatWrite
<1> HIDE DEF after
<1>5. /\ job' \in [Jobs -> JobRow]
      /\ job'[j] = after
      /\ \A k \in Jobs \ {j} : job'[k] = job[k]
  BY <1>2, <1>3, <1>4 DEF Paired, TypeOK
<1>6. \A k \in Jobs : SameRow(k)
  BY <1>2, <1>3, <1>5 DEF SameRow
<1>7. stale' \in BOOLEAN /\ (stale => stale') /\ UNCHANGED <<files, reaping, upsets>>
  BY DEF BeatWrite, Paired, TypeOK
<1>8. \A w \in Boxes : box[w].awaits = t => box[w].phase = "rendering"
  BY <1>1 DEF Paired, AwaitsServed, Serves
<1>9. /\ thread' \in [Threads -> ThreadRow]
      /\ box' \in [Boxes -> BoxRow]
      /\ \A u \in Threads : ThreadStep(u)
      /\ \A w \in Boxes : BoxStep(w)
  BY <1>1, <1>8, AnswerSteps DEF Phases
<1>10. TypeOK'
  BY <1>5, <1>7, <1>9 DEF Paired, TypeOK, files
<1>11. \A k \in Jobs : RowStep(k)
  BY <1>6 DEF RowStep
<1> QED
  BY <1>7, <1>9, <1>10, <1>11, StillReaping DEF Stepped, files

LEMMA ClaimedRow ==
    ASSUME NEW row \in JobRow, NEW w \in Boxes
    PROVE  LET claimed == [row EXCEPT !.status = "rendering", !.worker = w,
                                      !.lease = "good", !.attempts = @ + 1]
           IN  /\ claimed \in JobRow
               /\ claimed.status = "rendering"
               /\ claimed.attempts = row.attempts + 1
PROOF
<1>1. row.attempts + 1 \in Nat
  BY DEF JobRow
<1> QED
  BY <1>1 DEF JobRow, Active

\* A claim takes a queued job, and its box, if it still waits, renders it.
LEMMA ClaimTakeStep ==
    ASSUME Paired, NEW t \in Threads, NEW plannable \in BOOLEAN, ClaimTake(t, plannable)
    PROVE  Stepped
PROOF
<1> DEFINE j == thread[t].job
           w == thread[t].by
           claimed == [job[j] EXCEPT !.status = "rendering", !.worker = w,
                                     !.lease = "good", !.attempts = @ + 1]
           after == IF plannable THEN claimed ELSE Failed(claimed)
           begun == IF plannable THEN [Idle EXCEPT !.phase = "rendering", !.job = j] ELSE Idle
<1>1. /\ thread[t].op = "claim"
      /\ job[j].status = "queued"
      /\ job' = [job EXCEPT ![j] = after]
      /\ thread' = [thread EXCEPT ![t] = Free]
      /\ box' = IF ~Awaited(t) THEN box ELSE [box EXCEPT ![w] = begun]
      /\ UNCHANGED <<stale, files, reaping, upsets>>
  BY DEF ClaimTake
<1>2. j \in Jobs /\ w \in Boxes /\ job[j] \in JobRow
  BY <1>1 DEF Paired, TypeOK, ThreadsServe, Serving
<1>3. /\ claimed \in JobRow
      /\ claimed.status = "rendering"
      /\ claimed.attempts = job[j].attempts + 1
  BY <1>2, ClaimedRow
<1> HIDE DEF claimed
<1>4. /\ after \in JobRow
      /\ after.status \in {"rendering", "failed"}
      /\ after.attempts = job[j].attempts + 1
  BY <1>3, FailureRow
<1>5. /\ begun \in BoxRow
      /\ begun.awaits = None
      /\ begun.phase \in NotServing \/ (begun.phase = "rendering" /\ begun.job = j)
  <2>1. CASE plannable
    BY <1>2, <2>1, Rows DEF Idle, BoxRow, NotServing
  <2>2. CASE ~plannable
    BY <2>2, Rows DEF Idle, NotServing
  <2> QED
    BY <2>1, <2>2
<1> HIDE DEF after, begun
<1>6. /\ job' \in [Jobs -> JobRow]
      /\ job'[j] = after
      /\ \A k \in Jobs \ {j} : job'[k] = job[k]
  BY <1>1, <1>2, <1>4 DEF Paired, TypeOK
<1>7. \A k \in Jobs : RowStep(k)
  BY <1>1, <1>4, <1>6 DEF RowStep, SameRow, Claimed
<1>8. /\ thread' \in [Threads -> ThreadRow]
      /\ thread'[t] = Free
      /\ \A u \in Threads \ {t} : thread'[u] = thread[u]
  BY <1>1, Rows DEF Paired, TypeOK
<1>9. /\ box' \in [Boxes -> BoxRow]
      /\ \A v \in Boxes : box'[v] = box[v] \/ box'[v] = begun
      /\ \A v \in Boxes : box'[v].awaits # t
  <2>1. None # t
    BY QueueAssumption DEF None
  <2>2. \A v \in Boxes : box[v].awaits = t => v = w
    BY DEF Paired, AwaitsServed, Serves
  <2>3. CASE Awaited(t)
    <3>1. box' = [box EXCEPT ![w] = begun]
      BY <1>1, <2>3
    <3> QED
      BY <1>2, <1>5, <2>1, <2>2, <3>1 DEF Paired, TypeOK
  <2>4. CASE ~Awaited(t)
    <3>1. box' = box /\ box[w].awaits # t
      BY <1>1, <1>2, <2>1, <2>4, QueueAssumption DEF Awaited, None
    <3> QED
      BY <2>2, <3>1 DEF Paired, TypeOK
  <2> QED
    BY <2>3, <2>4
<1>10. \A u \in Threads : ThreadStep(u)
  BY <1>8, <1>9 DEF ThreadStep
<1>11. ASSUME NEW v \in Boxes
       PROVE  BoxStep(v)
  <2>1. CASE box'[v] = box[v]
    BY <2>1 DEF BoxStep, SameBox
  <2>2. CASE box'[v] = begun
    BY <1>1, <1>2, <1>5, <2>2 DEF BoxStep, Rests, Starts
  <2> QED
    BY <1>9, <2>1, <2>2
<1>12. TypeOK'
  BY <1>1, <1>6, <1>8, <1>9 DEF Paired, TypeOK, files
<1> QED
  BY <1>1, <1>7, <1>10, <1>11, <1>12, StillReaping DEF Stepped, files

\* A box asks the server about a job.
LEMMA AsksStep ==
    ASSUME Paired, NEW t \in Threads, NEW w \in Boxes,
           \/ \E j \in Jobs : ClaimPick(t, w, j)
           \/ BeatRead(t, w)
           \/ UploadRead(t, w)
           \/ \E op \in {"fail", "release"} : GiveBackRead(t, w, op)
    PROVE  Stepped
PROOF
<1> DEFINE Asked(op, j) ==
             /\ thread[t] = Free
             /\ thread' = [thread EXCEPT ![t] = Request(op, j, w)]
             /\ box[w].awaits = None
             /\ box' \in [Boxes -> BoxRow]
             /\ \A v \in Boxes \ {w} : box'[v] = box[v]
             /\ box'[w].awaits = t
             /\ box'[w].phase = box[w].phase
             /\ box'[w].job = box[w].job
             /\ \/ op = "claim" /\ job[j].status = "queued" /\ box[w].phase = "idle"
                \/ /\ op # "claim"
                   /\ job[j].status \notin Terminal
                   /\ job[j].worker = w
                   /\ box[w].job = j
                   /\ \/ op \in {"heartbeat", "complete"} /\ box[w].phase = "rendering"
                      \/ op = "fail" /\ box[w].phase = "failing"
                      \/ op = "release" /\ box[w].phase = "releasing"
<1>1. box \in [Boxes -> BoxRow] /\ box[w] \in BoxRow
  BY DEF Paired, TypeOK
<1>2. /\ [box[w] EXCEPT !.awaits = t] \in BoxRow
      /\ [box[w] EXCEPT !.awaits = t, !.beats = @ + 1] \in BoxRow
  <2>1. box[w].beats + 1 \in Nat
    BY <1>1 DEF BoxRow
  <2> QED
    BY <1>1, <2>1 DEF BoxRow
<1>3. box[w].phase \notin NotServing => box[w].job \in Jobs
  BY DEF Paired, BoxHasJob
<1>4. \E op \in {"claim", "heartbeat", "complete", "fail", "release"}, j \in Jobs : Asked(op, j)
  <2>1. ASSUME NEW j \in Jobs, ClaimPick(t, w, j)
        PROVE  Asked("claim", j)
    BY <1>1, <1>2, <2>1 DEF ClaimPick, Idle
  <2>2. CASE BeatRead(t, w)
    <3>1. box' = [box EXCEPT ![w] = [box[w] EXCEPT !.awaits = t, !.beats = @ + 1]]
      BY <1>1, <2>2 DEF BeatRead
    <3>2. Asked("heartbeat", box[w].job) /\ box[w].job \in Jobs
      BY <1>1, <1>2, <1>3, <2>2, <3>1
      DEF BeatRead, Beats, Rendering, Held, NotServing, Terminal, BoxRow
    <3> QED
      BY <3>2
  <2>3. CASE UploadRead(t, w)
    <3>1. box' = [box EXCEPT ![w] = [box[w] EXCEPT !.awaits = t]]
      BY <1>1, <2>3 DEF UploadRead, Ask
    <3>2. Asked("complete", box[w].job) /\ box[w].job \in Jobs
      BY <1>1, <1>2, <1>3, <2>3, <3>1
      DEF UploadRead, Ask, Rendering, Held, NotServing, Terminal, BoxRow
    <3> QED
      BY <3>2
  <2>4. ASSUME NEW op \in {"fail", "release"}, GiveBackRead(t, w, op)
        PROVE  Asked(op, box[w].job) /\ box[w].job \in Jobs
    <3>1. box' = [box EXCEPT ![w] = [box[w] EXCEPT !.awaits = t]]
      BY <1>1, <2>4 DEF GiveBackRead, Ask
    <3> QED
      BY <1>1, <1>2, <1>3, <2>4, <3>1
      DEF GiveBackRead, GivesBack, Ask, Held, NotServing, BoxRow
  <2> QED
    BY <2>1, <2>2, <2>3, <2>4
<1>5. PICK op \in {"claim", "heartbeat", "complete", "fail", "release"}, j \in Jobs : Asked(op, j)
  BY <1>4
<1>6. UNCHANGED <<rows, files, reaping, upsets>>
  BY DEF ClaimPick, BeatRead, UploadRead, GiveBackRead
<1>7. /\ thread' \in [Threads -> ThreadRow]
      /\ \A u \in Threads : ThreadStep(u)
      /\ \A v \in Boxes : BoxStep(v)
  BY <1>5, <1>6, AskSteps
<1>8. TypeOK'
  BY <1>5, <1>6, <1>7 DEF Paired, TypeOK, files, rows
<1> QED
  BY <1>6, <1>7, <1>8, StillRows, StillReaping DEF Stepped, files

\* What a box does on its own, or when its request goes unanswered.
LEMMA BoxAloneStep ==
    ASSUME Paired, NEW w \in Boxes,
           \/ \E op \in {"fail", "release"} : GiveBackIgnored(w, op)
           \/ BeatCancelled(w)
           \/ BeatRefused(w)
           \/ UploadRefused(w)
           \/ \E retryable \in BOOLEAN : RenderFails(w, retryable)
           \/ Yield(w)
           \/ \E how \in {"refused", "silent"} : Unanswered(w, how)
           \/ BoxKilled(w)
           \/ BoxStarts(w)
    PROVE  Stepped
PROOF
<1>1. box \in [Boxes -> BoxRow] /\ box[w] \in BoxRow
  BY DEF Paired, TypeOK
<1>2. /\ UNCHANGED <<rows, files, thread, reaping>>
      /\ upsets' \in Nat
  BY DEF GiveBackIgnored, BeatCancelled, BeatRefused, UploadRefused, RenderFails, Yield,
         Unanswered, BoxKilled, BoxStarts, Upset, Paired, TypeOK
<1>3. ASSUME NEW new \in BoxRow, box' = [box EXCEPT ![w] = new], BoxStep(w)
      PROVE  Stepped
  <2>1. \A v \in Boxes : BoxStep(v)
    BY <1>1, <1>3 DEF BoxStep, SameBox
  <2>2. TypeOK'
    BY <1>1, <1>2, <1>3 DEF Paired, TypeOK, files, rows
  <2> QED
    BY <1>2, <2>1, <2>2, StillRows, StillThreads, StillReaping DEF Stepped, files
<1>4. ASSUME NEW new \in BoxRow, box' = [box EXCEPT ![w] = new],
             new.phase \in NotServing, new.awaits = None
      PROVE  Stepped
  <2>1. BoxStep(w)
    BY <1>1, <1>4 DEF BoxStep, Rests
  <2> QED
    BY <1>3, <1>4, <2>1
<1>5. /\ Idle \in BoxRow
      /\ Idle.phase \in NotServing
      /\ Idle.awaits = None
      /\ [Idle EXCEPT !.phase = "killed"] \in BoxRow
      /\ [Idle EXCEPT !.phase = "killed"].phase \in NotServing
      /\ [Idle EXCEPT !.phase = "killed"].awaits = None
  BY Rows DEF Idle, NotServing, BoxRow
<1>6. CASE \/ \E op \in {"fail", "release"} : GiveBackIgnored(w, op)
           \/ BeatCancelled(w)
           \/ BoxStarts(w)
  <2>1. box' = [box EXCEPT ![w] = Idle]
    BY <1>6 DEF GiveBackIgnored, BeatCancelled, BoxStarts
  <2> QED
    BY <1>4, <1>5, <2>1
<1>7. CASE BoxKilled(w)
  <2>1. box' = [box EXCEPT ![w] = [Idle EXCEPT !.phase = "killed"]]
    BY <1>7 DEF BoxKilled
  <2> QED
    BY <1>4, <1>5, <2>1
<1>8. CASE BeatRefused(w)
  <2> DEFINE new == [box[w] EXCEPT !.beats = @ + 1]
  <2>1. box' = [box EXCEPT ![w] = new]
    BY <1>1, <1>8 DEF BeatRefused
  <2>2. /\ new \in BoxRow
        /\ new.phase = box[w].phase /\ new.job = box[w].job /\ new.awaits = box[w].awaits
    BY <1>1 DEF BoxRow
  <2> HIDE DEF new
  <2>3. BoxStep(w)
    BY <1>1, <2>1, <2>2 DEF BoxStep, SameBox
  <2> QED
    BY <1>3, <2>1, <2>2, <2>3
<1>9. CASE \/ UploadRefused(w)
           \/ \E retryable \in BOOLEAN : RenderFails(w, retryable)
           \/ Yield(w)
  <2>1. \E new \in BoxRow :
          /\ box' = [box EXCEPT ![w] = new]
          /\ new.phase \in {"failing", "releasing"}
          /\ new.job = box[w].job
          /\ new.awaits = box[w].awaits
    <3>1. CASE UploadRefused(w)
      <4>1. /\ box' = [box EXCEPT ![w] = [box[w] EXCEPT !.phase = "failing"]]
            /\ [box[w] EXCEPT !.phase = "failing"] \in BoxRow
        BY <1>1, <3>1 DEF UploadRefused, BoxRow
      <4> QED
        BY <1>1, <4>1 DEF BoxRow
    <3>2. ASSUME NEW retryable \in BOOLEAN, RenderFails(w, retryable)
          PROVE  \E new \in BoxRow :
                   /\ box' = [box EXCEPT ![w] = new]
                   /\ new.phase \in {"failing", "releasing"}
                   /\ new.job = box[w].job
                   /\ new.awaits = box[w].awaits
      <4> DEFINE new == [box[w] EXCEPT !.phase = "failing", !.retryable = retryable]
      <4>1. box' = [box EXCEPT ![w] = new]
        BY <1>1, <3>2 DEF RenderFails
      <4>2. /\ new \in BoxRow
            /\ new.phase = "failing" /\ new.job = box[w].job /\ new.awaits = box[w].awaits
        BY <1>1 DEF BoxRow
      <4> QED
        BY <4>1, <4>2
    <3>3. CASE Yield(w)
      <4>1. /\ box' = [box EXCEPT ![w] = [box[w] EXCEPT !.phase = "releasing"]]
            /\ [box[w] EXCEPT !.phase = "releasing"] \in BoxRow
        BY <1>1, <3>3 DEF Yield, BoxRow
      <4> QED
        BY <1>1, <4>1 DEF BoxRow
    <3> QED
      BY <1>9, <3>1, <3>2, <3>3
  <2>2. box[w].phase = "rendering" /\ box[w].awaits = None
    BY <1>9 DEF UploadRefused, RenderFails, Yield, Rendering
  <2>3. PICK new \in BoxRow :
          /\ box' = [box EXCEPT ![w] = new]
          /\ new.phase \in {"failing", "releasing"}
          /\ new.job = box[w].job
          /\ new.awaits = box[w].awaits
    BY <2>1
  <2>4. BoxStep(w)
    BY <1>1, <2>2, <2>3 DEF BoxStep, Leaves
  <2> QED
    BY <1>3, <2>3, <2>4
<1>10. ASSUME NEW how \in {"refused", "silent"}, Unanswered(w, how)
       PROVE  Stepped
  <2> DEFINE t == box[w].awaits
             phase == PhaseAfter(thread[t].op, box[w].phase, how)
  <2>1. t \in Threads
    BY <1>1, <1>10 DEF Unanswered, BoxRow
  <2>2. Serves(t, w)
    BY <2>1 DEF Paired, AwaitsServed
  <2>3. /\ phase \in {"idle", "exited", "rendering", "failing"}
        /\ phase \in NotServing
              \/ /\ box[w].phase = "rendering"
                 /\ \/ phase = "rendering" /\ thread[t].op = "heartbeat"
                    \/ phase = "failing" /\ thread[t].op # "release"
    BY <2>2, <1>10 DEF Serves, PhaseAfter, NotServing
  <2>4. box' = Proceeds(w, phase)
    BY <1>10 DEF Unanswered
  <2>5. UNCHANGED thread
    BY <1>2
  <2> HIDE DEF phase
  <2>6. CASE phase = "idle"
    <3>1. box' = [box EXCEPT ![w] = Idle]
      BY <2>4, <2>6 DEF Proceeds
    <3> QED
      BY <1>4, <1>5, <3>1
  <2>7. CASE phase # "idle"
    <3> DEFINE new == [box[w] EXCEPT !.phase = phase, !.awaits = None]
    <3>1. box' = [box EXCEPT ![w] = new]
      BY <1>1, <2>4, <2>7 DEF Proceeds
    <3>2. /\ new \in BoxRow
          /\ new.phase = phase /\ new.job = box[w].job /\ new.awaits = None
      BY <1>1, <2>3 DEF BoxRow
    <3> HIDE DEF new
    <3>3. box'[w] = new
      BY <1>1, <3>1
    <3>4. CASE phase \in NotServing
      BY <1>4, <3>1, <3>2, <3>4
    <3>5. CASE phase \notin NotServing
      <4>1. Leaves(w)
        BY <2>1, <2>3, <2>5, <3>2, <3>3, <3>5 DEF Leaves
      <4> QED
        BY <1>3, <3>1, <3>2, <4>1 DEF BoxStep
    <3> QED
      BY <3>4, <3>5
  <2> QED
    BY <2>6, <2>7
<1> QED
  BY <1>6, <1>7, <1>8, <1>9, <1>10
\* An upload spooling its audio and putting its files in place.
LEMMA UploadStep ==
    ASSUME Paired, NEW t \in Threads,
           Spool(t) \/ SpoolFails(t) \/ PlaceTiming(t) \/ PlaceAudio(t)
    PROVE  Stepped
PROOF
<1>1. /\ thread \in [Threads -> ThreadRow] /\ thread[t] \in ThreadRow
      /\ thread[t].op = "complete"
      /\ thread[t].job \in Jobs
      /\ Chapter(t) \in Chapters
  <2>1. thread \in [Threads -> ThreadRow] /\ thread[t] \in ThreadRow /\ thread[t].op = "complete"
    BY DEF Paired, TypeOK, Spool, SpoolFails, PlaceTiming, PlaceAudio, AtStep
  <2>2. thread[t].job \in Jobs
    BY <2>1 DEF Paired, ThreadsServe, Serving
  <2> QED
    BY <2>1, <2>2, QueueAssumption DEF Chapter
<1>2. ASSUME NEW step \in {"spooled", "placing", "placed"}, ToStep(t, step)
      PROVE  \E new \in ThreadRow :
               /\ thread' = [thread EXCEPT ![t] = new]
               /\ new.op = "complete" /\ new.step = step
               /\ new.job = thread[t].job /\ new.by = thread[t].by /\ new.read = thread[t].read
  <2> DEFINE new == [thread[t] EXCEPT !.step = step]
  <2>1. thread' = [thread EXCEPT ![t] = new]
    BY <1>1, <1>2 DEF ToStep
  <2>2. /\ new \in ThreadRow
        /\ new.op = "complete" /\ new.step = step
        /\ new.job = thread[t].job /\ new.by = thread[t].by /\ new.read = thread[t].read
    BY <1>1 DEF ThreadRow
  <2> QED
    BY <2>1, <2>2
<1>3. ASSUME UploadFailed(t)
      PROVE  \E new \in ThreadRow :
               /\ thread' = [thread EXCEPT ![t] = new]
               /\ new.op = "fail"
               /\ new.job = thread[t].job /\ new.by = thread[t].by /\ new.read = thread[t].read
  <2> DEFINE new == [thread[t] EXCEPT !.op = "fail", !.step = "placed", !.retryable = TRUE]
  <2>1. thread' = [thread EXCEPT ![t] = new]
    BY <1>1, <1>3 DEF UploadFailed
  <2>2. /\ new \in ThreadRow
        /\ new.op = "fail"
        /\ new.job = thread[t].job /\ new.by = thread[t].by /\ new.read = thread[t].read
    BY <1>1 DEF ThreadRow
  <2> QED
    BY <2>1, <2>2
<1>4. /\ UNCHANGED <<rows, reaping, box>>
      /\ upsets' \in Nat
      /\ audio' \in SUBSET Chapters /\ timing' \in SUBSET Chapters /\ spooled' \in SUBSET Chapters
      /\ audio \subseteq audio'
  BY <1>1 DEF Spool, SpoolFails, PlaceTiming, PlaceAudio, Upset, Paired, TypeOK
<1>5. \E new \in ThreadRow :
        /\ thread' = [thread EXCEPT ![t] = new]
        /\ new.op \in {"complete", "fail"}
        /\ new.job = thread[t].job /\ new.by = thread[t].by /\ new.read = thread[t].read
        /\ new.op = "complete" /\ new.step = "placed" => Chapter(t) \in audio'
  <2>1. CASE Spool(t)
    BY <1>2, <2>1 DEF Spool
  <2>2. CASE SpoolFails(t)
    BY <1>3, <2>2 DEF SpoolFails
  <2>3. CASE PlaceTiming(t)
    BY <1>2, <2>3 DEF PlaceTiming
  <2>4. CASE PlaceAudio(t) /\ Chapter(t) \in spooled
    <3>1. ToStep(t, "placed") /\ Chapter(t) \in audio'
      BY <2>4 DEF PlaceAudio
    <3> QED
      BY <1>2, <3>1
  <2>5. CASE PlaceAudio(t) /\ Chapter(t) \notin spooled
    <3>1. UploadFailed(t)
      BY <2>5 DEF PlaceAudio
    <3> QED
      BY <1>3, <3>1
  <2> QED
    BY <2>1, <2>2, <2>3, <2>4, <2>5
<1>6. PICK new \in ThreadRow :
        /\ thread' = [thread EXCEPT ![t] = new]
        /\ new.op \in {"complete", "fail"}
        /\ new.job = thread[t].job /\ new.by = thread[t].by /\ new.read = thread[t].read
        /\ new.op = "complete" /\ new.step = "placed" => Chapter(t) \in audio'
  BY <1>5
<1>7. /\ thread' \in [Threads -> ThreadRow]
      /\ thread'[t] = new
      /\ \A u \in Threads \ {t} : thread'[u] = thread[u]
  BY <1>1, <1>6
<1>8. GoesOn(t)
  BY <1>1, <1>6, <1>7 DEF GoesOn, AtStep
<1>9. \A u \in Threads : ThreadStep(u)
  BY <1>7, <1>8 DEF ThreadStep
<1>10. TypeOK'
  BY <1>4, <1>7 DEF Paired, TypeOK, rows
<1> QED
  BY <1>4, <1>9, <1>10, StillRows, StillBoxes, StillReaping DEF Stepped

\* The owner asks for a chapter, or for the end of a job.
LEMMA OwnerStep ==
    ASSUME Paired,
           \/ \E j \in Jobs, force \in BOOLEAN : Enqueue(j, force)
           \/ \E t \in Threads, j \in Jobs : CancelRead(t, j)
    PROVE  Stepped
PROOF
<1>1. ASSUME NEW j \in Jobs, NEW force \in BOOLEAN, Enqueue(j, force)
      PROVE  Stepped
  <2> DEFINE new == [Absent EXCEPT !.status = "queued"]
  <2>1. /\ job[j] = Absent
        /\ job' = [job EXCEPT ![j] = new]
        /\ UNCHANGED <<stale, files, thread, reaping, box, upsets>>
    BY <1>1 DEF Enqueue
  <2>2. /\ new \in JobRow
        /\ new.status = "queued" /\ new.worker = None /\ new.attempts = 0
        /\ Absent.status = "absent"
    BY Rows DEF Absent
  <2> HIDE DEF new
  <2>3. /\ job' \in [Jobs -> JobRow]
        /\ job'[j] = new
        /\ \A k \in Jobs \ {j} : job'[k] = job[k]
    BY <2>1, <2>2 DEF Paired, TypeOK
  <2>4. \A k \in Jobs : RowStep(k)
    BY <2>1, <2>2, <2>3 DEF RowStep, SameRow, Enqueued
  <2>5. TypeOK'
    BY <2>1, <2>3 DEF Paired, TypeOK, files
  <2> QED
    BY <2>1, <2>4, <2>5, StillThreads, StillBoxes, StillReaping DEF Stepped, files
<1>2. ASSUME NEW t \in Threads, NEW j \in Jobs, CancelRead(t, j)
      PROVE  Stepped
  <2> DEFINE new == [Free EXCEPT !.op = "cancel", !.step = "read", !.job = j, !.read = job[j]]
  <2>1. /\ thread[t] = Free
        /\ job[j].status \in Active
        /\ thread' = [thread EXCEPT ![t] = new]
        /\ Upset
        /\ UNCHANGED <<rows, files, reaping, box>>
    BY <1>2, Zenon DEF CancelRead
  <2>2. /\ new \in ThreadRow
        /\ new.op = "cancel" /\ new.by = None /\ new.job = j /\ new.read = job[j]
    BY Rows DEF Free, ThreadRow, Paired, TypeOK
  <2> HIDE DEF new
  <2>3. /\ thread' \in [Threads -> ThreadRow]
        /\ thread'[t] = new
        /\ \A u \in Threads \ {t} : thread'[u] = thread[u]
    BY <2>1, <2>2 DEF Paired, TypeOK
  <2>4. CancelAsked(t)
    BY <2>1, <2>2, <2>3 DEF CancelAsked
  <2>5. \A u \in Threads : ThreadStep(u)
    BY <2>1, <2>3, <2>4 DEF ThreadStep
  <2>6. TypeOK'
    BY <2>1, <2>3 DEF Upset, Paired, TypeOK, files, rows
  <2> QED
    BY <2>1, <2>5, <2>6, StillRows, StillBoxes, StillReaping DEF Stepped, files
<1> QED
  BY <1>1, <1>2

\* Leases run out, and the reaper puts the jobs it read back.
LEMMA ReaperStep ==
    ASSUME Paired,
           \/ \E j \in Jobs : Expire(j)
           \/ ReapRead
           \/ ReapWrite
           \/ ReapDies
    PROVE  Stepped
PROOF
<1>1. ASSUME NEW j \in Jobs, Expire(j)
      PROVE  Stepped
  <2> DEFINE new == [job[j] EXCEPT !.lease = "expired"]
  <2>1. /\ job' = [job EXCEPT ![j] = new]
        /\ job[j].status = "rendering"
        /\ UNCHANGED <<stale, files, thread, reaping, box, upsets>>
    BY <1>1 DEF Expire, Paired, TypeOK
  <2>2. /\ new \in JobRow
        /\ new.status = job[j].status
        /\ new.worker = job[j].worker
        /\ new.attempts = job[j].attempts
    BY DEF Paired, TypeOK, JobRow
  <2> HIDE DEF new
  <2>3. /\ job' \in [Jobs -> JobRow]
        /\ job'[j] = new
        /\ \A k \in Jobs \ {j} : job'[k] = job[k]
    BY <2>1, <2>2 DEF Paired, TypeOK
  <2>4. \A k \in Jobs : SameRow(k)
    BY <2>1, <2>2, <2>3 DEF SameRow
  <2>5. TypeOK'
    BY <2>1, <2>3 DEF Paired, TypeOK, files
  <2> QED
    BY <2>1, <2>4, <2>5, StillThreads, StillBoxes, StillReaping
    DEF Stepped, RowStep, files
<1>2. CASE ReapRead
  <2>1. /\ reaping' = [j \in Jobs |-> IF Expired(j) THEN job[j] ELSE Absent]
        /\ UNCHANGED <<rows, files, thread, box, upsets>>
    BY <1>2 DEF ReapRead
  <2>2. \A j \in Jobs : reaping'[j] \in JobRow /\ ReapStep(j)
    <3> SUFFICES ASSUME NEW j \in Jobs
                 PROVE  reaping'[j] \in JobRow /\ ReapStep(j)
      OBVIOUS
    <3>1. CASE Expired(j)
      <4>1. reaping'[j] = job[j]
        BY <2>1, <3>1
      <4> QED
        BY <3>1, <4>1 DEF ReapStep, Paired, TypeOK
    <3>2. CASE ~Expired(j)
      <4>1. reaping'[j] = Absent
        BY <2>1, <3>2
      <4> QED
        BY <4>1, Rows DEF ReapStep
    <3> QED
      BY <3>1, <3>2
  <2>3. reaping' \in [Jobs -> JobRow]
    BY <2>1, <2>2
  <2>4. TypeOK'
    BY <2>1, <2>3 DEF Paired, TypeOK, files, rows
  <2> QED
    BY <2>1, <2>2, <2>4, StillRows, StillThreads, StillBoxes DEF Stepped, files
<1>3. ASSUME reaping' = NotReaping
      PROVE  /\ reaping' \in [Jobs -> JobRow]
             /\ \A j \in Jobs : ReapStep(j)
  BY <1>3, Rows DEF NotReaping, ReapStep
<1>4. CASE ReapWrite
  <2> DEFINE read == {j \in Jobs : reaping[j] # Absent}
             new(j) == AfterFailure(reaping[j], TRUE)
             put(j) == Stored(job[j], reaping[j], new(j))
             after == [j \in Jobs |-> IF j \in read THEN put(j) ELSE job[j]]
  <2>1. /\ reaping' = NotReaping
        /\ \/ /\ job' = after
              /\ stale' = (stale \/ \E j \in read : ~Unchanged(job[j], reaping[j]))
           \/ UNCHANGED rows
        /\ UNCHANGED <<files, thread, box, upsets>>
    BY <1>4 DEF ReapWrite
  <2>2. CASE UNCHANGED rows
    <3>1. TypeOK'
      BY <1>3, <2>1, <2>2 DEF Paired, TypeOK, files, rows
    <3> QED
      BY <1>3, <2>1, <2>2, <3>1, StillRows, StillThreads, StillBoxes DEF Stepped, files
  <2>3. CASE /\ job' = after
             /\ stale' = (stale \/ \E j \in read : ~Unchanged(job[j], reaping[j]))
    <3>1. stale' \in BOOLEAN /\ (stale => stale')
      BY <2>3 DEF Paired, TypeOK
    <3>2. ASSUME NEW j \in Jobs
          PROVE  job'[j] \in JobRow /\ RowStep(j)
      <4>1. job[j] \in JobRow /\ reaping[j] \in JobRow
        BY DEF Paired, TypeOK
      <4>2. CASE j \notin read
        <5>1. job'[j] = job[j]
          BY <2>3, <4>2
        <5> QED
          BY <4>1, <5>1 DEF RowStep, SameRow
      <4>3. CASE j \in read
        <5>1. job'[j] = put(j)
          BY <2>3, <4>3
        <5>2. stale' \/ Unchanged(job[j], reaping[j])
          BY <2>3, <4>3
        <5>3. new(j) \in JobRow /\ TriedAgain(reaping[j], new(j))
          BY <4>1, FailureRow
        <5> HIDE DEF new
        <5>4. put(j) \in JobRow
          BY <4>1, <5>3, StoredRow
        <5>5. Landed(j, reaping[j], new(j))
          BY <4>1, <5>1, <5>2, <5>3, StoredLands
        <5>6. PutBack(j)
          BY <2>1, <4>3, <5>3, <5>5 DEF PutBack
        <5> QED
          BY <5>1, <5>4, <5>6 DEF RowStep
      <4> QED
        BY <4>2, <4>3
    <3>3. job' \in [Jobs -> JobRow]
      BY <2>3, <3>2
    <3>4. TypeOK'
      BY <1>3, <2>1, <3>1, <3>3 DEF Paired, TypeOK, files
    <3> QED
      BY <1>3, <2>1, <3>1, <3>2, <3>4, StillThreads, StillBoxes DEF Stepped, files
  <2> QED
    BY <2>1, <2>2, <2>3
<1>5. CASE ReapDies
  <2>1. /\ reaping' = NotReaping
        /\ upsets' \in Nat
        /\ UNCHANGED <<rows, files, thread, box>>
    BY <1>5 DEF ReapDies, Upset, Paired, TypeOK
  <2>2. TypeOK'
    BY <1>3, <2>1 DEF Paired, TypeOK, files, rows
  <2> QED
    BY <1>3, <2>1, <2>2, StillRows, StillThreads, StillBoxes DEF Stepped, files
<1> QED
  BY <1>1, <1>2, <1>4, <1>5

LEMMA EveryStep ==
    ASSUME Paired, [Next]_vars
    PROVE  Stepped
PROOF
<1>1. CASE Next
  BY <1>1, OwnerStep, ReaperStep, WritersStep, AnswersStep, BeatWriteStep, ClaimTakeStep,
     AsksStep, BoxAloneStep, UploadStep
  DEF Next, BoxNext, Serve
<1>2. CASE UNCHANGED vars
  <2>1. UNCHANGED <<rows, files, thread, reaping, box, upsets>>
    BY <1>2 DEF vars
  <2>2. TypeOK'
    BY <2>1 DEF Paired, TypeOK, rows, files
  <2> QED
    BY <2>1, <2>2, StillRows, StillThreads, StillBoxes, StillReaping DEF Stepped, files
<1> QED
  BY <1>1, <1>2
-----------------------------------------------------------------------------
(* Types and bookkeeping. *)

\* A job in the table stays in the table.
LEMMA RowsStay ==
    ASSUME Paired, Stepped, NEW j \in Jobs, job[j].status # "absent"
    PROVE  job'[j].status # "absent"
PROOF
<1>1. RowStep(j)
  BY DEF Stepped
<1>2. ASSUME NEW t \in Threads, WrittenBack(j, t)
      PROVE  job'[j].status # "absent"
  BY <1>2 DEF WrittenBack, Result, TriedAgain, Landed
<1>3. CASE PutBack(j)
  BY <1>3 DEF PutBack, TriedAgain, Landed
<1> QED
  BY <1>1, <1>2, <1>3 DEF RowStep, SameRow, Enqueued, Claimed

LEMMA PairedInit == Init => Paired
PROOF
<1> SUFFICES ASSUME Init PROVE Paired
  OBVIOUS
<1>1. TypeOK
  BY Rows DEF Init, TypeOK
<1>2. RowsBegin /\ ThreadsServe /\ ReadsExpired
  BY DEF Init, RowsBegin, ThreadsServe, ReadsExpired, Free
<1>3. AwaitsServed /\ BoxHasJob
  BY QueueAssumption DEF Init, AwaitsServed, BoxHasJob, Idle, NotServing, None
<1> QED
  BY <1>1, <1>2, <1>3 DEF Paired

LEMMA PairedStays ==
    ASSUME Paired, Stepped
    PROVE  Paired'
PROOF
<1>1. ASSUME NEW j \in Jobs, job'[j].status = "absent"
      PROVE  job'[j] = Absent
  <2>1. job[j].status = "absent"
    BY <1>1, RowsStay
  <2>2. RowStep(j) /\ job[j] = Absent
    BY <2>1 DEF Stepped, Paired, RowsBegin
  <2>3. ~PutBack(j)
    BY <2>1 DEF PutBack, Paired, ReadsExpired
  <2>4. \A t \in Threads : ~WrittenBack(j, t)
    <3> SUFFICES ASSUME NEW t \in Threads, WrittenBack(j, t) PROVE FALSE
      OBVIOUS
    <3>1. thread[t].op # "free" /\ thread[t].job = j
      BY DEF WrittenBack, Result, AtStep
    <3> QED
      BY <2>1, <3>1 DEF Paired, ThreadsServe, Serving
  <2> QED
    BY <1>1, <2>1, <2>2, <2>3, <2>4 DEF RowStep, SameRow, Enqueued, Claimed
<1>2. ASSUME NEW t \in Threads
      PROVE  IF thread'[t].op = "free" THEN thread'[t] = Free ELSE Serving(t)'
  <2>1. ThreadStep(t)
    BY DEF Stepped
  <2>2. CASE thread'[t] = thread[t]
    BY <2>2, RowsStay DEF Paired, ThreadsServe, Serving
  <2>3. CASE thread'[t] = Free
    BY <2>3 DEF Free
  <2>4. CASE UNCHANGED rows /\ CancelAsked(t)
    BY <2>4 DEF CancelAsked, Serving, rows, Active, Terminal, GiveBackOps
  <2>5. ASSUME NEW w \in Boxes, UNCHANGED rows, AskedBy(t, w)
        PROVE  thread'[t].op # "free" /\ Serving(t)'
    <3>1. /\ thread'[t].op \in {"claim", "heartbeat"} \cup GiveBackOps
          /\ thread'[t].job \in Jobs
          /\ thread'[t].by = w
          /\ thread'[t].read = job[thread'[t].job]
          /\ thread'[t].read.status \notin Terminal
          /\ thread'[t].op \in GiveBackOps => thread'[t].read.worker = w
          /\ UNCHANGED job
      BY <2>5 DEF AskedBy, GiveBackOps, Terminal, rows
    <3>2. job[thread'[t].job].status # "absent"
      <4>1. CASE thread'[t].op = "claim"
        BY <2>5, <4>1 DEF AskedBy, GiveBackOps
      <4>2. CASE thread'[t].op # "claim"
        <5>1. job[thread'[t].job].worker = w /\ w # None
          BY <2>5, <4>2, QueueAssumption DEF AskedBy, None
        <5> QED
          BY <3>1, <5>1 DEF Paired, RowsBegin, Absent
      <4> QED
        BY <4>1, <4>2
    <3> QED
      BY <3>1, <3>2 DEF Serving, GiveBackOps
  <2>6. CASE GoesOn(t)
    <3>1. Serving(t)
      BY <2>6 DEF GoesOn, Paired, ThreadsServe
    <3> QED
      BY <2>6, <3>1, RowsStay DEF GoesOn, Serving, GiveBackOps
  <2> QED
    BY <2>1, <2>2, <2>3, <2>4, <2>5, <2>6 DEF ThreadStep
<1>3. ASSUME NEW w \in Boxes, NEW t \in Threads, box'[w].awaits = t
      PROVE  Serves(t, w)'
  <2>1. BoxStep(w) /\ ThreadStep(t) /\ None # t
    BY QueueAssumption DEF Stepped, None
  <2>2. CASE SameBox(w)
    <3>1. Serves(t, w)
      BY <1>3, <2>2 DEF SameBox, Paired, AwaitsServed
    <3>2. thread[t] # Free
      BY <3>1 DEF Serves, Free
    <3>3. CASE thread'[t] = thread[t]
      BY <2>2, <3>1, <3>3 DEF Serves, SameBox
    <3>4. CASE GoesOn(t)
      BY <2>2, <3>1, <3>4 DEF Serves, SameBox, GoesOn
    <3> QED
      BY <1>3, <2>1, <3>2, <3>3, <3>4 DEF ThreadStep
  <2>3. CASE Rests(w) \/ Starts(w) \/ Leaves(w)
    BY <1>3, <2>1, <2>3 DEF Rests, Starts, Leaves
  <2>4. ASSUME NEW u \in Threads, Asks(w, u)
        PROVE  Serves(t, w)'
    BY <1>3, <2>4 DEF Asks
  <2> QED
    BY <2>1, <2>2, <2>3, <2>4 DEF BoxStep
<1>4. ASSUME NEW w \in Boxes, box'[w].phase \notin NotServing
      PROVE  box'[w].job \in Jobs
  <2>1. BoxStep(w)
    BY DEF Stepped
  <2> QED
    BY <1>4, <2>1 DEF BoxStep, SameBox, Rests, Starts, Leaves, Asks, Paired, BoxHasJob, NotServing
<1>5. ASSUME NEW j \in Jobs, reaping'[j] # Absent
      PROVE  /\ reaping'[j].status = "rendering"
             /\ reaping'[j].lease = "expired"
             /\ job'[j].status # "absent"
  <2>1. ReapStep(j)
    BY DEF Stepped
  <2>2. CASE reaping'[j] = reaping[j]
    BY <1>5, <2>2, RowsStay DEF Paired, ReadsExpired
  <2>3. CASE Expired(j) /\ reaping'[j] = job[j]
    BY <2>3, RowsStay DEF Expired
  <2> QED
    BY <1>5, <2>1, <2>2, <2>3 DEF ReapStep
<1> QED
  BY <1>1, <1>2, <1>3, <1>4, <1>5
  DEF Stepped, Paired, RowsBegin, ThreadsServe, AwaitsServed, BoxHasJob, ReadsExpired

\* The type of every variable, and who serves whom, in every behaviour.
THEOREM PairedHolds == Spec => []Paired
PROOF
<1>1. Paired /\ [Next]_vars => Paired'
  BY EveryStep, PairedStays
<1> QED
  BY <1>1, PairedInit, PTL DEF Spec

\* TypeOK: the type of every variable of the queue, its threads, the reaper
\* and the boxes.
THEOREM QueueTypes == Spec => []TypeOK
PROOF
<1>1. Paired => TypeOK
  BY DEF Paired
<1> QED
  BY <1>1, PairedHolds, PTL
-----------------------------------------------------------------------------
(* The chapter's side: the audio before the row. *)

\* An upload that is past its files has the audio in place.
PlacedHasAudio == \A t \in Threads : AtStep(t, "placed") => Chapter(t) \in audio

LEMMA AudioStays ==
    ASSUME Paired, Stepped, PlacedHasAudio, DoneHasAudio
    PROVE  PlacedHasAudio' /\ DoneHasAudio'
PROOF
<1>1. ASSUME NEW t \in Threads, AtStep(t, "placed")'
      PROVE  Chapter(t)' \in audio'
  <2>1. ThreadStep(t) /\ audio \subseteq audio'
    BY DEF Stepped
  <2>2. CASE thread'[t] = thread[t]
    BY <1>1, <2>1, <2>2 DEF AtStep, Chapter, PlacedHasAudio
  <2>3. CASE GoesOn(t)
    BY <1>1, <2>3 DEF GoesOn, Chapter
  <2>4. CASE thread'[t] = Free \/ CancelAsked(t)
    BY <1>1, <2>4 DEF AtStep, Free, CancelAsked
  <2>5. ASSUME NEW w \in Boxes, AskedBy(t, w)
        PROVE  FALSE
    BY <1>1, <2>5 DEF AtStep, AskedBy
  <2> QED
    BY <2>1, <2>2, <2>3, <2>4, <2>5 DEF ThreadStep
<1>2. ASSUME NEW j \in Jobs, job'[j].status = "done"
      PROVE  ChapterOf[j] \in audio'
  <2>1. RowStep(j) /\ audio \subseteq audio'
    BY DEF Stepped
  <2>2. CASE job[j].status = "done"
    BY <2>1, <2>2 DEF DoneHasAudio
  <2>3. ASSUME job[j].status # "done", NEW t \in Threads, WrittenBack(j, t)
        PROVE  ChapterOf[j] \in audio'
    <3>1. AtStep(t, "placed") /\ thread[t].job = j
      BY <1>2, <2>3 DEF WrittenBack, Result, TriedAgain, Landed
    <3> QED
      BY <2>1, <3>1 DEF PlacedHasAudio, Chapter
  <2>4. CASE job[j].status # "done" /\ PutBack(j)
    BY <1>2, <2>4 DEF PutBack, TriedAgain, Landed
  <2> QED
    BY <1>2, <2>1, <2>2, <2>3, <2>4 DEF RowStep, SameRow, Enqueued, Claimed
<1> QED
  BY <1>1, <1>2 DEF PlacedHasAudio, DoneHasAudio

\* DoneHasAudio: a job says "done" only when its chapter has audio, whichever
\* uploads of the chapter cross each other on the way.
THEOREM DoneMeansAudio == Spec => []DoneHasAudio
PROOF
<1>1. Init => PlacedHasAudio /\ DoneHasAudio
  BY DEF Init, PlacedHasAudio, DoneHasAudio, AtStep, Free, Absent
<1>2. Paired /\ PlacedHasAudio /\ DoneHasAudio /\ [Next]_vars => PlacedHasAudio' /\ DoneHasAudio'
  BY EveryStep, AudioStays
<1> QED
  BY <1>1, <1>2, PairedHolds, PTL DEF Spec

\* HandedOverThroughQueue: a job gets a new worker only from the queue, stale
\* writes or not.
THEOREM HandedOver == Spec => HandedOverThroughQueue
PROOF
<1>1. ASSUME Paired, [Next]_vars
      PROVE  [\A j \in Jobs :
                job'[j].worker \notin {None, job[j].worker} => job[j].status = "queued"]_job
  <2> SUFFICES ASSUME NEW j \in Jobs, job'[j].worker \notin {None, job[j].worker}
               PROVE  job[j].status = "queued"
    OBVIOUS
  <2>1. RowStep(j)
    BY <1>1, EveryStep DEF Stepped
  <2>2. \A t \in Threads : ~WrittenBack(j, t)
    BY DEF WrittenBack, Result, TriedAgain, Landed
  <2>3. ~PutBack(j)
    BY DEF PutBack, TriedAgain, Landed
  <2> QED
    BY <2>1, <2>2, <2>3 DEF RowStep, SameRow, Enqueued, Claimed
<1> QED
  BY <1>1, PairedHolds, PTL DEF Spec, HandedOverThroughQueue

\* TerminalStaysUnlessStale: while no write has landed on a row that changed
\* under it, how a job ended is never rewritten.
THEOREM EndsAreFinal == Spec => TerminalStaysUnlessStale
PROOF
<1>1. ASSUME Paired, [Next]_vars
      PROVE  [\A j \in Jobs :
                job[j].status \in Terminal /\ ~stale' => job'[j].status = job[j].status]_rows
  <2> SUFFICES ASSUME NEW j \in Jobs, job[j].status \in Terminal, ~stale'
               PROVE  job'[j].status = job[j].status
    OBVIOUS
  <2>1. RowStep(j)
    BY <1>1, EveryStep DEF Stepped
  <2>2. ASSUME NEW t \in Threads, WrittenBack(j, t)
        PROVE  FALSE
    <3>1. job[j].status = thread[t].read.status /\ thread[t].op # "free"
      BY <2>2 DEF WrittenBack, Result, AtStep, Landed
    <3> QED
      BY <1>1, <3>1 DEF Paired, ThreadsServe, Serving
  <2>3. ASSUME PutBack(j)
        PROVE  FALSE
    <3>1. job[j].status = reaping[j].status /\ reaping[j] # Absent
      BY <2>3 DEF PutBack, Landed
    <3> QED
      BY <1>1, <3>1 DEF Paired, ReadsExpired, Terminal
  <2> QED
    BY <2>1, <2>2, <2>3 DEF RowStep, SameRow, Enqueued, Claimed, Terminal
<1> QED
  BY <1>1, PairedHolds, PTL DEF Spec, TerminalStaysUnlessStale
-----------------------------------------------------------------------------
(* Attempts and leases, while no stale write has landed. *)

\* The attempts run up to their limit, and a waiting job has one left and no
\* box.
AttemptsBounded ==
    \A j \in Jobs :
        /\ job[j].attempts <= MaxAttempts
        /\ job[j].status = "queued" =>
              job[j].attempts < MaxAttempts /\ job[j].worker = None

\* A thread giving back the attempt a job is on.
GivesBackNow(t, j) ==
    /\ thread[t].op \in GiveBackOps
    /\ thread[t].job = j
    /\ thread[t].read.attempts = job[j].attempts

\* What a give-back read was being rendered, in an attempt not later than the
\* one the job is on.
ReadsWereRendering ==
    \A t \in Threads : thread[t].op \in GiveBackOps =>
        /\ thread[t].read.status = "rendering"
        /\ job[thread[t].job].status \in Active =>
              thread[t].read.attempts <= job[thread[t].job].attempts

\* Two threads give the same attempt back only as two failures or an upload
\* and a failure: a release has it alone.
OneRelease ==
    \A t, u \in Threads, j \in Jobs :
        /\ job[j].status = "rendering"
        /\ GivesBackNow(t, j) /\ GivesBackNow(u, j)
        /\ thread[t].op = "release"
        => t = u

\* While the box that holds a job renders or releases it, the thread giving its
\* attempt back is the one the box waits for.
HolderIsServed ==
    \A t \in Threads, w \in Boxes, j \in Jobs :
        /\ job[j].status = "rendering"
        /\ Held(j, w) /\ box[w].job = j
        /\ GivesBackNow(t, j)
        => /\ box[w].phase \in {"rendering", "releasing"} => box[w].awaits = t
           /\ box[w].phase = "failing" => thread[t].op # "release"

Fresh == AttemptsBounded /\ ReadsWereRendering /\ OneRelease /\ HolderIsServed

\* A job that is rendering after a step was claimed in it, or was rendering.
LEMMA RenderingBefore ==
    ASSUME Paired, Stepped, Fresh, ~stale', NEW j \in Jobs, job'[j].status = "rendering"
    PROVE  \/ Claimed(j)
           \/ job[j].status = "rendering" /\ SameRow(j)
PROOF
<1>1. RowStep(j)
  BY DEF Stepped
<1>2. ~PutBack(j)
  BY DEF PutBack, TriedAgain, Landed
<1>3. \A t \in Threads : ~WrittenBack(j, t)
  BY DEF WrittenBack, Result, TriedAgain, Landed
<1> QED
  BY <1>1, <1>2, <1>3 DEF RowStep, SameRow, Enqueued

\* A thread giving a job back after a step gave the same read back before it,
\* or read the job in it, in the hands of a box that waits for it.
LEMMA GaveBackBefore ==
    ASSUME Paired, Stepped, NEW t \in Threads, thread'[t].op \in GiveBackOps
    PROVE  \/ /\ thread[t].op \in GiveBackOps
              /\ thread'[t].job = thread[t].job
              /\ thread'[t].read = thread[t].read
              /\ thread'[t].op = "release" <=> thread[t].op = "release"
           \/ /\ thread[t] = Free
              /\ UNCHANGED rows
              /\ \E w \in Boxes : AskedBy(t, w)
PROOF
<1>1. ThreadStep(t)
  BY DEF Stepped
<1> QED
  BY <1>1 DEF ThreadStep, CancelAsked, GoesOn, Free, GiveBackOps

LEMMA AttemptsStay ==
    ASSUME Paired, Stepped, Fresh, ~stale'
    PROVE  AttemptsBounded'
PROOF
<1> SUFFICES ASSUME NEW j \in Jobs
             PROVE  /\ job'[j].attempts <= MaxAttempts
                    /\ job'[j].status = "queued" =>
                          job'[j].attempts < MaxAttempts /\ job'[j].worker = None
  BY DEF AttemptsBounded
<1>1. RowStep(j) /\ MaxAttempts \in Nat \ {0}
  BY QueueAssumption DEF Stepped
<1>2. /\ job[j].attempts \in Nat
      /\ job[j].attempts <= MaxAttempts
      /\ job[j].status = "queued" => job[j].attempts < MaxAttempts /\ job[j].worker = None
  BY DEF Paired, TypeOK, JobRow, Fresh, AttemptsBounded
<1>3. CASE SameRow(j)
  BY <1>2, <1>3 DEF SameRow
<1>4. CASE Enqueued(j)
  BY <1>1, <1>4 DEF Enqueued
<1>5. CASE Claimed(j)
  BY <1>1, <1>2, <1>5 DEF Claimed
<1>6. CASE PutBack(j)
  BY <1>1, <1>2, <1>6 DEF PutBack, TriedAgain, Landed
<1>7. ASSUME NEW t \in Threads, WrittenBack(j, t)
      PROVE  /\ job'[j].attempts <= MaxAttempts
             /\ job'[j].status = "queued" =>
                   job'[j].attempts < MaxAttempts /\ job'[j].worker = None
  <2>1. PICK new \in JobRow : Result(t, new) /\ Landed(j, thread[t].read, new)
    BY <1>7 DEF WrittenBack
  <2>2. /\ thread[t].read.attempts = job[j].attempts
        /\ job'[j].status = new.status
        /\ job'[j].worker = new.worker
        /\ job'[j].attempts = new.attempts
    BY <2>1 DEF Landed
  <2> QED
    BY <1>1, <1>2, <2>1, <2>2 DEF Result, TriedAgain
<1> QED
  BY <1>1, <1>3, <1>4, <1>5, <1>6, <1>7 DEF RowStep

LEMMA ReadsStay ==
    ASSUME Paired, Stepped, Fresh, ~stale'
    PROVE  ReadsWereRendering'
PROOF
<1> SUFFICES ASSUME NEW t \in Threads, thread'[t].op \in GiveBackOps
             PROVE  /\ thread'[t].read.status = "rendering"
                    /\ job'[thread'[t].job].status \in Active =>
                          thread'[t].read.attempts <= job'[thread'[t].job].attempts
  BY DEF ReadsWereRendering
<1>1. CASE UNCHANGED rows /\ \E w \in Boxes : AskedBy(t, w)
  <2>1. PICK w \in Boxes : AskedBy(t, w)
    BY <1>1
  <2> DEFINE j == thread'[t].job
  <2>2. /\ j \in Jobs
        /\ thread'[t].read = job[j]
        /\ job[j].status \notin Terminal
        /\ job[j].worker = w
        /\ job' = job
    BY <1>1, <2>1 DEF AskedBy, GiveBackOps, rows
  <2>3. job[j] \in JobRow /\ w # None
    BY <2>2, QueueAssumption DEF Paired, TypeOK, None
  <2>4. job[j].status # "absent" /\ job[j].status # "queued"
    BY <2>2, <2>3 DEF Paired, RowsBegin, Absent, Fresh, AttemptsBounded
  <2>5. job[j].status = "rendering"
    BY <2>2, <2>3, <2>4 DEF JobRow, Active, Terminal
  <2> QED
    BY <2>2, <2>3, <2>5 DEF JobRow
<1>2. CASE /\ thread[t].op \in GiveBackOps
           /\ thread'[t].job = thread[t].job
           /\ thread'[t].read = thread[t].read
  <2> DEFINE j == thread[t].job
             read == thread[t].read
  <2>1. /\ j \in Jobs
        /\ read.status = "rendering"
        /\ job[j].status \in Active => read.attempts <= job[j].attempts
        /\ job[j].status # "absent"
        /\ read.attempts \in Nat /\ job[j].attempts \in Nat
    BY <1>2 DEF Paired, ThreadsServe, Serving, TypeOK, ThreadRow, JobRow, Fresh,
                ReadsWereRendering, GiveBackOps
  <2>2. RowStep(j)
    BY <2>1 DEF Stepped
  <2>3. ASSUME job'[j].status \in Active
        PROVE  read.attempts <= job'[j].attempts
    <3>1. CASE SameRow(j)
      BY <2>1, <2>3, <3>1 DEF SameRow
    <3>2. CASE Claimed(j)
      BY <2>1, <3>2 DEF Claimed, Active
    <3>3. CASE PutBack(j)
      <4>1. reaping[j].status = "rendering"
        BY <2>1, <3>3 DEF PutBack, Paired, ReadsExpired
      <4>2. PICK new \in JobRow : TriedAgain(reaping[j], new) /\ Landed(j, reaping[j], new)
        BY <3>3 DEF PutBack
      <4>3. job[j].status = "rendering" /\ job'[j].attempts = job[j].attempts
        BY <4>1, <4>2 DEF TriedAgain, Landed
      <4> QED
        BY <2>1, <4>3 DEF Active
    <3>4. ASSUME NEW u \in Threads, WrittenBack(j, u)
          PROVE  read.attempts <= job'[j].attempts
      <4>1. PICK new \in JobRow : Result(u, new) /\ Landed(j, thread[u].read, new)
        BY <3>4 DEF WrittenBack
      <4>2. /\ job[j].status = thread[u].read.status
            /\ job[j].attempts = thread[u].read.attempts
            /\ job'[j].status = new.status
            /\ job'[j].attempts = new.attempts
            /\ thread[u].job = j
            /\ thread'[u] = Free
        BY <3>4, <4>1 DEF Landed, WrittenBack
      <4>3. thread[u].op \in {"fail", "release"}
        BY <2>3, <4>1, <4>2 DEF Result, TriedAgain, Active, AtStep
      <4>4. job[j].status = "rendering" /\ GivesBackNow(u, j)
        BY <4>2, <4>3 DEF Fresh, ReadsWereRendering, GivesBackNow, GiveBackOps
      <4>5. CASE thread[u].op = "fail"
        BY <2>1, <4>1, <4>2, <4>4, <4>5 DEF Result, TriedAgain, AtStep, Active
      <4>6. CASE thread[u].op = "release"
        <5>1. t # u
          BY <4>2 DEF Free, GiveBackOps
        <5>2. ~GivesBackNow(t, j)
          BY <2>1, <4>4, <4>6, <5>1 DEF Fresh, OneRelease
        <5>3. read.attempts # job[j].attempts
          BY <1>2, <5>2 DEF GivesBackNow
        <5>4. new.attempts = IF job[j].attempts = 0 THEN 0 ELSE job[j].attempts - 1
          BY <4>1, <4>2, <4>6 DEF Result, AtStep
        <5> QED
          BY <2>1, <4>2, <4>4, <5>3, <5>4 DEF Active
      <4> QED
        BY <4>3, <4>5, <4>6
    <3> QED
      BY <2>1, <2>2, <3>1, <3>2, <3>3, <3>4 DEF RowStep, Enqueued
  <2> QED
    BY <1>2, <2>1, <2>3
<1> QED
  BY <1>1, <1>2, GaveBackBefore
LEMMA HolderStays ==
    ASSUME Paired, Stepped, Fresh, ~stale'
    PROVE  HolderIsServed'
PROOF
<1> SUFFICES ASSUME NEW t \in Threads, NEW w \in Boxes, NEW j \in Jobs,
                    job'[j].status = "rendering",
                    Held(j, w)', box'[w].job = j,
                    GivesBackNow(t, j)'
             PROVE  /\ box'[w].phase \in {"rendering", "releasing"} => box'[w].awaits = t
                    /\ box'[w].phase = "failing" => thread'[t].op # "release"
  BY DEF HolderIsServed
<1>1. BoxStep(w) /\ None # t
  BY QueueAssumption DEF Stepped, None
<1>2. CASE Claimed(j)
  <2>1. job[j].attempts \in Nat /\ job'[j].attempts = job[j].attempts + 1 /\ job[j].status = "queued"
    BY <1>2 DEF Claimed, Paired, TypeOK, JobRow
  <2>2. thread'[t].op \in GiveBackOps /\ thread'[t].job = j
        /\ thread'[t].read.attempts = job[j].attempts + 1
    BY <2>1 DEF GivesBackNow
  <2>3. CASE UNCHANGED rows
    BY <2>1, <2>3 DEF rows
  <2>4. CASE /\ thread[t].op \in GiveBackOps
             /\ thread'[t].job = thread[t].job
             /\ thread'[t].read = thread[t].read
    <3>1. thread[t].read.attempts <= job[j].attempts
      BY <2>1, <2>2, <2>4 DEF Fresh, ReadsWereRendering, Active
    <3> QED
      BY <2>1, <2>2, <2>4, <3>1
  <2> QED
    BY <2>2, <2>3, <2>4, GaveBackBefore
<1>3. CASE job[j].status = "rendering" /\ SameRow(j)
  <2>1. Held(j, w)
    BY <1>3 DEF Held, SameRow
  <2>2. CASE thread[t] = Free /\ \E v \in Boxes : AskedBy(t, v)
    <3>1. PICK v \in Boxes : AskedBy(t, v)
      BY <2>2
    <3>2. /\ thread'[t].read = job[j]
          /\ thread'[t].read.worker = v
          /\ Serves(t, v)'
          /\ box'[v].awaits = t
      BY <3>1 DEF AskedBy, GivesBackNow, GiveBackOps
    <3>3. v = w
      BY <2>1, <3>2 DEF Held
    <3> QED
      BY <3>2, <3>3 DEF Serves
  <2>3. CASE /\ thread[t].op \in GiveBackOps
             /\ thread'[t].job = thread[t].job
             /\ thread'[t].read = thread[t].read
             /\ thread'[t].op = "release" <=> thread[t].op = "release"
    <3>1. GivesBackNow(t, j)
      BY <1>3, <2>3 DEF GivesBackNow, SameRow
    <3>2. thread'[t] # Free
      BY DEF GivesBackNow, Free, GiveBackOps
    <3>3. box[w].job = j => /\ box[w].phase \in {"rendering", "releasing"} => box[w].awaits = t
                            /\ box[w].phase = "failing" => thread[t].op # "release"
      BY <1>3, <2>1, <3>1 DEF Fresh, HolderIsServed
    <3>4. CASE SameBox(w)
      BY <2>3, <3>3, <3>4 DEF SameBox
    <3>5. CASE Rests(w)
      BY <3>5 DEF Rests, NotServing
    <3>6. CASE Starts(w)
      BY <1>3, <3>6 DEF Starts
    <3>7. CASE Leaves(w)
      <4>1. /\ box[w].awaits = t
            /\ box'[w].awaits = None
            /\ \/ box'[w].phase = "rendering" /\ thread[t].op = "heartbeat"
               \/ box'[w].phase = "failing" /\ thread[t].op # "release"
        BY <1>1, <3>2, <3>3, <3>7 DEF Leaves
      <4> QED
        BY <2>3, <4>1 DEF GiveBackOps
    <3>8. ASSUME NEW u \in Threads, Asks(w, u)
          PROVE  /\ box'[w].phase \in {"rendering", "releasing"} => box'[w].awaits = t
                 /\ box'[w].phase = "failing" => thread'[t].op # "release"
      BY <1>1, <2>3, <3>3, <3>8 DEF Asks
    <3> QED
      BY <1>1, <3>4, <3>5, <3>6, <3>7, <3>8 DEF BoxStep
  <2>4. thread'[t].op \in GiveBackOps
    BY DEF GivesBackNow
  <2> QED
    BY <2>2, <2>3, <2>4, GaveBackBefore
<1> QED
  BY <1>2, <1>3, RenderingBefore

LEMMA ReleaseStaysAlone ==
    ASSUME Paired, Stepped, Fresh, ~stale'
    PROVE  OneRelease'
PROOF
<1> SUFFICES ASSUME NEW t \in Threads, NEW u \in Threads, NEW j \in Jobs,
                    job'[j].status = "rendering",
                    GivesBackNow(t, j)', GivesBackNow(u, j)',
                    thread'[t].op = "release"
             PROVE  t = u
  BY DEF OneRelease
<1> DEFINE Before(x) == /\ thread[x].op \in GiveBackOps
                        /\ thread'[x].job = thread[x].job
                        /\ thread'[x].read = thread[x].read
                        /\ thread'[x].op = "release" <=> thread[x].op = "release"
           Now(x) == /\ thread[x] = Free
                     /\ UNCHANGED rows
                     /\ \E w \in Boxes : AskedBy(x, w)
<1>1. (Before(t) \/ Now(t)) /\ (Before(u) \/ Now(u))
  <2>1. thread'[t].op \in GiveBackOps /\ thread'[u].op \in GiveBackOps
    BY DEF GivesBackNow
  <2> QED
    BY <2>1, GaveBackBefore
<1>2. CASE Claimed(j)
  <2>1. /\ job[j].attempts \in Nat
        /\ job'[j].attempts = job[j].attempts + 1
        /\ job[j].status = "queued"
    BY <1>2 DEF Claimed, Paired, TypeOK, JobRow
  <2>2. CASE Before(t)
    <3>1. thread[t].read.attempts <= job[j].attempts
      BY <2>1, <2>2 DEF GivesBackNow, Fresh, ReadsWereRendering, Active
    <3> QED
      BY <2>1, <2>2, <3>1 DEF GivesBackNow
  <2>3. CASE Now(t)
    BY <2>1, <2>3 DEF rows
  <2> QED
    BY <1>1, <2>2, <2>3
<1>3. CASE job[j].status = "rendering" /\ SameRow(j)
  <2>1. ASSUME NEW x \in Threads, GivesBackNow(x, j)', Before(x)
        PROVE  GivesBackNow(x, j)
    BY <1>3, <2>1 DEF GivesBackNow, SameRow
  <2>2. ASSUME NEW x \in Threads, GivesBackNow(x, j)', Now(x)
        PROVE  \E w \in Boxes :
                 /\ Held(j, w) /\ box[w].job = j
                 /\ box[w].awaits = None /\ box'[w].awaits = x
                 /\ \/ box[w].phase = "rendering"
                    \/ box[w].phase = "failing" /\ thread'[x].op = "fail"
                    \/ box[w].phase = "releasing"
    <3>1. PICK w \in Boxes : AskedBy(x, w)
      BY <2>2
    <3>2. /\ box[w].awaits = None /\ box'[w].awaits = x
          /\ thread'[x].job = j
          /\ thread'[x].read = job[j]
          /\ thread'[x].read.worker = w
          /\ box[w].job = j
          /\ Serves(x, w)'
          /\ box'[w].phase = box[w].phase
      BY <2>2, <3>1 DEF AskedBy, GivesBackNow, GiveBackOps
    <3> QED
      BY <2>2, <3>2 DEF Serves, Held, GivesBackNow, GiveBackOps
  <2>3. CASE Before(t) /\ Before(u)
    BY <1>3, <2>1, <2>3 DEF Fresh, OneRelease
  <2>4. CASE Now(t) /\ Now(u)
    <3>1. PICK w \in Boxes : Held(j, w) /\ box'[w].awaits = t
      BY <2>2, <2>4
    <3>2. PICK v \in Boxes : Held(j, v) /\ box'[v].awaits = u
      BY <2>2, <2>4
    <3> QED
      BY <3>1, <3>2 DEF Held
  <2>5. CASE Now(t) /\ Before(u)
    <3>1. PICK w \in Boxes :
            /\ Held(j, w) /\ box[w].job = j
            /\ box[w].awaits = None
            /\ box[w].phase \in {"rendering", "releasing"}
      BY <2>2, <2>5
    <3>2. GivesBackNow(u, j)
      BY <2>1, <2>5
    <3>3. box[w].awaits = u /\ None # u
      BY <1>3, <3>1, <3>2, QueueAssumption DEF Fresh, HolderIsServed, None
    <3> QED
      BY <3>1, <3>3
  <2>6. CASE Before(t) /\ Now(u)
    <3>1. PICK w \in Boxes :
            /\ Held(j, w) /\ box[w].job = j
            /\ box[w].awaits = None
            /\ box[w].phase \in {"rendering", "failing", "releasing"}
      BY <2>2, <2>6
    <3>2. GivesBackNow(t, j) /\ thread[t].op = "release"
      BY <2>1, <2>6
    <3>3. None # t
      BY QueueAssumption DEF None
    <3> QED
      BY <1>3, <3>1, <3>2, <3>3 DEF Fresh, HolderIsServed
  <2> QED
    BY <1>1, <2>3, <2>4, <2>5, <2>6
<1> QED
  BY <1>2, <1>3, RenderingBefore

\* The attempts and leases of a table no stale write has landed on.
THEOREM FreshHolds == Spec => [](~stale => Fresh)
PROOF
<1>1. Init => Fresh
  <2> SUFFICES ASSUME Init PROVE Fresh
    OBVIOUS
  <2>1. AttemptsBounded
    <3>1. \A j \in Jobs : job[j].attempts = 0 /\ job[j].status = "absent"
      BY DEF Init, Absent
    <3>2. MaxAttempts \in Nat /\ 0 < MaxAttempts /\ 0 <= MaxAttempts
      BY QueueAssumption
    <3> QED
      BY <3>1, <3>2 DEF AttemptsBounded
  <2>2. \A t \in Threads : thread[t].op \notin GiveBackOps
    BY DEF Init, Free, GiveBackOps
  <2> QED
    BY <2>1, <2>2 DEF Fresh, ReadsWereRendering, OneRelease, HolderIsServed, GivesBackNow
<1>2. Paired /\ (~stale => Fresh) /\ [Next]_vars => (~stale => Fresh)'
  <2> SUFFICES ASSUME Paired, ~stale => Fresh, [Next]_vars, ~stale'
               PROVE  Fresh'
    OBVIOUS
  <2>1. Stepped /\ Fresh
    BY EveryStep DEF Stepped
  <2> QED
    BY <2>1, AttemptsStay, ReadsStay, HolderStays, ReleaseStaysAlone DEF Fresh
<1> QED
  BY <1>1, <1>2, PairedHolds, PTL DEF Spec

\* RetriesEnd: a job that waits in the queue has an attempt left, through
\* failures, expired leases, releases and refused claims.
THEOREM RetriesRunOut == Spec => []RetriesEnd
PROOF
<1>1. (~stale => Fresh) => RetriesEnd
  BY DEF Fresh, AttemptsBounded, RetriesEnd
<1> QED
  BY <1>1, FreshHolds, PTL

\* LeaseLostOnlyIfOvertaken: until a first write has landed on a row that
\* changed under it, a box that is rendering with a good lease loses its job only
\* to a cancel or to that first write.
THEOREM LeaseIsLostOnlyIfOvertaken == Spec => LeaseLostOnlyIfOvertaken
PROOF
<1>1. ASSUME Paired, ~stale => Fresh, [Next]_vars
      PROVE  [\A j \in Jobs, w \in Boxes :
                /\ box[w].phase = "rendering" /\ box[w].awaits = None /\ box[w].job = j
                /\ Held(j, w) /\ job[j].status = "rendering" /\ job[j].lease = "good"
                /\ ~stale
                => \/ job'[j].status \in {"rendering", "cancelled"} /\ Held(j, w)'
                   \/ Overtaken(j)]_vars
  <2> SUFFICES ASSUME NEW j \in Jobs, NEW w \in Boxes,
                      box[w].phase = "rendering", box[w].awaits = None, box[w].job = j,
                      Held(j, w), job[j].status = "rendering", job[j].lease = "good",
                      ~stale, ~Overtaken(j)
               PROVE  job'[j].status \in {"rendering", "cancelled"} /\ Held(j, w)'
    OBVIOUS
  <2>1. Stepped
    BY <1>1, EveryStep
  <2>2. Fresh /\ RowStep(j)
    BY <1>1, <2>1 DEF Stepped
  <2>3. ASSUME PutBack(j)
        PROVE  FALSE
    <3>1. reaping[j].lease = "expired" /\ reaping[j] # Absent
      BY <1>1, <2>3 DEF PutBack, Paired, ReadsExpired
    <3> QED
      BY <2>3, <3>1 DEF PutBack, Landed, Overtaken
  <2>4. ASSUME NEW t \in Threads, WrittenBack(j, t)
        PROVE  job'[j].status = "cancelled" /\ job'[j].worker = job[j].worker
    <3>1. PICK new \in JobRow : Result(t, new) /\ Landed(j, thread[t].read, new)
      BY <2>4 DEF WrittenBack
    <3>2. /\ thread[t].job = j
          /\ thread[t].read.attempts = job[j].attempts
          /\ thread[t].read.worker = job[j].worker
          /\ job'[j].status = new.status
          /\ job'[j].worker = new.worker
      BY <2>4, <3>1 DEF WrittenBack, Landed, Overtaken
    <3>3. thread[t].op \notin GiveBackOps
      <4> SUFFICES ASSUME thread[t].op \in GiveBackOps PROVE FALSE
        OBVIOUS
      <4>1. GivesBackNow(t, j)
        BY <3>2 DEF GivesBackNow
      <4>2. box[w].awaits = t /\ None # t
        BY <2>2, <4>1, QueueAssumption DEF Fresh, HolderIsServed, None
      <4> QED
        BY <4>2
    <3> QED
      BY <3>1, <3>2, <3>3 DEF Result, AtStep, GiveBackOps
  <2> QED
    BY <2>2, <2>3, <2>4 DEF RowStep, SameRow, Enqueued, Claimed, Held
<1> QED
  BY <1>1, PairedHolds, FreshHolds, PTL DEF Spec, LeaseLostOnlyIfOvertaken
=============================================================================

--------------------------- MODULE DownloadProofs ---------------------------
(***************************************************************************)
(* Proofs about offline downloads, for any rows, pages, contents, batch    *)
(* width, tries, and numbers of mishaps and of taps.                       *)
(*                                                                         *)
(* The store: the counts are exact, a complete chapter has its pages, and  *)
(* sharing blobs between chapters cannot be told from copies.              *)
(*                                                                         *)
(* The queue: its types, and that a cancel is carried out, under way, or   *)
(* owed by a running loop.                                                 *)
(***************************************************************************)
EXTENDS DownloadStore, DownloadQueue, FiniteSetTheorems, TLAPS

-----------------------------------------------------------------------------
(* The store. *)

\* A row that was never asked for has no bytes.
UnusedIsEmpty == \A r \in RowIds : saved[r].state = "unused" => saved[r].bytes = 0

\* A chapter is not complete while a worker is at it.
WorkerOnOpenRow ==
    \A r \in RowIds :
        worker[r].phase # "idle" => saved[r].state \notin {"unused", "complete"}

\* Between the count of the pages and the update that follows it the chapter
\* has its pages, as long as nobody deletes files outside the app.
CountedIsWhole ==
    ~tampered =>
        \A r \in RowIds : worker[r].phase = "counted" /\ Live(r) =>
            {p.page : p \in PagesOf(r)} = 1..saved[r].pageCount

\* Only somebody outside the app takes the file of a page away.
FilesKept ==
    /\ \A p \in pages : p.hash \in files \cup byHand
    /\ ~tampered => byHand = {}

StoreInv ==
    /\ StoreTypeOK
    /\ IsFiniteSet(pages)
    /\ AccountsExact
    /\ UnusedIsEmpty
    /\ WorkerOnOpenRow
    /\ CountedIsWhole
    /\ FilesKept
    /\ CompleteHasAllPages

-----------------------------------------------------------------------------
(* Counting pages.                                                         *)

\* What is left of a finite set, counted.
LEMMA Remaining ==
  ASSUME NEW S, IsFiniteSet(S), NEW T \in SUBSET S
  PROVE  /\ IsFiniteSet(S \ T) /\ IsFiniteSet(T)
         /\ Cardinality(S) \in Nat /\ Cardinality(T) \in Nat
         /\ Cardinality(S \ T) \in Nat
         /\ Cardinality(S \ T) = Cardinality(S) - Cardinality(T)
<1>1. IsFiniteSet(T) /\ IsFiniteSet(S \ T)
  <2>1. S \ T \in SUBSET S
    OBVIOUS
  <2> QED  BY <2>1, FS_Subset
<1>2. /\ Cardinality(S) \in Nat /\ Cardinality(T) \in Nat
      /\ Cardinality(S \ T) \in Nat
  BY <1>1, FS_CardinalityType
<1>3. (S \ T) \cup T = S /\ (S \ T) \cap T = {}
  OBVIOUS
<1>4. Cardinality(S) = Cardinality(S \ T) + Cardinality(T) - Cardinality({})
  BY <1>1, <1>3, FS_Union
<1>5. Cardinality({}) = 0
  BY FS_EmptySet
<1> QED  BY <1>1, <1>2, <1>4, <1>5

\* _releaseBlobRefs keeps the counts: a hash loses as many references as pages
\* that name it.
LEMMA Releasing ==
  ASSUME StoreInv, NEW freed \in SUBSET pages, ReleasePages(freed)
  PROVE  /\ pages' = pages \ freed /\ pages' \subseteq Page /\ IsFiniteSet(pages')
         /\ refcount' \in [Hashes -> Int] /\ toUnlink' \subseteq Hashes
         /\ \A h \in Hashes : refcount'[h] = Cardinality(Naming(h)')
<1>1. /\ pages' = pages \ freed
      /\ refcount' = Released(freed)
      /\ toUnlink' = toUnlink \cup Unreferenced(freed)
  BY DEF ReleasePages
<1>2. pages' \subseteq Page /\ IsFiniteSet(pages')
  BY <1>1, Remaining DEF StoreInv, StoreTypeOK
<1>3. ASSUME NEW h \in Hashes
      PROVE  /\ Cardinality({p \in freed : p.hash = h}) \in Nat
             /\ refcount'[h] = Cardinality(Naming(h)')
  <2> DEFINE named == Naming(h)
             left == {p \in freed : p.hash = h}
  <2>1. IsFiniteSet(named) /\ left \in SUBSET named /\ Naming(h)' = named \ left
    <3>1. named \in SUBSET pages
      BY DEF Naming
    <3>2. IsFiniteSet(named)
      BY <3>1, FS_Subset DEF StoreInv
    <3>3. left \in SUBSET named /\ Naming(h)' = named \ left
      BY <1>1 DEF Naming
    <3> QED  BY <3>2, <3>3
  <2>2. refcount'[h] = refcount[h] - Cardinality(left)
    BY <1>1 DEF Released
  <2>3. refcount[h] = Cardinality(named)
    BY DEF StoreInv, AccountsExact
  <2> HIDE DEF named, left
  <2>4. Cardinality(left) \in Nat /\ Cardinality(named \ left) = Cardinality(named) - Cardinality(left)
    BY <2>1, Remaining
  <2> QED  BY <2>1, <2>2, <2>3, <2>4 DEF left
<1>4. refcount' \in [Hashes -> Int]
  BY <1>1, <1>3 DEF Released, StoreInv, StoreTypeOK
<1>5. toUnlink' \subseteq Hashes
  BY <1>1 DEF Unreferenced, StoreInv, StoreTypeOK
<1> QED  BY <1>1, <1>2, <1>3, <1>4, <1>5

\* A chapter's pages are finitely many, and only a row that is there has any.
LEMMA ChapterPages ==
  ASSUME StoreInv, NEW r \in RowIds
  PROVE  /\ IsFiniteSet(PagesOf(r)) /\ Cardinality(PagesOf(r)) \in Nat
         /\ ~Live(r) => PagesOf(r) = {}
<1>1. PagesOf(r) \in SUBSET pages
  BY DEF PagesOf
<1>2. IsFiniteSet(PagesOf(r))
  BY <1>1, FS_Subset DEF StoreInv
<1>3. ~Live(r) => PagesOf(r) = {}
  BY DEF PagesOf, StoreInv, AccountsExact
<1> QED  BY <1>2, <1>3, FS_CardinalityType

\* A prune leaves the rows as they are but for the bytes, and the accounts exact.
LEMMA Pruning ==
  ASSUME StoreInv, NEW r \in RowIds, NEW freed \in SUBSET PagesOf(r), Prune(r, freed)
  PROVE  /\ saved' \in [RowIds -> StoreRow]
         /\ pages' \subseteq Page /\ IsFiniteSet(pages')
         /\ refcount' \in [Hashes -> Int] /\ toUnlink' \subseteq Hashes
         /\ pages' = pages \ freed
         /\ \A q \in RowIds : /\ saved'[q].state = saved[q].state
                              /\ saved'[q].pageCount = saved[q].pageCount
                              /\ Live(q)' <=> Live(q)
         /\ AccountsExact' /\ UnusedIsEmpty'
<1>1. /\ ReleasePages(freed)
      /\ saved' = [saved EXCEPT ![r].bytes = @ - Cardinality(freed)]
  BY DEF Prune
<1>2. freed \in SUBSET pages
  BY DEF PagesOf
<1>3. /\ pages' = pages \ freed /\ pages' \subseteq Page /\ IsFiniteSet(pages')
      /\ refcount' \in [Hashes -> Int] /\ toUnlink' \subseteq Hashes
      /\ \A h \in Hashes : refcount'[h] = Cardinality(Naming(h)')
  BY <1>1, <1>2, Releasing
<1>4. saved \in [RowIds -> StoreRow] /\ saved[r] \in StoreRow /\ saved[r].bytes \in Nat
  BY DEF StoreInv, StoreTypeOK, StoreRow
<1>5. PICK bytes : /\ bytes = saved[r].bytes - Cardinality(freed) /\ bytes \in Nat
                   /\ Live(r) => bytes = Cardinality(PagesOf(r) \ freed)
                   /\ ~Live(r) => bytes = saved[r].bytes
  <2>1. /\ IsFiniteSet(PagesOf(r)) /\ Cardinality(PagesOf(r)) \in Nat
        /\ ~Live(r) => PagesOf(r) = {}
    BY ChapterPages
  <2>2. /\ Cardinality(freed) \in Nat /\ Cardinality(PagesOf(r) \ freed) \in Nat
        /\ Cardinality(PagesOf(r) \ freed) = Cardinality(PagesOf(r)) - Cardinality(freed)
    BY <2>1, Remaining
  <2>3. CASE Live(r)
    BY <2>2, <2>3 DEF StoreInv, AccountsExact
  <2>4. CASE ~Live(r)
    <3>1. freed = {} /\ Cardinality(freed) = 0
      BY <2>1, <2>4, FS_EmptySet
    <3> QED  BY <1>4, <2>4, <3>1
  <2> QED  BY <2>3, <2>4
<1>6. saved' = [saved EXCEPT ![r] = [saved[r] EXCEPT !.bytes = bytes]]
  BY <1>1, <1>4, <1>5
<1>7. [saved[r] EXCEPT !.bytes = bytes] \in StoreRow
  BY <1>4, <1>5 DEF StoreRow
<1>8. /\ saved' \in [RowIds -> StoreRow] /\ saved'[r].bytes = bytes
      /\ \A q \in RowIds : /\ saved'[q].state = saved[q].state
                           /\ saved'[q].pageCount = saved[q].pageCount
                           /\ q # r => saved'[q] = saved[q]
  BY <1>4, <1>6, <1>7 DEF StoreRow
<1>9. \A q \in RowIds : Live(q)' <=> Live(q)
  BY <1>8 DEF Live
<1>10. /\ PagesOf(r)' = PagesOf(r) \ freed
       /\ \A q \in RowIds \ {r} : PagesOf(q)' = PagesOf(q)
  BY <1>3 DEF PagesOf
<1>11. \A q \in RowIds : Live(q)' => saved'[q].bytes = Cardinality(PagesOf(q)')
  BY <1>5, <1>8, <1>9, <1>10 DEF StoreInv, AccountsExact
<1>12. \A p \in pages' : Live(p.row)'
  BY <1>3, <1>9 DEF StoreInv, AccountsExact, StoreTypeOK, Page
<1>13. UnusedIsEmpty'
  BY <1>5, <1>8 DEF StoreInv, UnusedIsEmpty, Live
<1> QED
  BY <1>3, <1>8, <1>9, <1>11, <1>12, <1>13 DEF AccountsExact

\* deleteChapterAndBlobs: the row and its pages go together.
LEMMA Deleting ==
  ASSUME StoreInv, NEW r \in RowIds, Live(r), DeleteRow(r),
         UNCHANGED <<worker, files, byHand, tampered>>
  PROVE  /\ saved' \in [RowIds -> StoreRow]
         /\ pages' \subseteq Page /\ IsFiniteSet(pages')
         /\ refcount' \in [Hashes -> Int] /\ toUnlink' \subseteq Hashes
         /\ AccountsExact' /\ UnusedIsEmpty' /\ WorkerOnOpenRow'
         /\ CountedIsWhole' /\ FilesKept' /\ CompleteHasAllPages'
<1>1. ReleasePages(PagesOf(r)) /\ saved' = [saved EXCEPT ![r].state = "gone"]
  BY DEF DeleteRow
<1>2. PagesOf(r) \in SUBSET pages
  BY DEF PagesOf
<1>3. /\ pages' = pages \ PagesOf(r) /\ pages' \subseteq Page /\ IsFiniteSet(pages')
      /\ refcount' \in [Hashes -> Int] /\ toUnlink' \subseteq Hashes
      /\ \A h \in Hashes : refcount'[h] = Cardinality(Naming(h)')
  BY <1>1, <1>2, Releasing
<1>4. saved \in [RowIds -> StoreRow] /\ saved[r] \in StoreRow
  BY DEF StoreInv, StoreTypeOK
<1>5. /\ saved' = [saved EXCEPT ![r] = [saved[r] EXCEPT !.state = "gone"]]
      /\ [saved[r] EXCEPT !.state = "gone"] \in StoreRow
  BY <1>1, <1>4 DEF StoreRow, RowStates
<1>6. /\ saved' \in [RowIds -> StoreRow] /\ saved'[r].state = "gone"
      /\ \A q \in RowIds \ {r} : saved'[q] = saved[q]
  BY <1>4, <1>5 DEF StoreRow
<1>7. /\ \A q \in RowIds \ {r} : (Live(q)' <=> Live(q)) /\ PagesOf(q)' = PagesOf(q)
      /\ ~Live(r)'
  BY <1>3, <1>6 DEF Live, PagesOf
<1>8. AccountsExact'
  <2>1. \A q \in RowIds : Live(q)' => saved'[q].bytes = Cardinality(PagesOf(q)')
    BY <1>6, <1>7 DEF StoreInv, AccountsExact
  <2>2. \A p \in pages' : p.row \in RowIds \ {r} /\ Live(p.row)
    BY <1>3 DEF PagesOf, Page, StoreInv, AccountsExact, StoreTypeOK
  <2>3. \A p \in pages' : Live(p.row)'
    BY <1>7, <2>2
  <2> QED  BY <1>3, <2>1, <2>3 DEF AccountsExact
<1>9. UnusedIsEmpty' /\ WorkerOnOpenRow'
  BY <1>6 DEF StoreInv, UnusedIsEmpty, WorkerOnOpenRow
<1>10. CountedIsWhole' /\ CompleteHasAllPages'
  BY <1>6, <1>7 DEF StoreInv, CountedIsWhole, CompleteHasAllPages
<1>11. FilesKept'
  BY <1>3 DEF StoreInv, FilesKept
<1> QED  BY <1>3, <1>6, <1>8, <1>9, <1>10, <1>11

-----------------------------------------------------------------------------
(* The invariant holds at the start, and every step keeps it.              *)

LEMMA StoreStarts == StoreInit => StoreInv
<1> SUFFICES ASSUME StoreInit PROVE StoreInv
  OBVIOUS
<1>1. StoreTypeOK
  <2>1. saved \in [RowIds -> StoreRow] /\ worker \in [RowIds -> Worker]
    BY StoreAssumption DEF StoreAssumption, StoreInit, StoreRow, RowStates, Worker
  <2>2. sweep \in [phase : {"idle", "settling"}, rows : SUBSET RowIds,
                   settle : SUBSET RowIds, doomed : SUBSET RowIds]
    BY DEF StoreInit, NoSweep
  <2>3. mishaps \in 0..MaxMishaps
    BY StoreAssumption DEF StoreAssumption, StoreInit
  <2>4. tampered \in BOOLEAN
    BY Zenon DEF StoreInit
  <2> QED  BY <2>1, <2>2, <2>3, <2>4 DEF StoreTypeOK, StoreInit
<1>2. IsFiniteSet(pages) /\ \A h \in Hashes : refcount[h] = Cardinality(Naming(h))
  <2>1. \A h \in Hashes : Naming(h) = {} /\ refcount[h] = 0
    BY DEF StoreInit, Naming
  <2>2. pages = {}
    BY DEF StoreInit
  <2> QED  BY <2>1, <2>2, FS_EmptySet
<1>3. AccountsExact
  BY <1>2 DEF AccountsExact, StoreInit, Live
<1>4. UnusedIsEmpty /\ WorkerOnOpenRow /\ CountedIsWhole /\ FilesKept /\ CompleteHasAllPages
  BY DEF StoreInit, UnusedIsEmpty, WorkerOnOpenRow, CountedIsWhole, FilesKept,
         CompleteHasAllPages
<1> QED  BY <1>1, <1>2, <1>3, <1>4 DEF StoreInv

\* A statement that changes one row and its worker, and no page.
LEMMA RowChanges ==
  ASSUME StoreInv, NEW r \in RowIds, NEW new \in StoreRow, NEW job \in Worker,
         saved' = [saved EXCEPT ![r] = new], worker' = [worker EXCEPT ![r] = job],
         new.bytes = saved[r].bytes,
         Live(r) => new.state \notin {"unused", "gone"},
         saved[r].state # "unused" => new.state # "unused",
         saved[r].state = "gone" => new.state = "gone",
         job.phase # "idle" => new.state \notin {"unused", "complete"},
         job.phase = "counted" =>
             worker[r].phase = "counted" /\ new.pageCount = saved[r].pageCount,
         new.state = "complete" =>
             /\ new.pageCount = saved[r].pageCount
             /\ saved[r].state = "complete" \/ (worker[r].phase = "counted" /\ Live(r)),
         UNCHANGED <<pages, refcount, files, byHand, tampered>>
  PROVE  /\ saved' \in [RowIds -> StoreRow] /\ worker' \in [RowIds -> Worker]
         /\ IsFiniteSet(pages') /\ AccountsExact' /\ UnusedIsEmpty'
         /\ WorkerOnOpenRow' /\ CountedIsWhole' /\ FilesKept' /\ CompleteHasAllPages'
<1>1. saved \in [RowIds -> StoreRow] /\ worker \in [RowIds -> Worker]
  BY DEF StoreInv, StoreTypeOK
<1>2. /\ saved' \in [RowIds -> StoreRow] /\ worker' \in [RowIds -> Worker]
      /\ saved'[r] = new /\ worker'[r] = job
      /\ \A q \in RowIds \ {r} : saved'[q] = saved[q] /\ worker'[q] = worker[q]
  BY <1>1
<1>3. /\ \A q \in RowIds : Live(q) => Live(q)'
      /\ \A q \in RowIds : Live(q)' => Live(q) \/ saved[q].state = "unused"
      /\ \A q \in RowIds : PagesOf(q)' = PagesOf(q)
      /\ \A h \in Hashes : Naming(h)' = Naming(h)
  BY <1>2 DEF Live, PagesOf, Naming
<1>4. AccountsExact'
  <2>1. \A q \in RowIds : Live(q)' => saved'[q].bytes = Cardinality(PagesOf(q)')
    <3> SUFFICES ASSUME NEW q \in RowIds, Live(q)'
                 PROVE  saved'[q].bytes = Cardinality(PagesOf(q)')
      OBVIOUS
    <3>1. saved'[q].bytes = saved[q].bytes
      BY <1>2
    <3>2. CASE Live(q)
      BY <1>3, <3>1, <3>2 DEF StoreInv, AccountsExact
    <3>3. CASE saved[q].state = "unused"
      <4>1. saved[q].bytes = 0 /\ PagesOf(q) = {}
        BY <3>3, ChapterPages DEF StoreInv, UnusedIsEmpty, Live
      <4> QED  BY <1>3, <3>1, <4>1, FS_EmptySet
    <3> QED  BY <1>3, <3>2, <3>3
  <2>2. \A p \in pages' : Live(p.row)'
    BY <1>3 DEF StoreInv, AccountsExact, StoreTypeOK, Page
  <2>3. \A h \in Hashes : refcount'[h] = Cardinality(Naming(h)')
    BY <1>3 DEF StoreInv, AccountsExact
  <2> QED  BY <2>1, <2>2, <2>3 DEF AccountsExact
<1>5. UnusedIsEmpty' /\ WorkerOnOpenRow'
  BY <1>2 DEF StoreInv, UnusedIsEmpty, WorkerOnOpenRow
<1>6. CountedIsWhole'
  <2> SUFFICES ASSUME ~tampered, NEW q \in RowIds, worker'[q].phase = "counted", Live(q)'
               PROVE  {p.page : p \in PagesOf(q)'} = 1..saved'[q].pageCount
    BY DEF CountedIsWhole
  <2>1. worker[q].phase = "counted" /\ saved'[q].pageCount = saved[q].pageCount
    BY <1>2
  <2>2. Live(q)
    BY <1>3, <2>1 DEF StoreInv, WorkerOnOpenRow
  <2> QED  BY <1>3, <2>1, <2>2 DEF StoreInv, CountedIsWhole
<1>7. CompleteHasAllPages'
  <2> SUFFICES ASSUME ~tampered, NEW q \in RowIds, saved'[q].state = "complete"
               PROVE  {p.page : p \in PagesOf(q)'} = 1..saved'[q].pageCount
    BY DEF CompleteHasAllPages
  <2>1. /\ saved'[q].pageCount = saved[q].pageCount
        /\ saved[q].state = "complete" \/ (worker[q].phase = "counted" /\ Live(q))
    BY <1>2
  <2> QED  BY <1>3, <2>1 DEF StoreInv, CountedIsWhole, CompleteHasAllPages
<1>8. IsFiniteSet(pages') /\ FilesKept'
  BY DEF StoreInv, FilesKept
<1> QED  BY <1>2, <1>4, <1>5, <1>6, <1>7, <1>8

\* The types of a row or worker that one statement has changed.
LEMMA Changed ==
  ASSUME StoreTypeOK, NEW r \in RowIds
  PROVE  /\ saved[r] \in StoreRow /\ worker[r] \in Worker
         /\ \A state \in RowStates : [saved[r] EXCEPT !.state = state] \in StoreRow
         /\ \A state \in RowStates, n \in 0..LastPageNumber :
              [saved[r] EXCEPT !.pageCount = n, !.state = state] \in StoreRow
         /\ \A phase \in {"idle", "fetching", "counted"}, todo \in SUBSET PageNumbers :
              [phase |-> phase, todo |-> todo] \in Worker
         /\ saved = [saved EXCEPT ![r] = saved[r]] /\ worker = [worker EXCEPT ![r] = worker[r]]
<1>1. saved[r] \in StoreRow /\ worker[r] \in Worker
  BY DEF StoreTypeOK
<1>2. /\ \A state \in RowStates : [saved[r] EXCEPT !.state = state] \in StoreRow
      /\ \A state \in RowStates, n \in 0..LastPageNumber :
           [saved[r] EXCEPT !.pageCount = n, !.state = state] \in StoreRow
  BY <1>1 DEF StoreRow
<1>3. \A phase \in {"idle", "fetching", "counted"}, todo \in SUBSET PageNumbers :
        [phase |-> phase, todo |-> todo] \in Worker
  BY DEF Worker
<1> QED  BY <1>1, <1>2, <1>3 DEF StoreTypeOK

\* The statements outside the worker that touch no page.
LEMMA StatesStep ==
  ASSUME StoreInv, NEW r \in RowIds,
         \/ Request(r) \/ RetryFailed(r) \/ Requeue(r) \/ SweepSettle(r)
  PROVE  StoreInv'
<1>1. /\ saved[r] \in StoreRow /\ worker[r] \in Worker
      /\ \A state \in RowStates : [saved[r] EXCEPT !.state = state] \in StoreRow
      /\ saved = [saved EXCEPT ![r] = saved[r]] /\ worker = [worker EXCEPT ![r] = worker[r]]
  BY Changed DEF StoreInv
<1>2. /\ UNCHANGED <<pages, refcount, files, worker, toUnlink, byHand, tampered, mishaps>>
      /\ worker' = [worker EXCEPT ![r] = worker[r]]
  BY <1>1 DEF Request, RetryFailed, Requeue, SweepSettle
<1>3. asking' \subseteq RowIds
  BY DEF Request, RetryFailed, Requeue, SweepSettle, StoreInv, StoreTypeOK
<1>4. sweep' \in [phase : {"idle", "settling"}, rows : SUBSET RowIds,
                  settle : SUBSET RowIds, doomed : SUBSET RowIds]
  <2>1. CASE SweepSettle(r)
    <3>1. PICK doomed \in SUBSET RowIds :
            sweep' = [sweep EXCEPT !.settle = @ \ {r}, !.doomed = doomed]
      BY <2>1 DEF SweepSettle, StoreInv, StoreTypeOK
    <3> QED  BY <3>1 DEF StoreInv, StoreTypeOK
  <2>2. CASE UNCHANGED sweep
    BY <2>2 DEF StoreInv, StoreTypeOK
  <2> QED  BY <2>1, <2>2 DEF Request, RetryFailed, Requeue
<1>5. PICK new \in StoreRow :
        /\ saved' = [saved EXCEPT ![r] = new]
        /\ new.bytes = saved[r].bytes /\ new.pageCount = saved[r].pageCount
        /\ new.state # saved[r].state =>
             new.state \in {"queued", "failed"} /\ saved[r].state # "gone"
  <2>1. CASE saved' = saved
    BY <1>1, <2>1
  <2>2. CASE saved' # saved
    <3>1. PICK state \in {"queued", "failed"} :
            saved[r].state # "gone" /\ saved' = [saved EXCEPT ![r].state = state]
      BY <2>2 DEF Request, RetryFailed, Requeue, SweepSettle, Live
    <3>2. saved' = [saved EXCEPT ![r] = [saved[r] EXCEPT !.state = state]]
      BY <3>1
    <3>3. [saved[r] EXCEPT !.state = state] \in StoreRow
      BY <1>1 DEF RowStates
    <3> QED  BY <1>1, <3>1, <3>2, <3>3 DEF StoreRow
  <2> QED  BY <2>1, <2>2
<1>6. worker[r].phase # "idle" => saved[r].state \notin {"unused", "complete"}
  BY DEF StoreInv, WorkerOnOpenRow
<1>7. /\ saved' \in [RowIds -> StoreRow] /\ worker' \in [RowIds -> Worker]
      /\ IsFiniteSet(pages') /\ AccountsExact' /\ UnusedIsEmpty'
      /\ WorkerOnOpenRow' /\ CountedIsWhole' /\ FilesKept' /\ CompleteHasAllPages'
  <2>1. /\ Live(r) => new.state \notin {"unused", "gone"}
        /\ saved[r].state # "unused" => new.state # "unused"
        /\ saved[r].state = "gone" => new.state = "gone"
        /\ worker[r].phase # "idle" => new.state \notin {"unused", "complete"}
        /\ new.state = "complete" => saved[r].state = "complete"
    BY <1>5, <1>6 DEF Live
  <2> QED  BY <1>1, <1>2, <1>5, <2>1, RowChanges
<1> QED  BY <1>2, <1>3, <1>4, <1>7 DEF StoreInv, StoreTypeOK

\* The worker's statements that touch no page.
LEMMA WorkerStep ==
  ASSUME StoreInv, NEW r \in RowIds,
         \/ StopWork(r) \/ FailWork(r) \/ MarkComplete(r)
         \/ \E n \in PageNumbers : Manifest(r, n)
  PROVE  StoreInv'
<1>1. /\ saved[r] \in StoreRow /\ worker[r] \in Worker
      /\ \A state \in RowStates : [saved[r] EXCEPT !.state = state] \in StoreRow
      /\ \A state \in RowStates, n \in 0..LastPageNumber :
           [saved[r] EXCEPT !.pageCount = n, !.state = state] \in StoreRow
      /\ \A phase \in {"idle", "fetching", "counted"}, todo \in SUBSET PageNumbers :
           [phase |-> phase, todo |-> todo] \in Worker
      /\ saved = [saved EXCEPT ![r] = saved[r]]
  BY Changed DEF StoreInv
<1>2. UNCHANGED <<pages, refcount, files, asking, toUnlink, sweep, byHand, tampered,
                  mishaps>>
  BY DEF StopWork, FailWork, MarkComplete, Manifest
<1>3. worker[r].phase # "idle" => saved[r].state \notin {"unused", "complete"}
  BY DEF StoreInv, WorkerOnOpenRow
<1> DEFINE idle == [phase |-> "idle", todo |-> {}]
<1>4. idle \in Worker /\ idle.phase = "idle"
  BY <1>1
<1>5. ASSUME worker' = [worker EXCEPT ![r] = idle],
             NEW new \in StoreRow, saved' = [saved EXCEPT ![r] = new],
             new.bytes = saved[r].bytes, new.pageCount = saved[r].pageCount,
             \/ new.state = saved[r].state
             \/ Live(r) /\ new.state = "failed"
             \/ Live(r) /\ new.state = "complete" /\ worker[r].phase = "counted"
      PROVE  StoreInv'
  <2>1. /\ Live(r) => new.state \notin {"unused", "gone"}
        /\ saved[r].state # "unused" => new.state # "unused"
        /\ saved[r].state = "gone" => new.state = "gone"
        /\ new.state = "complete" =>
             saved[r].state = "complete" \/ (worker[r].phase = "counted" /\ Live(r))
    BY <1>5 DEF Live
  <2>2. /\ saved' \in [RowIds -> StoreRow] /\ worker' \in [RowIds -> Worker]
        /\ IsFiniteSet(pages') /\ AccountsExact' /\ UnusedIsEmpty'
        /\ WorkerOnOpenRow' /\ CountedIsWhole' /\ FilesKept' /\ CompleteHasAllPages'
    BY <1>2, <1>4, <1>5, <2>1, RowChanges
  <2> QED  BY <1>2, <2>2 DEF StoreInv, StoreTypeOK
<1>6. CASE StopWork(r)
  BY <1>1, <1>5, <1>6 DEF StopWork, SetWorker
<1>7. CASE FailWork(r) \/ MarkComplete(r)
  <2>1. worker' = [worker EXCEPT ![r] = idle]
    BY <1>7 DEF FailWork, MarkComplete, SetWorker
  <2>2. CASE saved' = saved
    BY <1>1, <1>5, <2>1, <2>2
  <2>3. CASE saved' # saved
    <3>1. PICK state \in {"failed", "complete"} :
            /\ saved' = [saved EXCEPT ![r].state = state] /\ Live(r)
            /\ state = "complete" => worker[r].phase = "counted"
      BY <1>7, <2>3 DEF FailWork, MarkComplete
    <3> DEFINE new == [saved[r] EXCEPT !.state = state]
    <3>2. saved' = [saved EXCEPT ![r] = new]
      BY <3>1
    <3>3. new \in StoreRow
      BY <1>1 DEF RowStates
    <3>4. /\ new.state = state /\ new.bytes = saved[r].bytes
          /\ new.pageCount = saved[r].pageCount
      BY <1>1 DEF StoreRow
    <3> HIDE DEF new
    <3> QED  BY <1>5, <2>1, <3>1, <3>2, <3>3, <3>4
  <2> QED  BY <2>2, <2>3
<1>8. ASSUME NEW n \in PageNumbers, Manifest(r, n) PROVE StoreInv'
  <2> DEFINE new == [saved[r] EXCEPT !.pageCount = n, !.state = "downloading"]
             todo == (1..n) \ {p.page : p \in PagesOf(r)}
             job == [phase |-> "fetching", todo |-> todo]
  <2>1. /\ saved[r].state \in {"queued", "downloading"}
        /\ saved' = [saved EXCEPT ![r] = new] /\ worker' = [worker EXCEPT ![r] = job]
    <3>1. saved' = [saved EXCEPT ![r].pageCount = n, ![r].state = "downloading"]
      BY <1>8 DEF Manifest
    <3>2. saved' = [saved EXCEPT ![r] = new]
      BY <1>1, <3>1
    <3> QED  BY <1>8, <3>2 DEF Manifest, SetWorker
  <2>2. n \in 0..LastPageNumber /\ todo \in SUBSET PageNumbers
    <3>1. n \in 0..LastPageNumber /\ 1..n \subseteq PageNumbers
      BY StoreAssumption DEF StoreAssumption, PageNumbers
    <3> QED  BY <3>1
  <2>3. new \in StoreRow
    BY <1>1, <2>2 DEF RowStates
  <2>4. new.state = "downloading" /\ new.bytes = saved[r].bytes
    BY <1>1 DEF StoreRow
  <2>5. job \in Worker /\ job.phase = "fetching"
    BY <1>1, <2>2
  <2> HIDE DEF new, job
  <2>6. /\ saved' \in [RowIds -> StoreRow] /\ worker' \in [RowIds -> Worker]
        /\ IsFiniteSet(pages') /\ AccountsExact' /\ UnusedIsEmpty'
        /\ WorkerOnOpenRow' /\ CountedIsWhole' /\ FilesKept' /\ CompleteHasAllPages'
    BY <1>2, <2>1, <2>3, <2>4, <2>5, RowChanges
  <2> QED  BY <1>2, <2>6 DEF StoreInv, StoreTypeOK
<1> QED  BY <1>6, <1>7, <1>8

\* The pages whose file is missing go: none, unless somebody deleted files.
LEMMA VanishedStep ==
  ASSUME StoreInv, NEW r \in RowIds, RequestPrune(r) \/ SweepPrune(r)
  PROVE  StoreInv'
<1>1. Prune(r, Vanished(r)) /\ UNCHANGED <<files, worker, byHand, tampered, mishaps>>
  BY DEF RequestPrune, SweepPrune
<1>2. Vanished(r) \in SUBSET PagesOf(r)
  BY DEF Vanished
<1>3. /\ saved' \in [RowIds -> StoreRow]
      /\ pages' \subseteq Page /\ IsFiniteSet(pages')
      /\ refcount' \in [Hashes -> Int] /\ toUnlink' \subseteq Hashes
      /\ pages' = pages \ Vanished(r)
      /\ \A q \in RowIds : /\ saved'[q].state = saved[q].state
                           /\ saved'[q].pageCount = saved[q].pageCount
                           /\ Live(q)' <=> Live(q)
      /\ AccountsExact' /\ UnusedIsEmpty'
  BY <1>1, <1>2, Pruning
<1>4. asking' \subseteq RowIds
  BY DEF RequestPrune, SweepPrune, StoreInv, StoreTypeOK
<1>5. sweep' \in [phase : {"idle", "settling"}, rows : SUBSET RowIds,
                  settle : SUBSET RowIds, doomed : SUBSET RowIds]
  <2>1. CASE SweepPrune(r)
    <3>1. sweep.settle \cup {r} \in SUBSET RowIds /\ sweep.settle \in SUBSET RowIds
      BY DEF StoreInv, StoreTypeOK
    <3>2. PICK settle \in SUBSET RowIds :
            sweep' = [sweep EXCEPT !.rows = @ \ {r}, !.settle = settle]
      BY <2>1, <3>1 DEF SweepPrune
    <3> QED  BY <3>2 DEF StoreInv, StoreTypeOK
  <2>2. CASE RequestPrune(r)
    BY <2>2 DEF RequestPrune, StoreInv, StoreTypeOK
  <2> QED  BY <2>1, <2>2
<1>6. StoreTypeOK'
  BY <1>1, <1>3, <1>4, <1>5 DEF StoreInv, StoreTypeOK
<1>7. FilesKept' /\ WorkerOnOpenRow'
  BY <1>1, <1>3 DEF StoreInv, FilesKept, WorkerOnOpenRow
<1>8. ~tampered => \A q \in RowIds : PagesOf(q)' = PagesOf(q)
  <2>1. ~tampered => Vanished(r) = {}
    BY DEF Vanished, PagesOf, StoreInv, FilesKept
  <2> QED  BY <1>3, <2>1 DEF PagesOf
<1>9. CountedIsWhole' /\ CompleteHasAllPages'
  BY <1>1, <1>3, <1>8 DEF StoreInv, CountedIsWhole, CompleteHasAllPages
<1> QED  BY <1>3, <1>6, <1>7, <1>9 DEF StoreInv

\* Counting the pages and pruning those beyond the manifest leaves the pages
\* of the manifest.
LEMMA CountStep ==
  ASSUME StoreInv, NEW r \in RowIds, CountPages(r)
  PROVE  StoreInv'
<1> DEFINE beyond == {p \in PagesOf(r) : p.page > saved[r].pageCount}
           job == [phase |-> "counted", todo |-> {}]
<1>1. /\ Prune(r, beyond) /\ worker' = [worker EXCEPT ![r] = job]
      /\ worker[r].phase = "fetching" /\ AllPagesPresent(r)
      /\ UNCHANGED <<files, asking, sweep, byHand, tampered, mishaps>>
  BY DEF CountPages, SetWorker
<1>2. /\ saved' \in [RowIds -> StoreRow]
      /\ pages' \subseteq Page /\ IsFiniteSet(pages')
      /\ refcount' \in [Hashes -> Int] /\ toUnlink' \subseteq Hashes
      /\ pages' = pages \ beyond
      /\ \A q \in RowIds : /\ saved'[q].state = saved[q].state
                           /\ saved'[q].pageCount = saved[q].pageCount
                           /\ Live(q)' <=> Live(q)
      /\ AccountsExact' /\ UnusedIsEmpty'
  <2>1. beyond \in SUBSET PagesOf(r)
    OBVIOUS
  <2> HIDE DEF beyond
  <2> QED  BY <1>1, <2>1, Pruning
<1>3. job \in Worker /\ job.phase = "counted"
  BY Changed DEF StoreInv
<1>4. /\ worker' \in [RowIds -> Worker] /\ worker'[r].phase = "counted"
      /\ \A q \in RowIds \ {r} : worker'[q] = worker[q]
  BY <1>1, <1>3 DEF StoreInv, StoreTypeOK
<1>5. StoreTypeOK'
  BY <1>1, <1>2, <1>4 DEF StoreInv, StoreTypeOK
<1>6. FilesKept'
  BY <1>1, <1>2 DEF StoreInv, FilesKept
<1>7. WorkerOnOpenRow'
  BY <1>1, <1>2, <1>4 DEF StoreInv, WorkerOnOpenRow
<1>8. /\ \A q \in RowIds \ {r} : PagesOf(q)' = PagesOf(q)
      /\ {p.page : p \in PagesOf(r)'} = 1..saved[r].pageCount
  <2>1. PagesOf(r)' = {p \in PagesOf(r) : ~(p.page > saved[r].pageCount)}
    BY <1>2 DEF PagesOf
  <2>2. saved[r].pageCount \in Nat /\ \A p \in PagesOf(r) : p.page \in Nat \ {0}
    BY StoreAssumption
    DEF StoreAssumption, PagesOf, StoreInv, StoreTypeOK, StoreRow, Page, PageNumbers
  <2>3. {p.page : p \in PagesOf(r)'} \subseteq 1..saved[r].pageCount
    BY <2>1, <2>2
  <2>4. 1..saved[r].pageCount \subseteq {p.page : p \in PagesOf(r)'}
    BY <1>1, <2>1, <2>2 DEF AllPagesPresent
  <2>5. \A q \in RowIds \ {r} : PagesOf(q)' = PagesOf(q)
    BY <1>2 DEF PagesOf
  <2> QED  BY <2>3, <2>4, <2>5
<1>9. CountedIsWhole'
  BY <1>1, <1>2, <1>4, <1>8 DEF StoreInv, CountedIsWhole
<1>10. CompleteHasAllPages'
  BY <1>1, <1>2, <1>8 DEF StoreInv, WorkerOnOpenRow, CompleteHasAllPages
<1> QED  BY <1>2, <1>5, <1>6, <1>7, <1>9, <1>10 DEF StoreInv

\* savePage: the page, its reference, its file and its bytes come together.
LEMMA SaveStep ==
  ASSUME StoreInv, NEW r \in RowIds, NEW n \in PageNumbers, NEW h \in BytesOf[n],
         SavePage(r, n, h)
  PROVE  StoreInv'
<1> DEFINE job == [phase |-> "fetching", todo |-> worker[r].todo \ {n}]
           new == [row |-> r, page |-> n, hash |-> h]
<1>1. /\ worker[r].phase = "fetching" /\ worker' = [worker EXCEPT ![r] = job]
      /\ UNCHANGED <<asking, toUnlink, sweep, tampered, mishaps>>
  BY DEF SavePage, SetWorker
<1>2. h \in Hashes
  BY StoreAssumption DEF StoreAssumption, PageNumbers
<1>3. saved[r] \in StoreRow /\ worker[r] \in Worker
  BY Changed DEF StoreInv
<1>4. /\ worker' \in [RowIds -> Worker] /\ worker'[r].phase = "fetching"
      /\ \A q \in RowIds \ {r} : worker'[q] = worker[q]
  <2>1. job \in Worker
    BY <1>3 DEF Worker
  <2> QED  BY <1>1, <2>1 DEF StoreInv, StoreTypeOK
<1>5. CASE ~Accepts(r, n)
  <2>1. UNCHANGED <<pages, refcount, saved, files, byHand>>
    BY <1>5 DEF SavePage
  <2>2. StoreTypeOK'
    BY <1>1, <1>4, <2>1 DEF StoreInv, StoreTypeOK
  <2>3. AccountsExact' /\ UnusedIsEmpty' /\ CompleteHasAllPages' /\ FilesKept'
    BY <1>1, <2>1
    DEF StoreInv, AccountsExact, UnusedIsEmpty, CompleteHasAllPages, FilesKept,
        Naming, PagesOf, Live
  <2>4. WorkerOnOpenRow' /\ CountedIsWhole'
    BY <1>1, <1>4, <2>1
    DEF StoreInv, WorkerOnOpenRow, CountedIsWhole, PagesOf, Live
  <2> QED  BY <2>1, <2>2, <2>3, <2>4 DEF StoreInv
<1>6. CASE Accepts(r, n)
  <2>1. /\ Live(r) /\ new \notin pages
        /\ pages' = pages \cup {new}
        /\ refcount' = [refcount EXCEPT ![h] = @ + 1]
        /\ saved' = [saved EXCEPT ![r] = [saved[r] EXCEPT !.bytes = saved[r].bytes + 1]]
        /\ files' = files \cup {h} /\ byHand' = byHand \ {h}
    BY <1>3, <1>6 DEF SavePage, Accepts, PagesOf
  <2>2. saved[r].bytes \in Nat /\ saved[r].bytes + 1 \in Nat
    BY <1>3 DEF StoreRow
  <2>3. [saved[r] EXCEPT !.bytes = saved[r].bytes + 1] \in StoreRow
    BY <1>3, <2>2 DEF StoreRow
  <2>4. /\ saved' \in [RowIds -> StoreRow]
        /\ saved'[r].bytes = saved[r].bytes + 1
        /\ \A q \in RowIds : /\ saved'[q].state = saved[q].state
                             /\ saved'[q].pageCount = saved[q].pageCount
                             /\ q # r => saved'[q] = saved[q]
    BY <1>3, <2>1, <2>3 DEF StoreInv, StoreTypeOK, StoreRow
  <2>5. \A q \in RowIds : Live(q)' <=> Live(q)
    BY <2>4 DEF Live
  <2>6. /\ new \in Page /\ new.row = r /\ new.hash = h
    BY <1>2 DEF Page
  <2> HIDE DEF new
  <2>7. /\ IsFiniteSet(pages') /\ pages' \subseteq Page
    BY <2>1, <2>6, FS_AddElement DEF StoreInv, StoreTypeOK
  <2>8. /\ PagesOf(r)' = PagesOf(r) \cup {new} /\ new \notin PagesOf(r)
        /\ \A q \in RowIds \ {r} : PagesOf(q)' = PagesOf(q)
    BY <2>1, <2>6 DEF PagesOf
  <2>9. /\ Naming(h)' = Naming(h) \cup {new} /\ new \notin Naming(h)
        /\ \A k \in Hashes \ {h} : Naming(k)' = Naming(k)
    BY <2>1, <2>6 DEF Naming
  <2>10. /\ IsFiniteSet(PagesOf(r)) /\ Cardinality(PagesOf(r)') = Cardinality(PagesOf(r)) + 1
         /\ IsFiniteSet(Naming(h)) /\ Cardinality(Naming(h)') = Cardinality(Naming(h)) + 1
    <3>1. IsFiniteSet(Naming(h))
      <4>1. Naming(h) \in SUBSET pages
        BY DEF Naming
      <4> QED  BY <4>1, FS_Subset DEF StoreInv
    <3>2. IsFiniteSet(PagesOf(r))
      BY ChapterPages
    <3> QED  BY <2>8, <2>9, <3>1, <3>2, FS_AddElement
  <2>11. AccountsExact'
    <3>1. \A k \in Hashes : refcount'[k] = Cardinality(Naming(k)')
      BY <1>2, <2>1, <2>9, <2>10 DEF StoreInv, AccountsExact, StoreTypeOK
    <3>2. \A q \in RowIds : Live(q)' => saved'[q].bytes = Cardinality(PagesOf(q)')
      BY <2>4, <2>5, <2>8, <2>10 DEF StoreInv, AccountsExact
    <3>3. \A p \in pages' : Live(p.row)'
      BY <2>1, <2>5, <2>6 DEF StoreInv, AccountsExact, StoreTypeOK, Page
    <3> QED  BY <3>1, <3>2, <3>3 DEF AccountsExact
  <2>12. StoreTypeOK'
    <3>1. refcount' \in [Hashes -> Int]
      BY <1>2, <2>1 DEF StoreInv, StoreTypeOK
    <3> QED  BY <1>1, <1>2, <1>4, <2>1, <2>4, <2>7, <3>1 DEF StoreInv, StoreTypeOK
  <2>13. UnusedIsEmpty' /\ WorkerOnOpenRow'
    BY <1>1, <1>4, <2>1, <2>4 DEF StoreInv, UnusedIsEmpty, WorkerOnOpenRow, Live
  <2>14. CountedIsWhole' /\ CompleteHasAllPages'
    <3>1. saved[r].state # "complete" /\ worker'[r].phase # "counted"
      BY <1>1, <1>4 DEF StoreInv, WorkerOnOpenRow
    <3> QED
      BY <1>1, <1>4, <2>4, <2>5, <2>8, <3>1
      DEF StoreInv, CountedIsWhole, CompleteHasAllPages
  <2>15. FilesKept'
    BY <1>1, <2>1, <2>6 DEF StoreInv, FilesKept
  <2> QED  BY <2>7, <2>11, <2>12, <2>13, <2>14, <2>15 DEF StoreInv
<1> QED  BY <1>5, <1>6

\* A blob that nothing names loses its file, and only such a blob.
LEMMA ReclaimStep ==
  ASSUME StoreInv, NEW h \in Hashes, Reclaim(h)
  PROVE  /\ StoreInv'
         /\ \A p \in pages : p.hash \in files' <=> p.hash \in files
<1>1. /\ UNCHANGED <<saved, pages, refcount, worker, asking, sweep, byHand, tampered,
                     mishaps>>
      /\ toUnlink' = toUnlink \ {h}
      /\ files' = IF Reclaimable(h) THEN files \ {h} ELSE files
  BY DEF Reclaim
<1>2. Reclaimable(h) => \A p \in pages : p.hash # h
  <2>1. Naming(h) \in SUBSET pages
    BY DEF Naming
  <2>2. IsFiniteSet(Naming(h))
    BY <2>1, FS_Subset DEF StoreInv
  <2>3. Reclaimable(h) => Naming(h) = {}
    BY <2>2, FS_EmptySet DEF Reclaimable, StoreInv, AccountsExact
  <2> QED  BY <2>3 DEF Naming
<1>3. \A p \in pages : p.hash \in files' <=> p.hash \in files
  BY <1>1, <1>2
<1>4. StoreTypeOK'
  BY <1>1 DEF StoreInv, StoreTypeOK
<1>5. AccountsExact' /\ UnusedIsEmpty' /\ WorkerOnOpenRow' /\ CompleteHasAllPages'
  BY <1>1
  DEF StoreInv, AccountsExact, UnusedIsEmpty, WorkerOnOpenRow, CompleteHasAllPages,
      Naming, PagesOf, Live
<1>6. CountedIsWhole' /\ FilesKept'
  BY <1>1, <1>3 DEF StoreInv, CountedIsWhole, FilesKept, PagesOf, Live
<1> QED  BY <1>1, <1>3, <1>4, <1>5, <1>6 DEF StoreInv

\* The sweep's listing and its end, files that come and go outside the app, and
\* a kill.
LEMMA OutsideStep ==
  ASSUME StoreInv,
         \/ SweepStart \/ SweepEnd \/ Kill
         \/ \E h \in Hashes : RemoveByHand(h)
  PROVE  StoreInv'
<1>1. UNCHANGED <<saved, pages, refcount>>
  BY DEF SweepStart, SweepEnd, Kill, RemoveByHand
<1>2. AccountsExact' /\ UnusedIsEmpty'
  BY <1>1 DEF StoreInv, AccountsExact, UnusedIsEmpty, Naming, PagesOf, Live
<1>3. NoSweep \in [phase : {"idle", "settling"}, rows : SUBSET RowIds,
                   settle : SUBSET RowIds, doomed : SUBSET RowIds]
  BY DEF NoSweep
<1>4. CASE SweepStart \/ SweepEnd
  <2>1. UNCHANGED <<files, worker, asking, byHand, tampered, mishaps>>
    BY <1>4 DEF SweepStart, SweepEnd
  <2>2. toUnlink' \subseteq Hashes
    BY <1>4 DEF SweepStart, SweepEnd, Orphans, StoreInv, StoreTypeOK
  <2>3. sweep' \in [phase : {"idle", "settling"}, rows : SUBSET RowIds,
                    settle : SUBSET RowIds, doomed : SUBSET RowIds]
    <3>1. RowsWithVanished \in SUBSET RowIds
      BY DEF RowsWithVanished
    <3> QED  BY <1>3, <1>4, <3>1 DEF SweepStart, SweepEnd, NoSweep
  <2>4. StoreTypeOK'
    BY <1>1, <2>1, <2>2, <2>3 DEF StoreInv, StoreTypeOK
  <2>5. WorkerOnOpenRow' /\ CountedIsWhole' /\ FilesKept' /\ CompleteHasAllPages'
    BY <1>1, <2>1
    DEF StoreInv, WorkerOnOpenRow, CountedIsWhole, FilesKept, CompleteHasAllPages,
        PagesOf, Live
  <2> QED  BY <1>1, <1>2, <2>4, <2>5 DEF StoreInv
<1>5. CASE Kill
  <2>1. /\ mishaps > 0 /\ mishaps' = mishaps - 1
        /\ worker' = [r \in RowIds |-> [phase |-> "idle", todo |-> {}]]
        /\ asking' = {} /\ toUnlink' = {} /\ sweep' = NoSweep /\ UNCHANGED tampered
    BY <1>5 DEF Kill
  <2>2. \/ UNCHANGED <<files, byHand>>
        \/ \E h \in Hashes : files' = files \cup {h} /\ byHand' = byHand \ {h}
    BY <1>5, StoreAssumption DEF Kill, StoreAssumption, PageNumbers
  <2>3. worker' \in [RowIds -> Worker] /\ \A r \in RowIds : worker'[r].phase = "idle"
    BY <2>1 DEF Worker
  <2>4. mishaps' \in 0..MaxMishaps
    BY <2>1, StoreAssumption DEF StoreAssumption, StoreInv, StoreTypeOK
  <2>5. files' \subseteq Hashes /\ byHand' \subseteq Hashes
    BY <2>2 DEF StoreInv, StoreTypeOK
  <2>6. StoreTypeOK'
    BY <1>1, <1>3, <2>1, <2>3, <2>4, <2>5 DEF StoreInv, StoreTypeOK
  <2>7. FilesKept'
    BY <1>1, <2>1, <2>2 DEF StoreInv, FilesKept
  <2>8. WorkerOnOpenRow' /\ CountedIsWhole' /\ CompleteHasAllPages'
    BY <1>1, <2>1, <2>3
    DEF StoreInv, WorkerOnOpenRow, CountedIsWhole, CompleteHasAllPages, PagesOf, Live
  <2> QED  BY <1>1, <1>2, <2>6, <2>7, <2>8 DEF StoreInv
<1>6. ASSUME NEW h \in Hashes, RemoveByHand(h) PROVE StoreInv'
  <2>1. /\ mishaps > 0 /\ mishaps' = mishaps - 1 /\ tampered' = TRUE
        /\ files' = files \ {h} /\ byHand' = byHand \cup {h}
        /\ UNCHANGED <<worker, asking, toUnlink, sweep>>
    BY <1>6 DEF RemoveByHand
  <2>2. mishaps' \in 0..MaxMishaps
    BY <2>1, StoreAssumption DEF StoreAssumption, StoreInv, StoreTypeOK
  <2>3. StoreTypeOK'
    BY <1>1, <2>1, <2>2 DEF StoreInv, StoreTypeOK
  <2>4. FilesKept' /\ CountedIsWhole' /\ CompleteHasAllPages' /\ WorkerOnOpenRow'
    BY <1>1, <2>1
    DEF StoreInv, FilesKept, CountedIsWhole, CompleteHasAllPages, WorkerOnOpenRow
  <2> QED  BY <1>1, <1>2, <2>3, <2>4 DEF StoreInv
<1> QED  BY <1>4, <1>5, <1>6

\* A chapter is deleted, or was already.
LEMMA DeleteStep ==
  ASSUME StoreInv, NEW r \in RowIds, RemoveDownload(r) \/ SweepDelete(r)
  PROVE  StoreInv'
<1>1. UNCHANGED <<files, worker, asking, byHand, tampered, mishaps>>
  BY DEF RemoveDownload, SweepDelete
<1>2. sweep' \in [phase : {"idle", "settling"}, rows : SUBSET RowIds,
                  settle : SUBSET RowIds, doomed : SUBSET RowIds]
  BY DEF RemoveDownload, SweepDelete, StoreInv, StoreTypeOK
<1>3. CASE Live(r) /\ DeleteRow(r)
  <2>1. /\ saved' \in [RowIds -> StoreRow]
        /\ pages' \subseteq Page /\ IsFiniteSet(pages')
        /\ refcount' \in [Hashes -> Int] /\ toUnlink' \subseteq Hashes
        /\ AccountsExact' /\ UnusedIsEmpty' /\ WorkerOnOpenRow'
        /\ CountedIsWhole' /\ FilesKept' /\ CompleteHasAllPages'
    BY <1>1, <1>3, Deleting
  <2> QED  BY <1>1, <1>2, <2>1 DEF StoreInv, StoreTypeOK
<1>4. CASE UNCHANGED <<saved, pages, refcount, toUnlink>>
  <2>1. StoreTypeOK' /\ AccountsExact' /\ UnusedIsEmpty'
    BY <1>1, <1>2, <1>4
    DEF StoreInv, StoreTypeOK, AccountsExact, UnusedIsEmpty, Naming, PagesOf, Live
  <2>2. WorkerOnOpenRow' /\ CountedIsWhole' /\ FilesKept' /\ CompleteHasAllPages'
    BY <1>1, <1>4
    DEF StoreInv, WorkerOnOpenRow, CountedIsWhole, FilesKept, CompleteHasAllPages,
        PagesOf, Live
  <2> QED  BY <1>4, <2>1, <2>2 DEF StoreInv
<1> QED  BY <1>3, <1>4 DEF RemoveDownload, SweepDelete

LEMMA StoreStep == StoreInv /\ [StoreNext]_storeVars => StoreInv'
<1> SUFFICES ASSUME StoreInv, [StoreNext]_storeVars PROVE StoreInv'
  OBVIOUS
<1>1. ASSUME NEW r \in RowIds, RowStep(r) PROVE StoreInv'
  <2>1. CASE Request(r) \/ RetryFailed(r) \/ Requeue(r) \/ SweepSettle(r)
    BY <2>1, StatesStep
  <2>2. CASE \/ StopWork(r) \/ FailWork(r) \/ MarkComplete(r)
             \/ \E n \in PageNumbers : Manifest(r, n)
    BY <2>2, WorkerStep
  <2>3. CASE RequestPrune(r) \/ SweepPrune(r)
    BY <2>3, VanishedStep
  <2>4. CASE CountPages(r)
    BY <2>4, CountStep
  <2>5. CASE \E n \in PageNumbers, h \in UNION {BytesOf[m] : m \in PageNumbers} :
               h \in BytesOf[n] /\ SavePage(r, n, h)
    BY <2>5, SaveStep
  <2>6. CASE RemoveDownload(r) \/ SweepDelete(r)
    BY <2>6, DeleteStep
  <2> QED  BY <1>1, <2>1, <2>2, <2>3, <2>4, <2>5, <2>6 DEF RowStep
<1>2. ASSUME NEW h \in Hashes, Reclaim(h) PROVE StoreInv'
  BY <1>2, ReclaimStep
<1>3. CASE \/ SweepStart \/ SweepEnd \/ Kill \/ \E h \in Hashes : RemoveByHand(h)
  BY <1>3, OutsideStep
<1>4. CASE UNCHANGED storeVars
  <2>1. StoreTypeOK' /\ AccountsExact' /\ UnusedIsEmpty'
    BY <1>4
    DEF storeVars, StoreInv, StoreTypeOK, AccountsExact, UnusedIsEmpty, Naming, PagesOf,
        Live
  <2>2. /\ WorkerOnOpenRow' /\ CountedIsWhole' /\ FilesKept' /\ CompleteHasAllPages'
        /\ IsFiniteSet(pages')
    BY <1>4
    DEF storeVars, StoreInv, WorkerOnOpenRow, CountedIsWhole, FilesKept,
        CompleteHasAllPages, PagesOf, Live
  <2> QED  BY <2>1, <2>2 DEF StoreInv
<1> QED  BY <1>1, <1>2, <1>3, <1>4 DEF StoreNext

-----------------------------------------------------------------------------
(* What every run of the store keeps.                                      *)

\* The inductive invariant, with the types, in every reachable state.
THEOREM StoreHolds == StoreSpec => []StoreInv
BY StoreStarts, StoreStep, PTL DEF StoreSpec

\* A blob's count is the number of page rows that name it, and a chapter's
\* byte total that of its pages, whatever pruning, deleting and downloading
\* interleave and whenever the app is killed.
THEOREM CountsAreExact == StoreSpec => []AccountsExact
<1>1. StoreInv => AccountsExact
  BY DEF StoreInv
<1> QED  BY <1>1, StoreHolds, PTL

\* A chapter marked complete has a page row for every page of its manifest and no
\* other, though the count, the prune and the update of
\* markCompleteIfAllPagesPresent are three steps, until somebody deletes files
\* outside the app.  Of the files themselves it says nothing.
THEOREM CompleteIsWhole == StoreSpec => []CompleteHasAllPages
<1>1. StoreInv => CompleteHasAllPages
  BY DEF StoreInv
<1> QED  BY <1>1, StoreHolds, PTL

-----------------------------------------------------------------------------
(* The refinement: every step stores, discards or loses private copies, or *)
(* shows the reader nothing.                                               *)

OnDisk == {p \in pages : p.hash \in files}

\* Pages that go with or from one chapter are a Discard.
LEMMA DiscardShows ==
  ASSUME NEW r \in RowIds, NEW freed \in SUBSET PagesOf(r),
         pages' = pages \ freed, UNCHANGED <<files, byHand>>
  PROVE  Copies!Discard(r)
<1>1. OnDisk' = OnDisk \ {p \in freed : p.hash \in files}
  BY DEF OnDisk
<1>2. {p \in freed : p.hash \in files} \in SUBSET {p \in OnDisk : p.row = r}
  BY DEF OnDisk, PagesOf
<1> QED  BY <1>1, <1>2 DEF Copies!Discard, OnDisk

\* Nothing shows when the same pages have their files.
LEMMA NothingShows ==
  ASSUME \A p \in pages \cup pages' :
             (p \in pages /\ p.hash \in files) <=> (p \in pages' /\ p.hash \in files'),
         UNCHANGED byHand
  PROVE  UNCHANGED Copies!copyVars
<1>1. OnDisk' = OnDisk
  BY DEF OnDisk
<1> QED  BY <1>1 DEF Copies!copyVars, OnDisk

LEMMA StoreShows == StoreInv /\ [StoreNext]_storeVars => [Copies!CopiesNext]_Copies!copyVars
<1> SUFFICES ASSUME StoreInv, [StoreNext]_storeVars
             PROVE  Copies!CopiesNext \/ UNCHANGED Copies!copyVars
  OBVIOUS
<1>1. CASE UNCHANGED <<pages, files, byHand>>
  BY <1>1, NothingShows
<1>2. ASSUME NEW r \in RowIds, RowStep(r)
      PROVE  Copies!CopiesNext \/ UNCHANGED Copies!copyVars
  <2>1. CASE RequestPrune(r) \/ SweepPrune(r)
    <3>1. pages' = pages \ Vanished(r) /\ UNCHANGED <<files, byHand>>
      BY <2>1 DEF RequestPrune, SweepPrune, Prune, ReleasePages
    <3> QED  BY <3>1, NothingShows DEF Vanished
  <2>2. CASE CountPages(r) \/ RemoveDownload(r) \/ SweepDelete(r)
    <3>1. CASE UNCHANGED pages
      <4>1. UNCHANGED <<files, byHand>>
        BY <2>2 DEF CountPages, RemoveDownload, SweepDelete
      <4> QED  BY <1>1, <3>1, <4>1
    <3>2. CASE ~UNCHANGED pages
      <4>1. PICK freed \in SUBSET PagesOf(r) :
              pages' = pages \ freed /\ UNCHANGED <<files, byHand>>
        BY <2>2, <3>2
        DEF CountPages, RemoveDownload, SweepDelete, Prune, DeleteRow, ReleasePages
      <4> QED  BY <4>1, DiscardShows DEF Copies!CopiesNext
    <3> QED  BY <3>1, <3>2
  <2>3. ASSUME NEW n \in PageNumbers, NEW h \in BytesOf[n], SavePage(r, n, h)
        PROVE  Copies!CopiesNext \/ UNCHANGED Copies!copyVars
    <3>1. CASE ~Accepts(r, n)
      BY <1>1, <2>3, <3>1 DEF SavePage
    <3>2. CASE Accepts(r, n)
      <4> DEFINE page == [row |-> r, page |-> n, hash |-> h]
                 back == {p \in pages' : p.hash = h}
      <4>1. /\ pages' = pages \cup {page} /\ files' = files \cup {h}
            /\ byHand' = byHand \ {h}
        BY <2>3, <3>2 DEF SavePage
      <4>2. h \in Hashes
        BY StoreAssumption DEF StoreAssumption, PageNumbers
      <4>3. back \in SUBSET {c \in Copies!Copy : c.hash = h}
        <5>1. page \in Copies!Copy
          BY <4>2 DEF Copies!Copy
        <5>2. pages \subseteq Copies!Copy
          BY DEF StoreInv, StoreTypeOK, Page, Copies!Copy
        <5> QED  BY <4>1, <5>1, <5>2
      <4>4. page.hash = h
        OBVIOUS
      <4> HIDE DEF page
      <4>5. OnDisk' = OnDisk \cup back
        BY <4>1, <4>4 DEF OnDisk
      <4>6. Copies!Store(h)
        BY <4>1, <4>3, <4>5 DEF Copies!Store, OnDisk
      <4> QED  BY <4>2, <4>6 DEF Copies!CopiesNext
    <3> QED  BY <3>1, <3>2
  <2>4. CASE \/ Request(r) \/ RetryFailed(r) \/ Requeue(r) \/ StopWork(r)
             \/ FailWork(r) \/ MarkComplete(r) \/ SweepSettle(r)
             \/ \E n \in PageNumbers : Manifest(r, n)
    BY <1>1, <2>4
    DEF Request, RetryFailed, Requeue, StopWork, FailWork, MarkComplete, SweepSettle,
        Manifest
  <2> QED  BY <1>2, <2>1, <2>2, <2>3, <2>4 DEF RowStep
<1>3. ASSUME NEW h \in Hashes, Reclaim(h)
      PROVE  Copies!CopiesNext \/ UNCHANGED Copies!copyVars
  <2>1. UNCHANGED <<pages, byHand>> /\ \A p \in pages : p.hash \in files' <=> p.hash \in files
    BY <1>3, ReclaimStep DEF Reclaim
  <2> QED  BY <2>1, NothingShows
<1>4. ASSUME NEW h \in Hashes, RemoveByHand(h)
      PROVE  Copies!CopiesNext \/ UNCHANGED Copies!copyVars
  <2>1. /\ UNCHANGED pages /\ files' = files \ {h} /\ byHand' = byHand \cup {h}
    BY <1>4 DEF RemoveByHand
  <2>2. OnDisk' = {p \in OnDisk : p.hash # h}
    BY <2>1 DEF OnDisk
  <2> QED  BY <2>1, <2>2 DEF Copies!CopiesNext, Copies!Lose, OnDisk
<1>5. CASE Kill
  <2>1. CASE UNCHANGED <<files, byHand>>
    BY <1>1, <1>5, <2>1 DEF Kill
  <2>2. CASE ~UNCHANGED <<files, byHand>>
    <3>1. PICK h \in Hashes :
            UNCHANGED pages /\ files' = files \cup {h} /\ byHand' = byHand \ {h}
      BY <1>5, <2>2, StoreAssumption DEF Kill, StoreAssumption, PageNumbers
    <3> DEFINE back == {p \in pages : p.hash = h}
    <3>2. OnDisk' = OnDisk \cup back
      BY <3>1 DEF OnDisk
    <3>3. back \in SUBSET {c \in Copies!Copy : c.hash = h}
      BY DEF StoreInv, StoreTypeOK, Page, Copies!Copy
    <3> QED  BY <3>1, <3>2, <3>3 DEF Copies!CopiesNext, Copies!Store, OnDisk
  <2> QED  BY <2>1, <2>2
<1>6. CASE SweepStart \/ SweepEnd \/ UNCHANGED storeVars
  BY <1>1, <1>6 DEF SweepStart, SweepEnd, storeVars
<1> QED  BY <1>2, <1>3, <1>4, <1>5, <1>6 DEF StoreNext

\* Storing each page once, counted, is to every reader as if each chapter had
\* copies of its own: nothing done to one chapter or profile takes a page from
\* another.
THEOREM SharingRefinesCopies == StoreSpec => SharingIsInvisible
<1>1. StoreInit => Copies!CopiesInit
  BY DEF StoreInit, Copies!CopiesInit
<1> QED
  BY <1>1, StoreHolds, StoreShows, PTL
  DEF StoreSpec, SharingIsInvisible, Copies!CopiesSpec


-----------------------------------------------------------------------------
(* The queue. *)

\* The rows that the loop owns are those of the batch it works on, from the
\* claim to the landing, and it owns none otherwise.
BatchIsClaimed ==
    claimed = IF loop \in {"priming", "running"} THEN seen ELSE {}

\* A deferred cancel is of a row of the batch, and is carried out before the
\* loop turns.
CancelsAreInBatch ==
    /\ cancelled \subseteq seen
    /\ loop \notin {"priming", "running", "landing"} => cancelled = {}

\* A worker runs only while the loop waits for it.
WorkersAreInBatch ==
    \A c \in QueueChapters : outcome[c] = "running" => loop = "running" /\ c \in seen

\* Until its worker ends, a listed chapter waits to be downloaded, unless its
\* row was deleted.
ListedIsPending ==
    \A c \in seen \ gone :
        (loop \in {"measuring", "deciding", "priming"} \/ outcome[c] = "running")
            => entry[c] = "pending"

\* A chapter that waits has a try left, which its worker may use up.
TriesAreLeft ==
    \A c \in QueueChapters : entry[c] = "pending" => tries[c] < MaxChapterTries

QueueInv ==
    /\ QueueTypeOK
    /\ BatchIsClaimed
    /\ CancelsAreInBatch
    /\ WorkersAreInBatch
    /\ ListedIsPending
    /\ TriesAreLeft
    /\ CancelledIsOwed

LEMMA QueueStarts == QueueInit => QueueInv
<1>1. QueueInit => QueueTypeOK
  <2> SUFFICES ASSUME QueueInit PROVE QueueTypeOK
    OBVIOUS
  <2>1. taps \in 0..MaxTaps /\ 0 \in 0..MaxChapterTries
    BY QueueAssumption DEF QueueAssumption, QueueInit
  <2>2. /\ entry \in [QueueChapters -> {"none", "pending", "complete", "failed"}]
        /\ outcome \in [QueueChapters -> Outcomes]
    BY DEF QueueInit, Idle, Outcomes
  <2>3. tries \in [QueueChapters -> 0..MaxChapterTries]
    BY <2>1 DEF QueueInit
  <2>4. /\ userPaused \in BOOLEAN /\ foreground \in BOOLEAN
        /\ full \in BOOLEAN /\ measured \in BOOLEAN
    BY Zenon DEF QueueInit
  <2>5. /\ loop \in {"resting", "top", "measuring", "deciding", "priming",
                    "running", "landing"}
        /\ reason \in Reasons /\ seen = {} /\ gone = {} /\ claimed = {}
        /\ cancelled = {} /\ deleting = {} /\ dropped = {}
    BY DEF QueueInit, Reasons
  <2> QED  BY <2>1, <2>2, <2>3, <2>4, <2>5 DEF QueueTypeOK
<1>2. QueueInit => BatchIsClaimed /\ CancelsAreInBatch /\ WorkersAreInBatch
  BY DEF QueueInit, BatchIsClaimed, CancelsAreInBatch, WorkersAreInBatch, Idle
<1>3. QueueInit => ListedIsPending /\ TriesAreLeft /\ CancelledIsOwed
  BY DEF QueueInit, ListedIsPending, TriesAreLeft, CancelledIsOwed
<1> QED  BY <1>1, <1>2, <1>3 DEF QueueInv

\* Every step keeps the invariant.
LEMMA QueueStep == QueueInv /\ [QueueNext]_queueVars => QueueInv'
<1> SUFFICES ASSUME QueueInv, [QueueNext]_queueVars PROVE QueueInv'
  OBVIOUS
<1> USE QueueAssumption
<1>1. ASSUME NEW c \in QueueChapters, Enqueue(c) PROVE QueueInv'
  <2>1. QueueTypeOK'
    BY <1>1 DEF QueueInv, QueueTypeOK, ListedIsPending, TriesAreLeft,
           WorkersAreInBatch, Reasons, Outcomes, Enqueue, Tap, Kicked
  <2>2. BatchIsClaimed'
    BY <1>1 DEF QueueInv, BatchIsClaimed, Enqueue, Tap, Kicked
  <2>3. CancelsAreInBatch'
    BY <1>1 DEF QueueInv, QueueTypeOK, BatchIsClaimed, CancelsAreInBatch,
           Enqueue, Tap, Kicked
  <2>4. WorkersAreInBatch'
    BY <1>1 DEF QueueInv, QueueTypeOK, BatchIsClaimed, WorkersAreInBatch,
           Enqueue, Tap, Kicked
  <2>5. ListedIsPending' /\ TriesAreLeft'
    BY <1>1 DEF QueueInv, QueueTypeOK, BatchIsClaimed, WorkersAreInBatch,
           ListedIsPending, TriesAreLeft, Enqueue, Tap, Kicked
  <2>6. CancelledIsOwed'
    BY <1>1 DEF QueueInv, QueueTypeOK, BatchIsClaimed, CancelsAreInBatch,
           CancelledIsOwed, Enqueue, Tap, Kicked
  <2> QED  BY <2>1, <2>2, <2>3, <2>4, <2>5, <2>6 DEF QueueInv
<1>2. ASSUME NEW c \in QueueChapters, CancelDefers(c) PROVE QueueInv'
  <2>1. QueueTypeOK'
    BY <1>2 DEF QueueInv, QueueTypeOK, ListedIsPending, TriesAreLeft,
           WorkersAreInBatch, Reasons, Outcomes, CancelDefers, Owned, Tap
  <2>2. BatchIsClaimed'
    BY <1>2 DEF QueueInv, BatchIsClaimed, CancelDefers, Owned, Tap
  <2>3. CancelsAreInBatch'
    BY <1>2 DEF QueueInv, QueueTypeOK, BatchIsClaimed, CancelsAreInBatch,
           CancelDefers, Owned, Tap
  <2>4. WorkersAreInBatch'
    BY <1>2 DEF QueueInv, QueueTypeOK, BatchIsClaimed, WorkersAreInBatch,
           CancelDefers, Owned, Tap
  <2>5. ListedIsPending' /\ TriesAreLeft'
    BY <1>2 DEF QueueInv, QueueTypeOK, BatchIsClaimed, WorkersAreInBatch,
           ListedIsPending, TriesAreLeft, CancelDefers, Owned, Tap
  <2>6. CancelledIsOwed'
    BY <1>2 DEF QueueInv, QueueTypeOK, BatchIsClaimed, CancelsAreInBatch,
           CancelledIsOwed, CancelDefers, Owned, Tap
  <2> QED  BY <2>1, <2>2, <2>3, <2>4, <2>5, <2>6 DEF QueueInv
<1>3. ASSUME NEW c \in QueueChapters, CancelDeletes(c) PROVE QueueInv'
  <2>1. QueueTypeOK'
    BY <1>3 DEF QueueInv, QueueTypeOK, ListedIsPending, TriesAreLeft,
           WorkersAreInBatch, Reasons, Outcomes, CancelDeletes, Owned, Tap
  <2>2. BatchIsClaimed'
    BY <1>3 DEF QueueInv, BatchIsClaimed, CancelDeletes, Owned, Tap
  <2>3. CancelsAreInBatch'
    BY <1>3 DEF QueueInv, QueueTypeOK, BatchIsClaimed, CancelsAreInBatch,
           CancelDeletes, Owned, Tap
  <2>4. WorkersAreInBatch'
    BY <1>3 DEF QueueInv, QueueTypeOK, BatchIsClaimed, WorkersAreInBatch,
           CancelDeletes, Owned, Tap
  <2>5. ListedIsPending' /\ TriesAreLeft'
    BY <1>3 DEF QueueInv, QueueTypeOK, BatchIsClaimed, WorkersAreInBatch,
           ListedIsPending, TriesAreLeft, CancelDeletes, Owned, Tap
  <2>6. CancelledIsOwed'
    BY <1>3 DEF QueueInv, QueueTypeOK, BatchIsClaimed, CancelsAreInBatch,
           CancelledIsOwed, CancelDeletes, Owned, Tap
  <2> QED  BY <2>1, <2>2, <2>3, <2>4, <2>5, <2>6 DEF QueueInv
<1>4. ASSUME NEW c \in QueueChapters, NEW how \in Outcomes \ {"none", "running"},
             WorkerEnds(c, how)
      PROVE  QueueInv'
  <2>1. /\ outcome[c] = "running" /\ loop = "running" /\ c \in seen
        /\ tries[c] \in 0..MaxChapterTries
        /\ c \notin gone => entry[c] = "pending" /\ tries[c] < MaxChapterTries
    BY <1>4 DEF WorkerEnds, QueueInv, QueueTypeOK, WorkersAreInBatch,
           ListedIsPending, TriesAreLeft
  <2>2. /\ outcome' = [outcome EXCEPT ![c] = how]
        /\ UNCHANGED <<loop, seen, gone, claimed, cancelled, deleting, reason,
                       userPaused, foreground, full, measured, dropped, taps>>
    BY <1>4 DEF WorkerEnds
  <2>3. \/ UNCHANGED <<entry, tries>>
        \/ /\ c \notin gone
           /\ UNCHANGED tries /\ entry' = [entry EXCEPT ![c] = "complete"]
        \/ /\ c \notin gone
           /\ tries' = [tries EXCEPT ![c] = tries[c] + 1]
           /\ entry' = [entry EXCEPT ![c] =
                          IF tries[c] + 1 >= MaxChapterTries THEN "failed"
                          ELSE "pending"]
    <3>1. CASE c \in gone
      BY <1>4, <3>1 DEF WorkerEnds
    <3>2. CASE c \notin gone /\ how = "completed"
      BY <1>4, <3>2 DEF WorkerEnds
    <3>3. CASE c \notin gone /\ how = "failed"
      <4>1. tries' = [tries EXCEPT ![c] = tries[c] + 1]
        BY <1>4, <3>3 DEF WorkerEnds
      <4>2. tries'[c] = tries[c] + 1
        BY <4>1 DEF QueueInv, QueueTypeOK
      <4>3. entry' = [entry EXCEPT ![c] =
                        IF tries'[c] >= MaxChapterTries THEN "failed" ELSE entry[c]]
        BY <1>4, <3>3 DEF WorkerEnds, OutOfTries
      <4> QED  BY <2>1, <3>3, <4>1, <4>2, <4>3
    <3>4. CASE c \notin gone /\ how \in {"cancelled", "pausedUser", "pausedStorage"}
      BY <1>4, <3>4 DEF WorkerEnds
    <3> QED  BY <3>1, <3>2, <3>3, <3>4 DEF Outcomes
  <2>4. QueueTypeOK'
    BY <2>1, <2>2, <2>3 DEF QueueInv, QueueTypeOK, Outcomes, Reasons
  <2>5. BatchIsClaimed' /\ CancelsAreInBatch'
    BY <2>2 DEF QueueInv, BatchIsClaimed, CancelsAreInBatch
  <2>6. WorkersAreInBatch'
    BY <2>2 DEF QueueInv, QueueTypeOK, WorkersAreInBatch
  <2>7. ListedIsPending'
    BY <2>1, <2>2, <2>3 DEF QueueInv, QueueTypeOK, ListedIsPending
  <2>8. TriesAreLeft'
    BY <2>1, <2>2, <2>3 DEF QueueInv, QueueTypeOK, TriesAreLeft
  <2>9. CancelledIsOwed'
    BY <2>1, <2>2, <2>3 DEF QueueInv, QueueTypeOK, CancelsAreInBatch,
           WorkersAreInBatch, CancelledIsOwed
  <2> QED  BY <2>4, <2>5, <2>6, <2>7, <2>8, <2>9 DEF QueueInv
<1>5. ASSUME NEW c \in QueueChapters, LandDelete(c) PROVE QueueInv'
  <2>1. QueueTypeOK'
    BY <1>5 DEF QueueInv, QueueTypeOK, ListedIsPending, TriesAreLeft,
           WorkersAreInBatch, Reasons, Outcomes, LandDelete
  <2>2. BatchIsClaimed'
    BY <1>5 DEF QueueInv, BatchIsClaimed, LandDelete
  <2>3. CancelsAreInBatch'
    BY <1>5 DEF QueueInv, QueueTypeOK, BatchIsClaimed, CancelsAreInBatch,
           LandDelete
  <2>4. WorkersAreInBatch'
    BY <1>5 DEF QueueInv, QueueTypeOK, BatchIsClaimed, WorkersAreInBatch,
           LandDelete
  <2>5. ListedIsPending' /\ TriesAreLeft'
    BY <1>5 DEF QueueInv, QueueTypeOK, BatchIsClaimed, WorkersAreInBatch,
           ListedIsPending, TriesAreLeft, LandDelete
  <2>6. CancelledIsOwed'
    BY <1>5 DEF QueueInv, QueueTypeOK, BatchIsClaimed, CancelsAreInBatch,
           CancelledIsOwed, LandDelete
  <2> QED  BY <2>1, <2>2, <2>3, <2>4, <2>5, <2>6 DEF QueueInv
<1>6. CASE Pause
  <2>1. QueueTypeOK'
    BY <1>6 DEF QueueInv, QueueTypeOK, ListedIsPending, TriesAreLeft,
           WorkersAreInBatch, Reasons, Outcomes, Pause, Tap
  <2>2. BatchIsClaimed'
    BY <1>6 DEF QueueInv, BatchIsClaimed, Pause, Tap
  <2>3. CancelsAreInBatch'
    BY <1>6 DEF QueueInv, QueueTypeOK, BatchIsClaimed, CancelsAreInBatch, Pause,
           Tap
  <2>4. WorkersAreInBatch'
    BY <1>6 DEF QueueInv, QueueTypeOK, BatchIsClaimed, WorkersAreInBatch, Pause,
           Tap
  <2>5. ListedIsPending' /\ TriesAreLeft'
    BY <1>6 DEF QueueInv, QueueTypeOK, BatchIsClaimed, WorkersAreInBatch,
           ListedIsPending, TriesAreLeft, Pause, Tap
  <2>6. CancelledIsOwed'
    BY <1>6 DEF QueueInv, QueueTypeOK, BatchIsClaimed, CancelsAreInBatch,
           CancelledIsOwed, Pause, Tap
  <2> QED  BY <2>1, <2>2, <2>3, <2>4, <2>5, <2>6 DEF QueueInv
<1>7. CASE Resume
  <2>1. QueueTypeOK'
    <3>1. /\ userPaused' \in BOOLEAN /\ foreground' \in BOOLEAN
          /\ full' \in BOOLEAN /\ measured' \in BOOLEAN
      BY <1>7, Zenon DEF QueueInv, QueueTypeOK, Resume, Tap, Kicked
    <3>2. reason' \in Reasons
      BY <1>7, Zenon DEF QueueInv, QueueTypeOK, Reasons, Resume, Tap, Kicked
    <3>3. taps' \in 0..MaxTaps
      BY <1>7 DEF QueueInv, QueueTypeOK, Resume, Tap, Kicked
    <3>4. /\ entry' \in [QueueChapters -> {"none", "pending", "complete", "failed"}]
          /\ tries' \in [QueueChapters -> 0..MaxChapterTries]
          /\ outcome' \in [QueueChapters -> Outcomes]
      BY <1>7 DEF QueueInv, QueueTypeOK, Outcomes, Resume, Tap, Kicked
    <3>5. /\ loop' \in {"resting", "top", "measuring", "deciding", "priming",
                        "running", "landing"}
          /\ seen' \subseteq QueueChapters /\ gone' \subseteq seen'
          /\ claimed' \subseteq QueueChapters /\ cancelled' \subseteq QueueChapters
          /\ deleting' \subseteq QueueChapters /\ dropped' \subseteq QueueChapters
      BY <1>7, Zenon DEF QueueInv, QueueTypeOK, Resume, Tap, Kicked
    <3> QED  BY <3>1, <3>2, <3>3, <3>4, <3>5 DEF QueueTypeOK
  <2>2. BatchIsClaimed'
    BY <1>7 DEF QueueInv, BatchIsClaimed, Resume, Tap, Kicked
  <2>3. CancelsAreInBatch'
    BY <1>7 DEF QueueInv, QueueTypeOK, BatchIsClaimed, CancelsAreInBatch,
           Resume, Tap, Kicked
  <2>4. WorkersAreInBatch'
    BY <1>7 DEF QueueInv, QueueTypeOK, BatchIsClaimed, WorkersAreInBatch,
           Resume, Tap, Kicked
  <2>5. ListedIsPending' /\ TriesAreLeft'
    BY <1>7 DEF QueueInv, QueueTypeOK, BatchIsClaimed, WorkersAreInBatch,
           ListedIsPending, TriesAreLeft, Resume, Tap, Kicked
  <2>6. CancelledIsOwed'
    BY <1>7 DEF QueueInv, QueueTypeOK, BatchIsClaimed, CancelsAreInBatch,
           CancelledIsOwed, Resume, Tap, Kicked
  <2> QED  BY <2>1, <2>2, <2>3, <2>4, <2>5, <2>6 DEF QueueInv
<1>8. CASE Background
  <2>1. QueueTypeOK'
    <3>1. /\ userPaused' \in BOOLEAN /\ foreground' \in BOOLEAN
          /\ full' \in BOOLEAN /\ measured' \in BOOLEAN
      BY <1>8, Zenon DEF QueueInv, QueueTypeOK, Background, Tap
    <3>2. reason' \in Reasons
      BY <1>8, Zenon DEF QueueInv, QueueTypeOK, Reasons, Background, Tap
    <3>3. taps' \in 0..MaxTaps
      BY <1>8 DEF QueueInv, QueueTypeOK, Background, Tap
    <3>4. /\ entry' \in [QueueChapters -> {"none", "pending", "complete", "failed"}]
          /\ tries' \in [QueueChapters -> 0..MaxChapterTries]
          /\ outcome' \in [QueueChapters -> Outcomes]
      BY <1>8 DEF QueueInv, QueueTypeOK, Outcomes, Background, Tap
    <3>5. /\ loop' \in {"resting", "top", "measuring", "deciding", "priming",
                        "running", "landing"}
          /\ seen' \subseteq QueueChapters /\ gone' \subseteq seen'
          /\ claimed' \subseteq QueueChapters /\ cancelled' \subseteq QueueChapters
          /\ deleting' \subseteq QueueChapters /\ dropped' \subseteq QueueChapters
      BY <1>8, Zenon DEF QueueInv, QueueTypeOK, Background, Tap
    <3> QED  BY <3>1, <3>2, <3>3, <3>4, <3>5 DEF QueueTypeOK
  <2>2. BatchIsClaimed'
    BY <1>8 DEF QueueInv, BatchIsClaimed, Background, Tap
  <2>3. CancelsAreInBatch'
    BY <1>8 DEF QueueInv, QueueTypeOK, BatchIsClaimed, CancelsAreInBatch,
           Background, Tap
  <2>4. WorkersAreInBatch'
    BY <1>8 DEF QueueInv, QueueTypeOK, BatchIsClaimed, WorkersAreInBatch,
           Background, Tap
  <2>5. ListedIsPending' /\ TriesAreLeft'
    BY <1>8 DEF QueueInv, QueueTypeOK, BatchIsClaimed, WorkersAreInBatch,
           ListedIsPending, TriesAreLeft, Background, Tap
  <2>6. CancelledIsOwed'
    BY <1>8 DEF QueueInv, QueueTypeOK, BatchIsClaimed, CancelsAreInBatch,
           CancelledIsOwed, Background, Tap
  <2> QED  BY <2>1, <2>2, <2>3, <2>4, <2>5, <2>6 DEF QueueInv
<1>9. CASE Foreground
  <2>1. QueueTypeOK'
    BY <1>9 DEF QueueInv, QueueTypeOK, ListedIsPending, TriesAreLeft,
           WorkersAreInBatch, Reasons, Outcomes, Foreground, Kicked
  <2>2. BatchIsClaimed'
    BY <1>9 DEF QueueInv, BatchIsClaimed, Foreground, Kicked
  <2>3. CancelsAreInBatch'
    BY <1>9 DEF QueueInv, QueueTypeOK, BatchIsClaimed, CancelsAreInBatch,
           Foreground, Kicked
  <2>4. WorkersAreInBatch'
    BY <1>9 DEF QueueInv, QueueTypeOK, BatchIsClaimed, WorkersAreInBatch,
           Foreground, Kicked
  <2>5. ListedIsPending' /\ TriesAreLeft'
    BY <1>9 DEF QueueInv, QueueTypeOK, BatchIsClaimed, WorkersAreInBatch,
           ListedIsPending, TriesAreLeft, Foreground, Kicked
  <2>6. CancelledIsOwed'
    BY <1>9 DEF QueueInv, QueueTypeOK, BatchIsClaimed, CancelsAreInBatch,
           CancelledIsOwed, Foreground, Kicked
  <2> QED  BY <2>1, <2>2, <2>3, <2>4, <2>5, <2>6 DEF QueueInv
<1>10. CASE StorageFills
  <2>1. QueueTypeOK'
    BY <1>10 DEF QueueInv, QueueTypeOK, ListedIsPending, TriesAreLeft,
           WorkersAreInBatch, Reasons, Outcomes, StorageFills, Tap
  <2>2. BatchIsClaimed'
    BY <1>10 DEF QueueInv, BatchIsClaimed, StorageFills, Tap
  <2>3. CancelsAreInBatch'
    BY <1>10 DEF QueueInv, QueueTypeOK, BatchIsClaimed, CancelsAreInBatch,
           StorageFills, Tap
  <2>4. WorkersAreInBatch'
    BY <1>10 DEF QueueInv, QueueTypeOK, BatchIsClaimed, WorkersAreInBatch,
           StorageFills, Tap
  <2>5. ListedIsPending' /\ TriesAreLeft'
    BY <1>10 DEF QueueInv, QueueTypeOK, BatchIsClaimed, WorkersAreInBatch,
           ListedIsPending, TriesAreLeft, StorageFills, Tap
  <2>6. CancelledIsOwed'
    BY <1>10 DEF QueueInv, QueueTypeOK, BatchIsClaimed, CancelsAreInBatch,
           CancelledIsOwed, StorageFills, Tap
  <2> QED  BY <2>1, <2>2, <2>3, <2>4, <2>5, <2>6 DEF QueueInv
<1>11. CASE StorageFrees
  <2>1. QueueTypeOK'
    BY <1>11 DEF QueueInv, QueueTypeOK, ListedIsPending, TriesAreLeft,
           WorkersAreInBatch, Reasons, Outcomes, StorageFrees, Kicked
  <2>2. BatchIsClaimed'
    BY <1>11 DEF QueueInv, BatchIsClaimed, StorageFrees, Kicked
  <2>3. CancelsAreInBatch'
    BY <1>11 DEF QueueInv, QueueTypeOK, BatchIsClaimed, CancelsAreInBatch,
           StorageFrees, Kicked
  <2>4. WorkersAreInBatch'
    BY <1>11 DEF QueueInv, QueueTypeOK, BatchIsClaimed, WorkersAreInBatch,
           StorageFrees, Kicked
  <2>5. ListedIsPending' /\ TriesAreLeft'
    BY <1>11 DEF QueueInv, QueueTypeOK, BatchIsClaimed, WorkersAreInBatch,
           ListedIsPending, TriesAreLeft, StorageFrees, Kicked
  <2>6. CancelledIsOwed'
    BY <1>11 DEF QueueInv, QueueTypeOK, BatchIsClaimed, CancelsAreInBatch,
           CancelledIsOwed, StorageFrees, Kicked
  <2> QED  BY <2>1, <2>2, <2>3, <2>4, <2>5, <2>6 DEF QueueInv
<1>12. CASE KillAndLaunch
  <2>1. QueueTypeOK'
    <3>1. /\ userPaused' \in BOOLEAN /\ foreground' \in BOOLEAN
          /\ full' \in BOOLEAN /\ measured' \in BOOLEAN
      BY <1>12, Zenon DEF QueueInv, QueueTypeOK, KillAndLaunch, Tap, Idle
    <3>2. reason' \in Reasons
      BY <1>12, Zenon DEF QueueInv, QueueTypeOK, Reasons, KillAndLaunch, Tap,
             Idle
    <3>3. taps' \in 0..MaxTaps
      BY <1>12 DEF QueueInv, QueueTypeOK, KillAndLaunch, Tap, Idle
    <3>4. /\ entry' \in [QueueChapters -> {"none", "pending", "complete", "failed"}]
          /\ tries' \in [QueueChapters -> 0..MaxChapterTries]
          /\ outcome' \in [QueueChapters -> Outcomes]
      BY <1>12 DEF QueueInv, QueueTypeOK, Outcomes, KillAndLaunch, Tap, Idle
    <3>5. /\ loop' \in {"resting", "top", "measuring", "deciding", "priming",
                        "running", "landing"}
          /\ seen' \subseteq QueueChapters /\ gone' \subseteq seen'
          /\ claimed' \subseteq QueueChapters /\ cancelled' \subseteq QueueChapters
          /\ deleting' \subseteq QueueChapters /\ dropped' \subseteq QueueChapters
      BY <1>12, Zenon DEF QueueInv, QueueTypeOK, KillAndLaunch, Tap, Idle
    <3> QED  BY <3>1, <3>2, <3>3, <3>4, <3>5 DEF QueueTypeOK
  <2>2. BatchIsClaimed'
    BY <1>12 DEF QueueInv, BatchIsClaimed, KillAndLaunch, Tap, Idle
  <2>3. CancelsAreInBatch'
    BY <1>12 DEF QueueInv, QueueTypeOK, BatchIsClaimed, CancelsAreInBatch,
           KillAndLaunch, Tap, Idle
  <2>4. WorkersAreInBatch'
    BY <1>12 DEF QueueInv, QueueTypeOK, BatchIsClaimed, WorkersAreInBatch,
           KillAndLaunch, Tap, Idle
  <2>5. ListedIsPending' /\ TriesAreLeft'
    BY <1>12 DEF QueueInv, QueueTypeOK, BatchIsClaimed, WorkersAreInBatch,
           ListedIsPending, TriesAreLeft, KillAndLaunch, Tap, Idle
  <2>6. CancelledIsOwed'
    BY <1>12 DEF QueueInv, QueueTypeOK, BatchIsClaimed, CancelsAreInBatch,
           CancelledIsOwed, KillAndLaunch, Tap, Idle
  <2> QED  BY <2>1, <2>2, <2>3, <2>4, <2>5, <2>6 DEF QueueInv
<1>13. CASE LoopTop
  <2>1. QueueTypeOK'
    BY <1>13 DEF QueueInv, QueueTypeOK, ListedIsPending, TriesAreLeft,
           WorkersAreInBatch, Reasons, Outcomes, LoopTop, Rest, Idle, Pending
  <2>2. BatchIsClaimed'
    BY <1>13 DEF QueueInv, BatchIsClaimed, LoopTop, Rest, Idle, Pending
  <2>3. CancelsAreInBatch'
    BY <1>13 DEF QueueInv, QueueTypeOK, BatchIsClaimed, CancelsAreInBatch,
           LoopTop, Rest, Idle, Pending
  <2>4. WorkersAreInBatch'
    BY <1>13 DEF QueueInv, QueueTypeOK, BatchIsClaimed, WorkersAreInBatch,
           LoopTop, Rest, Idle, Pending
  <2>5. ListedIsPending' /\ TriesAreLeft'
    BY <1>13 DEF QueueInv, QueueTypeOK, BatchIsClaimed, WorkersAreInBatch,
           ListedIsPending, TriesAreLeft, LoopTop, Rest, Idle, Pending
  <2>6. CancelledIsOwed'
    BY <1>13 DEF QueueInv, QueueTypeOK, BatchIsClaimed, CancelsAreInBatch,
           CancelledIsOwed, LoopTop, Rest, Idle, Pending
  <2> QED  BY <2>1, <2>2, <2>3, <2>4, <2>5, <2>6 DEF QueueInv
<1>14. CASE LoopMeasure
  <2>1. QueueTypeOK'
    BY <1>14 DEF QueueInv, QueueTypeOK, ListedIsPending, TriesAreLeft,
           WorkersAreInBatch, Reasons, Outcomes, LoopMeasure
  <2>2. BatchIsClaimed'
    BY <1>14 DEF QueueInv, BatchIsClaimed, LoopMeasure
  <2>3. CancelsAreInBatch'
    BY <1>14 DEF QueueInv, QueueTypeOK, BatchIsClaimed, CancelsAreInBatch,
           LoopMeasure
  <2>4. WorkersAreInBatch'
    BY <1>14 DEF QueueInv, QueueTypeOK, BatchIsClaimed, WorkersAreInBatch,
           LoopMeasure
  <2>5. ListedIsPending' /\ TriesAreLeft'
    BY <1>14 DEF QueueInv, QueueTypeOK, BatchIsClaimed, WorkersAreInBatch,
           ListedIsPending, TriesAreLeft, LoopMeasure
  <2>6. CancelledIsOwed'
    BY <1>14 DEF QueueInv, QueueTypeOK, BatchIsClaimed, CancelsAreInBatch,
           CancelledIsOwed, LoopMeasure
  <2> QED  BY <2>1, <2>2, <2>3, <2>4, <2>5, <2>6 DEF QueueInv
<1>15. CASE LoopDecide
  <2>1. QueueTypeOK'
    BY <1>15 DEF QueueInv, QueueTypeOK, ListedIsPending, TriesAreLeft,
           WorkersAreInBatch, Reasons, Outcomes, LoopDecide, Rest, Idle
  <2>2. BatchIsClaimed'
    BY <1>15 DEF QueueInv, BatchIsClaimed, LoopDecide, Rest, Idle
  <2>3. CancelsAreInBatch'
    BY <1>15 DEF QueueInv, QueueTypeOK, BatchIsClaimed, CancelsAreInBatch,
           LoopDecide, Rest, Idle
  <2>4. WorkersAreInBatch'
    BY <1>15 DEF QueueInv, QueueTypeOK, BatchIsClaimed, WorkersAreInBatch,
           LoopDecide, Rest, Idle
  <2>5. ListedIsPending' /\ TriesAreLeft'
    BY <1>15 DEF QueueInv, QueueTypeOK, BatchIsClaimed, WorkersAreInBatch,
           ListedIsPending, TriesAreLeft, LoopDecide, Rest, Idle
  <2>6. CancelledIsOwed'
    BY <1>15 DEF QueueInv, QueueTypeOK, BatchIsClaimed, CancelsAreInBatch,
           CancelledIsOwed, LoopDecide, Rest, Idle
  <2> QED  BY <2>1, <2>2, <2>3, <2>4, <2>5, <2>6 DEF QueueInv
<1>16. CASE LoopStart
  <2>1. QueueTypeOK'
    BY <1>16 DEF QueueInv, QueueTypeOK, ListedIsPending, TriesAreLeft,
           WorkersAreInBatch, Reasons, Outcomes, LoopStart
  <2>2. BatchIsClaimed'
    BY <1>16 DEF QueueInv, BatchIsClaimed, LoopStart
  <2>3. CancelsAreInBatch'
    BY <1>16 DEF QueueInv, QueueTypeOK, BatchIsClaimed, CancelsAreInBatch,
           LoopStart
  <2>4. WorkersAreInBatch'
    BY <1>16 DEF QueueInv, QueueTypeOK, BatchIsClaimed, WorkersAreInBatch,
           LoopStart
  <2>5. ListedIsPending' /\ TriesAreLeft'
    BY <1>16 DEF QueueInv, QueueTypeOK, BatchIsClaimed, WorkersAreInBatch,
           ListedIsPending, TriesAreLeft, LoopStart
  <2>6. CancelledIsOwed'
    BY <1>16 DEF QueueInv, QueueTypeOK, BatchIsClaimed, CancelsAreInBatch,
           CancelledIsOwed, LoopStart
  <2> QED  BY <2>1, <2>2, <2>3, <2>4, <2>5, <2>6 DEF QueueInv
<1>17. CASE LoopLands
  <2>1. QueueTypeOK'
    BY <1>17 DEF QueueInv, QueueTypeOK, ListedIsPending, TriesAreLeft,
           WorkersAreInBatch, Reasons, Outcomes, LoopLands
  <2>2. BatchIsClaimed'
    BY <1>17 DEF QueueInv, BatchIsClaimed, LoopLands
  <2>3. CancelsAreInBatch'
    BY <1>17 DEF QueueInv, QueueTypeOK, BatchIsClaimed, CancelsAreInBatch,
           LoopLands
  <2>4. WorkersAreInBatch'
    BY <1>17 DEF QueueInv, QueueTypeOK, BatchIsClaimed, WorkersAreInBatch,
           LoopLands
  <2>5. ListedIsPending' /\ TriesAreLeft'
    BY <1>17 DEF QueueInv, QueueTypeOK, BatchIsClaimed, WorkersAreInBatch,
           ListedIsPending, TriesAreLeft, LoopLands
  <2>6. CancelledIsOwed'
    BY <1>17 DEF QueueInv, QueueTypeOK, BatchIsClaimed, CancelsAreInBatch,
           CancelledIsOwed, LoopLands
  <2> QED  BY <2>1, <2>2, <2>3, <2>4, <2>5, <2>6 DEF QueueInv
<1>18. CASE LoopTurns
  <2>1. QueueTypeOK'
    BY <1>18 DEF QueueInv, QueueTypeOK, ListedIsPending, TriesAreLeft,
           WorkersAreInBatch, Reasons, Outcomes, LoopTurns, Rest, Idle
  <2>2. BatchIsClaimed'
    BY <1>18 DEF QueueInv, BatchIsClaimed, LoopTurns, Rest, Idle
  <2>3. CancelsAreInBatch'
    BY <1>18 DEF QueueInv, QueueTypeOK, BatchIsClaimed, CancelsAreInBatch,
           LoopTurns, Rest, Idle
  <2>4. WorkersAreInBatch'
    BY <1>18 DEF QueueInv, QueueTypeOK, BatchIsClaimed, WorkersAreInBatch,
           LoopTurns, Rest, Idle
  <2>5. ListedIsPending' /\ TriesAreLeft'
    BY <1>18 DEF QueueInv, QueueTypeOK, BatchIsClaimed, WorkersAreInBatch,
           ListedIsPending, TriesAreLeft, LoopTurns, Rest, Idle
  <2>6. CancelledIsOwed'
    BY <1>18 DEF QueueInv, QueueTypeOK, BatchIsClaimed, CancelsAreInBatch,
           CancelledIsOwed, LoopTurns, Rest, Idle
  <2> QED  BY <2>1, <2>2, <2>3, <2>4, <2>5, <2>6 DEF QueueInv
<1>20. ASSUME NEW c \in QueueChapters, DeleteLands(c) PROVE QueueInv'
  <2>1. QueueTypeOK'
    BY <1>20 DEF QueueInv, QueueTypeOK, ListedIsPending, TriesAreLeft,
           WorkersAreInBatch, Reasons, Outcomes, DeleteLands, Unlisted
  <2>2. BatchIsClaimed'
    BY <1>20 DEF QueueInv, BatchIsClaimed, DeleteLands, Unlisted
  <2>3. CancelsAreInBatch'
    BY <1>20 DEF QueueInv, QueueTypeOK, BatchIsClaimed, CancelsAreInBatch,
           DeleteLands, Unlisted
  <2>4. WorkersAreInBatch'
    BY <1>20 DEF QueueInv, QueueTypeOK, BatchIsClaimed, WorkersAreInBatch,
           DeleteLands, Unlisted
  <2>5. ListedIsPending' /\ TriesAreLeft'
    BY <1>20 DEF QueueInv, QueueTypeOK, BatchIsClaimed, WorkersAreInBatch,
           ListedIsPending, TriesAreLeft, DeleteLands, Unlisted
  <2>6. CancelledIsOwed'
    BY <1>20 DEF QueueInv, QueueTypeOK, BatchIsClaimed, CancelsAreInBatch,
           CancelledIsOwed, DeleteLands, Unlisted
  <2> QED  BY <2>1, <2>2, <2>3, <2>4, <2>5, <2>6 DEF QueueInv
<1>19. CASE UNCHANGED queueVars
  BY <1>19 DEF QueueInv, QueueTypeOK, BatchIsClaimed, CancelsAreInBatch,
         WorkersAreInBatch, ListedIsPending, TriesAreLeft, CancelledIsOwed,
         Reasons, Outcomes, queueVars
<1> QED
  BY <1>1, <1>2, <1>3, <1>4, <1>5, <1>6, <1>7, <1>8, <1>9, <1>10, <1>11, <1>12,
         <1>13, <1>14, <1>15, <1>16, <1>17, <1>18, <1>19, <1>20 DEF QueueNext, LoopStep

\* The types, the batch and the cancels, together.
THEOREM QueueHolds == QueueSpec => []QueueInv
  BY QueueStarts, QueueStep, PTL DEF QueueSpec

\* A chapter the user cancelled is gone, or its deletion is under way, or the
\* loop that is running deletes it when its worker lands (cancelChapter and the
\* end of a batch in _processLoop): no kick, pause or early stop forgets it,
\* and no worker of a row that went meanwhile brings it back.
THEOREM CancelIsCarriedOut == QueueSpec => []CancelledIsOwed
<1>1. QueueInv => CancelledIsOwed
  BY DEF QueueInv
<1> QED  BY <1>1, QueueHolds, PTL
=============================================================================

------------------------- MODULE BookmarkSyncProofs -------------------------
(***************************************************************************)
(* Theorems of BookmarkSync: a tombstone is terminal on the phone and on   *)
(* the server, and what the server has not been told waits in the outbox.  *)
(*                                                                         *)
(* Both need to know what the calls under way carry.  The invariant        *)
(* (BookmarksHold) says that a call's ops and rows are of minted           *)
(* bookmarks, that the rows it has read were on the server, and that the   *)
(* server's rows show a chunk once it is answered; a step that keeps it    *)
(* also makes both tables grow, which is what a tombstone needs.           *)
(*                                                                         *)
(* What a batch leaves and what clearing the outbox leaves are recursive   *)
(* functions: their values come from Recursion and KeepingIsThePart of     *)
(* SeqFilterProofs.                                                        *)
(***************************************************************************)
EXTENDS BookmarkSync, SeqFilterProofs, TLAPS


\* apply_op returns a row, never removes one and never brings a tombstone back.
LEMMA AppliedIsRow ==
    ASSUME NEW stored \in BookmarkRow, NEW op \in BookmarkOp
    PROVE  /\ Applied(stored, op) \in BookmarkRow
           /\ Applied(stored, op) # Absent
           /\ stored.deleted => Applied(stored, op).deleted
           /\ op.op = "delete" => Applied(stored, op).deleted
<1>1. op.op \in {"upsert", "delete"} /\ op.at \in Stamps /\ op.at # 0
    BY DEF BookmarkOp, Stamps
<1>2. [deleted |-> op.op = "delete", at |-> op.at] \in BookmarkRow
    BY <1>1 DEF BookmarkRow
<1>3. [deleted |-> op.op = "delete", at |-> op.at] # Absent
    BY <1>1 DEF Absent
<1>4. ~Absent.deleted /\ Absent.at = 0
    BY DEF Absent
<1> QED BY <1>1, <1>2, <1>3, <1>4 DEF Applied, Status, Refusals

\* The batch's recursive function is one: each op is applied to what the ops
\* before it left.
LEMMA EachStep ==
    ASSUME NEW known \in BookmarkRows, NEW ops \in Seq(BookmarkOp)
    PROVE  /\ AfterEach(known, ops) \in [0..Len(ops) -> BookmarkRows]
           /\ AfterEach(known, ops)[0] = known
           /\ \A n \in 1..Len(ops) :
                AfterEach(known, ops)[n] =
                  [AfterEach(known, ops)[n - 1] EXCEPT ![ops[n].id] = Applied(@, ops[n])]
<1> DEFINE N == Len(ops)
           Step == [n \in 1..N |-> [r \in BookmarkRows |->
                      [r EXCEPT ![ops[n].id] = Applied(@, ops[n])]]]
           rows == AfterEach(known, ops)
<1>1. N \in Nat /\ \A n \in 1..N : ops[n] \in BookmarkOp
    OBVIOUS
<1>2. ASSUME NEW n \in 1..N, NEW r \in BookmarkRows
      PROVE  [r EXCEPT ![ops[n].id] = Applied(@, ops[n])] \in BookmarkRows
    <2>1. ops[n] \in BookmarkOp /\ ops[n].id \in BookmarkIds
        BY <1>1 DEF BookmarkOp
    <2>2. r[ops[n].id] \in BookmarkRow
        BY <2>1 DEF BookmarkRows
    <2>3. Applied(r[ops[n].id], ops[n]) \in BookmarkRow
        BY <2>1, <2>2, AppliedIsRow
    <2> QED BY <2>1, <2>3 DEF BookmarkRows
<1>3. Step \in [1..N -> [BookmarkRows -> BookmarkRows]]
    BY <1>2
<1>4. PICK h \in [0..N -> BookmarkRows] :
          h[0] = known /\ \A n \in 1..N : h[n] = Step[n][h[n - 1]]
    <2>1. N \in Nat /\ Step \in Steps(N, BookmarkRows)
        BY <1>1, <1>3 DEF Steps
    <2> HIDE DEF N, Step
    <2>2. Courses(N, BookmarkRows, known, Step) # {}
        BY <2>1, Recursion
    <2> QED BY <2>2 DEF Courses
<1>5. ASSUME NEW n \in 1..N
      PROVE  h[n] = [h[n - 1] EXCEPT ![ops[n].id] = Applied(@, ops[n])]
    <2>1. n - 1 \in 0..N
        BY <1>1
    <2>2. h[n - 1] \in BookmarkRows
        BY <2>1
    <2> QED BY <1>4, <2>2
<1>6. h = [n \in 0..N |-> IF n = 0 THEN known
             ELSE [h[n - 1] EXCEPT ![ops[n].id] = Applied(@, ops[n])]]
    <2>1. \A n \in 0..N : n # 0 => n \in 1..N
        BY <1>1
    <2> HIDE DEF N, Step
    <2> QED BY <1>4, <1>5, <2>1
<1>7. rows = [n \in 0..N |-> IF n = 0 THEN known
                ELSE [rows[n - 1] EXCEPT ![ops[n].id] = Applied(@, ops[n])]]
    BY <1>6 DEF AfterEach
<1> HIDE DEF rows
<1>8. 0 \in 0..N /\ \A n \in 1..N : n \in 0..N /\ n # 0
    BY <1>1
<1>9. /\ rows[0] = known
      /\ \A n \in 1..N : rows[n] = [rows[n - 1] EXCEPT ![ops[n].id] = Applied(@, ops[n])]
    BY <1>7, <1>8
<1> DEFINE T == {n \in Nat : n <= N => rows[n] \in BookmarkRows}
<1>10. 0 \in T
    BY <1>9
<1>11. ASSUME NEW n \in T PROVE n + 1 \in T
    <2> SUFFICES ASSUME n + 1 <= N PROVE rows[n + 1] \in BookmarkRows
        OBVIOUS
    <2>1. n + 1 \in 1..N /\ (n + 1) - 1 = n /\ rows[n] \in BookmarkRows
        BY <1>1
    <2> QED BY <1>2, <1>9, <2>1
<1>12. T = Nat
    <2> HIDE DEF T
    <2>1. T \in SUBSET Nat
        BY DEF T
    <2> QED BY <1>10, <1>11, <2>1, SetInduction
<1>13. \A n \in 0..N : rows[n] \in BookmarkRows
    BY <1>1, <1>12
<1>14. rows \in [0..N -> BookmarkRows]
    BY <1>7, <1>13
<1> QED BY <1>9, <1>14 DEF rows

\* What the first n ops of a batch have done to the session's rows.
Applies(known, ops, n, row) ==
    /\ \A b \in BookmarkIds :
         /\ known[b] # Absent => row[b] # Absent
         /\ known[b].deleted => row[b].deleted
         /\ row[b] # known[b] => \E i \in 1..n : ops[i].id = b
    /\ \A i \in 1..n :
         /\ row[ops[i].id] # Absent
         /\ ops[i].op = "delete" => row[ops[i].id].deleted

\* One more op of the batch keeps what Applies says.
LEMMA OneMoreOp ==
    ASSUME NEW known \in BookmarkRows, NEW ops \in Seq(BookmarkOp), NEW n \in Nat,
           n + 1 \in 1..Len(ops), NEW row \in BookmarkRows, Applies(known, ops, n, row)
    PROVE  Applies(known, ops, n + 1,
                 [row EXCEPT ![ops[n + 1].id] = Applied(@, ops[n + 1])])
<1> DEFINE op == ops[n + 1]
           next == [row EXCEPT ![op.id] = Applied(@, op)]
<1>0. \A i \in 1..Len(ops) : ops[i] \in BookmarkOp
    OBVIOUS
<1>1. op \in BookmarkOp /\ op.id \in BookmarkIds
    BY <1>0 DEF BookmarkOp
<1>2. row[op.id] \in BookmarkRow
    BY <1>1 DEF BookmarkRows
<1>3. /\ Applied(row[op.id], op) # Absent
      /\ row[op.id].deleted => Applied(row[op.id], op).deleted
      /\ op.op = "delete" => Applied(row[op.id], op).deleted
    BY <1>1, <1>2, AppliedIsRow
<1>4. /\ next[op.id] = Applied(row[op.id], op)
      /\ \A b \in BookmarkIds : b # op.id => next[b] = row[b]
    BY <1>1 DEF BookmarkRows
<1>5. /\ \A i \in 1..(n + 1) : i # n + 1 => i \in 1..n
      /\ \A i \in 1..n : i \in 1..(n + 1) /\ i \in 1..Len(ops)
      /\ n + 1 \in 1..(n + 1)
    OBVIOUS
<1>6. \A i \in 1..n : ops[i].id \in BookmarkIds
    BY <1>0, <1>5 DEF BookmarkOp
<1> HIDE DEF next
<1>7. ASSUME NEW b \in BookmarkIds
      PROVE  /\ known[b] # Absent => next[b] # Absent
             /\ known[b].deleted => next[b].deleted
             /\ next[b] # known[b] => \E i \in 1..(n + 1) : ops[i].id = b
    <2>1. CASE b = op.id
        BY <1>3, <1>4, <1>5, <2>1 DEF Applies
    <2>2. CASE b # op.id
        BY <1>4, <1>5, <2>2 DEF Applies
    <2> QED BY <2>1, <2>2
<1>8. ASSUME NEW i \in 1..(n + 1)
      PROVE  /\ next[ops[i].id] # Absent
             /\ ops[i].op = "delete" => next[ops[i].id].deleted
    <2>1. CASE i = n + 1
        BY <1>3, <1>4, <2>1
    <2>2. CASE i # n + 1
        <3>1. i \in 1..n
            BY <1>5, <2>2
        <3>2. /\ row[ops[i].id] # Absent
              /\ ops[i].op = "delete" => row[ops[i].id].deleted
            BY <3>1 DEF Applies
        <3>3. CASE ops[i].id = op.id
            BY <1>3, <1>4, <3>2, <3>3
        <3>4. CASE ops[i].id # op.id
            BY <1>4, <1>6, <3>1, <3>2, <3>4
        <3> QED BY <3>3, <3>4
    <2> QED BY <2>1, <2>2
<1> QED BY <1>7, <1>8 DEF Applies, next

\* What apply_batch leaves: rows that show every op of the batch, and nothing
\* that was neither stored nor in it.
LEMMA BatchApplies ==
    ASSUME NEW known \in BookmarkRows, NEW ops \in Seq(BookmarkOp)
    PROVE  /\ AfterOps(known, ops) \in BookmarkRows
           /\ Applies(known, ops, Len(ops), AfterOps(known, ops))
<1> DEFINE rows == AfterEach(known, ops)
           N == Len(ops)
           T == {n \in Nat : n <= N => Applies(known, ops, n, rows[n])}
<1> HIDE DEF rows
<1>1. N \in Nat
    OBVIOUS
<1>2. /\ rows \in [0..N -> BookmarkRows] /\ rows[0] = known
      /\ \A n \in 1..N : rows[n] = [rows[n - 1] EXCEPT ![ops[n].id] = Applied(@, ops[n])]
    BY EachStep DEF rows
<1>3. 0 \in T
    <2>1. 1..0 = {}
        OBVIOUS
    <2> QED BY <1>2, <2>1 DEF Applies
<1>4. ASSUME NEW n \in T PROVE n + 1 \in T
    <2> SUFFICES ASSUME n + 1 <= N PROVE Applies(known, ops, n + 1, rows[n + 1])
        OBVIOUS
    <2>1. n \in Nat /\ n + 1 \in 1..N /\ n \in 0..N /\ (n + 1) - 1 = n
        BY <1>1
    <2>2. rows[n] \in BookmarkRows /\ Applies(known, ops, n, rows[n])
        BY <1>1, <1>2, <2>1
    <2>3. rows[n + 1] = [rows[n] EXCEPT ![ops[n + 1].id] = Applied(@, ops[n + 1])]
        BY <1>2, <2>1
    <2> QED BY <2>1, <2>2, <2>3, OneMoreOp
<1>5. T = Nat
    <2> HIDE DEF T
    <2>1. T \in SUBSET Nat
        BY DEF T
    <2> QED BY <1>3, <1>4, <2>1, SetInduction
<1>6. Applies(known, ops, N, rows[N]) /\ rows[N] \in BookmarkRows
    BY <1>1, <1>2, <1>5
<1> QED BY <1>6 DEF AfterOps, rows
-----------------------------------------------------------------------------

\* Clearing ops from the outbox leaves exactly the others.
LEMMA WithoutIsTheRest ==
    ASSUME NEW ops \in Seq(BookmarkOp), NEW sent
    PROVE  /\ Without(ops, sent) \in Seq(BookmarkOp)
           /\ ToSet(Without(ops, sent)) = ToSet(ops) \ sent
BY KeepingIsThePart DEF Without
-----------------------------------------------------------------------------

\* A chunk and what is left after it are parts of the ops to send, ...
LEMMA ChunkIsPart ==
    ASSUME NEW ops \in Seq(BookmarkOp)
    PROVE  /\ Chunk(ops) \in Seq(BookmarkOp) /\ ToSet(Chunk(ops)) \subseteq ToSet(ops)
           /\ Unsent(ops) \in Seq(BookmarkOp) /\ ToSet(Unsent(ops)) \subseteq ToSet(ops)
<1> DEFINE k == IF Len(ops) < ChunkOps THEN Len(ops) ELSE ChunkOps
           n == Len(Chunk(ops))
<1>1. k \in 0..Len(ops) /\ Len(ops) \in Nat
    BY BookmarkAssumption
<1>2. Chunk(ops) = SubSeq(ops, 1, k)
    BY DEF Chunk
<1> HIDE DEF k
<1>3. /\ Chunk(ops) \in Seq(BookmarkOp) /\ Len(Chunk(ops)) = k
      /\ \A i \in 1..k : Chunk(ops)[i] = ops[i]
    BY <1>1, <1>2
<1>4. ToSet(Chunk(ops)) \subseteq ToSet(ops)
    <2>1. DOMAIN Chunk(ops) = 1..k /\ DOMAIN ops = 1..Len(ops) /\ 1..k \subseteq 1..Len(ops)
        BY <1>1, <1>3
    <2> QED BY <1>3, <2>1 DEF ToSet
<1>5. Unsent(ops) = SubSeq(ops, k + 1, Len(ops))
    BY <1>3 DEF Unsent
<1>6. /\ Unsent(ops) \in Seq(BookmarkOp) /\ Len(Unsent(ops)) = Len(ops) - k
      /\ \A i \in 1..(Len(ops) - k) : Unsent(ops)[i] = ops[i + k]
    BY <1>1, <1>5
<1>7. ToSet(Unsent(ops)) \subseteq ToSet(ops)
    <2>1. /\ DOMAIN Unsent(ops) = 1..(Len(ops) - k) /\ DOMAIN ops = 1..Len(ops)
          /\ \A i \in 1..(Len(ops) - k) : i + k \in 1..Len(ops)
        BY <1>1, <1>6
    <2> QED BY <1>6, <2>1 DEF ToSet
<1> QED BY <1>3, <1>4, <1>6, <1>7

\* The empty outbox has no op.
LEMMA NothingInNoOps == ToSet(<<>>) = {}
BY DEF ToSet

\* A call that is not under way is a call.
LEMMA NoFlowIsFlow ==
    ASSUME NEW p \in BookmarkProfiles
    PROVE  /\ NoFlow \in Flow
           /\ \A q \in BookmarkProfiles : [NoFlow EXCEPT !.phase = "saved", !.store = q] \in Flow
<1>1. NoProfile \in BookmarkProfiles
    BY DEF NoProfile
<1>2. [b \in BookmarkIds |-> Absent] \in BookmarkRows
    BY DEF BookmarkRows, BookmarkRow
<1>3. <<>> \in Seq(BookmarkOp)
    OBVIOUS
<1> QED BY <1>1, <1>2, <1>3 DEF NoFlow, Flow

-----------------------------------------------------------------------------
(* The invariant.                                                          *)

\* A row is no younger than one read earlier.
Covers(row, earlier) == row # Absent /\ (earlier.deleted => row.deleted)

\* A table after some steps: rows do not vanish and tombstones stay.
Grows(old, new) ==
    \A p \in BookmarkProfiles, b \in BookmarkIds :
        old[p][b] # Absent => Covers(new[p][b], old[p][b])

\* What a call under way refers to: ops of ids that exist, ...
OfMinted(g, ids) == \A op \in ToSet(g.pending) : op.id \in ids

\* ... rows the server had, for the profile of the header if a batch read them, ...
HeardFrom(g, rows) ==
    \A b \in BookmarkIds : g.known[b] # Absent =>
        /\ \E p \in BookmarkProfiles : Covers(rows[p][b], g.known[b])
        /\ g.phase = "posted" => Covers(rows[g.startedIn][b], g.known[b])

\* ... and, once it has been answered, a chunk that the server's rows show.
Shows(row, op) == row # Absent /\ (op.op = "delete" => row.deleted)

IsApplied(g, rows) ==
    g.phase = "answered" =>
        \A op \in ToSet(Chunk(g.pending)) : Shows(rows[g.startedIn][op.id], op)

Fits(g, ids, rows) == OfMinted(g, ids) /\ HeardFrom(g, rows) /\ IsApplied(g, rows)

\* Only a bookmark that some phone minted shows anywhere or waits anywhere.
MintedFirst ==
    /\ \A p \in BookmarkProfiles, b \in BookmarkIds :
         device[p][b] # Absent \/ cloud[p][b] # Absent => b \in minted
    /\ \A p \in BookmarkProfiles : \A op \in ToSet(queuedOps[p]) : op.id \in minted

\* Every call under way refers to what there is.
FlowsFit == \A f \in Flows : Fits(flow[f], minted, cloud)

\* The inductive invariant.
BookmarksHold == BookmarkTypeOK /\ MintedFirst /\ FlowsFit

\* Tables that grow keep a call fitting.
LEMMA FitsStill ==
    ASSUME NEW g \in Flow, NEW ids, NEW more, ids \subseteq more,
           NEW rows \in [BookmarkProfiles -> BookmarkRows],
           NEW later \in [BookmarkProfiles -> BookmarkRows],
           Grows(rows, later), Fits(g, ids, rows)
    PROVE  Fits(g, more, later)
<1>1. g.startedIn \in BookmarkProfiles /\ g.pending \in Seq(BookmarkOp)
    BY DEF Flow
<1>2. OfMinted(g, more)
    BY DEF Fits, OfMinted
<1>3. HeardFrom(g, later)
    <2> SUFFICES ASSUME NEW b \in BookmarkIds, g.known[b] # Absent
                 PROVE  /\ \E p \in BookmarkProfiles : Covers(later[p][b], g.known[b])
                        /\ g.phase = "posted" => Covers(later[g.startedIn][b], g.known[b])
        BY DEF HeardFrom
    <2>1. ASSUME NEW p \in BookmarkProfiles, Covers(rows[p][b], g.known[b])
          PROVE  Covers(later[p][b], g.known[b])
        BY <2>1 DEF Covers, Grows
    <2>2. /\ \E p \in BookmarkProfiles : Covers(rows[p][b], g.known[b])
          /\ g.phase = "posted" => Covers(rows[g.startedIn][b], g.known[b])
        BY DEF Fits, HeardFrom
    <2> QED BY <1>1, <2>1, <2>2
<1>4. IsApplied(g, later)
    <2> SUFFICES ASSUME g.phase = "answered", NEW op \in ToSet(Chunk(g.pending))
                 PROVE  Shows(later[g.startedIn][op.id], op)
        BY DEF IsApplied
    <2>1. op \in BookmarkOp
        <3>1. Chunk(g.pending) \in Seq(BookmarkOp)
            BY <1>1, ChunkIsPart
        <3> QED BY <3>1 DEF ToSet
    <2>2. op.id \in BookmarkIds
        BY <2>1 DEF BookmarkOp
    <2>3. Shows(rows[g.startedIn][op.id], op)
        BY DEF Fits, IsApplied
    <2> QED BY <1>1, <2>2, <2>3 DEF Shows, Grows, Covers
<1> QED BY <1>2, <1>3, <1>4 DEF Fits

\* A call that holds nothing fits every table.
LEMMA IdleFits ==
    ASSUME NEW g \in Flow, NEW ids, NEW rows,
           g.pending = <<>>, g.phase \in {"idle", "saved"},
           \A b \in BookmarkIds : g.known[b] = Absent
    PROVE  Fits(g, ids, rows)
BY NothingInNoOps DEF Fits, OfMinted, HeardFrom, IsApplied
-----------------------------------------------------------------------------
(* Tables and calls, one entry at a time.                                  *)

\* A row put into a table is there, and the other rows stand.
LEMMA PutRow ==
    ASSUME NEW table \in [BookmarkProfiles -> BookmarkRows], NEW p \in BookmarkProfiles,
           NEW b \in BookmarkIds, NEW row \in BookmarkRow
    PROVE  /\ WithRow(table, p, b, row) \in [BookmarkProfiles -> BookmarkRows]
           /\ WithRow(table, p, b, row)[p][b] = row
           /\ \A q \in BookmarkProfiles, c \in BookmarkIds :
                q # p \/ c # b => WithRow(table, p, b, row)[q][c] = table[q][c]
<1> DEFINE new == WithRow(table, p, b, row)
<1>1. table[p] \in BookmarkRows
    OBVIOUS
<1>2. [table[p] EXCEPT ![b] = row] \in BookmarkRows
    BY <1>1 DEF BookmarkRows
<1>3. new[p] = [table[p] EXCEPT ![b] = row] /\ \A q \in BookmarkProfiles : q # p => new[q] = table[q]
    BY DEF WithRow
<1>4. new[p][b] = row /\ \A c \in BookmarkIds : c # b => new[p][c] = table[p][c]
    BY <1>1, <1>3 DEF BookmarkRows
<1>5. new \in [BookmarkProfiles -> BookmarkRows]
    BY <1>2 DEF WithRow
<1> HIDE DEF new
<1>6. \A q \in BookmarkProfiles, c \in BookmarkIds : q # p \/ c # b => new[q][c] = table[q][c]
    BY <1>3, <1>4
<1> QED BY <1>4, <1>5, <1>6 DEF new

\* A table grows when the row put into it covers the one it replaces.
LEMMA PutRowGrows ==
    ASSUME NEW table \in [BookmarkProfiles -> BookmarkRows], NEW p \in BookmarkProfiles,
           NEW b \in BookmarkIds, NEW row \in BookmarkRow,
           table[p][b] # Absent => Covers(row, table[p][b])
    PROVE  Grows(table, WithRow(table, p, b, row))
<1> SUFFICES ASSUME NEW q \in BookmarkProfiles, NEW c \in BookmarkIds, table[q][c] # Absent
             PROVE  Covers(WithRow(table, p, b, row)[q][c], table[q][c])
    BY DEF Grows
<1>1. CASE q = p /\ c = b
    BY <1>1, PutRow
<1>2. CASE q # p \/ c # b
    <2>1. WithRow(table, p, b, row)[q][c] = table[q][c]
        BY <1>2, PutRow
    <2> QED BY <2>1 DEF Covers
<1> QED BY <1>1, <1>2

\* A table that stands grows.
LEMMA GrowsByStanding ==
    ASSUME NEW table
    PROVE  Grows(table, table)
BY DEF Grows, Covers

\* A call that goes on leaves the other one alone.
LEMMA PutCall ==
    ASSUME NEW calls \in [Flows -> Flow], NEW f \in Flows, NEW g \in Flow, NEW new,
           new = [calls EXCEPT ![f] = g]
    PROVE  /\ new \in [Flows -> Flow] /\ new[f] = g
           /\ \A h \in Flows : h # f => new[h] = calls[h]
OBVIOUS

\* A step keeps the invariant when its tables grow and the calls it moves fit.
LEMMA Assembled ==
    ASSUME BookmarksHold, BookmarkTypeOK', MintedFirst', Grows(cloud, cloud'),
           minted \subseteq minted',
           \A f \in Flows : flow'[f] = flow[f] \/ Fits(flow'[f], minted', cloud')
    PROVE  BookmarksHold'
<1>1. ASSUME NEW f \in Flows PROVE Fits(flow'[f], minted', cloud')
    <2>1. CASE flow'[f] = flow[f]
        <3>1. /\ flow[f] \in Flow
              /\ cloud \in [BookmarkProfiles -> BookmarkRows]
              /\ cloud' \in [BookmarkProfiles -> BookmarkRows]
            BY DEF BookmarksHold, BookmarkTypeOK
        <3>2. Fits(flow[f], minted, cloud)
            BY DEF BookmarksHold, FlowsFit
        <3>3. Fits(flow[f], minted', cloud')
            BY <3>1, <3>2, FitsStill
        <3> QED BY <2>1, <3>3
    <2> QED BY <2>1
<1> QED BY <1>1 DEF BookmarksHold, FlowsFit

\* A step that only moves one call.
LEMMA OneCallMoves ==
    ASSUME BookmarksHold, NEW f \in Flows, NEW g \in Flow, Fits(g, minted, cloud),
           flow' = [flow EXCEPT ![f] = g],
           UNCHANGED <<device, queuedOps, cloud, minted, active, edits, switches>>,
           cuts' \in 0..MaxCuts
    PROVE  BookmarksHold' /\ Grows(device, device') /\ Grows(cloud, cloud')
<1>1. /\ flow' \in [Flows -> Flow] /\ flow'[f] = g
      /\ \A h \in Flows : h # f => flow'[h] = flow[h]
    <2>1. flow \in [Flows -> Flow]
        BY DEF BookmarksHold, BookmarkTypeOK
    <2> QED BY <2>1, PutCall
<1>2. BookmarkTypeOK'
    BY <1>1 DEF BookmarksHold, BookmarkTypeOK
<1>3. MintedFirst'
    BY DEF BookmarksHold, MintedFirst
<1>4. Grows(device, device') /\ Grows(cloud, cloud')
    BY GrowsByStanding
<1>5. \A h \in Flows : flow'[h] = flow[h] \/ Fits(flow'[h], minted', cloud')
    BY <1>1
<1> QED BY <1>2, <1>3, <1>4, <1>5, Assembled
-----------------------------------------------------------------------------
(* The steps that move one call.                                           *)

KeepsBookmarks == BookmarksHold' /\ Grows(device, device') /\ Grows(cloud, cloud')

\* A call whose answer is in, lost or not to come.
LEMMA QuietFits ==
    ASSUME NEW g \in Flow, NEW h \in Flow, NEW ids, NEW rows, Fits(g, ids, rows),
           h.phase \notin {"posted", "answered"},
           ToSet(h.pending) \subseteq ToSet(g.pending), h.known = g.known
    PROVE  Fits(h, ids, rows)
BY DEF Fits, OfMinted, HeardFrom, IsApplied

\* The tap's flush takes the ops of its profile.
LEMMA FlushKeeps ==
    ASSUME BookmarksHold, Flush
    PROVE  KeepsBookmarks
<1> DEFINE tap == flow["tap"]
           g == [tap EXCEPT !.phase = "sending", !.startedIn = active,
                            !.pending = queuedOps[tap.store]]
<1>1. "tap" \in Flows /\ tap \in Flow
    BY DEF BookmarksHold, BookmarkTypeOK, Flows
<1>2. tap.store \in BookmarkProfiles
    BY <1>1 DEF Flow
<1>3. active \in BookmarkProfiles /\ queuedOps[tap.store] \in Seq(BookmarkOp)
    BY <1>2 DEF BookmarksHold, BookmarkTypeOK
<1>4. g \in Flow /\ g.phase = "sending" /\ g.pending = queuedOps[tap.store] /\ g.known = tap.known
    BY <1>1, <1>3 DEF Flow
<1>5. Fits(tap, minted, cloud)
    BY <1>1 DEF BookmarksHold, FlowsFit
<1>6. flow' = [flow EXCEPT !["tap"] = g]
    BY DEF Flush, Becomes
<1> HIDE DEF g
<1>7. Fits(g, minted, cloud)
    <2>1. OfMinted(g, minted)
        BY <1>2, <1>4 DEF BookmarksHold, MintedFirst, OfMinted
    <2>2. HeardFrom(g, cloud) /\ IsApplied(g, cloud)
        BY <1>4, <1>5 DEF Fits, HeardFrom, IsApplied
    <2> QED BY <2>1, <2>2 DEF Fits
<1>8. UNCHANGED <<device, queuedOps, cloud, minted, active, edits, switches, cuts>>
    BY DEF Flush
<1>9. cuts' \in 0..MaxCuts
    BY <1>8 DEF BookmarksHold, BookmarkTypeOK
<1> QED BY <1>1, <1>4, <1>6, <1>7, <1>8, <1>9, OneCallMoves DEF KeepsBookmarks

\* A flush or a sync that the gate begins.
LEMMA FreshFits ==
    ASSUME BookmarksHold, NEW g \in Flow, g.phase = "sending",
           g.pending = queuedOps[active], g.known = NoFlow.known
    PROVE  Fits(g, minted, cloud)
<1>1. active \in BookmarkProfiles
    BY DEF BookmarksHold, BookmarkTypeOK
<1>2. \A b \in BookmarkIds : NoFlow.known[b] = Absent
    BY DEF NoFlow
<1>3. OfMinted(g, minted)
    BY <1>1 DEF BookmarksHold, MintedFirst, OfMinted
<1>4. HeardFrom(g, cloud) /\ IsApplied(g, cloud)
    BY <1>2 DEF HeardFrom, IsApplied
<1> QED BY <1>3, <1>4 DEF Fits

\* A flush without a tap and a sync of the gate take the active profile's ops.
LEMMA GateBegins ==
    ASSUME BookmarksHold, BareFlush \/ Sync
    PROVE  KeepsBookmarks
<1>1. "tap" \in Flows /\ "gate" \in Flows
    BY DEF Flows
<1>2. active \in BookmarkProfiles /\ queuedOps[active] \in Seq(BookmarkOp) /\ NoFlow \in Flow
    BY NoFlowIsFlow DEF BookmarksHold, BookmarkTypeOK
<1>3. UNCHANGED <<device, queuedOps, cloud, minted, active, edits, switches, cuts>>
    BY DEF BareFlush, Sync
<1>4. cuts' \in 0..MaxCuts
    BY <1>3 DEF BookmarksHold, BookmarkTypeOK
<1>5. CASE BareFlush
    <2> DEFINE g == [NoFlow EXCEPT !.phase = "sending", !.store = active,
                        !.startedIn = active, !.pending = queuedOps[active], !.bare = TRUE]
    <2>1. g \in Flow /\ g.phase = "sending" /\ g.pending = queuedOps[active] /\ g.known = NoFlow.known
        BY <1>2 DEF Flow
    <2>2. flow' = [flow EXCEPT !["tap"] = g]
        BY <1>5 DEF BareFlush, Becomes
    <2> HIDE DEF g
    <2>3. Fits(g, minted, cloud)
        BY <2>1, FreshFits
    <2> QED BY <1>1, <1>3, <1>4, <2>1, <2>2, <2>3, OneCallMoves DEF KeepsBookmarks
<1>6. CASE Sync
    <2> DEFINE g == [NoFlow EXCEPT !.phase = "sending", !.store = active,
                        !.startedIn = active, !.pending = queuedOps[active]]
    <2>1. g \in Flow /\ g.phase = "sending" /\ g.pending = queuedOps[active] /\ g.known = NoFlow.known
        BY <1>2 DEF Flow
    <2>2. flow' = [flow EXCEPT !["gate"] = g]
        BY <1>6 DEF Sync, Becomes
    <2> HIDE DEF g
    <2>3. Fits(g, minted, cloud)
        BY <2>1, FreshFits
    <2> QED BY <1>1, <1>3, <1>4, <2>1, <2>2, <2>3, OneCallMoves DEF KeepsBookmarks
<1> QED BY <1>5, <1>6

\* A call reads the server's rows of the active profile.
LEMMA ListingFits ==
    ASSUME BookmarksHold, NEW f \in Flows, NEW g \in Flow,
           g.phase \in {"posted", "heard"}, g.phase = "posted" => g.startedIn = active,
           g.pending = flow[f].pending, g.known = cloud[active]
    PROVE  Fits(g, minted, cloud)
<1>1. active \in BookmarkProfiles
    BY DEF BookmarksHold, BookmarkTypeOK
<1>2. OfMinted(g, minted)
    BY DEF BookmarksHold, FlowsFit, Fits, OfMinted
<1>3. HeardFrom(g, cloud)
    BY <1>1 DEF HeardFrom, Covers
<1>4. IsApplied(g, cloud)
    BY DEF IsApplied
<1> QED BY <1>2, <1>3, <1>4 DEF Fits

\* A posted batch and a listing read the server's rows of the active profile.
LEMMA ReadsKeep ==
    ASSUME BookmarksHold, NEW f \in Flows, Post(f) \/ Pull(f)
    PROVE  KeepsBookmarks
<1>1. flow[f] \in Flow /\ active \in BookmarkProfiles /\ cloud[active] \in BookmarkRows
    BY DEF BookmarksHold, BookmarkTypeOK
<1>2. UNCHANGED <<device, queuedOps, cloud, minted, active, edits, switches, cuts>>
    BY DEF Post, Pull
<1>3. cuts' \in 0..MaxCuts
    BY <1>2 DEF BookmarksHold, BookmarkTypeOK
<1>4. CASE Post(f)
    <2> DEFINE g == [flow[f] EXCEPT !.phase = "posted", !.known = cloud[active]]
    <2>1. /\ g \in Flow /\ g.phase = "posted" /\ g.startedIn = flow[f].startedIn
          /\ g.pending = flow[f].pending /\ g.known = cloud[active]
        BY <1>1 DEF Flow
    <2>2. flow' = [flow EXCEPT ![f] = g] /\ flow[f].startedIn = active
        BY <1>4 DEF Post, Becomes, SwitchedAway
    <2> HIDE DEF g
    <2>3. Fits(g, minted, cloud)
        BY <2>1, <2>2, ListingFits
    <2> QED BY <1>2, <1>3, <2>1, <2>2, <2>3, OneCallMoves DEF KeepsBookmarks
<1>5. CASE Pull(f)
    <2> DEFINE g == [flow[f] EXCEPT !.phase = "heard", !.known = cloud[active],
                                    !.startedIn = IF f = "gate" THEN @ ELSE active]
    <2>1. /\ g \in Flow /\ g.phase = "heard"
          /\ g.pending = flow[f].pending /\ g.known = cloud[active]
        BY <1>1 DEF Flow
    <2>2. flow' = [flow EXCEPT ![f] = g]
        BY <1>5 DEF Pull, Becomes
    <2> HIDE DEF g
    <2>3. Fits(g, minted, cloud)
        BY <2>1, ListingFits
    <2> QED BY <1>2, <1>3, <2>1, <2>2, <2>3, OneCallMoves DEF KeepsBookmarks
<1> QED BY <1>4, <1>5

\* The call that is not under way fits every table.
LEMMA NoFlowFits ==
    ASSUME NEW p \in BookmarkProfiles, NEW ids, NEW rows
    PROVE  NoFlow \in Flow /\ Fits(NoFlow, ids, rows)
<1>1. NoFlow \in Flow
    BY NoFlowIsFlow
<1>2. NoFlow.pending = <<>> /\ NoFlow.phase = "idle" /\ \A b \in BookmarkIds : NoFlow.known[b] = Absent
    BY DEF NoFlow
<1> QED BY <1>1, <1>2, IdleFits

\* A flush that ends, a request that is lost and a tap that returns.
LEMMA EndsKeep ==
    ASSUME BookmarksHold, NEW f \in Flows, FlushEnds(f) \/ Cut(f) \/ (f = "tap" /\ TapEnds)
    PROVE  KeepsBookmarks
<1>1. flow[f] \in Flow /\ active \in BookmarkProfiles /\ Fits(flow[f], minted, cloud)
    BY DEF BookmarksHold, BookmarkTypeOK, FlowsFit
<1>2. UNCHANGED <<device, queuedOps, cloud, minted, active, edits, switches>>
    BY DEF FlushEnds, Cut, TapEnds
<1>3. cuts' \in 0..MaxCuts
    BY BookmarkAssumption DEF FlushEnds, Cut, TapEnds, BookmarksHold, BookmarkTypeOK
<1>4. NoFlow \in Flow /\ Fits(NoFlow, minted, cloud)
    BY <1>1, NoFlowFits
<1> DEFINE g == [flow[f] EXCEPT !.phase = "flushed"]
<1>5. /\ g \in Flow /\ g.phase = "flushed"
      /\ g.pending = flow[f].pending /\ g.known = flow[f].known
    BY <1>1 DEF Flow
<1>6. flow' = [flow EXCEPT ![f] = g] \/ flow' = [flow EXCEPT ![f] = NoFlow]
    BY DEF FlushEnds, Cut, TapEnds, Becomes
<1> HIDE DEF g
<1>7. Fits(g, minted, cloud)
    BY <1>1, <1>5, QuietFits
<1>8. CASE flow' = [flow EXCEPT ![f] = g]
    BY <1>2, <1>3, <1>5, <1>7, <1>8, OneCallMoves DEF KeepsBookmarks
<1>9. CASE flow' = [flow EXCEPT ![f] = NoFlow]
    BY <1>2, <1>3, <1>4, <1>9, OneCallMoves DEF KeepsBookmarks
<1> QED BY <1>6, <1>8, <1>9

\* A kill and a switch of the profile touch no table.
LEMMA KillOrSwitchKeeps ==
    ASSUME BookmarksHold, KillApp \/ \E p \in BookmarkProfiles : Switch(p)
    PROVE  KeepsBookmarks
<1>1. active \in BookmarkProfiles
    BY DEF BookmarksHold, BookmarkTypeOK
<1>2. NoFlow \in Flow /\ Fits(NoFlow, minted, cloud)
    BY <1>1, NoFlowFits
<1>3. UNCHANGED <<device, queuedOps, cloud, minted, edits>>
    BY DEF KillApp, Switch
<1>4. Grows(device, device') /\ Grows(cloud, cloud') /\ minted \subseteq minted'
    BY <1>3, GrowsByStanding
<1>5. BookmarkTypeOK'
    <2>1. flow' \in [Flows -> Flow]
        BY <1>2 DEF BookmarksHold, BookmarkTypeOK, KillApp, Switch
    <2>2. active' \in BookmarkProfiles
        BY DEF BookmarksHold, BookmarkTypeOK, KillApp, Switch
    <2>3. cuts' \in 0..MaxCuts /\ switches' \in 0..MaxSwitches
        BY BookmarkAssumption DEF BookmarksHold, BookmarkTypeOK, KillApp, Switch
    <2> QED BY <1>3, <2>1, <2>2, <2>3 DEF BookmarksHold, BookmarkTypeOK
<1>6. MintedFirst'
    BY <1>3 DEF BookmarksHold, MintedFirst
<1>7. \A f \in Flows : flow'[f] = flow[f] \/ Fits(flow'[f], minted', cloud')
    BY <1>2, <1>3 DEF KillApp, Switch
<1> QED BY <1>4, <1>5, <1>6, <1>7, Assembled DEF KeepsBookmarks

\* clearBookmarkOutbox, and a chunk skipped after a switch.
LEMMA ClearKeeps ==
    ASSUME BookmarksHold, NEW f \in Flows, ClearOps(f)
    PROVE  KeepsBookmarks
<1> DEFINE sent == ToSet(Chunk(flow[f].pending))
           p == flow[f].store
           g == [flow[f] EXCEPT !.phase = "sending", !.pending = Unsent(@)]
<1>1. flow[f] \in Flow /\ Fits(flow[f], minted, cloud)
    BY DEF BookmarksHold, BookmarkTypeOK, FlowsFit
<1>2. p \in BookmarkProfiles /\ flow[f].pending \in Seq(BookmarkOp)
    BY <1>1 DEF Flow
<1>3. /\ Unsent(flow[f].pending) \in Seq(BookmarkOp)
      /\ ToSet(Unsent(flow[f].pending)) \subseteq ToSet(flow[f].pending)
    BY <1>2, ChunkIsPart
<1>4. /\ g \in Flow /\ g.phase = "sending"
      /\ g.pending = Unsent(flow[f].pending) /\ g.known = flow[f].known
    BY <1>1, <1>3 DEF Flow
<1>5. flow' = [flow EXCEPT ![f] = g]
    BY DEF ClearOps, Becomes
<1>6. queuedOps' = [queuedOps EXCEPT ![p] = Without(queuedOps[p], sent)]
    BY DEF ClearOps
<1>7. UNCHANGED <<device, cloud, active, minted, edits, cuts, switches>>
    BY DEF ClearOps
<1>8. /\ Without(queuedOps[p], sent) \in Seq(BookmarkOp)
      /\ ToSet(Without(queuedOps[p], sent)) \subseteq ToSet(queuedOps[p])
    <2>1. queuedOps[p] \in Seq(BookmarkOp)
        BY <1>2 DEF BookmarksHold, BookmarkTypeOK
    <2> HIDE DEF sent
    <2>2. ToSet(Without(queuedOps[p], sent)) = ToSet(queuedOps[p]) \ sent
        BY <2>1, WithoutIsTheRest
    <2> QED BY <2>1, <2>2, WithoutIsTheRest
<1> HIDE DEF sent, p, g
<1>9. /\ queuedOps' \in [BookmarkProfiles -> Seq(BookmarkOp)]
      /\ \A q \in BookmarkProfiles : ToSet(queuedOps'[q]) \subseteq ToSet(queuedOps[q])
    <2>1. queuedOps \in [BookmarkProfiles -> Seq(BookmarkOp)]
        BY DEF BookmarksHold, BookmarkTypeOK
    <2>2. \A q \in BookmarkProfiles :
             queuedOps'[q] = IF q = p THEN Without(queuedOps[p], sent) ELSE queuedOps[q]
        BY <1>6, <2>1
    <2> QED BY <1>2, <1>6, <1>8, <2>1, <2>2
<1>10. /\ flow' \in [Flows -> Flow] /\ flow'[f] = g
       /\ \A h \in Flows : h # f => flow'[h] = flow[h]
    <2>1. flow \in [Flows -> Flow]
        BY DEF BookmarksHold, BookmarkTypeOK
    <2> QED BY <1>4, <1>5, <2>1, PutCall
<1>11. BookmarkTypeOK'
    BY <1>7, <1>9, <1>10 DEF BookmarksHold, BookmarkTypeOK
<1>12. MintedFirst'
    BY <1>7, <1>9 DEF BookmarksHold, MintedFirst
<1>13. Grows(device, device') /\ Grows(cloud, cloud') /\ minted \subseteq minted'
    BY <1>7, GrowsByStanding
<1>14. Fits(g, minted, cloud)
    BY <1>1, <1>3, <1>4, QuietFits
<1>15. \A h \in Flows : flow'[h] = flow[h] \/ Fits(flow'[h], minted', cloud')
    BY <1>7, <1>10, <1>14
<1> QED BY <1>11, <1>12, <1>13, <1>15, Assembled DEF KeepsBookmarks

\* mergeRemote takes one of the two rows, and never undoes a local tombstone.
LEMMA MergedRow ==
    ASSUME NEW local \in BookmarkRow, NEW incoming \in BookmarkRow
    PROVE  /\ Merged(local, incoming) \in {local, incoming}
           /\ local # Absent => Covers(Merged(local, incoming), local)
           /\ Merged(local, incoming) = incoming \/ Merged(local, incoming) = local
           /\ local.deleted => Merged(local, incoming) = local
BY DEF Merged, Covers, Absent

\* mergeRemote touches the rows of the profile it was started for, ...
LEMMA MergeTables ==
    ASSUME BookmarksHold, NEW f \in Flows, Merge(f), ~SwitchedAway(f)
    PROVE  LET p == flow[f].store IN
           /\ p \in BookmarkProfiles /\ device' \in [BookmarkProfiles -> BookmarkRows]
           /\ \A b \in BookmarkIds : device'[p][b] = Merged(device[p][b], flow[f].known[b])
           /\ \A q \in BookmarkProfiles : q # p => device'[q] = device[q]
           /\ \A b \in BookmarkIds : device[p][b] \in BookmarkRow /\ flow[f].known[b] \in BookmarkRow
<1> DEFINE p == flow[f].store
           known == flow[f].known
           new == [b \in BookmarkIds |-> Merged(device[p][b], known[b])]
<1>1. flow[f] \in Flow /\ device \in [BookmarkProfiles -> BookmarkRows]
    BY DEF BookmarksHold, BookmarkTypeOK
<1>2. p \in BookmarkProfiles /\ known \in BookmarkRows
    BY <1>1 DEF Flow
<1>3. \A b \in BookmarkIds : device[p][b] \in BookmarkRow /\ known[b] \in BookmarkRow
    BY <1>1, <1>2 DEF BookmarkRows
<1>4. \A b \in BookmarkIds : Merged(device[p][b], known[b]) \in BookmarkRow
    BY <1>3, MergedRow
<1>5. new \in BookmarkRows /\ \A b \in BookmarkIds : new[b] = Merged(device[p][b], known[b])
    BY <1>4 DEF BookmarkRows
<1>6. device' = [device EXCEPT ![p] = new]
    BY DEF Merge
<1> HIDE DEF new, p, known
<1>7. /\ device' \in [BookmarkProfiles -> BookmarkRows] /\ device'[p] = new
      /\ \A q \in BookmarkProfiles : q # p => device'[q] = device[q]
    BY <1>1, <1>2, <1>5, <1>6
<1> QED BY <1>2, <1>3, <1>5, <1>7 DEF p, known

\* ... so the phone's tables grow, with minted bookmarks only.
LEMMA MergeKeepsTables ==
    ASSUME BookmarksHold, NEW f \in Flows, Merge(f)
    PROVE  /\ device' \in [BookmarkProfiles -> BookmarkRows] /\ Grows(device, device')
           /\ \A q \in BookmarkProfiles, b \in BookmarkIds :
                device'[q][b] # Absent => b \in minted
<1> DEFINE p == flow[f].store
           known == flow[f].known
<1>1. device \in [BookmarkProfiles -> BookmarkRows]
    BY DEF BookmarksHold, BookmarkTypeOK
<1>2. \A q \in BookmarkProfiles, b \in BookmarkIds :
          device[q][b] # Absent \/ cloud[q][b] # Absent => b \in minted
    BY DEF BookmarksHold, MintedFirst
<1>3. CASE SwitchedAway(f)
    <2>1. device' = device
        BY <1>3 DEF Merge
    <2> QED BY <1>1, <1>2, <2>1, GrowsByStanding
<1>4. CASE ~SwitchedAway(f)
    <2>1. /\ p \in BookmarkProfiles /\ device' \in [BookmarkProfiles -> BookmarkRows]
          /\ \A b \in BookmarkIds : device'[p][b] = Merged(device[p][b], known[b])
          /\ \A q \in BookmarkProfiles : q # p => device'[q] = device[q]
          /\ \A b \in BookmarkIds : device[p][b] \in BookmarkRow /\ known[b] \in BookmarkRow
        BY <1>4, MergeTables
    <2>2. \A b \in BookmarkIds :
             /\ device[p][b] # Absent => Covers(device'[p][b], device[p][b])
             /\ device'[p][b] = known[b] \/ device'[p][b] = device[p][b]
        BY <2>1, MergedRow
    <2>3. Grows(device, device')
        BY <2>1, <2>2 DEF Grows, Covers
    <2>4. \A b \in BookmarkIds : known[b] # Absent => b \in minted
        BY <1>2 DEF BookmarksHold, FlowsFit, Fits, HeardFrom, Covers
    <2>5. \A q \in BookmarkProfiles, b \in BookmarkIds : device'[q][b] # Absent => b \in minted
        BY <1>2, <2>1, <2>2, <2>4
    <2> QED BY <2>1, <2>3, <2>5
<1> QED BY <1>3, <1>4

\* The merge of a listing keeps the invariant.
LEMMA MergeKeeps ==
    ASSUME BookmarksHold, NEW f \in Flows, Merge(f)
    PROVE  KeepsBookmarks
<1>1. UNCHANGED <<queuedOps, cloud, active, minted, edits, cuts, switches>>
    BY DEF Merge
<1>2. /\ device' \in [BookmarkProfiles -> BookmarkRows] /\ Grows(device, device')
      /\ \A q \in BookmarkProfiles, b \in BookmarkIds : device'[q][b] # Absent => b \in minted
    BY MergeKeepsTables
<1>3. NoFlow \in Flow /\ Fits(NoFlow, minted, cloud)
    <2>1. active \in BookmarkProfiles
        BY DEF BookmarksHold, BookmarkTypeOK
    <2> QED BY <2>1, NoFlowFits
<1>4. /\ flow' \in [Flows -> Flow] /\ flow'[f] = NoFlow
      /\ \A h \in Flows : h # f => flow'[h] = flow[h]
    <2>1. flow \in [Flows -> Flow] /\ flow' = [flow EXCEPT ![f] = NoFlow]
        BY DEF BookmarksHold, BookmarkTypeOK, Merge, Becomes
    <2> QED BY <1>3, <2>1, PutCall
<1>5. BookmarkTypeOK'
    BY <1>1, <1>2, <1>4 DEF BookmarksHold, BookmarkTypeOK
<1>6. MintedFirst'
    BY <1>1, <1>2 DEF BookmarksHold, MintedFirst
<1>7. Grows(cloud, cloud') /\ minted \subseteq minted'
    BY <1>1, GrowsByStanding
<1>8. \A h \in Flows : flow'[h] = flow[h] \/ Fits(flow'[h], minted', cloud')
    BY <1>1, <1>3, <1>4
<1> QED BY <1>2, <1>5, <1>6, <1>7, <1>8, Assembled DEF KeepsBookmarks
-----------------------------------------------------------------------------
(* The steps that write rows.                                              *)

\* The UPDATE of a row's changed columns covers the row it finds, even when the
\* batch had read an older one.
LEMMA MovedRow ==
    ASSUME NEW stored \in BookmarkRow, NEW before \in BookmarkRow, NEW after \in BookmarkRow,
           before # Absent => Covers(stored, before),
           before # Absent => Covers(after, before)
    PROVE  LET m == MovedColumns(stored, before, after) IN
           /\ m \in BookmarkRow
           /\ stored # Absent => Covers(m, stored)
           /\ after # Absent => Covers(m, after)
           /\ m # Absent => stored # Absent \/ after # before
<1>1. CASE after = before
    BY <1>1 DEF MovedColumns, Covers
<1>2. CASE after # before
    <2>1. after # Absent
        BY <1>2 DEF Covers
    <2>2. after.at \in Stamps /\ after.deleted \in BOOLEAN /\ after.at # 0
        BY <2>1 DEF BookmarkRow, Stamps
    <2>3. stored.deleted \in BOOLEAN
        <3>1. CASE stored = Absent
            BY <3>1 DEF Absent
        <3>2. CASE stored # Absent
            BY <3>2 DEF BookmarkRow
        <3> QED BY <3>1, <3>2
    <2>4. MovedColumns(stored, before, after) =
             [deleted |-> after.deleted \/ stored.deleted, at |-> after.at]
        BY <1>2 DEF MovedColumns
    <2> DEFINE m == [deleted |-> after.deleted \/ stored.deleted, at |-> after.at]
    <2>5. m \in BookmarkRow
        BY <2>2, <2>3 DEF BookmarkRow
    <2>6. m # Absent
        BY <2>2 DEF Absent
    <2>7. m.deleted = (after.deleted \/ stored.deleted)
        OBVIOUS
    <2> HIDE DEF m
    <2> QED BY <1>2, <2>4, <2>5, <2>6, <2>7 DEF m, Covers
<1> QED BY <1>1, <1>2

\* A batch that was applied: its ops show, and nothing else does.
LEMMA BatchTables ==
    ASSUME BookmarksHold, NEW f \in Flows, ApplyBatch(f),
           ~InsertClash(flow[f].startedIn, flow[f].known,
                        AfterOps(flow[f].known, Chunk(flow[f].pending)))
    PROVE  /\ cloud' \in [BookmarkProfiles -> BookmarkRows] /\ Grows(cloud, cloud')
           /\ \A q \in BookmarkProfiles, b \in BookmarkIds :
                cloud'[q][b] # Absent => cloud[q][b] # Absent \/ b \in minted
           /\ \A op \in ToSet(Chunk(flow[f].pending)) :
                Shows(cloud'[flow[f].startedIn][op.id], op)
<1> DEFINE p == flow[f].startedIn
           ops == Chunk(flow[f].pending)
           known == flow[f].known
           after == AfterOps(known, ops)
           moved == [b \in BookmarkIds |-> MovedColumns(cloud[p][b], known[b], after[b])]
<1>1. /\ flow[f] \in Flow /\ cloud \in [BookmarkProfiles -> BookmarkRows]
      /\ Fits(flow[f], minted, cloud) /\ flow[f].phase = "posted"
    BY DEF BookmarksHold, BookmarkTypeOK, FlowsFit, ApplyBatch
<1>2. p \in BookmarkProfiles /\ known \in BookmarkRows /\ flow[f].pending \in Seq(BookmarkOp)
    BY <1>1 DEF Flow
<1>3. ops \in Seq(BookmarkOp) /\ ToSet(ops) \subseteq ToSet(flow[f].pending)
    BY <1>2, ChunkIsPart
<1>4. after \in BookmarkRows /\ Applies(known, ops, Len(ops), after)
    BY <1>2, <1>3, BatchApplies
<1>5. \A b \in BookmarkIds : known[b] # Absent => Covers(cloud[p][b], known[b])
    BY <1>1 DEF Fits, HeardFrom
<1>6. cloud' = [cloud EXCEPT ![p] = moved]
    BY DEF ApplyBatch
<1> HIDE DEF p, ops, known, after, moved
<1>7. \A b \in BookmarkIds :
          cloud[p][b] \in BookmarkRow /\ known[b] \in BookmarkRow /\ after[b] \in BookmarkRow
    BY <1>1, <1>2, <1>4 DEF BookmarkRows
<1>8. \A b \in BookmarkIds : known[b] # Absent => Covers(after[b], known[b])
    BY <1>4 DEF Applies, Covers
<1>9. \A b \in BookmarkIds :
          LET m == MovedColumns(cloud[p][b], known[b], after[b]) IN
          /\ m \in BookmarkRow
          /\ cloud[p][b] # Absent => Covers(m, cloud[p][b])
          /\ after[b] # Absent => Covers(m, after[b])
          /\ m # Absent => cloud[p][b] # Absent \/ after[b] # known[b]
    BY <1>5, <1>7, <1>8, MovedRow
<1>10. \A b \in BookmarkIds : moved[b] = MovedColumns(cloud[p][b], known[b], after[b])
    BY DEF moved
<1>11. moved \in BookmarkRows
    BY <1>9 DEF moved, BookmarkRows
<1>12. /\ cloud' \in [BookmarkProfiles -> BookmarkRows] /\ cloud'[p] = moved
       /\ \A q \in BookmarkProfiles : q # p => cloud'[q] = cloud[q]
    BY <1>1, <1>2, <1>6, <1>11
<1>13. Grows(cloud, cloud')
    BY <1>9, <1>10, <1>12 DEF Grows, Covers
<1>14. \A i \in 1..Len(ops) : ops[i] \in BookmarkOp /\ ops[i].id \in BookmarkIds /\ ops[i] \in ToSet(ops)
    <2>1. \A i \in 1..Len(ops) : ops[i] \in BookmarkOp /\ i \in DOMAIN ops
        BY <1>3
    <2>2. \A i \in 1..Len(ops) : ops[i] \in ToSet(ops)
        BY <2>1 DEF ToSet
    <2>3. \A op \in BookmarkOp : op.id \in BookmarkIds
        BY DEF BookmarkOp
    <2> QED BY <2>1, <2>2, <2>3
<1>15. \A b \in BookmarkIds : after[b] # known[b] => b \in minted
    <2>1. \A op \in ToSet(ops) : op.id \in minted
        BY <1>1, <1>3 DEF Fits, OfMinted
    <2> QED BY <1>4, <1>14, <2>1 DEF Applies
<1>16. \A q \in BookmarkProfiles, b \in BookmarkIds :
          cloud'[q][b] # Absent => cloud[q][b] # Absent \/ b \in minted
    BY <1>9, <1>10, <1>12, <1>15
<1>17. ASSUME NEW op \in ToSet(ops) PROVE Shows(cloud'[p][op.id], op)
    <2>1. PICK i \in 1..Len(ops) : op = ops[i]
        BY <1>3 DEF ToSet
    <2>2. op.id \in BookmarkIds
        BY <1>14, <2>1
    <2>3. after[op.id] # Absent /\ (op.op = "delete" => after[op.id].deleted)
        BY <1>4, <2>1 DEF Applies
    <2>4. Covers(cloud'[p][op.id], after[op.id])
        BY <1>9, <1>10, <1>12, <2>2, <2>3
    <2> QED BY <2>3, <2>4 DEF Shows, Covers
<1> QED BY <1>12, <1>13, <1>16, <1>17 DEF p, ops

\* The server's commit of a batch keeps the invariant.
LEMMA BatchKeeps ==
    ASSUME BookmarksHold, NEW f \in Flows, ApplyBatch(f)
    PROVE  KeepsBookmarks
<1> DEFINE p == flow[f].startedIn
           ops == Chunk(flow[f].pending)
           known == flow[f].known
           after == AfterOps(known, ops)
<1>1. /\ flow[f] \in Flow /\ flow \in [Flows -> Flow] /\ Fits(flow[f], minted, cloud)
      /\ cuts \in 0..MaxCuts
    BY DEF BookmarksHold, BookmarkTypeOK, FlowsFit
<1>2. UNCHANGED <<device, queuedOps, active, minted, edits, cuts, switches>>
    BY DEF ApplyBatch
<1>3. CASE InsertClash(p, known, after)
    <2> DEFINE g == [flow[f] EXCEPT !.phase = "flushed"]
    <2>1. /\ g \in Flow /\ g.phase = "flushed"
          /\ g.pending = flow[f].pending /\ g.known = flow[f].known
        BY <1>1 DEF Flow
    <2>2. flow' = [flow EXCEPT ![f] = g] /\ cloud' = cloud
        BY <1>3 DEF ApplyBatch, Becomes
    <2> HIDE DEF g
    <2>3. Fits(g, minted, cloud)
        BY <1>1, <2>1, QuietFits
    <2>4. cuts' \in 0..MaxCuts
        BY <1>1, <1>2
    <2> QED BY <1>2, <2>1, <2>2, <2>3, <2>4, OneCallMoves DEF KeepsBookmarks
<1>4. CASE ~InsertClash(p, known, after)
    <2> DEFINE g == [flow[f] EXCEPT !.phase = "answered",
                                    !.refused = @ \/ AnyRefused(known, ops)]
    <2>1. flow' = [flow EXCEPT ![f] = g]
        BY <1>4 DEF ApplyBatch, Becomes
    <2>2. (flow[f].refused \/ AnyRefused(known, ops)) \in BOOLEAN
        BY <1>1 DEF Flow, AnyRefused
    <2>3. /\ g \in Flow /\ g.phase = "answered" /\ g.startedIn = p
          /\ g.pending = flow[f].pending /\ g.known = flow[f].known
        BY <1>1, <2>2 DEF Flow
    <2> HIDE DEF g
    <2>4. /\ cloud' \in [BookmarkProfiles -> BookmarkRows] /\ Grows(cloud, cloud')
          /\ \A q \in BookmarkProfiles, b \in BookmarkIds :
               cloud'[q][b] # Absent => cloud[q][b] # Absent \/ b \in minted
          /\ \A op \in ToSet(ops) : Shows(cloud'[p][op.id], op)
        BY <1>4, BatchTables
    <2>5. cloud \in [BookmarkProfiles -> BookmarkRows]
        BY DEF BookmarksHold, BookmarkTypeOK
    <2>6. Fits(flow[f], minted, cloud')
        BY <1>1, <2>4, <2>5, FitsStill
    <2>7. Fits(g, minted, cloud')
        <3>1. OfMinted(g, minted) /\ HeardFrom(g, cloud')
            BY <2>3, <2>6 DEF Fits, OfMinted, HeardFrom
        <3>2. IsApplied(g, cloud')
            BY <2>3, <2>4 DEF IsApplied
        <3> QED BY <3>1, <3>2 DEF Fits
    <2>8. /\ flow' \in [Flows -> Flow] /\ flow'[f] = g
          /\ \A h \in Flows : h # f => flow'[h] = flow[h]
        BY <1>1, <2>1, <2>3, PutCall
    <2>9. BookmarkTypeOK'
        BY <1>2, <2>4, <2>8 DEF BookmarksHold, BookmarkTypeOK
    <2>10. MintedFirst'
        BY <1>2, <2>4 DEF BookmarksHold, MintedFirst
    <2>11. Grows(device, device') /\ minted \subseteq minted'
        BY <1>2, GrowsByStanding
    <2>12. \A h \in Flows : flow'[h] = flow[h] \/ Fits(flow'[h], minted', cloud')
        BY <1>2, <2>7, <2>8
    <2> QED BY <2>4, <2>9, <2>10, <2>11, <2>12, Assembled DEF KeepsBookmarks
<1> QED BY <1>3, <1>4

\* A tap of the phone: its row and its op.
LEMMA TapTables ==
    ASSUME BookmarksHold, NEW p \in BookmarkProfiles, NEW op \in BookmarkOp, Record(p, op),
           ~device[p][op.id].deleted
    PROVE  /\ device' \in [BookmarkProfiles -> BookmarkRows] /\ Grows(device, device')
           /\ device'[p][op.id] = [deleted |-> op.op = "delete", at |-> op.at]
           /\ \A q \in BookmarkProfiles, b \in BookmarkIds :
                q # p \/ b # op.id => device'[q][b] = device[q][b]
           /\ queuedOps' \in [BookmarkProfiles -> Seq(BookmarkOp)]
           /\ ToSet(queuedOps'[p]) = ToSet(queuedOps[p]) \cup {op}
           /\ \A q \in BookmarkProfiles : q # p => queuedOps'[q] = queuedOps[q]
<1> DEFINE row == [deleted |-> op.op = "delete", at |-> op.at]
<1>1. /\ device \in [BookmarkProfiles -> BookmarkRows]
      /\ queuedOps \in [BookmarkProfiles -> Seq(BookmarkOp)]
    BY DEF BookmarksHold, BookmarkTypeOK
<1>2. op.id \in BookmarkIds /\ op.at \in Stamps /\ op.at # 0
    BY DEF BookmarkOp, Stamps
<1>3. row \in BookmarkRow /\ row # Absent
    BY <1>2 DEF BookmarkRow, Absent
<1>4. device' = WithRow(device, p, op.id, row)
    BY DEF Record
<1>5. queuedOps' = [queuedOps EXCEPT ![p] = Append(queuedOps[p], op)]
    BY DEF Record
<1> HIDE DEF row
<1>6. /\ device' \in [BookmarkProfiles -> BookmarkRows]
      /\ device'[p][op.id] = row
      /\ \A q \in BookmarkProfiles, b \in BookmarkIds :
                q # p \/ b # op.id => device'[q][b] = device[q][b]
    BY <1>1, <1>2, <1>3, <1>4, PutRow
<1>7. Grows(device, device')
    <2>1. device[p][op.id] # Absent => Covers(row, device[p][op.id])
        BY <1>3 DEF Covers
    <2> QED BY <1>1, <1>2, <1>3, <1>4, <2>1, PutRowGrows
<1>8. queuedOps[p] \in Seq(BookmarkOp)
    BY <1>1
<1>9. /\ queuedOps' \in [BookmarkProfiles -> Seq(BookmarkOp)]
      /\ queuedOps'[p] = Append(queuedOps[p], op)
      /\ \A q \in BookmarkProfiles : q # p => queuedOps'[q] = queuedOps[q]
    BY <1>1, <1>5, <1>8
<1>10. ToSet(queuedOps'[p]) = ToSet(queuedOps[p]) \cup {op}
    BY <1>8, <1>9, AppendAdds
<1> QED BY <1>6, <1>7, <1>9, <1>10 DEF row

\* What AddBookmark and Unbookmark have in common.
LEMMA TapKeeps ==
    ASSUME BookmarksHold, NEW op \in BookmarkOp, Record(active, op),
           ~device[active][op.id].deleted,
           flow' = [flow EXCEPT !["tap"] = [NoFlow EXCEPT !.phase = "saved", !.store = active]],
           minted \subseteq minted', minted' \subseteq BookmarkIds, op.id \in minted',
           UNCHANGED <<cloud, active, edits, cuts, switches>>
    PROVE  KeepsBookmarks
<1> DEFINE g == [NoFlow EXCEPT !.phase = "saved", !.store = active]
<1>1. active \in BookmarkProfiles /\ flow \in [Flows -> Flow]
    BY DEF BookmarksHold, BookmarkTypeOK
<1>2. /\ device' \in [BookmarkProfiles -> BookmarkRows] /\ Grows(device, device')
      /\ \A q \in BookmarkProfiles, b \in BookmarkIds :
                q # active \/ b # op.id => device'[q][b] = device[q][b]
      /\ queuedOps' \in [BookmarkProfiles -> Seq(BookmarkOp)]
      /\ ToSet(queuedOps'[active]) = ToSet(queuedOps[active]) \cup {op}
      /\ \A q \in BookmarkProfiles : q # active => queuedOps'[q] = queuedOps[q]
    BY <1>1, TapTables
<1>3. g \in Flow /\ g.phase = "saved" /\ g.pending = <<>> /\ g.known = NoFlow.known
    <2>1. NoFlow \in Flow
        BY <1>1, NoFlowIsFlow
    <2> QED BY <1>1, <2>1 DEF NoFlow, Flow
<1>4. \A b \in BookmarkIds : NoFlow.known[b] = Absent
    BY DEF NoFlow
<1>5. flow' = [flow EXCEPT !["tap"] = g] /\ "tap" \in Flows
    BY DEF Flows
<1> HIDE DEF g
<1>6. /\ flow' \in [Flows -> Flow] /\ flow'["tap"] = g
      /\ \A h \in Flows : h # "tap" => flow'[h] = flow[h]
    BY <1>1, <1>3, <1>5, PutCall
<1>7. Fits(g, minted', cloud')
    BY <1>3, <1>4, IdleFits
<1>8. BookmarkTypeOK'
    BY <1>2, <1>6 DEF BookmarksHold, BookmarkTypeOK
<1>9. MintedFirst'
    <2>1. op.id \in BookmarkIds
        BY DEF BookmarkOp
    <2>2. \A q \in BookmarkProfiles, b \in BookmarkIds :
             device'[q][b] # Absent \/ cloud'[q][b] # Absent => b \in minted'
        <3> SUFFICES ASSUME NEW q \in BookmarkProfiles, NEW b \in BookmarkIds, b # op.id,
                            device'[q][b] # Absent \/ cloud'[q][b] # Absent
                     PROVE  b \in minted'
            OBVIOUS
        <3>1. device[q][b] # Absent \/ cloud[q][b] # Absent
            BY <1>2
        <3> QED BY <3>1 DEF BookmarksHold, MintedFirst
    <2>3. \A q \in BookmarkProfiles : \A o \in ToSet(queuedOps'[q]) : o.id \in minted'
        <3> SUFFICES ASSUME NEW q \in BookmarkProfiles, NEW o \in ToSet(queuedOps'[q]), o # op
                     PROVE  o.id \in minted'
            OBVIOUS
        <3>1. o \in ToSet(queuedOps[q])
            BY <1>2
        <3> QED BY <3>1 DEF BookmarksHold, MintedFirst
    <2> QED BY <2>2, <2>3 DEF MintedFirst
<1>10. Grows(cloud, cloud')
    BY GrowsByStanding
<1>11. \A h \in Flows : flow'[h] = flow[h] \/ Fits(flow'[h], minted', cloud')
    BY <1>6, <1>7
<1> QED BY <1>2, <1>8, <1>9, <1>10, <1>11, Assembled DEF KeepsBookmarks

\* addBookmark keeps the invariant.
LEMMA AddKeeps ==
    ASSUME BookmarksHold, NEW b \in BookmarkIds, NEW t \in Stamps, AddBookmark(b, t)
    PROVE  KeepsBookmarks
<1> DEFINE op == [op |-> "upsert", id |-> b, at |-> t]
<1>1. op \in BookmarkOp /\ op.id = b
    BY DEF BookmarkOp
<1>2. ~device[active][b].deleted
    <2>1. active \in BookmarkProfiles /\ b \notin minted
        BY DEF BookmarksHold, BookmarkTypeOK, AddBookmark
    <2>2. device[active][b] = Absent
        BY <2>1 DEF BookmarksHold, MintedFirst
    <2> QED BY <2>2 DEF Absent
<1>3. /\ Record(active, op) /\ minted' = minted \cup {b}
      /\ flow' = [flow EXCEPT !["tap"] = [NoFlow EXCEPT !.phase = "saved", !.store = active]]
      /\ UNCHANGED <<cloud, active, edits, cuts, switches>>
    BY DEF AddBookmark, Becomes
<1>4. minted \subseteq BookmarkIds
    BY DEF BookmarksHold, BookmarkTypeOK
<1> HIDE DEF op
<1> QED BY <1>1, <1>2, <1>3, <1>4, TapKeeps

\* removeBookmark keeps the invariant.
LEMMA UnbookmarkKeeps ==
    ASSUME BookmarksHold, NEW b \in BookmarkIds, NEW t \in Stamps, Unbookmark(b, t)
    PROVE  KeepsBookmarks
<1> DEFINE op == [op |-> "delete", id |-> b, at |-> t]
<1>1. op \in BookmarkOp /\ op.id = b
    BY DEF BookmarkOp
<1>2. /\ ~device[active][b].deleted /\ Record(active, op) /\ minted' = minted
      /\ flow' = [flow EXCEPT !["tap"] = [NoFlow EXCEPT !.phase = "saved", !.store = active]]
      /\ UNCHANGED <<cloud, active, edits, cuts, switches>>
    BY DEF Unbookmark, Becomes
<1>3. minted \subseteq BookmarkIds /\ b \in minted
    BY DEF BookmarksHold, BookmarkTypeOK, MintedFirst, Unbookmark
<1> HIDE DEF op
<1> QED BY <1>1, <1>2, <1>3, TapKeeps

\* An op from another device keeps the invariant.
LEMMA ElsewhereKeeps ==
    ASSUME BookmarksHold, NEW op \in BookmarkOp, Elsewhere(op)
    PROVE  KeepsBookmarks
<1> DEFINE p == Owner[op.id]
           row == Applied(cloud[p][op.id], op)
<1>1. op.id \in BookmarkIds /\ p \in BookmarkProfiles
    BY BookmarkAssumption DEF BookmarkOp
<1>2. cloud \in [BookmarkProfiles -> BookmarkRows] /\ edits \in 0..MaxEdits
    BY DEF BookmarksHold, BookmarkTypeOK
<1>3. cloud[p][op.id] \in BookmarkRow
    BY <1>1, <1>2 DEF BookmarkRows
<1>4. row \in BookmarkRow /\ Covers(row, cloud[p][op.id])
    BY <1>3, AppliedIsRow DEF Covers
<1>5. /\ cloud' = WithRow(cloud, p, op.id, row) /\ minted' = minted \cup {op.id}
      /\ edits > 0 /\ edits' = edits - 1
      /\ UNCHANGED <<device, queuedOps, active, flow, cuts, switches>>
    BY DEF Elsewhere
<1> HIDE DEF p, row
<1>6. /\ cloud' \in [BookmarkProfiles -> BookmarkRows]
      /\ \A q \in BookmarkProfiles, b \in BookmarkIds :
                q # p \/ b # op.id => cloud'[q][b] = cloud[q][b]
    BY <1>1, <1>2, <1>4, <1>5, PutRow
<1>7. Grows(cloud, cloud')
    BY <1>1, <1>2, <1>4, <1>5, PutRowGrows
<1>8. BookmarkTypeOK'
    <2>1. edits' \in 0..MaxEdits
        BY <1>2, <1>5, BookmarkAssumption
    <2> QED BY <1>1, <1>5, <1>6, <2>1 DEF BookmarksHold, BookmarkTypeOK
<1>9. MintedFirst'
    <2>1. \A q \in BookmarkProfiles, b \in BookmarkIds :
             device'[q][b] # Absent \/ cloud'[q][b] # Absent => b \in minted'
        BY <1>5, <1>6 DEF BookmarksHold, MintedFirst
    <2>2. \A q \in BookmarkProfiles : \A o \in ToSet(queuedOps'[q]) : o.id \in minted'
        BY <1>5 DEF BookmarksHold, MintedFirst
    <2> QED BY <2>1, <2>2 DEF MintedFirst
<1>10. Grows(device, device') /\ minted \subseteq minted'
    BY <1>5, GrowsByStanding
<1>11. \A h \in Flows : flow'[h] = flow[h] \/ Fits(flow'[h], minted', cloud')
    BY <1>5
<1> QED BY <1>7, <1>8, <1>9, <1>10, <1>11, Assembled DEF KeepsBookmarks
-----------------------------------------------------------------------------
(* Theorems.                                                               *)

\* Every step: its tables grow, its calls fit.
LEMMA StepKeeps ==
    ASSUME BookmarksHold, BookmarkNext
    PROVE  KeepsBookmarks
<1>1. ASSUME NEW b \in BookmarkIds, NEW t \in Stamps, AddBookmark(b, t) \/ Unbookmark(b, t)
      PROVE  KeepsBookmarks
    BY <1>1, AddKeeps, UnbookmarkKeeps
<1>2. CASE Flush
    BY <1>2, FlushKeeps
<1>3. CASE BareFlush \/ Sync
    BY <1>3, GateBegins
<1>4. CASE TapEnds
    BY <1>4, EndsKeep DEF Flows
<1>5. ASSUME NEW f \in Flows, FlowStep(f) \/ Cut(f)
      PROVE  KeepsBookmarks
    BY <1>5, ReadsKeep, BatchKeeps, ClearKeeps, EndsKeep, MergeKeeps DEF FlowStep
<1>6. CASE KillApp \/ \E p \in BookmarkProfiles : Switch(p)
    BY <1>6, KillOrSwitchKeeps
<1>7. ASSUME NEW op \in BookmarkOp, Elsewhere(op)
      PROVE  KeepsBookmarks
    BY <1>7, ElsewhereKeeps
<1> QED BY <1>1, <1>2, <1>3, <1>4, <1>5, <1>6, <1>7 DEF BookmarkNext

\* The inductive invariant holds: types, bookmarks minted first, calls that fit.
THEOREM BookmarksAlwaysHold == BookmarkSpec => []BookmarksHold
<1>1. BookmarkInit => BookmarksHold
    <2> SUFFICES ASSUME BookmarkInit PROVE BookmarksHold
        OBVIOUS
    <2>1. active \in BookmarkProfiles
        BY DEF BookmarkInit
    <2>2. NoFlow \in Flow /\ Fits(NoFlow, minted, cloud)
        BY <2>1, NoFlowFits
    <2>3. /\ device \in [BookmarkProfiles -> BookmarkRows] /\ cloud = device
          /\ \A p \in BookmarkProfiles, b \in BookmarkIds : device[p][b] = Absent
        BY DEF BookmarkInit, BookmarkRows, BookmarkRow
    <2>4. /\ queuedOps \in [BookmarkProfiles -> Seq(BookmarkOp)]
          /\ \A p \in BookmarkProfiles : ToSet(queuedOps[p]) = {}
        BY NothingInNoOps DEF BookmarkInit
    <2>5. BookmarkTypeOK
        BY <2>1, <2>2, <2>3, <2>4, BookmarkAssumption DEF BookmarkInit, BookmarkTypeOK
    <2>6. MintedFirst
        BY <2>3, <2>4 DEF MintedFirst
    <2>7. FlowsFit
        BY <2>2 DEF BookmarkInit, FlowsFit
    <2> QED BY <2>5, <2>6, <2>7 DEF BookmarksHold
<1>2. BookmarksHold /\ [BookmarkNext]_bookmarkVars => BookmarksHold'
    <2>1. CASE UNCHANGED bookmarkVars
        BY <2>1 DEF bookmarkVars, BookmarksHold, BookmarkTypeOK, MintedFirst, FlowsFit
    <2> QED BY <2>1, StepKeeps DEF KeepsBookmarks
<1> QED BY <1>1, <1>2, PTL DEF BookmarkSpec

\* The types of the bookmarks' state.
THEOREM BookmarkTypes == BookmarkSpec => []BookmarkTypeOK
BY BookmarksAlwaysHold, PTL DEF BookmarksHold

\* Tombstones are terminal: a bookmark deleted on the phone or on the server is
\* never shown again there, whatever stale batches, listings, retries, kills and
\* profile switches the phone goes through, and whatever other devices send.
THEOREM DeletedStaysDeleted == BookmarkSpec => TombstonesAreTerminal
<1>1. BookmarksHold /\ [BookmarkNext]_bookmarkVars =>
        [\A p \in BookmarkProfiles, b \in BookmarkIds :
           /\ device[p][b].deleted => device'[p][b].deleted
           /\ cloud[p][b].deleted => cloud'[p][b].deleted]_bookmarkVars
    <2> SUFFICES ASSUME BookmarksHold, BookmarkNext,
                        NEW p \in BookmarkProfiles, NEW b \in BookmarkIds
                 PROVE  /\ device[p][b].deleted => device'[p][b].deleted
                        /\ cloud[p][b].deleted => cloud'[p][b].deleted
        OBVIOUS
    <2>1. Grows(device, device') /\ Grows(cloud, cloud')
        BY StepKeeps DEF KeepsBookmarks
    <2>2. ~Absent.deleted
        BY DEF Absent
    <2> QED BY <2>1, <2>2 DEF Grows, Covers
<1> QED BY <1>1, BookmarksAlwaysHold, PTL DEF BookmarkSpec, TombstonesAreTerminal
-----------------------------------------------------------------------------
(* Nothing is forgotten before the server shows it.                        *)

\* Ops wait, and travel, where their bookmark was minted.
AtHome(ops, p) == \A op \in ToSet(ops) : Owner[op.id] = p

OpsAtHome ==
    OwnProfileOnly =>
        /\ \A p \in BookmarkProfiles : AtHome(queuedOps[p], p)
        /\ \A f \in Flows : AtHome(flow[f].pending, flow[f].store)

UnsentHolds == OpsAtHome /\ NothingUnsent

\* What NothingUnsent says of one row.
Waiting(kind, b, ops) == \E op \in ToSet(ops) : op.id = b /\ op.op = kind

SentOrWaits(b, row, remote, ops) ==
    /\ row # Absent /\ remote = Absent => Waiting("upsert", b, ops)
    /\ row.deleted /\ ~remote.deleted => Waiting("delete", b, ops)

\* NothingUnsent, row by row.
LEMMA UnsentByRow ==
    NothingUnsent <=>
        (OwnProfileOnly => \A p \in BookmarkProfiles, b \in BookmarkIds :
                               SentOrWaits(b, device[p][b], cloud[p][b], queuedOps[p]))
BY DEF NothingUnsent, SentOrWaits, Waiting

\* A bookmark that reached another profile never leaves it, so a state in
\* which none has comes after such states only.
LEMMA OwnBefore ==
    ASSUME KeepsBookmarks, OwnProfileOnly'
    PROVE  OwnProfileOnly
BY DEF KeepsBookmarks, OwnProfileOnly, Grows, Covers

\* A row that the server shows, it still shows once its table has grown.
LEMMA SentStill ==
    ASSUME NEW b \in BookmarkIds, NEW row, NEW remote, NEW later, NEW ops,
           SentOrWaits(b, row, remote, ops), remote # Absent => Covers(later, remote)
    PROVE  SentOrWaits(b, row, later, ops)
<1>1. ~Absent.deleted
    BY DEF Absent
<1> QED BY <1>1 DEF SentOrWaits, Covers

\* Steps of everybody but the phone's own tables.
LEMMA TablesStand ==
    ASSUME KeepsBookmarks, UnsentHolds, OwnProfileOnly',
           UNCHANGED <<device, queuedOps>>,
           \A f \in Flows : AtHome(flow'[f].pending, flow'[f].store)
    PROVE  UnsentHolds'
<1>1. OwnProfileOnly
    BY OwnBefore
<1>2. OpsAtHome'
    BY <1>1 DEF UnsentHolds, OpsAtHome
<1>3. \A p \in BookmarkProfiles, b \in BookmarkIds :
          SentOrWaits(b, device[p][b], cloud[p][b], queuedOps[p])
    BY <1>1, UnsentByRow DEF UnsentHolds
<1>4. \A p \in BookmarkProfiles, b \in BookmarkIds :
          cloud[p][b] # Absent => Covers(cloud'[p][b], cloud[p][b])
    BY DEF KeepsBookmarks, Grows
<1>5. \A p \in BookmarkProfiles, b \in BookmarkIds :
          SentOrWaits(b, device'[p][b], cloud'[p][b], queuedOps'[p])
    BY <1>3, <1>4, SentStill
<1>6. NothingUnsent'
    BY <1>5 DEF NothingUnsent, SentOrWaits, Waiting
<1> QED BY <1>2, <1>6 DEF UnsentHolds

\* A tap: its row is not on the server yet, and its op waits.
LEMMA TapUnsent ==
    ASSUME BookmarksHold, KeepsBookmarks, UnsentHolds, OwnProfileOnly',
           NEW op \in BookmarkOp, Record(active, op), ~device[active][op.id].deleted,
           Owner[op.id] = active,
           op.op = "delete" => device[active][op.id] # Absent,
           flow' = [flow EXCEPT !["tap"] = [NoFlow EXCEPT !.phase = "saved", !.store = active]],
           UNCHANGED cloud
    PROVE  UnsentHolds'
<1>1. active \in BookmarkProfiles /\ flow \in [Flows -> Flow] /\ op.id \in BookmarkIds
    BY DEF BookmarksHold, BookmarkTypeOK, BookmarkOp
<1>2. OwnProfileOnly
    BY OwnBefore
<1>3. /\ device'[active][op.id] = [deleted |-> op.op = "delete", at |-> op.at]
      /\ \A q \in BookmarkProfiles, b \in BookmarkIds :
                q # active \/ b # op.id => device'[q][b] = device[q][b]
      /\ ToSet(queuedOps'[active]) = ToSet(queuedOps[active]) \cup {op}
      /\ \A q \in BookmarkProfiles : q # active => queuedOps'[q] = queuedOps[q]
    BY <1>1, TapTables
<1>4. OpsAtHome'
    <2>1. \A q \in BookmarkProfiles : AtHome(queuedOps'[q], q)
        BY <1>2, <1>3 DEF UnsentHolds, OpsAtHome, AtHome
    <2>2. \A h \in Flows : AtHome(flow'[h].pending, flow'[h].store)
        <3>1. \A h \in Flows : h # "tap" => flow'[h] = flow[h]
            BY <1>1
        <3>2. flow'["tap"].pending = <<>>
            BY <1>1 DEF Flows, NoFlow
        <3>3. AtHome(flow'["tap"].pending, flow'["tap"].store)
            BY <3>2, NothingInNoOps DEF AtHome
        <3>4. \A h \in Flows : AtHome(flow[h].pending, flow[h].store)
            BY <1>2 DEF UnsentHolds, OpsAtHome
        <3> QED BY <3>1, <3>3, <3>4
    <2> QED BY <2>1, <2>2 DEF OpsAtHome
<1>5. \A p \in BookmarkProfiles, b \in BookmarkIds :
          SentOrWaits(b, device[p][b], cloud[p][b], queuedOps[p])
    BY <1>2, UnsentByRow DEF UnsentHolds
<1>6. ASSUME NEW p \in BookmarkProfiles, NEW b \in BookmarkIds
      PROVE  SentOrWaits(b, device'[p][b], cloud'[p][b], queuedOps'[p])
    <2>1. SentOrWaits(b, device[p][b], cloud[p][b], queuedOps[p])
        BY <1>5
    <2>2. CASE p # active
        BY <1>3, <2>1, <2>2
    <2>3. CASE p = active /\ b # op.id
        BY <1>3, <2>1, <2>3 DEF SentOrWaits, Waiting
    <2>4. CASE p = active /\ b = op.id
        <3>1. op.op \in {"upsert", "delete"}
            BY DEF BookmarkOp
        <3>2. op \in ToSet(queuedOps'[p])
            BY <1>3, <2>4
        <3>3. device'[p][b].deleted = (op.op = "delete")
            BY <1>3, <2>4
        <3>4. op.op = "delete" => Waiting("delete", b, queuedOps'[p])
            BY <2>4, <3>2 DEF Waiting
        <3>5. CASE op.op = "upsert"
            <4>1. Waiting("upsert", b, queuedOps'[p])
                BY <2>4, <3>2, <3>5 DEF Waiting
            <4> QED BY <3>3, <3>5, <4>1 DEF SentOrWaits
        <3>6. CASE op.op = "delete"
            <4>1. cloud'[p][b] = Absent => Waiting("upsert", b, queuedOps'[p])
                BY <1>3, <2>1, <2>4, <3>6 DEF SentOrWaits, Waiting
            <4> QED BY <3>4, <3>6, <4>1 DEF SentOrWaits
        <3> QED BY <3>1, <3>5, <3>6
    <2> QED BY <2>2, <2>3, <2>4
<1>7. NothingUnsent'
    BY <1>6 DEF NothingUnsent, SentOrWaits, Waiting
<1> QED BY <1>4, <1>7 DEF UnsentHolds

\* What is cleared is what the server's rows show.
LEMMA ClearUnsent ==
    ASSUME BookmarksHold, KeepsBookmarks, UnsentHolds, OwnProfileOnly',
           NEW f \in Flows, ClearOps(f)
    PROVE  UnsentHolds'
<1> DEFINE p == flow[f].store
           sent == ToSet(Chunk(flow[f].pending))
<1>1. OwnProfileOnly
    BY OwnBefore
<1>2. /\ flow[f] \in Flow /\ flow \in [Flows -> Flow] /\ Fits(flow[f], minted, cloud)
      /\ queuedOps \in [BookmarkProfiles -> Seq(BookmarkOp)]
    BY DEF BookmarksHold, BookmarkTypeOK, FlowsFit
<1>3. /\ p \in BookmarkProfiles /\ flow[f].startedIn \in BookmarkProfiles
      /\ flow[f].pending \in Seq(BookmarkOp)
    BY <1>2 DEF Flow
<1>4. /\ sent \subseteq ToSet(flow[f].pending)
      /\ ToSet(Unsent(flow[f].pending)) \subseteq ToSet(flow[f].pending)
      /\ Chunk(flow[f].pending) \in Seq(BookmarkOp)
    BY <1>3, ChunkIsPart
<1>5. sent \subseteq BookmarkOp
    BY <1>4 DEF ToSet
<1>6. \A q \in BookmarkProfiles : AtHome(queuedOps[q], q)
    BY <1>1 DEF UnsentHolds, OpsAtHome
<1>7. \A h \in Flows : AtHome(flow[h].pending, flow[h].store)
    BY <1>1 DEF UnsentHolds, OpsAtHome
<1>8. ASSUME NEW op \in sent PROVE Shows(cloud[p][op.id], op)
    <2>1. Shows(cloud[flow[f].startedIn][op.id], op)
        BY <1>2 DEF Fits, IsApplied, ClearOps
    <2>2. op.id \in BookmarkIds
        BY <1>5 DEF BookmarkOp
    <2>3. Owner[op.id] = flow[f].startedIn
        BY <1>1, <1>3, <2>1, <2>2 DEF OwnProfileOnly, Shows
    <2>4. Owner[op.id] = p
        BY <1>4, <1>7 DEF AtHome
    <2> QED BY <2>1, <2>3, <2>4
<1>9. UNCHANGED <<device, cloud>>
    BY DEF ClearOps
<1>10. queuedOps' = [queuedOps EXCEPT ![p] = Without(queuedOps[p], sent)]
    BY DEF ClearOps
<1>11. flow' = [flow EXCEPT ![f] = [flow[f] EXCEPT !.phase = "sending", !.pending = Unsent(@)]]
    BY DEF ClearOps, Becomes
<1>12. /\ flow'[f].pending = Unsent(flow[f].pending) /\ flow'[f].store = p
       /\ \A h \in Flows : h # f => flow'[h] = flow[h]
    BY <1>2, <1>11 DEF Flow
<1> HIDE DEF p, sent
<1>13. /\ \A q \in BookmarkProfiles : q # p => queuedOps'[q] = queuedOps[q]
       /\ ToSet(queuedOps'[p]) = ToSet(queuedOps[p]) \ sent
    <2>1. queuedOps[p] \in Seq(BookmarkOp)
        BY <1>2, <1>3
    <2>2. ToSet(Without(queuedOps[p], sent)) = ToSet(queuedOps[p]) \ sent
        BY <2>1, WithoutIsTheRest
    <2>3. queuedOps'[p] = Without(queuedOps[p], sent) /\ \A q \in BookmarkProfiles : q # p => queuedOps'[q] = queuedOps[q]
        BY <1>2, <1>3, <1>10
    <2> QED BY <2>2, <2>3
<1>14. OpsAtHome'
    <2>1. \A q \in BookmarkProfiles : AtHome(queuedOps'[q], q)
        BY <1>6, <1>13 DEF AtHome
    <2>2. AtHome(flow'[f].pending, flow'[f].store)
        BY <1>4, <1>7, <1>12 DEF AtHome, p
    <2>3. \A h \in Flows : AtHome(flow'[h].pending, flow'[h].store)
        BY <1>7, <1>12, <2>2
    <2> QED BY <2>1, <2>3 DEF OpsAtHome
<1>15. \A q \in BookmarkProfiles, b \in BookmarkIds :
          SentOrWaits(b, device[q][b], cloud[q][b], queuedOps[q])
    BY <1>1, UnsentByRow DEF UnsentHolds
<1>16. ASSUME NEW q \in BookmarkProfiles, NEW b \in BookmarkIds
       PROVE  SentOrWaits(b, device'[q][b], cloud'[q][b], queuedOps'[q])
    <2>1. SentOrWaits(b, device[q][b], cloud[q][b], queuedOps[q])
        BY <1>15
    <2>2. CASE q # p
        BY <1>9, <1>13, <2>1, <2>2
    <2>3. CASE q = p
        <3>1. \A op \in ToSet(queuedOps[p]) : op \in ToSet(queuedOps'[p]) \/ op \in sent
            BY <1>13
        <3>2. cloud[p][b] = Absent => ~\E op \in sent : op.id = b
            BY <1>8 DEF Shows
        <3>3. ~cloud[p][b].deleted => ~\E op \in sent : op.id = b /\ op.op = "delete"
            BY <1>8 DEF Shows
        <3>4. cloud[p][b] = Absent /\ Waiting("upsert", b, queuedOps[p])
                 => Waiting("upsert", b, queuedOps'[p])
            BY <3>1, <3>2 DEF Waiting
        <3>5. ~cloud[p][b].deleted /\ Waiting("delete", b, queuedOps[p])
                 => Waiting("delete", b, queuedOps'[p])
            BY <3>1, <3>3 DEF Waiting
        <3> QED BY <1>9, <2>1, <2>3, <3>4, <3>5 DEF SentOrWaits
    <2> QED BY <2>2, <2>3
<1>17. NothingUnsent'
    BY <1>16 DEF NothingUnsent, SentOrWaits, Waiting
<1> QED BY <1>14, <1>17 DEF UnsentHolds

\* What a listing brings is on the server already.
LEMMA MergeUnsent ==
    ASSUME BookmarksHold, KeepsBookmarks, UnsentHolds, OwnProfileOnly',
           NEW f \in Flows, Merge(f)
    PROVE  UnsentHolds'
<1> DEFINE p == flow[f].store
           known == flow[f].known
<1>1. OwnProfileOnly
    BY OwnBefore
<1>2. flow \in [Flows -> Flow] /\ Fits(flow[f], minted, cloud)
    BY DEF BookmarksHold, BookmarkTypeOK, FlowsFit
<1>3. UNCHANGED <<queuedOps, cloud>> /\ flow' = [flow EXCEPT ![f] = NoFlow]
    BY DEF Merge, Becomes
<1>4. \A h \in Flows : AtHome(flow'[h].pending, flow'[h].store)
    <2>1. flow'[f].pending = <<>> /\ \A h \in Flows : h # f => flow'[h] = flow[h]
        BY <1>2, <1>3 DEF NoFlow
    <2>2. AtHome(flow'[f].pending, flow'[f].store)
        BY <2>1, NothingInNoOps DEF AtHome
    <2>3. \A h \in Flows : AtHome(flow[h].pending, flow[h].store)
        BY <1>1 DEF UnsentHolds, OpsAtHome
    <2> QED BY <2>1, <2>2, <2>3
<1>5. CASE SwitchedAway(f)
    <2>1. device' = device
        BY <1>5 DEF Merge
    <2> QED BY <1>3, <1>4, <2>1, TablesStand
<1>6. CASE ~SwitchedAway(f)
    <2>1. /\ p \in BookmarkProfiles
          /\ \A b \in BookmarkIds : device'[p][b] = Merged(device[p][b], known[b])
          /\ \A q \in BookmarkProfiles : q # p => device'[q] = device[q]
          /\ \A b \in BookmarkIds : device[p][b] \in BookmarkRow /\ known[b] \in BookmarkRow
        BY <1>6, MergeTables
    <2>2. OpsAtHome'
        BY <1>1, <1>3, <1>4 DEF UnsentHolds, OpsAtHome
    <2>3. \A q \in BookmarkProfiles, b \in BookmarkIds :
             SentOrWaits(b, device[q][b], cloud[q][b], queuedOps[q])
        BY <1>1, UnsentByRow DEF UnsentHolds
    <2>4. ASSUME NEW q \in BookmarkProfiles, NEW b \in BookmarkIds
          PROVE  SentOrWaits(b, device'[q][b], cloud'[q][b], queuedOps'[q])
        <3>1. SentOrWaits(b, device[q][b], cloud[q][b], queuedOps[q])
            BY <2>3
        <3>2. CASE q # p \/ device'[q][b] = device[q][b]
            BY <1>3, <2>1, <3>1, <3>2
        <3>3. CASE q = p /\ device'[p][b] # device[p][b]
            <4>1. device'[p][b] = known[b]
                BY <2>1, <3>3, MergedRow
            <4>2. CASE known[b] = Absent
                <5>1. device'[p][b] = Absent /\ ~Absent.deleted
                    BY <4>1, <4>2 DEF Absent
                <5> QED BY <3>3, <5>1 DEF SentOrWaits
            <4>3. CASE known[b] # Absent
                <5>1. PICK r \in BookmarkProfiles : Covers(cloud[r][b], known[b])
                    BY <1>2, <4>3 DEF Fits, HeardFrom
                <5>2. Owner[b] = r
                    BY <1>1, <5>1 DEF OwnProfileOnly, Covers
                <5>3. Owner[b] = p
                    BY <2>1, <4>1, <4>3 DEF OwnProfileOnly
                <5> QED BY <1>3, <3>3, <4>1, <5>1, <5>2, <5>3 DEF SentOrWaits, Covers
            <4> QED BY <4>2, <4>3
        <3> QED BY <3>2, <3>3
    <2>5. NothingUnsent'
        BY <2>4 DEF NothingUnsent, SentOrWaits, Waiting
    <2> QED BY <2>2, <2>5 DEF UnsentHolds
<1> QED BY <1>5, <1>6

\* The calls that begin, go on or end without touching the phone's tables.
LEMMA CallsUnsent ==
    ASSUME KeepsBookmarks, UnsentHolds, OwnProfileOnly', NEW f \in Flows,
           \A h \in Flows : h # f => flow'[h] = flow[h],
           UNCHANGED <<device, queuedOps>>,
           flow'[f].store \in BookmarkProfiles,
           \/ flow'[f].pending = flow[f].pending /\ flow'[f].store = flow[f].store
           \/ flow'[f].pending = queuedOps[flow'[f].store]
           \/ flow'[f].pending = <<>>
    PROVE  UnsentHolds'
<1>1. OwnProfileOnly
    BY OwnBefore
<1>2. /\ \A h \in Flows : AtHome(flow[h].pending, flow[h].store)
      /\ \A p \in BookmarkProfiles : AtHome(queuedOps[p], p)
    BY <1>1 DEF UnsentHolds, OpsAtHome
<1>3. AtHome(<<>>, flow'[f].store)
    BY NothingInNoOps DEF AtHome
<1>4. AtHome(flow'[f].pending, flow'[f].store)
    BY <1>2, <1>3
<1>5. \A h \in Flows : AtHome(flow'[h].pending, flow'[h].store)
    BY <1>2, <1>4
<1> QED BY <1>5, TablesStand

\* A flush or a sync begins, or a tap returns, ...
LEMMA BeginsUnsent ==
    ASSUME BookmarksHold, KeepsBookmarks, UnsentHolds, OwnProfileOnly',
           Flush \/ BareFlush \/ Sync \/ TapEnds
    PROVE  UnsentHolds'
<1>1. /\ flow \in [Flows -> Flow] /\ active \in BookmarkProfiles
      /\ "tap" \in Flows /\ "gate" \in Flows /\ flow["tap"] \in Flow
    BY DEF BookmarksHold, BookmarkTypeOK, Flows
<1>2. NoFlow \in Flow
    BY <1>1, NoFlowIsFlow
<1>3. flow' \in [Flows -> Flow]
    BY DEF KeepsBookmarks, BookmarksHold, BookmarkTypeOK
<1>4. \A h \in Flows : flow'[h].store \in BookmarkProfiles
    BY <1>3 DEF Flow
<1>5. UNCHANGED <<device, queuedOps>>
    BY DEF Flush, BareFlush, Sync, TapEnds
<1>6. CASE Flush
    <2>1. /\ flow'["tap"].pending = queuedOps[flow["tap"].store]
          /\ flow'["tap"].store = flow["tap"].store
          /\ \A h \in Flows : h # "tap" => flow'[h] = flow[h]
        BY <1>1, <1>6 DEF Flush, Becomes, Flow
    <2> QED BY <1>1, <1>4, <1>5, <2>1, CallsUnsent
<1>7. CASE BareFlush
    <2>1. /\ flow'["tap"].pending = queuedOps[active]
          /\ flow'["tap"].store = active
          /\ \A h \in Flows : h # "tap" => flow'[h] = flow[h]
        BY <1>1, <1>2, <1>7 DEF BareFlush, Becomes, Flow
    <2> QED BY <1>1, <1>4, <1>5, <2>1, CallsUnsent
<1>8. CASE Sync
    <2>1. /\ flow'["gate"].pending = queuedOps[active]
          /\ flow'["gate"].store = active
          /\ \A h \in Flows : h # "gate" => flow'[h] = flow[h]
        BY <1>1, <1>2, <1>8 DEF Sync, Becomes, Flow
    <2> QED BY <1>1, <1>4, <1>5, <2>1, CallsUnsent
<1>9. CASE TapEnds
    <2>1. /\ flow'["tap"].pending = <<>>
          /\ \A h \in Flows : h # "tap" => flow'[h] = flow[h]
        BY <1>1, <1>9 DEF TapEnds, Becomes, NoFlow
    <2> QED BY <1>1, <1>4, <1>5, <2>1, CallsUnsent
<1> QED BY <1>6, <1>7, <1>8, <1>9

\* ... a call goes on to the server and back, ...
LEMMA GoesOnUnsent ==
    ASSUME BookmarksHold, KeepsBookmarks, UnsentHolds, OwnProfileOnly',
           NEW f \in Flows, Post(f) \/ ApplyBatch(f) \/ FlushEnds(f) \/ Pull(f) \/ Cut(f)
    PROVE  UnsentHolds'
<1>1. flow \in [Flows -> Flow] /\ flow[f] \in Flow
    BY DEF BookmarksHold, BookmarkTypeOK
<1>2. flow' \in [Flows -> Flow]
    BY DEF KeepsBookmarks, BookmarksHold, BookmarkTypeOK
<1>3. flow'[f].store \in BookmarkProfiles
    BY <1>2 DEF Flow
<1>4. UNCHANGED <<device, queuedOps>>
    BY DEF Post, ApplyBatch, FlushEnds, Pull, Cut
<1>5. \A h \in Flows : h # f => flow'[h] = flow[h]
    BY <1>1 DEF Post, ApplyBatch, FlushEnds, Pull, Cut, Becomes
<1>6. \/ flow'[f].pending = flow[f].pending /\ flow'[f].store = flow[f].store
      \/ flow'[f].pending = <<>>
    <2>1. CASE Post(f)
        BY <1>1, <2>1 DEF Post, Becomes, Flow
    <2>2. CASE ApplyBatch(f)
        BY <1>1, <2>2 DEF ApplyBatch, Becomes, Flow
    <2>3. CASE FlushEnds(f)
        BY <1>1, <2>3 DEF FlushEnds, Becomes, Flow
    <2>4. CASE Pull(f)
        BY <1>1, <2>4 DEF Pull, Becomes, Flow
    <2>5. CASE Cut(f)
        <3>1. CASE flow[f].phase = "heard"
            BY <1>1, <2>5, <3>1 DEF Cut, Becomes, NoFlow
        <3>2. CASE flow[f].phase # "heard"
            BY <1>1, <2>5, <3>2 DEF Cut, Becomes, Flow
        <3> QED BY <3>1, <3>2
    <2> QED BY <2>1, <2>2, <2>3, <2>4, <2>5
<1> QED BY <1>3, <1>4, <1>5, <1>6, CallsUnsent

\* ... a kill, a switch, another device: what waits on the phone still waits.
LEMMA ApartUnsent ==
    ASSUME BookmarksHold, KeepsBookmarks, UnsentHolds, OwnProfileOnly',
           \/ KillApp
           \/ \E p \in BookmarkProfiles : Switch(p)
           \/ \E op \in BookmarkOp : Elsewhere(op)
    PROVE  UnsentHolds'
<1>1. UNCHANGED <<device, queuedOps>>
    BY DEF KillApp, Switch, Elsewhere
<1>2. OwnProfileOnly
    BY OwnBefore
<1>3. \A f \in Flows : AtHome(flow[f].pending, flow[f].store)
    BY <1>2 DEF UnsentHolds, OpsAtHome
<1>4. \A f \in Flows : flow'[f].pending = <<>> \/ flow'[f] = flow[f]
    BY DEF KillApp, Switch, Elsewhere, NoFlow
<1>5. \A f \in Flows : AtHome(<<>>, flow'[f].store)
    BY NothingInNoOps DEF AtHome
<1>6. \A f \in Flows : AtHome(flow'[f].pending, flow'[f].store)
    BY <1>3, <1>4, <1>5
<1> QED BY <1>1, <1>6, TablesStand

\* Every step of the system keeps what is unsent waiting.
LEMMA StepUnsent ==
    ASSUME BookmarksHold, UnsentHolds, BookmarkNext
    PROVE  UnsentHolds'
<1> KeepsBookmarks
    BY StepKeeps
<1>1. CASE ~OwnProfileOnly'
    BY <1>1 DEF UnsentHolds, OpsAtHome, NothingUnsent
<1>2. CASE OwnProfileOnly'
    <2>1. OwnProfileOnly /\ active \in BookmarkProfiles
        BY <1>2, OwnBefore DEF BookmarksHold, BookmarkTypeOK
    <2>2. ASSUME NEW b \in BookmarkIds, NEW t \in Stamps, AddBookmark(b, t) PROVE UnsentHolds'
        <3> DEFINE op == [op |-> "upsert", id |-> b, at |-> t]
        <3>1. op \in BookmarkOp /\ op.id = b /\ op.op = "upsert"
            BY DEF BookmarkOp
        <3>2. /\ Record(active, op) /\ Owner[b] = active /\ b \notin minted
              /\ flow' = [flow EXCEPT !["tap"] = [NoFlow EXCEPT !.phase = "saved", !.store = active]]
              /\ UNCHANGED cloud
            BY <2>2 DEF AddBookmark, Becomes
        <3>3. device[active][b] = Absent
            BY <2>1, <3>2 DEF BookmarksHold, MintedFirst
        <3>4. ~device[active][b].deleted
            BY <3>3 DEF Absent
        <3> HIDE DEF op
        <3> QED BY <1>2, <3>1, <3>2, <3>4, TapUnsent
    <2>3. ASSUME NEW b \in BookmarkIds, NEW t \in Stamps, Unbookmark(b, t) PROVE UnsentHolds'
        <3> DEFINE op == [op |-> "delete", id |-> b, at |-> t]
        <3>1. op \in BookmarkOp /\ op.id = b /\ op.op = "delete"
            BY DEF BookmarkOp
        <3>2. /\ Record(active, op) /\ device[active][b] # Absent /\ ~device[active][b].deleted
              /\ flow' = [flow EXCEPT !["tap"] = [NoFlow EXCEPT !.phase = "saved", !.store = active]]
              /\ UNCHANGED cloud
            BY <2>3 DEF Unbookmark, Becomes
        <3>3. Owner[b] = active
            BY <2>1, <3>2 DEF OwnProfileOnly
        <3> HIDE DEF op
        <3> QED BY <1>2, <3>1, <3>2, <3>3, TapUnsent
    <2>4. CASE Flush \/ BareFlush \/ Sync \/ TapEnds
        BY <1>2, <2>4, BeginsUnsent
    <2>5. ASSUME NEW f \in Flows, FlowStep(f) \/ Cut(f) PROVE UnsentHolds'
        BY <1>2, <2>5, GoesOnUnsent, ClearUnsent, MergeUnsent DEF FlowStep
    <2>6. CASE \/ KillApp
               \/ \E p \in BookmarkProfiles : Switch(p)
               \/ \E op \in BookmarkOp : Elsewhere(op)
        BY <1>2, <2>6, ApartUnsent
    <2> QED BY <2>2, <2>3, <2>4, <2>5, <2>6 DEF BookmarkNext
<1> QED BY <1>1, <1>2

\* While no bookmark has reached another profile's tables, what the phone shows
\* and the server does not is still in the outbox: a lost answer, a kill or a
\* chunk refused half way through never forgets a tap.
THEOREM WhatIsUnsentWaits == BookmarkSpec => []NothingUnsent
<1>1. BookmarkInit => UnsentHolds
    <2> SUFFICES ASSUME BookmarkInit PROVE UnsentHolds
        OBVIOUS
    <2>1. /\ \A p \in BookmarkProfiles : queuedOps[p] = <<>>
          /\ \A f \in Flows : flow[f].pending = <<>>
          /\ \A p \in BookmarkProfiles, b \in BookmarkIds : device[p][b] = Absent
        BY DEF BookmarkInit, NoFlow
    <2>2. ~Absent.deleted
        BY DEF Absent
    <2>3. OpsAtHome
        BY <2>1, NothingInNoOps DEF OpsAtHome, AtHome
    <2>4. NothingUnsent
        BY <2>1, <2>2 DEF NothingUnsent
    <2> QED BY <2>3, <2>4 DEF UnsentHolds
<1>2. BookmarksHold /\ UnsentHolds /\ [BookmarkNext]_bookmarkVars => UnsentHolds'
    <2>1. CASE UNCHANGED bookmarkVars
        <3>1. UnsentHolds => UnsentHolds'
            BY <2>1 DEF bookmarkVars, UnsentHolds, OpsAtHome, NothingUnsent, OwnProfileOnly
        <3> QED BY <3>1
    <2> QED BY <2>1, StepUnsent
<1>3. UnsentHolds => NothingUnsent
    BY DEF UnsentHolds
<1> QED BY <1>1, <1>2, <1>3, BookmarksAlwaysHold, PTL DEF BookmarkSpec
=============================================================================

--------------------------- MODULE SeqFilterProofs ---------------------------
(***************************************************************************)
(* What Keeping keeps, for every sequence and every set; and, for the      *)
(* recursive functions of this and other modules, induction and recursion  *)
(* over numbers in a form without an operator parameter, which is the one  *)
(* the provers can use.                                                    *)
(***************************************************************************)
EXTENDS SeqFilter, SequencesExt, FiniteSetTheorems, WellFoundedInduction, TLAPS

-----------------------------------------------------------------------------
(* Numbers and recursive functions. *)


\* Below, as a set of pairs.
NatBefore == {pair \in Nat \X Nat : pair[1] < pair[2]}

\* Numbers have no infinite descent: the library's fact, for the set of pairs.
LEMMA NatBeforeIsWellFounded == IsWellFoundedOn(NatBefore, Nat)
BY NatLessThanWellFounded DEF OpToRel, NatBefore

\* Every nonempty set of numbers has a least one.
LEMMA LeastNumber ==
    ASSUME NEW T \in SUBSET Nat, T # {}
    PROVE  \E m \in T : \A n \in T : m <= n
<1>1. PICK m \in T : \A n \in T : <<n, m>> \notin NatBefore
    BY NatBeforeIsWellFounded, WFMin
<1>2. ASSUME NEW n \in T PROVE m <= n
    <2>1. ~(n < m)
        BY <1>1 DEF NatBefore
    <2>2. m \in Nat /\ n \in Nat
        OBVIOUS
    <2> HIDE <1>1
    <2> QED BY <2>1, <2>2
<1> QED BY <1>2

\* A set of numbers with 0 and, with each, the next one is all of them: induction
\* without an operator parameter, so the provers can use it.
LEMMA SetInduction ==
    ASSUME NEW T \in SUBSET Nat, 0 \in T, \A n \in T : n + 1 \in T
    PROVE  T = Nat
<1> SUFFICES ASSUME Nat \ T # {} PROVE FALSE
    OBVIOUS
<1>1. Nat \ T \in SUBSET Nat
    OBVIOUS
<1>2. PICK m \in Nat \ T : \A n \in Nat \ T : m <= n
    BY <1>1, LeastNumber
<1>3. m - 1 \in Nat /\ m - 1 + 1 = m /\ ~(m <= m - 1)
    OBVIOUS
<1>4. m - 1 \in T
    BY <1>2, <1>3
<1> QED BY <1>3, <1>4

\* One step of a recursion for each of its N indices, and the runs of values that
\* begin with c and follow the steps.
Steps(N, X) == [1..N -> [X -> X]]
Courses(N, X, c, step) ==
    {h \in [0..N -> X] : h[0] = c /\ \A n \in 1..N : h[n] = step[n][h[n - 1]]}

\* A recursive definition over 0..N has a value: the run that follows its steps.
LEMMA Recursion ==
    ASSUME NEW N \in Nat, NEW X, NEW c \in X, NEW step \in Steps(N, X)
    PROVE  Courses(N, X, c, step) # {}
<1> DEFINE Upto(m) == \E h \in [0..m -> X] : h[0] = c /\ \A n \in 1..m : h[n] = step[n][h[n - 1]]
           R == {m \in Nat : m <= N => Upto(m)}
<1>1. Upto(0)
    <2>1. [n \in 0..0 |-> c] \in [0..0 -> X] /\ [n \in 0..0 |-> c][0] = c /\ 1..0 = {}
        OBVIOUS
    <2> QED BY <2>1
<1>2. ASSUME NEW m \in Nat, m + 1 <= N, Upto(m) PROVE Upto(m + 1)
    <2>1. PICK h \in [0..m -> X] : h[0] = c /\ \A n \in 1..m : h[n] = step[n][h[n - 1]]
        BY <1>2
    <2> DEFINE g == [n \in 0..(m + 1) |-> IF n = m + 1 THEN step[m + 1][h[m]] ELSE h[n]]
    <2>2. m + 1 \in 1..N /\ m \in 0..m /\ \A n \in 0..(m + 1) : n # m + 1 => n \in 0..m
        BY <1>2
    <2>3. step[m + 1] \in [X -> X] /\ h[m] \in X
        BY <2>2 DEF Steps
    <2>4. step[m + 1][h[m]] \in X
        BY <2>3
    <2>5. g \in [0..(m + 1) -> X]
        BY <2>2, <2>4
    <2>6. 0 \in 0..(m + 1) /\ 0 # m + 1 /\ g[0] = c
        BY <2>1
    <2>7. ASSUME NEW n \in 1..(m + 1) PROVE g[n] = step[n][g[n - 1]]
        <3>1. n \in 0..(m + 1) /\ n - 1 \in 0..(m + 1) /\ n - 1 # m + 1
            OBVIOUS
        <3>2. g[n - 1] = h[n - 1]
            BY <3>1
        <3>3. CASE n = m + 1
            <4>1. n - 1 = m
                BY <3>3
            <4> QED BY <3>1, <3>2, <3>3, <4>1
        <3>4. CASE n # m + 1
            <4>1. n \in 1..m
                BY <3>4
            <4>2. h[n] = step[n][h[n - 1]]
                BY <2>1, <4>1
            <4> QED BY <3>1, <3>2, <3>4, <4>2
        <3> QED BY <3>3, <3>4
    <2> HIDE DEF g
    <2> QED BY <2>5, <2>6, <2>7
<1> HIDE DEF Upto
<1>3. R = Nat
    <2>1. R \in SUBSET Nat /\ 0 \in R
        BY <1>1
    <2>2. \A m \in R : m + 1 \in R
        BY <1>2
    <2> HIDE DEF R
    <2> QED BY <2>1, <2>2, SetInduction
<1>4. Upto(N)
    BY <1>3
<1> QED BY <1>4 DEF Upto, Courses
-----------------------------------------------------------------------------
(* Filters. *)

\* An appended element is one more.
LEMMA AppendAdds ==
    ASSUME NEW X, NEW q \in Seq(X), NEW x \in X
    PROVE  ToSet(Append(q, x)) = ToSet(q) \cup {x}
<1> DEFINE longer == Append(q, x)
<1>1. /\ DOMAIN longer = 1..(Len(q) + 1) /\ DOMAIN q = 1..Len(q) /\ Len(q) \in Nat
      /\ \A i \in 1..Len(q) : longer[i] = q[i]
      /\ longer[Len(q) + 1] = x
    OBVIOUS
<1> HIDE DEF longer
<1>2. 1..(Len(q) + 1) = 1..Len(q) \cup {Len(q) + 1}
    BY <1>1
<1>3. ASSUME NEW y PROVE y \in ToSet(longer) <=> y \in ToSet(q) \cup {x}
    BY <1>1, <1>2 DEF ToSet
<1>4. ToSet(longer) = ToSet(q) \cup {x}
    BY <1>3
<1> QED BY <1>4 DEF longer

\* Keeping keeps exactly the elements in S.
LEMMA KeepingIsThePart ==
    ASSUME NEW X, NEW seq \in Seq(X), NEW S
    PROVE  /\ Keeping(seq, S) \in Seq(X)
           /\ ToSet(Keeping(seq, S)) = ToSet(seq) \cap S
<1> DEFINE N == Len(seq)
           Step == [n \in 1..N |-> [q \in Seq(X) |->
                      IF seq[n] \in S THEN Append(q, seq[n]) ELSE q]]
           kept == CHOOSE g : g = [n \in 0..N |-> IF n = 0 THEN <<>>
                      ELSE IF seq[n] \in S THEN Append(g[n - 1], seq[n]) ELSE g[n - 1]]
<1>1. N \in Nat /\ \A n \in 1..N : seq[n] \in X
    OBVIOUS
<1>2. Step \in Steps(N, Seq(X))
    BY <1>1 DEF Steps
<1>3. PICK h \in [0..N -> Seq(X)] :
          h[0] = <<>> /\ \A n \in 1..N : h[n] = Step[n][h[n - 1]]
    <2>1. N \in Nat /\ <<>> \in Seq(X)
        OBVIOUS
    <2> HIDE DEF N, Step
    <2>2. Courses(N, Seq(X), <<>>, Step) # {}
        BY <1>2, <2>1, Recursion
    <2> QED BY <2>2 DEF Courses
<1>4. ASSUME NEW n \in 1..N
      PROVE  h[n] = IF seq[n] \in S THEN Append(h[n - 1], seq[n]) ELSE h[n - 1]
    <2>1. n - 1 \in 0..N
        BY <1>1
    <2>2. h[n - 1] \in Seq(X)
        BY <2>1
    <2> QED BY <1>3, <2>2
<1>5. h = [n \in 0..N |-> IF n = 0 THEN <<>>
             ELSE IF seq[n] \in S THEN Append(h[n - 1], seq[n]) ELSE h[n - 1]]
    <2>1. \A n \in 0..N : n # 0 => n \in 1..N
        BY <1>1
    <2> HIDE DEF N, Step
    <2> QED BY <1>3, <1>4, <2>1
<1>6. kept = [n \in 0..N |-> IF n = 0 THEN <<>>
                ELSE IF seq[n] \in S THEN Append(kept[n - 1], seq[n]) ELSE kept[n - 1]]
    BY <1>5
<1>7. Keeping(seq, S) = kept[N]
    BY DEF Keeping
<1> HIDE DEF kept
<1>8. 0 \in 0..N /\ \A n \in 1..N : n \in 0..N /\ n # 0
    BY <1>1
<1>9. kept[0] = <<>>
    BY <1>6, <1>8
<1>10. ASSUME NEW n \in 1..N
       PROVE  kept[n] = IF seq[n] \in S THEN Append(kept[n - 1], seq[n]) ELSE kept[n - 1]
    BY <1>6, <1>8
<1> DEFINE Seen(n) == {seq[i] : i \in 1..n}
           Kept(n) == kept[n] \in Seq(X) /\ ToSet(kept[n]) = Seen(n) \cap S
           T == {n \in Nat : n <= N => Kept(n)}
<1>11. 0 \in T
    <2>1. Seen(0) = {}
        OBVIOUS
    <2>2. <<>> \in Seq(X) /\ ToSet(<<>>) = {}
        BY DEF ToSet
    <2>3. Kept(0)
        BY <1>9, <2>1, <2>2
    <2> HIDE DEF Kept
    <2> QED BY <2>3
<1>12. ASSUME NEW n \in T PROVE n + 1 \in T
    <2> SUFFICES ASSUME n + 1 <= N PROVE Kept(n + 1)
        OBVIOUS
    <2>1. n \in Nat /\ n + 1 \in 1..N /\ (n + 1) - 1 = n /\ Kept(n)
        BY <1>1
    <2>2. Seen(n + 1) = Seen(n) \cup {seq[n + 1]}
        <3>1. 1..(n + 1) = 1..n \cup {n + 1}
            BY <2>1
        <3> QED BY <3>1
    <2>3. CASE seq[n + 1] \notin S
        <3>1. kept[n + 1] = kept[n]
            BY <1>10, <2>1, <2>3
        <3>2. Seen(n + 1) \cap S = Seen(n) \cap S
            BY <2>2, <2>3
        <3> QED BY <2>1, <3>1, <3>2
    <2>4. CASE seq[n + 1] \in S
        <3>1. kept[n + 1] = Append(kept[n], seq[n + 1])
            BY <1>10, <2>1, <2>4
        <3>2. kept[n] \in Seq(X) /\ seq[n + 1] \in X
            BY <1>1, <2>1
        <3>3. ToSet(Append(kept[n], seq[n + 1])) = ToSet(kept[n]) \cup {seq[n + 1]}
            BY <3>2, AppendAdds
        <3>4. Seen(n + 1) \cap S = (Seen(n) \cap S) \cup {seq[n + 1]}
            BY <2>2, <2>4
        <3> QED BY <2>1, <3>1, <3>2, <3>3, <3>4
    <2> QED BY <2>3, <2>4
<1>13. T = Nat
    <2> HIDE DEF T
    <2>1. T \in SUBSET Nat
        BY DEF T
    <2> QED BY <1>11, <1>12, <2>1, SetInduction
<1>14. Kept(N)
    <2> HIDE DEF Kept
    <2>1. N \in T /\ N <= N
        BY <1>1, <1>13
    <2> QED BY <2>1
<1>15. Seen(N) = ToSet(seq)
    BY DEF ToSet
<1> QED BY <1>7, <1>14, <1>15

-----------------------------------------------------------------------------
(* Sets as sequences. *)

\* What is in a concatenation is in one of its parts.
LEMMA ConcatenationHasBoth ==
    ASSUME NEW X, NEW s \in Seq(X), NEW t \in Seq(X)
    PROVE  s \o t \in Seq(X) /\ ToSet(s \o t) = ToSet(s) \cup ToSet(t)
<1> DEFINE st == s \o t
<1>1. /\ st \in Seq(X) /\ Len(s) \in Nat /\ Len(t) \in Nat
      /\ DOMAIN s = 1..Len(s) /\ DOMAIN t = 1..Len(t) /\ DOMAIN st = 1..(Len(s) + Len(t))
      /\ \A i \in 1..(Len(s) + Len(t)) :
            st[i] = IF i <= Len(s) THEN s[i] ELSE t[i - Len(s)]
    OBVIOUS
<1> HIDE DEF st
<1>2. \A i \in DOMAIN s : i \in DOMAIN st /\ st[i] = s[i]
    BY <1>1
<1>3. \A i \in DOMAIN t : i + Len(s) \in DOMAIN st /\ st[i + Len(s)] = t[i]
    BY <1>1
<1>4. \A i \in DOMAIN st : (i \in DOMAIN s /\ st[i] = s[i])
                            \/ (i - Len(s) \in DOMAIN t /\ st[i] = t[i - Len(s)])
    BY <1>1
<1>5. ToSet(st) = ToSet(s) \cup ToSet(t)
    BY <1>2, <1>3, <1>4 DEF ToSet
<1> QED BY <1>1, <1>5 DEF st

\* SetToSeq lists a finite set: the sequence it chooses exists.
LEMMA ListHasAll ==
    ASSUME NEW S, IsFiniteSet(S)
    PROVE  SetToSeq(S) \in Seq(S) /\ ToSet(SetToSeq(S)) = S
<1> DEFINE n == Cardinality(S)
           list == SetToSeq(S)
<1>1. n \in Nat /\ ExistsBijection(1..n, S)
    BY FS_CardinalityType
<1>2. \E f \in [1..n -> S] : IsInjective(f)
    BY <1>1 DEF ExistsBijection, Bijection, Injection
<1>3. list \in [1..n -> S] /\ IsInjective(list)
    BY <1>2 DEF SetToSeq
<1> HIDE DEF list
<1>4. list \in Injection(1..n, S)
    BY <1>3 DEF Injection
<1>5. IsFiniteSet(1..n) /\ Cardinality(1..n) = n
    <2>1. 1 \in Int /\ n \in Int
        BY <1>1
    <2>2. IsFiniteSet(1..n) /\ Cardinality(1..n) = IF 1 > n THEN 0 ELSE n - 1 + 1
        BY <2>1, FS_Interval
    <2> QED BY <1>1, <2>2
<1>6. list \in Surjection(1..n, S)
    BY <1>4, <1>5, FS_Injection
<1>7. list \in Seq(S) /\ DOMAIN list = 1..n
    BY <1>1, <1>3
<1>8. \A x \in S : \E i \in 1..n : list[i] = x
    BY <1>6 DEF Surjection
<1>9. \A i \in 1..n : list[i] \in S
    BY <1>3
<1>10. ToSet(list) = S
    BY <1>7, <1>8, <1>9 DEF ToSet
<1> QED BY <1>7, <1>10 DEF list
=============================================================================

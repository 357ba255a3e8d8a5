--------------------------- MODULE SequenceLemmas ---------------------------
(***************************************************************************)
(* What several proofs need of numbers, finite sets and sequences, and     *)
(* what FlattenSeq returns.                                                *)
(*                                                                         *)
(* The induction theorems of the library take an operator, which no prover *)
(* can instantiate; SetInduction takes a set of numbers instead.  A        *)
(* function that is recursive over indices is replaced by the sequence of  *)
(* its intermediate results, of which RunExists says that there is one.    *)
(***************************************************************************)
EXTENDS Integers, SequencesExt, FiniteSetTheorems, FunctionTheorems, SequenceTheorems,
        WellFoundedInduction, TLAPS

-----------------------------------------------------------------------------
(* Numbers.                                                                *)


\* Every non-empty set of numbers has a least element.
LEMMA LeastElement ==
  ASSUME NEW T \in SUBSET Nat, T # {}
  PROVE  \E n \in T : \A m \in T : n <= m
<1> DEFINE R == OpToRel(<, Nat)
<1>1. IsWellFoundedOn(R, Nat)
  BY NatLessThanWellFounded
<1>2. \A m, n \in Nat : <<m, n>> \in R <=> m < n
  BY DEF OpToRel
<1> HIDE DEF R
<1>3. PICK n \in T : \A m \in T : ~(<<m, n>> \in R)
  BY <1>1, WFMin
<1>4. \A m \in T : ~(m < n)
  BY <1>2, <1>3
<1> QED
  BY <1>4

\* Whatever set has 0 and the successors of its numbers has them all.
LEMMA SetInduction ==
  ASSUME NEW S, 0 \in S, \A n \in Nat : n \in S => n + 1 \in S
  PROVE  Nat \subseteq S
<1>1. SUFFICES ASSUME Nat \ S # {} PROVE FALSE
  OBVIOUS
<1>2. PICK n \in Nat \ S : \A m \in Nat \ S : n <= m
  BY <1>1, LeastElement
<1> QED
  BY <1>2

\* The same of Min.
LEMMA MinOfSet ==
  ASSUME NEW T \in SUBSET Nat, T # {}
  PROVE  Min(T) \in T /\ \A m \in T : Min(T) <= m
<1>1. \E n \in T : \A m \in T : n <= m
  BY LeastElement
<1> QED
  BY <1>1 DEF Min

LEMMA MinOfTwo ==
  ASSUME NEW a \in Nat, NEW b \in Nat
  PROVE  Min({a, b}) \in Nat /\ Min({a, b}) <= a /\ Min({a, b}) <= b /\ Min({a, b}) \in {a, b}
<1>1. \E x \in {a, b} : \A y \in {a, b} : x <= y
  <2>1. CASE a <= b
    BY <2>1
  <2>2. CASE b <= a
    BY <2>2
  <2> QED
    BY <2>1, <2>2
<1>2. Min({a, b}) \in {a, b} /\ \A y \in {a, b} : Min({a, b}) <= y
  BY <1>1 DEF Min
<1> QED
  BY <1>2

\* A finite set in which of any two elements one comes first: counting what does
\* not come after an element numbers them from one to the last.
LEMMA RanksEnumerate ==
  ASSUME NEW D, IsFiniteSet(D), NEW UpTo \in [D -> SUBSET D], \A i \in D : i \in UpTo[i],
         \A i, j \in D : i # j => \/ UpTo[i] \subseteq UpTo[j] /\ j \notin UpTo[i]
                                  \/ UpTo[j] \subseteq UpTo[i] /\ i \notin UpTo[j]
  PROVE  /\ Cardinality(D) \in Nat
         /\ \A i \in D : Cardinality(UpTo[i]) \in 1 .. Cardinality(D)
         /\ \A i, j \in D : Cardinality(UpTo[i]) = Cardinality(UpTo[j]) => i = j
         /\ \A i, j \in D : j \notin UpTo[i] => Cardinality(UpTo[i]) < Cardinality(UpTo[j])
         /\ \A n \in 1 .. Cardinality(D) : \E i \in D : Cardinality(UpTo[i]) = n
<1> DEFINE c == Cardinality(D)
           rank == [i \in D |-> Cardinality(UpTo[i])]
<1>1. c \in Nat
  BY FS_CardinalityType
<1>2. ASSUME NEW i \in D
      PROVE  IsFiniteSet(UpTo[i]) /\ Cardinality(UpTo[i]) \in 1 .. c
  <2>1. UpTo[i] \subseteq D /\ i \in UpTo[i]
    OBVIOUS
  <2>2. IsFiniteSet(UpTo[i]) /\ Cardinality(UpTo[i]) <= c /\ Cardinality(UpTo[i]) \in Nat
    BY <2>1, FS_Subset, FS_CardinalityType
  <2>3. Cardinality(UpTo[i]) # 0
    BY <2>1, <2>2, FS_EmptySet
  <2> QED
    BY <1>1, <2>2, <2>3
<1>3. ASSUME NEW i \in D, NEW j \in D, j \notin UpTo[i]
      PROVE  Cardinality(UpTo[i]) < Cardinality(UpTo[j])
  <2>1. i # j
    BY <1>3
  <2>2. UpTo[i] \subseteq UpTo[j] /\ j \in UpTo[j]
    BY <1>3, <2>1
  <2>3. IsFiniteSet(UpTo[j]) /\ Cardinality(UpTo[i]) \in Nat /\ Cardinality(UpTo[j]) \in Nat
    BY <1>1, <1>2
  <2>4. Cardinality(UpTo[i]) <= Cardinality(UpTo[j]) /\ Cardinality(UpTo[i]) # Cardinality(UpTo[j])
    BY <1>3, <2>2, <2>3, FS_Subset
  <2> QED
    BY <2>3, <2>4
<1>4. ASSUME NEW i \in D, NEW j \in D, Cardinality(UpTo[i]) = Cardinality(UpTo[j])
      PROVE  i = j
  <2>1. SUFFICES ASSUME i # j PROVE FALSE
    OBVIOUS
  <2>2. Cardinality(UpTo[i]) < Cardinality(UpTo[j]) \/ Cardinality(UpTo[j]) < Cardinality(UpTo[i])
    BY <1>3, <2>1
  <2>3. Cardinality(UpTo[i]) \in Nat /\ Cardinality(UpTo[j]) \in Nat
    BY <1>1, <1>2
  <2> QED
    BY <1>4, <2>2, <2>3
<1>5. rank \in Surjection(D, 1 .. c)
  <2>1. rank \in [D -> 1 .. c] /\ \A i, j \in D : rank[i] = rank[j] => i = j
    BY <1>2, <1>4
  <2>2. rank \in Injection(D, 1 .. c)
    BY <2>1, Fun_IsInj
  <2>3. IsFiniteSet(1 .. c) /\ Cardinality(1 .. c) = c
    BY <1>1, FS_Interval
  <2> QED
    BY <2>2, <2>3, FS_Injection
<1>6. \A n \in 1 .. c : \E i \in D : rank[i] = n
  BY <1>5 DEF Surjection
<1> QED
  BY <1>1, <1>2, <1>3, <1>4, <1>6

-----------------------------------------------------------------------------
(* Sequences.                                                              *)


LEMMA SequenceOfFunction ==
  ASSUME NEW S, NEW n \in Nat, NEW f \in [1 .. n -> S]
  PROVE  f \in Seq(S) /\ Len(f) = n /\ DOMAIN f = 1 .. n
OBVIOUS

LEMMA Appended ==
  ASSUME NEW S, NEW s \in Seq(S), NEW e \in S
  PROVE  /\ Append(s, e) \in Seq(S)
         /\ Len(s) \in Nat /\ Len(Append(s, e)) = Len(s) + 1
         /\ DOMAIN s = 1 .. Len(s) /\ DOMAIN Append(s, e) = 1 .. Len(s) + 1
         /\ Append(s, e)[Len(s) + 1] = e
         /\ \A k \in DOMAIN s : Append(s, e)[k] = s[k]
         /\ Last(Append(s, e)) = e
         /\ Front(Append(s, e)) = s
         /\ ToSet(Append(s, e)) = ToSet(s) \cup {e}
<1>1. /\ Append(s, e) \in Seq(S)
      /\ Len(s) \in Nat /\ Len(Append(s, e)) = Len(s) + 1
      /\ DOMAIN s = 1 .. Len(s) /\ DOMAIN Append(s, e) = 1 .. Len(s) + 1
      /\ Append(s, e)[Len(s) + 1] = e
      /\ \A k \in DOMAIN s : Append(s, e)[k] = s[k]
  OBVIOUS
<1>2. Last(Append(s, e)) = e
  BY <1>1 DEF Last
<1>3. Front(Append(s, e)) = s
  <2> DEFINE t == Append(s, e)
             f == SubSeq(t, 1, Len(s))
  <2>1. f \in Seq(S) /\ Len(f) = Len(s) /\ \A k \in 1 .. Len(s) : f[k] = t[k]
    BY <1>1
  <2>2. f = s
    BY <1>1, <2>1
  <2> QED
    BY <1>1, <2>2 DEF Front
<1>4. ToSet(Append(s, e)) = ToSet(s) \cup {e}
  <2>1. 1 .. Len(s) + 1 = 1 .. Len(s) \cup {Len(s) + 1}
    BY <1>1
  <2> QED
    BY <1>1, <2>1 DEF ToSet
<1> QED
  BY <1>1, <1>2, <1>3, <1>4

-----------------------------------------------------------------------------
(* Recursion over indices, and FlattenSeq.                                 *)


\* A run of n steps through the elements of T.
Steps(T, n) == [1 .. n -> [T -> T]]

IsRun(f, T, first, n, step) ==
  /\ f \in [0 .. n -> T]
  /\ f[0] = first
  /\ \A i \in 1 .. n : f[i] = step[i][f[i - 1]]

LEMMA RunExists ==
  ASSUME NEW T, NEW first \in T, NEW n \in Nat, NEW step \in Steps(T, n)
  PROVE  \E f : IsRun(f, T, first, n, step)
<1> USE DEF Steps
<1> DEFINE Solves(f, k) == f[0] = first /\ \A i \in 1 .. k : f[i] = step[i][f[i - 1]]
           Solvable(k) == \E f \in [0 .. k -> T] : Solves(f, k)
           K == {k \in Nat : k <= n => Solvable(k)}
<1>1. Solvable(0)
  <2>1. [i \in 0 .. 0 |-> first] \in [0 .. 0 -> T] /\ Solves([i \in 0 .. 0 |-> first], 0)
    OBVIOUS
  <2> QED
    BY <2>1
<1>2. ASSUME NEW k \in Nat, k + 1 <= n, Solvable(k)
      PROVE  Solvable(k + 1)
  <2>1. PICK f \in [0 .. k -> T] : Solves(f, k)
    BY <1>2
  <2> DEFINE x == step[k + 1][f[k]]
             g == [i \in 0 .. k + 1 |-> IF i = k + 1 THEN x ELSE f[i]]
  <2>2. x \in T
    <3>1. k + 1 \in 1 .. n /\ f[k] \in T
      BY <1>2
    <3> QED
      BY <3>1
  <2> HIDE DEF x
  <2>3. g \in [0 .. k + 1 -> T] /\ g[k + 1] = x /\ \A i \in 0 .. k : g[i] = f[i]
    BY <2>2
  <2> HIDE DEF g
  <2>4. g[0] = first
    BY <2>1, <2>3
  <2>5. ASSUME NEW i \in 1 .. k + 1
        PROVE  g[i] = step[i][g[i - 1]]
    <3>1. i - 1 \in 0 .. k /\ g[i - 1] = f[i - 1]
      BY <2>3
    <3>2. CASE i = k + 1
      BY <2>3, <3>1, <3>2 DEF x
    <3>3. CASE i \in 1 .. k
      BY <2>1, <2>3, <3>1, <3>3
    <3> QED
      BY <3>2, <3>3
  <2> QED
    BY <2>3, <2>4, <2>5
<1> HIDE DEF Solvable
<1>3. 0 \in K /\ \A k \in Nat : k \in K => k + 1 \in K
  BY <1>1, <1>2
<1>4. n \in K
  <2> HIDE DEF K
  <2> QED
    BY <1>3, SetInduction
<1> QED
  BY <1>4 DEF Solvable, IsRun

\* Whatever concatenates from the left computes FlattenSeq.
LEMMA FlattenIterates ==
  ASSUME NEW S, NEW seqs \in Seq(Seq(S)), seqs # <<>>,
         NEW f \in [0 .. Len(seqs) -> Seq(S)],
         f[0] = <<>>,
         \A i \in 1 .. Len(seqs) : f[i] = f[i - 1] \o seqs[i]
  PROVE  FlattenSeq(seqs) = f[Len(seqs)]
<1> DEFINE n == Len(seqs)
           Body(g, i) == IF i = 1 THEN seqs[i] ELSE g[i - 1] \o seqs[i]
           flatten == CHOOSE g : g = [i \in 1 .. n |-> Body(g, i)]
           g0 == [i \in 1 .. n |-> f[i]]
<1>1. n \in Nat \ {0} /\ \A i \in 1 .. n : seqs[i] \in Seq(S)
  OBVIOUS
<1>2. \A i \in 1 .. n : \A x \in Seq(S) : x \o seqs[i] \in Seq(S)
  BY <1>1
<1>3. f[1] = seqs[1]
  <2>1. 1 \in 1 .. n /\ 1 - 1 = 0
    BY <1>1
  <2>2. f[1] = f[1 - 1] \o seqs[1] /\ seqs[1] \in Seq(S)
    BY <1>1, <2>1
  <2> QED
    BY <2>1, <2>2, ConcatEmptySeq
<1>4. ASSUME NEW i \in 1 .. n
      PROVE  f[i] = Body(g0, i)
  <2>1. CASE i = 1
    BY <1>3, <2>1
  <2>2. CASE i # 1
    <3>1. i - 1 \in 1 .. n
      BY <2>2
    <3> QED
      BY <2>2, <3>1
  <2> QED
    BY <2>1, <2>2
<1>5. g0 = [i \in 1 .. n |-> Body(g0, i)]
  BY <1>4, Zenon
<1>6. flatten = [i \in 1 .. n |-> Body(flatten, i)]
  BY <1>5, Zenon
<1>7. FlattenSeq(seqs) = flatten[n]
  BY <1>1, Zenon DEF FlattenSeq
<1> HIDE DEF flatten
<1>8. \A i \in 1 .. n : flatten[i] = Body(flatten, i)
  BY <1>6, Zenon
<1>9. ASSUME NEW i \in 1 .. n, flatten[i - 1] = f[i - 1] \/ i = 1
      PROVE  flatten[i] = f[i]
  <2>1. CASE i = 1
    BY <1>3, <1>8, <2>1
  <2>2. CASE i # 1
    BY <1>8, <1>9, <2>2
  <2> QED
    BY <2>1, <2>2
<1> DEFINE K == {k \in Nat : k < n => flatten[k + 1] = f[k + 1]}
<1>10. 0 \in K
  BY <1>1, <1>9
<1>11. ASSUME NEW k \in Nat, k \in K
       PROVE  k + 1 \in K
  <2>1. SUFFICES ASSUME k + 1 < n PROVE flatten[(k + 1) + 1] = f[(k + 1) + 1]
    OBVIOUS
  <2>2. (k + 1) + 1 \in 1 .. n /\ ((k + 1) + 1) - 1 = k + 1 /\ flatten[k + 1] = f[k + 1]
    BY <1>1, <1>11, <2>1
  <2> QED
    BY <1>9, <2>2
<1>12. Nat \subseteq K
  <2> HIDE DEF K
  <2> QED
    BY <1>10, <1>11, SetInduction
<1>13. n - 1 \in Nat /\ n - 1 < n /\ (n - 1) + 1 = n
  BY <1>1
<1>14. flatten[n] = f[n]
  BY <1>12, <1>13
<1> QED
  BY <1>7, <1>14

\* FlattenSeq concatenates from the left, and stays within the type.
LEMMA Flattening ==
  ASSUME NEW S, NEW seqs \in Seq(Seq(S))
  PROVE  \E f \in [0 .. Len(seqs) -> Seq(S)] :
           /\ f[0] = <<>>
           /\ \A i \in 1 .. Len(seqs) : f[i] = f[i - 1] \o seqs[i]
           /\ FlattenSeq(seqs) = f[Len(seqs)]
<1> DEFINE n == Len(seqs)
           after == [i \in 1 .. n |-> [x \in Seq(S) |-> x \o seqs[i]]]
<1>1. n \in Nat /\ \A i \in 1 .. n : \A x \in Seq(S) : x \o seqs[i] \in Seq(S)
  OBVIOUS
<1>2. after \in [1 .. n -> [Seq(S) -> Seq(S)]] /\ <<>> \in Seq(S)
  BY <1>1
<1>3. \A i \in 1 .. n : \A x \in Seq(S) : after[i][x] = x \o seqs[i]
  OBVIOUS
<1> HIDE DEF after
<1>4. PICK f \in [0 .. n -> Seq(S)] :
        f[0] = <<>> /\ \A i \in 1 .. n : f[i] = after[i][f[i - 1]]
  <2> DEFINE T == Seq(S)
             none == <<>>
  <2>1. n \in Nat /\ none \in T /\ after \in Steps(T, n)
    BY <1>1, <1>2 DEF Steps
  <2> HIDE DEF n, T, none
  <2>2. \E f : IsRun(f, T, none, n, after)
    BY <2>1, RunExists
  <2> QED
    BY <2>2 DEF IsRun, T, none
<1>5. ASSUME NEW i \in 1 .. n
      PROVE  f[i] = f[i - 1] \o seqs[i]
  <2>1. i - 1 \in 0 .. n
    BY <1>1
  <2>2. f[i - 1] \in Seq(S)
    BY <2>1
  <2> QED
    BY <1>3, <1>4, <2>2
<1>6. FlattenSeq(seqs) = f[n]
  <2>1. CASE seqs = <<>>
    BY <1>4, <2>1 DEF FlattenSeq
  <2>2. CASE seqs # <<>>
    BY <1>4, <1>5, <2>2, FlattenIterates
  <2> QED
    BY <2>1, <2>2
<1> QED
  BY <1>4, <1>5, <1>6

\* What is flattened has elements of the same type.
LEMMA FlattenedType ==
  ASSUME NEW S, NEW seqs \in Seq(Seq(S))
  PROVE  FlattenSeq(seqs) \in Seq(S)
<1>1. PICK f \in [0 .. Len(seqs) -> Seq(S)] : FlattenSeq(seqs) = f[Len(seqs)]
  BY Flattening
<1>2. Len(seqs) \in 0 .. Len(seqs)
  OBVIOUS
<1> QED
  BY <1>1, <1>2

-----------------------------------------------------------------------------
(* Flattening, piece by piece.                                             *)


Starts(s, t, S) == \E r \in Seq(S) : t = s \o r

\* It does not matter where three sequences are joined first.
Groups(s, t, u, S) ==
  /\ s \o t \in Seq(S) /\ t \o u \in Seq(S) /\ (s \o t) \o u \in Seq(S)
  /\ (s \o t) \o u = s \o (t \o u)

LEMMA Grouping ==
  ASSUME NEW S, NEW s \in Seq(S), NEW t \in Seq(S), NEW u \in Seq(S)
  PROVE  Groups(s, t, u, S)
<1>1. s \o t \in Seq(S) /\ t \o u \in Seq(S)
  BY ConcatProperties
<1>2. (s \o t) \o u = s \o (t \o u)
  BY ConcatAssociative
<1> QED
  BY <1>1, <1>2, ConcatProperties DEF Groups

LEMMA PrefixIsStart ==
  ASSUME NEW S, NEW s \in Seq(S), NEW t \in Seq(S), Starts(s, t, S)
  PROVE  IsPrefix(s, t)
<1>1. PICK r \in Seq(S) : t = s \o r
  BY DEF Starts
<1>2. Len(s) \in Nat /\ Len(r) \in Nat /\ Len(t) = Len(s) + Len(r)
  BY <1>1, ConcatProperties, LenProperties
<1>3. SubSeq(s, 1, Len(s)) = SubSeq(t, 1, Len(s))
  <2>1. CASE s = <<>>
    <3>1. Len(s) = 0
      BY <2>1
    <3> QED
      BY <3>1, SubSeqEmpty
  <2>2. CASE s # <<>>
    <3>1. 1 \in 1 .. Len(s) /\ Len(s) \in 1 .. Len(s)
      BY <1>2, <2>2, EmptySeq
    <3> QED
      BY <1>1, <3>1, SubSeqOfConcat1
  <2> QED
    BY <2>1, <2>2
<1> QED
  BY <1>2, <1>3 DEF IsPrefix

LEMMA StartsOfItself ==
  ASSUME NEW S, NEW s \in Seq(S)
  PROVE  Starts(s, s, S)
<1>1. <<>> \in Seq(S) /\ s = s \o <<>>
  BY EmptySeq, ConcatEmptySeq
<1> QED
  BY <1>1 DEF Starts

LEMMA StartsOfMore ==
  ASSUME NEW S, NEW s \in Seq(S), NEW r \in Seq(S), NEW t \in Seq(S),
         Starts(s \o r, t, S)
  PROVE  Starts(s, t, S)
<1>1. PICK q \in Seq(S) : t = (s \o r) \o q
  BY DEF Starts
<1>2. Groups(s, r, q, S)
  BY Grouping
<1>3. r \o q \in Seq(S) /\ t = s \o (r \o q)
  BY <1>1, <1>2 DEF Groups
<1> QED
  BY <1>3 DEF Starts

\* One more sequence at the end.
LEMMA FlattenAppend ==
  ASSUME NEW S, NEW seqs \in Seq(Seq(S)), NEW x \in Seq(S)
  PROVE  FlattenSeq(seqs \o <<x>>) = FlattenSeq(seqs) \o x
<1> DEFINE n == Len(seqs)
           more == seqs \o <<x>>
<1>1. PICK f \in [0 .. n -> Seq(S)] :
        /\ f[0] = <<>>
        /\ \A i \in 1 .. n : f[i] = f[i - 1] \o seqs[i]
        /\ FlattenSeq(seqs) = f[n]
  BY Flattening
<1>2. n \in Nat /\ f[n] \in Seq(S) /\ f[n] \o x \in Seq(S)
  <2>1. n \in Nat
    BY LenProperties
  <2>2. f[n] \in Seq(S)
    BY <2>1
  <2> QED
    BY <2>1, <2>2, ConcatProperties
<1>3. /\ more \in Seq(Seq(S)) /\ Len(more) = n + 1 /\ more # <<>>
      /\ more[n + 1] = x /\ \A i \in 1 .. n : more[i] = seqs[i]
  BY <1>2
<1> HIDE DEF n, more
<1> DEFINE last == f[n] \o x
           g == [i \in 0 .. n + 1 |-> IF i = n + 1 THEN last ELSE f[i]]
<1>4. last \in Seq(S)
  BY <1>2
<1> HIDE DEF last
<1>5. /\ g \in [0 .. n + 1 -> Seq(S)] /\ g[n + 1] = last
      /\ \A i \in 0 .. n : g[i] = f[i]
  BY <1>2, <1>4
<1> HIDE DEF g
<1>6. g[0] = <<>>
  BY <1>1, <1>2, <1>5
<1>7. ASSUME NEW i \in 1 .. n + 1
      PROVE  g[i] = g[i - 1] \o more[i]
  <2>1. i - 1 \in 0 .. n /\ g[i - 1] = f[i - 1]
    BY <1>2, <1>5
  <2>2. CASE i = n + 1
    <3>1. g[i - 1] = f[n]
      BY <1>2, <2>1, <2>2
    <3>2. more[i] = x /\ g[i] = last
      BY <1>3, <1>5, <2>2
    <3> QED
      BY <3>1, <3>2, Zenon DEF last
  <2>3. CASE i # n + 1
    <3>1. i \in 1 .. n /\ i \in 0 .. n
      BY <1>2, <2>3
    <3>2. g[i] = f[i] /\ more[i] = seqs[i] /\ f[i] = f[i - 1] \o seqs[i]
      BY <1>1, <1>3, <1>5, <3>1
    <3> QED
      BY <2>1, <3>2
  <2> QED
    BY <2>2, <2>3
<1>8. FlattenSeq(more) = g[n + 1]
  <2>1. g \in [0 .. Len(more) -> Seq(S)] /\ \A i \in 1 .. Len(more) : g[i] = g[i - 1] \o more[i]
    BY <1>3, <1>5, <1>7
  <2>2. FlattenSeq(more) = g[Len(more)]
    BY <1>3, <1>6, <2>1, FlattenIterates
  <2> QED
    BY <1>3, <2>2
<1> QED
  BY <1>1, <1>5, <1>8 DEF last, more, n

\* What is flattened begins with what any beginning flattens to.
LEMMA FlattenStarts ==
  ASSUME NEW S, NEW p \in Seq(Seq(S)), NEW q \in Seq(Seq(S))
  PROVE  Starts(FlattenSeq(p), FlattenSeq(p \o q), S)
<1> DEFINE Long(k) ==
             \A t \in Seq(Seq(S)) :
               Len(t) = k => Starts(FlattenSeq(p), FlattenSeq(p \o t), S)
           K == {k \in Nat : Long(k)}
<1>1. Long(0)
  <2>1. SUFFICES ASSUME NEW t \in Seq(Seq(S)), Len(t) = 0
                 PROVE  Starts(FlattenSeq(p), FlattenSeq(p \o t), S)
    OBVIOUS
  <2>2. p \o t = p
    BY <2>1, EmptySeq, ConcatEmptySeq
  <2> QED
    BY <2>2, FlattenedType, StartsOfItself
<1>2. ASSUME NEW k \in Nat, Long(k)
      PROVE  Long(k + 1)
  <2>1. SUFFICES ASSUME NEW t \in Seq(Seq(S)), Len(t) = k + 1
                 PROVE  Starts(FlattenSeq(p), FlattenSeq(p \o t), S)
    OBVIOUS
  <2>2. t # <<>>
    BY <2>1
  <2>3. PICK u \in Seq(Seq(S)), x \in Seq(S) : t = Append(u, x)
    BY <2>2, SequenceEmptyOrAppend
  <2>4. Len(u) = k /\ t = u \o <<x>> /\ <<x>> \in Seq(Seq(S))
    <3>1. Len(t) = Len(u) + 1 /\ Len(u) \in Nat
      BY <2>3, AppendProperties, LenProperties
    <3>2. t = u \o <<x>>
      BY <2>3, AppendIsConcat
    <3> QED
      BY <2>1, <3>1, <3>2
  <2>5. p \o t = (p \o u) \o <<x>> /\ p \o u \in Seq(Seq(S))
    <3>1. Groups(p, u, <<x>>, Seq(S))
      BY <2>4, Grouping
    <3>2. p \o t = p \o (u \o <<x>>)
      BY <2>4
    <3> QED
      BY <3>1, <3>2 DEF Groups
  <2>6. FlattenSeq(p \o t) = FlattenSeq(p \o u) \o x
    BY <2>5, FlattenAppend
  <2>7. PICK r \in Seq(S) : FlattenSeq(p \o u) = FlattenSeq(p) \o r
    BY <1>2, <2>4 DEF Starts
  <2>8. FlattenSeq(p) \in Seq(S)
    BY FlattenedType
  <2>9. /\ r \o x \in Seq(S)
        /\ (FlattenSeq(p) \o r) \o x = FlattenSeq(p) \o (r \o x)
    <3>1. Groups(FlattenSeq(p), r, x, S)
      BY <2>8, Grouping
    <3> QED
      BY <3>1 DEF Groups
  <2> QED
    BY <2>6, <2>7, <2>9 DEF Starts
<1> HIDE DEF Long
<1>3. 0 \in K /\ \A k \in Nat : k \in K => k + 1 \in K
  BY <1>1, <1>2
<1>4. Len(q) \in K
  <2>1. Len(q) \in Nat
    BY LenProperties
  <2> HIDE DEF K
  <2> QED
    BY <1>3, <2>1, SetInduction
<1> QED
  BY <1>4 DEF Long

LEMMA FlattenOne ==
  ASSUME NEW S, NEW x \in Seq(S)
  PROVE  FlattenSeq(<<x>>) = x
<1> DEFINE none == <<>>
<1>1. /\ none \in Seq(Seq(S)) /\ <<x>> \in Seq(Seq(S)) /\ none \o <<x>> = <<x>>
      /\ none \o x = x /\ Len(none) = 0
  BY EmptySeq, ConcatEmptySeq
<1>2. FlattenSeq(none) = none
  BY <1>1 DEF FlattenSeq
<1> HIDE DEF none
<1>3. FlattenSeq(none \o <<x>>) = FlattenSeq(none) \o x
  BY <1>1, FlattenAppend
<1> QED
  BY <1>1, <1>2, <1>3

\* One more sequence at the front.
LEMMA FlattenPrepend ==
  ASSUME NEW S, NEW x \in Seq(S), NEW seqs \in Seq(Seq(S))
  PROVE  FlattenSeq(<<x>> \o seqs) = x \o FlattenSeq(seqs)
<1> DEFINE n == Len(seqs)
           more == <<x>> \o seqs
<1>1. PICK f \in [0 .. n -> Seq(S)] :
        /\ f[0] = <<>>
        /\ \A i \in 1 .. n : f[i] = f[i - 1] \o seqs[i]
        /\ FlattenSeq(seqs) = f[n]
  BY Flattening
<1>2. n \in Nat /\ \A i \in 1 .. n : seqs[i] \in Seq(S)
  BY LenProperties, ElementOfSeq
<1>3. /\ more \in Seq(Seq(S)) /\ Len(more) = n + 1 /\ more # <<>>
      /\ more[1] = x /\ \A i \in 1 .. n : more[i + 1] = seqs[i]
  BY <1>2
<1> HIDE DEF n, more
<1> DEFINE g == [i \in 0 .. n + 1 |-> IF i = 0 THEN <<>> ELSE x \o f[i - 1]]
<1>4. \A i \in 0 .. n : f[i] \in Seq(S) /\ x \o f[i] \in Seq(S)
  BY ConcatProperties
<1>5. /\ g[0] = <<>> /\ \A i \in 0 .. n : g[i + 1] = x \o f[i]
      /\ g \in [0 .. n + 1 -> Seq(S)]
  <2>1. \A i \in 0 .. n + 1 : i = 0 \/ i - 1 \in 0 .. n
    BY <1>2
  <2>2. \A i \in 0 .. n + 1 : (IF i = 0 THEN <<>> ELSE x \o f[i - 1]) \in Seq(S)
    BY <1>4, <2>1
  <2>3. g \in [0 .. n + 1 -> Seq(S)]
    BY <2>2
  <2>4. g[0] = <<>>
    BY <1>2
  <2>5. ASSUME NEW i \in 0 .. n
        PROVE  g[i + 1] = x \o f[i]
    <3>1. i + 1 \in 0 .. n + 1 /\ i + 1 # 0 /\ (i + 1) - 1 = i
      BY <1>2
    <3> QED
      BY <3>1
  <2> QED
    BY <2>3, <2>4, <2>5
<1> HIDE DEF g
<1>6. ASSUME NEW i \in 1 .. n + 1
      PROVE  g[i] = g[i - 1] \o more[i]
  <2>1. CASE i = 1
    <3>1. g[1] = x \o f[0] /\ g[i - 1] = <<>> /\ more[i] = x
      <4>1. 0 \in 0 .. n /\ 0 + 1 = 1 /\ i - 1 = 0
        BY <1>2, <2>1
      <4> QED
        BY <1>3, <1>5, <2>1, <4>1
    <3> QED
      BY <1>1, <2>1, <3>1, ConcatEmptySeq
  <2>2. CASE i # 1
    <3>1. PICK k \in 1 .. n : i = k + 1
      <4>1. i - 1 \in 1 .. n /\ i = (i - 1) + 1
        BY <1>2, <2>2
      <4> QED
        BY <4>1
    <3>2. k \in 0 .. n /\ k - 1 \in 0 .. n /\ (k - 1) + 1 = k /\ i - 1 = k
      BY <1>2, <3>1
    <3>3. g[i] = x \o f[k] /\ g[i - 1] = x \o f[k - 1] /\ more[i] = seqs[k]
      BY <1>3, <1>5, <3>1, <3>2
    <3>4. f[k] = f[k - 1] \o seqs[k] /\ f[k - 1] \in Seq(S) /\ seqs[k] \in Seq(S)
      BY <1>1, <1>2, <3>2
    <3>5. (x \o f[k - 1]) \o seqs[k] = x \o (f[k - 1] \o seqs[k])
      <4> DEFINE a == f[k - 1]
                 b == seqs[k]
      <4>1. a \in Seq(S) /\ b \in Seq(S)
        BY <3>4
      <4> HIDE DEF a, b
      <4>2. Groups(x, a, b, S)
        BY <4>1, Grouping
      <4> QED
        BY <4>2 DEF Groups, a, b
    <3> QED
      BY <3>3, <3>4, <3>5, Zenon
  <2> QED
    BY <2>1, <2>2
<1>7. FlattenSeq(more) = g[n + 1]
  <2>1. g \in [0 .. Len(more) -> Seq(S)] /\ \A i \in 1 .. Len(more) : g[i] = g[i - 1] \o more[i]
    BY <1>3, <1>5, <1>6
  <2>2. FlattenSeq(more) = g[Len(more)]
    BY <1>3, <1>5, <2>1, FlattenIterates
  <2> QED
    BY <1>3, <2>2
<1>8. n \in 0 .. n
  BY <1>2
<1> QED
  BY <1>1, <1>5, <1>7, <1>8 DEF more

=============================================================================

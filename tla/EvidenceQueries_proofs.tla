------------------------ MODULE EvidenceQueries_proofs ------------------------
(***************************************************************************)
(* Proofs about the queries of cargo-optic-evidence: the answer of         *)
(* llvm_evidence is exact for any modules, symbols and definitions, and    *)
(* the rows of find_instances are for any captures, queries and limits;    *)
(* and about the index that llvm_evidence reads: llvm_index keeps within   *)
(* its budget for any text.                                                *)
(*                                                                         *)
(* AnswerIsExact compares the answer with all paths along the aliases of   *)
(* all modules; a query follows one path of one module at a time.  A path  *)
(* is determined by its module and its length (PathsAgree), so the one     *)
(* that the query has followed to its end decides what there is in the     *)
(* module (EndFound), and a symbol visited twice lengthens paths for ever  *)
(* (CircleClosed).                                                         *)
(*                                                                         *)
(* RowsAreExact counts records, where the search sorts positions.  Both    *)
(* queries sort by ranks, of which RanksEnumerate says that they number    *)
(* what is sorted.                                                         *)
(*                                                                         *)
(* HeadersAreBounded charges every goal and every atom of a stored name to *)
(* an atom of the header.  A goal that pushes two more than it replaces    *)
(* begins with a parenthesis, which pushes nothing, so the debt is never   *)
(* more than one (Paid); a decoded name is shorter than its token          *)
(* (DecodedName), and the goals that store names are read once each.       *)
(***************************************************************************)
EXTENDS LlvmEvidence, InstanceSearch, LlvmIndex, SequenceLemmas

-----------------------------------------------------------------------------
(* The invariant of llvm_evidence.                                         *)

\* The modules that have been resolved.
Done == {stored[k] : k \in 1 .. position}

\* What the query has followed in the present module.
Trail == Append(aliases, symbol)

Tracked ==
  /\ visited = ToSet(aliases)
  /\ \A j, k \in DOMAIN aliases : aliases[j] = aliases[k] => j = k
  /\ position < ModuleCount => Trail \in Paths(Module, Len(aliases) + 1)

\* What the modules that have been resolved contribute.
Settled ==
  /\ \A m \in Done : ~Circular(m)
  /\ ToSet(bodies) = UNION {Bodies(m) : m \in Done}
  /\ \A j, k \in DOMAIN bodies : bodies[j].module = bodies[k].module => j = k
  /\ unsupported <=> \E m \in Done : EndsIn(m, "unsupported") # {}

IInv ==
  /\ TypeOK
  /\ answer = "none" => Tracked /\ Settled
  /\ AnswerIsExact

-----------------------------------------------------------------------------
(* Paths.                                                                  *)

LEMMA SymbolsFinite ==
  IsFiniteSet(Symbols) /\ Cardinality(Symbols) \in Nat /\ Cardinality(Symbols) >= 1
<1>1. IsFiniteSet(Symbols)
  <2>1. IsFiniteSet({RawSymbol})
    BY FS_Singleton
  <2> QED
    BY <2>1, EvidenceAssumption, FS_Union DEF Symbols
<1>2. Cardinality(Symbols) # 0
  BY <1>1, FS_EmptySet DEF Symbols
<1> QED
  BY <1>1, <1>2, FS_CardinalityType

LEMMA PathShape ==
  ASSUME NEW m, NEW n \in Nat, NEW p \in Paths(m, n)
  PROVE  p \in Seq(Symbols) /\ Len(p) = n /\ DOMAIN p = 1 .. n /\ Last(p) = p[n]
<1>1. p \in [1 .. n -> Symbols]
  BY DEF Paths
<1> QED
  BY <1>1 DEF Last

\* The symbol at each place of a path is determined.
LEMMA PathsAgree ==
  ASSUME NEW m, NEW i \in Nat, NEW j \in Nat, NEW p \in Paths(m, i), NEW q \in Paths(m, j)
  PROVE  \A k \in 1 .. i : k <= j => p[k] = q[k]
<1> DEFINE S == {k \in Nat : k \in 1 .. i /\ k <= j => p[k] = q[k]}
<1>1. 0 \in S
  OBVIOUS
<1>2. ASSUME NEW n \in Nat, n \in S
      PROVE  n + 1 \in S
  <2>1. SUFFICES ASSUME n + 1 \in 1 .. i, n + 1 <= j
                 PROVE  p[n + 1] = q[n + 1]
    OBVIOUS
  <2>2. CASE n = 0
    BY <2>1, <2>2 DEF Paths
  <2>3. CASE n # 0
    <3>1. n \in 1 .. i - 1 /\ n \in 1 .. j - 1 /\ p[n] = q[n]
      BY <1>2, <2>1, <2>3
    <3>2. definitions[m][p[n]].target = p[n + 1] /\ definitions[m][q[n]].target = q[n + 1]
      BY <3>1 DEF Paths
    <3> QED
      BY <3>1, <3>2
  <2> QED
    BY <2>2, <2>3
<1>3. Nat \subseteq S
  <2> HIDE DEF S
  <2> QED
    BY <1>1, <1>2, SetInduction
<1> QED
  BY <1>3

\* Along a path that ends at what is not an alias, there is nothing beyond its end.
LEMMA PathEnds ==
  ASSUME NEW m, NEW n \in Nat, n >= 1, NEW p \in Paths(m, n),
         definitions[m][p[n]].kind # "alias",
         NEW j \in Nat, NEW q \in Paths(m, j)
  PROVE  /\ j <= n
         /\ j >= 1 /\ definitions[m][q[j]].kind # "alias" => q = p
<1>1. \A k \in 1 .. n : k <= j => p[k] = q[k]
  BY PathsAgree
<1>2. j <= n
  <2>1. SUFFICES ASSUME j > n PROVE FALSE
    OBVIOUS
  <2>2. n \in 1 .. j - 1 /\ p[n] = q[n]
    BY <1>1, <2>1
  <2>3. definitions[m][q[n]].kind = "alias"
    BY <2>2 DEF Paths
  <2> QED
    BY <2>2, <2>3
<1>3. ASSUME j >= 1, definitions[m][q[j]].kind # "alias"
      PROVE  q = p
  <2>1. j = n
    <3>1. SUFFICES ASSUME j < n PROVE FALSE
      BY <1>2
    <3>2. j \in 1 .. n - 1 /\ p[j] = q[j]
      BY <1>1, <1>3, <3>1
    <3>3. definitions[m][p[j]].kind = "alias"
      BY <3>2 DEF Paths
    <3> QED
      BY <1>3, <3>2, <3>3
  <2>2. p \in [1 .. n -> Symbols] /\ q \in [1 .. n -> Symbols]
    BY <2>1 DEF Paths
  <2> QED
    BY <1>1, <2>1, <2>2
<1> QED
  BY <1>2, <1>3

\* What there is in a module in which an end has been found.
LEMMA EndFound ==
  ASSUME NEW m, NEW n \in Nat, n >= 1, n <= Cardinality(Symbols), NEW p \in Paths(m, n),
         definitions[m][p[n]].kind # "alias"
  PROVE  /\ ~Circular(m)
         /\ \A kind \in {"function", "unsupported"} :
              EndsIn(m, kind) = IF definitions[m][p[n]].kind = kind THEN {p} ELSE {}
<1>1. Cardinality(Symbols) \in Nat
  BY SymbolsFinite
<1>2. ~Circular(m)
  <2>1. SUFFICES ASSUME NEW q \in Paths(m, Cardinality(Symbols) + 1) PROVE FALSE
    BY DEF Circular
  <2>2. Cardinality(Symbols) + 1 <= n
    BY <1>1, PathEnds
  <2> QED
    BY <1>1, <2>2
<1>3. ASSUME NEW kind \in {"function", "unsupported"}, NEW q \in EndsIn(m, kind)
      PROVE  q = p
  <2>1. PICK j \in 1 .. Cardinality(Symbols) : q \in Paths(m, j)
    BY DEF EndsIn
  <2>2. j \in Nat /\ j >= 1
    BY <1>1, <2>1
  <2>3. Last(q) = q[j]
    BY <2>1, <2>2, PathShape
  <2>4. definitions[m][q[j]].kind # "alias"
    BY <2>3 DEF EndsIn
  <2> QED
    BY <2>1, <2>2, <2>4, PathEnds
<1>4. n \in 1 .. Cardinality(Symbols) /\ Last(p) = p[n]
  BY <1>1, PathShape
<1>5. \A kind : p \in EndsIn(m, kind) <=> definitions[m][p[n]].kind = kind
  BY <1>4 DEF EndsIn
<1> QED
  BY <1>2, <1>3, <1>5

\* A symbol met again leads in a circle.
LEMMA CircleClosed ==
  ASSUME NEW m, NEW a \in Seq(Symbols), NEW e \in Symbols, e \in ToSet(a),
         Append(a, e) \in Paths(m, Len(a) + 1)
  PROVE  Circular(m)
<1> DEFINE t == Append(a, e)
           S == {n \in Nat : n = 0 \/ \E q \in Paths(m, n) : q[n] \in ToSet(a)}
<1>1. /\ Len(a) \in Nat /\ DOMAIN a = 1 .. Len(a)
      /\ t[Len(a) + 1] = e /\ \A k \in DOMAIN a : t[k] = a[k]
      /\ t \in Paths(m, Len(a) + 1)
  BY Appended
<1> HIDE DEF t
<1>2. PICK h \in 1 .. Len(a) : e = a[h]
  BY <1>1 DEF ToSet
<1>3. t[1] = RawSymbol /\ t[1] = a[1] /\ a[1] \in ToSet(a) /\ RawSymbol \in Symbols
  <2>1. 1 \in DOMAIN a
    BY <1>1, <1>2
  <2> QED
    BY <1>1, <2>1 DEF Paths, ToSet, Symbols
<1>4. ASSUME NEW x \in ToSet(a)
      PROVE  /\ definitions[m][x].kind = "alias"
             /\ definitions[m][x].target \in ToSet(a)
             /\ x \in Symbols
  <2>1. PICK k \in 1 .. Len(a) : x = a[k]
    BY <1>1 DEF ToSet
  <2>2. k \in 1 .. (Len(a) + 1) - 1 /\ t[k] = x
    BY <1>1, <2>1
  <2>3. definitions[m][x].kind = "alias" /\ definitions[m][x].target = t[k + 1]
    BY <1>1, <2>2 DEF Paths
  <2>4. t[k + 1] \in ToSet(a)
    <3>1. CASE k = Len(a)
      BY <1>1, <3>1
    <3>2. CASE k # Len(a)
      <4>1. k + 1 \in DOMAIN a
        <5>1. \A n \in Nat : \A i \in 1 .. n : i # n => i + 1 \in 1 .. n
          OBVIOUS
        <5> QED
          BY <1>1, <3>2, <5>1
      <4>2. t[k + 1] = a[k + 1]
        BY <1>1, <4>1
      <4> QED
        BY <4>1, <4>2 DEF ToSet
    <3> QED
      BY <3>1, <3>2
  <2> QED
    BY <1>1, <2>1, <2>3, <2>4
<1>5. 0 \in S
  OBVIOUS
<1>6. ASSUME NEW n \in Nat, n \in S
      PROVE  n + 1 \in S
  <2>1. CASE n = 0
    <3> DEFINE q == [k \in 1 .. 1 |-> RawSymbol]
    <3>1. q \in Paths(m, 1) /\ q[1] \in ToSet(a)
      BY <1>3 DEF Paths
    <3> QED
      BY <2>1, <3>1
  <2>2. CASE n # 0
    <3>1. PICK q \in Paths(m, n) : q[n] \in ToSet(a)
      BY <1>6, <2>2
    <3> DEFINE r == [k \in 1 .. n + 1 |-> IF k = n + 1 THEN definitions[m][q[n]].target ELSE q[k]]
    <3>2. q \in [1 .. n -> Symbols] /\ q[1] = RawSymbol
      BY <3>1 DEF Paths
    <3>3. /\ definitions[m][q[n]].kind = "alias"
          /\ definitions[m][q[n]].target \in ToSet(a)
      BY <1>4, <3>1
    <3>4. definitions[m][q[n]].target \in Symbols
      BY <1>4, <3>3
    <3>5. r \in [1 .. n + 1 -> Symbols] /\ r[1] = RawSymbol
      BY <2>2, <3>2, <3>4
    <3>6. ASSUME NEW k \in 1 .. (n + 1) - 1
          PROVE  definitions[m][r[k]].kind = "alias" /\ definitions[m][r[k]].target = r[k + 1]
      <4>1. CASE k = n
        BY <2>2, <3>3, <4>1
      <4>2. CASE k # n
        <5>1. k \in 1 .. n - 1 /\ r[k] = q[k] /\ r[k + 1] = q[k + 1]
          BY <4>2
        <5> HIDE DEF r
        <5>2. definitions[m][q[k]].kind = "alias" /\ definitions[m][q[k]].target = q[k + 1]
          BY <5>1 DEF Paths
        <5> QED
          BY <5>1, <5>2
      <4> QED
        BY <4>1, <4>2
    <3>7. r \in Paths(m, n + 1)
      <4> HIDE DEF r
      <4> QED
        BY <3>5, <3>6 DEF Paths
    <3>8. r[n + 1] \in ToSet(a)
      BY <3>3
    <3> QED
      BY <3>7, <3>8
  <2> QED
    BY <2>1, <2>2
<1>7. Nat \subseteq S
  <2> HIDE DEF S
  <2> QED
    BY <1>5, <1>6, SetInduction
<1>8. Cardinality(Symbols) + 1 \in S /\ Cardinality(Symbols) + 1 # 0
  BY <1>7, SymbolsFinite
<1> QED
  BY <1>8 DEF Circular

\* No symbol is visited twice without a circle, so a path has an end in time.
LEMMA TrailBounded ==
  ASSUME NEW a \in Seq(Symbols), NEW e \in Symbols, e \notin ToSet(a),
         \A j, k \in DOMAIN a : a[j] = a[k] => j = k
  PROVE  Len(a) + 1 <= Cardinality(Symbols)
<1> DEFINE t == Append(a, e)
           n == Len(a) + 1
<1>1. /\ Len(a) \in Nat /\ DOMAIN a = 1 .. Len(a) /\ DOMAIN t = 1 .. n
      /\ t \in Seq(Symbols) /\ Len(t) = n /\ t[n] = e /\ \A k \in DOMAIN a : t[k] = a[k]
  BY Appended
<1>2. \A k \in 1 .. Len(a) : t[k] # e
  BY <1>1 DEF ToSet
<1> HIDE DEF t
<1>3. t \in [1 .. n -> Symbols]
  BY <1>1
<1>4. \A j, k \in 1 .. n : t[j] = t[k] => j = k
  <2>1. \A k \in 1 .. n : k \in 1 .. Len(a) \/ k = n
    BY <1>1
  <2> QED
    BY <1>1, <1>2, <2>1
<1>5. t \in Injection(1 .. n, Symbols)
  BY <1>3, <1>4, Fun_IsInj
<1>6. Cardinality(1 .. n) = n
  <2>1. \A l \in Nat : Cardinality(1 .. l) = l
    BY FS_Interval
  <2> QED
    BY <1>1, <2>1
<1> QED
  BY <1>5, <1>6, SymbolsFinite, FS_Injection

-----------------------------------------------------------------------------
(* The order of the bodies.                                                *)

LEMMA ByModuleSorts ==
  ASSUME NEW S, NEW s \in Seq(S), \A b \in S : b.module \in Nat,
         \A j, k \in DOMAIN s : s[j].module = s[k].module => j = k
  PROVE  /\ ByModule(s) \in Seq(S)
         /\ ToSet(ByModule(s)) = ToSet(s)
         /\ \A j, k \in DOMAIN ByModule(s) :
              j < k => ByModule(s)[j].module < ByModule(s)[k].module
<1> DEFINE n == Len(s)
           D == DOMAIN s
           UpTo == [i \in D |-> {j \in D : s[j].module <= s[i].module}]
           at(k) == CHOOSE i \in D : Rank(s, i) = k
<1>1. n \in Nat /\ D = 1 .. n /\ \A i \in D : s[i] \in S /\ s[i].module \in Nat
  OBVIOUS
<1>2. IsFiniteSet(D) /\ Cardinality(D) = n
  BY <1>1, FS_Interval
<1>3. \A i \in D : Rank(s, i) = Cardinality(UpTo[i])
  BY DEF Rank
<1>4. /\ UpTo \in [D -> SUBSET D]
      /\ \A i, j \in D : j \in UpTo[i] <=> s[j].module <= s[i].module
  OBVIOUS
<1>5. /\ \A i \in D : i \in UpTo[i]
      /\ \A i, j \in D : i # j =>
           \/ UpTo[i] \subseteq UpTo[j] /\ j \notin UpTo[i]
           \/ UpTo[j] \subseteq UpTo[i] /\ i \notin UpTo[j]
  <2>1. ASSUME NEW i \in D, NEW j \in D, s[i].module < s[j].module
        PROVE  UpTo[i] \subseteq UpTo[j] /\ j \notin UpTo[i]
    BY <1>1, <2>1
  <2>2. \A i, j \in D : i # j => s[i].module < s[j].module \/ s[j].module < s[i].module
    BY <1>1
  <2>3. \A i \in D : i \in UpTo[i]
    BY <1>1
  <2> QED
    BY <2>1, <2>2, <2>3
<1> HIDE DEF UpTo
<1>6. /\ \A i \in D : Cardinality(UpTo[i]) \in 1 .. n
      /\ \A i, j \in D : Cardinality(UpTo[i]) = Cardinality(UpTo[j]) => i = j
      /\ \A i, j \in D : j \notin UpTo[i] => Cardinality(UpTo[i]) < Cardinality(UpTo[j])
      /\ \A k \in 1 .. n : \E i \in D : Cardinality(UpTo[i]) = k
  BY <1>2, <1>4, <1>5, RanksEnumerate
<1>7. ASSUME NEW k \in 1 .. n
      PROVE  at(k) \in D /\ Cardinality(UpTo[at(k)]) = k
  <2>1. \E i \in D : Rank(s, i) = k
    BY <1>3, <1>6
  <2>2. at(k) \in D /\ Rank(s, at(k)) = k
    BY <2>1
  <2> QED
    BY <1>3, <2>2
<1>8. ByModule(s) = [k \in 1 .. n |-> s[at(k)]]
  BY <1>1 DEF ByModule
<1> HIDE DEF at
<1>9. \A i \in D : \E k \in 1 .. n : at(k) = i
  <2>1. ASSUME NEW i \in D PROVE at(Cardinality(UpTo[i])) = i
    <3> DEFINE k == Cardinality(UpTo[i])
    <3>1. k \in 1 .. n
      BY <1>6
    <3>2. at(k) \in D /\ Cardinality(UpTo[at(k)]) = k
      BY <1>7, <3>1
    <3> QED
      BY <1>6, <3>2
  <2> QED
    BY <1>6, <2>1
<1>10. ByModule(s) \in Seq(S)
  <2>1. ByModule(s) \in [1 .. n -> S]
    BY <1>1, <1>7, <1>8
  <2> QED
    BY <1>1, <2>1
<1>11. ToSet(ByModule(s)) = ToSet(s)
  <2>1. ToSet(ByModule(s)) = {s[at(k)] : k \in 1 .. n}
    BY <1>8 DEF ToSet
  <2>2. {s[at(k)] : k \in 1 .. n} = {s[i] : i \in D}
    BY <1>7, <1>9
  <2> QED
    BY <2>1, <2>2 DEF ToSet
<1>12. ASSUME NEW j \in 1 .. n, NEW k \in 1 .. n, j < k
       PROVE  s[at(j)].module < s[at(k)].module
  <2>1. /\ at(j) \in D /\ at(k) \in D
        /\ Cardinality(UpTo[at(j)]) = j /\ Cardinality(UpTo[at(k)]) = k
    BY <1>7
  <2>2. ~(Cardinality(UpTo[at(k)]) < Cardinality(UpTo[at(j)]))
    BY <1>12, <2>1
  <2>3. at(j) \in UpTo[at(k)]
    BY <1>6, <2>1, <2>2
  <2>4. s[at(j)].module <= s[at(k)].module
    BY <1>4, <2>1, <2>3
  <2>5. s[at(j)].module # s[at(k)].module
    BY <1>12, <2>1
  <2> QED
    BY <1>1, <2>1, <2>4, <2>5
<1> QED
  BY <1>8, <1>10, <1>11, <1>12

-----------------------------------------------------------------------------
(* The steps of llvm_evidence.                                             *)

LEMMA Positions ==
  ASSUME TypeOK
  PROVE  position \in Nat /\ ModuleCount \in Nat /\ position <= ModuleCount
<1>1. position \in 0 .. ModuleCount
  BY DEF TypeOK
<1> QED
  BY <1>1, EvidenceAssumption

LEMMA Stored ==
  ASSUME TypeOK
  PROVE  /\ ModuleCount \in Nat
         /\ stored \in [1 .. ModuleCount -> Modules]
         /\ \A j, k \in 1 .. ModuleCount : stored[j] = stored[k] => j = k
         /\ {stored[k] : k \in 1 .. ModuleCount} = Modules
         /\ position < ModuleCount => position + 1 \in 1 .. ModuleCount /\ Module \in Modules
<1>1. ModuleCount \in Nat /\ Cardinality(Modules) = ModuleCount /\ IsFiniteSet(Modules)
  BY EvidenceAssumption, FS_Interval DEF Modules
<1>2. /\ stored \in [1 .. ModuleCount -> Modules]
      /\ \A j, k \in 1 .. ModuleCount : stored[j] = stored[k] => j = k
  BY <1>1 DEF TypeOK, SetToSeqs
<1>3. stored \in Surjection(1 .. ModuleCount, Modules)
  <2>1. stored \in Injection(1 .. ModuleCount, Modules)
    BY <1>2, Fun_IsInj
  <2>2. Cardinality(1 .. ModuleCount) = ModuleCount
    BY <1>1, FS_Interval
  <2> QED
    BY <1>1, <2>1, <2>2, FS_Injection
<1>4. {stored[k] : k \in 1 .. ModuleCount} = Modules
  BY <1>2, <1>3 DEF Surjection
<1>5. position < ModuleCount => position + 1 \in 1 .. ModuleCount
  BY Positions
<1> QED
  BY <1>1, <1>2, <1>4, <1>5 DEF Module

LEMMA Frame ==
  ASSUME UNCHANGED definitions
  PROVE  \A m : /\ Circular(m)' = Circular(m) /\ Bodies(m)' = Bodies(m)
                /\ \A kind : EndsIn(m, kind)' = EndsIn(m, kind)
<1>1. \A m, n : Paths(m, n)' = Paths(m, n)
  BY DEF Paths
<1>2. \A m, kind : EndsIn(m, kind)' = EndsIn(m, kind)
  BY <1>1 DEF EndsIn
<1> QED
  BY <1>1, <1>2 DEF Circular, Bodies

\* A path begins with the instance's symbol.
LEMMA Started ==
  ASSUME NEW m
  PROVE  Append(<<>>, RawSymbol) \in Paths(m, Len(<<>>) + 1)
<1> DEFINE t == Append(<<>>, RawSymbol)
<1>1. RawSymbol \in Symbols /\ <<>> \in Seq(Symbols)
  BY DEF Symbols
<1>2. t \in Seq(Symbols) /\ DOMAIN t = 1 .. 1 /\ t[1] = RawSymbol
  BY <1>1
<1>3. t \in [1 .. 1 -> Symbols]
  BY <1>2
<1> HIDE DEF t
<1>4. t \in Paths(m, 1)
  BY <1>2, <1>3 DEF Paths
<1> QED
  BY <1>4 DEF t

LEMMA InitIInv == Init => IInv
<1> SUFFICES ASSUME Init PROVE IInv
  OBVIOUS
<1>1. TypeOK
  <2>1. /\ collected \in BOOLEAN /\ stored \in SetToSeqs(Modules)
        /\ definitions \in [Modules -> [Symbols -> Definitions]]
    BY DEF Init
  <2>2. position \in 0 .. ModuleCount /\ symbol \in Symbols /\ visited \subseteq Symbols
    BY EvidenceAssumption DEF Init, Symbols
  <2>3. /\ aliases \in Seq(Symbols)
        /\ bodies \in Seq([module : Modules, symbol : Symbols, aliases : Seq(Symbols)])
    BY DEF Init
  <2> QED
    BY <2>1, <2>2, <2>3 DEF Init, TypeOK
<1>2. Tracked
  BY Started DEF Init, Tracked, Trail, ToSet
<1>3. Done = {} /\ ToSet(bodies) = {}
  BY DEF Init, Done, ToSet
<1>4. Settled
  BY <1>3 DEF Init, Settled
<1> QED
  BY <1>1, <1>2, <1>4 DEF IInv, Init, AnswerIsExact

\* What is known when the lookup in a module gives anything but an alias.
LEMMA ModuleResolved ==
  ASSUME IInv, NEW kind \in {"absent", "function", "unsupported"}, LookUp(kind)
  PROVE  /\ Module \in Modules /\ Module \notin Done
         /\ ~Circular(Module)
         /\ Bodies(Module) =
              IF kind = "function"
                THEN {[module |-> Module, symbol |-> symbol, aliases |-> aliases]}
                ELSE {}
         /\ EndsIn(Module, "unsupported") # {} <=> kind = "unsupported"
<1>1. /\ TypeOK /\ Tracked /\ position < ModuleCount /\ symbol \notin visited
      /\ definitions[Module][symbol].kind = kind
  BY DEF IInv, LookUp, Resolving, Cyclic, Definition
<1>2. aliases \in Seq(Symbols) /\ symbol \in Symbols
  BY <1>1 DEF TypeOK
<1> DEFINE n == Len(aliases) + 1
<1>3. /\ Trail \in Paths(Module, n) /\ n \in Nat /\ n >= 1
      /\ Trail[n] = symbol /\ Last(Trail) = symbol /\ Front(Trail) = aliases
  BY <1>1, <1>2, Appended DEF Tracked, Trail
<1>4. n <= Cardinality(Symbols)
  BY <1>1, <1>2, TrailBounded DEF Tracked
<1>5. kind # "alias"
  OBVIOUS
<1>6. ~Circular(Module)
  BY <1>1, <1>3, <1>4, <1>5, EndFound
<1>7. /\ EndsIn(Module, "function") = IF kind = "function" THEN {Trail} ELSE {}
      /\ EndsIn(Module, "unsupported") = IF kind = "unsupported" THEN {Trail} ELSE {}
  BY <1>1, <1>3, <1>4, <1>5, EndFound
<1>8. Module \in Modules /\ Module \notin Done
  <2>1. \A k \in 1 .. position : k \in 1 .. ModuleCount /\ k # position + 1
    BY <1>1, Positions
  <2> QED
    BY <1>1, <2>1, Stored DEF Done, Module
<1>9. Bodies(Module) = IF kind = "function"
                         THEN {[module |-> Module, symbol |-> symbol, aliases |-> aliases]}
                         ELSE {}
  BY <1>3, <1>7 DEF Bodies
<1> QED
  BY <1>6, <1>7, <1>8, <1>9

\* Going on to the next module.
LEMMA ModuleEnded ==
  ASSUME IInv, position < ModuleCount, answer = "none", EndModule
  PROVE  /\ position' \in 0 .. ModuleCount /\ symbol' \in Symbols
         /\ visited' \subseteq Symbols /\ aliases' \in Seq(Symbols)
         /\ Tracked'
         /\ Done' = Done \cup {Module}
<1>1. TypeOK /\ ModuleCount \in Nat /\ position \in Nat
  BY EvidenceAssumption DEF IInv, TypeOK
<1>2. Done' = Done \cup {Module}
  <2>1. 1 .. position + 1 = 1 .. position \cup {position + 1}
    BY <1>1
  <2> QED
    BY <2>1 DEF Done, Module, EndModule, captureVars
<1>3. Tracked'
  <2>1. visited' = {} /\ aliases' = <<>> /\ symbol' = RawSymbol
    BY DEF EndModule
  <2>2. ToSet(aliases') = {}
    BY <2>1 DEF ToSet
  <2>3. \A m : Append(aliases', symbol') \in Paths(m, Len(aliases') + 1)
    BY <2>1, Started
  <2>4. \A m, n : Paths(m, n)' = Paths(m, n)
    BY DEF Paths, EndModule, captureVars
  <2>5. Trail' \in Paths(Module, Len(aliases) + 1)'
    BY <2>3, <2>4 DEF Trail
  <2> QED
    BY <2>1, <2>2, <2>5 DEF Tracked
<1> QED
  BY <1>1, <1>2, <1>3 DEF EndModule, Symbols

LEMMA MissDefinitionIInv == ASSUME IInv, MissDefinition PROVE IInv'
<1>1. /\ TypeOK /\ Settled /\ position < ModuleCount /\ answer = "none"
      /\ LookUp("absent") /\ EndModule /\ UNCHANGED <<definitions, bodies, unsupported>>
  BY DEF IInv, MissDefinition, LookUp, Resolving, EndModule, captureVars
<1>2. /\ ~Circular(Module) /\ Bodies(Module) = {} /\ EndsIn(Module, "unsupported") = {}
  BY <1>1, ModuleResolved
<1>3. Done' = Done \cup {Module} /\ Tracked'
  BY <1>1, ModuleEnded
<1>4. TypeOK'
  BY <1>1, ModuleEnded DEF TypeOK, EndModule, captureVars
<1>5. Settled'
  <2>1. \A m \in Done' : ~Circular(m)'
    BY <1>1, <1>2, <1>3, Frame DEF Settled
  <2>2. ToSet(bodies)' = UNION {Bodies(m)' : m \in Done'}
    BY <1>1, <1>2, <1>3, Frame DEF Settled, ToSet
  <2>3. unsupported' <=> \E m \in Done' : EndsIn(m, "unsupported")' # {}
    BY <1>1, <1>2, <1>3, Frame DEF Settled
  <2> QED
    BY <1>1, <2>1, <2>2, <2>3 DEF Settled
<1>6. answer' = "none"
  BY <1>1 DEF EndModule
<1> QED
  BY <1>3, <1>4, <1>5, <1>6 DEF IInv, AnswerIsExact

LEMMA FindBodyIInv == ASSUME IInv, FindBody PROVE IInv'
<1> DEFINE b == [module |-> Module, symbol |-> symbol, aliases |-> aliases]
           S == [module : Modules, symbol : Symbols, aliases : Seq(Symbols)]
<1>1. /\ TypeOK /\ Settled /\ position < ModuleCount /\ answer = "none"
      /\ LookUp("function") /\ EndModule /\ UNCHANGED <<definitions, unsupported>>
      /\ bodies' = Append(bodies, b)
  BY DEF IInv, FindBody, LookUp, Resolving, EndModule, captureVars
<1>2. /\ Module \in Modules /\ Module \notin Done
      /\ ~Circular(Module) /\ Bodies(Module) = {b} /\ EndsIn(Module, "unsupported") = {}
  BY <1>1, ModuleResolved
<1>3. Done' = Done \cup {Module} /\ Tracked'
  BY <1>1, ModuleEnded
<1>4. b \in S /\ bodies \in Seq(S)
  BY <1>1, <1>2 DEF TypeOK
<1>5. /\ bodies' \in Seq(S) /\ ToSet(bodies') = ToSet(bodies) \cup {b}
      /\ Len(bodies) \in Nat /\ DOMAIN bodies = 1 .. Len(bodies)
      /\ DOMAIN bodies' = 1 .. Len(bodies) + 1 /\ bodies'[Len(bodies) + 1] = b
      /\ \A k \in DOMAIN bodies : bodies'[k] = bodies[k]
  <2> HIDE DEF b, S
  <2> QED
    BY <1>1, <1>4, Appended
<1>6. TypeOK'
  BY <1>1, <1>5, ModuleEnded DEF TypeOK, EndModule, captureVars
<1>7. Settled'
  <2>1. \A m \in Done' : ~Circular(m)'
    BY <1>1, <1>2, <1>3, Frame DEF Settled
  <2>2. ToSet(bodies)' = UNION {Bodies(m)' : m \in Done'}
    <3>1. ToSet(bodies)' = (UNION {Bodies(m) : m \in Done}) \cup Bodies(Module)
      BY <1>1, <1>2, <1>5 DEF Settled, ToSet
    <3>2. UNION {Bodies(m) : m \in Done \cup {Module}} = (UNION {Bodies(m) : m \in Done}) \cup Bodies(Module)
      OBVIOUS
    <3>3. \A m : Bodies(m)' = Bodies(m)
      BY <1>1, Frame
    <3> QED
      BY <1>3, <3>1, <3>2, <3>3
  <2>3. \A j, k \in DOMAIN bodies' : bodies'[j].module = bodies'[k].module => j = k
    <3>1. \A k \in DOMAIN bodies : bodies[k].module \in Done
      <4>1. \A m : \A c \in Bodies(m) : c.module = m
        BY DEF Bodies
      <4>2. \A k \in DOMAIN bodies : bodies[k] \in UNION {Bodies(m) : m \in Done}
        BY <1>1 DEF Settled, ToSet
      <4> QED
        BY <4>1, <4>2
    <3>2. b.module = Module
      OBVIOUS
    <3>3. \A k \in DOMAIN bodies' : k \in DOMAIN bodies \/ k = Len(bodies) + 1
      BY <1>5
    <3>4. \A j, k \in DOMAIN bodies : bodies[j].module = bodies[k].module => j = k
      BY <1>1 DEF Settled
    <3> HIDE DEF b
    <3> QED
      BY <1>2, <1>5, <3>1, <3>2, <3>3, <3>4
  <2>4. unsupported' <=> \E m \in Done' : EndsIn(m, "unsupported")' # {}
    BY <1>1, <1>2, <1>3, Frame DEF Settled
  <2> QED
    BY <2>1, <2>2, <2>3, <2>4 DEF Settled
<1>8. answer' = "none"
  BY <1>1 DEF EndModule
<1> QED
  BY <1>3, <1>6, <1>7, <1>8 DEF IInv, AnswerIsExact

LEMMA MeetUnsupportedIInv == ASSUME IInv, MeetUnsupported PROVE IInv'
<1>1. /\ TypeOK /\ Settled /\ position < ModuleCount /\ answer = "none"
      /\ LookUp("unsupported") /\ EndModule /\ UNCHANGED <<definitions, bodies>>
      /\ unsupported' = TRUE
  BY DEF IInv, MeetUnsupported, LookUp, Resolving, EndModule, captureVars
<1>2. /\ ~Circular(Module) /\ Bodies(Module) = {} /\ EndsIn(Module, "unsupported") # {}
  BY <1>1, ModuleResolved
<1>3. Done' = Done \cup {Module} /\ Tracked'
  BY <1>1, ModuleEnded
<1>4. TypeOK'
  BY <1>1, ModuleEnded DEF TypeOK, EndModule, captureVars
<1>5. Settled'
  <2>1. \A m \in Done' : ~Circular(m)'
    BY <1>1, <1>2, <1>3, Frame DEF Settled
  <2>2. ToSet(bodies)' = UNION {Bodies(m)' : m \in Done'}
    BY <1>1, <1>2, <1>3, Frame DEF Settled, ToSet
  <2>3. \E m \in Done' : EndsIn(m, "unsupported")' # {}
    BY <1>1, <1>2, <1>3, Frame
  <2> QED
    BY <1>1, <2>1, <2>2, <2>3 DEF Settled
<1>6. answer' = "none"
  BY <1>1 DEF EndModule
<1> QED
  BY <1>3, <1>4, <1>5, <1>6 DEF IInv, AnswerIsExact

LEMMA FollowAliasIInv == ASSUME IInv, FollowAlias PROVE IInv'
<1> DEFINE target == Definition.target
           n == Len(aliases) + 1
<1>1. /\ TypeOK /\ Tracked /\ Settled /\ position < ModuleCount /\ answer = "none"
      /\ symbol \notin visited /\ Definition.kind = "alias"
      /\ symbol' = target /\ visited' = visited \cup {symbol}
      /\ aliases' = Append(aliases, symbol)
      /\ UNCHANGED <<captureVars, position, bodies, unsupported, answer>>
  BY DEF IInv, FollowAlias, LookUp, Resolving, Cyclic
<1>2. Module \in Modules /\ symbol \in Symbols /\ aliases \in Seq(Symbols)
  BY <1>1, Stored DEF TypeOK
<1>3. target \in Symbols
  <2>1. Definition \in Definitions
    BY <1>1, <1>2 DEF TypeOK, Definition
  <2> QED
    BY <1>1, <2>1 DEF Definitions
<1>4. TypeOK'
  <2>1. symbol' \in Symbols /\ visited' \subseteq Symbols /\ aliases' \in Seq(Symbols)
    BY <1>1, <1>2, <1>3 DEF TypeOK
  <2> QED
    BY <1>1, <2>1 DEF TypeOK, captureVars
<1>5. Tracked'
  <2>1. /\ Trail \in Seq(Symbols) /\ Len(Trail) = n /\ n \in Nat /\ n >= 1
        /\ DOMAIN Trail = 1 .. n /\ Trail[n] = symbol /\ Trail = aliases'
        /\ Len(aliases) \in Nat /\ DOMAIN aliases = 1 .. Len(aliases)
        /\ \A k \in DOMAIN aliases : Trail[k] = aliases[k]
        /\ ToSet(Trail) = ToSet(aliases) \cup {symbol}
    BY <1>1, <1>2, Appended DEF Trail
  <2>2. visited' = ToSet(aliases')
    BY <1>1, <2>1 DEF Tracked
  <2>3. \A j, k \in DOMAIN Trail : Trail[j] = Trail[k] => j = k
    <3>1. \A k \in DOMAIN Trail : k \in DOMAIN aliases \/ k = n
      BY <2>1
    <3>2. \A k \in DOMAIN aliases : aliases[k] # symbol
      BY <1>1 DEF Tracked, ToSet
    <3>3. \A j, k \in DOMAIN aliases : aliases[j] = aliases[k] => j = k
      BY <1>1 DEF Tracked
    <3> QED
      BY <2>1, <3>1, <3>2, <3>3
  <2> DEFINE t == Append(Trail, target)
  <2>4. t \in Paths(Module, n + 1)
    <3>1. /\ t \in Seq(Symbols) /\ DOMAIN t = 1 .. n + 1 /\ t[n + 1] = target
          /\ \A k \in 1 .. n : t[k] = Trail[k]
      <4> HIDE DEF target
      <4> QED
        BY <1>3, <2>1, Appended
    <3>2. Trail \in Paths(Module, n)
      BY <1>1 DEF Tracked
    <3> HIDE DEF t
    <3>3. t \in [1 .. n + 1 -> Symbols] /\ t[1] = RawSymbol
      BY <2>1, <3>1, <3>2 DEF Paths
    <3>4. ASSUME NEW k \in 1 .. (n + 1) - 1
          PROVE  /\ definitions[Module][t[k]].kind = "alias"
                 /\ definitions[Module][t[k]].target = t[k + 1]
      <4>1. CASE k = n
        BY <1>1, <2>1, <3>1, <4>1 DEF Definition
      <4>2. CASE k # n
        <5>1. k \in 1 .. n - 1 /\ k \in 1 .. n /\ k + 1 \in 1 .. n
          BY <2>1, <4>2
        <5> QED
          BY <3>1, <3>2, <5>1 DEF Paths
      <4> QED
        BY <4>1, <4>2
    <3> QED
      BY <3>3, <3>4 DEF Paths
  <2>5. \A m, k : Paths(m, k)' = Paths(m, k)
    BY <1>1 DEF Paths, captureVars
  <2>6. Trail' = t /\ Len(aliases') + 1 = n + 1 /\ Module' = Module
    BY <1>1, <2>1 DEF Trail, Module, captureVars
  <2>7. Trail' \in Paths(Module, Len(aliases) + 1)'
    <3> HIDE DEF t
    <3> QED
      BY <2>4, <2>5, <2>6
  <2> QED
    BY <2>1, <2>2, <2>3, <2>7 DEF Tracked
<1>6. Settled'
  <2>1. Done' = Done
    BY <1>1 DEF Done, captureVars
  <2>2. UNCHANGED definitions
    BY <1>1 DEF captureVars
  <2>3. ToSet(bodies)' = ToSet(bodies)
    BY <1>1 DEF ToSet
  <2> QED
    BY <1>1, <2>1, <2>2, <2>3, Frame DEF Settled
<1> QED
  BY <1>1, <1>4, <1>5, <1>6 DEF IInv, AnswerIsExact

\* The answers.
LEMMA AnswerFrame ==
  ASSUME IInv, NEW a, Answer(a)
  PROVE  /\ TypeOK /\ UNCHANGED <<collected, stored, definitions, position, symbol, visited,
                                   aliases, unsupported>>
         /\ answer' = a
         /\ \A m : /\ Circular(m)' = Circular(m) /\ Bodies(m)' = Bodies(m)
                   /\ \A kind : EndsIn(m, kind)' = EndsIn(m, kind)
<1>1. /\ UNCHANGED <<collected, stored, definitions, position, symbol, visited, aliases,
                       unsupported>>
      /\ answer' = a
  BY DEF Answer, captureVars, moduleVars
<1> QED
  BY <1>1, Frame DEF IInv

LEMMA ReportNotCapturedIInv == ASSUME IInv, ReportNotCaptured PROVE IInv'
<1>1. ~collected /\ bodies' = bodies /\ Answer("not captured")
  BY DEF ReportNotCaptured
<1>2. TypeOK'
  BY <1>1, AnswerFrame DEF TypeOK
<1>3. answer' = "not captured" /\ ~collected'
  BY <1>1, AnswerFrame
<1>4. AnswerIsExact'
  BY <1>3 DEF AnswerIsExact
<1> QED
  BY <1>2, <1>3, <1>4 DEF IInv

LEMMA RefuseCycleIInv == ASSUME IInv, RefuseCycle PROVE IInv'
<1>1. /\ collected /\ bodies' = bodies /\ Answer("cycle") /\ position < ModuleCount
      /\ symbol \in visited /\ Tracked /\ TypeOK
  BY DEF RefuseCycle, Resolving, Cyclic, IInv
<1>2. TypeOK'
  BY <1>1, AnswerFrame DEF TypeOK
<1>3. Module \in Modules /\ symbol \in Symbols /\ aliases \in Seq(Symbols)
  BY <1>1, Stored DEF TypeOK
<1>4. Circular(Module)
  BY <1>1, <1>3, CircleClosed DEF Tracked, Trail
<1>5. \E m \in Modules : Circular(m)'
  BY <1>1, <1>3, <1>4, AnswerFrame
<1>6. answer' = "cycle" /\ collected'
  BY <1>1, AnswerFrame
<1>7. AnswerIsExact'
  BY <1>5, <1>6 DEF AnswerIsExact
<1> QED
  BY <1>2, <1>6, <1>7 DEF IInv

LEMMA ConcludeIInv == ASSUME IInv, Conclude PROVE IInv'
<1> DEFINE S == [module : Modules, symbol : Symbols, aliases : Seq(Symbols)]
           a == IF bodies # <<>> THEN "available"
                ELSE IF unsupported THEN "unsupported alias" ELSE "no exact definition"
           found == UNION {Bodies(m) : m \in Modules}
<1>1. /\ collected /\ position = ModuleCount /\ bodies' = ByModule(bodies) /\ Answer(a)
      /\ TypeOK /\ Settled
  BY DEF Conclude, IInv
<1>2. Done = Modules
  BY <1>1, Stored DEF Done
<1>3. /\ bodies \in Seq(S) /\ \A b \in S : b.module \in Nat
      /\ \A j, k \in DOMAIN bodies : bodies[j].module = bodies[k].module => j = k
  <2>1. bodies \in Seq(S)
    BY <1>1 DEF TypeOK
  <2>2. \A b \in S : b.module \in Nat
    BY DEF Modules
  <2> QED
    BY <1>1, <2>1, <2>2 DEF Settled
<1>4. /\ bodies' \in Seq(S) /\ ToSet(bodies') = ToSet(bodies)
      /\ \A j, k \in DOMAIN bodies' : j < k => bodies'[j].module < bodies'[k].module
  <2> HIDE DEF S, a
  <2> QED
    BY <1>1, <1>3, ByModuleSorts
<1>5. answer' = a /\ collected'
  <2> HIDE DEF a
  <2> QED
    BY <1>1, AnswerFrame
<1>6. TypeOK'
  <2>1. a \in {"available", "unsupported alias", "no exact definition"}
    OBVIOUS
  <2> HIDE DEF a
  <2> QED
    BY <1>1, <1>4, <2>1, AnswerFrame DEF TypeOK
<1>7. bodies # <<>> <=> ToSet(bodies) # {}
  BY <1>3 DEF ToSet
<1>8. /\ ToSet(bodies) = found
      /\ ~\E m \in Modules : Circular(m)
      /\ unsupported <=> \E m \in Modules : EndsIn(m, "unsupported") # {}
  BY <1>1, <1>2 DEF Settled
<1>9. AnswerIsExact'
  <2>1. found' = found
    BY <1>1, AnswerFrame
  <2>2. answer' = a /\ collected'
    BY <1>5
  <2>3. ~\E m \in Modules : Circular(m)'
    BY <1>1, <1>8, AnswerFrame
  <2>4. unsupported <=> \E m \in Modules : EndsIn(m, "unsupported")' # {}
    BY <1>1, <1>8, AnswerFrame
  <2>5. ToSet(bodies)' = found'
    BY <1>4, <1>8, <2>1 DEF ToSet
  <2>6. a = (IF found' # {} THEN "available"
             ELSE IF \E m \in Modules : EndsIn(m, "unsupported")' # {}
               THEN "unsupported alias"
             ELSE "no exact definition")
    BY <1>7, <1>8, <2>1, <2>4
  <2> HIDE DEF a
  <2> QED
    BY <1>4, <2>2, <2>3, <2>5, <2>6 DEF AnswerIsExact
<1>10. answer' # "none"
  BY <1>5
<1> QED
  BY <1>6, <1>9, <1>10 DEF IInv

LEMMA StutterIInv == ASSUME IInv, UNCHANGED vars PROVE IInv'
<1>1. UNCHANGED <<collected, stored, definitions, position, symbol, visited, aliases, bodies,
                  unsupported, answer>>
  BY DEF vars, captureVars, moduleVars
<1>2. TypeOK'
  BY <1>1 DEF IInv, TypeOK
<1>3. Tracked' = Tracked /\ Settled' = Settled
  BY <1>1 DEF Tracked, Settled, Trail, Module, Done, Paths, Circular, Bodies, EndsIn, ToSet
<1>4. AnswerIsExact' = AnswerIsExact
  BY <1>1 DEF AnswerIsExact, Paths, Circular, Bodies, EndsIn, ToSet
<1> QED
  BY <1>1, <1>2, <1>3, <1>4 DEF IInv

LEMMA NextIInv == IInv /\ [Next]_vars => IInv'
<1> SUFFICES ASSUME IInv, [Next]_vars PROVE IInv'
  OBVIOUS
<1>1. CASE ReportNotCaptured
  BY <1>1, ReportNotCapturedIInv
<1>2. CASE MissDefinition
  BY <1>2, MissDefinitionIInv
<1>3. CASE FindBody
  BY <1>3, FindBodyIInv
<1>4. CASE MeetUnsupported
  BY <1>4, MeetUnsupportedIInv
<1>5. CASE FollowAlias
  BY <1>5, FollowAliasIInv
<1>6. CASE RefuseCycle
  BY <1>6, RefuseCycleIInv
<1>7. CASE Conclude
  BY <1>7, ConcludeIInv
<1>8. CASE Terminated \/ UNCHANGED vars
  BY <1>8, StutterIInv DEF Terminated
<1> QED
  BY <1>1, <1>2, <1>3, <1>4, <1>5, <1>6, <1>7, <1>8 DEF Next

LEMMA Invariance == Spec => []IInv
BY InitIInv, NextIInv, PTL DEF Spec

-----------------------------------------------------------------------------
(* What follows for llvm_evidence.                                         *)

\* Whatever the records of a capture say, the variables of llvm_evidence have
\* their types: every body is one of a module and a symbol of the capture.
THEOREM TypeCorrect == Spec => []TypeOK
<1>1. IInv => TypeOK
  BY DEF IInv
<1> QED
  BY <1>1, Invariance, PTL

\* For any number of modules and symbols, any definitions and any order of the
\* modules in the manifest, llvm_evidence answers with every body that a chain of
\* direct aliases leads to, and with nothing else, or with the cycle that such
\* a chain runs into.
THEOREM AnswerAlwaysExact == Spec => []AnswerIsExact
<1>1. IInv => AnswerIsExact
  BY DEF IInv
<1> QED
  BY <1>1, Invariance, PTL

-----------------------------------------------------------------------------
(* The order of instances.                                                 *)

LEMMA PrecedesCases ==
  ASSUME NEW u \in Records, NEW v \in Records
  PROVE  /\ Precedes(SortKey(u), SortKey(v)) <=>
              \/ u.display < v.display
              \/ u.display = v.display /\ u.definition < v.definition
              \/ u.display = v.display /\ u.definition = v.definition /\ u.symbol < v.symbol
         /\ SortKey(u) = SortKey(v) => u = v
<1> DEFINE s == SortKey(u)
           t == SortKey(v)
<1>1. /\ DOMAIN s = 1 .. 3 /\ s[1] = u.display /\ s[2] = u.definition /\ s[3] = u.symbol
      /\ t[1] = v.display /\ t[2] = v.definition /\ t[3] = v.symbol
  BY DEF SortKey
<1>2. 1 .. 3 = {1, 2, 3} /\ 1 .. 1 - 1 = {} /\ 1 .. 2 - 1 = {1} /\ 1 .. 3 - 1 = {1, 2}
  OBVIOUS
<1> HIDE DEF s, t
<1>3. Precedes(s, t) <=> \E k \in {1, 2, 3} : s[k] < t[k] /\ \A j \in 1 .. k - 1 : s[j] = t[j]
  BY <1>1, <1>2 DEF Precedes
<1>4. Precedes(s, t) <=>
        \/ s[1] < t[1]
        \/ s[1] = t[1] /\ s[2] < t[2]
        \/ s[1] = t[1] /\ s[2] = t[2] /\ s[3] < t[3]
  BY <1>2, <1>3
<1>5. Precedes(s, t) <=>
        \/ u.display < v.display
        \/ u.display = v.display /\ u.definition < v.definition
        \/ u.display = v.display /\ u.definition = v.definition /\ u.symbol < v.symbol
  BY <1>1, <1>4
<1>6. s = t => u = v
  BY <1>1 DEF Records
<1> QED
  BY <1>5, <1>6 DEF s, t

\* Records are ordered by their names, and no two have the same ones.
LEMMA RecordOrder ==
  ASSUME NEW p \in Records, NEW q \in Records, NEW r \in Records
  PROVE  /\ ~Precedes(SortKey(p), SortKey(p))
         /\ SortKey(p) = SortKey(q) => p = q
         /\ p # q => Precedes(SortKey(p), SortKey(q)) \/ Precedes(SortKey(q), SortKey(p))
         /\ Precedes(SortKey(p), SortKey(q)) => ~Precedes(SortKey(q), SortKey(p))
         /\ Precedes(SortKey(p), SortKey(q)) /\ Precedes(SortKey(q), SortKey(r))
              => Precedes(SortKey(p), SortKey(r))
<1>1. \A u \in Records : u.display \in Nat /\ u.definition \in Nat /\ u.symbol \in Nat
  BY DEF Records, Texts
<1>2. \A u, v \in Records :
        u.display = v.display /\ u.definition = v.definition /\ u.symbol = v.symbol => u = v
  BY DEF Records
<1>3. SortKey(p) = SortKey(q) => p = q
  BY PrecedesCases
<1>4. p # q => Precedes(SortKey(p), SortKey(q)) \/ Precedes(SortKey(q), SortKey(p))
  BY <1>1, <1>2, PrecedesCases
<1>5. ~Precedes(SortKey(p), SortKey(p))
  BY <1>1, PrecedesCases
<1>6. Precedes(SortKey(p), SortKey(q)) => ~Precedes(SortKey(q), SortKey(p))
  BY <1>1, PrecedesCases
<1>7. Precedes(SortKey(p), SortKey(q)) /\ Precedes(SortKey(q), SortKey(r))
        => Precedes(SortKey(p), SortKey(r))
  BY <1>1, PrecedesCases
<1> QED
  BY <1>3, <1>4, <1>5, <1>6, <1>7

LEMMA ManifestFacts ==
  ASSUME NEW m \in Manifests
  PROVE  /\ m \in Seq(Records) /\ IsFiniteSet(DOMAIN m) /\ Len(m) \in Nat /\ Len(m) <= MaxInstances
         /\ DOMAIN m = 1 .. Len(m) /\ \A j, k \in DOMAIN m : m[j] = m[k] => j = k
         /\ \A k \in DOMAIN m : m[k] \in Records
<1>1. PICK n \in 0 .. MaxInstances : m \in [1 .. n -> Records]
  BY DEF Manifests
<1>2. n \in Nat /\ n <= MaxInstances
  BY <1>1, SearchAssumption
<1>3. m \in Seq(Records) /\ Len(m) = n /\ DOMAIN m = 1 .. n
  BY <1>1, <1>2
<1>4. IsFiniteSet(1 .. n)
  BY <1>2, FS_Interval
<1> QED
  BY <1>1, <1>2, <1>3, <1>4 DEF Manifests

\* Sorting instances of a manifest: the n-th has n - 1 before it.
LEMMA SortedExact ==
  ASSUME NEW m \in Manifests, NEW matches \in SUBSET DOMAIN m
  PROVE  /\ IsFiniteSet(matches) /\ Cardinality(matches) \in Nat
         /\ Sorted(m, matches) = [n \in 1 .. Cardinality(matches) |-> Sorted(m, matches)[n]]
         /\ \A n \in 1 .. Cardinality(matches) :
              LET k == Sorted(m, matches)[n]
              IN  /\ k \in matches
                  /\ Cardinality({j \in matches : Precedes(SortKey(m[j]), SortKey(m[k]))}) = n - 1
<1> DEFINE UpTo == [k \in matches |-> {j \in matches : Earlier(m, j, k)}]
           c == Cardinality(matches)
<1>1. IsFiniteSet(matches) /\ c \in Nat
  BY ManifestFacts, FS_Subset, FS_CardinalityType
<1>2. \A j, k \in matches : Earlier(m, j, k) <=> j = k \/ Precedes(SortKey(m[j]), SortKey(m[k]))
  <2>1. SUFFICES ASSUME NEW j \in matches, NEW k \in matches
                 PROVE  Earlier(m, j, k) <=> j = k \/ Precedes(SortKey(m[j]), SortKey(m[k]))
    OBVIOUS
  <2>2. m[j] \in Records /\ m[k] \in Records /\ j \in Nat /\ k \in Nat /\ (m[j] = m[k] => j = k)
    BY ManifestFacts
  <2>3. SortKey(m[j]) = SortKey(m[k]) => j = k
    BY <2>2, RecordOrder
  <2> QED
    BY <2>2, <2>3 DEF Earlier
<1>3. \A k \in matches : k \in UpTo[k]
  BY <1>2
<1>4. ASSUME NEW j \in matches, NEW k \in matches, j # k
      PROVE  \/ UpTo[j] \subseteq UpTo[k] /\ k \notin UpTo[j]
             \/ UpTo[k] \subseteq UpTo[j] /\ j \notin UpTo[k]
  <2>1. \A i \in matches : m[i] \in Records
    BY ManifestFacts
  <2>2. m[j] # m[k]
    BY <1>4, ManifestFacts
  <2>3. CASE Precedes(SortKey(m[j]), SortKey(m[k]))
    <3>1. ~Precedes(SortKey(m[k]), SortKey(m[j]))
      BY <2>1, <2>3, RecordOrder
    <3>2. \A i \in matches : Precedes(SortKey(m[i]), SortKey(m[j])) => Precedes(SortKey(m[i]), SortKey(m[k]))
      BY <2>1, <2>3, RecordOrder
    <3> QED
      BY <1>2, <1>4, <2>3, <3>1, <3>2
  <2>4. CASE Precedes(SortKey(m[k]), SortKey(m[j]))
    <3>1. ~Precedes(SortKey(m[j]), SortKey(m[k]))
      BY <2>1, <2>4, RecordOrder
    <3>2. \A i \in matches : Precedes(SortKey(m[i]), SortKey(m[k])) => Precedes(SortKey(m[i]), SortKey(m[j]))
      BY <2>1, <2>4, RecordOrder
    <3> QED
      BY <1>2, <1>4, <2>4, <3>1, <3>2
  <2> QED
    BY <2>1, <2>2, <2>3, <2>4, RecordOrder
<1>5. UpTo \in [matches -> SUBSET matches]
  OBVIOUS
<1>6. \A k \in matches : UpTo[k] = {j \in matches : Earlier(m, j, k)}
  OBVIOUS
<1> HIDE DEF UpTo
<1>7. \A n \in 1 .. c : \E k \in matches : Cardinality(UpTo[k]) = n
  BY <1>1, <1>3, <1>4, <1>5, RanksEnumerate
<1>8. \A k \in matches : Place(m, matches, k) = Cardinality(UpTo[k])
  BY <1>6 DEF Place
<1>9. ASSUME NEW n \in 1 .. c
      PROVE  LET k == Sorted(m, matches)[n]
             IN  /\ k \in matches
                 /\ Cardinality({j \in matches : Precedes(SortKey(m[j]), SortKey(m[k]))}) = n - 1
  <2> DEFINE k == Sorted(m, matches)[n]
             B == {j \in matches : Precedes(SortKey(m[j]), SortKey(m[k]))}
  <2>1. k = CHOOSE i \in matches : Place(m, matches, i) = n
    BY DEF Sorted
  <2>2. \E i \in matches : Place(m, matches, i) = n
    BY <1>7, <1>8
  <2>3. k \in matches /\ Cardinality(UpTo[k]) = n
    BY <1>8, <2>1, <2>2
  <2> HIDE DEF k
  <2>4. B = UpTo[k] \ {k}
    <3>1. m[k] \in Records
      BY <2>3, ManifestFacts
    <3>2. ~Precedes(SortKey(m[k]), SortKey(m[k]))
      BY <3>1, RecordOrder
    <3> QED
      BY <1>2, <1>6, <2>3, <3>2
  <2>5. IsFiniteSet(UpTo[k]) /\ k \in UpTo[k]
    BY <1>1, <1>3, <1>5, <2>3, FS_Subset
  <2>6. Cardinality(B) = n - 1
    BY <2>3, <2>4, <2>5, FS_RemoveElement
  <2> QED
    BY <2>3, <2>6 DEF k
<1> QED
  BY <1>1, <1>9 DEF Sorted

\* A manifest has each record once, so counting records is counting positions.
LEMMA RecordsCounted ==
  ASSUME NEW m \in Manifests, NEW K \in SUBSET DOMAIN m
  PROVE  Cardinality({m[j] : j \in K}) = Cardinality(K)
<1> DEFINE f == [j \in K |-> m[j]]
           T == {m[j] : j \in K}
<1>1. IsFiniteSet(K) /\ \A i, j \in K : m[i] = m[j] => i = j
  BY ManifestFacts, FS_Subset
<1>2. f \in [K -> T] /\ \A t \in T : \E j \in K : f[j] = t
  OBVIOUS
<1>3. f \in Surjection(K, T)
  BY <1>2 DEF Surjection
<1>4. f \in Injection(K, T)
  BY <1>1, <1>2, Fun_IsInj
<1> QED
  BY <1>1, <1>3, <1>4, FS_Surjection

-----------------------------------------------------------------------------
(* The steps of find_instances and of what is done with its rows.          *)

\* Every row names its record in the capture that was searched.
RowsRefer ==
  /\ matched \in {"none", "refused"} => rows = <<>>
  /\ matched \in {"exact", "substring"} =>
       /\ searched # Nothing /\ searched.capture \in Captures
       /\ \A k \in DOMAIN rows :
            /\ rows[k].capture = searched.capture
            /\ rows[k].ordinal + 1 \in DOMAIN captures[searched.capture]
            /\ rows[k].record = captures[searched.capture][rows[k].ordinal + 1]

OpenedIsRow == opened # Nothing => \E k \in DOMAIN rows : opened = <<rows[k], rows[k].record>>

SearchIInv == SearchTypeOK /\ RowsRefer /\ OpenedIsRow /\ RowsAreExact

LEMMA SearchInitIInv == SearchInit => SearchIInv
<1> SUFFICES ASSUME SearchInit PROVE SearchIInv
  OBVIOUS
<1>1. SearchTypeOK
  BY SearchAssumption DEF SearchInit, SearchTypeOK
<1> QED
  BY <1>1 DEF SearchInit, SearchIInv, RowsRefer, OpenedIsRow, RowsAreExact

LEMMA PublishIInv == ASSUME SearchIInv, NEW m \in Manifests, Publish(m) PROVE SearchIInv'
<1>1. /\ captures \in Seq(Manifests) /\ Len(captures) < MaxCaptures
      /\ captures' = Append(captures, m)
      /\ UNCHANGED <<searched, rows, matched, total, opened>>
  BY DEF SearchIInv, SearchTypeOK, Publish
<1>2. /\ captures' \in Seq(Manifests) /\ Len(captures') = Len(captures) + 1 /\ Len(captures) \in Nat
      /\ \A c \in Captures : c \in Captures' /\ captures'[c] = captures[c]
  BY <1>1 DEF Captures
<1>3. SearchTypeOK'
  <2>1. Len(captures') <= MaxCaptures
    BY <1>1, <1>2, SearchAssumption
  <2> QED
    BY <1>1, <1>2, <2>1 DEF SearchIInv, SearchTypeOK
<1>4. matched \in {"exact", "substring"} => searched.capture \in Captures
  BY DEF SearchIInv, RowsRefer
<1>5. RowsRefer' /\ OpenedIsRow'
  BY <1>1, <1>2, <1>4 DEF SearchIInv, RowsRefer, OpenedIsRow
<1>6. RowsAreExact'
  <2>1. CASE matched \in {"exact", "substring"}
    <3>1. captures'[searched'.capture] = captures[searched.capture]
      BY <1>1, <1>2, <1>4, <2>1
    <3> QED
      BY <1>1, <2>1, <3>1 DEF SearchIInv, RowsAreExact
  <2>2. CASE matched \notin {"exact", "substring"}
    BY <1>1, <2>2 DEF RowsAreExact
  <2> QED
    BY <2>1, <2>2
<1> QED
  BY <1>3, <1>5, <1>6 DEF SearchIInv

LEMMA OpenRowIInv == ASSUME SearchIInv, NEW k, OpenRow(k) PROVE SearchIInv'
<1>1. /\ k \in DOMAIN rows /\ opened' = <<rows[k], Referenced(rows[k])>>
      /\ UNCHANGED <<captures, searched, rows, matched, total>>
      /\ rows \in Seq(Rows)
  BY DEF SearchIInv, SearchTypeOK, OpenRow
<1>2. rows[k] \in Rows /\ rows[k].record \in Records
  <2>1. rows[k] \in Rows
    BY <1>1
  <2> QED
    BY <2>1 DEF Rows
<1>3. Referenced(rows[k]) = rows[k].record
  <2>1. matched \in {"exact", "substring"}
    BY <1>1 DEF SearchIInv, SearchTypeOK, RowsRefer
  <2> QED
    BY <1>1, <2>1 DEF SearchIInv, RowsRefer, Referenced
<1>4. SearchTypeOK'
  BY <1>1, <1>2, <1>3 DEF SearchIInv, SearchTypeOK
<1>5. RowsRefer' /\ OpenedIsRow'
  BY <1>1, <1>3 DEF SearchIInv, RowsRefer, OpenedIsRow, Captures
<1>6. opened'[2] = opened'[1].record
  BY <1>1, <1>3
<1>7. RowsAreExact'
  BY <1>1, <1>6 DEF SearchIInv, RowsAreExact
<1> QED
  BY <1>4, <1>5, <1>7 DEF SearchIInv

LEMMA FindInstancesIInv ==
  ASSUME SearchIInv, NEW c \in 1 .. MaxCaptures, NEW query \in 0 .. MaxText,
         NEW limit \in 0 .. MaxLimit, FindInstances(c, query, limit)
  PROVE  SearchIInv'
<1> DEFINE m == captures[c]
           exact == ExactMatches(m, query)
           matches == IF exact # {} THEN exact ELSE SubstringMatches(m, query)
           order == Sorted(m, matches)
<1>1. /\ c \in DOMAIN captures /\ searched' = [capture |-> c, query |-> query, limit |-> limit]
      /\ opened' = Nothing /\ captures' = captures /\ captures \in Seq(Manifests)
  BY DEF SearchIInv, SearchTypeOK, FindInstances, Captures
<1>2. searched' # Nothing /\ searched'.capture = c /\ searched'.query = query /\ searched'.limit = limit
  BY <1>1 DEF Nothing
<1>3. m \in Manifests
  BY <1>1
<1>4. CASE query = 0 \/ limit = 0
  <2>1. matched' = "refused" /\ rows' = <<>> /\ total' = 0
    BY <1>4 DEF FindInstances
  <2>2. SearchTypeOK'
    BY <1>1, <2>1, SearchAssumption DEF SearchIInv, SearchTypeOK
  <2> QED
    BY <1>1, <2>1, <2>2 DEF SearchIInv, RowsRefer, OpenedIsRow, RowsAreExact
<1>5. CASE query # 0 /\ limit # 0
  <2> DEFINE n == Min({limit, Len(order)})
  <2>1. /\ matched' = IF exact # {} THEN "exact" ELSE "substring"
        /\ total' = Cardinality(matches)
        /\ rows' = [k \in 1 .. n |-> Row(c, order, k)]
    BY <1>5 DEF FindInstances
  <2>2. matches \in SUBSET DOMAIN m
    BY DEF ExactMatches, SubstringMatches
  <2>3. /\ Cardinality(matches) \in Nat /\ Cardinality(matches) <= MaxInstances
        /\ order \in Seq(matches) /\ Len(order) = Cardinality(matches)
        /\ \A k \in 1 .. Cardinality(matches) :
             /\ order[k] \in matches /\ order[k] \in DOMAIN m
             /\ Cardinality({j \in matches : Precedes(SortKey(m[j]), SortKey(m[order[k]]))}) = k - 1
    <3> HIDE DEF m, matches
    <3>1. /\ IsFiniteSet(matches) /\ Cardinality(matches) \in Nat
          /\ order = [k \in 1 .. Cardinality(matches) |-> order[k]]
          /\ \A k \in 1 .. Cardinality(matches) :
               /\ order[k] \in matches
               /\ Cardinality({j \in matches : Precedes(SortKey(m[j]), SortKey(m[order[k]]))}) = k - 1
      BY <1>3, <2>2, SortedExact
    <3>2. Cardinality(matches) <= MaxInstances
      <4>1. IsFiniteSet(DOMAIN m) /\ Cardinality(DOMAIN m) = Len(m) /\ Len(m) \in Nat /\ Len(m) <= MaxInstances
        <5>1. IsFiniteSet(DOMAIN m) /\ DOMAIN m = 1 .. Len(m) /\ Len(m) \in Nat /\ Len(m) <= MaxInstances
          BY <1>3, ManifestFacts
        <5>2. \A l \in Nat : Cardinality(1 .. l) = l
          BY FS_Interval
        <5> QED
          BY <5>1, <5>2
      <4>2. Cardinality(matches) <= Len(m)
        BY <2>2, <4>1, FS_Subset
      <4> QED
        BY <3>1, <4>1, <4>2, SearchAssumption
    <3> HIDE DEF order
    <3>3. order \in Seq(matches) /\ Len(order) = Cardinality(matches)
      <4>1. order \in [1 .. Cardinality(matches) -> matches]
        BY <3>1
      <4> QED
        BY <3>1, <4>1, SequenceOfFunction
    <3> QED
      BY <2>2, <3>1, <3>2, <3>3
  <2> HIDE DEF order
  <2>4. n \in Nat /\ n <= Cardinality(matches) /\ n = Min({Cardinality(matches), limit})
    <3>1. limit \in Nat
      BY SearchAssumption
    <3>2. {limit, Len(order)} = {Cardinality(matches), limit}
      BY <2>3
    <3> HIDE DEF matches
    <3> QED
      BY <2>3, <3>1, <3>2, MinOfTwo
  <2> HIDE DEF matches, n
  <2>5. ASSUME NEW k \in 1 .. n
        PROVE  /\ rows'[k] = [capture |-> c, ordinal |-> order[k] - 1, record |-> m[order[k]]]
               /\ k \in 1 .. Cardinality(matches) /\ order[k] \in DOMAIN m
               /\ order[k] - 1 \in 0 .. MaxInstances - 1 /\ (order[k] - 1) + 1 = order[k]
               /\ m[order[k]] \in Records
    <3>1. rows'[k] = [capture |-> c, ordinal |-> order[k] - 1, record |-> m[order[k]]]
      BY <2>1 DEF Row
    <3>2. k \in 1 .. Cardinality(matches) /\ order[k] \in DOMAIN m
      <4>1. Cardinality(matches) \in Nat /\ n \in Nat /\ n <= Cardinality(matches)
        BY <2>3, <2>4
      <4>2. k \in 1 .. Cardinality(matches)
        BY ONLY <4>1, k \in 1 .. n
      <4> QED
        BY <2>3, <4>2
    <3> HIDE DEF m
    <3>3. order[k] \in 1 .. Len(m) /\ Len(m) \in Nat /\ Len(m) <= MaxInstances /\ m[order[k]] \in Records
      BY <1>3, <3>2, ManifestFacts
    <3>4. order[k] - 1 \in 0 .. MaxInstances - 1 /\ (order[k] - 1) + 1 = order[k]
      BY <3>3, SearchAssumption
    <3> QED
      BY <3>1, <3>2, <3>3, <3>4
  <2>6. rows' \in Seq(Rows) /\ DOMAIN rows' = 1 .. n /\ Len(rows') = n
    <3>1. ASSUME NEW k \in 1 .. n PROVE rows'[k] \in Rows
      <4>1. /\ rows'[k] = [capture |-> c, ordinal |-> order[k] - 1, record |-> m[order[k]]]
            /\ order[k] - 1 \in 0 .. MaxInstances - 1 /\ m[order[k]] \in Records
        BY <2>5
      <4> HIDE DEF m
      <4> QED
        BY <4>1 DEF Rows
    <3>2. rows' \in [1 .. n -> Rows]
      BY <2>1, <3>1
    <3> QED
      BY <2>4, <3>2, SequenceOfFunction
  <2>7. SearchTypeOK'
    <3>1. total' \in 0 .. MaxInstances
      BY <2>1, <2>3, SearchAssumption
    <3>2. searched' \in [capture : 1 .. MaxCaptures, query : 0 .. MaxText, limit : 0 .. MaxLimit]
      BY <1>1
    <3> QED
      BY <1>1, <2>1, <2>6, <3>1, <3>2 DEF SearchIInv, SearchTypeOK
  <2>8. matched' \in {"exact", "substring"}
    BY <2>1
  <2>9. RowsRefer'
    <3>1. \A k \in DOMAIN rows' :
            /\ rows'[k].capture = c /\ rows'[k].ordinal + 1 \in DOMAIN m
            /\ rows'[k].record = m[rows'[k].ordinal + 1]
      BY <2>5, <2>6
    <3> QED
      BY <1>1, <1>2, <2>8, <3>1 DEF RowsRefer, Captures
  <2>10. OpenedIsRow'
    BY <1>1 DEF OpenedIsRow
  <2>11. RowsAreExact'
    <3> DEFINE records == ToSet(m)
               equal == {r \in records : query \in Names(r)}
               containing == {r \in records : \E x \in Names(r) : HasSubstring(x, query)}
               matching == IF equal # {} THEN equal ELSE containing
               Before(r) == {q \in matching :
                               Precedes(<<q.display, q.definition, q.symbol>>,
                                        <<r.display, r.definition, r.symbol>>)}
    <3>1. matching = {m[j] : j \in matches}
      <4>1. equal = {m[j] : j \in exact}
        BY DEF ExactMatches, ToSet
      <4>2. containing = {m[j] : j \in SubstringMatches(m, query)}
        BY DEF SubstringMatches, ToSet
      <4>3. exact = {} <=> equal = {}
        BY <4>1
      <4> HIDE DEF equal, containing
      <4> QED
        BY <4>1, <4>2, <4>3 DEF matches
    <3>2. total' = Cardinality(matching)
      <4> HIDE DEF m, matching
      <4> QED
        BY <1>3, <2>1, <2>2, <3>1, RecordsCounted
    <3>3. Len(rows') = Min({total', limit})
      BY <2>1, <2>4, <2>6
    <3> HIDE DEF matching
    <3>4. ASSUME NEW k \in 1 .. n
          PROVE  /\ rows'[k].record = m[order[k]] /\ rows'[k].record \in matching
                 /\ Cardinality(Before(rows'[k].record)) = k - 1
      <4> DEFINE B == {j \in matches : Precedes(SortKey(m[j]), SortKey(m[order[k]]))}
      <4>1. rows'[k].record = m[order[k]] /\ order[k] \in matches /\ Cardinality(B) = k - 1
        <5>1. /\ rows'[k] = [capture |-> c, ordinal |-> order[k] - 1, record |-> m[order[k]]]
              /\ k \in 1 .. Cardinality(matches)
          BY <2>5
        <5> HIDE DEF m
        <5>2. order[k] \in matches /\ Cardinality(B) = k - 1
          BY <2>3, <5>1
        <5> QED
          BY <5>1, <5>2
      <4>2. Before(m[order[k]]) = {m[j] : j \in B}
        BY <3>1 DEF SortKey
      <4>3. B \in SUBSET DOMAIN m
        BY <2>2
      <4>4. Cardinality({m[j] : j \in B}) = Cardinality(B)
        <5> HIDE DEF m, B
        <5> QED
          BY <1>3, <4>3, RecordsCounted
      <4> QED
        BY <3>1, <4>1, <4>2, <4>4
    <3>5. captures'[searched'.capture] = m
      BY <1>1, <1>2
    <3>6. opened' = Nothing
      BY <1>1
    <3> HIDE DEF m
    <3> QED
      BY <1>2, <2>6, <3>2, <3>3, <3>4, <3>5, <3>6 DEF RowsAreExact, matching
  <2> QED
    BY <2>7, <2>9, <2>10, <2>11 DEF SearchIInv
<1> QED
  BY <1>4, <1>5

LEMMA SearchNextIInv == SearchIInv /\ [SearchNext]_searchVars => SearchIInv'
<1> SUFFICES ASSUME SearchIInv, [SearchNext]_searchVars PROVE SearchIInv'
  OBVIOUS
<1>1. ASSUME NEW m \in Manifests, Publish(m) PROVE SearchIInv'
  BY <1>1, PublishIInv
<1>2. ASSUME NEW c \in 1 .. MaxCaptures, NEW query \in 0 .. MaxText, NEW limit \in 0 .. MaxLimit,
             FindInstances(c, query, limit)
      PROVE  SearchIInv'
  BY <1>2, FindInstancesIInv
<1>3. ASSUME NEW k \in 1 .. MaxInstances, OpenRow(k) PROVE SearchIInv'
  BY <1>3, OpenRowIInv
<1>4. CASE UNCHANGED searchVars
  <2>1. UNCHANGED <<captures, searched, rows, matched, total, opened>>
    BY <1>4 DEF searchVars
  <2>2. SearchTypeOK'
    BY <2>1 DEF SearchIInv, SearchTypeOK
  <2>3. RowsRefer' /\ OpenedIsRow'
    BY <2>1 DEF SearchIInv, RowsRefer, OpenedIsRow, Captures
  <2>4. RowsAreExact'
    BY <2>1 DEF SearchIInv, RowsAreExact
  <2> QED
    BY <2>2, <2>3, <2>4 DEF SearchIInv
<1> QED
  BY <1>1, <1>2, <1>3, <1>4 DEF SearchNext

LEMMA SearchInvariance == SearchSpec => []SearchIInv
BY SearchInitIInv, SearchNextIInv, PTL DEF SearchSpec

-----------------------------------------------------------------------------
(* What follows for find_instances.                                        *)

\* For any captures and searches, the rows of find_instances, what a later use of
\* their references opens, and the counts have their types.
THEOREM SearchTypeCorrect == SearchSpec => []SearchTypeOK
<1>1. SearchIInv => SearchTypeOK
  BY DEF SearchIInv
<1> QED
  BY <1>1, SearchInvariance, PTL

\* For any captures, query and limit, the rows of find_instances are the matching
\* records in their order, whatever the order of the manifest, and a reference
\* opens the record that the search showed, whatever is published in between.
THEOREM RowsAlwaysExact == SearchSpec => []RowsAreExact
<1>1. SearchIInv => RowsAreExact
  BY DEF SearchIInv
<1> QED
  BY <1>1, SearchInvariance, PTL

-----------------------------------------------------------------------------
(* Tokens of llvm_index, and the names that are decoded from them.         *)

Atoms == STRING \cup {"quote", "backslash", "bad"}

\* What Unescape works on.
Decoding == {s \in [out : Seq(Atoms), pending : Seq(Atoms)] : Len(s.pending) <= 2}

Held(s) == Len(s.out) + Len(s.pending)

\* An atom adds at most one.
LEMMA UnescapeAtom ==
  ASSUME NEW out \in Seq(Atoms), NEW pending \in Seq(Atoms), Len(pending) <= 2,
         NEW atom \in Atoms
  PROVE  \E o, p \in Seq(Atoms) :
           /\ Unescape([out |-> out, pending |-> pending], atom) = [out |-> o, pending |-> p]
           /\ Len(p) <= 2 /\ Len(o) + Len(p) <= Len(out) + Len(pending) + 1
<1> DEFINE none == <<>>
           m == Len(out)
           n == Len(pending)
           Result(o, p) ==
             Unescape([out |-> out, pending |-> pending], atom) = [out |-> o, pending |-> p]
           Goal == \E o, p \in Seq(Atoms) :
                     Result(o, p) /\ Len(p) <= 2 /\ Len(o) + Len(p) <= m + n + 1
<1>1. /\ m \in Nat /\ n \in Nat /\ n <= 2 /\ (pending = none <=> n = 0)
      /\ none \in Seq(Atoms) /\ Len(none) = 0
      /\ <<atom>> \in Seq(Atoms) /\ Len(<<atom>>) = 1
  BY EmptySeq, LenProperties
<1>2. \A x \in Atoms : /\ Append(out, x) \in Seq(Atoms) /\ Len(Append(out, x)) = m + 1
                      /\ Append(pending, x) \in Seq(Atoms) /\ Len(Append(pending, x)) = n + 1
  BY AppendProperties
<1>3. ASSUME NEW o \in Seq(Atoms), NEW p \in Seq(Atoms), Result(o, p),
             Len(p) <= 2, Len(o) + Len(p) <= m + n + 1
      PROVE  Goal
  BY <1>3, Zenon
<1>4. CASE pending = none /\ atom = "backslash"
  <2>1. Result(out, <<atom>>)
    BY <1>1, <1>4 DEF Unescape
  <2>2. Len(<<atom>>) <= 2 /\ Len(out) + Len(<<atom>>) <= m + n + 1
    BY <1>1, <1>4
  <2> QED
    BY <1>1, <1>3, <2>1, <2>2, Zenon
<1>5. CASE pending = none /\ atom # "backslash"
  <2>1. Result(Append(out, atom), pending)
    BY <1>1, <1>5 DEF Unescape
  <2>2. Len(pending) <= 2 /\ Len(Append(out, atom)) + Len(pending) <= m + n + 1
    BY <1>1, <1>2, <1>5
  <2> QED
    BY <1>2, <1>3, <2>1, <2>2, Zenon
<1>6. CASE n = 1 /\ atom = "backslash"
  <2>1. Result(Append(out, atom), none)
    <3> DEFINE s == [out |-> out, pending |-> pending]
    <3>1. /\ s.out = out /\ s.pending = pending
          /\ Len(s.pending) = 1 /\ s.pending # <<>> /\ Len(s.pending) # 2
      BY <1>1, <1>6
    <3>2. Unescape(s, atom) = [out |-> Append(s.out, atom), pending |-> <<>>]
      <4> HIDE DEF s
      <4> QED
        BY <1>6, <3>1, Zenon DEF Unescape
    <3> QED
      BY <3>1, <3>2, Zenon
  <2>2. Len(none) <= 2 /\ Len(Append(out, atom)) + Len(none) <= m + n + 1
    BY <1>1, <1>2, <1>6
  <2> QED
    BY <1>1, <1>2, <1>3, <2>1, <2>2, Zenon
<1>7. CASE n = 1 /\ atom # "backslash"
  <2>1. Result(out, Append(pending, atom))
    <3> DEFINE s == [out |-> out, pending |-> pending]
               more == Append(pending, atom)
    <3>1. s.pending = pending /\ Len(s.pending) = 1 /\ s.pending # <<>> /\ Len(s.pending) # 2
      BY <1>1, <1>7
    <3>2. Unescape(s, atom) = [s EXCEPT !.pending = Append(@, atom)]
      <4> HIDE DEF s
      <4> QED
        BY <1>7, <3>1, Zenon DEF Unescape
    <3>3. [s EXCEPT !.pending = Append(@, atom)] = [out |-> out, pending |-> more]
      <4>1. Append(s.pending, atom) = more
        BY <3>1, Zenon
      <4>2. [s EXCEPT !.pending = more] = [out |-> out, pending |-> more]
        <5> HIDE DEF more
        <5> QED
          OBVIOUS
      <4> HIDE DEF s, more
      <4> QED
        BY <4>1, <4>2, Zenon
    <3> QED
      BY <3>2, <3>3, Zenon
  <2>2. /\ Len(Append(pending, atom)) <= 2
        /\ Len(out) + Len(Append(pending, atom)) <= m + n + 1
    BY <1>1, <1>2, <1>7
  <2> QED
    BY <1>2, <1>3, <2>1, <2>2, Zenon
<1>8. CASE n = 2
  <2> DEFINE x == CASE <<pending[2], atom>> = <<"2", "2">> -> "quote"
                    [] <<pending[2], atom>> = <<"5", "C">> -> "backslash"
                    [] OTHER -> "bad"
  <2>1. x \in Atoms
    BY DEF Atoms
  <2>2. Result(Append(out, x), none)
    <3> HIDE DEF x
    <3> QED
      BY <1>1, <1>8 DEF Unescape, x
  <2> HIDE DEF x
  <2>3. Len(none) <= 2 /\ Len(Append(out, x)) + Len(none) <= m + n + 1
    BY <1>1, <1>2, <1>8, <2>1
  <2> QED
    BY <1>1, <1>2, <1>3, <2>1, <2>2, <2>3, Zenon
<1>9. n = 0 \/ n = 1 \/ n = 2
  <2> HIDE DEF n
  <2> QED
    BY <1>1
<1> QED
  BY <1>1, <1>4, <1>5, <1>6, <1>7, <1>8, <1>9, Zenon

LEMMA UnescapeStep ==
  ASSUME NEW s \in Decoding, NEW atom \in Atoms
  PROVE  Unescape(s, atom) \in Decoding /\ Held(Unescape(s, atom)) <= Held(s) + 1
<1>1. PICK out, pending \in Seq(Atoms) :
        s = [out |-> out, pending |-> pending] /\ Len(pending) <= 2
  BY DEF Decoding
<1>2. PICK o, p \in Seq(Atoms) :
        /\ Unescape(s, atom) = [out |-> o, pending |-> p]
        /\ Len(p) <= 2 /\ Len(o) + Len(p) <= Len(out) + Len(pending) + 1
  BY <1>1, UnescapeAtom
<1>3. /\ Len(out) \in Nat /\ Len(pending) \in Nat /\ Len(o) \in Nat /\ Len(p) \in Nat
  BY LenProperties
<1>4. Held(s) = Len(out) + Len(pending) /\ Held(Unescape(s, atom)) = Len(o) + Len(p)
  <2>1. s.out = out /\ s.pending = pending
    BY <1>1
  <2>2. Unescape(s, atom).out = o /\ Unescape(s, atom).pending = p
    BY <1>2
  <2> QED
    BY <2>1, <2>2, Zenon DEF Held
<1>5. Unescape(s, atom) \in Decoding
  BY <1>2 DEF Decoding
<1> QED
  BY <1>2, <1>3, <1>4, <1>5

\* What is decoded is never longer than what is quoted.
LEMMA UnescapedLength ==
  ASSUME NEW quoted \in Seq(Atoms)
  PROVE  Unescaped(quoted) \in Decoding /\ Held(Unescaped(quoted)) <= Len(quoted)
<1> DEFINE n == Len(quoted)
           none == [out |-> <<>>, pending |-> <<>>]
           reading == [i \in 1 .. n |-> [s \in Decoding |-> Unescape(s, quoted[i])]]
           Body(g, i) == IF i = 0 THEN none ELSE Unescape(g[i - 1], quoted[i])
           after == CHOOSE g : g = [i \in 0 .. n |-> Body(g, i)]
<1>1. n \in Nat /\ (\A i \in 1 .. n : quoted[i] \in Atoms) /\ none \in Decoding /\ Held(none) = 0
  BY DEF Decoding, Held
<1>2. reading \in Steps(Decoding, n)
  BY <1>1, UnescapeStep DEF Steps
<1>3. PICK f : IsRun(f, Decoding, none, n, reading)
  <2> HIDE DEF n, none, reading
  <2> QED
    BY <1>1, <1>2, RunExists
<1>4. /\ f \in [0 .. n -> Decoding] /\ f[0] = none
      /\ \A i \in 1 .. n : f[i - 1] \in Decoding /\ f[i] = Unescape(f[i - 1], quoted[i])
  <2>1. \A i \in 1 .. n : i - 1 \in 0 .. n
    BY <1>1
  <2> QED
    BY <1>3, <2>1 DEF IsRun
<1> HIDE DEF n, none, reading
<1>5. f = [i \in 0 .. n |-> Body(f, i)]
  <2>1. ASSUME NEW i \in 0 .. n
        PROVE  f[i] = Body(f, i)
    BY <1>1, <1>4
  <2> QED
    BY <1>4, <2>1
<1>6. after = [i \in 0 .. n |-> Body(after, i)]
  BY <1>5, Zenon
<1>7. Unescaped(quoted) = after[n]
  BY Zenon DEF Unescaped, n, none
<1> HIDE DEF after
<1>8. \A i \in 0 .. n : after[i] = Body(after, i)
  BY <1>6, Zenon
<1> DEFINE K == {i \in Nat : i <= n => after[i] = f[i] /\ Held(f[i]) <= i}
<1>9. 0 \in K
  BY <1>1, <1>4, <1>8
<1>10. ASSUME NEW i \in Nat, i \in K
       PROVE  i + 1 \in K
  <2>1. SUFFICES ASSUME i + 1 <= n PROVE after[i + 1] = f[i + 1] /\ Held(f[i + 1]) <= i + 1
    OBVIOUS
  <2>2. i + 1 \in 1 .. n /\ i + 1 \in 0 .. n /\ (i + 1) - 1 = i /\ i + 1 # 0 /\ i \in 0 .. n
    BY <1>1, <2>1
  <2>3. after[i] = f[i] /\ Held(f[i]) <= i /\ f[i] \in Decoding
    BY <1>4, <1>10, <2>2
  <2>4. after[i + 1] = Unescape(f[i], quoted[i + 1]) /\ f[i + 1] = Unescape(f[i], quoted[i + 1])
    BY <1>4, <1>8, <2>2, <2>3
  <2>5. f[i + 1] \in Decoding /\ Held(f[i + 1]) <= Held(f[i]) + 1
    BY <1>1, <2>2, <2>3, <2>4, UnescapeStep
  <2>6. \A d \in Decoding : Held(d) \in Nat
    BY DEF Held, Decoding
  <2> QED
    <3>1. Held(f[i]) \in Nat /\ Held(f[i + 1]) \in Nat
      BY <2>3, <2>5, <2>6
    <3> QED
      BY <2>3, <2>4, <2>5, <3>1
<1>11. n \in K
  <2> HIDE DEF K
  <2> QED
    BY <1>1, <1>9, <1>10, SetInduction
<1>12. f[n] \in Decoding /\ Held(f[n]) <= n /\ after[n] = f[n]
  BY <1>1, <1>4, <1>11
<1> QED
  BY <1>7, <1>12 DEF n

\* A name is shorter than the token that it is decoded from.
LEMMA DecodedName ==
  ASSUME NEW t \in Seq(Atoms), Decodable(t)
  PROVE  Decode(t) \in Seq(Atoms) /\ Len(Decode(t)) \in Nat /\ Len(Decode(t)) < Len(t)
<1>1. Len(t) \in Nat /\ Len(t) > 1
  BY DEF Decodable
<1>2. CASE t[2] = "quote"
  <2> DEFINE q == SubSeq(t, 3, Len(t) - 1)
  <2>1. q \in Seq(Atoms) /\ Len(q) \in Nat /\ Len(q) < Len(t)
    BY <1>1
  <2> HIDE DEF q
  <2>2. Unescaped(q) \in Decoding /\ Held(Unescaped(q)) <= Len(q)
    BY <2>1, UnescapedLength
  <2>3. /\ Unescaped(q).out \in Seq(Atoms)
        /\ Len(Unescaped(q).out) \in Nat /\ Len(Unescaped(q).out) <= Len(q)
    BY <2>1, <2>2 DEF Decoding, Held
  <2>4. Decode(t) = Unescaped(q).out
    BY <1>2 DEF Decode, q
  <2> QED
    BY <1>1, <2>1, <2>3, <2>4
<1>3. CASE t[2] # "quote"
  <2>1. Decode(t) = Tail(t)
    BY <1>3 DEF Decode
  <2> QED
    BY <1>1, <2>1
<1> QED
  BY <1>2, <1>3

\* A token ends after its beginning and within the text.
LEMMA TokenExtent ==
  ASSUME text \in Seq(Atoms), offset \in 0 .. Len(text), AtToken, NEW e \in TokenEnds
  PROVE  /\ e \in offset + 1 .. Len(text)
         /\ SubSeq(text, offset + 1, e) \in Seq(Atoms)
         /\ Len(SubSeq(text, offset + 1, e)) = e - offset
<1>1. Len(text) \in Nat /\ offset \in Nat /\ offset < Len(text)
  <2>1. Len(text) \in Nat
    BY LenProperties
  <2>2. At(offset) # "eof"
    BY DEF AtToken, Peek
  <2> QED
    BY <2>1, <2>2 DEF At
<1>2. e \in offset + 1 .. Len(text)
  <2> DEFINE first == Peek
             open == IF first = "quote" THEN offset + 1
                     ELSE IF first \in {"@", "%"} /\ At(offset + 1) = "quote" THEN offset + 2
                     ELSE 0
             quotes == {p \in open + 1 .. Len(text) : text[p] = "quote"}
             others == {p \in offset + 1 .. Len(text) - 1 : ~IsWord(text[p + 1])}
  <2>1. open = 0 \/ (open \in Nat /\ open >= offset + 1)
    BY <1>1
  <2>2. others \cup {Len(text)} \in SUBSET (offset + 1 .. Len(text))
    BY <1>1
  <2>3. quotes \in SUBSET (open + 1 .. Len(text))
    OBVIOUS
  <2>4. \/ open > 0 /\ quotes # {} /\ e = Min(quotes)
        \/ e = Min(others \cup {Len(text)})
        \/ e = offset + 1
    BY <2>1, Zenon DEF TokenEnds
  <2> HIDE DEF open, quotes, others
  <2>5. CASE open > 0 /\ quotes # {} /\ e = Min(quotes)
    <3>1. quotes \in SUBSET Nat
      BY <2>1, <2>3, <1>1
    <3>2. e \in quotes
      BY <2>5, <3>1, MinOfSet
    <3> QED
      BY <1>1, <2>1, <2>3, <2>5, <3>2
  <2>6. CASE e = Min(others \cup {Len(text)})
    <3>1. others \cup {Len(text)} \in SUBSET Nat /\ others \cup {Len(text)} # {}
      BY <2>2, <1>1
    <3>2. e \in others \cup {Len(text)}
      BY <2>6, <3>1, MinOfSet
    <3> QED
      BY <2>2, <3>2
  <2>7. CASE e = offset + 1
    BY <1>1, <2>7
  <2> QED
    BY <2>4, <2>5, <2>6, <2>7
<1> QED
  BY <1>1, <1>2

-----------------------------------------------------------------------------
(* What a token adds to the goals of a header.                             *)

FunctionGoals ==
  {"(", ")", "]", "}", ">", "any", "symbol", "string", "flagged operands",
   "name", "tail", "typed constant", "pointer constant", "constant"}
KindGoals == {"(", ")", "]", "}", ">", "=", "kind"}
AliasGoals == KindGoals \cup
  {"any", "symbol", "string", "flagged operands", "alias type", "comma", "operand",
   "target", "spaced target", "suffix", "suffix kind"}

\* The readings of a group or a constant.
Small(g, G) == g = <<>> \/ (\E a \in G : g = <<a>>) \/ g = <<"(", ")">>

\* A token adds one goal more than it replaces, or two if it must be followed by a
\* parenthesis, which adds none.
Fits(g, G) == g \in Seq(G) /\ (Len(g) <= 2 \/ (Len(g) = 3 /\ g[1] = "("))

LEMMA ClosersAre ==
  Closers = {")", "]", "}", ">"} /\ Openers = {"(", "[", "{", "<"}
<1>1. DOMAIN Closing = {1, 2, 3, 4} /\ DOMAIN Opening = {1, 2, 3, 4}
  BY DEF Closing, Opening
<1>2. /\ Closing[1] = ")" /\ Closing[2] = "]" /\ Closing[3] = "}" /\ Closing[4] = ">"
      /\ Opening[1] = "(" /\ Opening[2] = "[" /\ Opening[3] = "{" /\ Opening[4] = "<"
  BY DEF Closing, Opening
<1> QED
  BY <1>1, <1>2 DEF Closers, Openers, ToSet

LEMMA FitsExplicitly ==
  ASSUME NEW G, NEW a \in G, NEW b \in G
  PROVE  /\ Fits(<<>>, G) /\ Fits(<<a>>, G) /\ Fits(<<a, b>>, G)
         /\ "(" \in G => Fits(<<"(", a, b>>, G)
BY DEF Fits

LEMMA JoinedTuples ==
  ASSUME NEW a, NEW b, NEW c
  PROVE  <<a>> \o <<b>> = <<a, b>> /\ <<a, b>> \o <<c>> = <<a, b, c>>
<1> DEFINE S == {a, b, c}
<1>1. <<a>> \in Seq(S) /\ <<b>> \in Seq(S) /\ <<a, b>> \in Seq(S) /\ <<c>> \in Seq(S)
  OBVIOUS
<1>2. Append(<<a>>, b) = <<a, b>> /\ Append(<<a, b>>, c) = <<a, b, c>>
  <2>1. \A s \in Seq(S) : \A e \in S :
          /\ Append(s, e) \in Seq(S) /\ Len(Append(s, e)) = Len(s) + 1
          /\ Append(s, e)[Len(s) + 1] = e
          /\ \A k \in 1 .. Len(s) : Append(s, e)[k] = s[k]
    BY AppendProperties
  <2> DEFINE p == Append(<<a>>, b)
             q == Append(<<a, b>>, c)
  <2>2. p \in Seq(S) /\ Len(p) = 2 /\ p[1] = a /\ p[2] = b
    BY <1>1, <2>1
  <2>3. q \in Seq(S) /\ Len(q) = 3 /\ q[1] = a /\ q[2] = b /\ q[3] = c
    BY <1>1, <2>1
  <2> HIDE DEF p, q
  <2>4. p = <<a, b>> /\ q = <<a, b, c>>
    BY <2>2, <2>3
  <2> QED
    BY <2>4 DEF p, q
<1>3. <<a>> \o <<b>> = Append(<<a>>, b) /\ <<a, b>> \o <<c>> = Append(<<a, b>>, c)
  <2> HIDE DEF S
  <2>1. b \in S /\ c \in S
    BY DEF S
  <2> QED
    BY <1>1, <2>1, AppendIsConcat
<1> QED
  BY <1>2, <1>3, Zenon

LEMMA SmallFits ==
  ASSUME NEW G, "(" \in G, ")" \in G, NEW goal \in G, NEW g, Small(g, G)
  PROVE  Fits(g, G) /\ Fits(g \o <<goal>>, G)
<1>1. CASE g = <<>>
  <2>1. g \o <<goal>> = <<goal>>
    BY <1>1
  <2> QED
    BY <1>1, <2>1, FitsExplicitly
<1>2. CASE \E a \in G : g = <<a>>
  <2>1. PICK a \in G : g = <<a>>
    BY <1>2
  <2>2. g \o <<goal>> = <<a, goal>>
    BY <2>1, JoinedTuples, Zenon
  <2> QED
    BY <2>1, <2>2, FitsExplicitly
<1>3. CASE g = <<"(", ")">>
  <2>1. g \o <<goal>> = <<"(", ")", goal>>
    BY <1>3, JoinedTuples, Zenon
  <2> QED
    BY <1>3, <2>1, FitsExplicitly
<1> QED
  BY <1>1, <1>2, <1>3 DEF Small

LEMMA GroupAdds ==
  ASSUME NEW t, NEW g \in Group(t)
  PROVE  g = <<>> \/ \E a \in {")", "]", "}", ">"} : g = <<a>>
<1>1. DOMAIN Opening = DOMAIN Closing
  BY DEF Opening, Closing
<1>2. CASE t[1] \in Openers
  <2>1. PICK k \in DOMAIN Opening : g = <<Closing[k]>>
    BY <1>2 DEF Group
  <2>2. Closing[k] \in Closers
    BY <1>1, Zenon DEF Closers, ToSet
  <2> QED
    BY <2>1, <2>2, ClosersAre
<1>3. CASE t[1] \notin Openers /\ t[1] \in Closers
  BY <1>3 DEF Group
<1>4. CASE t[1] \notin Openers /\ t[1] \notin Closers
  BY <1>4 DEF Group
<1> QED
  BY <1>2, <1>3, <1>4

LEMMA ConstantAdds ==
  ASSUME NEW t, NEW g \in Constant(t)
  PROVE  \/ g = <<>> \/ g = <<"(", ")">>
         \/ \E a \in {")", "]", "}", ">", "symbol", "string", "flagged operands"} : g = <<a>>
BY GroupAdds DEF Constant

LEMMA SmallReadings ==
  ASSUME NEW G, {"(", ")", "]", "}", ">"} \subseteq G, NEW t, NEW g
  PROVE  /\ g \in Group(t) => Small(g, G)
         /\ g \in Constant(t) /\ {"symbol", "string", "flagged operands"} \subseteq G => Small(g, G)
<1>1. ASSUME g \in Group(t) PROVE Small(g, G)
  BY <1>1, GroupAdds DEF Small
<1>2. ASSUME g \in Constant(t), {"symbol", "string", "flagged operands"} \subseteq G
      PROVE  Small(g, G)
  BY <1>2, ConstantAdds DEF Small
<1> QED
  BY <1>1, <1>2

\* The sets of readings that After is composed of.
LEMMA ReadingsFit ==
  ASSUME NEW G, {"(", ")", "]", "}", ">"} \subseteq G, NEW t, NEW goal \in G, NEW g
  PROVE  /\ g \in Group(t) \/ g \in Then(Group(t), goal) => Fits(g, G)
         /\ /\ {"symbol", "string", "flagged operands"} \subseteq G
            /\ g \in Constant(t) \/ g \in Then(Constant(t), goal)
            => Fits(g, G)
<1>1. "(" \in G /\ ")" \in G
  OBVIOUS
<1>2. ASSUME g \in Group(t)
      PROVE  Fits(g, G)
  BY <1>1, <1>2, SmallReadings, SmallFits
<1>3. ASSUME g \in Then(Group(t), goal)
      PROVE  Fits(g, G)
  <2>1. PICK h \in Group(t) : g = h \o <<goal>>
    BY <1>3 DEF Then
  <2> QED
    BY <1>1, <2>1, SmallReadings, SmallFits
<1>4. ASSUME g \in Constant(t), {"symbol", "string", "flagged operands"} \subseteq G
      PROVE  Fits(g, G)
  BY <1>1, <1>4, SmallReadings, SmallFits
<1>5. ASSUME g \in Then(Constant(t), goal), {"symbol", "string", "flagged operands"} \subseteq G
      PROVE  Fits(g, G)
  <2>1. PICK h \in Constant(t) : g = h \o <<goal>>
    BY <1>5 DEF Then
  <2> QED
    BY <1>1, <1>5, <2>1, SmallReadings, SmallFits
<1> QED
  BY <1>2, <1>3, <1>4, <1>5

\* Every goal of a function's header is replaced by goals of one.
LEMMA FunctionAfter ==
  ASSUME NEW t, NEW goal \in FunctionGoals, NEW g \in After(goal, t)
  PROVE  Fits(g, FunctionGoals)
<1>1. /\ {"(", ")", "]", "}", ">"} \subseteq FunctionGoals
      /\ {"symbol", "string", "flagged operands"} \subseteq FunctionGoals
  BY DEF FunctionGoals
<1>2. "(" \in FunctionGoals /\ ")" \in FunctionGoals
  BY <1>1
<1>3. /\ "any" \in FunctionGoals /\ "symbol" \in FunctionGoals /\ "string" \in FunctionGoals
      /\ "flagged operands" \in FunctionGoals
      /\ "name" \in FunctionGoals /\ "tail" \in FunctionGoals /\ "typed constant" \in FunctionGoals
      /\ "pointer constant" \in FunctionGoals /\ "constant" \in FunctionGoals
  BY DEF FunctionGoals
<1>4. \A h :
        /\ \A x \in FunctionGoals :
             h \in Group(t) \/ h \in Then(Group(t), x) => Fits(h, FunctionGoals)
        /\ h \in Constant(t) => Fits(h, FunctionGoals)
  BY <1>1, <1>2, ReadingsFit
<1>5. \A a, b \in FunctionGoals :
        /\ Fits(<<>>, FunctionGoals) /\ Fits(<<a>>, FunctionGoals)
        /\ Fits(<<a, b>>, FunctionGoals) /\ Fits(<<"(", a, b>>, FunctionGoals)
  BY <1>2, FitsExplicitly
<1>6. CASE goal = "("
  BY <1>2, <1>5, <1>6, ClosersAre DEF After, Only
<1>7. CASE goal \in Closers
  BY <1>4, <1>5, <1>7, ClosersAre DEF After
<1>8. CASE goal = "any"
  BY <1>2, <1>4, <1>8, ClosersAre DEF After
<1>9. CASE goal = "symbol"
  BY <1>2, <1>5, <1>9, ClosersAre DEF After
<1>10. CASE goal = "string"
  BY <1>2, <1>5, <1>10, ClosersAre DEF After
<1>11. CASE goal = "flagged operands"
  BY <1>2, <1>3, <1>5, <1>11, ClosersAre DEF After
<1>12. CASE goal = "name"
  BY <1>2, <1>3, <1>4, <1>5, <1>12, ClosersAre DEF After
<1>13. CASE goal = "tail"
  BY <1>2, <1>3, <1>4, <1>5, <1>13, ClosersAre DEF After
<1>14. CASE goal = "typed constant"
  BY <1>3, <1>4, <1>14, ClosersAre DEF After
<1>15. CASE goal = "pointer constant"
  BY <1>2, <1>3, <1>4, <1>5, <1>15, ClosersAre DEF After
<1>16. CASE goal = "constant"
  BY <1>4, <1>16, ClosersAre DEF After
<1>17. \/ goal \in Closers \/ goal = "(" \/ goal = "any" \/ goal = "symbol" \/ goal = "string"
       \/ goal = "flagged operands" \/ goal = "name" \/ goal = "tail" \/ goal = "typed constant"
       \/ goal = "pointer constant" \/ goal = "constant"
  BY ClosersAre DEF FunctionGoals
<1> QED
  BY <1>6, <1>7, <1>8, <1>9, <1>10, <1>11, <1>12, <1>13, <1>14, <1>15, <1>16, <1>17

\* A global's header has its own until a keyword makes it one of an alias.
LEMMA KindAfter ==
  ASSUME NEW t, NEW goal \in KindGoals, NEW g \in After(goal, t),
         ~(goal = "kind" /\ IsOneOf(t, {"alias", "ifunc"}))
  PROVE  Fits(g, KindGoals)
<1>1. {"(", ")", "]", "}", ">"} \subseteq KindGoals
  BY DEF KindGoals
<1>2. "(" \in KindGoals /\ ")" \in KindGoals /\ "=" \in KindGoals /\ "kind" \in KindGoals
  BY DEF KindGoals
<1>3. \A h : \A x \in KindGoals :
        h \in Group(t) \/ h \in Then(Group(t), x) => Fits(h, KindGoals)
  BY <1>1, ReadingsFit
<1>4. \A a, b \in KindGoals :
        /\ Fits(<<>>, KindGoals) /\ Fits(<<a>>, KindGoals) /\ Fits(<<a, b>>, KindGoals)
        /\ Fits(<<"(", a, b>>, KindGoals)
  BY <1>2, FitsExplicitly
<1>5. CASE goal \in {"(", "="}
  BY <1>2, <1>4, <1>5, ClosersAre DEF After, Only
<1>6. CASE goal \in Closers
  BY <1>3, <1>4, <1>6, ClosersAre DEF After
<1>7. CASE goal = "kind"
  BY <1>2, <1>4, <1>7, ClosersAre DEF After
<1>8. goal \in {"(", "="} \/ goal \in Closers \/ goal = "kind"
  BY ClosersAre DEF KindGoals
<1> QED
  BY <1>5, <1>6, <1>7, <1>8

LEMMA AliasAfter ==
  ASSUME NEW t, NEW goal \in AliasGoals, NEW g \in After(goal, t)
  PROVE  Fits(g, AliasGoals)
<1>1. /\ {"(", ")", "]", "}", ">"} \subseteq AliasGoals
      /\ {"symbol", "string", "flagged operands"} \subseteq AliasGoals
  BY DEF AliasGoals, KindGoals
<1>2. /\ "(" \in AliasGoals /\ ")" \in AliasGoals /\ "=" \in AliasGoals /\ "kind" \in AliasGoals
      /\ "any" \in AliasGoals /\ "symbol" \in AliasGoals /\ "string" \in AliasGoals
      /\ "flagged operands" \in AliasGoals /\ "alias type" \in AliasGoals
      /\ "comma" \in AliasGoals /\ "operand" \in AliasGoals /\ "target" \in AliasGoals
      /\ "spaced target" \in AliasGoals /\ "suffix" \in AliasGoals /\ "suffix kind" \in AliasGoals
  BY DEF AliasGoals, KindGoals
<1>3. \A h : \A x \in AliasGoals :
        /\ h \in Group(t) \/ h \in Then(Group(t), x) => Fits(h, AliasGoals)
        /\ h \in Constant(t) \/ h \in Then(Constant(t), x) => Fits(h, AliasGoals)
  BY <1>1, ReadingsFit
<1>4. \A a, b \in AliasGoals :
        /\ Fits(<<>>, AliasGoals) /\ Fits(<<a>>, AliasGoals) /\ Fits(<<a, b>>, AliasGoals)
        /\ Fits(<<"(", a, b>>, AliasGoals)
  BY <1>2, FitsExplicitly
<1>5. \A h \in Target(t) : Fits(h, AliasGoals)
  BY <1>2, <1>3, <1>4 DEF Target
<1>6. CASE goal \in {"(", "="}
  BY <1>2, <1>4, <1>6, ClosersAre DEF After, Only
<1>7. CASE goal \in Closers
  BY <1>3, <1>4, <1>7, ClosersAre DEF After
<1>8. CASE goal = "any"
  BY <1>2, <1>3, <1>8, ClosersAre DEF After
<1>9. CASE goal \in {"symbol", "string", "flagged operands"}
  BY <1>2, <1>4, <1>9, ClosersAre DEF After
<1>10. CASE goal = "kind"
  BY <1>2, <1>4, <1>10, ClosersAre DEF After
<1>11. CASE goal \in {"alias type", "comma"}
  BY <1>2, <1>3, <1>4, <1>11, ClosersAre DEF After
<1>12. CASE goal = "operand"
  BY <1>2, <1>3, <1>4, <1>12, ClosersAre DEF After
<1>13. CASE goal \in {"target", "spaced target"}
  BY <1>2, <1>4, <1>5, <1>13, ClosersAre DEF After
<1>14. CASE goal \in {"suffix", "suffix kind"}
  BY <1>2, <1>4, <1>14, ClosersAre DEF After
<1>15. \/ goal \in {"(", "="} \/ goal \in Closers \/ goal = "any"
       \/ goal \in {"symbol", "string", "flagged operands"} \/ goal = "kind"
       \/ goal \in {"alias type", "comma"} \/ goal = "operand"
       \/ goal \in {"target", "spaced target"} \/ goal \in {"suffix", "suffix kind"}
  BY ClosersAre DEF AliasGoals, KindGoals
<1> QED
  BY <1>6, <1>7, <1>8, <1>9, <1>10, <1>11, <1>12, <1>13, <1>14, <1>15

-----------------------------------------------------------------------------
(* The invariant of llvm_index.                                            *)

Entries == [kind : Kinds \cup {"none", "global"}, from : Nat,
            symbol : Seq(Atoms), target : Seq(Atoms)]

\* What is stored of names.
NameLength(e) == Len(e.symbol) + Len(e.target)

IndexedDefinitions ==
  [kind : Kinds, from : Nat, to : Nat, symbol : Seq(Atoms), target : Seq(Atoms)]
BoundedDefinitions == {r \in IndexedDefinitions : r.from < r.to /\ NameLength(r) < HeaderLimit}

Scanning ==
  /\ items \in Seq(Items) /\ text \in Seq(Atoms)
  /\ step \in {"scan", "header", "line", "body", "end", "refused"}
  /\ offset \in 0 .. Len(text)
  /\ entry \in Entries /\ entry.from <= offset
  /\ body \in [depth : Nat \ {0}, quoted : BOOLEAN, comment : BOOLEAN, digits : 0 .. 2]
  /\ indexed \in Seq(BoundedDefinitions)

GoalsOf(kind) ==
  CASE kind = "function" -> FunctionGoals
    [] kind = "global" -> KindGoals
    [] OTHER -> AliasGoals

\* A global's header before its name.
Unnamed ==
  /\ goals = <<"global name", "=", "kind">>
  /\ entry.kind = "global" /\ offset = entry.from /\ NameLength(entry) = 0
  /\ Peek = "@"

\* Every goal and every atom of a name has its atom of the header.
Paid ==
  LET length == offset - entry.from
  IN  /\ goals \in Seq(GoalsOf(entry.kind))
      /\ Len(goals) <= length + 2 \/ (Len(goals) <= length + 3 /\ goals[1] = "(")
      /\ NameLength(entry) <= length
      /\ entry.kind = "function" => entry.target = <<>> /\ NameLength(entry) < length

InHeader ==
  /\ goals # <<>> /\ entry.kind # "none"
  /\ offset - entry.from <= HeaderLimit
  /\ Unnamed \/ Paid

InFunction == entry.kind = "function" /\ NameLength(entry) < HeaderLimit

ScanInv ==
  /\ Scanning
  /\ step = "header" => InHeader
  /\ step = "body" => InFunction

-----------------------------------------------------------------------------
(* Its steps.                                                              *)

LEMMA NameLengthIs ==
  ASSUME NEW decoded \in Seq(Atoms), NEW target \in Seq(Atoms),
         NEW e, e.symbol = decoded, e.target = target
  PROVE  /\ NameLength(e) = Len(decoded) + Len(target) /\ NameLength(e) \in Nat
         /\ Len(decoded) \in Nat /\ Len(target) \in Nat
<1>1. NameLength(e) = Len(decoded) + Len(target)
  BY Zenon DEF NameLength
<1>2. Len(decoded) + Len(target) \in Nat /\ Len(decoded) \in Nat /\ Len(target) \in Nat
  OBVIOUS
<1> QED
  BY <1>1, <1>2

LEMMA LineEndExtent ==
  ASSUME text \in Seq(Atoms), offset \in 0 .. Len(text)
  PROVE  LineEnd \in offset .. Len(text) /\ (offset < Len(text) => LineEnd > offset)
<1> DEFINE ends == {p \in offset + 1 .. Len(text) : text[p] = "newline"} \cup {Len(text)}
<1>1. Len(text) \in Nat /\ offset \in Nat
  BY LenProperties
<1>2. ends \in SUBSET Nat /\ ends # {} /\ \A p \in ends : p = Len(text) \/ p \in offset + 1 .. Len(text)
  BY <1>1
<1>3. LineEnd = Min(ends)
  BY DEF LineEnd
<1> HIDE DEF ends
<1>4. LineEnd \in ends
  BY <1>2, <1>3, MinOfSet
<1> QED
  BY <1>1, <1>2, <1>4

LEMMA Refused ==
  ASSUME ScanInv, Refuse
  PROVE  ScanInv'
BY DEF ScanInv, Scanning, Refuse, inputVars

LEMMA ScanContinues ==
  ASSUME ScanInv, NEW end \in 0 .. Len(text), Scan(end), indexed' \in Seq(BoundedDefinitions)
  PROVE  ScanInv'
<1>1. <<>> \in Seq(Atoms)
  BY EmptySeq
<1>2. NoEntry \in Entries /\ NoEntry.from = 0
  BY <1>1 DEF NoEntry, Entries
<1>3. NewBody \in [depth : Nat \ {0}, quoted : BOOLEAN, comment : BOOLEAN, digits : 0 .. 2]
  BY DEF NewBody
<1>4. Scanning'
  BY <1>2, <1>3 DEF ScanInv, Scanning, Scan, inputVars
<1> QED
  BY <1>4 DEF ScanInv, Scan

LEMMA AliasFinished ==
  ASSUME ScanInv, step = "header", Head(goals) = "suffix",
         NEW end \in offset .. Len(text), InBudget(end), FinishAlias(end)
  PROVE  ScanInv'
<1>1. CASE Refuse
  BY <1>1, Refused
<1>2. CASE ~Refuse
  <2> DEFINE decoded == Decode(entry.symbol)
             r == Record(decoded, end)
  <2>1. Decodable(entry.symbol) /\ indexed' = Append(indexed, r) /\ Scan(end)
    BY <1>2 DEF FinishAlias
  <2>2. /\ entry \in Entries /\ entry.from \in Nat
        /\ offset \in Nat /\ end \in Nat /\ Len(text) \in Nat /\ HeaderLimit \in Nat
        /\ end \in 0 .. Len(text)
    <3>1. text \in Seq(Atoms) /\ offset \in 0 .. Len(text) /\ entry \in Entries
      BY DEF ScanInv, Scanning
    <3> QED
      BY <3>1, LenProperties, IndexAssumption DEF Entries
  <2>3. PICK quoted, target \in Seq(Atoms) : entry.symbol = quoted /\ entry.target = target
    BY <2>2 DEF Entries
  <2>4. /\ NameLength(entry) <= offset - entry.from /\ offset - entry.from <= HeaderLimit
        /\ entry.kind \in Kinds
    <3>1. ~Unnamed
      <4>1. Head(<<"global name", "=", "kind">>) = "global name"
        OBVIOUS
      <4> QED
        BY <4>1 DEF Unnamed
    <3>2. Paid /\ entry.kind # "none" /\ goals # <<>> /\ offset - entry.from <= HeaderLimit
      BY <3>1 DEF ScanInv, InHeader
    <3>3. Head(goals) \in GoalsOf(entry.kind)
      BY <3>2 DEF Paid
    <3>4. entry.kind # "global"
      BY <3>3 DEF GoalsOf, KindGoals
    <3> QED
      BY <2>2, <3>2, <3>4 DEF Paid, Entries
  <2>5. decoded \in Seq(Atoms) /\ Len(decoded) < Len(quoted)
    BY <2>1, <2>3, DecodedName
  <2>6. /\ r.kind = entry.kind /\ r.from = entry.from /\ r.to = end
        /\ r.symbol = decoded /\ r.target = target /\ r \in IndexedDefinitions
    <3> HIDE DEF decoded
    <3> QED
      BY <2>2, <2>3, <2>4, <2>5 DEF Record, IndexedDefinitions
  <2> HIDE DEF r, decoded
  <2>7. NameLength(r) < HeaderLimit /\ r.from < r.to
    <3>1. /\ NameLength(entry) = Len(quoted) + Len(target) /\ NameLength(r) = Len(decoded) + Len(target)
          /\ Len(decoded) \in Nat /\ Len(quoted) \in Nat /\ Len(target) \in Nat
      BY <2>3, <2>5, <2>6, NameLengthIs
    <3> QED
      BY <2>2, <2>4, <2>5, <2>6, <3>1
  <2>8. indexed' \in Seq(BoundedDefinitions)
    <3>1. indexed \in Seq(BoundedDefinitions) /\ r \in BoundedDefinitions
      BY <2>6, <2>7 DEF ScanInv, Scanning, BoundedDefinitions
    <3> QED
      BY <2>1, <3>1, AppendProperties
  <2> QED
    BY <2>1, <2>2, <2>8, ScanContinues
<1> QED
  BY <1>1, <1>2

LEMMA NotedEntry ==
  ASSUME entry \in Entries, entry.kind # "none", NEW t \in Seq(Atoms), Len(t) >= 1,
         NEW goal \in GoalsOf(entry.kind), After(goal, t) # {},
         entry.kind = "function" => entry.target = <<>>
  PROVE  LET e == Noted(goal, t)
         IN  /\ e \in Entries /\ e.kind # "none" /\ e.from = entry.from
             /\ e.kind = "function" <=> entry.kind = "function"
             /\ NameLength(e) <= NameLength(entry) + Len(t)
             /\ entry.kind = "function" =>
                  e.target = <<>> /\ (NameLength(e) = NameLength(entry) \/ NameLength(e) < Len(t))
             /\ e.kind = entry.kind
                \/ (GoalsOf(e.kind) = AliasGoals /\ (goal = "kind" \/ GoalsOf(entry.kind) = AliasGoals))
             /\ goal = "kind" /\ IsOneOf(t, {"alias", "ifunc"}) => GoalsOf(e.kind) = AliasGoals
<1> DEFINE e == Noted(goal, t)
<1>1. /\ entry.kind \in Kinds \cup {"none", "global"} /\ entry.from \in Nat /\ Len(t) \in Nat
  BY LenProperties DEF Entries
<1>11. PICK oldSymbol, oldTarget \in Seq(Atoms) : entry.symbol = oldSymbol /\ entry.target = oldTarget
  BY DEF Entries
<1>12. /\ NameLength(entry) = Len(oldSymbol) + Len(oldTarget) /\ NameLength(entry) \in Nat
       /\ Len(oldSymbol) \in Nat /\ Len(oldTarget) \in Nat
  BY <1>11, NameLengthIs
<1>2. /\ goal # "global name"
      /\ goal = "name" => entry.kind = "function"
      /\ goal = "kind" => entry.kind # "function"
      /\ goal \in {"target", "spaced target"} => entry.kind # "function" /\ entry.kind # "global"
  BY DEF GoalsOf, FunctionGoals, KindGoals, AliasGoals
<1>3. goal \in {"name", "target", "spaced target"} /\ IsGlobal(t) => Decodable(t)
  <2>1. ASSUME IsGlobal(t), NEW x PROVE t = <<x>> => x = "@"
    BY <2>1 DEF IsGlobal
  <2>2. CASE goal = "name"
    BY <2>2, ClosersAre DEF After
  <2>3. CASE goal = "target"
    BY <2>1, <2>3, ClosersAre DEF After, Target
  <2>4. CASE goal = "spaced target"
    BY <2>4, ClosersAre DEF After, Target
  <2> QED
    BY <2>2, <2>3, <2>4
<1>4. \A k \in Kinds \cup {"none", "global"} : k # "function" /\ k # "global" => GoalsOf(k) = AliasGoals
  BY DEF GoalsOf
\* What changes if the name, the target or the kind is noted.
<1>5. CASE goal = "name" /\ IsGlobal(t)
  <2> DEFINE decoded == Decode(t)
  <2>1. decoded \in Seq(Atoms) /\ Len(decoded) \in Nat /\ Len(decoded) < Len(t)
    BY <1>3, <1>5, DecodedName
  <2>2. e = [entry EXCEPT !.symbol = decoded]
    BY <1>5 DEF Noted
  <2> HIDE DEF decoded
  <2>3. /\ e \in Entries /\ e.kind = entry.kind /\ e.from = entry.from
        /\ e.symbol = decoded /\ e.target = entry.target
    BY <2>1, <2>2 DEF Entries
  <2> HIDE DEF e
  <2>4. entry.kind = "function" /\ entry.target = <<>>
    BY <1>2, <1>5
  <2>5. NameLength(e) = Len(decoded)
    <3>1. oldTarget = <<>> /\ Len(oldTarget) = 0
      BY <1>11, <2>4, EmptySeq
    <3>2. NameLength(e) = Len(decoded) + Len(oldTarget)
      BY <1>11, <2>1, <2>3, NameLengthIs
    <3> QED
      BY <2>1, <3>1, <3>2
  <2> QED
    BY <1>1, <1>5, <1>12, <2>1, <2>3, <2>4, <2>5 DEF e
<1>6. CASE goal \in {"target", "spaced target"} /\ IsGlobal(t) /\ entry.kind = "expression"
  <2> DEFINE target == Decode(t)
  <2>1. target \in Seq(Atoms) /\ Len(target) \in Nat /\ Len(target) < Len(t)
    BY <1>3, <1>6, DecodedName
  <2>2. e = [entry EXCEPT !.kind = "direct", !.target = target]
    BY <1>6 DEF Noted
  <2> HIDE DEF target
  <2>3. /\ e \in Entries /\ e.kind = "direct" /\ e.from = entry.from
        /\ e.symbol = entry.symbol /\ e.target = target
    BY <2>1, <2>2 DEF Entries, Kinds
  <2> HIDE DEF e
  <2>4. NameLength(e) <= NameLength(entry) + Len(t)
    <3>1. NameLength(e) = Len(oldSymbol) + Len(target)
      BY <1>11, <2>1, <2>3, NameLengthIs
    <3> QED
      BY <1>1, <1>12, <2>1, <3>1
  <2>5. GoalsOf(e.kind) = AliasGoals /\ GoalsOf(entry.kind) = AliasGoals
    BY <1>1, <1>4, <1>6, <2>3 DEF Kinds
  <2> QED
    BY <1>6, <2>3, <2>4, <2>5 DEF e
<1>7. ASSUME NEW kind \in {"expression", "ifunc"}, goal = "kind", e = [entry EXCEPT !.kind = kind]
      PROVE  /\ e \in Entries /\ e.kind = kind /\ e.from = entry.from
             /\ NameLength(e) = NameLength(entry) /\ GoalsOf(e.kind) = AliasGoals
  <2>1. /\ e \in Entries /\ e.kind = kind /\ e.from = entry.from
        /\ e.symbol = entry.symbol /\ e.target = entry.target
    BY <1>7 DEF Entries, Kinds
  <2> HIDE DEF e
  <2> QED
    BY <1>4, <2>1 DEF NameLength, Kinds
<1>8. CASE goal = "kind" /\ IsOneOf(t, {"alias", "ifunc"})
  <2>1. PICK kind \in {"expression", "ifunc"} : e = [entry EXCEPT !.kind = kind]
    BY <1>8 DEF Noted, IsOneOf
  <2>2. /\ e \in Entries /\ e.kind = kind /\ e.from = entry.from
        /\ NameLength(e) = NameLength(entry) /\ GoalsOf(e.kind) = AliasGoals
    BY <1>7, <1>8, <2>1
  <2> HIDE DEF e
  <2> QED
    BY <1>1, <1>2, <1>8, <1>12, <2>2 DEF e
<1>9. CASE /\ ~(goal = "name" /\ IsGlobal(t))
           /\ ~(goal \in {"target", "spaced target"} /\ IsGlobal(t) /\ entry.kind = "expression")
           /\ ~(goal = "kind" /\ IsOneOf(t, {"alias", "ifunc"}))
  <2>1. e = entry
    BY <1>2, <1>9 DEF Noted, IsOneOf
  <2>2. NameLength(entry) <= NameLength(entry) + Len(t)
    BY <1>1, <1>12
  <2>3. ~(goal = "kind" /\ IsOneOf(t, {"alias", "ifunc"}))
    BY <1>9
  <2> QED
    BY <2>1, <2>2, <2>3, Zenon
<1> QED
  BY <1>5, <1>6, <1>8, <1>9, Zenon

LEMMA PushedGoals ==
  ASSUME NEW G, NEW old \in Seq(G), old # <<>>, NEW g \in Seq(G)
  PROVE  /\ g \o Tail(old) \in Seq(G)
         /\ Len(g) \in Nat /\ Len(old) \in Nat \ {0}
         /\ Len(g \o Tail(old)) = Len(g) + Len(old) - 1
         /\ Len(g) > 0 => (g \o Tail(old))[1] = g[1]
         /\ Head(old) \in G /\ Head(old) = old[1]
<1>1. Tail(old) \in Seq(G) /\ Len(Tail(old)) = Len(old) - 1 /\ Len(old) \in Nat \ {0} /\ Len(g) \in Nat
  OBVIOUS
<1>2. Head(old) \in G /\ Head(old) = old[1]
  OBVIOUS
<1> QED
  BY <1>1, <1>2, ConcatProperties

\* What the token leaves to be read, and which tokens that is up to.
LEMMA GoalsAfter ==
  ASSUME entry \in Entries, entry.kind # "none", NEW t \in Seq(Atoms), Len(t) >= 1,
         goals \in Seq(GoalsOf(entry.kind)), goals # <<>>,
         entry.kind = "function" => entry.target = <<>>,
         NEW g \in After(Head(goals), t)
  PROVE  LET G == GoalsOf(Noted(Head(goals), t).kind)
         IN  Fits(g, G) /\ GoalsOf(entry.kind) \subseteq G
<1> DEFINE h == Head(goals)
           kind == entry.kind
           newKind == Noted(h, t).kind
<1>1. h \in GoalsOf(kind)
  BY PushedGoals
<1>2. /\ newKind = "function" <=> kind = "function"
      /\ newKind = kind
         \/ (GoalsOf(newKind) = AliasGoals /\ (h = "kind" \/ GoalsOf(kind) = AliasGoals))
      /\ h = "kind" /\ IsOneOf(t, {"alias", "ifunc"}) => GoalsOf(newKind) = AliasGoals
  <2> HIDE DEF h
  <2>1. After(h, t) # {}
    BY DEF h
  <2> QED
    BY <1>1, <2>1, NotedEntry
<1> HIDE DEF h, kind, newKind
<1>3. kind = "function" \/ kind = "global" \/ GoalsOf(kind) = AliasGoals
  BY DEF GoalsOf
<1>4. GoalsOf("function") = FunctionGoals /\ GoalsOf("global") = KindGoals
  BY DEF GoalsOf
<1>5. KindGoals \subseteq AliasGoals /\ KindGoals # AliasGoals
  <2>1. "any" \in AliasGoals /\ "any" \notin KindGoals
    BY DEF KindGoals, AliasGoals
  <2>2. KindGoals \subseteq AliasGoals
    BY DEF AliasGoals
  <2> QED
    BY <2>1, <2>2
<1>6. CASE kind = "function"
  <2>1. Fits(g, FunctionGoals)
    BY <1>1, <1>4, <1>6, FunctionAfter DEF h
  <2> QED
    BY <1>2, <1>4, <1>6, <2>1 DEF h, kind, newKind
<1>7. CASE kind # "function" /\ GoalsOf(newKind) = AliasGoals
  <2>1. GoalsOf(kind) \subseteq AliasGoals
    BY <1>3, <1>4, <1>5, <1>7
  <2>2. Fits(g, AliasGoals)
    BY <1>1, <2>1, AliasAfter DEF h
  <2> QED
    BY <1>7, <2>1, <2>2 DEF h, kind, newKind
<1>8. CASE kind # "function" /\ GoalsOf(newKind) # AliasGoals
  <2>1. kind = "global" /\ newKind = "global"
    BY <1>2, <1>3, <1>8
  <2>2. Fits(g, KindGoals)
    BY <1>1, <1>2, <1>4, <1>8, <2>1, KindAfter DEF h
  <2> QED
    BY <1>4, <2>1, <2>2 DEF h, kind, newKind
<1> QED
  BY <1>6, <1>7, <1>8

LEMMA HeaderContinues ==
  ASSUME ScanInv, UNCHANGED <<inputVars, body, indexed>>,
         step' \in {"header", "line", "body"}, offset' \in 0 .. Len(text),
         entry' \in Entries, entry'.from <= offset',
         step' = "header" => InHeader', step' = "body" => InFunction'
  PROVE  ScanInv'
BY DEF ScanInv, Scanning, inputVars

LEMMA TokenRead ==
  ASSUME ScanInv, ReadToken
  PROVE  ScanInv'
<1> DEFINE h == Head(goals)
<1>1. PICK e, g :
        /\ e \in TokenEnds /\ InBudget(e) /\ g \in After(h, SubSeq(text, offset + 1, e))
        /\ offset' = e /\ goals' = g \o Tail(goals)
        /\ entry' = Noted(h, SubSeq(text, offset + 1, e))
        /\ step' = IF goals' # <<>> THEN "header"
                   ELSE IF entry'.kind = "function" THEN "body" ELSE "line"
        /\ UNCHANGED <<inputVars, body, indexed>>
  BY DEF ReadToken, Readings
<1>2. /\ text \in Seq(Atoms) /\ offset \in 0 .. Len(text) /\ AtToken /\ step = "header"
      /\ entry \in Entries /\ entry.from <= offset /\ InHeader
  BY DEF ScanInv, Scanning, ReadToken, AtToken
<1> DEFINE t == SubSeq(text, offset + 1, e)
<1>3. e \in offset + 1 .. Len(text) /\ t \in Seq(Atoms) /\ Len(t) = e - offset
  BY <1>1, <1>2, TokenExtent
<1>4. /\ offset \in Nat /\ Len(text) \in Nat /\ e \in Nat /\ e > offset /\ e <= Len(text)
      /\ entry.from \in Nat /\ HeaderLimit \in Nat /\ Len(t) \in Nat /\ Len(t) >= 1
      /\ e - entry.from <= HeaderLimit
  <2>1. entry.from \in Nat /\ Len(text) \in Nat
    BY <1>2, LenProperties DEF Entries
  <2> HIDE DEF t
  <2> QED
    BY <1>1, <1>2, <1>3, <2>1, IndexAssumption DEF InBudget
<1> HIDE DEF t, h
<1>5. CASE Unnamed
  <2>1. h = "global name" /\ Tail(goals) = <<"=", "kind">>
    <3>1. /\ Head(<<"global name", "=", "kind">>) = "global name"
          /\ Tail(<<"global name", "=", "kind">>) = <<"=", "kind">>
      OBVIOUS
    <3> QED
      BY <1>5, <3>1, Zenon DEF Unnamed, h
  <2>2. g = <<>>
    <3>1. "global name" \notin Closers
      BY ClosersAre
    <3> QED
      BY <1>1, <2>1, <3>1 DEF After, t
  <2>3. goals' = <<"=", "kind">>
    <3>1. <<>> \o <<"=", "kind">> = <<"=", "kind">>
      OBVIOUS
    <3> QED
      BY <1>1, <2>1, <2>2, <3>1, Zenon
  <2>4. entry' = [entry EXCEPT !.symbol = t]
    BY <1>1, <2>1 DEF Noted, t
  <2>5. PICK oldSymbol, target \in Seq(Atoms) : entry.symbol = oldSymbol /\ entry.target = target
    BY <1>2 DEF Entries
  <2>6. /\ entry' \in Entries /\ entry'.kind = entry.kind /\ entry'.from = entry.from
        /\ entry'.symbol = t /\ entry'.target = target
    BY <1>2, <1>3, <2>4, <2>5 DEF Entries
  <2>7. NameLength(entry') = Len(t)
    <3>1. /\ NameLength(entry) = Len(oldSymbol) + Len(target) /\ Len(oldSymbol) \in Nat
          /\ Len(target) \in Nat
      BY <2>5, NameLengthIs
    <3>2. NameLength(entry') = Len(t) + Len(target)
      BY <1>3, <2>6, NameLengthIs
    <3>3. NameLength(entry) = 0
      BY <1>5 DEF Unnamed
    <3> QED
      BY <1>4, <3>1, <3>2, <3>3
  <2>8. Paid'
    <3>1. entry.kind = "global" /\ entry.from = offset
      BY <1>5 DEF Unnamed
    <3>2. goals' \in Seq(KindGoals) /\ Len(goals') = 2
      <4>1. "=" \in KindGoals /\ "kind" \in KindGoals
        BY DEF KindGoals
      <4> QED
        BY <2>3, <4>1
    <3>3. GoalsOf(entry'.kind) = KindGoals
      BY <2>6, <3>1 DEF GoalsOf
    <3> QED
      <4>1. offset' - entry'.from = Len(t)
        BY <1>1, <1>3, <2>6, <3>1
      <4>2. Len(goals') <= Len(t) + 2 /\ NameLength(entry') <= Len(t)
        BY <1>4, <2>7, <3>2
      <4>3. entry'.kind # "function"
        BY <2>6, <3>1
      <4> QED
        BY <2>6, <2>7, <3>2, <3>3, <4>1, <4>2, <4>3 DEF Paid
  <2>9. InHeader'
    <3>1. goals' # <<>> /\ entry'.kind # "none"
      BY <1>2, <2>3, <2>6 DEF InHeader
    <3> QED
      BY <1>1, <1>4, <2>6, <2>8, <3>1 DEF InHeader
  <2>10. step' = "header"
    BY <1>1, <2>3
  <2> QED
    <3>1. offset' \in 0 .. Len(text) /\ entry'.from <= offset'
      BY <1>1, <1>2, <1>4, <2>6
    <3> QED
      BY <1>1, <2>6, <2>9, <2>10, <3>1, HeaderContinues
<1>6. CASE Paid
  <2> DEFINE G == GoalsOf(entry.kind)
             H == GoalsOf(entry'.kind)
  <2>1. /\ goals # <<>> /\ entry.kind # "none" /\ goals \in Seq(G)
        /\ Len(goals) <= offset - entry.from + 2
           \/ (Len(goals) <= offset - entry.from + 3 /\ goals[1] = "(")
        /\ NameLength(entry) <= offset - entry.from
        /\ entry.kind = "function" => entry.target = <<>> /\ NameLength(entry) < offset - entry.from
    BY <1>2, <1>6 DEF Paid, InHeader
  <2>2. g \in After(h, t) /\ entry' = Noted(h, t)
    BY <1>1 DEF t
  <2>3. h \in G
    BY <2>1, PushedGoals DEF h
  <2>4. /\ entry' \in Entries /\ entry'.kind # "none" /\ entry'.from = entry.from
        /\ entry'.kind = "function" <=> entry.kind = "function"
        /\ NameLength(entry') <= NameLength(entry) + Len(t)
        /\ entry.kind = "function" =>
             entry'.target = <<>> /\ (NameLength(entry') = NameLength(entry) \/ NameLength(entry') < Len(t))
    BY <1>2, <1>3, <1>4, <2>1, <2>2, <2>3, NotedEntry
  <2>5. Fits(g, H) /\ G \subseteq H
    <3>1. g \in After(Head(goals), t)
      BY <2>2 DEF h
    <3>2. LET K == GoalsOf(Noted(Head(goals), t).kind) IN Fits(g, K) /\ G \subseteq K
      BY <1>2, <1>3, <1>4, <2>1, <3>1, GoalsAfter
    <3> QED
      BY <2>2, <3>2, Zenon DEF h
  <2> HIDE DEF G, H
  <2>6. /\ goals' \in Seq(H) /\ Len(goals') = Len(g) + Len(goals) - 1
        /\ Len(g) \in Nat /\ Len(goals) \in Nat /\ Len(goals) >= 1
        /\ Len(g) > 0 => goals'[1] = g[1]
        /\ h = goals[1]
    <3>1. goals \in Seq(H) /\ g \in Seq(H)
      BY <2>1, <2>5 DEF Fits
    <3> QED
      BY <1>1, <2>1, <3>1, PushedGoals DEF h
  <2>7. h = "(" => Len(g) = 0
    <3>1. "(" \notin Closers
      BY ClosersAre
    <3> QED
      BY <2>2, <3>1, EmptySeq DEF After, Only
  <2>8. PICK old, new, from, size, length \in Nat :
          /\ old = NameLength(entry) /\ new = NameLength(entry')
          /\ from = entry.from /\ from = entry'.from
          /\ size = Len(t) /\ length = offset - from
    <3>1. NameLength(entry) \in Nat /\ NameLength(entry') \in Nat
      BY <1>2, <2>4, NameLengthIs DEF Entries
    <3>2. offset - entry.from \in Nat
      BY <1>2, <1>4
    <3> QED
      BY <1>4, <2>4, <3>1, <3>2
  <2> DEFINE isFunction == entry.kind = "function"
             newLength == offset' - entry'.from
  <2>15. /\ newLength = length + size /\ newLength \in Nat /\ newLength <= HeaderLimit
         /\ newLength > length
    <3>1. offset' = e /\ entry'.from = from
      BY <1>1, <2>8
    <3>2. newLength = e - from
      BY <3>1, Zenon
    <3>3. /\ e - from <= HeaderLimit /\ size = e - offset /\ length = offset - from
          /\ offset \in Nat /\ e \in Nat /\ e > offset
      BY <1>3, <1>4, <2>8
    <3> HIDE DEF newLength
    <3> QED
      BY <3>2, <3>3
  <2> HIDE DEF newLength
  <2>16. /\ old <= length /\ new <= old + size
         /\ isFunction => old < length /\ (new = old \/ new < size)
    BY <2>1, <2>4, <2>8
  <2> HIDE DEF isFunction
  <2>17. new <= newLength /\ (isFunction => new < newLength)
    BY <2>15, <2>16
  <2>9. Paid'
    <3>1. Len(goals') <= newLength + 2 \/ (Len(goals') <= newLength + 3 /\ goals'[1] = "(")
      <4>1. PICK before, added, after \in Nat :
              before = Len(goals) /\ added = Len(g) /\ after = Len(goals')
        BY <2>6
      <4>2. after = added + before - 1
        BY <2>6, <4>1
      <4>3. before <= length + 2 \/ (before <= length + 3 /\ added = 0)
        BY <2>1, <2>6, <2>7, <2>8, <4>1
      <4>4. added <= 2 \/ (added = 3 /\ goals'[1] = "(")
        BY <2>5, <2>6, <4>1 DEF Fits
      <4>5. after <= newLength + 2 \/ (after <= newLength + 3 /\ goals'[1] = "(")
        BY <2>15, <4>2, <4>3, <4>4
      <4> QED
        BY <4>1, <4>5
    <3>2. NameLength(entry') <= newLength
      BY <2>8, <2>17
    <3>3. entry'.kind = "function" => entry'.target = <<>> /\ NameLength(entry') < newLength
      BY <2>4, <2>8, <2>17 DEF isFunction
    <3> QED
      BY <2>6, <3>1, <3>2, <3>3 DEF Paid, H, newLength
  <2>10. offset' - entry'.from <= HeaderLimit
    BY <2>15 DEF newLength
  <2>11. step' = "header" => InHeader'
    <3>1. step' = "header" => goals' # <<>>
      BY <1>1
    <3> QED
      BY <2>4, <2>9, <2>10, <3>1 DEF InHeader
  <2>12. step' = "body" => InFunction'
    <3>1. step' = "body" => entry'.kind = "function"
      BY <1>1
    <3>2. entry'.kind = "function" => NameLength(entry') < HeaderLimit
      <4>1. isFunction => new < HeaderLimit
        BY <1>4, <2>15, <2>17
      <4> QED
        BY <2>4, <2>8, <4>1 DEF isFunction
    <3> QED
      BY <3>1, <3>2 DEF InFunction
  <2>13. step' \in {"header", "line", "body"}
    BY <1>1
  <2>14. offset' \in 0 .. Len(text) /\ entry'.from <= offset'
    BY <1>1, <1>2, <1>4, <2>4
  <2> QED
    BY <1>1, <2>4, <2>11, <2>12, <2>13, <2>14, HeaderContinues
<1> QED
  BY <1>2, <1>5, <1>6 DEF InHeader

LEMMA BlankSkipped ==
  ASSUME ScanInv, SkipBlank
  PROVE  ScanInv'
<1> DEFINE end == IF Peek = ";" THEN LineEnd ELSE offset + 1
<1>1. /\ text \in Seq(Atoms) /\ offset \in 0 .. Len(text) /\ Len(text) \in Nat
      /\ step = "header" /\ InHeader /\ entry \in Entries
  BY LenProperties DEF ScanInv, Scanning, SkipBlank
<1>2. Peek # "eof" /\ offset < Len(text)
  <2>1. Peek # "eof"
    BY DEF SkipBlank, Whitespace
  <2> QED
    BY <1>1, <2>1 DEF Peek, At
<1>3. end \in offset + 1 .. Len(text)
  <2>1. LineEnd \in offset .. Len(text) /\ LineEnd > offset
    BY <1>1, <1>2, LineEndExtent
  <2>2. LineEnd \in offset + 1 .. Len(text) /\ offset + 1 \in offset + 1 .. Len(text)
    BY <1>1, <1>2, <2>1
  <2> QED
    BY <2>2
<1> HIDE DEF end
<1>4. \/ Refuse
      \/ InBudget(end) /\ Head(goals) = "suffix" /\ FinishAlias(end)
      \/ /\ InBudget(end) /\ offset' = end
         /\ UNCHANGED <<inputVars, step, goals, entry, body, indexed>>
  BY DEF SkipBlank, end
<1>5. CASE Refuse
  BY <1>5, Refused
<1>6. CASE InBudget(end) /\ Head(goals) = "suffix" /\ FinishAlias(end)
  <2>1. end \in offset .. Len(text)
    BY <1>1, <1>3
  <2> QED
    BY <1>1, <1>6, <2>1, AliasFinished
<1>7. CASE /\ InBudget(end) /\ offset' = end
           /\ UNCHANGED <<inputVars, step, goals, entry, body, indexed>>
  <2>1. Paid
    <3>1. Peek # "@"
      BY DEF SkipBlank, Whitespace
    <3> QED
      BY <1>1, <3>1 DEF InHeader, Unnamed
  <2>2. PICK from, old \in Nat : from = entry.from /\ old = NameLength(entry)
    BY <1>1, NameLengthIs DEF Entries
  <2>3. Len(goals) \in Nat
    BY <2>1, LenProperties DEF Paid
  <2>4. /\ offset \in Nat /\ end \in Nat /\ end > offset /\ end <= Len(text)
        /\ end - from <= HeaderLimit /\ from <= offset
    <3>1. offset \in Nat /\ end \in Nat /\ end > offset /\ end <= Len(text)
      BY <1>1, <1>3
    <3>2. end - from <= HeaderLimit
      BY <1>7, <2>2 DEF InBudget
    <3>3. from <= offset
      BY <2>2 DEF ScanInv, Scanning
    <3> QED
      BY <3>1, <3>2, <3>3
  <2>5. Paid'
    <3>1. offset - from <= end - from /\ offset - from \in Nat /\ end - from \in Nat
      BY <2>4
    <3>2. Len(goals) <= (end - from) + 2 \/ (Len(goals) <= (end - from) + 3 /\ goals[1] = "(")
      BY <2>1, <2>2, <2>3, <3>1 DEF Paid
    <3>3. /\ NameLength(entry) <= end - from
          /\ entry.kind = "function" => entry.target = <<>> /\ NameLength(entry) < end - from
      BY <2>1, <2>2, <3>1 DEF Paid
    <3> QED
      BY <1>7, <2>1, <2>2, <3>2, <3>3 DEF Paid
  <2>6. InHeader'
    BY <1>1, <1>7, <2>2, <2>4, <2>5 DEF InHeader
  <2>7. entry' \in Entries /\ entry'.from <= offset' /\ offset' \in 0 .. Len(text)
    <3>1. end \in 0 .. Len(text) /\ from <= end
      BY <1>1, <2>2, <2>4
    <3> QED
      BY <1>1, <1>7, <2>2, <3>1
  <2> QED
    BY <1>1, <1>7, <2>6, <2>7, HeaderContinues
<1> QED
  BY <1>4, <1>5, <1>6, <1>7

LEMMA HeaderBegins ==
  ASSUME ScanInv, BeginGlobal \/ BeginFunction
  PROVE  ScanInv'
<1>1. /\ text \in Seq(Atoms) /\ offset \in 0 .. Len(text) /\ Len(text) \in Nat /\ offset \in Nat
      /\ HeaderLimit \in Nat \ {0} /\ items \in Seq(Items)
  BY LenProperties, IndexAssumption DEF ScanInv, Scanning
<1>2. ASSUME NEW kind \in {"global", "function"}, entry' = [NoEntry EXCEPT !.kind = kind, !.from = offset]
      PROVE  /\ entry' \in Entries /\ entry'.kind = kind /\ entry'.from = offset
             /\ entry'.target = <<>> /\ NameLength(entry') = 0
  <2>1. entry' = [kind |-> kind, from |-> offset, symbol |-> <<>>, target |-> <<>>]
    BY <1>2 DEF NoEntry
  <2>2. <<>> \in Seq(Atoms) /\ Len(<<>>) = 0
    BY EmptySeq
  <2>3. entry' \in Entries /\ entry'.symbol = <<>> /\ entry'.target = <<>>
    BY <1>1, <2>1, <2>2 DEF Entries, Kinds
  <2>4. NameLength(entry') = Len(<<>>) + Len(<<>>)
    BY <2>2, <2>3, NameLengthIs
  <2> QED
    BY <2>1, <2>2, <2>3, <2>4
<1>3. CASE BeginGlobal
  <2>1. /\ entry' = [NoEntry EXCEPT !.kind = "global", !.from = offset]
        /\ offset' = offset /\ goals' = <<"global name", "=", "kind">> /\ step' = "header"
        /\ UNCHANGED <<inputVars, body, indexed>> /\ Peek = "@"
    BY <1>3 DEF BeginGlobal, BeginHeader
  <2>2. /\ entry' \in Entries /\ entry'.kind = "global" /\ entry'.from = offset /\ NameLength(entry') = 0
    BY <1>2, <2>1
  <2>3. Unnamed'
    BY <2>1, <2>2 DEF Unnamed, Peek, At, inputVars
  <2>4. goals' # <<>> /\ offset' - entry'.from <= HeaderLimit
    <3>1. goals' # <<>>
      BY <2>1
    <3>2. offset' = offset /\ entry'.from = offset
      BY <2>1, <2>2
    <3> QED
      BY <1>1, <3>1, <3>2
  <2>5. InHeader'
    BY <2>2, <2>3, <2>4 DEF InHeader
  <2>6. offset' \in 0 .. Len(text) /\ entry'.from <= offset'
    <3>1. offset' = offset /\ entry'.from = offset
      BY <2>1, <2>2
    <3> QED
      BY <1>1, <3>1
  <2> QED
    BY <2>1, <2>2, <2>5, <2>6, HeaderContinues
<1>4. CASE BeginFunction
  <2>1. /\ entry' = [NoEntry EXCEPT !.kind = "function", !.from = offset]
        /\ offset' = offset + 1 /\ goals' = <<"name">> /\ step' = "header"
        /\ UNCHANGED <<inputVars, body, indexed>> /\ Peek = "define"
    BY <1>4 DEF BeginFunction, BeginHeader, IsDefine
  <2>2. /\ entry' \in Entries /\ entry'.kind = "function" /\ entry'.from = offset
        /\ entry'.target = <<>> /\ NameLength(entry') = 0
    BY <1>2, <2>1
  <2>3. offset < Len(text)
    BY <1>1, <2>1 DEF Peek, At
  <2>4. goals' \in Seq(FunctionGoals) /\ Len(goals') = 1 /\ goals' # <<>>
    <3>1. "name" \in FunctionGoals
      BY DEF FunctionGoals
    <3> QED
      BY <2>1, <3>1
  <2>5. offset' - entry'.from = 1
    BY <1>1, <2>1, <2>2
  <2>6. GoalsOf(entry'.kind) = FunctionGoals
    BY <2>2 DEF GoalsOf
  <2>7. Paid'
    BY <2>2, <2>4, <2>5, <2>6 DEF Paid
  <2>8. InHeader'
    BY <1>1, <2>2, <2>4, <2>5, <2>7 DEF InHeader
  <2>9. offset' \in 0 .. Len(text) /\ entry'.from <= offset'
    BY <1>1, <2>1, <2>2, <2>3
  <2> QED
    BY <1>1, <2>1, <2>2, <2>8, <2>9, HeaderContinues
<1> QED
  BY <1>3, <1>4

LEMMA InBodyType ==
  ASSUME NEW c \in [depth : Nat \ {0}, quoted : BOOLEAN, comment : BOOLEAN, digits : 0 .. 2],
         NEW atom, NEW b \in InBody(c, atom)
  PROVE  b \in [depth : Nat, quoted : BOOLEAN, comment : BOOLEAN, digits : 0 .. 2]
<1>1. PICK depth \in Nat \ {0}, quoted \in BOOLEAN, comment \in BOOLEAN, digits \in 0 .. 2 :
        c = [depth |-> depth, quoted |-> quoted, comment |-> comment, digits |-> digits]
  OBVIOUS
<1>2. /\ c.depth = depth /\ c.quoted = quoted /\ c.comment = comment /\ c.digits = digits
      /\ c \in [depth : Nat, quoted : BOOLEAN, comment : BOOLEAN, digits : 0 .. 2]
  BY <1>1
<1>3. \/ b = [c EXCEPT !.comment = atom # "newline"]
      \/ digits > 0 /\ b = [c EXCEPT !.digits = 0]
      \/ digits > 0 /\ b = [c EXCEPT !.digits = c.digits - 1]
      \/ b = [c EXCEPT !.quoted = atom # "quote", !.digits = IF atom = "backslash" THEN 2 ELSE 0]
      \/ b = [c EXCEPT !.comment = atom = ";", !.quoted = atom = "quote",
                       !.depth = Nested(c.depth, atom)]
  BY <1>2, Zenon DEF InBody
<1>4. Nested(depth, atom) \in Nat
  <2>1. depth + 1 \in Nat /\ depth - 1 \in Nat /\ depth \in Nat
    OBVIOUS
  <2> QED
    BY <2>1 DEF Nested
<1>5. digits > 0 => digits - 1 \in 0 .. 2
  OBVIOUS
<1> DEFINE T == [depth : Nat, quoted : BOOLEAN, comment : BOOLEAN, digits : 0 .. 2]
<1>6. /\ \A x \in BOOLEAN : [c EXCEPT !.comment = x] \in T
      /\ \A n \in 0 .. 2 : [c EXCEPT !.digits = n] \in T
      /\ \A x \in BOOLEAN, n \in 0 .. 2 : [c EXCEPT !.quoted = x, !.digits = n] \in T
      /\ \A x, y \in BOOLEAN, d \in Nat :
           [c EXCEPT !.comment = x, !.quoted = y, !.depth = d] \in T
  BY <1>2
<1>7. /\ 0 \in 0 .. 2 /\ (IF atom = "backslash" THEN 2 ELSE 0) \in 0 .. 2 /\ 0 \in Nat
      /\ digits > 0 => c.digits - 1 \in 0 .. 2
  BY <1>2, <1>5
<1>8. /\ (atom # "newline") \in BOOLEAN /\ (atom # "quote") \in BOOLEAN
      /\ (atom = ";") \in BOOLEAN /\ (atom = "quote") \in BOOLEAN
      /\ Nested(c.depth, atom) \in Nat
  BY <1>2, <1>4
<1> HIDE DEF T
<1>9. b \in T
  <2> DEFINE word == atom # "newline"
             open == atom # "quote"
             remark == atom = ";"
             opens == atom = "quote"
             two == IF atom = "backslash" THEN 2 ELSE 0
             less == c.digits - 1
             deeper == Nested(c.depth, atom)
  <2>1. \/ b = [c EXCEPT !.comment = word]
        \/ digits > 0 /\ b = [c EXCEPT !.digits = 0]
        \/ digits > 0 /\ b = [c EXCEPT !.digits = less]
        \/ b = [c EXCEPT !.quoted = open, !.digits = two]
        \/ b = [c EXCEPT !.comment = remark, !.quoted = opens, !.depth = deeper]
    BY <1>3
  <2>2. /\ word \in BOOLEAN /\ open \in BOOLEAN /\ remark \in BOOLEAN /\ opens \in BOOLEAN
        /\ two \in 0 .. 2 /\ (digits > 0 => less \in 0 .. 2) /\ deeper \in Nat /\ 0 \in 0 .. 2
    BY <1>7, <1>8
  <2> HIDE DEF word, open, remark, opens, two, less, deeper
  <2> QED
    <3>1. CASE b = [c EXCEPT !.comment = word]
      BY <1>6, <2>2, <3>1, Zenon
    <3>2. CASE digits > 0 /\ b = [c EXCEPT !.digits = 0]
      BY <1>6, <2>2, <3>2, Zenon
    <3>3. CASE digits > 0 /\ b = [c EXCEPT !.digits = less]
      BY <1>6, <2>2, <3>3, Zenon
    <3>4. CASE b = [c EXCEPT !.quoted = open, !.digits = two]
      BY <1>6, <2>2, <3>4, Zenon
    <3>5. CASE b = [c EXCEPT !.comment = remark, !.quoted = opens, !.depth = deeper]
      BY <1>6, <2>2, <3>5, Zenon
    <3> QED
      BY <2>1, <3>1, <3>2, <3>3, <3>4, <3>5, Zenon
<1> QED
  BY <1>9 DEF T

\* Bodies, of which the name is already known.
LEMMA BodyRead ==
  ASSUME ScanInv, SkipBody \/ EndBody \/ RefuseBody
  PROVE  ScanInv'
<1>1. /\ text \in Seq(Atoms) /\ offset \in 0 .. Len(text) /\ Len(text) \in Nat /\ offset \in Nat
      /\ entry \in Entries /\ entry.from <= offset
      /\ body \in [depth : Nat \ {0}, quoted : BOOLEAN, comment : BOOLEAN, digits : 0 .. 2]
      /\ InFunction
  BY LenProperties DEF ScanInv, Scanning, SkipBody, EndBody, RefuseBody
<1>2. NextBodies # {} => offset < Len(text)
  BY <1>1 DEF NextBodies, Peek, At
<1>3. CASE SkipBody
  <2>1. PICK b \in NextBodies : b.depth > 0 /\ body' = b
    BY <1>3 DEF SkipBody
  <2>2. b \in [depth : Nat \ {0}, quoted : BOOLEAN, comment : BOOLEAN, digits : 0 .. 2]
    <3>1. b \in InBody(body, Peek)
      BY <2>1 DEF NextBodies
    <3>2. b \in [depth : Nat, quoted : BOOLEAN, comment : BOOLEAN, digits : 0 .. 2]
      BY <1>1, <3>1, InBodyType
    <3> QED
      BY <2>1, <3>2
  <2>3. offset' = offset + 1 /\ UNCHANGED <<inputVars, step, goals, entry, indexed>> /\ step = "body"
    BY <1>3 DEF SkipBody
  <2>4. offset' \in 0 .. Len(text) /\ entry'.from <= offset' /\ offset < Len(text)
    <3>1. entry.from \in Nat /\ entry' = entry
      BY <1>1, <2>3 DEF Entries
    <3> QED
      BY <1>1, <1>2, <2>1, <2>3, <3>1
  <2>5. Scanning'
    BY <2>1, <2>2, <2>3, <2>4 DEF ScanInv, Scanning, inputVars
  <2> QED
    BY <1>1, <2>3, <2>5 DEF ScanInv, InFunction
<1>4. CASE EndBody
  <2>1. CASE Refuse
    BY <2>1, Refused
  <2>2. CASE ~Refuse
    <3> DEFINE r == Record(entry.symbol, offset + 1)
    <3>1. indexed' = Append(indexed, r) /\ Scan(offset + 1) /\ offset < Len(text)
      BY <1>2, <1>4, <2>2 DEF EndBody
    <3>2. PICK decoded, target \in Seq(Atoms) : entry.symbol = decoded /\ entry.target = target
      BY <1>1 DEF Entries
    <3>3. /\ r.from = entry.from /\ r.to = offset + 1 /\ r.symbol = decoded /\ r.target = target
          /\ r \in IndexedDefinitions
      BY <1>1, <3>2 DEF Record, IndexedDefinitions, Entries, InFunction, Kinds
    <3>4. NameLength(r) = NameLength(entry) /\ NameLength(entry) < HeaderLimit
      BY <1>1, <3>2, <3>3, NameLengthIs DEF InFunction
    <3> HIDE DEF r
    <3>5. r \in BoundedDefinitions
      BY <1>1, <3>3, <3>4 DEF BoundedDefinitions, Entries
    <3>6. indexed' \in Seq(BoundedDefinitions)
      BY <3>1, <3>5, AppendProperties DEF ScanInv, Scanning
    <3>7. offset + 1 \in 0 .. Len(text)
      BY <1>1, <3>1
    <3> QED
      BY <3>1, <3>6, <3>7, ScanContinues
  <2> QED
    BY <2>1, <2>2
<1>5. CASE RefuseBody
  BY <1>5, Refused DEF RefuseBody
<1> QED
  BY <1>3, <1>4, <1>5

\* The lines between definitions.
LEMMA LinesRead ==
  ASSUME ScanInv, SkipWhitespace \/ SkipLine \/ EndScan \/ SkipInitializer
  PROVE  ScanInv'
<1>1. /\ text \in Seq(Atoms) /\ offset \in 0 .. Len(text) /\ Len(text) \in Nat /\ offset \in Nat
      /\ indexed \in Seq(BoundedDefinitions)
  BY LenProperties DEF ScanInv, Scanning
<1>2. LineEnd \in 0 .. Len(text)
  <2>1. LineEnd \in offset .. Len(text)
    BY <1>1, LineEndExtent
  <2> QED
    BY <1>1, <2>1
<1>3. CASE SkipWhitespace
  <2>1. Peek # "eof"
    BY <1>3 DEF SkipWhitespace, Whitespace
  <2>2. offset + 1 \in 0 .. Len(text)
    BY <1>1, <2>1 DEF Peek, At
  <2> QED
    BY <1>1, <1>3, <2>2, ScanContinues DEF SkipWhitespace
<1>4. CASE SkipLine \/ SkipInitializer
  BY <1>1, <1>2, <1>4, ScanContinues DEF SkipLine, SkipInitializer
<1>5. CASE EndScan
  BY <1>5 DEF EndScan, ScanInv, Scanning, inputVars
<1> QED
  BY <1>3, <1>4, <1>5

LEMMA ScanStarts ==
  ASSUME ScanInit
  PROVE  ScanInv
<1> DEFINE texts == [k \in DOMAIN items |-> items[k].text]
<1>1. items \in Seq(Items)
  BY IndexAssumption, SMT DEF ScanInit, BoundedSeq, SeqOf
<1>2. \A k \in 1 .. Len(items) : items[k].text \in Seq(Atoms)
  <2>1. ASSUME NEW k \in 1 .. Len(items)
        PROVE  items[k].text \in Seq(Atoms)
    <3>1. items[k] \in Items
      BY <1>1
    <3>2. items[k].text \in Seq(STRING)
      BY <3>1, IndexAssumption
    <3> QED
      BY <3>2 DEF Atoms
  <2> QED
    BY <2>1
<1>3. Whole \in Seq(Atoms)
  <2>1. texts \in Seq(Seq(Atoms))
    BY <1>1, <1>2
  <2> HIDE DEF texts
  <2> QED
    BY <2>1, FlattenedType DEF Whole, texts
<1>4. Start(Len(items)) \in Nat
  <2> DEFINE n == Len(items) - 1
             before == [j \in 1 .. n |-> items[j].text]
  <2>1. before \in Seq(Seq(Atoms))
    <3>1. CASE Len(items) = 0
      <4>1. 1 .. n = 1 .. 0
        BY <3>1
      <4>2. before \in [1 .. 0 -> Seq(Atoms)]
        BY <4>1
      <4> HIDE DEF before
      <4> QED
        BY <4>2
    <3>2. CASE Len(items) # 0
      <4>1. n \in Nat /\ 1 .. n \subseteq 1 .. Len(items)
        BY <1>1, <3>2
      <4>2. before \in [1 .. n -> Seq(Atoms)]
        BY <1>2, <4>1
      <4> HIDE DEF before, n
      <4> QED
        BY <4>1, <4>2
    <3> QED
      BY <3>1, <3>2
  <2>2. FlattenSeq(before) \in Seq(Atoms)
    <3> HIDE DEF before
    <3> QED
      BY <2>1, FlattenedType
  <2>3. Start(Len(items)) = Len(FlattenSeq(before))
    BY Zenon DEF Start
  <2> HIDE DEF before
  <2> QED
    BY <2>2, <2>3, LenProperties
<1>5. text \in Seq(Atoms)
  <2>1. PICK n \in Start(Len(items)) .. Len(Whole) : text = SubSeq(Whole, 1, n)
    BY DEF ScanInit
  <2>2. n \in 0 .. Len(Whole)
    BY <1>3, <1>4, <2>1
  <2> HIDE DEF Whole
  <2> QED
    BY <1>3, <2>1, <2>2
<1>6. NoEntry \in Entries /\ NoEntry.from = 0
  BY EmptySeq DEF NoEntry, Entries
<1>7. NewBody \in [depth : Nat \ {0}, quoted : BOOLEAN, comment : BOOLEAN, digits : 0 .. 2]
  BY DEF NewBody
<1>8. 0 \in 0 .. Len(text) /\ <<>> \in Seq(BoundedDefinitions)
  BY <1>5, LenProperties, EmptySeq
<1>9. Scanning
  BY <1>1, <1>5, <1>6, <1>7, <1>8 DEF Scanning, ScanInit
<1> QED
  BY <1>9 DEF ScanInv, ScanInit

LEMMA ScanStep ==
  ASSUME ScanInv, [ScanNext]_scanVars
  PROVE  ScanInv'
<1>1. CASE SkipWhitespace \/ SkipLine \/ EndScan \/ SkipInitializer
  BY <1>1, LinesRead
<1>2. CASE BeginGlobal \/ BeginFunction
  BY <1>2, HeaderBegins
<1>3. CASE SkipBlank
  BY <1>3, BlankSkipped
<1>4. CASE ReadToken
  BY <1>4, TokenRead
<1>5. CASE RefuseToken
  BY <1>5, Refused DEF RefuseToken
<1>6. CASE EndOfHeader
  <2>1. CASE Refuse
    BY <2>1, Refused
  <2>2. CASE ~Refuse
    <3>1. step = "header" /\ Head(goals) = "suffix" /\ FinishAlias(offset)
      BY <1>6, <2>2 DEF EndOfHeader
    <3>2. InBudget(offset) /\ offset \in offset .. Len(text)
      BY <3>1, LenProperties DEF ScanInv, Scanning, InHeader, InBudget
    <3> QED
      BY <3>1, <3>2, AliasFinished
  <2> QED
    BY <2>1, <2>2
<1>7. CASE SkipBody \/ EndBody \/ RefuseBody
  BY <1>7, BodyRead
<1>8. CASE Ended \/ UNCHANGED scanVars
  <2>1. UNCHANGED scanVars
    BY <1>8 DEF Ended
  <2>2. /\ items' = items /\ text' = text /\ step' = step /\ offset' = offset
        /\ goals' = goals /\ entry' = entry /\ body' = body /\ indexed' = indexed
    BY <2>1 DEF scanVars, inputVars
  <2>3. Scanning'
    BY <2>2 DEF ScanInv, Scanning
  <2>4. InHeader => InHeader'
    BY <2>2 DEF InHeader, Unnamed, Paid, Peek, At
  <2> QED
    BY <2>2, <2>3, <2>4 DEF ScanInv, InFunction
<1> QED
  BY <1>1, <1>2, <1>3, <1>4, <1>5, <1>6, <1>7, <1>8 DEF ScanNext

LEMMA ScanInvariance == ScanSpec => []ScanInv
BY ScanStarts, ScanStep, PTL DEF ScanSpec

\* The scanner's state has its types, whatever the text.
THEOREM ScanTypeCorrect == ScanSpec => []ScanTypeOK
<1>1. ScanInv => ScanTypeOK
  <2> SUFFICES ASSUME ScanInv PROVE ScanTypeOK
    OBVIOUS
  <2>1. \A d \in ToSet(indexed) : d.kind \in Kinds /\ d.from < d.to
    <3>1. \A d \in ToSet(indexed) : d \in BoundedDefinitions
      BY DEF ScanInv, Scanning, ToSet
    <3> QED
      BY <3>1 DEF BoundedDefinitions, IndexedDefinitions
  <2>2. entry.kind \in Kinds \cup {"none", "global"} /\ entry.from \in 0 .. offset
    <3>1. entry \in Entries /\ entry.from <= offset /\ offset \in Nat
      BY LenProperties DEF ScanInv, Scanning
    <3> QED
      BY <3>1 DEF Entries
  <2> QED
    BY <2>1, <2>2 DEF ScanInv, Scanning, ScanTypeOK, InHeader
<1> QED
  BY <1>1, ScanInvariance, PTL

\* What read_token keeps of a header, and what the index keeps of names, stays within
\* the budget for any text, whether llvm-dis could have printed it or not.
THEOREM HeadersAlwaysBounded == ScanSpec => []HeadersAreBounded
<1>1. ScanInv => HeadersAreBounded
  <2> SUFFICES ASSUME ScanInv PROVE HeadersAreBounded
    OBVIOUS
  <2>1. ASSUME step = "header"
        PROVE  offset - entry.from <= HeaderLimit /\ Len(goals) <= offset - entry.from + 3
    <3>1. InHeader /\ offset \in Nat /\ entry.from \in Nat
      BY <2>1, LenProperties DEF ScanInv, Scanning, Entries
    <3>2. CASE Unnamed
      <4>1. Len(<<"global name", "=", "kind">>) = 3
        OBVIOUS
      <4>2. Len(goals) = 3 /\ offset = entry.from
        BY <3>2, <4>1 DEF Unnamed
      <4> QED
        BY <3>1, <4>2 DEF InHeader
    <3>3. CASE Paid
      <4>1. Len(goals) \in Nat
        BY <3>3, LenProperties DEF Paid
      <4> QED
        BY <3>1, <3>3, <4>1 DEF InHeader, Paid
    <3> QED
      BY <3>1, <3>2, <3>3 DEF InHeader
  <2>2. \A d \in ToSet(indexed) : Len(d.symbol) + Len(d.target) < HeaderLimit
    <3>1. \A d \in ToSet(indexed) : d \in BoundedDefinitions
      BY DEF ScanInv, Scanning, ToSet
    <3> QED
      BY <3>1, Zenon DEF BoundedDefinitions, NameLength
  <2> QED
    BY <2>1, <2>2 DEF HeadersAreBounded
<1> QED
  BY <1>1, ScanInvariance, PTL

=============================================================================

---------------------- MODULE EvidenceCollection_proofs ----------------------
(***************************************************************************)
(* Proofs about EvidenceCollection: an accepted collection is exact, and   *)
(* only faults refuse one, for any number of codegen units, functions,     *)
(* files and faults.                                                       *)
(*                                                                         *)
(* None of the properties is inductive: they speak of the last step, and   *)
(* what makes them true is decided long before.  The invariant follows the *)
(* manifest.  Stream says what its records may be, that none repeats       *)
(* another, and that nothing is missing before an end; it survives any cut *)
(* and any torn record, so it holds from the first record to the last      *)
(* step.  Open says that the driver has written all that it has got past,  *)
(* which is how an end comes to have everything before it.                 *)
(* SourcesCollected and ModulesCollected tie the artifacts to the records  *)
(* and the files, and Undisturbed is what more there is without faults.    *)
(***************************************************************************)
EXTENDS EvidenceCollection, SequenceLemmas

-----------------------------------------------------------------------------
(* The invariant.                                                          *)

\* The driver has got past the placement p.
Reached(p, u, i) == p[1] < u \/ (p[1] = u /\ p[2] <= i)

Places(r, p) == r.kind = "placement" /\ r.unit = p[1] /\ r.instance = p[2]

\* The source of a placement, if it has one, is its definition's: of a snapshot
\* that the records before it declare, and within its text.
SourceFits(m, s, k) ==
  LET d == definitions[m[k].instance] IN
  \/ m[k].source = NoSource
  \/ \E n \in DOMAIN s :
       /\ d # Nowhere /\ d.file = s[n] /\ d.end <= TextLength
       /\ m[k].source = [artifact |-> n - 1, end |-> d.end]
       /\ \E j \in 1 .. k - 1 : m[j] = SourceFileRecord(n - 1, TextLength)

PlacementFits(m, s, u, i, k) ==
  \E p \in placements :
    /\ m[k].kind = "placement" /\ m[k] = PlacementRecord(p[2], p[1], m[k].source)
    /\ Reached(p, u, i)
    /\ SourceFits(m, s, k)

\* What the record at position k can be, in a manifest m written with the
\* snapshots s up to the item i of the unit u.
Fits(m, s, u, i, k) ==
  \/ k = 1 /\ m[k] = ConfigurationRecord(build, support)
  \/ \E n \in DOMAIN s : m[k] = SourceFileRecord(n - 1, TextLength)
  \/ \E v \in 1 .. u, x \in Extension(build) : m[k] = ModuleRecord(v, x)
  \/ PlacementFits(m, s, u, i, k)
  \/ m[k] \in {EndRecord, TornRecord}

Separate(m) ==
  /\ Distinct(m, "source", LAMBDA r : r.id)
  /\ Distinct(m, "module", LAMBDA r : r.unit)
  /\ Distinct(m, "placement", LAMBDA r : <<r.instance, r.unit>>)

\* Nothing is missing before an end, wherever the manifest is cut.
EndsWhole(m) ==
  \A k \in DOMAIN m : m[k] = EndRecord =>
    /\ \A p \in placements : \E j \in 1 .. k - 1 : Places(m[j], p)
    /\ \A v \in Units, x \in Extension(build) :
         \E j \in 1 .. k - 1 : m[j] = ModuleRecord(v, x)
    /\ \A j \in DOMAIN m : m[j] = EndRecord => j = k

Stream(m, s, u, i) ==
  /\ \A k \in DOMAIN m : Fits(m, s, u, i, k)
  /\ Separate(m)
  /\ EndsWhole(m)

\* While the driver writes, the manifest has all that it has got past.
Open(m, s, u, i) ==
  /\ m # <<>> /\ m[1] = ConfigurationRecord(build, support)
  /\ \A k \in DOMAIN m : m[k] # EndRecord
  /\ \A p \in placements : Reached(p, u, i) => \E j \in DOMAIN m : Places(m[j], p)
  /\ \A v \in 1 .. u, x \in Extension(build) : \E j \in DOMAIN m : m[j] = ModuleRecord(v, x)
  /\ \A n \in DOMAIN s : \E j \in DOMAIN m : m[j] = SourceFileRecord(n - 1, TextLength)

Streamed == Stream(manifest, snapshots, unit, item)
Opened == Open(manifest, snapshots, unit, item)

\* Steps of a collection.
Unwritten == {"configure", "observe"}
Driving == {"units", "generate", "finish"}
Reading == {"decode", "sources"}
Collecting == {"tool", "modules", "validate", "accepted"}

Snapshot(n) == [text |-> snapshots[n], length |-> TextLength]

Driven ==
  /\ Streamed
  /\ IsInjective(snapshots)
  /\ step \notin {"configure", "refused"} => support = Decision(build)
  /\ step \in Unwritten =>
       manifest = <<>> /\ snapshots = <<>> /\ DOMAIN directory = {} /\ unit = 0 /\ item = 0
  /\ step \in Driving => Opened
  /\ step \in {"generate", "finish"} => unit = UnitCount /\ Pending = {}
  /\ step \in Unwritten \cup Driving \cup Reading =>
       /\ artifacts = <<>> /\ modules = <<>>
       /\ \A id \in DOMAIN directory :
            /\ id + 1 \in DOMAIN snapshots
            /\ \E n \in {0, TextLength} :
                 directory[id] = [text |-> snapshots[id + 1], length |-> n]

\* The source artifacts are the whole snapshots that the manifest declares.
SourcesCollected ==
  /\ Decodes(manifest)
  /\ \A j, k \in DOMAIN artifacts : artifacts[j].id = artifacts[k].id => j = k
  /\ \A k \in DOMAIN artifacts : artifacts[k].kind = "source" =>
       \E n \in DOMAIN snapshots :
         /\ artifacts[k] = [id |-> n - 1, kind |-> "source", length |-> TextLength]
         /\ n - 1 \in DOMAIN directory /\ directory[n - 1] = Snapshot(n)
  /\ \A k \in DOMAIN manifest : manifest[k].kind = "source" =>
       \E j \in DOMAIN artifacts :
         artifacts[j] = [id |-> manifest[k].id, kind |-> "source",
                         length |-> manifest[k].length]

FinalStage == Stage(SessionLto(build))

\* Each module so far is the one its record asks for.
ModulesCollected ==
  /\ Len(modules) <= Len(Expected)
  /\ \A n \in DOMAIN modules :
       /\ modules[n].unit = Expected[n].unit
       /\ modules[n].stage = FinalStage
       /\ modules[n].artifact \in DOMAIN directory
       /\ directory[modules[n].artifact].text = <<modules[n].unit, FinalStage>>
       /\ \E j \in DOMAIN artifacts :
            artifacts[j] = [id |-> modules[n].artifact, kind |-> "llvm", length |-> 1]
  /\ \A j, k \in DOMAIN modules : modules[j].artifact = modules[k].artifact => j = k
  /\ \A j \in DOMAIN artifacts : artifacts[j].kind = "llvm" =>
       \E n \in DOMAIN modules : modules[n].artifact = artifacts[j].id

Collected ==
  /\ step = "sources" => Decodes(manifest)
  /\ step \in Collecting => SourcesCollected /\ ModulesCollected
  /\ step \in {"tool", "modules"} => support = "supported"
  /\ step = "tool" => modules = <<>>
  /\ step = "modules" => \A k \in DOMAIN artifacts : artifacts[k].id < nextId
  /\ step \in {"validate", "accepted"} =>
       IF support = "supported" THEN Len(modules) = Len(Expected) ELSE modules = <<>>
  /\ step = "accepted" => ValidManifest

Uncapturable(d) == d = Nowhere \/ d.end > TextLength

\* Only what has no text is without a source.
Determined(m) ==
  \A k \in DOMAIN m :
    m[k].kind = "placement" /\ m[k].source = NoSource =>
      Uncapturable(definitions[m[k].instance])

\* With nothing going wrong outside.
Undisturbed ==
  /\ step # "refused"
  /\ reachable = Files
  /\ Determined(manifest)
  /\ step \in Unwritten \cup Driving \cup Reading =>
       \A n \in DOMAIN snapshots : n - 1 \in DOMAIN directory /\ directory[n - 1] = Snapshot(n)
  /\ step \in {"finish", "decode", "sources", "tool", "modules"} /\ support = "supported" =>
       Retained(build) \subseteq bitcode
  /\ step = "decode" =>
       /\ manifest # <<>> /\ manifest[1] = ConfigurationRecord(build, support)
       /\ manifest[Len(manifest)] = EndRecord

IInv == TypeOK /\ Driven /\ Collected /\ (faults = 0 => Undisturbed)

-----------------------------------------------------------------------------
(* The model's operators.                                                  *)

LEMMA SessionOfSupported ==
  ASSUME NEW b \in BuildOptions, Unsupported(b) = {}
  PROVE  /\ b.initialized = "llvm" /\ ~b.incremental /\ ~b.plugin
         /\ SessionLto(b) \in {"off", "local-thin"}
<1>1. \A r \in Reasons : r \notin Unsupported(b)
  OBVIOUS
<1>2. /\ b.backend = "llvm" /\ ~b.incremental /\ ~b.plugin
      /\ ~b.requiresLto /\ b.cli # "fat" /\ b.cli # "thin"
  BY <1>1 DEF Unsupported, Reasons
<1>3. b.initialized = "llvm" /\ b.cli \in {"unspecified", "off", "thin", "fat"}
  BY <1>2 DEF BuildOptions
<1> QED
  BY <1>2, <1>3 DEF SessionLto

LEMMA SessionType ==
  ASSUME NEW b \in BuildOptions
  PROVE  SessionLto(b) \in {"off", "local-thin", "fat", "cross-crate-thin"}
BY DEF SessionLto, BuildOptions

LEMMA DecisionFacts ==
  ASSUME NEW b
  PROVE  /\ Decision(b) \in Reasons \cup {"supported"}
         /\ Decision(b) = "supported" <=> Unsupported(b) = {}
<1> DEFINE found == {k \in DOMAIN Precedence : Precedence[k] \in Unsupported(b)}
<1>1. CASE Unsupported(b) = {}
  BY <1>1 DEF Decision
<1>2. CASE Unsupported(b) # {}
  <2>1. /\ DOMAIN Precedence = 1 .. 6
        /\ \A r \in Reasons : \E k \in 1 .. 6 : Precedence[k] = r
    BY DEF Precedence, Reasons
  <2>2. Unsupported(b) \subseteq Reasons
    BY DEF Unsupported
  <2>3. found \in SUBSET Nat /\ found # {}
    BY <1>2, <2>1, <2>2
  <2>4. Min(found) \in found
    BY <2>3, MinOfSet
  <2>5. Precedence[Min(found)] \in Reasons
    BY <2>2, <2>4
  <2> QED
    BY <1>2, <2>5 DEF Decision, Reasons
<1> QED
  BY <1>1, <1>2

\* A compilation has at most one suffix, and rustc retains every unit under it.
LEMMA ExtensionFacts ==
  ASSUME build \in BuildOptions, support = Decision(build)
  PROVE  /\ Extension(build) \subseteq Extensions
         /\ \A x, y \in Extension(build) : x = y
         /\ support = "supported" => Extension(build) # {}
         /\ support # "supported" => Extension(build) = {}
         /\ \A v \in Units, x \in Extension(build) : <<v, x>> \in Retained(build)
<1>1. support = "supported" => SessionLto(build) \in {"off", "local-thin"}
  BY DecisionFacts, SessionOfSupported
<1> QED
  BY <1>1 DEF Extension, Extensions, Retained

LEMMA RetainedType == ASSUME build \in BuildOptions PROVE Retained(build) \subseteq Units \X Extensions
BY DEF Retained, Extensions

\* What NextUnit appends is nothing or one record.
LEMMA SetToSeqSmall ==
  ASSUME NEW S, \A x, y \in S : x = y
  PROVE  /\ S = {} => SetToSeq(S) = <<>>
         /\ \A x \in S : SetToSeq(S) = <<x>>
<1>1. CASE S = {}
  <2>1. Cardinality(S) = 0
    BY <1>1, FS_EmptySet
  <2> DEFINE F == [1 .. Cardinality(S) -> S]
  <2>2. <<>> \in F /\ \A f \in F : f = <<>>
    BY <2>1
  <2>3. IsInjective(<<>>)
    BY DEF IsInjective
  <2> QED
    BY <1>1, <2>2, <2>3 DEF SetToSeq
<1>2. ASSUME NEW x \in S
      PROVE  SetToSeq(S) = <<x>>
  <2>1. S = {x}
    BY <1>2
  <2>2. Cardinality(S) = 1
    BY <2>1, FS_Singleton
  <2> DEFINE F == [1 .. Cardinality(S) -> S]
  <2>3. F = [1 .. 1 -> {x}]
    BY <2>1, <2>2
  <2> HIDE DEF F
  <2>5. <<x>> \in F
    <3>1. <<x>> \in Seq({x}) /\ Len(<<x>>) = 1
      OBVIOUS
    <3> QED
      BY <2>3, <3>1, LenProperties
  <2>6. ASSUME NEW f \in F
        PROVE  f = <<x>>
    <3>1. f \in Seq({x}) /\ Len(f) = 1
      BY <2>3, SequenceOfFunction
    <3>2. <<x>> \in Seq({x}) /\ Len(<<x>>) = 1 /\ f[1] = x
      BY <2>3
    <3> QED
      BY <3>1, <3>2, SeqEqual
  <2>4. IsInjective(<<x>>)
    BY DEF IsInjective
  <2> QED
    BY <2>4, <2>5, <2>6 DEF SetToSeq, F
<1> QED
  BY <1>1, <1>2

LEMMA RecordTypes ==
  /\ \A b \in BuildOptions, c \in Reasons \cup {"supported"} :
       ConfigurationRecord(b, c) \in RecordValues
  /\ \A id, length \in Nat : SourceFileRecord(id, length) \in RecordValues
  /\ \A u \in Units, x \in Extensions : ModuleRecord(u, x) \in RecordValues
  /\ \A i \in Instances, u \in Units, source \in {NoSource} \cup [artifact : Nat, end : Nat] :
       PlacementRecord(i, u, source) \in RecordValues
  /\ EndRecord \in RecordValues /\ TornRecord \in RecordValues
<1>1. \A id, length \in Nat : SourceFileRecord(id, length) \in [kind : {"source"}, id : Nat, length : Nat]
  BY DEF SourceFileRecord
<1>2. \A u \in Units, x \in Extensions : ModuleRecord(u, x) \in [kind : {"module"}, unit : Units, suffix : Extensions]
  BY DEF ModuleRecord
<1>3. \A i \in Instances, u \in Units, source \in {NoSource} \cup [artifact : Nat, end : Nat] :
       PlacementRecord(i, u, source) \in
         [kind : {"placement"}, instance : Instances, unit : Units,
          source : {NoSource} \cup [artifact : Nat, end : Nat]]
  BY DEF PlacementRecord
<1>4. ASSUME NEW b \in BuildOptions, NEW c \in Reasons \cup {"supported"}
      PROVE  ConfigurationRecord(b, c) \in RecordValues
  <2>1. SessionLto(b) \in {"off", "local-thin", "cross-crate-thin", "fat"}
    BY SessionType
  <2>2. /\ b.initialized \in {"llvm", "other"}
        /\ b.incremental \in BOOLEAN /\ b.plugin \in BOOLEAN
    BY DEF BuildOptions
  <2> QED
    BY <2>1, <2>2 DEF ConfigurationRecord, RecordValues
<1>5. EndRecord \in RecordValues /\ TornRecord \in RecordValues
  BY DEF RecordValues
<1>6. /\ [kind : {"source"}, id : Nat, length : Nat] \subseteq RecordValues
      /\ [kind : {"module"}, unit : Units, suffix : Extensions] \subseteq RecordValues
      /\ [kind : {"placement"}, instance : Instances, unit : Units,
          source : {NoSource} \cup [artifact : Nat, end : Nat]] \subseteq RecordValues
  BY Zenon DEF RecordValues
<1> QED
  BY <1>1, <1>2, <1>3, <1>4, <1>5, <1>6, Zenon

\* The records of a kind are those at its positions, each of them once.
LEMMA RecordsEnumerate ==
  ASSUME NEW S, NEW m \in Seq(S), NEW kind
  PROVE  /\ Records(m, kind) \in Seq(RecordSet(m, kind))
         /\ DOMAIN Records(m, kind) = 1 .. Len(Records(m, kind))
         /\ Len(Records(m, kind)) \in Nat
         /\ \A n \in DOMAIN Records(m, kind) :
              /\ Position(m, kind, n) \in Positions(m, kind)
              /\ Records(m, kind)[n] = m[Position(m, kind, n)]
         /\ \A j, k \in DOMAIN Records(m, kind) :
              Position(m, kind, j) = Position(m, kind, k) => j = k
         /\ \A p \in Positions(m, kind) :
              \E n \in DOMAIN Records(m, kind) : Position(m, kind, n) = p
<1> DEFINE P == Positions(m, kind)
           c == Cardinality(P)
           rank == [p \in P |-> Rank(m, kind, p)]
<1>1. P \subseteq 1 .. Len(m) /\ Len(m) \in Nat
  BY DEF Positions
<1>2. IsFiniteSet(P) /\ c \in Nat
  <2>1. IsFiniteSet(1 .. Len(m))
    BY <1>1, FS_Interval
  <2>2. IsFiniteSet(P)
    BY <1>1, <2>1, FS_Subset
  <2> QED
    BY <2>2, FS_CardinalityType
<1>3. ASSUME NEW p \in P
      PROVE  rank[p] \in 1 .. c
  <2> DEFINE B == {j \in P : j <= p}
  <2>1. B \subseteq P /\ p \in B
    BY <1>1
  <2>2. IsFiniteSet(B) /\ Cardinality(B) <= c /\ Cardinality(B) \in Nat
    BY <1>2, <2>1, FS_Subset, FS_CardinalityType
  <2>3. Cardinality(B) # 0
    BY <2>1, <2>2, FS_EmptySet
  <2> QED
    BY <1>2, <2>2, <2>3 DEF Rank
<1>4. ASSUME NEW p \in P, NEW q \in P, p < q
      PROVE  rank[p] # rank[q]
  <2> DEFINE A == {j \in P : j <= p}
             B == {j \in P : j <= q}
  <2>1. IsFiniteSet(B)
    BY <1>2, FS_Subset
  <2>2. A \subseteq B /\ q \in B /\ q \notin A
    BY <1>1, <1>4
  <2>3. Cardinality(A) # Cardinality(B)
    BY <2>1, <2>2, FS_Subset
  <2> QED
    BY <2>3 DEF Rank
<1>11. \A p, q \in P : rank[p] = rank[q] => p = q
  BY <1>1, <1>4
<1>5. rank \in Injection(P, 1 .. c)
  BY <1>3, <1>11, Fun_IsInj
<1>6. rank \in Surjection(P, 1 .. c)
  <2>1. IsFiniteSet(1 .. c) /\ Cardinality(1 .. c) = c
    BY <1>2, FS_Interval
  <2> QED
    BY <1>5, <2>1, FS_Injection
<1>7. ASSUME NEW n \in 1 .. c
      PROVE  Position(m, kind, n) \in P /\ rank[Position(m, kind, n)] = n
  <2>1. \E p \in P : Rank(m, kind, p) = n
    BY <1>6 DEF Surjection
  <2> QED
    BY <2>1 DEF Position
<1> HIDE DEF rank
<1>8. \A p \in P : Position(m, kind, rank[p]) = p
  <2>1. ASSUME NEW p \in P
        PROVE  Position(m, kind, rank[p]) = p
    <3>1. rank[Position(m, kind, rank[p])] = rank[p] /\ Position(m, kind, rank[p]) \in P
      BY <1>3, <1>7
    <3> QED
      BY <1>11, <3>1
  <2> QED
    BY <2>1
<1>9. /\ Records(m, kind) = [n \in 1 .. c |-> m[Position(m, kind, n)]]
      /\ \A n \in 1 .. c : m[Position(m, kind, n)] \in RecordSet(m, kind)
  BY <1>7 DEF Records, RecordSet
<1> HIDE DEF c, rank
<1>10. Records(m, kind) \in Seq(RecordSet(m, kind)) /\ Len(Records(m, kind)) = c
  BY <1>2, <1>9
<1> QED
  BY <1>2, <1>3, <1>7, <1>8, <1>9, <1>10

-----------------------------------------------------------------------------
(* Writing, cutting and extending a manifest.                              *)

LEMMA Appending ==
  ASSUME NEW S, NEW s \in Seq(S), NEW e \in S
  PROVE  /\ Append(s, e) \in Seq(S)
         /\ Len(s) \in Nat /\ DOMAIN s = 1 .. Len(s)
         /\ DOMAIN Append(s, e) = 1 .. Len(s) + 1 /\ Len(s) + 1 \in DOMAIN Append(s, e)
         /\ Append(s, e)[Len(s) + 1] = e
         /\ \A k \in DOMAIN s : k \in DOMAIN Append(s, e) /\ Append(s, e)[k] = s[k]
         /\ \A k \in DOMAIN Append(s, e) : k \in DOMAIN s \/ k = Len(s) + 1
OBVIOUS

\* A record that fits is of one of the shapes, which its kind tells.
LEMMA ShapeOfKind ==
  ASSUME NEW m, NEW s, NEW u, NEW i, NEW k, Fits(m, s, u, i, k)
  PROVE  /\ m[k].kind = "configuration" =>
              k = 1 /\ m[k] = ConfigurationRecord(build, support)
         /\ m[k].kind = "source" =>
              \E n \in DOMAIN s : m[k] = SourceFileRecord(n - 1, TextLength)
         /\ m[k].kind = "module" =>
              \E v \in 1 .. u, x \in Extension(build) : m[k] = ModuleRecord(v, x)
         /\ m[k].kind = "placement" => PlacementFits(m, s, u, i, k)
         /\ m[k].kind = "end" => m[k] = EndRecord
<1>1. ASSUME m[k] = ConfigurationRecord(build, support) PROVE m[k].kind = "configuration"
  BY <1>1 DEF ConfigurationRecord
<1>2. ASSUME \E n \in DOMAIN s : m[k] = SourceFileRecord(n - 1, TextLength)
      PROVE  m[k].kind = "source"
  BY <1>2 DEF SourceFileRecord
<1>3. ASSUME \E v \in 1 .. u, x \in Extension(build) : m[k] = ModuleRecord(v, x)
      PROVE  m[k].kind = "module"
  BY <1>3 DEF ModuleRecord
<1>4. ASSUME PlacementFits(m, s, u, i, k) PROVE m[k].kind = "placement"
  BY <1>4 DEF PlacementFits
<1>5. ASSUME m[k] \in {EndRecord, TornRecord}
      PROVE  m[k].kind \in {"end", "torn"} /\ (m[k].kind = "end" => m[k] = EndRecord)
  BY <1>5 DEF EndRecord, TornRecord
<1>6. "configuration" \notin {"end", "torn"} /\ "source" \notin {"end", "torn"}
      /\ "module" \notin {"end", "torn"} /\ "placement" \notin {"end", "torn"}
  OBVIOUS
<1> QED
  BY <1>1, <1>2, <1>3, <1>4, <1>5, <1>6 DEF Fits

\* What fits stays fit when the records before it stay, and the driver goes on.
LEMMA FitsKept ==
  ASSUME NEW m \in Seq(RecordValues), NEW n \in Seq(RecordValues),
         NEW s \in Seq(Files), NEW t \in Seq(Files),
         NEW u \in Nat, NEW v \in Nat, NEW i \in Nat, NEW j \in Nat,
         NEW k \in DOMAIN m, k \in DOMAIN n,
         \A h \in 1 .. k : n[h] = m[h],
         \A h \in DOMAIN s : h \in DOMAIN t /\ t[h] = s[h],
         u <= v, \A p \in placements : Reached(p, u, i) => Reached(p, v, j),
         Fits(m, s, u, i, k)
  PROVE  Fits(n, t, v, j, k)
<1>1. k \in Nat /\ k >= 1 /\ n[k] = m[k] /\ k \in 1 .. k /\ \A h \in 1 .. k - 1 : n[h] = m[h]
  <2>1. k \in Nat /\ k >= 1
    <3>1. DOMAIN m = 1 .. Len(m) /\ Len(m) \in Nat
      OBVIOUS
    <3> QED
      BY <3>1
  <2>2. k \in 1 .. k /\ \A h \in 1 .. k - 1 : h \in 1 .. k
    BY <2>1
  <2> QED
    BY <2>1, <2>2
<1>2. CASE k = 1 /\ m[k] = ConfigurationRecord(build, support)
  BY <1>1, <1>2 DEF Fits
<1>3. CASE \E h \in DOMAIN s : m[k] = SourceFileRecord(h - 1, TextLength)
  BY <1>1, <1>3 DEF Fits
<1>4. CASE \E w \in 1 .. u, x \in Extension(build) : m[k] = ModuleRecord(w, x)
  <2>1. 1 .. u \subseteq 1 .. v
    OBVIOUS
  <2> QED
    BY <1>1, <1>4, <2>1 DEF Fits
<1>5. CASE PlacementFits(m, s, u, i, k)
  <2>1. ASSUME SourceFits(m, s, k), m[k].source # NoSource
        PROVE  SourceFits(n, t, k)
    <3>1. PICK h \in DOMAIN s :
            /\ definitions[m[k].instance] # Nowhere
            /\ definitions[m[k].instance].file = s[h]
            /\ definitions[m[k].instance].end <= TextLength
            /\ m[k].source = [artifact |-> h - 1, end |-> definitions[m[k].instance].end]
            /\ \E g \in 1 .. k - 1 : m[g] = SourceFileRecord(h - 1, TextLength)
      BY <2>1 DEF SourceFits
    <3>2. h \in DOMAIN t /\ t[h] = s[h]
      OBVIOUS
    <3>3. \E g \in 1 .. k - 1 : n[g] = SourceFileRecord(h - 1, TextLength)
      BY <1>1, <3>1
    <3> QED
      BY <1>1, <3>1, <3>2, <3>3 DEF SourceFits
  <2>2. PICK p \in placements :
          /\ m[k].kind = "placement" /\ m[k] = PlacementRecord(p[2], p[1], m[k].source)
          /\ Reached(p, u, i) /\ SourceFits(m, s, k)
    BY <1>5 DEF PlacementFits
  <2>3. PlacementFits(n, t, v, j, k)
    <3>1. SourceFits(n, t, k)
      BY <1>1, <2>1, <2>2 DEF SourceFits
    <3> QED
      BY <1>1, <2>2, <3>1 DEF PlacementFits
  <2> QED
    BY <2>3 DEF Fits
<1>6. CASE m[k] \in {EndRecord, TornRecord}
  BY <1>1, <1>6 DEF Fits
<1> QED
  BY <1>2, <1>3, <1>4, <1>5, <1>6 DEF Fits

\* The record r repeats no record of m.
Fresh(m, r) ==
  /\ r.kind = "source" => \A k \in Positions(m, "source") : m[k].id # r.id
  /\ r.kind = "module" => \A k \in Positions(m, "module") : m[k].unit # r.unit
  /\ r.kind = "placement" => \A k \in Positions(m, "placement") :
                               <<m[k].instance, m[k].unit>> # <<r.instance, r.unit>>

LEMMA SeparateAppended ==
  ASSUME NEW m \in Seq(RecordValues), NEW r \in RecordValues, Separate(m), Fresh(m, r)
  PROVE  Separate(Append(m, r))
<1> DEFINE n == Append(m, r)
<1>1. /\ n \in Seq(RecordValues) /\ Len(n) = Len(m) + 1 /\ Len(m) \in Nat
      /\ DOMAIN n = 1 .. Len(m) + 1 /\ DOMAIN m = 1 .. Len(m)
      /\ n[Len(m) + 1] = r /\ \A k \in DOMAIN m : n[k] = m[k]
  OBVIOUS
<1> HIDE DEF n
<1>2. \A kind : \A k \in Positions(n, kind) :
        k \in Positions(m, kind) \/ (k = Len(m) + 1 /\ r.kind = kind)
  BY <1>1 DEF Positions
<1>3. \A kind : \A k \in Positions(m, kind) : n[k] = m[k]
  BY <1>1 DEF Positions
<1>4. Distinct(n, "source", LAMBDA q : q.id)
  BY <1>1, <1>2, <1>3 DEF Separate, Distinct, Fresh
<1>5. Distinct(n, "module", LAMBDA q : q.unit)
  BY <1>1, <1>2, <1>3 DEF Separate, Distinct, Fresh
<1>6. Distinct(n, "placement", LAMBDA q : <<q.instance, q.unit>>)
  BY <1>1, <1>2, <1>3 DEF Separate, Distinct, Fresh
<1> QED
  BY <1>4, <1>5, <1>6 DEF Separate, n

\* Cutting a manifest leaves a part of a stream.
LEMMA StreamCut ==
  ASSUME NEW m \in Seq(RecordValues), NEW s \in Seq(Files), NEW u \in Nat, NEW i \in Nat,
         Stream(m, s, u, i), NEW c \in 0 .. Len(m)
  PROVE  SubSeq(m, 1, c) \in Seq(RecordValues) /\ Stream(SubSeq(m, 1, c), s, u, i)
<1> DEFINE n == SubSeq(m, 1, c)
<1>1. /\ n \in Seq(RecordValues) /\ Len(n) = c /\ DOMAIN n = 1 .. c
      /\ Len(m) \in Nat /\ DOMAIN m = 1 .. Len(m) /\ c \in Nat
      /\ \A k \in DOMAIN n : k \in DOMAIN m /\ n[k] = m[k]
  <2>1. Len(m) \in Nat /\ DOMAIN m = 1 .. Len(m) /\ c \in Nat /\ c <= Len(m)
    OBVIOUS
  <2>2. \A k \in 1 .. c : m[k] \in RecordValues
    BY <2>1
  <2>3. /\ n \in Seq(RecordValues) /\ Len(n) = IF 1 <= c THEN c - 1 + 1 ELSE 0
        /\ \A k \in 1 .. c - 1 + 1 : n[k] = m[1 + k - 1]
    BY <2>1, <2>2, SubSeqProperties
  <2> HIDE DEF n
  <2> QED
    BY <2>1, <2>3
<1> HIDE DEF n
<1>2. ASSUME NEW k \in DOMAIN n PROVE Fits(n, s, u, i, k)
  <2>1. k \in DOMAIN m /\ Fits(m, s, u, i, k)
    BY <1>1 DEF Stream
  <2>2. \A h \in 1 .. k : n[h] = m[h]
    BY <1>1
  <2>3. \A h \in DOMAIN s : h \in DOMAIN s /\ s[h] = s[h]
    OBVIOUS
  <2>4. u <= u /\ \A p \in placements : Reached(p, u, i) => Reached(p, u, i)
    OBVIOUS
  <2> QED
    BY <1>1, <2>1, <2>2, <2>3, <2>4, FitsKept
<1>3. Separate(n)
  <2>1. \A kind : \A k \in Positions(n, kind) : k \in Positions(m, kind) /\ n[k] = m[k]
    BY <1>1 DEF Positions
  <2> QED
    BY <2>1 DEF Stream, Separate, Distinct
<1>4. EndsWhole(n)
  <2>1. \A k \in DOMAIN n : \A h \in 1 .. k - 1 : n[h] = m[h]
    BY <1>1
  <2> QED
    BY <1>1, <2>1 DEF Stream, EndsWhole
<1> QED
  BY <1>1, <1>2, <1>3, <1>4 DEF Stream, n

\* A record that fits extends a stream, unless a second end would.
LEMMA StreamAppended ==
  ASSUME NEW m \in Seq(RecordValues), NEW r \in RecordValues,
         NEW s \in Seq(Files), NEW t \in Seq(Files),
         NEW u \in Nat, NEW v \in Nat, NEW i \in Nat, NEW j \in Nat,
         Stream(m, s, u, i),
         \A h \in DOMAIN s : h \in DOMAIN t /\ t[h] = s[h],
         u <= v, \A p \in placements : Reached(p, u, i) => Reached(p, v, j),
         Fresh(m, r), Fits(Append(m, r), t, v, j, Len(m) + 1),
         r = EndRecord =>
           /\ \A k \in DOMAIN m : m[k] # EndRecord
           /\ \A p \in placements : \E h \in DOMAIN m : Places(m[h], p)
           /\ \A w \in Units, x \in Extension(build) :
                \E h \in DOMAIN m : m[h] = ModuleRecord(w, x)
  PROVE  Append(m, r) \in Seq(RecordValues) /\ Stream(Append(m, r), t, v, j)
<1> DEFINE n == Append(m, r)
<1>1. /\ n \in Seq(RecordValues) /\ Len(n) = Len(m) + 1 /\ Len(m) \in Nat
      /\ DOMAIN n = 1 .. Len(m) + 1 /\ DOMAIN m = 1 .. Len(m)
      /\ n[Len(m) + 1] = r /\ \A k \in DOMAIN m : k \in DOMAIN n /\ n[k] = m[k]
  OBVIOUS
<1>2. Separate(n)
  BY SeparateAppended DEF Stream
<1>3. Fits(n, t, v, j, Len(m) + 1)
  OBVIOUS
<1> HIDE DEF n
<1>4. ASSUME NEW k \in DOMAIN n PROVE Fits(n, t, v, j, k)
  <2>1. CASE k = Len(m) + 1
    BY <1>3, <2>1
  <2>2. CASE k \in DOMAIN m
    <3>1. \A h \in 1 .. k : n[h] = m[h]
      BY <1>1, <2>2
    <3> QED
      BY <1>1, <2>2, <3>1, FitsKept DEF Stream
  <2> QED
    BY <1>1, <2>1, <2>2
<1>5. EndsWhole(n)
  <2>1. \A k \in DOMAIN n : k \in DOMAIN m \/ k = Len(m) + 1
    BY <1>1
  <2>2. CASE r = EndRecord
    <3>1. \A k \in DOMAIN n : n[k] = EndRecord => k = Len(m) + 1
      BY <1>1, <2>1, <2>2
    <3>2. 1 .. Len(m) + 1 - 1 = DOMAIN m
      BY <1>1
    <3> QED
      BY <1>1, <2>2, <3>1, <3>2 DEF EndsWhole
  <2>3. CASE r # EndRecord
    <3>1. \A k \in DOMAIN n : n[k] = EndRecord => k \in DOMAIN m /\ m[k] = EndRecord
      BY <1>1, <2>1, <2>3
    <3>2. \A k \in DOMAIN m : \A h \in 1 .. k - 1 : n[h] = m[h]
      BY <1>1
    <3>3. EndsWhole(m)
      BY DEF Stream
    <3>4. \A k \in DOMAIN m : m[k] = EndRecord =>
            \A h \in DOMAIN m : m[h] = EndRecord => h = k
      BY <3>3 DEF EndsWhole
    <3>5. ASSUME NEW k \in DOMAIN n, n[k] = EndRecord
          PROVE  /\ \A p \in placements : \E h \in 1 .. k - 1 : Places(n[h], p)
                 /\ \A w \in Units, x \in Extension(build) :
                      \E h \in 1 .. k - 1 : n[h] = ModuleRecord(w, x)
      BY <3>1, <3>2, <3>3, <3>5 DEF EndsWhole
    <3> QED
      BY <3>1, <3>4, <3>5 DEF EndsWhole
  <2> QED
    BY <2>2, <2>3
<1> QED
  BY <1>1, <1>2, <1>4, <1>5 DEF Stream, n

\* What is open stays open when a record is appended that is no end.
LEMMA OpenAppended ==
  ASSUME NEW m \in Seq(RecordValues), NEW r \in RecordValues, r # EndRecord,
         NEW s \in Seq(Files), NEW t \in Seq(Files),
         NEW u \in Nat, NEW v \in Nat, NEW i \in Nat, NEW j \in Nat,
         Open(m, s, u, i),
         \A p \in placements : Reached(p, v, j) => Reached(p, u, i) \/ Places(r, p),
         \A w \in 1 .. v, x \in Extension(build) : w \in 1 .. u \/ r = ModuleRecord(w, x),
         \A h \in DOMAIN t : (h \in DOMAIN s /\ t[h] = s[h]) \/ r = SourceFileRecord(h - 1, TextLength)
  PROVE  Open(Append(m, r), t, v, j)
<1> DEFINE n == Append(m, r)
<1>1. /\ Len(m) \in Nat
      /\ DOMAIN n = 1 .. Len(m) + 1 /\ DOMAIN m = 1 .. Len(m)
      /\ n[Len(m) + 1] = r /\ \A k \in DOMAIN m : k \in DOMAIN n /\ n[k] = m[k]
      /\ Len(m) + 1 \in DOMAIN n
  OBVIOUS
<1>2. n # <<>>
  <2>1. Len(n) = Len(m) + 1
    OBVIOUS
  <2> HIDE DEF n
  <2> QED
    BY <1>1, <2>1
<1> HIDE DEF n
<1>3. n[1] = ConfigurationRecord(build, support)
  <2>1. 1 \in DOMAIN m
    BY <1>1 DEF Open
  <2> QED
    BY <1>1, <2>1 DEF Open
<1>4. \A k \in DOMAIN n : n[k] # EndRecord
  <2>1. \A k \in DOMAIN n : k \in DOMAIN m \/ k = Len(m) + 1
    BY <1>1
  <2> QED
    BY <1>1, <2>1 DEF Open
<1>5. \A p \in placements : Reached(p, v, j) => \E h \in DOMAIN n : Places(n[h], p)
  BY <1>1 DEF Open
<1>6. \A w \in 1 .. v, x \in Extension(build) : \E h \in DOMAIN n : n[h] = ModuleRecord(w, x)
  BY <1>1 DEF Open
<1>7. \A h \in DOMAIN t : \E k \in DOMAIN n : n[k] = SourceFileRecord(h - 1, TextLength)
  BY <1>1 DEF Open
<1> QED
  BY <1>2, <1>3, <1>4, <1>5, <1>6, <1>7 DEF Open, n

\* Going on without a record.
LEMMA StreamMoved ==
  ASSUME NEW m \in Seq(RecordValues), NEW s \in Seq(Files),
         NEW u \in Nat, NEW v \in Nat, NEW i \in Nat, NEW j \in Nat, u <= v,
         \A p \in placements : Reached(p, u, i) <=> Reached(p, v, j)
  PROVE  /\ Stream(m, s, u, i) => Stream(m, s, v, j)
         /\ /\ \A w \in 1 .. v, x \in Extension(build) : w \in 1 .. u
            /\ Open(m, s, u, i)
            => Open(m, s, v, j)
<1>1. ASSUME NEW k \in DOMAIN m, Fits(m, s, u, i, k)
      PROVE  Fits(m, s, v, j, k)
  <2>1. \A h \in 1 .. k : m[h] = m[h]
    OBVIOUS
  <2>2. \A h \in DOMAIN s : h \in DOMAIN s /\ s[h] = s[h]
    OBVIOUS
  <2> QED
    BY <1>1, <2>1, <2>2, FitsKept
<1> QED
  BY <1>1 DEF Stream, Open

LEMMA DeterminedAppended ==
  ASSUME NEW m \in Seq(RecordValues), NEW r \in RecordValues, Determined(m),
         r.kind = "placement" /\ r.source = NoSource => Uncapturable(definitions[r.instance])
  PROVE  Determined(Append(m, r))
BY DEF Determined

-----------------------------------------------------------------------------
(* The driver's steps.                                                     *)

LEMMA StreamFrame ==
  ASSUME UNCHANGED <<build, placements, definitions, support>>
  PROVE  /\ Stream(manifest', snapshots', unit', item') => Streamed'
         /\ Open(manifest', snapshots', unit', item') => Opened'
         /\ Determined(manifest') => Determined(manifest)'
<1>1. Extension(build)' = Extension(build)
  BY DEF Extension, SessionLto
<1>2. ConfigurationRecord(build, support)' = ConfigurationRecord(build, support)
  BY DEF ConfigurationRecord, SessionLto
<1>3. ASSUME NEW k
      PROVE  Fits(manifest', snapshots', unit', item', k) =>
               Fits(manifest, snapshots, unit, item, k)'
  <2>1. PlacementFits(manifest', snapshots', unit', item', k) =>
          PlacementFits(manifest, snapshots, unit, item, k)'
    <3>1. SourceFits(manifest', snapshots', k) => SourceFits(manifest, snapshots, k)'
      BY DEF SourceFits, NoSource, Nowhere, SourceFileRecord
    <3> QED
      BY <3>1 DEF PlacementFits, PlacementRecord, Reached
  <2> QED
    BY <1>1, <1>2, <2>1 DEF Fits, SourceFileRecord, ModuleRecord, EndRecord, TornRecord
<1>4. Separate(manifest') => Separate(manifest)'
  BY DEF Separate, Distinct, Positions
<1>5. EndsWhole(manifest') => EndsWhole(manifest)'
  BY <1>1 DEF EndsWhole, Places, ModuleRecord, EndRecord, Units
<1>6. Stream(manifest', snapshots', unit', item') => Streamed'
  BY <1>3, <1>4, <1>5 DEF Streamed, Stream
<1>7. Open(manifest', snapshots', unit', item') => Opened'
  BY <1>1, <1>2 DEF Opened, Open, Places, Reached, SourceFileRecord, ModuleRecord, EndRecord
<1>8. Determined(manifest') => Determined(manifest)'
  BY DEF Determined, Uncapturable, NoSource, Nowhere
<1> QED
  BY <1>6, <1>7, <1>8

\* A step that writes nothing keeps what is written.
LEMMA StreamUnwritten ==
  ASSUME UNCHANGED <<build, placements, definitions, support, manifest, snapshots, unit, item>>
  PROVE  (Streamed => Streamed') /\ (Opened => Opened')
<1>1. /\ Streamed => Stream(manifest', snapshots', unit', item')
      /\ Opened => Open(manifest', snapshots', unit', item')
  BY DEF Streamed, Opened
<1> QED
  BY <1>1, StreamFrame

\* What only depends on the inputs.
LEMMA InputFrame ==
  ASSUME UNCHANGED inputVars
  PROVE  /\ build' = build /\ placements' = placements /\ definitions' = definitions
         /\ Decision(build)' = Decision(build)
         /\ Retained(build)' = Retained(build)
         /\ FinalStage' = FinalStage
<1>1. build' = build /\ placements' = placements /\ definitions' = definitions
  BY DEF inputVars
<1> QED
  BY <1>1 DEF Decision, Unsupported, Precedence, Retained, SessionLto, FinalStage, Stage, Units

LEMMA Constants ==
  /\ UnitCount \in Nat /\ InstanceCount \in Nat /\ TextLength \in Nat /\ MaxFaults \in Nat
  /\ Ends \subseteq Nat /\ Builds \subseteq BuildOptions
  /\ Units = 1 .. UnitCount /\ Instances = 1 .. InstanceCount
BY CollectionAssumption DEF Units, Instances

LEMMA InitIInv == Init => IInv
<1> SUFFICES ASSUME Init PROVE IInv
  OBVIOUS
<1> USE DEF Init
<1>1. TypeOK
  <2>1. DOMAIN <<>> = {} /\ \A S : <<>> \in Seq(S)
    OBVIOUS
  <2>2. /\ 0 \in 0 .. UnitCount /\ 0 \in 0 .. InstanceCount /\ 0 \in 0 .. MaxFaults
    BY Constants
  <2> QED
    BY <2>1, <2>2 DEF TypeOK
<1>2. Streamed
  BY DEF Streamed, Stream, Separate, Distinct, Positions, EndsWhole
<1>3. Driven
  BY <1>2 DEF Driven, IsInjective, Unwritten, Driving, Reading
<1>4. Collected
  BY DEF Collected, Collecting
<1>5. Undisturbed
  BY DEF Undisturbed, Determined, Unwritten, Driving, Reading
<1> QED
  BY <1>1, <1>3, <1>4, <1>5 DEF IInv

LEMMA ConfigureIInv == ASSUME IInv, Configure PROVE IInv'
<1> USE DEF Configure, Goto, driverVars, opticVars
<1>1. TypeOK'
  BY DecisionFacts DEF IInv, TypeOK, inputVars
<1>2. Streamed'
  <2>1. manifest' = <<>>
    BY DEF IInv, Driven, Unwritten
  <2> QED
    BY <2>1 DEF Streamed, Stream, Separate, Distinct, Positions, EndsWhole
<1>3. Driven'
  BY <1>2, InputFrame DEF IInv, Driven, Unwritten, Driving, Reading
<1>4. Collected'
  BY DEF Collected, Collecting
<1>5. faults' = 0 => Undisturbed'
  <2>1. manifest' = <<>> /\ snapshots' = <<>> /\ snapshots = <<>>
    BY DEF IInv, Driven, Unwritten
  <2> QED
    BY <2>1 DEF IInv, Undisturbed, Determined, Unwritten, Driving, Reading
<1> QED
  BY <1>1, <1>3, <1>4, <1>5 DEF IInv

LEMMA WriteConfigurationIInv == ASSUME IInv, WriteConfiguration PROVE IInv'
<1> USE DEF WriteConfiguration, Goto, driverVars, opticVars
<1> DEFINE record == ConfigurationRecord(build, support)
<1>1. /\ manifest = <<>> /\ snapshots = <<>> /\ DOMAIN directory = {}
      /\ unit = 0 /\ item = 0 /\ support = Decision(build)
      /\ artifacts = <<>> /\ modules = <<>>
  BY DEF IInv, Driven, Unwritten
<1>2. build \in BuildOptions
  BY Constants DEF IInv, TypeOK
<1>3. Observed(build)
  BY <1>1, <1>2, DecisionFacts, SessionOfSupported DEF Observed
<1>4. record \in RecordValues
  BY <1>1, <1>2, DecisionFacts, RecordTypes
<1>5. manifest' = <<record>> /\ step' = "units"
  BY <1>3
<1>6. TypeOK'
  BY <1>4, <1>5 DEF IInv, TypeOK, inputVars
<1>7. Streamed' /\ Opened'
  <2>1. DOMAIN <<record>> = {1} /\ <<record>>[1] = record /\ <<record>> # <<>>
    OBVIOUS
  <2>2. record # EndRecord
    BY DEF ConfigurationRecord, EndRecord
  <2>3. Stream(manifest', snapshots', unit', item')
    BY <1>1, <1>5, <2>1, <2>2 DEF Stream, Fits, Separate, Distinct, Positions, EndsWhole
  <2>4. \A p \in placements : ~Reached(p, 0, 0)
    BY Constants DEF Reached, IInv, TypeOK
  <2>5. Open(manifest', snapshots', unit', item')
    BY <1>1, <1>5, <2>1, <2>2, <2>4 DEF Open
  <2> QED
    BY <2>3, <2>5, StreamFrame, InputFrame
<1>8. Driven'
  BY <1>1, <1>5, <1>7, InputFrame DEF IInv, Driven, Unwritten, Driving, Reading
<1>9. Collected'
  BY <1>5 DEF Collected, Collecting
<1>10. faults' = 0 => Undisturbed'
  <2>1. DOMAIN <<record>> = {1} /\ <<record>>[1].kind = "configuration"
    BY DEF ConfigurationRecord
  <2> QED
    BY <1>1, <1>5, <2>1 DEF IInv, Undisturbed, Determined, Unwritten, Driving, Reading
<1> QED
  BY <1>6, <1>8, <1>9, <1>10 DEF IInv

LEMMA NextUnitIInv == ASSUME IInv, NextUnit PROVE IInv'
<1> USE DEF NextUnit, Goto, opticVars
<1> DEFINE S == {ModuleRecord(unit', x) : x \in Extension(build)}
<1>1. /\ manifest \in Seq(RecordValues) /\ snapshots \in Seq(Files)
      /\ unit \in Nat /\ item \in Nat /\ unit' \in Nat /\ item' \in Nat /\ unit <= unit'
      /\ unit' = unit + 1 /\ item' = 0 /\ unit' \in Units /\ snapshots' = snapshots
      /\ step' = "units" /\ build \in BuildOptions /\ support = Decision(build)
      /\ Stream(manifest, snapshots, unit, item) /\ Open(manifest, snapshots, unit, item)
  BY Constants DEF IInv, TypeOK, Driven, Streamed, Opened, Driving
<1>2. \A p \in placements : Reached(p, unit, item) <=> Reached(p, unit', item')
  <2>1. ASSUME NEW p \in placements
        PROVE  Reached(p, unit, item) <=> Reached(p, unit', item')
    <3>1. /\ p[1] \in Nat /\ p[2] \in Nat /\ p[2] >= 1 /\ p[2] \in Instances
          /\ p = <<p[1], p[2]>>
      BY Constants DEF IInv, TypeOK
    <3>2. p[1] = unit => p[2] <= item
      BY <1>1, <3>1 DEF Pending
    <3> QED
      BY <1>1, <3>1, <3>2 DEF Reached
  <2> QED
    BY <2>1
<1>3. /\ manifest' \in Seq(RecordValues)
      /\ Stream(manifest', snapshots', unit', item')
      /\ Open(manifest', snapshots', unit', item')
      /\ Determined(manifest) => Determined(manifest')
  <2>1. CASE Extension(build) = {}
    <3>1. S = {}
      BY <2>1
    <3>2. SetToSeq(S) = <<>>
      BY <3>1, SetToSeqSmall
    <3>3. manifest' = manifest
      <4>1. manifest' = manifest \o SetToSeq(S)
        OBVIOUS
      <4> QED
        BY <1>1, <3>2, <4>1, ConcatEmptySeq
    <3>4. /\ Stream(manifest, snapshots, unit', item')
          /\ Open(manifest, snapshots, unit', item')
      BY <1>1, <1>2, <2>1, StreamMoved
    <3> QED
      BY <1>1, <3>3, <3>4
  <2>2. CASE Extension(build) # {}
    <3>1. PICK x \in Extension(build) : TRUE
      BY <2>2
    <3>2. Extension(build) = {x} /\ x \in Extensions
      BY <1>1, <3>1, ExtensionFacts
    <3> DEFINE r == ModuleRecord(unit', x)
    <3>3. S = {r}
      BY <3>2
    <3>4. SetToSeq(S) = <<r>>
      BY <3>3, SetToSeqSmall
    <3>5. r \in RecordValues
      BY <1>1, <3>2, RecordTypes
    <3>6. manifest' = Append(manifest, r)
      <4>1. manifest' = manifest \o SetToSeq(S)
        OBVIOUS
      <4>2. manifest' = manifest \o <<r>> /\ manifest \in Seq(RecordValues)
        BY <1>1, <3>4, <4>1
      <4> HIDE DEF r, NextUnit, Goto, opticVars
      <4> QED
        BY <3>5, <4>2
    <3>7. r.kind = "module" /\ r.unit = unit' /\ r # EndRecord
      BY DEF ModuleRecord, EndRecord
    <3>8. Fresh(manifest, r)
      <4>1. ASSUME NEW k \in Positions(manifest, "module") PROVE manifest[k].unit # r.unit
        <5>1. manifest[k].kind = "module" /\ Fits(manifest, snapshots, unit, item, k)
          BY <1>1 DEF Positions, Stream
        <5>2. \E v \in 1 .. unit, y \in Extension(build) : manifest[k] = ModuleRecord(v, y)
          BY <5>1, ShapeOfKind
        <5> QED
          BY <1>1, <3>7, <5>2 DEF ModuleRecord
      <4> QED
        BY <3>7, <4>1 DEF Fresh
    <3> HIDE DEF r
    <3>9. Fits(Append(manifest, r), snapshots', unit', item', Len(manifest) + 1)
      <4>1. Append(manifest, r)[Len(manifest) + 1] = r
        BY <1>1
      <4> QED
        BY <1>1, <3>2, <4>1 DEF Fits, r
    <3>10. \A h \in DOMAIN snapshots : h \in DOMAIN snapshots' /\ snapshots'[h] = snapshots[h]
      BY <1>1
    <3>11. snapshots' \in Seq(Files)
      BY <1>1
    <3>12. Stream(manifest', snapshots', unit', item') /\ manifest' \in Seq(RecordValues)
      <4>1. /\ manifest \in Seq(RecordValues) /\ snapshots \in Seq(Files)
            /\ unit \in Nat /\ item \in Nat /\ unit' \in Nat /\ item' \in Nat /\ unit <= unit'
            /\ Stream(manifest, snapshots, unit, item)
        BY <1>1
      <4>2. \A p \in placements : Reached(p, unit, item) => Reached(p, unit', item')
        BY <1>2
      <4>3. r # EndRecord
        BY <3>7
      <4> HIDE DEF NextUnit, Goto, opticVars, S
      <4>4. /\ Append(manifest, r) \in Seq(RecordValues)
            /\ Stream(Append(manifest, r), snapshots', unit', item')
        BY <3>5, <3>8, <3>9, <3>10, <3>11, <4>1, <4>2, <4>3, StreamAppended
      <4> QED
        BY <3>6, <4>4
    <3>13. \A w \in 1 .. unit', y \in Extension(build) :
             w \in 1 .. unit \/ r = ModuleRecord(w, y)
      BY <1>1, <3>2 DEF r
    <3>14. \A h \in DOMAIN snapshots' : h \in DOMAIN snapshots /\ snapshots'[h] = snapshots[h]
      BY <1>1
    <3>15. Open(Append(manifest, r), snapshots', unit', item')
      BY <1>1, <1>2, <3>5, <3>7, <3>11, <3>13, <3>14, OpenAppended
    <3> QED
      BY <1>1, <3>5, <3>6, <3>7, <3>12, <3>15, DeterminedAppended
  <2> QED
    BY <2>1, <2>2
<1>4. UNCHANGED <<build, placements, definitions, support>>
  BY DEF inputVars
<1>5. TypeOK'
  <2>1. unit' \in 0 .. UnitCount /\ item' \in 0 .. InstanceCount
    BY <1>1, Constants
  <2> QED
    BY <1>3, <2>1 DEF IInv, TypeOK, inputVars
<1>6. Driven'
  <2>1. Streamed' /\ Opened'
    BY <1>3, <1>4, StreamFrame
  <2> QED
    BY <1>1, <2>1, InputFrame DEF IInv, Driven, Unwritten, Driving, Reading
<1>7. Collected'
  BY <1>1 DEF Collected, Collecting
<1>8. faults' = 0 => Undisturbed'
  <2>1. faults = 0 => Determined(manifest)'
    BY <1>3, <1>4, StreamFrame DEF IInv, Undisturbed
  <2> QED
    BY <1>1, <2>1 DEF IInv, Undisturbed, Unwritten, Driving, Reading, Snapshot
<1> QED
  BY <1>5, <1>6, <1>7, <1>8 DEF IInv

\* A placement record is new, and its source was declared before it.
LEMMA PlacementAppended ==
  ASSUME TypeOK, NEW m \in Seq(RecordValues), NEW s \in Seq(Files),
         NEW u \in Units, NEW c \in Nat, NEW i \in Instances,
         Stream(m, s, u, c), Open(m, s, u, c),
         c < i, <<u, i>> \in placements,
         \A h \in Instances : h > c /\ <<u, h>> \in placements => i <= h,
         NEW source \in {NoSource} \cup [artifact : Nat, end : Nat],
         \/ source = NoSource
         \/ \E n \in DOMAIN s :
              /\ definitions[i] # Nowhere /\ definitions[i].file = s[n]
              /\ definitions[i].end <= TextLength
              /\ source = [artifact |-> n - 1, end |-> definitions[i].end]
  PROVE  LET n == Append(m, PlacementRecord(i, u, source)) IN
         n \in Seq(RecordValues) /\ Stream(n, s, u, i) /\ Open(n, s, u, i)
<1> DEFINE r == PlacementRecord(i, u, source)
<1>1. r \in RecordValues
  BY RecordTypes
<1>2. /\ r.kind = "placement" /\ r.instance = i /\ r.unit = u /\ r.source = source
      /\ r # EndRecord
  BY DEF PlacementRecord, EndRecord
<1>3. u \in Nat /\ i \in Nat
  BY Constants
<1>4. \A p \in placements : p[1] \in Nat /\ p[2] \in Nat /\ p[2] \in Instances /\ p = <<p[1], p[2]>>
  BY Constants DEF TypeOK
<1>5. \A p \in placements : Reached(p, u, c) => Reached(p, u, i)
  BY <1>3, <1>4 DEF Reached
<1>6. Fresh(m, r)
  <2>1. ASSUME NEW k \in Positions(m, "placement")
        PROVE  <<m[k].instance, m[k].unit>> # <<r.instance, r.unit>>
    <3>1. PlacementFits(m, s, u, c, k)
      BY ShapeOfKind DEF Positions, Stream
    <3>2. PICK p \in placements : m[k] = PlacementRecord(p[2], p[1], m[k].source) /\ Reached(p, u, c)
      BY <3>1 DEF PlacementFits
    <3>3. m[k].instance = p[2] /\ m[k].unit = p[1]
      BY <3>2 DEF PlacementRecord
    <3> QED
      BY <1>2, <1>3, <1>4, <3>2, <3>3 DEF Reached
  <2> QED
    BY <1>2, <2>1 DEF Fresh
<1>7. /\ Append(m, r)[Len(m) + 1] = r /\ Len(m) \in Nat /\ DOMAIN m = 1 .. Len(m)
      /\ \A k \in DOMAIN m : Append(m, r)[k] = m[k]
  BY <1>1
<1>8. Fits(Append(m, r), s, u, i, Len(m) + 1)
  <2> DEFINE n == Append(m, r)
             k == Len(m) + 1
  <2>1. n[k] = r /\ \A j \in DOMAIN m : n[j] = m[j] /\ j \in 1 .. k - 1
    BY <1>7
  <2> HIDE DEF n, k
  <2>2. SourceFits(n, s, k)
    <3>1. CASE source = NoSource
      BY <1>2, <2>1, <3>1 DEF SourceFits
    <3>2. CASE \E h \in DOMAIN s :
                 /\ definitions[i] # Nowhere /\ definitions[i].file = s[h]
                 /\ definitions[i].end <= TextLength
                 /\ source = [artifact |-> h - 1, end |-> definitions[i].end]
      <4>1. PICK h \in DOMAIN s :
                 /\ definitions[i] # Nowhere /\ definitions[i].file = s[h]
                 /\ definitions[i].end <= TextLength
                 /\ source = [artifact |-> h - 1, end |-> definitions[i].end]
        BY <3>2
      <4>2. PICK j \in DOMAIN m : m[j] = SourceFileRecord(h - 1, TextLength)
        BY DEF Open
      <4>3. \E g \in 1 .. k - 1 : n[g] = SourceFileRecord(h - 1, TextLength)
        BY <2>1, <4>2
      <4> QED
        <5>1. n[k].instance = i /\ n[k].source = source
          BY <1>2, <2>1
        <5>2. /\ definitions[n[k].instance] # Nowhere
              /\ definitions[n[k].instance].file = s[h]
              /\ definitions[n[k].instance].end <= TextLength
              /\ n[k].source = [artifact |-> h - 1, end |-> definitions[n[k].instance].end]
          BY <4>1, <5>1
        <5> QED
          BY <4>3, <5>2 DEF SourceFits
    <3> QED
      BY <3>1, <3>2
  <2>3. PlacementFits(n, s, u, i, k)
    <3>1. Reached(<<u, i>>, u, i)
      BY <1>3 DEF Reached
    <3> QED
      BY <1>2, <2>1, <2>2, <3>1 DEF PlacementFits, r
  <2> QED
    BY <2>3 DEF Fits, n, k
<1> HIDE DEF r
<1>9. \A h \in DOMAIN s : h \in DOMAIN s /\ s[h] = s[h]
  OBVIOUS
<1>10. Append(m, r) \in Seq(RecordValues) /\ Stream(Append(m, r), s, u, i)
  BY <1>1, <1>2, <1>3, <1>5, <1>6, <1>8, <1>9, StreamAppended
<1>11. \A p \in placements : Reached(p, u, i) => Reached(p, u, c) \/ Places(r, p)
  <2>1. ASSUME NEW p \in placements, Reached(p, u, i), ~Reached(p, u, c)
        PROVE  Places(r, p)
    <3>1. p[1] = u /\ p[2] <= i /\ p[2] > c
      BY <1>3, <1>4, <2>1 DEF Reached
    <3>2. p[2] = i
      BY <1>3, <1>4, <3>1
    <3> QED
      BY <1>2, <3>1, <3>2 DEF Places
  <2> QED
    BY <2>1
<1>12. Open(Append(m, r), s, u, i)
  <2>1. \A w \in 1 .. u, x \in Extension(build) : w \in 1 .. u
    OBVIOUS
  <2> QED
    BY <1>1, <1>2, <1>3, <1>9, <1>11, <2>1, OpenAppended
<1> QED
  BY <1>10, <1>12 DEF r

\* A file that is declared becomes the last snapshot.
LEMMA SourceAppended ==
  ASSUME NEW m \in Seq(RecordValues), NEW s \in Seq(Files), NEW f \in Files,
         NEW u \in Nat, NEW i \in Nat, Stream(m, s, u, i), Open(m, s, u, i)
  PROVE  LET n == Append(m, SourceFileRecord(Len(s), TextLength))
             t == Append(s, f)
         IN  n \in Seq(RecordValues) /\ Stream(n, t, u, i) /\ Open(n, t, u, i)
<1> DEFINE r == SourceFileRecord(Len(s), TextLength)
           t == Append(s, f)
<1>1. /\ Len(s) \in Nat /\ DOMAIN s = 1 .. Len(s)
      /\ t \in Seq(Files) /\ DOMAIN t = 1 .. Len(s) + 1
      /\ \A h \in DOMAIN s : h \in DOMAIN t /\ t[h] = s[h]
  OBVIOUS
<1>2. r \in RecordValues
  BY <1>1, Constants, RecordTypes
<1>3. r.kind = "source" /\ r.id = Len(s) /\ r # EndRecord
  BY DEF SourceFileRecord, EndRecord
<1>4. Fresh(m, r)
  <2>1. ASSUME NEW k \in Positions(m, "source") PROVE m[k].id # r.id
    <3>1. PICK n \in DOMAIN s : m[k] = SourceFileRecord(n - 1, TextLength)
      BY ShapeOfKind DEF Positions, Stream
    <3>2. m[k].id = n - 1
      BY <3>1 DEF SourceFileRecord
    <3> QED
      BY <1>1, <1>3, <3>2
  <2> QED
    BY <1>3, <2>1 DEF Fresh
<1>5. Fits(Append(m, r), t, u, i, Len(m) + 1)
  <2>1. Append(m, r)[Len(m) + 1] = r
    BY <1>2
  <2>2. Len(s) + 1 \in DOMAIN t /\ r = SourceFileRecord(Len(s) + 1 - 1, TextLength)
    BY <1>1
  <2> HIDE DEF r, t
  <2> QED
    BY <2>1, <2>2 DEF Fits
<1>6. \A h \in DOMAIN t :
        (h \in DOMAIN s /\ t[h] = s[h]) \/ r = SourceFileRecord(h - 1, TextLength)
  <2>1. Len(s) = Len(s) + 1 - 1
    BY <1>1
  <2> QED
    BY <1>1, <2>1
<1> HIDE DEF r, t
<1>7. u <= u /\ \A p \in placements : Reached(p, u, i) => Reached(p, u, i)
  OBVIOUS
<1>8. Append(m, r) \in Seq(RecordValues) /\ Stream(Append(m, r), t, u, i)
  BY <1>1, <1>2, <1>3, <1>4, <1>5, <1>7, StreamAppended
<1>9. \A w \in 1 .. u, x \in Extension(build) : w \in 1 .. u
  OBVIOUS
<1>10. Open(Append(m, r), t, u, i)
  BY <1>1, <1>2, <1>3, <1>6, <1>7, <1>9, OpenAppended
<1> QED
  BY <1>8, <1>10 DEF r, t

LEMMA WritePlacementIInv == ASSUME IInv, WritePlacement PROVE IInv'
<1> DEFINE i == item'
           d == definitions[i]
           id == Len(snapshots)
           source == IF Capturable(d)
                       THEN [artifact |-> SnapshotId(snapshots', d.file), end |-> d.end]
                       ELSE NoSource
           file == [text |-> d.file, length |-> TextLength]
           r == PlacementRecord(i, unit, source)
           declared == IF Undeclared(d)
                         THEN Append(manifest, SourceFileRecord(id, TextLength))
                         ELSE manifest
<1>1. /\ manifest \in Seq(RecordValues) /\ snapshots \in Seq(Files)
      /\ unit \in Nat /\ item \in Nat /\ IsInjective(snapshots)
      /\ build \in BuildOptions /\ support = Decision(build)
      /\ Stream(manifest, snapshots, unit, item) /\ Open(manifest, snapshots, unit, item)
      /\ \A p \in DOMAIN directory :
           /\ p \in Nat /\ p + 1 \in DOMAIN snapshots
           /\ \E n \in {0, TextLength} :
                directory[p] = [text |-> snapshots[p + 1], length |-> n]
      /\ artifacts = <<>> /\ modules = <<>>
  BY Constants DEF WritePlacement, IInv, TypeOK, Driven, Streamed, Opened, Driving
<1>2. /\ i \in Instances /\ i > item /\ <<unit, i>> \in placements /\ i \in Nat
      /\ \A h \in Instances : h > item /\ <<unit, h>> \in placements => i <= h
  <2>1. Pending # {} /\ i = Min(Pending)
    BY DEF WritePlacement
  <2>2. Pending \in SUBSET Nat
    BY Constants DEF Pending
  <2>3. i \in Pending /\ \A h \in Pending : i <= h
    BY <2>1, <2>2, MinOfSet
  <2> QED
    BY <2>2, <2>3 DEF Pending
<1>3. unit \in Units /\ d \in Definitions
  BY <1>2 DEF IInv, TypeOK
<1>4. /\ step' = "units" /\ unit' = unit /\ support' = support /\ reachable' = reachable
      /\ UNCHANGED inputVars /\ faults' = faults /\ bitcode' = bitcode
      /\ artifacts' = artifacts /\ modules' = modules /\ nextId' = nextId
      /\ step = "units"
  BY DEF WritePlacement, Goto, opticVars
<1>5. /\ manifest' = Append(declared, r)
      /\ Undeclared(d) => /\ snapshots' = Append(snapshots, d.file)
                          /\ directory' = With(directory, id, file)
      /\ ~Undeclared(d) => snapshots' = snapshots /\ directory' = directory
  BY DEF WritePlacement
<1>6. Capturable(d) => d # Nowhere /\ d.file \in Files /\ d.end \in Nat /\ d.end <= TextLength
  BY <1>3, Constants DEF Capturable, Definitions
<1>18. ASSUME Undeclared(d)
       PROVE  /\ d.file \in Files
              /\ snapshots' = Append(snapshots, d.file) /\ snapshots' \in Seq(Files)
              /\ Len(snapshots) \in Nat /\ DOMAIN snapshots = 1 .. Len(snapshots)
              /\ DOMAIN snapshots' = 1 .. Len(snapshots) + 1
              /\ Len(snapshots) + 1 \in DOMAIN snapshots'
              /\ snapshots'[Len(snapshots) + 1] = d.file
              /\ \A h \in DOMAIN snapshots : h \in DOMAIN snapshots' /\ snapshots'[h] = snapshots[h]
              /\ \A h \in DOMAIN snapshots' : h \in DOMAIN snapshots \/ h = Len(snapshots) + 1
              /\ DOMAIN directory' = DOMAIN directory \cup {id}
              /\ directory'[id] = file
              /\ \A p \in DOMAIN directory : p # id => directory'[p] = directory[p]
  <2>1. d.file \in Files /\ snapshots' = Append(snapshots, d.file)
    BY <1>5, <1>6, <1>18 DEF Undeclared
  <2>2. /\ DOMAIN directory' = DOMAIN directory \cup {id}
        /\ directory'[id] = file
        /\ \A p \in DOMAIN directory : p # id => directory'[p] = directory[p]
    BY <1>5, <1>18 DEF With
  <2> DEFINE f == d.file
  <2>3. f \in Files /\ snapshots' = Append(snapshots, f)
    BY <2>1
  <2> HIDE DEF f, d, file, id
  <2>4. /\ snapshots' \in Seq(Files)
        /\ Len(snapshots) \in Nat /\ DOMAIN snapshots = 1 .. Len(snapshots)
        /\ DOMAIN snapshots' = 1 .. Len(snapshots) + 1
        /\ Len(snapshots) + 1 \in DOMAIN snapshots'
        /\ snapshots'[Len(snapshots) + 1] = f
        /\ \A h \in DOMAIN snapshots : h \in DOMAIN snapshots' /\ snapshots'[h] = snapshots[h]
        /\ \A h \in DOMAIN snapshots' : h \in DOMAIN snapshots \/ h = Len(snapshots) + 1
    BY <1>1, <2>3, Appending
  <2> QED
    BY <2>1, <2>2, <2>4 DEF f
<1>7. /\ declared \in Seq(RecordValues) /\ snapshots' \in Seq(Files)
      /\ Stream(declared, snapshots', unit, item) /\ Open(declared, snapshots', unit, item)
  <2>1. CASE Undeclared(d)
    <3>1. d.file \in Files
      BY <1>18, <2>1
    <3>2. snapshots' = Append(snapshots, d.file) /\ snapshots' \in Seq(Files)
      BY <1>18, <2>1
    <3>3. declared = Append(manifest, SourceFileRecord(Len(snapshots), TextLength))
      BY <2>1
    <3> HIDE DEF declared, d
    <3> QED
      BY <1>1, <3>1, <3>2, <3>3, SourceAppended
  <2>2. CASE ~Undeclared(d)
    BY <1>1, <1>5, <2>2
  <2> QED
    BY <2>1, <2>2
<1>8. IsInjective(snapshots')
  <2>1. CASE Undeclared(d)
    <3>1. \A h \in DOMAIN snapshots : snapshots[h] # d.file
      BY <2>1 DEF Undeclared, ToSet
    <3>2. /\ Len(snapshots) + 1 \notin DOMAIN snapshots
          /\ snapshots'[Len(snapshots) + 1] = d.file
          /\ \A h \in DOMAIN snapshots : snapshots'[h] = snapshots[h]
          /\ \A h \in DOMAIN snapshots' : h \in DOMAIN snapshots \/ h = Len(snapshots) + 1
      BY <1>18, <2>1
    <3> HIDE DEF d
    <3> QED
      BY <1>1, <3>1, <3>2 DEF IsInjective
  <2>2. CASE ~Undeclared(d)
    BY <1>1, <1>5, <2>2
  <2> QED
    BY <2>1, <2>2
<1>9. Capturable(d) =>
        \E n \in DOMAIN snapshots' :
          d.file = snapshots'[n] /\ source = [artifact |-> n - 1, end |-> d.end]
  <2>1. SUFFICES ASSUME Capturable(d)
                 PROVE  \E n \in DOMAIN snapshots' :
                          d.file = snapshots'[n] /\ source = [artifact |-> n - 1, end |-> d.end]
    OBVIOUS
  <2>2. \E n \in DOMAIN snapshots' : snapshots'[n] = d.file
    <3>1. CASE Undeclared(d)
      BY <1>18, <3>1
    <3>2. CASE ~Undeclared(d)
      BY <1>5, <2>1, <3>2 DEF Undeclared, ToSet
    <3> QED
      BY <3>1, <3>2
  <2> DEFINE n == CHOOSE k \in DOMAIN snapshots' : snapshots'[k] = d.file
  <2>3. n \in DOMAIN snapshots' /\ snapshots'[n] = d.file
    BY <2>2
  <2>4. source = [artifact |-> n - 1, end |-> d.end]
    BY <2>1 DEF SnapshotId
  <2> HIDE DEF n, source, d
  <2> QED
    BY <2>3, <2>4
<1>10. /\ source \in {NoSource} \cup [artifact : Nat, end : Nat]
       /\ source = NoSource \/
          \E n \in DOMAIN snapshots' :
            /\ d # Nowhere /\ d.file = snapshots'[n] /\ d.end <= TextLength
            /\ source = [artifact |-> n - 1, end |-> d.end]
  <2>1. CASE Capturable(d)
    <3>1. PICK n \in DOMAIN snapshots' :
            d.file = snapshots'[n] /\ source = [artifact |-> n - 1, end |-> d.end]
      BY <1>9, <2>1
    <3>2. n \in Nat /\ n - 1 \in Nat
      BY <1>7
    <3> HIDE DEF source, d
    <3> QED
      BY <1>6, <2>1, <3>1, <3>2
  <2>2. CASE ~Capturable(d)
    BY <2>2
  <2> QED
    BY <2>1, <2>2
<1>11. /\ manifest' \in Seq(RecordValues)
       /\ Stream(manifest', snapshots', unit', item') /\ Open(manifest', snapshots', unit', item')
  <2>1. TypeOK /\ i \in Instances /\ item < i
    BY <1>1, <1>2 DEF IInv
  <2> HIDE DEF source, declared
  <2> QED
    BY <1>1, <1>2, <1>3, <1>4, <1>5, <1>7, <1>10, <2>1, PlacementAppended
<1>12. UNCHANGED <<build, placements, definitions, support>>
  BY <1>4 DEF inputVars
<1>13. \A p \in DOMAIN directory' :
         /\ p \in Nat /\ p + 1 \in DOMAIN snapshots'
         /\ \E n \in {0, TextLength} :
              directory'[p] = [text |-> snapshots'[p + 1], length |-> n]
  <2>1. CASE Undeclared(d)
    <3>2. /\ Len(snapshots) \in Nat /\ DOMAIN snapshots = 1 .. Len(snapshots)
          /\ Len(snapshots) + 1 \in DOMAIN snapshots'
          /\ snapshots'[Len(snapshots) + 1] = d.file
          /\ \A h \in DOMAIN snapshots : h \in DOMAIN snapshots' /\ snapshots'[h] = snapshots[h]
      BY <1>18, <2>1
    <3>3. /\ DOMAIN directory' = DOMAIN directory \cup {id}
          /\ directory'[id] = file
          /\ \A p \in DOMAIN directory : p # id => directory'[p] = directory[p]
      BY <1>18, <2>1
    <3> HIDE DEF d
    <3>4. \A p \in DOMAIN directory : p # id /\ snapshots'[p + 1] = snapshots[p + 1]
      BY <1>1, <3>2
    <3>5. ASSUME NEW p \in DOMAIN directory
          PROVE  /\ p \in Nat /\ p + 1 \in DOMAIN snapshots'
                 /\ \E n \in {0, TextLength} :
                      directory'[p] = [text |-> snapshots'[p + 1], length |-> n]
      <4>1. p \in Nat /\ p + 1 \in DOMAIN snapshots /\ directory'[p] = directory[p]
        BY <1>1, <3>3, <3>4
      <4> QED
        BY <1>1, <3>2, <3>4, <4>1
    <3>6. /\ id \in Nat /\ id + 1 \in DOMAIN snapshots'
          /\ directory'[id] = [text |-> snapshots'[id + 1], length |-> TextLength]
      BY <3>2, <3>3
    <3> HIDE DEF id
    <3> QED
      BY <3>3, <3>5, <3>6
  <2>2. CASE ~Undeclared(d)
    BY <1>1, <1>5, <2>2
  <2> QED
    BY <2>1, <2>2
<1>14. TypeOK'
  <2>1. item' \in 0 .. InstanceCount
    BY <1>2, Constants
  <2>2. \A p \in DOMAIN directory' : directory'[p] \in [text : Texts, length : Nat]
    <3>1. \A n \in DOMAIN snapshots' : snapshots'[n] \in Texts
      BY <1>7 DEF Texts
    <3> QED
      BY <1>13, <3>1, Constants
  <2>3. DOMAIN directory' \subseteq Nat
    BY <1>13
  <2> QED
    BY <1>4, <1>7, <1>11, <2>1, <2>2, <2>3 DEF IInv, TypeOK, inputVars, Texts, Definitions
<1>15. Driven'
  <2>1. Streamed' /\ Opened'
    BY <1>11, <1>12, StreamFrame
  <2>2. artifacts' = <<>> /\ modules' = <<>>
    BY <1>1, <1>4
  <2> QED
    BY <1>1, <1>4, <1>8, <1>13, <2>1, <2>2, InputFrame DEF Driven, Unwritten, Driving, Reading
<1>16. Collected'
  BY <1>4 DEF Collected, Collecting
<1>17. faults' = 0 => Undisturbed'
  <2>1. SUFFICES ASSUME faults = 0 PROVE Undisturbed'
    BY <1>4
  <2>2. /\ reachable = Files /\ Determined(manifest)
        /\ \A n \in DOMAIN snapshots :
             n - 1 \in DOMAIN directory /\ directory[n - 1] = Snapshot(n)
    BY <1>4, <2>1 DEF IInv, Undisturbed, Driving
  <2>3. Determined(manifest')
    <3>1. Determined(declared)
      <4>1. CASE Undeclared(d)
        <5>1. SourceFileRecord(id, TextLength) \in RecordValues
          BY <1>1, Constants, RecordTypes
        <5>2. SourceFileRecord(id, TextLength).kind # "placement"
          BY DEF SourceFileRecord
        <5> QED
          BY <1>1, <2>2, <4>1, <5>1, <5>2, DeterminedAppended
      <4>2. CASE ~Undeclared(d)
        BY <2>2, <4>2
      <4> QED
        BY <4>1, <4>2
    <3>2. r \in RecordValues
      BY <1>2, <1>3, <1>10, RecordTypes
    <3>3. r.source = source /\ r.instance = i
      BY DEF PlacementRecord
    <3>4. source = NoSource => Uncapturable(d)
      <4>1. CASE Capturable(d)
        BY <4>1 DEF NoSource
      <4>2. CASE ~Capturable(d)
        <5>1. d = Nowhere \/ (d.file \in Files /\ d.end \in Nat)
          BY <1>3, Constants DEF Definitions
        <5> HIDE DEF d
        <5> QED
          BY <2>2, <4>2, <5>1, Constants DEF Capturable, Uncapturable
      <4> QED
        BY <4>1, <4>2
    <3> HIDE DEF declared, r
    <3> QED
      BY <1>5, <1>7, <3>1, <3>2, <3>3, <3>4, DeterminedAppended
  <2>4. \A n \in DOMAIN snapshots' :
          /\ n - 1 \in DOMAIN directory'
          /\ directory'[n - 1] = [text |-> snapshots'[n], length |-> TextLength]
    <3>1. CASE Undeclared(d)
      <4>1. /\ Len(snapshots) \in Nat /\ DOMAIN snapshots = 1 .. Len(snapshots)
            /\ snapshots'[Len(snapshots) + 1] = d.file
            /\ \A h \in DOMAIN snapshots : snapshots'[h] = snapshots[h]
            /\ \A h \in DOMAIN snapshots' : h \in DOMAIN snapshots \/ h = Len(snapshots) + 1
        BY <1>18, <3>1
      <4>2. /\ DOMAIN directory' = DOMAIN directory \cup {id}
            /\ directory'[id] = file
            /\ \A p \in DOMAIN directory : p # id => directory'[p] = directory[p]
        BY <1>18, <3>1
      <4> HIDE DEF d
      <4>3. \A n \in DOMAIN snapshots : n - 1 # id
        BY <4>1
      <4>4. Len(snapshots) + 1 - 1 = id
        BY <4>1
      <4> QED
        BY <2>2, <4>1, <4>2, <4>3, <4>4 DEF Snapshot
    <3>2. CASE ~Undeclared(d)
      BY <1>5, <2>2, <3>2 DEF Snapshot
    <3> QED
      BY <3>1, <3>2
  <2>5. Determined(manifest)'
    BY <1>12, <2>3, StreamFrame
  <2> QED
    BY <1>4, <2>2, <2>4, <2>5 DEF Undisturbed, Unwritten, Driving, Reading, Snapshot
<1> QED
  BY <1>14, <1>15, <1>16, <1>17 DEF IInv

\* A step that writes nothing disturbs nothing that is written.
LEMMA WrittenFrame ==
  ASSUME UNCHANGED <<inputVars, support, manifest, snapshots, unit, item>>
  PROVE  /\ UNCHANGED <<build, placements, definitions, support, manifest, snapshots, unit, item>>
         /\ Streamed => Streamed'
         /\ Opened => Opened'
         /\ Determined(manifest) => Determined(manifest)'
         /\ Pending' = Pending
         /\ Decision(build)' = Decision(build)
         /\ Retained(build)' = Retained(build)
<1>1. UNCHANGED <<build, placements, definitions, support, manifest, snapshots, unit, item>>
  BY DEF inputVars
<1>2. Determined(manifest) => Determined(manifest)'
  BY <1>1, StreamFrame
<1>3. Pending' = Pending
  BY <1>1 DEF Pending, Instances
<1> QED
  BY <1>1, <1>2, <1>3, StreamUnwritten, InputFrame

LEMMA EndAnalysisIInv == ASSUME IInv, EndAnalysis PROVE IInv'
<1> USE DEF EndAnalysis, Goto, driverVars, opticVars
<1>1. TypeOK'
  BY DEF IInv, TypeOK, inputVars
<1>2. UNCHANGED <<inputVars, support, manifest, snapshots, unit, item>>
  OBVIOUS
<1>3. Driven'
  BY <1>2, WrittenFrame DEF IInv, Driven, Unwritten, Driving, Reading
<1>4. Collected'
  BY DEF Collected, Collecting
<1>5. faults' = 0 => Undisturbed'
  BY <1>2, WrittenFrame DEF IInv, Undisturbed, Unwritten, Driving, Reading, Snapshot
<1> QED
  BY <1>1, <1>3, <1>4, <1>5 DEF IInv

LEMMA GenerateIInv == ASSUME IInv, Generate PROVE IInv'
<1> USE DEF Generate, Goto, opticVars
<1>1. TypeOK'
  <2>1. bitcode' \subseteq Units \X Extensions
    BY Constants, RetainedType DEF IInv, TypeOK
  <2> QED
    BY <2>1 DEF IInv, TypeOK, inputVars
<1>2. UNCHANGED <<inputVars, support, manifest, snapshots, unit, item>>
  OBVIOUS
<1>3. Driven'
  BY <1>2, WrittenFrame DEF IInv, Driven, Unwritten, Driving, Reading
<1>4. Collected'
  BY DEF Collected, Collecting
<1>5. faults' = 0 => Undisturbed'
  <2>1. support' = "supported" => Retained(build)' \subseteq bitcode'
    BY <1>2, WrittenFrame
  <2> QED
    BY <1>2, <2>1, WrittenFrame DEF IInv, Undisturbed, Unwritten, Driving, Reading, Snapshot
<1> QED
  BY <1>1, <1>3, <1>4, <1>5 DEF IInv

\* When the analysis has ended, the driver has got past everything.
LEMMA AllReached ==
  ASSUME IInv, unit = UnitCount, Pending = {}, NEW p \in placements
  PROVE  Reached(p, unit, item)
<1>1. /\ p[1] \in 1 .. UnitCount /\ p[2] \in Instances /\ p = <<p[1], p[2]>>
      /\ UnitCount \in Nat /\ InstanceCount \in Nat /\ p[2] \in Nat /\ item \in Nat
  <2>1. p \in Units \X Instances /\ item \in 0 .. InstanceCount
    BY DEF IInv, TypeOK
  <2> QED
    BY <2>1, Constants
<1>2. p[1] = unit => p[2] <= item
  BY <1>1 DEF Pending
<1> QED
  BY <1>1, <1>2 DEF Reached

LEMMA FinishManifestIInv == ASSUME IInv, FinishManifest PROVE IInv'
<1> USE DEF FinishManifest, Goto, opticVars
<1>1. /\ manifest \in Seq(RecordValues) /\ snapshots \in Seq(Files)
      /\ unit \in Nat /\ item \in Nat /\ unit = UnitCount /\ Pending = {}
      /\ Stream(manifest, snapshots, unit, item) /\ Open(manifest, snapshots, unit, item)
      /\ UnitCount \in Nat
  BY Constants DEF IInv, TypeOK, Driven, Streamed, Opened, Driving
<1>2. manifest' = Append(manifest, EndRecord) /\ EndRecord \in RecordValues
  BY RecordTypes
<1>3. /\ Len(manifest) \in Nat /\ DOMAIN manifest = 1 .. Len(manifest)
      /\ DOMAIN manifest' = 1 .. Len(manifest) + 1
      /\ manifest'[Len(manifest) + 1] = EndRecord
      /\ \A k \in DOMAIN manifest : k \in DOMAIN manifest' /\ manifest'[k] = manifest[k]
      /\ Len(manifest') = Len(manifest) + 1
  BY <1>1, <1>2
<1>4. Fresh(manifest, EndRecord)
  BY DEF Fresh, EndRecord
<1>5. manifest' \in Seq(RecordValues) /\ Stream(manifest', snapshots', unit', item')
  <2>1. Fits(manifest', snapshots, unit, item, Len(manifest) + 1)
    BY <1>3 DEF Fits
  <2>2. /\ \A k \in DOMAIN manifest : manifest[k] # EndRecord
        /\ \A p \in placements : \E h \in DOMAIN manifest : Places(manifest[h], p)
        /\ \A w \in Units, x \in Extension(build) :
             \E h \in DOMAIN manifest : manifest[h] = ModuleRecord(w, x)
    BY <1>1, AllReached DEF Open, Units
  <2>3. \A h \in DOMAIN snapshots : h \in DOMAIN snapshots /\ snapshots[h] = snapshots[h]
    OBVIOUS
  <2>4. unit <= unit /\ \A p \in placements : Reached(p, unit, item) => Reached(p, unit, item)
    BY <1>1
  <2>5. snapshots' = snapshots /\ unit' = unit /\ item' = item
    OBVIOUS
  <2>6. /\ Append(manifest, EndRecord) \in Seq(RecordValues)
        /\ Stream(Append(manifest, EndRecord), snapshots, unit, item)
    <3>1. Fits(Append(manifest, EndRecord), snapshots, unit, item, Len(manifest) + 1)
      BY <1>2, <2>1
    <3> QED
      BY ONLY <1>1, <1>2, <1>4, <2>2, <2>3, <2>4, <3>1, StreamAppended
  <2> QED
    BY <1>2, <2>5, <2>6
<1>6. UNCHANGED <<build, placements, definitions, support>>
  BY DEF inputVars
<1>7. TypeOK'
  BY <1>5 DEF IInv, TypeOK, inputVars
<1>8. Driven'
  <2>1. Streamed'
    BY <1>5, <1>6, StreamFrame
  <2> QED
    BY <2>1, InputFrame DEF IInv, Driven, Unwritten, Driving, Reading
<1>9. Collected'
  BY DEF Collected, Collecting
<1>10. faults' = 0 => Undisturbed'
  <2>1. SUFFICES ASSUME faults = 0 PROVE Undisturbed'
    OBVIOUS
  <2>2. Determined(manifest)'
    <3>1. EndRecord.kind # "placement"
      BY DEF EndRecord
    <3>2. Determined(manifest)
      BY <2>1 DEF IInv, Undisturbed
    <3> QED
      BY <1>1, <1>2, <1>6, <3>1, <3>2, DeterminedAppended, StreamFrame
  <2>3. manifest' # <<>>
    BY <1>3
  <2>4. manifest'[1] = ConfigurationRecord(build, support)'
    <3>1. ConfigurationRecord(build, support)' = ConfigurationRecord(build, support)
      BY <1>6 DEF ConfigurationRecord, SessionLto
    <3>2. 1 \in DOMAIN manifest /\ manifest[1] = ConfigurationRecord(build, support)
      BY <1>1, <1>3 DEF Open
    <3> QED
      BY <1>3, <3>1, <3>2
  <2>5. manifest'[Len(manifest')] = EndRecord'
    BY <1>3 DEF EndRecord
  <2>6. Retained(build)' = Retained(build)
    BY InputFrame
  <2> QED
    BY <2>1, <2>2, <2>3, <2>4, <2>5, <2>6
       DEF IInv, Undisturbed, Unwritten, Driving, Reading, Snapshot
<1> QED
  BY <1>7, <1>8, <1>9, <1>10 DEF IInv

-----------------------------------------------------------------------------
(* Optic's steps.                                                          *)

LEMMA ManifestFrame ==
  ASSUME manifest' = manifest
  PROVE  /\ Decodes(manifest)' = Decodes(manifest)
         /\ Expected' = Expected
<1>1. Decodes(manifest)' = Decodes(manifest)
  BY DEF Decodes, Once, Distinct, Positions, RecordSet, AgreeOnSource, EndRecord
<1>2. Expected' = Expected
  BY DEF Expected, Records, Position, Rank, Positions
<1> QED
  BY <1>1, <1>2

\* Two placements of an instance, captured on their own, have one source.
LEMMA PlacementsAgree ==
  ASSUME NEW m \in Seq(RecordValues), Stream(m, snapshots, unit, item), TypeOK,
         IsInjective(snapshots), Determined(m)
  PROVE  AgreeOnSource(m)
<1>1. ASSUME NEW k \in Positions(m, "placement")
      PROVE  LET d == definitions[m[k].instance] IN
             \/ m[k].source = NoSource /\ Uncapturable(d)
             \/ \E n \in DOMAIN snapshots :
                  /\ d # Nowhere /\ d.file = snapshots[n] /\ d.end <= TextLength
                  /\ m[k].source = [artifact |-> n - 1, end |-> d.end]
  <2>1. k \in DOMAIN m /\ m[k].kind = "placement"
    BY DEF Positions
  <2>2. SourceFits(m, snapshots, k)
    BY <2>1, ShapeOfKind DEF Stream, PlacementFits
  <2> QED
    BY <2>1, <2>2 DEF SourceFits, Determined
<1>2. ASSUME NEW k \in Positions(m, "placement")
      PROVE  LET d == definitions[m[k].instance] IN
             d = Nowhere \/ (d.file \in Files /\ d.end \in Nat)
  <2>1. PICK p \in placements : m[k] = PlacementRecord(p[2], p[1], m[k].source)
    BY ShapeOfKind DEF Positions, Stream, PlacementFits
  <2>2. m[k].instance \in Instances
    BY <2>1 DEF TypeOK, PlacementRecord
  <2> QED
    BY <2>2, Constants DEF TypeOK, Definitions
<1>3. ASSUME NEW j \in Positions(m, "placement"), NEW k \in Positions(m, "placement"),
             m[j].instance = m[k].instance
      PROVE  m[j].source = m[k].source
  <2> DEFINE d == definitions[m[k].instance]
  <2>1. Uncapturable(d) => ~(d # Nowhere /\ d.end <= TextLength)
    BY <1>2, Constants DEF Uncapturable
  <2>2. \A n, h \in DOMAIN snapshots : d.file = snapshots[n] /\ d.file = snapshots[h] => n = h
    BY DEF IsInjective
  <2>3. definitions[m[j].instance] = d
    BY <1>3
  <2>4. \/ m[j].source = NoSource /\ Uncapturable(d)
        \/ \E n \in DOMAIN snapshots :
             /\ d # Nowhere /\ d.file = snapshots[n] /\ d.end <= TextLength
             /\ m[j].source = [artifact |-> n - 1, end |-> d.end]
    BY <1>1, <2>3
  <2>5. \/ m[k].source = NoSource /\ Uncapturable(d)
        \/ \E n \in DOMAIN snapshots :
             /\ d # Nowhere /\ d.file = snapshots[n] /\ d.end <= TextLength
             /\ m[k].source = [artifact |-> n - 1, end |-> d.end]
    BY <1>1
  <2> HIDE DEF d
  <2> QED
    BY <2>1, <2>2, <2>4, <2>5
<1> QED
  BY <1>3 DEF AgreeOnSource, RecordSet

\* Optic decodes whatever the driver has written undisturbed.
LEMMA DriverStreamDecodes ==
  ASSUME IInv, faults = 0, step = "decode"
  PROVE  Decodes(manifest)
<1>1. /\ manifest \in Seq(RecordValues) /\ Len(manifest) \in Nat
      /\ DOMAIN manifest = 1 .. Len(manifest) /\ build \in BuildOptions
      /\ IsInjective(snapshots) /\ support = Decision(build)
      /\ Stream(manifest, snapshots, unit, item)
  BY Constants DEF IInv, TypeOK, Driven, Streamed
<1>2. /\ manifest # <<>> /\ manifest[1] = ConfigurationRecord(build, support)
      /\ manifest[Len(manifest)] = EndRecord /\ Determined(manifest)
  BY DEF IInv, Undisturbed
<1>3. 1 \in DOMAIN manifest /\ Len(manifest) \in DOMAIN manifest
  BY <1>1, <1>2
<1>4. Head(manifest) = manifest[1] /\ Last(manifest) = manifest[Len(manifest)]
  BY <1>1, <1>2 DEF Last
<1>5. manifest[1].kind = "configuration" /\ manifest[1].unsupported = support
  BY <1>2 DEF ConfigurationRecord
<1>6. \A k \in DOMAIN manifest : Fits(manifest, snapshots, unit, item, k)
  BY <1>1 DEF Stream
<1>7. Once(manifest, "configuration")
  <2>1. Positions(manifest, "configuration") = {1}
    BY <1>3, <1>5, <1>6, ShapeOfKind DEF Positions
  <2> QED
    BY <1>3, <2>1 DEF Once
<1>8. Once(manifest, "end")
  <2>1. \A k \in Positions(manifest, "end") : k \in DOMAIN manifest /\ manifest[k] = EndRecord
    BY <1>6, ShapeOfKind DEF Positions
  <2>2. \A j, k \in DOMAIN manifest : manifest[j] = EndRecord /\ manifest[k] = EndRecord => j = k
    BY <1>1 DEF Stream, EndsWhole
  <2>3. EndRecord.kind = "end"
    BY DEF EndRecord
  <2>4. Len(manifest) \in Positions(manifest, "end")
    BY <1>2, <1>3, <2>3 DEF Positions
  <2>5. Positions(manifest, "end") = {Len(manifest)}
    BY <1>2, <1>3, <2>1, <2>2, <2>4
  <2> QED
    BY <1>3, <2>5 DEF Once
<1>9. /\ Distinct(manifest, "source", LAMBDA r : r.id)
      /\ Distinct(manifest, "module", LAMBDA r : r.unit)
      /\ Distinct(manifest, "module", LAMBDA r : <<r.unit, r.suffix>>)
      /\ Distinct(manifest, "placement", LAMBDA r : <<r.instance, r.unit>>)
  BY <1>1 DEF Stream, Separate, Distinct
<1>10. support # "supported" => RecordSet(manifest, "module") = {}
  <2>1. \A k \in Positions(manifest, "module") : Extension(build) # {}
    BY <1>6, ShapeOfKind DEF Positions
  <2> QED
    BY <1>1, <2>1, ExtensionFacts DEF RecordSet
<1>11. AgreeOnSource(manifest)
  BY <1>1, <1>2, PlacementsAgree DEF IInv
<1> QED
  BY <1>2, <1>4, <1>5, <1>7, <1>8, <1>9, <1>10, <1>11 DEF Decodes

LEMMA ReadIInv == ASSUME IInv, Read PROVE IInv'
<1> USE DEF Read, Goto, driverVars, opticVars
<1>1. TypeOK'
  BY DEF IInv, TypeOK, inputVars
<1>2. UNCHANGED <<inputVars, support, manifest, snapshots, unit, item>>
  OBVIOUS
<1>3. Driven'
  BY <1>2, WrittenFrame DEF IInv, Driven, Unwritten, Driving, Reading
<1>4. Collected'
  BY ManifestFrame DEF Collected, Collecting
<1>5. faults' = 0 => Undisturbed'
  <2>1. faults = 0 => Decodes(manifest)
    BY DriverStreamDecodes
  <2> QED
    BY <1>2, <2>1, WrittenFrame DEF IInv, Undisturbed, Unwritten, Driving, Reading, Snapshot
<1> QED
  BY <1>1, <1>3, <1>4, <1>5 DEF IInv

\* What the manifest says of the compilation is what the driver decided.
LEMMA ConfigurationFacts ==
  ASSUME TypeOK, Streamed, Decodes(manifest), support = Decision(build)
  PROVE  /\ Configuration = ConfigurationRecord(build, support)
         /\ Configuration.unsupported = support
         /\ Configuration.lto = SessionLto(build)
         /\ support = "supported" =>
              /\ Configuration.backend = "llvm"
              /\ ~Configuration.incremental /\ ~Configuration.plugin
              /\ Configuration.lto \in {"off", "local-thin"}
              /\ Stage(Configuration.lto) = FinalStage /\ FinalStage \in Stages
<1>1. manifest \in Seq(RecordValues) /\ manifest # <<>> /\ Head(manifest).kind = "configuration"
  BY DEF TypeOK, Decodes
<1>2. 1 \in DOMAIN manifest /\ Head(manifest) = manifest[1]
  BY <1>1
<1>3. Configuration = ConfigurationRecord(build, support)
  BY <1>1, <1>2, ShapeOfKind DEF Streamed, Stream, Configuration
<1>4. support = "supported" =>
        /\ build.initialized = "llvm" /\ ~build.incremental /\ ~build.plugin
        /\ SessionLto(build) \in {"off", "local-thin"}
  BY Constants, DecisionFacts, SessionOfSupported DEF TypeOK
<1> QED
  BY <1>3, <1>4 DEF ConfigurationRecord, FinalStage, Stage, Stages

LEMMA SourceRecords ==
  ASSUME Streamed, NEW k \in Positions(manifest, "source")
  PROVE  \E n \in DOMAIN snapshots :
           /\ manifest[k] = SourceFileRecord(n - 1, TextLength)
           /\ manifest[k].id = n - 1 /\ manifest[k].length = TextLength
<1>1. PICK n \in DOMAIN snapshots : manifest[k] = SourceFileRecord(n - 1, TextLength)
  BY ShapeOfKind DEF Streamed, Stream, Positions
<1> QED
  BY <1>1 DEF SourceFileRecord

\* Snapshots that nothing has disturbed are whole.
LEMMA UndisturbedSnapshots ==
  ASSUME IInv, faults = 0, step = "sources"
  PROVE  SnapshotsAreWhole(ToSet(Records(manifest, "source")))
<1>1. manifest \in Seq(RecordValues) /\ Streamed
  BY DEF IInv, TypeOK, Driven
<1>2. \A n \in DOMAIN snapshots : n - 1 \in DOMAIN directory /\ directory[n - 1] = Snapshot(n)
  BY DEF IInv, Undisturbed, Reading
<1>3. ASSUME NEW r \in ToSet(Records(manifest, "source"))
      PROVE  r.id \in DOMAIN directory /\ directory[r.id].length = r.length
  <2>1. PICK k \in Positions(manifest, "source") : r = manifest[k]
    BY <1>1, RecordsEnumerate DEF ToSet
  <2>2. PICK n \in DOMAIN snapshots : r.id = n - 1 /\ r.length = TextLength
    BY <1>1, <2>1, SourceRecords
  <2>3. directory[r.id] = [text |-> snapshots[n], length |-> TextLength]
    BY <1>2, <2>2 DEF Snapshot
  <2> QED
    BY <1>2, <2>2, <2>3
<1> QED
  BY <1>3 DEF SnapshotsAreWhole

LEMMA CollectSourcesIInv == ASSUME IInv, CollectSources PROVE IInv'
<1> USE DEF CollectSources, Goto, driverVars
<1> DEFINE records == Records(manifest, "source")
           ArtifactValues == [id : Nat, kind : {"source", "llvm"}, length : Nat]
<1>1. /\ manifest \in Seq(RecordValues) /\ Streamed /\ Decodes(manifest) /\ TypeOK
      /\ support = Decision(build) /\ artifacts = <<>> /\ modules = <<>>
      /\ \A id \in DOMAIN directory :
            /\ id \in Nat /\ id + 1 \in DOMAIN snapshots
            /\ \E n \in {0, TextLength} :
                 directory[id] = [text |-> snapshots[id + 1], length |-> n]
  BY DEF IInv, TypeOK, Driven, Collected, Reading
<1>2. UNCHANGED <<inputVars, support, manifest, snapshots, unit, item>>
      /\ modules' = <<>> /\ directory' = directory
  BY <1>1
<1>3. /\ Configuration.unsupported = support
  BY <1>1, ConfigurationFacts
<1>4. /\ DOMAIN records = 1 .. Len(records) /\ Len(records) \in Nat
      /\ \A n \in DOMAIN records :
           /\ Position(manifest, "source", n) \in Positions(manifest, "source")
           /\ records[n] = manifest[Position(manifest, "source", n)]
      /\ \A j, k \in DOMAIN records :
           Position(manifest, "source", j) = Position(manifest, "source", k) => j = k
      /\ \A p \in Positions(manifest, "source") :
           \E n \in DOMAIN records : Position(manifest, "source", n) = p
  BY <1>1, RecordsEnumerate
<1>5. ASSUME NEW k \in DOMAIN records
      PROVE  \E n \in DOMAIN snapshots : records[k].id = n - 1 /\ records[k].length = TextLength
  BY <1>1, <1>4, SourceRecords
<1>6. \A n \in DOMAIN snapshots : n \in Nat /\ n - 1 \in Nat
  BY <1>1 DEF TypeOK
<1>7. CASE ~SnapshotsAreWhole(ToSet(records))
  <2>1. step' = "refused" /\ artifacts' = artifacts /\ nextId' = nextId /\ bitcode' = bitcode
        /\ reachable' = reachable /\ faults' = faults
    BY <1>7
  <2> HIDE DEF records, CollectSources
  <2>2. faults # 0
    BY <1>7, UndisturbedSnapshots DEF records, CollectSources
  <2>3. TypeOK'
    BY <1>2, <2>1 DEF IInv, TypeOK, inputVars
  <2>4. Driven'
    <3>1. Streamed' /\ IsInjective(snapshots')
      BY <1>2, WrittenFrame DEF IInv, Driven
    <3> QED
      BY <2>1, <3>1 DEF Driven, Unwritten, Driving, Reading, IsInjective
  <2>5. Collected'
    BY <2>1 DEF Collected, Collecting
  <2> QED
    BY <2>1, <2>2, <2>3, <2>4, <2>5 DEF IInv
<1>8. CASE SnapshotsAreWhole(ToSet(records))
  <2>1. /\ artifacts' = [k \in DOMAIN records |->
              [id |-> records[k].id, kind |-> "source", length |-> records[k].length]]
        /\ step' = IF support = "supported" THEN "tool" ELSE "validate"
        /\ nextId' = nextId /\ bitcode' = bitcode /\ reachable' = reachable /\ faults' = faults
    BY <1>3, <1>8
  <2> HIDE DEF records, CollectSources
  <2>2. /\ DOMAIN artifacts' = DOMAIN records
        /\ \A k \in DOMAIN records :
             artifacts'[k] = [id |-> records[k].id, kind |-> "source", length |-> records[k].length]
    BY <2>1
  <2>3. artifacts' \in Seq(ArtifactValues)
    <3>1. \A k \in 1 .. Len(records) : artifacts'[k] \in ArtifactValues
      BY <1>4, <1>5, <1>6, <2>2, Constants
    <3>2. artifacts' \in [1 .. Len(records) -> ArtifactValues]
      BY <1>4, <2>1, <3>1
    <3> HIDE DEF ArtifactValues
    <3> QED
      BY <1>4, <3>2, SequenceOfFunction
  <2>4. TypeOK'
    BY <1>2, <2>1, <2>3 DEF IInv, TypeOK, inputVars
  <2>5. Driven'
    <3>1. Streamed' /\ IsInjective(snapshots') /\ support' = Decision(build)'
      BY <1>1, <1>2, WrittenFrame DEF IInv, Driven
    <3>2. step' \in {"tool", "validate"}
      BY <2>1
    <3> QED
      BY <3>1, <3>2 DEF Driven, Unwritten, Driving, Reading, IsInjective
  <2>6. SourcesCollected'
    <3>1. ASSUME NEW j \in DOMAIN records, NEW k \in DOMAIN records,
                 records[j].id = records[k].id
          PROVE  j = k
      <4>1. Distinct(manifest, "source", LAMBDA r : r.id)
        BY <1>1 DEF Decodes
      <4> QED
        BY <1>4, <3>1, <4>1 DEF Distinct
    <3>2. ASSUME NEW k \in DOMAIN records
          PROVE  \E n \in DOMAIN snapshots :
                   /\ artifacts'[k] = [id |-> n - 1, kind |-> "source", length |-> TextLength]
                   /\ n - 1 \in DOMAIN directory /\ directory[n - 1] = Snapshot(n)
      <4>1. PICK n \in DOMAIN snapshots : records[k].id = n - 1 /\ records[k].length = TextLength
        BY <1>5
      <4>2. n - 1 \in DOMAIN directory /\ directory[n - 1].length = TextLength
        <5>1. records[k] \in ToSet(records)
          BY DEF ToSet
        <5> QED
          BY <1>8, <4>1, <5>1 DEF SnapshotsAreWhole
      <4>3. PICK h \in {0, TextLength} : directory[n - 1] = [text |-> snapshots[n - 1 + 1], length |-> h]
        BY <1>1, <4>2
      <4>4. n - 1 + 1 = n
        BY <1>6
      <4>5. directory[n - 1] = [text |-> snapshots[n], length |-> TextLength]
        BY <4>2, <4>3, <4>4
      <4> QED
        BY <2>2, <4>1, <4>2, <4>5 DEF Snapshot
    <3>3. ASSUME NEW k \in DOMAIN manifest, manifest[k].kind = "source"
          PROVE  \E j \in DOMAIN records :
                   artifacts'[j] = [id |-> manifest[k].id, kind |-> "source",
                                    length |-> manifest[k].length]
      <4>1. PICK j \in DOMAIN records : Position(manifest, "source", j) = k
        BY <1>4, <3>3 DEF Positions
      <4> QED
        BY <1>4, <2>2, <4>1
    <3>4. \A j, k \in DOMAIN records : artifacts'[j].id = artifacts'[k].id => j = k
      BY <2>2, <3>1
    <3>5. Decodes(manifest)'
      BY <1>1, <1>2, ManifestFrame
    <3> QED
      BY <1>2, <2>2, <3>2, <3>3, <3>4, <3>5 DEF SourcesCollected, Snapshot
  <2>7. ModulesCollected'
    <3>1. Len(<<>>) = 0 /\ DOMAIN <<>> = {}
      OBVIOUS
    <3>2. Len(Expected) \in Nat /\ Expected' = Expected
      BY <1>1, <1>2, ManifestFrame, RecordsEnumerate DEF Expected
    <3>3. \A k \in DOMAIN artifacts' : artifacts'[k].kind # "llvm"
      BY <2>2
    <3> QED
      BY <1>2, <3>1, <3>2, <3>3 DEF ModulesCollected
  <2>8. Collected'
    BY <1>2, <2>1, <2>6, <2>7 DEF Collected, Collecting
  <2>9. faults' = 0 => Undisturbed'
    BY <1>2, <2>1, WrittenFrame DEF IInv, Undisturbed, Unwritten, Driving, Reading, CollectSources
  <2> QED
    BY <2>4, <2>5, <2>8, <2>9 DEF IInv
<1> QED
  BY <1>7, <1>8

\* The number after the greatest of a bounded set of numbers exceeds them all.
LEMMA GreatestElement ==
  ASSUME NEW T \in SUBSET Nat, T # {}, NEW B \in Nat, \A x \in T : x < B
  PROVE  Max(T) \in T /\ \A x \in T : x <= Max(T)
<1> DEFINE U == {u \in Nat : \A x \in T : x <= u}
           M == Min(U)
<1>1. U \in SUBSET Nat /\ U # {}
  <2>1. B \in U
    OBVIOUS
  <2> QED
    BY <2>1
<1>2. M \in U /\ \A u \in U : M <= u
  BY <1>1, MinOfSet
<1>3. M \in Nat /\ \A x \in T : x \in Nat /\ x <= M
  BY <1>2
<1>4. M \in T
  <2>1. SUFFICES ASSUME M \notin T PROVE FALSE
    OBVIOUS
  <2> HIDE DEF M
  <2>2. \A x \in T : x <= M - 1
    BY <1>3, <2>1
  <2>3. M - 1 \in Nat
    <3>1. PICK x \in T : TRUE
      OBVIOUS
    <3>2. x \in Nat /\ x <= M - 1
      BY <2>2
    <3> HIDE DEF U
    <3> QED
      BY <1>3, <3>2
  <2>4. M - 1 \in U
    BY <2>2, <2>3
  <2> QED
    BY <1>2, <1>3, <2>4
<1> HIDE DEF M
<1>5. \E x \in T : \A y \in T : x >= y
  BY <1>3, <1>4
<1>6. Max(T) \in T /\ \A y \in T : Max(T) >= y
  BY <1>5 DEF Max
<1> QED
  BY <1>6

LEMMA ArtifactTypes ==
  ASSUME TypeOK, NEW k \in DOMAIN artifacts
  PROVE  artifacts[k].id \in Nat /\ artifacts[k].kind \in {"source", "llvm"}
<1> DEFINE values == [id : Nat, kind : {"source", "llvm"}, length : Nat]
<1>1. artifacts \in Seq(values)
  BY DEF TypeOK
<1>2. artifacts[k] \in values
  <2> HIDE DEF values
  <2> QED
    BY <1>1
<1> QED
  BY <1>2

LEMMA FreeIdFacts ==
  ASSUME TypeOK, NEW B \in Nat, \A k \in DOMAIN artifacts : artifacts[k].id < B
  PROVE  /\ FreeId(artifacts) \in Nat
         /\ \A k \in DOMAIN artifacts : artifacts[k].id < FreeId(artifacts)
<1> DEFINE T == {r.id : r \in ToSet(artifacts)}
<1>1. \A k \in DOMAIN artifacts : artifacts[k].id \in Nat
  BY ArtifactTypes
<1>2. CASE artifacts = <<>>
  BY <1>2 DEF FreeId
<1>3. CASE artifacts # <<>>
  <2>1. \A k \in DOMAIN artifacts : artifacts[k].id \in T
    BY DEF ToSet
  <2>2. T \in SUBSET Nat /\ \A x \in T : x < B
    BY <1>1 DEF ToSet
  <2>3. T # {}
    <3>1. 1 \in DOMAIN artifacts
      BY <1>3 DEF TypeOK
    <3> QED
      BY <2>1, <3>1
  <2> HIDE DEF T
  <2>4. Max(T) \in T /\ \A x \in T : x <= Max(T)
    BY <2>2, <2>3, GreatestElement
  <2>5. FreeId(artifacts) = Max(T) + 1
    BY <1>3 DEF FreeId, T
  <2>6. \A k \in DOMAIN artifacts : artifacts[k].id \in Nat /\ artifacts[k].id <= Max(T)
    BY <1>1, <2>1, <2>4
  <2>7. Max(T) \in Nat
    BY <2>2, <2>4
  <2> DEFINE M == Max(T)
  <2> HIDE DEF M
  <2>8. M \in Nat /\ FreeId(artifacts) = M + 1
    BY <2>5, <2>7 DEF M
  <2>9. \A k \in DOMAIN artifacts : artifacts[k].id \in Nat /\ artifacts[k].id <= M
    BY <2>6 DEF M
  <2> QED
    BY <2>8, <2>9
<1> QED
  BY <1>2, <1>3

\* What has been collected stays so when nothing of it changes.
LEMMA CollectedFrame ==
  ASSUME UNCHANGED <<inputVars, manifest, snapshots, directory, artifacts, modules>>
  PROVE  /\ SourcesCollected => SourcesCollected'
         /\ ModulesCollected => ModulesCollected'
         /\ Len(Expected') = Len(Expected)
         /\ ValidManifest => ValidManifest'
<1>1. Decodes(manifest)' = Decodes(manifest) /\ Expected' = Expected /\ FinalStage' = FinalStage
  BY ManifestFrame, InputFrame
<1>2. SourcesCollected => SourcesCollected'
  BY <1>1 DEF SourcesCollected, Snapshot
<1>3. ModulesCollected => ModulesCollected'
  BY <1>1 DEF ModulesCollected
<1>4. RecordSet(manifest, "placement")' = RecordSet(manifest, "placement")
  BY DEF RecordSet, Positions
<1>5. Configuration' = Configuration
  BY DEF Configuration
<1>6. ValidManifest => ValidManifest'
  BY <1>4, <1>5 DEF ValidManifest, ValidRange, PlacementsHaveModules, ToSet, NoSource, Stage
<1> QED
  BY <1>1, <1>2, <1>3, <1>6

LEMMA PrepareModulesIInv == ASSUME IInv, PrepareModules PROVE IInv'
<1> USE DEF PrepareModules, Goto, driverVars
<1>1. /\ SourcesCollected /\ ModulesCollected /\ support = "supported" /\ modules = <<>>
      /\ support = Decision(build) /\ TypeOK /\ Streamed /\ Decodes(manifest)
  BY DEF IInv, Driven, Collected, Collecting, SourcesCollected
<1>2. /\ Configuration.backend = "llvm"
      /\ ~Configuration.incremental /\ ~Configuration.plugin
      /\ Stage(Configuration.lto) # "none"
  <2>1. "none" \notin Stages
    BY DEF Stages
  <2> QED
    BY <1>1, <2>1, ConfigurationFacts
<1>3. nextId' = FreeId(artifacts) /\ step' = "modules"
  BY <1>2
<1>4. nextId' \in Nat /\ \A k \in DOMAIN artifacts : artifacts[k].id < nextId'
  <2>1. Len(snapshots) \in Nat /\ DOMAIN snapshots = 1 .. Len(snapshots)
    BY <1>1 DEF TypeOK
  <2>2. \A k \in DOMAIN artifacts : artifacts[k].kind \in {"source", "llvm"}
    BY <1>1, ArtifactTypes
  <2>3. \A k \in DOMAIN artifacts : artifacts[k].kind = "source"
    BY <1>1, <2>2 DEF ModulesCollected
  <2>4. \A k \in DOMAIN artifacts : \E n \in 1 .. Len(snapshots) : artifacts[k].id = n - 1
    BY <1>1, <2>1, <2>3 DEF SourcesCollected
  <2>5. \A k \in DOMAIN artifacts : artifacts[k].id < Len(snapshots)
    BY <2>1, <2>4
  <2> QED
    BY <1>1, <1>3, <2>1, <2>5, FreeIdFacts
<1>5. UNCHANGED <<inputVars, support, manifest, snapshots, unit, item, directory, artifacts, modules>>
  OBVIOUS
<1>6. TypeOK'
  BY <1>3, <1>4 DEF IInv, TypeOK, inputVars
<1>7. Driven'
  <2>1. Streamed' /\ IsInjective(snapshots') /\ support' = Decision(build)'
    BY <1>1, <1>5, WrittenFrame DEF IInv, Driven
  <2> QED
    BY <1>3, <2>1 DEF Driven, Unwritten, Driving, Reading, IsInjective
<1>8. Collected'
  <2>1. SourcesCollected' /\ ModulesCollected'
    BY <1>1, <1>5, CollectedFrame
  <2> QED
    BY <1>1, <1>3, <1>4, <1>5, <2>1 DEF Collected, Collecting
<1>9. faults' = 0 => Undisturbed'
  BY <1>1, <1>3, <1>5, WrittenFrame DEF IInv, Undisturbed, Unwritten, Driving, Reading
<1> QED
  BY <1>6, <1>7, <1>8, <1>9 DEF IInv

LEMMA FinishModulesIInv == ASSUME IInv, FinishModules PROVE IInv'
<1> USE DEF FinishModules, Goto, driverVars, opticVars
<1>1. /\ SourcesCollected /\ ModulesCollected /\ support = "supported"
      /\ Len(modules) = Len(Expected)
      /\ support = Decision(build) /\ Streamed
  BY DEF IInv, Driven, Collected, Collecting
<1>2. UNCHANGED <<inputVars, support, manifest, snapshots, unit, item, directory, artifacts, modules>>
  OBVIOUS
<1>3. TypeOK'
  BY DEF IInv, TypeOK, inputVars
<1>4. Driven'
  <2>1. Streamed' /\ IsInjective(snapshots') /\ support' = Decision(build)'
    BY <1>1, <1>2, WrittenFrame DEF IInv, Driven
  <2> QED
    BY <2>1 DEF Driven, Unwritten, Driving, Reading, IsInjective
<1>5. Collected'
  <2>1. SourcesCollected' /\ ModulesCollected' /\ Len(Expected') = Len(Expected)
    BY <1>1, <1>2, CollectedFrame
  <2> QED
    BY <1>1, <2>1 DEF Collected, Collecting
<1>6. faults' = 0 => Undisturbed'
  BY <1>2, WrittenFrame DEF IInv, Undisturbed, Unwritten, Driving, Reading
<1> QED
  BY <1>3, <1>4, <1>5, <1>6 DEF IInv

\* The module records of the manifest: at most one for each unit, with the suffix
\* of the compilation.
LEMMA ExpectedFacts ==
  ASSUME TypeOK, Streamed, Decodes(manifest), support = Decision(build)
  PROVE  /\ Len(Expected) \in Nat /\ DOMAIN Expected = 1 .. Len(Expected)
         /\ \A n \in DOMAIN Expected :
              /\ Expected[n].unit \in Units /\ Expected[n].suffix \in Extension(build)
              /\ support = "supported"
         /\ \A j, k \in DOMAIN Expected : Expected[j].unit = Expected[k].unit => j = k
         /\ \A k \in DOMAIN manifest : manifest[k].kind = "module" =>
              \E n \in DOMAIN Expected : Expected[n] = manifest[k]
<1> DEFINE P == Positions(manifest, "module")
           pos(n) == Position(manifest, "module", n)
<1>1. /\ Len(Expected) \in Nat /\ DOMAIN Expected = 1 .. Len(Expected)
      /\ \A n \in DOMAIN Expected : pos(n) \in P /\ Expected[n] = manifest[pos(n)]
      /\ \A j, k \in DOMAIN Expected : pos(j) = pos(k) => j = k
      /\ \A p \in P : \E n \in DOMAIN Expected : pos(n) = p
  BY RecordsEnumerate DEF TypeOK, Expected
<1>2. build \in BuildOptions /\ 1 .. unit \subseteq Units
  BY Constants DEF TypeOK
<1>3. ASSUME NEW k \in P
      PROVE  /\ manifest[k].unit \in Units /\ manifest[k].suffix \in Extension(build)
             /\ support = "supported"
  <2>1. PICK v \in 1 .. unit, x \in Extension(build) : manifest[k] = ModuleRecord(v, x)
    BY ShapeOfKind DEF Streamed, Stream, Positions
  <2>2. support = "supported"
    BY <1>2, <2>1, ExtensionFacts
  <2> QED
    BY <1>2, <2>1, <2>2 DEF ModuleRecord
<1>4. \A j, k \in P : manifest[j].unit = manifest[k].unit => j = k
  BY DEF Decodes, Distinct
<1>5. \A k \in DOMAIN manifest : manifest[k].kind = "module" => k \in P
  BY DEF Positions
<1> HIDE DEF P, pos
<1>6. \A n \in DOMAIN Expected :
        /\ Expected[n].unit \in Units /\ Expected[n].suffix \in Extension(build)
        /\ support = "supported"
  BY <1>1, <1>3
<1>7. \A j, k \in DOMAIN Expected : Expected[j].unit = Expected[k].unit => j = k
  BY <1>1, <1>4
<1>8. \A k \in DOMAIN manifest : manifest[k].kind = "module" =>
        \E n \in DOMAIN Expected : Expected[n] = manifest[k]
  BY <1>1, <1>5
<1> QED
  BY <1>1, <1>6, <1>7, <1>8

\* Every module is disassembled from the bitcode of its last stage.
LEMMA DisassemblyStage ==
  ASSUME build \in BuildOptions, support = Decision(build),
         NEW r, r.unit \in Units, r.suffix \in Extension(build)
  PROVE  /\ FinalStage \in Stages
         /\ Disassembly(r) = [text |-> <<r.unit, FinalStage>>, length |-> 1]
         /\ Disassembly(r) \in [text : Texts, length : Nat]
<1>1. \/ SessionLto(build) = "off" /\ r.suffix = "bc"
      \/ SessionLto(build) = "local-thin" /\ r.suffix = "thin-lto-after-pm.bc"
  BY DEF Extension
<1>2. /\ FinalStage \in Stages
      /\ FinalStage = IF r.suffix = "bc" THEN "no-lto-optimized"
                      ELSE "local-thin-lto-post-pass-manager"
  BY <1>1 DEF FinalStage, Stage, Stages
<1>3. Disassembly(r) = [text |-> <<r.unit, FinalStage>>, length |-> 1]
  BY <1>2 DEF Disassembly
<1>4. <<r.unit, FinalStage>> \in Texts
  BY <1>2 DEF Texts
<1> QED
  BY <1>2, <1>3, <1>4

LEMMA CollectModuleIInv == ASSUME IInv, CollectModule PROVE IInv'
<1> DEFINE L == Len(modules)
           r == Expected[L + 1]
           file == Disassembly(r)
           module == [artifact |-> nextId, unit |-> r.unit, stage |-> Stage(Configuration.lto)]
           artifact == [id |-> nextId, kind |-> "llvm", length |-> 1]
           ModuleValues == [artifact : Nat, unit : Units, stage : Stages]
           ArtifactValues == [id : Nat, kind : {"source", "llvm"}, length : Nat]
<1>1. /\ SourcesCollected /\ ModulesCollected /\ support = "supported" /\ step = "modules"
      /\ support = Decision(build) /\ TypeOK /\ Streamed /\ Decodes(manifest)
      /\ \A k \in DOMAIN artifacts : artifacts[k].id < nextId
      /\ build \in BuildOptions /\ L < Len(Expected)
  BY Constants
     DEF IInv, TypeOK, Driven, Collected, Collecting, SourcesCollected, CollectModule
<1>2. /\ modules \in Seq(ModuleValues) /\ artifacts \in Seq(ArtifactValues) /\ nextId \in Nat
      /\ L \in Nat
  BY <1>1 DEF TypeOK
<1>3. L + 1 \in DOMAIN Expected /\ r.unit \in Units /\ r.suffix \in Extension(build)
  <2>1. Len(Expected) \in Nat /\ DOMAIN Expected = 1 .. Len(Expected)
    BY <1>1, ExpectedFacts
  <2>2. L + 1 \in DOMAIN Expected
    BY <1>1, <1>2, <2>1
  <2> QED
    BY <1>1, <2>2, ExpectedFacts
<1>4. /\ FinalStage \in Stages /\ Stage(Configuration.lto) = FinalStage
      /\ file = [text |-> <<r.unit, FinalStage>>, length |-> 1]
      /\ file \in [text : Texts, length : Nat]
  BY <1>1, <1>3, DisassemblyStage, ConfigurationFacts
<1>5. UNCHANGED <<inputVars, support, manifest, snapshots, unit, item>>
      /\ bitcode' = bitcode /\ reachable' = reachable /\ faults' = faults
  BY DEF CollectModule, Goto, driverVars
<1>6. step' \in {"modules", "refused"}
  BY DEF CollectModule, Goto
<1>7. Driven'
  <2>1. Streamed' /\ IsInjective(snapshots') /\ support' = Decision(build)'
    BY <1>1, <1>5, WrittenFrame DEF IInv, Driven
  <2> QED
    BY <1>6, <2>1 DEF Driven, Unwritten, Driving, Reading, IsInjective
<1>8. CASE <<r.unit, r.suffix>> \notin bitcode
  <2>1. step' = "refused" /\ UNCHANGED <<directory, artifacts, modules, nextId>>
    BY <1>8 DEF CollectModule, Goto, opticVars
  <2>2. faults # 0
    BY <1>1, <1>3, <1>8, ExtensionFacts DEF IInv, Undisturbed
  <2>3. TypeOK'
    BY <1>1, <1>5, <2>1 DEF TypeOK, inputVars
  <2>4. Collected'
    BY <2>1 DEF Collected, Collecting
  <2> QED
    BY <1>5, <1>7, <2>2, <2>3, <2>4 DEF IInv
<1>9. CASE <<r.unit, r.suffix>> \in bitcode
  <2>1. /\ directory' = With(directory, nextId, file)
        /\ modules' = Append(modules, module)
        /\ artifacts' = Append(artifacts, artifact)
        /\ nextId' = nextId + 1 /\ step' = "modules"
    BY <1>9 DEF CollectModule, Goto
  <2>2. module \in ModuleValues /\ artifact \in ArtifactValues
    BY <1>2, <1>3, <1>4
  <2>3. /\ DOMAIN directory' = DOMAIN directory \cup {nextId}
        /\ directory'[nextId] = file
        /\ \A id \in DOMAIN directory : id # nextId => directory'[id] = directory[id]
    BY <2>1 DEF With
  <2>4. module.artifact = nextId /\ module.unit = r.unit /\ module.stage = FinalStage
        /\ file.text = <<r.unit, FinalStage>>
        /\ artifact = [id |-> nextId, kind |-> "llvm", length |-> 1]
        /\ artifact.id = nextId /\ artifact.kind = "llvm"
    BY <1>4
  <2> HIDE DEF module, artifact, file, r, ModuleValues, ArtifactValues
  <2>5. /\ modules' \in Seq(ModuleValues) /\ Len(modules') = L + 1
        /\ DOMAIN modules = 1 .. L /\ DOMAIN modules' = 1 .. L + 1 /\ modules'[L + 1] = module
        /\ \A k \in DOMAIN modules : k \in DOMAIN modules' /\ modules'[k] = modules[k]
        /\ \A k \in DOMAIN modules' : k \in DOMAIN modules \/ k = L + 1
        /\ L + 1 \in DOMAIN modules' /\ L + 1 \notin DOMAIN modules
    BY <1>2, <2>1, <2>2
  <2>6. /\ artifacts' \in Seq(ArtifactValues) /\ Len(artifacts) \in Nat
        /\ artifacts'[Len(artifacts) + 1] = artifact
        /\ \A k \in DOMAIN artifacts : k \in DOMAIN artifacts' /\ artifacts'[k] = artifacts[k]
        /\ \A k \in DOMAIN artifacts' : k \in DOMAIN artifacts \/ k = Len(artifacts) + 1
        /\ Len(artifacts) + 1 \in DOMAIN artifacts'
    BY <1>2, <2>1, <2>2, Appending
  <2>7. \A k \in DOMAIN artifacts : artifacts[k].id \in Nat
    BY <1>1, ArtifactTypes
  <2>8. TypeOK'
    <3>1. /\ DOMAIN directory' \subseteq Nat
          /\ \A id \in DOMAIN directory' : directory'[id] \in [text : Texts, length : Nat]
      BY <1>1, <1>2, <1>4, <2>3 DEF TypeOK
    <3>2. /\ modules' \in Seq([artifact : Nat, unit : Units, stage : Stages])
          /\ artifacts' \in Seq([id : Nat, kind : {"source", "llvm"}, length : Nat])
      BY <2>5, <2>6 DEF ModuleValues, ArtifactValues
    <3>3. nextId' \in Nat
      BY <1>2, <2>1
    <3> QED
      BY <1>1, <1>5, <2>1, <3>1, <3>2, <3>3 DEF TypeOK, inputVars
  <2>9. Decodes(manifest)' /\ Expected' = Expected /\ FinalStage' = FinalStage
    BY <1>1, <1>5, ManifestFrame, InputFrame
  <2>10. SourcesCollected'
    <3>1. \A j, k \in DOMAIN artifacts' : artifacts'[j].id = artifacts'[k].id => j = k
      BY <1>1, <1>2, <2>4, <2>6, <2>7 DEF SourcesCollected
    <3>2. ASSUME NEW k \in DOMAIN artifacts', artifacts'[k].kind = "source"
          PROVE  \E n \in DOMAIN snapshots :
                   /\ artifacts'[k] = [id |-> n - 1, kind |-> "source", length |-> TextLength]
                   /\ n - 1 \in DOMAIN directory' /\ directory'[n - 1] = Snapshot(n)
      <4>1. k \in DOMAIN artifacts /\ artifacts'[k] = artifacts[k]
        BY <2>4, <2>6, <3>2
      <4>2. PICK n \in DOMAIN snapshots :
              /\ artifacts[k] = [id |-> n - 1, kind |-> "source", length |-> TextLength]
              /\ n - 1 \in DOMAIN directory /\ directory[n - 1] = Snapshot(n)
        BY <1>1, <3>2, <4>1 DEF SourcesCollected
      <4>3. artifacts[k].id = n - 1 /\ n - 1 # nextId
        BY <1>1, <1>2, <2>7, <4>1, <4>2
      <4> QED
        BY <2>3, <4>1, <4>2, <4>3
    <3>3. ASSUME NEW k \in DOMAIN manifest, manifest[k].kind = "source"
          PROVE  \E j \in DOMAIN artifacts' :
                   artifacts'[j] = [id |-> manifest[k].id, kind |-> "source",
                                    length |-> manifest[k].length]
      BY <1>1, <2>6, <3>3 DEF SourcesCollected
    <3> QED
      BY <1>5, <2>9, <3>1, <3>2, <3>3 DEF SourcesCollected, Snapshot
  <2>11. ModulesCollected'
    <3>1. Len(modules') <= Len(Expected)
      BY <1>1, <1>2, <2>5, ExpectedFacts
    <3>2. ASSUME NEW n \in DOMAIN modules
          PROVE  /\ modules'[n] = modules[n] /\ modules[n].artifact # nextId
                 /\ modules'[n].unit = Expected[n].unit
                 /\ modules'[n].stage = FinalStage
                 /\ modules'[n].artifact \in DOMAIN directory'
                 /\ directory'[modules'[n].artifact].text = <<modules'[n].unit, FinalStage>>
                 /\ \E j \in DOMAIN artifacts' :
                      artifacts'[j] = [id |-> modules'[n].artifact, kind |-> "llvm", length |-> 1]
      <4>1. PICK j \in DOMAIN artifacts :
              artifacts[j] = [id |-> modules[n].artifact, kind |-> "llvm", length |-> 1]
        BY <1>1 DEF ModulesCollected
      <4>2. modules[n].artifact = artifacts[j].id
        BY <4>1
      <4>3. modules[n].artifact # nextId
        BY <1>1, <1>2, <2>7, <4>2
      <4> QED
        BY <1>1, <2>3, <2>5, <2>6, <4>1, <4>3 DEF ModulesCollected
    <3>3. /\ modules'[L + 1].unit = Expected[L + 1].unit
          /\ modules'[L + 1].stage = FinalStage
          /\ modules'[L + 1].artifact \in DOMAIN directory'
          /\ directory'[modules'[L + 1].artifact].text = <<modules'[L + 1].unit, FinalStage>>
          /\ \E j \in DOMAIN artifacts' :
               artifacts'[j] = [id |-> modules'[L + 1].artifact, kind |-> "llvm", length |-> 1]
      BY <2>3, <2>4, <2>5, <2>6 DEF r
    <3>4. \A j, k \in DOMAIN modules' : modules'[j].artifact = modules'[k].artifact => j = k
      <4>1. modules'[L + 1].artifact = nextId
        BY <2>4, <2>5
      <4>2. \A j, k \in DOMAIN modules : modules[j].artifact = modules[k].artifact => j = k
        BY <1>1 DEF ModulesCollected
      <4> QED
        BY <2>5, <3>2, <4>1, <4>2
    <3>5. ASSUME NEW j \in DOMAIN artifacts', artifacts'[j].kind = "llvm"
          PROVE  \E n \in DOMAIN modules' : modules'[n].artifact = artifacts'[j].id
      <4>1. CASE j \in DOMAIN artifacts
        <5>1. artifacts'[j] = artifacts[j]
          BY <2>6, <4>1
        <5>2. PICK n \in DOMAIN modules : modules[n].artifact = artifacts[j].id
          BY <1>1, <3>5, <4>1, <5>1 DEF ModulesCollected
        <5> QED
          BY <2>5, <5>1, <5>2
      <4>2. CASE j = Len(artifacts) + 1
        BY <2>4, <2>5, <2>6, <4>2
      <4> QED
        BY <2>6, <4>1, <4>2
    <3> QED
      BY <2>5, <2>9, <3>1, <3>2, <3>3, <3>4, <3>5 DEF ModulesCollected
  <2>12. Collected'
    <3>1. \A k \in DOMAIN artifacts' : artifacts'[k].id < nextId'
      BY <1>1, <1>2, <2>1, <2>4, <2>6, <2>7
    <3> QED
      BY <1>1, <1>5, <2>1, <2>10, <2>11, <3>1 DEF Collected, Collecting
  <2>13. faults' = 0 => Undisturbed'
    BY <1>1, <1>5, <2>1, WrittenFrame DEF IInv, Undisturbed, Unwritten, Driving, Reading
  <2> QED
    BY <1>7, <2>8, <2>12, <2>13 DEF IInv
<1> QED
  BY <1>8, <1>9

\* A decoded manifest of a supported compilation has a module of every unit.
LEMMA UnitsExpected ==
  ASSUME TypeOK, Streamed, Decodes(manifest), support = Decision(build),
         support = "supported", NEW v \in Units
  PROVE  \E n \in DOMAIN Expected : Expected[n].unit = v
<1>1. manifest \in Seq(RecordValues) /\ manifest # <<>> /\ Last(manifest) = EndRecord
  BY DEF TypeOK, Decodes
<1>2. Len(manifest) \in DOMAIN manifest /\ manifest[Len(manifest)] = EndRecord
  BY <1>1 DEF Last
<1>3. build \in BuildOptions
  BY Constants DEF TypeOK
<1>4. PICK x \in Extension(build) : TRUE
  BY <1>3, ExtensionFacts
<1>5. PICK j \in 1 .. Len(manifest) - 1 : manifest[j] = ModuleRecord(v, x)
  BY <1>2 DEF Streamed, Stream, EndsWhole
<1>6. j \in DOMAIN manifest /\ manifest[j].kind = "module" /\ manifest[j].unit = v
  BY <1>1, <1>5 DEF ModuleRecord
<1> QED
  BY <1>6, ExpectedFacts

\* What is collected is a valid manifest: no rule of it asks more than the
\* driver and the stages before have seen to.
LEMMA CollectedIsValid ==
  ASSUME IInv, step = "validate"
  PROVE  ValidManifest
<1>1. /\ SourcesCollected /\ ModulesCollected
      /\ IF support = "supported" THEN Len(modules) = Len(Expected) ELSE modules = <<>>
      /\ support = Decision(build) /\ TypeOK /\ Streamed /\ Decodes(manifest)
      /\ build \in BuildOptions
  BY Constants DEF IInv, TypeOK, Driven, Collected, Collecting, SourcesCollected
<1>2. /\ Configuration.unsupported = support
      /\ support = "supported" =>
           /\ Configuration.backend = "llvm"
           /\ ~Configuration.incremental /\ ~Configuration.plugin
           /\ Configuration.lto \in {"off", "local-thin"}
           /\ Stage(Configuration.lto) = FinalStage
  BY <1>1, ConfigurationFacts
<1>3. /\ modules \in Seq([artifact : Nat, unit : Units, stage : Stages])
      /\ DOMAIN modules = 1 .. Len(modules) /\ Len(modules) \in Nat
  <2> DEFINE values == [artifact : Nat, unit : Units, stage : Stages]
  <2>1. modules \in Seq(values)
    BY <1>1 DEF TypeOK
  <2>2. DOMAIN modules = 1 .. Len(modules) /\ Len(modules) \in Nat
    <3> HIDE DEF values
    <3> QED
      BY <2>1
  <2> QED
    BY <2>1, <2>2
<1>4. /\ Len(Expected) \in Nat /\ DOMAIN Expected = 1 .. Len(Expected)
      /\ \A n \in DOMAIN Expected : Expected[n].unit \in Units
      /\ \A j, k \in DOMAIN Expected : Expected[j].unit = Expected[k].unit => j = k
      /\ \A k \in DOMAIN manifest : manifest[k].kind = "module" =>
           \E n \in DOMAIN Expected : Expected[n] = manifest[k]
  BY <1>1, ExpectedFacts
<1>5. \A j, k \in DOMAIN artifacts : artifacts[j].id = artifacts[k].id => j = k
  BY <1>1 DEF SourcesCollected
<1>6. ASSUME NEW p \in RecordSet(manifest, "placement"), p.source # NoSource
      PROVE  ValidRange(p.source.artifact, "source", p.source.end)
  <2>1. PICK k \in Positions(manifest, "placement") : p = manifest[k]
    BY DEF RecordSet
  <2>2. k \in DOMAIN manifest /\ SourceFits(manifest, snapshots, k)
    BY <1>1, <2>1, ShapeOfKind DEF Streamed, Stream, Positions, PlacementFits
  <2> DEFINE d == definitions[p.instance]
  <2>3. PICK n \in DOMAIN snapshots :
          /\ d.end <= TextLength /\ p.source = [artifact |-> n - 1, end |-> d.end]
          /\ \E j \in 1 .. k - 1 : manifest[j] = SourceFileRecord(n - 1, TextLength)
    BY <1>6, <2>1, <2>2 DEF SourceFits
  <2>4. PICK j \in 1 .. k - 1 : manifest[j] = SourceFileRecord(n - 1, TextLength)
    BY <2>3
  <2>5. /\ j \in DOMAIN manifest /\ manifest[j].kind = "source"
        /\ manifest[j].id = n - 1 /\ manifest[j].length = TextLength
    BY <1>1, <2>2, <2>4 DEF TypeOK, SourceFileRecord
  <2>6. PICK h \in DOMAIN artifacts :
          artifacts[h] = [id |-> n - 1, kind |-> "source", length |-> TextLength]
    BY <1>1, <2>5 DEF SourcesCollected
  <2>7. artifacts[h] \in ToSet(artifacts)
    BY DEF ToSet
  <2>8. p.source.artifact = n - 1 /\ p.source.end <= TextLength
    BY <2>3
  <2> QED
    BY <2>6, <2>7, <2>8 DEF ValidRange
<1>7. ASSUME NEW j \in DOMAIN modules, NEW k \in DOMAIN modules,
             modules[j].unit = modules[k].unit \/ modules[j].artifact = modules[k].artifact
      PROVE  j = k
  <2>1. j \in DOMAIN Expected /\ k \in DOMAIN Expected
    <3>1. Len(modules) <= Len(Expected)
      BY <1>1 DEF ModulesCollected
    <3> QED
      BY <1>3, <1>4, <3>1
  <2> QED
    BY <1>1, <1>4, <1>7, <2>1 DEF ModulesCollected
<1>8. ASSUME NEW m \in ToSet(modules)
      PROVE  m.stage = Stage(Configuration.lto) /\ ValidRange(m.artifact, "llvm", 0)
  <2>1. PICK n \in DOMAIN modules : m = modules[n]
    BY DEF ToSet
  <2>2. support = "supported"
    BY <1>1, <1>3, <2>1
  <2>3. PICK j \in DOMAIN artifacts :
          artifacts[j] = [id |-> m.artifact, kind |-> "llvm", length |-> 1]
    BY <1>1, <2>1 DEF ModulesCollected
  <2>4. artifacts[j] \in ToSet(artifacts)
    BY DEF ToSet
  <2>5. ValidRange(m.artifact, "llvm", 0)
    BY <2>3, <2>4 DEF ValidRange
  <2> QED
    BY <1>1, <1>2, <2>1, <2>2, <2>5 DEF ModulesCollected
<1>9. PlacementsHaveModules
  <2>1. SUFFICES ASSUME support = "supported", NEW p \in RecordSet(manifest, "placement")
                 PROVE  \E m \in ToSet(modules) : m.unit = p.unit
    BY <1>2 DEF PlacementsHaveModules
  <2>2. p.unit \in Units
    <3>1. PICK k \in Positions(manifest, "placement") : p = manifest[k]
      BY DEF RecordSet
    <3>2. PICK q \in placements : p = PlacementRecord(q[2], q[1], manifest[k].source)
      BY <1>1, <3>1, ShapeOfKind DEF Streamed, Stream, Positions, PlacementFits
    <3>3. q[1] \in Units
      BY <1>1 DEF TypeOK
    <3> QED
      BY <3>2, <3>3 DEF PlacementRecord
  <2>3. PICK n \in DOMAIN Expected : Expected[n].unit = p.unit
    BY <1>1, <2>1, <2>2, UnitsExpected
  <2>4. n \in DOMAIN modules /\ modules[n].unit = p.unit
    BY <1>1, <1>3, <1>4, <2>1, <2>3 DEF ModulesCollected
  <2> QED
    BY <2>4 DEF ToSet
<1>10. ASSUME NEW a \in ToSet(artifacts), a.kind = "llvm"
       PROVE  \E m \in ToSet(modules) : m.artifact = a.id
  <2>1. PICK j \in DOMAIN artifacts : a = artifacts[j]
    BY DEF ToSet
  <2>2. PICK n \in DOMAIN modules : modules[n].artifact = a.id
    BY <1>1, <1>10, <2>1 DEF ModulesCollected
  <2> QED
    BY <2>2 DEF ToSet
<1> QED
  BY <1>2, <1>5, <1>6, <1>7, <1>8, <1>9, <1>10 DEF ValidManifest

LEMMA ValidateIInv == ASSUME IInv, Validate PROVE IInv'
<1> USE DEF Validate, Goto, driverVars, opticVars
<1>1. /\ SourcesCollected /\ ModulesCollected /\ support = Decision(build) /\ ValidManifest
      /\ IF support = "supported" THEN Len(modules) = Len(Expected) ELSE modules = <<>>
  BY CollectedIsValid DEF IInv, Driven, Collected, Collecting
<1>2. UNCHANGED <<inputVars, support, manifest, snapshots, unit, item, directory, artifacts, modules>>
      /\ step' = "accepted"
  BY <1>1
<1>3. TypeOK'
  BY <1>2 DEF IInv, TypeOK, inputVars
<1>4. Driven'
  <2>1. Streamed' /\ IsInjective(snapshots') /\ support' = Decision(build)'
    BY <1>1, <1>2, WrittenFrame DEF IInv, Driven
  <2> QED
    BY <1>2, <2>1 DEF Driven, Unwritten, Driving, Reading, IsInjective
<1>5. Collected'
  <2>1. SourcesCollected' /\ ModulesCollected' /\ Len(Expected') = Len(Expected) /\ ValidManifest'
    BY <1>1, <1>2, CollectedFrame
  <2> QED
    BY <1>1, <1>2, <2>1 DEF Collected, Collecting
<1>6. faults' = 0 => Undisturbed'
  BY <1>2, WrittenFrame DEF IInv, Undisturbed, Unwritten, Driving, Reading
<1> QED
  BY <1>3, <1>4, <1>5, <1>6 DEF IInv

-----------------------------------------------------------------------------
(* What goes wrong outside.                                                *)

LEMMA FaultCounts ==
  ASSUME TypeOK, Fault
  PROVE  faults' \in 0 .. MaxFaults /\ faults' # 0
BY Constants DEF TypeOK, Fault

LEMMA MovePathIInv == ASSUME IInv, NEW f \in Files, MovePath(f) PROVE IInv'
<1> USE DEF MovePath, opticVars
<1>1. faults' \in 0 .. MaxFaults /\ faults' # 0
  BY FaultCounts DEF IInv
<1>2. UNCHANGED <<inputVars, support, manifest, snapshots, unit, item>>
      /\ UNCHANGED <<step, directory, artifacts, modules, nextId, bitcode>>
      /\ reachable' \in SUBSET Files
  BY DEF IInv, TypeOK
<1>3. TypeOK'
  BY <1>1, <1>2 DEF IInv, TypeOK, inputVars
<1>4. Driven'
  BY <1>2, WrittenFrame DEF IInv, Driven, Unwritten, Driving, Reading
<1>5. Collected'
  BY <1>2 DEF Collected, Collecting, DriverRuns
<1> QED
  BY <1>1, <1>3, <1>4, <1>5 DEF IInv

LEMMA DamageSnapshotIInv == ASSUME IInv, NEW id \in Ids, DamageSnapshot(id) PROVE IInv'
<1>1. faults' \in 0 .. MaxFaults /\ faults' # 0
  BY FaultCounts DEF IInv, DamageSnapshot
<1>2. UNCHANGED <<inputVars, support, manifest, snapshots, unit, item>>
      /\ UNCHANGED <<step, reachable, artifacts, modules, nextId, bitcode>>
      /\ id \in DOMAIN directory /\ DriverRuns
  BY DEF DamageSnapshot, driverVars, opticVars
<1>3. \/ directory' = [directory EXCEPT ![id].length = 0]
      \/ directory' = [k \in DOMAIN directory \ {id} |-> directory[k]]
  BY DEF DamageSnapshot
<1>4. step # "observe"
  BY <1>2 DEF IInv, Driven, Unwritten
<1>5. step \in Driving
  BY <1>2, <1>4 DEF DriverRuns, Driving
<1>6. \A p \in DOMAIN directory :
        /\ p + 1 \in DOMAIN snapshots
        /\ \E n \in {0, TextLength} :
             directory[p] = [text |-> snapshots[p + 1], length |-> n]
  BY <1>5 DEF IInv, Driven
<1>7. ASSUME NEW p \in DOMAIN directory'
      PROVE  /\ p \in DOMAIN directory
             /\ \/ directory'[p] = directory[p]
                \/ directory'[p] = [text |-> directory[p].text, length |-> 0]
  <2>1. CASE directory' = [directory EXCEPT ![id].length = 0]
    <3>1. p \in DOMAIN directory /\ directory'[p] = IF p = id THEN [directory[p] EXCEPT !.length = 0]
                                                   ELSE directory[p]
      BY <2>1
    <3>2. PICK n : directory[p] = [text |-> snapshots[p + 1], length |-> n]
      BY <1>6, <3>1
    <3>3. [directory[p] EXCEPT !.length = 0] = [text |-> directory[p].text, length |-> 0]
      BY <3>2
    <3> QED
      BY <3>1, <3>3
  <2>2. CASE directory' = [k \in DOMAIN directory \ {id} |-> directory[k]]
    BY <2>2
  <2> QED
    BY <1>3, <2>1, <2>2
<1>8. \A p \in DOMAIN directory' :
        /\ p + 1 \in DOMAIN snapshots
        /\ \E n \in {0, TextLength} :
             directory'[p] = [text |-> snapshots[p + 1], length |-> n]
  BY <1>6, <1>7
<1>9. TypeOK'
  <2>1. DOMAIN directory' \subseteq Nat
    BY <1>7 DEF IInv, TypeOK
  <2>2. ASSUME NEW p \in DOMAIN directory'
        PROVE  directory'[p] \in [text : Texts, length : Nat]
    <3>1. directory[p] \in [text : Texts, length : Nat]
      BY <1>7 DEF IInv, TypeOK
    <3> QED
      BY <1>7, <3>1
  <2> QED
    BY <1>1, <1>2, <2>1, <2>2 DEF IInv, TypeOK, inputVars
<1>10. Driven'
  <2>1. Streamed' /\ Opened' /\ Pending' = Pending /\ Decision(build)' = Decision(build)
    BY <1>2, <1>5, WrittenFrame DEF IInv, Driven
  <2>2. step \notin Unwritten \cup {"configure", "refused"}
    BY <1>5 DEF Driving, Unwritten
  <2> QED
    BY <1>2, <1>5, <1>8, <2>1, <2>2 DEF IInv, Driven, Unwritten, Driving, Reading, IsInjective
<1>11. Collected'
  BY <1>2, <1>5 DEF Collected, Collecting, Driving
<1> QED
  BY <1>1, <1>9, <1>10, <1>11 DEF IInv

\* Wherever a manifest is cut, what is left is a stream of the same shape, which
\* has an end only if it is whole.
LEMMA DamageManifestIInv == ASSUME IInv, DamageManifest PROVE IInv'
<1>1. faults' \in 0 .. MaxFaults /\ faults' # 0
  BY FaultCounts DEF IInv, DamageManifest
<1>2. UNCHANGED <<inputVars, step, reachable, unit, item, support, snapshots, bitcode, directory>>
      /\ UNCHANGED <<artifacts, modules, nextId>> /\ step = "decode"
  BY DEF DamageManifest, opticVars
<1>3. /\ manifest \in Seq(RecordValues) /\ Len(manifest) \in Nat
      /\ snapshots \in Seq(Files) /\ unit \in Nat /\ item \in Nat
      /\ Stream(manifest, snapshots, unit, item)
  BY Constants DEF IInv, TypeOK, Driven, Streamed
<1>4. manifest' \in Seq(RecordValues) /\ Stream(manifest', snapshots, unit, item)
  <2>1. ASSUME NEW n \in 0 .. Len(manifest)
        PROVE  /\ SubSeq(manifest, 1, n) \in Seq(RecordValues)
               /\ Stream(SubSeq(manifest, 1, n), snapshots, unit, item)
    BY <1>3, StreamCut
  <2>2. ASSUME NEW n \in 0 .. Len(manifest), manifest' = Append(SubSeq(manifest, 1, n), TornRecord)
        PROVE  manifest' \in Seq(RecordValues) /\ Stream(manifest', snapshots, unit, item)
    <3> DEFINE m == SubSeq(manifest, 1, n)
    <3>1. m \in Seq(RecordValues) /\ Stream(m, snapshots, unit, item)
      BY <2>1
    <3>2. manifest' = Append(m, TornRecord)
      BY <2>2
    <3> HIDE DEF m
    <3>3. TornRecord \in RecordValues /\ TornRecord # EndRecord /\ Fresh(m, TornRecord)
      BY RecordTypes DEF Fresh, TornRecord, EndRecord
    <3>4. Append(m, TornRecord)[Len(m) + 1] = TornRecord
      BY <3>1
    <3>5. Fits(Append(m, TornRecord), snapshots, unit, item, Len(m) + 1)
      BY <3>4 DEF Fits
    <3>6. \A h \in DOMAIN snapshots : h \in DOMAIN snapshots /\ snapshots[h] = snapshots[h]
      OBVIOUS
    <3>7. unit <= unit /\ \A p \in placements : Reached(p, unit, item) => Reached(p, unit, item)
      BY <1>3
    <3> QED
      BY <1>3, <3>1, <3>2, <3>3, <3>5, <3>6, <3>7, StreamAppended
  <2>3. \/ \E n \in 0 .. Len(manifest) - 1 : manifest' = SubSeq(manifest, 1, n)
        \/ \E n \in 0 .. Len(manifest) : manifest' = Append(SubSeq(manifest, 1, n), TornRecord)
    BY DEF DamageManifest
  <2>4. 0 .. Len(manifest) - 1 \subseteq 0 .. Len(manifest)
    BY <1>3
  <2> QED
    BY <2>1, <2>2, <2>3, <2>4
<1>5. TypeOK'
  BY <1>1, <1>2, <1>4 DEF IInv, TypeOK, inputVars
<1>6. Driven'
  <2>1. UNCHANGED <<build, placements, definitions, support>>
    BY <1>2 DEF inputVars
  <2>2. Streamed'
    BY <1>2, <1>4, <2>1, StreamFrame
  <2> QED
    BY <1>2, <2>2, InputFrame DEF IInv, Driven, Unwritten, Driving, Reading
<1>7. Collected'
  BY <1>2 DEF Collected, Collecting
<1> QED
  BY <1>1, <1>5, <1>6, <1>7 DEF IInv

LEMMA LoseBitcodeIInv ==
  ASSUME IInv, NEW p \in Units \X Extensions, LoseBitcode(p) PROVE IInv'
<1> USE DEF LoseBitcode, opticVars
<1>1. faults' \in 0 .. MaxFaults /\ faults' # 0
  BY FaultCounts DEF IInv
<1>2. UNCHANGED <<inputVars, support, manifest, snapshots, unit, item>>
      /\ UNCHANGED <<step, reachable, directory, artifacts, modules, nextId>>
      /\ bitcode' \subseteq bitcode /\ step = "finish"
  OBVIOUS
<1>3. TypeOK'
  BY <1>1, <1>2 DEF IInv, TypeOK, inputVars
<1>4. Driven'
  BY <1>2, WrittenFrame DEF IInv, Driven, Unwritten, Driving, Reading
<1>5. Collected'
  BY <1>2 DEF Collected, Collecting
<1> QED
  BY <1>1, <1>3, <1>4, <1>5 DEF IInv

LEMMA FailIInv == ASSUME IInv, Fail PROVE IInv'
<1> USE DEF Fail, driverVars, opticVars
<1>1. faults' \in 0 .. MaxFaults /\ faults' # 0
  BY FaultCounts DEF IInv
<1>2. UNCHANGED <<inputVars, support, manifest, snapshots, unit, item>> /\ step' = "refused"
  OBVIOUS
<1>3. TypeOK'
  BY <1>1, <1>2 DEF IInv, TypeOK, inputVars
<1>4. Driven'
  <2>1. Streamed' /\ IsInjective(snapshots')
    BY <1>2, WrittenFrame DEF IInv, Driven
  <2> QED
    BY <1>2, <2>1 DEF Driven, Unwritten, Driving, Reading, IsInjective
<1>5. Collected'
  BY <1>2 DEF Collected, Collecting
<1> QED
  BY <1>1, <1>3, <1>4, <1>5 DEF IInv

LEMMA StutterIInv == ASSUME IInv, UNCHANGED vars PROVE IInv'
<1>1. UNCHANGED <<inputVars, support, manifest, snapshots, unit, item>>
      /\ UNCHANGED <<step, reachable, directory, bitcode, artifacts, modules, nextId, faults>>
  BY DEF vars, inputVars, driverVars, opticVars
<1>2. TypeOK'
  BY <1>1 DEF IInv, TypeOK, inputVars
<1>3. Driven'
  BY <1>1, WrittenFrame DEF IInv, Driven, Unwritten, Driving, Reading
<1>4. Collected'
  <2>1. Decodes(manifest)' = Decodes(manifest)
    BY <1>1, ManifestFrame
  <2> QED
    BY <1>1, <2>1, CollectedFrame DEF IInv, Collected
<1>5. faults' = 0 => Undisturbed'
  <2>1. ConfigurationRecord(build, support)' = ConfigurationRecord(build, support)
    BY <1>1 DEF inputVars, ConfigurationRecord, SessionLto
  <2> QED
    BY <1>1, <2>1, WrittenFrame
       DEF IInv, Undisturbed, Unwritten, Driving, Reading, Snapshot, EndRecord
<1> QED
  BY <1>2, <1>3, <1>4, <1>5 DEF IInv

-----------------------------------------------------------------------------
LEMMA NextIInv == IInv /\ [Next]_vars => IInv'
<1> SUFFICES ASSUME IInv, [Next]_vars PROVE IInv'
  OBVIOUS
<1>1. CASE Configure \/ WriteConfiguration \/ NextUnit \/ WritePlacement \/ EndAnalysis
           \/ Generate \/ FinishManifest
  BY <1>1, ConfigureIInv, WriteConfigurationIInv, NextUnitIInv, WritePlacementIInv,
     EndAnalysisIInv, GenerateIInv, FinishManifestIInv
<1>2. CASE Read \/ CollectSources \/ PrepareModules \/ CollectModule \/ FinishModules
           \/ Validate
  BY <1>2, ReadIInv, CollectSourcesIInv, PrepareModulesIInv, CollectModuleIInv,
     FinishModulesIInv, ValidateIInv
<1>3. CASE \E f \in Files : MovePath(f)
  BY <1>3, MovePathIInv
<1>4. CASE \E id \in Ids : DamageSnapshot(id)
  BY <1>4, DamageSnapshotIInv
<1>5. CASE \E p \in Units \X Extensions : LoseBitcode(p)
  BY <1>5, LoseBitcodeIInv
<1>6. CASE DamageManifest \/ Fail
  BY <1>6, DamageManifestIInv, FailIInv
<1>7. CASE Terminated \/ UNCHANGED vars
  BY <1>7, StutterIInv DEF Terminated
<1> QED
  BY <1>1, <1>2, <1>3, <1>4, <1>5, <1>6, <1>7 DEF Next

LEMMA Invariance == Spec => []IInv
<1> QED
  BY InitIInv, NextIInv, PTL DEF Spec

\* Every record, file and artifact of a collection is of its type, whatever the
\* compilation, its partition and the faults.
THEOREM TypeCorrect == Spec => []TypeOK
<1>1. IInv => TypeOK
  BY DEF IInv
<1> QED
  BY <1>1, Invariance, PTL

\* Of any number of units, functions and files, and with any faults between the
\* driver's snapshot of a file and the last module that Optic writes beside it, an
\* accepted collection has rustc's placements, neither more nor fewer, and each
\* source in it is the range that its definition has in a whole copy of the text.
THEOREM SourcesAlwaysExact == Spec => []AcceptedSourcesAreExact
<1>1. IInv => AcceptedSourcesAreExact
  <2> SUFFICES ASSUME IInv, step = "accepted" PROVE AcceptedSourcesAreExact
    BY DEF AcceptedSourcesAreExact, Accepted
  <2>1. TypeOK /\ Streamed /\ SourcesCollected /\ Decodes(manifest)
    BY DEF IInv, Driven, Collected, Collecting, SourcesCollected
  <2>2. manifest \in Seq(RecordValues) /\ manifest # <<>> /\ Last(manifest) = EndRecord
    BY <2>1 DEF TypeOK, Decodes
  <2>3. Len(manifest) \in DOMAIN manifest /\ manifest[Len(manifest)] = EndRecord
    BY <2>2 DEF Last
  <2>4. ASSUME NEW p \in RecordSet(manifest, "placement")
        PROVE  \E q \in placements, k \in DOMAIN manifest :
                 /\ p = manifest[k] /\ p.unit = q[1] /\ p.instance = q[2]
                 /\ SourceFits(manifest, snapshots, k)
    <3>1. PICK k \in Positions(manifest, "placement") : p = manifest[k]
      BY DEF RecordSet
    <3>2. k \in DOMAIN manifest /\ PlacementFits(manifest, snapshots, unit, item, k)
      BY <2>1, <3>1, ShapeOfKind DEF Streamed, Stream, Positions
    <3>3. PICK q \in placements : /\ p = PlacementRecord(q[2], q[1], p.source)
                                  /\ SourceFits(manifest, snapshots, k)
      BY <3>1, <3>2 DEF PlacementFits
    <3>4. p.unit = q[1] /\ p.instance = q[2]
      BY <3>3 DEF PlacementRecord
    <3> QED
      BY <3>1, <3>2, <3>3, <3>4
  <2>5. placements = {<<p.unit, p.instance>> : p \in RecordSet(manifest, "placement")}
    <3>1. \A q \in placements : q = <<q[1], q[2]>>
      BY <2>1 DEF TypeOK
    <3>2. ASSUME NEW q \in placements
          PROVE  \E p \in RecordSet(manifest, "placement") : q = <<p.unit, p.instance>>
      <4>1. PICK j \in 1 .. Len(manifest) - 1 : Places(manifest[j], q)
        BY <2>1, <2>3 DEF Streamed, Stream, EndsWhole
      <4>2. j \in DOMAIN manifest
        BY <2>2
      <4> QED
        BY <3>1, <4>1, <4>2 DEF Places, RecordSet, Positions
    <3> QED
      BY <2>4, <3>1, <3>2
  <2>6. ASSUME NEW p \in RecordSet(manifest, "placement"), p.source # NoSource
        PROVE  LET d == definitions[p.instance]
               IN  /\ p.source.end = d.end
                   /\ p.source.artifact \in DOMAIN directory
                   /\ directory[p.source.artifact] = [text |-> d.file, length |-> TextLength]
    <3> DEFINE d == definitions[p.instance]
    <3>1. PICK k \in DOMAIN manifest : p = manifest[k] /\ SourceFits(manifest, snapshots, k)
      BY <2>4
    <3>2. PICK n \in DOMAIN snapshots :
            /\ d.file = snapshots[n] /\ p.source = [artifact |-> n - 1, end |-> d.end]
            /\ \E j \in 1 .. k - 1 : manifest[j] = SourceFileRecord(n - 1, TextLength)
      BY <2>6, <3>1 DEF SourceFits
    <3>3. PICK j \in DOMAIN manifest : manifest[j] = SourceFileRecord(n - 1, TextLength)
      <4>1. 1 .. k - 1 \subseteq DOMAIN manifest
        BY <2>2
      <4> QED
        BY <3>2, <4>1
    <3>4. manifest[j].kind = "source" /\ manifest[j].id = n - 1
      BY <3>3 DEF SourceFileRecord
    <3>5. PICK h \in DOMAIN artifacts : artifacts[h].id = n - 1 /\ artifacts[h].kind = "source"
      BY <2>1, <3>4 DEF SourcesCollected
    <3>6. PICK i \in DOMAIN snapshots :
            /\ artifacts[h] = [id |-> i - 1, kind |-> "source", length |-> TextLength]
            /\ i - 1 \in DOMAIN directory /\ directory[i - 1] = Snapshot(i)
      BY <2>1, <3>5 DEF SourcesCollected
    <3>7. i = n
      <4>1. i \in Nat /\ n \in Nat
        BY SMTT(30), <2>1 DEF TypeOK
      <4>2. i - 1 = n - 1
        BY <3>5, <3>6
      <4> QED
        BY <4>1, <4>2
    <3>8. directory[n - 1] = [text |-> d.file, length |-> TextLength]
      BY <3>2, <3>6, <3>7 DEF Snapshot
    <3> QED
      BY <3>2, <3>6, <3>7, <3>8
  <2>7. \A p, q \in RecordSet(manifest, "placement") :
          p.instance = q.instance => p.source = q.source
    BY <2>1 DEF Decodes, AgreeOnSource
  <2> QED
    BY <2>5, <2>6, <2>7 DEF AcceptedSourcesAreExact
<1> QED
  BY <1>1, Invariance, PTL

\* Of any number of units, an accepted collection of a supported compilation has
\* the text of each, from the bitcode of its last stage and under an id that no
\* source snapshot has; any other compilation has none.
THEOREM ModulesAlwaysExact == Spec => []AcceptedModulesAreExact
<1>1. IInv => AcceptedModulesAreExact
  <2> SUFFICES ASSUME IInv, step = "accepted" PROVE AcceptedModulesAreExact
    BY DEF AcceptedModulesAreExact, Accepted
  <2>1. /\ TypeOK /\ Streamed /\ ModulesCollected /\ Decodes(manifest)
        /\ support = Decision(build) /\ build \in BuildOptions
        /\ IF support = "supported" THEN Len(modules) = Len(Expected) ELSE modules = <<>>
    BY Constants DEF IInv, TypeOK, Driven, Collected, Collecting, SourcesCollected
  <2>2. support = "supported" <=> Unsupported(build) = {}
    BY <2>1, DecisionFacts
  <2> DEFINE final == IF SessionLto(build) = "off" THEN "no-lto-optimized"
                      ELSE "local-thin-lto-post-pass-manager"
  <2>3. CASE support = "supported"
    <3>1. FinalStage = final
      <4>1. SessionLto(build) \in {"off", "local-thin"}
        BY <2>1, <2>2, <2>3, SessionOfSupported
      <4> QED
        BY <4>1 DEF FinalStage, Stage
    <3>2. DOMAIN modules = DOMAIN Expected
      <4>1. DOMAIN modules = 1 .. Len(modules)
        <5> DEFINE values == [artifact : Nat, unit : Units, stage : Stages]
        <5>1. modules \in Seq(values)
          BY <2>1 DEF TypeOK
        <5> HIDE DEF values
        <5> QED
          BY <5>1
      <4> QED
        BY <2>1, <2>3, <4>1, ExpectedFacts
    <3>3. \A n \in DOMAIN modules :
            /\ modules[n].unit = Expected[n].unit /\ modules[n].unit \in Units
            /\ modules[n].stage = final
            /\ directory[modules[n].artifact].text = <<modules[n].unit, final>>
      BY <2>1, <3>1, <3>2, ExpectedFacts DEF ModulesCollected
    <3>4. \A v \in Units : \E n \in DOMAIN modules : modules[n].unit = v
      BY <2>1, <2>3, <3>2, <3>3, UnitsExpected
    <3>5. {m.unit : m \in ToSet(modules)} = Units
      BY <3>3, <3>4 DEF ToSet
    <3>6. \A m \in ToSet(modules) :
            m.stage = final /\ directory[m.artifact].text = <<m.unit, final>>
      BY <3>3 DEF ToSet
    <3> QED
      BY <2>2, <2>3, <3>5, <3>6 DEF AcceptedModulesAreExact
  <2>4. CASE support # "supported"
    <3>1. ToSet(modules) = {}
      BY <2>1, <2>4 DEF ToSet
    <3> QED
      BY <2>2, <2>4, <3>1 DEF AcceptedModulesAreExact
  <2> QED
    BY <2>3, <2>4
<1> QED
  BY <1>1, Invariance, PTL

\* Without a fault no stage refuses: the decoder's and the records' rules, and the
\* driver's own second look at the session, ask nothing of a manifest that the
\* driver does not see to, for any compilation of any size.
THEOREM OnlyFaultsEverRefuse == Spec => []OnlyFaultsRefuse
<1>1. IInv => OnlyFaultsRefuse
  <2>1. TypeOK => faults \in Nat
    BY Constants DEF TypeOK
  <2> QED
    BY <2>1 DEF IInv, Undisturbed, OnlyFaultsRefuse
<1> QED
  BY <1>1, Invariance, PTL
=============================================================================

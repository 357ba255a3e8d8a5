---------------------------- MODULE Store_proofs ----------------------------
(***************************************************************************)
(* Proofs about the capture store: its initialisation, for any number of   *)
(* calls, overlapping as they like and interrupted between any two file    *)
(* system calls; then publication, for any number of publishers, readers,  *)
(* identities, keys, tokens and artifacts.                                 *)
(*                                                                         *)
(* IgnoredBeforeUse is not inductive: that a directory of the store may be *)
(* created follows from how far the call has come, and that the ignore     *)
(* file may be written from the call having created it.                    *)
(*                                                                         *)
(* The inductive invariant of publication says what a publisher has built  *)
(* by each of its steps, that no two publishers under way build the same   *)
(* capture, and that every pointer, whether a candidate or in the hands of *)
(* a reader, is backed by one directory that carries the very record it    *)
(* names: in the completed namespace if there is one, and otherwise in     *)
(* staging, where a failed publisher has left it.                          *)
(***************************************************************************)
EXTENDS StoreInitialization, StorePublication, TLAPS

-----------------------------------------------------------------------------
(* The initialisation of the store.                                        *)

\* A call that looks at the ignore file is between .optic and the rest.
Positions ==
  \A p \in Callers :
    /\ pc[p] = "idle" => next[p] = 1
    /\ pc[p] \in {"inspect", "open", "write"} => next[p] = 2

\* A call has found or made every directory before the one it is at.
Passed ==
  \A p \in Callers : \A i \in 1 .. next[p] - 1 : Chain[i] \in directories

\* The call that created the ignore file, and no other, is about to write it.
Writers ==
  \A p \in Callers : pc[p] = "write" =>
    ignore = "empty" /\ \A q \in Callers : pc[q] = "write" => p = q

\* A call goes past the ignore file only if it is complete, and only such calls
\* create directories of the store.
Ignored ==
  /\ \A p \in Callers :
       next[p] > 1 /\ pc[p] \in {"exists", "create"} => ignore = "valid"
  /\ directories \ {"optic"} # {} => ignore = "valid"

SetupIInv == SetupTypeOK /\ Positions /\ Passed /\ Writers /\ Ignored /\ IgnoredBeforeUse

-----------------------------------------------------------------------------
(* The chain of directories, and what moves a call along it.               *)

LEMMA ChainFacts ==
  /\ Len(Chain) = 5
  /\ Chain[1] = "optic"
  /\ \A i \in 1 .. 5 : Chain[i] \in Names
  /\ \A i \in 2 .. 5 : Chain[i] # "optic"
  /\ \A d \in Names : \E i \in 1 .. 5 : d = Chain[i]
BY DEF Chain, Names

\* A call moves one directory on, or ends after the last.
LEMMA AdvanceMoves ==
  ASSUME SetupTypeOK, NEW p \in Callers, Advance(p)
  PROVE  \/ /\ next[p] = 5
            /\ pc' = [pc EXCEPT ![p] = "idle"]
            /\ next' = [next EXCEPT ![p] = 1]
            /\ outcome' = [outcome EXCEPT ![p] = "ok"]
         \/ /\ next[p] # 5
            /\ pc' = [pc EXCEPT ![p] = IF next[p] = 1 THEN "inspect" ELSE "exists"]
            /\ next' = [next EXCEPT ![p] = next[p] + 1]
            /\ outcome' = outcome
BY ChainFacts DEF Advance, EndSetup

\* Apart from Advance, a step that leaves the call's position moves its counter
\* only and one that ends it never ends it well.
LEMMA Moves ==
  ASSUME SetupTypeOK, NEW p \in Callers, Begin(p) \/ Step(p) \/ InterruptSetup(p)
  PROVE  /\ \E step \in Steps : pc' = [pc EXCEPT ![p] = step]
         /\ \E i \in 1 .. 5 : next' = [next EXCEPT ![p] = i]
         /\ \E how \in {"none", "ok", "conflict", "failed"} :
              outcome' = [outcome EXCEPT ![p] = how]
<1>1. /\ next[p] \in 1 .. 5
      /\ pc[p] \in Steps /\ outcome[p] \in {"none", "ok", "conflict", "failed"}
      /\ outcome = [outcome EXCEPT ![p] = outcome[p]]
      /\ next = [next EXCEPT ![p] = next[p]]
  BY ChainFacts DEF SetupTypeOK
<1>2. CASE Advance(p)
  BY <1>1, <1>2, AdvanceMoves DEF Steps
<1>3. ASSUME NEW step \in Steps, MoveTo(p, step)
      PROVE  /\ \E s \in Steps : pc' = [pc EXCEPT ![p] = s]
             /\ \E i \in 1 .. 5 : next' = [next EXCEPT ![p] = i]
             /\ \E how \in {"none", "ok", "conflict", "failed"} :
                  outcome' = [outcome EXCEPT ![p] = how]
  BY <1>1, <1>3 DEF MoveTo
<1>4. ASSUME NEW how \in {"none", "ok", "conflict", "failed"}, EndSetup(p, how)
      PROVE  /\ \E s \in Steps : pc' = [pc EXCEPT ![p] = s]
             /\ \E i \in 1 .. 5 : next' = [next EXCEPT ![p] = i]
             /\ \E h \in {"none", "ok", "conflict", "failed"} :
                  outcome' = [outcome EXCEPT ![p] = h]
  <2>1. "idle" \in Steps /\ 1 \in 1 .. 5
    BY DEF Steps
  <2> QED
    BY <1>4, <2>1, Zenon DEF EndSetup
<1>5. CASE Begin(p)
  BY <1>1, <1>5 DEF Begin, Steps
<1>6. CASE Step(p) \/ InterruptSetup(p)
  <2>1. \/ Advance(p)
        \/ \E step \in Steps : MoveTo(p, step)
        \/ \E how \in {"none", "ok", "conflict", "failed"} : EndSetup(p, how)
    BY <1>6
       DEF Step, DirectoryExists, CreateDirectory, InspectIgnore, OpenIgnore,
           WriteIgnore, InterruptSetup, Steps
  <2> QED
    BY <1>2, <1>3, <1>4, <2>1
<1> QED
  BY <1>5, <1>6

\* What a step of one call leaves alone of the others.
LEMMA Others ==
  ASSUME SetupTypeOK, NEW p \in Callers, Begin(p) \/ Step(p) \/ InterruptSetup(p),
         NEW q \in Callers, q # p
  PROVE  pc'[q] = pc[q] /\ next'[q] = next[q] /\ outcome'[q] = outcome[q]
BY Moves DEF SetupTypeOK

\* Nothing that exists is removed, and a complete ignore file stays.
LEMMA Growth ==
  ASSUME NEW p \in Callers, Begin(p) \/ Step(p) \/ InterruptSetup(p)
  PROVE  /\ directories \subseteq directories'
         /\ ignore = "valid" => ignore' = "valid"
         /\ ignore' = ignore \/ OpenIgnore(p) \/ WriteIgnore(p)
         /\ directories' = directories \/ CreateDirectory(p)
BY DEF Begin, Step, DirectoryExists, CreateDirectory, InspectIgnore, OpenIgnore,
       WriteIgnore, InterruptSetup

LEMMA TypesPreserved ==
  ASSUME SetupTypeOK, [SetupNext]_setupVars
  PROVE  SetupTypeOK'
<1>1. ASSUME NEW p \in Callers, Begin(p) \/ Step(p) \/ InterruptSetup(p)
      PROVE  SetupTypeOK'
  <2>1. /\ pc' \in [Callers -> Steps]
        /\ next' \in [Callers -> 1 .. Len(Chain)]
        /\ outcome' \in [Callers -> {"none", "ok", "conflict", "failed"}]
    BY <1>1, Moves, ChainFacts DEF SetupTypeOK
  <2>2. ignore' \in IgnoreStates
    BY <1>1, Growth DEF SetupTypeOK, OpenIgnore, WriteIgnore, IgnoreStates
  <2>3. directories' \subseteq Names
    BY <1>1, Growth, ChainFacts DEF SetupTypeOK, CreateDirectory
  <2>4. interrupts' \in 0 .. MaxInterrupts
    BY <1>1, InterruptsAssumption
       DEF SetupTypeOK, Begin, Step, DirectoryExists, CreateDirectory, InspectIgnore,
           OpenIgnore, WriteIgnore, InterruptSetup
  <2> QED
    BY <2>1, <2>2, <2>3, <2>4 DEF SetupTypeOK
<1>2. CASE UNCHANGED setupVars
  BY <1>2 DEF SetupTypeOK, setupVars
<1> QED
  BY <1>1, <1>2 DEF SetupNext

-----------------------------------------------------------------------------
(* The parts of the invariant, one by one.                                 *)

LEMMA PositionsPreserved ==
  ASSUME SetupIInv, [SetupNext]_setupVars
  PROVE  Positions'
<1>1. SetupTypeOK /\ Positions
  BY DEF SetupIInv
<1>2. ASSUME NEW p \in Callers, Begin(p) \/ Step(p) \/ InterruptSetup(p)
      PROVE  Positions'
  <2>1. pc[p] \in Steps /\ next[p] \in 1 .. 5
    BY <1>1, ChainFacts DEF SetupTypeOK
  <2>2. (pc'[p] = "idle" => next'[p] = 1)
        /\ (pc'[p] \in {"inspect", "open", "write"} => next'[p] = 2)
    <3>1. CASE Advance(p)
      BY <1>1, <2>1, <3>1, AdvanceMoves DEF SetupTypeOK
    <3>2. CASE Begin(p) \/ \E how : EndSetup(p, how)
      BY <1>1, <3>2 DEF SetupTypeOK, Begin, EndSetup
    <3>3. CASE \/ DirectoryExists(p) /\ MoveTo(p, "create")
               \/ InspectIgnore(p) /\ \E step \in {"open", "exists"} : MoveTo(p, step)
               \/ OpenIgnore(p) /\ MoveTo(p, "write")
               \/ WriteIgnore(p) /\ MoveTo(p, "exists")
      BY <1>1, <3>3
         DEF SetupTypeOK, Positions, MoveTo, DirectoryExists, InspectIgnore, OpenIgnore,
             WriteIgnore
    <3> QED
      BY <1>2, <3>1, <3>2, <3>3
         DEF Step, DirectoryExists, CreateDirectory, InspectIgnore, OpenIgnore,
             WriteIgnore, InterruptSetup
  <2> QED
    BY <1>1, <1>2, <2>2, Others DEF Positions
<1>3. CASE UNCHANGED setupVars
  BY <1>1, <1>3 DEF Positions, setupVars
<1> QED
  BY <1>2, <1>3 DEF SetupNext

LEMMA PassedPreserved ==
  ASSUME SetupIInv, [SetupNext]_setupVars
  PROVE  Passed'
<1>1. SetupTypeOK /\ Passed
  BY DEF SetupIInv
<1>2. ASSUME NEW p \in Callers, Begin(p) \/ Step(p) \/ InterruptSetup(p)
      PROVE  Passed'
  <2>1. next[p] \in 1 .. 5
    BY <1>1, ChainFacts DEF SetupTypeOK
  <2>2. ASSUME Advance(p), Chain[next[p]] \in directories'
        PROVE  \A i \in 1 .. next'[p] - 1 : Chain[i] \in directories'
    <3>1. next'[p] = 1 \/ next'[p] = next[p] + 1
      BY <1>1, <2>2, AdvanceMoves DEF SetupTypeOK
    <3>2. \A i \in 1 .. next[p] - 1 : Chain[i] \in directories'
      BY <1>1, <1>2, Growth DEF Passed
    <3> QED
      BY <2>1, <2>2, <3>1, <3>2
  <2>3. CASE (DirectoryExists(p) \/ CreateDirectory(p)) /\ Advance(p)
    <3>1. Chain[next[p]] \in directories'
      BY <1>1, <2>3 DEF DirectoryExists, CreateDirectory, MoveTo, EndSetup, Advance, SetupTypeOK
    <3> QED
      BY <1>1, <1>2, <2>2, <2>3, <3>1, Others, Growth DEF Passed
  <2>4. CASE ~((DirectoryExists(p) \/ CreateDirectory(p)) /\ Advance(p))
    <3>1. next'[p] \in {1, next[p]}
      BY <1>1, <1>2, <2>4
         DEF SetupTypeOK, Begin, Step, DirectoryExists, CreateDirectory, InspectIgnore,
             OpenIgnore, WriteIgnore, InterruptSetup, MoveTo, EndSetup
    <3> QED
      BY <1>1, <1>2, <2>1, <3>1, Others, Growth DEF Passed
  <2> QED
    BY <2>3, <2>4
<1>3. CASE UNCHANGED setupVars
  BY <1>1, <1>3 DEF Passed, setupVars
<1> QED
  BY <1>2, <1>3 DEF SetupNext

LEMMA WritersPreserved ==
  ASSUME SetupIInv, [SetupNext]_setupVars
  PROVE  Writers'
<1>1. SetupTypeOK /\ Writers
  BY DEF SetupIInv
<1>2. ASSUME NEW p \in Callers, Begin(p) \/ Step(p) \/ InterruptSetup(p)
      PROVE  Writers'
  <2>1. CASE OpenIgnore(p)
    <3>1. CASE ignore = "absent"
      <4>1. ignore' = "empty" /\ \A q \in Callers : pc[q] # "write"
        BY <1>1, <2>1, <3>1 DEF OpenIgnore, Writers
      <4> QED
        BY <1>1, <1>2, <4>1, Others DEF Writers
    <3>2. CASE ignore # "absent"
      <4>1. ignore' = ignore /\ pc'[p] = "idle"
        BY <1>1, <2>1, <3>2 DEF OpenIgnore, EndSetup, SetupTypeOK
      <4> QED
        BY <1>1, <1>2, <4>1, Others DEF Writers
    <3> QED
      BY <3>1, <3>2
  <2>2. CASE WriteIgnore(p)
    <3>1. pc'[p] = "exists" /\ \A q \in Callers : q # p => pc[q] # "write"
      BY <1>1, <2>2 DEF WriteIgnore, MoveTo, SetupTypeOK, Writers
    <3> QED
      BY <1>1, <1>2, <3>1, Others DEF Writers
  <2>3. CASE ~OpenIgnore(p) /\ ~WriteIgnore(p)
    <3>1. ignore' = ignore
      BY <1>2, <2>3, Growth
    <3>2. pc'[p] # "write"
      <4>1. CASE Advance(p)
        BY <1>1, <4>1, AdvanceMoves DEF SetupTypeOK
      <4> QED
        BY <1>1, <1>2, <2>3, <4>1
           DEF SetupTypeOK, Begin, Step, DirectoryExists, CreateDirectory, InspectIgnore,
               InterruptSetup, MoveTo, EndSetup
    <3> QED
      BY <1>1, <1>2, <3>1, <3>2, Others DEF Writers
  <2> QED
    BY <2>1, <2>2, <2>3
<1>3. CASE UNCHANGED setupVars
  BY <1>1, <1>3 DEF Writers, setupVars
<1> QED
  BY <1>2, <1>3 DEF SetupNext

LEMMA IgnoredPreserved ==
  ASSUME SetupIInv, [SetupNext]_setupVars
  PROVE  Ignored'
<1>1. SetupTypeOK /\ Positions /\ Ignored
  BY DEF SetupIInv
<1>2. ASSUME NEW p \in Callers, Begin(p) \/ Step(p) \/ InterruptSetup(p)
      PROVE  Ignored'
  <2>1. next[p] \in 1 .. 5
    BY <1>1, ChainFacts DEF SetupTypeOK
  <2>2. next'[p] > 1 /\ pc'[p] \in {"exists", "create"} => ignore' = "valid"
    <3>1. CASE Advance(p)
      <4>1. \/ next[p] > 1 /\ pc[p] \in {"exists", "create"}
            \/ pc'[p] \in {"idle", "inspect"}
        BY <1>1, <1>2, <2>1, <3>1, AdvanceMoves
           DEF SetupTypeOK, Begin, Step, DirectoryExists, CreateDirectory, InspectIgnore,
               OpenIgnore, WriteIgnore, InterruptSetup, MoveTo, EndSetup
      <4> QED
        BY <1>1, <1>2, <4>1, Growth DEF Ignored
    <3>2. CASE Begin(p) \/ \E how : EndSetup(p, how)
      BY <1>1, <3>2 DEF SetupTypeOK, Positions, Begin, EndSetup
    <3>3. CASE DirectoryExists(p) /\ MoveTo(p, "create")
      BY <1>1, <1>2, <3>3, Growth DEF SetupTypeOK, Ignored, DirectoryExists, MoveTo
    <3>4. CASE \/ InspectIgnore(p) /\ MoveTo(p, "open")
               \/ InspectIgnore(p) /\ ignore = "valid"
               \/ OpenIgnore(p) /\ MoveTo(p, "write")
               \/ WriteIgnore(p)
      BY <1>1, <3>4 DEF SetupTypeOK, InspectIgnore, WriteIgnore, MoveTo
    <3> QED
      BY <1>2, <3>1, <3>2, <3>3, <3>4
         DEF Step, DirectoryExists, CreateDirectory, InspectIgnore, OpenIgnore, InterruptSetup
  <2>3. directories' \ {"optic"} # {} => ignore' = "valid"
    <3>1. CASE CreateDirectory(p) /\ Chain[next[p]] # "optic"
      BY <1>1, <1>2, <2>1, <3>1, Growth, ChainFacts DEF CreateDirectory, Ignored
    <3>2. CASE ~(CreateDirectory(p) /\ Chain[next[p]] # "optic")
      <4>1. directories' \ {"optic"} = directories \ {"optic"}
        BY <1>2, <3>2, Growth DEF CreateDirectory
      <4> QED
        BY <1>1, <1>2, <4>1, Growth DEF Ignored
    <3> QED
      BY <3>1, <3>2
  <2> QED
    BY <1>1, <1>2, <2>2, <2>3, Others, Growth DEF Ignored
<1>3. CASE UNCHANGED setupVars
  BY <1>1, <1>3 DEF Ignored, setupVars
<1> QED
  BY <1>2, <1>3 DEF SetupNext

\* Only the last directory ends a call well, and then all others exist.
LEMMA UsePreserved ==
  ASSUME SetupIInv, [SetupNext]_setupVars
  PROVE  IgnoredBeforeUse'
<1>1. SetupTypeOK /\ Passed /\ Ignored /\ IgnoredBeforeUse
  BY DEF SetupIInv
<1>2. SetupTypeOK' /\ Ignored'
  BY TypesPreserved, IgnoredPreserved DEF SetupIInv
<1>3. "store" \in directories' => ignore' = "valid"
  BY <1>2 DEF Ignored
<1>4. ASSUME NEW p \in Callers, Begin(p) \/ Step(p) \/ InterruptSetup(p), outcome'[p] = "ok"
      PROVE  ignore' = "valid" /\ directories' = Names
  <2>1. CASE (DirectoryExists(p) \/ CreateDirectory(p)) /\ Advance(p)
    <3>1. CASE next[p] = 5
      <4>1. \A i \in 1 .. 4 : Chain[i] \in directories
        BY <1>1, <3>1 DEF Passed
      <4>2. Chain[5] \in directories'
        BY <1>1, <2>1, <3>1
           DEF DirectoryExists, CreateDirectory, MoveTo, EndSetup, Advance, SetupTypeOK
      <4>3. \A i \in 1 .. 5 : Chain[i] \in directories'
        BY <1>4, <4>1, <4>2, Growth
      <4>4. directories' = Names
        BY <1>2, <4>3, ChainFacts DEF SetupTypeOK
      <4> QED
        BY <1>2, <4>4, ChainFacts DEF Ignored
    <3>2. CASE next[p] # 5
      <4>1. outcome' = outcome
        BY <1>1, <2>1, <3>2, AdvanceMoves
      <4> QED
        BY <1>1, <1>2, <1>4, <4>1, Growth DEF IgnoredBeforeUse, SetupTypeOK
    <3> QED
      BY <3>1, <3>2
  <2>2. CASE ~((DirectoryExists(p) \/ CreateDirectory(p)) /\ Advance(p))
    <3>1. outcome[p] = "ok"
      BY <1>1, <1>4, <2>2
         DEF SetupTypeOK, Begin, Step, DirectoryExists, CreateDirectory, InspectIgnore,
             OpenIgnore, WriteIgnore, InterruptSetup, MoveTo, EndSetup
    <3> QED
      BY <1>1, <1>2, <1>4, <3>1, Growth DEF IgnoredBeforeUse, SetupTypeOK
  <2> QED
    BY <2>1, <2>2
<1>5. ASSUME NEW p \in Callers, Begin(p) \/ Step(p) \/ InterruptSetup(p)
      PROVE  IgnoredBeforeUse'
  <2>1. ASSUME NEW q \in Callers, q # p, outcome'[q] = "ok"
        PROVE  ignore' = "valid" /\ directories' = Names
    BY <1>1, <1>2, <1>5, <2>1, Others, Growth DEF IgnoredBeforeUse, SetupTypeOK
  <2> QED
    BY <1>3, <1>4, <1>5, <2>1 DEF IgnoredBeforeUse
<1>6. CASE UNCHANGED setupVars
  BY <1>1, <1>6 DEF IgnoredBeforeUse, setupVars
<1> QED
  BY <1>5, <1>6 DEF SetupNext

-----------------------------------------------------------------------------
(* The invariant and what it establishes.                                  *)

LEMMA InitEstablishes == SetupInit => SetupIInv
<1> SUFFICES ASSUME SetupInit PROVE SetupIInv
  OBVIOUS
<1>1. SetupTypeOK
  BY InterruptsAssumption, ChainFacts DEF SetupInit, SetupTypeOK, IgnoreStates, Steps
<1>2. Positions /\ Passed /\ Writers /\ Ignored /\ IgnoredBeforeUse
  BY DEF SetupInit, Positions, Passed, Writers, Ignored, IgnoredBeforeUse
<1> QED
  BY <1>1, <1>2 DEF SetupIInv

LEMMA StepPreserves == SetupIInv /\ [SetupNext]_setupVars => SetupIInv'
<1> SUFFICES ASSUME SetupIInv, [SetupNext]_setupVars PROVE SetupIInv'
  OBVIOUS
<1>1. SetupTypeOK'
  BY TypesPreserved DEF SetupIInv
<1> QED
  BY <1>1, PositionsPreserved, PassedPreserved, WritersPreserved, IgnoredPreserved,
     UsePreserved DEF SetupIInv

\* However calls overlap and whatever interrupts them, SetupIInv holds throughout.
THEOREM SetupInvariance == SetupSpec => []SetupIInv
BY InitEstablishes, StepPreserves, PTL DEF SetupSpec

\* Every variable of the calls and of .optic has its type.
THEOREM SetupTypeCorrect == SetupSpec => []SetupTypeOK
<1>1. SetupIInv => SetupTypeOK
  BY DEF SetupIInv
<1> QED
  BY <1>1, SetupInvariance, PTL

\* Store::initialize never lets a directory of the store exist before the
\* complete ignore file, and returns well only with all of it in place, even if
\* another call was interrupted or is still under way.
THEOREM AlwaysIgnoredBeforeUse == SetupSpec => []IgnoredBeforeUse
<1>1. SetupIInv => IgnoredBeforeUse
  BY DEF SetupIInv
<1> QED
  BY <1>1, SetupInvariance, PTL

\* No call of Store::initialize touches ignore contents of the owner's, nor an
\* empty file that an interrupted call has left: only its creator writes it.
THEOREM ConflictsAlwaysRemain == SetupSpec => ConflictsRemain
<1>1. SetupIInv /\ [SetupNext]_setupVars => [ignore = "foreign" \/ Unwritten => ignore' = ignore]_setupVars
  <2> SUFFICES ASSUME SetupIInv, [SetupNext]_setupVars, ignore = "foreign" \/ Unwritten
               PROVE  ignore' = ignore
    OBVIOUS
  <2>1. ASSUME NEW p \in Callers, Begin(p) \/ Step(p) \/ InterruptSetup(p)
        PROVE  ignore' = ignore
    <3>1. pc[p] # "write" /\ ignore # "absent"
      BY DEF SetupIInv, Writers, Unwritten
    <3> QED
      BY <2>1, <3>1, Growth DEF OpenIgnore, WriteIgnore
  <2> QED
    BY <2>1 DEF SetupNext, setupVars
<1> QED
  BY <1>1, SetupInvariance, PTL DEF SetupSpec, ConflictsRemain

-----------------------------------------------------------------------------
(* Publication into the store.                                             *)

\* The steps of a publisher that owns a staging directory.
Building ==
  {"header", "instances", "artifacts", "pointer", "replace", "commit"}

InFlightDistinct ==
  \A p, q \in Publishers :
    p # q /\ ~At(p, "idle") /\ ~At(q, "idle") => work[p].id # work[q].id

ScopeMatches ==
  \A p \in Publishers : ~At(p, "idle") => scope[p] = work[p].id

\* What p has found and built by the time it is at each step.
Progress(p) ==
  /\ ppc[p] \in Building \cup {"stage"} => captures[work[p].id] = Absent
  /\ ppc[p] \in Building => Staged(p) # Absent
  /\ At(p, "header") => Staged(p) = NewDirectory
  /\ ppc[p] \in Building \ {"header"} => Staged(p).header = work[p]
  /\ ppc[p] \in Building \ {"header", "instances"} =>
       Staged(p).instances = work[p].id
  /\ ppc[p] \in {"pointer", "replace", "commit"} =>
       Staged(p).artifacts = Artifacts
  /\ At(p, "replace") => Staged(p).pointer = work[p]
  /\ ppc[p] \in Building \ {"replace"} => Staged(p).pointer = Absent

AllProgress == \A p \in Publishers : Progress(p)

\* The directory that carries c: completed, or else staged.
Backed(c) ==
  IF captures[c.id] # Absent
    THEN captures[c.id].header = c
    ELSE staging[c.id] # Absent /\ staging[c.id].header = c

CandidatesBacked ==
  \A k \in Keys : candidates[k] # Absent =>
    candidates[k].key = k /\ Backed(candidates[k])

\* A reader past OpenDirectory reads a completed capture, and the pointer it
\* came by is backed.
ReadersBacked ==
  \A r \in Readers :
    /\ pointer[r] # Absent => Backed(pointer[r]) /\ pointer[r].id = goal[r]
    /\ rpc[r] \in {"idle", "entries"} => pointer[r] = Absent
    /\ rpc[r] \in {"header", "evidence"} => captures[goal[r]] # Absent

IInv ==
  /\ TypeOK
  /\ InFlightDistinct
  /\ ScopeMatches
  /\ AllProgress
  /\ CompletedIsWhole
  /\ CandidatesBacked
  /\ ReadersBacked
  /\ ReadersNeverFail


-----------------------------------------------------------------------------
(* Facts about the constants.                                              *)

LEMMA AbsentDistinct ==
  /\ Absent \notin Captures /\ Absent \notin Ids /\ Absent \notin Directories
  /\ Torn \notin Captures /\ Torn \notin Ids /\ Absent # Torn
BY StoreAssumption

LEMMA NewDirectoryType == NewDirectory \in Directories
BY DEF NewDirectory, Directories

\* The initial state satisfies the invariant.
LEMMA InitIInv == Init => IInv
<1> SUFFICES ASSUME Init PROVE IInv
  OBVIOUS
<1>1. TypeOK
  BY DEF Init, TypeOK, StoreTypeOK, PublishersTypeOK, ReadersTypeOK,
     PublisherSteps, ReaderSteps
<1>2. InFlightDistinct /\ ScopeMatches /\ AllProgress
  BY DEF Init, InFlightDistinct, ScopeMatches, AllProgress, Progress, At, Building
<1>3. CompletedIsWhole /\ CandidatesBacked
  BY DEF Init, CompletedIsWhole, CandidatesBacked
<1>4. ReadersBacked /\ ReadersNeverFail
  BY DEF Init, ReadersBacked, ReadersNeverFail
<1> QED
  BY <1>1, <1>2, <1>3, <1>4 DEF IInv

-----------------------------------------------------------------------------
(* Readers.                                                                *)

\* The parts of the invariant that readers do not disturb, and their own.
PublisherPart ==
  /\ StoreTypeOK
  /\ PublishersTypeOK
  /\ InFlightDistinct
  /\ ScopeMatches
  /\ AllProgress
  /\ CompletedIsWhole
  /\ CandidatesBacked

ReaderPart == ReadersTypeOK /\ ReadersBacked /\ ReadersNeverFail

LEMMA IInvParts == IInv <=> PublisherPart /\ ReaderPart
BY DEF IInv, TypeOK, PublisherPart, ReaderPart

\* A step of a reader leaves the store and the publishers alone.
LEMMA ReaderStepFrame ==
  ASSUME NEW r \in Readers, ReaderStep(r)
  PROVE  UNCHANGED <<storeVars, publisherVars>>
BY DEF ReaderStep, ReadPointer, ReadInstances, OpenDirectory, ReadHeader,
       ReadEvidence, OpenList, ListEntry, CloseList

LEMMA ReaderKeepsPublishers ==
  ASSUME PublisherPart, UNCHANGED <<storeVars, publisherVars>>
  PROVE  PublisherPart'
<1>1. StoreTypeOK' /\ PublishersTypeOK'
  BY DEF PublisherPart, StoreTypeOK, PublishersTypeOK, storeVars, publisherVars
<1>2. InFlightDistinct' /\ ScopeMatches' /\ AllProgress'
  BY DEF PublisherPart, InFlightDistinct, ScopeMatches, AllProgress, Progress,
     Staged, At, storeVars, publisherVars
<1>3. CompletedIsWhole'
  BY DEF PublisherPart, CompletedIsWhole, HeaderValid, EvidenceValid, storeVars
<1>4. CandidatesBacked'
  BY DEF PublisherPart, CandidatesBacked, Backed, storeVars
<1> QED
  BY <1>1, <1>2, <1>3, <1>4 DEF PublisherPart

\* A call that ends without an error leaves no reader state behind.
LEMMA AnswerKeepsReaders ==
  ASSUME ReaderPart, NEW r \in Readers, UNCHANGED storeVars,
         NEW what \in {"miss", "evidence", "list"}, Answer(r, what)
  PROVE  ReaderPart'
<1>1. ReadersTypeOK'
  BY DEF ReaderPart, ReadersTypeOK, Answer, ReaderSteps
<1>2. ReadersBacked'
  BY DEF ReaderPart, ReadersTypeOK, ReadersBacked, Backed, Answer, storeVars
<1>3. ReadersNeverFail'
  BY DEF ReaderPart, ReadersTypeOK, ReadersNeverFail, Answer
<1> QED
  BY <1>1, <1>2, <1>3 DEF ReaderPart

\* A call goes on to a step that reads a directory, by a backed pointer or none.
LEMMA ProceedKeepsReaders ==
  ASSUME ReaderPart, NEW r \in Readers, UNCHANGED storeVars,
         NEW step \in {"directory", "header", "evidence"}, Proceed(r, step),
         NEW i \in Ids, goal' = [goal EXCEPT ![r] = i],
         NEW c \in Captures \cup {Absent}, pointer' = [pointer EXCEPT ![r] = c],
         c # Absent => Backed(c) /\ c.id = i,
         step # "directory" => captures[i] # Absent
  PROVE  ReaderPart'
<1>1. ReadersTypeOK'
  BY DEF ReaderPart, ReadersTypeOK, Proceed, ReaderSteps
<1>2. ReadersBacked'
  BY DEF ReaderPart, ReadersTypeOK, ReadersBacked, Backed, Proceed, storeVars
<1>3. ReadersNeverFail'
  BY DEF ReaderPart, ReadersTypeOK, ReadersNeverFail, Proceed
<1> QED
  BY <1>1, <1>2, <1>3 DEF ReaderPart

\* What a reader finds in a completed directory passes its validation.
LEMMA ReaderStepIInv ==
  ASSUME PublisherPart, ReaderPart, NEW r \in Readers, ReaderStep(r)
  PROVE  ReaderPart'
<1> USE DEF storeVars
<1>1. UNCHANGED storeVars
  BY ReaderStepFrame
<1>2. /\ ReadersTypeOK
      /\ goal = [goal EXCEPT ![r] = goal[r]]
      /\ pointer = [pointer EXCEPT ![r] = pointer[r]]
  BY DEF ReaderPart, ReadersTypeOK
<1>3. CASE ReadPointer(r)
  <2>1. PICK k \in Keys :
          IF candidates[k] = Absent \/ candidates[k].key # k
            THEN Answer(r, IF candidates[k] = Absent THEN "miss" ELSE "error")
            ELSE /\ pointer' = [pointer EXCEPT ![r] = candidates[k]]
                 /\ goal' = [goal EXCEPT ![r] = candidates[k].id]
                 /\ Proceed(r, "directory")
    BY <1>3 DEF ReadPointer
  <2>2. CASE candidates[k] = Absent
    BY <1>1, <2>1, <2>2, AnswerKeepsReaders
  <2>3. CASE candidates[k] # Absent
    <3>1. candidates[k] \in Captures /\ candidates[k].key = k /\ Backed(candidates[k])
      BY <2>3 DEF PublisherPart, StoreTypeOK, CandidatesBacked
    <3>2. candidates[k].id \in Ids
      BY <3>1 DEF Captures
    <3>3. /\ pointer' = [pointer EXCEPT ![r] = candidates[k]]
          /\ goal' = [goal EXCEPT ![r] = candidates[k].id]
          /\ Proceed(r, "directory")
      BY <2>1, <2>3, <3>1
    <3> HIDE DEF storeVars
    <3> QED
      BY <1>1, <3>1, <3>2, <3>3, ProceedKeepsReaders
  <2> QED
    BY <2>2, <2>3
<1>4. CASE ReadInstances(r)
  <2>1. PICK i \in Ids : /\ rpc[r] = "idle"
                         /\ goal' = [goal EXCEPT ![r] = i]
                         /\ Proceed(r, "directory")
                         /\ pointer' = [pointer EXCEPT ![r] = Absent]
    BY <1>2, <1>4 DEF ReadInstances, ReaderPart, ReadersBacked
  <2> HIDE DEF storeVars
  <2> QED
    BY <1>1, <2>1, ProceedKeepsReaders
<1>5. CASE OpenDirectory(r)
  <2>1. goal[r] \in Ids /\ (pointer[r] # Absent => Backed(pointer[r]) /\ pointer[r].id = goal[r])
    BY <1>5 DEF OpenDirectory, ReaderPart, ReadersTypeOK, ReadersBacked
  <2>2. CASE captures[goal[r]] = Absent
    BY <1>1, <1>5, <2>2, AnswerKeepsReaders DEF OpenDirectory
  <2>3. CASE captures[goal[r]] # Absent
    <3>1. Proceed(r, "header") /\ goal' = goal /\ pointer' = pointer
      BY <1>5, <2>3 DEF OpenDirectory
    <3>2. pointer[r] \in Captures \cup {Absent}
      BY <1>2 DEF ReadersTypeOK
    <3> HIDE DEF storeVars
    <3> QED
      BY <1>1, <1>2, <2>1, <2>3, <3>1, <3>2, ProceedKeepsReaders
  <2> QED
    BY <2>2, <2>3
<1>6. CASE ReadHeader(r)
  <2>1. /\ goal[r] \in Ids
        /\ captures[goal[r]] # Absent
        /\ pointer[r] \in Captures \cup {Absent}
        /\ pointer[r] # Absent => Backed(pointer[r]) /\ pointer[r].id = goal[r]
    BY <1>6 DEF ReadHeader, ReaderPart, ReadersTypeOK, ReadersBacked
  <2>2. HeaderValid(goal[r])
    BY <2>1 DEF PublisherPart, CompletedIsWhole
  <2>3. pointer[r] # Absent => captures[goal[r]].header = pointer[r]
    BY <2>1 DEF Backed
  <2>4. Proceed(r, "evidence") /\ goal' = goal /\ pointer' = pointer
    BY <1>6, <2>2, <2>3 DEF ReadHeader
  <2> HIDE DEF storeVars
  <2> QED
    BY <1>1, <1>2, <2>1, <2>4, ProceedKeepsReaders
<1>7. CASE ReadEvidence(r)
  <2>1. EvidenceValid(goal[r])
    BY <1>7 DEF ReadEvidence, ReaderPart, PublisherPart, ReadersTypeOK,
       ReadersBacked, CompletedIsWhole
  <2>2. Answer(r, "evidence")
    BY <1>7, <2>1 DEF ReadEvidence
  <2> QED
    BY <1>1, <2>2, AnswerKeepsReaders
<1>8. CASE OpenList(r)
  <2> USE <1>8 DEF OpenList, ReaderPart
  <2>1. ReadersTypeOK'
    BY DEF ReadersTypeOK, ReaderSteps
  <2>2. ReadersBacked' /\ ReadersNeverFail'
    BY DEF ReadersTypeOK, ReadersBacked, Backed, ReadersNeverFail
  <2> QED
    BY <2>1, <2>2
<1>9. CASE ListEntry(r)
  <2>1. PICK i \in Ids \ listed[r] :
          /\ captures[i] # Absent
          /\ IF HeaderValid(i) /\ InstancesPresent(i)
               THEN /\ unlisted' = [unlisted EXCEPT ![r] = @ \ {i}]
                    /\ listed' = [listed EXCEPT ![r] = @ \cup {i}]
                    /\ UNCHANGED <<rpc, answer, goal, pointer>>
               ELSE Answer(r, "error")
    BY <1>9 DEF ListEntry
  <2>2. HeaderValid(i) /\ InstancesPresent(i)
    BY <2>1, AbsentDistinct DEF PublisherPart, CompletedIsWhole, EvidenceValid,
       InstancesPresent
  <2>3. ReadersTypeOK'
    BY <1>2, <2>1, <2>2 DEF ReadersTypeOK
  <2>4. ReadersBacked' /\ ReadersNeverFail'
    BY <1>1, <2>1, <2>2 DEF ReaderPart, ReadersBacked, Backed, ReadersNeverFail
  <2> QED
    BY <2>3, <2>4 DEF ReaderPart
<1>10. CASE CloseList(r)
  BY <1>1, <1>10, AnswerKeepsReaders DEF CloseList
<1> QED
  BY <1>3, <1>4, <1>5, <1>6, <1>7, <1>8, <1>9, <1>10 DEF ReaderStep

-----------------------------------------------------------------------------
(* Publishers.                                                             *)

\* What a step keeps of the directories that pointers lead to.
Kept ==
  /\ \A c \in Captures : Backed(c) => Backed(c)'
  /\ \A i \in Ids : captures[i] # Absent => captures'[i] = captures[i]

\* A publisher's step that keeps them does not disturb the readers.
LEMMA KeptKeepsReaders ==
  ASSUME ReaderPart, Kept, UNCHANGED readerVars
  PROVE  ReaderPart'
<1> USE DEF readerVars
<1>1. ReadersTypeOK' /\ ReadersNeverFail'
  BY DEF ReaderPart, ReadersTypeOK, ReadersNeverFail
<1>2. ReadersBacked'
  <2> SUFFICES ASSUME NEW r \in Readers
      PROVE /\ pointer'[r] # Absent => Backed(pointer[r])' /\ pointer'[r].id = goal'[r]
            /\ rpc'[r] \in {"idle", "entries"} => pointer'[r] = Absent
            /\ rpc'[r] \in {"header", "evidence"} => captures'[goal'[r]] # Absent
    BY DEF ReadersBacked
  <2>1. pointer[r] \in Captures \cup {Absent}
    BY DEF ReaderPart, ReadersTypeOK
  <2>2. rpc[r] \in {"header", "evidence"} => goal[r] \in Ids
    BY DEF ReaderPart, ReadersTypeOK
  <2>3. pointer[r] # Absent => Backed(pointer[r])'
    BY <2>1 DEF ReaderPart, ReadersBacked, Kept, Backed
  <2>4. rpc[r] \in {"header", "evidence"} => captures'[goal[r]] # Absent
    BY <2>2 DEF ReaderPart, ReadersBacked, Kept
  <2>5. /\ pointer[r] # Absent => pointer[r].id = goal[r]
        /\ rpc[r] \in {"idle", "entries"} => pointer[r] = Absent
    BY DEF ReaderPart, ReadersBacked
  <2> QED
    BY <2>3, <2>4, <2>5
<1> QED
  BY <1>1, <1>2 DEF ReaderPart

\* What is known of a publisher under way.
LEMMA InFlightFacts ==
  ASSUME PublisherPart, NEW p \in Publishers, ~At(p, "idle")
  PROVE  /\ work[p] \in Captures /\ work[p].id \in Ids /\ work[p].key \in Keys
         /\ scope[p] = work[p].id
         /\ Progress(p)
BY DEF PublisherPart, PublishersTypeOK, ScopeMatches, AllProgress, Captures, At

\* The program counters, for a step that goes on and for one that returns.
LEMMA GotoControl ==
  ASSUME PublisherPart, NEW p \in Publishers, ~At(p, "idle"),
         NEW step \in PublisherSteps, Goto(p, step)
  PROVE  PublishersTypeOK' /\ InFlightDistinct' /\ ScopeMatches'
<1> USE DEF PublisherPart, Goto, PublishersTypeOK, At
<1>1. PublishersTypeOK'
  OBVIOUS
<1>2. InFlightDistinct'
  BY DEF InFlightDistinct
<1>3. ScopeMatches'
  BY DEF ScopeMatches
<1> QED
  BY <1>1, <1>2, <1>3

LEMMA ReturnControl ==
  ASSUME PublisherPart, NEW p \in Publishers,
         NEW how \in {"published", "failed", "crashed"}, Return(p, how)
  PROVE  PublishersTypeOK' /\ InFlightDistinct' /\ ScopeMatches'
<1> USE DEF PublisherPart, Return, PublishersTypeOK, At, PublisherSteps
<1>1. PublishersTypeOK'
  OBVIOUS
<1>2. InFlightDistinct'
  BY DEF InFlightDistinct
<1>3. ScopeMatches'
  BY DEF ScopeMatches
<1> QED
  BY <1>1, <1>2, <1>3

\* No other publisher builds the capture of p.
LEMMA OthersProgress ==
  ASSUME PublisherPart, NEW p \in Publishers, ~At(p, "idle"),
         work' = work, \A q \in Publishers \ {p} : ppc'[q] = ppc[q],
         \A i \in Ids \ {work[p].id} :
           staging'[i] = staging[i] /\ captures'[i] = captures[i]
  PROVE  \A q \in Publishers \ {p} : Progress(q)'
<1> SUFFICES ASSUME NEW q \in Publishers \ {p} PROVE Progress(q)'
  OBVIOUS
<1>1. CASE At(q, "idle")
  BY <1>1 DEF Progress, At, Building
<1>2. CASE ~At(q, "idle")
  <2>1. work[q].id \in Ids /\ Progress(q)
    BY <1>2, InFlightFacts
  <2>2. work[q].id # work[p].id
    BY <1>2 DEF PublisherPart, InFlightDistinct
  <2>3. staging'[work[q].id] = staging[work[q].id] /\ captures'[work[q].id] = captures[work[q].id]
    BY <2>1, <2>2
  <2> QED
    BY <2>1, <2>3 DEF Progress, At, Staged
<1> QED
  BY <1>1, <1>2

\* A write below the staging directory of p: the header is written first, and
\* is not touched afterwards.
LEMMA StagingWrite ==
  ASSUME PublisherPart, NEW p \in Publishers, ppc[p] \in Building,
         NEW d \in Directories, staging' = [staging EXCEPT ![work[p].id] = d],
         At(p, "header") \/ d.header = work[p],
         UNCHANGED <<captures, candidates>>
  PROVE  StoreTypeOK' /\ CompletedIsWhole' /\ CandidatesBacked' /\ Kept
<1>1. ~At(p, "idle")
  BY DEF At, Building
<1>2. /\ work[p].id \in Ids /\ captures[work[p].id] = Absent
      /\ Staged(p) # Absent
      /\ At(p, "header") => Staged(p) = NewDirectory
      /\ ~At(p, "header") => Staged(p).header = work[p]
  BY <1>1, InFlightFacts DEF Progress, Building, At
<1>3. StoreTypeOK'
  BY <1>2 DEF PublisherPart, StoreTypeOK
<1>4. CompletedIsWhole'
  BY DEF PublisherPart, CompletedIsWhole, HeaderValid, EvidenceValid
<1>5. ASSUME NEW c \in Captures, Backed(c) PROVE Backed(c)'
  <2>1. c.id \in Ids
    BY DEF Captures
  <2>2. CASE c.id # work[p].id
    BY <1>2, <1>5, <2>1, <2>2 DEF Backed, PublisherPart, StoreTypeOK
  <2>3. CASE c.id = work[p].id
    <3>1. Staged(p).header = c
      BY <1>2, <1>5, <2>3 DEF Backed, Staged
    <3>2. ~At(p, "header")
      BY <1>2, <3>1, AbsentDistinct DEF NewDirectory
    <3>3. staging'[c.id] = d
      BY <1>2, <2>3 DEF PublisherPart, StoreTypeOK
    <3>4. d.header = c /\ d # Absent
      BY <1>2, <3>1, <3>2, AbsentDistinct
    <3> QED
      BY <1>2, <2>3, <3>3, <3>4 DEF Backed
  <2> QED
    BY <2>2, <2>3
<1>6. Kept
  BY <1>5 DEF Kept
<1>7. CandidatesBacked'
  BY <1>6 DEF PublisherPart, StoreTypeOK, CandidatesBacked, Kept, Backed
<1> QED
  BY <1>3, <1>4, <1>6, <1>7
\* Each write that builds the staging directory, and the step it leads to.
\* Done is what the write adds to the progress of p.
LEMMA BuildStep ==
  ASSUME PublisherPart, NEW p \in Publishers, ppc[p] \in Building,
         NEW d \in Directories, staging' = [staging EXCEPT ![work[p].id] = d],
         At(p, "header") \/ d.header = work[p],
         UNCHANGED <<captures, candidates>>,
         PublishersTypeOK' /\ InFlightDistinct' /\ ScopeMatches',
         work' = work, \A q \in Publishers \ {p} : ppc'[q] = ppc[q],
         Progress(p)'
  PROVE  PublisherPart' /\ Kept
<1>1. StoreTypeOK' /\ CompletedIsWhole' /\ CandidatesBacked' /\ Kept
  BY StagingWrite
<1>2. ~At(p, "idle")
  BY DEF At, Building
<1>3. \A i \in Ids \ {work[p].id} :
        staging'[i] = staging[i] /\ captures'[i] = captures[i]
  BY DEF PublisherPart, StoreTypeOK
<1>4. \A q \in Publishers \ {p} : Progress(q)'
  BY <1>2, <1>3, OthersProgress
<1>5. AllProgress'
  BY <1>4 DEF AllProgress
<1> QED
  BY <1>1, <1>5 DEF PublisherPart

\* The steps that only look: the store stays as it is.
LEMMA LookStep ==
  ASSUME PublisherPart, NEW p \in Publishers, ~At(p, "idle"),
         UNCHANGED storeVars,
         PublishersTypeOK' /\ InFlightDistinct' /\ ScopeMatches',
         work' = work, \A q \in Publishers \ {p} : ppc'[q] = ppc[q],
         Progress(p)'
  PROVE  PublisherPart' /\ Kept
<1> USE DEF storeVars
<1>1. StoreTypeOK' /\ CompletedIsWhole'
  BY DEF PublisherPart, StoreTypeOK, CompletedIsWhole, HeaderValid, EvidenceValid
<1>2. CandidatesBacked' /\ Kept
  BY DEF PublisherPart, CandidatesBacked, Kept, Backed
<1>3. \A q \in Publishers \ {p} : Progress(q)'
  BY OthersProgress
<1> QED
  BY <1>1, <1>2, <1>3 DEF PublisherPart, AllProgress

\* A publisher that returns needs no progress.
LEMMA ReturnProgress ==
  ASSUME PublisherPart, NEW p \in Publishers, NEW how, Return(p, how)
  PROVE  /\ Progress(p)' /\ work' = work
         /\ \A q \in Publishers \ {p} : ppc'[q] = ppc[q]
BY DEF PublisherPart, PublishersTypeOK, Return, Progress, At, Building

LEMMA GotoFrame ==
  ASSUME PublisherPart, NEW p \in Publishers, NEW step, Goto(p, step)
  PROVE  /\ work' = work /\ ppc'[p] = step
         /\ \A q \in Publishers \ {p} : ppc'[q] = ppc[q]
BY DEF PublisherPart, PublishersTypeOK, Goto

\* publish: a call begins, or is refused for its manifest's identity.
LEMMA PublishIInv ==
  ASSUME PublisherPart, NEW p \in Publishers, Publish(p)
  PROVE  PublisherPart' /\ Kept
<1>1. PICK c \in Captures, m \in Ids :
        /\ At(p, "idle")
        /\ \A q \in Publishers : ~At(q, "idle") => work[q].id # c.id
        /\ work' = [work EXCEPT ![p] = c]
        /\ scope' = [scope EXCEPT ![p] = m]
        /\ before' = [before EXCEPT ![p] = [visible   |-> captures[c.id] # Absent,
                                            candidate |-> candidates[c.key]]]
        /\ IF m = c.id
             THEN /\ ppc' = [ppc EXCEPT ![p] = "check"]
                  /\ result' = [result EXCEPT ![p] = "none"]
             ELSE /\ result' = [result EXCEPT ![p] = "failed"]
                  /\ UNCHANGED ppc
        /\ UNCHANGED <<storeVars, readerVars>>
  BY DEF Publish
<1> USE DEF storeVars
<1>2. StoreTypeOK' /\ CompletedIsWhole' /\ CandidatesBacked' /\ Kept
  BY <1>1 DEF PublisherPart, StoreTypeOK, CompletedIsWhole, HeaderValid,
     EvidenceValid, CandidatesBacked, Kept, Backed
<1>3. PublishersTypeOK'
  <2>1. candidates[c.key] \in Captures \cup {Absent}
    BY DEF Captures, PublisherPart, StoreTypeOK
  <2> QED
    BY <1>1, <2>1 DEF PublisherPart, PublishersTypeOK, PublisherSteps, At
<1>4. ppc'[p] \in {"idle", "check"} /\ (ppc'[p] = "check" => m = c.id)
  BY <1>1 DEF PublisherPart, PublishersTypeOK, At
<1>5. /\ work'[p] = c /\ scope'[p] = m
      /\ \A q \in Publishers \ {p} :
           work'[q] = work[q] /\ scope'[q] = scope[q] /\ ppc'[q] = ppc[q]
  BY <1>1 DEF PublisherPart, PublishersTypeOK
<1>6. InFlightDistinct'
  BY <1>1, <1>5 DEF PublisherPart, InFlightDistinct, At
<1>7. ScopeMatches'
  BY <1>4, <1>5 DEF PublisherPart, ScopeMatches, At
<1>8. AllProgress'
  BY <1>1, <1>4, <1>5 DEF PublisherPart, AllProgress, Progress, Staged, At, Building
<1> QED
  BY <1>2, <1>3, <1>6, <1>7, <1>8 DEF PublisherPart

LEMMA CheckCompletedIInv ==
  ASSUME PublisherPart, NEW p \in Publishers, CheckCompleted(p)
  PROVE  PublisherPart' /\ Kept
<1>1. ~At(p, "idle") /\ UNCHANGED storeVars
  BY DEF CheckCompleted, At
<1>2. CASE captures[work[p].id] = Absent
  <2>1. Goto(p, "stage")
    BY <1>2 DEF CheckCompleted
  <2>2. Progress(p)'
    BY <1>1, <1>2, <2>1, GotoFrame DEF Progress, At, Building, storeVars
  <2> QED
    BY <1>1, <2>1, <2>2, GotoFrame, GotoControl, LookStep DEF PublisherSteps
<1>3. CASE captures[work[p].id] # Absent
  BY <1>1, <1>3, ReturnProgress, ReturnControl, LookStep DEF CheckCompleted
<1> QED
  BY <1>2, <1>3

\* The new directory is empty, so no pointer can be backed by it; and none
\* was backed by its absence.
LEMMA CreateStagingIInv ==
  ASSUME PublisherPart, NEW p \in Publishers, CreateStaging(p)
  PROVE  PublisherPart' /\ Kept
<1>1. ~At(p, "idle") /\ At(p, "stage") /\ UNCHANGED <<captures, candidates>>
  BY DEF CreateStaging, At
<1>2. work[p].id \in Ids /\ captures[work[p].id] = Absent
  BY <1>1, InFlightFacts DEF Progress, At
<1>3. CASE Staged(p) = Absent
  <2>1. /\ staging' = [staging EXCEPT ![work[p].id] = NewDirectory]
        /\ Goto(p, "header")
    BY <1>3 DEF CreateStaging
  <2>2. PublishersTypeOK' /\ InFlightDistinct' /\ ScopeMatches'
    BY <1>1, <2>1, GotoControl DEF PublisherSteps
  <2>3. StoreTypeOK' /\ CompletedIsWhole'
    BY <1>1, <2>1, NewDirectoryType DEF PublisherPart, StoreTypeOK,
       CompletedIsWhole, HeaderValid, EvidenceValid
  <2>4. ASSUME NEW c \in Captures, Backed(c) PROVE Backed(c)'
    <3>1. c.id \in Ids
      BY DEF Captures
    <3>2. c.id = work[p].id => FALSE
      BY <1>2, <1>3, <2>4 DEF Backed, Staged
    <3> QED
      BY <1>1, <2>1, <2>4, <3>1, <3>2 DEF Backed, PublisherPart, StoreTypeOK
  <2>5. Kept
    BY <1>1, <2>4 DEF Kept
  <2>6. CandidatesBacked'
    BY <1>1, <2>5 DEF PublisherPart, StoreTypeOK, CandidatesBacked, Kept, Backed
  <2>7. /\ work' = work /\ ppc'[p] = "header"
        /\ \A q \in Publishers \ {p} : ppc'[q] = ppc[q]
    BY <2>1, GotoFrame
  <2>8. \A i \in Ids \ {work[p].id} :
          staging'[i] = staging[i] /\ captures'[i] = captures[i]
    BY <1>1, <2>1 DEF PublisherPart, StoreTypeOK
  <2>9. \A q \in Publishers \ {p} : Progress(q)'
    BY <1>1, <2>7, <2>8, OthersProgress
  <2>10. staging'[work[p].id] = NewDirectory
    BY <1>2, <2>1 DEF PublisherPart, StoreTypeOK
  <2>11. Progress(p)'
    BY <1>1, <1>2, <2>7, <2>10, NewDirectoryType, AbsentDistinct
       DEF Progress, Staged, At, Building, NewDirectory
  <2> QED
    BY <2>2, <2>3, <2>5, <2>6, <2>9, <2>11 DEF PublisherPart, AllProgress
<1>4. CASE Staged(p) # Absent
  BY <1>1, <1>4, ReturnProgress, ReturnControl, LookStep DEF CreateStaging, storeVars
<1> QED
  BY <1>3, <1>4
(* The writes below the staging directory. *)

LEMMA WriteHeaderIInv ==
  ASSUME PublisherPart, NEW p \in Publishers, WriteHeader(p)
  PROVE  PublisherPart' /\ Kept
<1> DEFINE d == [Staged(p) EXCEPT !.header = work[p]]
<1>1. /\ At(p, "header") /\ Goto(p, "instances") /\ UNCHANGED <<captures, candidates>>
      /\ staging' = [staging EXCEPT ![work[p].id] = d]
  BY DEF WriteHeader, Staged
<1>2. ~At(p, "idle") /\ ppc[p] \in Building
  BY <1>1 DEF At, Building
<1>3. /\ work[p] \in Captures /\ work[p].id \in Ids
      /\ scope[p] = work[p].id /\ Progress(p)
  BY <1>2, InFlightFacts
<1>4. Staged(p) \in Directories
  BY <1>2, <1>3 DEF Progress, Staged, PublisherPart, StoreTypeOK
<1>5. d \in Directories /\ (At(p, "header") \/ d.header = work[p])
  BY <1>1, <1>2, <1>3, <1>4 DEF Progress, Directories, At, Building
<1>6. PublishersTypeOK' /\ InFlightDistinct' /\ ScopeMatches'
  BY <1>1, <1>2, GotoControl DEF PublisherSteps
<1>7. /\ work' = work /\ ppc'[p] = "instances"
      /\ \A q \in Publishers \ {p} : ppc'[q] = ppc[q]
  BY <1>1, GotoFrame
<1>8. staging'[work[p].id] = d
  BY <1>1, <1>3 DEF PublisherPart, StoreTypeOK
<1>9. Progress(p)'
  <2>1. d # Absent
    BY <1>5, AbsentDistinct
  <2> QED
    BY <1>1, <1>3, <1>4, <1>7, <1>8, <2>1
       DEF Progress, Staged, At, Building, NewDirectory, Directories
<1> HIDE DEF d
<1> QED
  BY <1>1, <1>2, <1>5, <1>6, <1>7, <1>9, BuildStep

LEMMA WriteInstancesIInv ==
  ASSUME PublisherPart, NEW p \in Publishers, WriteInstances(p)
  PROVE  PublisherPart' /\ Kept
<1> DEFINE d == [Staged(p) EXCEPT !.instances = scope[p]]
<1>1. /\ At(p, "instances") /\ Goto(p, "artifacts") /\ UNCHANGED <<captures, candidates>>
      /\ staging' = [staging EXCEPT ![work[p].id] = d]
  BY DEF WriteInstances, Staged
<1>2. ~At(p, "idle") /\ ppc[p] \in Building
  BY <1>1 DEF At, Building
<1>3. /\ work[p] \in Captures /\ work[p].id \in Ids
      /\ scope[p] = work[p].id /\ Progress(p)
  BY <1>2, InFlightFacts
<1>4. Staged(p) \in Directories
  BY <1>2, <1>3 DEF Progress, Staged, PublisherPart, StoreTypeOK
<1>5. d \in Directories /\ (At(p, "header") \/ d.header = work[p])
  BY <1>1, <1>2, <1>3, <1>4 DEF Progress, Directories, At, Building
<1>6. PublishersTypeOK' /\ InFlightDistinct' /\ ScopeMatches'
  BY <1>1, <1>2, GotoControl DEF PublisherSteps
<1>7. /\ work' = work /\ ppc'[p] = "artifacts"
      /\ \A q \in Publishers \ {p} : ppc'[q] = ppc[q]
  BY <1>1, GotoFrame
<1>8. staging'[work[p].id] = d
  BY <1>1, <1>3 DEF PublisherPart, StoreTypeOK
<1>9. Progress(p)'
  <2>1. d # Absent
    BY <1>5, AbsentDistinct
  <2> QED
    BY <1>1, <1>3, <1>4, <1>7, <1>8, <2>1
       DEF Progress, Staged, At, Building, NewDirectory, Directories
<1> HIDE DEF d
<1> QED
  BY <1>1, <1>2, <1>5, <1>6, <1>7, <1>9, BuildStep

LEMMA WritePointerIInv ==
  ASSUME PublisherPart, NEW p \in Publishers, WritePointer(p)
  PROVE  PublisherPart' /\ Kept
<1> DEFINE d == [Staged(p) EXCEPT !.pointer = work[p]]
<1>1. /\ At(p, "pointer") /\ Goto(p, "replace") /\ UNCHANGED <<captures, candidates>>
      /\ staging' = [staging EXCEPT ![work[p].id] = d]
  BY DEF WritePointer, Staged
<1>2. ~At(p, "idle") /\ ppc[p] \in Building
  BY <1>1 DEF At, Building
<1>3. /\ work[p] \in Captures /\ work[p].id \in Ids
      /\ scope[p] = work[p].id /\ Progress(p)
  BY <1>2, InFlightFacts
<1>4. Staged(p) \in Directories
  BY <1>2, <1>3 DEF Progress, Staged, PublisherPart, StoreTypeOK
<1>5. d \in Directories /\ (At(p, "header") \/ d.header = work[p])
  BY <1>1, <1>2, <1>3, <1>4 DEF Progress, Directories, At, Building
<1>6. PublishersTypeOK' /\ InFlightDistinct' /\ ScopeMatches'
  BY <1>1, <1>2, GotoControl DEF PublisherSteps
<1>7. /\ work' = work /\ ppc'[p] = "replace"
      /\ \A q \in Publishers \ {p} : ppc'[q] = ppc[q]
  BY <1>1, GotoFrame
<1>8. staging'[work[p].id] = d
  BY <1>1, <1>3 DEF PublisherPart, StoreTypeOK
<1>9. Progress(p)'
  <2>1. d # Absent
    BY <1>5, AbsentDistinct
  <2> QED
    BY <1>1, <1>3, <1>4, <1>7, <1>8, <2>1
       DEF Progress, Staged, At, Building, NewDirectory, Directories
<1> HIDE DEF d
<1> QED
  BY <1>1, <1>2, <1>5, <1>6, <1>7, <1>9, BuildStep

LEMMA CopyArtifactIInv ==
  ASSUME PublisherPart, NEW p \in Publishers, CopyArtifact(p)
  PROVE  PublisherPart' /\ Kept
<1>1. PICK a \in Artifacts \ Staged(p).artifacts :
        staging' = [staging EXCEPT ![work[p].id].artifacts = @ \cup {a}]
  BY DEF CopyArtifact
<1> DEFINE d == [Staged(p) EXCEPT !.artifacts = @ \cup {a}]
<1>2. /\ At(p, "artifacts") /\ UNCHANGED <<captures, candidates, publisherVars>>
      /\ staging' = [staging EXCEPT ![work[p].id] = d]
  BY <1>1 DEF CopyArtifact, Staged
<1>3. ~At(p, "idle") /\ ppc[p] \in Building
  BY <1>2 DEF At, Building
<1>4. work[p].id \in Ids /\ Progress(p)
  BY <1>3, InFlightFacts
<1>5. Staged(p) \in Directories
  BY <1>3, <1>4 DEF Progress, Staged, PublisherPart, StoreTypeOK
<1>6. d \in Directories /\ d.header = work[p]
  BY <1>2, <1>3, <1>4, <1>5 DEF Progress, Directories, At, Building
<1>7. PublishersTypeOK' /\ InFlightDistinct' /\ ScopeMatches'
  BY <1>2 DEF publisherVars, PublisherPart, PublishersTypeOK, InFlightDistinct,
     ScopeMatches, At
<1>8. staging'[work[p].id] = d
  BY <1>2, <1>4 DEF PublisherPart, StoreTypeOK
<1>9. Progress(p)'
  <2>1. d # Absent
    BY <1>6, AbsentDistinct
  <2> QED
    BY <1>2, <1>4, <1>5, <1>8, <2>1
       DEF Progress, Staged, At, Building, Directories, publisherVars
<1> HIDE DEF d
<1> QED
  BY <1>2, <1>3, <1>6, <1>7, <1>9, BuildStep DEF publisherVars

LEMMA ValidateCopiesIInv ==
  ASSUME PublisherPart, NEW p \in Publishers, ValidateCopies(p)
  PROVE  PublisherPart' /\ Kept
<1>1. /\ At(p, "artifacts") /\ ~At(p, "idle") /\ Staged(p).artifacts = Artifacts
      /\ Goto(p, "pointer") /\ UNCHANGED storeVars
  BY DEF ValidateCopies, At
<1>2. Progress(p)
  BY <1>1, InFlightFacts
<1>3. Progress(p)'
  BY <1>1, <1>2, GotoFrame DEF Progress, Staged, At, Building, storeVars
<1> QED
  BY <1>1, <1>3, GotoFrame, GotoControl, LookStep DEF PublisherSteps

\* The pointer that is installed names the record in the staged header.
LEMMA ReplacePointerIInv ==
  ASSUME PublisherPart, NEW p \in Publishers, ReplacePointer(p)
  PROVE  PublisherPart' /\ Kept
<1> DEFINE d == [Staged(p) EXCEPT !.pointer = Absent]
<1>1. /\ At(p, "replace") /\ ~At(p, "idle") /\ Goto(p, "commit")
      /\ staging' = [staging EXCEPT ![work[p].id] = d]
      /\ UNCHANGED captures
  BY DEF ReplacePointer, Staged, At
<1>2. /\ work[p] \in Captures /\ work[p].id \in Ids /\ work[p].key \in Keys
      /\ Progress(p)
  BY <1>1, InFlightFacts
<1>3. /\ Staged(p) \in Directories /\ Staged(p).header = work[p]
      /\ Staged(p).pointer = work[p] /\ captures[work[p].id] = Absent
  BY <1>1, <1>2 DEF Progress, Staged, At, Building, PublisherPart, StoreTypeOK
<1>4. candidates' = [candidates EXCEPT ![work[p].key] = work[p]]
  BY <1>3 DEF ReplacePointer
<1>5. d \in Directories /\ d # Absent /\ d.header = work[p] /\ d.pointer = Absent
  BY <1>3, AbsentDistinct DEF Directories
<1>6. staging'[work[p].id] = d
  BY <1>1, <1>2 DEF PublisherPart, StoreTypeOK
<1>7. PublishersTypeOK' /\ InFlightDistinct' /\ ScopeMatches'
  BY <1>1, GotoControl DEF PublisherSteps
<1>8. StoreTypeOK' /\ CompletedIsWhole'
  BY <1>1, <1>2, <1>4, <1>5 DEF PublisherPart, StoreTypeOK, CompletedIsWhole,
     HeaderValid, EvidenceValid
<1>9. ASSUME NEW c \in Captures, Backed(c) PROVE Backed(c)'
  <2>1. CASE c.id = work[p].id
    BY <1>1, <1>3, <1>5, <1>6, <1>9, <2>1 DEF Backed, Staged
  <2>2. CASE c.id # work[p].id
    BY <1>1, <1>9, <2>2 DEF Backed, Captures, PublisherPart, StoreTypeOK
  <2> QED
    BY <2>1, <2>2
<1>10. Kept
  BY <1>1, <1>9 DEF Kept
<1>11. Backed(work[p])'
  <2>1. work' = work
    BY <1>1, GotoFrame
  <2> QED
    BY <1>1, <1>3, <1>5, <1>6, <2>1 DEF Backed
<1>12. CandidatesBacked'
  <2>1. work' = work
    BY <1>1, GotoFrame
  <2> QED
    BY <1>2, <1>4, <1>10, <1>11, <2>1 DEF PublisherPart, StoreTypeOK,
       CandidatesBacked, Kept, Backed
<1>13. Progress(p)'
  BY <1>1, <1>2, <1>3, <1>5, <1>6, GotoFrame DEF Progress, Staged, At, Building, Directories
<1>14. \A q \in Publishers \ {p} : Progress(q)'
  <2>1. \A i \in Ids \ {work[p].id} :
          staging'[i] = staging[i] /\ captures'[i] = captures[i]
    BY <1>1 DEF PublisherPart, StoreTypeOK
  <2> QED
    BY <1>1, <2>1, GotoFrame, OthersProgress
<1> QED
  BY <1>7, <1>8, <1>10, <1>12, <1>13, <1>14 DEF PublisherPart, AllProgress

\* The committed directory is whole, and backs what its staging backed.
LEMMA CommitCaptureIInv ==
  ASSUME PublisherPart, NEW p \in Publishers, CommitCapture(p)
  PROVE  PublisherPart' /\ Kept
<1>1. At(p, "commit") /\ ~At(p, "idle") /\ UNCHANGED candidates
  BY DEF CommitCapture, At
<1>2. /\ work[p] \in Captures /\ work[p].id \in Ids /\ Progress(p)
  BY <1>1, InFlightFacts
<1>3. /\ Staged(p) \in Directories /\ Staged(p) # Absent
      /\ Staged(p).header = work[p]
      /\ Staged(p).instances = work[p].id /\ Staged(p).artifacts = Artifacts
      /\ Staged(p).pointer = Absent /\ captures[work[p].id] = Absent
  BY <1>1, <1>2 DEF Progress, Staged, At, Building, PublisherPart, StoreTypeOK
<1>4. /\ captures' = [captures EXCEPT ![work[p].id] = Staged(p)]
      /\ staging' = [staging EXCEPT ![work[p].id] = Absent]
      /\ Return(p, "published")
  BY <1>3 DEF CommitCapture
<1>5. PublishersTypeOK' /\ InFlightDistinct' /\ ScopeMatches'
  BY <1>4, ReturnControl
<1>6. StoreTypeOK'
  BY <1>1, <1>2, <1>3, <1>4 DEF PublisherPart, StoreTypeOK
<1>7. captures'[work[p].id] = Staged(p)
  BY <1>2, <1>4 DEF PublisherPart, StoreTypeOK
<1>8. CompletedIsWhole'
  <2> SUFFICES ASSUME NEW i \in Ids, captures'[i] # Absent
               PROVE  (HeaderValid(i) /\ EvidenceValid(i) /\ captures[i].pointer = Absent)'
    BY DEF CompletedIsWhole
  <2>1. CASE i = work[p].id
    BY <1>2, <1>3, <1>7, <2>1 DEF HeaderValid, EvidenceValid
  <2>2. CASE i # work[p].id
    BY <1>4, <2>2 DEF PublisherPart, StoreTypeOK, CompletedIsWhole,
       HeaderValid, EvidenceValid
  <2> QED
    BY <2>1, <2>2
<1>9. ASSUME NEW c \in Captures, Backed(c) PROVE Backed(c)'
  <2>1. CASE c.id = work[p].id
    BY <1>3, <1>7, <1>9, <2>1 DEF Backed, Staged
  <2>2. CASE c.id # work[p].id
    BY <1>4, <1>9, <2>2 DEF Backed, Captures, PublisherPart, StoreTypeOK
  <2> QED
    BY <2>1, <2>2
<1>10. Kept
  BY <1>3, <1>4, <1>9 DEF Kept, PublisherPart, StoreTypeOK
<1>11. CandidatesBacked'
  BY <1>1, <1>10 DEF PublisherPart, StoreTypeOK, CandidatesBacked, Kept, Backed
<1>12. \A i \in Ids \ {work[p].id} :
         staging'[i] = staging[i] /\ captures'[i] = captures[i]
  BY <1>4 DEF PublisherPart, StoreTypeOK
<1>13. AllProgress'
  BY <1>1, <1>4, <1>12, ReturnProgress, OthersProgress DEF AllProgress
<1> QED
  BY <1>5, <1>6, <1>8, <1>10, <1>11, <1>13 DEF PublisherPart

\* A failed or crashed call leaves a torn file at most where it was writing.
LEMMA InterruptIInv ==
  ASSUME PublisherPart, NEW p \in Publishers, Interrupt(p)
  PROVE  PublisherPart' /\ Kept
<1>1. PICK how \in {"failed", "crashed"} :
        /\ ~At(p, "idle") /\ (TornFile(p) \/ UNCHANGED staging)
        /\ Return(p, how) /\ UNCHANGED <<captures, candidates>>
  BY DEF Interrupt
<1>2. /\ PublishersTypeOK' /\ InFlightDistinct' /\ ScopeMatches'
      /\ Progress(p)' /\ work' = work
      /\ \A q \in Publishers \ {p} : ppc'[q] = ppc[q]
  BY <1>1, ReturnControl, ReturnProgress
<1>3. CASE UNCHANGED staging
  BY <1>1, <1>2, <1>3, LookStep DEF storeVars
<1>4. CASE TornFile(p)
  <2>1. ppc[p] \in Building
    BY <1>4 DEF TornFile, At, Building
  <2>2. Progress(p)
    BY <1>1, InFlightFacts
  <2>3. Staged(p) \in Directories /\ work[p].id \in Ids
    BY <1>1, <2>1, <2>2, InFlightFacts DEF Progress, Staged, PublisherPart, StoreTypeOK
  <2>4. \E d \in Directories :
          /\ staging' = [staging EXCEPT ![work[p].id] = d]
          /\ At(p, "header") \/ d.header = work[p]
    <3>1. CASE At(p, "header")
      <4> DEFINE d == [Staged(p) EXCEPT !.header = Torn]
      <4>1. staging' = [staging EXCEPT ![work[p].id] = d]
        BY <1>4, <3>1 DEF TornFile, At, Staged
      <4>2. d \in Directories
        BY <2>3 DEF Directories
      <4> QED
        BY <3>1, <4>1, <4>2
    <3>2. CASE At(p, "instances")
      <4> DEFINE d == [Staged(p) EXCEPT !.instances = Torn]
      <4>1. staging' = [staging EXCEPT ![work[p].id] = d]
        BY <1>4, <3>2 DEF TornFile, At, Staged
      <4>2. d \in Directories /\ d.header = work[p]
        BY <2>2, <2>3, <3>2 DEF Directories, Progress, At, Building
      <4> QED
        BY <4>1, <4>2
    <3>3. CASE At(p, "pointer")
      <4> DEFINE d == [Staged(p) EXCEPT !.pointer = Torn]
      <4>1. staging' = [staging EXCEPT ![work[p].id] = d]
        BY <1>4, <3>3 DEF TornFile, At, Staged
      <4>2. d \in Directories /\ d.header = work[p]
        BY <2>2, <2>3, <3>3 DEF Directories, Progress, At, Building
      <4> QED
        BY <4>1, <4>2
    <3> QED
      BY <1>4, <3>1, <3>2, <3>3 DEF TornFile
  <2> QED
    BY <1>1, <1>2, <2>1, <2>4, BuildStep
<1> QED
  BY <1>1, <1>3, <1>4
LEMMA PublisherStepIInv ==
  ASSUME PublisherPart, NEW p \in Publishers, PublisherStep(p)
  PROVE  PublisherPart' /\ Kept
BY PublishIInv, CheckCompletedIInv, CreateStagingIInv, WriteHeaderIInv,
   WriteInstancesIInv, CopyArtifactIInv, ValidateCopiesIInv, WritePointerIInv,
   ReplacePointerIInv, CommitCaptureIInv, InterruptIInv DEF PublisherStep

LEMMA PublisherStepFrame ==
  ASSUME NEW p \in Publishers, PublisherStep(p)
  PROVE  UNCHANGED readerVars
BY DEF PublisherStep, Publish, CheckCompleted, CreateStaging, WriteHeader,
       WriteInstances, CopyArtifact, ValidateCopies, WritePointer,
       ReplacePointer, CommitCapture, Interrupt, Goto, Return

LEMMA NextIInv == IInv /\ [Next]_vars => IInv'
<1> SUFFICES ASSUME PublisherPart, ReaderPart, [Next]_vars
             PROVE  PublisherPart' /\ ReaderPart'
  BY IInvParts DEF IInv, TypeOK, PublisherPart, ReaderPart
<1>1. ASSUME NEW p \in Publishers, PublisherStep(p)
      PROVE  PublisherPart' /\ ReaderPart'
  BY <1>1, PublisherStepIInv, PublisherStepFrame, KeptKeepsReaders
<1>2. ASSUME NEW r \in Readers, ReaderStep(r)
      PROVE  PublisherPart' /\ ReaderPart'
  BY <1>2, ReaderStepFrame, ReaderKeepsPublishers, ReaderStepIInv
<1>3. CASE UNCHANGED vars
  <2>1. PublisherPart'
    BY <1>3, ReaderKeepsPublishers DEF vars
  <2>2. Kept /\ UNCHANGED readerVars
    BY <1>3 DEF vars, storeVars, Kept, Backed
  <2> QED
    BY <2>1, <2>2, KeptKeepsReaders
<1> QED
  BY <1>1, <1>2, <1>3 DEF Next

LEMMA Invariance == Spec => []IInv
BY InitIInv, NextIInv, PTL DEF Spec

-----------------------------------------------------------------------------
(* What follows from the invariant.                                        *)

\* Every variable keeps its type: among others, no step reads a field of a
\* directory that is not there.
THEOREM TypeCorrect == Spec => []TypeOK
<1>1. IInv => TypeOK
  BY DEF IInv
<1> QED
  BY <1>1, Invariance, PTL

\* The completed namespace holds whole captures only, at every step of every
\* publisher and after every failure and crash.
THEOREM CompletedAlwaysWhole == Spec => []CompletedIsWhole
<1>1. IInv => CompletedIsWhole
  BY DEF IInv
<1> QED
  BY <1>1, Invariance, PTL

\* A candidate pointer agrees with the capture it names for as long as both
\* exist, however many publishers there are.
THEOREM CandidatesAlwaysAgree == Spec => []CandidateAgrees
<1>1. IInv => CandidateAgrees
  BY DEF IInv, CandidatesBacked, Backed, CandidateAgrees
<1> QED
  BY <1>1, Invariance, PTL

\* No read beside any number of publications answers with an error.
THEOREM ReadersAlwaysSucceed == Spec => []ReadersNeverFail
<1>1. IInv => ReadersNeverFail
  BY DEF IInv
<1> QED
  BY <1>1, Invariance, PTL

\* The staging directory that an interrupted call leaves is never taken over.
LEMMA AbandonedStep ==
  ASSUME PublisherPart, [Next]_vars, NEW i \in Ids, Abandoned(i)
  PROVE  Abandoned(i)'
<1>0. /\ staging[i] # Absent /\ captures[i] = Absent
      /\ \A p \in Publishers :
           ppc[p] \notin {"idle", "check", "stage"} => work[p].id # i
  BY DEF Abandoned
<1>1. ASSUME NEW p \in Publishers, PublisherStep(p)
      PROVE  Abandoned(i)'
  <2> SUFFICES /\ staging'[i] # Absent /\ captures'[i] = Absent
               /\ ppc'[p] \notin {"idle", "check", "stage"} => work'[p].id # i
               /\ \A q \in Publishers \ {p} : ppc'[q] = ppc[q] /\ work'[q] = work[q]
    BY <1>0 DEF Abandoned
  <2> USE <1>0 DEF PublisherPart, PublishersTypeOK, StoreTypeOK, At, Staged
  <2>1. CASE Publish(p)
    BY <2>1 DEF Publish, storeVars
  <2>2. CASE CheckCompleted(p)
    BY <2>2 DEF CheckCompleted, Goto, Return, storeVars
  <2>3. CASE CreateStaging(p)
    BY <2>3, InFlightFacts DEF CreateStaging, Goto, Return
  <2>4. CASE WriteHeader(p)
    BY <2>4 DEF WriteHeader, Goto
  <2>5. CASE WriteInstances(p)
    BY <2>5 DEF WriteInstances, Goto
  <2>6. CASE CopyArtifact(p)
    BY <2>6 DEF CopyArtifact, publisherVars
  <2>7. CASE ValidateCopies(p)
    BY <2>7 DEF ValidateCopies, Goto, storeVars
  <2>8. CASE WritePointer(p)
    BY <2>8 DEF WritePointer, Goto
  <2>9. CASE ReplacePointer(p)
    BY <2>9 DEF ReplacePointer, Goto
  <2>10. CASE CommitCapture(p)
    BY <2>10 DEF CommitCapture, Return
  <2>11. CASE Interrupt(p)
    BY <2>11 DEF Interrupt, TornFile, Return
  <2> QED
    BY <1>1, <2>1, <2>2, <2>3, <2>4, <2>5, <2>6, <2>7, <2>8, <2>9, <2>10, <2>11
       DEF PublisherStep
<1>2. ASSUME UNCHANGED <<storeVars, publisherVars>>
      PROVE  Abandoned(i)'
  BY <1>0, <1>2 DEF Abandoned, storeVars, publisherVars
<1> QED
  BY <1>1, <1>2, ReaderStepFrame DEF Next, vars

\* Nothing ever completes a capture whose publication was interrupted, so the
\* pointer it may have left stays a miss until another replaces it.
THEOREM AbandonedIsFinal == Spec => AbandonedNeverAdopted
<1>1. IInv /\ [Next]_vars => [\A i \in Ids : Abandoned(i) => Abandoned(i)']_vars
  BY IInvParts, AbandonedStep
<1> QED
  BY <1>1, Invariance, PTL DEF Spec, AbandonedNeverAdopted
-----------------------------------------------------------------------------
(* One publisher at a time.                                                *)

\* What a call that has not published has done to its capture and request.
Harmless(p) ==
  LET c == work[p] IN
  /\ (captures[c.id] # Absent) = before[p].visible
  /\ \/ candidates[c.key] = before[p].candidate
     \/ candidates[c.key] = c /\ captures[c.id] = Absent

NotPublished(p) == ~At(p, "idle") \/ result[p] \in {"failed", "crashed"}

HarmlessUntilPublished == \A p \in Publishers : NotPublished(p) => Harmless(p)

\* The only publisher's step: replacing the pointer is harmless because the
\* capture is not there yet, and only the commit makes it visible.
LEMMA HarmlessStep ==
  ASSUME PublisherPart, HarmlessUntilPublished,
         NEW p \in Publishers, PublisherStep(p)
  PROVE  NotPublished(p)' => Harmless(p)'
<1> USE DEF PublisherPart, PublishersTypeOK, StoreTypeOK, NotPublished, Harmless, At
<1>0. ~At(p, "idle") => Harmless(p) /\ work[p] \in Captures /\ Progress(p)
  BY InFlightFacts DEF HarmlessUntilPublished
<1>1. CASE Publish(p)
  <2>1. PICK c \in Captures :
          /\ work' = [work EXCEPT ![p] = c]
          /\ before' = [before EXCEPT ![p] =
               [visible |-> captures[c.id] # Absent, candidate |-> candidates[c.key]]]
          /\ UNCHANGED storeVars
    BY <1>1 DEF Publish
  <2>2. work'[p] = c
    BY <2>1
  <2>3. before'[p] = [visible |-> captures[c.id] # Absent, candidate |-> candidates[c.key]]
    BY <2>1
  <2>4. before'[p].visible = (captures[c.id] # Absent) /\ before'[p].candidate = candidates[c.key]
    BY <2>3
  <2> QED
    BY <2>1, <2>2, <2>4 DEF storeVars
<1>2. CASE CheckCompleted(p)
  BY <1>0, <1>2 DEF CheckCompleted, Goto, Return, storeVars
<1>3. CASE CreateStaging(p)
  BY <1>0, <1>3 DEF CreateStaging, Goto, Return
<1>4. CASE WriteHeader(p) \/ WriteInstances(p) \/ WritePointer(p)
  BY <1>0, <1>4 DEF WriteHeader, WriteInstances, WritePointer, Goto
<1>5. CASE CopyArtifact(p) \/ ValidateCopies(p)
  BY <1>0, <1>5 DEF CopyArtifact, ValidateCopies, Goto, storeVars, publisherVars
<1>6. CASE ReplacePointer(p)
  <2>1. /\ work' = work /\ before' = before /\ captures' = captures
        /\ candidates' = [candidates EXCEPT ![work[p].key] = Staged(p).pointer]
        /\ ~At(p, "idle")
    BY <1>6 DEF ReplacePointer, Goto
  <2>2. Staged(p).pointer = work[p] /\ captures[work[p].id] = Absent
    BY <1>0, <1>6 DEF ReplacePointer, Progress, Building
  <2>3. work[p].key \in Keys
    BY <1>0, <2>1 DEF Captures
  <2> QED
    BY <1>0, <2>1, <2>2, <2>3
<1>7. CASE CommitCapture(p)
  <2>1. captures[work[p].id] = Absent
    BY <1>0, <1>7 DEF CommitCapture, Progress, Building
  <2>2. Return(p, "published")
    BY <1>7, <2>1 DEF CommitCapture
  <2> QED
    BY <2>2 DEF Return
<1>8. CASE Interrupt(p)
  BY <1>0, <1>8 DEF Interrupt, Return
<1> QED
  BY <1>1, <1>2, <1>3, <1>4, <1>5, <1>6, <1>7, <1>8 DEF PublisherStep

\* Under the documented contract, a call that did not publish has invalidated
\* at most the candidate of its own request.
THEOREM FailureIsHarmless ==
  ASSUME \A p, q \in Publishers : p = q
  PROVE  Spec => []FailureInvalidatesAtMost
<1>1. Init => HarmlessUntilPublished
  BY DEF Init, HarmlessUntilPublished, NotPublished, At
<1>2. IInv /\ HarmlessUntilPublished /\ [Next]_vars => HarmlessUntilPublished'
  <2> SUFFICES ASSUME IInv, HarmlessUntilPublished, [Next]_vars
               PROVE  HarmlessUntilPublished'
    OBVIOUS
  <2>1. ASSUME NEW p \in Publishers, PublisherStep(p)
        PROVE  HarmlessUntilPublished'
    BY <2>1, IInvParts, HarmlessStep DEF HarmlessUntilPublished
  <2>2. ASSUME UNCHANGED <<storeVars, publisherVars>>
        PROVE  HarmlessUntilPublished'
    BY <2>2 DEF HarmlessUntilPublished, NotPublished, Harmless, At, storeVars,
       publisherVars
  <2> QED
    BY <2>1, <2>2, ReaderStepFrame DEF Next, vars
<1>3. HarmlessUntilPublished => FailureInvalidatesAtMost
  BY DEF HarmlessUntilPublished, NotPublished, Harmless, FailureInvalidatesAtMost
<1> QED
  BY <1>1, <1>2, <1>3, Invariance, PTL DEF Spec

-----------------------------------------------------------------------------
(* Refinement: the files implement CaptureHistory.                         *)

\* The records of the abstract store, in terms of the directories.
LEMMA CompletedRecordsStep ==
  ASSUME \A i \in Ids : captures'[i] = captures[i]
  PROVE  CompletedRecords' = CompletedRecords
BY DEF CompletedRecords

\* A staging write, a look or a return changes nothing that is abstract.
LEMMA PublisherStepHistory ==
  ASSUME PublisherPart, NEW p \in Publishers, PublisherStep(p)
  PROVE  History!Next \/ UNCHANGED History!historyVars
<1> USE DEF PublisherPart, StoreTypeOK
<1>0. /\ \A i \in Ids : captures[i] # Absent => captures[i].header.id = i
      /\ \A k \in Keys : candidates[k] # Absent => Backed(candidates[k])
  BY DEF CompletedIsWhole, HeaderValid, CandidatesBacked
<1>1. CASE captures' = captures /\ candidates' = candidates
  BY <1>1 DEF CompletedRecords, History!historyVars
<1>2. CASE ReplacePointer(p)
  <2>1. /\ At(p, "replace") /\ ~At(p, "idle") /\ captures' = captures
        /\ candidates' = [candidates EXCEPT ![work[p].key] = Staged(p).pointer]
    BY <1>2 DEF ReplacePointer, At
  <2>2. /\ work[p] \in Captures /\ Staged(p).pointer = work[p]
        /\ captures[work[p].id] = Absent
    BY <2>1, InFlightFacts DEF Progress, At, Building
  <2>3. \A d \in CompletedRecords : d.id # work[p].id
    BY <1>0, <2>2 DEF CompletedRecords
  <2>4. CompletedRecords' = CompletedRecords
    BY <2>1 DEF CompletedRecords
  <2>5. History!Redirect(work[p])
    BY <2>1, <2>2, <2>3, <2>4 DEF History!Redirect
  <2> QED
    BY <2>2, <2>5 DEF History!Next
<1>3. CASE CommitCapture(p)
  <2>1. At(p, "commit") /\ ~At(p, "idle") /\ candidates' = candidates
    BY <1>3 DEF CommitCapture, At
  <2>2. /\ work[p] \in Captures /\ work[p].id \in Ids
        /\ Staged(p) # Absent /\ Staged(p).header = work[p]
        /\ captures[work[p].id] = Absent
    BY <2>1, InFlightFacts DEF Progress, At, Building
  <2>3. captures' = [captures EXCEPT ![work[p].id] = Staged(p)]
    BY <1>3, <2>2 DEF CommitCapture
  <2>4. \A d \in CompletedRecords : d.id # work[p].id
    BY <1>0, <2>2 DEF CompletedRecords
  <2>5. \A k \in Keys : candidates[k] # Absent /\ candidates[k].id = work[p].id
          => candidates[k] = work[p]
    BY <1>0, <2>2 DEF Backed, Staged
  <2>6. CompletedRecords' = CompletedRecords \cup {work[p]}
    <3>1. captures'[work[p].id] = Staged(p)
      BY <2>2, <2>3
    <3>2. \A i \in Ids : i # work[p].id => captures'[i] = captures[i]
      BY <2>3
    <3>3. ASSUME NEW c PROVE c \in CompletedRecords' <=> c \in CompletedRecords \cup {work[p]}
      BY <2>2, <3>1, <3>2 DEF CompletedRecords
    <3> QED
      BY <3>3
  <2>7. History!Commit(work[p])
    BY <2>1, <2>4, <2>5, <2>6 DEF History!Commit
  <2> QED
    BY <2>2, <2>7 DEF History!Next
<1>4. CASE ~ReplacePointer(p) /\ ~CommitCapture(p)
  <2>1. captures' = captures /\ candidates' = candidates
    BY <1>4 DEF PublisherStep, Publish, CheckCompleted, CreateStaging,
       WriteHeader, WriteInstances, CopyArtifact, ValidateCopies, WritePointer,
       Interrupt, storeVars
  <2> QED
    BY <1>1, <2>1
<1> QED
  BY <1>2, <1>3, <1>4

\* Publication, write by write, is one pointer replacement and one atomic
\* commit of the abstract store.
THEOREM PublicationImplementsHistory == Spec => ImplementsHistory
<1>1. Init => History!Init
  BY DEF Init, History!Init, CompletedRecords
<1>2. IInv /\ [Next]_vars => [History!Next]_(History!historyVars)
  <2> SUFFICES ASSUME IInv, [Next]_vars
               PROVE  History!Next \/ UNCHANGED History!historyVars
    OBVIOUS
  <2>1. ASSUME NEW p \in Publishers, PublisherStep(p)
        PROVE  History!Next \/ UNCHANGED History!historyVars
    BY <2>1, IInvParts, PublisherStepHistory
  <2>2. ASSUME UNCHANGED <<storeVars, publisherVars>>
        PROVE  UNCHANGED History!historyVars
    BY <2>2 DEF storeVars, CompletedRecords, History!historyVars
  <2> QED
    BY <2>1, <2>2, ReaderStepFrame DEF Next, vars
<1> QED
  BY <1>1, <1>2, Invariance, PTL DEF Spec, ImplementsHistory, History!Spec
=============================================================================

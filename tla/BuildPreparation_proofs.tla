----------------------- MODULE BuildPreparation_proofs -----------------------
(***************************************************************************)
(* Proofs about what prepare_build rests on, for any callers, requests and *)
(* surroundings: the cache from which it takes the driver (DriverCache),   *)
(* and the Cargo that it configures (RequestIdentity).                     *)
(*                                                                         *)
(* A publication into the cache compares nothing, so that entries are      *)
(* whole rests on what the temporary directory of a call holds at each of  *)
(* its steps.                                                              *)
(***************************************************************************)
EXTENDS DriverCache, RequestIdentity, TLAPS

-----------------------------------------------------------------------------
(* The cache of drivers.                                                   *)

USE CacheAssumption

\* What a caller's temporary directory holds at each of its steps.
Progress ==
  \A p \in Callers :
    /\ pc[p] \in {"build", "identity", "check", "publish"} => temporary[p].sources
    /\ pc[p] \in {"identity", "check", "publish"} => temporary[p].executable = key[p]
    /\ pc[p] \in {"check", "publish"} => temporary[p].identity = key[p]

IInv == TypeOK /\ Progress /\ EntriesAreWhole

\* A step of one caller that only moves it, or replaces its own directory.
LEMMA BuildKeepsType ==
  ASSUME TypeOK, NEW p \in Callers, NEW d \in Directories, NEW step \in Building,
         Build(p, d, step)
  PROVE  TypeOK'
BY DEF TypeOK, Build, Goto, Building, Steps

\* The end of a call.
LEMMA ReturnKeepsType ==
  ASSUME TypeOK, NEW p \in Callers,
         NEW how \in {"none", "hit", "built", "invalid", "failed", "crashed"},
         Return(p, how), entries' \in [Keys -> Directories \cup {Absent}],
         faults' \in 0 .. MaxFaults, touched' \subseteq Keys
  PROVE  TypeOK'
BY DEF TypeOK, Return, Goto, Building, Steps

\* A call that ends owns no directory any more; the others keep theirs.
LEMMA ReturnKeepsProgress ==
  ASSUME TypeOK, Progress, NEW p \in Callers, NEW how, Return(p, how)
  PROVE  Progress'
BY DEF TypeOK, Progress, Return, Goto

\* A fault is counted within its bound.
LEMMA FaultBounded == ASSUME TypeOK, Fault PROVE faults' \in 0 .. MaxFaults
BY DEF TypeOK, Fault

LEMMA TypeStep == TypeOK /\ Progress /\ [Next]_vars => TypeOK'
<1> SUFFICES ASSUME TypeOK, Progress, [Next]_vars PROVE TypeOK'
  OBVIOUS
<1>1. ASSUME NEW p \in Callers, Inspect(p) PROVE TypeOK'
  BY <1>1 DEF TypeOK, Inspect, Goto, Building, Steps
<1>2. ASSUME NEW p \in Callers, ValidateEntry(p) PROVE TypeOK'
  <2> DEFINE how == IF entries[key[p]] # Absent /\ Valid(entries[key[p]], key[p])
                    THEN "hit" ELSE "invalid"
  <2>1. Return(p, how) /\ UNCHANGED <<entries, faults, touched>>
    BY <1>2 DEF ValidateEntry
  <2> HIDE DEF how
  <2>2. how \in {"none", "hit", "built", "invalid", "failed", "crashed"}
    BY DEF how
  <2> QED BY <2>1, <2>2, ReturnKeepsType DEF TypeOK
<1>3. ASSUME NEW p \in Callers, CreateTemporary(p) PROVE TypeOK'
  <2>1. Empty \in Directories
    BY DEF Empty, Directories
  <2> QED BY <1>3, <2>1, BuildKeepsType DEF CreateTemporary, Building
<1>4. ASSUME NEW p \in Callers, WriteSources(p) \/ BuildDriver(p) \/ WriteIdentity(p)
      PROVE TypeOK'
  <2>1. temporary[p] \in Directories /\ key[p] \in Keys
    BY <1>4 DEF TypeOK, WriteSources, BuildDriver, WriteIdentity, Building
  <2>2. /\ [temporary[p] EXCEPT !.sources = TRUE] \in Directories
        /\ [temporary[p] EXCEPT !.executable = key[p]] \in Directories
        /\ [temporary[p] EXCEPT !.identity = key[p]] \in Directories
    BY <2>1 DEF Directories
  <2> QED BY <1>4, <2>2, BuildKeepsType
          DEF WriteSources, BuildDriver, WriteIdentity, Building
<1>5. ASSUME NEW p \in Callers, ValidateTemporary(p) PROVE TypeOK'
  <2>1. temporary[p] \in Directories
    BY <1>5 DEF TypeOK, ValidateTemporary, Building
  <2> QED BY <1>5, <2>1, BuildKeepsType DEF ValidateTemporary, Building
<1>6. ASSUME NEW p \in Callers, Publish(p) PROVE TypeOK'
  <2>1. temporary[p] \in Directories /\ key[p] \in Keys
    BY <1>6 DEF TypeOK, Publish, Building
  <2>2. entries' \in [Keys -> Directories \cup {Absent}]
    BY <1>6, <2>1 DEF TypeOK, Publish
  <2>3. Return(p, "built") \/ Return(p, "failed")
    BY <1>6 DEF Publish
  <2>4. UNCHANGED <<faults, touched>>
    BY <1>6 DEF Publish
  <2> QED BY <2>2, <2>3, <2>4, ReturnKeepsType DEF TypeOK
<1>7. ASSUME NEW p \in Callers, Fail(p) \/ Crash(p) PROVE TypeOK'
  <2>1. /\ Fault /\ UNCHANGED <<entries, touched>>
        /\ Return(p, "failed") \/ Return(p, "crashed")
    BY <1>7 DEF Fail, Crash
  <2> QED BY <2>1, FaultBounded, ReturnKeepsType DEF TypeOK
<1>8. ASSUME NEW p \in Callers, NEW k \in Keys, Provision(p, k) PROVE TypeOK'
  BY <1>8 DEF TypeOK, Provision, Goto, Building, Steps
<1>9. ASSUME NEW k \in Keys, Damage(k) PROVE TypeOK'
  <2>1. entries[k] \in Directories
    BY <1>9 DEF Damage, TypeOK
  <2>2. /\ [entries[k] EXCEPT !.identity = Absent] \in Directories
        /\ [entries[k] EXCEPT !.executable = Absent] \in Directories
    BY <2>1 DEF Directories
  <2>3. entries' \in [Keys -> Directories \cup {Absent}]
    BY <1>9, <2>2 DEF Damage, TypeOK
  <2>4. faults' \in 0 .. MaxFaults
    BY <1>9, FaultBounded DEF Damage
  <2> QED BY <1>9, <2>3, <2>4 DEF Damage, TypeOK
<1>10. ASSUME NEW k \in Keys, RemoveEntry(k) PROVE TypeOK'
  BY <1>10 DEF RemoveEntry, TypeOK
<1>11. CASE UNCHANGED vars
  BY <1>11 DEF TypeOK, vars
<1> QED
  BY <1>1, <1>2, <1>3, <1>4, <1>5, <1>6, <1>7, <1>8, <1>9, <1>10, <1>11
     DEF Next, Step

LEMMA ProgressStep == TypeOK /\ Progress /\ [Next]_vars => Progress'
<1> SUFFICES ASSUME TypeOK, Progress, [Next]_vars PROVE Progress'
  OBVIOUS
<1>1. ASSUME NEW p \in Callers, Inspect(p) \/ \E k \in Keys : Provision(p, k)
      PROVE Progress'
  BY <1>1 DEF TypeOK, Progress, Inspect, Provision, Goto
<1>2. ASSUME NEW p \in Callers, ValidateEntry(p) \/ Publish(p) \/ Fail(p) \/ Crash(p)
      PROVE Progress'
  <2>1. \E how : Return(p, how)
    BY <1>2 DEF ValidateEntry, Publish, Fail, Crash
  <2> QED BY <2>1, ReturnKeepsProgress
<1>3. ASSUME NEW p \in Callers, CreateTemporary(p) PROVE Progress'
  BY <1>3 DEF TypeOK, Progress, CreateTemporary, Build, Goto
<1>4. ASSUME NEW p \in Callers,
             WriteSources(p) \/ BuildDriver(p) \/ WriteIdentity(p) \/ ValidateTemporary(p)
      PROVE Progress'
  <2>1. temporary[p] \in Directories
    BY <1>4 DEF TypeOK, WriteSources, BuildDriver, WriteIdentity, ValidateTemporary,
                Building
  <2>2. CASE WriteSources(p)
    BY <2>1, <2>2 DEF TypeOK, Progress, WriteSources, Build, Goto, Directories
  <2>3. CASE BuildDriver(p)
    BY <2>1, <2>3 DEF TypeOK, Progress, BuildDriver, Build, Goto, Directories
  <2>4. CASE WriteIdentity(p)
    BY <2>1, <2>4 DEF TypeOK, Progress, WriteIdentity, Build, Goto, Directories
  <2>5. CASE ValidateTemporary(p)
    BY <2>1, <2>5 DEF TypeOK, Progress, ValidateTemporary, Build, Goto, Directories
  <2> QED BY <1>4, <2>2, <2>3, <2>4, <2>5
<1>5. ASSUME NEW k \in Keys, Damage(k) \/ RemoveEntry(k) PROVE Progress'
  BY <1>5 DEF Progress, Damage, RemoveEntry
<1>6. CASE UNCHANGED vars
  BY <1>6 DEF Progress, vars
<1> QED
  BY <1>1, <1>2, <1>3, <1>4, <1>5, <1>6 DEF Next, Step

\* Only a publication adds an entry, and only someone outside changes one.
LEMMA EntriesChange ==
  ASSUME TypeOK, Next
  PROVE  \/ UNCHANGED <<entries, touched>>
         \/ \E p \in Callers :
              /\ pc[p] = "publish" /\ entries[key[p]] = Absent
              /\ entries' = [entries EXCEPT ![key[p]] = temporary[p]]
              /\ touched' = touched
         \/ \E k \in Keys : \E d :
              /\ entries' = [entries EXCEPT ![k] = d]
              /\ touched' = touched \cup {k}
              /\ pc' = pc
<1>1. ASSUME NEW p \in Callers, Publish(p)
      PROVE  \/ UNCHANGED <<entries, touched>>
             \/ /\ pc[p] = "publish" /\ entries[key[p]] = Absent
                /\ entries' = [entries EXCEPT ![key[p]] = temporary[p]]
                /\ touched' = touched
  BY <1>1 DEF Publish
<1>2. ASSUME NEW k \in Keys, Damage(k) \/ RemoveEntry(k)
      PROVE  \E d : /\ entries' = [entries EXCEPT ![k] = d]
                    /\ touched' = touched \cup {k}
                    /\ pc' = pc
  BY <1>2 DEF Damage, RemoveEntry
<1>3. ASSUME NEW p \in Callers,
             \/ Inspect(p) \/ ValidateEntry(p) \/ CreateTemporary(p) \/ WriteSources(p)
             \/ BuildDriver(p) \/ WriteIdentity(p) \/ ValidateTemporary(p)
             \/ Fail(p) \/ Crash(p) \/ \E k \in Keys : Provision(p, k)
      PROVE  UNCHANGED <<entries, touched>>
  BY <1>3 DEF Inspect, ValidateEntry, CreateTemporary, WriteSources, BuildDriver,
              WriteIdentity, ValidateTemporary, Fail, Crash, Provision, Build
<1> QED
  BY <1>1, <1>2, <1>3 DEF Next, Step

LEMMA WholeStep == IInv /\ [Next]_vars => EntriesAreWhole'
<1> SUFFICES ASSUME IInv, [Next]_vars PROVE EntriesAreWhole'
  OBVIOUS
<1>1. CASE UNCHANGED <<entries, touched>>
  BY <1>1 DEF IInv, EntriesAreWhole
<1>2. ASSUME NEW p \in Callers, pc[p] = "publish", touched' = touched,
             entries' = [entries EXCEPT ![key[p]] = temporary[p]]
      PROVE  EntriesAreWhole'
  <2>1. temporary[p] \in Directories /\ key[p] \in Keys
    BY <1>2 DEF IInv, TypeOK, Building
  <2>2. /\ temporary[p].sources = TRUE /\ temporary[p].executable = key[p]
        /\ temporary[p].identity = key[p]
    BY <1>2, <2>1 DEF IInv, Progress, Directories
  <2>3. temporary[p] = [sources |-> TRUE, executable |-> key[p], identity |-> key[p]]
    BY <2>1, <2>2 DEF Directories
  <2> QED BY <1>2, <2>1, <2>3 DEF IInv, TypeOK, EntriesAreWhole
<1>3. ASSUME NEW k \in Keys, NEW d, entries' = [entries EXCEPT ![k] = d],
             touched' = touched \cup {k}
      PROVE  EntriesAreWhole'
  BY <1>3 DEF IInv, TypeOK, EntriesAreWhole
<1>4. CASE UNCHANGED vars
  BY <1>1, <1>4 DEF vars
<1> QED
  BY <1>1, <1>2, <1>3, <1>4, EntriesChange DEF IInv

LEMMA Inductive == Spec => []IInv
<1>1. Init => IInv
  BY DEF Init, IInv, TypeOK, Progress, EntriesAreWhole, Steps, Building
<1>2. IInv /\ [Next]_vars => IInv'
  BY TypeStep, ProgressStep, WholeStep DEF IInv
<1> QED BY <1>1, <1>2, PTL DEF Spec

\* The cache, the temporary directories and the calls keep their types; a caller
\* owns a temporary directory exactly between its creation and its end.
THEOREM TypeCorrect == Spec => []TypeOK
BY Inductive, PTL DEF IInv

\* An entry that Optic published and nobody outside changed is whole and of its
\* own key, however many callers race, fail or die.
THEOREM EntriesAlwaysWhole == Spec => []EntriesAreWhole
BY Inductive, PTL DEF IInv

\* No step of a caller changes or removes an entry.
THEOREM EntriesAlwaysStay == Spec => EntriesStay
<1>1. ASSUME IInv, [Next]_vars, pc' # pc
      PROVE  \A k \in Keys : entries[k] # Absent => entries'[k] = entries[k]
  <2>1. Next /\ TypeOK
    BY <1>1 DEF vars, IInv
  <2>2. CASE UNCHANGED entries
    BY <2>2
  <2>3. ASSUME NEW p \in Callers, entries[key[p]] = Absent,
               entries' = [entries EXCEPT ![key[p]] = temporary[p]]
        PROVE  \A k \in Keys : entries[k] # Absent => entries'[k] = entries[k]
    BY <2>1, <2>3 DEF TypeOK
  <2> QED BY <1>1, <2>1, <2>2, <2>3, EntriesChange
<1>2. IInv /\ [Next]_vars =>
        [pc' # pc => \A k \in Keys : entries[k] # Absent => entries'[k] = entries[k]]_vars
  BY <1>1
<1> QED BY <1>2, Inductive, PTL DEF Spec, EntriesStay

-----------------------------------------------------------------------------
(* The compiler and the wrappers of a prepared build.                      *)

\* From the moment a call is made it has an environment; its compiler is the
\* environment's, and what it announced is what the environment says.
Surrounded(m) ==
  /\ CompilerVariables \cup {"config", "compiler"} \subseteq DOMAIN m
  /\ m.compiler \in Seq(STRING)
  /\ \A entry \in DOMAIN m.config : m.config[entry] # Unset

Announced ==
  stage \in {"identity", "prepared"} =>
    ~RefusesCompiler(machine) /\ warned = WrappersConfigured(machine)

PrepareIInv ==
  /\ stage # "idle" => Surrounded(machine)
  /\ Announced

\* Of three values the first that is set decides.
LEMMA FirstOfThree ==
  ASSUME NEW a, NEW b, NEW c
  PROVE  FirstSet(<<a, b, c>>) =
           IF a # Unset THEN a
           ELSE IF b # Unset THEN b
           ELSE IF c # Unset THEN c
           ELSE NoText
<1> DEFINE v == <<a, b, c>>
           set == {i \in DOMAIN v : v[i] # Unset}
<1>1. DOMAIN v = {1, 2, 3} /\ v[1] = a /\ v[2] = b /\ v[3] = c
  OBVIOUS
<1>2. set \subseteq {1, 2, 3}
      /\ (1 \in set <=> a # Unset) /\ (2 \in set <=> b # Unset) /\ (3 \in set <=> c # Unset)
  BY <1>1
<1>3. FirstSet(v) = IF set = {} THEN NoText ELSE v[First(set)]
  BY DEF FirstSet
<1>4. ASSUME NEW n \in set, \A j \in set : n <= j PROVE First(set) = n
  <2>1. \A i \in set : (\A j \in set : i <= j) => i = n
    BY <1>2, <1>4
  <2> QED
    BY <1>4, <2>1 DEF First
<1> HIDE DEF v, set
<1>5. CASE a # Unset
  <2>1. 1 \in set /\ \A j \in set : 1 <= j
    BY <1>2, <1>5
  <2> QED
    BY <1>1, <1>3, <1>4, <1>5, <2>1 DEF v
<1>6. CASE a = Unset /\ b # Unset
  <2>1. 2 \in set /\ \A j \in set : 2 <= j
    BY <1>2, <1>6
  <2> QED
    BY <1>1, <1>3, <1>4, <1>6, <2>1 DEF v
<1>7. CASE a = Unset /\ b = Unset /\ c # Unset
  <2>1. 3 \in set /\ \A j \in set : 3 <= j
    BY <1>2, <1>7
  <2> QED
    BY <1>1, <1>3, <1>4, <1>7, <2>1 DEF v
<1>8. CASE a = Unset /\ b = Unset /\ c = Unset
  BY <1>2, <1>3, <1>8 DEF v
<1> QED
  BY <1>5, <1>6, <1>7, <1>8

\* Texts that are not the mark of an unset variable.
LEMMA TextsAreSet ==
  ASSUME NEW m, Surrounded(m)
  PROVE  NoText # Unset /\ Driver # Unset /\ Rustc(m) # Unset
<1>1. Len(Unset) = 1 /\ Len(NoText) = 0 /\ Len(Driver) = 2
  BY DEF Unset, NoText, Driver
<1>2. Len(Rustc(m)) >= 2
  <2> DEFINE S == STRING \cup {"/", "sysroot"}
             root == <<"/", "sysroot">>
  <2>1. m.compiler \in Seq(STRING)
    BY DEF Surrounded
  <2> HIDE DEF S
  <2>2. Len(m.compiler) \in Nat /\ \A i \in 1 .. Len(m.compiler) : m.compiler[i] \in STRING
    BY <2>1
  <2>3. m.compiler \in Seq(S)
    BY <2>1, <2>2 DEF S
  <2>4. root \in Seq(S) /\ Len(root) = 2
    BY DEF S
  <2>5. Len(root \o m.compiler) = 2 + Len(m.compiler)
    BY <2>3, <2>4
  <2> QED
    BY <2>2, <2>5 DEF Rustc
<1>3. NoText # Unset /\ Driver # Unset
  BY <1>1
<1>4. Rustc(m) # Unset
  <2>1. Len(Rustc(m)) # Len(Unset)
    <3>1. \A a : a = 1 => ~(a >= 2)
      OBVIOUS
    <3> QED
      BY <1>1, <1>2, <3>1, Zenon
  <2> QED
    BY <2>1, Zenon
<1> QED
  BY <1>3, <1>4

\* What the configured Cargo runs.
LEMMA ConfiguredRunsDriver ==
  ASSUME NEW m, Surrounded(m)
  PROVE  CargoRuns(Configured(m)) =
           [rustc |-> Rustc(m), wrapper |-> Driver, workspaceWrapper |-> NoText]
<1> DEFINE c == Configured(m)
<1>1. c.rustc = Rustc(m) /\ c.wrapper = Driver /\ c.workspaceWrapper = NoText
  BY DEF Configured, Surrounded, CompilerVariables
<1> HIDE DEF c
<1>2. /\ FirstSet(<<c.rustc, c.buildRustc, InFile(c, "rustc")>>) = Rustc(m)
      /\ FirstSet(<<c.wrapper, c.buildWrapper, InFile(c, "wrapper")>>) = Driver
      /\ FirstSet(<<c.workspaceWrapper, c.buildWorkspaceWrapper,
                    InFile(c, "workspaceWrapper")>>) = NoText
  BY <1>1, FirstOfThree, TextsAreSet
<1> QED
  BY <1>2 DEF CargoRuns, c

\* What Cargo would have run, and what was announced: the two differ by entries
\* that are there and empty.
LEMMA WrappersAgree ==
  ASSUME NEW m, Surrounded(m), ~RefusesCompiler(m)
  PROVE  /\ CargoRuns(m) # Unwrapped => WrappersConfigured(m)
         /\ WrappersConfigured(m) =>
              \/ CargoRuns(m) # Unwrapped
              \/ \E entry \in DOMAIN m.config : m.config[entry] = NoText
<1>1. FirstSet(<<m.rustc, m.buildRustc, InFile(m, "rustc")>>) = NoText
  BY FirstOfThree DEF RefusesCompiler, HasEntry, InFile
<1>2. ASSUME NEW entry, NEW a, NEW b
      PROVE  /\ FirstSet(<<a, b, InFile(m, entry)>>) # NoText =>
                  IsConfigured(a, b, HasEntry(m, entry))
             /\ IsConfigured(a, b, HasEntry(m, entry)) =>
                  \/ FirstSet(<<a, b, InFile(m, entry)>>) # NoText
                  \/ HasEntry(m, entry) /\ m.config[entry] = NoText
  <2>1. /\ HasEntry(m, entry) => InFile(m, entry) = m.config[entry] /\ m.config[entry] # Unset
        /\ ~HasEntry(m, entry) => InFile(m, entry) = Unset
    BY DEF HasEntry, InFile, Surrounded
  <2>2. FirstSet(<<a, b, InFile(m, entry)>>) =
          IF a # Unset THEN a
          ELSE IF b # Unset THEN b
          ELSE IF InFile(m, entry) # Unset THEN InFile(m, entry)
          ELSE NoText
    BY FirstOfThree, Zenon
  <2>3. CASE a # Unset
    BY <2>2, <2>3 DEF IsConfigured
  <2>4. CASE a = Unset /\ b # Unset
    BY <2>2, <2>4 DEF IsConfigured
  <2>5. CASE a = Unset /\ b = Unset
    BY <2>1, <2>2, <2>5, Zenon DEF IsConfigured
  <2> QED
    BY <2>3, <2>4, <2>5
<1> DEFINE wrapper == FirstSet(<<m.wrapper, m.buildWrapper, InFile(m, "wrapper")>>)
           workspaceWrapper == FirstSet(<<m.workspaceWrapper, m.buildWorkspaceWrapper,
                                          InFile(m, "workspaceWrapper")>>)
<1>3. CargoRuns(m) # Unwrapped <=> wrapper # NoText \/ workspaceWrapper # NoText
  BY <1>1 DEF CargoRuns, Unwrapped
<1> QED
  BY <1>2, <1>3 DEF WrappersConfigured, HasEntry

LEMMA PrepareInductive == PrepareSpec => []PrepareIInv
<1>1. PrepareInit => PrepareIInv
  BY DEF PrepareInit, PrepareIInv, Announced
<1>2. PrepareIInv /\ [PrepareNext]_prepareVars => PrepareIInv'
  <2> SUFFICES ASSUME PrepareIInv, [PrepareNext]_prepareVars PROVE PrepareIInv'
    OBVIOUS
  <2>1. ASSUME NEW call \in FirstCalls \cup SecondCalls, Begin(call) PROVE PrepareIInv'
    <3>1. stage' = "parse" /\ machine' = call.machine
      BY <2>1 DEF Begin
    <3>2. Surrounded(call.machine)
      BY CallsAssumption DEF Surrounded
    <3> QED
      BY <3>1, <3>2 DEF PrepareIInv, Announced
  <2>2. CASE FirstCall
    BY <2>1, <2>2 DEF FirstCall
  <2>3. CASE NextCall
    BY <2>1, <2>3 DEF NextCall
  <2>4. CASE Parse
    BY <2>4 DEF Parse, Stop, PrepareIInv, Announced
  <2>5. CASE DiscoverWorkspace
    BY <2>5 DEF DiscoverWorkspace, Stop, PrepareIInv, Announced
  <2>6. CASE ReadMetadata
    BY <2>6 DEF ReadMetadata, Stop, PrepareIInv, Announced
  <2>7. CASE SelectCompiler
    <3>1. stage = "compiler" /\ machine' = machine
      BY <2>7 DEF SelectCompiler
    <3>2. \/ stage' = "refused"
          \/ stage' = "identity" /\ ~RefusesCompiler(machine)
             /\ warned' = WrappersConfigured(machine)
      BY <2>7 DEF SelectCompiler, Stop
    <3> QED
      BY <3>1, <3>2 DEF PrepareIInv, Announced
  <2>8. CASE Identify
    BY <2>8 DEF Identify, PrepareIInv, Announced
  <2>9. CASE ProgramFails
    BY <2>9 DEF ProgramFails, PrepareIInv, Announced
  <2>10. CASE UNCHANGED prepareVars
    BY <2>10 DEF prepareVars, PrepareIInv, Announced
  <2> QED
    BY <2>2, <2>3, <2>4, <2>5, <2>6, <2>7, <2>8, <2>9, <2>10 DEF PrepareNext
<1> QED
  BY <1>1, <1>2, PTL DEF PrepareSpec

\* Whatever callers ask and whatever variables and configuration say, a prepared
\* build runs the rustc it is keyed by in Optic's wrapper alone.  The caller is told
\* whenever an ordinary build would have been wrapped, and otherwise only if a
\* configuration file has an empty entry.
THEOREM OnlyTheDriverEverWraps == PrepareSpec => []OnlyTheDriverWraps
<1>1. PrepareIInv => OnlyTheDriverWraps
  <2> SUFFICES ASSUME PrepareIInv, stage = "prepared" PROVE OnlyTheDriverWraps
    BY DEF OnlyTheDriverWraps
  <2>1. Surrounded(machine) /\ ~RefusesCompiler(machine)
        /\ warned = WrappersConfigured(machine)
    BY DEF PrepareIInv, Announced
  <2> QED
    BY <2>1, ConfiguredRunsDriver, WrappersAgree DEF OnlyTheDriverWraps, HasEmptyEntry
<1> QED
  BY <1>1, PrepareInductive, PTL
=============================================================================

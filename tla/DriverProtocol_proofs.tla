----------------------- MODULE DriverProtocol_proofs -----------------------
(***************************************************************************)
(* Proofs about DriverProtocol, for any set of dependencies, any number of *)
(* faults and any order of the processes' steps.                           *)
(*                                                                         *)
(* The inductive invariant says how far each process can be while another  *)
(* is at a step of its own: what the driver's step tells of the receipt,   *)
(* the manifest and the mode, what Cargo's messages tell of its units, and *)
(* where every diagnostic that was raised is to be found.                  *)
(***************************************************************************)
EXTENDS DriverProtocol, TLAPS

\* What Cargo is doing at each step of Optic.  Optic answers only about a Cargo
\* that has ended; one that outlives Optic belongs to a call that crashed.
Phases ==
  /\ optic = "start" => cargo # "building" /\ recorded = {}
  /\ optic = "read" => cargo # "off"
  /\ optic = "classify" => cargo = "exited"
  /\ result \in {"fresh", "collected", "failed"} => cargo = "exited"
  /\ cargo = "off" => requested = {} /\ driver = "none"
  /\ mode = "probe" /\ optic = "start" => cargo = "off"
  /\ dirty # {} => cargo # "off"

\* Only stale units are compiled, the selected one whenever any is, and the
\* driver runs for it once.
Compilations ==
  /\ dirty # {} => Selected \in dirty
  /\ \A u \in Units : jobs[u] # "queued" => u \in dirty
  /\ jobs[Selected] = "queued" <=> driver = "none"

\* Where the driver is decides which files of the attempt it has written and
\* whether the wrapper has met the selected unit; the mode decides its way.
Routes ==
  /\ mode = "probe" => driver \in {"none", "verify", "receipt", "failed"}
  /\ mode = "probe" /\ driver \in {"none", "verify"} => "probe" \notin requested
  /\ driver = "receipt" => mode = "probe"
  /\ driver = "receipt" \/ receipt = "whole" => "probe" \in requested
  /\ receipt = "whole" => driver = "failed"
  /\ manifest = "whole" <=> driver = "succeeded"

\* Cargo keeps a unit only of a collection whose driver has ended well.
Records ==
  /\ recorded \subseteq {"collect"}
  /\ recorded # {} =>
       /\ mode = "collect"
       /\ driver \in {"succeeded", "informed"}
       /\ jobs[Selected] = "done"

\* The artifact message is sent once, and says what became of the selected unit.
Observed ==
  /\ observation.selected \in {<<>>, <<TRUE>>, <<FALSE>>}
  /\ observation.selected = <<TRUE>> => Selected \notin dirty
  /\ observation.selected = <<FALSE>> =>
       jobs[Selected] = "done" /\ recorded = {"collect"}
  /\ status = "success" =>
       cargo = "exited" /\ \A u \in dirty : jobs[u] = "done"

\* Until Optic returns, a diagnostic is shown, or waits with its attempt's
\* notes, or was kept of a stopped probe; what is shown before the collection's
\* end is a warning of the probe, what is kept is none.
Waiting ==
  /\ \A n \in notes : n[1] = mode
  /\ optic # "returned" =>
       /\ raised = shown \cup notes \cup stopped
       /\ \A n \in shown : n = <<"probe", "warning">>
       /\ \A n \in stopped : n[1] = "probe" /\ n[2] # "warning"
       /\ mode = "probe" => shown = {} /\ stopped = {}

IInv ==
  /\ TypeOK /\ Phases /\ Compilations /\ Routes /\ Records /\ Observed /\ Waiting
  /\ AnswersAreConfirmed /\ DiagnosticsAreRelayed

-----------------------------------------------------------------------------
(* Who does what.  The steps of Next, by process, and what each process    *)
(* leaves alone.                                                           *)

CargoAction == CargoStep \/ KillCargo
DriverAction == DriverStep \/ StopAnalysis \/ FailDriver
OpticAction == OpticStep \/ Interrupt

DiagnosticKinds == {"warning", "error", "abort"}

LEMMA Processes == Next <=> CargoAction \/ DriverAction \/ OpticAction
BY DEF Next, CargoAction, DriverAction, OpticAction

\* Cargo touches neither Optic nor the files of the attempt.
LEMMA CargoFrame ==
  ASSUME CargoAction
  PROVE  /\ Building
         /\ UNCHANGED <<mode, optic, dirty, receipt, manifest, stopped, shown, repeated,
                        result, requested>>
BY DEF CargoAction, CargoStep, StartUnit, EndDependency, ReportFresh, RecordUnit,
       RefuseUnit, Ending, ExitCargo, KillCargo, Report, processVars, diagnosticVars

\* The driver touches neither Optic nor Cargo's books.
LEMMA DriverFrame ==
  ASSUME DriverAction
  PROVE  /\ Active
         /\ UNCHANGED <<mode, optic, cargo, status, dirty, jobs, recorded, stopped,
                        shown, repeated, result>>
         /\ UNCHANGED observation
              \/ observation' = [observation EXCEPT !.errors = @ \/ Building]
BY DEF DriverAction, DriverStep, Verify, Generate, StopProbe, CreateManifest,
       RejectProgram, Analyse, Inform, Finish, StopAnalysis, FailDriver, Active, Advance,
       Report, diagnosticVars

\* Optic raises nothing and, once an attempt runs, changes nothing of Cargo's or
\* the driver's.
LEMMA OpticFrame ==
  ASSUME OpticAction
  PROVE  /\ optic # "returned"
         /\ UNCHANGED <<raised, recorded, requested>>
         /\ StartAttempt \/ UNCHANGED <<processVars, observation>>
BY DEF OpticAction, OpticStep, StartAttempt, ReadToEnd, KeepStopped, AcceptFresh,
       RefuseProbe, AcceptCollection, RefuseCollection, Interrupt, OpticUnchanged,
       processVars, diagnosticVars

\* A diagnostic reaches Optic through a Cargo that is there to pass it on.
LEMMA ReportedWhileBuilding ==
  ASSUME CargoAction \/ DriverAction
  PROVE  \/ UNCHANGED diagnosticVars
         \/ Building /\ \E kinds \in SUBSET DiagnosticKinds : Report(kinds)
<1>1. ASSUME NEW d \in Dependencies, EndDependency(d)
      PROVE  Building /\ \E kinds \in SUBSET DiagnosticKinds : Report(kinds)
  BY <1>1 DEF EndDependency, Warned, DiagnosticKinds
<1>2. CASE CargoAction
  BY <1>1, <1>2
     DEF CargoAction, CargoStep, StartUnit, ReportFresh, RecordUnit, RefuseUnit,
         ExitCargo, KillCargo, diagnosticVars
<1>3. ASSUME NEW step, NEW kinds \in SUBSET DiagnosticKinds, Advance(step, kinds)
      PROVE  \/ UNCHANGED diagnosticVars
             \/ Building /\ \E k \in SUBSET DiagnosticKinds : Report(k)
  BY <1>3 DEF Advance
<1>4. CASE DriverAction
  <2>1. \E step, kinds : Advance(step, kinds) /\ kinds \in SUBSET DiagnosticKinds
    BY <1>4
       DEF DriverAction, DriverStep, Verify, Generate, StopProbe, CreateManifest,
           RejectProgram, Analyse, Inform, Finish, StopAnalysis, FailDriver, Warned,
           DiagnosticKinds
  <2> QED
    BY <1>3, <2>1
<1> QED
  BY <1>2, <1>4

-----------------------------------------------------------------------------
(* Types.                                                                  *)

\* The five sets of diagnostics, one by one.
LEMMA DiagnosticTypes ==
  TypeOK => /\ notes \subseteq Notes /\ stopped \subseteq Notes
            /\ shown \subseteq Notes /\ repeated \subseteq Notes /\ raised \subseteq Notes
BY DEF TypeOK

LEMMA ReportedTypes ==
  ASSUME mode \in Modes, NEW kinds \in SUBSET DiagnosticKinds,
         NEW set \in SUBSET Notes
  PROVE  set \cup {<<mode, kind>> : kind \in kinds} \subseteq Notes
BY DEF Notes, DiagnosticKinds

LEMMA DiagnosticTypesPreserved ==
  ASSUME TypeOK, [Next]_vars
  PROVE  \A s \in {notes', stopped', shown', repeated', raised'} : s \subseteq Notes
<1>1. /\ notes \subseteq Notes /\ stopped \subseteq Notes
      /\ shown \subseteq Notes /\ repeated \subseteq Notes /\ raised \subseteq Notes
      /\ mode \in Modes
  BY DiagnosticTypes DEF TypeOK
<1>2. CASE CargoAction \/ DriverAction
  <2>1. CASE UNCHANGED diagnosticVars
    BY <1>1, <2>1 DEF diagnosticVars
  <2>2. ASSUME NEW kinds \in SUBSET DiagnosticKinds, Report(kinds)
        PROVE  \A s \in {notes', stopped', shown', repeated', raised'} : s \subseteq Notes
    <3>1. notes' \subseteq Notes /\ raised' \subseteq Notes
      BY <1>1, <2>2, ReportedTypes DEF Report
    <3> QED
      BY <1>1, <2>2, <3>1 DEF Report
  <2> QED
    BY <1>2, <2>1, <2>2, ReportedWhileBuilding
<1>3. CASE OpticAction
  <2>1. raised' = raised
    BY <1>3, OpticFrame
  <2>2. /\ notes' \in {notes, {}}
        /\ stopped' \in {stopped, {}, Kinds(notes, {"error", "abort"})}
        /\ \/ UNCHANGED <<shown, repeated>>
           \/ \E set \in {Kinds(notes, {"warning"}), notes, notes \cup stopped} : Show(set)
    BY <1>3
       DEF OpticAction, OpticStep, StartAttempt, ReadToEnd, KeepStopped, AcceptFresh,
           RefuseProbe, AcceptCollection, RefuseCollection, Interrupt, Return,
           diagnosticVars
  <2>3. \A kinds : Kinds(notes, kinds) \subseteq notes
    BY DEF Kinds
  <2>4. \A set \in SUBSET Notes : Show(set) => shown' \subseteq Notes /\ repeated' \subseteq Notes
    BY <1>1 DEF Show
  <2>5. shown' \subseteq Notes /\ repeated' \subseteq Notes
    BY <1>1, <2>2, <2>3, <2>4
  <2> QED
    BY <1>1, <2>1, <2>2, <2>3, <2>5
<1>4. CASE UNCHANGED vars
  BY <1>1, <1>4 DEF vars, diagnosticVars
<1> QED
  BY <1>2, <1>3, <1>4, Processes

Observations == [selected : Seq(BOOLEAN), finished : Seq(BOOLEAN), errors : BOOLEAN]

\* A message is appended to what was observed, or adds to its errors.
LEMMA ObservedTypes ==
  ASSUME observation \in Observations, NEW value \in BOOLEAN
  PROVE  /\ Observe("selected", value) => observation' \in Observations
         /\ Observe("finished", value) => observation' \in Observations
         /\ [observation EXCEPT !.errors = @ \/ value] \in Observations
<1>1. /\ observation.selected \in Seq(BOOLEAN)
      /\ observation.finished \in Seq(BOOLEAN)
      /\ observation.errors \in BOOLEAN
  BY DEF Observations
<1>2. /\ Append(observation.selected, value) \in Seq(BOOLEAN)
      /\ Append(observation.finished, value) \in Seq(BOOLEAN)
  BY <1>1
<1>3. (observation.errors \/ value) \in BOOLEAN
  OBVIOUS
<1>4. Observe("selected", value) => observation' \in Observations
  BY <1>1, <1>2 DEF Observe, Observations
<1>5. Observe("finished", value) => observation' \in Observations
  BY <1>1, <1>2 DEF Observe, Observations
<1>6. [observation EXCEPT !.errors = @ \/ value] \in Observations
  BY <1>1, <1>3, Zenon DEF Observations
<1> QED
  BY <1>4, <1>5, <1>6

\* The first artifact message is the only one that was observed.
LEMMA FirstArtifact ==
  ASSUME observation \in Observations, NEW value \in BOOLEAN,
         observation.selected = <<>>, Observe("selected", value)
  PROVE  observation'.selected = <<value>>
<1>1. observation'.selected = Append(observation.selected, value)
  BY DEF Observe, Observations
<1>2. Append(<<>>, value) = <<value>>
  OBVIOUS
<1> QED
  BY <1>1, <1>2

LEMMA ObservationPreserved ==
  ASSUME TypeOK, [Next]_vars
  PROVE  observation' \in Observations
<1>1. observation \in Observations
  BY DEF TypeOK, Observations
<1>2. Building \in BOOLEAN /\ Done \in BOOLEAN
  BY DEF Building, Done
<1>3. CASE CargoAction
  <2>1. ASSUME NEW d \in Dependencies, EndDependency(d)
        PROVE  observation' \in Observations
    <3>1. PICK failed \in BOOLEAN :
            observation' \in {observation, [observation EXCEPT !.errors = @ \/ failed]}
      BY <2>1 DEF EndDependency
    <3> QED
      BY <1>1, <3>1, ObservedTypes
  <2>2. \/ \E d \in Dependencies : EndDependency(d)
        \/ UNCHANGED observation
        \/ \E value \in BOOLEAN : Observe("selected", value) \/ Observe("finished", value)
    BY <1>2, <1>3
       DEF CargoAction, CargoStep, StartUnit, ReportFresh, RecordUnit, RefuseUnit,
           ExitCargo, KillCargo, processVars
  <2> QED
    BY <1>1, <2>1, <2>2, ObservedTypes
<1>4. CASE DriverAction
  BY <1>1, <1>2, <1>4, DriverFrame, ObservedTypes
<1>5. CASE OpticAction
  <2>1. observation' \in {observation, NoObservation}
    BY <1>5, OpticFrame DEF StartAttempt
  <2>2. <<>> \in Seq(BOOLEAN)
    OBVIOUS
  <2>3. NoObservation \in Observations
    BY <2>2 DEF NoObservation, Observations
  <2> QED
    BY <1>1, <2>1, <2>3
<1>6. CASE UNCHANGED vars
  BY <1>1, <1>6 DEF vars
<1> QED
  BY <1>3, <1>4, <1>5, <1>6, Processes

\* The scalars and the sets, by process.  At the start of an attempt no Cargo
\* runs that could add to the notes.
LEMMA TypesPreserved ==
  ASSUME IInv, [Next]_vars
  PROVE  TypeOK'
<1> USE DEF TypeOK, Modes
<1>1. TypeOK /\ Phases /\ Compilations
  BY DEF IInv
<1>2. /\ \A s \in {notes', stopped', shown', repeated', raised'} : s \subseteq Notes
      /\ observation' \in [selected : Seq(BOOLEAN), finished : Seq(BOOLEAN),
                           errors : BOOLEAN]
  BY <1>1, DiagnosticTypesPreserved, ObservationPreserved DEF Observations
<1>3. faults' \in 0 .. MaxFaults
  <2>1. faults' = faults \/ Fault
    <3>1. CASE CargoAction
      BY <3>1
         DEF CargoAction, CargoStep, StartUnit, EndDependency, ReportFresh, RecordUnit,
             RefuseUnit, ExitCargo, KillCargo
    <3>2. CASE DriverAction
      BY <3>2
         DEF DriverAction, DriverStep, Verify, Generate, StopProbe, CreateManifest,
             RejectProgram, Analyse, Inform, Finish, StopAnalysis, FailDriver
    <3>3. CASE OpticAction
      BY <3>3
         DEF OpticAction, OpticStep, StartAttempt, ReadToEnd, KeepStopped, AcceptFresh,
             RefuseProbe, AcceptCollection, RefuseCollection, Interrupt
    <3> QED
      BY <3>1, <3>2, <3>3, Processes DEF vars
  <2> QED
    BY <1>1, <2>1, ProtocolAssumption DEF Fault
<1>4. /\ mode' \in Modes
      /\ optic' \in {"start", "read", "classify", "returned"}
      /\ result' \in {"none", "fresh", "collected", "failed", "crashed"}
      /\ (result' = "none") = (optic' # "returned")
  <2>1. CASE OpticAction
    BY <1>1, <2>1
       DEF OpticAction, OpticStep, StartAttempt, ReadToEnd, KeepStopped, AcceptFresh,
           RefuseProbe, AcceptCollection, RefuseCollection, Interrupt, Return
  <2> QED
    BY <1>1, <2>1, Processes, CargoFrame, DriverFrame DEF vars
<1>5. optic' = "start" => notes' = {}
  <2>1. CASE CargoAction \/ DriverAction
    BY <1>1, <2>1, CargoFrame, DriverFrame, ReportedWhileBuilding
       DEF Phases, Building, diagnosticVars
  <2>2. CASE OpticAction
    BY <1>1, <2>2
       DEF OpticAction, OpticStep, StartAttempt, ReadToEnd, KeepStopped, AcceptFresh,
           RefuseProbe, AcceptCollection, RefuseCollection, Interrupt, Return
  <2> QED
    BY <1>1, <2>1, <2>2, Processes DEF vars, diagnosticVars
<1>6. /\ cargo' \in {"off", "building", "exited"}
      /\ status' \in {"none", "success", "failure"}
      /\ dirty' \subseteq Units
      /\ jobs' \in [Units -> {"queued", "running", "done", "failed"}]
      /\ recorded' \subseteq Modes
  <2>1. CASE CargoAction
    BY <1>1, <2>1, CargoFrame
       DEF CargoAction, CargoStep, StartUnit, EndDependency, ReportFresh, RecordUnit,
           RefuseUnit, ExitCargo, KillCargo, processVars
  <2>2. CASE StartAttempt
    BY <1>1, <2>2 DEF StartAttempt
  <2> QED
    BY <1>1, <2>1, <2>2, Processes, DriverFrame, OpticFrame DEF vars, processVars
<1>7. /\ driver' \in DriverSteps
      /\ receipt' \in {"absent", "torn", "whole"}
      /\ manifest' \in {"absent", "whole"}
      /\ requested' \subseteq Modes
  <2>1. CASE DriverAction
    BY <1>1, <2>1
       DEF DriverAction, DriverStep, Verify, Generate, StopProbe, CreateManifest,
           RejectProgram, Analyse, Inform, Finish, StopAnalysis, FailDriver, Advance,
           DriverSteps
  <2>2. CASE CargoAction
    BY <1>1, <2>2, CargoFrame
       DEF CargoAction, CargoStep, StartUnit, EndDependency, ReportFresh, RecordUnit,
           RefuseUnit, ExitCargo, KillCargo, processVars, DriverSteps
  <2>3. CASE StartAttempt
    BY <1>1, <2>3 DEF StartAttempt, DriverSteps
  <2> QED
    BY <1>1, <2>1, <2>2, <2>3, Processes, OpticFrame DEF vars, processVars
<1> QED
  BY <1>2, <1>3, <1>4, <1>5, <1>6, <1>7

-----------------------------------------------------------------------------
(* The processes, part by part of the invariant.                           *)

LEMMA PhasesPreserved ==
  ASSUME IInv, [Next]_vars
  PROVE  Phases'
<1> USE DEF Phases
<1>1. TypeOK /\ Phases /\ Routes /\ Records
  BY DEF IInv
<1>2. CASE CargoAction
  <2>1. cargo' # "off" /\ cargo' \in {cargo, "exited"} /\ cargo = "building"
    BY <1>2
       DEF Building, CargoAction, CargoStep, StartUnit, EndDependency, ReportFresh, RecordUnit,
           RefuseUnit, Ending, ExitCargo, KillCargo, processVars
  <2> QED
    BY <1>1, <1>2, <2>1, CargoFrame DEF TypeOK
<1>3. CASE DriverAction
  BY <1>1, <1>3, DriverFrame DEF Active
<1>4. CASE StartAttempt
  BY <1>1, <1>4 DEF StartAttempt, TypeOK
<1>5. CASE KeepStopped
  BY <1>1, <1>5 DEF KeepStopped, OpticUnchanged, processVars, Records, TypeOK
<1>6. CASE OpticAction /\ ~StartAttempt /\ ~KeepStopped
  <2>1. /\ mode' = mode /\ UNCHANGED <<cargo, dirty, driver, recorded, requested>>
        /\ optic' \in {"classify", "returned"}
        /\ \/ optic' = "classify" /\ cargo = "exited" /\ result' = result
           \/ optic = "classify" /\ optic' = "returned"
           \/ optic' = "returned" /\ result' = "crashed"
    BY <1>6
       DEF OpticAction, OpticStep, ReadToEnd, AcceptFresh, RefuseProbe, AcceptCollection,
           RefuseCollection, Interrupt, Return, OpticUnchanged, processVars
  <2> QED
    BY <1>1, <2>1 DEF TypeOK
<1> QED
  BY <1>1, <1>2, <1>3, <1>4, <1>5, <1>6, Processes
     DEF vars, processVars

\* A unit starts only if it is stale, the selected one only if the driver has
\* not run yet.
LEMMA CompilationsPreserved ==
  ASSUME IInv, [Next]_vars
  PROVE  Compilations'
<1> USE DEF Compilations
<1>1. TypeOK /\ Compilations /\ Routes
  BY DEF IInv
<1>2. CASE CargoAction
  <2>1. ASSUME NEW u \in Units, StartUnit(u)
        PROVE  Compilations'
    BY <1>1, <2>1, CargoFrame, <1>2 DEF StartUnit, TypeOK, Units
  <2>2. ASSUME NEW d \in Dependencies, EndDependency(d)
        PROVE  Compilations'
    BY <1>1, <1>2, <2>2, CargoFrame, ProtocolAssumption DEF EndDependency, TypeOK, Units
  <2>3. CASE RecordUnit \/ RefuseUnit
    BY <1>1, <2>3 DEF RecordUnit, RefuseUnit, TypeOK, Units
  <2>4. CASE ReportFresh \/ ExitCargo \/ KillCargo
    BY <1>1, <2>4 DEF ReportFresh, ExitCargo, KillCargo, processVars
  <2> QED
    BY <1>2, <2>1, <2>2, <2>3, <2>4 DEF CargoAction, CargoStep
<1>3. CASE DriverAction
  <2>1. driver # "none" /\ driver' # "none"
    BY <1>3, DriverFrame
       DEF Active, DriverAction, DriverStep, Verify, Generate, StopProbe, CreateManifest,
           RejectProgram, Analyse, Inform, Finish, StopAnalysis, FailDriver, Advance
  <2> QED
    BY <1>1, <1>3, <2>1, DriverFrame
<1>4. CASE StartAttempt
  BY <1>1, <1>4 DEF StartAttempt, TypeOK, Units
<1> QED
  BY <1>1, <1>2, <1>3, <1>4, Processes, OpticFrame DEF vars, processVars

\* The driver's way, step by step.
LEMMA RoutesPreserved ==
  ASSUME IInv, [Next]_vars
  PROVE  Routes'
<1> USE DEF Routes
<1>1. TypeOK /\ Phases /\ Compilations /\ Routes
  BY DEF IInv
<1>2. CASE CargoAction
  <2>1. ASSUME NEW u \in Units, StartUnit(u)
        PROVE  Routes'
    BY <1>1, <1>2, <2>1, CargoFrame DEF StartUnit, Compilations
  <2> QED
    BY <1>1, <1>2, <2>1, CargoFrame
       DEF CargoAction, CargoStep, EndDependency, ReportFresh, RecordUnit, RefuseUnit,
           ExitCargo, KillCargo, processVars
<1>3. CASE DriverAction
  <2>1. mode' = mode
    BY <1>3, DriverFrame
  <2>2. ASSUME NEW matches \in BOOLEAN, Verify(matches)
        PROVE  Routes'
    BY <1>1, <2>1, <2>2 DEF Verify, Advance, TypeOK, Modes
  <2>3. CASE StopProbe
    BY <1>1, <2>1, <2>3 DEF StopProbe, Advance, TypeOK
  <2>4. CASE \/ CreateManifest \/ RejectProgram \/ Analyse \/ Inform \/ StopAnalysis
             \/ (\E warned \in BOOLEAN : Generate(warned))
    BY <1>1, <2>1, <2>4
       DEF CreateManifest, RejectProgram, Analyse, Inform, StopAnalysis, Generate,
           Advance, TypeOK
  <2>5. CASE Finish
    BY <1>1, <2>1, <2>5 DEF Finish, Advance, TypeOK
  <2>6. CASE FailDriver
    BY <1>1, <2>1, <2>6 DEF FailDriver, Active, Advance, TypeOK
  <2> QED
    BY <1>3, <2>2, <2>3, <2>4, <2>5, <2>6 DEF DriverAction, DriverStep
<1>4. CASE StartAttempt
  BY <1>1, <1>4 DEF StartAttempt, Phases
<1>5. CASE KeepStopped
  BY <1>1, <1>5
     DEF KeepStopped, IsStale, OpticUnchanged, processVars
<1>6. CASE OpticAction /\ ~StartAttempt /\ ~KeepStopped
  BY <1>1, <1>6, OpticFrame
     DEF OpticAction, OpticStep, ReadToEnd, AcceptFresh, RefuseProbe, AcceptCollection,
         RefuseCollection, Interrupt, Return, processVars
<1> QED
  BY <1>1, <1>2, <1>3, <1>4, <1>5, <1>6, Processes DEF vars, processVars

\* Cargo keeps the unit at most once, in a collection.
LEMMA RecordsPreserved ==
  ASSUME IInv, [Next]_vars
  PROVE  Records'
<1> USE DEF Records
<1>1. TypeOK /\ Phases /\ Compilations /\ Routes /\ Records
  BY DEF IInv
<1>2. CASE CargoAction
  <2>1. CASE RecordUnit
    BY <1>1, <2>1 DEF RecordUnit, Routes, TypeOK, Modes, Units
  <2>2. CASE RefuseUnit
    BY <1>1, <2>2 DEF RefuseUnit
  <2>3. ASSUME NEW u \in Units, StartUnit(u)
        PROVE  Records'
    BY <1>1, <2>3 DEF StartUnit, TypeOK, Units, Compilations
  <2>4. ASSUME NEW d \in Dependencies, EndDependency(d)
        PROVE  Records'
    BY <1>1, <2>4, ProtocolAssumption DEF EndDependency, TypeOK, Units
  <2>5. CASE ReportFresh \/ ExitCargo \/ KillCargo
    BY <1>1, <2>5 DEF ReportFresh, ExitCargo, KillCargo, processVars
  <2> QED
    BY <1>2, <2>1, <2>2, <2>3, <2>4, <2>5 DEF CargoAction, CargoStep
<1>3. CASE DriverAction
  BY <1>1, <1>3, DriverFrame DEF Active
<1>4. CASE StartAttempt
  BY <1>1, <1>4 DEF StartAttempt, Phases
<1>5. CASE OpticAction /\ ~StartAttempt
  <2>1. UNCHANGED <<recorded, driver, jobs>>
    BY <1>5, OpticFrame DEF processVars
  <2>2. mode' = mode \/ mode = "probe"
    BY <1>5
       DEF OpticAction, OpticStep, ReadToEnd, KeepStopped, AcceptFresh, RefuseProbe,
           AcceptCollection, RefuseCollection, Interrupt, Return
  <2> QED
    BY <1>1, <2>1, <2>2
<1> QED
  BY <1>1, <1>2, <1>3, <1>4, <1>5, Processes DEF vars, processVars

\* The artifact message comes once: as fresh if the unit is not compiled, and
\* with the record of its compilation otherwise.
LEMMA ObservedPreserved ==
  ASSUME IInv, [Next]_vars
  PROVE  Observed'
<1> USE DEF Observed
<1>1. TypeOK /\ Phases /\ Compilations /\ Routes /\ Records /\ Observed
  BY DEF IInv
<1>2. observation \in Observations
  BY <1>1 DEF TypeOK, Observations
<1>3. CASE CargoAction
  <2>0. UNCHANGED dirty /\ cargo = "building" /\ status # "success"
    BY <1>1, <1>3, CargoFrame DEF Building
  <2>1. CASE ReportFresh
    <3>1. observation'.selected = <<TRUE>>
      BY <1>2, <2>1, FirstArtifact DEF ReportFresh
    <3>2. Selected \notin dirty /\ UNCHANGED <<dirty, jobs, recorded, status, cargo>>
      BY <2>1 DEF ReportFresh, processVars
    <3>3. <<TRUE>> # <<FALSE>>
      OBVIOUS
    <3> QED
      BY <2>0, <3>1, <3>2, <3>3
  <2>2. CASE RecordUnit
    <3>1. observation.selected = <<>> /\ recorded = {} /\ mode = "collect"
      BY <1>1, <2>2
         DEF RecordUnit, Compilations, Records, Routes, TypeOK, Modes, Units
    <3>2. observation'.selected = <<FALSE>>
      BY <1>2, <2>2, <3>1, FirstArtifact DEF RecordUnit
    <3> QED
      BY <1>1, <2>0, <2>2, <3>1, <3>2 DEF RecordUnit, TypeOK, Units
  <2>3. CASE RefuseUnit
    BY <1>1, <2>0, <2>3 DEF RefuseUnit, TypeOK, Units
  <2>4. ASSUME NEW u \in Units, StartUnit(u)
        PROVE  Observed'
    BY <1>1, <2>0, <2>4 DEF StartUnit, TypeOK, Units
  <2>5. ASSUME NEW d \in Dependencies, EndDependency(d)
        PROVE  Observed'
    <3>1. observation'.selected = observation.selected
      BY <1>2, <2>5 DEF EndDependency, Observations
    <3> QED
      BY <1>1, <2>0, <2>5, <3>1, ProtocolAssumption DEF EndDependency, TypeOK, Units
  <2>6. CASE ExitCargo \/ KillCargo
    <3>1. observation'.selected = observation.selected
      BY <1>2, <2>6 DEF ExitCargo, KillCargo, Observe, Observations
    <3> QED
      BY <1>1, <2>0, <2>6, <3>1 DEF ExitCargo, KillCargo, Done
  <2> QED
    BY <1>3, <2>1, <2>2, <2>3, <2>4, <2>5, <2>6 DEF CargoAction, CargoStep
<1>4. CASE DriverAction
  <2>1. observation'.selected = observation.selected
    BY <1>2, <1>4, DriverFrame DEF Observations
  <2> QED
    BY <1>1, <1>4, <2>1, DriverFrame
<1>5. CASE StartAttempt
  <2>1. observation' = NoObservation /\ status' = "none"
    BY <1>5 DEF StartAttempt
  <2>2. NoObservation.selected = <<>>
    BY DEF NoObservation
  <2>3. <<>> # <<TRUE>> /\ <<>> # <<FALSE>>
    OBVIOUS
  <2> QED
    BY <2>1, <2>2, <2>3
<1> QED
  BY <1>1, <1>3, <1>4, <1>5, Processes, OpticFrame DEF vars, processVars

-----------------------------------------------------------------------------
(* Answers and diagnostics.                                                *)

\* What confirmed an answer stays: Cargo has ended, and the driver can only
\* complete what it writes.
LEMMA AnswersPreserved ==
  ASSUME IInv, [Next]_vars
  PROVE  AnswersAreConfirmed'
<1> USE DEF AnswersAreConfirmed
<1>1. /\ TypeOK /\ Phases /\ Compilations /\ Routes /\ Records /\ Observed
      /\ AnswersAreConfirmed
  BY DEF IInv
<1>2. CASE CargoAction
  BY <1>1, <1>2, CargoFrame DEF Phases, Building
<1>3. CASE DriverAction
  <2>1. manifest = "whole" => manifest' = "whole"
    BY <1>3
       DEF DriverAction, DriverStep, Verify, Generate, StopProbe, CreateManifest,
           RejectProgram, Analyse, Inform, Finish, StopAnalysis, FailDriver
  <2> QED
    BY <1>1, <1>3, <2>1, DriverFrame
<1>4. CASE AcceptFresh
  <2>1. /\ mode = "probe" /\ status = "success" /\ observation.selected = <<TRUE>>
        /\ result' = "fresh" /\ UNCHANGED processVars
    BY <1>4 DEF AcceptFresh, IsFresh, Completed, Return, OpticUnchanged
  <2> QED
    BY <1>1, <2>1 DEF Observed, Compilations, Records, processVars
<1>5. CASE AcceptCollection
  <2>1. /\ status = "success" /\ manifest = "whole" /\ observation.selected = <<FALSE>>
        /\ result' = "collected" /\ UNCHANGED processVars
    BY <1>5 DEF AcceptCollection, IsCollected, Completed, Return, OpticUnchanged
  <2> QED
    BY <1>1, <2>1 DEF Observed, processVars
<1>6. CASE OpticAction /\ ~AcceptFresh /\ ~AcceptCollection
  BY <1>1, <1>6
     DEF OpticAction, OpticStep, StartAttempt, ReadToEnd, KeepStopped, RefuseProbe,
         RefuseCollection, Interrupt, Return, OpticUnchanged, TypeOK
<1> QED
  BY <1>1, <1>2, <1>3, <1>4, <1>5, <1>6, Processes DEF vars, processVars

\* A report goes to the notes of the attempt, and nothing is lost when Optic
\* shows notes or keeps them.
LEMMA WaitingPreserved ==
  ASSUME IInv, [Next]_vars
  PROVE  Waiting'
<1> USE DEF Waiting
<1>1. TypeOK /\ Phases /\ Waiting
  BY DEF IInv
<1>2. CASE CargoAction \/ DriverAction
  <2>1. UNCHANGED <<mode, optic, shown, stopped>>
    BY <1>2, CargoFrame, DriverFrame
  <2>2. CASE UNCHANGED diagnosticVars
    BY <1>1, <2>1, <2>2 DEF diagnosticVars
  <2>3. ASSUME NEW kinds, Report(kinds)
        PROVE  Waiting'
    BY <1>1, <2>1, <2>3 DEF Report
  <2> QED
    BY <1>2, <2>2, <2>3, ReportedWhileBuilding
<1>3. CASE KeepStopped
  <2>1. \A n \in notes : n = <<n[1], n[2]>> /\ n[2] \in {"warning", "error", "abort"}
    BY <1>1, DiagnosticTypes DEF Notes
  <2>2. notes = Kinds(notes, {"warning"}) \cup Kinds(notes, {"error", "abort"})
    BY <2>1 DEF Kinds
  <2> QED
    BY <1>1, <1>3, <2>1, <2>2 DEF KeepStopped, Show, OpticUnchanged, Kinds
<1>4. CASE StartAttempt \/ ReadToEnd
  BY <1>1, <1>4 DEF StartAttempt, ReadToEnd, diagnosticVars, TypeOK
<1>5. CASE AcceptFresh \/ RefuseProbe \/ AcceptCollection \/ RefuseCollection \/ Interrupt
  BY <1>5
     DEF AcceptFresh, RefuseProbe, AcceptCollection, RefuseCollection, Interrupt, Return
<1> QED
  BY <1>1, <1>2, <1>3, <1>4, <1>5, Processes
     DEF OpticAction, OpticStep, vars, diagnosticVars

\* What Optic has at hand it has not shown: relayed warnings were cleared, and a
\* collection's diagnostics are its own.
LEMMA ShownIsNew ==
  ASSUME Waiting, optic # "returned", TypeOK, repeated = {},
         NEW set, set \subseteq notes \cup stopped, Show(set)
  PROVE  repeated' = {}
<1>1. CASE mode = "probe"
  BY <1>1 DEF Waiting, Show
<1>2. CASE mode = "collect"
  <2>1. \A n \in notes : n[1] = "collect"
    BY <1>2 DEF Waiting
  <2>2. \A n \in shown : n[1] = "probe" /\ n[2] = "warning"
    BY DEF Waiting
  <2>3. \A n \in stopped : n[2] # "warning"
    BY DEF Waiting
  <2> QED
    BY <2>1, <2>2, <2>3 DEF Show
<1> QED
  BY <1>1, <1>2 DEF TypeOK, Modes

LEMMA DiagnosticsPreserved ==
  ASSUME IInv, [Next]_vars
  PROVE  DiagnosticsAreRelayed'
<1> USE DEF DiagnosticsAreRelayed
<1>1. TypeOK /\ Phases /\ Waiting /\ DiagnosticsAreRelayed
  BY DEF IInv
<1>2. CASE CargoAction \/ DriverAction
  <2>1. UNCHANGED <<result, shown, repeated>>
    BY <1>2, CargoFrame, DriverFrame
  <2>2. result \in {"failed", "collected"} => raised' = raised
    BY <1>1, <1>2, ReportedWhileBuilding DEF Phases, Building, diagnosticVars
  <2> QED
    BY <1>1, <2>1, <2>2
<1>3. CASE RefuseProbe \/ RefuseCollection
  <2>1. repeated' = {}
    BY <1>1, <1>3, ShownIsNew DEF RefuseProbe, RefuseCollection
  <2>2. result' = "failed" /\ shown' = raised'
    BY <1>1, <1>3
       DEF RefuseProbe, RefuseCollection, Return, OpticUnchanged, Waiting, Show
  <2> QED
    BY <2>1, <2>2
<1>4. CASE AcceptCollection
  <2>1. /\ mode = "collect" /\ optic # "returned" /\ result' = "collected"
        /\ shown' = shown \cup notes /\ raised' = raised
    BY <1>4 DEF AcceptCollection, Return, OpticUnchanged, Show
  <2>2. repeated' = {}
    BY <1>1, <1>4, ShownIsNew DEF AcceptCollection
  <2>3. <<"probe", "abort">> \notin shown'
    BY <1>1, <2>1 DEF Waiting
  <2>4. Kinds(raised, {"warning"}) \subseteq shown'
    BY <1>1, <2>1 DEF Waiting, Kinds
  <2> QED
    BY <2>1, <2>2, <2>3, <2>4
<1>5. CASE KeepStopped \/ AcceptFresh
  <2>1. repeated' = {}
    BY <1>1, <1>5, ShownIsNew DEF KeepStopped, AcceptFresh, Kinds
  <2>2. result' \notin {"failed", "collected"}
    BY <1>1, <1>5 DEF KeepStopped, AcceptFresh, Return, TypeOK
  <2> QED
    BY <2>1, <2>2
<1>6. CASE StartAttempt \/ ReadToEnd \/ Interrupt
  BY <1>1, <1>6
     DEF StartAttempt, ReadToEnd, Interrupt, Return, TypeOK, diagnosticVars
<1> QED
  BY <1>1, <1>2, <1>3, <1>4, <1>5, <1>6, Processes
     DEF OpticAction, OpticStep, vars, diagnosticVars
-----------------------------------------------------------------------------
(* The invariant and what it establishes.                                  *)

LEMMA InitEstablishes == Init => IInv
<1> SUFFICES ASSUME Init PROVE IInv
  OBVIOUS
<1>1. NoObservation \in Observations /\ NoObservation.selected = <<>>
  <2>1. <<>> \in Seq(BOOLEAN)
    OBVIOUS
  <2> QED
    BY <2>1 DEF NoObservation, Observations
<1>2. TypeOK
  BY <1>1, ProtocolAssumption DEF Init, TypeOK, Observations, Units, DriverSteps, Modes
<1>3. Phases /\ Compilations /\ Routes /\ Records
  BY DEF Init, Phases, Compilations, Routes, Records, Units
<1>4. <<>> # <<TRUE>> /\ <<>> # <<FALSE>>
  OBVIOUS
<1>5. Observed
  BY <1>1, <1>4 DEF Init, Observed
<1>6. Waiting /\ AnswersAreConfirmed /\ DiagnosticsAreRelayed
  BY DEF Init, Waiting, AnswersAreConfirmed, DiagnosticsAreRelayed
<1> QED
  BY <1>2, <1>3, <1>5, <1>6 DEF IInv

LEMMA StepPreserves == IInv /\ [Next]_vars => IInv'
<1> SUFFICES ASSUME IInv, [Next]_vars PROVE IInv'
  OBVIOUS
<1>1. TypeOK' /\ Phases' /\ Compilations' /\ Routes' /\ Records'
  BY TypesPreserved, PhasesPreserved, CompilationsPreserved, RoutesPreserved,
     RecordsPreserved DEF IInv
<1>2. Observed' /\ Waiting' /\ AnswersAreConfirmed' /\ DiagnosticsAreRelayed'
  BY ObservedPreserved, WaitingPreserved, AnswersPreserved, DiagnosticsPreserved
<1> QED
  BY <1>1, <1>2 DEF IInv

\* Whichever process moves, fails or dies, the parts of IInv hold together.
THEOREM Invariance == Spec => []IInv
BY InitEstablishes, StepPreserves, PTL DEF Spec

\* Every variable has its type: Cargo's messages, the files of the attempt, the
\* diagnostics and the steps of the three processes.
THEOREM TypeCorrect == Spec => []TypeOK
<1>1. IInv => TypeOK
  BY DEF IInv
<1> QED
  BY <1>1, Invariance, PTL

\* classify_probe and collect_new_token answer from exit statuses, messages and
\* two files: a fresh answer always comes with a Cargo that compiled nothing,
\* and evidence with a Cargo that keeps the very unit the manifest describes.
THEOREM AnswersAlwaysConfirmed == Spec => []AnswersAreConfirmed
<1>1. IInv => AnswersAreConfirmed
  BY DEF IInv
<1> QED
  BY <1>1, Invariance, PTL

\* The wrapper's stop_probe and the analysis process decide by their exit codes
\* what Cargo keeps: nothing under the token of a probe, and under the token of
\* a collection only what has a complete manifest or was never compiled.
THEOREM RecordedAlwaysAnalysed == Spec => []RecordedIsAnalysed
<1>1. IInv => RecordedIsAnalysed
  BY DEF IInv, Records, Routes, RecordedIsAnalysed
<1> QED
  BY <1>1, Invariance, PTL

\* A failed prepared build has shown every diagnostic of both attempts, and a
\* successful one every warning but never the intentional abort of the probe; none
\* was shown twice, although a stopped probe relays its warnings early
\* (relay_warnings clears them) and may be replayed later.
THEOREM DiagnosticsAlwaysRelayed == Spec => []DiagnosticsAreRelayed
<1>1. IInv => DiagnosticsAreRelayed
  BY DEF IInv
<1> QED
  BY <1>1, Invariance, PTL

-----------------------------------------------------------------------------
(* The promises to the caller.  Which step of the processes is which step  *)
(* of PreparedBuild:                                                       *)
(*                                                                         *)
(*   StartAttempt, in a probe with nothing stale     Judge("fresh")        *)
(*   Verify(TRUE), in a probe                        Judge("stale")        *)
(*   AcceptFresh                                     AnswerFresh           *)
(*   KeepStopped                                     AnswerStale           *)
(*   RecordUnit                                      Compile               *)
(*   AcceptCollection                                AnswerCollected       *)
(*   RefuseProbe, RefuseCollection, Interrupt        Fail                  *)
(*                                                                         *)
(* All other steps change nothing that the caller can tell.                *)

\* Cargo tells the caller nothing but that it keeps the unit.
LEMMA CargoImplements ==
  ASSUME IInv, CargoAction
  PROVE  [Build!Next]_(Build!vars)
<1>1. /\ TypeOK /\ Phases /\ Compilations /\ Routes /\ Records
  BY DEF IInv
<1>2. UNCHANGED <<mode, requested, dirty, result>> /\ cargo = "building" /\ cargo' # "off"
  BY CargoFrame
     DEF CargoAction, CargoStep, StartUnit, EndDependency, ReportFresh, RecordUnit,
         RefuseUnit, ExitCargo, KillCargo, Building, Ending, processVars
<1>3. Judgement' = Judgement
  BY <1>2 DEF Judgement
<1>4. CASE RecordUnit
  <2>1. mode = "collect" /\ recorded = {} /\ recorded' # {}
    BY <1>1, <1>4 DEF RecordUnit, Records, Routes, TypeOK, Modes, Units
  <2>2. result \in {"none", "crashed"}
    BY <1>1, <1>2 DEF TypeOK, Phases
  <2> QED
    BY <1>2, <1>3, <2>1, <2>2 DEF Build!Next, Build!Compile
<1>5. CASE ~RecordUnit
  <2>1. recorded' = recorded
    BY <1>5
       DEF CargoAction, CargoStep, StartUnit, EndDependency, ReportFresh, RefuseUnit,
           ExitCargo, KillCargo, processVars
  <2> QED
    BY <1>2, <1>3, <2>1 DEF Build!vars
<1> QED
  BY <1>4, <1>5

\* The driver's request in a probe is the judgement, and no other step of the
\* driver is seen.
LEMMA DriverImplements ==
  ASSUME IInv, DriverAction
  PROVE  [Build!Next]_(Build!vars)
<1>1. Phases /\ Compilations /\ Routes
  BY DEF IInv
<1>2. UNCHANGED <<mode, cargo, dirty, recorded, result>>
  BY DriverFrame
<1>3. CASE mode = "probe" /\ Verify(TRUE)
  <2>1. "probe" \notin requested /\ "probe" \in requested' /\ dirty # {}
    BY <1>1, <1>3 DEF Verify, Routes, Compilations, Units
  <2>2. Judgement = "none" /\ Judgement' = "stale"
    BY <2>1 DEF Judgement
  <2> QED
    BY <1>2, <1>3, <2>2 DEF Build!Next, Build!Judge
<1>4. CASE ~(mode = "probe" /\ Verify(TRUE))
  <2>1. "probe" \in requested <=> "probe" \in requested'
    BY <1>4
       DEF DriverAction, DriverStep, Verify, Generate, StopProbe, CreateManifest,
           RejectProgram, Analyse, Inform, Finish, StopAnalysis, FailDriver
  <2>2. Judgement' = Judgement
    BY <1>2, <2>1 DEF Judgement
  <2> QED
    BY <1>2, <2>2 DEF Build!vars
<1> QED
  BY <1>3, <1>4

\* Optic answers stale on the receipt, fresh on a build without stale units, and
\* with evidence on the unit that Cargo keeps.
LEMMA OpticImplements ==
  ASSUME IInv, OpticAction
  PROVE  [Build!Next]_(Build!vars)
<1>1. TypeOK /\ Phases /\ Compilations /\ Routes /\ Records /\ Observed
  BY DEF IInv
<1>2. UNCHANGED <<recorded, requested>>
  BY OpticFrame
<1>3. CASE StartAttempt
  <2>1. UNCHANGED <<mode, result>> /\ cargo' = "building" /\ optic = "start"
    BY <1>3 DEF StartAttempt
  <2>2. CASE mode = "probe" /\ dirty' = {}
    <3>1. Judgement = "none" /\ Judgement' = "fresh"
      BY <1>1, <1>2, <2>1, <2>2 DEF Judgement, Phases
    <3> QED
      BY <1>2, <2>1, <2>2, <3>1 DEF Build!Next, Build!Judge
  <2>3. CASE ~(mode = "probe" /\ dirty' = {})
    <3>1. Judgement' = Judgement
      BY <1>1, <1>2, <2>1, <2>3 DEF Judgement, Phases
    <3> QED
      BY <1>2, <2>1, <3>1 DEF Build!vars
  <2> QED
    BY <2>2, <2>3
<1>4. CASE ~StartAttempt
  <2>1. UNCHANGED <<cargo, dirty>> /\ optic # "returned"
    BY <1>4, OpticFrame DEF processVars
  <2>2. result = "none"
    BY <1>1, <2>1 DEF TypeOK
  <2>3. mode' = mode => Judgement' = Judgement
    BY <1>2, <2>1 DEF Judgement
  <2>4. CASE ReadToEnd
    BY <1>2, <2>3, <2>4 DEF ReadToEnd, Build!vars
  <2>5. CASE KeepStopped
    <3>1. /\ mode = "probe" /\ mode' = "collect" /\ receipt = "whole"
          /\ UNCHANGED result
      BY <2>5 DEF KeepStopped, IsStale
    <3>2. Judgement = "stale" /\ Judgement' = "stale"
      BY <1>1, <1>2, <3>1 DEF Judgement, Routes
    <3> QED
      BY <1>2, <2>2, <3>1, <3>2 DEF Build!Next, Build!AnswerStale
  <2>6. CASE AcceptFresh
    <3>1. /\ mode = "probe" /\ UNCHANGED mode /\ result' = "fresh"
          /\ status = "success" /\ observation.selected = <<TRUE>>
      BY <2>6 DEF AcceptFresh, IsFresh, Completed, Return
    <3>2. dirty = {} /\ cargo = "exited" /\ driver = "none"
      BY <1>1, <3>1 DEF Observed, Compilations, Units
    <3>3. Judgement = "fresh"
      BY <1>1, <3>1, <3>2 DEF Judgement, Routes
    <3> QED
      BY <1>2, <2>2, <2>3, <3>1, <3>3 DEF Build!Next, Build!AnswerFresh
  <2>7. CASE AcceptCollection
    <3>1. /\ mode = "collect" /\ UNCHANGED mode /\ result' = "collected"
          /\ observation.selected = <<FALSE>>
      BY <2>7 DEF AcceptCollection, IsCollected, Completed, Return
    <3>2. recorded # {}
      BY <1>1, <3>1 DEF Observed
    <3> QED
      BY <1>2, <2>2, <2>3, <3>1, <3>2 DEF Build!Next, Build!AnswerCollected
  <2>8. CASE RefuseProbe \/ RefuseCollection \/ Interrupt
    <3>1. UNCHANGED mode /\ result' \in {"failed", "crashed"}
      BY <2>8 DEF RefuseProbe, RefuseCollection, Interrupt, Return
    <3> QED
      BY <1>2, <2>2, <2>3, <3>1 DEF Build!Next, Build!Fail
  <2> QED
    BY <1>4, <2>4, <2>5, <2>6, <2>7, <2>8 DEF OpticAction, OpticStep
<1> QED
  BY <1>3, <1>4

\* Optic, Cargo, the wrapper and the analysis process, stopped or killed at any
\* step, keep the promises that PreparedBuild makes to `capture`.
THEOREM ProtocolImplementsBuild == Spec => ImplementsPreparedBuild
<1>1. Init => Build!Init
  BY DEF Judgement, Init, Modes, Build!Init
<1>2. IInv /\ [Next]_vars => [Build!Next]_(Build!vars)
  <2> SUFFICES ASSUME IInv, [Next]_vars
               PROVE  [Build!Next]_(Build!vars)
    OBVIOUS
  <2>1. CASE UNCHANGED vars
    <3>1. UNCHANGED <<mode, cargo, dirty, recorded, result, requested>>
      BY <2>1 DEF vars, processVars
    <3>2. Judgement' = Judgement
      BY <3>1 DEF Judgement
    <3> QED
      BY <3>1, <3>2 DEF Build!vars
  <2> QED
    BY <2>1, Processes, CargoImplements, DriverImplements, OpticImplements
<1> QED
  BY <1>1, <1>2, Invariance, PTL DEF Spec, ImplementsPreparedBuild, Build!Spec
=============================================================================

---------------------------- MODULE DriverProtocol ----------------------------
(***************************************************************************)
(* One prepared build of cargo-optic-compiler: PreparedBuild::probe and    *)
(* PreparedBuild::collect, the Cargo process each of them runs, and the    *)
(* driver that Cargo starts in place of rustc for the selected target,     *)
(* first as a wrapper and then, in a collection, as the compiler.          *)
(*                                                                         *)
(* The processes talk through exit statuses, Cargo's message stream and    *)
(* two files of the attempt: the stale receipt and the manifest.  Optic    *)
(* reads the stream to its end before it decides anything, so a message    *)
(* is observed when it is sent; what remains between the processes is      *)
(* modelled step by step.  Any of them may die at any step, and the        *)
(* driver outlives a Cargo that is killed.                                 *)
(*                                                                         *)
(* PreparedBuild says what comes of it for the caller.  CaptureLifecycle   *)
(* has the same calls as single steps, with the store and the workspace.   *)
(***************************************************************************)
EXTENDS Naturals, Sequences

CONSTANTS
  Selected,       \* the selected target's unit
  Dependencies,   \* the other units of the build
  MaxFaults       \* bound: deaths of a process and failures of Optic's own I/O

VARIABLES
  mode,           \* the attempt: "probe" or "collect"
  optic,          \* the next step of Optic
  cargo,          \* Cargo's state
  status,         \* its exit status
  dirty,          \* the units that Cargo finds stale
  jobs,           \* the state of each unit's compilation
  driver,         \* the next step of the driver for the selected unit
  receipt,        \* the attempt's stale receipt
  manifest,       \* the attempt's manifest
  observation,    \* what Cargo's messages said of the attempt
  notes,          \* diagnostics of the attempt that were not shown yet
  stopped,        \* diagnostics kept of a probe that was stopped
  shown,          \* diagnostics the user has seen
  recorded,       \* attempts whose token Cargo keeps as compiled
  result,         \* how the prepared build ended
  faults,         \* what MaxFaults bounds
  repeated,       \* history: diagnostics the user has seen more than once
  raised,         \* history: diagnostics that reached Optic
  requested       \* history: attempts in which the wrapper met the selected unit

processVars == <<cargo, status, dirty, jobs, driver, receipt, manifest, recorded>>
diagnosticVars == <<notes, stopped, shown, repeated, raised>>
vars == <<mode, optic, processVars, observation, diagnosticVars, result, faults,
          requested>>

Units == {Selected} \cup Dependencies
Modes == {"probe", "collect"}
Notes == Modes \X {"warning", "error", "abort"}

DriverSteps == {"none", "verify", "receipt", "create", "analysis", "codegen",
                "finish", "succeeded", "informed", "failed"}

ASSUME ProtocolAssumption == Selected \notin Dependencies /\ MaxFaults \in Nat

TypeOK ==
  /\ mode \in Modes
  /\ optic \in {"start", "read", "classify", "returned"}
  /\ cargo \in {"off", "building", "exited"}
  /\ status \in {"none", "success", "failure"}
  /\ dirty \subseteq Units
  /\ jobs \in [Units -> {"queued", "running", "done", "failed"}]
  /\ driver \in DriverSteps
  /\ receipt \in {"absent", "torn", "whole"}
  /\ manifest \in {"absent", "whole"}
  /\ observation \in [selected : Seq(BOOLEAN), finished : Seq(BOOLEAN),
                      errors : BOOLEAN]
  /\ \A s \in {notes, stopped, shown, repeated, raised} : s \subseteq Notes
  /\ recorded \subseteq Modes
  /\ result \in {"none", "fresh", "collected", "failed", "crashed"}
  /\ faults \in 0 .. MaxFaults
  /\ requested \subseteq Modes
  /\ (result = "none") = (optic # "returned")
  /\ optic = "start" => notes = {}

NoObservation == [selected |-> <<>>, finished |-> <<>>, errors |-> FALSE]

\* A forced capture, and one without a candidate, begins with the collection.
Init ==
  /\ mode \in Modes
  /\ optic = "start"
  /\ cargo = "off" /\ status = "none" /\ dirty = {}
  /\ jobs = [u \in Units |-> "queued"]
  /\ driver = "none" /\ receipt = "absent" /\ manifest = "absent"
  /\ observation = NoObservation
  /\ notes = {} /\ stopped = {} /\ shown = {} /\ repeated = {} /\ raised = {}
  /\ recorded = {}
  /\ result = "none"
  /\ faults = 0
  /\ requested = {}

-----------------------------------------------------------------------------
Fault == faults < MaxFaults /\ faults' = faults + 1

\* Diagnostics of these kinds reach Optic, through messages or Cargo's stderr.
Report(kinds) ==
  /\ notes' = notes \cup {<<mode, kind>> : kind \in kinds}
  /\ raised' = raised \cup {<<mode, kind>> : kind \in kinds}
  /\ UNCHANGED <<stopped, shown, repeated>>

Warned(warned) == IF warned THEN {"warning"} ELSE {}

-----------------------------------------------------------------------------
(* Cargo.  It stops starting units once one has failed, and ends when none *)
(* runs any more.                                                          *)

Building == cargo = "building"
Failing == \E u \in dirty : jobs[u] = "failed"
Running == \E u \in dirty : jobs[u] = "running"

Observe(field, value) ==
  observation' = [observation EXCEPT ![field] = Append(@, value)]

\* Cargo starts the compilation of a stale unit; the selected one comes after
\* all others have started, and in the marked invocation of the wrapper.
StartUnit(u) ==
  /\ Building /\ ~Failing
  /\ u \in dirty /\ jobs[u] = "queued"
  /\ u = Selected => \A d \in dirty \ {Selected} : jobs[d] # "queued"
  /\ jobs' = [jobs EXCEPT ![u] = "running"]
  /\ driver' = IF u = Selected THEN "verify" ELSE driver
  /\ UNCHANGED <<mode, optic, cargo, status, dirty, receipt, manifest, recorded,
                 observation, diagnosticVars, result, faults, requested>>

\* A unit without the marker runs the real compiler.  Not every failure comes
\* with a structured error: a build script may just exit.
EndDependency(d) == \E ended \in {"done", "failed"}, warned \in BOOLEAN :
  /\ Building
  /\ jobs[d] = "running"
  /\ jobs' = [jobs EXCEPT ![d] = ended]
  /\ Report(Warned(warned) \cup IF ended = "failed" THEN {"error"} ELSE {})
  /\ observation' \in
       {observation, [observation EXCEPT !.errors = @ \/ ended = "failed"]}
  /\ UNCHANGED <<mode, optic, cargo, status, dirty, driver, receipt, manifest,
                 recorded, result, faults, requested>>

\* Cargo reports the artifact of a fresh selected unit,
ReportFresh ==
  /\ Building
  /\ Selected \notin dirty
  /\ observation.selected = <<>>
  /\ Observe("selected", TRUE)
  /\ UNCHANGED <<mode, optic, processVars, diagnosticVars, result, faults, requested>>

\* or records the unit that the driver has compiled, and reports its artifact,
RecordUnit ==
  /\ Building
  /\ jobs[Selected] = "running"
  /\ driver \in {"succeeded", "informed"}
  /\ jobs' = [jobs EXCEPT ![Selected] = "done"]
  /\ recorded' = recorded \cup {mode}
  /\ Observe("selected", FALSE)
  /\ UNCHANGED <<mode, optic, cargo, status, dirty, driver, receipt, manifest,
                 diagnosticVars, result, faults, requested>>

\* or learns that the driver has failed.
RefuseUnit ==
  /\ Building
  /\ jobs[Selected] = "running"
  /\ driver = "failed"
  /\ jobs' = [jobs EXCEPT ![Selected] = "failed"]
  /\ UNCHANGED <<mode, optic, cargo, status, dirty, driver, receipt, manifest,
                 recorded, observation, diagnosticVars, result, faults, requested>>

Done == \A u \in dirty : jobs[u] = "done"

\* Nothing runs any more, and nothing is left to do or to report.
Ending ==
  /\ Building /\ ~Running
  /\ Failing \/ Done
  /\ Selected \notin dirty => observation.selected # <<>>

\* The last message and the exit status.
ExitCargo ==
  /\ Ending
  /\ Observe("finished", Done)
  /\ cargo' = "exited"
  /\ status' = IF Done THEN "success" ELSE "failure"
  /\ UNCHANGED <<mode, optic, dirty, jobs, driver, receipt, manifest, recorded,
                 diagnosticVars, result, faults, requested>>

\* Cargo is killed, perhaps with its last message sent.
KillCargo ==
  /\ Building
  /\ Fault
  /\ UNCHANGED observation \/ (Ending /\ Observe("finished", Done))
  /\ cargo' = "exited"
  /\ status' = "failure"
  /\ UNCHANGED <<mode, optic, dirty, jobs, driver, receipt, manifest, recorded,
                 diagnosticVars, result, requested>>

-----------------------------------------------------------------------------
(* The driver.  It exits with a status that Cargo reads later, if it can.  *)

Active == driver \in {"verify", "receipt", "create", "analysis", "codegen", "finish"}

Advance(step, kinds) ==
  /\ driver' = step
  /\ IF Building THEN Report(kinds) ELSE UNCHANGED diagnosticVars
  /\ UNCHANGED <<mode, optic, cargo, status, dirty, jobs, recorded, result>>

\* verify_selected compares compiler, crate name, source and marker, and the
\* mode decides what the wrapper does with the selected invocation.
Verify(matches) ==
  /\ driver = "verify"
  /\ IF matches
       THEN /\ Advance(IF mode = "probe" THEN "receipt" ELSE "create", {})
            /\ requested' = requested \cup {mode}
       ELSE Advance("failed", {"error"}) /\ UNCHANGED requested
  /\ UNCHANGED <<receipt, manifest, observation, faults>>

\* stop_probe writes the receipt and fails before rustc runs.
StopProbe ==
  /\ driver = "receipt"
  /\ receipt' = "whole"
  /\ Advance("failed", {"abort"})
  /\ UNCHANGED <<manifest, observation, faults, requested>>

\* The wrapper runs itself as the compiler, which creates the temporary manifest.
CreateManifest ==
  /\ driver = "create"
  /\ Advance("analysis", {})
  /\ UNCHANGED <<receipt, manifest, observation, faults, requested>>

\* rustc rejects the program during or after analysis.
RejectProgram ==
  /\ driver \in {"analysis", "codegen"}
  /\ Advance("failed", {"error"})
  /\ observation' = [observation EXCEPT !.errors = @ \/ Building]
  /\ UNCHANGED <<receipt, manifest, faults, requested>>

\* after_analysis writes every record, and rustc goes on to generate code.
Analyse ==
  /\ driver = "analysis"
  /\ Advance("codegen", {})
  /\ UNCHANGED <<receipt, manifest, observation, faults, requested>>

\* Mutant of StopAnalysis: rustc's exit code alone decides, and a compilation
\* that a callback stopped exits with success.
ExitAsRustc ==
  /\ driver = "analysis"
  /\ Fault
  /\ Advance("succeeded", {})
  /\ UNCHANGED <<receipt, manifest, observation, requested>>

\* after_analysis fails and stops rustc, which exits with success.
StopAnalysis ==
  /\ driver = "analysis"
  /\ Fault
  /\ Advance("failed", {"error"})
  /\ UNCHANGED <<receipt, manifest, observation, requested>>

\* rustc only prints what it was asked for and never comes to after_analysis.
Inform ==
  /\ driver = "analysis"
  /\ Advance("informed", {})
  /\ UNCHANGED <<receipt, manifest, observation, faults, requested>>

Generate(warned) ==
  /\ driver = "codegen"
  /\ Advance("finish", Warned(warned))
  /\ UNCHANGED <<receipt, manifest, observation, faults, requested>>

\* ManifestWriter::finish flushes the end record and renames the manifest.
Finish ==
  /\ driver = "finish"
  /\ manifest' = "whole"
  /\ Advance("succeeded", {})
  /\ UNCHANGED <<receipt, observation, faults, requested>>

\* The driver dies, or a file operation of its own fails.
FailDriver ==
  /\ Active
  /\ Fault
  /\ receipt' \in IF driver = "receipt" THEN {"absent", "torn"} ELSE {receipt}
  /\ Advance("failed", {"error"})
  /\ UNCHANGED <<manifest, observation, requested>>

-----------------------------------------------------------------------------
(* Optic.                                                                  *)

OpticUnchanged == UNCHANGED <<processVars, observation, requested, raised>>

Return(how) ==
  /\ optic' = "returned"
  /\ result' = how
  /\ notes' = {} /\ stopped' = {}
  /\ UNCHANGED mode

\* write_diagnostic, for each of these.
Show(set) ==
  /\ shown' = shown \cup set
  /\ repeated' = repeated \cup (shown \cap set)

Kinds(set, kinds) == {n \in set : n[2] \in kinds}

\* A temporary directory and a Cargo process of the attempt's own.  A driver
\* that has outlived the probe's Cargo writes into the probe's directory.  A
\* stale unit makes what depends on it stale, and nothing is fresh under a new
\* token.
StartAttempt == \E d \in SUBSET Units :
  /\ optic = "start"
  /\ d # {} \/ mode = "collect" => Selected \in d
  /\ dirty' = d
  /\ jobs' = [u \in Units |-> "queued"]
  /\ cargo' = "building" /\ status' = "none"
  /\ driver' = "none" /\ receipt' = "absent" /\ manifest' = "absent"
  /\ observation' = NoObservation
  /\ optic' = "read"
  /\ UNCHANGED <<mode, recorded, diagnosticVars, result, faults, requested>>

\* The message stream ends and Cargo has been waited for.
ReadToEnd ==
  /\ optic = "read"
  /\ cargo = "exited"
  /\ optic' = "classify"
  /\ UNCHANGED <<mode, processVars, observation, diagnosticVars, result, faults,
                 requested>>

\* CargoObservation::completed.
Completed(fresh) ==
  /\ observation.finished = <<TRUE>>
  /\ ~observation.errors
  /\ observation.selected = <<fresh>>

\* Mutant of IsStale: any failure before the selected artifact is staleness.
FailureIsStale == status = "failure" /\ observation.selected = <<>>

\* classify_probe.
IsStale ==
  /\ status = "failure" /\ receipt = "whole" /\ manifest = "absent"
  /\ observation.selected = <<>>

IsFresh ==
  /\ status = "success" /\ receipt = "absent" /\ manifest = "absent"
  /\ Completed(TRUE)

\* Mutant of IsCollected: a complete manifest is enough.
ManifestIsEnough == manifest = "whole"

\* The conditions of collect_new_token, in their order.
IsCollected ==
  /\ status = "success" /\ receipt = "absent"
  /\ Completed(FALSE)
  /\ manifest = "whole"

\* Mutant of KeepStopped: relayed warnings are not cleared.
KeepAll ==
  /\ optic = "classify" /\ mode = "probe" /\ IsStale
  /\ Show(Kinds(notes, {"warning"}))
  /\ stopped' = notes
  /\ notes' = {}
  /\ mode' = "collect"
  /\ optic' = "start"
  /\ OpticUnchanged /\ UNCHANGED <<result, faults>>

\* A stale probe shows its warnings and keeps the rest for the collection.
KeepStopped ==
  /\ optic = "classify" /\ mode = "probe" /\ IsStale
  /\ Show(Kinds(notes, {"warning"}))
  /\ stopped' = Kinds(notes, {"error", "abort"})
  /\ notes' = {}
  /\ mode' = "collect"
  /\ optic' = "start"
  /\ OpticUnchanged /\ UNCHANGED <<result, faults>>

\* Every other probe shows all it has, and is fresh or an error; a fresh
\* artifact that differs from the stored one is an error too.
AcceptFresh ==
  /\ optic = "classify" /\ mode = "probe" /\ IsFresh
  /\ Show(notes)
  /\ Return("fresh")
  /\ OpticUnchanged /\ UNCHANGED faults

\* Mutant of RefuseProbe: a probe that cannot be classified is repeated.
ProbeAgain ==
  /\ optic = "classify" /\ mode = "probe" /\ ~IsStale
  /\ Show(notes)
  /\ notes' = {}
  /\ optic' = "start"
  /\ OpticUnchanged /\ UNCHANGED <<mode, stopped, result, faults>>

RefuseProbe ==
  /\ optic = "classify" /\ mode = "probe" /\ ~IsStale
  /\ Show(notes)
  /\ Return("failed")
  /\ OpticUnchanged /\ UNCHANGED faults

\* A collection shows its own diagnostics, whatever becomes of it,
AcceptCollection ==
  /\ optic = "classify" /\ mode = "collect" /\ IsCollected
  /\ Show(notes)
  /\ Return("collected")
  /\ OpticUnchanged /\ UNCHANGED faults

\* Mutant of RefuseCollection: only the collection's own diagnostics are shown.
RefuseQuietly ==
  /\ optic = "classify" /\ mode = "collect"
  /\ Show(notes)
  /\ Return("failed")
  /\ OpticUnchanged /\ UNCHANGED faults

\* and those of the stopped probe if it fails.  A manifest or a module that
\* cannot be decoded, and refused artifacts, fail it as well.
RefuseCollection ==
  /\ optic = "classify" /\ mode = "collect"
  /\ Show(notes \cup stopped)
  /\ Return("failed")
  /\ OpticUnchanged /\ UNCHANGED faults

\* Optic dies, leaving Cargo to itself, or cannot start Cargo, read its stream
\* or show diagnostics.
Interrupt ==
  /\ optic # "returned"
  /\ Fault
  /\ Return("crashed")
  /\ OpticUnchanged /\ UNCHANGED <<shown, repeated>>

-----------------------------------------------------------------------------
CargoStep ==
  \/ \E u \in Units : StartUnit(u)
  \/ \E d \in Dependencies : EndDependency(d)
  \/ ReportFresh \/ RecordUnit \/ RefuseUnit \/ ExitCargo

DriverStep ==
  \/ \E matches \in BOOLEAN : Verify(matches)
  \/ \E warned \in BOOLEAN : Generate(warned)
  \/ StopProbe \/ CreateManifest \/ RejectProgram \/ Analyse \/ Inform \/ Finish

OpticStep ==
  \/ StartAttempt \/ ReadToEnd \/ KeepStopped \/ AcceptFresh \/ RefuseProbe
  \/ AcceptCollection \/ RefuseCollection

Next ==
  \/ CargoStep \/ DriverStep \/ OpticStep
  \/ KillCargo \/ StopAnalysis \/ FailDriver \/ Interrupt

Spec == Init /\ [][Next]_vars

\* Each process goes on by itself, and nothing forces a fault.
FairSpec ==
  Spec /\ WF_vars(CargoStep) /\ WF_vars(DriverStep) /\ WF_vars(OpticStep)

-----------------------------------------------------------------------------
\* Optic reports freshness only after Cargo has ended well without compiling
\* anything, and evidence only when the manifest is complete and Cargo, ended
\* well, keeps the unit under the token that the manifest was made with.
AnswersAreConfirmed ==
  /\ result = "fresh" => status = "success" /\ dirty = {} /\ recorded = {}
  /\ result = "collected" =>
       /\ status = "success" /\ manifest = "whole" /\ recorded = {"collect"}
       /\ \A u \in dirty : jobs[u] = "done"

\* Cargo never keeps a unit under the token of a probe, and under the token of
\* a collection only with a complete manifest, unless rustc compiled nothing.
RecordedIsAnalysed ==
  /\ "probe" \notin recorded
  /\ "collect" \in recorded => manifest = "whole" \/ driver = "informed"

\* "An intentional abort is not replayed after a successful retry" (attempt.rs),
\* and a failure shows everything that any attempt has reported.  Warnings of a
\* stopped probe are shown before the collection and not again after it: nothing
\* is ever shown twice.
DiagnosticsAreRelayed ==
  /\ repeated = {}
  /\ result = "failed" => shown = raised
  /\ result = "collected" =>
       /\ <<"probe", "abort">> \notin shown
       /\ Kinds(raised, {"warning"}) \subseteq shown

\* How this state appears to the caller.
Judgement ==
  IF "probe" \in requested THEN "stale"
  ELSE IF mode = "probe" /\ cargo # "off" /\ dirty = {} THEN "fresh"
  ELSE "none"

Build == INSTANCE PreparedBuild WITH
  stage <- mode,
  judgement <- Judgement,
  compiled <- recorded # {},
  outcome <- IF result = "crashed" THEN "failed" ELSE result

\* Whatever dies or fails, the processes keep the promises of PreparedBuild: no
\* other failure is taken for staleness, a probe compiles nothing, and evidence
\* is of a unit that Cargo keeps.
ImplementsPreparedBuild == Build!Spec

\* Optic, Cargo and the driver never wait for each other for ever.
Returns == <>(optic = "returned")
=============================================================================

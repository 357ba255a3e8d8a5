# A TLA+ specification of Cargo Optic

Cargo Optic (`src/`) captures what rustc knows of one Cargo target: its concrete
function instances, their sources and their optimised LLVM. It runs Cargo with a
driver in place of rustc, keeps the results of a successful compilation as an
immutable *capture* below `.optic/store`, and later reuses a capture if Cargo
itself finds the compilation behind it still fresh. This directory holds TLA+
modules that model those steps, TLC configurations that check them on small
instances, and proofs, checked by TLAPS, of what holds on instances of any size.

All source paths below are relative to `src/crates/`.

## 1. Inventory

| Part | Source | State it keeps | Operations | What is hard about it |
|---|---|---|---|---|
| Capture store | `cargo-optic-store/src/{publish,candidate,captures}.rs` | `.optic/store/{staging,captures,candidates}` | `publish`, `read_candidate`, `read_instances`, `list_captures` | failures and crashes between system calls; reads beside a publication; repeated identities; publishers nobody serialised |
| Store initialisation | `cargo-optic-store/src/initialize.rs` | `.optic`, `.optic/.gitignore`, the store's directories | `initialize` | a file that is created before it is written; two callers; Cargo's view of the package |
| Records and artifacts on disk | `cargo-optic-store/src/{record_io,artifacts}.rs` | files of one directory | bounded record reads and writes, artifact copies, byte ranges | a record exactly at its budget; a file changed after its length was read; ranges at the limits of 64 bits |
| Capture coordination | `cargo-optic-capture/src/lib.rs` | none of its own | `capture` | evidence found by key may be stale; tokens must not be compiled twice; a failure anywhere must not spoil later calls |
| Prepared build | `cargo-optic-compiler/src/{prepared,attempt,observation}.rs` | the stopped probe and its diagnostics | `prepare_build`, `probe`, `collect` | what Cargo did is inferred from an exit status, messages and two files |
| Driver processes | `cargo-optic-compiler/rustc-driver/{main,wrapper,analysis,manifest,source,llvm}.rs` | one compilation's receipt or manifest | wrapper routing, `stop_probe`, rustc callbacks, `ManifestWriter` | rustc's success is not the driver's success; the driver outlives a killed Cargo |
| Driver cache | `cargo-optic-compiler/src/driver.rs` | `$CARGO_HOME/optic/drivers/<key>` | `provision` | concurrent builds of one entry; damaged entries; executables in use |
| Manifest decoder | `cargo-optic-compiler/src/manifest/` | the decoder's record sets | `read_manifest` | any record order, duplicates, truncation, conflicts |
| Artifact collection | `cargo-optic-compiler/src/{artifacts,collection}.rs` | the attempt's directory | `collect` | identifiers shared by sources and modules; all modules or none |
| LLVM index | `cargo-optic-compiler/src/llvm_index/` | a chunked stream | `index` | skipping bodies without tokenising them |
| Workspace, toolchain, request, digest | `cargo-optic-compiler/src/{workspace,toolchain,build,request,digest}.rs` | none | queries of Cargo and rustc, keys | fields that run into one another in a key; which of several variables and files chooses the compiler and its wrappers |
| Durable records | `cargo-optic-records/src/` | immutable values | constructors that refuse inconsistent values | relations between records; range arithmetic |
| Evidence queries | `cargo-optic-evidence/src/` | none | `find_instances`, `source_evidence`, `llvm_evidence` | ordinals that survive sorting; alias cycles |
| API, command line | `cargo-optic-api`, `cargo-optic` | what standard output has not written yet | delegation, output, exit status | the command line takes no lock; output that fails in the middle, or after the status is decided |
| Test support | `cargo-optic-test-support` | none | fixtures of the repository's tests | not modelled |

How they interact. The command line calls `capture`, which prepares a build
(driver cache, request key), initialises the store, looks for a candidate, probes
it through Cargo, and otherwise collects and publishes. Optic, Cargo and the
driver are separate processes that share the attempt's temporary directory, an
exit status and a message stream. Different runs of Optic share the store, the
driver cache and Cargo's target directory; the documentation asks callers to
serialise them, and nothing enforces it. Queries read completed captures only.

What makes each part correct is stated as the properties of section 4;
`PROJECT.json` lists the hazards of the code, line by line, with the properties
that watch them.

## 2. Modules

    RequestIdentity        from options to the request key
        | key
    CaptureLifecycle       capture(), with Cargo
        | uses                             | in detail
    CaptureHistory (abstract)          PreparedBuild (abstract)
        ^ implemented by                   ^ implemented by
    StorePublication                   DriverProtocol     Optic, Cargo, driver
      files and system calls               | what they write and read
    StoreInitialization                EvidenceCollection records, artifacts
      initialize()                         | uses LlvmIndex, the scan of a module
    DriverCache                            v captures
      provision()                      InstanceSearch, LlvmEvidence   queries
                                       EvidenceOutput     commands, output
                                           | extends RecordFile, one record

* **CaptureHistory** is the store as its clients see it: a growing set of
  completed captures and one pointer per request key. `Redirect` installs a
  pointer, `Commit` makes a whole capture visible. A pointer may dangle; it never
  comes to name a different capture than the one it was written for.
* **StorePublication** has one action for each system call of `Store::publish`
  that another process can observe (`CheckCompleted`, `CreateStaging`,
  `WriteHeader`, `WriteInstances`, `CopyArtifact`, `ValidateCopies`,
  `WritePointer`, `ReplacePointer`, `CommitCapture`), `Interrupt` for a failure or
  crash at any of them with the torn file it may leave, and one action for each
  step of the reads. It maps to CaptureHistory by taking the headers of the
  completed directories for the captures and the pointer files for the pointers.
* **CaptureLifecycle** is `capture` with both policies. The store is
  CaptureHistory. Cargo is external: a set of units, each with the token,
  configuration and source version it was compiled with; a unit is fresh if the
  latter two are the present ones. `ProbeStale` leaves the candidate's token
  uncompiled; `StartCompile` takes a token never used before; an edit may fall
  between the start of a compilation, which dates the unit, and its end.
* **DriverProtocol** opens up the probe and the collection: Optic, Cargo, the
  dependencies' compilations and the driver take their own steps, and any of
  them may die. `Verify` and `StopProbe` are the wrapper, `CreateManifest`,
  `Analyse`, `StopAnalysis`, `Inform`, `Generate` and `Finish` the compiler
  process, `IsStale`, `IsFresh` and `IsCollected` what Optic concludes.
* **PreparedBuild** is the contract between `capture` and all of that: a probe
  that answers `Fresh` only if Cargo found nothing to compile, and `Stale` only if
  Cargo asked to compile the selected target; evidence only of a unit that Cargo
  keeps; and a unit that Cargo may keep although, or after, the collection failed.
  DriverProtocol implements it: the stage is Optic's `mode`, `Judgement` is read off
  what Cargo has `requested` and what it finds `dirty`, the compiled unit off what it
  has `recorded`, and the outcome off Optic's `result`. CaptureLifecycle
  has the same answers but compiles and answers in one step: `FinishCompile` is
  `Compile` and `AnswerCollected`, `LoseEvidence` is `Compile` with a failure
  before or after it, and `Interrupt` is `Fail`.
* **StoreInitialization** and **DriverCache** are the two other places where
  processes meet in the file system: one action per system call (or per group of
  calls on a directory that nobody else can see), overlapping callers, failures
  and crashes.

* **EvidenceCollection** follows the contents of one collection through four
  stages that have no code in common: the driver's classification and record
  stream (`Configure`, `WriteConfiguration`, `NextUnit`, `WritePlacement`,
  `FinishManifest`), the decoder (`Read`), the collection of artifacts
  (`CollectSources`, `PrepareModules`, one `CollectModule` per module) and
  `InstanceManifest::new` (`Validate`). Each stage has its own idea of a
  supported compilation, of identities and of ranges. While rustc runs, paths may
  move and files of the attempt's directory may be damaged, and the manifest may be
  cut until Optic opens it.
* **LlvmIndex** is the scanner of one textual module. A text is a sequence of
  atoms; the calls of the header parser that are under way are a stack of goals,
  and `After` says by which goals a goal is replaced when it reads a token.
  `SkipBody` is `skip_body`, one atom at a time. `MCLlvmIndex` is a small printer:
  it builds items from parts, so that what an item defines and how long it is are
  known without parsing it.
* **InstanceSearch** is `find_instances` and the use of the references it
  returns; **LlvmEvidence** is `llvm_evidence`, one step per iteration of
  `resolve_module`, over every graph of aliases.
* **RequestIdentity** follows a call from the words of its command line, or from
  the arguments of an embedding caller, to its request key: `Parse` with Clap's
  groups and `BuildRequest`, `DiscoverWorkspace`, `ReadMetadata`, `SelectCompiler`
  and `Identify`, each with its refusals. What surrounds the call (variables,
  `PATH`, links, configuration files, manifests, versions) is the record
  `machine`; `NextCall` is another call on another machine state, and `earlier`
  remembers the keys. `CargoRuns` says, from Cargo's documentation, which compiler
  and wrappers a configured Cargo runs. `MCRequestIdentity` varies a usual call.
* **RecordFile** is one bounded record: `BoundedWriter` chunk by chunk, the final
  newline, the reader's look at the length and its read of one byte more than the
  budget, and a change from outside between the two.
* **EvidenceOutput** extends RecordFile with the commands that show something. A
  command is a list of items, texts or ranges; every range reads the records again
  (`BeginCopy`), checks the claim in `Width` bits (`OpenArtifact`) and copies by
  chunks (`CopyChunk`). `WriteAll` is standard output of the standard library,
  which keeps an unfinished line; `Exit` is the end of the process, which writes
  what is kept and ignores errors. A byte of the artifact is its offset, so that
  no byte can stand for another.

Variables carry the names of the directories, files and fields they stand for;
each module's comments say which. Names of files, keys, tokens and captures are
model values or small numbers. Operators named as mutants beside an action are
plausible mistakes in the code behind it; no specification uses them. Each shows
that the property named with it in `PROJECT.json` can be violated.

## 3. What the models leave out

* A crash is the death of a process, not of the machine: the code does not sync
  files, and renames are taken to be atomic and ordered.
* Symlinks, wrong file types and unreadable directories are errors before any
  state changes, and are covered by the failure each step may have.
* A partly copied artifact counts as not copied: validation compares lengths
  and refuses it. Contents that change in place after publication are out of
  scope of the store, which hashes nothing.
* Cargo is modelled by what Optic relies on: a unit is fresh exactly if its
  tracked inputs are those at the start of its compilation. Untracked inputs
  (explicit inclusion of `.optic`, build scripts that read it) are unsupported by
  the documentation as well.
* Cargo starts the selected unit once all stale dependencies have started (with
  pipelining it need not wait for their end). Messages are observed when they
  are sent, because Optic reads the stream to its end before it decides. The
  capacity of pipes is not modelled.
* If Optic dies, its Cargo may go on: in DriverProtocol Cargo and the driver
  simply continue, in PreparedBuild `Compile` may follow `Fail`, and in
  CaptureLifecycle it may leave the unit of a token that is never published
  (`LoseEvidence`) or nothing (`Interrupt`).
* In RequestIdentity SHA-256 stands for its input, texts are sequences of a few
  characters, what `rustc -vV` prints is one identity, and of Cargo's
  configuration only the entries, empty or not, that `wrapper_is_configured` and the
  discovery of rustc ask for are there. Variables that are not UTF-8 are left out.
* In EvidenceOutput a row is one line and its layout is left out: what counts is
  whether all of it arrives, in order. `list` reads many records, the model one:
  they are read before anything is written, and any of them refuses the command.
  `capture` begins with the record of a finished call. Standard output is a pipe,
  a file or a terminal; all three go through the same line buffer.
* In EvidenceCollection a file's text has one length and a definition one end; of
  damage that keeps a length nobody could know, since nothing is hashed. Why a
  source is unavailable is not distinguished, nor is a module's list of
  definitions part of its record: LlvmIndex has it. Fields that no rule compares
  (target, linkage, visibility, lines, display paths) are left out, and so is the
  encoding of records in bytes: the decoder meets streams that the driver wrote, cut
  anywhere or with bytes behind their end.
* In LlvmIndex words are atoms; a name in quotes has one atom for each character.
  The read buffer is left out because `peek` and `take` hide where it ends. The
  words of the grammar are a selection of each group that the code treats alike.
* In InstanceSearch texts are strings of one letter, so that equality,
  containment and order are those of numbers; crate name and path are one name.
* Not modelled at all: `cargo-optic-test-support`, fixtures and child processes of
  the repository's own tests, which panic on every failure. Of the durable records
  and of the driver's manifest, the rules that relate several of them are modelled;
  checks of one field alone, and the encoding in bytes, are not (section 7).

Every module with state of its own, except PreparedBuild and RequestIdentity, has a
type invariant, which also documents its variables. Those of StorePublication,
CaptureLifecycle and DriverCache are checked by runs and proved, those of
StoreInitialization, DriverProtocol, RecordFile, EvidenceCollection, LlvmIndex,
LlvmEvidence and InstanceSearch are proved; the others hold on the instances of the runs as well but
are not listed there.

## 4. Runs

Every run finishes without error, except `LostTail`, which finds the violation it
is there for; every property of the others has a mutant that TLC refutes.

| Run | Instance | What it shows |
|---|---|---|
| `Publication` | 1 publisher, 1 reader, 2 identities, 2 keys, 2 tokens, 2 artifacts | The store stays whole (`CompletedIsWhole`), pointers agree with captures (`CandidateAgrees`), readers never get an error (`ReadersNeverFail`), failures invalidate at most the request's own candidate (`FailureInvalidatesAtMost`), staging that was abandoned stays so (`AbandonedNeverAdopted`), and the files implement CaptureHistory (`ImplementsHistory`). |
| `Lifecycle` | 1 caller, 2 keys, 2 configurations, 6 tokens, 2 disturbances | What `capture` returns is current (`EvidenceIsCurrent`), units never contradict published evidence (`UnitsMatchEvidence`), published tokens are not compiled again (`PublishedNeverRecompiled`), calls return and reuse always resumes. |
| `Initialization` | 2 callers, 2 interruptions | No store directory precedes the complete ignore file, conflicting ignore files are kept (foreign contents above all: that nobody writes an empty file without a writer is nearly immediate), retries succeed unless there is a conflict. |
| `DriverCache` | 2 callers, 2 keys, 2 faults | Entries are whole from the moment they exist and no caller changes one; no fault spoils the cache. |
| `DriverProtocol` | 2 dependencies, 2 faults | What Optic answers is what Cargo and the driver did; Cargo records no unit without a finished analysis; diagnostics are shown when and only when they should be, and never twice; the processes implement PreparedBuild (`ImplementsPreparedBuild`); everything returns. |
| `Evidence` | 2 codegen units, 2 instances, 2 source files, 2 faults, compilations that differ from a supported one in up to two respects | Accepted evidence has exactly rustc's placements, each source is the text that rustc read (`AcceptedSourcesAreExact`), every unit has its module of the right stage or there is none at all (`AcceptedModulesAreExact`); without faults nothing that the driver writes is refused (`OnlyFaultsRefuse`). |
| `LlvmIndex` | texts of up to two printed items, whole and cut at every place, headers at, below and above the budget | The index of a whole text is what was printed, names decoded and ranges exact (`IndexIsExact`); a cut text gives no part of a function (`CutIsNoticed`); headers under way, their open brackets and the names that are indexed stay within the budget (`HeadersAreBounded`). |
| `LlvmEvidence` | 2 modules in either order, 3 symbols | The answer is the one that the definitions determine, whatever the order (`AnswerIsExact`). |
| `InstanceSearch` | 2 captures of up to 2 instances, names and queries of up to 2 letters, limits up to 2 | Rows do not depend on the manifest's order and keep naming their instance (`RowsAreExact`). |
| `RequestIdentity` | a usual call changed in at most one respect, then one changed in at most two, in options and surroundings | The two share a key exactly if they ask for the same build (`KeyIsTheBuild`), and whatever the configuration says, Cargo runs the keyed rustc in Optic's wrapper alone, and no other wrapper is disabled unannounced (`OnlyTheDriverWraps`). |
| `EvidenceOutput` | records and artifacts of 2 or 3 bytes, budget 3, all ranges of two-bit numbers, newlines anywhere, up to 2 rows or bodies, 1 change from outside, a device that closes or fills at any byte | Writer and reader agree on the budget (`BudgetsAgree`) and only whole records are accepted (`AcceptsOnlyWholeRecords`); ranges are judged as in unbounded arithmetic (`RangesAreExact`); output is a prefix of what was asked (`OutputIsPrefix`), and the result says how it went (`ResultIsTrue`). |
| `LostTail` | as before, 1 row or body, no change from outside | Expected to fail: `SuccessIsShown`. |

What `LostTail` finds. `cli::run` (`cargo-optic/src/cli.rs:22`) hands standard
output to the command and returns the command's result; nothing flushes. Rust's
standard output keeps what follows the last newline, here the end of a source
excerpt that does not end a line, and writes it at the end of the process, where
an error is ignored. On a full device the excerpt is cut or missing, and `show`
exits with 0, although `cli.rs:21` excuses a closed pipe only, `cli.rs:136` has an
error for output that could not be written, and `show.rs:17` promises the exact
bytes. `ResultIsTrue` is what holds instead: a result of success means that all
bytes are on the device or in that unfinished line.

What is announced without need. `read_compiler_configuration` (`toolchain.rs:102`) looks
at the field of an entry and not at its value. With `build.rustc-wrapper = ""` in a
file Cargo runs no wrapper, but the call announces that it disables wrappers and that
its output can differ from a normal wrapped build. `toolchain.rs:23` has the context
hold "whether collection must bypass a configured wrapper", and for variables
`wrapper_is_configured` does tell an empty value from a wrapper. The evidence is right
all the same. `OnlyTheDriverWraps` states what holds: whatever an ordinary build would
have run is announced, and an announcement without a wrapper has an empty entry for its
only reason.

Bounds, and why they are enough:

* *Identities, keys, tokens* (2 each): every property compares at most two
  captures, or a capture and a pointer. A repeated identity under another key and
  token needs two of each. Symmetric sets are declared as such only in runs
  without liveness.
* *Artifacts* (2): some copied, some not.
* *Callers* (2) in `Initialization` and `DriverCache`: every race there is between
  two parties. `Publication` and `Lifecycle` have one publisher or caller, for
  which all their properties are stated; those that do not depend on callers being
  serialised (all but `FailureInvalidatesAtMost` and the liveness properties) are
  proved for any number of overlapping ones.
* `MaxDisturbances`, `MaxInterrupts`, `MaxFaults` (2) bound edits, changes,
  failures and crashes together: one that spoils a state and one that hits the
  recovery from it. In `Publication` they are not bounded at all.
* `MaxTokens` (6): more than a single caller can use for two requests with two
  disturbances, so that the bound never stops a call and the liveness properties
  are not vacuous. Deadlock is not checked in `DriverProtocol`, where a prepared
  build simply ends, nor in `RequestIdentity`, `EvidenceOutput` and `LostTail`,
  whose calls do.
* *Units, instances, files* (2 each) in `Evidence`: an instance in two units, two
  instances of one file, a file met first in either unit, modules after zero, one
  or two snapshots. `Ends` has an end inside the text and one beyond it.
* *Items* (2) in `LlvmIndex`: what follows a definition shows whether its end was
  found. A text cut in an earlier item is a text of fewer items.
* *Symbols* (3) in `LlvmEvidence`: chains and cycles of length one to three, and
  cycles that do not contain the instance's own symbol; two modules, because what
  could go wrong is carried from one to the next.
* *Instances* (2) in `InstanceSearch`: any order of two rows against any order in
  the manifest, cut to one by the limit.
* *Two calls* in `RequestIdentity`: keys are compared in pairs. Two changes at once
  cover every pair of neighbouring fields, a text that moves from one field to the
  next, and one variable or file that takes precedence over another.
* `Width` (2), `Lengths` (2, 3): the largest sum of two numbers is far beyond the
  width, an artifact may end at the largest number or before it, and ranges are
  empty, at the end, across it and wrapped. `Limit` (3) with records of 2 and 3
  bytes: with the newline, one is exactly within the budget and one is a byte
  above it; `MaxForeign` (4) is the length that only a longer read notices.
  `CopyBuffer` and `TailCapacity` (2): copies of zero, one and two chunks, the last
  one short or full, and unfinished lines that fit, grow and do not fit.

Fairness. System calls, compilers and Cargo return (weak fairness of each
process's steps), and clients keep asking (strong fairness of `Begin` and
`Provision`, which are disabled while the caller is busy). Nothing forces a
fault, an edit or a repair. A failed call returns an error to its user, and it is
the user who tries again, which is all the retry the code has.

Two unserialised callers of one request have no liveness property: each replaces
the other's pointer before it commits and may find the other's capture missing,
so both can go on collecting for ever. The documentation of `capture` asks
callers to serialise for this reason; evidence stays correct all the same.

## 5. Proofs

The proofs are for every value of the constants, under the assumptions named in
the modules (`StoreAssumption`, `LifecycleAssumption`, `CacheAssumption`,
`ProtocolAssumption`, `InterruptsAssumption`, `RecordAssumption`,
`OutputAssumption`, `CollectionAssumption`, `EvidenceAssumption`,
`SearchAssumption`, `CallsAssumption`, `IndexAssumption`: the values that stand for "nothing" are not captures or
directories, the selected unit is no dependency of itself, a call has an environment,
an instance's symbol is
none of the other symbols and these are finitely many, budgets, buffers and
sizes of records are positive, lengths of artifacts have `Width` bits, and bounds on
faults, changes, modules, texts, captures and limits are numbers; a text is a sequence
of strings, and nothing more is assumed of what llvm-dis prints).

* `Store_proofs`, publication. The invariant `IInv` has eight parts. `TypeOK`;
  `InFlightDistinct`, no two calls under way have one identity; `ScopeMatches`, a
  call past the first check publishes a manifest of its own identity;
  `AllProgress`, what the staging directory of a call holds at each of its steps;
  `CompletedIsWhole`; `CandidatesBacked`, a pointer names its own key and either a
  completed capture with that header, or an identity whose staging directory is
  abandoned or about to be committed by the call that wrote the pointer;
  `ReadersBacked`, what a reader has looked at so far is still there; and
  `ReadersNeverFail`. The properties alone are not inductive: that a commit keeps
  pointers in agreement needs to know that no other call can ever complete an
  identity whose pointer dangles, which is `CandidatesBacked` with
  `InFlightDistinct`. From it follow `CandidatesAlwaysAgree`,
  `CompletedAlwaysWhole`, `ReadersAlwaysSucceed`, `AbandonedIsFinal` and the
  refinement `PublicationImplementsHistory`. `FailureIsHarmless` has an invariant
  of its own on top and assumes one publisher, as the code's contract does.
* `CaptureLifecycle_proofs`. `IInv` adds to the properties: `Bounded`, no token,
  version or number is ahead of its counter; `TokensUnused`, a token being
  collected is in nobody else's hands, neither in another call nor in a unit,
  a pointer or a completed capture; `UnitsAgree`, `UnitsMatchEvidence` for the
  captures about to be published as well as the published ones; `CallsOK`, what
  each call knows of its capture at each of its steps; `CandidatesKeyed`. Currency
  of evidence then follows from freshness: a fresh unit has the present
  configuration and version, `UnitsAgree` carries both over to the evidence, and
  neither can be older than the call. The module also proves of the abstract store,
  which captures come and go through, that it never associates an identity with two
  captures (`HistoryAgrees`) and that no capture disappears (`CompletedGrows`).

* `BuildPreparation_proofs`, the cache. `IInv` is `TypeOK`, `EntriesAreWhole` and `Progress`, what
  the temporary directory of a call holds at each of its steps. Without `Progress`
  a call could publish a directory that the validation before it never saw:
  publication itself compares nothing. The lemma `EntriesChange` says who changes
  an entry and how, and gives `EntriesAlwaysStay` as well.

* `BuildPreparation_proofs`, compiler and wrappers. `PrepareIInv` says that a call has
  an environment, whatever its variables hold, and that a call which went on past
  `SelectCompiler` found no compiler chosen there and announced what the
  environment says (`Announced`). `FirstOfThree` gives Cargo's precedence a closed form;
  with it `ConfiguredRunsDriver` compares what `RustcDriver::configure` sets with
  what Cargo runs, and `WrappersAgree` the code's nested conditions with Cargo's
  precedence, set but empty variables included: the two differ by empty entries of
  files alone.

* `Store_proofs`, initialisation. `SetupIInv` is `SetupTypeOK`; `Positions`, where in the chain
  of directories a call is when it looks at the ignore file; `Passed`, all directories
  before a call's place exist, whoever made them; `Writers`, the call that
  created the ignore file is alone in writing it, and finds it empty; `Ignored`, a
  call goes on past `.optic`, and a directory of the store exists, only with a
  complete ignore file; and `IgnoredBeforeUse`. That property needs `Ignored`, which
  is kept because no call writes a complete file again, which is `Writers`.
  `ConflictsAlwaysRemain` follows from `Writers` as well: an empty file that a
  dead call has left has no writer.

* `DriverProtocol_proofs`. Three processes take steps of their own, and `IInv` says
  how far one can be while another is where it is: `Phases`, what Cargo is doing at
  each step of Optic; `Compilations`, which units are compiled, and that the driver
  runs when the selected one is; `Routes`, which files the driver has written at each
  of its steps and in which mode it goes there; `Records`, Cargo keeps a unit only
  of a collection whose driver has ended well; `Observed`, what the messages and
  the exit status tell of the units; `Waiting`, where every diagnostic that was raised
  is, so that what is about to be shown was not shown before (`ShownIsNew`); and the two properties about answers and diagnostics. Both are about
  the moment at which Optic answers, and say nothing before; they follow from
  `Phases`, `Observed` and `Routes`, or from `Waiting`, at that step.
  `RecordedAlwaysAnalysed` follows from `Records` and `Routes`.
  `ProtocolImplementsBuild` is the refinement of PreparedBuild; a table in the
  module says which step maps to which, and all others are stutters.

* `EvidenceOutput_proofs`, records. `IInv` is `RecordTypeOK`, `Encoding` (while the
  encoder runs, what it has written and what remains are the budget, and the file is
  what it has written), `Unpublished` (nobody reads or changes a record before it is
  written), `Whole` (a written record that nobody changed is as long as its
  encoding and the newline) and `BudgetsAgree`. That a reader never refuses an
  unchanged record needs `Whole`, which needs `Encoding`. The lemma `ExcessIsSeen`
  is the point of reading one byte more: a read exceeds the budget exactly if the
  file does; with it `AcceptedAreWhole` follows from the reader's last step alone.
  `StepOfTheRecord` shows that no command does anything else to a record.

* `EvidenceOutput_proofs`, ranges. `OutputInv` is `Asked`, which step belongs to which
  command; `Pending`, what is left to write consists of the command's own items; `Checked`,
  from the moment something may be written, every range fits its width, and those of
  the manifest lie within the artifact; `Lengthy`, an artifact has
  its declared length unless it was changed; and `RangesAreExact`. `ChecksAreExact`
  compares arithmetic in `Width` bits with unbounded arithmetic: the check of the
  manifest is exact only for ranges that `ByteRange::new` has let pass. A range of a
  caller is compared with the artifact only when it is copied, and `Checked`
  says that it is its command's only item, so that success implies that this check
  was made.

* `EvidenceOutput_proofs`, delivery. `DeliveryInv` is `Streams`, when standard output may
  hold something and when its device has not failed; `Progress`, the items of the
  command are those written before and those left to write, none of the former
  is the time that cannot be shown, and the bytes of the former are those that
  have arrived, those that are kept and those that the open range still
  contributes; `Prefix`; and `ResultIsTrue`. Neither property is inductive: that
  the next chunk continues a prefix needs `Progress`. Three groups of lemmas carry
  it. `FlattenAppend`, `FlattenPrepend` and `FlattenStarts` say what flattening does
  piece by piece. `CommandsDeliver` compares, for every command, the items that its
  loop produces (`ListItems`, `FindItems`, `LlvmItems`) with the joined blocks
  that the property asks for: the items before a time that cannot be shown are exactly
  the blocks before it. `KeptIsLast`, `WrittenIsShown` and
  `LostIsCut` say what one write makes of the two streams, whatever the line writer
  keeps: all of the chunk follows, or a beginning of it arrives and the device has
  failed.

* `EvidenceCollection_proofs`. None of the three properties is inductive: they speak
  of the moment at which Optic has read everything, and say nothing of how it came
  about. `IInv` follows the data instead. `Driven` says what the driver has got past
  and written: `Stream`, every record of the manifest is one the driver may have
  written by then, none repeats another's identity, and an end is preceded
  by everything that belongs before it, which holds of every beginning of the file
  and so survives any crash of the driver and any cut or torn record; and `Open`, as
  long as the file is whole and has no end, nothing that the driver got past is
  missing. `Collected` says what Optic has taken over: `SourcesCollected` and
  `ModulesCollected` tie each artifact to a record of the manifest and to the file
  of that number. `Undisturbed` is what holds besides as long as nothing
  failed; it alone gives `OnlyFaultsRefuse`. Three lemmas carry the
  steps of the driver, `StreamAppended`, `StreamCut` and `OpenAppended`;
  `PlacementsAgree` says that two placements of one instance name one source, which
  needs that a file has one number in the stream; `DriverStreamDecodes` and
  `CollectedIsValid`, that what an undisturbed driver wrote passes every check of
  Optic; and `RecordsEnumerate`, that putting a set of records in order loses none.

* `EvidenceQueries_proofs`, `llvm_evidence`. `AnswerIsExact` compares the answer with
  all paths along the aliases of all modules, while the query follows one path of
  one module at a time. `IInv` says what it knows on the way: `Tracked`, the symbols
  visited are the present path, none of them twice; and `Settled`, bodies, cycles and
  unsupported aliases are those of the modules resolved so far. `PathsAgree` says
  that a path is determined by its module and its length, so that the one which the
  query has followed to its end decides what the module contributes (`EndFound`);
  `CircleClosed`, that a symbol met twice lengthens paths for ever; `TrailBounded`,
  that no path of distinct symbols is longer than there are symbols, where the
  definition of the property stops. `ByModuleSorts` says that the final sort loses
  and adds no body.

* `EvidenceQueries_proofs`, `find_instances`. `SearchIInv` adds `RowsRefer`, a row's
  ordinal leads to the record that it shows, whatever was published since, and
  `OpenedIsRow`. `RowsAreExact` counts matching records, and the search sorts
  positions in the manifest: `SortedExact` and `RecordsCounted` relate the two. The
  records of a manifest have distinct symbols, so their keys order them totally
  (`RecordOrder`), and it is this that makes the rows independent of the manifest's
  order. Both sorts are stated by ranks, of which `RanksEnumerate` says that they
  number what is sorted.
* `EvidenceQueries_proofs`, `llvm_index`. `HeadersAreBounded` bounds the calls under
  way by the atoms that the header has consumed, and is not inductive: a token can
  open two calls more than it ends. `ScanInv` keeps accounts (`Paid`): whenever the
  stack of goals is one ahead of the atoms, its first goal is a parenthesis, which
  opens nothing (`FunctionAfter`, `KindAfter`, `AliasAfter`, one lemma for each of the
  three grammars). Names are paid for as well: a decoded name is shorter than its token
  (`DecodedName`, by induction over its escapes), a function has no target, and an
  alias's symbol and target are read from different tokens. The text is any text, so
  the bound holds for output that llvm-dis never prints too.

EvidenceOutput_proofs, EvidenceCollection_proofs and EvidenceQueries_proofs rest on
induction over data; the lemmas that they share are in SequenceLemmas. The library's
induction theorems cannot be used here, because no installed prover can
instantiate the operator that they take; `SetInduction` takes a set of numbers instead
and is proved from the well-foundedness of the order on Nat. `Flattening` and
`FlattenIterates` use it to replace `FlattenSeq`, a recursive function over indices,
by the sequence of its intermediate results; `RanksEnumerate` and `CircleClosed` use
it on ranks and on lengths of paths.

Left to TLC: `IndexIsExact` and `CutIsNoticed` (LlvmIndex), `KeyIsTheBuild`
(RequestIdentity), and all liveness properties. Liveness under fairness and ENABLED are
beyond the prover. The first two say that the scanner reads what the printer of
`MCLlvmIndex` wrote; a proof for every text would need a grammar of LLVM's output, which
the code does not have either. That keys are equal only for equal builds rests on the
texts of numbers (`ToString`, which has no definition that a prover could use) and on
SHA-256.

## 6. Running

    tlc -config Publication.cfg MCStorePublication.tla
    tlc -config Lifecycle.cfg CaptureLifecycle.tla
    tlc -config Initialization.cfg StoreInitialization.tla
    tlc -config DriverCache.cfg DriverCache.tla
    tlc -config DriverProtocol.cfg DriverProtocol.tla
    tlc -config Evidence.cfg MCEvidenceCollection.tla
    tlc -config LlvmIndex.cfg MCLlvmIndex.tla
    tlc -config LlvmEvidence.cfg MCLlvmEvidence.tla
    tlc -config InstanceSearch.cfg InstanceSearch.tla
    tlc -config RequestIdentity.cfg MCRequestIdentity.tla
    tlc -config EvidenceOutput.cfg EvidenceOutput.tla
    tlc -config LostTail.cfg EvidenceOutput.tla    # finds the lost line
    tlapm Store_proofs.tla                 # likewise the other *_proofs modules

## 7. Plan

In the order of what the system depends on; all of it is done.

1. CaptureHistory and StorePublication, with their proofs and the refinement.
2. CaptureLifecycle and its proofs.
3. StoreInitialization.
4. DriverCache and its proofs.
5. DriverProtocol.
6. EvidenceCollection.
7. LlvmIndex.
8. InstanceSearch and LlvmEvidence.
9. RecordFile and EvidenceOutput: budgets and ranges at the limits of a small
   width, and what reaches standard output; the proofs about budgets.
10. PreparedBuild, implemented by DriverProtocol.
11. RequestIdentity.
12. Proofs for 3 and 5: the ignore file precedes the store, answers are confirmed,
    recorded units are analysed, diagnostics are relayed, and each step of
    DriverProtocol is a step of PreparedBuild or a stutter.
13. Proofs about ranges and output in 9: no claim is accepted in `Width` bits that
    unbounded arithmetic refuses, output is a prefix, and the result is true.
14. Proofs for 6: accepted sources and modules are exact. Ids of snapshots are
    positions and those of modules follow them, from which every step of the
    collection keeps what is already in the directory.
15. Proofs for 8 and 11: the answer of `resolve_module` is the one that the aliases
    determine, and no configuration escapes the driver.
16. The decoder on streams of records that no driver writes.

-------------------------- MODULE RequestIdentity --------------------------
(***************************************************************************)
(* From the words of a command line or of an embedding caller to the key   *)
(* under which captures of the same build are looked up: Clap's groups,    *)
(* BuildRequest, discover_workspace, prepare_build and request_key.        *)
(*                                                                         *)
(* The key decides which earlier capture may be offered for reuse, so two  *)
(* calls must share it exactly when they ask for the same build.  Calls    *)
(* follow one another, and the machine changes between them: manifests,    *)
(* configuration, variables, toolchain.                                    *)
(*                                                                         *)
(* A text is a sequence of strings, one for every character that anything  *)
(* distinguishes.  SHA-256 stands for its input.                           *)
(***************************************************************************)
EXTENDS Integers, SequencesExt

CONSTANTS
  FirstCalls,    \* bound: what a first caller asks, and what surrounds it
  SecondCalls,   \* bound: the same for a second one
  Rank           \* the order of the characters in names

\* What the environment says of compilers and wrappers.
CompilerVariables ==
  {"rustc", "buildRustc", "wrapper", "buildWrapper", "workspaceWrapper",
   "buildWorkspaceWrapper"}

NoText == <<>>
Unset == <<"unset">>   \* a variable of the environment that is not set

\* A caller has an environment and a toolchain, whatever they say, and the entries
\* of its configuration files have values, which may be empty.
ASSUME CallsAssumption ==
  \A call \in FirstCalls \cup SecondCalls :
    /\ CompilerVariables \cup {"config", "compiler"} \subseteq DOMAIN call.machine
    /\ call.machine.compiler \in Seq(STRING)
    /\ \A entry \in DOMAIN call.machine.config : call.machine.config[entry] # Unset

VARIABLES
  stage,     \* the next step of the call
  options,   \* what its caller asked
  machine,   \* what surrounds it
  request,   \* the validated request
  cargo,     \* the Cargo it runs
  selected,  \* package and target that metadata resolved
  warned,    \* whether it announced that wrappers are ignored
  requestKey, \* under which captures of the build are looked up
  failed,    \* an external program failed
  earlier    \* what an earlier call prepared

prepareVars == <<stage, options, machine, request, cargo, selected, warned,
                 requestKey, failed, earlier>>

-----------------------------------------------------------------------------
(* Requests.                                                               *)

Comma == ","
Blank == " "

\* The pieces of a text between separators, empty ones included.
Split(text, separators) ==
  LET cuts == SetToSortSeq({0, Len(text) + 1} \cup
                {i \in DOMAIN text : text[i] \in separators}, LAMBDA i, j : i < j)
  IN [k \in 1 .. Len(cuts) - 1 |-> SubSeq(text, cuts[k] + 1, cuts[k + 1] - 1)]

\* Clap splits the values of --features at commas; an embedding caller hands
\* over what it likes.
FeatureValues(o) ==
  IF o.entry = "cli"
  THEN FlattenSeq([i \in DOMAIN o.features |-> Split(o.features[i], {Comma})])
  ELSE o.features

Before(s, t) ==
  \/ IsStrictPrefix(s, t)
  \/ \E i \in DOMAIN s \cap DOMAIN t :
       SubSeq(s, 1, i - 1) = SubSeq(t, 1, i - 1) /\ Rank[s[i]] < Rank[t[i]]

\* with_features: both separators, no empty names, sorted, each name once.
Normalized(values) ==
  LET names == UNION {ToSet(Split(values[i], {Comma, Blank})) : i \in DOMAIN values}
  IN SetToSortSeq(names \ {NoText}, Before)

\* The groups that Clap enforces before into_request sees the options; an
\* embedding caller cannot express anything else.
Parses(o) ==
  /\ o.target # "none" /\ o.second = "none"
  /\ o.release = (o.profile = Unset)

Profile(o) == IF o.release THEN <<"release">> ELSE o.profile

\* BuildRequest::new and with_features refuse what is empty.
EmptyPart(o) ==
  \/ o.package = NoText
  \/ Profile(o) = NoText
  \/ o.target # "lib" /\ o.name = NoText
  \/ NoText \in ToSet(FeatureValues(o))

Requested(o) ==
  [package |-> o.package, kind |-> o.target, name |-> o.name,
   profile |-> Profile(o), features |-> Normalized(FeatureValues(o)),
   all |-> o.all, noDefault |-> o.noDefault]

-----------------------------------------------------------------------------
(* The workspace.                                                          *)

\* A variable counts if it is set and not empty.
IsGiven(value) == value \notin {Unset, NoText}

Relative(path) == path = NoText \/ Head(path) # "/"

\* Path::join.
At(directory, path) == IF Relative(path) THEN directory \o path ELSE path

First(S) == CHOOSE i \in S : \A j \in S : i <= j

\* find_executable_on_path: the places, in the order of PATH, at which there is
\* an executable of this name.  Another file does not hide a later one.
Candidate(m, program, i) == At(At(m.directory, m.path[i]), program)
Places(m, program) ==
  {i \in DOMAIN m.path : Candidate(m, program, i) \in m.executables}

\* resolve_executable: CARGO or "cargo".  A path, absolute or relative to the
\* directory of the call, is taken as it is, a bare name is looked up.
FindCargo(m) ==
  LET program == IF IsGiven(m.cargoVar) THEN m.cargoVar ELSE <<"cargo">> IN
  IF Len(program) > 1 \/ ~Relative(program) THEN At(m.directory, program)
  ELSE IF Places(m, program) = {} THEN NoText
  ELSE Candidate(m, program, First(Places(m, program)))

\* Symlinks to directories are resolved, also in CARGO_HOME.
Canonical(m, path) ==
  IF path \in DOMAIN m.links THEN m.links[path] ELSE path

Directory(m) == Canonical(m, m.directory)

\* cargo_home: CARGO_HOME or a directory below HOME, from the invocation
\* directory if it is relative.
CargoHome(m) ==
  LET home == IF IsGiven(m.cargoHome) THEN m.cargoHome
              ELSE IF m.home = Unset THEN NoText
              ELSE m.home \o <<".cargo">>
  IN IF home = NoText THEN NoText
     ELSE Canonical(m, At(Directory(m), home))

LibraryKinds == {"lib", "rlib", "dylib", "cdylib", "staticlib", "proc-macro"}

\* resolve_package and resolve_target: the first that matches.
Packages(r, m) == {i \in DOMAIN m.members : m.members[i].name = r.package}
Targets(r, package) ==
  {i \in DOMAIN package.targets :
     LET target == package.targets[i] IN
     IF r.kind = "lib" THEN target.kinds \cap LibraryKinds # {}
     ELSE r.kind \in target.kinds /\ target.name = r.name}

Resolves(r, m) ==
  /\ Packages(r, m) # {}
  /\ Targets(r, m.members[First(Packages(r, m))]) # {}

Resolution(r, m) ==
  LET package == m.members[First(Packages(r, m))] IN
  [package |-> package, target |-> package.targets[First(Targets(r, package))]]

-----------------------------------------------------------------------------
(* The compiler.                                                           *)

\* read_compiler_configuration: whether an entry is there, whatever its value.
HasEntry(m, entry) == entry \in DOMAIN m.config

RefusesCompiler(m) == m.rustc # Unset \/ m.buildRustc # Unset \/ HasEntry(m, "rustc")

\* Mutant of IsConfigured: a variable that is set but empty is passed over.
IsNamed(variable, buildVariable, configured) ==
  IsGiven(variable) \/ IsGiven(buildVariable) \/ configured

\* wrapper_is_configured: of the two variables, the first that is set decides,
\* and the presence of an entry decides if neither is.
IsConfigured(variable, buildVariable, configured) ==
  IF variable # Unset THEN variable # NoText
  ELSE IF buildVariable # Unset THEN buildVariable # NoText
  ELSE configured

WrappersConfigured(m) ==
  \/ IsConfigured(m.wrapper, m.buildWrapper, HasEntry(m, "wrapper"))
  \/ IsConfigured(m.workspaceWrapper, m.buildWorkspaceWrapper,
                  HasEntry(m, "workspaceWrapper"))

Driver == <<"/", "driver">>
Rustc(m) == <<"/", "sysroot">> \o m.compiler

\* Mutant of Configured: a wrapper for workspace members stays.
ConfiguredGlobally(m) ==
  [m EXCEPT !.rustc = Rustc(m), !.wrapper = Driver, !.buildWrapper = NoText]

\* PreparedBuild::command and RustcDriver::configure: what the Cargo of a probe
\* or of a collection finds in its environment.
Configured(m) ==
  [m EXCEPT !.rustc = Rustc(m), !.wrapper = Driver, !.workspaceWrapper = NoText,
            !.buildWrapper = NoText, !.buildWorkspaceWrapper = NoText]

-----------------------------------------------------------------------------
(* Identity.                                                               *)

Joined(names) ==
  FlattenSeq([i \in DOMAIN names |-> (IF i = 1 THEN <<>> ELSE <<Comma>>) \o names[i]])

\* cargo_arguments, without the flags' spelling.
Arguments(r) ==
  <<r.package, <<r.kind>>>> \o (IF r.kind = "lib" THEN <<>> ELSE <<r.name>>)
  \o <<r.profile>>
  \o (IF r.features = <<>> THEN <<>> ELSE <<<<"--features">>, Joined(r.features)>>)
  \o (IF r.all THEN <<<<"--all-features">>>> ELSE <<>>)
  \o (IF r.noDefault THEN <<<<"--no-default-features">>>> ELSE <<>>)

\* A JSON list of texts.
Json(texts) ==
  <<"[">> \o FlattenSeq([i \in DOMAIN texts |-> <<"'">> \o texts[i] \o <<"'">>])
  \o <<"]">>

BuildDirectory(m) ==
  IF m.buildDirectory = Unset THEN m.targetDirectory ELSE m.buildDirectory

RequestInputs ==
  Json(<<selected.package.name, selected.package.version,
         <<request.kind>>, selected.target.name, request.profile, cargo,
         Directory(machine)>>)
  \o Json(Arguments(request))
  \o Json(<<selected.package.id>>)
  \o Json(<<selected.target.name, SetToSeq(selected.target.kinds),
            machine.targetDirectory, BuildDirectory(machine)>>)

\* driver_key: the recipe is the same in every call of one Optic.
DriverKey(m) == <<"recipe">> \o m.compiler

\* Mutant of Digest: fields are run together.
RunTogether(fields) == FlattenSeq(fields)

\* digest: the length of a field before each field.
Digest(fields) ==
  FlattenSeq([i \in DOMAIN fields |-> <<ToString(Len(fields[i]))>> \o fields[i]])

RequestKey ==
  Digest(<<<<"revision">>, machine.root, CargoHome(machine), machine.cargoVersion,
           DriverKey(machine), RequestInputs>>)

-----------------------------------------------------------------------------
Nothing == [none |-> TRUE]

PrepareInit ==
  /\ stage = "idle"
  /\ options = Nothing /\ machine = Nothing
  /\ request = Nothing /\ selected = Nothing
  /\ cargo = NoText /\ requestKey = NoText
  /\ warned = FALSE /\ failed = FALSE
  /\ earlier = {}

\* The names that a caller wrote: what lies between separators, as long as it
\* can be.
NamesIn(text) ==
  LET Plain(i, j) == \A k \in i .. j : text[k] \notin {Comma, Blank}
      runs == {r \in (DOMAIN text) \X (DOMAIN text) :
                 /\ r[1] <= r[2] /\ Plain(r[1], r[2])
                 /\ r[1] = 1 \/ ~Plain(r[1] - 1, r[1] - 1)
                 /\ r[2] = Len(text) \/ ~Plain(r[2] + 1, r[2] + 1)}
  IN {SubSeq(text, r[1], r[2]) : r \in runs}

\* What a call asks Cargo for, read off its options and its surroundings.
Asked ==
  [package |-> selected.package, target |-> selected.target, kind |-> options.target,
   profile |-> Profile(options),
   features |-> UNION {NamesIn(options.features[i]) : i \in DOMAIN options.features},
   all |-> options.all, noDefault |-> options.noDefault, cargo |-> cargo,
   directory |-> Directory(machine), root |-> machine.root,
   home |-> CargoHome(machine), version |-> machine.cargoVersion,
   compiler |-> machine.compiler, targetDirectory |-> machine.targetDirectory,
   buildDirectory |-> BuildDirectory(machine)]

Begin(call) ==
  /\ stage' = "parse"
  /\ options' = call.options /\ machine' = call.machine
  /\ request' = Nothing /\ selected' = Nothing
  /\ cargo' = NoText /\ requestKey' = NoText
  /\ warned' = FALSE /\ failed' = FALSE

FirstCall ==
  /\ stage = "idle"
  /\ \E call \in FirstCalls : Begin(call)
  /\ UNCHANGED earlier

\* A later call, after any change around it.
NextCall ==
  /\ stage = "prepared"
  /\ earlier = {}
  /\ \E call \in SecondCalls : Begin(call)
  /\ earlier' = {[key |-> requestKey, build |-> Asked]}

Stop(where) ==
  /\ stage' = where
  /\ UNCHANGED <<request, cargo, selected, warned, requestKey, failed>>

Parse ==
  /\ stage = "parse"
  /\ IF ~Parses(options) THEN Stop("usage")
     ELSE IF EmptyPart(options) THEN Stop("refused")
     ELSE /\ request' = Requested(options)
          /\ stage' = "discover"
          /\ UNCHANGED <<cargo, selected, warned, requestKey, failed>>
  /\ UNCHANGED <<options, machine, earlier>>

DiscoverWorkspace ==
  /\ stage = "discover"
  /\ IF Relative(machine.directory) \/ FindCargo(machine) = NoText THEN Stop("refused")
     ELSE /\ cargo' = FindCargo(machine)
          /\ stage' = "metadata"
          /\ UNCHANGED <<request, selected, warned, requestKey, failed>>
  /\ UNCHANGED <<options, machine, earlier>>

ReadMetadata ==
  /\ stage = "metadata"
  /\ IF ~Resolves(request, machine) THEN Stop("refused")
     ELSE /\ selected' = Resolution(request, machine)
          /\ stage' = "compiler"
          /\ UNCHANGED <<request, cargo, warned, requestKey, failed>>
  /\ UNCHANGED <<options, machine, earlier>>

\* The driver's directory is in Cargo's home, so a missing home is noticed
\* before anything is announced.
SelectCompiler ==
  /\ stage = "compiler"
  /\ IF RefusesCompiler(machine) \/ CargoHome(machine) = NoText THEN Stop("refused")
     ELSE /\ warned' = WrappersConfigured(machine)
          /\ stage' = "identity"
          /\ UNCHANGED <<request, cargo, selected, requestKey, failed>>
  /\ UNCHANGED <<options, machine, earlier>>

Identify ==
  /\ stage = "identity"
  /\ requestKey' = RequestKey
  /\ stage' = "prepared"
  /\ UNCHANGED <<options, machine, request, cargo, selected, warned, failed, earlier>>

\* Cargo, rustc or the build of the driver fails.
ProgramFails ==
  /\ stage \in {"discover", "metadata", "compiler", "identity"}
  /\ stage' = "refused"
  /\ failed' = TRUE
  /\ UNCHANGED <<options, machine, request, cargo, selected, warned, requestKey, earlier>>

PrepareNext ==
  \/ FirstCall
  \/ NextCall
  \/ Parse
  \/ DiscoverWorkspace
  \/ ReadMetadata
  \/ SelectCompiler
  \/ Identify
  \/ ProgramFails

PrepareSpec == PrepareInit /\ [][PrepareNext]_prepareVars

-----------------------------------------------------------------------------
(* What Cargo documents of compilers and wrappers: a variable decides, the *)
(* empty one too, before the variable that stands for the configuration,   *)
(* and that one before the configuration files.  What is empty, there or   *)
(* in a variable, names no wrapper.                                        *)
FirstSet(values) ==
  LET set == {i \in DOMAIN values : values[i] # Unset} IN
  IF set = {} THEN NoText ELSE values[First(set)]

InFile(m, entry) == IF entry \in DOMAIN m.config THEN m.config[entry] ELSE Unset

CargoRuns(m) ==
  [rustc |-> FirstSet(<<m.rustc, m.buildRustc, InFile(m, "rustc")>>),
   wrapper |-> FirstSet(<<m.wrapper, m.buildWrapper, InFile(m, "wrapper")>>),
   workspaceWrapper |->
     FirstSet(<<m.workspaceWrapper, m.buildWorkspaceWrapper,
                InFile(m, "workspaceWrapper")>>)]

Unwrapped == [rustc |-> NoText, wrapper |-> NoText, workspaceWrapper |-> NoText]

(***************************************************************************)
(* Two prepared calls have the same key exactly when they ask for the same *)
(* build: however features are written and wherever a field ends, whether  *)
(* a profile is named or meant by --release, whether a directory is given  *)
(* or is the default, and whatever changed between the calls.              *)
(***************************************************************************)
KeyIsTheBuild ==
  stage = "prepared" =>
    \A other \in earlier : requestKey = other.key <=> Asked = other.build

HasEmptyEntry == \E entry \in DOMAIN machine.config : machine.config[entry] = NoText

(***************************************************************************)
(* Whatever the variables and the configuration say, the Cargo of a        *)
(* prepared build runs the rustc it is keyed by in Optic's wrapper and in  *)
(* no other.  The caller is told whenever an ordinary build would have     *)
(* been wrapped, and for no other reason than an empty entry in a file,    *)
(* which read_compiler_configuration takes for a wrapper and Cargo does    *)
(* not.                                                                    *)
(***************************************************************************)
OnlyTheDriverWraps ==
  stage = "prepared" =>
    /\ CargoRuns(Configured(machine)) =
         [rustc |-> Rustc(machine), wrapper |-> Driver, workspaceWrapper |-> NoText]
    /\ CargoRuns(machine) # Unwrapped => warned
    /\ warned => CargoRuns(machine) # Unwrapped \/ HasEmptyEntry
=============================================================================

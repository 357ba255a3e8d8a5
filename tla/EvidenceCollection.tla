-------------------------- MODULE EvidenceCollection --------------------------
(***************************************************************************)
(* The evidence of one collection, from rustc's codegen units to the       *)
(* instance manifest of a capture.  The driver classifies the compilation  *)
(* and writes the compiler manifest (rustc-driver/{llvm,analysis,source,   *)
(* manifest}.rs); Optic decodes it (manifest/), turns the retained bitcode *)
(* into text beside the source snapshots (artifacts.rs), and hands the     *)
(* whole to InstanceManifest::new (optic-records).                         *)
(*                                                                         *)
(* The four stages share the rules of what a supported compilation is, and *)
(* one directory in which snapshots and modules are named by artifact id.  *)
(* DriverProtocol has the processes around these steps.                    *)
(***************************************************************************)
EXTENDS Naturals, SequencesExt

CONSTANTS
  UnitCount,      \* rustc's codegen units, visited in the order of their names
  InstanceCount,  \* the functions placed in them, in rustc's item order
  Files,          \* the source files that rustc has loaded
  TextLength,     \* the length of each of them
  Ends,           \* where definitions may end in their file
  Builds,         \* the compilations considered
  MaxFaults       \* bound: what goes wrong outside Optic and the driver

Units == 1 .. UnitCount
Instances == 1 .. InstanceCount
Extensions == {"bc", "thin-lto-after-pm.bc"}
Stages == {"no-lto-optimized", "local-thin-lto-post-pass-manager"}
Reasons == {"unverified", "backend", "incremental", "plugin", "fat", "thin"}

\* backend is the one that the options and the target ask for, initialized the
\* name it reports; cli is the value of -C lto; local says that rustc, left to
\* itself, would optimise this compilation with local ThinLTO.
BuildOptions ==
  {b \in [verified : BOOLEAN, backend : {"llvm", "other"},
          initialized : {"llvm", "other"}, incremental : BOOLEAN, plugin : BOOLEAN,
          requiresLto : BOOLEAN, cli : {"unspecified", "off", "thin", "fat"},
          local : BOOLEAN] : b.backend = "llvm" => b.initialized = "llvm"}

ASSUME CollectionAssumption ==
  /\ {UnitCount, InstanceCount, TextLength, MaxFaults} \subseteq Nat
  /\ Ends \subseteq Nat
  /\ Builds \subseteq BuildOptions

VARIABLES
  build,        \* the options of the selected compilation
  placements,   \* rustc's partition: the units each instance is placed in
  definitions,  \* where each instance is defined: a file and an end, or nowhere
  reachable,    \* the source files whose path can be made canonical
  step,         \* the next step of the driver or of Optic
  unit, item,   \* the driver's position among the units and their instances
  support,      \* configure's decision
  snapshots,    \* Snapshots::files; the file at position k has the id k - 1
  manifest,     \* the records of the compiler manifest
  directory,    \* the attempt's artifact files, by id
  bitcode,      \* the bitcode that rustc has retained
  artifacts,    \* the artifact records
  modules,      \* the module records
  nextId,       \* collect_modules' next artifact id
  faults        \* what MaxFaults bounds

inputVars == <<build, placements, definitions>>
driverVars == <<reachable, unit, item, support, snapshots, manifest, bitcode>>
opticVars == <<artifacts, modules, nextId>>
vars == <<inputVars, driverVars, opticVars, step, directory, faults>>

Nowhere == <<>>
NoSource == <<>>

Definitions == {Nowhere} \cup [file : Files, end : Ends]
Ids == 0 .. Cardinality(Files) + UnitCount
Texts == Files \cup (Units \X Stages)

\* The effective LTO mode that rustc computes from its options.
SessionLto(b) ==
  CASE b.requiresLto \/ b.cli = "fat" -> "fat"
    [] ~b.requiresLto /\ b.cli = "thin" -> "cross-crate-thin"
    [] ~b.requiresLto /\ b.cli = "off" -> "off"
    [] ~b.requiresLto /\ b.cli = "unspecified" -> IF b.local THEN "local-thin" ELSE "off"

-----------------------------------------------------------------------------
(* The records of the compiler manifest.                                   *)

ConfigurationRecord(b, code) ==
  [kind |-> "configuration", backend |-> b.initialized, lto |-> SessionLto(b),
   incremental |-> b.incremental, plugin |-> b.plugin, unsupported |-> code]

SourceFileRecord(id, length) == [kind |-> "source", id |-> id, length |-> length]
ModuleRecord(u, suffix) == [kind |-> "module", unit |-> u, suffix |-> suffix]
PlacementRecord(i, u, source) ==
  [kind |-> "placement", instance |-> i, unit |-> u, source |-> source]
EndRecord == [kind |-> "end"]

\* Bytes that are not a whole record of any kind.
TornRecord == [kind |-> "torn"]

Positions(stream, kind) == {k \in DOMAIN stream : stream[k].kind = kind}
RecordSet(stream, kind) == {stream[k] : k \in Positions(stream, kind)}

\* The records of the kind, in their order.
Rank(stream, kind, k) == Cardinality({j \in Positions(stream, kind) : j <= k})
Position(stream, kind, n) ==
  CHOOSE k \in Positions(stream, kind) : Rank(stream, kind, k) = n
Records(stream, kind) ==
  [n \in 1 .. Cardinality(Positions(stream, kind)) |-> stream[Position(stream, kind, n)]]

Once(stream, kind) == \E k \in DOMAIN stream : Positions(stream, kind) = {k}

\* No two records of the kind agree on the fields.
Distinct(stream, kind, Fields(_)) ==
  \A j, k \in Positions(stream, kind) : Fields(stream[j]) = Fields(stream[k]) => j = k

Configuration == Head(manifest)

RecordValues ==
  [kind : {"configuration"}, backend : {"llvm", "other"},
   lto : {"off", "local-thin", "cross-crate-thin", "fat"},
   incremental : BOOLEAN, plugin : BOOLEAN, unsupported : Reasons \cup {"supported"}]
  \cup [kind : {"source"}, id : Nat, length : Nat]
  \cup [kind : {"module"}, unit : Units, suffix : Extensions]
  \cup [kind : {"placement"}, instance : Instances, unit : Units,
        source : {NoSource} \cup [artifact : Nat, end : Nat]]
  \cup {EndRecord, TornRecord}

-----------------------------------------------------------------------------
TypeOK ==
  /\ build \in Builds
  /\ placements \subseteq Units \X Instances
  /\ definitions \in [Instances -> Definitions]
  /\ reachable \subseteq Files
  /\ step \in {"configure", "observe", "units", "generate", "finish", "decode",
               "sources", "tool", "modules", "validate", "accepted", "refused"}
  /\ unit \in 0 .. UnitCount /\ item \in 0 .. InstanceCount
  /\ support \in Reasons \cup {"undecided", "supported"}
  /\ snapshots \in Seq(Files)
  /\ manifest \in Seq(RecordValues)
  /\ DOMAIN directory \subseteq Nat
  /\ \A id \in DOMAIN directory : directory[id] \in [text : Texts, length : Nat]
  /\ bitcode \subseteq Units \X Extensions
  /\ artifacts \in Seq([id : Nat, kind : {"source", "llvm"}, length : Nat])
  /\ modules \in Seq([artifact : Nat, unit : Units, stage : Stages])
  /\ nextId \in Nat
  /\ faults \in 0 .. MaxFaults

Init ==
  /\ build \in Builds
  /\ placements \in SUBSET (Units \X Instances)
  /\ definitions \in [Instances -> Definitions]
  /\ reachable = Files
  /\ step = "configure"
  /\ unit = 0 /\ item = 0
  /\ support = "undecided"
  /\ snapshots = <<>> /\ manifest = <<>> /\ directory = <<>> /\ bitcode = {}
  /\ artifacts = <<>> /\ modules = <<>> /\ nextId = 0
  /\ faults = 0

Fault == faults < MaxFaults /\ faults' = faults + 1

Goto(next) == step' = next /\ UNCHANGED <<inputVars, faults>>

-----------------------------------------------------------------------------
(* The driver.                                                             *)

\* Mutant of Unsupported: only the command line decides about LTO.
IgnoreTarget(b) ==
  {r \in Reasons :
     \/ r = "unverified" /\ ~b.verified
     \/ r = "backend" /\ b.backend # "llvm"
     \/ r = "incremental" /\ b.incremental
     \/ r = "plugin" /\ b.plugin
     \/ r = "fat" /\ b.cli = "fat"
     \/ r = "thin" /\ b.cli = "thin"}

\* What speaks against retaining bitcode before rustc's session exists.
Unsupported(b) ==
  {r \in Reasons :
     \/ r = "unverified" /\ ~b.verified
     \/ r = "backend" /\ b.backend # "llvm"
     \/ r = "incremental" /\ b.incremental
     \/ r = "plugin" /\ b.plugin
     \/ r = "fat" /\ (b.requiresLto \/ b.cli = "fat")
     \/ r = "thin" /\ b.cli = "thin"}

\* configure reports the first reason that applies, in this order.
Precedence == <<"unverified", "backend", "incremental", "plugin", "fat", "thin">>

Decision(b) ==
  IF Unsupported(b) = {} THEN "supported"
  ELSE Precedence[Min({k \in DOMAIN Precedence : Precedence[k] \in Unsupported(b)})]

\* Only a supported compilation gets a private directory and keeps its
\* temporary files.
Configure ==
  /\ step = "configure"
  /\ support' = Decision(build)
  /\ Goto("observe")
  /\ UNCHANGED <<reachable, unit, item, snapshots, manifest, bitcode, directory,
                 opticVars>>

\* Configuration::observed: the session must be what configure took it for.
Observed(b) ==
  support = "supported" =>
    b.initialized = "llvm" /\ SessionLto(b) \in {"off", "local-thin"}

WriteConfiguration ==
  /\ step = "observe"
  /\ IF Observed(build)
       THEN /\ manifest' = <<ConfigurationRecord(build, support)>>
            /\ Goto("units")
       ELSE Goto("refused") /\ UNCHANGED manifest
  /\ UNCHANGED <<reachable, unit, item, support, snapshots, bitcode, directory,
                 opticVars>>

\* The suffix under which the optimised bitcode of each unit will be found.
Extension(b) ==
  {suffix \in Extensions :
     /\ support = "supported"
     /\ \/ SessionLto(b) = "off" /\ suffix = "bc"
        \/ SessionLto(b) = "local-thin" /\ suffix = "thin-lto-after-pm.bc"}

Pending == {i \in Instances : i > item /\ <<unit, i>> \in placements}

\* Mutant of NextUnit: only units with functions have a module.
NextPlacedUnit ==
  /\ step = "units" /\ Pending = {} /\ unit < UnitCount
  /\ unit' = unit + 1
  /\ item' = 0
  /\ manifest' = manifest \o SetToSeq({ModuleRecord(unit', x) : x \in
       IF \E i \in Instances : <<unit', i>> \in placements
         THEN Extension(build) ELSE {}})
  /\ Goto("units")
  /\ UNCHANGED <<reachable, support, snapshots, bitcode, directory, opticVars>>

NextUnit ==
  /\ step = "units" /\ Pending = {} /\ unit < UnitCount
  /\ unit' = unit + 1
  /\ item' = 0
  /\ manifest' =
       manifest \o SetToSeq({ModuleRecord(unit', x) : x \in Extension(build)})
  /\ Goto("units")
  /\ UNCHANGED <<reachable, support, snapshots, bitcode, directory, opticVars>>

SnapshotId(s, f) == (CHOOSE k \in DOMAIN s : s[k] = f) - 1

\* Snapshots::capture has a source for whole local items of one loaded file
\* whose path is canonical at this moment.
Capturable(d) ==
  d # Nowhere /\ d.file \in reachable /\ d.end <= TextLength

\* capture_file writes and declares a file when it is first met.
Undeclared(d) == Capturable(d) /\ d.file \notin ToSet(snapshots)

With(files, id, file) ==
  [k \in DOMAIN files \cup {id} |-> IF k = id THEN file ELSE files[k]]

\* One iteration of write_function_placements.
WritePlacement ==
  /\ step = "units" /\ Pending # {}
  /\ item' = Min(Pending)
  /\ LET d == definitions[item']
         id == Len(snapshots)
         source == IF Capturable(d)
                     THEN [artifact |-> SnapshotId(snapshots', d.file), end |-> d.end]
                     ELSE NoSource
         placement == PlacementRecord(item', unit, source)
     IN  IF Undeclared(d)
           THEN /\ snapshots' = Append(snapshots, d.file)
                /\ directory' = With(directory, id, [text |-> d.file, length |-> TextLength])
                /\ manifest' =
                     Append(Append(manifest, SourceFileRecord(id, TextLength)), placement)
           ELSE /\ UNCHANGED <<snapshots, directory>>
                /\ manifest' = Append(manifest, placement)
  /\ Goto("units")
  /\ UNCHANGED <<reachable, unit, support, bitcode, opticVars>>

EndAnalysis ==
  /\ step = "units" /\ Pending = {} /\ unit = UnitCount
  /\ Goto("generate")
  /\ UNCHANGED <<driverVars, directory, opticVars>>

\* Where rustc leaves every unit's bitcode as its last optimisation made it.
Retained(b) ==
  Units \X CASE SessionLto(b) = "off" -> {"bc"}
             [] SessionLto(b) = "local-thin" -> {"thin-lto-after-pm.bc"}
             [] OTHER -> {}

\* rustc generates code.
Generate ==
  /\ step = "generate"
  /\ bitcode' = IF support = "supported" THEN Retained(build) ELSE {}
  /\ Goto("finish")
  /\ UNCHANGED <<reachable, unit, item, support, snapshots, manifest, directory,
                 opticVars>>

\* ManifestWriter::finish.
FinishManifest ==
  /\ step = "finish"
  /\ manifest' = Append(manifest, EndRecord)
  /\ Goto("decode")
  /\ UNCHANGED <<reachable, unit, item, support, snapshots, bitcode, directory,
                 opticVars>>

-----------------------------------------------------------------------------
(* Optic.                                                                  *)

\* Mutant of AgreeOnSource: only placements that have a source are compared.
AgreeWhereKnown(stream) ==
  \A p, q \in RecordSet(stream, "placement") :
    /\ p.instance = q.instance
    /\ p.source # NoSource /\ q.source # NoSource
    => p.source = q.source

\* The placements of one instance have one source relationship.
AgreeOnSource(stream) ==
  \A p, q \in RecordSet(stream, "placement") :
    p.instance = q.instance => p.source = q.source

\* What ManifestDecoder::read and assemble_instances accept.
Decodes(stream) ==
  /\ stream # <<>> /\ Head(stream).kind = "configuration"
  /\ Last(stream) = EndRecord
  /\ Once(stream, "configuration") /\ Once(stream, "end")
  /\ Distinct(stream, "source", LAMBDA r : r.id)
  /\ Head(stream).unsupported # "supported" => RecordSet(stream, "module") = {}
  /\ Distinct(stream, "module", LAMBDA r : r.unit)
  /\ Distinct(stream, "module", LAMBDA r : <<r.unit, r.suffix>>)
  /\ AgreeOnSource(stream)
  /\ Distinct(stream, "placement", LAMBDA r : <<r.instance, r.unit>>)

Read ==
  /\ step = "decode"
  /\ Goto(IF Decodes(manifest) THEN "sources" ELSE "refused")
  /\ UNCHANGED <<driverVars, directory, opticVars>>

SnapshotsAreWhole(records) ==
  \A r \in records : r.id \in DOMAIN directory /\ directory[r.id].length = r.length

\* The beginning of collect; an unsupported compilation has no modules.
CollectSources ==
  /\ step = "sources"
  /\ LET records == Records(manifest, "source")
     IN  IF SnapshotsAreWhole(ToSet(records))
           THEN /\ artifacts' = [k \in DOMAIN records |->
                     [id |-> records[k].id, kind |-> "source",
                      length |-> records[k].length]]
                /\ Goto(IF Configuration.unsupported = "supported"
                          THEN "tool" ELSE "validate")
           ELSE Goto("refused") /\ UNCHANGED artifacts
  /\ UNCHANGED <<driverVars, directory, modules, nextId>>

\* The id after the greatest one, or zero.
FreeId(records) ==
  IF records = <<>> THEN 0 ELSE Max({r.id : r \in ToSet(records)}) + 1

\* The stage of each effective LTO mode that has one.
Stage(lto) ==
  CASE lto = "off" -> "no-lto-optimized"
    [] lto = "local-thin" -> "local-thin-lto-post-pass-manager"
    [] OTHER -> "none"

\* collect_modules before its loop; a missing or different llvm-dis is an error
\* like any other.
PrepareModules ==
  /\ step = "tool"
  /\ IF /\ Configuration.backend = "llvm"
        /\ ~Configuration.incremental /\ ~Configuration.plugin
        /\ Stage(Configuration.lto) # "none"
       THEN nextId' = FreeId(artifacts) /\ Goto("modules")
       ELSE Goto("refused") /\ UNCHANGED nextId
  /\ UNCHANGED <<driverVars, directory, artifacts, modules>>

Expected == Records(manifest, "module")

\* The text that llvm-dis makes of a unit's bitcode.
Disassembly(r) ==
  [text |-> <<r.unit, IF r.suffix = "bc" THEN "no-lto-optimized"
                      ELSE "local-thin-lto-post-pass-manager">>,
   length |-> 1]

\* One iteration of collect_modules' loop.
CollectModule ==
  /\ step = "modules" /\ Len(modules) < Len(Expected)
  /\ LET r == Expected[Len(modules) + 1]
     IN  IF <<r.unit, r.suffix>> \in bitcode
           THEN /\ directory' = With(directory, nextId, Disassembly(r))
                /\ modules' = Append(modules,
                     [artifact |-> nextId, unit |-> r.unit,
                      stage |-> Stage(Configuration.lto)])
                /\ artifacts' = Append(artifacts,
                     [id |-> nextId, kind |-> "llvm", length |-> 1])
                /\ nextId' = nextId + 1
                /\ Goto("modules")
           ELSE Goto("refused") /\ UNCHANGED <<directory, opticVars>>
  /\ UNCHANGED driverVars

FinishModules ==
  /\ step = "modules" /\ Len(modules) = Len(Expected)
  /\ Goto("validate")
  /\ UNCHANGED <<driverVars, directory, opticVars>>

\* validate_artifact_range.
ValidRange(id, kind, end) ==
  \E a \in ToSet(artifacts) : a.id = id /\ a.kind = kind /\ end <= a.length

PlacementsHaveModules ==
  Configuration.unsupported = "supported" =>
    \A p \in RecordSet(manifest, "placement") :
      \E m \in ToSet(modules) : m.unit = p.unit

\* What InstanceManifest::new accepts.
ValidManifest ==
  /\ \A j, k \in DOMAIN artifacts : artifacts[j].id = artifacts[k].id => j = k
  /\ \A p \in RecordSet(manifest, "placement") :
       p.source # NoSource => ValidRange(p.source.artifact, "source", p.source.end)
  /\ Configuration.unsupported = "supported" =>
       /\ Configuration.backend = "llvm"
       /\ ~Configuration.incremental /\ ~Configuration.plugin
       /\ Configuration.lto \in {"off", "local-thin"}
  /\ \A j, k \in DOMAIN modules :
       modules[j].unit = modules[k].unit \/ modules[j].artifact = modules[k].artifact
       => j = k
  /\ \A m \in ToSet(modules) :
       m.stage = Stage(Configuration.lto) /\ ValidRange(m.artifact, "llvm", 0)
  /\ PlacementsHaveModules
  /\ \A a \in ToSet(artifacts) :
       a.kind = "llvm" => \E m \in ToSet(modules) : m.artifact = a.id

\* CollectedBuild::into_parts.
Validate ==
  /\ step = "validate"
  /\ Goto(IF ValidManifest THEN "accepted" ELSE "refused")
  /\ UNCHANGED <<driverVars, directory, opticVars>>

-----------------------------------------------------------------------------
(* What may go wrong.  Build scripts and other programs run while rustc    *)
(* does, and one may outlive it until Optic opens the manifest; from then  *)
(* on only Optic uses the directory.                                       *)

DriverRuns == step \in {"observe", "units", "generate", "finish"}

\* A file or an ancestor is moved away, or moved back.
MovePath(f) ==
  /\ DriverRuns /\ Fault
  /\ reachable' = IF f \in reachable THEN reachable \ {f} ELSE reachable \cup {f}
  /\ UNCHANGED <<inputVars, step, unit, item, support, snapshots, manifest, bitcode,
                 directory, opticVars>>

\* A snapshot is cut short or removed.
DamageSnapshot(id) ==
  /\ DriverRuns /\ Fault
  /\ id \in DOMAIN directory
  /\ directory' \in
       {[directory EXCEPT ![id].length = 0],
        [k \in DOMAIN directory \ {id} |-> directory[k]]}
  /\ UNCHANGED <<inputVars, step, driverVars, opticVars>>

\* Before Optic opens it, the manifest is cut, behind a record or within one, or
\* grows behind its end.
DamageManifest ==
  /\ step = "decode" /\ Fault
  /\ manifest' \in
       {SubSeq(manifest, 1, n) : n \in 0 .. Len(manifest) - 1}
       \cup {Append(SubSeq(manifest, 1, n), TornRecord) : n \in 0 .. Len(manifest)}
  /\ UNCHANGED <<inputVars, step, reachable, unit, item, support, snapshots, bitcode,
                 directory, opticVars>>

\* A bitcode file is emptied, removed, or was never written.
LoseBitcode(p) ==
  /\ step = "finish" /\ Fault
  /\ p \in bitcode
  /\ bitcode' = bitcode \ {p}
  /\ UNCHANGED <<inputVars, step, reachable, unit, item, support, snapshots,
                 manifest, directory, opticVars>>

\* An operation of the driver or of Optic fails.
Fail ==
  /\ step \notin {"accepted", "refused"} /\ Fault
  /\ step' = "refused"
  /\ UNCHANGED <<inputVars, driverVars, directory, opticVars>>

Terminated == step \in {"accepted", "refused"} /\ UNCHANGED vars

Next ==
  \/ Configure \/ WriteConfiguration \/ NextUnit \/ WritePlacement \/ EndAnalysis
  \/ Generate \/ FinishManifest
  \/ Read \/ CollectSources \/ PrepareModules \/ CollectModule \/ FinishModules
  \/ Validate
  \/ \E f \in Files : MovePath(f)
  \/ \E id \in Ids : DamageSnapshot(id)
  \/ \E p \in Units \X Extensions : LoseBitcode(p)
  \/ DamageManifest
  \/ Fail
  \/ Terminated

Spec == Init /\ [][Next]_vars

-----------------------------------------------------------------------------
Accepted == step = "accepted"

\* An accepted collection records exactly the placements that rustc made, and
\* the source of an instance, where it has one, is the definition's own range
\* of the text that rustc loaded, whole on disk, whatever was written to the
\* directory between the snapshot and the last module.  All placements of an
\* instance agree on it, although each of them was captured on its own.
AcceptedSourcesAreExact ==
  Accepted =>
    /\ placements = {<<p.unit, p.instance>> : p \in RecordSet(manifest, "placement")}
    /\ \A p \in RecordSet(manifest, "placement") : p.source # NoSource =>
         LET d == definitions[p.instance]
         IN  /\ p.source.end = d.end
             /\ p.source.artifact \in DOMAIN directory
             /\ directory[p.source.artifact] = [text |-> d.file, length |-> TextLength]
    /\ \A p, q \in RecordSet(manifest, "placement") :
         p.instance = q.instance => p.source = q.source

\* An accepted collection of a supported compilation has the text of every
\* codegen unit, of the stage that its record claims; any other has none.
AcceptedModulesAreExact ==
  Accepted =>
    LET final == IF SessionLto(build) = "off" THEN "no-lto-optimized"
                 ELSE "local-thin-lto-post-pass-manager"
    IN  /\ {m.unit : m \in ToSet(modules)} =
             IF Unsupported(build) = {} THEN Units ELSE {}
        /\ \A m \in ToSet(modules) :
             /\ m.stage = final
             /\ directory[m.artifact].text = <<m.unit, final>>

\* Decoding, collection and validation refuse nothing that the driver writes
\* for a compilation undisturbed from outside: the stages' separate rules for
\* supported compilations, identities and ranges agree with each other.
OnlyFaultsRefuse == step = "refused" => faults > 0
=============================================================================

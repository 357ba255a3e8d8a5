------------------------ MODULE StoreInitialization ------------------------
(***************************************************************************)
(* Store::initialize: what .optic holds before Cargo first looks at the    *)
(* package.  Every step is one file system call, so a call may die between *)
(* any two, and calls may overlap although their callers are asked to      *)
(* serialise them.                                                         *)
(*                                                                         *)
(* The hard case is the ignore file.  It is created and then written, and  *)
(* a later call accepts exactly the written contents; it never repairs or  *)
(* replaces anything else.                                                 *)
(***************************************************************************)
EXTENDS Naturals, Sequences

CONSTANTS
  Callers,        \* processes that call initialize
  MaxInterrupts   \* bound: failed file system calls and crashes

ASSUME InterruptsAssumption == MaxInterrupts \in Nat

VARIABLES
  ignore,         \* .optic/.gitignore
  directories,    \* which of the directories exist
  pc,             \* the next step of each call
  next,           \* the index in Chain of the directory it is at
  outcome,        \* how its last call ended
  interrupts      \* what MaxInterrupts bounds

setupVars == <<ignore, directories, pc, next, outcome, interrupts>>

\* The directories in the order of their creation; .optic comes first, then
\* the ignore file, then the rest.
Chain == <<"optic", "store", "staging", "captures", "candidates">>
Names == {Chain[i] : i \in 1 .. Len(Chain)}

\* An ignore file is absent, created but empty, "*\n", or something else.
IgnoreStates == {"absent", "empty", "valid", "foreign"}

Steps == {"idle", "exists", "create", "inspect", "open", "write"}

SetupTypeOK ==
  /\ ignore \in IgnoreStates
  /\ directories \subseteq Names
  /\ pc \in [Callers -> Steps]
  /\ next \in [Callers -> 1 .. Len(Chain)]
  /\ outcome \in [Callers -> {"none", "ok", "conflict", "failed"}]
  /\ interrupts \in 0 .. MaxInterrupts

\* A workspace without .optic, or one whose owner wrote an ignore file there.
SetupInit ==
  /\ \/ ignore = "absent" /\ directories = {}
     \/ ignore \in {"valid", "foreign"} /\ directories = {"optic"}
  /\ pc = [p \in Callers |-> "idle"]
  /\ next = [p \in Callers |-> 1]
  /\ outcome = [p \in Callers |-> "none"]
  /\ interrupts = 0

-----------------------------------------------------------------------------
MoveTo(p, step) == pc' = [pc EXCEPT ![p] = step] /\ UNCHANGED <<next, outcome>>

EndSetup(p, how) ==
  /\ pc' = [pc EXCEPT ![p] = "idle"]
  /\ next' = [next EXCEPT ![p] = 1]
  /\ outcome' = [outcome EXCEPT ![p] = how]

\* After a directory comes the next one; after .optic the ignore file.
Advance(p) ==
  IF next[p] = Len(Chain)
    THEN EndSetup(p, "ok")
    ELSE /\ pc' = [pc EXCEPT ![p] = IF next[p] = 1 THEN "inspect" ELSE "exists"]
         /\ next' = [next EXCEPT ![p] = @ + 1]
         /\ UNCHANGED outcome

Begin(p) ==
  /\ pc[p] = "idle"
  /\ pc' = [pc EXCEPT ![p] = "exists"]
  /\ outcome' = [outcome EXCEPT ![p] = "none"]
  /\ UNCHANGED <<ignore, directories, next, interrupts>>

\* Mutant of DirectoryExists: create_dir without the look before it.
DirectoryUnseen(p) ==
  /\ pc[p] = "exists"
  /\ MoveTo(p, "create")
  /\ UNCHANGED <<ignore, directories, interrupts>>

\* create_directory looks first, and creates what it does not find.
DirectoryExists(p) ==
  /\ pc[p] = "exists"
  /\ IF Chain[next[p]] \in directories THEN Advance(p) ELSE MoveTo(p, "create")
  /\ UNCHANGED <<ignore, directories, interrupts>>

\* create_dir fails if another call has created it since.
CreateDirectory(p) ==
  /\ pc[p] = "create"
  /\ IF Chain[next[p]] \in directories
       THEN EndSetup(p, "failed") /\ UNCHANGED directories
       ELSE /\ directories' = directories \cup {Chain[next[p]]}
            /\ Advance(p)
  /\ UNCHANGED <<ignore, interrupts>>

\* Mutant of InspectIgnore: contents that differ are taken for a torn write.
InspectAndRewrite(p) ==
  /\ pc[p] = "inspect"
  /\ MoveTo(p, CASE ignore = "absent" -> "open"
               [] ignore = "valid" -> "exists"
               [] OTHER -> "write")
  /\ UNCHANGED <<ignore, directories, interrupts>>

\* The metadata and contents of the ignore file.
InspectIgnore(p) ==
  /\ pc[p] = "inspect"
  /\ \/ ignore = "absent" /\ MoveTo(p, "open")
     \/ ignore = "valid" /\ MoveTo(p, "exists")
     \/ ignore \in {"empty", "foreign"} /\ EndSetup(p, "conflict")
  /\ UNCHANGED <<ignore, directories, interrupts>>

\* Mutant of OpenIgnore: the call goes on with what another has opened.
OpenExisting(p) ==
  /\ pc[p] = "open"
  /\ ignore' = IF ignore = "absent" THEN "empty" ELSE ignore
  /\ MoveTo(p, IF ignore = "absent" THEN "write" ELSE "exists")
  /\ UNCHANGED <<directories, interrupts>>

\* create_new fails if another call has created the file since.
OpenIgnore(p) ==
  /\ pc[p] = "open"
  /\ IF ignore = "absent"
       THEN ignore' = "empty" /\ MoveTo(p, "write")
       ELSE EndSetup(p, "failed") /\ UNCHANGED ignore
  /\ UNCHANGED <<directories, interrupts>>

WriteIgnore(p) ==
  /\ pc[p] = "write"
  /\ ignore' = "valid"
  /\ MoveTo(p, "exists")
  /\ UNCHANGED <<directories, interrupts>>

\* The next file system call fails, or the process dies before it.
InterruptSetup(p) ==
  /\ pc[p] # "idle"
  /\ interrupts < MaxInterrupts
  /\ interrupts' = interrupts + 1
  /\ EndSetup(p, "failed")
  /\ UNCHANGED <<ignore, directories>>

Step(p) ==
  \/ DirectoryExists(p) \/ CreateDirectory(p) \/ InspectIgnore(p)
  \/ OpenIgnore(p) \/ WriteIgnore(p)

SetupNext == \E p \in Callers : Begin(p) \/ Step(p) \/ InterruptSetup(p)

SetupSpec == SetupInit /\ [][SetupNext]_setupVars

\* File system calls return, and clients try again.
FairSetupSpec ==
  SetupSpec /\ \A p \in Callers : WF_setupVars(Step(p)) /\ WF_setupVars(Begin(p))

-----------------------------------------------------------------------------
\* Nothing of the store exists before the ignore file is complete, so a
\* package scan never takes store contents for package contents, and a call
\* that succeeded left all of it (initialize.rs, module comment).
IgnoredBeforeUse ==
  /\ "store" \in directories => ignore = "valid"
  /\ \A p \in Callers : outcome[p] = "ok" =>
       ignore = "valid" /\ directories = Names

\* "Different existing ignore contents remain unchanged", an empty file that
\* no call is about to write included (Store::initialize).
Unwritten == ignore = "empty" /\ \A p \in Callers : pc[p] # "write"

ConflictsRemain ==
  [][ignore = "foreign" \/ Unwritten => ignore' = ignore]_setupVars

\* Whatever interrupted earlier calls, trying again succeeds, unless the
\* ignore file stays in conflict.
InitializationResumes ==
  \A p \in Callers :
    <>(outcome[p] = "ok") \/ <>[](ignore = "foreign" \/ Unwritten)
=============================================================================

----------------------------- MODULE DriverCache -----------------------------
(***************************************************************************)
(* RustcDriver::provision: the cache of compiled drivers below Cargo home, *)
(* one entry for each driver key.  An entry is built in a temporary        *)
(* directory of its own, validated there, and renamed into place.          *)
(*                                                                         *)
(* The documented contract is one provisioner at a time in a Cargo home;   *)
(* the command line takes no lock, so provisioners may overlap here.  A    *)
(* provisioner may fail at any system call, when its temporary directory   *)
(* is removed, or die, when it stays.  Someone outside Optic may damage or *)
(* remove an entry.                                                        *)
(***************************************************************************)
EXTENDS Naturals

CONSTANTS
  Callers,      \* processes that provision a driver
  Keys,         \* driver keys: compiler, recipe and protocol
  Absent,       \* no such directory or file
  MaxFaults     \* bound: failures, and outside changes of an entry

VARIABLES
  entries,      \* optic/drivers/<key>
  temporary,    \* the temporary directory each caller is building in
  pc,           \* the next step of each call
  key,          \* the driver key it provisions
  result,       \* how its last call ended
  faults,       \* what MaxFaults bounds
  touched       \* history: entries that were changed from outside

vars == <<entries, temporary, pc, key, result, faults, touched>>

\* What is in a directory; the executable reports the key it was built with.
Directories ==
  [sources : BOOLEAN, executable : Keys \cup {Absent}, identity : Keys \cup {Absent}]

Steps == {"idle", "inspect", "validate", "create", "sources", "build",
          "identity", "check", "publish"}

\* The steps at which a caller owns a temporary directory.
Building == {"sources", "build", "identity", "check", "publish"}

ASSUME CacheAssumption ==
  Absent \notin Keys /\ Absent \notin Directories /\ MaxFaults \in Nat

TypeOK ==
  /\ entries \in [Keys -> Directories \cup {Absent}]
  /\ temporary \in [Callers -> Directories \cup {Absent}]
  /\ pc \in [Callers -> Steps]
  /\ key \in [Callers -> Keys]
  /\ result \in [Callers -> {"none", "hit", "built", "invalid", "failed", "crashed"}]
  /\ faults \in 0 .. MaxFaults
  /\ touched \subseteq Keys
  /\ \A p \in Callers : (temporary[p] # Absent) = (pc[p] \in Building)

Empty == [sources |-> FALSE, executable |-> Absent, identity |-> Absent]

Init ==
  /\ entries = [k \in Keys |-> Absent]
  /\ temporary = [p \in Callers |-> Absent]
  /\ pc = [p \in Callers |-> "idle"]
  /\ key \in [Callers -> Keys]
  /\ result = [p \in Callers |-> "none"]
  /\ faults = 0
  /\ touched = {}

-----------------------------------------------------------------------------
Fault == faults < MaxFaults /\ faults' = faults + 1

Goto(p, step) == pc' = [pc EXCEPT ![p] = step]

\* Mutant of Return: the temporary directory is kept for inspection.
ReturnKeeping(p, how) ==
  /\ Goto(p, "idle")
  /\ result' = [result EXCEPT ![p] = how]
  /\ UNCHANGED <<temporary, key>>

\* The call of p ends.  TempDir's drop removes the directory it still owns.
Return(p, how) ==
  /\ Goto(p, "idle")
  /\ result' = [result EXCEPT ![p] = how]
  /\ temporary' = [temporary EXCEPT ![p] = Absent]
  /\ UNCHANGED key

\* One of p's own directories changes and p goes on.
Build(p, directory, step) ==
  /\ temporary' = [temporary EXCEPT ![p] = directory]
  /\ Goto(p, step)
  /\ UNCHANGED <<entries, key, result, faults, touched>>

\* validate_entry: the identity file and the running executable both name k.
Valid(directory, k) == directory.identity = k /\ directory.executable = k

Invalid(k) == entries[k] # Absent /\ ~Valid(entries[k], k)

\* driver_key and create_dir_all of the cache root.
Provision(p, k) ==
  /\ pc[p] = "idle"
  /\ key' = [key EXCEPT ![p] = k]
  /\ result' = [result EXCEPT ![p] = "none"]
  /\ Goto(p, "inspect")
  /\ UNCHANGED <<entries, temporary, faults, touched>>

\* symlink_metadata of the entry.
Inspect(p) ==
  /\ pc[p] = "inspect"
  /\ Goto(p, IF entries[key[p]] = Absent THEN "create" ELSE "validate")
  /\ UNCHANGED <<entries, temporary, key, result, faults, touched>>

\* Mutant of ValidateEntry: an invalid entry is a miss and is built again.
RebuildInvalid(p) ==
  /\ pc[p] = "validate"
  /\ IF entries[key[p]] # Absent /\ Valid(entries[key[p]], key[p])
       THEN Return(p, "hit") /\ UNCHANGED entries
       ELSE /\ entries' = [entries EXCEPT ![key[p]] = Absent]
            /\ Goto(p, "create")
            /\ UNCHANGED <<temporary, key, result>>
  /\ UNCHANGED <<faults, touched>>

\* A present entry is valid, or an error.
ValidateEntry(p) ==
  /\ pc[p] = "validate"
  /\ Return(p, IF /\ entries[key[p]] # Absent
                  /\ Valid(entries[key[p]], key[p])
               THEN "hit" ELSE "invalid")
  /\ UNCHANGED <<entries, faults, touched>>

\* tempdir_in picks a name that nothing else has.
CreateTemporary(p) == pc[p] = "create" /\ Build(p, Empty, "sources")

WriteSources(p) ==
  pc[p] = "sources" /\ Build(p, [temporary[p] EXCEPT !.sources = TRUE], "build")

\* build_driver compiles the key into the executable.
BuildDriver(p) ==
  /\ pc[p] = "build"
  /\ Build(p, [temporary[p] EXCEPT !.executable = key[p]], "identity")

WriteIdentity(p) ==
  /\ pc[p] = "identity"
  /\ Build(p, [temporary[p] EXCEPT !.identity = key[p]], "check")

\* validate_entry of the temporary directory.
ValidateTemporary(p) ==
  /\ pc[p] = "check"
  /\ Valid(temporary[p], key[p])
  /\ Build(p, temporary[p], "publish")

\* Mutant of Publish: the name is taken before the directory is filled.
PublishEmpty(p) ==
  /\ pc[p] = "publish"
  /\ IF entries[key[p]] = Absent
       THEN /\ entries' = [entries EXCEPT ![key[p]] = Empty]
            /\ UNCHANGED <<pc, key, result, temporary, touched>>
       ELSE /\ entries' = [entries EXCEPT ![key[p]] = temporary[p]]
            /\ Return(p, "built")
            /\ UNCHANGED touched
  /\ UNCHANGED <<faults>>

\* rename fails if another caller has published a (nonempty) entry since.
Publish(p) ==
  /\ pc[p] = "publish"
  /\ IF entries[key[p]] = Absent
       THEN /\ entries' = [entries EXCEPT ![key[p]] = temporary[p]]
            /\ Return(p, "built")
       ELSE Return(p, "failed") /\ UNCHANGED entries
  /\ UNCHANGED <<faults, touched>>

\* A system call or the compiler fails, and the call returns an error.
Fail(p) ==
  /\ pc[p] # "idle"
  /\ Fault
  /\ Return(p, "failed")
  /\ UNCHANGED <<entries, touched>>

\* The process dies.  The temporary directory stays, under a name that no
\* later call picks.
Crash(p) ==
  /\ pc[p] # "idle"
  /\ Fault
  /\ Return(p, "crashed")
  /\ UNCHANGED <<entries, touched>>

\* Someone removes a file of an entry, or a library its executable needs.
Damage(k) ==
  /\ Fault
  /\ entries[k] # Absent
  /\ \/ entries' = [entries EXCEPT ![k].identity = Absent]
     \/ entries' = [entries EXCEPT ![k].executable = Absent]
  /\ touched' = touched \cup {k}
  /\ UNCHANGED <<temporary, pc, key, result>>

\* Someone removes the whole of an entry that is refused.
RemoveEntry(k) ==
  /\ Invalid(k)
  /\ entries' = [entries EXCEPT ![k] = Absent]
  /\ touched' = touched \cup {k}
  /\ UNCHANGED <<temporary, pc, key, result, faults>>

Step(p) ==
  \/ Inspect(p) \/ ValidateEntry(p) \/ CreateTemporary(p) \/ WriteSources(p)
  \/ BuildDriver(p) \/ WriteIdentity(p) \/ ValidateTemporary(p) \/ Publish(p)

Next ==
  \/ \E p \in Callers :
       Step(p) \/ Fail(p) \/ Crash(p) \/ \E k \in Keys : Provision(p, k)
  \/ \E k \in Keys : Damage(k) \/ RemoveEntry(k)

Spec == Init /\ [][Next]_vars

\* System calls and the compiler return, and callers keep asking for every
\* key.  Nothing forces a fault, or the removal of a damaged entry.
FairSpec ==
  /\ Spec
  /\ \A p \in Callers : WF_vars(Step(p))
  /\ \A p \in Callers, k \in Keys : SF_vars(Provision(p, k))

-----------------------------------------------------------------------------
\* Whoever fails, dies or loses a race: an entry that Optic published is whole
\* and of its own key, unless someone outside has changed it.  Cargo runs it as
\* its compiler wrapper from the path under which it was published.
EntriesAreWhole ==
  \A k \in Keys : entries[k] # Absent /\ k \notin touched =>
    entries[k] = [sources |-> TRUE, executable |-> k, identity |-> k]

\* No step of a caller changes or removes an entry, valid or not: builds that
\* are running under it keep their wrapper ("a present invalid entry is an
\* error, not a cache miss", driver.rs).
EntriesStay ==
  [][pc' # pc => \A k \in Keys : entries[k] # Absent => entries'[k] = entries[k]]_vars

\* No failure, crash or race spoils the cache: every key is answered again and
\* again, unless someone damaged its entry and nobody removes that.
ProvisioningResumes ==
  \A k \in Keys :
    \/ []<>(\E p \in Callers : key[p] = k /\ result[p] = "hit")
    \/ <>[]Invalid(k)
=============================================================================

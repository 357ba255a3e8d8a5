-------------------------- MODULE StorePublication --------------------------
(***************************************************************************)
(* Publication of captures into the store and the reads that run beside    *)
(* it: Store::publish, read_candidate, read_instances and list_captures of *)
(* cargo-optic-store.                                                      *)
(*                                                                         *)
(* The state is the file system below .optic/store, one map for each       *)
(* namespace, and the program counter of every caller.  A step is one file *)
(* system call that another process can observe.  A publisher may fail or  *)
(* die at any of its steps, and leaves behind what it wrote so far.        *)
(*                                                                         *)
(* The store is already initialised (StoreInitialization models that), so  *)
(* the initialisation publish repeats changes nothing here.  The           *)
(* documented contract is one publisher at a time; Publishers may hold     *)
(* more, which is how the command line can be used, and the properties say *)
(* which of them need the contract.                                        *)
(***************************************************************************)
CONSTANTS
  Publishers,  \* callers of Store::publish
  Readers,     \* callers of the reading operations
  Ids,         \* capture identities
  Keys,        \* request keys
  Tokens,      \* analysis tokens
  Artifacts,   \* the artifacts every manifest declares
  Absent,      \* no such file, directory or pointer
  Torn         \* a file created but not completely written

VARIABLES
  staging,     \* .optic/store/staging
  captures,    \* .optic/store/captures, the completed namespace
  candidates,  \* .optic/store/candidates
  ppc,         \* the next step of each publisher
  work,        \* the capture record each publisher publishes
  scope,       \* the capture identity in the manifest it publishes
  result,      \* how its last call ended
  before,      \* history: what its last call found when it began
  rpc,         \* the next step of each reader
  goal,        \* the capture directory it reads
  pointer,     \* the pointer that led it there, if one did
  unlisted,    \* entries its listing must still return
  listed,      \* entries its listing has returned
  answer       \* how its last call ended

storeVars == <<staging, captures, candidates>>
publisherVars == <<ppc, work, scope, result, before>>
readerVars == <<rpc, goal, pointer, unlisted, listed, answer>>
vars == <<storeVars, publisherVars, readerVars>>

Captures == [id : Ids, key : Keys, token : Tokens]

Directories ==
  [header    : Captures \cup {Absent, Torn},
   instances : Ids \cup {Absent, Torn},
   artifacts : SUBSET Artifacts,
   pointer   : Captures \cup {Absent, Torn}]

PublisherSteps ==
  {"idle", "check", "stage", "header", "instances", "artifacts", "pointer",
   "replace", "commit"}

ReaderSteps == {"idle", "pointer", "directory", "header", "evidence", "entries"}

ASSUME StoreAssumption ==
  /\ Absent # Torn
  /\ {Absent, Torn} \cap (Captures \cup Ids) = {}
  /\ Absent \notin Directories

StoreTypeOK ==
  /\ staging \in [Ids -> Directories \cup {Absent}]
  /\ captures \in [Ids -> Directories \cup {Absent}]
  /\ candidates \in [Keys -> Captures \cup {Absent}]

PublishersTypeOK ==
  /\ ppc \in [Publishers -> PublisherSteps]
  /\ work \in [Publishers -> Captures \cup {Absent}]
  /\ scope \in [Publishers -> Ids \cup {Absent}]
  /\ result \in [Publishers -> {"none", "published", "failed", "crashed"}]
  /\ before \in [Publishers -> [visible : BOOLEAN,
                                candidate : Captures \cup {Absent}]]
  /\ \A p \in Publishers : ppc[p] # "idle" =>
       work[p] \in Captures /\ scope[p] \in Ids

ReadersTypeOK ==
  /\ rpc \in [Readers -> ReaderSteps]
  /\ goal \in [Readers -> Ids \cup {Absent}]
  /\ pointer \in [Readers -> Captures \cup {Absent}]
  /\ unlisted \in [Readers -> SUBSET Ids]
  /\ listed \in [Readers -> SUBSET Ids]
  /\ answer \in [Readers -> {"none", "miss", "error", "evidence", "list"}]
  /\ \A r \in Readers : rpc[r] \in {"directory", "header", "evidence"} =>
       goal[r] \in Ids

TypeOK == StoreTypeOK /\ PublishersTypeOK /\ ReadersTypeOK

NewDirectory ==
  [header |-> Absent, instances |-> Absent, artifacts |-> {}, pointer |-> Absent]

Init ==
  /\ staging = [i \in Ids |-> Absent]
  /\ captures = [i \in Ids |-> Absent]
  /\ candidates = [k \in Keys |-> Absent]
  /\ ppc = [p \in Publishers |-> "idle"]
  /\ work = [p \in Publishers |-> Absent]
  /\ scope = [p \in Publishers |-> Absent]
  /\ result = [p \in Publishers |-> "none"]
  /\ before = [p \in Publishers |-> [visible |-> FALSE, candidate |-> Absent]]
  /\ rpc = [r \in Readers |-> "idle"]
  /\ goal = [r \in Readers |-> Absent]
  /\ pointer = [r \in Readers |-> Absent]
  /\ unlisted = [r \in Readers |-> {}]
  /\ listed = [r \in Readers |-> {}]
  /\ answer = [r \in Readers |-> "none"]

-----------------------------------------------------------------------------
(* Publishers.                                                             *)

\* The staging directory of the capture that p publishes.
Staged(p) == staging[work[p].id]

At(p, step) == ppc[p] = step

Goto(p, step) ==
  /\ ppc' = [ppc EXCEPT ![p] = step]
  /\ UNCHANGED <<work, scope, result, before, readerVars>>

\* The call of p returns; `how' says with what.
Return(p, how) ==
  /\ ppc' = [ppc EXCEPT ![p] = "idle"]
  /\ result' = [result EXCEPT ![p] = how]
  /\ UNCHANGED <<work, scope, before, readerVars>>

\* Mutant of Publish: the manifest's identity is not compared.
PublishUnscoped(p) == \E c \in Captures, m \in Ids :
  /\ At(p, "idle")
  /\ \A q \in Publishers : ~At(q, "idle") => work[q].id # c.id
  /\ work' = [work EXCEPT ![p] = c]
  /\ scope' = [scope EXCEPT ![p] = m]
  /\ ppc' = [ppc EXCEPT ![p] = "check"]
  /\ result' = [result EXCEPT ![p] = "none"]
  /\ UNCHANGED <<storeVars, readerVars, before>>

\* publish is called with a record and a manifest that must be of one capture.
\* Identities come from CaptureId::generate, so no two calls under way share
\* one; a later call may repeat one, and may pair it with another key or token.
Publish(p) == \E c \in Captures, m \in Ids :
  /\ At(p, "idle")
  /\ \A q \in Publishers : ~At(q, "idle") => work[q].id # c.id
  /\ work' = [work EXCEPT ![p] = c]
  /\ scope' = [scope EXCEPT ![p] = m]
  /\ before' = [before EXCEPT ![p] = [visible   |-> captures[c.id] # Absent,
                                      candidate |-> candidates[c.key]]]
  /\ IF m = c.id
       THEN /\ ppc' = [ppc EXCEPT ![p] = "check"]
            /\ result' = [result EXCEPT ![p] = "none"]
       ELSE /\ result' = [result EXCEPT ![p] = "failed"]
            /\ UNCHANGED ppc
  /\ UNCHANGED <<storeVars, readerVars>>

\* Mutant of CheckCompleted: the final rename is trusted to refuse instead.
CheckNothing(p) == At(p, "check") /\ Goto(p, "stage") /\ UNCHANGED storeVars

\* symlink_metadata of the completed directory must find nothing.
CheckCompleted(p) ==
  /\ At(p, "check")
  /\ IF captures[work[p].id] = Absent
       THEN Goto(p, "stage")
       ELSE Return(p, "failed")
  /\ UNCHANGED storeVars

\* Mutant of CreateStaging: create_dir_all, which accepts what is there.
CreateStagingIfMissing(p) ==
  /\ At(p, "stage")
  /\ staging' = [staging EXCEPT ![work[p].id] =
                   IF @ = Absent THEN NewDirectory ELSE @]
  /\ Goto(p, "header")
  /\ UNCHANGED <<captures, candidates>>

\* create_dir fails if the directory exists, left there by an earlier call.
CreateStaging(p) ==
  /\ At(p, "stage")
  /\ IF Staged(p) = Absent
       THEN /\ staging' = [staging EXCEPT ![work[p].id] = NewDirectory]
            /\ Goto(p, "header")
       ELSE /\ Return(p, "failed")
            /\ UNCHANGED staging
  /\ UNCHANGED <<captures, candidates>>

\* write_record of capture.json.
WriteHeader(p) ==
  /\ At(p, "header")
  /\ staging' = [staging EXCEPT ![work[p].id].header = work[p]]
  /\ Goto(p, "instances")
  /\ UNCHANGED <<captures, candidates>>

\* write_record of instances.json, which carries the manifest's own identity.
WriteInstances(p) ==
  /\ At(p, "instances")
  /\ staging' = [staging EXCEPT ![work[p].id].instances = scope[p]]
  /\ Goto(p, "artifacts")
  /\ UNCHANGED <<captures, candidates>>

\* One turn of copy_artifacts' loop.
CopyArtifact(p) ==
  /\ At(p, "artifacts")
  /\ \E a \in Artifacts \ Staged(p).artifacts :
       staging' = [staging EXCEPT ![work[p].id].artifacts = @ \cup {a}]
  /\ UNCHANGED <<captures, candidates, publisherVars, readerVars>>

\* Mutant of ValidateCopies: the copies are not validated.
TrustCopies(p) ==
  At(p, "artifacts") /\ Goto(p, "pointer") /\ UNCHANGED storeVars

\* validate_artifacts(staging) at the end of copy_artifacts.
ValidateCopies(p) ==
  /\ At(p, "artifacts")
  /\ Staged(p).artifacts = Artifacts
  /\ Goto(p, "pointer")
  /\ UNCHANGED storeVars

\* write_record of the staged candidate.json.
WritePointer(p) ==
  /\ At(p, "pointer")
  /\ staging' = [staging EXCEPT ![work[p].id].pointer = work[p]]
  /\ Goto(p, "replace")
  /\ UNCHANGED <<captures, candidates>>

\* Mutant of ReplacePointer: the pointer is rewritten in place.
RewritePointer(p) == \E written \in {Torn, work[p]} :
  /\ At(p, "replace")
  /\ candidates' = [candidates EXCEPT ![work[p].key] = written]
  /\ Goto(p, "commit")
  /\ UNCHANGED <<captures, staging>>

\* rename(staged candidate.json, candidates/<key>.json).
ReplacePointer(p) ==
  /\ At(p, "replace")
  /\ candidates' = [candidates EXCEPT ![work[p].key] = Staged(p).pointer]
  /\ staging' = [staging EXCEPT ![work[p].id].pointer = Absent]
  /\ Goto(p, "commit")
  /\ UNCHANGED captures

\* Mutant of CommitCapture: a fallible update follows the commit.
CommitThenUpdate(p) == \E how \in {"published", "failed"} :
  /\ At(p, "commit")
  /\ captures' = [captures EXCEPT ![work[p].id] = Staged(p)]
  /\ staging' = [staging EXCEPT ![work[p].id] = Absent]
  /\ Return(p, how)
  /\ UNCHANGED candidates

\* rename(staging directory, completed directory), refused if that is occupied.
CommitCapture(p) ==
  /\ At(p, "commit")
  /\ IF captures[work[p].id] = Absent
       THEN /\ captures' = [captures EXCEPT ![work[p].id] = Staged(p)]
            /\ staging' = [staging EXCEPT ![work[p].id] = Absent]
            /\ Return(p, "published")
       ELSE /\ Return(p, "failed")
            /\ UNCHANGED <<captures, staging>>
  /\ UNCHANGED candidates

\* What the failure of a record write can leave behind.
TornFile(p) ==
  \/ /\ At(p, "header")
     /\ staging' = [staging EXCEPT ![work[p].id].header = Torn]
  \/ /\ At(p, "instances")
     /\ staging' = [staging EXCEPT ![work[p].id].instances = Torn]
  \/ /\ At(p, "pointer")
     /\ staging' = [staging EXCEPT ![work[p].id].pointer = Torn]

\* The next call of p to the file system fails, or its process dies.
Interrupt(p) == \E how \in {"failed", "crashed"} :
  /\ ~At(p, "idle")
  /\ TornFile(p) \/ UNCHANGED staging
  /\ Return(p, how)
  /\ UNCHANGED <<captures, candidates>>

PublisherStep(p) ==
  \/ Publish(p) \/ CheckCompleted(p) \/ CreateStaging(p) \/ WriteHeader(p)
  \/ WriteInstances(p) \/ CopyArtifact(p) \/ ValidateCopies(p)
  \/ WritePointer(p) \/ ReplacePointer(p) \/ CommitCapture(p) \/ Interrupt(p)

-----------------------------------------------------------------------------
(* Readers.                                                                *)

Proceed(r, step) ==
  /\ rpc' = [rpc EXCEPT ![r] = step]
  /\ UNCHANGED <<answer, unlisted, listed>>

\* The call of r returns, and its local state goes with it.
Answer(r, what) ==
  /\ rpc' = [rpc EXCEPT ![r] = "idle"]
  /\ answer' = [answer EXCEPT ![r] = what]
  /\ goal' = [goal EXCEPT ![r] = Absent]
  /\ pointer' = [pointer EXCEPT ![r] = Absent]
  /\ unlisted' = [unlisted EXCEPT ![r] = {}]
  /\ listed' = [listed EXCEPT ![r] = {}]

\* The header and the presence check that every read of a directory makes.
HeaderValid(i) == captures[i].header \in Captures /\ captures[i].header.id = i
InstancesPresent(i) == captures[i].instances # Absent

\* The manifest and artifact validation of an evidence read.
EvidenceValid(i) ==
  captures[i].instances = i /\ captures[i].artifacts = Artifacts

\* read_candidate(k) reads the pointer file of its key.
ReadPointer(r) == \E k \in Keys :
  /\ rpc[r] = "idle"
  /\ IF candidates[k] = Absent \/ candidates[k].key # k
       THEN Answer(r, IF candidates[k] = Absent THEN "miss" ELSE "error")
       ELSE /\ pointer' = [pointer EXCEPT ![r] = candidates[k]]
            /\ goal' = [goal EXCEPT ![r] = candidates[k].id]
            /\ Proceed(r, "directory")
  /\ UNCHANGED <<storeVars, publisherVars>>

\* read_instances(i), with no pointer to agree with.
ReadInstances(r) == \E i \in Ids :
  /\ rpc[r] = "idle"
  /\ goal' = [goal EXCEPT ![r] = i]
  /\ Proceed(r, "directory")
  /\ UNCHANGED <<storeVars, publisherVars, pointer>>

\* capture_directory: an absent directory is CaptureNotFound, a miss.
OpenDirectory(r) ==
  /\ rpc[r] = "directory"
  /\ IF captures[goal[r]] = Absent
       THEN Answer(r, "miss")
       ELSE Proceed(r, "header") /\ UNCHANGED <<goal, pointer>>
  /\ UNCHANGED <<storeVars, publisherVars>>

\* The header must be of this directory and agree with the pointer.
ReadHeader(r) ==
  LET header == captures[goal[r]].header IN
  /\ rpc[r] = "header"
  /\ IF /\ HeaderValid(goal[r])
        /\ pointer[r] # Absent =>
             header.key = pointer[r].key /\ header.token = pointer[r].token
       THEN Proceed(r, "evidence") /\ UNCHANGED <<goal, pointer>>
       ELSE Answer(r, "error")
  /\ UNCHANGED <<storeVars, publisherVars>>

ReadEvidence(r) ==
  /\ rpc[r] = "evidence"
  /\ Answer(r, IF EvidenceValid(goal[r]) THEN "evidence" ELSE "error")
  /\ UNCHANGED <<storeVars, publisherVars>>

\* list_captures opens the completed namespace.  A directory stream returns
\* what was there when it was opened; it may return later entries too.
OpenList(r) ==
  /\ rpc[r] = "idle"
  /\ rpc' = [rpc EXCEPT ![r] = "entries"]
  /\ unlisted' = [unlisted EXCEPT ![r] = {i \in Ids : captures[i] # Absent}]
  /\ UNCHANGED <<storeVars, publisherVars, goal, pointer, listed, answer>>

\* One turn of the listing's loop.
ListEntry(r) == \E i \in Ids \ listed[r] :
  /\ rpc[r] = "entries"
  /\ captures[i] # Absent
  /\ IF HeaderValid(i) /\ InstancesPresent(i)
       THEN /\ unlisted' = [unlisted EXCEPT ![r] = @ \ {i}]
            /\ listed' = [listed EXCEPT ![r] = @ \cup {i}]
            /\ UNCHANGED <<rpc, answer, goal, pointer>>
       ELSE Answer(r, "error")
  /\ UNCHANGED <<storeVars, publisherVars>>

CloseList(r) ==
  /\ rpc[r] = "entries"
  /\ unlisted[r] = {}
  /\ Answer(r, "list")
  /\ UNCHANGED <<storeVars, publisherVars>>

ReaderStep(r) ==
  \/ ReadPointer(r) \/ ReadInstances(r) \/ OpenDirectory(r) \/ ReadHeader(r)
  \/ ReadEvidence(r) \/ OpenList(r) \/ ListEntry(r) \/ CloseList(r)

-----------------------------------------------------------------------------
Next ==
  \/ \E p \in Publishers : PublisherStep(p)
  \/ \E r \in Readers : ReaderStep(r)

Spec == Init /\ [][Next]_vars

-----------------------------------------------------------------------------
(* Properties.                                                             *)

\* Readers of the completed namespace never see a capture in preparation:
\* whatever is there is complete, and is the capture its directory names
\* (publish.rs: the final rename is the commit).
CompletedIsWhole ==
  \A i \in Ids : captures[i] # Absent =>
    HeaderValid(i) /\ EvidenceValid(i) /\ captures[i].pointer = Absent

\* A pointer names its own request, and either the completed capture with the
\* same key and token or nothing yet: the store never writes a candidate that
\* its own validation refuses, through whatever failures, crashes and repeated
\* identities.  A refused candidate would fail every later reuse of that key.
CandidateAgrees ==
  \A k \in Keys : candidates[k] # Absent =>
    /\ candidates[k].key = k
    /\ captures[candidates[k].id] # Absent =>
         captures[candidates[k].id].header = candidates[k]

\* No read started beside any publication answers with an error.
ReadersNeverFail == \A r \in Readers : answer[r] # "error"

\* A call that did not publish leaves its capture as it was, and the candidate
\* of its request either untouched or dangling, so that reuse misses (publish's
\* documentation; needs one publisher at a time).
FailureInvalidatesAtMost ==
  \A p \in Publishers :
    result[p] \in {"failed", "crashed"} /\ At(p, "idle") =>
      LET c == work[p] IN
      /\ (captures[c.id] # Absent) = before[p].visible
      /\ \/ candidates[c.key] = before[p].candidate
         \/ candidates[c.key] = c /\ captures[c.id] = Absent

\* The staging directory of an interrupted call is never taken over, so the
\* pointer that such a call left dangling stays a miss for ever.
Abandoned(i) ==
  /\ staging[i] # Absent
  /\ captures[i] = Absent
  /\ \A p \in Publishers :
       ppc[p] \notin {"idle", "check", "stage"} => work[p].id # i

AbandonedNeverAdopted ==
  [][\A i \in Ids : Abandoned(i) => Abandoned(i)']_vars

\* Publication, with all its steps, is one atomic commit after one pointer
\* replacement.
CompletedRecords == {captures[i].header : i \in {j \in Ids : captures[j] # Absent}}

History == INSTANCE CaptureHistory WITH
  NoCapture <- Absent,
  completed <- CompletedRecords,
  candidate <- candidates

ImplementsHistory == History!Spec
=============================================================================

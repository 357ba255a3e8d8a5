-------------------------- MODULE CaptureLifecycle --------------------------
(***************************************************************************)
(* The operation `capture' of cargo-optic-capture: look up a candidate,    *)
(* let Cargo judge it in a probe that never compiles it, and otherwise     *)
(* collect new evidence under a new analysis token and publish it.         *)
(*                                                                         *)
(* The store is CaptureHistory, which StorePublication implements file by  *)
(* file.  Cargo is external: a unit compiled with a token is fresh as long *)
(* as the tracked sources and the configuration are those of the moment    *)
(* its compilation began.  Sources may be edited at any time; the          *)
(* configuration changes only between calls, which is the caller's duty.   *)
(*                                                                         *)
(* A token stands for the capture identity generated after it as well:     *)
(* both are generated once for each collection and never again.            *)
(***************************************************************************)
EXTENDS Naturals

CONSTANTS
  Callers,          \* processes that call capture
  Keys,             \* request keys
  Configs,          \* configurations Cargo tracks but request keys do not
  None,             \* no capture
  MaxTokens,        \* bound: tokens generated
  MaxDisturbances   \* bound: edits, configuration changes, lost units,
                    \* forced captures, failures and crashes together

VARIABLES
  config,        \* the configuration of the workspace
  version,       \* how often its sources have been edited
  units,         \* Cargo's selected units, named by their tokens
  generated,     \* how many tokens have been generated
  completed,     \* the store's completed captures
  candidate,     \* and its candidate pointers
  pc,            \* the next step of each call
  request,       \* its request key
  capture,       \* the capture it reads or makes
  token,         \* the token it collects under
  began,         \* the source version when its compilation began
  result,        \* how it ended
  since,         \* history: configuration and version when it began
  disturbances   \* what MaxDisturbances bounds

workspaceVars == <<config, version, disturbances>>
storeVars == <<completed, candidate>>
callVars == <<pc, request, capture, token, began, result, since>>
vars == <<workspaceVars, units, generated, storeVars, callVars>>

Captures ==
  [id : Nat, key : Keys, token : Nat, config : Configs, version : Nat]

Units == [token : Nat, config : Configs, version : Nat]

History == INSTANCE CaptureHistory WITH NoCapture <- None

Steps ==
  {"idle", "lookup", "validate", "probe", "collect", "compile", "redirect",
   "commit"}

Results == {"none", "reused", "captured", "failed"}

ASSUME LifecycleAssumption == None \notin Captures

TypeOK ==
  /\ config \in Configs
  /\ version \in Nat
  /\ disturbances \in Nat
  /\ units \subseteq Units
  /\ generated \in Nat
  /\ History!HistoryTypeOK
  /\ pc \in [Callers -> Steps]
  /\ request \in [Callers -> Keys]
  /\ capture \in [Callers -> Captures \cup {None}]
  /\ token \in [Callers -> Nat]
  /\ began \in [Callers -> Nat]
  /\ result \in [Callers -> Results]
  /\ since \in [Callers -> [config : Configs, version : Nat]]
  /\ \A p \in Callers :
       pc[p] \in {"validate", "probe", "redirect", "commit"}
         \/ result[p] \in {"reused", "captured"} => capture[p] \in Captures

Init ==
  /\ config \in Configs
  /\ version = 0
  /\ disturbances = 0
  /\ units = {}
  /\ generated = 0
  /\ History!Init
  /\ pc = [p \in Callers |-> "idle"]
  /\ request \in [Callers -> Keys]
  /\ capture = [p \in Callers |-> None]
  /\ token = [p \in Callers |-> 0]
  /\ began = [p \in Callers |-> 0]
  /\ result = [p \in Callers |-> "none"]
  /\ since = [p \in Callers |-> [config |-> config, version |-> 0]]

-----------------------------------------------------------------------------
(* The workspace and Cargo.                                                *)

Disturb ==
  /\ disturbances < MaxDisturbances
  /\ disturbances' = disturbances + 1

EditSources ==
  /\ Disturb
  /\ version' = version + 1
  /\ UNCHANGED <<config, units, generated, storeVars, callVars>>

ChangeConfig == \E c \in Configs \ {config} :
  /\ Disturb
  /\ \A p \in Callers : pc[p] = "idle"
  /\ config' = c
  /\ UNCHANGED <<version, units, generated, storeVars, callVars>>

\* Cargo's target directory is cleaned.
LoseUnits ==
  /\ Disturb
  /\ units # {}
  /\ units' = {}
  /\ UNCHANGED <<config, version, generated, storeVars, callVars>>

Without(t) == {u \in units : u.token # t}

\* Cargo's judgement of the unit that was compiled with token t.
Fresh(t) == [token |-> t, config |-> config, version |-> version] \in units

\* Cargo dates a unit by the start of its compilation.
Compiled(p) ==
  Without(token[p])
    \cup {[token |-> token[p], config |-> config, version |-> began[p]]}

-----------------------------------------------------------------------------
(* One call of capture.                                                    *)

Goto(p, step) == pc' = [pc EXCEPT ![p] = step]

\* A call returns its capture and forgets the rest of its state.
Return(p, how) ==
  /\ Goto(p, "idle")
  /\ result' = [result EXCEPT ![p] = how]
  /\ capture' = [capture EXCEPT ![p] = IF how = "failed" THEN None ELSE @]
  /\ token' = [token EXCEPT ![p] = 0]
  /\ began' = [began EXCEPT ![p] = 0]
  /\ UNCHANGED <<request, since>>

\* prepare_build and Store::initialize; a forced capture skips the candidate.
Begin(p, k, policy) ==
  /\ pc[p] = "idle"
  /\ request' = [request EXCEPT ![p] = k]
  /\ capture' = [capture EXCEPT ![p] = None]
  /\ result' = [result EXCEPT ![p] = "none"]
  /\ since' = [since EXCEPT ![p] = [config |-> config, version |-> version]]
  /\ IF policy = "reuse"
       THEN Goto(p, "lookup") /\ UNCHANGED disturbances
       ELSE Goto(p, "collect") /\ Disturb
  /\ UNCHANGED <<config, version, units, generated, storeVars, token, began>>

\* Mutant of ReadPointer: an absent pointer is not told apart.
ReadAnyPointer(p) ==
  /\ pc[p] = "lookup"
  /\ capture' = [capture EXCEPT ![p] = candidate[request[p]]]
  /\ Goto(p, "validate")
  /\ UNCHANGED <<workspaceVars, units, generated, storeVars, request, token,
                 began, result, since>>

\* read_candidate reads the pointer of the request.
ReadPointer(p) ==
  /\ pc[p] = "lookup"
  /\ IF candidate[request[p]] = None
       THEN Goto(p, "collect") /\ UNCHANGED capture
       ELSE /\ capture' = [capture EXCEPT ![p] = candidate[request[p]]]
            /\ Goto(p, "validate")
  /\ UNCHANGED <<workspaceVars, units, generated, storeVars, request, token,
                 began, result, since>>

\* Mutant of ReadCapture: a dangling pointer is read again until it is not.
AwaitCapture(p) ==
  /\ pc[p] = "validate"
  /\ Goto(p, IF capture[p] \in completed THEN "probe" ELSE "lookup")
  /\ UNCHANGED <<workspaceVars, units, generated, storeVars, request, capture,
                 token, began, result, since>>

\* read_candidate opens the capture that the pointer names, if it is there.
ReadCapture(p) ==
  /\ pc[p] = "validate"
  /\ Goto(p, IF capture[p] \in completed THEN "probe" ELSE "collect")
  /\ UNCHANGED <<workspaceVars, units, generated, storeVars, request, capture,
                 token, began, result, since>>

\* Mutant of ProbeFresh: the request key alone decides.
ReuseUnprobed(p) ==
  /\ pc[p] = "probe"
  /\ Return(p, "reused")
  /\ UNCHANGED <<workspaceVars, units, generated, storeVars>>

\* Cargo finds the candidate's unit fresh, and the call returns its capture.
ProbeFresh(p) ==
  /\ pc[p] = "probe"
  /\ Fresh(capture[p].token)
  /\ Return(p, "reused")
  /\ UNCHANGED <<workspaceVars, units, generated, storeVars>>

\* Mutant of ProbeStale: the wrapper lets the probe's compilation run.
ProbeCompiles(p) ==
  /\ pc[p] = "probe"
  /\ ~Fresh(capture[p].token)
  /\ Goto(p, "collect")
  /\ units' = Without(capture[p].token) \cup
       {[token |-> capture[p].token, config |-> config, version |-> version]}
  /\ UNCHANGED <<workspaceVars, generated, storeVars, request, capture, token,
                 began, result, since>>

\* Cargo asks for a compilation and the wrapper stops it.  The unit is stale;
\* Cargo may or may not keep what it compiled under other configurations.
ProbeStale(p) ==
  /\ pc[p] = "probe"
  /\ ~Fresh(capture[p].token)
  /\ Goto(p, "collect")
  /\ units' \in {units, Without(capture[p].token)}
  /\ UNCHANGED <<workspaceVars, generated, storeVars, request, capture, token,
                 began, result, since>>

\* Mutant of StartCompile: the stale candidate's token is collected again.
StartWithCandidateToken(p) ==
  /\ pc[p] = "collect"
  /\ generated < MaxTokens
  /\ generated' = generated + 1
  /\ token' = [token EXCEPT ![p] =
       IF capture[p] = None THEN generated + 1 ELSE capture[p].token]
  /\ began' = [began EXCEPT ![p] = version]
  /\ Goto(p, "compile")
  /\ UNCHANGED <<workspaceVars, units, storeVars, request, capture, result,
                 since>>

\* collect starts Cargo with a marker no earlier compilation carried.
StartCompile(p) ==
  /\ pc[p] = "collect"
  /\ generated < MaxTokens
  /\ generated' = generated + 1
  /\ token' = [token EXCEPT ![p] = generated + 1]
  /\ began' = [began EXCEPT ![p] = version]
  /\ Goto(p, "compile")
  /\ UNCHANGED <<workspaceVars, units, storeVars, request, capture, result,
                 since>>

\* Cargo and the driver succeed.  An edit during the compilation may or may
\* not be part of the evidence.
FinishCompile(p) == \E v \in began[p] .. version :
  /\ pc[p] = "compile"
  /\ units' = Compiled(p)
  /\ capture' = [capture EXCEPT ![p] =
       [id |-> token[p], key |-> request[p], token |-> token[p],
        config |-> config, version |-> v]]
  /\ Goto(p, "redirect")
  /\ UNCHANGED <<workspaceVars, generated, storeVars, request, token, began,
                 result, since>>

\* Cargo succeeds, but its evidence is refused or cannot be collected.
LoseEvidence(p) ==
  /\ pc[p] = "compile"
  /\ Disturb
  /\ units' = Compiled(p)
  /\ Return(p, "failed")
  /\ UNCHANGED <<config, version, generated, storeVars>>

\* Mutant of Redirect: the candidate is not updated.
KeepPointer(p) ==
  /\ pc[p] = "redirect"
  /\ Goto(p, "commit")
  /\ UNCHANGED <<workspaceVars, units, generated, storeVars, request, capture,
                 token, began, result, since>>

\* publish replaces the pointer, and then commits the capture.
Redirect(p) ==
  /\ pc[p] = "redirect"
  /\ History!Redirect(capture[p])
  /\ Goto(p, "commit")
  /\ UNCHANGED <<workspaceVars, units, generated, request, capture, token,
                 began, result, since>>

Commit(p) ==
  /\ pc[p] = "commit"
  /\ History!Commit(capture[p])
  /\ Return(p, "captured")
  /\ UNCHANGED <<workspaceVars, units, generated>>

\* Any step may fail, and the process may die before any step.
Interrupt(p) ==
  /\ pc[p] # "idle"
  /\ Disturb
  /\ Return(p, "failed")
  /\ UNCHANGED <<config, version, units, generated, storeVars>>

CallStep(p) ==
  \/ ReadPointer(p) \/ ReadCapture(p) \/ ProbeFresh(p) \/ ProbeStale(p)
  \/ StartCompile(p) \/ FinishCompile(p) \/ Redirect(p) \/ Commit(p)

Next ==
  \/ EditSources \/ ChangeConfig \/ LoseUnits
  \/ \E p \in Callers :
       \/ CallStep(p) \/ LoseEvidence(p) \/ Interrupt(p)
       \/ \E k \in Keys, policy \in {"reuse", "fresh"} : Begin(p, k, policy)

Spec == Init /\ [][Next]_vars

\* Cargo and the file system answer every call, and clients keep asking for
\* every request.  Nothing forces a disturbance.
FairSpec ==
  /\ Spec
  /\ \A p \in Callers : WF_vars(CallStep(p))
  /\ \A p \in Callers, k \in Keys : SF_vars(Begin(p, k, "reuse"))

-----------------------------------------------------------------------------
(* Properties.                                                             *)

\* A call that succeeds returns evidence of its own request, compiled under
\* the configuration of the call and from sources no older than the call:
\* whatever failed, crashed, was cleaned or edited before or meanwhile.
EvidenceIsCurrent ==
  \A p \in Callers : result[p] \in {"reused", "captured"} =>
    /\ capture[p].key = request[p]
    /\ capture[p].config = since[p].config
    /\ capture[p].version >= since[p].version

\* Cargo never holds, under a published token, a unit that the published
\* evidence does not describe and that a probe could find fresh.
UnitsMatchEvidence ==
  \A c \in completed, u \in units : u.token = c.token =>
    /\ u.config = c.config
    /\ u.version = version => c.version = version

\* Optic never compiles again with a token associated with published evidence
\* (docs/architecture.md, Capture lifecycle).
PublishedNeverRecompiled ==
  [][\A u \in units' \ units : \A c \in completed : c.token # u.token]_vars

\* Every call returns.
CallsReturn == \A p \in Callers : pc[p] # "idle" ~> pc[p] = "idle"

\* Once nothing disturbs it any more, every request is again and again
\* answered from the store: no failure or crash leaves it beyond reuse.
ReuseResumes ==
  \A k \in Keys : []<>(\E p \in Callers : request[p] = k /\ result[p] = "reused")
=============================================================================

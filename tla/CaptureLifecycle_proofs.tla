---------------------- MODULE CaptureLifecycle_proofs ----------------------
(***************************************************************************)
(* Proofs about CaptureLifecycle, for any number of callers, request keys  *)
(* and configurations, and for every value of the bounds.                  *)
(*                                                                         *)
(* The argument is about tokens.  A compilation runs under a token that no *)
(* unit and no capture carries yet, so finishing it cannot change what any *)
(* existing evidence is compared with.  Cargo's units and the evidence     *)
(* compiled with them therefore agree for ever, and a unit that a probe    *)
(* finds fresh vouches for the capture that carries its token.             *)
(***************************************************************************)
EXTENDS CaptureLifecycle, TLAPS

-----------------------------------------------------------------------------
(* What the store under the calls guarantees, whoever takes its steps.     *)

\* An identity names one capture for ever, and no pointer associates it with
\* another: the guards of Redirect and Commit are all that it takes.
THEOREM HistoryAgrees == History!Spec => [](History!HistoryTypeOK /\ History!Agreement)
<1>1. History!Init => History!HistoryTypeOK /\ History!Agreement
  BY DEF History!Init, History!HistoryTypeOK, History!Agreement
<1>2. History!HistoryTypeOK /\ History!Agreement /\ [History!Next]_(History!historyVars)
        => (History!HistoryTypeOK /\ History!Agreement)'
  <2> SUFFICES ASSUME History!HistoryTypeOK, History!Agreement,
                      [History!Next]_(History!historyVars)
               PROVE  (History!HistoryTypeOK /\ History!Agreement)'
    OBVIOUS
  <2> USE DEF History!HistoryTypeOK, History!Agreement
  <2>1. ASSUME NEW c \in Captures, History!Redirect(c)
        PROVE  (History!HistoryTypeOK /\ History!Agreement)'
    BY <2>1 DEF History!Redirect
  <2>2. ASSUME NEW c \in Captures, History!Commit(c)
        PROVE  (History!HistoryTypeOK /\ History!Agreement)'
    BY <2>2 DEF History!Commit
  <2>3. CASE UNCHANGED History!historyVars
    BY <2>3 DEF History!historyVars
  <2> QED
    BY <2>1, <2>2, <2>3 DEF History!Next
<1> QED
  BY <1>1, <1>2, PTL DEF History!Spec

\* What is completed stays completed.
THEOREM CompletedGrows == History!Spec => [][completed \subseteq completed']_completed
<1>1. [History!Next]_(History!historyVars) => [completed \subseteq completed']_completed
  BY DEF History!Next, History!Redirect, History!Commit, History!historyVars
<1> QED
  BY <1>1, PTL DEF History!Spec

-----------------------------------------------------------------------------
(* The invariant of the calls.                                             *)

\* The captures that the store or a call has hold of.
Known ==
  (completed \cup {candidate[k] : k \in Keys} \cup {capture[p] : p \in Callers})
    \ {None}

Bounded ==
  /\ \A u \in units : u.token <= generated /\ u.version <= version
  /\ \A c \in Known : c.token <= generated

\* The token of a compilation under way.
Unused(p) ==
  /\ token[p] <= generated
  /\ \A u \in units : u.token # token[p]
  /\ \A c \in Known : c.token # token[p]
  /\ \A q \in Callers \ {p} : pc[q] = "compile" => token[q] # token[p]

TokensUnused == \A p \in Callers : pc[p] = "compile" => Unused(p)

Agrees(u, c) ==
  u.token = c.token =>
    u.config = c.config /\ (u.version = version => c.version = version)

UnitsAgree == \A u \in units, c \in Known : Agrees(u, c)

\* c is what a call of p with its request may return.
Current(p, c) ==
  /\ c.key = request[p]
  /\ c.config = since[p].config
  /\ c.version >= since[p].version

CallOK(p) ==
  /\ since[p].version <= version
  /\ pc[p] # "idle" => since[p].config = config /\ result[p] = "none"
  /\ pc[p] = "compile" => since[p].version <= began[p] /\ began[p] <= version
  /\ pc[p] \in {"validate", "probe"} => capture[p].key = request[p]
  /\ pc[p] \in {"redirect", "commit"} => Current(p, capture[p])
  /\ result[p] \in {"reused", "captured"} => Current(p, capture[p])

CallsOK == \A p \in Callers : CallOK(p)

CandidatesKeyed ==
  \A k \in Keys : candidate[k] # None => candidate[k].key = k

IInv ==
  /\ TypeOK
  /\ Bounded
  /\ TokensUnused
  /\ UnitsAgree
  /\ CallsOK
  /\ CandidatesKeyed
LEMMA NoneIsNoCapture == None \notin Captures
BY LifecycleAssumption

LEMMA InitIInv == Init => IInv
<1> SUFFICES ASSUME Init PROVE IInv
  OBVIOUS
<1> USE DEF Init, History!Init
<1>1. TypeOK
  BY DEF TypeOK, History!HistoryTypeOK, Steps, Results
<1>2. Known = {} /\ units = {}
  BY DEF Known
<1>3. Bounded /\ TokensUnused /\ UnitsAgree
  BY <1>2 DEF Bounded, TokensUnused, UnitsAgree
<1>4. CallsOK /\ CandidatesKeyed
  BY DEF CallsOK, CallOK, CandidatesKeyed
<1> QED
  BY <1>1, <1>3, <1>4 DEF IInv

-----------------------------------------------------------------------------
(* What a step may do to captures and units.                               *)

\* The records that are known are captures.
LEMMA KnownType == TypeOK => Known \subseteq Captures
BY DEF TypeOK, History!HistoryTypeOK, Known

TokenPart == Bounded /\ TokensUnused /\ UnitsAgree

\* A step that brings in no capture and no unit, and starts no compilation.
\* An edit makes every unit stale, for no unit is newer than the sources.
LEMMA QuietStep ==
  ASSUME TypeOK, TokenPart,
         Known' \subseteq Known, units' \subseteq units,
         version' \in {version, version + 1}, generated' = generated,
         \A p \in Callers : pc'[p] = "compile" =>
           pc[p] = "compile" /\ token'[p] = token[p]
  PROVE  TokenPart'
<1> USE DEF TypeOK
<1>1. Bounded'
  BY DEF TokenPart, Bounded, Units
<1>2. TokensUnused'
  BY DEF TokenPart, TokensUnused, Unused
<1>3. UnitsAgree'
  <2> SUFFICES ASSUME NEW u \in units', NEW c \in Known' PROVE Agrees(u, c)'
    BY DEF UnitsAgree
  <2>1. u \in units /\ c \in Known /\ Agrees(u, c)
    BY DEF TokenPart, UnitsAgree
  <2>2. u.version \in Nat /\ u.version <= version
    BY <2>1 DEF Units, TokenPart, Bounded
  <2>3. u.version = version' => u.version = version /\ version' = version
    BY <2>2
  <2> QED
    BY <2>1, <2>3 DEF Agrees
<1> QED
  BY <1>1, <1>2, <1>3 DEF TokenPart

\* Known captures stay known or are dropped when only p's capture changes,
\* into a capture that was known.
LEMMA KnownFrame ==
  ASSUME TypeOK, UNCHANGED storeVars, NEW p \in Callers, NEW c,
         capture' = [capture EXCEPT ![p] = c], c = None \/ c \in Known
  PROVE  Known' \subseteq Known
BY DEF TypeOK, Known, storeVars

LEMMA KnownSame ==
  ASSUME UNCHANGED <<storeVars, capture>>
  PROVE  Known' = Known
BY DEF Known, storeVars

LEMMA OwnCaptureKnown ==
  ASSUME TypeOK, NEW p \in Callers
  PROVE  capture[p] = None \/ capture[p] \in Known
BY DEF TypeOK, Known

\* The calls that do not take this step.
LEMMA OtherCalls ==
  ASSUME TypeOK, CallsOK, NEW p \in Callers,
         config' = config, version' = version,
         \A q \in Callers \ {p} :
           /\ pc'[q] = pc[q] /\ request'[q] = request[q]
           /\ capture'[q] = capture[q] /\ began'[q] = began[q]
           /\ result'[q] = result[q] /\ since'[q] = since[q]
  PROVE  \A q \in Callers \ {p} : CallOK(q)'
BY DEF CallsOK, CallOK, Current

-----------------------------------------------------------------------------
(* The workspace.                                                          *)

LEMMA WorkspaceIInv ==
  ASSUME IInv, EditSources \/ ChangeConfig \/ LoseUnits
  PROVE  IInv'
<1> USE DEF IInv, EditSources, ChangeConfig, LoseUnits, Disturb, callVars, storeVars
<1>1. TypeOK'
  BY DEF TypeOK, History!HistoryTypeOK
<1>2. Known' = Known
  BY KnownSame
<1>3. TokenPart'
  <2>1. /\ units' \subseteq units /\ generated' = generated
        /\ version' \in {version, version + 1}
        /\ pc' = pc /\ token' = token
    OBVIOUS
  <2> QED
    BY <1>2, <2>1, QuietStep DEF TokenPart
<1>4. CallsOK'
  <2> SUFFICES ASSUME NEW p \in Callers PROVE CallOK(p)'
    BY DEF CallsOK
  <2>1. /\ version \in Nat /\ since[p].version \in Nat /\ began[p] \in Nat
        /\ version' \in {version, version + 1}
        /\ pc[p] # "idle" => config' = config
    BY DEF TypeOK
  <2>2. CallOK(p)
    BY DEF CallsOK
  <2> QED
    BY <2>1, <2>2 DEF CallOK, Current
<1>5. CandidatesKeyed'
  BY DEF CandidatesKeyed
<1> QED
  BY <1>1, <1>3, <1>4, <1>5 DEF TokenPart
-----------------------------------------------------------------------------
(* The steps of one call.                                                  *)

\* What every step of a call but its compilation's start and end comes to.
LEMMA QuietCallStep ==
  ASSUME IInv, NEW p \in Callers,
         TypeOK', CandidatesKeyed', CallOK(p)',
         Known' \subseteq Known, units' \subseteq units,
         config' = config, version' = version, generated' = generated,
         pc'[p] # "compile",
         \A q \in Callers \ {p} :
           /\ pc'[q] = pc[q] /\ request'[q] = request[q]
           /\ capture'[q] = capture[q] /\ token'[q] = token[q]
           /\ began'[q] = began[q]
           /\ result'[q] = result[q] /\ since'[q] = since[q]
  PROVE  IInv'
<1>1. CallsOK'
  <2>1. \A q \in Callers \ {p} : CallOK(q)'
    BY OtherCalls DEF IInv
  <2> QED
    BY <2>1 DEF CallsOK
<1>2. TokenPart'
  <2>1. \A q \in Callers : pc'[q] = "compile" =>
          pc[q] = "compile" /\ token'[q] = token[q]
    OBVIOUS
  <2> QED
    BY <2>1, QuietStep DEF IInv, TokenPart
<1> QED
  BY <1>1, <1>2 DEF IInv, TokenPart

\* A return that leaves the store and the units to be.
LEMMA ReturnFrame ==
  ASSUME TypeOK, NEW p \in Callers, NEW how \in Results, Return(p, how)
  PROVE  /\ pc'[p] = "idle" /\ result'[p] = how /\ token'[p] = 0 /\ began'[p] = 0
         /\ capture'[p] = IF how = "failed" THEN None ELSE capture[p]
         /\ request' = request /\ since' = since
         /\ \A q \in Callers \ {p} :
              /\ pc'[q] = pc[q] /\ capture'[q] = capture[q]
              /\ token'[q] = token[q] /\ began'[q] = began[q]
              /\ result'[q] = result[q]
BY DEF TypeOK, Return, Goto

LEMMA ReturnType ==
  ASSUME TypeOK, NEW p \in Callers, NEW how \in Results \ {"none"}, Return(p, how),
         how # "failed" => capture[p] \in Captures,
         units' \subseteq Units,
         History!HistoryTypeOK', config' = config, version' = version,
         generated' = generated, disturbances' \in Nat
  PROVE  TypeOK'
BY DEF TypeOK, Return, Goto, Steps, Results

LEMMA FailIInv ==
  ASSUME IInv, NEW p \in Callers, Return(p, "failed"),
         UNCHANGED <<config, version, units, generated, storeVars>>,
         disturbances' \in Nat
  PROVE  IInv'
<1> USE DEF IInv, storeVars
<1>0. "failed" \in Results \ {"none"}
  BY DEF Results
<1>1. TypeOK'
  BY <1>0, ReturnType DEF TypeOK, History!HistoryTypeOK
<1>2. CandidatesKeyed'
  BY DEF CandidatesKeyed
<1>3. Known' \subseteq Known
  BY KnownFrame DEF Return
<1>4. CallOK(p)'
  <2>1. CallOK(p)
    BY DEF CallsOK
  <2> QED
    BY <1>0, <2>1, ReturnFrame DEF CallOK, Current
<1> QED
  BY <1>0, <1>1, <1>2, <1>3, <1>4, ReturnFrame, QuietCallStep

LEMMA BeginIInv ==
  ASSUME IInv, NEW p \in Callers, NEW k \in Keys, NEW policy \in {"reuse", "fresh"},
         Begin(p, k, policy)
  PROVE  IInv'
<1> USE DEF IInv, Begin, Goto, Disturb
<1>1. TypeOK'
  BY DEF TypeOK, History!HistoryTypeOK, Steps, Results, storeVars
<1>2. CandidatesKeyed'
  BY DEF CandidatesKeyed, storeVars
<1>3. Known' \subseteq Known
  BY KnownFrame
<1>4. CallOK(p)'
  BY DEF TypeOK, CallOK, Current
<1>5. pc'[p] # "compile"
  BY DEF TypeOK
<1>6. \A q \in Callers \ {p} :
        /\ pc'[q] = pc[q] /\ request'[q] = request[q]
        /\ capture'[q] = capture[q] /\ token'[q] = token[q]
        /\ began'[q] = began[q]
        /\ result'[q] = result[q] /\ since'[q] = since[q]
  BY DEF TypeOK
<1> QED
  BY <1>1, <1>2, <1>3, <1>4, <1>5, <1>6, QuietCallStep

LEMMA ReadPointerIInv ==
  ASSUME IInv, NEW p \in Callers, ReadPointer(p)
  PROVE  IInv'
<1> USE DEF IInv, ReadPointer, Goto, workspaceVars
<1>0. request[p] \in Keys /\ candidate[request[p]] \in Captures \cup {None}
  BY DEF TypeOK, History!HistoryTypeOK
<1>1. TypeOK'
  <2>1. CASE candidate[request[p]] = None
    BY <2>1 DEF TypeOK, History!HistoryTypeOK, Steps, Results, storeVars
  <2>2. CASE candidate[request[p]] # None
    BY <1>0, <2>2 DEF TypeOK, History!HistoryTypeOK, Steps, Results, storeVars
  <2> QED
    BY <2>1, <2>2
<1>2. CandidatesKeyed'
  BY DEF CandidatesKeyed, storeVars
<1>3. Known' \subseteq Known
  <2>1. CASE candidate[request[p]] = None
    BY <2>1, KnownSame
  <2>2. CASE candidate[request[p]] # None
    <3>1. candidate[request[p]] \in Known
      BY <1>0, <2>2 DEF Known
    <3> QED
      BY <2>2, <3>1, KnownFrame
  <2> QED
    BY <2>1, <2>2
<1>4. CallOK(p)'
  <2>1. CallOK(p)
    BY DEF CallsOK
  <2>2. candidate[request[p]] # None => candidate[request[p]].key = request[p]
    BY <1>0 DEF CandidatesKeyed
  <2> QED
    BY <2>1, <2>2 DEF TypeOK, CallOK, Current
<1>5. pc'[p] # "compile"
  BY DEF TypeOK
<1>6. \A q \in Callers \ {p} :
        /\ pc'[q] = pc[q] /\ request'[q] = request[q]
        /\ capture'[q] = capture[q] /\ token'[q] = token[q]
        /\ began'[q] = began[q]
        /\ result'[q] = result[q] /\ since'[q] = since[q]
  BY DEF TypeOK
<1> QED
  BY <1>1, <1>2, <1>3, <1>4, <1>5, <1>6, QuietCallStep

LEMMA ReadCaptureIInv ==
  ASSUME IInv, NEW p \in Callers, ReadCapture(p)
  PROVE  IInv'
<1> USE DEF IInv, ReadCapture, Goto, workspaceVars
<1>1. TypeOK'
  BY DEF TypeOK, History!HistoryTypeOK, Steps, Results, storeVars
<1>2. CandidatesKeyed'
  BY DEF CandidatesKeyed, storeVars
<1>3. Known' \subseteq Known
  BY KnownSame
<1>4. CallOK(p)'
  <2>1. CallOK(p)
    BY DEF CallsOK
  <2> QED
    BY <2>1 DEF TypeOK, CallOK, Current
<1>5. pc'[p] # "compile"
  BY DEF TypeOK
<1>6. \A q \in Callers \ {p} : pc'[q] = pc[q]
  BY DEF TypeOK
<1> QED
  BY <1>1, <1>2, <1>3, <1>4, <1>5, <1>6, QuietCallStep

\* The unit that Cargo finds fresh was compiled with the candidate's token,
\* so it agrees with the candidate's evidence.
LEMMA ProbeFreshIInv ==
  ASSUME IInv, NEW p \in Callers, ProbeFresh(p)
  PROVE  IInv'
<1> USE DEF IInv
<1>0. /\ pc[p] = "probe" /\ Fresh(capture[p].token) /\ Return(p, "reused")
      /\ UNCHANGED <<workspaceVars, units, generated, storeVars>>
  BY DEF ProbeFresh
<1>1. "reused" \in Results \ {"none"}
  BY DEF Results
<1>2. capture[p] \in Captures
  BY <1>0 DEF TypeOK
<1>3. TypeOK'
  BY <1>0, <1>1, <1>2, ReturnType DEF TypeOK, History!HistoryTypeOK,
     workspaceVars, storeVars
<1>4. CandidatesKeyed'
  BY <1>0 DEF CandidatesKeyed, storeVars
<1>5. Known' \subseteq Known
  <2>1. capture' = [capture EXCEPT ![p] = capture[p]]
    BY <1>0 DEF Return
  <2> QED
    BY <1>0, <2>1, KnownFrame, OwnCaptureKnown
<1>6. capture[p].config = config /\ capture[p].version = version
  <2> DEFINE u == [token |-> capture[p].token, config |-> config, version |-> version]
  <2>1. u \in units
    BY <1>0 DEF Fresh
  <2>2. capture[p] \in Known
    BY <1>2, NoneIsNoCapture, OwnCaptureKnown
  <2>3. Agrees(u, capture[p])
    BY <2>1, <2>2 DEF UnitsAgree
  <2> QED
    BY <2>3 DEF Agrees
<1>7. CallOK(p)'
  <2>1. CallOK(p)
    BY DEF CallsOK
  <2>2. Current(p, capture[p])
    <3>1. capture[p].key = request[p] /\ since[p].config = config /\ since[p].version <= version
      BY <1>0, <2>1 DEF CallOK
    <3>2. since[p].version \in Nat /\ version \in Nat
      BY DEF TypeOK
    <3> QED
      BY <1>6, <3>1, <3>2 DEF Current
  <2> QED
    BY <1>0, <1>1, <2>1, <2>2, ReturnFrame DEF CallOK, Current, workspaceVars
<1> QED
  BY <1>0, <1>1, <1>3, <1>4, <1>5, <1>7, ReturnFrame, QuietCallStep DEF workspaceVars

LEMMA ProbeStaleIInv ==
  ASSUME IInv, NEW p \in Callers, ProbeStale(p)
  PROVE  IInv'
<1> USE DEF IInv, ProbeStale, Goto, workspaceVars, Without
<1>0. units' \subseteq units
  OBVIOUS
<1>1. TypeOK'
  BY <1>0 DEF TypeOK, History!HistoryTypeOK, Steps, Results, storeVars
<1>2. CandidatesKeyed'
  BY DEF CandidatesKeyed, storeVars
<1>3. Known' \subseteq Known
  BY KnownSame
<1>4. CallOK(p)'
  <2>1. CallOK(p)
    BY DEF CallsOK
  <2> QED
    BY <2>1 DEF TypeOK, CallOK, Current
<1>5. pc'[p] # "compile"
  BY DEF TypeOK
<1>6. \A q \in Callers \ {p} : pc'[q] = pc[q]
  BY DEF TypeOK
<1> QED
  BY <1>0, <1>1, <1>2, <1>3, <1>4, <1>5, <1>6, QuietCallStep
\* The token is larger than every token there is.
LEMMA StartCompileIInv ==
  ASSUME IInv, NEW p \in Callers, StartCompile(p)
  PROVE  IInv'
<1> USE DEF IInv
<1>0. /\ generated' = generated + 1
      /\ token' = [token EXCEPT ![p] = generated + 1]
      /\ began' = [began EXCEPT ![p] = version]
      /\ pc' = [pc EXCEPT ![p] = "compile"]
      /\ pc[p] = "collect"
      /\ UNCHANGED <<config, version, disturbances, units, storeVars, request,
                     capture, result, since>>
  BY DEF StartCompile, Goto, workspaceVars
<1>1. TypeOK'
  BY <1>0 DEF TypeOK, History!HistoryTypeOK, Steps, Results, storeVars
<1>2. CandidatesKeyed'
  BY <1>0 DEF CandidatesKeyed, storeVars
<1>3. Known' = Known
  BY <1>0, KnownSame
<1>4. /\ \A u \in units : u.token \in Nat /\ u.token <= generated
      /\ \A c \in Known : c.token \in Nat /\ c.token <= generated
      /\ generated \in Nat
  BY KnownType DEF TypeOK, Bounded, Units, Captures
<1>5. Bounded'
  BY <1>0, <1>3, <1>4 DEF Bounded
<1>6. UnitsAgree'
  BY <1>0, <1>3 DEF UnitsAgree, Agrees
<1>7. TokensUnused'
  <2> SUFFICES ASSUME NEW q \in Callers, pc'[q] = "compile" PROVE Unused(q)'
    BY DEF TokensUnused
  <2>1. CASE q = p
    <3>1. token'[p] = generated + 1
      BY <1>0 DEF TypeOK
    <3>2. \A r \in Callers \ {p} : pc'[r] = "compile" =>
            token'[r] = token[r] /\ token[r] \in Nat /\ token[r] <= generated
      BY <1>0 DEF TypeOK, TokensUnused, Unused
    <3> QED
      BY <1>0, <1>3, <1>4, <2>1, <3>1, <3>2 DEF Unused
  <2>2. CASE q # p
    <3>1. pc[q] = "compile" /\ Unused(q) /\ token'[q] = token[q] /\ token[q] \in Nat
      BY <1>0, <2>2 DEF TypeOK, TokensUnused
    <3>2. token[q] <= generated /\ token'[p] = generated + 1
      BY <1>0, <3>1 DEF Unused, TypeOK
    <3>3. \A r \in Callers \ {p} : pc'[r] = pc[r] /\ token'[r] = token[r]
      BY <1>0 DEF TypeOK
    <3> QED
      BY <1>0, <1>3, <1>4, <2>2, <3>1, <3>2, <3>3 DEF Unused
  <2> QED
    BY <2>1, <2>2
<1>8. CallOK(p)'
  <2>1. CallOK(p)
    BY DEF CallsOK
  <2> QED
    BY <1>0, <2>1 DEF TypeOK, CallOK, Current
<1>9. CallsOK'
  <2>1. \A q \in Callers \ {p} : CallOK(q)'
    BY <1>0, OtherCalls DEF TypeOK
  <2> QED
    BY <1>8, <2>1 DEF CallsOK
<1> QED
  BY <1>1, <1>2, <1>5, <1>6, <1>7, <1>9

\* The unit that a compilation leaves replaces none, for none carries its
\* token, and no capture known before can be compared with it.
LEMMA CompiledUnits ==
  ASSUME IInv, NEW p \in Callers, pc[p] = "compile"
  PROVE  LET u == [token |-> token[p], config |-> config, version |-> began[p]] IN
         /\ Compiled(p) = units \cup {u}
         /\ u \in Units
         /\ u.token <= generated /\ u.version <= version
         /\ \A c \in Known : c.token # u.token
<1> USE DEF IInv
<1>1. Unused(p) /\ CallOK(p)
  BY DEF TokensUnused, CallsOK
<1>2. Without(token[p]) = units
  BY <1>1 DEF Unused, Without
<1>3. token[p] \in Nat /\ began[p] \in Nat /\ config \in Configs
  BY DEF TypeOK
<1> QED
  BY <1>1, <1>2, <1>3 DEF Compiled, Units, Unused, CallOK

LEMMA FinishCompileIInv ==
  ASSUME IInv, NEW p \in Callers, FinishCompile(p)
  PROVE  IInv'
<1> USE DEF IInv
<1>1. PICK v \in began[p] .. version :
        /\ pc[p] = "compile"
        /\ units' = Compiled(p)
        /\ capture' = [capture EXCEPT ![p] =
             [id |-> token[p], key |-> request[p], token |-> token[p],
              config |-> config, version |-> v]]
        /\ pc' = [pc EXCEPT ![p] = "redirect"]
        /\ UNCHANGED <<workspaceVars, generated, storeVars, request, token, began,
                       result, since>>
  BY DEF FinishCompile, Goto
<1> DEFINE u == [token |-> token[p], config |-> config, version |-> began[p]]
           c == [id |-> token[p], key |-> request[p], token |-> token[p],
                 config |-> config, version |-> v]
<1>2. /\ units' = units \cup {u} /\ u \in Units
      /\ u.token <= generated /\ u.version <= version
      /\ \A d \in Known : d.token # u.token
  BY <1>1, CompiledUnits
<1>3. /\ Unused(p) /\ CallOK(p) /\ token[p] \in Nat /\ began[p] \in Nat
      /\ version \in Nat /\ v \in Nat /\ request[p] \in Keys /\ config \in Configs
      /\ since[p].version \in Nat
  BY <1>1 DEF TypeOK, TokensUnused, CallsOK
<1>4. c \in Captures
  BY <1>3 DEF Captures
<1>5. TypeOK'
  BY <1>1, <1>2, <1>4 DEF TypeOK, History!HistoryTypeOK, Steps, Results,
     workspaceVars, storeVars
<1>6. Known' \subseteq Known \cup {c}
  BY <1>1 DEF Known, storeVars, TypeOK
<1>7. CandidatesKeyed'
  BY <1>1 DEF CandidatesKeyed, storeVars
<1>8. Bounded'
  BY <1>1, <1>2, <1>3, <1>6 DEF Bounded, Unused, workspaceVars
<1>9. UnitsAgree'
  <2> SUFFICES ASSUME NEW w \in units', NEW d \in Known' PROVE Agrees(w, d)'
    BY DEF UnitsAgree
  <2>0. version' = version
    BY <1>1 DEF workspaceVars
  <2>1. CASE w \in units /\ d \in Known
    BY <2>0, <2>1 DEF UnitsAgree, Agrees
  <2>2. CASE w = u /\ d \in Known
    BY <1>2, <2>2 DEF Agrees
  <2>3. CASE w \in units /\ d = c
    BY <1>3, <2>3 DEF Unused, Agrees
  <2>4. CASE w = u /\ d = c
    <3>1. began[p] = version => v = version
      BY <1>3
    <3> QED
      BY <2>0, <2>4, <3>1 DEF Agrees
  <2> QED
    BY <1>2, <1>6, <2>1, <2>2, <2>3, <2>4
<1>10. TokensUnused'
  <2> SUFFICES ASSUME NEW q \in Callers, pc'[q] = "compile" PROVE Unused(q)'
    BY DEF TokensUnused
  <2>1. q # p /\ pc[q] = "compile" /\ token' = token /\ generated' = generated
    BY <1>1 DEF TypeOK
  <2>2. Unused(q) /\ token[q] # token[p]
    BY <1>1, <2>1 DEF TokensUnused, Unused
  <2>3. \A r \in Callers \ {q} : pc'[r] = "compile" => pc[r] = "compile"
    BY <1>1 DEF TypeOK
  <2> QED
    BY <1>2, <1>6, <2>1, <2>2, <2>3 DEF Unused
<1>11. CallOK(p)'
  <2>1. capture'[p] = c /\ pc'[p] = "redirect"
    BY <1>1 DEF TypeOK
  <2>2. /\ c.key = request[p] /\ c.config = config /\ c.version = v
        /\ v >= since[p].version /\ since[p].config = config /\ result[p] = "none"
    BY <1>1, <1>3 DEF CallOK
  <2> HIDE DEF c
  <2> QED
    BY <1>1, <1>3, <2>1, <2>2 DEF CallOK, Current, workspaceVars
<1>12. CallsOK'
  <2>1. \A q \in Callers \ {p} : CallOK(q)'
    BY <1>1, OtherCalls DEF TypeOK, workspaceVars
  <2> QED
    BY <1>11, <2>1 DEF CallsOK
<1> QED
  BY <1>5, <1>7, <1>8, <1>9, <1>10, <1>12

LEMMA LoseEvidenceIInv ==
  ASSUME IInv, NEW p \in Callers, LoseEvidence(p)
  PROVE  IInv'
<1> USE DEF IInv
<1>0. "failed" \in Results \ {"none"}
  BY DEF Results
<1>1. /\ pc[p] = "compile" /\ units' = Compiled(p) /\ Return(p, "failed")
      /\ disturbances' \in Nat
      /\ UNCHANGED <<config, version, generated, storeVars>>
  BY DEF LoseEvidence, Disturb, TypeOK
<1> DEFINE u == [token |-> token[p], config |-> config, version |-> began[p]]
<1>2. /\ units' = units \cup {u} /\ u \in Units
      /\ u.token <= generated /\ u.version <= version
      /\ \A d \in Known : d.token # u.token
  BY <1>1, CompiledUnits
<1>3. /\ pc'[p] = "idle" /\ result'[p] = "failed" /\ began'[p] = 0
      /\ capture'[p] = None /\ request' = request /\ since' = since
      /\ \A q \in Callers \ {p} :
           /\ pc'[q] = pc[q] /\ capture'[q] = capture[q]
           /\ token'[q] = token[q] /\ began'[q] = began[q]
           /\ result'[q] = result[q]
  BY <1>0, <1>1, ReturnFrame
<1>4. TypeOK'
  BY <1>0, <1>1, <1>2, ReturnType DEF TypeOK, History!HistoryTypeOK, storeVars
<1>5. CandidatesKeyed'
  BY <1>1 DEF CandidatesKeyed, storeVars
<1>6. Known' \subseteq Known
  BY <1>1, KnownFrame DEF Return
<1>7. Bounded'
  BY <1>1, <1>2, <1>6 DEF Bounded
<1>8. UnitsAgree'
  BY <1>1, <1>2, <1>6 DEF UnitsAgree, Agrees
<1>9. TokensUnused'
  <2> SUFFICES ASSUME NEW q \in Callers, pc'[q] = "compile" PROVE Unused(q)'
    BY DEF TokensUnused
  <2>1. q # p /\ pc[q] = "compile" /\ token'[q] = token[q]
    BY <1>3
  <2>2. Unused(q) /\ token[q] # token[p]
    BY <1>1, <2>1 DEF TokensUnused, Unused
  <2> QED
    BY <1>1, <1>2, <1>3, <1>6, <2>1, <2>2 DEF Unused
<1>10. CallsOK'
  <2>1. \A q \in Callers \ {p} : CallOK(q)'
    BY <1>1, <1>3, OtherCalls
  <2>2. CallOK(p)
    BY DEF CallsOK
  <2> QED
    BY <1>1, <1>3, <2>1, <2>2 DEF CallsOK, CallOK
<1> QED
  BY <1>4, <1>5, <1>7, <1>8, <1>9, <1>10

LEMMA RedirectIInv ==
  ASSUME IInv, NEW p \in Callers, Redirect(p)
  PROVE  IInv'
<1> USE DEF IInv
<1>0. /\ pc[p] = "redirect" /\ pc' = [pc EXCEPT ![p] = "commit"]
      /\ completed' = completed
      /\ candidate' = [candidate EXCEPT ![capture[p].key] = capture[p]]
      /\ UNCHANGED <<workspaceVars, units, generated, request, capture, token,
                     began, result, since>>
  BY DEF Redirect, History!Redirect, Goto
<1>1. capture[p] \in Captures /\ capture[p] \in Known /\ capture[p].key \in Keys
  BY <1>0, NoneIsNoCapture, OwnCaptureKnown DEF TypeOK, Captures
<1>2. TypeOK'
  BY <1>0, <1>1 DEF TypeOK, History!HistoryTypeOK, Steps, Results, workspaceVars
<1>3. CandidatesKeyed'
  BY <1>0, <1>1 DEF CandidatesKeyed, TypeOK, History!HistoryTypeOK
<1>4. Known' \subseteq Known
  BY <1>0, <1>1 DEF Known, TypeOK, History!HistoryTypeOK
<1>5. CallOK(p)'
  <2>1. CallOK(p)
    BY DEF CallsOK
  <2> QED
    BY <1>0, <2>1 DEF TypeOK, CallOK, Current, workspaceVars
<1>6. pc'[p] # "compile" /\ \A q \in Callers \ {p} : pc'[q] = pc[q]
  BY <1>0 DEF TypeOK
<1> QED
  BY <1>0, <1>2, <1>3, <1>4, <1>5, <1>6, QuietCallStep DEF workspaceVars

LEMMA CommitIInv ==
  ASSUME IInv, NEW p \in Callers, Commit(p)
  PROVE  IInv'
<1> USE DEF IInv
<1>0. /\ pc[p] = "commit" /\ Return(p, "captured")
      /\ completed' = completed \cup {capture[p]} /\ candidate' = candidate
      /\ UNCHANGED <<workspaceVars, units, generated>>
  BY DEF Commit, History!Commit
<1>1. capture[p] \in Captures /\ capture[p] \in Known /\ capture[p].key \in Keys
  BY <1>0, NoneIsNoCapture, OwnCaptureKnown DEF TypeOK, Captures
<1>2. "captured" \in Results \ {"none"}
  BY DEF Results
<1>3. TypeOK'
  BY <1>0, <1>1, <1>2, ReturnType DEF TypeOK, History!HistoryTypeOK, workspaceVars
<1>4. CandidatesKeyed'
  BY <1>0 DEF CandidatesKeyed
<1>5. Known' \subseteq Known
  <2>1. capture' = [capture EXCEPT ![p] = capture[p]]
    BY <1>0 DEF Return
  <2> QED
    BY <1>0, <1>1, <2>1 DEF Known, TypeOK
<1>6. CallOK(p)'
  <2>1. CallOK(p)
    BY DEF CallsOK
  <2> QED
    BY <1>0, <1>2, <2>1, ReturnFrame DEF CallOK, Current, workspaceVars
<1> QED
  BY <1>0, <1>2, <1>3, <1>4, <1>5, <1>6, ReturnFrame, QuietCallStep DEF workspaceVars

-----------------------------------------------------------------------------
(* The theorems.                                                           *)

LEMMA NextIInv == IInv /\ [Next]_vars => IInv'
<1> SUFFICES ASSUME IInv, [Next]_vars PROVE IInv'
  OBVIOUS
<1>1. CASE EditSources \/ ChangeConfig \/ LoseUnits
  BY <1>1, WorkspaceIInv
<1>2. ASSUME NEW p \in Callers, CallStep(p) PROVE IInv'
  BY <1>2, ReadPointerIInv, ReadCaptureIInv, ProbeFreshIInv, ProbeStaleIInv,
     StartCompileIInv, FinishCompileIInv, RedirectIInv, CommitIInv DEF CallStep
<1>3. ASSUME NEW p \in Callers, LoseEvidence(p) PROVE IInv'
  BY <1>3, LoseEvidenceIInv
<1>4. ASSUME NEW p \in Callers, Interrupt(p) PROVE IInv'
  BY <1>4, FailIInv DEF Interrupt, Disturb, IInv, TypeOK
<1>5. ASSUME NEW p \in Callers, NEW k \in Keys, NEW policy \in {"reuse", "fresh"},
             Begin(p, k, policy)
      PROVE  IInv'
  BY <1>5, BeginIInv
<1>6. CASE UNCHANGED vars
  <2> USE <1>6 DEF vars, workspaceVars, storeVars, callVars, IInv
  <2>1. TypeOK'
    BY DEF TypeOK, History!HistoryTypeOK
  <2>2. Known' = Known
    BY KnownSame
  <2>3. Bounded' /\ TokensUnused' /\ UnitsAgree'
    BY <2>2 DEF Bounded, TokensUnused, Unused, UnitsAgree, Agrees
  <2>4. CallsOK' /\ CandidatesKeyed'
    BY DEF CallsOK, CallOK, Current, CandidatesKeyed
  <2> QED
    BY <2>1, <2>3, <2>4
<1> QED
  BY <1>1, <1>2, <1>3, <1>4, <1>5, <1>6 DEF Next

LEMMA Invariance == Spec => []IInv
BY InitIInv, NextIInv, PTL DEF Spec

\* Every variable keeps its type: among others, a call that probes, publishes
\* or has returned has a capture.
THEOREM TypeCorrect == Spec => []TypeOK
<1>1. IInv => TypeOK
  BY DEF IInv
<1> QED
  BY <1>1, Invariance, PTL

\* What a call returns, reused or new, is current evidence for its request.
THEOREM EvidenceAlwaysCurrent == Spec => []EvidenceIsCurrent
<1>1. IInv => EvidenceIsCurrent
  BY DEF IInv, CallsOK, CallOK, Current, EvidenceIsCurrent
<1> QED
  BY <1>1, Invariance, PTL

\* Cargo's units never come to stand for evidence that they did not produce.
THEOREM UnitsAlwaysMatch == Spec => []UnitsMatchEvidence
<1>1. IInv => UnitsMatchEvidence
  <2> SUFFICES ASSUME IInv, NEW c \in completed, NEW u \in units, u.token = c.token
               PROVE  u.config = c.config /\ (u.version = version => c.version = version)
    BY DEF UnitsMatchEvidence
  <2>1. c \in Known
    BY NoneIsNoCapture DEF IInv, TypeOK, History!HistoryTypeOK, Known
  <2> QED
    BY <2>1 DEF IInv, UnitsAgree, Agrees
<1> QED
  BY <1>1, Invariance, PTL

\* The token of published evidence is never compiled with again.
THEOREM PublishedTokensRest == Spec => PublishedNeverRecompiled
<1>1. IInv /\ [Next]_vars =>
        [\A u \in units' \ units : \A c \in completed : c.token # u.token]_vars
  <2> SUFFICES ASSUME IInv, Next, NEW u \in units' \ units, NEW c \in completed
               PROVE  c.token # u.token
    OBVIOUS
  <2>1. c \in Known
    BY NoneIsNoCapture DEF IInv, TypeOK, History!HistoryTypeOK, Known
  <2>2. ASSUME NEW p \in Callers, FinishCompile(p) \/ LoseEvidence(p)
        PROVE  c.token # u.token
    <3>1. pc[p] = "compile" /\ units' = Compiled(p)
      BY <2>2 DEF FinishCompile, LoseEvidence
    <3> QED
      BY <2>1, <3>1, CompiledUnits
  <2>3. ASSUME units' \subseteq units PROVE FALSE
    BY <2>3
  <2>4. (\A p \in Callers : ~FinishCompile(p) /\ ~LoseEvidence(p)) => units' \subseteq units
    BY DEF Next, EditSources, ChangeConfig, LoseUnits, CallStep, Begin,
       ReadPointer, ReadCapture, ProbeFresh, ProbeStale, Without, StartCompile,
       Redirect, Commit, Interrupt
  <2> QED
    BY <2>2, <2>3, <2>4
<1> QED
  BY <1>1, Invariance, PTL DEF Spec, PublishedNeverRecompiled
=============================================================================

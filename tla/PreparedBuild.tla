---------------------------- MODULE PreparedBuild ----------------------------
(***************************************************************************)
(* What one PreparedBuild of cargo-optic-compiler promises to `capture',   *)
(* whatever becomes of the processes behind it.  A probe answers Fresh     *)
(* only if Cargo found nothing to compile, and Stale only if Cargo asked   *)
(* to compile the selected target; a probe compiles nothing.  A collection *)
(* answers with evidence only once Cargo keeps the unit of the new token,  *)
(* but Cargo may come to keep it although the collection fails, even after *)
(* it has failed.                                                          *)
(*                                                                         *)
(* DriverProtocol implements this specification.  CaptureLifecycle has the *)
(* same answers, with the compilation and the collection's answer in one   *)
(* step: FinishCompile, LoseEvidence or Interrupt.                         *)
(***************************************************************************)

VARIABLES
  stage,      \* "probe" before a stale answer, "collect" from then on
  judgement,  \* what Cargo has found of the selected target in the probe
  compiled,   \* Cargo keeps the unit of the collection's token
  outcome     \* how the prepared build ended

vars == <<stage, judgement, compiled, outcome>>

\* A forced capture, and one without a candidate, begins with the collection.
Init ==
  /\ stage \in {"probe", "collect"}
  /\ judgement = "none"
  /\ compiled = FALSE
  /\ outcome = "none"

\* Cargo has its own view of the selected target.  The process may have lost
\* the one that asked for it.
Judge(found) ==
  /\ stage = "probe"
  /\ judgement = "none"
  /\ judgement' = found
  /\ UNCHANGED <<stage, compiled, outcome>>

\* probe returns Freshness::Fresh: the candidate's capture is reused.
AnswerFresh ==
  /\ stage = "probe" /\ outcome = "none"
  /\ judgement = "fresh"
  /\ outcome' = "fresh"
  /\ UNCHANGED <<stage, judgement, compiled>>

\* probe returns Freshness::Stale: the caller collects.
AnswerStale ==
  /\ stage = "probe" /\ outcome = "none"
  /\ judgement = "stale"
  /\ stage' = "collect"
  /\ UNCHANGED <<judgement, compiled, outcome>>

\* Cargo records the unit, perhaps for a collection that was given up.
Compile ==
  /\ stage = "collect" /\ outcome \in {"none", "failed"}
  /\ ~compiled
  /\ compiled' = TRUE
  /\ UNCHANGED <<stage, judgement, outcome>>

\* collect returns evidence of the unit that Cargo keeps,
AnswerCollected ==
  /\ stage = "collect" /\ outcome = "none"
  /\ compiled
  /\ outcome' = "collected"
  /\ UNCHANGED <<stage, judgement, compiled>>

\* and anything may fail, before or after Cargo has recorded it.
Fail ==
  /\ outcome = "none"
  /\ outcome' = "failed"
  /\ UNCHANGED <<stage, judgement, compiled>>

Next ==
  \/ \E found \in {"fresh", "stale"} : Judge(found)
  \/ AnswerFresh \/ AnswerStale \/ Compile \/ AnswerCollected \/ Fail

Spec == Init /\ [][Next]_vars
=============================================================================

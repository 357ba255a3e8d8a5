--------------------------- MODULE CaptureHistory ---------------------------
(***************************************************************************)
(* What the capture store promises to everything above it: a growing set   *)
(* of completed captures, each of which appears whole and in one step, and *)
(* for each request key at most one candidate pointer.                     *)
(*                                                                         *)
(* A pointer is installed before the capture it names, so it may dangle.   *)
(* A dangling pointer is a miss; nothing else may replace its capture.     *)
(*                                                                         *)
(* StorePublication implements this module file by file, and               *)
(* CaptureLifecycle uses it as the store under `capture'.                  *)
(***************************************************************************)
CONSTANTS
  Captures,    \* capture records: at least the fields id and key
  Keys,        \* request keys
  NoCapture    \* what a request key without a pointer holds

VARIABLES
  completed,   \* the captures in the completed namespace
  candidate    \* for each request key, the capture its pointer names

historyVars == <<completed, candidate>>

HistoryTypeOK ==
  /\ completed \subseteq Captures
  /\ candidate \in [Keys -> Captures \cup {NoCapture}]

Init ==
  /\ completed = {}
  /\ candidate = [k \in Keys |-> NoCapture]

\* The capture a request key resolves to: its pointer's, if that is complete.
Resolve(k) == IF candidate[k] \in completed THEN candidate[k] ELSE NoCapture

\* Install the pointer of a capture that is about to be committed.
Redirect(c) ==
  /\ \A d \in completed : d.id = c.id => d = c
  /\ candidate' = [candidate EXCEPT ![c.key] = c]
  /\ UNCHANGED completed

\* Make a whole capture visible under an identity that was not in use, and
\* that no pointer associates with a different capture.
Commit(c) ==
  /\ \A d \in completed : d.id # c.id
  /\ \A k \in Keys :
       candidate[k] # NoCapture /\ candidate[k].id = c.id => candidate[k] = c
  /\ completed' = completed \cup {c}
  /\ UNCHANGED candidate

Next == \E c \in Captures : Redirect(c) \/ Commit(c)

Spec == Init /\ [][Next]_historyVars

-----------------------------------------------------------------------------
(* An identity names one capture for ever, and a pointer to it names that  *)
(* capture: the agreement read_candidate checks before it trusts a pointer *)
(* (cargo-optic-store/src/candidate.rs).                                   *)
Agreement ==
  /\ \A c, d \in completed : c.id = d.id => c = d
  /\ \A k \in Keys : candidate[k] # NoCapture =>
       /\ candidate[k].key = k
       /\ \A d \in completed : d.id = candidate[k].id => d = candidate[k]
=============================================================================

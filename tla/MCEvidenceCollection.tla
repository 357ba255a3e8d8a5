------------------------ MODULE MCEvidenceCollection ------------------------
(***************************************************************************)
(* EvidenceCollection on small sets.  The compilations are a supported one *)
(* with and without local ThinLTO and all that differ from it in at most   *)
(* two respects.                                                           *)
(***************************************************************************)
EXTENDS EvidenceCollection, TLC

Supported(local) ==
  [verified |-> TRUE, backend |-> "llvm", initialized |-> "llvm",
   incremental |-> FALSE, plugin |-> FALSE, requiresLto |-> FALSE,
   cli |-> "unspecified", local |-> local]

Differences(b, c) == {f \in DOMAIN b : b[f] # c[f]}

MCBuilds ==
  {b \in BuildOptions :
     Cardinality(Differences(b, Supported(b.local)) \ {"initialized"}) <= 2}

Symmetry == Permutations(Files)
=============================================================================

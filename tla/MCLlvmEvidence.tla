--------------------------- MODULE MCLlvmEvidence ---------------------------
(***************************************************************************)
(* LlvmEvidence on small sets; the other symbols are interchangeable.      *)
(***************************************************************************)
EXTENDS LlvmEvidence, TLC

Symmetry == Permutations(OtherSymbols)
=============================================================================

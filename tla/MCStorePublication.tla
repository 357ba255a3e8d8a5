------------------------ MODULE MCStorePublication ------------------------
(***************************************************************************)
(* StorePublication on small sets.  Callers, identities, keys, tokens and  *)
(* artifacts are interchangeable: no definition tells two of a kind apart. *)
(***************************************************************************)
EXTENDS StorePublication, TLC

Symmetry ==
  Permutations(Publishers) \cup Permutations(Ids) \cup Permutations(Keys)
    \cup Permutations(Tokens) \cup Permutations(Artifacts)
=============================================================================

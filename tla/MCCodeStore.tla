---------------------------- MODULE MCCodeStore ----------------------------
(* Small instances of CodeStore for TLC. *)
EXTENDS CodeStore, TLC

\* Ids, short codes and users are interchangeable: compared only for equality.
StoreSymmetry ==
  Permutations(CodeId) \cup Permutations(ShortCode) \cup Permutations(User)
=============================================================================

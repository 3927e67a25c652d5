----------------------------- MODULE MCPgStore -----------------------------
(* Small instances of PgStore for TLC. *)
EXTENDS PgStore, TLC

CONSTANTS u1, r1, d1, s1, s2

New(s, r) ==
  [short |-> s, user |-> u1, mode |-> "dynamic", ref |-> r, dest |-> d1, state |-> "active"]

\* One code, and the same two codes in both orders; one carries a client_ref.
OpposedBatches ==
  LET x == New(s1, NoRef)
      y == New(s2, r1)
  IN  {<<x>>, <<x, y>>, <<y, x>>}

ClientSymmetry == Permutations(Client)
=============================================================================

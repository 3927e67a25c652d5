--------------------------- MODULE MCCodesService ---------------------------
(* Small instances of CodesService for TLC. *)
EXTENDS CodesService, TLC

CONSTANTS a1, g1, r1, d1, d2

In(alias, ref, dest, logo) ==
  [alias |-> alias, ref |-> ref, dest |-> dest, mode |-> "dynamic", logo |-> logo, check |-> "ok"]

\* Creation: an alias with a logo, and generated codes with and without a reference.
CreateInputs ==
  {In(a1, NoRef, d1, TRUE), In(NoAlias, NoRef, d1, FALSE), In(NoAlias, r1, d1, FALSE)}

\* Batches that race Create for the alias and for the reference, that repeat a
\* reference, and that carry items the wire format or validation refuses.
CreateBatches ==
  {<<In(a1, r1, d1, FALSE), In(NoAlias, NoRef, d1, FALSE)>>,
   <<[In(a1, r1, d1, FALSE) EXCEPT !.check = "refused"], In(NoAlias, r1, d2, TRUE),
     [In(a1, r1, d1, FALSE) EXCEPT !.check = "malformed"]>>}

\* One plain alias: what the cache runs create.
AliasInputs == {In(a1, NoRef, d1, FALSE)}

NoBatches == {}

\* Ids and workers are interchangeable, where no liveness is checked.
ServiceSymmetry == Permutations(CodeId) \cup Permutations(Worker)
=============================================================================

--------------------------- MODULE MCExportImport ---------------------------
(* Small instances of ExportImport for TLC. *)
EXTENDS ExportImport

ExportSymmetry == Permutations(CodeId) \cup Permutations(ShortCode)
=============================================================================

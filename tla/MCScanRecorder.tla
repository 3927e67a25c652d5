--------------------------- MODULE MCScanRecorder ---------------------------
(* A small instance of ScanRecorder for TLC. *)
EXTENDS ScanRecorder
=============================================================================

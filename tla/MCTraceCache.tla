------------------------------ MODULE MCTraceCache ------------------------------
(***************************************************************************)
(* Small instances of TraceCache for TLC.                                  *)
(***************************************************************************)
EXTENDS TraceProperties

CONSTANTS r1, r2

================================================================================

--------------------------- MODULE MCExternalScans ---------------------------
(***************************************************************************)
(* ExternalScans for TLC: two senders, of which the first one acquires two *)
(* scans and optimises twice, and the second one acquires one scan.        *)
(***************************************************************************)
EXTENDS ExternalScans

MCScansOf == [d \in 0 .. 2 |-> IF d = 1 THEN 1 ELSE 2]
MCOptimizationsOf == [d \in 0 .. 1 |-> IF d = 0 THEN 2 ELSE 0]
=============================================================================

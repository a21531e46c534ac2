--------------------------- MODULE MCRetentionSweep ---------------------------
(* Objects of which the large one never fits beside another.                *)
EXTENDS RetentionSweep
CONSTANTS k1, k2, k3
MCSize == [k \in Keys |-> IF k = k2 THEN 2 ELSE 1]
=============================================================================

--------------------------- MODULE MCOutputSigning ---------------------------
(* Instances for TLC: two sessions of the main output, the second for another *)
(* room, and one of a named output that shares the first one's batch.         *)
EXTENDS OutputSigning, TLC

CONSTANTS s1, s2, s3, stream, k1, k2

NameOf == [s \in Sessions |-> IF s = s3 THEN stream ELSE Main]
KeyOf == [s \in Sessions |-> IF s = s2 THEN k2 ELSE k1]
=============================================================================

--------------------------- MODULE MCAitumBridge ---------------------------
(* Instances of the Aitum bridge for TLC: the first output is wanted twice. *)
EXTENDS AitumBridge, TLC

CONSTANTS r1, r2, r3, o1, o2

Wanted == [r \in Requests |-> IF r = r2 THEN o2 ELSE o1]
=============================================================================

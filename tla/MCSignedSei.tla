---------------------------- MODULE MCSignedSei ----------------------------
(* An instance of the metadata session for TLC: a tick is about half a       *)
(* second, the slots of a cycle keep their order.                            *)
EXTENDS SignedSei, TLC

FiveOffsets == <<0, 0, 1, 2, 2>>
FiveKinds == <<"reuse", "delay", "current", "reuse", "current">>
=============================================================================

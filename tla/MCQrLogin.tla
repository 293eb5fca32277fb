----------------------------- MODULE MCQrLogin -----------------------------
(* An instance of QrLogin for TLC: two hosts, so that a code has a home and  *)
(* another host that may be behind it.                                       *)
EXTENDS QrLogin

AllFaults == {"failed", "unreadable", "lagging"}
=============================================================================

----------------------------- MODULE MCStudioRoom -----------------------------
(* An instance of StudioRoom for TLC: an account with two hosts, as with a    *)
(* saved IDC, and two rooms, so that one may be open when another is created. *)
EXTENDS StudioRoom

CONSTANTS r1, r2

MCRooms == {r1, r2}
AllFaults == {"failed", "lost", "login", "partial"}
=============================================================================

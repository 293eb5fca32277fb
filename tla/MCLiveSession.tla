--------------------------- MODULE MCLiveSession ---------------------------
(* Instances of the LIVE lifecycle for TLC. *)
EXTENDS LiveSessionProperties, TLC

CONSTANTS p1, p2, p3, p4, a1, a2

\* One profile of TikTok LIVE Studio with an account of its own.
StudioOnly == [p \in Profiles |-> "studio"]
OneAccount == [p \in Profiles |-> a1]

\* One profile of each provider, and two of Streamlabs that share an account.
Mixed == [p \in Profiles |-> IF p = p1 THEN "studio"
                             ELSE IF p \in {p2, p4} THEN "streamlabs" ELSE "manual"]
SharedAccount == [p \in Profiles |-> IF p = p1 THEN a1
                                     ELSE IF p \in {p2, p4} THEN a2 ELSE NoAccount]

\* Nothing tells one session, or one output, from another.
SessionsAndOutputs == Permutations(Sessions) \cup Permutations(Outputs)
=============================================================================

------------------------- MODULE MCStreamlabsLogin -------------------------
(* An instance of the Streamlabs logins for TLC. *)
EXTENDS StreamlabsLogin, TLC

\* No profile, login or token is special.
Alike ==
  Permutations(Profiles) \cup Permutations(Logins) \cup Permutations(Tokens)
=============================================================================

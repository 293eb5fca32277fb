--------------------------- MODULE ProfileSession ---------------------------
(***************************************************************************)
(* The LIVE part of a dock profile (struct Profile) and the pure functions *)
(* that change it: ProfileLiveSession::reserve, mark_uncertain, clear, and *)
(* the predicates that say which profiles hold an account or an output.    *)
(*                                                                         *)
(* Account names, stream servers and keys are not compared by the dock's   *)
(* control flow except for being present, so a profile carries only the    *)
(* identity of its LIVE session (live_id) and of its Aitum output.         *)
(***************************************************************************)
CONSTANTS
  Profiles,    \* the profiles saved in the dock
  Outputs,     \* the Aitum outputs a profile can name
  NoOutput,    \* output_name is empty: the credential-only target (main OBS output)
  Sessions,    \* identities a platform can give to LIVE sessions
  NoSession,   \* live_id is empty
  Unset,       \* frame_signing_output_name is empty and the main output is not signed
  NoAccount,   \* tiktok_account_id() is empty: never conflicts
  Provider,    \* profile -> "studio" | "streamlabs" | "manual"
  Account,     \* profile -> tiktok_account_id()
  Signing      \* profiles with frame_signing_enabled (always on for Studio)

Target == Outputs \cup {NoOutput}

ASSUME OutputAssumption == NoOutput \notin Outputs /\ Unset \notin Target
ASSUME SessionAssumption == NoSession \notin Sessions
ASSUME ProviderAssumption == Provider \in [Profiles -> {"studio", "streamlabs", "manual"}]

Studio == {p \in Profiles : Provider[p] = "studio"}

\* uses_local_credentials(): a session without a remote identity.
Local == {p \in Profiles : Provider[p] = "manual"}

\* supports_main_obs_output: credentials without an output, except for manual ones.
TargetsOf(p) == IF p \in Local THEN Outputs ELSE Target

\* The fields of struct Profile that the LIVE lifecycle reads and writes.
\* ready is can_go_live; signing stands for frame_signing_output_name together
\* with frame_signing_uses_main_output (NoOutput: the main output).
Row == [live : BOOLEAN, preparing : BOOLEAN, ending : BOOLEAN,
        recovering : BOOLEAN, uncertain : BOOLEAN,
        sid : Sessions \cup {NoSession}, output : Target, ready : BOOLEAN,
        signing : Target \cup {Unset}]

\* ProfileLiveSession::reserve
Reserve(row, s) ==
  [row EXCEPT !.live = TRUE, !.preparing = FALSE, !.ending = FALSE,
              !.recovering = FALSE, !.uncertain = FALSE, !.sid = s]

\* ProfileLiveSession::mark_uncertain
MarkUncertain(row, s) == [Reserve(row, s) EXCEPT !.uncertain = TRUE]

\* ProfileLiveSession::clear
Clear(row) ==
  [row EXCEPT !.live = FALSE, !.preparing = FALSE, !.ending = FALSE,
              !.recovering = FALSE, !.uncertain = FALSE, !.sid = NoSession,
              !.signing = Unset]

\* ProfileLiveSession::clear_output_assignment and the loss of can_go_live
\* that accompanies it wherever the LIVE lifecycle calls it.
Unassign(row) == [row EXCEPT !.output = NoOutput, !.ready = FALSE,
                              !.signing = Unset]

\* The row part of BridgeDock::clear_live_session: a manual key pair serves
\* one LIVE only, so a manual profile goes back to credential entry.
ClearLive(p, row) == IF p \in Local THEN Unassign(Clear(row)) ELSE Clear(row)

\* The output whose packet callback clear_live_session detaches.
SigningTarget(row) == IF row.signing = Unset THEN row.output ELSE row.signing

\* The candidate test of output_in_use_by_another_profile and of
\* active_profile_for_tiktok_account.
Holding(row) == row.live \/ row.preparing \/ row.uncertain

\* Mutant: only a profile that is LIVE holds its output.
OutputLive(p, rows) ==
  \E q \in Profiles \ {p} : rows[q].live /\ rows[q].output = rows[p].output

\* output_in_use_by_another_profile: two credential-only targets conflict too.
OutputInUse(p, rows) ==
  \E q \in Profiles \ {p} : Holding(rows[q]) /\ rows[q].output = rows[p].output

\* Mutant: a profile that is preparing does not hold its account yet.
AccountLive(p, rows) ==
  /\ Account[p] # NoAccount
  /\ \E q \in Profiles \ {p} : rows[q].live /\ Account[q] = Account[p]

\* active_profile_for_tiktok_account
AccountActive(p, rows) ==
  /\ Account[p] # NoAccount
  /\ \E q \in Profiles \ {p} : Holding(rows[q]) /\ Account[q] = Account[p]
=============================================================================

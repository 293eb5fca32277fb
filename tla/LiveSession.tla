----------------------------- MODULE LiveSession -----------------------------
(***************************************************************************)
(* The LIVE lifecycle of the dock: one thread (the Qt event loop) runs the *)
(* handlers of BridgeDock to completion, and everything slow is a call     *)
(* whose callback runs later, in any order with the callbacks of the other *)
(* calls.  `calls` holds what each pending callback captured; an action    *)
(* takes one of them and does all that the callback does, or does all that *)
(* one user action does.                                                   *)
(*                                                                         *)
(* A handler is written as a function on a record                          *)
(*   [row, calls, prep, signed, enc]                                       *)
(* of the profile it works on and the shared state, so that a chain of     *)
(* C++ calls within one handler is a composition of operators.             *)
(***************************************************************************)
EXTENDS ProfileSession, Naturals, FiniteSets

CONSTANTS
  Nobody,       \* the host of a session that is not open
  Faults,       \* the operations that may fail (see FaultKinds)
  MaxPending,   \* bound: a user acts on a profile with at most so many of its calls
                \* pending (0: only on one at rest)
  MaxRestarts   \* bound: how often OBS may stop and start again

\* find, create, update, sign, start, stop, end, resume: the operation reports
\*   an error and has no effect;
\* lost: create or end reports an error although it took effect;
\* partial: create reports an error together with the room it opened;
\* denied: TikTok refuses LIVE access when a session is created or an account
\*   is refreshed;
\* unverified: the output never reports active; encoder: an output stops by
\*   itself; remote: TikTok closes a session by itself.
FaultKinds == {"find", "create", "update", "sign", "start", "stop", "end", "resume",
               "lost", "partial", "denied", "unverified", "encoder", "remote"}

ASSUME HostAssumption == Nobody \notin Profiles
ASSUME EnvironmentAssumption ==
  Faults \subseteq FaultKinds /\ MaxPending \in Nat /\ MaxRestarts \in Nat

VARIABLES
  profile,             \* profiles_
  outputsPreparing,    \* outputs_preparing_
  calls,               \* the pending callbacks
  attached,            \* outputs with a packet callback (OutputSigningManager::sessions_)
  rooms,               \* which profile's account each open session belongs to
  encoders,            \* the state of each Aitum output
  restarts             \* how often OBS was restarted

vars == <<profile, outputsPreparing, calls, attached, rooms, encoders, restarts>>

\* end: the callback of a provider end_live, named for the handler that asked.
EndOps == {"endUser", "endFailed", "endUnsigned", "endUnstarted"}

Ops == EndOps \cup {"endUpdate", "endRecovery"}
       \cup {"find", "create", "resume", "reconcile", "update", "sign", "refresh"}
       \cup {"start", "verify"}                  \* single-shot timers
       \cup {"failed", "unsigned", "reset"}      \* modal boxes

Modal == {"failed", "unsigned", "reset"}

Call == [op : Ops, p : Profiles, o : Target, s : Sessions \cup {NoSession}, start : BOOLEAN]

\* A reserved or remembered identity of no current session.
Unused(s) == /\ rooms[s] = Nobody
             /\ \A p \in Profiles : profile[p].sid # s
             /\ \A c \in calls : c.s # s

\* The rooms TikTok reports for the login of a profile.
OpenFor(p) == {s \in Sessions : rooms[s] # Nobody /\ Account[rooms[s]] = Account[p]}

-----------------------------------------------------------------------------
\* Handlers.

Now(p) == [row |-> profile[p], calls |-> calls, prep |-> outputsPreparing,
           signed |-> attached, enc |-> encoders]

Commit(p, h) ==
  /\ profile' = [profile EXCEPT ![p] = h.row]
  /\ calls' = h.calls
  /\ outputsPreparing' = h.prep
  /\ attached' = h.signed
  /\ encoders' = h.enc

With(h, row) == [h EXCEPT !.row = row]
Take(h, c) == [h EXCEPT !.calls = @ \ {c}]
Issue(h, c) == [h EXCEPT !.calls = @ \cup {c}]
Unmark(h, o) == [h EXCEPT !.prep = @ \ {o}]

\* OutputSigningManager::detach: a pending prefetch is dropped with its
\* completion, which finish_initial_prepare then never calls.
Detach(h, o) == [h EXCEPT !.calls = {c \in @ : c.op # "sign" \/ c.o # o},
                          !.signed = @ \ {o}]

\* BridgeDock::clear_live_session
ClearSession(h, p) == With(Detach(h, SigningTarget(h.row)), ClearLive(p, h.row))

\* The refresh_tiktok_studio_account that follows a confirmed start: only its
\* refusal changes the row.
Refresh(h, p) ==
  IF p \in Studio /\ "denied" \in Faults
  THEN Issue(h, [op |-> "refresh", p |-> p, o |-> NoOutput, s |-> NoSession, start |-> FALSE])
  ELSE h

\* Mutant: the error branch returns before it resets ending.
FinishEndSticky(h, c, ended) == IF ended THEN ClearSession(h, c.p) ELSE h

\* The end_live callbacks.
FinishEnd(h, c, ended) ==
  LET g == IF c.start \/ c.op \in {"endUnsigned", "endUnstarted"} THEN Unmark(h, c.o) ELSE h
      done == [g.row EXCEPT !.ending = FALSE]
  IN IF ended
     THEN IF c.op = "endUpdate" THEN With(g, [g.row EXCEPT !.preparing = FALSE])
          ELSE IF c.op = "endUser" THEN Refresh(ClearSession(With(g, done), c.p), c.p)
          ELSE ClearSession(With(g, done), c.p)
     ELSE With(g, CASE c.op = "endUser" -> [done EXCEPT !.uncertain = TRUE]
                    [] c.op = "endFailed" -> [done EXCEPT !.live = FALSE, !.uncertain = TRUE]
                    [] c.op = "endUnsigned" -> MarkUncertain(done, c.s)
                    [] c.op = "endUnstarted" -> done
                    [] c.op = "endUpdate" -> Reserve(g.row, c.s)
                    [] c.op = "endRecovery" -> [g.row EXCEPT !.recovering = FALSE,
                                                             !.uncertain = TRUE])

\* ProviderLifecycle::end_live: at once for manual credentials and, with an
\* error, for a session without identity.
RequestEnd(h, c) ==
  IF c.p \in Local THEN FinishEnd(h, c, TRUE)
  ELSE IF c.s = NoSession THEN FinishEnd(h, c, FALSE)
  ELSE Issue(h, c)

\* fail_tiktok_studio_start up to its error box; Dismissed is the rest.
Fail(h, c) ==
  Issue(With(Detach(h, c.o), [h.row EXCEPT !.preparing = FALSE, !.ending = TRUE]),
        [c EXCEPT !.op = "failed"])

\* The callbacks of prepare_output_signing.
Signed(h, c) ==
  IF c.p \in Studio
  THEN Refresh(With(h, [h.row EXCEPT !.live = TRUE, !.preparing = FALSE]), c.p)
  ELSE LET g == With(h, [h.row EXCEPT !.preparing = FALSE])
       IN IF c.start THEN Issue(g, [c EXCEPT !.op = "start"]) ELSE g

Unsigned(h, c) ==
  IF c.p \in Studio THEN Fail(h, [c EXCEPT !.start = FALSE])
  ELSE Issue(With(h, [h.row EXCEPT !.preparing = FALSE, !.ending = TRUE]),
             [c EXCEPT !.op = "unsigned"])

\* prepare_output_signing and prepare_and_attach
RequestSign(h, c) ==
  IF c.p \in Signing
  THEN Issue(Detach(With(h, [h.row EXCEPT !.signing = c.o]), c.o), [c EXCEPT !.op = "sign"])
  ELSE LET previous == IF h.row.signing = Unset THEN c.o ELSE h.row.signing
       IN Signed(With(Detach(h, previous), [h.row EXCEPT !.signing = Unset]), c)

\* The callbacks of update_aitum_output_for_profile.
Updated(h, c) ==
  IF c.p \in Studio
  THEN IF c.start        \* prepare_tiktok_studio_output
       THEN Issue(With(h, [h.row EXCEPT !.preparing = TRUE]), [c EXCEPT !.op = "start"])
       ELSE Refresh(Unmark(With(h, [h.row EXCEPT !.live = TRUE, !.preparing = FALSE]), c.o), c.p)
  ELSE RequestSign(With(h, [Reserve(h.row, c.s) EXCEPT !.preparing = c.p \in Signing]), c)

\* Mutant: the session is not ended when Aitum rejects its credentials.
NotUpdatedForgets(h, c) == With(h, [h.row EXCEPT !.preparing = FALSE])

NotUpdated(h, c) ==
  IF c.p \in Studio THEN Fail(h, c)
  ELSE RequestEnd(With(h, [h.row EXCEPT !.preparing = FALSE]), [c EXCEPT !.op = "endUpdate"])

\* Mutant: no check for a running transaction.
RequestUpdateAnyway(h, c) == Issue(h, [c EXCEPT !.op = "update"])

\* AitumBridge::update_async: one transaction at a time, a second is refused.
RequestUpdate(h, c) ==
  IF \E d \in h.calls : d.op = "update" THEN NotUpdated(h, c)
  ELSE Issue(h, [c EXCEPT !.op = "update"])

\* Mutant: the session is recorded only when the start is confirmed.
ActivateUnrecorded(h, c) ==
  LET g == With(h, [h.row EXCEPT !.preparing = TRUE])
  IN IF c.o = NoOutput THEN RequestSign(g, c) ELSE RequestUpdate(g, c)

\* activate_tiktok_studio_live
Activate(h, c) ==
  LET g == With(h, [Reserve(h.row, c.s) EXCEPT !.live = FALSE, !.preparing = TRUE])
  IN IF c.o = NoOutput THEN RequestSign(g, c) ELSE RequestUpdate(g, c)

\* The success branch of the create_live callback in start_profile_live.
Created(h, c) ==
  IF c.o = NoOutput
  THEN IF c.p \in Signing
       THEN RequestSign(With(h, [Reserve(h.row, c.s) EXCEPT !.preparing = TRUE]), c)
       ELSE With(h, Reserve(h.row, c.s))
  ELSE RequestUpdate(h, c)

\* start_profile_live after its guards; studio profiles look for a room first.
Begin(h, p, start) ==
  LET g == With(h, [h.row EXCEPT !.preparing = TRUE, !.ending = FALSE, !.uncertain = FALSE])
      c == [op |-> IF p \in Studio THEN "find" ELSE "create",
            p |-> p, o |-> h.row.output, s |-> NoSession, start |-> start]
  IN IF p \in Local THEN Created(g, c) ELSE Issue(g, c)

\* start_profile_live
Start(h, p, start) ==
  IF h.row.recovering \/ OutputInUse(p, profile) \/ AccountActive(p, profile)
  THEN IF start THEN Unmark(h, h.row.output) ELSE h
  ELSE Begin(h, p, start)

\* end_unstarted_aitum_session
EndUnstarted(h, c) ==
  IF (~h.row.live /\ ~h.row.preparing) \/ (c.p \notin Local /\ h.row.sid = NoSession)
  THEN Unmark(h, c.o)
  ELSE RequestEnd(With(h, [h.row EXCEPT !.ending = TRUE]),
                  [c EXCEPT !.op = "endUnstarted", !.s = h.row.sid])

\* Mutant: an accepted start counts as an active output.
VerifyAccepted(h, c) ==
  IF (~h.row.live /\ ~h.row.preparing) \/ h.row.ending THEN Unmark(h, c.o)
  ELSE IF h.enc[c.o] # "off"
  THEN With(Unmark(h, c.o), [h.row EXCEPT !.live = TRUE, !.preparing = FALSE])
  ELSE Issue(h, [c EXCEPT !.op = "verify"])

\* One attempt of verify_aitum_output_started.
VerifyOnce(h, c) ==
  IF (~h.row.live /\ ~h.row.preparing) \/ h.row.ending THEN Unmark(h, c.o)
  ELSE IF h.enc[c.o] = "active"
  THEN Refresh(With(Unmark(h, c.o), [h.row EXCEPT !.live = TRUE, !.preparing = FALSE,
                                                  !.uncertain = FALSE]), c.p)
  ELSE Issue(h, [c EXCEPT !.op = "verify"])

\* end_profile_live; stopped is false when Aitum could not stop the output.
End(h, p, stopped) ==
  LET o == h.row.output
      ask == [op |-> "endUser", p |-> p, o |-> o, s |-> h.row.sid, start |-> FALSE]
      g == With(h, [h.row EXCEPT !.ending = TRUE])
  IN IF o = NoOutput \/ h.enc[o] # "active" THEN RequestEnd(g, ask)
     ELSE IF stopped THEN RequestEnd([g EXCEPT !.enc[o] = "off"], ask)
     ELSE h
-----------------------------------------------------------------------------
\* Actions of the user.

\* A message box is open: the dock and Aitum take no clicks.
Blocked == \E c \in calls : c.op \in Modal

MayAct(p) == ~Blocked /\ Cardinality({c \in calls : c.p = p}) <= MaxPending

Same == UNCHANGED <<rooms, restarts>>

\* The Go LIVE button of the stream step (can_start_live, start_selected_live).
PressGoLive(p) ==
  LET row == profile[p] IN
  /\ MayAct(p)
  /\ row.ready /\ ~row.preparing /\ ~row.live /\ ~row.recovering /\ ~row.uncertain
  /\ row.output \in TargetsOf(p)
  /\ Commit(p, Start(Now(p), p, row.output # NoOutput))
  /\ Same

\* An Aitum output button that is off (eventFilter): a LIVE or unlinked output
\* is left to Aitum; otherwise a ready linked profile goes LIVE on it.
PressOutputOn(o) ==
  LET linked == {p \in Profiles : profile[p].output = o}
      ready == {p \in linked : LET row == profile[p] IN
                   /\ row.ready /\ ~row.live /\ ~row.preparing /\ ~row.uncertain
                   /\ ~AccountActive(p, profile)}
  IN /\ ~Blocked /\ encoders[o] = "off"
     /\ \/ /\ linked = {} \/ \E p \in linked : profile[p].live
           /\ encoders' = [encoders EXCEPT ![o] = "starting"]
           /\ UNCHANGED <<profile, calls, outputsPreparing, attached>>
        \/ /\ \A p \in linked : ~profile[p].live
           /\ o \notin outputsPreparing
           /\ \E p \in ready :
                /\ MayAct(p)
                /\ Commit(p, Start([Now(p) EXCEPT !.prep = @ \cup {o}], p, TRUE))
     /\ Same

\* An Aitum output button that is on: Aitum stops the output and the dock ends
\* the LIVE of the profile linked to it, if any (end_live_for_output).
PressOutputOff(o) ==
  LET linked == {p \in Profiles : profile[p].output = o /\ profile[p].live}
      stopped(p) == [Now(p) EXCEPT !.enc[o] = "off"]
  IN /\ ~Blocked /\ encoders[o] = "active"
     /\ \/ /\ linked = {}
           /\ encoders' = [encoders EXCEPT ![o] = "off"]
           /\ UNCHANGED <<profile, calls, outputsPreparing, attached>>
        \/ \E p \in linked :
             /\ MayAct(p)
             /\ Commit(p, IF profile[p].ending \/ profile[p].recovering THEN stopped(p)
                          ELSE End(stopped(p), p, TRUE))
     /\ Same

\* The End LIVE button (end_profile_live).
PressEnd(p) ==
  LET row == profile[p] IN
  /\ MayAct(p)
  /\ row.live \/ row.preparing \/ row.uncertain
  /\ ~row.ending /\ ~row.recovering
  /\ \E stopped \in {TRUE} \cup {b \in {FALSE} : "stop" \in Faults} :
       Commit(p, End(Now(p), p, stopped))
  /\ Same

\* The same button of an idle manual profile (return_selected_manual_profile_to_credentials).
PressReturn(p) ==
  LET row == profile[p] IN
  /\ MayAct(p) /\ p \in Local /\ row.ready
  /\ ~Holding(row) /\ ~row.ending /\ ~row.recovering
  /\ Commit(p, ClearSession(Now(p), p))
  /\ Same

\* The Resume button (resume_tiktok_studio_live).
PressResume(p) ==
  LET row == profile[p] IN
  /\ MayAct(p) /\ p \in Studio
  /\ row.uncertain /\ row.sid # NoSession
  /\ ~row.preparing /\ ~row.ending /\ ~row.recovering
  /\ Commit(p, Issue(With(Now(p), [row EXCEPT !.preparing = TRUE, !.recovering = TRUE]),
                      [op |-> "resume", p |-> p, o |-> row.output, s |-> NoSession,
                       start |-> FALSE]))
  /\ Same

\* The Reset button opens a confirmation; callbacks run while it is open.
PressReset(p) ==
  /\ MayAct(p) /\ profile[p].uncertain
  /\ Commit(p, Issue(Now(p), [op |-> "reset", p |-> p, o |-> NoOutput, s |-> NoSession,
                              start |-> FALSE]))
  /\ Same

\* The output selector of the stream step, enabled by apply_output_mode.
ChooseOutput(p, o) ==
  LET row == profile[p] IN
  /\ MayAct(p)
  /\ row.ready \/ row.uncertain
  /\ ~row.live /\ ~row.preparing /\ ~row.recovering
  /\ o \in TargetsOf(p) \ {row.output}
  /\ Commit(p, With(Now(p), [row EXCEPT !.output = o]))
  /\ Same

\* Credentials are entered (save_local_credentials) or an account refresh
\* confirms LIVE access (ProfileAccountStatus::apply).
BecomeReady(p) ==
  LET row == profile[p] IN
  /\ MayAct(p) /\ ~row.ready
  /\ ~Holding(row) /\ ~row.ending /\ ~row.recovering
  /\ Commit(p, With(Now(p), [row EXCEPT !.ready = TRUE]))
  /\ Same

-----------------------------------------------------------------------------
\* Callbacks.

Quiet(c, h) == Commit(c.p, h) /\ Same

\* start_tiktok_studio_live: find_continuable_live answered.
FindAnswered(c) ==
  LET h == Take(Now(c.p), c)
      failed == Unmark(With(h, [h.row EXCEPT !.preparing = FALSE]), c.o)
  IN /\ c.op = "find"
     /\ \/ \E s \in OpenFor(c.p) :
             Commit(c.p, Unmark(With(h, [MarkUncertain(h.row, s) EXCEPT !.live = FALSE]), c.o))
        \/ /\ OpenFor(c.p) = {}
           /\ Commit(c.p, Issue(h, [c EXCEPT !.op = "create", !.o = h.row.output]))
        \/ "find" \in Faults /\ Commit(c.p, failed)
     /\ Same

\* create_live answered with a room.  start_live_sync hands out a room the
\* login already has before it opens one.
CreateAnswered(c) ==
  LET h == Take(Now(c.p), c)
      left == IF "denied" \in Faults THEN {h.row, Unassign(h.row)} ELSE {h.row}
      given == IF c.p \in Studio /\ OpenFor(c.p) # {} THEN OpenFor(c.p)
               ELSE {s \in Sessions : Unused(s)}
  IN /\ c.op = "create"
     /\ \E s \in given :
          /\ rooms' = [rooms EXCEPT ![s] = c.p]
          /\ LET d == [c EXCEPT !.s = s] IN
             \/ Commit(c.p, IF c.p \in Studio THEN Activate(h, d) ELSE Created(h, d))
             \/ /\ "partial" \in Faults /\ c.p \in Studio
                /\ \E row \in left :
                     Commit(c.p, Fail(With(h, [Reserve(row, s) EXCEPT !.live = FALSE]), d))
     /\ UNCHANGED restarts

\* create_live answered with an error and no room; the room may exist.
CreateFailed(c) ==
  LET h == Take(Now(c.p), c)
      left == IF "denied" \in Faults THEN {h.row, Unassign(h.row)} ELSE {h.row}
  IN /\ c.op = "create"
     /\ \E row \in left :
          LET g == With(h, [row EXCEPT !.preparing = FALSE])
          IN Commit(c.p, IF c.p \in Studio \/ c.start THEN Unmark(g, c.o) ELSE g)
     /\ \/ Faults \cap {"create", "denied"} # {} /\ rooms' = rooms
        \/ /\ "lost" \in Faults
           /\ \E s \in Sessions : Unused(s) /\ rooms' = [rooms EXCEPT ![s] = c.p]
     /\ UNCHANGED restarts

\* Mutant: the error branch leaves recovering set.
ResumeStuck(c) ==
  /\ c.op = "resume"
  /\ Commit(c.p, With(Take(Now(c.p), c), [profile[c.p] EXCEPT !.preparing = FALSE,
                                                              !.uncertain = TRUE]))
  /\ Same

\* resume_tiktok_studio_live: resume_live answered.
ResumeAnswered(c) ==
  LET h == Take(Now(c.p), c)
      row == [h.row EXCEPT !.recovering = FALSE]
      failed == [row EXCEPT !.preparing = FALSE, !.uncertain = TRUE]
      known(s) == [MarkUncertain(row, s) EXCEPT !.live = FALSE]
  IN /\ c.op = "resume"
     /\ \/ \E s \in OpenFor(c.p) : Commit(c.p, Activate(With(h, row), [c EXCEPT !.s = s]))
        \/ /\ OpenFor(c.p) = {} \/ "resume" \in Faults
           /\ Commit(c.p, Unmark(With(h, failed), c.o))
        \/ /\ "resume" \in Faults
           /\ \E s \in OpenFor(c.p) : Commit(c.p, Unmark(With(h, known(s)), c.o))
     /\ Same

\* AitumBridge::finish
UpdateAnswered(c) ==
  LET h == Take(Now(c.p), c) IN
  /\ c.op = "update"
  /\ \/ Quiet(c, Updated(h, c))
     \/ "update" \in Faults /\ Quiet(c, NotUpdated(h, c))

\* OutputSigningManager::finish_initial_prepare
SignAnswered(c) ==
  LET h == Take(Now(c.p), c) IN
  /\ c.op = "sign"
  /\ \/ Quiet(c, Signed([h EXCEPT !.signed = @ \cup {c.o}], c))
     \/ "sign" \in Faults /\ Quiet(c, Unsigned(h, c))

\* The 250 ms timer of start_aitum_output_and_verify.
StartFires(c) ==
  LET h == Take(Now(c.p), c)
      started == [h EXCEPT !.enc[c.o] = IF @ = "off" THEN "starting" ELSE @]
      failed == Unmark(h, c.o)
  IN /\ c.op = "start"
     /\ \/ Quiet(c, VerifyOnce(started, c))
        \/ /\ "start" \in Faults
           /\ Quiet(c, IF c.p \in Studio THEN Fail(failed, [c EXCEPT !.s = h.row.sid])
                       ELSE Detach(failed, c.o))

\* The 500 ms timer of verify_aitum_output_started.
VerifyFires(c) ==
  /\ c.op = "verify"
  /\ Quiet(c, VerifyOnce(Take(Now(c.p), c), c))

\* Mutant: the number of the attempt is not passed on, so that none is the last.
VerifyGivesUpNever(c) ==
  /\ c.op = "verify" /\ "unverified" \in Faults
  /\ VerifyOnce(Take(Now(c.p), c), c) = Now(c.p)
  /\ UNCHANGED vars

\* The last of its 20 attempts.
VerifyGivesUp(c) ==
  LET h == Take(Now(c.p), c) IN
  /\ c.op = "verify" /\ "unverified" \in Faults
  /\ VerifyOnce(h, c) = Now(c.p)
  /\ Quiet(c, EndUnstarted(h, c))

\* Mutant: nothing is asked of the platform once the box is closed.
FailedForgotten(c) == c.op = "failed" /\ Quiet(c, Take(Now(c.p), c))

\* The error box of fail_tiktok_studio_start is closed.
FailedDismissed(c) ==
  LET h == Take(Now(c.p), c)
      active == c.start /\ c.o \in Outputs /\ h.enc[c.o] = "active"
      stop == {TRUE} \cup {b \in {FALSE} : "stop" \in Faults}
      left(b) == IF active /\ b THEN [h EXCEPT !.enc[c.o] = "off"] ELSE h
  IN /\ c.op = "failed"
     /\ \E b \in stop : Quiet(c, RequestEnd(left(b), [c EXCEPT !.op = "endFailed"]))

\* The error box of a failed signature prefetch is closed.
UnsignedDismissed(c) ==
  /\ c.op = "unsigned"
  /\ Quiet(c, RequestEnd(Take(Now(c.p), c), [c EXCEPT !.op = "endUnsigned"]))

\* The reset confirmation is closed.
ResetDismissed(c) ==
  LET h == Take(Now(c.p), c) IN
  /\ c.op = "reset"
  /\ Quiet(c, h) \/ Quiet(c, ClearSession(h, c.p))

\* A provider end_live answered.
EndAnswered(c) ==
  LET h == Take(Now(c.p), c)
      closed == [rooms EXCEPT ![c.s] = Nobody]
  IN /\ c.op \in EndOps \cup {"endUpdate", "endRecovery"}
     /\ \/ Commit(c.p, FinishEnd(h, c, TRUE)) /\ rooms' = closed
        \/ "end" \in Faults /\ Commit(c.p, FinishEnd(h, c, FALSE)) /\ rooms' = rooms
        \/ "lost" \in Faults /\ Commit(c.p, FinishEnd(h, c, FALSE)) /\ rooms' = closed
     /\ UNCHANGED restarts

\* refresh_tiktok_studio_account answered; a refusal drops the output.
RefreshAnswered(c) ==
  LET h == Take(Now(c.p), c) IN
  /\ c.op = "refresh"
  /\ Quiet(c, h) \/ Quiet(c, With(h, Unassign(h.row)))

\* Mutant: any failed heartbeat counts as a closed room.
HeartbeatFailed(p) ==
  /\ p \in Studio /\ profile[p].live /\ ~profile[p].ending /\ ~profile[p].recovering
  /\ Commit(p, ClearSession(Now(p), p))
  /\ Same

\* run_tiktok_studio_heartbeats: the third stale answer in a row.
HeartbeatStale(p) ==
  LET row == profile[p] IN
  /\ p \in Studio /\ row.live /\ ~row.ending /\ ~row.recovering
  /\ ~row.preparing /\ ~row.uncertain
  /\ row.sid # NoSession /\ rooms[row.sid] = Nobody
  /\ Commit(p, Refresh(ClearSession(Now(p), p), p))
  /\ Same

\* reconcile_previous_sessions: find_continuable_live answered.
ReconcileAnswered(c) ==
  LET h == Take(Now(c.p), c)
      row == [h.row EXCEPT !.recovering = FALSE, !.preparing = FALSE]
  IN /\ c.op = "reconcile"
     /\ \/ \E s \in OpenFor(c.p) :
             Commit(c.p, With(h, [MarkUncertain(row, s) EXCEPT !.live = FALSE]))
        \/ OpenFor(c.p) = {} /\ Commit(c.p, ClearSession(With(h, row), c.p))
        \/ /\ "find" \in Faults
           /\ Commit(c.p, With(h, [row EXCEPT !.live = FALSE, !.uncertain = TRUE]))
     /\ Same

-----------------------------------------------------------------------------
\* The environment.

EncoderUp(o) ==
  /\ encoders[o] = "starting"
  /\ encoders' = [encoders EXCEPT ![o] = "active"]
  /\ UNCHANGED <<profile, outputsPreparing, calls, attached, rooms, restarts>>

EncoderDown(o) ==
  /\ "encoder" \in Faults /\ encoders[o] # "off"
  /\ encoders' = [encoders EXCEPT ![o] = "off"]
  /\ UNCHANGED <<profile, outputsPreparing, calls, attached, rooms, restarts>>

RoomCloses(s) ==
  /\ "remote" \in Faults /\ rooms[s] # Nobody
  /\ rooms' = [rooms EXCEPT ![s] = Nobody]
  /\ UNCHANGED <<profile, outputsPreparing, calls, attached, encoders, restarts>>

\* The row load_profiles reads back: the flags other than live are not saved,
\* and a profile that is neither LIVE nor ready loses its output.  Then
\* reconcile_previous_sessions looks at the profiles that were live: a manual one
\* stays LIVE if its output is among those already active, and is over otherwise.
Loaded(p, active) ==
  LET row == profile[p]
      saved == [row EXCEPT !.preparing = FALSE, !.ending = FALSE, !.recovering = FALSE,
                           !.uncertain = FALSE, !.signing = Unset]
      over == IF p \in Local THEN row.output \notin active
              ELSE p \notin Studio /\ row.sid = NoSession
  IN IF ~row.live THEN (IF row.ready THEN saved ELSE Unassign(saved))
     ELSE IF over THEN ClearLive(p, saved)
     ELSE IF p \in Local THEN saved
     ELSE [saved EXCEPT !.recovering = TRUE]

\* OBS stops at any moment and starts again, with some outputs already running;
\* requests that were on their way may have been carried out.
Restart ==
  LET ends == {c.s : c \in {d \in calls : d.op \in EndOps \cup {"endUpdate", "endRecovery"}}}
      asked == {c.p : c \in {d \in calls : d.op = "create"}}
  IN /\ restarts < MaxRestarts
     /\ restarts' = restarts + 1
     /\ \E active \in SUBSET Outputs :
          /\ profile' = [p \in Profiles |-> Loaded(p, active)]
          /\ calls' = {[op |-> IF p \in Studio THEN "reconcile" ELSE "endRecovery", p |-> p,
                        o |-> profile[p].output, s |-> profile[p].sid, start |-> FALSE] :
                       p \in {q \in Profiles : Loaded(q, active).recovering}}
          /\ encoders' = [o \in Outputs |-> IF o \in active THEN "active" ELSE "off"]
     /\ outputsPreparing' = {} /\ attached' = {}
     /\ \E closed \in SUBSET (ends \ {NoSession}),
           made \in [asked -> {s \in Sessions : Unused(s)} \cup {NoSession}] :
          /\ \A p, q \in asked : p # q => made[p] # made[q] \/ made[p] = NoSession
          /\ rooms' = [s \in Sessions |->
                        IF s \in closed THEN Nobody
                        ELSE IF \E p \in asked : made[p] = s
                        THEN CHOOSE p \in asked : made[p] = s
                        ELSE rooms[s]]

-----------------------------------------------------------------------------
Init ==
  /\ profile \in [Profiles -> {[live |-> FALSE, preparing |-> FALSE, ending |-> FALSE,
                               recovering |-> FALSE, uncertain |-> FALSE, sid |-> NoSession,
                               output |-> o, ready |-> TRUE, signing |-> Unset] : o \in Target}]
  /\ outputsPreparing = {} /\ calls = {} /\ attached = {}
  /\ rooms = [s \in Sessions |-> Nobody]
  /\ encoders = [o \in Outputs |-> "off"]
  /\ restarts = 0

User ==
  \/ \E p \in Profiles : \/ PressGoLive(p) \/ PressEnd(p) \/ PressReturn(p) \/ PressResume(p)
                          \/ PressReset(p) \/ BecomeReady(p)
                          \/ \E o \in Target : ChooseOutput(p, o)
  \/ \E o \in Outputs : PressOutputOn(o) \/ PressOutputOff(o)

Callback ==
  \E c \in calls :
    \/ FindAnswered(c) \/ CreateAnswered(c) \/ CreateFailed(c) \/ ResumeAnswered(c)
    \/ UpdateAnswered(c) \/ SignAnswered(c) \/ StartFires(c) \/ VerifyFires(c)
    \/ VerifyGivesUp(c)
    \/ FailedDismissed(c) \/ UnsignedDismissed(c) \/ ResetDismissed(c)
    \/ EndAnswered(c) \/ RefreshAnswered(c) \/ ReconcileAnswered(c)

Environment ==
  \/ \E p \in Profiles : HeartbeatStale(p)
  \/ \E o \in Outputs : EncoderUp(o) \/ EncoderDown(o)
  \/ \E s \in Sessions : RoomCloses(s)
  \/ Restart

Next == User \/ Callback \/ Environment

Spec == Init /\ [][Next]_vars
=============================================================================

----------------------------- MODULE AitumBridge -----------------------------
(***************************************************************************)
(* AitumBridge writes stream credentials into Aitum by driving its         *)
(* settings dialogs from a chain of 25 ms timers: open the settings, find  *)
(* the output, open its editor, type, save, confirm the settings.  It      *)
(* never waits for a dialog; it polls.                                     *)
(*                                                                         *)
(* Aitum's dialogs are modelled from how the bridge uses them: a dialog    *)
(* runs its own event loop, Aitum stores what it holds when that loop has  *)
(* returned, and the loop of the settings returns after the editor's.      *)
(***************************************************************************)
EXTENDS Naturals

CONSTANTS
  Requests, Outputs, Target, NoRequest,  \* see OutputUpdates
  MaxPolls,   \* maximum_polls (200)
  Grace,      \* the poll that forces the save (8)
  Faults      \* what Aitum and the user may do (see FaultKinds)

\* unavailable: the settings button shows nothing; button, tab, output, action,
\*   fields, typing, save: that widget is missing or refuses;
\* disabled: a click on Save Output has no effect;
\* retained: a closed editor stays a hidden child of the settings;
\* user: the user opens the settings, whatever the bridge is doing;
\* cancel, dismiss: the user closes the editor, or the settings, that the
\*   bridge is working in;
\* nested: a message box of the dock, opened over a dialog, keeps the loop of
\*   that dialog from returning while timers run on.
FaultKinds == {"unavailable", "button", "tab", "output", "action", "fields", "typing",
               "save", "disabled", "retained", "user", "cancel", "dismiss", "nested"}

ASSUME RequestAssumption == Target \in [Requests -> Outputs] /\ NoRequest \notin Requests
ASSUME PollAssumption == MaxPolls \in Nat /\ Grace \in Nat /\ Grace < MaxPolls
ASSUME FaultAssumption == Faults \subseteq FaultKinds

VARIABLES
  phase,      \* phase_
  opened,     \* opened_settings_
  retries,    \* retries_
  current,    \* the request of credentials_ and completion_
  found,      \* settings_dialog_ is set (Aitum keeps the dialog for good)
  own,        \* stream_dialog_: the request whose click opened that editor
  timers,     \* pending single-shot timers
  clicks,     \* queued clicks: settings, output, save
  settings,   \* Aitum's settings dialog; accepted, rejected: hidden, its loop has not returned
  users,      \* the user opened the settings dialog
  page,       \* the Output page is constructed
  editor,     \* the editor of an output, while its loop runs
  retained,   \* hidden editors that Aitum has not deleted
  draft,      \* the outputs in the settings dialog
  stored,     \* the outputs in Aitum's live profile
  result      \* what each request was answered

bridge == <<phase, opened, retries, current, found, own, timers>>
aitum == <<settings, users, page, editor, retained, draft, stored>>
vars == <<bridge, clicks, aitum, result>>

Failures == {"AitumNotAvailable", "TargetOutputMissing", "OutputTabMissing",
             "OutputActionMissing", "EditorInvalid", "CredentialUpdateFailed",
             "SaveActionMissing", "SaveConfirmationTimeout", "SettingsAlreadyOpen"}

\* by: the request whose click opened it; typed: whose credentials its fields hold.
\* requested: Aitum has not created it; starting: created but not visible yet.
Editor == [by : Requests, typed : Requests \cup {NoRequest},
           state : {"requested", "starting", "open", "accepted", "rejected"}]
NoEditor == [by |-> NoRequest, typed |-> NoRequest, state |-> "none"]

Fault(f) == f \in Faults

-----------------------------------------------------------------------------
\* The bridge.

Init ==
  /\ phase = "Idle" /\ opened = FALSE /\ retries = 0 /\ current = NoRequest
  /\ found = FALSE /\ own = NoRequest /\ timers = 0 /\ clicks = {}
  /\ settings = "closed" /\ users = FALSE /\ page = FALSE
  /\ editor = NoEditor /\ retained = {}
  /\ draft = [o \in Outputs |-> NoRequest] /\ stored = [o \in Outputs |-> NoRequest]
  /\ result = [r \in Requests |-> "new"]

\* Mutant: the phase is not tested.
UpdateAnyway(r) ==
  /\ result[r] = "new"
  /\ result' = [result EXCEPT ![r] = "pending"]
  /\ phase' = "FindSettings" /\ opened' = FALSE /\ retries' = 0 /\ current' = r
  /\ timers' = timers + 1
  /\ UNCHANGED <<found, own, clicks, aitum>>

\* Mutant: opened_settings_ keeps its value from the last transaction.
UpdateStillOpened(r) ==
  /\ result[r] = "new"
  /\ IF phase # "Idle"
     THEN /\ result' = [result EXCEPT ![r] = "Busy"]
          /\ UNCHANGED bridge
     ELSE /\ result' = [result EXCEPT ![r] = "pending"]
          /\ phase' = "FindSettings" /\ retries' = 0 /\ current' = r
          /\ timers' = timers + 1
          /\ UNCHANGED <<opened, found, own>>
  /\ UNCHANGED <<clicks, aitum>>

\* update_async
UpdateAsync(r) ==
  /\ result[r] = "new"
  /\ IF phase # "Idle"
     THEN /\ result' = [result EXCEPT ![r] = "Busy"]
          /\ UNCHANGED bridge
     ELSE /\ result' = [result EXCEPT ![r] = "pending"]
          /\ phase' = "FindSettings" /\ opened' = FALSE /\ retries' = 0 /\ current' = r
          /\ timers' = timers + 1
          /\ UNCHANGED <<found, own>>
  /\ UNCHANGED <<clicks, aitum>>

\* accept() or reject() of the settings dialog: it hides, and its loop ends
\* with that result; a dialog whose loop is not running stays closed.
Close(how) == IF settings = "closed" THEN "closed" ELSE how

\* Mutant: the settings are closed only after a success.
FinishLeavesOpen(res) ==
  /\ phase' = "Idle"
  /\ result' = [result EXCEPT ![current] = res]
  /\ settings' = IF opened /\ found' /\ res = "Success" THEN Close("accepted") ELSE settings
  /\ UNCHANGED <<opened, current, users, page, retained, draft, stored>>

\* Mutant: the settings are closed, never confirmed.
FinishRejects(res) ==
  /\ phase' = "Idle"
  /\ result' = [result EXCEPT ![current] = res]
  /\ settings' = IF opened /\ found' THEN Close("rejected") ELSE settings
  /\ UNCHANGED <<opened, current, users, page, retained, draft, stored>>

\* finish: the completion is called once, and a dialog the bridge opened is closed.
Finish(res) ==
  /\ phase' = "Idle"
  /\ result' = [result EXCEPT ![current] = res]
  /\ settings' = IF opened /\ found' THEN Close(IF res = "Success" THEN "accepted" ELSE "rejected")
                 ELSE settings
  /\ UNCHANGED <<opened, current, users, page, retained, draft, stored>>

Fail(res) == timers' = timers - 1 /\ Finish(res)

\* Mutant: find_target_output arms no timer.
AgainExceptTarget == timers' = IF phase = "FindTargetOutput" THEN timers - 1 ELSE timers

\* schedule_next within a handler that a timer has run.
Again == UNCHANGED timers

\* The rest of a handler that neither ends the transaction nor closes a dialog.
Continue(p) ==
  /\ phase' = p
  /\ Again
  /\ UNCHANGED <<current, result, settings, users, page, retained, draft, stored>>

\* find_settings with open_target_editor.  Whatever is shown once the bridge has
\* clicked is taken for its own, the settings the user opened meanwhile too.
SettingsFound ==
  /\ settings = "shown"
  /\ found' = TRUE
  /\ UNCHANGED <<own, clicks, editor>>
  /\ IF ~opened
     THEN Fail("SettingsAlreadyOpen") /\ UNCHANGED retries
     ELSE /\ retries' = 0
          /\ \/ Fault("tab") /\ Fail("OutputTabMissing")
             \/ Continue("FindTargetOutput") /\ UNCHANGED opened

\* start_settings runs at the first poll only; when it fails it has ended the
\* transaction and find_settings arms the timer all the same.
SettingsAbsent ==
  /\ settings # "shown"
  /\ retries' = retries + 1
  /\ UNCHANGED <<found, own, editor>>
  /\ IF retries >= MaxPolls
     THEN Fail("AitumNotAvailable") /\ UNCHANGED clicks
     ELSE IF retries = 0
     THEN \/ /\ opened' = TRUE
             /\ clicks' = clicks \cup {"settings"}
             /\ Continue("FindSettings")
          \/ Fault("button") /\ Finish("AitumNotAvailable") /\ Again /\ UNCHANGED clicks
     ELSE Continue("FindSettings") /\ UNCHANGED <<opened, clicks>>

FindSettings == phase = "FindSettings" /\ (SettingsFound \/ SettingsAbsent)

\* find_target_output; nothing asks whether the settings are still shown.
FindTargetOutput ==
  /\ phase = "FindTargetOutput"
  /\ UNCHANGED <<found, own, editor>>
  /\ \/ /\ ~page \/ Fault("output")
        /\ retries' = retries + 1
        /\ UNCHANGED clicks
        /\ IF retries >= MaxPolls THEN Fail("TargetOutputMissing")
           ELSE Continue("FindTargetOutput") /\ UNCHANGED opened
     \/ /\ page /\ Fault("action")
        /\ Fail("OutputActionMissing")
        /\ UNCHANGED <<retries, clicks>>
     \/ /\ page
        /\ clicks' = clicks \cup {"output"}
        /\ retries' = 0
        /\ Continue("FindEditDialog")
        /\ UNCHANGED opened

\* find_stream_output_dialog: a visible editor of any output.
VisibleEditors == IF editor.state = "open" THEN {editor.by} ELSE {}

\* find_owned_stream_output_dialog: a child of the settings, hidden or not, the
\* oldest first.
OwnedEditors == IF retained # {} THEN retained
                ELSE IF editor.state \in {"none", "requested"} THEN {} ELSE {editor.by}

Editors == IF VisibleEditors # {} THEN VisibleEditors ELSE OwnedEditors

Typed(e) == IF editor.by = e THEN [editor EXCEPT !.typed = current] ELSE editor

\* find_editor
FindEditor ==
  /\ phase = "FindEditDialog"
  /\ UNCHANGED found
  /\ \/ /\ Editors = {}
        /\ retries' = retries + 1
        /\ UNCHANGED <<own, clicks, editor>>
        /\ IF retries >= MaxPolls THEN Fail("SaveActionMissing")
           ELSE Continue("FindEditDialog") /\ UNCHANGED opened
     \/ \E e \in Editors :
        /\ own' = e
        /\ UNCHANGED retries
        /\ \/ /\ \/ Fault("fields") /\ Fail("EditorInvalid")
                 \/ Fault("typing") /\ Fail("CredentialUpdateFailed")
              /\ UNCHANGED <<clicks, editor>>
           \/ /\ Fault("save") /\ Fail("SaveActionMissing")
              /\ editor' = Typed(e)
              /\ UNCHANGED clicks
           \/ /\ editor' = Typed(e)
              /\ clicks' = clicks \cup {"save"}
              /\ Continue("WaitAfterSave")
              /\ UNCHANGED opened

\* The editor of stream_dialog_ is visible.
Watched == editor.state = "open" /\ editor.by = own

\* wait_after_save
WaitAfterSave ==
  /\ phase = "WaitAfterSave"
  /\ UNCHANGED <<found, own, clicks>>
  /\ IF Watched
     THEN /\ editor' = IF retries = Grace THEN [editor EXCEPT !.state = "accepted"] ELSE editor
          /\ retries' = retries + 1
          /\ IF retries >= MaxPolls THEN Fail("SaveConfirmationTimeout")
             ELSE Continue("WaitAfterSave") /\ UNCHANGED opened
     ELSE /\ retries' = 0
          /\ timers' = timers - 1
          /\ Finish("Success")
          /\ UNCHANGED editor

\* A timer left over from a transaction that has ended.
IdleTick ==
  /\ phase = "Idle"
  /\ timers' = timers - 1
  /\ UNCHANGED <<phase, opened, retries, current, found, own, clicks, aitum, result>>

\* A dialog's loop has ended and nothing runs inside it.
Returning == \/ editor.state \in {"accepted", "rejected"}
             \/ settings \in {"accepted", "rejected"} /\ editor = NoEditor

\* advance: Qt delivers a queued click before a timer that was armed after it,
\* and a loop that has ended returns before it runs another timer.
Advance == /\ timers > 0
           /\ clicks = {}
           /\ ~Returning \/ Fault("nested")
           /\ FindSettings \/ FindTargetOutput \/ FindEditor \/ WaitAfterSave \/ IdleTick

-----------------------------------------------------------------------------
\* Aitum and the user.

\* A dialog whose loop has not returned is not shown again.
Show(byUser) ==
  /\ settings' = "shown" /\ users' = byUser
  /\ page' = FALSE
  /\ draft' = stored
  /\ UNCHANGED <<editor, retained, stored>>

SettingsClick ==
  /\ "settings" \in clicks
  /\ clicks' = clicks \ {"settings"}
  /\ \/ settings = "closed" /\ Show(FALSE)
     \/ /\ settings # "closed" \/ Fault("unavailable")
        /\ UNCHANGED aitum
  /\ UNCHANGED <<bridge, result>>

PageBuilt ==
  /\ settings = "shown" /\ ~page
  /\ page' = TRUE
  /\ UNCHANGED <<bridge, clicks, settings, users, editor, retained, draft, stored, result>>

OutputClick ==
  /\ "output" \in clicks
  /\ clicks' = clicks \ {"output"}
  /\ editor' = IF editor = NoEditor
               THEN [by |-> current, typed |-> NoRequest, state |-> "requested"] ELSE editor
  /\ UNCHANGED <<bridge, settings, users, page, retained, draft, stored, result>>

EditorShows ==
  /\ \/ editor.state = "requested" /\ editor' = [editor EXCEPT !.state = "starting"]
     \/ editor.state = "starting" /\ editor' = [editor EXCEPT !.state = "open"]
  /\ UNCHANGED <<bridge, clicks, settings, users, page, retained, draft, stored, result>>

SaveClick ==
  /\ "save" \in clicks
  /\ clicks' = clicks \ {"save"}
  /\ \/ /\ editor.by = own /\ editor.state \in {"starting", "open"}
        /\ editor' = [editor EXCEPT !.state = "accepted"]
     \/ /\ Fault("disabled") \/ editor.by # own
        /\ UNCHANGED editor
  /\ UNCHANGED <<bridge, settings, users, page, retained, draft, stored, result>>

\* The editor's loop returns, and Aitum takes over what was saved.
EditorReturns ==
  /\ editor.state \in {"accepted", "rejected"}
  /\ draft' = IF editor.state = "accepted" /\ editor.typed # NoRequest
              THEN [draft EXCEPT ![Target[editor.by]] = editor.typed] ELSE draft
  /\ editor' = NoEditor
  /\ \/ Fault("retained") /\ retained' = retained \cup {editor.by} /\ UNCHANGED own
     \/ own' = (IF own = editor.by THEN NoRequest ELSE own) /\ UNCHANGED retained
  /\ UNCHANGED <<phase, opened, retries, current, found, timers>>
  /\ UNCHANGED <<clicks, settings, users, page, stored, result>>

\* The settings' loop returns, and Aitum stores what was confirmed.
SettingsReturn ==
  /\ settings \in {"accepted", "rejected"}
  /\ editor = NoEditor
  /\ settings' = "closed"
  /\ stored' = IF settings = "accepted" THEN draft ELSE stored
  /\ UNCHANGED <<bridge, clicks, users, page, editor, retained, draft, result>>

\* Aitum deletes a hidden editor at its next refresh.
EditorDeleted ==
  \E e \in retained :
    /\ retained' = retained \ {e}
    /\ own' = IF own = e THEN NoRequest ELSE own
    /\ UNCHANGED <<phase, opened, retries, current, found, timers>>
    /\ UNCHANGED <<clicks, settings, users, page, editor, draft, stored, result>>

UserOpensSettings ==
  /\ Fault("user")
  /\ settings = "closed"
  /\ Show(TRUE)
  /\ UNCHANGED <<bridge, clicks, result>>

UserClosesSettings(how) ==
  /\ settings = "shown" /\ editor = NoEditor
  /\ (users /\ phase \in {"Idle", "FindSettings"}) \/ Fault("dismiss")
  /\ settings' = how
  /\ UNCHANGED <<bridge, clicks, users, page, editor, retained, draft, stored, result>>

\* An editor the bridge gave up on stays open until the user discards it.
UserClosesEditor ==
  /\ editor.state = "open"
  /\ phase = "Idle" \/ Fault("cancel")
  /\ editor' = [editor EXCEPT !.state = "rejected"]
  /\ UNCHANGED <<bridge, clicks, settings, users, page, retained, draft, stored, result>>

Next ==
  \/ \E r \in Requests : UpdateAsync(r)
  \/ Advance
  \/ SettingsClick \/ PageBuilt \/ OutputClick \/ EditorShows \/ SaveClick
  \/ EditorReturns \/ SettingsReturn \/ EditorDeleted
  \/ UserOpensSettings \/ UserClosesEditor
  \/ \E how \in {"accepted", "rejected"} : UserClosesSettings(how)

Spec == Init /\ [][Next]_vars

\* A due timer fires although a returning loop may delay it; queued clicks are
\* delivered, editors appear, and Aitum goes on when a dialog's loop has ended.
FairSpec == /\ Spec
            /\ SF_vars(Advance)
            /\ WF_vars(SettingsClick) /\ WF_vars(OutputClick) /\ WF_vars(SaveClick)
            /\ WF_vars(EditorShows) /\ WF_vars(EditorReturns) /\ WF_vars(SettingsReturn)

-----------------------------------------------------------------------------
\* What the bridge promises.

TypeOK ==
  /\ phase \in {"Idle", "FindSettings", "FindTargetOutput", "FindEditDialog", "WaitAfterSave"}
  /\ opened \in BOOLEAN /\ found \in BOOLEAN /\ users \in BOOLEAN /\ page \in BOOLEAN
  /\ retries \in 0 .. (MaxPolls + 1)
  /\ current \in Requests \cup {NoRequest}
  /\ own \in Requests \cup {NoRequest}
  /\ timers \in Nat
  /\ clicks \subseteq {"settings", "output", "save"}
  /\ settings \in {"closed", "shown", "accepted", "rejected"}
  /\ editor \in Editor \cup {NoEditor}
  /\ retained \subseteq Requests
  /\ draft \in [Outputs -> Requests \cup {NoRequest}]
  /\ stored \in [Outputs -> Requests \cup {NoRequest}]
  /\ result \in [Requests -> Failures \cup {"new", "pending", "Busy", "Success"}]
\* A transaction is never stranded: while one is in progress, a timer is pending
\* that drives it on.
Armed == phase # "Idle" => timers > 0

\* The bridge leaves no settings dialog of its own on the screen, whichever
\* step of the transaction failed.
NothingLeftOpen == phase = "Idle" => settings # "shown" \/ users

\* Settings that the user has open when a transaction looks for them first are
\* refused: they are neither worked in nor closed, for their X button discards
\* and their OK button would commit what the user typed.  (Settings he opens
\* later, after a click of the bridge that showed nothing, are adopted.)
UsersDialogKept ==
  [][users /\ settings = "shown" /\ phase = "FindSettings" /\ retries = 0 /\ phase' # "FindSettings"
     => phase' = "Idle" /\ settings' = "shown"]_vars

\* One transaction at a time, one answer each, and outputs only receive the
\* credentials of a successful request for them (OutputUpdates).
Updates == INSTANCE OutputUpdates
UpdatesSpec == Updates!Spec

\* Every accepted request is answered.
Answered == \A r \in Requests : result[r] = "pending" ~> result[r] # "pending"

\* What the bridge reports as saved reaches Aitum's live profile, if no other
\* update of that output does.
SuccessStored ==
  \A r \in Requests : result[r] = "Success" ~>
    \E q \in Requests : result[q] = "Success" /\ Target[q] = Target[r] /\ stored[Target[r]] = q
=============================================================================

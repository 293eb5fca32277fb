-------------------------- MODULE AitumBridge_proofs --------------------------
(***************************************************************************)
(* AitumBridge implements OutputUpdates for any number of requests and     *)
(* outputs and any bound on the polls, as long as the user does not close  *)
(* the settings dialog the bridge is working on ("dismiss"): the editor    *)
(* that is then left open is taken for the one of the next transaction.    *)
(***************************************************************************)
EXTENDS AitumBridge, TLAPS

Working == phase \in {"FindTargetOutput", "FindEditDialog", "WaitAfterSave"}
Editing == phase \in {"FindEditDialog", "WaitAfterSave"}

\* The request in progress is the only pending one.
Turn ==
  /\ phase # "Idle" => current \in Requests /\ result[current] = "pending"
  /\ \A r \in Requests : result[r] = "pending" => phase # "Idle" /\ r = current

\* A queued click belongs to the phase that waits for its effect.
ClicksInPhase ==
  /\ "settings" \in clicks => phase = "FindSettings" /\ opened
  /\ "output" \in clicks => phase = "FindEditDialog"
  /\ "save" \in clicks => phase = "WaitAfterSave"

\* The bridge works on settings it has asked for.
OwnDialog ==
  /\ Working => settings = "shown" /\ opened /\ found
  /\ settings = "shown" /\ ~users => phase # "Idle" /\ opened

\* No editor runs, and nothing is changed, before the bridge has asked for the editor.
Quiet ==
  /\ settings = "closed" => editor = NoEditor
  /\ settings = "shown" /\ ~Editing => editor = NoEditor /\ draft = stored

\* An editor holds the credentials of its own request or none.
OwnEditor ==
  /\ editor.typed \in {NoRequest, editor.by}
  /\ Editing /\ editor # NoEditor => editor.by = current

\* What a transaction has changed in the settings so far.
Drafted ==
  Editing => \A o \in Outputs : \/ draft[o] = stored[o]
                                \/ draft[o] = current /\ Target[current] = o

\* What confirmed settings will store.
Confirmed ==
  settings = "accepted" =>
    /\ \A o \in Outputs : \/ draft[o] = stored[o]
                          \/ /\ draft[o] \in Requests
                             /\ Target[draft[o]] = o
                             /\ result[draft[o]] = "Success"
    /\ editor.typed # NoRequest => result[editor.typed] = "Success"

\* A transaction in progress has not given up.
Bounded == phase # "Idle" => retries <= MaxPolls

IInv == /\ TypeOK /\ Armed /\ Bounded /\ Turn /\ ClicksInPhase /\ OwnDialog
        /\ Quiet /\ OwnEditor /\ Drafted /\ Confirmed

-----------------------------------------------------------------------------
\* A timer fires: no click is queued.
Ticks == timers > 0 /\ clicks = {}

Answers == Failures \cup {"new", "pending", "Busy", "Success"}

\* At most the editor of the current request changes, and only by its credentials.
EditorStep ==
  \/ editor' = editor
  \/ /\ Editing /\ editor # NoEditor
     /\ editor' \in Editor
     /\ editor'.by = editor.by /\ editor'.typed \in {editor.typed, current}

\* What a handler that has left FindSettings behind does to the rest.
Rest == /\ found' = found
        /\ retries' \in 0 .. (MaxPolls + 1)
        /\ own' \in Requests \cup {NoRequest}
        /\ EditorStep

\* finish with a failure: the settings are rejected.
LEMMA StopInv ==
  ASSUME IInv, Ticks, Working, NEW res \in Failures, Fail(res), Rest, UNCHANGED clicks
  PROVE  IInv'
<1>. USE DEF IInv, Ticks, Fail, Finish, Rest
<1>1. /\ phase' = "Idle" /\ timers' = timers - 1 /\ timers > 0 /\ clicks' = {}
      /\ settings = "shown" /\ settings' = "rejected"
      /\ UNCHANGED <<opened, current, users, page, retained, draft, stored, found>>
      /\ current \in Requests
      /\ result' = [result EXCEPT ![current] = res]
  BY DEF OwnDialog, Working, Close, Failures, Turn
<1>2. result' \in [Requests -> Answers]
  BY <1>1 DEF TypeOK, Answers
<1>3. timers' \in Nat
  BY <1>1 DEF TypeOK
<1>4. editor' \in Editor \cup {NoEditor}
  BY DEF EditorStep, TypeOK
<1>5. TypeOK'
  BY <1>1, <1>2, <1>3, <1>4 DEF TypeOK, Answers
<1>6. Turn'
  BY <1>1 DEF Turn, TypeOK, Failures
<1>7. OwnEditor'
  <2>1. CASE editor' = editor
    BY <1>1, <2>1 DEF OwnEditor, Editing
  <2>2. CASE editor' # editor
    BY <1>1, <2>2 DEF OwnEditor, Editing, EditorStep
  <2>. QED
    BY <2>1, <2>2
<1>8. Armed' /\ Bounded' /\ ClicksInPhase' /\ OwnDialog' /\ Drafted' /\ Confirmed'
  BY <1>1 DEF Armed, Bounded, ClicksInPhase, OwnDialog, Drafted, Confirmed, Working, Editing
<1>9. Quiet'
  BY <1>1 DEF Quiet
<1>. QED
  BY <1>5, <1>6, <1>7, <1>8, <1>9

\* The phases a handler may go on to, with the click it queues for the next.
Step(p) ==
  \/ p = phase /\ clicks' = clicks
  \/ phase = "FindTargetOutput" /\ p = "FindEditDialog" /\ clicks' = clicks \cup {"output"}
  \/ phase = "FindEditDialog" /\ p = "WaitAfterSave" /\ clicks' = clicks \cup {"save"}

\* A handler that arms the next timer.
LEMMA GoOnInv ==
  ASSUME IInv, Ticks, Working, NEW p, Continue(p), Step(p), Rest, UNCHANGED opened,
         retries' <= MaxPolls
  PROVE  IInv'
<1>. USE DEF IInv, Ticks, Continue, Again, Rest
<1>1. /\ phase' = p /\ p \in {"FindTargetOutput", "FindEditDialog", "WaitAfterSave"}
      /\ timers' = timers /\ timers > 0 /\ clicks = {}
      /\ settings = "shown" /\ opened /\ found
      /\ UNCHANGED <<current, result, settings, users, page, retained, draft, stored, opened, found>>
      /\ current \in Requests
  BY DEF Step, Working, OwnDialog, Turn
<1>2. clicks' \subseteq {"settings", "output", "save"}
  BY <1>1 DEF Step
<1>3. editor' \in Editor \cup {NoEditor}
  BY DEF EditorStep, TypeOK
<1>4. TypeOK'
  BY <1>1, <1>2, <1>3 DEF TypeOK
<1>5. Turn' /\ Armed' /\ Bounded' /\ OwnDialog' /\ Confirmed'
  BY <1>1 DEF Turn, Armed, Bounded, OwnDialog, Confirmed, Working
<1>6. ClicksInPhase'
  BY <1>1 DEF ClicksInPhase, Step
<1>7. Quiet'
  <2>1. CASE Editing'
    BY <1>1, <2>1 DEF Quiet
  <2>2. CASE ~Editing'
    <3>1. phase = "FindTargetOutput" /\ ~Editing
      BY <1>1, <2>2 DEF Step, Editing, Working
    <3>2. editor' = editor
      BY <3>1 DEF EditorStep
    <3>. QED
      BY <1>1, <3>1, <3>2 DEF Quiet
  <2>. QED
    BY <2>1, <2>2
<1>8. OwnEditor'
  <2>1. CASE editor' = editor
    <3>1. CASE Editing
      BY <1>1, <2>1, <3>1 DEF OwnEditor
    <3>2. CASE ~Editing
      BY <1>1, <2>1, <3>2 DEF OwnEditor, Quiet, NoEditor
    <3>. QED
      BY <3>1, <3>2
  <2>2. CASE editor' # editor
    BY <1>1, <2>2 DEF OwnEditor, EditorStep, Editing
  <2>. QED
    BY <2>1, <2>2
<1>9. Drafted'
  <2>1. CASE Editing
    BY <1>1, <2>1 DEF Drafted
  <2>2. CASE ~Editing
    BY <1>1, <2>2 DEF Drafted, Quiet
  <2>. QED
    BY <2>1, <2>2
<1>. QED
  BY <1>4, <1>5, <1>6, <1>7, <1>8, <1>9

\* finish after the editor has closed: the settings are confirmed.
LEMMA SucceedInv ==
  ASSUME IInv, Ticks, phase = "WaitAfterSave", Finish("Success"), timers' = timers - 1,
         retries' = 0, UNCHANGED <<found, own, clicks, editor>>
  PROVE  IInv'
<1>. USE DEF IInv, Ticks, Finish
<1>1. /\ phase' = "Idle" /\ clicks' = {} /\ timers > 0
      /\ settings = "shown" /\ settings' = "accepted"
      /\ UNCHANGED <<opened, current, users, page, retained, draft, stored, found>>
      /\ current \in Requests
      /\ result' = [result EXCEPT ![current] = "Success"]
  BY DEF OwnDialog, Working, Close, Turn
<1>2. result' \in [Requests -> Answers] /\ result'[current] = "Success"
  BY <1>1 DEF TypeOK, Answers
<1>3. timers' \in Nat
  BY <1>1 DEF TypeOK
<1>4. TypeOK'
  BY <1>1, <1>2, <1>3, PollAssumption DEF TypeOK, Answers
<1>5. Turn'
  BY <1>1, <1>2 DEF Turn, TypeOK
<1>6. Armed' /\ Bounded' /\ ClicksInPhase' /\ OwnDialog' /\ Quiet' /\ Drafted'
  BY <1>1 DEF Armed, Bounded, ClicksInPhase, OwnDialog, Quiet, Drafted, Working, Editing
<1>7. OwnEditor'
  BY <1>1 DEF OwnEditor, Editing
<1>8. Confirmed'
  <2>1. \A o \in Outputs : draft[o] = stored[o] \/ (draft[o] = current /\ Target[current] = o)
    BY DEF Drafted, Editing
  <2>2. editor.typed \in {NoRequest, current}
    BY DEF OwnEditor, Editing, NoEditor
  <2>. QED
    BY <1>1, <1>2, <2>1, <2>2 DEF Confirmed
<1>. QED
  BY <1>4, <1>5, <1>6, <1>7, <1>8

\* A polling handler counts up to the bound.
LEMMA RetriesInv ==
  ASSUME TypeOK, Bounded, phase # "Idle", retries' = retries + 1
  PROVE  retries' \in 0 .. (MaxPolls + 1) /\ (~(retries >= MaxPolls) => retries' <= MaxPolls)
BY PollAssumption DEF TypeOK, Bounded

\* find_target_output
LEMMA FindTargetInv == ASSUME IInv, Ticks, FindTargetOutput PROVE IInv'
<1>. USE DEF IInv, FindTargetOutput
<1>1. Working /\ phase # "Idle" /\ ~Editing /\ own \in Requests \cup {NoRequest}
  BY DEF Working, Editing, TypeOK
<1>2. CASE /\ retries' = retries + 1 /\ UNCHANGED clicks
           /\ IF retries >= MaxPolls THEN Fail("TargetOutputMissing")
              ELSE Continue("FindTargetOutput") /\ UNCHANGED opened
  <2>1. Rest /\ (~(retries >= MaxPolls) => retries' <= MaxPolls)
    BY <1>1, <1>2, RetriesInv DEF Rest, EditorStep
  <2>2. CASE retries >= MaxPolls
    BY <1>1, <1>2, <2>1, <2>2, StopInv DEF Failures
  <2>3. CASE ~(retries >= MaxPolls)
    BY <1>1, <1>2, <2>1, <2>3, GoOnInv DEF Step
  <2>. QED
    BY <2>2, <2>3
<1>3. CASE Fail("OutputActionMissing") /\ UNCHANGED <<retries, clicks>>
  <2>1. Rest
    BY <1>1, <1>3 DEF Rest, EditorStep, TypeOK
  <2>. QED
    BY <1>1, <1>3, <2>1, StopInv DEF Failures
<1>4. CASE /\ clicks' = clicks \cup {"output"} /\ retries' = 0
           /\ Continue("FindEditDialog") /\ UNCHANGED opened
  <2>1. Rest /\ retries' <= MaxPolls
    BY <1>1, <1>4, PollAssumption DEF Rest, EditorStep
  <2>. QED
    BY <1>1, <1>4, <2>1, GoOnInv DEF Step
<1>. QED
  BY <1>2, <1>3, <1>4

\* find_editor
LEMMA FindEditorInv == ASSUME IInv, Ticks, FindEditor PROVE IInv'
<1>. USE DEF IInv, FindEditor
<1>1. Working /\ Editing /\ phase # "Idle" /\ found' = found
  BY DEF Working, Editing
<1>2. CASE /\ retries' = retries + 1 /\ UNCHANGED <<own, clicks, editor>>
           /\ IF retries >= MaxPolls THEN Fail("SaveActionMissing")
              ELSE Continue("FindEditDialog") /\ UNCHANGED opened
  <2>1. Rest /\ (~(retries >= MaxPolls) => retries' <= MaxPolls)
    BY <1>1, <1>2, RetriesInv DEF Rest, EditorStep, TypeOK
  <2>2. CASE retries >= MaxPolls
    BY <1>1, <1>2, <2>1, <2>2, StopInv DEF Failures
  <2>3. CASE ~(retries >= MaxPolls)
    BY <1>1, <1>2, <2>1, <2>3, GoOnInv DEF Step
  <2>. QED
    BY <2>2, <2>3
<1>3. ASSUME NEW e \in Editors, own' = e, UNCHANGED retries,
             \/ /\ Fail("EditorInvalid") \/ Fail("CredentialUpdateFailed")
                /\ UNCHANGED <<clicks, editor>>
             \/ Fail("SaveActionMissing") /\ editor' = Typed(e) /\ UNCHANGED clicks
             \/ /\ editor' = Typed(e) /\ clicks' = clicks \cup {"save"}
                /\ Continue("WaitAfterSave") /\ UNCHANGED opened
      PROVE  IInv'
  <2>1. e \in Requests
    BY <1>3 DEF Editors, VisibleEditors, OwnedEditors, TypeOK, Editor, NoEditor
  <2>2. editor' = editor \/ editor' = Typed(e)
    BY <1>3
  <2>3. EditorStep
    <3>1. CASE editor' = editor
      BY <3>1 DEF EditorStep
    <3>2. CASE editor' # editor
      <4>1. editor.by = e /\ editor' = [editor EXCEPT !.typed = current]
        BY <2>2, <3>2 DEF Typed
      <4>2. editor \in Editor
        BY <2>1, <4>1, RequestAssumption DEF TypeOK, NoEditor
      <4>3. current \in Requests
        BY DEF Turn
      <4>4. editor # NoEditor
        BY <2>1, <4>1, RequestAssumption DEF NoEditor
      <4>. QED
        BY <1>1, <4>1, <4>2, <4>3, <4>4 DEF EditorStep, Editor
    <3>. QED
      BY <3>1, <3>2
  <2>4. Rest /\ retries' <= MaxPolls
    BY <1>1, <1>3, <2>1, <2>3 DEF Rest, TypeOK, Bounded
  <2>5. CASE Continue("WaitAfterSave") /\ UNCHANGED opened /\ clicks' = clicks \cup {"save"}
    BY <1>1, <2>4, <2>5, GoOnInv DEF Step
  <2>6. ASSUME NEW res \in Failures, Fail(res), UNCHANGED clicks PROVE IInv'
    BY <1>1, <2>4, <2>6, StopInv
  <2>. QED
    BY <1>3, <2>5, <2>6 DEF Failures
<1>. QED
  BY <1>2, <1>3

\* wait_after_save
LEMMA WaitInv == ASSUME IInv, Ticks, WaitAfterSave PROVE IInv'
<1>. USE DEF IInv, WaitAfterSave
<1>1. Working /\ Editing /\ phase # "Idle" /\ found' = found
  BY DEF Working, Editing
<1>2. CASE Watched
  <2>1. editor \in Editor /\ editor # NoEditor
    BY <1>2 DEF Watched, TypeOK, NoEditor
  <2>2. EditorStep
    BY <1>1, <1>2, <2>1 DEF EditorStep, Editor
  <2>3. Rest /\ (~(retries >= MaxPolls) => retries' <= MaxPolls)
    BY <1>1, <1>2, <2>2, RetriesInv DEF Rest, TypeOK
  <2>4. CASE retries >= MaxPolls
    BY <1>1, <1>2, <2>3, <2>4, StopInv DEF Failures
  <2>5. CASE ~(retries >= MaxPolls)
    BY <1>1, <1>2, <2>3, <2>5, GoOnInv DEF Step
  <2>. QED
    BY <2>4, <2>5
<1>3. CASE ~Watched
  BY <1>3, SucceedInv
<1>. QED
  BY <1>2, <1>3

\* update_async: a transaction begins, or the request is refused.
LEMMA UpdateInv == ASSUME IInv, NEW r \in Requests, UpdateAsync(r) PROVE IInv'
<1>. USE DEF IInv, UpdateAsync, bridge, aitum
<1>1. TypeOK'
  <2>1. result' \in [Requests -> Answers] /\ timers' \in Nat
    BY DEF TypeOK, Answers
  <2>2. phase' \in {"Idle", "FindSettings", "FindTargetOutput", "FindEditDialog", "WaitAfterSave"}
    BY DEF TypeOK
  <2>3. CASE phase = "Idle"
    <3>1. retries' \in 0 .. (MaxPolls + 1)
      BY <2>3, PollAssumption
    <3>. QED
      BY <2>1, <2>2, <2>3, <3>1 DEF TypeOK, Answers
  <2>4. CASE phase # "Idle"
    BY <2>1, <2>4 DEF TypeOK, Answers
  <2>. QED
    BY <2>3, <2>4
<1>2. Armed'
  BY DEF Armed, TypeOK
<1>3. Bounded'
  BY PollAssumption DEF Bounded, TypeOK
<1>4. Turn'
  BY DEF Turn, TypeOK
<1>5. ClicksInPhase'
  BY DEF ClicksInPhase
<1>6. OwnDialog'
  BY DEF OwnDialog, Working, ClicksInPhase
<1>7. Quiet'
  BY DEF Quiet, Editing, OwnDialog, Working
<1>8. OwnEditor'
  BY DEF OwnEditor, Editing, NoEditor, Quiet
<1>9. Drafted'
  BY DEF Drafted, Editing, Quiet
<1>10. Confirmed'
  BY DEF Confirmed, TypeOK, Editor, NoEditor
<1>. QED
  BY <1>1, <1>2, <1>3, <1>4, <1>5, <1>6, <1>7, <1>8, <1>9, <1>10

\* find_settings, the dialog on the screen
LEMMA SettingsFoundInv == ASSUME IInv, phase = "FindSettings", Ticks, SettingsFound PROVE IInv'
<1>. USE DEF IInv, SettingsFound, Fail, Finish, Close, Continue, Again, Ticks, Fault
<1>1. TypeOK'
  <2>1. timers' \in Nat /\ retries' \in 0 .. (MaxPolls + 1)
    BY PollAssumption DEF TypeOK
  <2>2. result' \in [Requests -> Answers]
    BY DEF TypeOK, Answers, Failures
  <2>3. /\ settings' \in {"closed", "shown", "accepted", "rejected"}
        /\ phase' \in {"Idle", "FindTargetOutput"} /\ opened' \in BOOLEAN
    BY DEF TypeOK
  <2>. QED
    BY <2>1, <2>2, <2>3 DEF TypeOK, Answers
<1>2. Armed'
  BY DEF Armed, TypeOK
<1>3. Bounded'
  BY PollAssumption DEF Bounded, TypeOK
<1>4. Turn'
  BY DEF Turn, TypeOK
<1>5. ClicksInPhase'
  BY DEF ClicksInPhase
<1>6. OwnDialog'
  BY DEF OwnDialog, Working, ClicksInPhase
<1>7. Quiet'
  BY DEF Quiet, Editing, OwnDialog, Working
<1>8. OwnEditor'
  BY DEF OwnEditor, Editing, NoEditor, Quiet
<1>9. Drafted'
  BY DEF Drafted, Editing, Quiet
<1>10. Confirmed'
  BY DEF Confirmed, Turn, Quiet, OwnDialog, Working
<1>. QED
  BY <1>1, <1>2, <1>3, <1>4, <1>5, <1>6, <1>7, <1>8, <1>9, <1>10

\* find_settings, no dialog
LEMMA SettingsAbsentInv == ASSUME IInv, phase = "FindSettings", Ticks, SettingsAbsent PROVE IInv'
<1>. USE DEF IInv, SettingsAbsent, Fail, Finish, Close, Continue, Again, Ticks, Fault
<1>1. TypeOK'
  <2>1. retries' \in 0 .. (MaxPolls + 1)
    BY RetriesInv
  <2>2. timers' \in Nat
    BY DEF TypeOK
  <2>3. result' \in [Requests -> Answers]
    BY DEF TypeOK, Answers, Failures
  <2>4. settings' \in {"closed", "shown", "accepted", "rejected"}
    BY DEF TypeOK
  <2>5. /\ phase' \in {"Idle", "FindSettings"} /\ opened' \in BOOLEAN
        /\ clicks' \subseteq {"settings", "output", "save"}
    BY DEF TypeOK
  <2>. QED
    BY <2>1, <2>2, <2>3, <2>4, <2>5 DEF TypeOK, Answers
<1>2. Armed'
  BY DEF Armed, TypeOK
<1>3. Bounded'
  BY PollAssumption DEF Bounded, TypeOK
<1>4. Turn'
  BY DEF Turn, TypeOK
<1>5. ClicksInPhase'
  BY DEF ClicksInPhase
<1>6. OwnDialog'
  BY DEF OwnDialog, Working, ClicksInPhase
<1>7. Quiet'
  BY DEF Quiet, Editing, OwnDialog, Working
<1>8. OwnEditor'
  BY DEF OwnEditor, Editing, NoEditor, Quiet
<1>9. Drafted'
  BY DEF Drafted, Editing, Quiet
<1>10. Confirmed'
  BY DEF Confirmed, TypeOK, Turn, OwnEditor, Editor, NoEditor
<1>. QED
  BY <1>1, <1>2, <1>3, <1>4, <1>5, <1>6, <1>7, <1>8, <1>9, <1>10

\* The timer of an ended transaction
LEMMA IdleInv == ASSUME IInv, Ticks, IdleTick PROVE IInv'
<1>. USE DEF IInv, IdleTick, Ticks, aitum
<1>1. TypeOK'
  BY DEF TypeOK, Editor, NoEditor
<1>2. Armed'
  BY DEF Armed, TypeOK
<1>3. Bounded' /\ Turn' /\ ClicksInPhase' /\ OwnDialog' /\ Quiet' /\ OwnEditor' /\ Drafted' /\ Confirmed'
  BY DEF Bounded, Turn, ClicksInPhase, OwnDialog, Working, Quiet, Editing, OwnEditor, Drafted, Confirmed
<1>. QED
  BY <1>1, <1>2, <1>3

\* The click on the settings button is delivered.
LEMMA SettingsClickInv == ASSUME IInv, SettingsClick PROVE IInv'
<1>. USE DEF IInv, SettingsClick, Show, bridge, aitum
<1>1. TypeOK'
  <2>1. clicks' \subseteq {"settings", "output", "save"}
    BY DEF TypeOK
  <2>2. CASE UNCHANGED aitum
    BY <2>1, <2>2 DEF TypeOK
  <2>3. CASE Show(FALSE)
    BY <2>1, <2>3 DEF TypeOK
  <2>. QED
    BY <2>2, <2>3
<1>2. ClicksInPhase'
  BY DEF ClicksInPhase
<1>3. OwnDialog'
  BY DEF OwnDialog, Working, ClicksInPhase
<1>4. Quiet'
  BY DEF Quiet, Editing, OwnDialog, Working
<1>5. OwnEditor'
  BY DEF OwnEditor, Editing, NoEditor, Quiet
<1>6. Drafted'
  BY DEF Drafted, Editing, Quiet
<1>7. Confirmed'
  BY DEF Confirmed, Turn, Quiet, OwnDialog, Working
<1>8. Armed' /\ Bounded' /\ Turn'
  BY DEF Armed, Bounded, Turn
<1>. QED
  BY <1>1, <1>2, <1>3, <1>4, <1>5, <1>6, <1>7, <1>8

\* The Output page is constructed.
LEMMA PageInv == ASSUME IInv, PageBuilt PROVE IInv'
<1>. USE DEF IInv, PageBuilt, bridge
<1>1. TypeOK'
  BY DEF TypeOK, Editor, NoEditor
<1>2. Armed' /\ Bounded' /\ Turn' /\ ClicksInPhase' /\ OwnDialog' /\ Quiet' /\ OwnEditor' /\ Drafted' /\ Confirmed'
  BY DEF Armed, Bounded, Turn, ClicksInPhase, OwnDialog, Working, Quiet, Editing, OwnEditor, Drafted, Confirmed
<1>. QED
  BY <1>1, <1>2

\* The click on Output Settings is delivered.
LEMMA OutputClickInv == ASSUME IInv, OutputClick PROVE IInv'
<1>. USE DEF IInv, OutputClick, bridge
<1>1. TypeOK'
  BY RequestAssumption DEF TypeOK, Editor, NoEditor, Turn, ClicksInPhase
<1>2. ClicksInPhase'
  BY DEF ClicksInPhase
<1>3. Quiet'
  BY DEF Quiet, Editing, OwnDialog, Working, ClicksInPhase, NoEditor
<1>4. OwnEditor'
  BY DEF OwnEditor, Editing, NoEditor, Quiet
<1>5. Confirmed'
  BY DEF Confirmed, Turn, Quiet, OwnDialog, Working
<1>6. Armed' /\ Bounded' /\ Turn' /\ OwnDialog' /\ Drafted'
  BY DEF Armed, Bounded, Turn, OwnDialog, Working, Drafted, Editing
<1>. QED
  BY <1>1, <1>2, <1>3, <1>4, <1>5, <1>6

\* The editor appears.
LEMMA EditorShowsInv == ASSUME IInv, EditorShows PROVE IInv'
<1>. USE DEF IInv, EditorShows, bridge
<1>1. TypeOK'
  BY DEF TypeOK, Editor, NoEditor
<1>2. Quiet'
  BY DEF Quiet, Editing, OwnDialog, Working, ClicksInPhase, NoEditor
<1>3. OwnEditor'
  BY DEF OwnEditor, Editing, TypeOK, Editor, NoEditor
<1>4. Confirmed'
  BY DEF Confirmed, Turn, Quiet, OwnDialog, Working, OwnEditor, TypeOK, Editor, NoEditor
<1>5. Armed' /\ Bounded' /\ Turn' /\ ClicksInPhase' /\ OwnDialog' /\ Drafted'
  BY DEF Armed, Bounded, Turn, ClicksInPhase, OwnDialog, Working, Drafted, Editing
<1>. QED
  BY <1>1, <1>2, <1>3, <1>4, <1>5

\* The click on Save Output is delivered.
LEMMA SaveClickInv == ASSUME IInv, SaveClick PROVE IInv'
<1>. USE DEF IInv, SaveClick, bridge
<1>1. TypeOK'
  BY DEF TypeOK, Editor, NoEditor
<1>2. ClicksInPhase'
  BY DEF ClicksInPhase
<1>3. Quiet'
  BY DEF Quiet, Editing, OwnDialog, Working, ClicksInPhase, NoEditor
<1>4. OwnEditor'
  BY DEF OwnEditor, Editing, TypeOK, Editor, NoEditor
<1>5. Confirmed'
  BY DEF Confirmed, Turn, Quiet, OwnDialog, Working, OwnEditor, TypeOK, Editor, NoEditor
<1>6. Armed' /\ Bounded' /\ Turn' /\ OwnDialog' /\ Drafted'
  BY DEF Armed, Bounded, Turn, OwnDialog, Working, Drafted, Editing
<1>. QED
  BY <1>1, <1>2, <1>3, <1>4, <1>5, <1>6

\* The editor's loop returns.
LEMMA EditorReturnsInv == ASSUME IInv, EditorReturns PROVE IInv'
<1>. USE DEF IInv, EditorReturns
<1>1. TypeOK'
  BY PollAssumption, RequestAssumption DEF TypeOK, Editor, NoEditor
<1>2. Quiet'
  BY DEF Quiet, Editing, OwnDialog, Working, ClicksInPhase, NoEditor
<1>3. OwnEditor'
  BY DEF OwnEditor, Editing, NoEditor, Quiet
<1>4. Drafted'
  BY DEF Drafted, Editing, OwnEditor, TypeOK, Editor, NoEditor
<1>5. Confirmed'
  BY DEF Confirmed, Turn, Quiet, OwnDialog, Working, OwnEditor, TypeOK, Editor, NoEditor
<1>6. Armed' /\ Bounded' /\ Turn' /\ ClicksInPhase' /\ OwnDialog'
  BY DEF Armed, Bounded, Turn, ClicksInPhase, OwnDialog, Working
<1>. QED
  BY <1>1, <1>2, <1>3, <1>4, <1>5, <1>6

\* The settings' loop returns.
LEMMA SettingsReturnInv == ASSUME IInv, SettingsReturn PROVE IInv'
<1>. USE DEF IInv, SettingsReturn, bridge
<1>1. TypeOK'
  BY DEF TypeOK, Editor, NoEditor
<1>2. OwnDialog'
  BY DEF OwnDialog, Working, ClicksInPhase
<1>3. Quiet'
  BY DEF Quiet, Editing, OwnDialog, Working
<1>4. Drafted'
  BY DEF Drafted, Editing, Quiet
<1>5. Confirmed'
  BY DEF Confirmed, Turn, Quiet, OwnDialog, Working
<1>6. Armed' /\ Bounded' /\ Turn' /\ ClicksInPhase' /\ OwnEditor'
  BY DEF Armed, Bounded, Turn, ClicksInPhase, OwnEditor, Editing
<1>. QED
  BY <1>1, <1>2, <1>3, <1>4, <1>5, <1>6

\* A hidden editor is deleted.
LEMMA EditorDeletedInv == ASSUME IInv, EditorDeleted PROVE IInv'
<1>. USE DEF IInv, EditorDeleted
<1>1. TypeOK'
  BY DEF TypeOK, Editor, NoEditor
<1>2. Armed' /\ Bounded' /\ Turn' /\ ClicksInPhase' /\ OwnDialog' /\ Quiet' /\ OwnEditor' /\ Drafted' /\ Confirmed'
  BY DEF Armed, Bounded, Turn, ClicksInPhase, OwnDialog, Working, Quiet, Editing, OwnEditor, Drafted, Confirmed
<1>. QED
  BY <1>1, <1>2

\* The user opens the settings,
LEMMA UserOpensInv == ASSUME IInv, UserOpensSettings PROVE IInv'
<1>. USE DEF IInv, UserOpensSettings, Show, bridge
<1>1. TypeOK'
  BY DEF TypeOK, Editor, NoEditor
<1>2. OwnDialog'
  BY DEF OwnDialog, Working, ClicksInPhase
<1>3. Quiet'
  BY DEF Quiet, Editing, OwnDialog, Working
<1>4. Drafted'
  BY DEF Drafted, Editing, Quiet
<1>5. Confirmed'
  BY DEF Confirmed, Turn, Quiet, OwnDialog, Working
<1>6. Armed' /\ Bounded' /\ Turn' /\ ClicksInPhase' /\ OwnEditor'
  BY DEF Armed, Bounded, Turn, ClicksInPhase, OwnEditor, Editing
<1>. QED
  BY <1>1, <1>2, <1>3, <1>4, <1>5, <1>6

\* closes the settings he opened,
LEMMA UserClosesInv == ASSUME IInv, "dismiss" \notin Faults, NEW how \in {"accepted", "rejected"}, UserClosesSettings(how) PROVE IInv'
<1>. USE DEF IInv, UserClosesSettings, Fault, bridge
<1>1. TypeOK'
  BY DEF TypeOK, Editor, NoEditor
<1>2. OwnDialog'
  BY DEF OwnDialog, Working, ClicksInPhase
<1>3. Quiet'
  BY DEF Quiet, Editing, OwnDialog, Working
<1>4. Confirmed'
  BY DEF Confirmed, Editing, Quiet, OwnEditor, NoEditor
<1>5. Armed' /\ Bounded' /\ Turn' /\ ClicksInPhase' /\ OwnEditor' /\ Drafted'
  BY DEF Armed, Bounded, Turn, ClicksInPhase, OwnEditor, Editing, Drafted
<1>. QED
  BY <1>1, <1>2, <1>3, <1>4, <1>5

\* or discards an editor.
LEMMA UserDiscardsInv == ASSUME IInv, UserClosesEditor PROVE IInv'
<1>. USE DEF IInv, UserClosesEditor, bridge
<1>1. TypeOK'
  BY DEF TypeOK, Editor, NoEditor
<1>2. Quiet'
  BY DEF Quiet, Editing, OwnDialog, Working, ClicksInPhase, NoEditor
<1>3. OwnEditor'
  BY DEF OwnEditor, Editing, NoEditor, Quiet
<1>4. Confirmed'
  BY DEF Confirmed, Turn, Quiet, OwnDialog, Working
<1>5. Armed' /\ Bounded' /\ Turn' /\ ClicksInPhase' /\ OwnDialog' /\ Drafted'
  BY DEF Armed, Bounded, Turn, ClicksInPhase, OwnDialog, Working, Drafted, Editing
<1>. QED
  BY <1>1, <1>2, <1>3, <1>4, <1>5

-----------------------------------------------------------------------------
LEMMA InitInv == Init => IInv
<1>. SUFFICES ASSUME Init PROVE IInv
  OBVIOUS
<1>1. TypeOK
  <2>1. /\ draft \in [Outputs -> Requests \cup {NoRequest}]
        /\ stored \in [Outputs -> Requests \cup {NoRequest}]
        /\ result \in [Requests -> Failures \cup {"new", "pending", "Busy", "Success"}]
    BY DEF Init
  <2>2. retries \in 0 .. (MaxPolls + 1) /\ timers \in Nat
    BY PollAssumption DEF Init
  <2>. QED
    BY <2>1, <2>2 DEF Init, TypeOK
<1>2. Armed /\ Bounded /\ Turn /\ ClicksInPhase /\ OwnDialog /\ Drafted /\ Confirmed
  BY PollAssumption DEF Init, Armed, Bounded, Turn, ClicksInPhase, OwnDialog, Drafted,
     Confirmed, Working, Editing
<1>3. Quiet /\ OwnEditor
  BY DEF Init, Quiet, OwnEditor, Editing, NoEditor
<1>. QED
  BY <1>1, <1>2, <1>3 DEF IInv

\* advance: one handler per phase.
LEMMA AdvanceInv == ASSUME IInv, Advance PROVE IInv'
<1>1. Ticks
  BY DEF Advance, Ticks
<1>. QED
  BY <1>1, SettingsFoundInv, SettingsAbsentInv, FindTargetInv, FindEditorInv, WaitInv, IdleInv
     DEF Advance, FindSettings

LEMMA StepInv ==
  ASSUME "dismiss" \notin Faults, IInv, [Next]_vars
  PROVE  IInv'
<1>1. CASE Next
  BY <1>1, UpdateInv, AdvanceInv, SettingsClickInv, PageInv, OutputClickInv, EditorShowsInv,
     SaveClickInv, EditorReturnsInv, SettingsReturnInv, EditorDeletedInv, UserOpensInv,
     UserClosesInv, UserDiscardsInv DEF Next
<1>2. CASE UNCHANGED vars
  BY <1>2 DEF vars, bridge, aitum, IInv, TypeOK, Armed, Bounded, Turn, ClicksInPhase, OwnDialog,
     Quiet, OwnEditor, Drafted, Confirmed, Working, Editing
<1>. QED
  BY <1>1, <1>2

-----------------------------------------------------------------------------
\* The inductive invariant holds throughout.
THEOREM Invariant == ASSUME "dismiss" \notin Faults PROVE Spec => []IInv
BY InitInv, StepInv, PTL DEF Spec

\* Every variable stays in its type; the retries never pass the bound.
THEOREM TypeCorrect == ASSUME "dismiss" \notin Faults PROVE Spec => []TypeOK
<1>1. IInv => TypeOK
  BY DEF IInv
<1>. QED
  BY <1>1, Invariant, PTL

\* Whatever Aitum refuses, a transaction in progress has a timer that drives it
\* on to its answer.
THEOREM TransactionArmed == ASSUME "dismiss" \notin Faults PROVE Spec => []Armed
<1>1. IInv => Armed
  BY DEF IInv
<1>. QED
  BY <1>1, Invariant, PTL

\* Whichever step failed, the bridge leaves no settings dialog of its own open.
THEOREM SettingsClosed == ASSUME "dismiss" \notin Faults PROVE Spec => []NothingLeftOpen
<1>1. IInv => NothingLeftOpen
  BY DEF IInv, OwnDialog, NothingLeftOpen
<1>. QED
  BY <1>1, Invariant, PTL

\* Every step of the bridge, of Aitum and of the user is a step of OutputUpdates
\* or leaves its variables alone.
LEMMA StepImplements ==
  ASSUME "dismiss" \notin Faults, IInv, [Next]_vars
  PROVE  [Updates!Next]_<<result, stored>>
<1>. USE DEF IInv
<1>1. CASE \E r \in Requests : UpdateAsync(r)
  <2>1. PICK r \in Requests : UpdateAsync(r)
    BY <1>1
  <2>2. CASE phase = "Idle"
    <3>1. Updates!Accept(r)
      BY <2>1, <2>2 DEF UpdateAsync, Updates!Accept, Updates!Idle, Turn, aitum
    <3>. QED
      BY <3>1 DEF Updates!Next
  <2>3. CASE phase # "Idle"
    <3>1. Updates!Refuse(r)
      BY <2>1, <2>3 DEF UpdateAsync, Updates!Refuse, Updates!Idle, Turn, aitum
    <3>. QED
      BY <3>1 DEF Updates!Next
  <2>. QED
    BY <2>2, <2>3
<1>2. CASE Advance
  <2>1. ASSUME NEW res \in Failures \cup {"Success"}, phase # "Idle", Finish(res)
        PROVE  Updates!Next
    <3>1. Updates!Answer(current, res) /\ current \in Requests
      BY <2>1 DEF Finish, Updates!Answer, Turn
    <3>. QED
      BY <2>1, <3>1 DEF Updates!Next, Updates!Failures, Failures
  <2>2. ASSUME NEW p, Continue(p) PROVE UNCHANGED <<result, stored>>
    BY <2>2 DEF Continue
  <2>3. CASE FindSettings
    BY <2>1, <2>2, <2>3 DEF FindSettings, SettingsFound, SettingsAbsent, Fail, Failures
  <2>4. CASE FindTargetOutput
    BY <2>1, <2>2, <2>4 DEF FindTargetOutput, Fail, Failures
  <2>5. CASE FindEditor
    BY <2>1, <2>2, <2>5 DEF FindEditor, Fail, Failures
  <2>6. CASE WaitAfterSave
    BY <2>1, <2>2, <2>6 DEF WaitAfterSave, Fail, Failures
  <2>7. CASE IdleTick
    BY <2>7 DEF IdleTick, aitum
  <2>. QED
    BY <1>2, <2>3, <2>4, <2>5, <2>6, <2>7 DEF Advance
<1>3. CASE SettingsReturn
  <2>1. CASE settings = "accepted"
    <3>1. Updates!Commit
      BY <1>3, <2>1 DEF SettingsReturn, Confirmed, TypeOK, Updates!Commit
    <3>. QED
      BY <3>1 DEF Updates!Next
  <2>2. CASE settings # "accepted"
    BY <1>3, <2>2 DEF SettingsReturn
  <2>. QED
    BY <2>1, <2>2
<1>4. CASE \/ SettingsClick \/ PageBuilt \/ OutputClick \/ EditorShows \/ SaveClick
           \/ EditorReturns \/ EditorDeleted \/ UserOpensSettings \/ UserClosesEditor
           \/ \E how \in {"accepted", "rejected"} : UserClosesSettings(how)
           \/ UNCHANGED vars
  BY <1>4 DEF SettingsClick, PageBuilt, OutputClick, EditorShows, SaveClick, EditorReturns,
     EditorDeleted, UserOpensSettings, UserClosesEditor, UserClosesSettings, Show, vars, aitum
<1>. QED
  BY <1>1, <1>2, <1>3, <1>4 DEF Next

\* The bridge runs one transaction at a time and answers it once, and an output
\* only receives the credentials of a successful request for that output.
THEOREM ImplementsUpdates == ASSUME "dismiss" \notin Faults PROVE Spec => UpdatesSpec
<1>1. Init => Updates!Init
  BY DEF Init, Updates!Init
<1>2. IInv /\ [Next]_vars => [Updates!Next]_<<result, stored>>
  BY StepImplements
<1>. QED
  BY <1>1, <1>2, Invariant, PTL DEF Spec, UpdatesSpec, Updates!Spec

-----------------------------------------------------------------------------
\* Before its first poll a transaction has not asked for the settings.
Unasked == retries \in Nat /\ (phase = "FindSettings" /\ retries = 0 => ~opened)

\* The first poll neither works in the user's settings nor closes them.
Refuses ==
  users /\ settings = "shown" /\ phase = "FindSettings" /\ retries = 0 /\ phase' # "FindSettings"
    => phase' = "Idle" /\ settings' = "shown"

\* The settings are there at the first poll: the transaction ends, the dialog stays.
LEMMA FoundRefuses ==
  ASSUME Unasked, phase = "FindSettings", SettingsFound
  PROVE  Unasked' /\ Refuses
<1>1. CASE ~opened
  BY <1>1 DEF SettingsFound, Fail, Finish, Unasked, Refuses
<1>2. CASE opened
  <2>1. retries # 0 /\ retries' = 0 /\ phase' # "FindSettings"
    BY <1>2 DEF SettingsFound, Fail, Finish, Continue, Unasked
  <2>. QED
    BY <2>1 DEF Unasked, Refuses
<1>. QED
  BY <1>1, <1>2

\* A handler either leaves FindSettings alone, or counts its polls from the first.
LEMMA AdvanceRefuses ==
  ASSUME Unasked, Advance
  PROVE  Unasked' /\ Refuses
<1>1. CASE IdleTick
  BY <1>1 DEF IdleTick, Unasked, Refuses
<1>2. CASE FindSettings
  <2>1. CASE SettingsFound
    BY <1>2, <2>1, FoundRefuses DEF FindSettings
  <2>2. CASE SettingsAbsent
    <3>1. retries' \in Nat /\ retries' # 0 /\ settings # "shown"
      BY <2>2 DEF SettingsAbsent, Unasked
    <3>. QED
      BY <3>1 DEF Unasked, Refuses
  <2>. QED
    BY <1>2, <2>1, <2>2 DEF FindSettings
<1>3. ASSUME phase # "FindSettings", retries' \in Nat, phase' # "FindSettings"
      PROVE  Unasked' /\ Refuses
  BY <1>3 DEF Unasked, Refuses
<1>4. CASE FindTargetOutput
  BY <1>3, <1>4 DEF FindTargetOutput, Fail, Finish, Continue, Unasked
<1>5. CASE FindEditor
  BY <1>3, <1>5 DEF FindEditor, Fail, Finish, Continue, Unasked
<1>6. CASE WaitAfterSave
  BY <1>3, <1>6 DEF WaitAfterSave, Fail, Finish, Continue, Unasked
<1>. QED
  BY <1>1, <1>2, <1>4, <1>5, <1>6 DEF Advance

LEMMA StepRefuses ==
  ASSUME Unasked, [Next]_vars
  PROVE  Unasked' /\ Refuses
<1>1. ASSUME NEW r \in Requests, UpdateAsync(r) PROVE Unasked' /\ Refuses
  BY <1>1 DEF UpdateAsync, bridge, Unasked, Refuses
<1>2. CASE UNCHANGED <<phase, opened, retries>>
  BY <1>2 DEF Unasked, Refuses
<1>3. \/ \E r \in Requests : UpdateAsync(r)
      \/ Advance
      \/ UNCHANGED <<phase, opened, retries>>
  BY DEF Next, SettingsClick, PageBuilt, OutputClick, EditorShows, SaveClick, EditorReturns,
     SettingsReturn, EditorDeleted, UserOpensSettings, UserClosesEditor, UserClosesSettings,
     vars, bridge
<1>. QED
  BY <1>1, <1>2, <1>3, AdvanceRefuses

\* Whatever the user and Aitum do, a transaction that finds the user's settings
\* open at its first poll ends at once and leaves them open.
THEOREM UsersSettingsStay == Spec => UsersDialogKept
<1>1. Init => Unasked
  BY DEF Init, Unasked
<1>2. Unasked /\ [Next]_vars => Unasked' /\ Refuses
  BY StepRefuses
<1>3. Unasked /\ [Next]_vars =>
        [users /\ settings = "shown" /\ phase = "FindSettings" /\ retries = 0
           /\ phase' # "FindSettings" => phase' = "Idle" /\ settings' = "shown"]_vars
  BY StepRefuses DEF Refuses
<1>. QED
  BY <1>1, <1>2, <1>3, PTL DEF Spec, UsersDialogKept
=============================================================================

------------------------------ MODULE QrLogin ------------------------------
(* The QR sign-in of TikTok LIVE Studio: the modal dialog                    *)
(* (tiktok_studio_login_dialog.cpp) asks the client (tiktok_studio_client.cpp) *)
(* for a code and, every 2.5 s, what became of it. Each request is the work   *)
(* of a thread of its own, whose answer the dock's thread takes later, in any *)
(* order and after the dialog may be gone. Hosts need not agree on a code.    *)
EXTENDS Integers

CONSTANTS
  N,           \* api_hosts: the hosts are 1 .. N
  Faults,      \* of "failed", "unreadable", "lagging"
  MaxStarts,   \* bound: codes asked for
  MaxDialogs   \* bound: dialogs opened

ASSUME QrAssumption == N \in Nat \ {0} /\ MaxStarts \in Nat /\ MaxDialogs \in Nat

Hosts == 1 .. N
Starts == 1 .. MaxStarts
NoDevice == 0
NoCode == 0
States == {"none", "new", "scanned", "confirmed", "expired"}

VARIABLES
  saved,       \* the device saved with the account; one registered at start s is s
  dialog,      \* the dialog, or NoDialog
  opened,      \* dialogs opened
  starts,      \* codes asked for
  generation,  \* login_generation_
  login,       \* login_: the code polled and LoginState::polling, or NoLogin
  codes,       \* codes[s]: the code of start s as TikTok knows it
  begins,      \* the requests for a code under way or unanswered
  polls        \* the polls under way or unanswered
vars == <<saved, dialog, opened, starts, generation, login, codes, begins, polls>>

NoDialog == [id |-> 0]
NoLogin == [code |-> NoCode, polling |-> FALSE]

\* sealed: the code was given our client secret, which is expected back (it is
\* not in the picture if the address could not take it); ours: it comes back.
Codes == [home : 0 .. N, sealed : BOOLEAN, state : States, ours : BOOLEAN]
Dialogs == [id : 1 .. MaxDialogs, device : 0 .. MaxStarts, code : 0 .. MaxStarts,
            view : {"fresh", "preparing", "code", "retry", "error"}, timer : BOOLEAN,
            inFlight : BOOLEAN, closing : BOOLEAN, done : BOOLEAN, confirmed : 0 .. MaxStarts]
Begins == [dialog : 1 .. MaxDialogs, start : Starts, generation : Nat, device : 0 .. MaxStarts,
           step : {"register", "ask", "code", "error"}, host : Hosts]
Polls == [dialog : 1 .. MaxDialogs, code : Starts, left : SUBSET Hosts, best : States \cup {"unasked"}, failed : BOOLEAN,
          step : {"ask", "info", "waiting", "expired", "confirmed", "error"}]

Init ==
  /\ saved = NoDevice /\ dialog = NoDialog /\ opened = 0 /\ starts = 0
  /\ generation = 0 /\ login = NoLogin
  /\ codes = [s \in Starts |-> [home |-> 0, sealed |-> FALSE, state |-> "none", ours |-> FALSE]]
  /\ begins = {} /\ polls = {}

-----------------------------------------------------------------------------
(* The dialog. *)
Open ==
  /\ dialog = NoDialog /\ opened < MaxDialogs
  /\ opened' = opened + 1
  /\ dialog' = [id |-> opened + 1, device |-> saved, code |-> NoCode, view |-> "fresh", timer |-> FALSE,
                inFlight |-> FALSE, closing |-> FALSE, done |-> FALSE, confirmed |-> NoCode]
  /\ UNCHANGED <<saved, starts, generation, login, codes, begins, polls>>

\* start_login: when the dialog is shown, and on "Generate a new QR code". It
\* cancels what was under way (one generation) and begins anew (another).
Start ==
  /\ dialog # NoDialog /\ starts < MaxStarts
  /\ dialog.view = "fresh" \/ (dialog.view = "retry" /\ ~dialog.done)
  /\ starts' = starts + 1 /\ generation' = generation + 2 /\ login' = NoLogin
  /\ dialog' = [dialog EXCEPT !.closing = FALSE, !.confirmed = NoCode, !.inFlight = FALSE, !.timer = FALSE,
                              !.view = "preparing", !.code = NoCode]
  /\ begins' = begins \cup {[dialog |-> dialog.id, start |-> starts', generation |-> generation',
                             device |-> dialog.device, host |-> 1,
                             step |-> IF dialog.device = NoDevice THEN "register" ELSE "ask"]}
  /\ UNCHANGED <<saved, opened, codes, polls>>

\* Cancel and Escape reject the dialog; exec has still to return.
Reject ==
  /\ dialog # NoDialog /\ ~dialog.done
  /\ dialog' = [dialog EXCEPT !.done = TRUE]
  /\ UNCHANGED <<saved, opened, starts, generation, login, codes, begins, polls>>

\* closeEvent: cancel_login comes first.
CloseWindow ==
  /\ dialog # NoDialog /\ ~dialog.done
  /\ dialog' = [dialog EXCEPT !.done = TRUE, !.closing = TRUE, !.timer = FALSE, !.inFlight = FALSE]
  /\ generation' = generation + 1 /\ login' = NoLogin
  /\ UNCHANGED <<saved, opened, starts, codes, begins, polls>>

\* Mutant: the account is saved only after a complete sign-in.
SavedIfConfirmed(d) == IF d.confirmed # NoCode THEN d.device ELSE saved

\* The dock saves the account of the dialog, signed in or not.
Saved(d) == d.device

\* exec returns: the account is saved and the dialog destroyed, which cancels.
Returned ==
  /\ dialog # NoDialog /\ dialog.done
  /\ saved' = Saved(dialog) /\ dialog' = NoDialog
  /\ generation' = generation + 1 /\ login' = NoLogin
  /\ UNCHANGED <<opened, starts, codes, begins, polls>>

\* poll_login on the timer; the client's polling flag lets one poll through.
Tick ==
  /\ dialog # NoDialog /\ dialog.timer /\ ~dialog.inFlight /\ ~dialog.closing
  /\ IF login = NoLogin
     THEN /\ dialog' = [dialog EXCEPT !.view = "error", !.timer = FALSE]
          /\ UNCHANGED <<login, polls>>
     ELSE /\ dialog' = [dialog EXCEPT !.inFlight = TRUE]
          /\ login' = [login EXCEPT !.polling = TRUE]
          /\ polls' = IF login.polling THEN polls
                      ELSE polls \cup {[dialog |-> dialog.id, code |-> login.code, left |-> Hosts,
                                        best |-> "unasked", failed |-> FALSE, step |-> "ask"]}
  /\ UNCHANGED <<saved, opened, starts, generation, codes, begins>>

-----------------------------------------------------------------------------
(* begin_login_sync, on its thread: the device is registered unless there is  *)
(* one, then host after host is asked for a code until one gives a usable one. *)
StepBegin(b, next) ==
  /\ begins' = (begins \ {b}) \cup {next}
  /\ UNCHANGED <<saved, dialog, opened, starts, generation, login, polls>>

Register(b) ==
  /\ b.step = "register"
  /\ \/ StepBegin(b, [b EXCEPT !.step = "ask", !.device = b.start])
     \/ "failed" \in Faults /\ StepBegin(b, [b EXCEPT !.step = "error"])
  /\ UNCHANGED codes

AfterRefusal(b) == IF b.host < N THEN [b EXCEPT !.host = @ + 1] ELSE [b EXCEPT !.step = "error"]

\* Without an address there is no secret to expect: TikTok's picture is shown.
AskForCode(b) ==
  /\ b.step = "ask"
  /\ \/ /\ StepBegin(b, [b EXCEPT !.step = "code"])
        /\ \E sealed \in BOOLEAN :
             codes' = [codes EXCEPT ![b.start] =
                         [home |-> b.host, sealed |-> sealed, state |-> "new", ours |-> FALSE]]
     \/ "failed" \in Faults /\ StepBegin(b, AfterRefusal(b)) /\ UNCHANGED codes

-----------------------------------------------------------------------------
(* poll_login_sync, on its thread: the host of the code is asked first, then  *)
(* the others; the first confirmation that is ours ends the round, else the   *)
(* best answer counts.                                                        *)

\* What the host knows of the code; one that is not its home may be behind.
Answers(code, host) ==
  {[state |-> codes[code].state, ours |-> codes[code].ours]}
  \cup IF "lagging" \in Faults /\ host # codes[code].home
       THEN [state : {"none", "new", "expired"}, ours : {FALSE}] ELSE {}

\* Mutant: a confirmation counts whoever scanned the code.
AcceptedAnyway(answer, code) == answer.state = "confirmed"

Accepted(answer, code) == answer.state = "confirmed" /\ (codes[code].sealed => answer.ours)

Rank(state) ==
  CASE state = "scanned"   -> 3
    [] state = "confirmed" -> 2
    [] state = "new"       -> 1
    [] state = "unasked"   -> -1
    [] OTHER               -> 0

Better(state, best) == IF Rank(state) > Rank(best) THEN state ELSE best

\* What a round without a confirmation of ours comes to.
Verdict(p) ==
  IF p.failed /\ p.best \in {"unasked", "none"} THEN "error"
  ELSE IF p.best = "expired" THEN "expired" ELSE "waiting"

NextHost(p) ==
  IF codes[p.code].home \in p.left THEN codes[p.code].home
  ELSE CHOOSE h \in p.left : \A g \in p.left : h <= g

\* The locals of the worker end with its round.
Ended(p, step) == [p EXCEPT !.step = step, !.left = {}, !.best = "unasked", !.failed = FALSE]

Concluded(p) == IF p.left = {} THEN Ended(p, Verdict(p)) ELSE p

StepPoll(p, next) ==
  /\ polls' = (polls \ {p}) \cup {next}
  /\ UNCHANGED <<saved, dialog, opened, starts, generation, login, codes, begins>>

HostAnswers(p, answer) ==
  StepPoll(p, IF Accepted(answer, p.code) THEN Ended(p, "info")
              ELSE Concluded([p EXCEPT !.left = @ \ {NextHost(p)}, !.best = Better(answer.state, p.best)]))

PollAsks(p) ==
  /\ p.step = "ask"
  /\ \/ \E answer \in Answers(p.code, NextHost(p)) : HostAnswers(p, answer)
     \/ "failed" \in Faults
        /\ StepPoll(p, Concluded([p EXCEPT !.left = @ \ {NextHost(p)}, !.failed = TRUE]))

\* account_info_sync only reads; its failure does not undo the confirmation.
PollReadsAccount(p) == p.step = "info" /\ StepPoll(p, [p EXCEPT !.step = "confirmed"])

-----------------------------------------------------------------------------
(* The answers, on the dock's thread. The client drops those of an earlier    *)
(* generation; the dialog those for another dialog, or once it is closing.    *)
Current(id) == dialog # NoDialog /\ dialog.id = id /\ ~dialog.closing

\* Mutant: the generation is not compared.
StillWantedAnyway(b) == TRUE

StillWanted(b) == b.generation = generation

Known(device, old) == IF device = NoDevice THEN old ELSE device

\* Mutant: an answer without a code tells the dialog nothing.
LearnedWithCode(d, b) == IF b.step = "code" THEN [d EXCEPT !.device = Known(b.device, @)] ELSE d

\* The account of the answer, which may be an error that comes with a device.
Learned(d, b) == [d EXCEPT !.device = Known(b.device, @)]

BeginAnswered(b) ==
  /\ b.step \in {"code", "error"}
  /\ begins' = begins \ {b}
  /\ login' = IF StillWanted(b) /\ b.step = "code" THEN [code |-> b.start, polling |-> FALSE] ELSE login
  /\ IF StillWanted(b) /\ Current(b.dialog)
     THEN LET d == Learned(dialog, b)
          IN \/ b.step = "error" /\ dialog' = [d EXCEPT !.view = "error", !.timer = FALSE]
             \/ b.step = "code" /\ dialog' = [d EXCEPT !.view = "code", !.timer = TRUE, !.code = b.start]
             \/ b.step = "code" /\ "unreadable" \in Faults
                /\ dialog' = [d EXCEPT !.view = "retry", !.timer = FALSE]
     ELSE UNCHANGED dialog
  /\ UNCHANGED <<saved, opened, starts, generation, codes, polls>>

\* Mutant: an answer that changes nothing stops the timer.
ToldOnce(d, step) ==
  CASE step = "waiting"   -> [d EXCEPT !.timer = FALSE]
    [] step = "expired"   -> [d EXCEPT !.view = "retry", !.timer = FALSE]
    [] step = "error"     -> [d EXCEPT !.view = "error", !.timer = FALSE]
    [] step = "confirmed" -> [d EXCEPT !.timer = FALSE, !.confirmed = d.code, !.done = TRUE]

Told(d, step) ==
  CASE step = "waiting"   -> d
    [] step = "expired"   -> [d EXCEPT !.view = "retry", !.timer = FALSE]
    [] step = "error"     -> [d EXCEPT !.view = "error", !.timer = FALSE]
    [] step = "confirmed" -> [d EXCEPT !.timer = FALSE, !.confirmed = d.code, !.done = TRUE]

PollAnswered(p) ==
  /\ p.step \notin {"ask", "info"}
  /\ polls' = polls \ {p}
  /\ IF login.code = p.code
     THEN /\ login' = [login EXCEPT !.polling = FALSE]
          /\ dialog' = IF Current(p.dialog) THEN Told([dialog EXCEPT !.inFlight = FALSE], p.step) ELSE dialog
     ELSE UNCHANGED <<login, dialog>>
  /\ UNCHANGED <<saved, opened, starts, generation, codes, begins>>

-----------------------------------------------------------------------------
(* TikTok and the phone. Only a phone that reads the dialog's picture has the *)
(* secret in it, if its address could take one. Bound: a code moves on while   *)
(* it is on the screen or a poll asks for it; nothing else looks at it.        *)
PhoneStep(s, from, to, ours) ==
  /\ codes[s].state \in from
  /\ (dialog # NoDialog /\ dialog.code = s) \/ \E p \in polls : p.code = s
  /\ codes' = [codes EXCEPT ![s].state = to, ![s].ours = ours]
  /\ UNCHANGED <<saved, dialog, opened, starts, generation, login, begins, polls>>

Scan(s) == \E ours \in BOOLEAN : (ours => codes[s].sealed) /\ PhoneStep(s, {"new"}, "scanned", ours)
Confirm(s) == PhoneStep(s, {"scanned"}, "confirmed", codes[s].ours)
Expire(s) == PhoneStep(s, {"new", "scanned"}, "expired", FALSE)

BeginWorks == \E b \in begins : Register(b) \/ AskForCode(b)
BeginReturns == \E b \in begins : BeginAnswered(b)
PollWorks == \E p \in polls : PollAsks(p) \/ PollReadsAccount(p)
PollReturns == \E p \in polls : PollAnswered(p)
Phone == \E s \in Starts : Scan(s) \/ Confirm(s) \/ Expire(s)

Next ==
  \/ Open \/ Start \/ Reject \/ CloseWindow \/ Returned \/ Tick
  \/ BeginWorks \/ BeginReturns \/ PollWorks \/ PollReturns \/ Phone

Spec == Init /\ [][Next]_vars

\* The home of a code, asked again and again, does not fail each time.
HomeAnswers ==
  \E p \in polls :
    /\ p.step = "ask" /\ codes[p.code].home \in p.left
    /\ HostAnswers(p, [state |-> codes[p.code].state, ours |-> codes[p.code].ours])

FairSpec == Spec /\ WF_vars(Tick \/ PollWorks \/ PollReturns) /\ SF_vars(HomeAnswers)

-----------------------------------------------------------------------------
(* Properties. *)
TypeOK ==
  /\ saved \in 0 .. MaxStarts /\ opened \in 0 .. MaxDialogs /\ starts \in 0 .. MaxStarts
  /\ generation \in Nat
  /\ dialog \in Dialogs \cup {NoDialog} /\ (dialog # NoDialog => dialog.id = opened)
  /\ login \in [code : 0 .. MaxStarts, polling : BOOLEAN]
  /\ codes \in [Starts -> Codes]
  /\ begins \subseteq Begins /\ polls \subseteq Polls

\* While the dialog's timer runs, the client polls the code that is on the screen,
\* and a poll that counts as under way, for the dialog and for the client, is one
\* whose answer will reach this dialog (or poll_in_flight_, once set, would end all
\* polling: what poll_login and poll_qr_login return early for).
PollsWhatIsShown ==
  dialog # NoDialog /\ dialog.timer =>
    /\ login.code # NoCode /\ login.code = dialog.code
    /\ dialog.inFlight = login.polling
    /\ login.polling => \E p \in polls : p.code = login.code /\ p.dialog = dialog.id

\* The dialog is accepted only for the code on its screen, confirmed at TikTok by
\* the phone that scanned that screen, where the code carries our secret
\* (the checks of client_secret in poll_login_sync).
ConfirmedByUs ==
  dialog # NoDialog /\ dialog.confirmed # NoCode =>
    LET code == codes[dialog.confirmed]
    IN dialog.confirmed = dialog.code /\ code.state = "confirmed" /\ (code.sealed => code.ours)

Device == IF dialog = NoDialog THEN saved ELSE dialog.device

\* A device that was registered during an attempt reaches the dialog with the
\* answer, be it an error, and no later step gives it up or registers anew,
\* however the attempt ends: by an error, an expired code or the user (the
\* comments in start_login and begin_tiktok_studio_login).
DeviceKept ==
  [][/\ \A b \in begins \ begins' :
          b.step \in {"code", "error"} /\ StillWanted(b) /\ Current(b.dialog) /\ b.device # NoDevice
            => Device' = b.device
     /\ Device # NoDevice => Device' = Device]_vars

ShowsConfirmed ==
  /\ dialog # NoDialog /\ ~dialog.done /\ dialog.view = "code"
  /\ LET code == codes[dialog.code] IN code.state = "confirmed" /\ (code.sealed => code.ours)

\* A code our phone confirmed does not stay on the screen: the dialog is accepted,
\* or tells the user that the sign-in failed (whatever hosts fail or lag).
ConfirmationSeen == ShowsConfirmed ~> ~ShowsConfirmed
=============================================================================

--------------------------- MODULE QrLogin_proofs ---------------------------
(* The safety of QrLogin for any number of hosts, codes and dialogs, and any *)
(* faults.                                                                   *)
EXTENDS QrLogin, TLAPS

Active == dialog # NoDialog

\* The request for a code whose answer will count: the dialog waits for it.
Awaited(b) ==
  /\ login = NoLogin
  /\ Active /\ dialog.id = b.dialog /\ ~dialog.closing /\ ~dialog.timer /\ ~dialog.inFlight
  /\ dialog.confirmed = NoCode
  /\ dialog.device # NoDevice => b.device = dialog.device

\* No code is on the screen, or polled, before the request for it is answered.
Unknown(s) ==
  /\ login.code # s /\ (Active => dialog.code # s)
  /\ \A p \in polls : p.code # s

SoundBegin(b) ==
  /\ b.generation <= generation /\ b.start <= starts
  /\ b.step = "register" => b.device = NoDevice
  /\ Unknown(b.start)
  /\ b.generation = generation => Awaited(b)

Beginning ==
  /\ \A b \in begins : SoundBegin(b)
  /\ \A b, c \in begins : b.start = c.start \/ b.generation = c.generation => b = c

Numbered ==
  /\ login.code <= starts /\ (Active => dialog.code <= starts)
  /\ \A p \in polls : p.code <= starts

\* A poll for the present login is this dialog's, for the code on its screen.
Linked ==
  /\ login # NoLogin => login.code # NoCode /\ Active /\ ~dialog.closing
  /\ \A p \in polls : p.code = login.code => p.dialog = dialog.id /\ dialog.code = p.code
  /\ login.polling => \E p \in polls : p.code = login.code

Timed ==
  Active /\ dialog.timer =>
    login # NoLogin /\ login.code = dialog.code /\ dialog.inFlight = login.polling

Ours(s) == codes[s].state = "confirmed" /\ (codes[s].sealed => codes[s].ours)

Seen == \A p \in polls : p.step \in {"info", "confirmed"} => Ours(p.code)

Accepting == Active /\ dialog.confirmed # NoCode => dialog.confirmed = dialog.code /\ Ours(dialog.code)

IInv == TypeOK /\ Beginning /\ Numbered /\ Linked /\ Timed /\ Seen /\ Accepting

-----------------------------------------------------------------------------
LEMMA InitInv == Init => IInv
BY QrAssumption DEF Init, IInv, TypeOK, Beginning, Numbered, Linked, Timed, Seen, Accepting, Active,
   NoDialog, NoLogin, NoCode, NoDevice, Starts, Codes, States

\* The dialog opens on the saved account; no login is left from an earlier one.
LEMMA OpenInv == ASSUME IInv, Open PROVE IInv'
<1> USE DEF Open, IInv
<1>1. /\ login = NoLogin /\ \A b \in begins : b.generation # generation
      /\ \A p \in polls : p.code # NoCode
  BY DEF Linked, Beginning, SoundBegin, Awaited, Active, TypeOK, Polls, Starts, NoCode
<1>2. TypeOK'
  BY QrAssumption DEF TypeOK, Dialogs, NoDialog, NoDevice, NoCode
<1>3. Beginning'
  BY <1>1 DEF Beginning, SoundBegin, Unknown, Active, NoCode, TypeOK, Begins, Starts
<1>4. Numbered' /\ Linked' /\ Timed' /\ Seen' /\ Accepting'
  BY <1>1 DEF Numbered, Linked, Timed, Seen, Accepting, Ours, NoLogin, NoCode, TypeOK, Active
<1> QED
  BY <1>2, <1>3, <1>4

LEMMA StartInv == ASSUME IInv, Start PROVE IInv'
<1> USE DEF Start, IInv
<1> PICK new : new = [dialog |-> dialog.id, start |-> starts + 1, generation |-> generation + 2,
                      device |-> dialog.device, host |-> 1,
                      step |-> IF dialog.device = NoDevice THEN "register" ELSE "ask"]
  OBVIOUS
<1>0. dialog \in Dialogs /\ starts \in Nat /\ generation \in Nat /\ starts + 1 \in Starts
  BY QrAssumption DEF TypeOK, Dialogs, NoDialog, Starts
<1>1. /\ starts' = starts + 1 /\ starts' \in Starts /\ generation' = generation + 2
      /\ begins' = begins \cup {new} /\ new.start = starts' /\ new.generation = generation'
      /\ dialog'.id = dialog.id /\ dialog'.device = dialog.device
      /\ ~dialog'.closing /\ ~dialog'.timer /\ ~dialog'.inFlight
      /\ dialog'.code = NoCode /\ dialog'.confirmed = NoCode
  BY <1>0 DEF Dialogs
<1>10. dialog' \in Dialogs
  <2>1. dialog' = [dialog EXCEPT !.closing = FALSE, !.confirmed = NoCode, !.inFlight = FALSE, !.timer = FALSE,
                                 !.view = "preparing", !.code = NoCode]
    BY DEF Start
  <2>2. NoCode \in 0 .. MaxStarts
    BY QrAssumption DEF NoCode
  <2> HIDE DEF Start, IInv
  <2> QED
    BY <1>0, <2>1, <2>2 DEF Dialogs
<1>2. Active' /\ login' = NoLogin
  BY <1>1, <1>10 DEF Active, Dialogs, NoDialog
<1>3. new \in Begins
  BY <1>0, <1>1, QrAssumption DEF Begins, Dialogs, Hosts, NoDevice
<1>4. TypeOK'
  BY <1>0, <1>1, <1>2, <1>3, <1>10, QrAssumption DEF TypeOK, NoLogin, NoCode, Starts
<1>5. /\ \A p \in polls : p.code \in Starts /\ p.code < starts'
      /\ \A b \in begins : b.start \in Starts /\ b.start < starts' /\ b.generation < generation'
  BY <1>0, <1>1 DEF Numbered, TypeOK, Polls, Begins, Beginning, SoundBegin, Starts
<1>6. SoundBegin(new)'
  <2>1. Awaited(new)'
    BY <1>1, <1>2 DEF Awaited
  <2>2. Unknown(new.start)'
    BY <1>1, <1>2, <1>5 DEF Unknown, NoLogin, NoCode, Starts
  <2> QED
    BY <1>0, <1>1, <2>1, <2>2 DEF SoundBegin
<1>7. ASSUME NEW b \in begins PROVE SoundBegin(b)'
  <2>1. b \in Begins /\ SoundBegin(b)
    BY DEF Beginning, TypeOK
  <2>2. Unknown(b.start)'
    BY <1>1, <1>2, <1>5, <2>1 DEF SoundBegin, Unknown, NoLogin, NoCode, Starts
  <2>3. b.generation # generation' /\ b.generation <= generation' /\ b.start <= starts'
    BY <1>0, <1>1, <1>5, <2>1 DEF Begins, Starts
  <2> QED
    BY <2>1, <2>2, <2>3 DEF SoundBegin
<1>8. Beginning'
  <2>1. \A b \in begins : b.start # new.start /\ b.generation # new.generation
    BY <1>0, <1>1, <1>5 DEF TypeOK, Begins
  <2> QED
    BY <1>1, <1>6, <1>7, <2>1 DEF Beginning
<1>9. Numbered' /\ Linked' /\ Timed' /\ Seen' /\ Accepting'
  BY <1>1, <1>2, <1>5 DEF Numbered, Linked, Timed, Seen, Accepting, Ours, NoLogin, NoCode, Starts
<1> QED
  BY <1>4, <1>8, <1>9

LEMMA RejectInv == ASSUME IInv, Reject PROVE IInv'
<1> USE DEF Reject, IInv
<1>1. /\ dialog \in Dialogs /\ dialog' \in Dialogs /\ Active /\ Active'
      /\ \A f \in {"id", "device", "code", "timer", "inFlight", "closing", "confirmed"} : dialog'[f] = dialog[f]
  BY DEF TypeOK, Dialogs, Active, NoDialog
<1>2. TypeOK'
  BY <1>1 DEF TypeOK
<1>3. Beginning'
  BY <1>1 DEF Beginning, SoundBegin, Awaited, Unknown
<1>4. Numbered' /\ Linked' /\ Timed' /\ Seen' /\ Accepting'
  BY <1>1 DEF Numbered, Linked, Timed, Seen, Accepting, Ours
<1> QED
  BY <1>2, <1>3, <1>4

\* The login is dropped and the generation goes on: nothing is awaited any more.
LEMMA CancelInv ==
  ASSUME IInv, login' = NoLogin, generation' = generation + 1,
         UNCHANGED <<opened, starts, codes, begins, polls>>,
         TypeOK', Active' => Active /\ dialog'.code = dialog.code /\ ~dialog'.timer
                                    /\ dialog'.confirmed = dialog.confirmed
  PROVE  IInv'
<1> USE DEF IInv
<1>1. generation \in Nat /\ \A b \in begins : b.start \in Starts /\ b.generation \in Nat
  BY DEF TypeOK, Begins
<1>2. \A p \in polls : p.code \in Starts
  BY DEF TypeOK, Polls
<1>3. Beginning'
  BY <1>1 DEF Beginning, SoundBegin, Unknown, NoLogin, NoCode, Starts
<1>4. Numbered' /\ Linked' /\ Timed' /\ Seen' /\ Accepting'
  BY <1>2 DEF Numbered, Linked, Timed, Seen, Accepting, Ours, NoLogin, NoCode, Starts, TypeOK
<1> QED
  BY <1>3, <1>4

LEMMA CloseWindowInv == ASSUME IInv, CloseWindow PROVE IInv'
<1> USE DEF CloseWindow
<1>1. dialog \in Dialogs /\ dialog' \in Dialogs /\ Active /\ dialog'.id = dialog.id
  BY DEF IInv, TypeOK, Dialogs, Active
<1>2. dialog'.code = dialog.code /\ ~dialog'.timer /\ dialog'.confirmed = dialog.confirmed
  BY <1>1 DEF Dialogs
<1>3. TypeOK'
  BY <1>1, QrAssumption DEF IInv, TypeOK, NoLogin, NoCode, Active
<1> QED
  BY <1>1, <1>2, <1>3, CancelInv

LEMMA ReturnedInv == ASSUME IInv, Returned PROVE IInv'
<1>1. TypeOK'
  BY QrAssumption DEF Returned, Saved, IInv, TypeOK, Dialogs, NoLogin, NoCode
<1>2. ~Active'
  BY DEF Returned, Active
<1> QED
  BY <1>1, <1>2, CancelInv DEF Returned

LEMMA TickInv == ASSUME IInv, Tick PROVE IInv'
<1> USE DEF Tick, IInv
<1> DEFINE new == [dialog |-> dialog.id, code |-> login.code, left |-> Hosts, best |-> "unasked",
                   failed |-> FALSE, step |-> "ask"]
<1>1. /\ dialog \in Dialogs /\ Active /\ login # NoLogin /\ login.code = dialog.code
      /\ login.polling = FALSE /\ ~dialog.closing /\ login.code \in Starts
  BY DEF TypeOK, Active, Timed, Linked, Dialogs, NoCode, Starts
<1>2. /\ dialog' \in Dialogs /\ Active' /\ dialog'.inFlight = TRUE
      /\ \A f \in {"id", "device", "code", "timer", "closing", "confirmed"} : dialog'[f] = dialog[f]
  BY <1>1 DEF Dialogs, Active, NoDialog
<1>3. /\ login' # NoLogin /\ login'.code = login.code /\ login'.polling = TRUE
      /\ login' \in [code : 0 .. MaxStarts, polling : BOOLEAN]
  <2>1. login \in [code : 0 .. MaxStarts, polling : BOOLEAN] /\ login' = [login EXCEPT !.polling = TRUE]
    BY <1>1 DEF TypeOK
  <2>2. login' \in [code : 0 .. MaxStarts, polling : BOOLEAN]
    BY <2>1
  <2>3. login'.code = login.code /\ login'.polling = TRUE
    BY <2>1
  <2> QED
    BY <2>2, <2>3 DEF NoLogin
<1>. polls' = polls \cup {new}
  BY <1>1
<1>4. new \in Polls
  BY <1>1 DEF Polls, Dialogs
<1>5. TypeOK'
  BY <1>2, <1>3, <1>4 DEF TypeOK
<1>6. Beginning'
  BY <1>1, <1>2, <1>3 DEF Beginning, SoundBegin, Awaited, Unknown
<1>7. Numbered'
  BY <1>1, <1>2, <1>3 DEF Numbered
<1>8. Linked'
  <2>1. \A p \in polls' : p.code = login.code => p.dialog = dialog.id /\ dialog.code = p.code
    BY <1>1 DEF Linked
  <2>2. new \in polls' /\ new.code = login.code
    OBVIOUS
  <2> QED
    BY <1>1, <1>2, <1>3, <2>1, <2>2 DEF Linked, NoCode, Starts
<1>9. Timed'
  BY <1>1, <1>2, <1>3 DEF Timed
<1>10. Seen' /\ Accepting'
  BY <1>1, <1>2, <1>3 DEF Seen, Accepting, Ours
<1> QED
  BY <1>5, <1>6, <1>7, <1>8, <1>9, <1>10

-----------------------------------------------------------------------------
(* The threads: one request or poll goes on. *)
LEMMA StepBeginInv ==
  ASSUME IInv, NEW b \in begins, NEW c \in Begins, StepBegin(b, c),
         c.dialog = b.dialog, c.start = b.start, c.generation = b.generation,
         c.step # "register",
         c.device = b.device \/ (b.device = NoDevice /\ b.step = "register"),
         codes' \in [Starts -> Codes],
         \A s \in Starts : s # b.start => codes'[s] = codes[s]
  PROVE  IInv'
<1> USE DEF IInv, StepBegin
<1>1. TypeOK'
  BY DEF TypeOK
<1>2. Unknown(b.start) /\ SoundBegin(b)
  BY DEF Beginning, SoundBegin
<1>3. SoundBegin(c)'
  BY <1>2 DEF SoundBegin, Unknown, Awaited, Active
<1>4. \A d \in begins : SoundBegin(d)'
  BY DEF Beginning, SoundBegin, Unknown, Awaited, Active
<1>5. Beginning'
  BY <1>3, <1>4 DEF Beginning
<1>6. Numbered' /\ Linked' /\ Timed'
  BY DEF Numbered, Linked, Timed, Active
<1>7. Seen'
  BY <1>2 DEF Seen, Ours, Unknown, TypeOK, Polls
<1>8. Accepting'
  BY <1>2 DEF Accepting, Ours, Unknown, Active, TypeOK, Dialogs, Starts, NoCode
<1> QED
  BY <1>1, <1>5, <1>6, <1>7, <1>8

LEMMA BeginWorksInv == ASSUME IInv, BeginWorks PROVE IInv'
<1> PICK b \in begins : Register(b) \/ AskForCode(b)
  BY DEF BeginWorks
<1>1. b \in Begins
  BY DEF IInv, TypeOK
<1>2. CASE Register(b)
  <2> DEFINE c == [b EXCEPT !.step = "ask", !.device = b.start]
             d == [b EXCEPT !.step = "error"]
  <2>1. codes' = codes /\ b.step = "register" /\ b.device = NoDevice /\ (StepBegin(b, c) \/ StepBegin(b, d))
    BY <1>2 DEF Register, IInv, Beginning, SoundBegin
  <2>2. /\ c \in Begins /\ c.dialog = b.dialog /\ c.start = b.start /\ c.generation = b.generation
        /\ c.step = "ask"
    <3>1. b.start \in 0 .. MaxStarts
      BY <1>1 DEF Begins, Starts
    <3> QED
      BY <1>1, <3>1 DEF Begins
  <2>3. /\ d \in Begins /\ d.dialog = b.dialog /\ d.start = b.start /\ d.generation = b.generation
        /\ d.step = "error"
    BY <1>1 DEF Begins
  <2> HIDE DEF c, d
  <2> QED
    BY <2>1, <2>2, <2>3, StepBeginInv DEF IInv, TypeOK
<1>3. CASE AskForCode(b)
  <2> DEFINE next == {[b EXCEPT !.step = "code"], [b EXCEPT !.host = @ + 1], [b EXCEPT !.step = "error"]}
  <2>1. PICK c \in next : StepBegin(b, c) /\ (c.host = b.host \/ b.host < N)
    BY <1>1, <1>3 DEF AskForCode, AfterRefusal, Begins
  <2>2. /\ c \in Begins /\ c.dialog = b.dialog /\ c.start = b.start /\ c.generation = b.generation
        /\ c.step # "register" /\ c.device = b.device
    BY <1>1, <1>3, <2>1, QrAssumption DEF AskForCode, Begins, Hosts
  <2>3. /\ codes' \in [Starts -> Codes] /\ \A s \in Starts : s # b.start => codes'[s] = codes[s]
    <3>1. CASE codes' = codes
      BY <3>1 DEF IInv, TypeOK
    <3>2. CASE codes' # codes
      <4>1. PICK sealed \in BOOLEAN :
              codes' = [codes EXCEPT ![b.start] =
                          [home |-> b.host, sealed |-> sealed, state |-> "new", ours |-> FALSE]]
        BY <1>3, <3>2 DEF AskForCode
      <4>2. [home |-> b.host, sealed |-> sealed, state |-> "new", ours |-> FALSE] \in Codes
        BY <1>1, QrAssumption DEF Begins, Codes, States, Hosts
      <4> QED
        BY <4>1, <4>2 DEF IInv, TypeOK
    <3> QED
      BY <3>1, <3>2
  <2> QED
    BY <2>1, <2>2, <2>3, StepBeginInv
<1> QED
  BY <1>2, <1>3

LEMMA StepPollInv ==
  ASSUME IInv, NEW p \in polls, NEW q \in Polls, StepPoll(p, q),
         q.dialog = p.dialog, q.code = p.code,
         q.step \in {"info", "confirmed"} => Ours(p.code)
  PROVE  IInv'
<1> USE DEF IInv, StepPoll
<1>1. TypeOK'
  BY DEF TypeOK
<1>2. Beginning'
  BY DEF Beginning, SoundBegin, Awaited, Unknown, Active
<1>3. Numbered' /\ Linked' /\ Timed'
  BY DEF Numbered, Linked, Timed, Active
<1>4. Seen' /\ Accepting'
  BY DEF Seen, Accepting, Ours, Active
<1> QED
  BY <1>1, <1>2, <1>3, <1>4

\* Only what is confirmed by our phone is accepted of a host: an answer that is
\* behind confirms nothing.
LEMMA AcceptedOurs ==
  ASSUME NEW code, NEW host, NEW answer \in Answers(code, host), Accepted(answer, code)
  PROVE  Ours(code)
<1>1. answer.state = "confirmed"
  BY DEF Accepted
<1>2. answer \notin [state : {"none", "new", "expired"}, ours : {FALSE}]
  BY <1>1
<1>3. answer = [state |-> codes[code].state, ours |-> codes[code].ours]
  BY <1>2 DEF Answers
<1> QED
  BY <1>1, <1>3 DEF Accepted, Ours

LEMMA ConcludedTyped ==
  ASSUME NEW p \in Polls
  PROVE  /\ Concluded(p) \in Polls /\ Concluded(p).dialog = p.dialog /\ Concluded(p).code = p.code
         /\ p.step = "ask" => Concluded(p).step \notin {"info", "confirmed"}
BY DEF Concluded, Ended, Verdict, Polls

LEMMA PollWorksInv == ASSUME IInv, PollWorks PROVE IInv'
<1> PICK p \in polls : PollAsks(p) \/ PollReadsAccount(p)
  BY DEF PollWorks
<1>1. p \in Polls /\ codes[p.code] \in Codes
  BY DEF IInv, TypeOK, Polls
<1>2. ASSUME p.step = "ask", NEW answer \in Answers(p.code, NextHost(p)), HostAnswers(p, answer)
      PROVE  IInv'
  <2>1. CASE Accepted(answer, p.code)
    <3>1. Ended(p, "info") \in Polls
      BY <1>1 DEF Ended, Polls
    <3> QED
      BY <1>1, <1>2, <2>1, <3>1, AcceptedOurs, StepPollInv DEF HostAnswers, Ended, Polls
  <2>2. CASE ~Accepted(answer, p.code)
    <3> DEFINE q == [p EXCEPT !.left = @ \ {NextHost(p)}, !.best = Better(answer.state, p.best)]
    <3>1. answer.state \in States
      <4>1. \A a \in [state : {"none", "new", "expired"}, ours : {FALSE}] : a.state \in States
        BY DEF States
      <4>2. CASE answer = [state |-> codes[p.code].state, ours |-> codes[p.code].ours]
        BY <1>1, <4>2 DEF Codes
      <4>3. CASE answer \in [state : {"none", "new", "expired"}, ours : {FALSE}]
        BY <4>1, <4>3
      <4> QED
        BY <1>2, <4>2, <4>3 DEF Answers
    <3>2. Better(answer.state, p.best) \in States \cup {"unasked"}
      BY <1>1, <3>1 DEF Better, Polls
    <3>3. q \in Polls /\ q.dialog = p.dialog /\ q.code = p.code /\ q.step = "ask"
      BY <1>1, <1>2, <3>2 DEF Polls
    <3>4. StepPoll(p, Concluded(q))
      BY <1>2, <2>2 DEF HostAnswers
    <3> HIDE DEF q
    <3> QED
      BY <3>3, <3>4, ConcludedTyped, StepPollInv
  <2> QED
    BY <2>1, <2>2
<1>3. ASSUME p.step = "ask", StepPoll(p, Concluded([p EXCEPT !.left = @ \ {NextHost(p)}, !.failed = TRUE]))
      PROVE  IInv'
  <2> DEFINE q == [p EXCEPT !.left = @ \ {NextHost(p)}, !.failed = TRUE]
  <2>1. q \in Polls /\ q.dialog = p.dialog /\ q.code = p.code /\ q.step = "ask"
    BY <1>1, <1>3 DEF Polls
  <2>2. StepPoll(p, Concluded(q))
    BY <1>3
  <2> HIDE DEF q
  <2> QED
    BY <2>1, <2>2, ConcludedTyped, StepPollInv
<1>4. CASE PollReadsAccount(p)
  <2>1. [p EXCEPT !.step = "confirmed"] \in Polls /\ Ours(p.code)
    BY <1>1, <1>4 DEF PollReadsAccount, Polls, IInv, Seen
  <2> QED
    BY <1>1, <1>4, <2>1, StepPollInv DEF PollReadsAccount, Polls
<1> QED
  BY <1>2, <1>3, <1>4 DEF PollAsks

-----------------------------------------------------------------------------
(* The answers. *)
LEMMA BeginAnsweredInv == ASSUME IInv, NEW b \in begins, BeginAnswered(b) PROVE IInv'
<1> USE DEF BeginAnswered, IInv
<1>1. b \in Begins /\ SoundBegin(b) /\ begins' = begins \ {b} /\ polls' = polls
      /\ starts' = starts /\ generation' = generation /\ codes' = codes
  BY DEF TypeOK, Beginning
<1>2. CASE ~StillWanted(b)
  <2>1. login' = login /\ dialog' = dialog
    BY <1>2
  <2>2. TypeOK'
    BY <1>1, <2>1 DEF TypeOK
  <2>3. Beginning'
    BY <1>1, <2>1 DEF Beginning, SoundBegin, Awaited, Unknown, Active
  <2>4. Numbered' /\ Linked' /\ Timed' /\ Seen' /\ Accepting'
    BY <1>1, <2>1 DEF Numbered, Linked, Timed, Seen, Accepting, Ours, Active
  <2> QED
    BY <2>2, <2>3, <2>4
<1>3. CASE StillWanted(b)
  <2>1. Awaited(b) /\ Current(b.dialog) /\ dialog \in Dialogs /\ Unknown(b.start) /\ b.start <= starts
    BY <1>1, <1>3 DEF SoundBegin, StillWanted, Awaited, Current, Active, TypeOK
  <2>2. \A c \in begins' : c \in Begins /\ c.generation # generation /\ c.start # b.start /\ SoundBegin(c)
    BY <1>1, <1>3 DEF Beginning, StillWanted, TypeOK
  <2> DEFINE d == Learned(dialog, b)
  <2>3. /\ d \in Dialogs /\ Known(b.device, dialog.device) \in 0 .. MaxStarts
        /\ \A f \in {"id", "code", "timer", "inFlight", "closing", "confirmed"} : d[f] = dialog[f]
    BY <1>1, <2>1 DEF Learned, Known, Dialogs, Begins
  <2>12. \/ b.step = "error" /\ dialog' = [d EXCEPT !.view = "error", !.timer = FALSE]
         \/ b.step = "code" /\ dialog' = [d EXCEPT !.view = "code", !.timer = TRUE, !.code = b.start]
         \/ b.step = "code" /\ dialog' = [d EXCEPT !.view = "retry", !.timer = FALSE]
    BY <1>3, <2>1
  <2> HIDE DEF d
  <2>13. /\ dialog' \in Dialogs /\ dialog'.id = dialog.id /\ ~dialog'.closing /\ dialog'.inFlight = FALSE
         /\ dialog'.confirmed = NoCode /\ dialog'.code \in {dialog.code, b.start}
         /\ dialog'.timer => dialog'.code = b.start /\ b.step = "code"
    <3>1. b.start \in 0 .. MaxStarts /\ d \in Dialogs
      BY <1>1, <2>3 DEF Begins, Starts
    <3>2. d.closing = FALSE /\ d.inFlight = FALSE /\ d.timer = FALSE /\ d.confirmed = NoCode
      BY <2>1, <2>3 DEF Awaited, Dialogs
    <3>3. CASE b.step = "error" /\ dialog' = [d EXCEPT !.view = "error", !.timer = FALSE]
      BY <2>3, <3>1, <3>2, <3>3 DEF Dialogs
    <3>4. CASE b.step = "code" /\ dialog' = [d EXCEPT !.view = "code", !.timer = TRUE, !.code = b.start]
      BY <2>3, <3>1, <3>2, <3>4 DEF Dialogs
    <3>5. CASE b.step = "code" /\ dialog' = [d EXCEPT !.view = "retry", !.timer = FALSE]
      BY <2>3, <3>1, <3>2, <3>5 DEF Dialogs
    <3> QED
      BY <2>12, <3>3, <3>4, <3>5
  <2>14. Active /\ Active'
    BY <2>1, <2>13 DEF Awaited, Active, Dialogs, NoDialog
  <2>4. login' \in {NoLogin, [code |-> b.start, polling |-> FALSE]}
        /\ (b.step = "code" => login' = [code |-> b.start, polling |-> FALSE])
    BY <1>3, <2>1 DEF Awaited
  <2>5. TypeOK'
    BY <1>1, <2>4, <2>13, <2>14, QrAssumption DEF TypeOK, Begins, Starts, NoLogin, NoCode, Active
  <2>6. \A c \in begins' : SoundBegin(c)'
    BY <1>1, <2>2, <2>4, <2>13, <2>14 DEF SoundBegin, Unknown, NoLogin, NoCode, Begins, Starts
  <2>7. Beginning'
    BY <1>1, <2>6 DEF Beginning
  <2>8. \A p \in polls : p.code \in Starts /\ p.code # b.start
    BY <2>1 DEF TypeOK, Polls, Unknown
  <2>9. Numbered' /\ Seen'
    BY <1>1, <2>1, <2>4, <2>13, <2>14 DEF Numbered, Seen, Ours, NoLogin, NoCode, TypeOK
  <2>10. b.start # NoCode
    BY <1>1 DEF Begins, Starts, NoCode
  <2>11. Linked'
    <3>1. login'.code \in {NoCode, b.start} /\ login'.polling = FALSE
      BY <2>4 DEF NoLogin
    <3>2. \A p \in polls' : p.code # login'.code
      BY <1>1, <2>8, <3>1 DEF NoCode, Starts
    <3>3. login' # NoLogin => login'.code # NoCode
      BY <2>4, <2>10
    <3> QED
      BY <2>13, <2>14, <3>1, <3>2, <3>3 DEF Linked
  <2>15. Timed' /\ Accepting'
    <3>1. ASSUME dialog'.timer
          PROVE  login' # NoLogin /\ login'.code = dialog'.code /\ dialog'.inFlight = FALSE /\ login'.polling = FALSE
      BY <2>4, <2>10, <2>13, <3>1 DEF NoLogin
    <3> QED
      BY <2>13, <3>1 DEF Timed, Accepting
  <2> QED
    BY <2>5, <2>7, <2>9, <2>11, <2>15
<1> QED
  BY <1>2, <1>3

LEMMA ToldTyped ==
  ASSUME NEW d \in Dialogs, NEW step \in {"waiting", "expired", "confirmed", "error"}
  PROVE  LET t == Told(d, step)
         IN /\ t \in Dialogs
            /\ t.id = d.id /\ t.device = d.device /\ t.code = d.code /\ t.closing = d.closing
            /\ t.inFlight = d.inFlight /\ (t.timer => d.timer)
            /\ t.confirmed = IF step = "confirmed" THEN d.code ELSE d.confirmed
BY DEF Told, Dialogs

LEMMA PollAnsweredInv == ASSUME IInv, NEW p \in polls, PollAnswered(p) PROVE IInv'
<1> USE DEF PollAnswered, IInv
<1>1. p \in Polls /\ p.step \in {"waiting", "expired", "confirmed", "error"}
  BY DEF TypeOK, Polls
<1>2. CASE login.code # p.code
  <2>1. login' = login /\ dialog' = dialog
    BY <1>2
  <2>2. TypeOK' /\ Beginning'
    BY <2>1 DEF TypeOK, Beginning, SoundBegin, Awaited, Unknown, Active
  <2>3. Numbered' /\ Linked' /\ Timed' /\ Seen' /\ Accepting'
    BY <1>2, <2>1 DEF Numbered, Linked, Timed, Seen, Accepting, Ours, Active
  <2> QED
    BY <2>2, <2>3
<1>3. CASE login.code = p.code
  <2>1. login # NoLogin /\ p.code # NoCode /\ p.code \in Starts
    BY <1>1, <1>3 DEF Polls, Starts, NoLogin, NoCode
  <2>2. Current(p.dialog) /\ dialog.code = p.code /\ dialog \in Dialogs
    BY <1>3, <2>1 DEF Linked, Current, Active, TypeOK
  <2> DEFINE d == [dialog EXCEPT !.inFlight = FALSE]
  <2>3. /\ d \in Dialogs /\ d.inFlight = FALSE
        /\ \A f \in {"id", "device", "code", "timer", "closing", "confirmed"} : d[f] = dialog[f]
    BY <2>2 DEF Dialogs
  <2>4. dialog' = Told(d, p.step)
    BY <1>3, <2>2
  <2>5. login' = [login EXCEPT !.polling = FALSE]
    BY <1>3
  <2>6. login' \in [code : 0 .. MaxStarts, polling : BOOLEAN] /\ login'.code = login.code
        /\ login'.polling = FALSE /\ login' # NoLogin
    BY <1>3, <2>1, <2>5 DEF TypeOK, NoLogin
  <2> HIDE DEF d
  <2>7. /\ dialog' \in Dialogs /\ dialog'.id = dialog.id /\ dialog'.code = dialog.code
        /\ dialog'.closing = dialog.closing /\ dialog'.inFlight = FALSE /\ (dialog'.timer => dialog.timer)
        /\ dialog'.confirmed \in {dialog.confirmed, dialog.code}
        /\ dialog'.confirmed # dialog.confirmed => p.step = "confirmed" /\ dialog'.confirmed = dialog.code
    BY <1>1, <2>3, <2>4, ToldTyped
  <2>8. Active /\ Active'
    BY <2>2, <2>7 DEF Active, Current, Dialogs, NoDialog
  <2>9. TypeOK'
    BY <2>6, <2>7, <2>8 DEF TypeOK, Active
  <2>10. Beginning'
    BY <2>1, <2>6, <2>7, <2>8 DEF Beginning, SoundBegin, Awaited, Unknown
  <2>11. Numbered' /\ Seen'
    BY <2>6, <2>7, <2>8 DEF Numbered, Seen, Ours
  <2>13. Linked'
    BY <1>3, <2>1, <2>2, <2>6, <2>7, <2>8 DEF Linked, Current
  <2>14. Timed'
    <3>1. dialog'.timer => login.code = dialog.code
      BY <2>7, <2>8 DEF Timed
    <3>2. dialog'.timer => login' # NoLogin /\ login'.code = dialog'.code /\ dialog'.inFlight = login'.polling
      BY <2>6, <2>7, <3>1
    <3> QED
      BY <3>2 DEF Timed
  <2>12. Accepting'
    BY <2>2, <2>7, <2>8 DEF Accepting, Seen, Ours
  <2> QED
    BY <2>9, <2>10, <2>11, <2>12, <2>13, <2>14
<1> QED
  BY <1>2, <1>3

\* A confirmed code is never touched again.
LEMMA PhoneInv == ASSUME IInv, Phone PROVE IInv'
<1> PICK s \in Starts, from \in {{"new"}, {"scanned"}, {"new", "scanned"}},
         to \in States, ours \in BOOLEAN : PhoneStep(s, from, to, ours)
  <2>1. \A s \in Starts : codes[s].ours \in BOOLEAN
    BY DEF IInv, TypeOK, Codes
  <2> QED
    BY <2>1 DEF Phone, Scan, Confirm, Expire, States
<1> USE DEF PhoneStep, IInv
<1>1. codes' \in [Starts -> Codes]
  <2>1. codes \in [Starts -> Codes] /\ codes[s] \in Codes
    BY DEF TypeOK
  <2>2. codes' = [codes EXCEPT ![s] = [codes[s] EXCEPT !.state = to, !.ours = ours]]
    BY <2>1
  <2>3. [codes[s] EXCEPT !.state = to, !.ours = ours] \in Codes
    BY <2>1 DEF Codes
  <2> QED
    BY <2>1, <2>2, <2>3
<1>2. ASSUME NEW c \in Starts, Ours(c) PROVE Ours(c)'
  BY <1>2 DEF Ours, TypeOK
<1>3. TypeOK'
  BY <1>1 DEF TypeOK
<1>4. Beginning' /\ Numbered' /\ Linked' /\ Timed'
  BY DEF Beginning, SoundBegin, Awaited, Unknown, Numbered, Linked, Timed, Active
<1>5. Seen'
  BY <1>2 DEF Seen, TypeOK, Polls
<1>6. Accepting'
  BY <1>2 DEF Accepting, Active, TypeOK, Dialogs, Starts, NoCode
<1> QED
  BY <1>3, <1>4, <1>5, <1>6

LEMMA NextInv == IInv /\ [Next]_vars => IInv'
<1> SUFFICES ASSUME IInv, [Next]_vars PROVE IInv'
  OBVIOUS
<1>1. CASE UNCHANGED vars
  BY <1>1 DEF vars, IInv, TypeOK, Beginning, SoundBegin, Awaited, Unknown, Numbered, Linked, Timed, Seen,
     Accepting, Ours, Active
<1>2. CASE Open \/ Start \/ Reject \/ CloseWindow \/ Returned \/ Tick
  BY <1>2, OpenInv, StartInv, RejectInv, CloseWindowInv, ReturnedInv, TickInv
<1>3. CASE BeginWorks \/ BeginReturns \/ PollWorks \/ PollReturns \/ Phone
  BY <1>3, BeginWorksInv, BeginAnsweredInv, PollWorksInv, PollAnsweredInv, PhoneInv DEF BeginReturns, PollReturns
<1> QED
  BY <1>1, <1>2, <1>3 DEF Next

LEMMA Inductive == Spec => []IInv
<1>1. Init => IInv
  BY InitInv
<1>2. IInv /\ [Next]_vars => IInv'
  BY NextInv
<1> QED
  BY <1>1, <1>2, PTL DEF Spec

-----------------------------------------------------------------------------
\* The dialog, the client and the requests keep their types; no host beyond the
\* last is asked for a code.
THEOREM TypeCorrect == Spec => []TypeOK
<1>1. IInv => TypeOK
  BY DEF IInv
<1> QED
  BY <1>1, Inductive, PTL

\* The code polled is the one on the screen, and a poll that counts as under way
\* is one whose answer reaches the dialog, whatever late answers come between.
THEOREM PollsTheScreen == Spec => []PollsWhatIsShown
<1>1. IInv => PollsWhatIsShown
  BY DEF IInv, TypeOK, Linked, Timed, Active, PollsWhatIsShown, NoDialog
<1> QED
  BY <1>1, Inductive, PTL

\* The dialog is accepted only for the code on its screen, confirmed by the phone
\* that scanned it.
THEOREM AcceptedOnlyOurs == Spec => []ConfirmedByUs
<1>1. IInv => ConfirmedByUs
  BY DEF IInv, Accepting, Active, Ours, ConfirmedByUs
<1> QED
  BY <1>1, Inductive, PTL

\* A device an answer brings reaches the dialog, with an error too, and stays,
\* in the dialog and in what is saved.
THEOREM DeviceStays == Spec => DeviceKept
<1>1. ASSUME IInv, [Next]_vars PROVE Device # NoDevice => Device' = Device
  <2> USE DEF Device
  <2>1. dialog \in Dialogs \cup {NoDialog}
    BY <1>1 DEF IInv, TypeOK
  <2>2. CASE UNCHANGED <<saved, dialog>>
    BY <2>2
  <2>3. CASE Open \/ Start \/ Reject \/ CloseWindow \/ Returned \/ Tick
    <3>1. CASE Open \/ Returned
      BY <2>1, <3>1 DEF Open, Returned, Saved, Dialogs, NoDialog
    <3>2. CASE Start \/ Reject \/ CloseWindow
      BY <2>1, <3>2 DEF Start, Reject, CloseWindow, Dialogs, NoDialog
    <3>3. CASE Tick
      BY <2>1, <3>3 DEF Tick, Dialogs, NoDialog
    <3> QED
      BY <2>3, <3>1, <3>2, <3>3
  <2>4. ASSUME NEW b \in begins, BeginAnswered(b) PROVE Device # NoDevice => Device' = Device
    <3>1. b \in Begins /\ SoundBegin(b)
      BY <1>1 DEF IInv, TypeOK, Beginning
    <3> QED
      BY <2>1, <2>4, <3>1 DEF BeginAnswered, SoundBegin, Awaited, Active, StillWanted, Learned,
         Known, Dialogs, NoDialog
  <2>5. ASSUME NEW p \in polls, PollAnswered(p) PROVE Device # NoDevice => Device' = Device
    <3>1. p.step \in {"waiting", "expired", "confirmed", "error"}
      BY <1>1, <2>5 DEF IInv, TypeOK, Polls, PollAnswered
    <3>2. CASE dialog' = dialog
      BY <2>5, <3>2 DEF PollAnswered
    <3>3. CASE dialog' # dialog
      <4> DEFINE d == [dialog EXCEPT !.inFlight = FALSE]
      <4>1. dialog \in Dialogs /\ d \in Dialogs /\ dialog' = Told(d, p.step) /\ d.device = dialog.device
        BY <2>1, <2>5, <3>3 DEF PollAnswered, Current, Dialogs
      <4> HIDE DEF d
      <4>2. dialog' \in Dialogs /\ dialog'.device = dialog.device
        BY <3>1, <4>1, ToldTyped
      <4> QED
        BY <4>1, <4>2 DEF Dialogs, NoDialog
    <3> QED
      BY <3>2, <3>3
  <2>6. CASE BeginWorks \/ PollWorks \/ Phone
    BY <2>2, <2>6 DEF BeginWorks, Register, AskForCode, StepBegin, PollWorks, PollAsks, HostAnswers, StepPoll,
       PollReadsAccount, Phone, Scan, Confirm, Expire, PhoneStep
  <2> QED
    BY <1>1, <2>2, <2>3, <2>4, <2>5, <2>6 DEF Next, vars, BeginReturns, PollReturns
<1> DEFINE Brings(b) == b.step \in {"code", "error"} /\ StillWanted(b) /\ Current(b.dialog)
                         /\ b.device # NoDevice
           Brought == \A b \in begins \ begins' : Brings(b) => Device' = b.device
<1>2. ASSUME IInv, Next PROVE Brought
  <2>1. CASE UNCHANGED begins
    BY <2>1
  <2>2. CASE Start
    BY <2>2 DEF Start
  <2>3. ASSUME NEW b \in begins, Register(b) \/ AskForCode(b) PROVE Brought
    BY <2>3 DEF Register, AskForCode, StepBegin
  <2>4. ASSUME NEW b \in begins, BeginAnswered(b) PROVE Brought
    <3>1. begins \ begins' \subseteq {b}
      BY <2>4 DEF BeginAnswered
    <3>2. ASSUME Brings(b) PROVE Device' = b.device
      <4> DEFINE d == Learned(dialog, b)
      <4>1. dialog \in Dialogs /\ b.device \in 0 .. MaxStarts
        BY <1>2, <2>4, <3>2 DEF IInv, TypeOK, Current, Begins
      <4>2. d \in Dialogs /\ d.device = b.device
        BY <3>2, <4>1 DEF Learned, Known, Dialogs
      <4>3. \/ dialog' = [d EXCEPT !.view = "error", !.timer = FALSE]
            \/ dialog' = [d EXCEPT !.view = "code", !.timer = TRUE, !.code = b.start]
            \/ dialog' = [d EXCEPT !.view = "retry", !.timer = FALSE]
        BY <2>4, <3>2 DEF BeginAnswered
      <4> HIDE DEF d
      <4>4. dialog'.device = b.device /\ dialog' # NoDialog
        <5>1. "id" \in DOMAIN dialog' /\ dialog'.device = d.device /\ dialog'.id = d.id
          BY <4>2, <4>3 DEF Dialogs
        <5>2. dialog'.id = dialog.id
          BY <4>1, <5>1 DEF d, Learned, Dialogs
        <5> QED
          BY <2>4, <3>2, <4>1, <4>2, <5>1, <5>2 DEF NoDialog, Dialogs
      <4> QED
        BY <4>4 DEF Device
    <3> QED
      BY <3>1, <3>2
  <2> QED
    BY <1>2, <2>1, <2>2, <2>3, <2>4 DEF Next, Open, Reject, CloseWindow, Returned, Tick, BeginWorks,
       BeginReturns, PollWorks, PollAsks, HostAnswers, StepPoll, PollReadsAccount, PollReturns,
       PollAnswered, Phone, Scan, Confirm, Expire, PhoneStep
<1>3. IInv /\ [Next]_vars => [Brought /\ (Device # NoDevice => Device' = Device)]_vars
  BY <1>1, <1>2 DEF vars
<1> QED
  BY <1>3, Inductive, PTL DEF Spec, DeviceKept
=============================================================================

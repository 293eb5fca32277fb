------------------------- MODULE LiveSession_proofs -------------------------
(***************************************************************************)
(* What the LIVE lifecycle keeps for any number of profiles, outputs and   *)
(* sessions and any faults, in three parts.                                *)
(*                                                                         *)
(* 1. The flags that block the dock and the calls that must not overlap,   *)
(*    whatever the user does and however often OBS restarts.  A handler is *)
(*    a function on records, so the argument is compositional: every       *)
(*    operator a handler is built from maps a sound record to a sound one  *)
(*    and drops no call but a signature prefetch.  Commit then carries the *)
(*    soundness of the record over to the invariant.                       *)
(* 2. The reservations, for a patient user, who acts on a profile only     *)
(*    while none of its calls is pending.  Then a profile has one call at  *)
(*    most, and PatientInv says for each kind of call what the row of the  *)
(*    profile and the captures of the call have to do with each other.     *)
(* 3. An output started with its profile is verified before the profile is *)
(*    shown LIVE, whatever the user does.                                  *)
(***************************************************************************)
EXTENDS LiveSessionProperties, FiniteSetTheorems, TLAPS

Encoders == [Outputs -> {"off", "starting", "active"}]

Handler == [row : Row, calls : SUBSET Call, prep : SUBSET Outputs,
            signed : SUBSET Target, enc : Encoders]

Enders == EndOps \cup {"failed", "unsigned"}
Recoverers == {"resume", "reconcile", "endRecovery"}

EndOK(h, p) == h.row.ending => \E c \in h.calls : c.p = p /\ c.op \in Enders
RecOK(h, p) == h.row.recovering => \E c \in h.calls : c.p = p /\ c.op \in Recoverers

\* No two transactions, and no two prefetches of one output.
Apart(h) ==
  /\ \A c, d \in h.calls : c.op = "update" /\ d.op = "update" => c = d
  /\ \A c, d \in h.calls : c.op = "sign" /\ d.op = "sign" /\ c.o = d.o => c = d

Typed(h) == h \in Handler /\ Apart(h)
Sound(h, p) == Typed(h) /\ EndOK(h, p) /\ RecOK(h, p)

\* g drops no call of h but prefetches.
Keeps(h, g) == \A d \in h.calls : d.op # "sign" => d \in g.calls

IInv == TypeOK /\ EndingHasCall /\ RecoveringHasCall /\ OneTransaction /\ OnePrefetch

-----------------------------------------------------------------------------
\* Rows.

\* ProfileLiveSession::reserve and mark_uncertain return a row at rest.
LEMMA ReserveRow ==
  ASSUME NEW row \in Row, NEW s \in Sessions \cup {NoSession}
  PROVE  /\ Reserve(row, s) \in Row
         /\ ~Reserve(row, s).ending /\ ~Reserve(row, s).recovering
         /\ MarkUncertain(row, s) \in Row
         /\ ~MarkUncertain(row, s).ending /\ ~MarkUncertain(row, s).recovering
BY DEF Reserve, MarkUncertain, Row

\* So does clear_live_session.
LEMMA ClearRow ==
  ASSUME NEW p, NEW row \in Row
  PROVE  /\ ClearLive(p, row) \in Row
         /\ ~ClearLive(p, row).ending /\ ~ClearLive(p, row).recovering
<1>1. Clear(row) \in Row /\ ~Clear(row).ending /\ ~Clear(row).recovering
  BY DEF Clear, Row
<1>2. Unassign(Clear(row)) \in Row /\ ~Unassign(Clear(row)).ending
                                  /\ ~Unassign(Clear(row)).recovering
  BY <1>1 DEF Unassign, Row, Target
<1>. QED
  BY <1>1, <1>2 DEF ClearLive

\* Losing the output leaves the other flags alone.
LEMMA UnassignRow ==
  ASSUME NEW row \in Row
  PROVE  /\ Unassign(row) \in Row
         /\ Unassign(row).ending = row.ending /\ Unassign(row).recovering = row.recovering
BY DEF Unassign, Row, Target

-----------------------------------------------------------------------------
\* The primitives of a handler.

\* A new row that starts no end and no recovery.
LEMMA WithSound ==
  ASSUME NEW p, NEW h, Sound(h, p), NEW row \in Row,
         row.ending => h.row.ending, row.recovering => h.row.recovering
  PROVE  /\ Sound(With(h, row), p) /\ Keeps(h, With(h, row))
         /\ With(h, row).row = row /\ With(h, row).calls = h.calls
         /\ With(h, row).enc = h.enc
BY DEF Sound, Typed, Handler, Apart, EndOK, RecOK, With, Keeps

\* A row that is at rest makes any record sound again.
LEMMA WithRest ==
  ASSUME NEW p, NEW h, Typed(h), NEW row \in Row, ~row.ending, ~row.recovering
  PROVE  Sound(With(h, row), p) /\ Keeps(h, With(h, row))
BY DEF Sound, Typed, Handler, Apart, EndOK, RecOK, With, Keeps

\* A new call that is neither a transaction nor a prefetch.
LEMMA IssueSound ==
  ASSUME NEW p, NEW h, Sound(h, p), NEW c \in Call, c.op # "update", c.op # "sign"
  PROVE  Sound(Issue(h, c), p) /\ Keeps(h, Issue(h, c))
BY DEF Sound, Typed, Handler, Apart, EndOK, RecOK, Issue, Keeps

\* A row that is ending together with the call that ends it.
LEMMA IssueEnd ==
  ASSUME NEW p, NEW h, Typed(h), RecOK(h, p), NEW c \in Call, c.p = p, c.op \in Enders
  PROVE  Sound(Issue(h, c), p) /\ Keeps(h, Issue(h, c))
BY DEF Sound, Typed, Handler, Apart, EndOK, RecOK, Issue, Keeps, Enders, EndOps

\* A row that is recovering together with the call that resolves it.
LEMMA IssueRecovery ==
  ASSUME NEW p, NEW h, Typed(h), EndOK(h, p), NEW c \in Call, c.p = p, c.op \in Recoverers
  PROVE  Sound(Issue(h, c), p) /\ Keeps(h, Issue(h, c))
BY DEF Sound, Typed, Handler, Apart, EndOK, RecOK, Issue, Keeps, Recoverers

\* Taking an output out of outputs_preparing_ touches no call.
LEMMA UnmarkSound ==
  ASSUME NEW p, NEW h, Sound(h, p), NEW o
  PROVE  /\ Sound(Unmark(h, o), p) /\ Keeps(h, Unmark(h, o))
         /\ Unmark(h, o).row = h.row /\ Unmark(h, o).calls = h.calls
         /\ Unmark(h, o).enc = h.enc
BY DEF Sound, Typed, Handler, Apart, EndOK, RecOK, Unmark, Keeps

\* The same for a record whose row is about to change.
LEMMA UnmarkTyped ==
  ASSUME NEW h, Typed(h), NEW o
  PROVE  /\ Typed(Unmark(h, o)) /\ Keeps(h, Unmark(h, o))
         /\ Unmark(h, o).row = h.row /\ Unmark(h, o).calls = h.calls
BY DEF Typed, Handler, Apart, Unmark, Keeps

\* OutputSigningManager::detach drops prefetches only.
LEMMA DetachSound ==
  ASSUME NEW p, NEW h, Sound(h, p), NEW o
  PROVE  /\ Sound(Detach(h, o), p) /\ Keeps(h, Detach(h, o))
         /\ Detach(h, o).row = h.row /\ Detach(h, o).enc = h.enc
         /\ \A d \in Detach(h, o).calls : d.op = "sign" => d.o # o
BY DEF Sound, Typed, Handler, Apart, EndOK, RecOK, Detach, Keeps, Enders, EndOps, Recoverers

\* The same for a record whose row is about to change.
LEMMA DetachTyped ==
  ASSUME NEW h, Typed(h), NEW o
  PROVE  Typed(Detach(h, o)) /\ Keeps(h, Detach(h, o)) /\ Detach(h, o).row = h.row
BY DEF Typed, Handler, Apart, Detach, Keeps

\* The callback of another operation with the same captures.
LEMMA Relabel ==
  ASSUME NEW c \in Call, NEW op \in Ops
  PROVE  /\ [c EXCEPT !.op = op] \in Call
         /\ [c EXCEPT !.op = op].op = op /\ [c EXCEPT !.op = op].p = c.p
         /\ [c EXCEPT !.op = op].o = c.o
BY DEF Call

-----------------------------------------------------------------------------
\* The functions of BridgeDock, each sound for any captured call.

\* clear_live_session puts the row at rest.
LEMMA ClearSessionSound ==
  ASSUME NEW p, NEW h, Typed(h)
  PROVE  Sound(ClearSession(h, p), p) /\ Keeps(h, ClearSession(h, p))
<1>. DEFINE g == Detach(h, SigningTarget(h.row))
            row == ClearLive(p, h.row)
<1>1. Typed(g) /\ Keeps(h, g)
  BY DetachTyped
<1>2. row \in Row /\ ~row.ending /\ ~row.recovering
  BY ClearRow DEF Typed, Handler
<1>3. Sound(With(g, row), p) /\ Keeps(g, With(g, row))
  BY <1>1, <1>2, WithRest
<1>. QED
  BY <1>1, <1>3 DEF ClearSession, Keeps

\* refresh_tiktok_studio_account adds a request at most.
LEMMA RefreshSound ==
  ASSUME NEW p \in Profiles, NEW h, Sound(h, p)
  PROVE  Sound(Refresh(h, p), p) /\ Keeps(h, Refresh(h, p))
<1>. DEFINE c == [op |-> "refresh", p |-> p, o |-> NoOutput, s |-> NoSession, start |-> FALSE]
<1>1. c \in Call
  BY DEF Call, Ops, Target
<1>2. Sound(Issue(h, c), p) /\ Keeps(h, Issue(h, c))
  BY <1>1, IssueSound
<1>. QED
  BY <1>2 DEF Refresh, Keeps

\* An answered end request takes ending, or recovering, back.
LEMMA FinishEndSound ==
  ASSUME NEW p \in Profiles, NEW h, Typed(h), NEW c \in Call, c.p = p, NEW ended \in BOOLEAN,
         \/ c.op \in EndOps /\ RecOK(h, p)
         \/ c.op = "endUpdate" /\ Sound(h, p)
         \/ c.op = "endRecovery" /\ EndOK(h, p)
  PROVE  Sound(FinishEnd(h, c, ended), p) /\ Keeps(h, FinishEnd(h, c, ended))
<1>. DEFINE g == IF c.start \/ c.op \in {"endUnsigned", "endUnstarted"} THEN Unmark(h, c.o) ELSE h
            done == [g.row EXCEPT !.ending = FALSE]
<1>1. Typed(g) /\ Keeps(h, g) /\ g.row = h.row /\ g.calls = h.calls
  BY UnmarkTyped DEF Keeps
<1>2. g.row \in Row /\ done \in Row /\ ~done.ending /\ done.recovering = g.row.recovering
  BY <1>1 DEF Typed, Handler, Row
<1>3. c.s \in Sessions \cup {NoSession}
  BY DEF Call
<1>4. Typed(With(g, done)) /\ Keeps(g, With(g, done))
  BY <1>1, <1>2 DEF Typed, Handler, Apart, With, Keeps
<1>5. Sound(ClearSession(With(g, done), p), p) /\ Keeps(With(g, done), ClearSession(With(g, done), p))
  BY <1>4, ClearSessionSound
<1>6. CASE ended /\ c.op = "endUpdate"
  <2>1. Sound(g, p)
    BY <1>1, <1>6 DEF Sound, EndOK, RecOK, EndOps
  <2>2. [g.row EXCEPT !.preparing = FALSE] \in Row
    BY <1>2 DEF Row
  <2>3. /\ Sound(With(g, [g.row EXCEPT !.preparing = FALSE]), p)
        /\ Keeps(g, With(g, [g.row EXCEPT !.preparing = FALSE]))
    BY <2>1, <2>2, <1>2, WithSound DEF Row
  <2>. QED
    BY <2>3, <1>1, <1>6 DEF FinishEnd, Keeps
<1>7. CASE ended /\ c.op = "endUser"
  BY <1>7, <1>1, <1>4, <1>5, RefreshSound DEF FinishEnd, Keeps
<1>8. CASE ended /\ c.op # "endUpdate" /\ c.op # "endUser"
  BY <1>8, <1>1, <1>4, <1>5 DEF FinishEnd, Keeps
<1>9. CASE ~ended
  <2>. DEFINE after == CASE c.op = "endUser" -> [done EXCEPT !.uncertain = TRUE]
                    [] c.op = "endFailed" -> [done EXCEPT !.live = FALSE, !.uncertain = TRUE]
                    [] c.op = "endUnsigned" -> MarkUncertain(done, c.s)
                    [] c.op = "endUnstarted" -> done
                    [] c.op = "endUpdate" -> Reserve(g.row, c.s)
                    [] c.op = "endRecovery" -> [g.row EXCEPT !.recovering = FALSE,
                                                             !.uncertain = TRUE]
  <2>1. FinishEnd(h, c, ended) = With(g, after)
    BY <1>9 DEF FinishEnd
  <2>2. ASSUME c.op \in EndOps PROVE after \in Row /\ ~after.ending /\ (after.recovering => g.row.recovering)
    <3>1. MarkUncertain(done, c.s) \in Row /\ ~MarkUncertain(done, c.s).ending
                                           /\ ~MarkUncertain(done, c.s).recovering
      BY <1>2, <1>3, ReserveRow
    <3>2. CASE c.op = "endUser"
      BY ZenonT(30), <3>2, <1>2 DEF Row
    <3>3. CASE c.op = "endFailed"
      BY ZenonT(30), <3>3, <1>2 DEF Row
    <3>4. CASE c.op \in {"endUnsigned", "endUnstarted"}
      BY <3>4, <3>1, <1>2
    <3>. QED
      BY <2>2, <3>2, <3>3, <3>4 DEF EndOps
  <2>3. ASSUME c.op = "endUpdate" PROVE after \in Row /\ ~after.ending /\ ~after.recovering
    BY <2>3, <1>2, <1>3, ReserveRow
  <2>4. ASSUME c.op = "endRecovery"
        PROVE  after \in Row /\ ~after.recovering /\ after.ending = g.row.ending
    BY ZenonT(30), <2>4, <1>2 DEF Row
  <2>5. Sound(With(g, after), p) /\ Keeps(g, With(g, after))
    BY <2>2, <2>3, <2>4, <1>1, <1>2 DEF Sound, Typed, Handler, Apart, EndOK, RecOK, With, Keeps
  <2>. QED
    BY <2>1, <2>5, <1>1 DEF Keeps
<1>. QED
  BY <1>6, <1>7, <1>8, <1>9

\* Asking for an end leaves the request, or its answer, behind.
LEMMA RequestEndSound ==
  ASSUME NEW p \in Profiles, NEW h, Typed(h), RecOK(h, p), NEW c \in Call, c.p = p,
         c.op \in EndOps \cup {"endUpdate"}, c.op = "endUpdate" => EndOK(h, p)
  PROVE  Sound(RequestEnd(h, c), p) /\ Keeps(h, RequestEnd(h, c))
<1>1. /\ Sound(FinishEnd(h, c, TRUE), p) /\ Keeps(h, FinishEnd(h, c, TRUE))
      /\ Sound(FinishEnd(h, c, FALSE), p) /\ Keeps(h, FinishEnd(h, c, FALSE))
  BY FinishEndSound DEF Sound
<1>2. Sound(Issue(h, c), p) /\ Keeps(h, Issue(h, c))
  <2>1. CASE c.op \in EndOps
    BY <2>1, IssueEnd DEF Enders
  <2>2. CASE c.op = "endUpdate"
    BY <2>2, IssueSound DEF Sound
  <2>. QED
    BY <2>1, <2>2
<1>. QED
  BY <1>1, <1>2 DEF RequestEnd
\* The flags that block nothing can be set freely.
LEMMA FlagRow ==
  ASSUME NEW row \in Row, NEW b \in BOOLEAN, NEW b2 \in BOOLEAN, NEW b3 \in BOOLEAN
  PROVE  /\ [row EXCEPT !.preparing = b] \in Row
         /\ [row EXCEPT !.preparing = b].ending = row.ending
         /\ [row EXCEPT !.preparing = b].recovering = row.recovering
         /\ [row EXCEPT !.live = b, !.preparing = b2] \in Row
         /\ [row EXCEPT !.live = b, !.preparing = b2].ending = row.ending
         /\ [row EXCEPT !.live = b, !.preparing = b2].recovering = row.recovering
         /\ [row EXCEPT !.live = b, !.preparing = b2, !.uncertain = b3] \in Row
         /\ [row EXCEPT !.live = b, !.preparing = b2, !.uncertain = b3].ending = row.ending
         /\ [row EXCEPT !.live = b, !.preparing = b2, !.uncertain = b3].recovering
              = row.recovering
BY DEF Row

\* fail_tiktok_studio_start leaves the error box behind.
LEMMA FailSound ==
  ASSUME NEW p \in Profiles, NEW h, Sound(h, p), NEW c \in Call, c.p = p
  PROVE  Sound(Fail(h, c), p) /\ Keeps(h, Fail(h, c))
<1>. DEFINE g == Detach(h, c.o)
            row == [h.row EXCEPT !.preparing = FALSE, !.ending = TRUE]
            d == [c EXCEPT !.op = "failed"]
<1>1. Sound(g, p) /\ Keeps(h, g) /\ g.row = h.row
  BY DetachSound
<1>2. row \in Row /\ row.recovering = h.row.recovering
  BY DEF Sound, Typed, Handler, Row
<1>3. Typed(With(g, row)) /\ RecOK(With(g, row), p) /\ Keeps(g, With(g, row))
  BY <1>1, <1>2 DEF Sound, Typed, Handler, Apart, RecOK, With, Keeps
<1>4. d \in Call /\ d.p = p /\ d.op \in Enders
  BY Relabel DEF Ops, Enders
<1>5. Sound(Issue(With(g, row), d), p) /\ Keeps(With(g, row), Issue(With(g, row), d))
  BY <1>3, <1>4, IssueEnd
<1>. QED
  BY <1>1, <1>3, <1>5 DEF Fail, Keeps

\* The callbacks of prepare_output_signing.
LEMMA SignedSound ==
  ASSUME NEW p \in Profiles, NEW h, Sound(h, p), NEW c \in Call, c.p = p
  PROVE  Sound(Signed(h, c), p) /\ Keeps(h, Signed(h, c))
<1>0. h.row \in Row
  BY DEF Sound, Typed, Handler
<1>1. CASE p \in Studio
  <2>. DEFINE g == With(h, [h.row EXCEPT !.live = TRUE, !.preparing = FALSE])
  <2>1. Sound(g, p) /\ Keeps(h, g)
    BY <1>0, FlagRow, WithSound
  <2>. QED
    BY <2>1, <1>1, RefreshSound DEF Signed, Keeps
<1>2. CASE p \notin Studio
  <2>. DEFINE g == With(h, [h.row EXCEPT !.preparing = FALSE])
              d == [c EXCEPT !.op = "start"]
  <2>1. Sound(g, p) /\ Keeps(h, g)
    BY <1>0, FlagRow, WithSound
  <2>2. d \in Call /\ d.op = "start"
    BY Relabel DEF Ops
  <2>3. Sound(Issue(g, d), p) /\ Keeps(g, Issue(g, d))
    BY <2>1, <2>2, IssueSound
  <2>. QED
    BY <2>1, <2>3, <1>2 DEF Signed, Keeps
<1>. QED
  BY <1>1, <1>2

\* A failed prefetch leaves an error box behind.
LEMMA UnsignedSound ==
  ASSUME NEW p \in Profiles, NEW h, Sound(h, p), NEW c \in Call, c.p = p
  PROVE  Sound(Unsigned(h, c), p) /\ Keeps(h, Unsigned(h, c))
<1>1. CASE p \in Studio
  <2>1. [c EXCEPT !.start = FALSE] \in Call /\ [c EXCEPT !.start = FALSE].p = p
    BY DEF Call
  <2>. QED
    BY <2>1, <1>1, FailSound DEF Unsigned
<1>2. CASE p \notin Studio
  <2>. DEFINE row == [h.row EXCEPT !.preparing = FALSE, !.ending = TRUE]
              d == [c EXCEPT !.op = "unsigned"]
  <2>1. row \in Row /\ row.recovering = h.row.recovering
    BY DEF Sound, Typed, Handler, Row
  <2>2. Typed(With(h, row)) /\ RecOK(With(h, row), p) /\ Keeps(h, With(h, row))
    BY <2>1 DEF Sound, Typed, Handler, Apart, RecOK, With, Keeps
  <2>3. d \in Call /\ d.p = p /\ d.op \in Enders
    BY Relabel DEF Ops, Enders
  <2>4. Sound(Issue(With(h, row), d), p) /\ Keeps(With(h, row), Issue(With(h, row), d))
    BY <2>2, <2>3, IssueEnd
  <2>. QED
    BY <2>2, <2>4, <1>2 DEF Unsigned, Keeps
<1>. QED
  BY <1>1, <1>2

\* prepare_and_attach detaches the output before it asks for a signature: this
\* is what keeps the prefetches of one output apart.
LEMMA RequestSignSound ==
  ASSUME NEW p \in Profiles, NEW h, Sound(h, p), NEW c \in Call, c.p = p
  PROVE  Sound(RequestSign(h, c), p) /\ Keeps(h, RequestSign(h, c))
<1>0. h.row \in Row /\ c.o \in Target
  BY DEF Sound, Typed, Handler, Call
<1>1. CASE p \in Signing
  <2>. DEFINE row == [h.row EXCEPT !.signing = c.o]
              g == Detach(With(h, row), c.o)
              d == [c EXCEPT !.op = "sign"]
  <2>1. row \in Row /\ row.ending = h.row.ending /\ row.recovering = h.row.recovering
    BY <1>0 DEF Row
  <2>2. Sound(With(h, row), p) /\ Keeps(h, With(h, row))
    BY <2>1, WithSound
  <2>3. /\ Sound(g, p) /\ Keeps(With(h, row), g)
        /\ \A e \in g.calls : e.op = "sign" => e.o # c.o
    BY <2>2, DetachSound
  <2>4. d \in Call /\ d.op = "sign" /\ d.o = c.o
    BY Relabel DEF Ops
  <2>5. Sound(Issue(g, d), p) /\ Keeps(g, Issue(g, d))
    BY ZenonT(30), <2>3, <2>4 DEF Sound, Typed, Handler, Apart, EndOK, RecOK, Issue, Keeps
  <2>. QED
    BY <2>2, <2>3, <2>5, <1>1 DEF RequestSign, Keeps
<1>2. CASE p \notin Signing
  <2>. DEFINE previous == IF h.row.signing = Unset THEN c.o ELSE h.row.signing
              row == [h.row EXCEPT !.signing = Unset]
              g == Detach(h, previous)
  <2>1. Sound(g, p) /\ Keeps(h, g) /\ g.row = h.row
    BY DetachSound
  <2>2. row \in Row /\ row.ending = h.row.ending /\ row.recovering = h.row.recovering
    BY <1>0 DEF Row
  <2>3. Sound(With(g, row), p) /\ Keeps(g, With(g, row))
    BY <2>1, <2>2, WithSound
  <2>4. Sound(Signed(With(g, row), c), p) /\ Keeps(With(g, row), Signed(With(g, row), c))
    BY <2>3, SignedSound
  <2>. QED
    BY <2>1, <2>3, <2>4, <1>2 DEF RequestSign, Keeps
<1>. QED
  BY <1>1, <1>2

\* The callbacks of update_aitum_output_for_profile.
LEMMA UpdatedSound ==
  ASSUME NEW p \in Profiles, NEW h, Sound(h, p), NEW c \in Call, c.p = p
  PROVE  Sound(Updated(h, c), p) /\ Keeps(h, Updated(h, c))
<1>0. h.row \in Row /\ c.s \in Sessions \cup {NoSession}
  BY DEF Sound, Typed, Handler, Call
<1>1. CASE p \in Studio /\ c.start
  <2>. DEFINE g == With(h, [h.row EXCEPT !.preparing = TRUE])
              d == [c EXCEPT !.op = "start"]
  <2>1. Sound(g, p) /\ Keeps(h, g)
    BY <1>0, FlagRow, WithSound
  <2>2. d \in Call /\ d.op = "start"
    BY Relabel DEF Ops
  <2>3. Sound(Issue(g, d), p) /\ Keeps(g, Issue(g, d))
    BY <2>1, <2>2, IssueSound
  <2>. QED
    BY <2>1, <2>3, <1>1 DEF Updated, Keeps
<1>2. CASE p \in Studio /\ ~c.start
  <2>. DEFINE g == With(h, [h.row EXCEPT !.live = TRUE, !.preparing = FALSE])
              u == Unmark(g, c.o)
  <2>1. Sound(g, p) /\ Keeps(h, g)
    BY <1>0, FlagRow, WithSound
  <2>2. Sound(u, p) /\ Keeps(g, u)
    BY <2>1, UnmarkSound
  <2>3. Sound(Refresh(u, p), p) /\ Keeps(u, Refresh(u, p))
    BY <2>2, RefreshSound
  <2>. QED
    BY <2>1, <2>2, <2>3, <1>2 DEF Updated, Keeps
<1>3. CASE p \notin Studio
  <2>. DEFINE row == [Reserve(h.row, c.s) EXCEPT !.preparing = c.p \in Signing]
  <2>0. Reserve(h.row, c.s) \in Row /\ ~Reserve(h.row, c.s).ending
                                    /\ ~Reserve(h.row, c.s).recovering
    BY <1>0, ReserveRow
  <2>1. row \in Row /\ ~row.ending /\ ~row.recovering
    <3>. DEFINE b == c.p \in Signing
                base == Reserve(h.row, c.s)
    <3>1. b \in BOOLEAN /\ base \in Row /\ ~base.ending /\ ~base.recovering
      BY <2>0
    <3>. HIDE DEF b, base
    <3>2. LET r == [base EXCEPT !.preparing = b] IN r \in Row /\ ~r.ending /\ ~r.recovering
      BY <3>1 DEF Row
    <3>. QED
      BY <3>2 DEF b, base
  <2>2. Sound(With(h, row), p) /\ Keeps(h, With(h, row))
    BY <2>1, WithSound
  <2>3. Sound(RequestSign(With(h, row), c), p) /\ Keeps(With(h, row), RequestSign(With(h, row), c))
    BY <2>2, RequestSignSound
  <2>. QED
    BY <2>2, <2>3, <1>3 DEF Updated, Keeps
<1>. QED
  BY <1>1, <1>2, <1>3

\* A refused or failed update leads to the error box or to the end request.
LEMMA NotUpdatedSound ==
  ASSUME NEW p \in Profiles, NEW h, Sound(h, p), NEW c \in Call, c.p = p
  PROVE  Sound(NotUpdated(h, c), p) /\ Keeps(h, NotUpdated(h, c))
<1>1. CASE p \in Studio
  BY <1>1, FailSound DEF NotUpdated
<1>2. CASE p \notin Studio
  <2>. DEFINE g == With(h, [h.row EXCEPT !.preparing = FALSE])
              d == [c EXCEPT !.op = "endUpdate"]
  <2>1. Sound(g, p) /\ Keeps(h, g)
    BY FlagRow, WithSound DEF Sound, Typed, Handler
  <2>2. d \in Call /\ d.op = "endUpdate" /\ d.p = p
    BY Relabel DEF Ops
  <2>3. Sound(RequestEnd(g, d), p) /\ Keeps(g, RequestEnd(g, d))
    BY <2>1, <2>2, RequestEndSound DEF Sound
  <2>. QED
    BY <2>1, <2>3, <1>2 DEF NotUpdated, Keeps
<1>. QED
  BY <1>1, <1>2

\* update_async refuses a second transaction, so two are never pending.
LEMMA RequestUpdateSound ==
  ASSUME NEW p \in Profiles, NEW h, Sound(h, p), NEW c \in Call, c.p = p
  PROVE  Sound(RequestUpdate(h, c), p) /\ Keeps(h, RequestUpdate(h, c))
<1>. DEFINE d == [c EXCEPT !.op = "update"]
<1>1. d \in Call /\ d.op = "update"
  BY Relabel DEF Ops
<1>2. CASE \E e \in h.calls : e.op = "update"
  BY <1>2, NotUpdatedSound DEF RequestUpdate
<1>3. CASE ~\E e \in h.calls : e.op = "update"
  <2>1. Sound(Issue(h, d), p) /\ Keeps(h, Issue(h, d))
    BY <1>1, <1>3 DEF Sound, Typed, Handler, Apart, EndOK, RecOK, Issue, Keeps
  <2>. QED
    BY <2>1, <1>3 DEF RequestUpdate
<1>. QED
  BY <1>2, <1>3
\* A row that a function of ProfileLiveSession left at rest, and flags on top.
LEMMA ReservedRow ==
  ASSUME NEW row \in Row, NEW s \in Sessions \cup {NoSession}, NEW a \in BOOLEAN, NEW b \in BOOLEAN
  PROVE  LET r == [Reserve(row, s) EXCEPT !.live = a, !.preparing = b]
             q == [Reserve(row, s) EXCEPT !.preparing = b]
             m == [MarkUncertain(row, s) EXCEPT !.live = a]
             l == [Reserve(row, s) EXCEPT !.live = a]
         IN /\ r \in Row /\ ~r.ending /\ ~r.recovering
            /\ q \in Row /\ ~q.ending /\ ~q.recovering
            /\ m \in Row /\ ~m.ending /\ ~m.recovering
            /\ l \in Row /\ ~l.ending /\ ~l.recovering
BY ZenonT(30) DEF Reserve, MarkUncertain, Row

\* activate_tiktok_studio_live
LEMMA ActivateSound ==
  ASSUME NEW p \in Profiles, NEW h, Sound(h, p), NEW c \in Call, c.p = p
  PROVE  Sound(Activate(h, c), p) /\ Keeps(h, Activate(h, c))
<1>. DEFINE g == With(h, [Reserve(h.row, c.s) EXCEPT !.live = FALSE, !.preparing = TRUE])
<1>1. h.row \in Row /\ c.s \in Sessions \cup {NoSession}
  BY DEF Sound, Typed, Handler, Call
<1>2. Sound(g, p) /\ Keeps(h, g)
  BY <1>1, ReservedRow, WithSound
<1>3. Sound(RequestSign(g, c), p) /\ Keeps(g, RequestSign(g, c))
  BY <1>2, RequestSignSound
<1>4. Sound(RequestUpdate(g, c), p) /\ Keeps(g, RequestUpdate(g, c))
  BY <1>2, RequestUpdateSound
<1>. QED
  BY <1>2, <1>3, <1>4 DEF Activate, Keeps

\* The success branch of create_live in start_profile_live.
LEMMA CreatedSound ==
  ASSUME NEW p \in Profiles, NEW h, Sound(h, p), NEW c \in Call, c.p = p
  PROVE  Sound(Created(h, c), p) /\ Keeps(h, Created(h, c))
<1>. DEFINE g == With(h, [Reserve(h.row, c.s) EXCEPT !.preparing = TRUE])
            r == With(h, Reserve(h.row, c.s))
<1>1. h.row \in Row /\ c.s \in Sessions \cup {NoSession}
  BY DEF Sound, Typed, Handler, Call
<1>2. Sound(g, p) /\ Keeps(h, g)
  BY <1>1, ReservedRow, WithSound
<1>3. Sound(r, p) /\ Keeps(h, r)
  BY <1>1, ReserveRow, WithSound
<1>4. Sound(RequestSign(g, c), p) /\ Keeps(g, RequestSign(g, c))
  BY <1>2, RequestSignSound
<1>5. Sound(RequestUpdate(h, c), p) /\ Keeps(h, RequestUpdate(h, c))
  BY RequestUpdateSound
<1>. QED
  BY <1>2, <1>3, <1>4, <1>5 DEF Created, Keeps

\* start_profile_live
LEMMA StartSound ==
  ASSUME NEW p \in Profiles, NEW h, Sound(h, p), NEW start \in BOOLEAN
  PROVE  Sound(Start(h, p, start), p) /\ Keeps(h, Start(h, p, start))
<1>. DEFINE row == [h.row EXCEPT !.preparing = TRUE, !.ending = FALSE, !.uncertain = FALSE]
            g == With(h, row)
            c == [op |-> IF p \in Studio THEN "find" ELSE "create",
                  p |-> p, o |-> h.row.output, s |-> NoSession, start |-> start]
<1>1. row \in Row /\ ~row.ending /\ row.recovering = h.row.recovering
  BY DEF Sound, Typed, Handler, Row
<1>2. Sound(g, p) /\ Keeps(h, g)
  BY <1>1, WithSound
<1>3. c \in Call /\ c.p = p /\ c.op # "update" /\ c.op # "sign"
  BY DEF Sound, Typed, Handler, Row, Call, Ops
<1>4. Sound(Created(g, c), p) /\ Keeps(g, Created(g, c))
  BY <1>2, <1>3, CreatedSound
<1>5. Sound(Issue(g, c), p) /\ Keeps(g, Issue(g, c))
  BY <1>2, <1>3, IssueSound
<1>6. Sound(Begin(h, p, start), p) /\ Keeps(h, Begin(h, p, start))
  BY <1>2, <1>4, <1>5 DEF Begin, Keeps
<1>7. Sound(Unmark(h, h.row.output), p) /\ Keeps(h, Unmark(h, h.row.output))
  BY UnmarkSound
<1>. QED
  BY <1>6, <1>7 DEF Start, Keeps

\* end_unstarted_aitum_session
LEMMA EndUnstartedSound ==
  ASSUME NEW p \in Profiles, NEW h, Sound(h, p), NEW c \in Call, c.p = p
  PROVE  Sound(EndUnstarted(h, c), p) /\ Keeps(h, EndUnstarted(h, c))
<1>. DEFINE row == [h.row EXCEPT !.ending = TRUE]
            d == [c EXCEPT !.op = "endUnstarted", !.s = h.row.sid]
<1>1. row \in Row /\ row.recovering = h.row.recovering
  BY DEF Sound, Typed, Handler, Row
<1>2. Typed(With(h, row)) /\ RecOK(With(h, row), p) /\ Keeps(h, With(h, row))
  BY <1>1 DEF Sound, Typed, Handler, Apart, RecOK, With, Keeps
<1>3. d \in Call /\ d.p = p /\ d.op = "endUnstarted"
  BY DEF Sound, Typed, Handler, Row, Call, Ops, EndOps
<1>4. Sound(RequestEnd(With(h, row), d), p) /\ Keeps(With(h, row), RequestEnd(With(h, row), d))
  BY <1>2, <1>3, RequestEndSound DEF EndOps
<1>5. Sound(Unmark(h, c.o), p) /\ Keeps(h, Unmark(h, c.o))
  BY UnmarkSound
<1>. QED
  BY <1>2, <1>4, <1>5 DEF EndUnstarted, Keeps

\* One attempt of verify_aitum_output_started.
LEMMA VerifyOnceSound ==
  ASSUME NEW p \in Profiles, NEW h, Sound(h, p), NEW c \in Call, c.p = p
  PROVE  Sound(VerifyOnce(h, c), p) /\ Keeps(h, VerifyOnce(h, c))
<1>. DEFINE u == Unmark(h, c.o)
            row == [h.row EXCEPT !.live = TRUE, !.preparing = FALSE, !.uncertain = FALSE]
            d == [c EXCEPT !.op = "verify"]
<1>1. Sound(u, p) /\ Keeps(h, u) /\ u.row = h.row
  BY UnmarkSound
<1>2. row \in Row /\ row.ending = h.row.ending /\ row.recovering = h.row.recovering
  BY FlagRow DEF Sound, Typed, Handler
<1>3. Sound(With(u, row), p) /\ Keeps(u, With(u, row))
  BY <1>1, <1>2, WithSound
<1>4. Sound(Refresh(With(u, row), p), p) /\ Keeps(With(u, row), Refresh(With(u, row), p))
  BY <1>3, RefreshSound
<1>5. d \in Call /\ d.op = "verify"
  BY Relabel DEF Ops
<1>6. Sound(Issue(h, d), p) /\ Keeps(h, Issue(h, d))
  BY <1>5, IssueSound
<1>. QED
  BY <1>1, <1>3, <1>4, <1>6 DEF VerifyOnce, Keeps

\* end_profile_live
LEMMA EndSound ==
  ASSUME NEW p \in Profiles, NEW h, Sound(h, p), NEW stopped \in BOOLEAN
  PROVE  Sound(End(h, p, stopped), p) /\ Keeps(h, End(h, p, stopped))
<1>. DEFINE o == h.row.output
            row == [h.row EXCEPT !.ending = TRUE]
            ask == [op |-> "endUser", p |-> p, o |-> o, s |-> h.row.sid, start |-> FALSE]
            g == With(h, row)
            k == [g EXCEPT !.enc[o] = "off"]
<1>1. row \in Row /\ row.recovering = h.row.recovering
  BY DEF Sound, Typed, Handler, Row
<1>2. Typed(g) /\ RecOK(g, p) /\ Keeps(h, g)
  BY <1>1 DEF Sound, Typed, Handler, Apart, RecOK, With, Keeps
<1>3. Typed(k) /\ RecOK(k, p) /\ Keeps(g, k)
  BY <1>2 DEF Typed, Handler, Apart, RecOK, Keeps, Encoders
<1>4. ask \in Call /\ ask.p = p /\ ask.op = "endUser"
  BY DEF Sound, Typed, Handler, Row, Call, Ops, EndOps
<1>5. Sound(RequestEnd(g, ask), p) /\ Keeps(g, RequestEnd(g, ask))
  BY <1>2, <1>4, RequestEndSound DEF EndOps
<1>6. Sound(RequestEnd(k, ask), p) /\ Keeps(k, RequestEnd(k, ask))
  BY <1>3, <1>4, RequestEndSound DEF EndOps
<1>7. Keeps(h, h)
  BY DEF Keeps
<1>. QED
  BY <1>2, <1>3, <1>5, <1>6, <1>7 DEF End, Keeps
-----------------------------------------------------------------------------
\* From handlers to steps.

\* h keeps the calls of the other profiles, prefetches excepted.
Others(p, h) == \A d \in calls : d.p # p /\ d.op # "sign" => d \in h.calls

\* What the shared variables outside the handler record must satisfy.
RestTyped == /\ rooms \in [Sessions -> Profiles \cup {Nobody}]
             /\ restarts \in 0 .. MaxRestarts

\* Operators that drop no call compose.
LEMMA OthersKeep ==
  ASSUME NEW p, NEW h, NEW g, Others(p, h), Keeps(h, g)
  PROVE  Others(p, g)
BY DEF Others, Keeps

\* In a good state the record a handler starts from is sound.
LEMMA NowSound ==
  ASSUME IInv, NEW p \in Profiles
  PROVE  /\ Sound(Now(p), p) /\ Others(p, Now(p))
         /\ Now(p).row = profile[p] /\ profile[p] \in Row
BY DEF IInv, TypeOK, EndingHasCall, RecoveringHasCall, OneTransaction, OnePrefetch, Now,
       Sound, Typed, Handler, Encoders, Apart, EndOK, RecOK, Others, Enders, EndOps, Recoverers

\* Taking a pending call leaves what that call did not guarantee.
LEMMA TakeSound ==
  ASSUME IInv, NEW c \in calls
  PROVE  LET h == Take(Now(c.p), c)
         IN /\ c \in Call /\ c.p \in Profiles
            /\ Typed(h) /\ Others(c.p, h)
            /\ h.row = profile[c.p] /\ h.row \in Row
            /\ c.op \notin Enders => EndOK(h, c.p)
            /\ c.op \notin Recoverers => RecOK(h, c.p)
<1>. DEFINE h == Take(Now(c.p), c)
<1>1. c \in Call /\ c.p \in Profiles
  BY DEF IInv, TypeOK, Call
<1>2. Sound(Now(c.p), c.p) /\ Others(c.p, Now(c.p)) /\ Now(c.p).row = profile[c.p]
  BY <1>1, NowSound
<1>3. /\ h \in Handler /\ h.row = profile[c.p] /\ h.row \in Row
      /\ h.calls = Now(c.p).calls \ {c}
  BY <1>2 DEF Sound, Typed, Handler, Take
<1>4. Typed(h)
  BY <1>2, <1>3 DEF Sound, Typed, Apart
<1>5. Others(c.p, h)
  BY <1>2, <1>3 DEF Others
<1>6. c.op \notin Enders => EndOK(h, c.p)
  BY <1>2, <1>3 DEF Sound, EndOK
<1>7. c.op \notin Recoverers => RecOK(h, c.p)
  BY <1>2, <1>3 DEF Sound, RecOK
<1>. QED
  BY <1>1, <1>3, <1>4, <1>5, <1>6, <1>7

\* A sound record committed in a good state gives a good state: the other
\* profiles keep their rows and the calls that cover them.
LEMMA CommitInv ==
  ASSUME IInv, NEW p \in Profiles, NEW h, Sound(h, p), Others(p, h), Commit(p, h), RestTyped'
  PROVE  IInv'
<1>1. TypeOK'
  BY DEF IInv, TypeOK, Sound, Typed, Handler, Encoders, Commit, RestTyped
<1>2. profile'[p] = h.row /\ \A q \in Profiles \ {p} : profile'[q] = profile[q]
  BY DEF IInv, TypeOK, Commit
<1>3. calls' = h.calls
  BY DEF Commit
<1>4. EndingHasCall'
  <2>. SUFFICES ASSUME NEW q \in Profiles, profile'[q].ending
                PROVE  \E c \in calls' : c.p = q /\ c.op \in EndOps \cup {"failed", "unsigned"}
    BY DEF EndingHasCall
  <2>1. CASE q = p
    BY <2>1, <1>2, <1>3 DEF Sound, EndOK, Enders
  <2>2. CASE q # p
    BY <2>2, <1>2, <1>3 DEF IInv, EndingHasCall, Others, EndOps
  <2>. QED
    BY <2>1, <2>2
<1>5. RecoveringHasCall'
  <2>. SUFFICES ASSUME NEW q \in Profiles, profile'[q].recovering
                PROVE  \E c \in calls' : c.p = q /\ c.op \in {"resume", "reconcile", "endRecovery"}
    BY DEF RecoveringHasCall
  <2>1. CASE q = p
    BY <2>1, <1>2, <1>3 DEF Sound, RecOK, Recoverers
  <2>2. CASE q # p
    BY <2>2, <1>2, <1>3 DEF IInv, RecoveringHasCall, Others
  <2>. QED
    BY <2>1, <2>2
<1>6. OneTransaction' /\ OnePrefetch'
  BY <1>3 DEF Sound, Typed, Apart, OneTransaction, OnePrefetch
<1>. QED
  BY <1>1, <1>4, <1>5, <1>6 DEF IInv

\* The same for a handler that leaves the rooms and the restart count alone.
LEMMA SameInv ==
  ASSUME IInv, NEW p \in Profiles, NEW h, Sound(h, p), Others(p, h), Commit(p, h), Same
  PROVE  IInv'
<1>1. RestTyped'
  BY DEF IInv, TypeOK, Same, RestTyped
<1>. QED
  BY <1>1, CommitInv

\* A step of an output or a room alone.
LEMMA OutsideInv ==
  ASSUME IInv, UNCHANGED <<profile, outputsPreparing, calls, attached>>, RestTyped',
         encoders' \in Encoders
  PROVE  IInv'
BY DEF IInv, TypeOK, EndingHasCall, RecoveringHasCall, OneTransaction, OnePrefetch,
       RestTyped, Encoders
-----------------------------------------------------------------------------
\* One step per action.

\* What the user can do keeps the invariant.
LEMMA UserInv ==
  ASSUME IInv, User
  PROVE  IInv'
<1>1. ASSUME NEW p \in Profiles, PressGoLive(p) PROVE IInv'
  <2>. DEFINE b == profile[p].output # NoOutput
  <2>1. b \in BOOLEAN /\ Commit(p, Start(Now(p), p, b)) /\ Same
    BY <1>1 DEF PressGoLive
  <2>. HIDE DEF b
  <2>2. Sound(Start(Now(p), p, b), p) /\ Keeps(Now(p), Start(Now(p), p, b))
    BY <2>1, NowSound, StartSound
  <2>. QED
    BY <2>1, <2>2, NowSound, OthersKeep, SameInv
<1>2. ASSUME NEW o \in Outputs, PressOutputOn(o) PROVE IInv'
  <2>1. CASE /\ encoders' = [encoders EXCEPT ![o] = "starting"]
             /\ UNCHANGED <<profile, calls, outputsPreparing, attached>>
    <3>1. RestTyped' /\ encoders' \in Encoders
      BY <1>2, <2>1 DEF IInv, TypeOK, RestTyped, Encoders, PressOutputOn, Same
    <3>. QED
      BY <3>1, <2>1, OutsideInv
  <2>2. ASSUME NEW p \in Profiles,
               Commit(p, Start([Now(p) EXCEPT !.prep = @ \cup {o}], p, TRUE))
        PROVE  IInv'
    <3>. DEFINE h == [Now(p) EXCEPT !.prep = @ \cup {o}]
    <3>1. Sound(h, p) /\ Keeps(Now(p), h)
      BY NowSound DEF Sound, Typed, Handler, Apart, EndOK, RecOK, Keeps
    <3>2. Sound(Start(h, p, TRUE), p) /\ Keeps(h, Start(h, p, TRUE))
      BY <3>1, StartSound
    <3>3. Others(p, h)
      BY <3>1, NowSound, OthersKeep
    <3>4. Others(p, Start(h, p, TRUE))
      BY <3>2, <3>3, OthersKeep
    <3>. QED
      BY <1>2, <2>2, <3>2, <3>4, SameInv DEF PressOutputOn
  <2>. QED
    BY <1>2, <2>1, <2>2 DEF PressOutputOn
<1>3. ASSUME NEW o \in Outputs, PressOutputOff(o) PROVE IInv'
  <2>1. CASE /\ encoders' = [encoders EXCEPT ![o] = "off"]
             /\ UNCHANGED <<profile, calls, outputsPreparing, attached>>
    <3>1. RestTyped' /\ encoders' \in Encoders
      BY <1>3, <2>1 DEF IInv, TypeOK, RestTyped, Encoders, PressOutputOff, Same
    <3>. QED
      BY <3>1, <2>1, OutsideInv
  <2>2. ASSUME NEW p \in Profiles,
               \/ Commit(p, [Now(p) EXCEPT !.enc[o] = "off"])
               \/ Commit(p, End([Now(p) EXCEPT !.enc[o] = "off"], p, TRUE))
        PROVE  IInv'
    <3>. DEFINE h == [Now(p) EXCEPT !.enc[o] = "off"]
    <3>1. Sound(h, p) /\ Keeps(Now(p), h)
      BY NowSound DEF Sound, Typed, Handler, Apart, EndOK, RecOK, Keeps, Encoders
    <3>2. Sound(End(h, p, TRUE), p) /\ Keeps(h, End(h, p, TRUE))
      BY <3>1, EndSound
    <3>3. Others(p, h)
      BY <3>1, NowSound, OthersKeep
    <3>4. Others(p, End(h, p, TRUE))
      BY <3>2, <3>3, OthersKeep
    <3>. QED
      BY <1>3, <2>2, <3>1, <3>2, <3>3, <3>4, SameInv DEF PressOutputOff
  <2>. QED
    BY <1>3, <2>1, <2>2 DEF PressOutputOff
<1>4. ASSUME NEW p \in Profiles, PressEnd(p) PROVE IInv'
  <2>1. PICK b \in BOOLEAN : Commit(p, End(Now(p), p, b))
    BY <1>4 DEF PressEnd
  <2>2. Sound(End(Now(p), p, b), p) /\ Others(p, End(Now(p), p, b))
    BY NowSound, EndSound, OthersKeep
  <2>. QED
    BY <1>4, <2>1, <2>2, SameInv DEF PressEnd
<1>5. ASSUME NEW p \in Profiles, PressReturn(p) PROVE IInv'
  <2>1. Sound(ClearSession(Now(p), p), p) /\ Others(p, ClearSession(Now(p), p))
    BY NowSound, ClearSessionSound, OthersKeep DEF Sound
  <2>. QED
    BY <1>5, <2>1, SameInv DEF PressReturn
<1>6. ASSUME NEW p \in Profiles, PressResume(p) PROVE IInv'
  <2>. DEFINE row == [profile[p] EXCEPT !.preparing = TRUE, !.recovering = TRUE]
              c == [op |-> "resume", p |-> p, o |-> profile[p].output, s |-> NoSession,
                    start |-> FALSE]
              n == Now(p)
              h == With(n, row)
  <2>0. Sound(n, p) /\ n.row = profile[p] /\ profile[p] \in Row
    BY NowSound
  <2>. HIDE DEF n
  <2>1. row \in Row /\ row.ending = profile[p].ending
    BY <2>0 DEF Row
  <2>2. Typed(h) /\ EndOK(h, p) /\ Keeps(n, h)
    BY <2>0, <2>1 DEF Sound, Typed, Handler, Apart, EndOK, With, Keeps
  <2>3. c \in Call
    BY NowSound DEF Row, Call, Ops
  <2>. HIDE DEF h
  <2>4. Sound(Issue(h, c), p) /\ Keeps(h, Issue(h, c))
    BY <2>2, <2>3, IssueRecovery DEF Recoverers
  <2>5. Others(p, n)
    BY NowSound DEF n
  <2>6. Others(p, Issue(h, c))
    BY <2>2, <2>4, <2>5 DEF Others, Keeps
  <2>. QED
    BY <1>6, <2>4, <2>6, SameInv DEF PressResume, h, n
<1>7. ASSUME NEW p \in Profiles, PressReset(p) PROVE IInv'
  <2>. DEFINE c == [op |-> "reset", p |-> p, o |-> NoOutput, s |-> NoSession, start |-> FALSE]
  <2>1. c \in Call
    BY DEF Call, Ops, Target
  <2>2. Sound(Issue(Now(p), c), p) /\ Keeps(Now(p), Issue(Now(p), c))
    BY <2>1, NowSound, IssueSound
  <2>3. Others(p, Issue(Now(p), c))
    BY <2>2, NowSound, OthersKeep
  <2>. QED
    BY <1>7, <2>2, <2>3, SameInv DEF PressReset
<1>8. ASSUME NEW p \in Profiles, BecomeReady(p) PROVE IInv'
  <2>. DEFINE row == [profile[p] EXCEPT !.ready = TRUE]
  <2>1. row \in Row /\ row.ending = profile[p].ending /\ row.recovering = profile[p].recovering
    BY NowSound DEF Row
  <2>2. Sound(With(Now(p), row), p) /\ Keeps(Now(p), With(Now(p), row))
    BY <2>1, NowSound, WithSound
  <2>3. Others(p, With(Now(p), row))
    BY <2>2, NowSound, OthersKeep
  <2>. QED
    BY <1>8, <2>2, <2>3, SameInv DEF BecomeReady
<1>9. ASSUME NEW p \in Profiles, NEW o \in Target, ChooseOutput(p, o) PROVE IInv'
  <2>. DEFINE row == [profile[p] EXCEPT !.output = o]
  <2>1. row \in Row /\ row.ending = profile[p].ending /\ row.recovering = profile[p].recovering
    BY NowSound DEF Row
  <2>2. Sound(With(Now(p), row), p) /\ Keeps(Now(p), With(Now(p), row))
    BY <2>1, NowSound, WithSound
  <2>3. Others(p, With(Now(p), row))
    BY <2>2, NowSound, OthersKeep
  <2>. QED
    BY <1>9, <2>2, <2>3, SameInv DEF ChooseOutput
<1>. QED
  BY <1>1, <1>2, <1>3, <1>4, <1>5, <1>6, <1>7, <1>8, <1>9 DEF User
\* What a pending callback can do keeps the invariant.
LEMMA CallbackInv ==
  ASSUME IInv, Callback
  PROVE  IInv'
<1>. SUFFICES ASSUME NEW c \in calls,
                     \/ FindAnswered(c) \/ CreateAnswered(c) \/ CreateFailed(c)
                     \/ ResumeAnswered(c) \/ UpdateAnswered(c) \/ SignAnswered(c)
                     \/ StartFires(c) \/ VerifyFires(c) \/ VerifyGivesUp(c)
                     \/ FailedDismissed(c) \/ UnsignedDismissed(c) \/ ResetDismissed(c)
                     \/ EndAnswered(c) \/ RefreshAnswered(c) \/ ReconcileAnswered(c)
              PROVE  IInv'
  BY DEF Callback
<1>. DEFINE p == c.p
            h == Take(Now(c.p), c)
<1>0. /\ c \in Call /\ p \in Profiles /\ c.s \in Sessions \cup {NoSession}
      /\ Typed(h) /\ Others(p, h)
      /\ h.row = profile[p] /\ h.row \in Row
      /\ c.op \notin Enders => EndOK(h, p)
      /\ c.op \notin Recoverers => RecOK(h, p)
  BY TakeSound DEF Call
<1>a. c.op \notin Enders /\ c.op \notin Recoverers => Sound(h, p)
  BY <1>0 DEF Sound
<1>b. RestTyped
  BY DEF IInv, TypeOK, RestTyped
<1>c. ASSUME NEW g, Sound(g, p), Keeps(h, g), Commit(p, g), RestTyped'
      PROVE  IInv'
  BY <1>c, <1>0, OthersKeep, CommitInv
<1>d. Same => RestTyped'
  BY <1>b DEF Same, RestTyped
<1>e. Keeps(h, h)
  BY DEF Keeps
<1>f. ASSUME NEW s \in Sessions PROVE [c EXCEPT !.s = s] \in Call /\ [c EXCEPT !.s = s].p = p
  BY <1>0 DEF Call
<1>. HIDE DEF h, p
<1>1. CASE FindAnswered(c)
  <2>1. c.op = "find" /\ RestTyped' /\ Sound(h, p)
    BY <1>1, <1>a, <1>d DEF FindAnswered, Enders, EndOps, Recoverers
  <2>2. ASSUME NEW s \in Sessions,
               Commit(p, Unmark(With(h, [MarkUncertain(h.row, s) EXCEPT !.live = FALSE]), c.o))
        PROVE  IInv'
    <3>. DEFINE row == [MarkUncertain(h.row, s) EXCEPT !.live = FALSE]
    <3>1. row \in Row /\ ~row.ending /\ ~row.recovering
      BY <1>0, ReservedRow
    <3>2. Sound(With(h, row), p) /\ Keeps(h, With(h, row))
      BY <1>0, <3>1, WithRest
    <3>3. Sound(Unmark(With(h, row), c.o), p) /\ Keeps(With(h, row), Unmark(With(h, row), c.o))
      BY <3>2, UnmarkSound
    <3>. QED
      BY <2>1, <2>2, <3>2, <3>3, <1>c DEF Keeps
  <2>3. ASSUME Commit(p, Issue(h, [c EXCEPT !.op = "create", !.o = h.row.output]))
        PROVE  IInv'
    <3>. DEFINE d == [c EXCEPT !.op = "create", !.o = h.row.output]
    <3>1. d \in Call /\ d.op = "create"
      BY <1>0 DEF Call, Row, Ops
    <3>2. Sound(Issue(h, d), p) /\ Keeps(h, Issue(h, d))
      BY <2>1, <3>1, IssueSound
    <3>. QED
      BY <2>1, <2>3, <3>2, <1>c
  <2>4. ASSUME Commit(p, Unmark(With(h, [h.row EXCEPT !.preparing = FALSE]), c.o))
        PROVE  IInv'
    <3>. DEFINE g == With(h, [h.row EXCEPT !.preparing = FALSE])
    <3>1. Sound(g, p) /\ Keeps(h, g)
      BY <2>1, <1>0, FlagRow, WithSound
    <3>2. Sound(Unmark(g, c.o), p) /\ Keeps(g, Unmark(g, c.o))
      BY <3>1, UnmarkSound
    <3>. QED
      BY <2>1, <2>4, <3>1, <3>2, <1>c DEF Keeps
  <2>. QED
    BY <1>1, <2>2, <2>3, <2>4 DEF FindAnswered, OpenFor, h, p
<1>2. CASE CreateAnswered(c)
  <2>1. c.op = "create" /\ Sound(h, p)
    BY <1>2, <1>a DEF CreateAnswered, Enders, EndOps, Recoverers
  <2>2. PICK s \in Sessions, row \in {h.row, Unassign(h.row)} :
          /\ rooms' = [rooms EXCEPT ![s] = p]
          /\ LET d == [c EXCEPT !.s = s] IN
             \/ Commit(p, Activate(h, d)) \/ Commit(p, Created(h, d))
             \/ Commit(p, Fail(With(h, [Reserve(row, s) EXCEPT !.live = FALSE]), d))
    BY <1>2 DEF CreateAnswered, OpenFor, h, p
  <2>. DEFINE d == [c EXCEPT !.s = s]
              r == [Reserve(row, s) EXCEPT !.live = FALSE]
  <2>3. RestTyped'
    BY <1>2, <1>0, <1>b, <2>2 DEF RestTyped, CreateAnswered
  <2>4. d \in Call /\ d.p = p
    BY <1>f
  <2>5. row \in Row
    BY <1>0, UnassignRow
  <2>6. Sound(With(h, r), p) /\ Keeps(h, With(h, r))
    BY <1>0, <2>5, ReservedRow, WithRest
  <2>7. Sound(Fail(With(h, r), d), p) /\ Keeps(With(h, r), Fail(With(h, r), d))
    BY <1>0, <2>4, <2>6, FailSound
  <2>8. Sound(Activate(h, d), p) /\ Keeps(h, Activate(h, d))
    BY <1>0, <2>1, <2>4, ActivateSound
  <2>9. Sound(Created(h, d), p) /\ Keeps(h, Created(h, d))
    BY <1>0, <2>1, <2>4, CreatedSound
  <2>10. Keeps(h, Fail(With(h, r), d))
    BY <2>6, <2>7 DEF Keeps
  <2>. QED
    BY <2>2, <2>3, <2>7, <2>8, <2>9, <2>10, <1>c
<1>3. CASE CreateFailed(c)
  <2>1. c.op = "create" /\ Sound(h, p)
    BY <1>3, <1>a DEF CreateFailed, Enders, EndOps, Recoverers
  <2>2. PICK row \in {h.row, Unassign(h.row)} :
          LET g == With(h, [row EXCEPT !.preparing = FALSE])
          IN Commit(p, Unmark(g, c.o)) \/ Commit(p, g)
    BY <1>3 DEF CreateFailed, h, p
  <2>. DEFINE r == [row EXCEPT !.preparing = FALSE]
              g == With(h, r)
  <2>3. RestTyped'
    BY <1>3, <1>0, <1>b DEF RestTyped, CreateFailed, p
  <2>4. row \in Row /\ row.ending = h.row.ending /\ row.recovering = h.row.recovering
    BY <1>0, UnassignRow
  <2>5. r \in Row /\ r.ending = h.row.ending /\ r.recovering = h.row.recovering
    BY <2>4, FlagRow
  <2>6. Sound(g, p) /\ Keeps(h, g)
    BY <2>1, <2>5, WithSound
  <2>7. Sound(Unmark(g, c.o), p) /\ Keeps(g, Unmark(g, c.o))
    BY <2>6, UnmarkSound
  <2>8. Keeps(h, Unmark(g, c.o))
    BY <2>6, <2>7 DEF Keeps
  <2>. QED
    BY <2>2, <2>3, <2>6, <2>7, <2>8, <1>c
<1>4. CASE ResumeAnswered(c)
  <2>. DEFINE row == [h.row EXCEPT !.recovering = FALSE]
              failed == [row EXCEPT !.preparing = FALSE, !.uncertain = TRUE]
              known(s) == [MarkUncertain(row, s) EXCEPT !.live = FALSE]
  <2>1. c.op = "resume" /\ RestTyped' /\ EndOK(h, p)
    BY <1>4, <1>0, <1>d DEF ResumeAnswered, Enders, EndOps
  <2>2. row \in Row /\ ~row.recovering /\ row.ending = h.row.ending
    BY <1>0 DEF Row
  <2>3. failed \in Row /\ ~failed.recovering /\ failed.ending = h.row.ending
    BY <2>2 DEF Row
  <2>4. Sound(With(h, row), p) /\ Keeps(h, With(h, row))
    BY <1>0, <2>1, <2>2 DEF Sound, Typed, Handler, Apart, EndOK, RecOK, With, Keeps
  <2>5. Sound(With(h, failed), p) /\ Keeps(h, With(h, failed))
    BY <1>0, <2>1, <2>3 DEF Sound, Typed, Handler, Apart, EndOK, RecOK, With, Keeps
  <2>6. ASSUME Commit(p, Unmark(With(h, failed), c.o)) PROVE IInv'
    <3>1. /\ Sound(Unmark(With(h, failed), c.o), p)
          /\ Keeps(With(h, failed), Unmark(With(h, failed), c.o))
      BY <2>5, UnmarkSound
    <3>2. Keeps(h, Unmark(With(h, failed), c.o))
      BY <2>5, <3>1 DEF Keeps
    <3>. QED
      BY <2>6, <2>1, <3>1, <3>2, <1>c
  <2>7. ASSUME NEW s \in Sessions,
               \/ Commit(p, Activate(With(h, row), [c EXCEPT !.s = s]))
               \/ Commit(p, Unmark(With(h, known(s)), c.o))
        PROVE  IInv'
    <3>. DEFINE g == Activate(With(h, row), [c EXCEPT !.s = s])
                k == With(h, known(s))
    <3>1. Sound(g, p) /\ Keeps(With(h, row), g)
      BY <1>0, <1>f, <2>4, ActivateSound
    <3>2. Keeps(h, g)
      BY <2>4, <3>1 DEF Keeps
    <3>3. known(s) \in Row /\ ~known(s).ending /\ ~known(s).recovering
      BY <2>2, ReservedRow
    <3>4. Sound(k, p) /\ Keeps(h, k)
      BY <1>0, <3>3, WithRest
    <3>5. Sound(Unmark(k, c.o), p) /\ Keeps(k, Unmark(k, c.o))
      BY <3>4, UnmarkSound
    <3>6. Keeps(h, Unmark(k, c.o))
      BY <3>4, <3>5 DEF Keeps
    <3>. QED
      BY <2>7, <2>1, <3>1, <3>2, <3>5, <3>6, <1>c
  <2>. QED
    BY <1>4, <2>6, <2>7 DEF ResumeAnswered, OpenFor, h, p
<1>5. CASE UpdateAnswered(c)
  <2>1. c.op = "update" /\ RestTyped' /\ Sound(h, p)
    BY <1>5, <1>a, <1>d DEF UpdateAnswered, Quiet, Enders, EndOps, Recoverers
  <2>2. Sound(Updated(h, c), p) /\ Keeps(h, Updated(h, c))
    BY <1>0, <2>1, UpdatedSound DEF p
  <2>3. Sound(NotUpdated(h, c), p) /\ Keeps(h, NotUpdated(h, c))
    BY <1>0, <2>1, NotUpdatedSound DEF p
  <2>. QED
    BY <1>5, <2>1, <2>2, <2>3, <1>c DEF UpdateAnswered, Quiet, h, p
<1>6. CASE SignAnswered(c)
  <2>. DEFINE g == [h EXCEPT !.signed = @ \cup {c.o}]
  <2>1. c.op = "sign" /\ RestTyped' /\ Sound(h, p)
    BY <1>6, <1>a, <1>d DEF SignAnswered, Quiet, Enders, EndOps, Recoverers
  <2>2. Sound(g, p) /\ Keeps(h, g)
    BY <1>0, <2>1 DEF Sound, Typed, Handler, Apart, EndOK, RecOK, Keeps, Call
  <2>3. Sound(Signed(g, c), p) /\ Keeps(g, Signed(g, c))
    BY <1>0, <2>2, SignedSound DEF p
  <2>4. Sound(Unsigned(h, c), p) /\ Keeps(h, Unsigned(h, c))
    BY <1>0, <2>1, UnsignedSound DEF p
  <2>5. Keeps(h, Signed(g, c))
    BY <2>2, <2>3 DEF Keeps
  <2>. QED
    BY <1>6, <2>1, <2>3, <2>4, <2>5, <1>c DEF SignAnswered, Quiet, h, p
<1>7. CASE StartFires(c)
  <2>. DEFINE g == [h EXCEPT !.enc[c.o] = IF @ = "off" THEN "starting" ELSE @]
              u == Unmark(h, c.o)
              d == [c EXCEPT !.s = h.row.sid]
  <2>1. c.op = "start" /\ RestTyped' /\ Sound(h, p)
    BY <1>7, <1>a, <1>d DEF StartFires, Quiet, Enders, EndOps, Recoverers
  <2>2. Sound(g, p) /\ Keeps(h, g)
    BY <1>0, <2>1 DEF Sound, Typed, Handler, Apart, EndOK, RecOK, Keeps, Encoders
  <2>3. Sound(VerifyOnce(g, c), p) /\ Keeps(g, VerifyOnce(g, c))
    BY <1>0, <2>2, VerifyOnceSound DEF p
  <2>4. Sound(u, p) /\ Keeps(h, u)
    BY <2>1, UnmarkSound
  <2>5. d \in Call /\ d.p = p
    BY <1>0 DEF Call, Row, p
  <2>6. Sound(Fail(u, d), p) /\ Keeps(u, Fail(u, d))
    BY <1>0, <2>4, <2>5, FailSound
  <2>7. Sound(Detach(u, c.o), p) /\ Keeps(u, Detach(u, c.o))
    BY <2>4, DetachSound
  <2>8. /\ Keeps(h, VerifyOnce(g, c)) /\ Keeps(h, Fail(u, d)) /\ Keeps(h, Detach(u, c.o))
    BY <2>2, <2>3, <2>4, <2>6, <2>7 DEF Keeps
  <2>. QED
    BY <1>7, <2>1, <2>3, <2>6, <2>7, <2>8, <1>c DEF StartFires, Quiet, h, p
<1>8. CASE VerifyFires(c)
  <2>1. c.op = "verify" /\ RestTyped' /\ Sound(h, p)
    BY <1>8, <1>a, <1>d DEF VerifyFires, Quiet, Enders, EndOps, Recoverers
  <2>2. Sound(VerifyOnce(h, c), p) /\ Keeps(h, VerifyOnce(h, c))
    BY <1>0, <2>1, VerifyOnceSound DEF p
  <2>. QED
    BY <1>8, <2>1, <2>2, <1>c DEF VerifyFires, Quiet, h, p
<1>9. CASE VerifyGivesUp(c)
  <2>1. c.op = "verify" /\ RestTyped' /\ Sound(h, p)
    BY <1>9, <1>a, <1>d DEF VerifyGivesUp, Quiet, Enders, EndOps, Recoverers
  <2>2. Sound(EndUnstarted(h, c), p) /\ Keeps(h, EndUnstarted(h, c))
    BY <1>0, <2>1, EndUnstartedSound DEF p
  <2>. QED
    BY <1>9, <2>1, <2>2, <1>c DEF VerifyGivesUp, Quiet, h, p
<1>10. CASE FailedDismissed(c)
  <2>. DEFINE g == [h EXCEPT !.enc[c.o] = "off"]
              d == [c EXCEPT !.op = "endFailed"]
  <2>1. c.op = "failed" /\ RestTyped' /\ RecOK(h, p)
    BY <1>10, <1>0, <1>d DEF FailedDismissed, Quiet, Recoverers
  <2>2. Typed(g) /\ RecOK(g, p) /\ Keeps(h, g)
    BY <1>0, <2>1 DEF Typed, Handler, Apart, RecOK, Keeps, Encoders
  <2>3. d \in Call /\ d.p = p /\ d.op = "endFailed"
    BY <1>0, Relabel DEF Ops, EndOps, p
  <2>4. Sound(RequestEnd(h, d), p) /\ Keeps(h, RequestEnd(h, d))
    BY <1>0, <2>1, <2>3, RequestEndSound DEF EndOps
  <2>5. Sound(RequestEnd(g, d), p) /\ Keeps(g, RequestEnd(g, d))
    BY <1>0, <2>2, <2>3, RequestEndSound DEF EndOps
  <2>6. Keeps(h, RequestEnd(g, d))
    BY <2>2, <2>5 DEF Keeps
  <2>7. Commit(p, RequestEnd(h, d)) \/ Commit(p, RequestEnd(g, d))
    BY <1>10 DEF FailedDismissed, Quiet, h, p
  <2>. QED
    BY <2>1, <2>4, <2>5, <2>6, <2>7, <1>c
<1>11. CASE UnsignedDismissed(c)
  <2>. DEFINE d == [c EXCEPT !.op = "endUnsigned"]
  <2>1. c.op = "unsigned" /\ RestTyped' /\ RecOK(h, p)
    BY <1>11, <1>0, <1>d DEF UnsignedDismissed, Quiet, Recoverers
  <2>2. d \in Call /\ d.p = p /\ d.op = "endUnsigned"
    BY <1>0, Relabel DEF Ops, EndOps, p
  <2>3. Sound(RequestEnd(h, d), p) /\ Keeps(h, RequestEnd(h, d))
    BY <1>0, <2>1, <2>2, RequestEndSound DEF EndOps
  <2>. QED
    BY <1>11, <2>1, <2>3, <1>c DEF UnsignedDismissed, Quiet, h, p
<1>12. CASE ResetDismissed(c)
  <2>1. c.op = "reset" /\ RestTyped' /\ Sound(h, p)
    BY <1>12, <1>a, <1>d DEF ResetDismissed, Quiet, Enders, EndOps, Recoverers
  <2>2. Sound(ClearSession(h, p), p) /\ Keeps(h, ClearSession(h, p))
    BY <1>0, ClearSessionSound
  <2>. QED
    BY <1>12, <2>1, <2>2, <1>c, <1>e DEF ResetDismissed, Quiet, h, p
<1>13. CASE EndAnswered(c)
  <2>1. /\ c.op \in EndOps \cup {"endUpdate", "endRecovery"}
        /\ Commit(p, FinishEnd(h, c, TRUE)) \/ Commit(p, FinishEnd(h, c, FALSE))
        /\ rooms' = rooms \/ rooms' = [rooms EXCEPT ![c.s] = Nobody]
        /\ restarts' = restarts
    BY <1>13 DEF EndAnswered, h, p
  <2>2. RestTyped'
    BY <2>1, <1>b DEF RestTyped
  <2>3. \/ c.op \in EndOps /\ RecOK(h, p)
        \/ c.op = "endUpdate" /\ Sound(h, p)
        \/ c.op = "endRecovery" /\ EndOK(h, p)
    BY <2>1, <1>0, <1>a DEF Enders, EndOps, Recoverers
  <2>4. /\ Sound(FinishEnd(h, c, TRUE), p) /\ Keeps(h, FinishEnd(h, c, TRUE))
        /\ Sound(FinishEnd(h, c, FALSE), p) /\ Keeps(h, FinishEnd(h, c, FALSE))
    BY <1>0, <2>3, FinishEndSound DEF p
  <2>. QED
    BY <2>1, <2>2, <2>4, <1>c
<1>14. CASE RefreshAnswered(c)
  <2>1. c.op = "refresh" /\ RestTyped' /\ Sound(h, p)
    BY <1>14, <1>a, <1>d DEF RefreshAnswered, Quiet, Enders, EndOps, Recoverers
  <2>2. Sound(With(h, Unassign(h.row)), p) /\ Keeps(h, With(h, Unassign(h.row)))
    BY <1>0, <2>1, UnassignRow, WithSound
  <2>. QED
    BY <1>14, <2>1, <2>2, <1>c, <1>e DEF RefreshAnswered, Quiet, h, p
<1>15. CASE ReconcileAnswered(c)
  <2>. DEFINE row == [h.row EXCEPT !.recovering = FALSE, !.preparing = FALSE]
              known(s) == [MarkUncertain(row, s) EXCEPT !.live = FALSE]
              failed == [row EXCEPT !.live = FALSE, !.uncertain = TRUE]
  <2>1. c.op = "reconcile" /\ RestTyped' /\ EndOK(h, p)
    BY <1>15, <1>0, <1>d DEF ReconcileAnswered, Enders, EndOps
  <2>2. row \in Row /\ ~row.recovering /\ row.ending = h.row.ending
    BY <1>0 DEF Row
  <2>3. failed \in Row /\ ~failed.recovering /\ failed.ending = h.row.ending
    BY <2>2 DEF Row
  <2>4. Typed(With(h, row)) /\ Keeps(h, With(h, row))
    BY <1>0, <2>2 DEF Typed, Handler, Apart, With, Keeps
  <2>5. Sound(With(h, failed), p) /\ Keeps(h, With(h, failed))
    BY <1>0, <2>1, <2>3 DEF Sound, Typed, Handler, Apart, EndOK, RecOK, With, Keeps
  <2>6. /\ Sound(ClearSession(With(h, row), p), p)
        /\ Keeps(With(h, row), ClearSession(With(h, row), p))
    BY <2>4, ClearSessionSound
  <2>7. Keeps(h, ClearSession(With(h, row), p))
    BY <2>4, <2>6 DEF Keeps
  <2>8. ASSUME NEW s \in Sessions, Commit(p, With(h, known(s))) PROVE IInv'
    <3>1. known(s) \in Row /\ ~known(s).ending /\ ~known(s).recovering
      BY <2>2, ReservedRow
    <3>2. Sound(With(h, known(s)), p) /\ Keeps(h, With(h, known(s)))
      BY <1>0, <3>1, WithRest
    <3>. QED
      BY <2>8, <2>1, <3>2, <1>c
  <2>9. ASSUME \/ Commit(p, ClearSession(With(h, row), p)) \/ Commit(p, With(h, failed))
        PROVE  IInv'
    BY <2>9, <2>1, <2>5, <2>6, <2>7, <1>c
  <2>. QED
    BY <1>15, <2>8, <2>9 DEF ReconcileAnswered, OpenFor, h, p
<1>. QED
  BY <1>1, <1>2, <1>3, <1>4, <1>5, <1>6, <1>7, <1>8, <1>9, <1>10, <1>11, <1>12, <1>13,
     <1>14, <1>15
\* A restart reads rows at rest, or recovering under a call of their own.
LEMMA LoadedRow ==
  ASSUME IInv, NEW p \in Profiles, NEW active
  PROVE  Loaded(p, active) \in Row /\ ~Loaded(p, active).ending
<1>. DEFINE saved == [profile[p] EXCEPT !.preparing = FALSE, !.ending = FALSE,
                       !.recovering = FALSE, !.uncertain = FALSE, !.signing = Unset]
<1>1. saved \in Row /\ ~saved.ending
  BY NowSound DEF Row
<1>2. Unassign(saved) \in Row /\ ~Unassign(saved).ending
  BY <1>1, UnassignRow
<1>3. ClearLive(p, saved) \in Row /\ ~ClearLive(p, saved).ending
  BY <1>1, ClearRow
<1>4. [saved EXCEPT !.recovering = TRUE] \in Row /\ ~[saved EXCEPT !.recovering = TRUE].ending
  BY <1>1 DEF Row
<1>. QED
  BY <1>1, <1>2, <1>3, <1>4 DEF Loaded

\* After a restart exactly the recovering rows have calls, and none is a
\* transaction or a prefetch.
LEMMA RestartInv ==
  ASSUME IInv, Restart
  PROVE  IInv'
<1>. DEFINE call(p) == [op |-> IF p \in Studio THEN "reconcile" ELSE "endRecovery", p |-> p,
                        o |-> profile[p].output, s |-> profile[p].sid, start |-> FALSE]
<1>0. PICK active \in SUBSET Outputs :
        /\ profile' = [p \in Profiles |-> Loaded(p, active)]
        /\ calls' = {call(p) : p \in {q \in Profiles : Loaded(q, active).recovering}}
        /\ encoders' = [o \in Outputs |-> IF o \in active THEN "active" ELSE "off"]
  BY DEF Restart
<1>1. /\ profile' = [p \in Profiles |-> Loaded(p, active)]
      /\ calls' = {call(p) : p \in {q \in Profiles : Loaded(q, active).recovering}}
      /\ outputsPreparing' = {} /\ attached' = {}
      /\ encoders' \in [Outputs -> {"off", "starting", "active"}]
      /\ restarts' = restarts + 1 /\ restarts < MaxRestarts
  BY <1>0 DEF Restart
<1>2. ASSUME NEW p \in Profiles
      PROVE  call(p) \in Call /\ call(p).p = p /\ call(p).op \in {"reconcile", "endRecovery"}
  <2>1. profile[p].output \in Target /\ profile[p].sid \in Sessions \cup {NoSession}
    BY NowSound DEF Row
  <2>. QED
    BY <2>1 DEF Call, Ops
<1>3. profile' \in [Profiles -> Row] /\ \A p \in Profiles : ~profile'[p].ending
  BY <1>1, LoadedRow
<1>4. calls' \subseteq Call
  BY <1>1, <1>2
<1>5. rooms' \in [Sessions -> Profiles \cup {Nobody}]
  <2>. DEFINE asked == {c.p : c \in {d \in calls : d.op = "create"}}
  <2>. DEFINE ends == {c.s : c \in {d \in calls : d.op \in EndOps \cup {"endUpdate", "endRecovery"}}}
              after(closed, made) == [s \in Sessions |->
                      IF s \in closed THEN Nobody
                      ELSE IF \E p \in asked : made[p] = s
                      THEN CHOOSE p \in asked : made[p] = s
                      ELSE rooms[s]]
  <2>0. \E closed \in SUBSET (ends \ {NoSession}),
           made \in [asked -> {s \in Sessions : Unused(s)} \cup {NoSession}] :
          /\ \A p, q \in asked : p # q => made[p] # made[q] \/ made[p] = NoSession
          /\ rooms' = after(closed, made)
    BY DEF Restart
  <2>1. PICK closed \in SUBSET (ends \ {NoSession}),
             made \in [asked -> {s \in Sessions : Unused(s)} \cup {NoSession}] :
          rooms' = after(closed, made)
    BY <2>0
  <2>a. asked \subseteq Profiles
    BY DEF IInv, TypeOK, Call
  <2>. HIDE DEF asked
  <2>2. ASSUME NEW s \in Sessions PROVE rooms'[s] \in Profiles \cup {Nobody}
    <3>1. CASE \E p \in asked : made[p] = s
      <4>1. (CHOOSE p \in asked : made[p] = s) \in asked
        BY <3>1
      <4>. QED
        BY <2>1, <2>a, <3>1, <4>1
    <3>2. CASE ~\E p \in asked : made[p] = s
      BY <2>1, <3>2 DEF IInv, TypeOK
    <3>. QED
      BY <3>1, <3>2
  <2>. QED
    BY <2>1, <2>2
<1>6. restarts' \in 0 .. MaxRestarts
  BY <1>1, EnvironmentAssumption DEF IInv, TypeOK
<1>7. TypeOK'
  BY <1>1, <1>3, <1>4, <1>5, <1>6 DEF TypeOK
<1>8. EndingHasCall'
  BY <1>3 DEF EndingHasCall
<1>9. RecoveringHasCall'
  <2>. SUFFICES ASSUME NEW p \in Profiles, profile'[p].recovering
                PROVE  \E c \in calls' : c.p = p /\ c.op \in {"resume", "reconcile", "endRecovery"}
    BY DEF RecoveringHasCall
  <2>1. Loaded(p, active).recovering
    BY <1>1
  <2>2. call(p) \in calls'
    BY <1>1, <2>1
  <2>. QED
    BY <2>2, <1>2
<1>10. OneTransaction' /\ OnePrefetch'
  <2>1. \A c \in calls' : c.op \in {"reconcile", "endRecovery"}
    BY <1>1, <1>2
  <2>. QED
    BY <2>1 DEF OneTransaction, OnePrefetch
<1>. QED
  BY <1>7, <1>8, <1>9, <1>10 DEF IInv

\* What happens outside the dock keeps the invariant.
LEMMA EnvironmentInv ==
  ASSUME IInv, Environment
  PROVE  IInv'
<1>0. RestTyped /\ encoders \in Encoders
  BY DEF IInv, TypeOK, RestTyped, Encoders
<1>1. ASSUME NEW p \in Profiles, HeartbeatStale(p) PROVE IInv'
  <2>1. Sound(ClearSession(Now(p), p), p) /\ Others(p, ClearSession(Now(p), p))
    BY NowSound, ClearSessionSound, OthersKeep DEF Sound
  <2>2. /\ Sound(Refresh(ClearSession(Now(p), p), p), p)
        /\ Others(p, Refresh(ClearSession(Now(p), p), p))
    BY <2>1, RefreshSound, OthersKeep
  <2>. QED
    BY <1>1, <2>2, SameInv DEF HeartbeatStale
<1>2. ASSUME NEW o \in Outputs, EncoderUp(o) \/ EncoderDown(o) PROVE IInv'
  <2>1. RestTyped' /\ encoders' \in Encoders
    BY <1>0, <1>2 DEF RestTyped, Encoders, EncoderUp, EncoderDown
  <2>2. UNCHANGED <<profile, outputsPreparing, calls, attached>>
    BY <1>2 DEF EncoderUp, EncoderDown
  <2>. QED
    BY <2>1, <2>2, OutsideInv
<1>3. ASSUME NEW s \in Sessions, RoomCloses(s) PROVE IInv'
  <2>1. RestTyped' /\ encoders' \in Encoders
    BY <1>0, <1>3 DEF RestTyped, RoomCloses
  <2>2. UNCHANGED <<profile, outputsPreparing, calls, attached>>
    BY <1>3 DEF RoomCloses
  <2>. QED
    BY <2>1, <2>2, OutsideInv
<1>. QED
  BY <1>1, <1>2, <1>3, RestartInv DEF Environment

-----------------------------------------------------------------------------
\* The theorems.

\* The dock starts in a good state.
LEMMA InitInv == Init => IInv
<1>. SUFFICES ASSUME Init PROVE IInv
  OBVIOUS
<1>1. ASSUME NEW p \in Profiles
      PROVE  profile[p] \in Row /\ ~profile[p].ending /\ ~profile[p].recovering
  <2>1. PICK o \in Target :
          profile[p] = [live |-> FALSE, preparing |-> FALSE, ending |-> FALSE,
                        recovering |-> FALSE, uncertain |-> FALSE, sid |-> NoSession,
                        output |-> o, ready |-> TRUE, signing |-> Unset]
    BY DEF Init
  <2>. QED
    BY <2>1 DEF Row
<1>2. profile \in [Profiles -> Row]
  BY <1>1 DEF Init
<1>3. TypeOK
  BY <1>2, EnvironmentAssumption DEF Init, TypeOK
<1>. QED
  BY <1>1, <1>3 DEF Init, IInv, EndingHasCall, RecoveringHasCall, OneTransaction, OnePrefetch

\* Every step of the dock, its callbacks and its surroundings keeps it good.
LEMMA StepInv == IInv /\ [Next]_vars => IInv'
<1>1. CASE IInv /\ Next
  BY <1>1, UserInv, CallbackInv, EnvironmentInv DEF Next
<1>2. CASE IInv /\ UNCHANGED vars
  BY <1>2 DEF vars, IInv, TypeOK, EndingHasCall, RecoveringHasCall, OneTransaction, OnePrefetch
<1>. QED
  BY <1>1, <1>2

\* The inductive invariant holds throughout.
THEOREM Invariant == Spec => []IInv
BY InitInv, StepInv, PTL DEF Spec

\* The fields of every profile and the captures of every pending callback stay
\* in their types, through every handler of the dock.
THEOREM TypeCorrect == Spec => []TypeOK
<1>1. IInv => TypeOK
  BY DEF IInv
<1>. QED
  BY <1>1, Invariant, PTL

\* A profile whose buttons are disabled by Ending always has the callback, or
\* the error box leading to it, that enables them again.
THEOREM EndingCovered == Spec => []EndingHasCall
<1>1. IInv => EndingHasCall
  BY DEF IInv
<1>. QED
  BY <1>1, Invariant, PTL

\* The same for a profile that is resumed or recovered after a restart.
THEOREM RecoveringCovered == Spec => []RecoveringHasCall
<1>1. IInv => RecoveringHasCall
  BY DEF IInv
<1>. QED
  BY <1>1, Invariant, PTL

\* Two transactions never drive Aitum's settings dialog at once.
THEOREM TransactionsApart == Spec => []OneTransaction
<1>1. IInv => OneTransaction
  BY DEF IInv
<1>. QED
  BY <1>1, Invariant, PTL

\* Two prefetches never compete for the packet callback of one output.
THEOREM PrefetchesApart == Spec => []OnePrefetch
<1>1. IInv => OnePrefetch
  BY DEF IInv
<1>. QED
  BY <1>1, Invariant, PTL
-----------------------------------------------------------------------------
\* A patient user acts on a profile only while none of its calls is pending.
\* Then a profile has one call at most, and its kind says what the row and the
\* captures of the call are.

\* No end request fails and no answer is lost.
Firm == Faults \cap {"end", "lost"} = {}

\* No other profile can open a session that a profile finds at its login.
OwnLogins == \A p \in Studio, q \in Profiles \ Local : Account[q] = Account[p] => q = p

\* Only LIVE Studio profiles share a login that one of them has; a login without
\* an account is not shared.
LoginsApart ==
  \A p \in Studio, q \in Profiles \ Local :
    Account[q] = Account[p] => q = p \/ (q \in Studio /\ Account[p] # NoAccount)

\* OBS does not restart: a restart drops every flag but live, and an unconfirmed
\* session is then reserved no more.
Steady == MaxRestarts = 0

\* All three together: then no profile ever doubts its session, each resolves
\* what it began.
Calm == Firm /\ OwnLogins /\ Steady

RowFits(p, row) ==
  /\ row.live /\ p \notin Local => row.sid # NoSession
  /\ Steady => /\ row.uncertain => row.sid # NoSession
               /\ p \in Local \/ ~HoldingOrEnding(row) => row.sid = NoSession
  /\ Calm => ~row.uncertain /\ ~row.recovering

\* A session that is not known yet is being looked for or carried by a call.
Covered(p, row) == Steady /\ p \notin Local /\ row.preparing => row.sid # NoSession
Seekers == {"find", "create", "update"}
Carriers == {"update", "endUpdate"}
Closers == EndOps \cup {"endUpdate", "endRecovery"}

RefreshCall(p) == [op |-> "refresh", p |-> p, o |-> NoOutput, s |-> NoSession, start |-> FALSE]

\* The rows under which a start goes on: of a profile whose session s Aitum's
\* settings, a signature prefetch or an output are wanted for.
Identified(p, s) == p \in Local <=> s = NoSession
OnTheWay(p, row) == IF p \in Studio THEN row.preparing /\ ~row.live ELSE row.live
SeekRow(p, row) ==
  /\ RowFits(p, row) /\ row.preparing /\ ~row.live
  /\ Steady => row.sid = NoSession
UpdateRow(p, row, s) ==
  /\ RowFits(p, row) /\ row.preparing /\ ~row.live /\ Identified(p, s)
  /\ IF p \in Studio THEN row.sid = s ELSE Steady => row.sid = NoSession
SignRow(p, row, s) ==
  RowFits(p, row) /\ OnTheWay(p, row) /\ Identified(p, s) /\ row.sid = s
StartRow(p, row) ==
  RowFits(p, row) /\ OnTheWay(p, row) /\ (p \in Local \/ row.sid # NoSession)
EndRow(p, row, s) ==
  RowFits(p, row) /\ row.ending /\ (p \in Local \/ s # NoSession) /\ (Steady => row.sid = s)

CallFits(p, row, c) ==
  /\ c.op = "find" => p \in Studio
  /\ c.op \in {"find", "create"} => p \notin Local /\ c.s = NoSession /\ SeekRow(p, row)
  /\ c.op = "update" => UpdateRow(p, row, c.s)
  /\ c.op = "sign" => SignRow(p, row, c.s)
  /\ c.op \in {"start", "verify"} => StartRow(p, row)
  /\ c.op = "failed" => p \in Studio
  /\ c.op = "unsigned" => p \notin Studio
  /\ c.op \in Enders => EndRow(p, row, c.s)
  /\ c.op \in Closers => p \notin Local /\ c.s # NoSession
  /\ c.op = "endUpdate" => p \notin Studio /\ (Steady => row.sid = NoSession)
  /\ c.op = "endUnstarted" => Holding(row)
  /\ c.op = "resume" => p \in Studio /\ row.preparing /\ row.recovering
  /\ c.op = "reconcile" => p \in Studio /\ row.live /\ row.recovering /\ ~Steady
  /\ c.op = "endRecovery" => p \notin Studio /\ row.live /\ row.recovering /\ ~Steady
  /\ c.op = "reset" => row.uncertain
  /\ c.op = "refresh" => c = RefreshCall(p)

Fit(h, p) ==
  /\ RowFits(p, h.row)
  /\ \A c, d \in h.calls : c.p = p /\ d.p = p => c = d
  /\ \A c \in h.calls : c.p = p => CallFits(p, h.row, c)
  /\ Covered(p, h.row) \/ \E c \in h.calls : c.p = p /\ c.op \in Seekers

Carried(h, p, s) == h.row.sid = s \/ \E c \in h.calls : c.p = p /\ c.s = s /\ c.op \in Carriers

PatientInv ==
  /\ \A p \in Profiles : Fit(Now(p), p)
  /\ \A s \in Sessions : rooms[s] # Nobody =>
       rooms[s] \notin Local /\ (Calm => Carried(Now(rooms[s]), rooms[s], s))

\* A LIVE Studio start before it knows its session.
Looking(c) == c.p \in Studio /\ c.op \in {"find", "create"}

\* With LoginsApart a search can only find the room of the row it is for: an
\* account has one room, which no other start of it opens, and the rows of its
\* profiles name that room or one that is closed.
RoomsInv ==
  /\ \A c, d \in calls : Looking(c) /\ Looking(d) /\ Account[c.p] = Account[d.p] => c.p = d.p
  /\ \A c \in calls : Looking(c) /\ c.op = "create" => OpenFor(c.p) = {}
  /\ \A p \in Studio : \A s, t \in OpenFor(p) : s = t
  /\ \A p \in Studio : LET s == profile[p].sid IN
       s # NoSession /\ rooms[s] # Nobody => Account[rooms[s]] = Account[p]

\* The record a handler starts from has no call of its profile, but for an
\* account refresh when a heartbeat clears the session; g adds calls of p only.
Unclaimed(h, p) == \A d \in h.calls : d.p # p
Bare(h, p) == \A d \in h.calls : d.p = p => d = RefreshCall(p)
Only(h, g, p) == \A d \in g.calls : d.p # p => d \in h.calls

\* What every handler gives, one that takes no profile or output, and one that
\* starts on the session s or goes on with it.
Result(h, g, p) == g \in Handler /\ Keeps(h, g) /\ Only(h, g, p) /\ Fit(g, p)
Modest(h, g) ==
  g.row.output \in {h.row.output, NoOutput} /\ (Holding(g.row) => Holding(h.row))
Outcome(h, g, p, s) ==
  /\ Result(h, g, p) /\ Modest(h, g)
  /\ Steady => /\ h.row.sid # NoSession => g.row.sid = h.row.sid
               /\ s # NoSession => Carried(g, p, s)

\* What the part of a handler gives that only changes the row or drops a prefetch.
Along(h, g) ==
  /\ g \in Handler /\ Keeps(h, g) /\ g.calls \subseteq h.calls /\ Modest(h, g)
  /\ Steady => (h.row.sid # NoSession => g.row.sid = h.row.sid)

-----------------------------------------------------------------------------
\* The rows and the primitives of a handler, field by field.
LEMMA ReserveIs ==
  ASSUME NEW row \in Row, NEW s \in Sessions \cup {NoSession}
  PROVE  LET r == Reserve(row, s)
             m == MarkUncertain(row, s)
         IN /\ r \in Row /\ r.live /\ ~r.preparing /\ ~r.ending /\ ~r.recovering /\ ~r.uncertain
            /\ r.sid = s /\ r.output = row.output
            /\ m \in Row /\ m.live /\ ~m.preparing /\ ~m.ending /\ ~m.recovering /\ m.uncertain
            /\ m.sid = s /\ m.output = row.output
BY DEF Reserve, MarkUncertain, Row

LEMMA FlagsIs ==
  ASSUME NEW row \in Row, NEW a \in BOOLEAN, NEW b \in BOOLEAN
  PROVE  LET x == [row EXCEPT !.live = a, !.preparing = b]
         IN /\ x \in Row /\ x.live = a /\ x.preparing = b
            /\ x.ending = row.ending /\ x.recovering = row.recovering /\ x.uncertain = row.uncertain
            /\ x.sid = row.sid /\ x.output = row.output
BY DEF Row

LEMMA PreparingIs ==
  ASSUME NEW row \in Row, NEW b \in BOOLEAN
  PROVE  LET x == [row EXCEPT !.preparing = b]
         IN /\ x \in Row /\ x.live = row.live /\ x.preparing = b
            /\ x.ending = row.ending /\ x.recovering = row.recovering /\ x.uncertain = row.uncertain
            /\ x.sid = row.sid /\ x.output = row.output
BY DEF Row

LEMMA EndingIs ==
  ASSUME NEW row \in Row, NEW b \in BOOLEAN
  PROVE  LET e == [row EXCEPT !.ending = b]
             f == [row EXCEPT !.preparing = FALSE, !.ending = TRUE]
         IN /\ e \in Row /\ e.live = row.live /\ e.preparing = row.preparing /\ e.ending = b
            /\ e.recovering = row.recovering /\ e.uncertain = row.uncertain
            /\ e.sid = row.sid /\ e.output = row.output
            /\ f \in Row /\ f.live = row.live /\ f.preparing = FALSE /\ f.ending = TRUE
            /\ f.recovering = row.recovering /\ f.uncertain = row.uncertain
            /\ f.sid = row.sid /\ f.output = row.output
BY DEF Row

LEMMA SigningIs ==
  ASSUME NEW row \in Row, NEW t \in Target \cup {Unset}
  PROVE  LET r == [row EXCEPT !.signing = t]
         IN /\ r \in Row /\ r.live = row.live /\ r.preparing = row.preparing
            /\ r.ending = row.ending /\ r.recovering = row.recovering /\ r.uncertain = row.uncertain
            /\ r.sid = row.sid /\ r.output = row.output
BY DEF Row

LEMMA UnassignIs ==
  ASSUME NEW row \in Row
  PROVE  LET r == Unassign(row)
         IN /\ r \in Row /\ r.live = row.live /\ r.preparing = row.preparing
            /\ r.ending = row.ending /\ r.recovering = row.recovering /\ r.uncertain = row.uncertain
            /\ r.sid = row.sid /\ r.output = NoOutput
BY DEF Unassign, Row, Target

LEMMA ClearIs ==
  ASSUME NEW row \in Row, NEW p
  PROVE  LET r == ClearLive(p, row)
         IN /\ r \in Row /\ ~r.live /\ ~r.preparing /\ ~r.ending /\ ~r.recovering /\ ~r.uncertain
            /\ r.sid = NoSession /\ r.output \in {row.output, NoOutput}
<1>1. LET r == Clear(row)
      IN /\ r \in Row /\ ~r.live /\ ~r.preparing /\ ~r.ending /\ ~r.recovering /\ ~r.uncertain
         /\ r.sid = NoSession /\ r.output = row.output
  BY DEF Clear, Row
<1>. QED
  BY <1>1, UnassignIs DEF ClearLive

LEMMA WithIs ==
  ASSUME NEW h \in Handler, NEW row \in Row
  PROVE  /\ With(h, row) \in Handler /\ With(h, row).row = row /\ With(h, row).calls = h.calls
         /\ With(h, row).enc = h.enc
BY DEF With, Handler

LEMMA IssueIs ==
  ASSUME NEW h \in Handler, NEW c \in Call
  PROVE  Issue(h, c) \in Handler /\ Issue(h, c).row = h.row /\ Issue(h, c).calls = h.calls \cup {c}
BY DEF Issue, Handler

LEMMA UnmarkIs ==
  ASSUME NEW h \in Handler, NEW o
  PROVE  /\ Unmark(h, o) \in Handler /\ Unmark(h, o).row = h.row /\ Unmark(h, o).calls = h.calls
         /\ Unmark(h, o).enc = h.enc
BY DEF Unmark, Handler

LEMMA DetachIs ==
  ASSUME NEW h \in Handler, NEW o
  PROVE  /\ Detach(h, o) \in Handler /\ Detach(h, o).row = h.row
         /\ Detach(h, o).calls \subseteq h.calls /\ Keeps(h, Detach(h, o))
BY DEF Detach, Handler, Keeps

\* A handler that leaves no call behind, and one that leaves one.
LEMMA Rests ==
  ASSUME NEW p, NEW h, Bare(h, p), NEW g, g.calls \subseteq h.calls,
         RowFits(p, g.row), Covered(p, g.row)
  PROVE  Fit(g, p) /\ Bare(g, p) /\ Only(h, g, p)
<1>1. \A d \in g.calls : d.p = p => d = RefreshCall(p)
  BY DEF Bare
<1>2. CallFits(p, g.row, RefreshCall(p))
  BY DEF CallFits, RefreshCall, Enders, EndOps, Closers
<1>. QED
  BY <1>1, <1>2 DEF Fit, Bare, Only

LEMMA Asks ==
  ASSUME NEW p, NEW h, Unclaimed(h, p), NEW c, c.p = p,
         NEW g, g.calls \subseteq h.calls \cup {c}, c \in g.calls,
         RowFits(p, g.row), CallFits(p, g.row, c), Covered(p, g.row) \/ c.op \in Seekers
  PROVE  Fit(g, p) /\ Only(h, g, p)
BY DEF Fit, Only, Unclaimed

LEMMA UnclaimedBare == \A h, p : Unclaimed(h, p) => Bare(h, p)
BY DEF Unclaimed, Bare

LEMMA KeepsAll ==
  ASSUME NEW h, NEW g, NEW k, Keeps(h, g), Keeps(g, k)
  PROVE  Keeps(h, k)
BY DEF Keeps

\* A call keeps its profile and session when it is relabelled.
LEMMA RelabelIs ==
  ASSUME NEW c \in Call, NEW op \in Ops
  PROVE  LET d == [c EXCEPT !.op = op]
         IN d \in Call /\ d.op = op /\ d.p = c.p /\ d.o = c.o /\ d.s = c.s /\ d.start = c.start
BY DEF Call

-----------------------------------------------------------------------------
\* The functions of BridgeDock once more, with what they make of a session.
LEMMA StudioRemote == Studio \cap Local = {}
BY DEF Studio, Local

\* clear_live_session
LEMMA ClearedFit ==
  ASSUME NEW p \in Profiles, NEW h \in Handler, Bare(h, p)
  PROVE  LET g == ClearSession(h, p)
         IN /\ Result(h, g, p) /\ Modest(h, g) /\ Bare(g, p)
            /\ RowFits(p, g.row) /\ Covered(p, g.row) /\ ~Holding(g.row)
            /\ g.row.sid = NoSession
<1>. DEFINE d == Detach(h, SigningTarget(h.row))
            row == ClearLive(p, h.row)
            g == With(d, row)
<1>1. h.row \in Row
  BY DEF Handler
<1>2. /\ row \in Row /\ ~row.live /\ ~row.preparing /\ ~row.ending /\ ~row.recovering
      /\ ~row.uncertain /\ row.sid = NoSession /\ row.output \in {h.row.output, NoOutput}
  BY <1>1, ClearIs
<1>3. d \in Handler /\ d.calls \subseteq h.calls /\ Keeps(h, d)
  BY DetachIs
<1>. HIDE DEF d, row
<1>4. g \in Handler /\ g.row = row /\ g.calls = d.calls
  BY <1>2, <1>3, WithIs
<1>5. RowFits(p, g.row) /\ Covered(p, g.row) /\ ~Holding(g.row)
  BY <1>2, <1>4 DEF RowFits, Covered, Holding
<1>6. Fit(g, p) /\ Bare(g, p) /\ Only(h, g, p)
  BY <1>3, <1>4, <1>5, Rests
<1>7. Keeps(h, g)
  BY <1>3, <1>4 DEF Keeps
<1>8. ClearSession(h, p) = g
  BY DEF ClearSession, d, row
<1>. QED
  BY <1>2, <1>4, <1>5, <1>6, <1>7, <1>8 DEF Result, Modest

\* refresh_tiktok_studio_account
LEMMA RefreshFit ==
  ASSUME NEW p \in Profiles, NEW h \in Handler, Bare(h, p), RowFits(p, h.row), Covered(p, h.row)
  PROVE  LET g == Refresh(h, p)
         IN Result(h, g, p) /\ g.row = h.row
<1>. DEFINE c == RefreshCall(p)
<1>1. c \in Call /\ c.op = "refresh" /\ c.p = p
  BY DEF RefreshCall, Call, Ops, Target
<1>2. CallFits(p, h.row, c)
  BY DEF CallFits, RefreshCall, Enders, EndOps, Closers
<1>3. /\ Issue(h, c) \in Handler /\ Issue(h, c).row = h.row
      /\ Issue(h, c).calls = h.calls \cup {c}
  BY <1>1, IssueIs
<1>4. Fit(h, p) /\ Only(h, h, p) /\ Keeps(h, h)
  BY Rests DEF Keeps
<1>5. Refresh(h, p) \in {h, Issue(h, c)}
  BY DEF Refresh, RefreshCall
<1>. HIDE DEF c
<1>6. Fit(Issue(h, c), p) /\ Only(h, Issue(h, c), p) /\ Keeps(h, Issue(h, c))
  BY <1>1, <1>2, <1>3 DEF Fit, Only, Keeps, Bare, c
<1>. QED
  BY <1>3, <1>4, <1>5, <1>6 DEF Result

\* Parts of a handler follow each other, and a handler goes on from a part.
LEMMA AlongAll ==
  ASSUME NEW h \in Handler, NEW g, NEW k, Along(h, g), Along(g, k)
  PROVE  Along(h, k)
BY DEF Along, Keeps, Modest

LEMMA GoesOn ==
  ASSUME NEW p, NEW h \in Handler, Unclaimed(h, p), NEW g, Along(h, g)
  PROVE  /\ Unclaimed(g, p) /\ g \in Handler
         /\ \A k : Result(g, k, p) => Result(h, k, p)
         /\ \A k : Modest(g, k) => Modest(h, k)
         /\ \A k, s : Outcome(g, k, p, s) => Outcome(h, k, p, s)
<1>1. Unclaimed(g, p) /\ g \in Handler
  BY DEF Along, Unclaimed
<1>2. ASSUME NEW k, Result(g, k, p) PROVE Result(h, k, p)
  BY <1>2 DEF Along, Result, Keeps, Only
<1>3. ASSUME NEW k, Modest(g, k) PROVE Modest(h, k)
  BY <1>3 DEF Along, Modest
<1>4. ASSUME NEW k, NEW s, Outcome(g, k, p, s) PROVE Outcome(h, k, p, s)
  <2>1. Result(h, k, p) /\ Modest(h, k)
    BY <1>2, <1>3, <1>4 DEF Outcome
  <2>. QED
    BY <1>4, <2>1 DEF Along, Outcome
<1>. QED
  BY <1>1, <1>2, <1>3, <1>4

LEMMA WithAlong ==
  ASSUME NEW h \in Handler, NEW row \in Row, row.output \in {h.row.output, NoOutput},
         Holding(row) => Holding(h.row), Steady => (h.row.sid # NoSession => row.sid = h.row.sid)
  PROVE  /\ Along(h, With(h, row)) /\ With(h, row).row = row /\ With(h, row).calls = h.calls
         /\ With(h, row).enc = h.enc
<1>1. /\ With(h, row) \in Handler /\ With(h, row).row = row /\ With(h, row).calls = h.calls
      /\ With(h, row).enc = h.enc
  BY WithIs
<1>. QED
  BY <1>1 DEF Along, Keeps, Modest

LEMMA UnmarkAlong ==
  ASSUME NEW h \in Handler, NEW o
  PROVE  /\ Along(h, Unmark(h, o)) /\ Unmark(h, o).row = h.row /\ Unmark(h, o).calls = h.calls
         /\ Unmark(h, o).enc = h.enc
<1>1. /\ Unmark(h, o) \in Handler /\ Unmark(h, o).row = h.row /\ Unmark(h, o).calls = h.calls
      /\ Unmark(h, o).enc = h.enc
  BY UnmarkIs
<1>. QED
  BY <1>1 DEF Along, Keeps, Modest

LEMMA DetachAlong ==
  ASSUME NEW h \in Handler, NEW o
  PROVE  Along(h, Detach(h, o)) /\ Detach(h, o).row = h.row
BY DetachIs DEF Along, Modest

\* g leaves the session s on its row, or in the call c that it is about to add.
Rested(g, p, s) ==
  RowFits(p, g.row) /\ Covered(p, g.row) /\ (Steady => s = NoSession \/ g.row.sid = s)
Asked(g, c, p, s) ==
  /\ c.p = p /\ RowFits(p, g.row) /\ CallFits(p, g.row, c)
  /\ Covered(p, g.row) \/ c.op \in Seekers
  /\ Steady => s = NoSession \/ g.row.sid = s \/ (c.s = s /\ c.op \in Carriers)

\* How a handler ends: at rest, with a call, with an account refresh, or with
\* the session cleared.
LEMMA RestsOutcome ==
  ASSUME NEW p \in Profiles, NEW h \in Handler, Unclaimed(h, p), NEW g, Along(h, g),
         NEW s, Rested(g, p, s)
  PROVE  Outcome(h, g, p, s)
<1>1. Fit(g, p) /\ Only(h, g, p)
  BY UnclaimedBare, Rests DEF Along, Rested
<1>. QED
  BY <1>1 DEF Along, Outcome, Result, Carried, Rested

LEMMA AsksOutcome ==
  ASSUME NEW p \in Profiles, NEW h \in Handler, Unclaimed(h, p), NEW g, Along(h, g),
         NEW c \in Call, NEW s, Asked(g, c, p, s)
  PROVE  Outcome(h, Issue(g, c), p, s)
<1>. DEFINE k == Issue(g, c)
<1>1. k \in Handler /\ k.row = g.row /\ k.calls = g.calls \cup {c}
  BY IssueIs DEF Along
<1>. HIDE DEF k
<1>2. Fit(k, p) /\ Only(h, k, p)
  BY <1>1, Asks DEF Along, Asked
<1>3. Keeps(h, k)
  BY <1>1 DEF Keeps, Along
<1>4. Steady => s = NoSession \/ Carried(k, p, s)
  BY <1>1 DEF Carried, Asked
<1>. QED
  BY <1>1, <1>2, <1>3, <1>4 DEF k, Along, Outcome, Result, Modest

LEMMA RefreshOutcome ==
  ASSUME NEW p \in Profiles, NEW h \in Handler, Unclaimed(h, p), NEW g, Along(h, g),
         NEW s, Rested(g, p, s)
  PROVE  Outcome(h, Refresh(g, p), p, s)
<1>. DEFINE k == Refresh(g, p)
<1>1. g \in Handler /\ Bare(g, p)
  BY GoesOn, UnclaimedBare
<1>2. Result(g, k, p) /\ k.row = g.row
  BY <1>1, RefreshFit DEF Rested
<1>. HIDE DEF k
<1>3. Outcome(g, k, p, s)
  BY <1>2 DEF Outcome, Modest, Carried, Rested
<1>. QED
  BY <1>3, GoesOn DEF k

LEMMA ClearOutcome ==
  ASSUME NEW p \in Profiles, NEW h \in Handler, Unclaimed(h, p), NEW g, Along(h, g), NEW s,
         Steady => h.row.sid = NoSession /\ g.row.sid = NoSession /\ s = NoSession
  PROVE  Outcome(h, ClearSession(g, p), p, s)
<1>. DEFINE k == ClearSession(g, p)
<1>1. g \in Handler /\ Bare(g, p)
  BY GoesOn, UnclaimedBare
<1>2. Result(g, k, p) /\ Modest(g, k)
  BY <1>1, ClearedFit
<1>. HIDE DEF k
<1>3. Outcome(g, k, p, s)
  BY <1>2 DEF Outcome
<1>. QED
  BY <1>3, GoesOn DEF k

\* fail_tiktok_studio_start leaves the box behind that leads to the end request.
LEMMA FailFit ==
  ASSUME NEW p \in Profiles, p \in Studio, NEW h \in Handler, Unclaimed(h, p),
         NEW c \in Call, c.p = p, c.s # NoSession, h.row.live => h.row.sid # NoSession,
         Steady => h.row.sid = c.s, Calm => ~h.row.uncertain /\ ~h.row.recovering
  PROVE  Outcome(h, Fail(h, c), p, c.s)
<1>. DEFINE e == Detach(h, c.o)
            row == [h.row EXCEPT !.preparing = FALSE, !.ending = TRUE]
            g == With(e, row)
            d == [c EXCEPT !.op = "failed"]
<1>1. h.row \in Row
  BY DEF Handler
<1>2. /\ row \in Row /\ row.live = h.row.live /\ row.preparing = FALSE /\ row.ending = TRUE
      /\ row.recovering = h.row.recovering /\ row.uncertain = h.row.uncertain
      /\ row.sid = h.row.sid /\ row.output = h.row.output
  BY <1>1, EndingIs
<1>3. Along(h, e) /\ e.row = h.row /\ e \in Handler
  BY DetachAlong DEF Along
<1>4. d \in Call /\ d.op = "failed" /\ d.p = p /\ d.s = c.s
  BY RelabelIs DEF Ops
<1>5. Issue(g, d) = Fail(h, c)
  BY DEF Fail
<1>. HIDE DEF row, e, d
<1>6. Along(e, g) /\ g.row = row
  BY <1>2, <1>3, WithAlong DEF Holding
<1>. HIDE DEF g
<1>7. Along(h, g)
  BY <1>3, <1>6, AlongAll
<1>8. p \notin Local
  BY StudioRemote
<1>9. RowFits(p, g.row) /\ Covered(p, g.row)
  BY <1>2, <1>6, <1>8 DEF RowFits, Covered, HoldingOrEnding
<1>10. EndRow(p, g.row, d.s)
  BY <1>2, <1>4, <1>6, <1>9 DEF EndRow
<1>11. CallFits(p, g.row, d)
  BY <1>4, <1>10 DEF CallFits, Closers, EndOps
<1>12. Asked(g, d, p, c.s)
  BY <1>2, <1>4, <1>6, <1>9, <1>11 DEF Asked
<1>. QED
  BY <1>4, <1>5, <1>7, <1>12, AsksOutcome

\* The callbacks of prepare_output_signing.
LEMMA SignedFit ==
  ASSUME NEW p \in Profiles, NEW h \in Handler, Unclaimed(h, p),
         NEW c \in Call, c.p = p, SignRow(p, h.row, c.s)
  PROVE  Outcome(h, Signed(h, c), p, c.s)
<1>1. /\ h.row \in Row /\ RowFits(p, h.row) /\ OnTheWay(p, h.row) /\ Identified(p, c.s)
      /\ h.row.sid = c.s
  BY DEF Handler, SignRow
<1>2. CASE p \in Studio
  <2>. DEFINE row == [h.row EXCEPT !.live = TRUE, !.preparing = FALSE]
              g == With(h, row)
  <2>1. /\ row \in Row /\ row.live /\ ~row.preparing /\ row.ending = h.row.ending
        /\ row.recovering = h.row.recovering /\ row.uncertain = h.row.uncertain
        /\ row.sid = h.row.sid /\ row.output = h.row.output
    BY <1>1, FlagsIs
  <2>2. Signed(h, c) = Refresh(g, p)
    BY <1>2 DEF Signed
  <2>. HIDE DEF row
  <2>3. Along(h, g) /\ g.row = row
    BY <1>1, <1>2, <2>1, WithAlong DEF Holding, OnTheWay
  <2>. HIDE DEF g
  <2>4. p \notin Local /\ c.s # NoSession
    BY <1>1, <1>2, StudioRemote DEF Identified
  <2>5. RowFits(p, g.row) /\ Covered(p, g.row) /\ g.row.sid = c.s
    BY <1>1, <2>1, <2>3, <2>4 DEF RowFits, Covered, HoldingOrEnding, Holding
  <2>6. Rested(g, p, c.s)
    BY <2>5 DEF Rested
  <2>. QED
    BY <2>2, <2>3, <2>6, RefreshOutcome
<1>3. CASE p \notin Studio
  <2>. DEFINE row == [h.row EXCEPT !.preparing = FALSE]
              g == With(h, row)
              d == [c EXCEPT !.op = "start"]
  <2>1. /\ row \in Row /\ row.live = h.row.live /\ ~row.preparing /\ row.ending = h.row.ending
        /\ row.recovering = h.row.recovering /\ row.uncertain = h.row.uncertain
        /\ row.sid = h.row.sid /\ row.output = h.row.output
    BY <1>1, PreparingIs
  <2>2. Signed(h, c) = IF c.start THEN Issue(g, d) ELSE g
    BY <1>3 DEF Signed
  <2>3. d \in Call /\ d.op = "start" /\ d.p = p
    BY RelabelIs DEF Ops
  <2>. HIDE DEF row, d
  <2>4. Along(h, g) /\ g.row = row
    BY <2>1, WithAlong DEF Holding
  <2>. HIDE DEF g
  <2>5. RowFits(p, g.row) /\ Covered(p, g.row) /\ g.row.sid = c.s
    BY <1>1, <1>3, <2>1, <2>4 DEF RowFits, Covered, HoldingOrEnding, Holding, OnTheWay, Identified
  <2>6. StartRow(p, g.row)
    BY <1>1, <1>3, <2>1, <2>4, <2>5 DEF StartRow, OnTheWay, Identified
  <2>7. CallFits(p, g.row, d)
    BY <2>3, <2>6 DEF CallFits, Closers, EndOps, Enders
  <2>8. Asked(g, d, p, c.s) /\ Rested(g, p, c.s)
    BY <2>3, <2>5, <2>7 DEF Asked, Rested
  <2>. QED
    BY <2>2, <2>3, <2>4, <2>8, AsksOutcome, RestsOutcome
<1>. QED
  BY <1>2, <1>3

\* A failed prefetch leaves an error box behind.
LEMMA UnsignedFit ==
  ASSUME NEW p \in Profiles, NEW h \in Handler, Unclaimed(h, p),
         NEW c \in Call, c.p = p, SignRow(p, h.row, c.s)
  PROVE  Outcome(h, Unsigned(h, c), p, c.s)
<1>1. /\ h.row \in Row /\ RowFits(p, h.row) /\ OnTheWay(p, h.row) /\ Identified(p, c.s)
      /\ h.row.sid = c.s
  BY DEF Handler, SignRow
<1>2. CASE p \in Studio
  <2>. DEFINE d == [c EXCEPT !.start = FALSE]
  <2>1. d \in Call /\ d.p = p /\ d.s = c.s
    BY DEF Call
  <2>2. /\ c.s # NoSession /\ (h.row.live => h.row.sid # NoSession)
        /\ Steady => h.row.sid = c.s
        /\ Calm => ~h.row.uncertain /\ ~h.row.recovering
    BY <1>1, <1>2, StudioRemote DEF Identified, RowFits
  <2>3. Unsigned(h, c) = Fail(h, d)
    BY <1>2 DEF Unsigned
  <2>. HIDE DEF d
  <2>. QED
    BY <1>1, <1>2, <2>1, <2>2, <2>3, FailFit
<1>3. CASE p \notin Studio
  <2>. DEFINE row == [h.row EXCEPT !.preparing = FALSE, !.ending = TRUE]
              g == With(h, row)
              d == [c EXCEPT !.op = "unsigned"]
  <2>1. /\ row \in Row /\ row.live = h.row.live /\ row.preparing = FALSE /\ row.ending = TRUE
        /\ row.recovering = h.row.recovering /\ row.uncertain = h.row.uncertain
        /\ row.sid = h.row.sid /\ row.output = h.row.output
    BY <1>1, EndingIs
  <2>2. Unsigned(h, c) = Issue(g, d)
    BY <1>3 DEF Unsigned
  <2>3. d \in Call /\ d.op = "unsigned" /\ d.p = p /\ d.s = c.s
    BY RelabelIs DEF Ops
  <2>. HIDE DEF row, d
  <2>4. Along(h, g) /\ g.row = row
    BY <2>1, WithAlong DEF Holding
  <2>. HIDE DEF g
  <2>5. RowFits(p, g.row) /\ Covered(p, g.row) /\ g.row.sid = c.s
    BY <1>1, <2>1, <2>4 DEF RowFits, Covered, HoldingOrEnding, Holding, Identified
  <2>6. EndRow(p, g.row, d.s)
    BY <1>1, <2>1, <2>3, <2>4, <2>5 DEF EndRow, Identified
  <2>7. CallFits(p, g.row, d)
    BY <1>3, <2>3, <2>6 DEF CallFits, Closers, EndOps
  <2>8. Asked(g, d, p, c.s)
    BY <2>3, <2>5, <2>7 DEF Asked
  <2>. QED
    BY <2>2, <2>3, <2>4, <2>8, AsksOutcome
<1>. QED
  BY <1>2, <1>3

\* prepare_output_signing
LEMMA RequestSignFit ==
  ASSUME NEW p \in Profiles, NEW h \in Handler, Unclaimed(h, p),
         NEW c \in Call, c.p = p, SignRow(p, h.row, c.s)
  PROVE  Outcome(h, RequestSign(h, c), p, c.s)
<1>1. /\ h.row \in Row /\ RowFits(p, h.row) /\ OnTheWay(p, h.row) /\ Identified(p, c.s)
      /\ h.row.sid = c.s /\ c.o \in Target
  BY DEF Handler, SignRow, Call
<1>a. ASSUME NEW row \in Row, row.live = h.row.live, row.preparing = h.row.preparing,
             row.ending = h.row.ending, row.recovering = h.row.recovering,
             row.uncertain = h.row.uncertain, row.sid = h.row.sid
      PROVE  SignRow(p, row, c.s) /\ RowFits(p, row) /\ Covered(p, row) /\ (Holding(row) => Holding(h.row))
  BY <1>a, <1>1 DEF SignRow, RowFits, Covered, HoldingOrEnding, Holding, OnTheWay, Identified
<1>2. CASE p \in Signing
  <2>. DEFINE row == [h.row EXCEPT !.signing = c.o]
              w == With(h, row)
              g == Detach(w, c.o)
              d == [c EXCEPT !.op = "sign"]
  <2>1. /\ row \in Row /\ row.live = h.row.live /\ row.preparing = h.row.preparing
        /\ row.ending = h.row.ending /\ row.recovering = h.row.recovering
        /\ row.uncertain = h.row.uncertain /\ row.sid = h.row.sid /\ row.output = h.row.output
    BY <1>1, SigningIs
  <2>2. RequestSign(h, c) = Issue(g, d)
    BY <1>2 DEF RequestSign
  <2>3. d \in Call /\ d.op = "sign" /\ d.p = p /\ d.s = c.s
    BY RelabelIs DEF Ops
  <2>. HIDE DEF row, d
  <2>4. SignRow(p, row, c.s) /\ RowFits(p, row) /\ Covered(p, row) /\ (Holding(row) => Holding(h.row))
    BY <2>1, <1>a
  <2>5. Along(h, w) /\ w.row = row /\ w \in Handler
    BY <2>1, <2>4, WithAlong DEF Along
  <2>. HIDE DEF w
  <2>6. Along(h, g) /\ g.row = row
    BY <2>5, DetachAlong, AlongAll
  <2>. HIDE DEF g
  <2>7. CallFits(p, g.row, d)
    BY <2>3, <2>4, <2>6 DEF CallFits, Closers, EndOps, Enders
  <2>8. Asked(g, d, p, c.s)
    BY <1>1, <2>1, <2>3, <2>4, <2>6, <2>7 DEF Asked
  <2>. QED
    BY <2>2, <2>3, <2>6, <2>8, AsksOutcome
<1>3. CASE p \notin Signing
  <2>. DEFINE previous == IF h.row.signing = Unset THEN c.o ELSE h.row.signing
              row == [h.row EXCEPT !.signing = Unset]
              e == Detach(h, previous)
              g == With(e, row)
  <2>1. /\ row \in Row /\ row.live = h.row.live /\ row.preparing = h.row.preparing
        /\ row.ending = h.row.ending /\ row.recovering = h.row.recovering
        /\ row.uncertain = h.row.uncertain /\ row.sid = h.row.sid /\ row.output = h.row.output
    BY <1>1, SigningIs
  <2>2. RequestSign(h, c) = Signed(g, c)
    BY <1>3 DEF RequestSign
  <2>3. Along(h, e) /\ e.row = h.row /\ e \in Handler
    BY DetachAlong DEF Along
  <2>. HIDE DEF row, e
  <2>4. SignRow(p, row, c.s) /\ RowFits(p, row) /\ Covered(p, row) /\ (Holding(row) => Holding(h.row))
    BY <2>1, <1>a
  <2>5. Along(e, g) /\ g.row = row
    BY <2>1, <2>3, <2>4, WithAlong
  <2>. HIDE DEF g
  <2>6. Along(h, g)
    BY <2>3, <2>5, AlongAll
  <2>7. Unclaimed(g, p) /\ g \in Handler
    BY <2>6, GoesOn
  <2>8. Outcome(g, Signed(g, c), p, c.s)
    BY <2>4, <2>5, <2>7, SignedFit
  <2>. QED
    BY <2>2, <2>6, <2>8, GoesOn
<1>. QED
  BY <1>2, <1>3

\* An end request that the platform has answered leaves no session behind.
LEMMA ResultAll ==
  ASSUME NEW p, NEW h, NEW k, NEW r, Result(h, k, p), Result(k, r, p)
  PROVE  Result(h, r, p)
BY DEF Result, Keeps, Only

LEMMA ClosedFit ==
  ASSUME NEW p \in Profiles, NEW h \in Handler, Unclaimed(h, p), RowFits(p, h.row),
         NEW c \in Call, c.p = p, c.op = "endUpdate" => (Steady => h.row.sid = NoSession)
  PROVE  LET r == FinishEnd(h, c, TRUE)
         IN /\ Result(h, r, p) /\ Modest(h, r) /\ (Steady => r.row.sid = NoSession)
            /\ c.op # "endUpdate" => ~Holding(r.row)
<1>. DEFINE g == IF c.start \/ c.op \in {"endUnsigned", "endUnstarted"} THEN Unmark(h, c.o) ELSE h
            done == [h.row EXCEPT !.ending = FALSE]
            off == [h.row EXCEPT !.preparing = FALSE]
            w == With(g, done)
            k == ClearSession(w, p)
            r == FinishEnd(h, c, TRUE)
<1>1. Along(h, g) /\ g.row = h.row /\ g \in Handler /\ h.row \in Row
  BY UnmarkAlong DEF Along, Keeps, Modest, Handler
<1>2. r = IF c.op = "endUpdate" THEN With(g, off)
          ELSE IF c.op = "endUser" THEN Refresh(k, p) ELSE k
  BY <1>1 DEF FinishEnd
<1>. HIDE DEF g, r
<1>3. CASE c.op = "endUpdate"
  <2>1. /\ off \in Row /\ off.live = h.row.live /\ ~off.preparing /\ off.ending = h.row.ending
        /\ off.recovering = h.row.recovering /\ off.uncertain = h.row.uncertain
        /\ off.sid = h.row.sid /\ off.output = h.row.output
    BY <1>1, PreparingIs
  <2>. HIDE DEF off
  <2>2. Along(g, With(g, off)) /\ With(g, off).row = off
    BY <1>1, <2>1, WithAlong DEF Holding
  <2>3. Along(h, With(g, off))
    BY <1>1, <2>2, AlongAll
  <2>4. Rested(With(g, off), p, NoSession)
    BY <1>3, <2>1, <2>2 DEF Rested, RowFits, Covered, HoldingOrEnding, Holding
  <2>5. Outcome(h, With(g, off), p, NoSession)
    BY <2>3, <2>4, RestsOutcome
  <2>. QED
    BY <1>2, <1>3, <2>1, <2>2, <2>5 DEF Outcome, r
<1>4. CASE c.op # "endUpdate"
  <2>1. /\ done \in Row /\ done.live = h.row.live /\ done.preparing = h.row.preparing
        /\ done.uncertain = h.row.uncertain /\ done.sid = h.row.sid /\ done.output = h.row.output
    BY <1>1, EndingIs
  <2>. HIDE DEF done
  <2>2. Along(g, w)
    BY <1>1, <2>1, WithAlong DEF Holding
  <2>. HIDE DEF w
  <2>3. Along(h, w)
    BY <1>1, <2>2, AlongAll
  <2>4. Unclaimed(w, p) /\ w \in Handler
    BY <2>3, GoesOn
  <2>5. /\ Result(w, k, p) /\ Modest(w, k) /\ Bare(k, p)
        /\ RowFits(p, k.row) /\ Covered(p, k.row) /\ k.row.sid = NoSession /\ ~Holding(k.row)
    BY <2>4, UnclaimedBare, ClearedFit
  <2>. HIDE DEF k
  <2>6. Result(h, k, p) /\ Modest(h, k) /\ k \in Handler
    BY <2>3, <2>5, GoesOn DEF Result
  <2>7. Result(k, Refresh(k, p), p) /\ Refresh(k, p).row = k.row
    BY <2>5, <2>6, RefreshFit
  <2>8. Result(h, Refresh(k, p), p)
    BY <2>6, <2>7, ResultAll
  <2>. QED
    BY <1>2, <1>4, <2>5, <2>6, <2>7, <2>8 DEF Modest, r
<1>. QED
  BY <1>3, <1>4

\* One that failed, or went unanswered, leaves a session known if it leaves one LIVE.
LEMMA DoubtedFit ==
  ASSUME NEW p \in Profiles, NEW h \in Handler, Unclaimed(h, p), RowFits(p, h.row), ~Calm,
         NEW c \in Call, c.p = p, c.op \in Closers, c.op # "endUser" => c.s # NoSession,
         Steady => /\ p \notin Local /\ c.s # NoSession /\ c.op # "endRecovery"
                   /\ IF c.op = "endUpdate" THEN h.row.sid = NoSession ELSE h.row.sid = c.s
                   /\ c.op = "endUnstarted" => Holding(h.row)
  PROVE  LET r == FinishEnd(h, c, FALSE)
         IN Result(h, r, p) /\ (Steady => (h.row.sid # NoSession => r.row.sid = h.row.sid))
<1>. DEFINE g == IF c.start \/ c.op \in {"endUnsigned", "endUnstarted"} THEN Unmark(h, c.o) ELSE h
            done == [h.row EXCEPT !.ending = FALSE]
            after == CASE c.op = "endUser" -> [done EXCEPT !.uncertain = TRUE]
                    [] c.op = "endFailed" -> [done EXCEPT !.live = FALSE, !.uncertain = TRUE]
                    [] c.op = "endUnsigned" -> MarkUncertain(done, c.s)
                    [] c.op = "endUnstarted" -> done
                    [] c.op = "endUpdate" -> Reserve(h.row, c.s)
                    [] c.op = "endRecovery" -> [h.row EXCEPT !.recovering = FALSE,
                                                             !.uncertain = TRUE]
<1>1. Along(h, g) /\ g.row = h.row /\ g \in Handler /\ h.row \in Row /\ g.calls \subseteq h.calls
  BY UnmarkAlong DEF Along, Keeps, Modest, Handler
<1>2. FinishEnd(h, c, FALSE) = With(g, after)
  BY <1>1 DEF FinishEnd
<1>. HIDE DEF g
<1>3. /\ done \in Row /\ done.live = h.row.live /\ done.sid = h.row.sid
      /\ done.preparing = h.row.preparing /\ done.uncertain = h.row.uncertain
  BY <1>1, EndingIs
<1>. HIDE DEF done
<1>4. c.s \in Sessions \cup {NoSession}
  BY DEF Call
<1>5. /\ after \in Row /\ (after.live /\ p \notin Local => after.sid # NoSession)
      /\ Steady => /\ after.sid # NoSession /\ HoldingOrEnding(after)
                   /\ h.row.sid # NoSession => after.sid = h.row.sid
  <2>1. CASE c.op = "endUser"
    <3>1. LET a == [done EXCEPT !.uncertain = TRUE]
          IN a \in Row /\ a.live = h.row.live /\ a.sid = h.row.sid /\ a.uncertain
      BY <1>3 DEF Row
    <3>. QED
      BY <2>1, <3>1 DEF RowFits, HoldingOrEnding, Holding
  <2>2. CASE c.op = "endFailed"
    <3>1. LET a == [done EXCEPT !.live = FALSE, !.uncertain = TRUE]
          IN a \in Row /\ ~a.live /\ a.uncertain /\ a.sid = h.row.sid
      BY <1>3 DEF Row
    <3>. QED
      BY <2>2, <3>1 DEF HoldingOrEnding, Holding
  <2>3. CASE c.op = "endUnsigned"
    BY <2>3, <1>3, <1>4, ReserveIs DEF HoldingOrEnding, Holding
  <2>4. CASE c.op = "endUnstarted"
    BY <2>4, <1>3 DEF RowFits, HoldingOrEnding, Holding
  <2>5. CASE c.op = "endUpdate"
    BY <2>5, <1>1, <1>4, ReserveIs DEF HoldingOrEnding, Holding
  <2>6. CASE c.op = "endRecovery"
    <3>1. LET a == [h.row EXCEPT !.recovering = FALSE, !.uncertain = TRUE]
          IN a \in Row /\ a.live = h.row.live /\ a.sid = h.row.sid
      BY <1>1 DEF Row
    <3>. QED
      BY <2>6, <3>1 DEF RowFits
  <2>. QED
    BY <2>1, <2>2, <2>3, <2>4, <2>5, <2>6 DEF Closers, EndOps
<1>. HIDE DEF after
<1>6. With(g, after) \in Handler /\ With(g, after).row = after /\ With(g, after).calls = g.calls
  BY <1>1, <1>5, WithIs
<1>7. RowFits(p, after) /\ Covered(p, after)
  BY <1>5 DEF RowFits, Covered
<1>8. Fit(With(g, after), p) /\ Only(h, With(g, after), p)
  BY <1>1, <1>6, <1>7, UnclaimedBare, Rests
<1>9. Keeps(h, With(g, after))
  BY <1>1, <1>6 DEF Along, Keeps
<1>. QED
  BY <1>2, <1>5, <1>6, <1>8, <1>9 DEF Result

\* Asking for an end: the request keeps the session, manual credentials have none.
LEMMA RequestEndFit ==
  ASSUME NEW p \in Profiles, NEW h \in Handler, Unclaimed(h, p), RowFits(p, h.row), Covered(p, h.row),
         NEW c \in Call, c.p = p, c.op \in EndOps \cup {"endUpdate"},
         c.op \in EndOps => EndRow(p, h.row, c.s),
         c.op = "endUnstarted" => Holding(h.row),
         c.op = "endUpdate" => /\ p \notin Studio /\ Identified(p, c.s)
                               /\ Steady => h.row.sid = NoSession
  PROVE  Outcome(h, RequestEnd(h, c), p, c.s)
<1>1. CASE p \in Local
  <2>1. RequestEnd(h, c) = FinishEnd(h, c, TRUE)
    BY <1>1 DEF RequestEnd
  <2>2. LET r == FinishEnd(h, c, TRUE)
        IN Result(h, r, p) /\ Modest(h, r) /\ (Steady => r.row.sid = NoSession)
    BY ClosedFit
  <2>3. Steady => h.row.sid = NoSession /\ c.s = NoSession
    BY <1>1 DEF RowFits, EndRow, Identified
  <2>. QED
    BY <2>1, <2>2, <2>3 DEF Outcome
<1>2. CASE p \notin Local
  <2>1. c.s # NoSession
    BY <1>2 DEF EndRow, Identified
  <2>2. RequestEnd(h, c) = Issue(h, c)
    BY <1>2, <2>1 DEF RequestEnd
  <2>3. CallFits(p, h.row, c)
    BY <1>2, <2>1 DEF CallFits, Enders, EndOps, Closers
  <2>4. Asked(h, c, p, c.s)
    BY <2>3 DEF Asked, EndRow, Carriers
  <2>5. Along(h, h)
    BY DEF Along, Keeps, Modest
  <2>. QED
    BY <2>2, <2>4, <2>5, AsksOutcome
<1>. QED
  BY <1>1, <1>2

\* A refused or failed update leads to the end of the session.
LEMMA NotUpdatedFit ==
  ASSUME NEW p \in Profiles, NEW h \in Handler, Unclaimed(h, p),
         NEW c \in Call, c.p = p, UpdateRow(p, h.row, c.s)
  PROVE  Outcome(h, NotUpdated(h, c), p, c.s)
<1>1. /\ h.row \in Row /\ RowFits(p, h.row) /\ h.row.preparing /\ ~h.row.live
      /\ Identified(p, c.s)
  BY DEF Handler, UpdateRow
<1>2. CASE p \in Studio
  <2>1. /\ c.s # NoSession /\ h.row.sid = c.s
        /\ Calm => ~h.row.uncertain /\ ~h.row.recovering
    BY <1>1, <1>2, StudioRemote DEF Identified, UpdateRow, RowFits
  <2>. QED
    BY <1>1, <1>2, <2>1, FailFit DEF NotUpdated
<1>3. CASE p \notin Studio
  <2>. DEFINE row == [h.row EXCEPT !.preparing = FALSE]
              g == With(h, row)
              d == [c EXCEPT !.op = "endUpdate"]
  <2>1. /\ row \in Row /\ row.live = h.row.live /\ ~row.preparing /\ row.ending = h.row.ending
        /\ row.recovering = h.row.recovering /\ row.uncertain = h.row.uncertain
        /\ row.sid = h.row.sid /\ row.output = h.row.output
    BY <1>1, PreparingIs
  <2>2. NotUpdated(h, c) = RequestEnd(g, d)
    BY <1>3 DEF NotUpdated
  <2>3. d \in Call /\ d.op = "endUpdate" /\ d.p = p /\ d.s = c.s
    BY RelabelIs DEF Ops
  <2>. HIDE DEF row, d
  <2>4. Along(h, g) /\ g.row = row
    BY <2>1, WithAlong DEF Holding
  <2>5. Unclaimed(g, p) /\ g \in Handler
    BY <2>4, GoesOn
  <2>. HIDE DEF g
  <2>6. Steady => g.row.sid = NoSession
    BY <1>3, <2>1, <2>4 DEF UpdateRow
  <2>7. RowFits(p, g.row) /\ Covered(p, g.row)
    BY <1>1, <2>1, <2>4, <2>6 DEF RowFits, Covered
  <2>8. Outcome(g, RequestEnd(g, d), p, c.s)
    BY <1>1, <1>3, <2>3, <2>5, <2>6, <2>7, RequestEndFit DEF EndOps
  <2>. QED
    BY <2>2, <2>4, <2>8, GoesOn
<1>. QED
  BY <1>2, <1>3

\* AitumBridge::update_async
LEMMA RequestUpdateFit ==
  ASSUME NEW p \in Profiles, NEW h \in Handler, Unclaimed(h, p),
         NEW c \in Call, c.p = p, UpdateRow(p, h.row, c.s)
  PROVE  Outcome(h, RequestUpdate(h, c), p, c.s)
<1>. DEFINE d == [c EXCEPT !.op = "update"]
<1>1. d \in Call /\ d.op = "update" /\ d.p = p /\ d.s = c.s
  BY RelabelIs DEF Ops
<1>2. RequestUpdate(h, c) \in {NotUpdated(h, c), Issue(h, d)}
  BY DEF RequestUpdate
<1>. HIDE DEF d
<1>3. CallFits(p, h.row, d)
  BY <1>1 DEF CallFits, Enders, EndOps, Closers
<1>4. Asked(h, d, p, c.s)
  BY <1>1, <1>3 DEF Asked, UpdateRow, Seekers, Carriers
<1>5. Along(h, h)
  BY DEF Along, Keeps, Modest
<1>6. Outcome(h, Issue(h, d), p, c.s)
  BY <1>1, <1>4, <1>5, AsksOutcome
<1>. QED
  BY <1>2, <1>6, NotUpdatedFit

\* The callbacks of update_aitum_output_for_profile.
LEMMA UpdatedFit ==
  ASSUME NEW p \in Profiles, NEW h \in Handler, Unclaimed(h, p),
         NEW c \in Call, c.p = p, UpdateRow(p, h.row, c.s)
  PROVE  Outcome(h, Updated(h, c), p, c.s)
<1>1. /\ h.row \in Row /\ RowFits(p, h.row) /\ h.row.preparing /\ ~h.row.live
      /\ Identified(p, c.s) /\ c.s \in Sessions \cup {NoSession}
  BY DEF Handler, UpdateRow, Call
<1>a. p \in Studio => p \notin Local /\ c.s # NoSession /\ h.row.sid = c.s
  BY <1>1, StudioRemote DEF Identified, UpdateRow
<1>2. CASE p \in Studio /\ c.start
  <2>. DEFINE row == [h.row EXCEPT !.preparing = TRUE]
              g == With(h, row)
              d == [c EXCEPT !.op = "start"]
  <2>1. /\ row \in Row /\ row.live = h.row.live /\ row.preparing /\ row.ending = h.row.ending
        /\ row.recovering = h.row.recovering /\ row.uncertain = h.row.uncertain
        /\ row.sid = h.row.sid /\ row.output = h.row.output
    BY <1>1, PreparingIs
  <2>2. Updated(h, c) = Issue(g, d)
    BY <1>2 DEF Updated
  <2>3. d \in Call /\ d.op = "start" /\ d.p = p
    BY RelabelIs DEF Ops
  <2>. HIDE DEF row, d
  <2>4. Along(h, g) /\ g.row = row
    BY <1>1, <2>1, WithAlong DEF Holding
  <2>. HIDE DEF g
  <2>5. RowFits(p, g.row) /\ Covered(p, g.row) /\ StartRow(p, g.row)
    BY <1>1, <1>2, <1>a, <2>1, <2>4
       DEF RowFits, Covered, StartRow, OnTheWay, HoldingOrEnding, Holding
  <2>6. CallFits(p, g.row, d)
    BY <2>3, <2>5 DEF CallFits, Enders, EndOps, Closers
  <2>7. Asked(g, d, p, c.s)
    BY <1>2, <1>a, <2>1, <2>3, <2>4, <2>5, <2>6 DEF Asked
  <2>. QED
    BY <2>2, <2>3, <2>4, <2>7, AsksOutcome
<1>3. CASE p \in Studio /\ ~c.start
  <2>. DEFINE row == [h.row EXCEPT !.live = TRUE, !.preparing = FALSE]
              w == With(h, row)
              g == Unmark(w, c.o)
  <2>1. /\ row \in Row /\ row.live /\ ~row.preparing /\ row.ending = h.row.ending
        /\ row.recovering = h.row.recovering /\ row.uncertain = h.row.uncertain
        /\ row.sid = h.row.sid /\ row.output = h.row.output
    BY <1>1, FlagsIs
  <2>2. Updated(h, c) = Refresh(g, p)
    BY <1>3 DEF Updated
  <2>. HIDE DEF row
  <2>3. Along(h, w) /\ w.row = row /\ w \in Handler
    BY <1>1, <2>1, WithAlong DEF Holding, Along
  <2>. HIDE DEF w
  <2>4. Along(h, g) /\ g.row = row
    BY <2>3, UnmarkAlong, AlongAll
  <2>. HIDE DEF g
  <2>5. Rested(g, p, c.s)
    BY <1>1, <1>3, <1>a, <2>1, <2>4 DEF Rested, RowFits, Covered, HoldingOrEnding, Holding
  <2>. QED
    BY <2>2, <2>4, <2>5, RefreshOutcome
<1>4. CASE p \notin Studio
  <2>. DEFINE b == p \in Signing
              base == Reserve(h.row, c.s)
              row == [base EXCEPT !.preparing = b]
              g == With(h, row)
  <2>1. /\ base \in Row /\ base.live /\ ~base.ending /\ ~base.recovering /\ ~base.uncertain
        /\ base.sid = c.s /\ base.output = h.row.output /\ b \in BOOLEAN
    BY <1>1, ReserveIs
  <2>2. Updated(h, c) = RequestSign(g, c)
    BY <1>4 DEF Updated
  <2>. HIDE DEF base, b
  <2>3. /\ row \in Row /\ row.live /\ ~row.ending /\ ~row.recovering /\ ~row.uncertain
        /\ row.sid = c.s /\ row.output = h.row.output
    BY <2>1, PreparingIs
  <2>. HIDE DEF row
  <2>4. Steady => h.row.sid = NoSession
    BY <1>4 DEF UpdateRow
  <2>5. Along(h, g) /\ g.row = row
    BY <1>1, <2>3, <2>4, WithAlong DEF Holding
  <2>6. Unclaimed(g, p) /\ g \in Handler
    BY <2>5, GoesOn
  <2>. HIDE DEF g
  <2>7. SignRow(p, g.row, c.s)
    BY <1>1, <1>4, <2>3, <2>5
       DEF SignRow, RowFits, OnTheWay, Identified, HoldingOrEnding, Holding
  <2>8. Outcome(g, RequestSign(g, c), p, c.s)
    BY <2>6, <2>7, RequestSignFit
  <2>. QED
    BY <2>2, <2>5, <2>8, GoesOn
<1>. QED
  BY <1>2, <1>3, <1>4

\* activate_tiktok_studio_live
LEMMA ActivateFit ==
  ASSUME NEW p \in Profiles, p \in Studio, NEW h \in Handler, Unclaimed(h, p), Holding(h.row),
         NEW c \in Call, c.p = p, c.s # NoSession
  PROVE  LET r == Activate(h, c)
         IN Result(h, r, p) /\ Modest(h, r) /\ (Steady => Carried(r, p, c.s))
<1>. DEFINE base == Reserve(h.row, c.s)
            row == [base EXCEPT !.live = FALSE, !.preparing = TRUE]
            g == With(h, row)
<1>1. h.row \in Row /\ c.s \in Sessions \cup {NoSession} /\ p \notin Local
  BY StudioRemote DEF Handler, Call
<1>2. /\ base \in Row /\ ~base.ending /\ ~base.recovering /\ ~base.uncertain
      /\ base.sid = c.s /\ base.output = h.row.output
  BY <1>1, ReserveIs
<1>3. Activate(h, c) = IF c.o = NoOutput THEN RequestSign(g, c) ELSE RequestUpdate(g, c)
  BY DEF Activate
<1>. HIDE DEF base
<1>4. /\ row \in Row /\ ~row.live /\ row.preparing /\ ~row.ending /\ ~row.recovering
      /\ ~row.uncertain /\ row.sid = c.s /\ row.output = h.row.output
  BY <1>2, FlagsIs
<1>. HIDE DEF row
<1>5. g \in Handler /\ g.row = row /\ g.calls = h.calls
  BY <1>4, WithIs
<1>6. Unclaimed(g, p) /\ Keeps(h, g) /\ Only(h, g, p)
  BY <1>5 DEF Unclaimed, Keeps, Only
<1>. HIDE DEF g
<1>7. RowFits(p, g.row)
  BY <1>1, <1>4, <1>5 DEF RowFits, HoldingOrEnding, Holding
<1>8. SignRow(p, g.row, c.s) /\ UpdateRow(p, g.row, c.s)
  BY <1>1, <1>4, <1>5, <1>7 DEF SignRow, UpdateRow, OnTheWay, Identified
<1>9. ASSUME NEW k, Outcome(g, k, p, c.s)
      PROVE  Result(h, k, p) /\ Modest(h, k) /\ (Steady => Carried(k, p, c.s))
  <2>1. Result(h, k, p)
    BY <1>6, <1>9 DEF Outcome, Result, Keeps, Only
  <2>2. Modest(g, k) /\ (Steady => Carried(k, p, c.s))
    BY <1>9, SessionAssumption DEF Outcome
  <2>. QED
    BY <1>4, <1>5, <2>1, <2>2 DEF Modest
<1>10. Outcome(g, RequestSign(g, c), p, c.s) /\ Outcome(g, RequestUpdate(g, c), p, c.s)
  BY <1>5, <1>6, <1>8, RequestSignFit, RequestUpdateFit
<1>. QED
  BY <1>3, <1>9, <1>10

\* The success branch of create_live in start_profile_live.
LEMMA CreatedFit ==
  ASSUME NEW p \in Profiles, p \notin Studio, NEW h \in Handler, Unclaimed(h, p),
         SeekRow(p, h.row), NEW c \in Call, c.p = p, Identified(p, c.s)
  PROVE  Outcome(h, Created(h, c), p, c.s)
<1>. DEFINE base == Reserve(h.row, c.s)
            row == [base EXCEPT !.preparing = TRUE]
            g == With(h, row)
            k == With(h, base)
<1>1. /\ h.row \in Row /\ c.s \in Sessions \cup {NoSession} /\ RowFits(p, h.row)
      /\ h.row.preparing /\ ~h.row.live /\ (Steady => h.row.sid = NoSession)
  BY DEF Handler, Call, SeekRow
<1>2. /\ base \in Row /\ base.live /\ ~base.preparing /\ ~base.ending /\ ~base.recovering
      /\ ~base.uncertain /\ base.sid = c.s /\ base.output = h.row.output
  BY <1>1, ReserveIs
<1>3. Created(h, c) \in {RequestSign(g, c), k, RequestUpdate(h, c)}
  BY DEF Created
<1>. HIDE DEF base
<1>4. /\ row \in Row /\ row.live /\ ~row.ending /\ ~row.recovering
      /\ ~row.uncertain /\ row.sid = c.s /\ row.output = h.row.output
  BY <1>2, PreparingIs
<1>. HIDE DEF row
<1>5. Along(h, g) /\ g.row = row
  BY <1>1, <1>4, WithAlong DEF Holding
<1>6. Along(h, k) /\ k.row = base
  BY <1>1, <1>2, WithAlong DEF Holding
<1>7. Unclaimed(g, p) /\ g \in Handler
  BY <1>5, GoesOn
<1>. HIDE DEF g, k
<1>8. SignRow(p, g.row, c.s)
  BY <1>1, <1>4, <1>5 DEF SignRow, RowFits, OnTheWay, Identified, HoldingOrEnding, Holding
<1>9. Outcome(h, RequestSign(g, c), p, c.s)
  BY <1>5, <1>7, <1>8, GoesOn, RequestSignFit
<1>10. Rested(k, p, c.s)
  BY <1>1, <1>2, <1>6 DEF Rested, RowFits, Covered, Identified, HoldingOrEnding, Holding
<1>11. Outcome(h, k, p, c.s)
  BY <1>6, <1>10, RestsOutcome
<1>12. UpdateRow(p, h.row, c.s)
  BY <1>1 DEF UpdateRow
<1>13. Outcome(h, RequestUpdate(h, c), p, c.s)
  BY <1>12, RequestUpdateFit
<1>. QED
  BY <1>3, <1>9, <1>11, <1>13

\* start_profile_live: a profile takes its output and its account only while no
\* other profile holds them.
LEMMA StartFit ==
  ASSUME NEW p \in Profiles, NEW h \in Handler, Unclaimed(h, p), RowFits(p, h.row),
         ~Holding(h.row), ~h.row.ending, NEW start \in BOOLEAN
  PROVE  LET g == Start(h, p, start)
         IN /\ Result(h, g, p) /\ g.row.output \in {h.row.output, NoOutput}
            /\ Holding(g.row) => ~OutputInUse(p, profile) /\ ~AccountActive(p, profile)
            /\ Steady => h.row.sid = NoSession
            /\ p \in Studio => /\ g.row.sid = h.row.sid
                               /\ \A d \in g.calls : d.p = p => d.op # "create"
<1>. DEFINE row == [h.row EXCEPT !.preparing = TRUE, !.ending = FALSE, !.uncertain = FALSE]
            g == With(h, row)
            c == [op |-> IF p \in Studio THEN "find" ELSE "create",
                  p |-> p, o |-> h.row.output, s |-> NoSession, start |-> start]
            u == Unmark(h, h.row.output)
            k == Begin(h, p, start)
<1>1. h.row \in Row /\ ~h.row.live /\ ~h.row.preparing /\ ~h.row.uncertain
  BY DEF Handler, Holding
<1>2. Steady => h.row.sid = NoSession
  BY DEF RowFits, HoldingOrEnding
<1>3. /\ row \in Row /\ row.live = h.row.live /\ row.preparing /\ ~row.ending /\ ~row.uncertain
      /\ row.recovering = h.row.recovering /\ row.sid = h.row.sid /\ row.output = h.row.output
  BY <1>1 DEF Row
<1>4. /\ c \in Call /\ c.p = p /\ c.s = NoSession /\ c.op \in {"find", "create"}
      /\ c.op = "find" <=> p \in Studio
  BY <1>1 DEF Call, Ops, Row
<1>5. k = IF p \in Local THEN Created(g, c) ELSE Issue(g, c)
  BY DEF Begin
<1>. HIDE DEF row, c
<1>6. g \in Handler /\ g.row = row /\ g.calls = h.calls
  BY <1>3, WithIs
<1>7. Unclaimed(g, p) /\ Keeps(h, g) /\ Only(h, g, p)
  BY <1>6 DEF Unclaimed, Keeps, Only
<1>. HIDE DEF g
<1>8. SeekRow(p, g.row)
  BY <1>1, <1>2, <1>3, <1>6 DEF SeekRow, RowFits, HoldingOrEnding, Holding
<1>9. Outcome(g, k, p, NoSession)
  <2>1. CASE p \in Local
    BY <2>1, <1>4, <1>5, <1>6, <1>7, <1>8, CreatedFit, StudioRemote DEF Identified
  <2>2. CASE p \notin Local
    <3>1. CallFits(p, g.row, c)
      BY <2>2, <1>4, <1>8 DEF CallFits, Enders, EndOps, Closers
    <3>2. Asked(g, c, p, NoSession)
      BY <1>4, <1>8, <3>1 DEF Asked, SeekRow, Seekers
    <3>3. Along(g, g)
      BY <1>6 DEF Along, Keeps, Modest
    <3>. QED
      BY <2>2, <1>4, <1>5, <1>6, <1>7, <3>2, <3>3, AsksOutcome
  <2>. QED
    BY <2>1, <2>2
<1>10. Result(h, k, p) /\ k.row.output \in {h.row.output, NoOutput}
  BY <1>3, <1>6, <1>7, <1>9 DEF Outcome, Modest, Result, Keeps, Only
<1>s. ASSUME p \in Studio
      PROVE  k.row.sid = h.row.sid /\ \A d \in k.calls : d.p = p => d.op # "create"
  <2>1. Issue(g, c).row = g.row /\ Issue(g, c).calls = g.calls \cup {c}
    BY <1>4, <1>6, IssueIs
  <2>2. k = Issue(g, c)
    BY <1>5, <1>s, StudioRemote
  <2>. QED
    BY <1>3, <1>4, <1>6, <1>7, <1>s, <2>1, <2>2 DEF Unclaimed
<1>11. Rested(h, p, NoSession)
  BY <1>1 DEF Rested, Covered
<1>12. Along(h, h) /\ Along(h, u) /\ u.row = h.row /\ u.calls = h.calls
  BY UnmarkAlong DEF Along, Keeps, Modest
<1>. HIDE DEF u
<1>13. Outcome(h, h, p, NoSession) /\ Outcome(h, u, p, NoSession)
  BY <1>11, <1>12, RestsOutcome DEF Rested
<1>14. Start(h, p, start) = IF h.row.recovering \/ OutputInUse(p, profile) \/ AccountActive(p, profile)
                            THEN IF start THEN u ELSE h
                            ELSE k
  BY DEF Start, u
<1>. HIDE DEF k
<1>15. CASE h.row.recovering \/ OutputInUse(p, profile) \/ AccountActive(p, profile)
  BY <1>2, <1>12, <1>13, <1>14, <1>15 DEF Outcome, Unclaimed
<1>16. CASE ~(h.row.recovering \/ OutputInUse(p, profile) \/ AccountActive(p, profile))
  BY <1>2, <1>10, <1>s, <1>14, <1>16
<1>. QED
  BY <1>15, <1>16

\* end_unstarted_aitum_session
LEMMA EndUnstartedFit ==
  ASSUME NEW p \in Profiles, NEW h \in Handler, Unclaimed(h, p),
         NEW c \in Call, c.p = p, StartRow(p, h.row)
  PROVE  Outcome(h, EndUnstarted(h, c), p, NoSession)
<1>. DEFINE row == [h.row EXCEPT !.ending = TRUE]
            g == With(h, row)
            d == [c EXCEPT !.op = "endUnstarted", !.s = h.row.sid]
<1>1. /\ h.row \in Row /\ RowFits(p, h.row) /\ OnTheWay(p, h.row)
      /\ p \in Local \/ h.row.sid # NoSession
  BY DEF Handler, StartRow
<1>2. /\ row \in Row /\ row.live = h.row.live /\ row.preparing = h.row.preparing /\ row.ending
      /\ row.recovering = h.row.recovering /\ row.uncertain = h.row.uncertain
      /\ row.sid = h.row.sid /\ row.output = h.row.output
  BY <1>1, EndingIs
<1>3. EndUnstarted(h, c) = RequestEnd(g, d)
  BY <1>1 DEF EndUnstarted, OnTheWay
<1>4. d \in Call /\ d.op = "endUnstarted" /\ d.p = p /\ d.s = h.row.sid
  BY <1>1 DEF Call, Ops, EndOps, Row
<1>. HIDE DEF row, d
<1>5. Along(h, g) /\ g.row = row
  BY <1>2, WithAlong DEF Holding
<1>6. Unclaimed(g, p) /\ g \in Handler
  BY <1>5, GoesOn
<1>. HIDE DEF g
<1>7. RowFits(p, g.row) /\ Covered(p, g.row)
  BY <1>1, <1>2, <1>5 DEF RowFits, Covered, HoldingOrEnding, Holding, OnTheWay
<1>8. EndRow(p, g.row, d.s)
  BY <1>1, <1>2, <1>4, <1>5, <1>7 DEF EndRow
<1>9. Outcome(g, RequestEnd(g, d), p, d.s)
  <2>1. Holding(g.row)
    BY <1>1, <1>2, <1>5 DEF Holding, OnTheWay
  <2>. QED
    BY <1>4, <1>6, <1>7, <1>8, <2>1, RequestEndFit DEF EndOps
<1>10. Outcome(g, RequestEnd(g, d), p, NoSession)
  BY <1>9 DEF Outcome
<1>. QED
  BY <1>3, <1>5, <1>10, GoesOn

\* One attempt of verify_aitum_output_started.
LEMMA VerifyOnceFit ==
  ASSUME NEW p \in Profiles, NEW h \in Handler, Unclaimed(h, p),
         NEW c \in Call, c.p = p, StartRow(p, h.row)
  PROVE  Outcome(h, VerifyOnce(h, c), p, NoSession)
<1>. DEFINE u == Unmark(h, c.o)
            row == [h.row EXCEPT !.live = TRUE, !.preparing = FALSE, !.uncertain = FALSE]
            g == With(u, row)
            d == [c EXCEPT !.op = "verify"]
<1>1. /\ h.row \in Row /\ RowFits(p, h.row) /\ OnTheWay(p, h.row)
      /\ p \in Local \/ h.row.sid # NoSession
  BY DEF Handler, StartRow
<1>2. /\ row \in Row /\ row.live /\ ~row.preparing /\ ~row.uncertain /\ row.ending = h.row.ending
      /\ row.recovering = h.row.recovering /\ row.sid = h.row.sid /\ row.output = h.row.output
  BY <1>1 DEF Row
<1>3. VerifyOnce(h, c) \in {u, Refresh(g, p), Issue(h, d)}
  BY DEF VerifyOnce
<1>4. Along(h, h) /\ Along(h, u) /\ u.row = h.row /\ u \in Handler
  BY UnmarkAlong DEF Along, Keeps, Modest
<1>5. d \in Call /\ d.op = "verify" /\ d.p = p
  BY RelabelIs DEF Ops
<1>. HIDE DEF u, row, d
<1>6. Along(u, g) /\ g.row = row
  BY <1>1, <1>2, <1>4, WithAlong DEF Holding, OnTheWay
<1>. HIDE DEF g
<1>7. Along(h, g)
  BY <1>4, <1>6, AlongAll
<1>8. Rested(h, p, NoSession) /\ Rested(u, p, NoSession) /\ Rested(g, p, NoSession)
  BY <1>1, <1>2, <1>4, <1>6 DEF Rested, RowFits, Covered, HoldingOrEnding, Holding
<1>9. CallFits(p, h.row, d)
  BY <1>5 DEF CallFits, Enders, EndOps, Closers
<1>10. Asked(h, d, p, NoSession)
  BY <1>5, <1>8, <1>9 DEF Asked, Rested
<1>11. Outcome(h, u, p, NoSession)
  BY <1>4, <1>8, RestsOutcome
<1>12. Outcome(h, Refresh(g, p), p, NoSession)
  BY <1>7, <1>8, RefreshOutcome
<1>13. Outcome(h, Issue(h, d), p, NoSession)
  BY <1>4, <1>5, <1>10, AsksOutcome
<1>. QED
  BY <1>3, <1>11, <1>12, <1>13

\* end_profile_live of a profile that has something to end.
LEMMA EndFit ==
  ASSUME NEW p \in Profiles, NEW h \in Handler, Unclaimed(h, p), RowFits(p, h.row),
         Covered(p, h.row), Holding(h.row), NEW stopped \in BOOLEAN
  PROVE  Outcome(h, End(h, p, stopped), p, NoSession)
<1>. DEFINE o == h.row.output
            row == [h.row EXCEPT !.ending = TRUE]
            ask == [op |-> "endUser", p |-> p, o |-> o, s |-> h.row.sid, start |-> FALSE]
            g == With(h, row)
            k == [g EXCEPT !.enc[o] = "off"]
<1>1. h.row \in Row /\ o \in Target /\ h.row.sid \in Sessions \cup {NoSession}
  BY DEF Handler, Row
<1>2. /\ row \in Row /\ row.live = h.row.live /\ row.preparing = h.row.preparing /\ row.ending
      /\ row.recovering = h.row.recovering /\ row.uncertain = h.row.uncertain
      /\ row.sid = h.row.sid /\ row.output = h.row.output
  BY <1>1, EndingIs
<1>3. End(h, p, stopped) \in {h, RequestEnd(g, ask)} \cup {RequestEnd(k, ask)}
  BY DEF End
<1>4. ask \in Call /\ ask.op = "endUser" /\ ask.p = p /\ ask.s = h.row.sid
  BY <1>1 DEF Call, Ops, EndOps
<1>. HIDE DEF row, ask
<1>5. Along(h, g) /\ g.row = row /\ g \in Handler
  BY <1>2, WithAlong DEF Holding, Along
<1>. HIDE DEF g
<1>6. k \in Handler /\ k.row = g.row /\ k.calls = g.calls
  BY <1>5 DEF Handler, Encoders
<1>. HIDE DEF k
<1>7. Along(h, k)
  BY <1>5, <1>6 DEF Along, Keeps, Modest
<1>8. RowFits(p, row) /\ Covered(p, row)
  BY <1>2 DEF RowFits, Covered, HoldingOrEnding, Holding
<1>9. ASSUME NEW x \in {g, k} PROVE Outcome(h, RequestEnd(x, ask), p, NoSession)
  <2>1. Along(h, x) /\ x.row = row
    BY <1>5, <1>6, <1>7
  <2>2. Unclaimed(x, p) /\ x \in Handler
    BY <2>1, GoesOn
  <2>3. CASE p \in Local \/ h.row.sid # NoSession
    <3>1. EndRow(p, x.row, ask.s)
      BY <1>2, <1>4, <1>8, <2>1, <2>3 DEF EndRow
    <3>2. Outcome(x, RequestEnd(x, ask), p, ask.s)
      BY <1>4, <1>8, <2>1, <2>2, <3>1, RequestEndFit DEF EndOps
    <3>3. Outcome(x, RequestEnd(x, ask), p, NoSession)
      BY <3>2 DEF Outcome
    <3>. QED
      BY <2>1, <3>3, GoesOn
  <2>4. CASE p \notin Local /\ h.row.sid = NoSession
    <3>1. ~Steady
      BY <2>4 DEF RowFits, Covered, Holding
    <3>2. RequestEnd(x, ask) = FinishEnd(x, ask, FALSE)
      BY <1>4, <2>4 DEF RequestEnd
    <3>3. Result(x, RequestEnd(x, ask), p)
      <4>1. ~Calm /\ ask.op \in Closers /\ RowFits(p, x.row)
        BY <1>4, <1>8, <2>1, <3>1 DEF Calm, Closers, EndOps
      <4>. QED
        BY <1>4, <2>2, <3>1, <3>2, <4>1, DoubtedFit
    <3>4. RequestEnd(x, ask).row.output = h.row.output
      <4>. DEFINE done == [row EXCEPT !.ending = FALSE]
                  after == [done EXCEPT !.uncertain = TRUE]
      <4>1. FinishEnd(x, ask, FALSE) = With(x, after)
        BY <1>4, <2>1 DEF FinishEnd, ask
      <4>2. done \in Row /\ done.output = row.output
        BY <1>2, EndingIs
      <4>. HIDE DEF done
      <4>3. after \in Row /\ after.output = row.output
        BY <4>2 DEF Row
      <4>. HIDE DEF after
      <4>4. With(x, after).row = after
        BY <2>2, <4>3, WithIs
      <4>. QED
        BY <1>2, <3>2, <4>1, <4>3, <4>4
    <3>5. Result(h, RequestEnd(x, ask), p)
      BY <2>1, <3>3, GoesOn
    <3>. QED
      BY <3>1, <3>4, <3>5 DEF Outcome, Modest
  <2>. QED
    BY <2>3, <2>4
<1>10. Along(h, h) /\ Rested(h, p, NoSession)
  BY DEF Along, Keeps, Modest, Rested
<1>11. Outcome(h, h, p, NoSession)
  BY <1>10, RestsOutcome
<1>. QED
  BY <1>3, <1>9, <1>11

-----------------------------------------------------------------------------
\* From handlers to steps, once more.

\* p takes an output and an account in this step.
Takes(p) == Holding(profile'[p]) /\ ~Holding(profile[p])

\* A row that a LIVE Studio start takes before it knows its session.
Bound(p, row) == Steady /\ p \in Studio /\ row.sid = NoSession

\* What a step makes of a session of p, when it leaves the row and the calls:
\* it gives up only what is closed, takes what is its account's, and opens no
\* room but after a search that found none.
Gentle(p, row, pending) ==
  /\ RoomsInv /\ profile[p].sid # NoSession =>
       row.sid = profile[p].sid \/ rooms'[profile[p].sid] = Nobody \/ Overruled(p)
  /\ p \in Studio => \/ row.sid \in {profile[p].sid, NoSession}
                     \/ rooms'[row.sid] = p
                     \/ row.sid \in OpenFor(p) /\ rooms' = rooms
  /\ \A d \in pending : d.p = p /\ Looking(d) =>
       \/ d \in calls
       \/ /\ d.op = "create" => OpenFor(p) = {} /\ rooms' = rooms
          /\ Holding(profile[p]) => \E c \in calls : c.p = p /\ Looking(c)

\* Rooms are opened one at a time, by the answer of a create.
RoomsOpen ==
  \A s \in Sessions : rooms'[s] \in {rooms[s], Nobody} \/
    \E c \in calls : /\ c.op = "create" /\ c \notin calls' /\ rooms'[s] = c.p
                     /\ s \in OpenFor(c.p) \/ Unused(s)
                     /\ \A t \in Sessions : t # s => rooms'[t] = rooms[t]

\* What every step of a patient user's dock keeps to.
Careful ==
  /\ PatientInv'
  /\ \A p \in Profiles : Takes(p) /\ (Firm \/ Bound(p, profile'[p])) =>
       /\ ~AccountActive(p, profile) /\ ~OutputInUse(p, profile)
       /\ \A q \in Profiles : Takes(q) => q = p
  /\ Calm => \A p \in Profiles :
       Holding(profile'[p]) => profile'[p].output \in {profile[p].output, NoOutput}
  /\ Steady => RoomsOpen /\ \A p \in Profiles : Gentle(p, profile'[p], calls')

\* The rooms after a handler of p that leaves the record g.
RoomsFit(p, g) ==
  \A s \in Sessions : rooms'[s] # Nobody =>
    /\ rooms'[s] \notin Local
    /\ Calm => IF rooms'[s] = p THEN Carried(g, p, s) ELSE rooms'[s] = rooms[s]

\* A LIVE Studio profile that holds no session is looking for one; a profile
\* that knows its session, or holds nothing, is not.
LEMMA Looks ==
  ASSUME Steady, NEW p \in Studio, NEW h, Fit(h, p), Holding(h.row), h.row.sid = NoSession
  PROVE  \E c \in h.calls : c.p = p /\ Looking(c)
<1>1. p \in Profiles /\ p \notin Local
  BY StudioRemote DEF Studio
<1>2. h.row.preparing
  BY <1>1 DEF Fit, RowFits, Holding
<1>3. PICK c \in h.calls : c.p = p /\ c.op \in Seekers
  BY <1>1, <1>2 DEF Fit, Covered
<1>4. c.op # "update"
  BY <1>1, <1>3 DEF Fit, CallFits, UpdateRow, Identified
<1>. QED
  BY <1>3, <1>4 DEF Looking, Seekers

LEMMA LooksNot ==
  ASSUME Steady, NEW p, NEW h, Fit(h, p),
         \/ ~Holding(h.row) \/ h.row.sid # NoSession
         \/ \E s : s # NoSession /\ Carried(h, p, s)
  PROVE  \A c \in h.calls : c.p = p => c.op \notin {"find", "create"}
<1>. SUFFICES ASSUME NEW c \in h.calls, c.p = p, c.op \in {"find", "create"} PROVE FALSE
  OBVIOUS
<1>1. SeekRow(p, h.row)
  BY DEF Fit, CallFits
<1>2. Holding(h.row) /\ h.row.sid = NoSession
  BY <1>1 DEF SeekRow, Holding
<1>3. PICK s : s # NoSession /\ Carried(h, p, s)
  BY <1>2
<1>4. PICK d \in h.calls : d.p = p /\ d.s = s /\ d.op \in Carriers
  BY <1>2, <1>3 DEF Carried
<1>5. d = c
  BY <1>4 DEF Fit
<1>. QED
  BY <1>4, <1>5 DEF Carriers

\* What a LIVE Studio profile carries is on its row.
LEMMA StudioCarries ==
  ASSUME NEW p \in Studio, NEW h, Fit(h, p), NEW s, Carried(h, p, s)
  PROVE  h.row.sid = s
<1>1. ASSUME NEW c \in h.calls, c.p = p, c.s = s, c.op \in Carriers PROVE h.row.sid = s
  BY <1>1 DEF Fit, CallFits, UpdateRow, Carriers
<1>. QED
  BY <1>1 DEF Carried

\* A profile that may be acted on has no call, and what comes with one.
LEMMA AtRestFit ==
  ASSUME MaxPending = 0, IInv, PatientInv, NEW p \in Profiles, MayAct(p)
  PROVE  /\ Now(p) \in Handler /\ Now(p).row = profile[p] /\ Now(p).calls = calls
         /\ Unclaimed(Now(p), p) /\ Others(p, Now(p))
         /\ RowFits(p, profile[p]) /\ Covered(p, profile[p])
         /\ ~profile[p].ending /\ ~profile[p].recovering
         /\ Bound(p, profile[p]) => ~Holding(profile[p])
<1>1. /\ Now(p) \in Handler /\ Now(p).row = profile[p] /\ Now(p).calls = calls
      /\ Others(p, Now(p))
  BY NowSound DEF Sound, Typed, Now
<1>2. Fit(Now(p), p)
  BY DEF PatientInv
<1>3. \A d \in calls : d.p # p
  <2>. SUFFICES ASSUME NEW c \in calls, c.p = p PROVE FALSE
    OBVIOUS
  <2>1. {d \in calls : d.p = p} = {c}
    BY <1>1, <1>2 DEF Fit
  <2>2. Cardinality({d \in calls : d.p = p}) = 1
    BY <2>1, FS_Singleton
  <2>. QED
    BY <2>2 DEF MayAct
<1>4. ~profile[p].ending /\ ~profile[p].recovering
  BY <1>3 DEF IInv, EndingHasCall, RecoveringHasCall
<1>5. Bound(p, profile[p]) => ~Holding(profile[p])
  BY <1>1, <1>2, <1>3, Looks DEF Bound
<1>. QED
  BY <1>1, <1>2, <1>3, <1>4, <1>5 DEF Fit, Unclaimed

\* A callback takes the only call of its profile.
LEMMA TakeFit ==
  ASSUME IInv, PatientInv, NEW c \in calls
  PROVE  LET h == Take(Now(c.p), c)
         IN /\ c \in Call /\ c.p \in Profiles /\ h \in Handler /\ h.row = profile[c.p]
            /\ h.calls \subseteq calls /\ Unclaimed(h, c.p) /\ Others(c.p, h)
            /\ RowFits(c.p, h.row) /\ CallFits(c.p, h.row, c)
            /\ Covered(c.p, h.row) \/ c.op \in Seekers
            /\ \A d \in calls : d.p = c.p => d = c
<1>. DEFINE p == c.p
            h == Take(Now(p), c)
<1>1. /\ c \in Call /\ p \in Profiles /\ Typed(h) /\ Others(p, h) /\ h.row = profile[p]
  BY TakeSound
<1>2. h \in Handler
  BY <1>1 DEF Typed
<1>3. Now(p) \in Handler /\ Now(p).row = profile[p] /\ Now(p).calls = calls
  BY <1>1, NowSound DEF Sound, Typed, Now
<1>4. h.calls = calls \ {c}
  BY <1>3 DEF Take, Handler
<1>5. Fit(Now(p), p)
  BY <1>1 DEF PatientInv
<1>. HIDE DEF p, h
<1>6. c.p = p
  BY DEF p
<1>7. \A d \in calls : d.p = p => d = c
  BY <1>3, <1>5, <1>6 DEF Fit
<1>8. RowFits(p, h.row) /\ CallFits(p, h.row, c) /\ (Covered(p, h.row) \/ c.op \in Seekers)
  BY <1>1, <1>3, <1>5, <1>6, <1>7 DEF Fit
<1>9. Unclaimed(h, p)
  BY <1>4, <1>7 DEF Unclaimed
<1>. QED
  BY <1>1, <1>2, <1>4, <1>7, <1>8, <1>9 DEF p, h

\* The other profiles keep their rows and the calls that matter to them.
LEMMA CommitCareful ==
  ASSUME IInv, PatientInv, NEW p \in Profiles, NEW h, Others(p, h), h.calls \subseteq calls,
         NEW g, Result(h, g, p), Commit(p, g), RoomsFit(p, g),
         rooms' \in [Sessions -> Profiles \cup {Nobody}],
         Firm \/ Bound(p, g.row) =>
           (Holding(g.row) => \/ Holding(profile[p])
                              \/ ~AccountActive(p, profile) /\ ~OutputInUse(p, profile)),
         Calm => (Holding(g.row) => g.row.output \in {profile[p].output, NoOutput}),
         Steady => RoomsOpen /\ Gentle(p, g.row, g.calls)
  PROVE  Careful
<1>1. profile'[p] = g.row /\ \A q \in Profiles \ {p} : profile'[q] = profile[q]
  BY DEF IInv, TypeOK, Commit
<1>2. calls' = g.calls
  BY DEF Commit
<1>3. Others(p, g) /\ \A d \in calls' : d.p # p => d \in calls
  BY <1>2, OthersKeep DEF Result, Only
<1>4. ASSUME NEW q \in Profiles, q # p
      PROVE  /\ Fit(Now(q), q)'
             /\ \A s \in Sessions : Carried(Now(q), q, s) => Carried(Now(q), q, s)'
  <2>1. Fit(Now(q), q) /\ Now(q).row = profile[q] /\ Now(q).calls = calls
    BY DEF PatientInv, Now
  <2>2. Now(q)'.row = profile[q] /\ Now(q)'.calls = calls'
    BY <1>1, <1>4 DEF Now
  <2>3. /\ \A d \in calls' : d.p = q => d \in calls
        /\ \A d \in calls : d.p = q /\ d.op # "sign" => d \in calls'
    BY <1>2, <1>3, <1>4 DEF Others
  <2>. HIDE DEF Now
  <2>4. Fit(Now(q), q)'
    BY <2>1, <2>2, <2>3 DEF Fit, Seekers
  <2>5. \A s \in Sessions : Carried(Now(q), q, s) => Carried(Now(q), q, s)'
    BY <2>1, <2>2, <2>3 DEF Carried, Carriers
  <2>. QED
    BY <2>4, <2>5
<1>5. Fit(Now(p), p)' /\ \A s \in Sessions : Carried(g, p, s) => Carried(Now(p), p, s)'
  <2>1. Now(p)'.row = g.row /\ Now(p)'.calls = g.calls
    BY <1>1, <1>2 DEF Now
  <2>2. Fit(g, p)
    BY DEF Result
  <2>. QED
    BY <2>1, <2>2 DEF Fit, Carried
<1>6. PatientInv'
  <2>1. \A q \in Profiles : Fit(Now(q), q)'
    BY <1>4, <1>5
  <2>2. ASSUME NEW s \in Sessions, rooms'[s] # Nobody
        PROVE  rooms'[s] \notin Local /\ (Calm => Carried(Now(rooms[s]), rooms[s], s)')
    <3>1. rooms'[s] \notin Local /\ rooms'[s] \in Profiles
      BY <2>2 DEF RoomsFit
    <3>2. ASSUME Calm, rooms'[s] = p PROVE Carried(Now(rooms[s]), rooms[s], s)'
      <4>1. Carried(g, p, s)
        BY <2>2, <3>2 DEF RoomsFit
      <4>2. Carried(Now(p), p, s)'
        BY <4>1, <1>5
      <4>. QED
        BY <4>2, <3>2
    <3>3. ASSUME Calm, rooms'[s] # p PROVE Carried(Now(rooms[s]), rooms[s], s)'
      <4>1. rooms'[s] = rooms[s]
        BY <2>2, <3>3 DEF RoomsFit
      <4>2. Carried(Now(rooms[s]), rooms[s], s) /\ rooms[s] \in Profiles
        BY <2>2, <3>1, <3>3, <4>1 DEF PatientInv
      <4>3. PICK q \in Profiles : q = rooms[s]
        BY <4>2
      <4>4. Carried(Now(q), q, s)'
        BY <3>3, <4>1, <4>2, <4>3, <1>4
      <4>. QED
        BY <4>1, <4>3, <4>4
    <3>. QED
      BY <3>1, <3>2, <3>3
  <2>. QED
    BY <2>1, <2>2 DEF PatientInv
<1>7. \A q \in Profiles : Takes(q) => q = p
  BY <1>1 DEF Takes
<1>8. Takes(p) => Holding(g.row) /\ ~Holding(profile[p])
  BY <1>1 DEF Takes
<1>9. ASSUME Steady, NEW q \in Profiles PROVE Gentle(q, profile'[q], calls')
  <2>1. CASE q = p
    BY <1>1, <1>2, <1>9, <2>1
  <2>2. CASE q # p
    BY <1>1, <1>3, <2>2 DEF Gentle
  <2>. QED
    BY <2>1, <2>2
<1>10. ASSUME Takes(p), Firm \/ Bound(p, profile'[p])
       PROVE  ~AccountActive(p, profile) /\ ~OutputInUse(p, profile)
  BY <1>1, <1>8, <1>10
<1>11. ASSUME Calm, NEW q \in Profiles, Holding(profile'[q])
       PROVE  profile'[q].output \in {profile[q].output, NoOutput}
  BY <1>1, <1>11
<1>. QED
  BY <1>6, <1>7, <1>9, <1>10, <1>11 DEF Careful

\* A handler that goes on with the session its call carries, and leaves the
\* platforms alone.
LEMMA OutcomeCareful ==
  ASSUME IInv, PatientInv, NEW p \in Profiles, NEW h, Others(p, h), h.calls \subseteq calls,
         h.row = profile[p], NEW s, \A d \in calls : d.p = p /\ d.op \in Carriers => d.s = s,
         NEW g, Outcome(h, g, p, s), Commit(p, g), Same,
         Bound(p, profile[p]) =>
           /\ g.row.sid = NoSession \/ g.row.sid \in OpenFor(p)
           /\ \A d \in g.calls : d.p = p /\ d.op = "create" => OpenFor(p) = {}
  PROVE  Careful
<1>1. rooms' = rooms /\ rooms \in [Sessions -> Profiles \cup {Nobody}]
  BY DEF Same, IInv, TypeOK
<1>2. Result(h, g, p) /\ Modest(h, g)
  BY DEF Outcome
<1>0. Fit(Now(p), p) /\ Now(p).row = profile[p] /\ Now(p).calls = calls
  BY DEF PatientInv, Now
<1>3. ASSUME NEW t \in Sessions, rooms[t] = p, Calm PROVE Carried(g, p, t)
  <2>1. t # NoSession
    BY SessionAssumption
  <2>2. Carried(Now(p), p, t)
    BY <1>3, HostAssumption DEF PatientInv
  <2>3. CASE profile[p].sid = t
    BY <1>3, <2>1, <2>3 DEF Outcome, Carried, Calm
  <2>4. CASE \E d \in calls : d.p = p /\ d.s = t /\ d.op \in Carriers
    BY <1>3, <2>1, <2>4 DEF Outcome, Calm
  <2>. QED
    BY <1>0, <2>2, <2>3, <2>4 DEF Carried
<1>4. RoomsFit(p, g)
  BY <1>1, <1>3 DEF RoomsFit, PatientInv
<1>5. Holding(g.row) => Holding(profile[p])
  BY <1>2 DEF Modest
<1>6. g.row.output \in {profile[p].output, NoOutput}
  BY <1>2 DEF Modest
<1>7. ASSUME Steady PROVE Gentle(p, g.row, g.calls)
  <2>1. profile[p].sid # NoSession => g.row.sid = profile[p].sid
    BY <1>7 DEF Outcome
  <2>2. p \in Studio => \/ g.row.sid \in {profile[p].sid, NoSession}
                        \/ g.row.sid \in OpenFor(p) /\ rooms' = rooms
    BY <1>1, <1>7, <2>1 DEF Bound
  <2>3. ASSUME NEW d \in g.calls, d.p = p, Looking(d)
        PROVE  /\ d.op = "create" => OpenFor(p) = {} /\ rooms' = rooms
               /\ Holding(profile[p]) => \E c \in calls : c.p = p /\ Looking(c)
    <3>1. p \in Studio /\ Fit(g, p)
      BY <1>2, <2>3 DEF Looking, Result
    <3>2. g.row.sid = NoSession
      BY <1>7, <2>3, <3>1, LooksNot DEF Looking
    <3>3. profile[p].sid = NoSession
      BY <2>1, <3>2
    <3>4. Holding(profile[p]) => \E c \in calls : c.p = p /\ Looking(c)
      BY <1>0, <1>7, <3>1, <3>3, Looks
    <3>. QED
      BY <1>1, <1>7, <2>3, <3>1, <3>3, <3>4 DEF Bound
  <2>. QED
    BY <2>1, <2>2, <2>3 DEF Gentle
<1>8. RoomsOpen
  BY <1>1 DEF RoomsOpen
<1>. QED
  BY <1>1, <1>2, <1>4, <1>5, <1>6, <1>7, <1>8, CommitCareful

\* A user action that starts nothing.
LEMMA ActCareful ==
  ASSUME MaxPending = 0, IInv, PatientInv, NEW p \in Profiles, MayAct(p),
         NEW g, Outcome(Now(p), g, p, NoSession), Commit(p, g), Same,
         Bound(p, profile[p]) => g.row.sid = NoSession
  PROVE  Careful
<1>1. /\ Now(p) \in Handler /\ Now(p).row = profile[p] /\ Now(p).calls = calls
      /\ Unclaimed(Now(p), p) /\ Others(p, Now(p))
  BY AtRestFit
<1>2. ASSUME Bound(p, profile[p]) PROVE \A d \in g.calls : d.p = p => d.op # "create"
  <2>1. Fit(g, p) /\ Modest(Now(p), g)
    BY DEF Outcome, Result
  <2>2. p \in Studio /\ Steady /\ profile[p].sid = NoSession
    BY <1>2 DEF Bound
  <2>3. ~Holding(profile[p])
    BY <1>1, <2>2, Looks DEF PatientInv, Unclaimed, Looking
  <2>. QED
    BY <1>1, <2>1, <2>2, <2>3, LooksNot DEF Modest
<1>. QED
  BY <1>1, <1>2, OutcomeCareful DEF Unclaimed

\* A start, for a record h that differs from the current one in outputs_preparing_ only.
LEMMA StartCareful ==
  ASSUME MaxPending = 0, IInv, PatientInv, NEW p \in Profiles, MayAct(p), ~Holding(profile[p]),
         NEW h, h \in Handler, h.row = profile[p], h.calls = calls, NEW b \in BOOLEAN,
         Commit(p, Start(h, p, b)), Same
  PROVE  Careful
<1>. DEFINE g == Start(h, p, b)
<1>1. /\ Unclaimed(Now(p), p) /\ Now(p).calls = calls /\ RowFits(p, profile[p])
      /\ ~profile[p].ending
  BY AtRestFit
<1>2. Unclaimed(h, p) /\ Others(p, h)
  BY <1>1 DEF Unclaimed, Others
<1>3. /\ Result(h, g, p) /\ g.row.output \in {h.row.output, NoOutput}
      /\ Holding(g.row) => ~OutputInUse(p, profile) /\ ~AccountActive(p, profile)
      /\ Steady => h.row.sid = NoSession
      /\ p \in Studio => /\ g.row.sid = h.row.sid
                         /\ \A d \in g.calls : d.p = p => d.op # "create"
  BY <1>1, <1>2, StartFit
<1>. HIDE DEF g
<1>4. rooms' = rooms /\ rooms \in [Sessions -> Profiles \cup {Nobody}]
  BY DEF Same, IInv, TypeOK
<1>5. ASSUME NEW t \in Sessions, rooms[t] = p, Calm PROVE FALSE
  <2>1. t # NoSession
    BY SessionAssumption
  <2>2. Carried(Now(p), p, t) /\ Now(p).row = profile[p]
    BY <1>5, HostAssumption DEF PatientInv, Now
  <2>. QED
    BY <1>1, <1>3, <1>5, <2>1, <2>2 DEF Carried, Unclaimed, Calm
<1>6. RoomsFit(p, g)
  BY <1>4, <1>5 DEF RoomsFit, PatientInv
<1>7. Steady => RoomsOpen /\ Gentle(p, g.row, g.calls)
  BY <1>3, <1>4 DEF RoomsOpen, Gentle, Looking
<1>. QED
  BY <1>2, <1>3, <1>4, <1>6, <1>7, CommitCareful DEF g, Calm

\* A step of an output, or one in which TikTok closes a room.
LEMMA OutsideCareful ==
  ASSUME IInv, PatientInv, UNCHANGED <<profile, outputsPreparing, calls, attached>>,
         Same \/ \E s \in Sessions : rooms' = [rooms EXCEPT ![s] = Nobody]
  PROVE  Careful
<1>1. profile' = profile /\ calls' = calls
  OBVIOUS
<1>2. \A p \in Profiles : ~Takes(p)
  BY <1>1 DEF Takes
<1>3. \A s \in Sessions : rooms'[s] \in {rooms[s], Nobody}
  BY DEF Same, IInv, TypeOK
<1>4. \A p \in Profiles : Fit(Now(p), p)'
  BY <1>1 DEF PatientInv, Fit, Now
<1>5. ASSUME NEW s \in Sessions, rooms'[s] # Nobody
      PROVE  rooms'[s] \notin Local /\ (Calm => Carried(Now(rooms[s]), rooms[s], s)')
  <2>1. rooms'[s] = rooms[s] /\ rooms[s] # Nobody
    BY <1>3, <1>5
  <2>2. rooms[s] \notin Local /\ (Calm => Carried(Now(rooms[s]), rooms[s], s))
    BY <2>1 DEF PatientInv
  <2>. QED
    BY <1>1, <2>1, <2>2 DEF Carried, Now
<1>6. PatientInv'
  BY <1>4, <1>5 DEF PatientInv
<1>7. RoomsOpen /\ \A p \in Profiles : Gentle(p, profile'[p], calls')
  BY <1>1, <1>3 DEF RoomsOpen, Gentle
<1>. QED
  BY <1>1, <1>2, <1>6, <1>7 DEF Careful

\* What a patient user does.
LEMMA UserCareful ==
  ASSUME MaxPending = 0, IInv, PatientInv, User
  PROVE  Careful
<1>1. ASSUME NEW p \in Profiles, PressGoLive(p) PROVE Careful
  <2>. DEFINE b == profile[p].output # NoOutput
  <2>1. /\ b \in BOOLEAN /\ Commit(p, Start(Now(p), p, b)) /\ Same /\ MayAct(p)
        /\ ~Holding(profile[p])
    BY <1>1 DEF PressGoLive, Holding
  <2>. HIDE DEF b
  <2>2. Now(p) \in Handler /\ Now(p).row = profile[p] /\ Now(p).calls = calls
    BY <2>1, AtRestFit
  <2>. QED
    BY <2>1, <2>2, StartCareful
<1>2. ASSUME NEW o \in Outputs, PressOutputOn(o) PROVE Careful
  <2>1. CASE UNCHANGED <<profile, calls, outputsPreparing, attached>>
    BY <1>2, <2>1, OutsideCareful DEF PressOutputOn
  <2>2. ASSUME NEW p \in Profiles, MayAct(p), ~Holding(profile[p]),
               Commit(p, Start([Now(p) EXCEPT !.prep = @ \cup {o}], p, TRUE))
        PROVE  Careful
    <3>. DEFINE h == [Now(p) EXCEPT !.prep = @ \cup {o}]
    <3>1. Now(p) \in Handler /\ Now(p).row = profile[p] /\ Now(p).calls = calls
      BY <2>2, AtRestFit
    <3>2. h \in Handler /\ h.row = profile[p] /\ h.calls = calls
      BY <3>1 DEF Handler
    <3>3. Same
      BY <1>2 DEF PressOutputOn
    <3>. HIDE DEF h
    <3>. QED
      BY <2>2, <3>2, <3>3, StartCareful DEF h
  <2>. QED
    BY <1>2, <2>1, <2>2 DEF PressOutputOn, Holding
<1>3. ASSUME NEW o \in Outputs, PressOutputOff(o) PROVE Careful
  <2>1. CASE UNCHANGED <<profile, calls, outputsPreparing, attached>>
    BY <1>3, <2>1, OutsideCareful DEF PressOutputOff
  <2>2. ASSUME NEW p \in Profiles, MayAct(p), profile[p].live,
               \/ Commit(p, [Now(p) EXCEPT !.enc[o] = "off"])
               \/ Commit(p, End([Now(p) EXCEPT !.enc[o] = "off"], p, TRUE))
        PROVE  Careful
    <3>. DEFINE h == [Now(p) EXCEPT !.enc[o] = "off"]
    <3>1. /\ Now(p) \in Handler /\ Now(p).row = profile[p] /\ Now(p).calls = calls
          /\ Unclaimed(Now(p), p) /\ RowFits(p, profile[p]) /\ Covered(p, profile[p])
      BY <2>2, AtRestFit
    <3>2. h \in Handler /\ h.row = profile[p] /\ h.calls = calls
      BY <3>1 DEF Handler, Encoders
    <3>. HIDE DEF h
    <3>3. Along(Now(p), h) /\ Holding(h.row)
      BY <2>2, <3>1, <3>2 DEF Along, Keeps, Modest, Holding
    <3>4. Unclaimed(h, p)
      BY <3>1, <3>2 DEF Unclaimed
    <3>5. Outcome(h, End(h, p, TRUE), p, NoSession)
      BY <3>1, <3>2, <3>3, <3>4, EndFit
    <3>6. Rested(h, p, NoSession)
      BY <3>1, <3>2 DEF Rested
    <3>7. Outcome(Now(p), h, p, NoSession) /\ Outcome(Now(p), End(h, p, TRUE), p, NoSession)
      BY <3>1, <3>3, <3>5, <3>6, RestsOutcome, GoesOn
    <3>8. Same /\ (Commit(p, h) \/ Commit(p, End(h, p, TRUE)))
      BY <1>3, <2>2 DEF PressOutputOff, h
    <3>9. ~Bound(p, profile[p])
      BY <2>2, AtRestFit DEF Holding
    <3>. QED
      BY <2>2, <3>7, <3>8, <3>9, ActCareful
  <2>. QED
    BY <1>3, <2>1, <2>2 DEF PressOutputOff
<1>4. ASSUME NEW p \in Profiles, PressEnd(p) PROVE Careful
  <2>1. PICK b \in BOOLEAN : Commit(p, End(Now(p), p, b))
    BY <1>4 DEF PressEnd
  <2>2. MayAct(p) /\ Same /\ Holding(profile[p])
    BY <1>4 DEF PressEnd, Holding
  <2>3. Outcome(Now(p), End(Now(p), p, b), p, NoSession)
    BY <2>2, AtRestFit, EndFit
  <2>4. ~Bound(p, profile[p])
    BY <2>2, AtRestFit
  <2>. QED
    BY <2>1, <2>2, <2>3, <2>4, ActCareful
<1>5. ASSUME NEW p \in Profiles, PressReturn(p) PROVE Careful
  <2>1. MayAct(p) /\ Same /\ p \in Local /\ Commit(p, ClearSession(Now(p), p))
    BY <1>5 DEF PressReturn
  <2>2. /\ Now(p) \in Handler /\ Now(p).row = profile[p] /\ Unclaimed(Now(p), p)
        /\ RowFits(p, profile[p])
    BY <2>1, AtRestFit
  <2>3. Along(Now(p), Now(p)) /\ (Steady => Now(p).row.sid = NoSession)
    BY <2>1, <2>2 DEF Along, Keeps, Modest, RowFits
  <2>4. Outcome(Now(p), ClearSession(Now(p), p), p, NoSession)
    BY <2>2, <2>3, ClearOutcome
  <2>5. ~Bound(p, profile[p])
    BY <2>1, StudioRemote DEF Bound
  <2>. QED
    BY <2>1, <2>4, <2>5, ActCareful
<1>6. ASSUME NEW p \in Profiles, PressResume(p) PROVE Careful
  <2>. DEFINE row == [profile[p] EXCEPT !.preparing = TRUE, !.recovering = TRUE]
              c == [op |-> "resume", p |-> p, o |-> profile[p].output, s |-> NoSession,
                    start |-> FALSE]
              n == Now(p)
              g == With(n, row)
  <2>1. /\ MayAct(p) /\ Same /\ p \in Studio /\ profile[p].uncertain
        /\ profile[p].sid # NoSession /\ Commit(p, Issue(g, c))
    BY <1>6 DEF PressResume
  <2>2. n \in Handler /\ n.row = profile[p] /\ Unclaimed(n, p) /\ RowFits(p, profile[p])
    BY <2>1, AtRestFit
  <2>3. profile[p] \in Row
    BY NowSound
  <2>4. /\ row \in Row /\ row.live = profile[p].live /\ row.preparing /\ row.recovering
        /\ row.uncertain /\ row.sid = profile[p].sid /\ row.output = profile[p].output
    BY <2>1, <2>3 DEF Row
  <2>5. c \in Call /\ c.p = p /\ c.op = "resume"
    BY <2>3 DEF Row, Call, Ops
  <2>6. ~Calm
    BY <2>1, <2>2 DEF RowFits
  <2>. HIDE DEF row, c, n
  <2>7. Along(n, g) /\ g.row = row
    BY <2>1, <2>2, <2>4, WithAlong DEF Holding
  <2>. HIDE DEF g
  <2>8. RowFits(p, g.row) /\ Covered(p, g.row)
    BY <2>1, <2>2, <2>4, <2>6, <2>7 DEF RowFits, Covered, HoldingOrEnding, Holding
  <2>9. CallFits(p, g.row, c)
    BY <2>1, <2>4, <2>5, <2>7 DEF CallFits, Enders, EndOps, Closers
  <2>10. Asked(g, c, p, NoSession)
    BY <2>5, <2>8, <2>9 DEF Asked
  <2>11. Outcome(n, Issue(g, c), p, NoSession)
    BY <2>2, <2>5, <2>7, <2>10, AsksOutcome
  <2>12. ~Bound(p, profile[p])
    BY <2>1 DEF Bound
  <2>. QED
    BY <2>1, <2>11, <2>12, ActCareful DEF n
<1>7. ASSUME NEW p \in Profiles, PressReset(p) PROVE Careful
  <2>. DEFINE c == [op |-> "reset", p |-> p, o |-> NoOutput, s |-> NoSession, start |-> FALSE]
  <2>1. MayAct(p) /\ Same /\ profile[p].uncertain /\ Commit(p, Issue(Now(p), c))
    BY <1>7 DEF PressReset
  <2>2. /\ Now(p) \in Handler /\ Now(p).row = profile[p] /\ Unclaimed(Now(p), p)
        /\ RowFits(p, profile[p]) /\ Covered(p, profile[p])
    BY <2>1, AtRestFit
  <2>3. c \in Call /\ c.p = p /\ c.op = "reset"
    BY DEF Call, Ops, Target
  <2>. HIDE DEF c
  <2>4. CallFits(p, Now(p).row, c)
    BY <2>1, <2>2, <2>3 DEF CallFits, Enders, EndOps, Closers
  <2>5. Asked(Now(p), c, p, NoSession) /\ Along(Now(p), Now(p))
    BY <2>2, <2>3, <2>4 DEF Asked, Along, Keeps, Modest
  <2>6. Outcome(Now(p), Issue(Now(p), c), p, NoSession)
    BY <2>2, <2>3, <2>5, AsksOutcome
  <2>7. ~Bound(p, profile[p])
    BY <2>1, AtRestFit DEF Holding
  <2>. QED
    BY <2>1, <2>6, <2>7, ActCareful
<1>8. ASSUME NEW p \in Profiles, BecomeReady(p) PROVE Careful
  <2>. DEFINE row == [profile[p] EXCEPT !.ready = TRUE]
              n == Now(p)
              g == With(n, row)
  <2>1. MayAct(p) /\ Same /\ Commit(p, g)
    BY <1>8 DEF BecomeReady
  <2>2. n \in Handler /\ n.row = profile[p] /\ Unclaimed(n, p) /\ RowFits(p, profile[p])
        /\ Covered(p, profile[p])
    BY <2>1, AtRestFit
  <2>3. profile[p] \in Row
    BY NowSound
  <2>4. /\ row \in Row /\ row.live = profile[p].live /\ row.preparing = profile[p].preparing
        /\ row.ending = profile[p].ending /\ row.recovering = profile[p].recovering
        /\ row.uncertain = profile[p].uncertain /\ row.sid = profile[p].sid
        /\ row.output = profile[p].output
    BY <2>3 DEF Row
  <2>. HIDE DEF row, n
  <2>5. Along(n, g) /\ g.row = row
    BY <2>2, <2>4, WithAlong DEF Holding
  <2>. HIDE DEF g
  <2>6. Rested(g, p, NoSession)
    BY <2>2, <2>4, <2>5 DEF Rested, RowFits, Covered, HoldingOrEnding, Holding
  <2>7. Outcome(n, g, p, NoSession)
    BY <2>2, <2>5, <2>6, RestsOutcome
  <2>. HIDE DEF g
  <2>8. Bound(p, profile[p]) => g.row.sid = NoSession
    BY <2>4, <2>5 DEF Bound
  <2>. QED
    BY <2>1, <2>7, <2>8, ActCareful DEF n
<1>9. ASSUME NEW p \in Profiles, NEW o \in Target, ChooseOutput(p, o) PROVE Careful
  <2>. DEFINE row == [profile[p] EXCEPT !.output = o]
              n == Now(p)
              g == With(n, row)
  <2>1. /\ MayAct(p) /\ Same /\ Commit(p, g)
        /\ ~profile[p].live /\ ~profile[p].preparing /\ ~profile[p].recovering
    BY <1>9 DEF ChooseOutput
  <2>2. /\ n \in Handler /\ n.row = profile[p] /\ Unclaimed(n, p) /\ RowFits(p, profile[p])
        /\ Covered(p, profile[p]) /\ n.calls = calls /\ Others(p, n) /\ ~profile[p].ending
    BY <2>1, AtRestFit
  <2>3. profile[p] \in Row
    BY NowSound
  <2>4. /\ row \in Row /\ row.live = profile[p].live /\ row.preparing = profile[p].preparing
        /\ row.ending = profile[p].ending /\ row.recovering = profile[p].recovering
        /\ row.uncertain = profile[p].uncertain /\ row.sid = profile[p].sid
    BY <2>3 DEF Row
  <2>. HIDE DEF row, n
  <2>5. g \in Handler /\ g.row = row /\ g.calls = n.calls
    BY <2>2, <2>4, WithIs
  <2>. HIDE DEF g
  <2>6. RowFits(p, g.row) /\ Covered(p, g.row)
    BY <2>2, <2>4, <2>5 DEF RowFits, Covered, HoldingOrEnding, Holding
  <2>7. Result(n, g, p)
    BY <2>2, <2>5, <2>6, UnclaimedBare, Rests DEF Result, Keeps
  <2>8. /\ Holding(g.row) => Holding(profile[p])
        /\ Calm => ~Holding(g.row) /\ g.row.sid = NoSession
        /\ g.row.sid = profile[p].sid
    BY <2>1, <2>2, <2>4, <2>5 DEF Holding, RowFits, HoldingOrEnding, Calm
  <2>9. rooms' = rooms /\ rooms \in [Sessions -> Profiles \cup {Nobody}]
    BY <2>1 DEF Same, IInv, TypeOK
  <2>10. ASSUME NEW t \in Sessions, rooms[t] = p, Calm PROVE FALSE
    <3>1. Carried(n, p, t) /\ t # NoSession
      BY <2>10, HostAssumption, SessionAssumption DEF PatientInv, n
    <3>. QED
      BY <2>2, <2>4, <2>5, <2>8, <2>10, <3>1 DEF Carried, Unclaimed
  <2>11. RoomsFit(p, g)
    BY <2>9, <2>10 DEF RoomsFit, PatientInv
  <2>12. RoomsOpen /\ Gentle(p, g.row, g.calls)
    BY <2>2, <2>5, <2>8, <2>9 DEF RoomsOpen, Gentle, Unclaimed
  <2>. QED
    BY <2>1, <2>2, <2>7, <2>8, <2>9, <2>11, <2>12, CommitCareful
<1>. QED
  BY <1>1, <1>2, <1>3, <1>4, <1>5, <1>6, <1>7, <1>8, <1>9 DEF User

\* With logins of their own, a profile that is still looking finds no room.
LEMMA NoneOpen ==
  ASSUME IInv, PatientInv, Calm, NEW c \in calls, c.op \in {"find", "create"}, c.p \in Studio
  PROVE  OpenFor(c.p) = {}
<1>. SUFFICES ASSUME NEW s \in OpenFor(c.p) PROVE FALSE
  OBVIOUS
<1>1. s \in Sessions /\ rooms[s] # Nobody /\ Account[rooms[s]] = Account[c.p] /\ s # NoSession
  BY SessionAssumption DEF OpenFor
<1>2. rooms[s] \in Profiles \ Local /\ Carried(Now(rooms[s]), rooms[s], s)
  BY <1>1 DEF PatientInv, IInv, TypeOK
<1>3. rooms[s] = c.p
  BY <1>1, <1>2 DEF Calm, OwnLogins
<1>4. /\ profile[c.p].sid = NoSession /\ \A d \in calls : d.p = c.p => d = c
      /\ Take(Now(c.p), c).row = profile[c.p]
  BY TakeFit DEF CallFits, SeekRow, Calm
<1>5. Now(c.p).row = profile[c.p] /\ Now(c.p).calls = calls
  BY DEF Now
<1>. QED
  BY <1>1, <1>2, <1>3, <1>4, <1>5 DEF Carried, Carriers

\* What the answers of pending calls do.
LEMMA CallbackCareful ==
  ASSUME IInv, PatientInv, Callback
  PROVE  Careful
<1>. SUFFICES ASSUME NEW c \in calls,
                     \/ FindAnswered(c) \/ CreateAnswered(c) \/ CreateFailed(c)
                     \/ ResumeAnswered(c) \/ UpdateAnswered(c) \/ SignAnswered(c)
                     \/ StartFires(c) \/ VerifyFires(c) \/ VerifyGivesUp(c)
                     \/ FailedDismissed(c) \/ UnsignedDismissed(c) \/ ResetDismissed(c)
                     \/ EndAnswered(c) \/ RefreshAnswered(c) \/ ReconcileAnswered(c)
              PROVE  Careful
  BY DEF Callback
<1>. DEFINE p == c.p
            h == Take(Now(c.p), c)
<1>0. /\ c \in Call /\ p \in Profiles /\ h \in Handler /\ h.row = profile[p] /\ h.row \in Row
      /\ h.calls \subseteq calls /\ Unclaimed(h, p) /\ Others(p, h)
      /\ RowFits(p, h.row) /\ CallFits(p, h.row, c)
      /\ Covered(p, h.row) \/ c.op \in Seekers
      /\ \A d \in calls : d.p = p => d = c
      /\ c.s \in Sessions \cup {NoSession} /\ c.o \in Target
  BY TakeFit DEF Handler, Call
<1>p. c.p = p
  OBVIOUS
<1>. HIDE DEF h, p
<1>a. ASSUME NEW s, c.op \in Carriers => s = c.s, NEW g, Outcome(h, g, p, s), Commit(p, g), Same,
             Bound(p, profile[p]) =>
               /\ g.row.sid = NoSession \/ g.row.sid \in OpenFor(p)
               /\ \A d \in g.calls : d.p = p /\ d.op = "create" => OpenFor(p) = {}
      PROVE  Careful
  BY <1>a, <1>0, OutcomeCareful
<1>b. Along(h, h) /\ Along(h, Unmark(h, c.o)) /\ Unmark(h, c.o).row = h.row
  BY <1>0, UnmarkAlong DEF Along, Keeps, Modest
<1>r. rooms \in [Sessions -> Profiles \cup {Nobody}]
  BY DEF IInv, TypeOK
<1>k. c.op \notin {"find", "create", "refresh"} => ~Bound(p, profile[p])
  <2>. SUFFICES ASSUME c.op \notin {"find", "create", "refresh"}, Bound(p, profile[p]) PROVE FALSE
    OBVIOUS
  <2>1. Steady /\ p \in Studio /\ p \notin Local /\ h.row.sid = NoSession
    BY <1>0, StudioRemote DEF Bound
  <2>2. c.op \notin {"update", "sign", "start", "verify"}
    BY <1>0, <2>1 DEF CallFits, UpdateRow, SignRow, StartRow, Identified
  <2>3. c.op \notin Enders /\ c.op \notin {"endUpdate", "endRecovery", "reconcile"}
    BY <1>0, <2>1 DEF CallFits, EndRow
  <2>4. c.op \notin {"resume", "reset"}
    BY <1>0, <2>1 DEF CallFits, Covered, Seekers, RowFits
  <2>. QED
    BY <1>0, <2>2, <2>3, <2>4 DEF Call, Ops, Enders, EndOps
<1>t. ASSUME NEW t \in Sessions, rooms[t] = p, Calm
      PROVE  t # NoSession /\ (profile[p].sid = t \/ (c.s = t /\ c.op \in Carriers))
  <2>1. Carried(Now(p), p, t) /\ Now(p).row = profile[p] /\ Now(p).calls = calls
    BY <1>0, <1>t, HostAssumption DEF PatientInv, Now
  <2>. QED
    BY <1>0, <2>1, SessionAssumption DEF Carried
<1>1. CASE FindAnswered(c)
  <2>. DEFINE known(s) == [MarkUncertain(h.row, s) EXCEPT !.live = FALSE]
              off == [h.row EXCEPT !.preparing = FALSE]
              d == [c EXCEPT !.op = "create", !.o = h.row.output]
  <2>1. /\ c.op = "find" /\ Same /\ p \in Studio /\ SeekRow(p, h.row)
        /\ \/ \E s \in OpenFor(p) : Commit(p, Unmark(With(h, known(s)), c.o))
           \/ OpenFor(p) = {} /\ Commit(p, Issue(h, d))
           \/ Commit(p, Unmark(With(h, off), c.o))
    BY <1>1, <1>0 DEF FindAnswered, CallFits, h, p
  <2>2. c.op \notin Carriers
    BY <2>1 DEF Carriers
  <2>3. ASSUME NEW s \in OpenFor(p), Commit(p, Unmark(With(h, known(s)), c.o)) PROVE Careful
    <3>. DEFINE m == MarkUncertain(h.row, s)
                w == With(h, known(s))
    <3>1. ~Calm /\ s \in Sessions /\ s # NoSession /\ (Steady => h.row.sid = NoSession)
      BY <2>1, <2>3, <1>p, NoneOpen, SessionAssumption DEF OpenFor, SeekRow
    <3>2. m \in Row /\ m.uncertain /\ ~m.preparing /\ m.sid = s /\ m.output = h.row.output
      BY <1>0, <3>1, ReserveIs
    <3>. HIDE DEF m
    <3>3. LET r == [m EXCEPT !.live = FALSE]
          IN /\ r \in Row /\ ~r.live /\ r.uncertain /\ ~r.preparing /\ r.sid = s
             /\ r.output = h.row.output
      BY <3>2 DEF Row
    <3>4. /\ known(s) \in Row /\ ~known(s).live /\ known(s).uncertain /\ ~known(s).preparing
          /\ known(s).sid = s /\ known(s).output = h.row.output
      BY <3>3 DEF m
    <3>. HIDE DEF known
    <3>5. Along(h, w) /\ w.row = known(s) /\ w \in Handler
      BY <1>0, <2>1, <3>1, <3>4, WithAlong DEF SeekRow, Holding, Along
    <3>. HIDE DEF w
    <3>6. Along(h, Unmark(w, c.o)) /\ Unmark(w, c.o).row = known(s)
      BY <1>0, <3>5, UnmarkAlong, AlongAll
    <3>7. Rested(Unmark(w, c.o), p, NoSession)
      BY <2>1, <3>1, <3>4, <3>6, StudioRemote
         DEF Rested, RowFits, Covered, HoldingOrEnding, Holding
    <3>8. Outcome(h, Unmark(w, c.o), p, NoSession)
      BY <1>0, <3>6, <3>7, RestsOutcome
    <3>9. Unmark(w, c.o).row.sid = s /\ \A e \in Unmark(w, c.o).calls : e.p # p
      BY <1>0, <3>4, <3>6 DEF Along, Unclaimed
    <3>. QED
      BY <1>a, <2>1, <2>2, <2>3, <3>8, <3>9 DEF w
  <2>4. ASSUME OpenFor(p) = {}, Commit(p, Issue(h, d)) PROVE Careful
    <3>1. d \in Call /\ d.op = "create" /\ d.p = p /\ d.s = c.s
      BY <1>0, <1>p DEF Call, Row, Ops
    <3>. HIDE DEF d
    <3>2. c.s = NoSession /\ p \notin Local
      BY <1>0, <2>1 DEF CallFits
    <3>3. CallFits(p, h.row, d)
      BY <2>1, <3>1, <3>2 DEF CallFits, Enders, EndOps, Closers
    <3>4. Asked(h, d, p, NoSession)
      BY <1>0, <3>1, <3>3 DEF Asked, Seekers
    <3>5. Outcome(h, Issue(h, d), p, NoSession)
      BY <1>0, <1>b, <3>1, <3>4, AsksOutcome
    <3>6. Issue(h, d).row = h.row
      BY <1>0, <3>1, IssueIs
    <3>. QED
      BY <1>0, <1>a, <2>1, <2>2, <2>4, <3>5, <3>6 DEF Bound
  <2>5. ASSUME Commit(p, Unmark(With(h, off), c.o)) PROVE Careful
    <3>. DEFINE w == With(h, off)
    <3>1. /\ off \in Row /\ off.live = h.row.live /\ ~off.preparing /\ off.ending = h.row.ending
          /\ off.recovering = h.row.recovering /\ off.uncertain = h.row.uncertain
          /\ off.sid = h.row.sid /\ off.output = h.row.output
      BY <1>0, PreparingIs
    <3>. HIDE DEF off
    <3>2. Along(h, w) /\ w.row = off /\ w \in Handler
      BY <1>0, <3>1, WithAlong DEF Holding, Along
    <3>. HIDE DEF w
    <3>3. Along(h, Unmark(w, c.o)) /\ Unmark(w, c.o).row = off
      BY <1>0, <3>2, UnmarkAlong, AlongAll
    <3>4. Rested(Unmark(w, c.o), p, NoSession)
      BY <1>0, <2>1, <3>1, <3>3 DEF Rested, RowFits, Covered, SeekRow
    <3>5. Outcome(h, Unmark(w, c.o), p, NoSession)
      BY <1>0, <3>3, <3>4, RestsOutcome
    <3>6. /\ Unmark(w, c.o).row.sid = profile[p].sid
          /\ \A e \in Unmark(w, c.o).calls : e.p # p
      BY <1>0, <3>1, <3>3 DEF Along, Unclaimed
    <3>. QED
      BY <1>a, <2>1, <2>2, <2>5, <3>5, <3>6 DEF w, Bound
  <2>. QED
    BY <2>1, <2>3, <2>4, <2>5
<1>2. CASE CreateAnswered(c)
  <2>1. c.op = "create" /\ p \notin Local /\ c.s = NoSession /\ SeekRow(p, h.row)
    BY <1>2, <1>0 DEF CreateAnswered, CallFits
  <2>2. PICK s \in Sessions, row \in {h.row, Unassign(h.row)} :
          /\ rooms' = [rooms EXCEPT ![s] = p]
          /\ s \in OpenFor(p) \/ Unused(s)
          /\ LET d == [c EXCEPT !.s = s] IN
             \/ p \in Studio /\ Commit(p, Activate(h, d))
             \/ p \notin Studio /\ Commit(p, Created(h, d))
             \/ /\ p \in Studio
                /\ Commit(p, Fail(With(h, [Reserve(row, s) EXCEPT !.live = FALSE]), d))
    BY <1>2 DEF CreateAnswered, OpenFor, h, p
  <2>. DEFINE d == [c EXCEPT !.s = s]
              base == Reserve(row, s)
              r == [base EXCEPT !.live = FALSE]
              w == With(h, r)
  <2>3. d \in Call /\ d.p = p /\ d.s = s /\ s # NoSession
    BY <1>0, <1>p, SessionAssumption DEF Call
  <2>4. /\ h.row.preparing /\ (Steady => h.row.sid = NoSession) /\ Holding(h.row)
    BY <2>1 DEF SeekRow, Holding
  <2>5. row \in Row /\ row.output \in {h.row.output, NoOutput}
    BY <1>0, UnassignIs
  <2>6. /\ base \in Row /\ ~base.preparing /\ ~base.ending /\ ~base.recovering
        /\ ~base.uncertain /\ base.sid = s /\ base.output = row.output
    BY <2>5, ReserveIs
  <2>. HIDE DEF base
  <2>7. /\ r \in Row /\ ~r.live /\ ~r.preparing /\ ~r.recovering /\ ~r.uncertain
        /\ r.sid = s /\ r.output = row.output
    BY <2>6 DEF Row
  <2>8. \/ p \in Studio /\ Commit(p, Activate(h, d))
        \/ p \notin Studio /\ Commit(p, Created(h, d))
        \/ p \in Studio /\ Commit(p, Fail(w, d))
    BY <2>2 DEF base
  <2>. HIDE DEF r, d
  <2>9. Along(h, w) /\ w.row = r
    BY <1>0, <2>4, <2>5, <2>7, WithAlong
  <2>10. Unclaimed(w, p) /\ w \in Handler
    BY <1>0, <2>9, GoesOn
  <2>. HIDE DEF w
  <2>11. ASSUME NEW g, Result(h, g, p), Modest(h, g), Steady => Carried(g, p, s), Commit(p, g)
         PROVE  Careful
    <3>1. ASSUME NEW t \in Sessions, rooms'[t] = p, Calm PROVE Carried(g, p, t)
      <4>1. CASE t = s
        BY <3>1, <4>1, <2>11 DEF Calm
      <4>2. CASE t # s
        <5>1. rooms[t] = p
          BY <1>r, <2>2, <3>1, <4>2
        <5>. QED
          BY <1>0, <1>t, <2>1, <2>4, <3>1, <5>1 DEF Calm
      <4>. QED
        BY <4>1, <4>2
    <3>2. ASSUME NEW t \in Sessions, rooms'[t] # Nobody, rooms'[t] # p
          PROVE  rooms'[t] = rooms[t] /\ rooms[t] \notin Local
      BY <1>r, <2>2, <3>2 DEF PatientInv
    <3>3. RoomsFit(p, g)
      BY <2>1, <3>1, <3>2 DEF RoomsFit
    <3>4. rooms' \in [Sessions -> Profiles \cup {Nobody}]
      BY <1>0, <1>r, <2>2
    <3>5. Holding(profile[p]) /\ (Steady => profile[p].sid = NoSession)
      BY <1>0, <2>4
    <3>6. ASSUME Steady
          PROVE  /\ \A e \in g.calls : e.p = p => e.op \notin {"find", "create"}
                 /\ p \in Studio => g.row.sid = s
      BY <2>3, <2>11, <3>6, LooksNot, StudioCarries DEF Result
    <3>7. rooms'[s] = p /\ \A t \in Sessions : t # s => rooms'[t] = rooms[t]
      BY <1>r, <2>2
    <3>8. ASSUME Steady PROVE RoomsOpen
      <4>1. c \in calls /\ c.op = "create" /\ c \notin calls' /\ c.p = p
        BY <1>p, <2>1, <2>11, <3>6, <3>8 DEF Commit
      <4>. QED
        BY <2>2, <3>7, <4>1 DEF RoomsOpen
    <3>9. ASSUME Steady PROVE Gentle(p, g.row, g.calls)
      BY <3>5, <3>6, <3>7, <3>9 DEF Gentle, Looking
    <3>. QED
      BY <1>0, <2>11, <3>3, <3>4, <3>5, <3>8, <3>9, CommitCareful DEF Modest
  <2>12. CASE p \in Studio /\ Commit(p, Activate(h, d))
    BY <1>0, <2>3, <2>4, <2>11, <2>12, ActivateFit
  <2>a. ASSUME NEW g, Outcome(h, g, p, s)
        PROVE  Result(h, g, p) /\ Modest(h, g) /\ (Steady => Carried(g, p, s))
    BY <2>3, <2>a DEF Outcome
  <2>13. CASE p \notin Studio /\ Commit(p, Created(h, d))
    <3>1. Identified(p, s)
      BY <2>1, <2>3 DEF Identified
    <3>2. Outcome(h, Created(h, d), p, s)
      BY <1>0, <2>1, <2>3, <2>13, <3>1, CreatedFit
    <3>. QED
      BY <2>a, <2>11, <2>13, <3>2
  <2>14. CASE p \in Studio /\ Commit(p, Fail(w, d))
    <3>1. Outcome(w, Fail(w, d), p, s)
      BY <1>0, <2>3, <2>7, <2>9, <2>10, <2>14, FailFit
    <3>2. Outcome(h, Fail(w, d), p, s)
      BY <1>0, <2>9, <3>1, GoesOn
    <3>. QED
      BY <2>a, <2>11, <2>14, <3>2
  <2>. QED
    BY <2>8, <2>12, <2>13, <2>14
<1>n. ASSUME NEW g, NEW s, Outcome(h, g, p, s) PROVE Outcome(h, g, p, NoSession)
  BY <1>n DEF Outcome
<1>3. CASE CreateFailed(c)
  <2>1. c.op = "create" /\ p \notin Local /\ SeekRow(p, h.row)
    BY <1>3, <1>0 DEF CreateFailed, CallFits
  <2>2. PICK row \in {h.row, Unassign(h.row)} :
          LET g == With(h, [row EXCEPT !.preparing = FALSE])
          IN Commit(p, Unmark(g, c.o)) \/ Commit(p, g)
    BY <1>3 DEF CreateFailed, h, p
  <2>3. \/ rooms' = rooms
        \/ ~Calm /\ \E s \in Sessions : Unused(s) /\ rooms' = [rooms EXCEPT ![s] = p]
    BY <1>3 DEF CreateFailed, Calm, Firm, p
  <2>. DEFINE r == [row EXCEPT !.preparing = FALSE]
              g == With(h, r)
              u == Unmark(g, c.o)
  <2>4. /\ row \in Row /\ row.live = h.row.live /\ row.ending = h.row.ending
        /\ row.recovering = h.row.recovering /\ row.uncertain = h.row.uncertain
        /\ row.sid = h.row.sid /\ row.output \in {h.row.output, NoOutput}
    BY <1>0, UnassignIs
  <2>5. /\ r \in Row /\ r.live = h.row.live /\ ~r.preparing /\ r.ending = h.row.ending
        /\ r.recovering = h.row.recovering /\ r.uncertain = h.row.uncertain
        /\ r.sid = h.row.sid /\ r.output \in {h.row.output, NoOutput}
    BY <2>4, PreparingIs
  <2>. HIDE DEF r
  <2>6. Along(h, g) /\ g.row = r /\ g \in Handler
    BY <1>0, <2>5, WithAlong DEF Holding, Along
  <2>7. Commit(p, u) \/ Commit(p, g)
    BY <2>2 DEF r
  <2>. HIDE DEF g
  <2>8. Along(h, u) /\ u.row = r
    BY <1>0, <2>6, UnmarkAlong, AlongAll
  <2>. HIDE DEF u
  <2>9. Rested(g, p, NoSession) /\ Rested(u, p, NoSession)
    BY <2>1, <2>5, <2>6, <2>8 DEF Rested, RowFits, Covered, SeekRow
  <2>10. Outcome(h, g, p, NoSession) /\ Outcome(h, u, p, NoSession)
    BY <1>0, <2>6, <2>8, <2>9, RestsOutcome
  <2>11. ASSUME NEW x, Outcome(h, x, p, NoSession), x.row = r, x.calls \subseteq h.calls,
                Commit(p, x)
         PROVE  Careful
    <3>1. Steady => profile[p].sid = NoSession
      BY <1>0, <2>1 DEF SeekRow
    <3>2. ASSUME NEW t \in Sessions, rooms'[t] = p, Calm PROVE FALSE
      BY <1>t, <2>1, <2>3, <3>1, <3>2 DEF Carriers, Calm
    <3>3. \A t \in Sessions : rooms'[t] # Nobody => rooms'[t] \notin Local
      BY <1>r, <2>1, <2>3 DEF PatientInv
    <3>4. RoomsFit(p, x)
      BY <2>3, <3>2, <3>3 DEF RoomsFit
    <3>5. rooms' \in [Sessions -> Profiles \cup {Nobody}]
      BY <1>0, <1>r, <2>3
    <3>6. Result(h, x, p) /\ Modest(h, x) /\ Holding(profile[p])
      BY <1>0, <2>1, <2>11 DEF Outcome, SeekRow, Holding
    <3>7. \A d \in x.calls : d.p # p
      BY <1>0, <2>11 DEF Unclaimed
    <3>8. RoomsOpen
      <4>1. c \in calls /\ c.op = "create" /\ c \notin calls' /\ c.p = p
        BY <1>p, <2>1, <2>11, <3>7 DEF Commit
      <4>2. CASE rooms' = rooms
        BY <4>2 DEF RoomsOpen
      <4>3. ASSUME NEW s \in Sessions, Unused(s), rooms' = [rooms EXCEPT ![s] = p] PROVE RoomsOpen
        <5>1. rooms'[s] = p /\ \A t \in Sessions : t # s => rooms'[t] = rooms[t]
          BY <1>r, <4>3
        <5>. QED
          BY <4>1, <4>3, <5>1 DEF RoomsOpen
      <4>. QED
        BY <2>3, <4>2, <4>3
    <3>9. Gentle(p, x.row, x.calls)
      BY <1>0, <2>5, <2>11, <3>7 DEF Gentle
    <3>. QED
      BY <1>0, <2>11, <3>4, <3>5, <3>6, <3>8, <3>9, CommitCareful DEF Modest
  <2>12. g.calls \subseteq h.calls /\ u.calls \subseteq h.calls
    BY <2>6, <2>8 DEF Along
  <2>. QED
    BY <2>6, <2>7, <2>8, <2>10, <2>11, <2>12
<1>4. CASE ResumeAnswered(c)
  <2>. DEFINE row == [h.row EXCEPT !.recovering = FALSE]
              failed == [row EXCEPT !.preparing = FALSE, !.uncertain = TRUE]
              known(s) == [MarkUncertain(row, s) EXCEPT !.live = FALSE]
              w == With(h, row)
  <2>1. /\ c.op = "resume" /\ Same /\ p \in Studio /\ p \notin Local /\ h.row.preparing
        /\ ~Calm /\ Holding(h.row) /\ (Steady => h.row.sid # NoSession)
    BY <1>4, <1>0, StudioRemote DEF ResumeAnswered, CallFits, RowFits, Holding, Covered, Seekers
  <2>2. \/ \E s \in OpenFor(p) : Commit(p, Activate(w, [c EXCEPT !.s = s]))
        \/ Commit(p, Unmark(With(h, failed), c.o))
        \/ \E s \in OpenFor(p) : Commit(p, Unmark(With(h, known(s)), c.o))
    BY <1>4 DEF ResumeAnswered, h, p
  <2>a. \A s \in OpenFor(p) : s \in Sessions /\ s # NoSession
    BY SessionAssumption DEF OpenFor
  <2>b. ASSUME NEW g, Result(h, g, p), Modest(h, g), Commit(p, g),
               Steady => g.row.sid = h.row.sid \/ g.row.sid \in OpenFor(p)
        PROVE  Careful
    <3>1. rooms' = rooms
      BY <2>1 DEF Same
    <3>2. RoomsFit(p, g)
      BY <2>1, <3>1 DEF RoomsFit, PatientInv
    <3>3. ASSUME RoomsInv, Steady, g.row.sid # profile[p].sid PROVE rooms[profile[p].sid] = Nobody
      <4>1. g.row.sid \in OpenFor(p) /\ profile[p].sid \in Sessions /\ profile[p].sid # NoSession
        BY <1>0, <2>1, <2>b, <3>3 DEF Row
      <4>2. CASE rooms[profile[p].sid] # Nobody
        <5>1. profile[p].sid \in OpenFor(p)
          BY <2>1, <3>3, <4>1, <4>2 DEF RoomsInv, OpenFor
        <5>. QED
          BY <2>1, <3>3, <4>1, <5>1 DEF RoomsInv
      <4>. QED
        BY <4>2
    <3>4. ASSUME Steady PROVE \A d \in g.calls : d.p = p => ~Looking(d)
      <4>1. g.row.sid # NoSession
        BY <2>1, <2>a, <2>b, <3>4
      <4>. QED
        BY <2>b, <3>4, <4>1, LooksNot DEF Result, Looking
    <3>5. ASSUME Steady PROVE RoomsOpen /\ Gentle(p, g.row, g.calls)
      <4>1. RoomsOpen
        BY <3>1 DEF RoomsOpen
      <4>. QED
        BY <1>0, <2>b, <3>1, <3>3, <3>4, <3>5, <4>1 DEF Gentle
    <3>. QED
      BY <1>0, <1>r, <2>1, <2>b, <3>1, <3>2, <3>5, CommitCareful DEF Modest
  <2>3. /\ row \in Row /\ row.live = h.row.live /\ row.preparing = h.row.preparing
        /\ row.uncertain = h.row.uncertain /\ row.sid = h.row.sid /\ row.output = h.row.output
    BY <1>0 DEF Row
  <2>. HIDE DEF row
  <2>4. /\ failed \in Row /\ failed.live = h.row.live /\ ~failed.preparing /\ failed.uncertain
        /\ failed.sid = h.row.sid /\ failed.output = h.row.output
    BY <2>3 DEF Row
  <2>. HIDE DEF failed
  <2>5. ASSUME NEW r \in Row, r.output = h.row.output, ~r.preparing, RowFits(p, r),
               Steady => r.sid = h.row.sid \/ r.sid \in OpenFor(p),
               Commit(p, Unmark(With(h, r), c.o))
        PROVE  Careful
    <3>. DEFINE k == Unmark(With(h, r), c.o)
    <3>1. k \in Handler /\ k.row = r /\ k.calls = h.calls
      BY <1>0, <2>5, WithIs, UnmarkIs
    <3>. HIDE DEF k
    <3>2. Fit(k, p) /\ Only(h, k, p)
      BY <1>0, <2>5, <3>1, UnclaimedBare, Rests DEF Covered
    <3>3. Result(h, k, p) /\ Modest(h, k)
      BY <2>1, <2>5, <3>1, <3>2 DEF Result, Modest, Keeps
    <3>. QED
      BY <2>b, <2>5, <3>1, <3>3 DEF k
  <2>6. RowFits(p, failed)
    BY <1>0, <2>1, <2>4 DEF RowFits, HoldingOrEnding, Holding
  <2>7. ASSUME NEW s \in OpenFor(p), Commit(p, Unmark(With(h, known(s)), c.o)) PROVE Careful
    <3>. DEFINE m == MarkUncertain(row, s)
    <3>1. m \in Row /\ m.uncertain /\ ~m.preparing /\ m.sid = s /\ m.output = h.row.output
      BY <2>3, <2>a, ReserveIs
    <3>. HIDE DEF m
    <3>2. LET r == [m EXCEPT !.live = FALSE]
          IN /\ r \in Row /\ ~r.live /\ r.uncertain /\ ~r.preparing /\ r.sid = s
             /\ r.output = h.row.output
      BY <3>1 DEF Row
    <3>3. /\ known(s) \in Row /\ ~known(s).live /\ known(s).uncertain /\ ~known(s).preparing
          /\ known(s).sid = s /\ known(s).output = h.row.output
      BY <3>2 DEF m
    <3>. HIDE DEF known
    <3>4. RowFits(p, known(s))
      BY <2>1, <2>a, <3>3 DEF RowFits, HoldingOrEnding, Holding
    <3>. QED
      BY <2>5, <2>7, <3>3, <3>4
  <2>8. ASSUME NEW s \in OpenFor(p), Commit(p, Activate(w, [c EXCEPT !.s = s])) PROVE Careful
    <3>. DEFINE d == [c EXCEPT !.s = s]
                k == Activate(w, d)
    <3>1. d \in Call /\ d.p = p /\ d.s = s /\ s # NoSession
      BY <1>0, <1>p, <2>a DEF Call
    <3>. HIDE DEF d
    <3>2. w \in Handler /\ w.row = row /\ w.calls = h.calls
      BY <1>0, <2>3, WithIs
    <3>3. Unclaimed(w, p) /\ Holding(w.row) /\ Keeps(h, w) /\ Only(h, w, p)
      BY <1>0, <2>1, <2>3, <3>2 DEF Unclaimed, Holding, Keeps, Only
    <3>. HIDE DEF w
    <3>4. Result(w, k, p) /\ Modest(w, k) /\ (Steady => Carried(k, p, s))
      BY <1>0, <2>1, <3>1, <3>2, <3>3, ActivateFit
    <3>. HIDE DEF k
    <3>5. Result(h, k, p) /\ Modest(h, k)
      BY <2>1, <2>3, <3>2, <3>3, <3>4 DEF Result, Modest, Keeps, Only
    <3>6. Steady => k.row.sid = s
      BY <2>1, <3>4, StudioCarries DEF Result
    <3>. QED
      BY <2>b, <2>8, <3>5, <3>6 DEF k, d
  <2>. QED
    BY <2>2, <2>4, <2>5, <2>6, <2>7, <2>8
<1>5. CASE UpdateAnswered(c)
  <2>1. Same /\ UpdateRow(p, h.row, c.s) /\ (Commit(p, Updated(h, c)) \/ Commit(p, NotUpdated(h, c)))
    BY <1>5, <1>0 DEF UpdateAnswered, Quiet, CallFits, h, p
  <2>2. Outcome(h, Updated(h, c), p, c.s) /\ Outcome(h, NotUpdated(h, c), p, c.s)
    BY <1>0, <1>p, <2>1, UpdatedFit, NotUpdatedFit
  <2>3. c.op = "update"
    BY <1>5 DEF UpdateAnswered
  <2>. QED
    BY <1>a, <1>k, <2>1, <2>2, <2>3
<1>6. CASE SignAnswered(c)
  <2>. DEFINE g == [h EXCEPT !.signed = @ \cup {c.o}]
  <2>1. c.op = "sign" /\ Same /\ SignRow(p, h.row, c.s) /\ (Commit(p, Signed(g, c)) \/ Commit(p, Unsigned(h, c)))
    BY <1>6, <1>0 DEF SignAnswered, Quiet, CallFits, h, p
  <2>2. g \in Handler /\ g.row = h.row /\ g.calls = h.calls
    BY <1>0 DEF Handler
  <2>. HIDE DEF g
  <2>3. Along(h, g) /\ Unclaimed(g, p)
    BY <1>0, <2>2 DEF Along, Keeps, Modest, Unclaimed
  <2>4. Outcome(g, Signed(g, c), p, c.s)
    BY <1>0, <1>p, <2>1, <2>2, <2>3, SignedFit
  <2>5. Outcome(h, Signed(g, c), p, c.s) /\ Outcome(h, Unsigned(h, c), p, c.s)
    BY <1>0, <1>p, <2>1, <2>3, <2>4, GoesOn, UnsignedFit
  <2>. QED
    BY <1>a, <1>k, <2>1, <2>5
<1>7. CASE StartFires(c)
  <2>. DEFINE g == [h EXCEPT !.enc[c.o] = IF @ = "off" THEN "starting" ELSE @]
              u == Unmark(h, c.o)
              d == [c EXCEPT !.s = h.row.sid]
  <2>1. /\ c.op = "start" /\ Same /\ StartRow(p, h.row)
        /\ \/ Commit(p, VerifyOnce(g, c))
           \/ p \in Studio /\ Commit(p, Fail(u, d))
           \/ Commit(p, Detach(u, c.o))
    BY <1>7, <1>0 DEF StartFires, Quiet, CallFits, h, p
  <2>2. g \in Handler /\ g.row = h.row /\ g.calls = h.calls
    BY <1>0 DEF Handler, Encoders
  <2>. HIDE DEF g
  <2>3. Along(h, g) /\ Unclaimed(g, p)
    BY <1>0, <2>2 DEF Along, Keeps, Modest, Unclaimed
  <2>4. Outcome(g, VerifyOnce(g, c), p, NoSession)
    BY <1>0, <1>p, <2>1, <2>2, <2>3, VerifyOnceFit
  <2>5. Outcome(h, VerifyOnce(g, c), p, NoSession)
    BY <1>0, <2>3, <2>4, GoesOn
  <2>6. d \in Call /\ d.p = p /\ d.s = h.row.sid
    BY <1>0, <1>p DEF Call, Row
  <2>. HIDE DEF d, u
  <2>7. Along(h, u) /\ u.row = h.row /\ u \in Handler /\ Unclaimed(u, p)
    BY <1>0, <1>b, GoesOn DEF u
  <2>8. ASSUME p \in Studio PROVE Outcome(h, Fail(u, d), p, NoSession)
    <3>1. h.row.sid # NoSession /\ (Calm => ~h.row.uncertain /\ ~h.row.recovering)
      BY <2>1, <2>8, StudioRemote DEF StartRow, RowFits
    <3>2. Outcome(u, Fail(u, d), p, d.s)
      BY <1>0, <2>6, <2>7, <2>8, <3>1, FailFit
    <3>. QED
      BY <1>0, <1>n, <2>7, <3>2, GoesOn
  <2>9. Along(h, Detach(u, c.o)) /\ Detach(u, c.o).row = h.row
    BY <1>0, <2>7, DetachAlong, AlongAll
  <2>10. Rested(Detach(u, c.o), p, NoSession)
    BY <2>1, <2>9 DEF Rested, StartRow, Covered
  <2>11. Outcome(h, Detach(u, c.o), p, NoSession)
    BY <1>0, <2>9, <2>10, RestsOutcome
  <2>. QED
    BY <1>a, <1>k, <2>1, <2>5, <2>8, <2>11 DEF Carriers
<1>8. CASE VerifyFires(c)
  <2>1. c.op = "verify" /\ Same /\ StartRow(p, h.row) /\ Commit(p, VerifyOnce(h, c))
    BY <1>8, <1>0 DEF VerifyFires, Quiet, CallFits, h, p
  <2>2. Outcome(h, VerifyOnce(h, c), p, NoSession)
    BY <1>0, <1>p, <2>1, VerifyOnceFit
  <2>. QED
    BY <1>a, <1>k, <2>1, <2>2 DEF Carriers
<1>9. CASE VerifyGivesUp(c)
  <2>1. c.op = "verify" /\ Same /\ StartRow(p, h.row) /\ Commit(p, EndUnstarted(h, c))
    BY <1>9, <1>0 DEF VerifyGivesUp, Quiet, CallFits, h, p
  <2>2. Outcome(h, EndUnstarted(h, c), p, NoSession)
    BY <1>0, <1>p, <2>1, EndUnstartedFit
  <2>. QED
    BY <1>a, <1>k, <2>1, <2>2 DEF Carriers
<1>10. CASE FailedDismissed(c)
  <2>. DEFINE g == [h EXCEPT !.enc[c.o] = "off"]
              d == [c EXCEPT !.op = "endFailed"]
  <2>1. /\ c.op = "failed" /\ Same /\ EndRow(p, h.row, c.s)
        /\ Commit(p, RequestEnd(h, d)) \/ Commit(p, RequestEnd(g, d))
    BY <1>10, <1>0 DEF FailedDismissed, Quiet, CallFits, Enders, h, p
  <2>2. g \in Handler /\ g.row = h.row /\ g.calls = h.calls
    BY <1>0 DEF Handler, Encoders
  <2>. HIDE DEF g
  <2>3. Along(h, g) /\ Unclaimed(g, p)
    BY <1>0, <2>2 DEF Along, Keeps, Modest, Unclaimed
  <2>4. d \in Call /\ d.op = "endFailed" /\ d.p = p /\ d.s = c.s
    BY <1>0, <1>p, RelabelIs DEF Ops, EndOps
  <2>. HIDE DEF d
  <2>5. Covered(p, h.row)
    BY <1>0, <2>1 DEF Seekers
  <2>6. Outcome(h, RequestEnd(h, d), p, d.s)
    BY <1>0, <2>1, <2>4, <2>5, RequestEndFit DEF EndOps
  <2>7. Outcome(g, RequestEnd(g, d), p, d.s)
    BY <1>0, <2>1, <2>2, <2>3, <2>4, <2>5, RequestEndFit DEF EndOps
  <2>8. Outcome(h, RequestEnd(h, d), p, NoSession) /\ Outcome(h, RequestEnd(g, d), p, NoSession)
    BY <1>0, <1>n, <2>3, <2>6, <2>7, GoesOn
  <2>. QED
    BY <1>a, <1>k, <2>1, <2>8 DEF Carriers
<1>11. CASE UnsignedDismissed(c)
  <2>. DEFINE d == [c EXCEPT !.op = "endUnsigned"]
  <2>1. c.op = "unsigned" /\ Same /\ EndRow(p, h.row, c.s) /\ Commit(p, RequestEnd(h, d))
    BY <1>11, <1>0 DEF UnsignedDismissed, Quiet, CallFits, Enders, h, p
  <2>2. d \in Call /\ d.op = "endUnsigned" /\ d.p = p /\ d.s = c.s
    BY <1>0, <1>p, RelabelIs DEF Ops, EndOps
  <2>. HIDE DEF d
  <2>3. Covered(p, h.row)
    BY <1>0, <2>1 DEF Seekers
  <2>4. Outcome(h, RequestEnd(h, d), p, d.s)
    BY <1>0, <2>1, <2>2, <2>3, RequestEndFit DEF EndOps
  <2>. QED
    BY <1>a, <1>k, <1>n, <2>1, <2>4 DEF Carriers
<1>12. CASE ResetDismissed(c)
  <2>. DEFINE g == ClearSession(h, p)
  <2>1. c.op = "reset" /\ Same /\ ~Calm /\ (Commit(p, h) \/ Commit(p, g))
    BY <1>12, <1>0 DEF ResetDismissed, Quiet, CallFits, RowFits, h, p
  <2>2. CASE Commit(p, h)
    <3>1. Rested(h, p, NoSession)
      BY <1>0, <2>1 DEF Rested, Seekers
    <3>2. Outcome(h, h, p, NoSession)
      BY <1>0, <1>b, <3>1, RestsOutcome
    <3>. QED
      BY <1>a, <1>k, <2>1, <2>2, <3>2 DEF Carriers
  <2>3. CASE Commit(p, g)
    <3>1. /\ Result(h, g, p) /\ Modest(h, g) /\ Bare(g, p) /\ ~Holding(g.row)
          /\ g.row.sid = NoSession
      BY <1>0, UnclaimedBare, ClearedFit
    <3>2. rooms' = rooms
      BY <2>1 DEF Same
    <3>. HIDE DEF g
    <3>3. RoomsFit(p, g)
      BY <2>1, <3>2 DEF RoomsFit, PatientInv
    <3>4. Overruled(p)
      <4>1. c \notin g.calls
        BY <1>p, <2>1, <3>1 DEF Bare, RefreshCall
      <4>2. calls' = g.calls
        BY <2>3 DEF Commit
      <4>. QED
        BY <1>p, <2>1, <4>1, <4>2 DEF Overruled
    <3>5. \A d \in g.calls : d.p = p => ~Looking(d)
      BY <3>1 DEF Bare, RefreshCall, Looking
    <3>6. RoomsOpen /\ Gentle(p, g.row, g.calls)
      BY <3>1, <3>2, <3>4, <3>5 DEF RoomsOpen, Gentle
    <3>. QED
      BY <1>0, <1>r, <2>1, <2>3, <3>1, <3>2, <3>3, <3>6, CommitCareful
  <2>. QED
    BY <2>1, <2>2, <2>3
<1>13. CASE EndAnswered(c)
  <2>. DEFINE closed == [rooms EXCEPT ![c.s] = Nobody]
  <2>1. /\ c.op \in Closers /\ p \notin Local /\ c.s # NoSession
        /\ c.op \in EndOps => EndRow(p, h.row, c.s)
        /\ c.op = "endUpdate" => (Steady => h.row.sid = NoSession)
        /\ c.op = "endRecovery" => ~Steady
    BY <1>13, <1>0 DEF EndAnswered, CallFits, Closers, Enders, RowFits
  <2>2. \/ Commit(p, FinishEnd(h, c, TRUE)) /\ rooms' = closed
        \/ ~Firm /\ Commit(p, FinishEnd(h, c, FALSE)) /\ rooms' \in {rooms, closed}
    BY <1>13 DEF EndAnswered, Firm, h, p
  <2>3. rooms' \in [Sessions -> Profiles \cup {Nobody}]
    BY <1>r, <2>2
  <2>4. \A t \in Sessions : rooms'[t] # Nobody => rooms'[t] = rooms[t] /\ rooms[t] \notin Local
    BY <1>r, <2>2 DEF PatientInv
  <2>a. RoomsOpen
    BY <2>4 DEF RoomsOpen
  <2>b. Steady => profile[p].sid = c.s \/ (c.op = "endUpdate" /\ profile[p].sid = NoSession)
    BY <1>0, <2>1 DEF EndRow, Closers
  <2>c. c.op = "endUpdate" => p \notin Studio
    BY <1>0 DEF CallFits
  <2>5. CASE Commit(p, FinishEnd(h, c, TRUE)) /\ rooms' = closed
    <3>. DEFINE r == FinishEnd(h, c, TRUE)
    <3>1. /\ Result(h, r, p) /\ Modest(h, r) /\ (Steady => r.row.sid = NoSession)
          /\ c.op # "endUpdate" => ~Holding(r.row)
      BY <1>0, <1>p, <2>1, ClosedFit
    <3>3. rooms'[c.s] = Nobody
      BY <1>0, <1>r, <2>1, <2>5
    <3>4. ASSUME NEW t \in Sessions, rooms'[t] = p, Calm PROVE FALSE
      <4>1. rooms[t] = p /\ t # c.s
        BY <1>0, <2>4, <3>3, <3>4, HostAssumption
      <4>. QED
        BY <1>t, <2>b, <3>4, <4>1 DEF Calm
    <3>5. RoomsFit(p, r)
      BY <2>4, <3>4 DEF RoomsFit
    <3>. HIDE DEF r
    <3>6. ASSUME Steady PROVE \A d \in r.calls : d.p = p => ~Looking(d)
      BY <2>c, <3>1, <3>6, LooksNot DEF Result, Looking
    <3>7. ASSUME Steady PROVE Gentle(p, r.row, r.calls)
      BY <2>b, <3>1, <3>3, <3>6, <3>7 DEF Gentle
    <3>. QED
      BY <1>0, <2>3, <2>5, <2>a, <3>1, <3>5, <3>7, CommitCareful DEF Modest, r
  <2>6. CASE ~Firm /\ Commit(p, FinishEnd(h, c, FALSE))
    <3>. DEFINE r == FinishEnd(h, c, FALSE)
    <3>1. ~Calm
      BY <2>6 DEF Calm
    <3>2. Steady => /\ IF c.op = "endUpdate" THEN h.row.sid = NoSession ELSE h.row.sid = c.s
                    /\ c.op = "endUnstarted" => Holding(h.row)
      BY <1>0, <2>1, <2>b DEF CallFits
    <3>3. Result(h, r, p) /\ (Steady => (profile[p].sid # NoSession => r.row.sid = profile[p].sid))
      BY <1>0, <1>p, <2>1, <3>1, <3>2, DoubtedFit
    <3>4. RoomsFit(p, r)
      BY <2>4, <3>1 DEF RoomsFit
    <3>. HIDE DEF r
    <3>5. ASSUME Steady, p \in Studio PROVE r.row.sid = profile[p].sid /\ r.row.sid # NoSession
      BY <2>1, <2>b, <2>c, <3>3, <3>5
    <3>6. ASSUME Steady PROVE \A d \in r.calls : d.p = p => ~Looking(d)
      BY <3>3, <3>5, <3>6, LooksNot DEF Result, Looking
    <3>7. ASSUME Steady PROVE Gentle(p, r.row, r.calls)
      BY <3>3, <3>5, <3>6, <3>7 DEF Gentle
    <3>8. ~Bound(p, r.row)
      BY <3>5 DEF Bound
    <3>. QED
      BY <1>0, <2>3, <2>6, <2>a, <3>1, <3>3, <3>4, <3>7, <3>8, CommitCareful DEF r
  <2>. QED
    BY <2>2, <2>5, <2>6
<1>14. CASE RefreshAnswered(c)
  <2>. DEFINE row == Unassign(h.row)
              g == With(h, row)
  <2>1. c.op = "refresh" /\ Same /\ (Commit(p, h) \/ Commit(p, g))
    BY <1>14 DEF RefreshAnswered, Quiet, h, p
  <2>2. /\ row \in Row /\ row.live = h.row.live /\ row.preparing = h.row.preparing
        /\ row.ending = h.row.ending /\ row.recovering = h.row.recovering
        /\ row.uncertain = h.row.uncertain /\ row.sid = h.row.sid /\ row.output = NoOutput
    BY <1>0, UnassignIs
  <2>. HIDE DEF row
  <2>3. Along(h, g) /\ g.row = row
    BY <1>0, <2>2, WithAlong DEF Holding
  <2>. HIDE DEF g
  <2>4. Rested(h, p, NoSession) /\ Rested(g, p, NoSession)
    BY <1>0, <2>1, <2>2, <2>3
       DEF Rested, RowFits, Covered, HoldingOrEnding, Holding, Seekers
  <2>5. Outcome(h, h, p, NoSession) /\ Outcome(h, g, p, NoSession)
    BY <1>0, <1>b, <2>3, <2>4, RestsOutcome
  <2>6. /\ h.row.sid = profile[p].sid /\ \A d \in h.calls : d.p # p
        /\ g.row.sid = profile[p].sid /\ \A d \in g.calls : d.p # p
    BY <1>0, <2>2, <2>3 DEF Along, Unclaimed
  <2>. QED
    BY <1>a, <2>1, <2>5, <2>6 DEF Carriers, Bound
<1>15. CASE ReconcileAnswered(c)
  <2>. DEFINE row == [h.row EXCEPT !.recovering = FALSE, !.preparing = FALSE]
              known(s) == [MarkUncertain(row, s) EXCEPT !.live = FALSE]
              failed == [row EXCEPT !.live = FALSE, !.uncertain = TRUE]
              w == With(h, row)
  <2>1. /\ c.op = "reconcile" /\ Same /\ h.row.live /\ ~Steady /\ Holding(h.row)
        /\ \/ \E s \in Sessions : Commit(p, With(h, known(s)))
           \/ Commit(p, ClearSession(w, p))
           \/ Commit(p, With(h, failed))
    BY <1>15, <1>0 DEF ReconcileAnswered, CallFits, RowFits, Holding, OpenFor, h, p
  <2>2. row \in Row /\ row.output = h.row.output
    BY <1>0 DEF Row
  <2>. HIDE DEF row
  <2>3. failed \in Row /\ ~failed.live /\ failed.output = h.row.output
    BY <2>2 DEF Row
  <2>. HIDE DEF failed
  <2>4. ASSUME NEW r \in Row, ~r.live, r.output = h.row.output, Commit(p, With(h, r)) PROVE Careful
    <3>1. Along(h, With(h, r)) /\ With(h, r).row = r
      BY <1>0, <2>1, <2>4, WithAlong
    <3>2. Rested(With(h, r), p, NoSession)
      BY <2>1, <2>4, <3>1 DEF Rested, RowFits, Covered, Calm
    <3>3. Outcome(h, With(h, r), p, NoSession)
      BY <1>0, <3>1, <3>2, RestsOutcome
    <3>. QED
      BY <1>a, <1>k, <2>1, <2>4, <3>3 DEF Carriers
  <2>5. ASSUME NEW s \in Sessions, Commit(p, With(h, known(s))) PROVE Careful
    <3>. DEFINE m == MarkUncertain(row, s)
    <3>1. m \in Row /\ m.output = h.row.output
      BY <2>2, ReserveIs
    <3>. HIDE DEF m
    <3>2. LET r == [m EXCEPT !.live = FALSE] IN r \in Row /\ ~r.live /\ r.output = h.row.output
      BY <3>1 DEF Row
    <3>3. known(s) \in Row /\ ~known(s).live /\ known(s).output = h.row.output
      BY <3>2 DEF m
    <3>. HIDE DEF known
    <3>. QED
      BY <2>4, <2>5, <3>3
  <2>6. Along(h, w)
    BY <1>0, <2>1, <2>2, WithAlong
  <2>7. Outcome(h, ClearSession(w, p), p, NoSession)
    BY <1>0, <2>1, <2>6, ClearOutcome
  <2>. QED
    BY <1>a, <1>k, <2>1, <2>3, <2>4, <2>5, <2>7 DEF Carriers
<1>. QED
  BY <1>1, <1>2, <1>3, <1>4, <1>5, <1>6, <1>7, <1>8, <1>9, <1>10, <1>11, <1>12, <1>13,
     <1>14, <1>15

\* A heartbeat that is refused clears a session that TikTok has closed.
LEMMA HeartbeatCareful ==
  ASSUME IInv, PatientInv, NEW p \in Profiles, HeartbeatStale(p)
  PROVE  Careful
<1>. DEFINE n == Now(p)
            g == ClearSession(n, p)
            k == Refresh(g, p)
<1>1. /\ p \in Studio /\ p \notin Local /\ profile[p].live /\ ~profile[p].ending
      /\ ~profile[p].recovering /\ ~profile[p].preparing /\ ~profile[p].uncertain
      /\ rooms[profile[p].sid] = Nobody /\ Commit(p, k) /\ Same
  BY StudioRemote DEF HeartbeatStale
<1>2. n \in Handler /\ n.row = profile[p] /\ n.calls = calls /\ Others(p, n) /\ Fit(n, p)
  BY NowSound DEF Sound, Typed, Now, PatientInv
<1>. HIDE DEF n
<1>3. ASSUME NEW d \in n.calls, d.p = p PROVE d = RefreshCall(p)
  <2>1. CallFits(p, profile[p], d) /\ d.op \in Ops
    BY <1>2, <1>3 DEF Fit, IInv, TypeOK, Call
  <2>2. d.op \notin {"find", "create", "update", "sign", "start", "verify"}
    BY <1>1, <2>1 DEF CallFits, SeekRow, UpdateRow, SignRow, StartRow, OnTheWay
  <2>3. d.op \notin Enders /\ d.op \notin {"endUpdate", "endRecovery"}
    BY <1>1, <2>1 DEF CallFits, EndRow
  <2>4. d.op \notin {"resume", "reconcile", "reset"}
    BY <1>1, <2>1 DEF CallFits
  <2>5. d.op = "refresh"
    BY <2>1, <2>2, <2>3, <2>4 DEF Ops, Enders, EndOps
  <2>. QED
    BY <2>1, <2>5 DEF CallFits
<1>4. Bare(n, p)
  BY <1>3 DEF Bare
<1>5. /\ Result(n, g, p) /\ Bare(g, p) /\ RowFits(p, g.row) /\ Covered(p, g.row)
      /\ ~Holding(g.row) /\ g.row.sid = NoSession
  BY <1>2, <1>4, ClearedFit
<1>. HIDE DEF g
<1>6. g \in Handler
  BY <1>5 DEF Result
<1>7. Result(g, k, p) /\ k.row = g.row
  BY <1>5, <1>6, RefreshFit
<1>. HIDE DEF k
<1>8. Result(n, k, p)
  BY <1>5, <1>7 DEF Result, Only, Keeps
<1>9. rooms' = rooms /\ rooms \in [Sessions -> Profiles \cup {Nobody}]
  BY <1>1 DEF Same, IInv, TypeOK
<1>10. ASSUME NEW s \in Sessions, rooms[s] = p, Calm PROVE FALSE
  <2>1. Carried(n, p, s)
    BY <1>10, HostAssumption DEF PatientInv, n
  <2>2. profile[p].sid # s
    BY <1>1, <1>10, HostAssumption
  <2>. QED
    BY <1>2, <1>3, <2>1, <2>2 DEF Carried, Carriers, RefreshCall
<1>11. RoomsFit(p, k)
  BY <1>9, <1>10 DEF RoomsFit, PatientInv
<1>12. ASSUME Steady PROVE Gentle(p, k.row, k.calls)
  <2>1. ~Holding(k.row) /\ k.row.sid = NoSession
    BY <1>5, <1>7
  <2>2. \A d \in k.calls : d.p = p => ~Looking(d)
    BY <1>8, <1>12, <2>1, LooksNot DEF Result, Looking
  <2>. QED
    BY <1>1, <1>9, <2>1, <2>2 DEF Gentle
<1>13. RoomsOpen
  BY <1>9 DEF RoomsOpen
<1>. QED
  BY <1>1, <1>2, <1>5, <1>7, <1>8, <1>9, <1>11, <1>12, <1>13, CommitCareful

\* The rows a restart reads back, field by field.
LEMMA LoadedIs ==
  ASSUME IInv, PatientInv, NEW p \in Profiles, NEW active
  PROVE  LET row == Loaded(p, active)
         IN /\ row.live => profile[p].live /\ row.sid = profile[p].sid
            /\ row.live /\ p \notin Local => row.sid # NoSession
            /\ row.recovering => row.live /\ p \notin Local
            /\ ~row.preparing /\ ~row.uncertain
<1>. DEFINE saved == [profile[p] EXCEPT !.preparing = FALSE, !.ending = FALSE,
                       !.recovering = FALSE, !.uncertain = FALSE, !.signing = Unset]
<1>1. profile[p] \in Row /\ RowFits(p, profile[p])
  BY NowSound DEF PatientInv, Fit
<1>2. /\ saved \in Row /\ saved.live = profile[p].live /\ saved.sid = profile[p].sid
      /\ ~saved.preparing /\ ~saved.recovering /\ ~saved.uncertain
  BY <1>1 DEF Row
<1>3. Loaded(p, active) =
        IF ~profile[p].live THEN (IF profile[p].ready THEN saved ELSE Unassign(saved))
        ELSE IF IF p \in Local THEN profile[p].output \notin active
                ELSE p \notin Studio /\ profile[p].sid = NoSession
             THEN ClearLive(p, saved)
             ELSE IF p \in Local THEN saved
             ELSE [saved EXCEPT !.recovering = TRUE]
  BY DEF Loaded
<1>. HIDE DEF saved
<1>4. /\ Unassign(saved).live = saved.live /\ Unassign(saved).sid = saved.sid
      /\ ~Unassign(saved).preparing /\ ~Unassign(saved).recovering
      /\ ~Unassign(saved).uncertain
  BY <1>2, UnassignIs
<1>5. /\ ~ClearLive(p, saved).live /\ ~ClearLive(p, saved).preparing
      /\ ~ClearLive(p, saved).recovering /\ ~ClearLive(p, saved).uncertain
  BY <1>2, ClearIs
<1>6. LET r == [saved EXCEPT !.recovering = TRUE]
      IN r.live = saved.live /\ r.sid = saved.sid /\ ~r.preparing /\ ~r.uncertain
  BY <1>2 DEF Row
<1>7. CASE ~profile[p].live
  BY <1>2, <1>3, <1>4, <1>7
<1>8. CASE profile[p].live /\ p \in Local
  BY <1>2, <1>3, <1>5, <1>8
<1>9. CASE profile[p].live /\ p \notin Local
  <2>1. profile[p].sid # NoSession
    BY <1>1, <1>9 DEF RowFits
  <2>. QED
    BY <1>2, <1>3, <1>6, <1>9, <2>1
<1>. QED
  BY <1>7, <1>8, <1>9

\* A restart leaves each recovering profile with the call that resolves it.
LEMMA RestartCareful ==
  ASSUME IInv, PatientInv, Restart
  PROVE  Careful
<1>. DEFINE call(p) == [op |-> IF p \in Studio THEN "reconcile" ELSE "endRecovery", p |-> p,
                        o |-> profile[p].output, s |-> profile[p].sid, start |-> FALSE]
            asked == {c.p : c \in {d \in calls : d.op = "create"}}
            ends == {c.s : c \in {d \in calls : d.op \in EndOps \cup {"endUpdate", "endRecovery"}}}
<1>1. PICK active \in SUBSET Outputs :
        /\ profile' = [p \in Profiles |-> Loaded(p, active)]
        /\ calls' = {call(p) : p \in {q \in Profiles : Loaded(q, active).recovering}}
        /\ restarts < MaxRestarts
  BY DEF Restart
<1>2. ~Steady
  <2>1. restarts \in Nat
    BY DEF IInv, TypeOK
  <2>2. MaxRestarts # 0
    BY <1>1, <2>1, EnvironmentAssumption
  <2>. QED
    BY <2>2 DEF Steady
<1>3. ASSUME NEW p \in Profiles PROVE Fit(Now(p), p)'
  <2>. DEFINE row == Loaded(p, active)
  <2>1. /\ row.live => profile[p].live /\ row.sid = profile[p].sid
        /\ row.live /\ p \notin Local => row.sid # NoSession
        /\ row.recovering => row.live /\ p \notin Local
    BY LoadedIs
  <2>2. Now(p)'.row = row /\ Now(p)'.calls = calls'
    BY <1>1 DEF Now
  <2>. HIDE DEF row
  <2>3. RowFits(p, row) /\ Covered(p, row)
    BY <1>2, <2>1 DEF RowFits, Covered, Calm
  <2>4. \A c \in calls' : c.p = p => c = call(p) /\ row.recovering
    BY <1>1 DEF row
  <2>5. ASSUME row.recovering PROVE CallFits(p, row, call(p))
    <3>1. /\ call(p).op = IF p \in Studio THEN "reconcile" ELSE "endRecovery"
          /\ call(p).s = profile[p].sid
      OBVIOUS
    <3>2. row.live /\ p \notin Local /\ profile[p].sid # NoSession
      BY <2>1, <2>5
    <3>. HIDE DEF call
    <3>. QED
      BY <1>2, <2>5, <3>1, <3>2 DEF CallFits, Enders, EndOps, Closers
  <2>. HIDE DEF call
  <2>6. /\ RowFits(p, row)
        /\ \A c, d \in calls' : c.p = p /\ d.p = p => c = d
        /\ \A c \in calls' : c.p = p => CallFits(p, row, c)
        /\ Covered(p, row)
    BY <2>3, <2>4, <2>5
  <2>. HIDE DEF Now
  <2>. QED
    BY <2>2, <2>6 DEF Fit
<1>4. ASSUME NEW s \in Sessions, rooms'[s] # Nobody PROVE rooms'[s] \notin Local
  <2>1. PICK closed \in SUBSET (ends \ {NoSession}),
             made \in [asked -> {t \in Sessions : Unused(t)} \cup {NoSession}] :
          rooms' = [t \in Sessions |->
                     IF t \in closed THEN Nobody
                     ELSE IF \E p \in asked : made[p] = t
                     THEN CHOOSE p \in asked : made[p] = t
                     ELSE rooms[t]]
    BY DEF Restart
  <2>2. \A p \in asked : p \notin Local
    <3>1. ASSUME NEW c \in calls, c.op = "create" PROVE c.p \notin Local
      <4>1. CallFits(c.p, Take(Now(c.p), c).row, c)
        BY TakeFit
      <4>. QED
        BY <3>1, <4>1 DEF CallFits
    <3>. QED
      BY <3>1
  <2>. HIDE DEF asked
  <2>3. CASE \E p \in asked : made[p] = s
    <3>1. (CHOOSE p \in asked : made[p] = s) \in asked
      BY <2>3
    <3>. QED
      BY <1>4, <2>1, <2>2, <2>3, <3>1
  <2>4. CASE ~\E p \in asked : made[p] = s
    BY <1>4, <2>1, <2>4 DEF PatientInv
  <2>. QED
    BY <2>3, <2>4
<1>5. PatientInv' /\ ~Calm
  BY <1>2, <1>3, <1>4 DEF PatientInv, Calm
<1>6. \A p \in Profiles : ~Takes(p)
  BY <1>1, LoadedIs DEF Takes, Holding
<1>. QED
  BY <1>2, <1>5, <1>6 DEF Careful

\* What happens outside the dock.
LEMMA EnvironmentCareful ==
  ASSUME IInv, PatientInv, Environment
  PROVE  Careful
<1>1. ASSUME NEW o \in Outputs, EncoderUp(o) \/ EncoderDown(o) PROVE Careful
  <2>1. UNCHANGED <<profile, outputsPreparing, calls, attached>> /\ Same
    BY <1>1 DEF EncoderUp, EncoderDown, Same
  <2>. QED
    BY <2>1, OutsideCareful
<1>2. ASSUME NEW s \in Sessions, RoomCloses(s) PROVE Careful
  <2>1. /\ UNCHANGED <<profile, outputsPreparing, calls, attached>>
        /\ rooms' = [rooms EXCEPT ![s] = Nobody]
    BY <1>2 DEF RoomCloses
  <2>. QED
    BY <2>1, OutsideCareful
<1>. QED
  BY <1>1, <1>2, HeartbeatCareful, RestartCareful DEF Environment

-----------------------------------------------------------------------------
\* The theorems about a patient user.

\* The dock starts with every profile at rest and no room open.
LEMMA InitPatient == Init => PatientInv
<1>. SUFFICES ASSUME Init PROVE PatientInv
  OBVIOUS
<1>1. ASSUME NEW p \in Profiles
      PROVE  /\ ~profile[p].live /\ ~profile[p].preparing /\ ~profile[p].ending
             /\ ~profile[p].recovering /\ ~profile[p].uncertain /\ profile[p].sid = NoSession
  <2>1. PICK o \in Target :
          profile[p] = [live |-> FALSE, preparing |-> FALSE, ending |-> FALSE,
                        recovering |-> FALSE, uncertain |-> FALSE, sid |-> NoSession,
                        output |-> o, ready |-> TRUE, signing |-> Unset]
    BY DEF Init
  <2>. QED
    BY <2>1
<1>2. ASSUME NEW p \in Profiles PROVE Fit(Now(p), p)
  <2>1. Now(p).row = profile[p] /\ Now(p).calls = {}
    BY DEF Now, Init
  <2>2. RowFits(p, profile[p]) /\ Covered(p, profile[p])
    BY <1>1 DEF RowFits, Covered
  <2>. QED
    BY <2>1, <2>2 DEF Fit
<1>3. \A s \in Sessions : rooms[s] = Nobody
  BY DEF Init
<1>. QED
  BY <1>2, <1>3 DEF PatientInv

\* Every step is careful, and so keeps the invariant.
LEMMA NextCareful ==
  ASSUME MaxPending = 0, IInv, PatientInv, Next
  PROVE  Careful
BY UserCareful, CallbackCareful, EnvironmentCareful DEF Next

LEMMA StepPatient ==
  ASSUME MaxPending = 0, IInv, PatientInv, [Next]_vars
  PROVE  PatientInv'
<1>1. CASE Next
  BY <1>1, NextCareful DEF Careful
<1>2. CASE UNCHANGED vars
  BY <1>2 DEF vars, PatientInv, Fit, Carried, Now
<1>. QED
  BY <1>1, <1>2

\* A profile has one pending call at most, which agrees with its row, as long as
\* the user waits for the answers.
THEOREM Patient == ASSUME MaxPending = 0 PROVE Spec => []PatientInv
<1>1. IInv /\ PatientInv /\ [Next]_vars => PatientInv'
  BY StepPatient
<1>. QED
  BY <1>1, InitPatient, Invariant, PTL DEF Spec

\* For a user who waits, a remote profile that is shown LIVE knows its session,
\* whatever fails and however often OBS is restarted.
THEOREM SessionsKnown == ASSUME MaxPending = 0 PROVE Spec => []LiveKnowsSession
<1>1. PatientInv => LiveKnowsSession
  BY DEF PatientInv, Fit, RowFits, Now, LiveKnowsSession
<1>. QED
  BY <1>1, Patient, PTL

\* For a user who waits, and whose end requests do not fail, a TikTok account is
\* held by one profile: every row that takes one takes it in a handler that has
\* just found it free, and keeps it until it lets it go.
THEOREM AccountsApart ==
  ASSUME MaxPending = 0, Firm PROVE Spec => []AccountExclusive
<1>1. Init => AccountExclusive
  <2>. SUFFICES ASSUME Init, NEW p \in Profiles PROVE ~Holding(profile[p])
    BY DEF AccountExclusive
  <2>1. Fit(Now(p), p) /\ Now(p).row = profile[p]
    BY InitPatient DEF PatientInv, Now
  <2>2. PICK o \in Target :
          profile[p] = [live |-> FALSE, preparing |-> FALSE, ending |-> FALSE,
                        recovering |-> FALSE, uncertain |-> FALSE, sid |-> NoSession,
                        output |-> o, ready |-> TRUE, signing |-> Unset]
    BY DEF Init
  <2>. QED
    BY <2>2 DEF Holding
<1>2. IInv /\ PatientInv /\ AccountExclusive /\ [Next]_vars => AccountExclusive'
  <2>. SUFFICES ASSUME IInv, PatientInv, AccountExclusive, [Next]_vars PROVE AccountExclusive'
    OBVIOUS
  <2>1. CASE Next
    <3>1. Careful
      BY <2>1, NextCareful
    <3>. SUFFICES ASSUME NEW p \in Profiles, NEW q \in Profiles, p # q,
                         Holding(profile'[p]), Holding(profile'[q]),
                         Account[p] = Account[q], Account[p] # NoAccount
                  PROVE  FALSE
      BY DEF AccountExclusive
    <3>2. Takes(p) \/ Takes(q)
      BY DEF Takes, AccountExclusive
    <3>3. ~(Takes(p) /\ Takes(q))
      BY <3>1 DEF Careful
    <3>4. CASE Takes(p) /\ ~Takes(q)
      BY <3>1, <3>4 DEF Careful, Takes, AccountActive
    <3>5. CASE Takes(q) /\ ~Takes(p)
      BY <3>1, <3>5 DEF Careful, Takes, AccountActive
    <3>. QED
      BY <3>2, <3>3, <3>4, <3>5
  <2>2. CASE UNCHANGED vars
    BY <2>2 DEF vars, AccountExclusive
  <2>. QED
    BY <2>1, <2>2
<1>. QED
  BY <1>1, <1>2, Invariant, Patient, PTL DEF Spec

\* For a user who waits, with logins that are not shared, no failing end request
\* and no restart, an output is reserved by one profile: a profile takes a free
\* output when it starts, and keeps that one or none as long as it holds it.
THEOREM OutputsApart ==
  ASSUME MaxPending = 0, Calm PROVE Spec => []OutputExclusive
<1>1. Init => OutputExclusive
  <2>. SUFFICES ASSUME Init, NEW p \in Profiles PROVE ~Holding(profile[p])
    BY DEF OutputExclusive
  <2>1. PICK o \in Target :
          profile[p] = [live |-> FALSE, preparing |-> FALSE, ending |-> FALSE,
                        recovering |-> FALSE, uncertain |-> FALSE, sid |-> NoSession,
                        output |-> o, ready |-> TRUE, signing |-> Unset]
    BY DEF Init
  <2>. QED
    BY <2>1 DEF Holding
<1>2. IInv /\ PatientInv /\ OutputExclusive /\ [Next]_vars => OutputExclusive'
  <2>. SUFFICES ASSUME IInv, PatientInv, OutputExclusive, [Next]_vars PROVE OutputExclusive'
    OBVIOUS
  <2>1. CASE Next
    <3>1. Careful /\ Firm
      BY <2>1, NextCareful DEF Calm
    <3>. SUFFICES ASSUME NEW p \in Profiles, NEW q \in Profiles, p # q,
                         Holding(profile'[p]), Holding(profile'[q]),
                         profile'[p].output = profile'[q].output,
                         profile'[p].output # NoOutput
                  PROVE  FALSE
      BY DEF OutputExclusive
    <3>2. profile'[p].output = profile[p].output /\ profile'[q].output = profile[q].output
      BY <3>1 DEF Careful
    <3>3. Takes(p) \/ Takes(q)
      BY <3>2 DEF Takes, OutputExclusive
    <3>4. ~(Takes(p) /\ Takes(q))
      BY <3>1 DEF Careful
    <3>5. CASE Takes(p) /\ ~Takes(q)
      BY <3>1, <3>2, <3>5 DEF Careful, Takes, OutputInUse
    <3>6. CASE Takes(q) /\ ~Takes(p)
      BY <3>1, <3>2, <3>6 DEF Careful, Takes, OutputInUse
    <3>. QED
      BY <3>3, <3>4, <3>5, <3>6
  <2>2. CASE UNCHANGED vars
    BY <2>2 DEF vars, OutputExclusive
  <2>. QED
    BY <2>1, <2>2
<1>. QED
  BY <1>1, <1>2, Invariant, Patient, PTL DEF Spec

\* With the same hypotheses every session that is open at a platform is on the
\* row of the profile whose login opened it, or in the answer that will put it
\* there or end it.
THEOREM SessionsTracked ==
  ASSUME MaxPending = 0, Calm PROVE Spec => []SessionTracked
<1>1. IInv /\ PatientInv => SessionTracked
  <2>. SUFFICES ASSUME IInv, PatientInv, NEW s \in Sessions, rooms[s] # Nobody
                PROVE  \/ \E p \in Profiles : /\ profile[p].sid = s
                                              /\ Holding(profile[p]) \/ profile[p].ending
                       \/ \E c \in calls : c.s = s
    BY DEF SessionTracked
  <2>1. PICK p \in Profiles : p = rooms[s]
    BY DEF IInv, TypeOK
  <2>2. p \notin Local /\ Carried(Now(p), p, s) /\ Fit(Now(p), p)
    BY <2>1 DEF PatientInv
  <2>3. Now(p).row = profile[p] /\ Now(p).calls = calls
    BY DEF Now
  <2>4. CASE profile[p].sid = s
    <3>1. HoldingOrEnding(profile[p])
      BY <2>2, <2>3, <2>4, SessionAssumption DEF Fit, RowFits, Calm
    <3>. QED
      BY <2>4, <3>1 DEF HoldingOrEnding
  <2>. QED
    BY <2>2, <2>3, <2>4 DEF Carried
<1>. QED
  BY <1>1, Invariant, Patient, PTL

\* No room is open when the dock starts.
LEMMA InitRooms == Init => RoomsInv
<1>1. ASSUME Init PROVE calls = {} /\ \A p \in Studio : OpenFor(p) = {}
  BY <1>1 DEF Init, OpenFor
<1>2. ASSUME Init, NEW p \in Studio PROVE profile[p].sid = NoSession
  <2>1. Fit(Now(p), p) /\ Now(p).row = profile[p]
    BY <1>2, InitPatient DEF PatientInv, Now, Studio
  <2>2. PICK o \in Target :
          profile[p] = [live |-> FALSE, preparing |-> FALSE, ending |-> FALSE,
                        recovering |-> FALSE, uncertain |-> FALSE, sid |-> NoSession,
                        output |-> o, ready |-> TRUE, signing |-> Unset]
    BY <1>2 DEF Init, Studio
  <2>. QED
    BY <2>2
<1>. QED
  BY <1>1, <1>2 DEF RoomsInv

\* Searches of one account stay those of one profile, because a start takes its
\* account before it searches; so the room that a create opens is the only one
\* of its account, and a search finds no room but the row's own.
LEMMA NextRooms ==
  ASSUME MaxPending = 0, Steady, LoginsApart, IInv, PatientInv, RoomsInv, Next
  PROVE  RoomsInv'
<1>1. Careful /\ IInv'
  BY NextCareful, StepInv
<1>2. RoomsOpen /\ \A p \in Profiles : Gentle(p, profile'[p], calls')
  BY <1>1 DEF Careful
<1>3. /\ \A c \in calls : c.p \in Profiles
      /\ \A c \in calls' : c.p \in Profiles
  BY <1>1 DEF IInv, TypeOK, Call
<1>4. ASSUME NEW c \in calls, c.op \in {"find", "create"}
      PROVE  Holding(profile[c.p]) /\ c.p \in Profiles \ Local
  <2>1. Fit(Now(c.p), c.p) /\ Now(c.p).row = profile[c.p] /\ Now(c.p).calls = calls
    BY <1>3 DEF PatientInv, Now
  <2>2. SeekRow(c.p, profile[c.p]) /\ c.p \notin Local
    BY <1>4, <2>1 DEF Fit, CallFits
  <2>. QED
    BY <1>3, <2>2 DEF SeekRow, Holding
<1>5. ASSUME NEW c \in calls', Looking(c)
      PROVE  /\ Holding(profile'[c.p]) /\ profile'[c.p].sid = NoSession
             /\ Takes(c.p) \/ \E d \in calls : d.p = c.p /\ Looking(d)
  <2>1. Fit(Now(c.p), c.p)' /\ Now(c.p)'.row = profile'[c.p] /\ Now(c.p)'.calls = calls'
    BY <1>1, <1>3 DEF Careful, PatientInv, Now
  <2>2. SeekRow(c.p, profile'[c.p])
    BY <1>5, <2>1 DEF Fit, CallFits, Looking
  <2>3. Holding(profile'[c.p]) /\ profile'[c.p].sid = NoSession
    BY <2>2 DEF SeekRow, Holding
  <2>. QED
    BY <1>2, <1>3, <1>5, <2>3 DEF Gentle, Takes
<1>6. ASSUME NEW p \in Studio, NEW q \in Profiles \ Local, Account[q] = Account[p], q # p
      PROVE  q \in Studio /\ Account[p] # NoAccount
  BY <1>6 DEF LoginsApart
<1>7. Studio \subseteq Profiles \ Local
  BY StudioRemote DEF Studio
<1>8. ASSUME NEW c \in calls', NEW d \in calls', Looking(c), Looking(d),
             Account[c.p] = Account[d.p], c.p # d.p, Takes(c.p)
      PROVE  FALSE
  <2>1. /\ c.p \in Studio /\ d.p \in Studio /\ c.p \in Profiles /\ d.p \in Profiles
        /\ Account[c.p] # NoAccount
    BY <1>3, <1>6, <1>7, <1>8 DEF Looking
  <2>2. Bound(c.p, profile'[c.p]) /\ Bound(d.p, profile'[d.p])
    BY <1>5, <1>8, <2>1 DEF Bound
  <2>3. ~AccountActive(c.p, profile) /\ ~Takes(d.p)
    BY <1>1, <1>8, <2>1, <2>2 DEF Careful
  <2>4. PICK e \in calls : e.p = d.p /\ Looking(e)
    BY <1>5, <1>8, <2>3
  <2>5. Holding(profile[d.p])
    BY <1>4, <2>4 DEF Looking
  <2>. QED
    BY <1>8, <2>1, <2>3, <2>5 DEF AccountActive
<1>9. ASSUME NEW c \in calls', NEW d \in calls', Looking(c), Looking(d),
             Account[c.p] = Account[d.p]
      PROVE  c.p = d.p
  <2>. SUFFICES ASSUME c.p # d.p PROVE FALSE
    OBVIOUS
  <2>1. ~Takes(c.p) /\ ~Takes(d.p)
    BY <1>8, <1>9
  <2>2. PICK x \in calls : x.p = c.p /\ Looking(x)
    BY <1>5, <1>9, <2>1
  <2>3. PICK y \in calls : y.p = d.p /\ Looking(y)
    BY <1>5, <1>9, <2>1
  <2>. QED
    BY <1>9, <2>2, <2>3 DEF RoomsInv
<1>10. ASSUME NEW p \in Studio, NEW s \in Sessions, rooms'[s] # Nobody,
              Account[rooms'[s]] = Account[p], rooms'[s] # rooms[s]
       PROVE  \E c \in calls \ calls' :
                /\ Looking(c) /\ c.op = "create" /\ Account[c.p] = Account[p]
                /\ OpenFor(p) = {}
                /\ \A t \in Sessions : t # s => rooms'[t] = rooms[t]
  <2>1. PICK c \in calls : /\ c.op = "create" /\ c \notin calls' /\ rooms'[s] = c.p
                           /\ \A t \in Sessions : t # s => rooms'[t] = rooms[t]
    BY <1>2, <1>10 DEF RoomsOpen
  <2>2. c.p \in Profiles \ Local
    BY <1>4, <2>1
  <2>3. c.p \in Studio
    BY <1>6, <1>10, <2>1, <2>2
  <2>4. Looking(c) /\ OpenFor(c.p) = {}
    BY <2>1, <2>3 DEF Looking, RoomsInv
  <2>5. OpenFor(p) = {}
    BY <1>10, <2>1, <2>4 DEF OpenFor
  <2>. QED
    BY <1>10, <2>1, <2>4, <2>5
<1>11. ASSUME NEW d \in calls', Looking(d), d.op = "create", NEW s \in Sessions,
              rooms'[s] # Nobody, Account[rooms'[s]] = Account[d.p]
       PROVE  FALSE
  <2>. DEFINE p == d.p
  <2>1. p \in Studio /\ p \in Profiles
    BY <1>3, <1>11 DEF Looking
  <2>2. d \in calls \/ (OpenFor(p) = {} /\ rooms' = rooms)
    BY <1>2, <1>11, <2>1 DEF Gentle
  <2>3. OpenFor(p) = {}
    BY <1>11, <2>2 DEF RoomsInv
  <2>4. rooms'[s] # rooms[s]
    BY <1>11, <2>3 DEF OpenFor
  <2>5. d \in calls
    BY <2>2, <2>4
  <2>6. PICK c \in calls \ calls' : Looking(c) /\ Account[c.p] = Account[p]
    BY <1>10, <1>11, <2>1, <2>4
  <2>7. c.p = p
    BY <1>11, <2>5, <2>6 DEF RoomsInv
  <2>8. Fit(Now(p), p) /\ Now(p).calls = calls
    BY <2>1 DEF PatientInv, Now
  <2>9. c = d
    BY <2>5, <2>6, <2>7, <2>8 DEF Fit
  <2>. QED
    BY <1>11, <2>6, <2>9
<1>12. ASSUME NEW p \in Studio, NEW s \in Sessions, NEW t \in Sessions, s # t,
              rooms'[s] # Nobody, rooms'[t] # Nobody,
              Account[rooms'[s]] = Account[p], Account[rooms'[t]] = Account[p]
       PROVE  FALSE
  <2>1. rooms'[s] = rooms[s]
    <3>. SUFFICES ASSUME rooms'[s] # rooms[s] PROVE FALSE
      OBVIOUS
    <3>1. OpenFor(p) = {} /\ rooms'[t] = rooms[t]
      BY <1>10, <1>12
    <3>. QED
      BY <1>12, <3>1 DEF OpenFor
  <2>2. rooms'[t] = rooms[t]
    <3>. SUFFICES ASSUME rooms'[t] # rooms[t] PROVE FALSE
      OBVIOUS
    <3>1. OpenFor(p) = {}
      BY <1>10, <1>12
    <3>. QED
      BY <1>12, <2>1, <3>1 DEF OpenFor
  <2>3. s \in OpenFor(p) /\ t \in OpenFor(p)
    BY <1>12, <2>1, <2>2 DEF OpenFor
  <2>. QED
    BY <1>12, <2>3 DEF RoomsInv
<1>13. ASSUME NEW p \in Studio, NEW s, s = profile'[p].sid, s # NoSession, rooms'[s] # Nobody
       PROVE  Account[rooms'[s]] = Account[p]
  <2>1. s \in Sessions /\ p \in Profiles
    BY <1>1, <1>7, <1>13 DEF IInv, TypeOK, Row
  <2>2. CASE rooms'[s] = p
    BY <2>2
  <2>3. CASE s \in OpenFor(p) /\ rooms' = rooms
    BY <2>3 DEF OpenFor
  <2>4. CASE s = profile[p].sid
    <3>1. CASE rooms'[s] = rooms[s]
      BY <1>13, <2>4, <3>1 DEF RoomsInv
    <3>2. CASE rooms'[s] # rooms[s]
      <4>1. PICK c \in calls : rooms'[s] = c.p /\ (s \in OpenFor(c.p) \/ Unused(s))
        BY <1>2, <1>13, <2>1, <3>2 DEF RoomsOpen
      <4>2. s \in OpenFor(c.p)
        BY <2>1, <2>4, <4>1 DEF Unused
      <4>. QED
        BY <1>13, <2>4, <4>1, <4>2 DEF OpenFor, RoomsInv
    <3>. QED
      BY <3>1, <3>2
  <2>. QED
    BY <1>2, <1>13, <2>1, <2>2, <2>3, <2>4 DEF Gentle
<1>14. \A p : \A s \in OpenFor(p)' :
         s \in Sessions /\ rooms'[s] # Nobody /\ Account[rooms'[s]] = Account[p]
  BY DEF OpenFor
<1>15. \A c \in calls' : Looking(c)' = Looking(c)
  BY DEF Looking
<1>16. \A c \in calls' : Looking(c) /\ c.op = "create" => OpenFor(c.p)' = {}
  BY <1>11, <1>14
<1>17. \A p \in Studio : \A s, t \in OpenFor(p)' : s = t
  BY <1>12, <1>14
<1>. QED
  BY <1>9, <1>13, <1>15, <1>16, <1>17 DEF RoomsInv

\* Without restarts, and with logins that only LIVE Studio profiles share, a
\* profile gives up the session it holds or is ending only when the platform has
\* closed it or its user insists, whichever requests fail and answers are lost.
THEOREM SessionsKept ==
  ASSUME MaxPending = 0, Steady, LoginsApart PROVE Spec => KeptOrEnding
<1>1. IInv /\ PatientInv /\ RoomsInv /\ [Next]_vars => RoomsInv'
  <2>1. ASSUME RoomsInv, UNCHANGED vars PROVE RoomsInv'
    BY <2>1 DEF vars, RoomsInv, Looking, OpenFor
  <2>. QED
    BY <2>1, NextRooms
<1>2. IInv /\ PatientInv /\ RoomsInv /\ [Next]_vars =>
        [\A p \in Profiles : GivesUp(p) =>
            rooms'[profile[p].sid] = Nobody \/ Overruled(p)]_vars
  <2>. SUFFICES ASSUME IInv, PatientInv, RoomsInv, Next, NEW p \in Profiles, GivesUp(p)
                PROVE  rooms'[profile[p].sid] = Nobody \/ Overruled(p)
    BY DEF vars
  <2>1. Careful
    BY NextCareful
  <2>2. /\ profile[p].sid # NoSession
        /\ ~(HoldingOrEnding(profile'[p]) /\ profile'[p].sid = profile[p].sid)
    BY DEF GivesUp
  <2>3. RowFits(p, profile'[p]) /\ Gentle(p, profile'[p], calls')
    BY <2>1 DEF Careful, PatientInv, Fit, Now, RowFits, HoldingOrEnding, Holding
  <2>4. profile'[p].sid # profile[p].sid
    BY <2>2, <2>3 DEF RowFits
  <2>. QED
    BY <2>2, <2>3, <2>4 DEF Gentle
<1>. QED
  BY <1>1, <1>2, InitRooms, Invariant, Patient, PTL DEF Spec, KeptOrEnding

-----------------------------------------------------------------------------
\* A LIVE Studio profile that is started together with its output is shown LIVE
\* by verify_aitum_output_started alone.  Of its pending calls it is enough to
\* know two things: it is signed without an output only, and the error paths
\* that show the other profiles LIVE are not its own.
Proper(c) ==
  c.p \in Studio => /\ c.op = "sign" => c.o = NoOutput
                    /\ c.op \notin {"unsigned", "endUnsigned", "endUpdate"}
Guarded(c) == c.p \in Studio /\ c.start /\ c.o \in Outputs

\* g adds proper calls to those of h, drops none but prefetches, and does not
\* show the profile LIVE where b says that it must not.
Waits(h, g, b) ==
  /\ g \in Handler /\ Keeps(h, g)
  /\ \A d \in g.calls : d \in h.calls \/ Proper(d)
  /\ b /\ g.row.live => h.row.live

LEMMA WaitsAll ==
  ASSUME NEW h, NEW g, NEW k, NEW b, Waits(h, g, b), Waits(g, k, b)
  PROVE  Waits(h, k, b)
BY DEF Waits, Keeps

LEMMA WithWaits ==
  ASSUME NEW h \in Handler, NEW b, NEW row \in Row, b /\ row.live => h.row.live
  PROVE  Waits(h, With(h, row), b)
BY WithIs DEF Waits, Keeps

LEMMA IssueWaits ==
  ASSUME NEW h \in Handler, NEW b, NEW c \in Call, Proper(c)
  PROVE  Waits(h, Issue(h, c), b)
BY IssueIs DEF Waits, Keeps

LEMMA UnmarkWaits ==
  ASSUME NEW h \in Handler, NEW b, NEW o
  PROVE  Waits(h, Unmark(h, o), b) /\ Waits(h, h, b)
BY UnmarkIs DEF Waits, Keeps

LEMMA DetachWaits ==
  ASSUME NEW h \in Handler, NEW b, NEW o
  PROVE  Waits(h, Detach(h, o), b)
BY DetachIs DEF Waits, Keeps

LEMMA ClearSessionWaits ==
  ASSUME NEW h \in Handler, NEW b, NEW p
  PROVE  Waits(h, ClearSession(h, p), b)
<1>. DEFINE d == Detach(h, SigningTarget(h.row))
            row == ClearLive(p, h.row)
<1>1. row \in Row /\ ~row.live
  BY ClearIs DEF Handler
<1>2. Waits(h, d, b) /\ d \in Handler
  BY DetachWaits, DetachIs
<1>. HIDE DEF d, row
<1>3. Waits(d, With(d, row), b)
  BY <1>1, <1>2, WithWaits
<1>4. ClearSession(h, p) = With(d, row)
  BY DEF ClearSession, d, row
<1>. QED
  BY <1>2, <1>3, <1>4, WaitsAll

LEMMA RefreshWaits ==
  ASSUME NEW h \in Handler, NEW b, NEW p \in Profiles
  PROVE  Waits(h, Refresh(h, p), b) /\ Refresh(h, p).row = h.row /\ Refresh(h, p).enc = h.enc
<1>1. RefreshCall(p) \in Call /\ Proper(RefreshCall(p))
  BY DEF RefreshCall, Call, Ops, Target, Proper
<1>2. Waits(h, Issue(h, RefreshCall(p)), b) /\ Waits(h, h, b)
  BY <1>1, IssueWaits, UnmarkWaits
<1>3. Issue(h, RefreshCall(p)).row = h.row /\ Issue(h, RefreshCall(p)).enc = h.enc
  BY DEF Issue, Handler
<1>. QED
  BY <1>2, <1>3 DEF Refresh, RefreshCall

\* The end_live callbacks.
LEMMA FinishEndWaits ==
  ASSUME NEW h \in Handler, NEW c \in Call, NEW ended \in BOOLEAN, NEW b \in BOOLEAN,
         c.op \in EndOps \cup {"endUpdate", "endRecovery"},
         b => c.op \notin {"endUnsigned", "endUpdate"}
  PROVE  Waits(h, FinishEnd(h, c, ended), b)
<1>. DEFINE g == IF c.start \/ c.op \in {"endUnsigned", "endUnstarted"} THEN Unmark(h, c.o) ELSE h
            done == [g.row EXCEPT !.ending = FALSE]
            rest == [g.row EXCEPT !.preparing = FALSE]
            failed == CASE c.op = "endUser" -> [done EXCEPT !.uncertain = TRUE]
                        [] c.op = "endFailed" -> [done EXCEPT !.live = FALSE, !.uncertain = TRUE]
                        [] c.op = "endUnsigned" -> MarkUncertain(done, c.s)
                        [] c.op = "endUnstarted" -> done
                        [] c.op = "endUpdate" -> Reserve(g.row, c.s)
                        [] c.op = "endRecovery" -> [g.row EXCEPT !.recovering = FALSE,
                                                                 !.uncertain = TRUE]
<1>1. Waits(h, g, b) /\ g \in Handler /\ g.row = h.row /\ h.row \in Row
  BY UnmarkIs, UnmarkWaits DEF Handler
<1>2. c.p \in Profiles /\ c.s \in Sessions \cup {NoSession}
  BY DEF Call
<1>3. FinishEnd(h, c, ended) =
        IF ended
        THEN IF c.op = "endUpdate" THEN With(g, rest)
             ELSE IF c.op = "endUser" THEN Refresh(ClearSession(With(g, done), c.p), c.p)
             ELSE ClearSession(With(g, done), c.p)
        ELSE With(g, failed)
  BY DEF FinishEnd
<1>. HIDE DEF g
<1>a. g.row \in Row
  BY <1>1
<1>b. done \in Row /\ done.live = g.row.live
  BY <1>a DEF Row
<1>c. rest \in Row /\ rest.live = g.row.live
  BY <1>a DEF Row
<1>4. done \in Row /\ done.live = h.row.live /\ rest \in Row /\ rest.live = h.row.live
  BY <1>1, <1>b, <1>c
<1>. HIDE DEF done, rest
<1>5. failed \in Row /\ (b /\ failed.live => h.row.live)
  <2>1. CASE c.op = "endUser"
    <3>1. LET r == [done EXCEPT !.uncertain = TRUE] IN r \in Row /\ r.live = done.live
      BY <1>4 DEF Row
    <3>2. failed = [done EXCEPT !.uncertain = TRUE]
      BY <2>1
    <3>. QED
      BY <1>4, <3>1, <3>2
  <2>2. CASE c.op = "endFailed"
    <3>1. LET r == [done EXCEPT !.live = FALSE, !.uncertain = TRUE] IN r \in Row /\ ~r.live
      BY <1>4 DEF Row
    <3>2. failed = [done EXCEPT !.live = FALSE, !.uncertain = TRUE]
      BY <2>2
    <3>. QED
      BY <3>1, <3>2
  <2>3. CASE c.op = "endUnsigned"
    <3>1. failed = MarkUncertain(done, c.s)
      BY <2>3
    <3>. QED
      BY <1>2, <1>4, <2>3, <3>1, ReserveIs
  <2>4. CASE c.op = "endUnstarted"
    <3>1. failed = done
      BY <2>4
    <3>. QED
      BY <1>4, <3>1
  <2>5. CASE c.op = "endUpdate"
    <3>1. failed = Reserve(g.row, c.s)
      BY <2>5
    <3>. QED
      BY <1>1, <1>2, <2>5, <3>1, ReserveIs
  <2>6. CASE c.op = "endRecovery"
    <3>1. LET r == [g.row EXCEPT !.recovering = FALSE, !.uncertain = TRUE]
          IN r \in Row /\ r.live = g.row.live
      BY <1>1 DEF Row
    <3>2. failed = [g.row EXCEPT !.recovering = FALSE, !.uncertain = TRUE]
      BY <2>6
    <3>. QED
      BY <1>1, <3>1, <3>2
  <2>. QED
    BY <2>1, <2>2, <2>3, <2>4, <2>5, <2>6 DEF EndOps
<1>. HIDE DEF failed
<1>6. Waits(g, With(g, failed), b) /\ Waits(g, With(g, rest), b) /\ Waits(g, With(g, done), b)
  BY <1>1, <1>4, <1>5, WithWaits
<1>. DEFINE k == ClearSession(With(g, done), c.p)
<1>7. Waits(With(g, done), k, b)
  BY <1>6, ClearSessionWaits DEF Waits
<1>8. Waits(k, Refresh(k, c.p), b)
  BY <1>2, <1>7, RefreshWaits DEF Waits
<1>. HIDE DEF k
<1>9. Waits(g, k, b) /\ Waits(g, Refresh(k, c.p), b)
  BY <1>6, <1>7, <1>8, WaitsAll
<1>10. FinishEnd(h, c, ended) \in {With(g, rest), Refresh(k, c.p), k, With(g, failed)}
  BY <1>3 DEF k
<1>. QED
  BY <1>1, <1>6, <1>9, <1>10, WaitsAll

LEMMA RequestEndWaits ==
  ASSUME NEW h \in Handler, NEW c \in Call, NEW b \in BOOLEAN, Proper(c),
         c.op \in EndOps \cup {"endUpdate", "endRecovery"},
         b => c.op \notin {"endUnsigned", "endUpdate"}
  PROVE  Waits(h, RequestEnd(h, c), b)
BY FinishEndWaits, IssueWaits DEF RequestEnd

LEMMA FailWaits ==
  ASSUME NEW h \in Handler, NEW c \in Call, NEW b
  PROVE  Waits(h, Fail(h, c), b)
<1>. DEFINE d == Detach(h, c.o)
            row == [h.row EXCEPT !.preparing = FALSE, !.ending = TRUE]
            f == [c EXCEPT !.op = "failed"]
<1>1. row \in Row /\ row.live = h.row.live
  BY EndingIs DEF Handler
<1>2. f \in Call /\ Proper(f)
  BY RelabelIs DEF Ops, Proper
<1>3. Waits(h, d, b) /\ d \in Handler /\ d.row = h.row
  BY DetachWaits, DetachIs
<1>. HIDE DEF d, row, f
<1>4. Waits(d, With(d, row), b) /\ With(d, row) \in Handler
  BY <1>1, <1>3, WithWaits, WithIs
<1>5. Waits(With(d, row), Issue(With(d, row), f), b)
  BY <1>2, <1>4, IssueWaits
<1>6. Fail(h, c) = Issue(With(d, row), f)
  BY DEF Fail, d, row, f
<1>. QED
  BY <1>3, <1>4, <1>5, <1>6, WaitsAll

\* The callbacks of prepare_output_signing: the one that succeeds shows a LIVE
\* Studio profile LIVE, and is its own only without an output.
LEMMA SignedWaits ==
  ASSUME NEW h \in Handler, NEW c \in Call
  PROVE  Waits(h, Signed(h, c), FALSE)
<1>1. h.row \in Row /\ c.p \in Profiles
  BY DEF Handler, Call
<1>2. CASE c.p \in Studio
  <2>. DEFINE row == [h.row EXCEPT !.live = TRUE, !.preparing = FALSE]
  <2>1. row \in Row
    BY <1>1, FlagsIs
  <2>. HIDE DEF row
  <2>2. Waits(h, With(h, row), FALSE) /\ With(h, row) \in Handler
    BY <2>1, WithWaits, WithIs
  <2>3. Waits(With(h, row), Refresh(With(h, row), c.p), FALSE)
    BY <1>1, <2>2, RefreshWaits
  <2>4. Signed(h, c) = Refresh(With(h, row), c.p)
    BY <1>2 DEF Signed, row
  <2>. QED
    BY <2>2, <2>3, <2>4, WaitsAll
<1>3. CASE c.p \notin Studio
  <2>. DEFINE row == [h.row EXCEPT !.preparing = FALSE]
              g == With(h, row)
              s == [c EXCEPT !.op = "start"]
  <2>1. row \in Row
    BY <1>1, PreparingIs
  <2>2. s \in Call /\ Proper(s)
    BY RelabelIs DEF Ops, Proper
  <2>. HIDE DEF row, s
  <2>3. Waits(h, g, FALSE) /\ g \in Handler
    BY <2>1, WithWaits, WithIs
  <2>4. Signed(h, c) \in {g, Issue(g, s)}
    BY <1>3 DEF Signed, row, s
  <2>. HIDE DEF g
  <2>5. Waits(g, Issue(g, s), FALSE)
    BY <2>2, <2>3, IssueWaits
  <2>. QED
    BY <2>3, <2>4, <2>5, WaitsAll
<1>. QED
  BY <1>2, <1>3

LEMMA UnsignedWaits ==
  ASSUME NEW h \in Handler, NEW c \in Call
  PROVE  Waits(h, Unsigned(h, c), FALSE)
<1>1. CASE c.p \in Studio
  <2>1. [c EXCEPT !.start = FALSE] \in Call
    BY DEF Call
  <2>. QED
    BY <1>1, <2>1, FailWaits DEF Unsigned
<1>2. CASE c.p \notin Studio
  <2>. DEFINE row == [h.row EXCEPT !.preparing = FALSE, !.ending = TRUE]
              g == With(h, row)
              u == [c EXCEPT !.op = "unsigned"]
  <2>1. row \in Row
    BY EndingIs DEF Handler
  <2>2. u \in Call /\ Proper(u)
    BY <1>2, RelabelIs DEF Ops, Proper
  <2>3. Unsigned(h, c) = Issue(g, u)
    BY <1>2 DEF Unsigned
  <2>. HIDE DEF row, u
  <2>4. Waits(h, g, FALSE) /\ g \in Handler
    BY <2>1, WithWaits, WithIs
  <2>. HIDE DEF g
  <2>5. Waits(g, Issue(g, u), FALSE)
    BY <2>2, <2>4, IssueWaits
  <2>. QED
    BY <2>3, <2>4, <2>5, WaitsAll
<1>. QED
  BY <1>1, <1>2

\* prepare_output_signing
LEMMA RequestSignWaits ==
  ASSUME NEW h \in Handler, NEW c \in Call, c.p \in Studio => c.o = NoOutput
  PROVE  Waits(h, RequestSign(h, c), FALSE)
<1>. DEFINE r == [h.row EXCEPT !.signing = c.o]
            u == [h.row EXCEPT !.signing = Unset]
            s == [c EXCEPT !.op = "sign"]
            previous == IF h.row.signing = Unset THEN c.o ELSE h.row.signing
<1>1. r \in Row /\ u \in Row
  BY SigningIs DEF Handler, Call
<1>2. s \in Call /\ Proper(s)
  BY RelabelIs DEF Ops, Proper
<1>3. RequestSign(h, c) = IF c.p \in Signing
                          THEN Issue(Detach(With(h, r), c.o), s)
                          ELSE Signed(With(Detach(h, previous), u), c)
  BY DEF RequestSign
<1>. HIDE DEF r, u, s, previous
<1>4. CASE c.p \in Signing
  <2>. DEFINE g == With(h, r)
              d == Detach(g, c.o)
  <2>1. Waits(h, g, FALSE) /\ g \in Handler
    BY <1>1, WithWaits, WithIs
  <2>2. RequestSign(h, c) = Issue(d, s)
    BY <1>3, <1>4
  <2>. HIDE DEF g
  <2>3. Waits(g, d, FALSE) /\ d \in Handler
    BY <2>1, DetachWaits, DetachIs
  <2>. HIDE DEF d
  <2>4. Waits(d, Issue(d, s), FALSE)
    BY <1>2, <2>3, IssueWaits
  <2>. QED
    BY <2>1, <2>2, <2>3, <2>4, WaitsAll
<1>5. CASE c.p \notin Signing
  <2>. DEFINE d == Detach(h, previous)
              g == With(d, u)
  <2>1. RequestSign(h, c) = Signed(g, c)
    BY <1>3, <1>5
  <2>2. Waits(h, d, FALSE) /\ d \in Handler
    BY DetachWaits, DetachIs
  <2>. HIDE DEF d
  <2>3. Waits(d, g, FALSE) /\ g \in Handler
    BY <1>1, <2>2, WithWaits, WithIs
  <2>. HIDE DEF g
  <2>4. Waits(g, Signed(g, c), FALSE)
    BY <2>3, SignedWaits
  <2>. QED
    BY <2>1, <2>2, <2>3, <2>4, WaitsAll
<1>. QED
  BY <1>4, <1>5

\* The callbacks of update_aitum_output_for_profile: with an output to start, a
\* LIVE Studio profile goes on to the timer of the verification.
LEMMA UpdatedWaits ==
  ASSUME NEW h \in Handler, NEW c \in Call
  PROVE  Waits(h, Updated(h, c), Guarded(c))
<1>. DEFINE b == Guarded(c)
<1>0. b \in BOOLEAN /\ (b => c.p \in Studio /\ c.start) /\ h.row \in Row /\ c.p \in Profiles
      /\ c.s \in Sessions \cup {NoSession}
  BY DEF Guarded, Call, Handler
<1>. HIDE DEF b
<1>1. CASE c.p \in Studio /\ c.start
  <2>. DEFINE row == [h.row EXCEPT !.preparing = TRUE]
              g == With(h, row)
              s == [c EXCEPT !.op = "start"]
  <2>1. row \in Row /\ row.live = h.row.live
    BY <1>0, PreparingIs
  <2>2. s \in Call /\ Proper(s)
    BY RelabelIs DEF Ops, Proper
  <2>3. Updated(h, c) = Issue(g, s)
    BY <1>1 DEF Updated
  <2>. HIDE DEF row, s
  <2>4. Waits(h, g, b) /\ g \in Handler
    BY <2>1, WithWaits, WithIs
  <2>. HIDE DEF g
  <2>5. Waits(g, Issue(g, s), b)
    BY <2>2, <2>4, IssueWaits
  <2>6. Waits(h, Issue(g, s), b)
    BY <2>4, <2>5, WaitsAll
  <2>. QED
    BY <2>3, <2>6 DEF b
<1>2. CASE c.p \in Studio /\ ~c.start
  <2>. DEFINE row == [h.row EXCEPT !.live = TRUE, !.preparing = FALSE]
              g == With(h, row)
              u == Unmark(g, c.o)
  <2>1. row \in Row
    BY <1>0, FlagsIs
  <2>2. Updated(h, c) = Refresh(u, c.p)
    BY <1>2 DEF Updated
  <2>. HIDE DEF row
  <2>3. Waits(h, g, b) /\ g \in Handler
    BY <1>0, <1>2, <2>1, WithWaits, WithIs
  <2>. HIDE DEF g
  <2>4. Waits(g, u, b) /\ u \in Handler
    BY <2>3, UnmarkWaits, UnmarkIs
  <2>. HIDE DEF u
  <2>5. Waits(u, Refresh(u, c.p), b)
    BY <1>0, <2>4, RefreshWaits
  <2>6. Waits(h, Refresh(u, c.p), b)
    BY <2>3, <2>4, <2>5, WaitsAll
  <2>. QED
    BY <2>2, <2>6 DEF b
<1>3. CASE c.p \notin Studio
  <2>. DEFINE m == Reserve(h.row, c.s)
              row == [m EXCEPT !.preparing = c.p \in Signing]
              g == With(h, row)
  <2>1. m \in Row
    BY <1>0, ReserveIs
  <2>2. Updated(h, c) = RequestSign(g, c)
    BY <1>3 DEF Updated
  <2>. HIDE DEF m
  <2>3. row \in Row
    <3>1. \A x \in BOOLEAN : [m EXCEPT !.preparing = x] \in Row
      BY <2>1, PreparingIs
    <3>2. (c.p \in Signing) \in BOOLEAN
      OBVIOUS
    <3>. QED
      BY <3>1, <3>2
  <2>. HIDE DEF row
  <2>4. Waits(h, g, FALSE) /\ g \in Handler
    BY <2>3, WithWaits, WithIs
  <2>. HIDE DEF g
  <2>5. Waits(g, RequestSign(g, c), FALSE)
    BY <1>3, <2>4, RequestSignWaits
  <2>6. Waits(h, RequestSign(g, c), FALSE)
    BY <2>4, <2>5, WaitsAll
  <2>7. b = FALSE
    BY <1>0, <1>3
  <2>. QED
    BY <2>2, <2>6, <2>7 DEF b
<1>. QED
  BY <1>1, <1>2, <1>3

LEMMA NotUpdatedWaits ==
  ASSUME NEW h \in Handler, NEW c \in Call
  PROVE  Waits(h, NotUpdated(h, c), Guarded(c))
<1>1. CASE c.p \in Studio
  BY <1>1, FailWaits DEF NotUpdated
<1>2. CASE c.p \notin Studio
  <2>. DEFINE row == [h.row EXCEPT !.preparing = FALSE]
              g == With(h, row)
              e == [c EXCEPT !.op = "endUpdate"]
  <2>1. row \in Row
    BY PreparingIs DEF Handler
  <2>2. e \in Call /\ e.op = "endUpdate" /\ Proper(e)
    BY <1>2, RelabelIs DEF Ops, Proper
  <2>3. NotUpdated(h, c) = RequestEnd(g, e)
    BY <1>2 DEF NotUpdated
  <2>. HIDE DEF row, e
  <2>4. Waits(h, g, FALSE) /\ g \in Handler
    BY <2>1, WithWaits, WithIs
  <2>. HIDE DEF g
  <2>5. Waits(g, RequestEnd(g, e), FALSE)
    BY <2>2, <2>4, RequestEndWaits
  <2>6. Waits(h, RequestEnd(g, e), FALSE)
    BY <2>4, <2>5, WaitsAll
  <2>7. Guarded(c) = FALSE
    BY <1>2 DEF Guarded
  <2>. QED
    BY <2>3, <2>6, <2>7
<1>. QED
  BY <1>1, <1>2

LEMMA RequestUpdateWaits ==
  ASSUME NEW h \in Handler, NEW c \in Call
  PROVE  Waits(h, RequestUpdate(h, c), Guarded(c))
<1>1. [c EXCEPT !.op = "update"] \in Call /\ Proper([c EXCEPT !.op = "update"])
  BY RelabelIs DEF Ops, Proper
<1>. QED
  BY <1>1, IssueWaits, NotUpdatedWaits DEF RequestUpdate

\* What follows the creation of a session.
LEMMA ActivateWaits ==
  ASSUME NEW h \in Handler, NEW c \in Call
  PROVE  Waits(h, Activate(h, c), Guarded(c))
<1>. DEFINE m == Reserve(h.row, c.s)
            row == [m EXCEPT !.live = FALSE, !.preparing = TRUE]
            g == With(h, row)
<1>1. m \in Row
  BY ReserveIs DEF Handler, Call
<1>2. Activate(h, c) = IF c.o = NoOutput THEN RequestSign(g, c) ELSE RequestUpdate(g, c)
  BY DEF Activate
<1>. HIDE DEF m
<1>3. row \in Row /\ ~row.live
  BY <1>1, FlagsIs
<1>. HIDE DEF row
<1>4. Waits(h, g, Guarded(c)) /\ g \in Handler
  BY <1>3, WithWaits, WithIs
<1>. HIDE DEF g
<1>5. CASE c.o = NoOutput
  <2>1. Guarded(c) = FALSE
    BY <1>5, OutputAssumption DEF Guarded
  <2>2. Waits(g, RequestSign(g, c), FALSE)
    BY <1>4, <1>5, RequestSignWaits
  <2>. QED
    BY <1>2, <1>4, <1>5, <2>1, <2>2, WaitsAll
<1>6. CASE c.o # NoOutput
  BY <1>2, <1>4, <1>6, RequestUpdateWaits, WaitsAll
<1>. QED
  BY <1>5, <1>6

LEMMA CreatedWaits ==
  ASSUME NEW h \in Handler, NEW c \in Call, c.p \notin Studio
  PROVE  Waits(h, Created(h, c), FALSE)
<1>. DEFINE m == Reserve(h.row, c.s)
            row == [m EXCEPT !.preparing = TRUE]
            g == With(h, row)
<1>1. m \in Row
  BY ReserveIs DEF Handler, Call
<1>2. Created(h, c) \in {RequestSign(g, c), With(h, m), RequestUpdate(h, c)}
  BY DEF Created
<1>. HIDE DEF m
<1>3. row \in Row
  BY <1>1, PreparingIs
<1>. HIDE DEF row
<1>4. Waits(h, g, FALSE) /\ g \in Handler /\ Waits(h, With(h, m), FALSE)
  BY <1>1, <1>3, WithWaits, WithIs
<1>. HIDE DEF g
<1>5. Waits(g, RequestSign(g, c), FALSE)
  BY <1>4, RequestSignWaits
<1>6. Waits(h, RequestSign(g, c), FALSE)
  BY <1>4, <1>5, WaitsAll
<1>7. Guarded(c) = FALSE
  BY DEF Guarded
<1>8. Waits(h, RequestUpdate(h, c), FALSE)
  BY <1>7, RequestUpdateWaits
<1>. QED
  BY <1>2, <1>4, <1>6, <1>8

LEMMA StartWaits ==
  ASSUME NEW h \in Handler, NEW p \in Profiles, NEW start \in BOOLEAN
  PROVE  Waits(h, Start(h, p, start), FALSE)
<1>. DEFINE row == [h.row EXCEPT !.preparing = TRUE, !.ending = FALSE, !.uncertain = FALSE]
            g == With(h, row)
            c == [op |-> IF p \in Studio THEN "find" ELSE "create",
                  p |-> p, o |-> h.row.output, s |-> NoSession, start |-> start]
<1>1. row \in Row /\ h.row.output \in Target
  BY DEF Handler, Row
<1>2. c \in Call /\ c.p = p /\ Proper(c)
  BY <1>1 DEF Call, Ops, Proper
<1>3. Begin(h, p, start) = IF p \in Local THEN Created(g, c) ELSE Issue(g, c)
  BY DEF Begin
<1>. HIDE DEF row, c
<1>4. Waits(h, g, FALSE) /\ g \in Handler
  BY <1>1, WithWaits, WithIs
<1>. HIDE DEF g
<1>5. Waits(g, Issue(g, c), FALSE)
  BY <1>2, <1>4, IssueWaits
<1>6. p \in Local => Waits(g, Created(g, c), FALSE)
  BY <1>2, <1>4, CreatedWaits, StudioRemote
<1>7. Waits(h, Begin(h, p, start), FALSE)
  BY <1>3, <1>4, <1>5, <1>6, WaitsAll
<1>. QED
  BY <1>7, UnmarkWaits DEF Start

LEMMA EndUnstartedWaits ==
  ASSUME NEW h \in Handler, NEW c \in Call, NEW b \in BOOLEAN
  PROVE  Waits(h, EndUnstarted(h, c), b)
<1>. DEFINE row == [h.row EXCEPT !.ending = TRUE]
            g == With(h, row)
            e == [c EXCEPT !.op = "endUnstarted", !.s = h.row.sid]
<1>1. row \in Row /\ row.live = h.row.live /\ h.row.sid \in Sessions \cup {NoSession}
  BY EndingIs DEF Handler, Row
<1>2. e \in Call /\ e.op = "endUnstarted" /\ Proper(e)
  BY <1>1 DEF Call, Ops, EndOps, Proper
<1>3. EndUnstarted(h, c) \in {Unmark(h, c.o), RequestEnd(g, e)}
  BY DEF EndUnstarted
<1>. HIDE DEF row, e
<1>4. Waits(h, g, b) /\ g \in Handler
  BY <1>1, WithWaits, WithIs
<1>. HIDE DEF g
<1>5. Waits(g, RequestEnd(g, e), b)
  BY <1>2, <1>4, RequestEndWaits DEF EndOps
<1>. QED
  BY <1>3, <1>4, <1>5, UnmarkWaits, WaitsAll

\* One attempt of verify_aitum_output_started shows the profile LIVE only if the
\* output is active.
LEMMA VerifyOnceWaits ==
  ASSUME NEW h \in Handler, NEW c \in Call
  PROVE  LET g == VerifyOnce(h, c)
         IN Waits(h, g, FALSE) /\ (g.row.live => h.row.live \/ g.enc[c.o] = "active")
<1>. DEFINE u == Unmark(h, c.o)
            row == [h.row EXCEPT !.live = TRUE, !.preparing = FALSE, !.uncertain = FALSE]
            w == With(u, row)
            v == [c EXCEPT !.op = "verify"]
            g == VerifyOnce(h, c)
<1>1. row \in Row /\ c.p \in Profiles
  BY DEF Handler, Row, Call
<1>2. v \in Call /\ Proper(v)
  BY RelabelIs DEF Ops, Proper
<1>3. \/ g = u \/ g = Issue(h, v)
      \/ g = Refresh(w, c.p) /\ h.enc[c.o] = "active"
  BY DEF VerifyOnce
<1>. HIDE DEF row, v, g
<1>4. Waits(h, u, FALSE) /\ u \in Handler /\ u.row = h.row /\ u.enc = h.enc
  BY UnmarkWaits, UnmarkIs
<1>. HIDE DEF u
<1>5. Waits(u, w, FALSE) /\ w \in Handler /\ w.enc = h.enc
  BY <1>1, <1>4, WithWaits, WithIs
<1>. HIDE DEF w
<1>6. Waits(w, Refresh(w, c.p), FALSE) /\ Refresh(w, c.p).enc = w.enc
  BY <1>1, <1>5, RefreshWaits
<1>7. Waits(h, Refresh(w, c.p), FALSE)
  BY <1>4, <1>5, <1>6, WaitsAll
<1>8. Waits(h, Issue(h, v), FALSE) /\ Issue(h, v).row = h.row
  BY <1>2, IssueWaits, IssueIs
<1>9. Waits(h, g, FALSE) /\ (g.row.live => h.row.live \/ g.enc[c.o] = "active")
  BY <1>3, <1>4, <1>5, <1>6, <1>7, <1>8
<1>. QED
  BY <1>9 DEF g

LEMMA EndWaits ==
  ASSUME NEW h \in Handler, NEW p \in Profiles, NEW stopped \in BOOLEAN
  PROVE  Waits(h, End(h, p, stopped), FALSE)
<1>. DEFINE o == h.row.output
            row == [h.row EXCEPT !.ending = TRUE]
            g == With(h, row)
            k == [g EXCEPT !.enc[o] = "off"]
            ask == [op |-> "endUser", p |-> p, o |-> o, s |-> h.row.sid, start |-> FALSE]
<1>1. row \in Row /\ o \in Target /\ h.row.sid \in Sessions \cup {NoSession}
  BY EndingIs DEF Handler, Row
<1>2. ask \in Call /\ ask.op = "endUser" /\ Proper(ask)
  BY <1>1 DEF Call, Ops, EndOps, Proper
<1>3. End(h, p, stopped) \in {RequestEnd(g, ask), RequestEnd(k, ask), h}
  BY DEF End
<1>. HIDE DEF row, ask, o
<1>4. Waits(h, g, FALSE) /\ g \in Handler
  BY <1>1, WithWaits, WithIs
<1>. HIDE DEF g
<1>5. k \in Handler /\ k.row = g.row /\ k.calls = g.calls
  BY <1>4 DEF Handler, Encoders
<1>. HIDE DEF k
<1>6. Waits(g, k, FALSE)
  BY <1>5 DEF Waits, Keeps
<1>7. Waits(g, RequestEnd(g, ask), FALSE) /\ Waits(k, RequestEnd(k, ask), FALSE)
  BY <1>2, <1>4, <1>5, RequestEndWaits DEF EndOps
<1>8. Waits(h, h, FALSE)
  BY UnmarkWaits
<1>. QED
  BY <1>3, <1>4, <1>6, <1>7, <1>8, WaitsAll

\* What the steps keep of the calls, and what they keep to.
AllProper == \A c \in calls : Proper(c)
Verified ==
  \A c \in calls \ calls' :
    c.p \in Studio /\ c.start /\ c.o \in Outputs /\ ~profile[c.p].live /\ profile'[c.p].live
    /\ restarts' = restarts
      => encoders'[c.o] = "active"

\* A handler that takes at most the call of its profile, from the current record
\* or one that differs from it in the outputs only.
LEMMA CommitVerified ==
  ASSUME IInv, AllProper, NEW p \in Profiles, NEW h, h.row = profile[p], h.calls \subseteq calls,
         NEW g, Waits(h, g, FALSE), Commit(p, g),
         \A c \in calls \ h.calls :
           c.p = p /\ (Guarded(c) /\ g.row.live => h.row.live \/ g.enc[c.o] = "active")
  PROVE  AllProper' /\ Verified
<1>1. calls' = g.calls /\ encoders' = g.enc /\ profile'[p] = g.row
  BY DEF Commit, IInv, TypeOK
<1>2. AllProper'
  BY <1>1 DEF AllProper, Waits
<1>3. Verified
  <2>. SUFFICES ASSUME NEW c \in calls \ calls', c.p \in Studio, c.start, c.o \in Outputs,
                       ~profile[c.p].live, profile'[c.p].live
                PROVE  encoders'[c.o] = "active"
    BY DEF Verified
  <2>1. CASE c \in h.calls
    <3>1. c.op = "sign"
      BY <1>1, <2>1 DEF Waits, Keeps
    <3>2. c.o = NoOutput
      BY <3>1 DEF AllProper, Proper
    <3>. QED
      BY <3>2, OutputAssumption
  <2>2. CASE c \notin h.calls
    BY <1>1, <2>2 DEF Guarded
  <2>. QED
    BY <2>1, <2>2
<1>. QED
  BY <1>2, <1>3

\* A user action takes no call.
LEMMA UserVerified ==
  ASSUME IInv, AllProper, User
  PROVE  AllProper' /\ Verified
<1>0. \A p \in Profiles : Now(p) \in Handler /\ Now(p).row = profile[p] /\ Now(p).calls = calls
  BY NowSound DEF Sound, Typed, Now
<1>a. ASSUME NEW p \in Profiles, NEW h, h.row = profile[p], h.calls = calls, NEW g,
             Waits(h, g, FALSE), Commit(p, g)
      PROVE  AllProper' /\ Verified
  BY <1>a, CommitVerified
<1>b. ASSUME UNCHANGED <<profile, calls>> PROVE AllProper' /\ Verified
  BY <1>b DEF AllProper, Verified
<1>1. ASSUME NEW p \in Profiles, PressGoLive(p) PROVE AllProper' /\ Verified
  <2>1. PICK b \in BOOLEAN : Commit(p, Start(Now(p), p, b))
    BY <1>1 DEF PressGoLive
  <2>. QED
    BY <1>0, <1>a, <2>1, StartWaits
<1>2. ASSUME NEW o \in Outputs, PressOutputOn(o) PROVE AllProper' /\ Verified
  <2>1. ASSUME NEW p \in Profiles,
               Commit(p, Start([Now(p) EXCEPT !.prep = @ \cup {o}], p, TRUE))
        PROVE  AllProper' /\ Verified
    <3>. DEFINE h == [Now(p) EXCEPT !.prep = @ \cup {o}]
    <3>1. h \in Handler /\ h.row = profile[p] /\ h.calls = calls
      BY <1>0 DEF Handler
    <3>2. Commit(p, Start(h, p, TRUE))
      BY <2>1
    <3>. HIDE DEF h
    <3>3. Waits(h, Start(h, p, TRUE), FALSE)
      BY <3>1, StartWaits
    <3>. QED
      BY <1>a, <3>1, <3>2, <3>3
  <2>. QED
    BY <1>2, <1>b, <2>1 DEF PressOutputOn
<1>3. ASSUME NEW o \in Outputs, PressOutputOff(o) PROVE AllProper' /\ Verified
  <2>1. ASSUME NEW p \in Profiles,
               \/ Commit(p, [Now(p) EXCEPT !.enc[o] = "off"])
               \/ Commit(p, End([Now(p) EXCEPT !.enc[o] = "off"], p, TRUE))
        PROVE  AllProper' /\ Verified
    <3>. DEFINE h == [Now(p) EXCEPT !.enc[o] = "off"]
    <3>1. h \in Handler /\ h.row = profile[p] /\ h.calls = calls
      BY <1>0 DEF Handler, Encoders
    <3>2. Commit(p, h) \/ Commit(p, End(h, p, TRUE))
      BY <2>1
    <3>. HIDE DEF h
    <3>3. Waits(h, End(h, p, TRUE), FALSE) /\ Waits(h, h, FALSE)
      BY <3>1, EndWaits, UnmarkWaits
    <3>. QED
      BY <1>a, <3>1, <3>2, <3>3
  <2>. QED
    BY <1>3, <1>b, <2>1 DEF PressOutputOff
<1>4. ASSUME NEW p \in Profiles, PressEnd(p) PROVE AllProper' /\ Verified
  <2>1. PICK b \in BOOLEAN : Commit(p, End(Now(p), p, b))
    BY <1>4 DEF PressEnd
  <2>. QED
    BY <1>0, <1>a, <2>1, EndWaits
<1>5. ASSUME NEW p \in Profiles, PressReturn(p) PROVE AllProper' /\ Verified
  BY <1>0, <1>5, <1>a, ClearSessionWaits DEF PressReturn
<1>6. ASSUME NEW p \in Profiles, NEW row \in Row, Commit(p, With(Now(p), row))
      PROVE  AllProper' /\ Verified
  BY <1>0, <1>6, <1>a, WithWaits
<1>7. ASSUME NEW p \in Profiles, PressResume(p) PROVE AllProper' /\ Verified
  <2>. DEFINE row == [profile[p] EXCEPT !.preparing = TRUE, !.recovering = TRUE]
              g == With(Now(p), row)
              c == [op |-> "resume", p |-> p, o |-> profile[p].output, s |-> NoSession,
                    start |-> FALSE]
  <2>1. row \in Row /\ c \in Call /\ Proper(c)
    BY NowSound DEF Row, Call, Ops, Proper
  <2>2. Commit(p, Issue(g, c))
    BY <1>7 DEF PressResume
  <2>. HIDE DEF row, c
  <2>3. Waits(Now(p), g, FALSE) /\ g \in Handler
    BY <1>0, <2>1, WithWaits, WithIs
  <2>. HIDE DEF g
  <2>4. Waits(g, Issue(g, c), FALSE)
    BY <2>1, <2>3, IssueWaits
  <2>5. Waits(Now(p), Issue(g, c), FALSE)
    BY <2>3, <2>4, WaitsAll
  <2>. QED
    BY <1>0, <1>a, <2>2, <2>5
<1>8. ASSUME NEW p \in Profiles, PressReset(p) PROVE AllProper' /\ Verified
  <2>. DEFINE c == [op |-> "reset", p |-> p, o |-> NoOutput, s |-> NoSession, start |-> FALSE]
  <2>1. c \in Call /\ Proper(c)
    BY DEF Call, Ops, Target, Proper
  <2>2. Commit(p, Issue(Now(p), c))
    BY <1>8 DEF PressReset
  <2>. HIDE DEF c
  <2>. QED
    BY <1>0, <1>a, <2>1, <2>2, IssueWaits
<1>9. ASSUME NEW p \in Profiles, BecomeReady(p) PROVE AllProper' /\ Verified
  <2>1. [profile[p] EXCEPT !.ready = TRUE] \in Row
    BY NowSound DEF Row
  <2>. QED
    BY <1>6, <1>9, <2>1 DEF BecomeReady
<1>10. ASSUME NEW p \in Profiles, NEW o \in Target, ChooseOutput(p, o)
       PROVE  AllProper' /\ Verified
  <2>1. [profile[p] EXCEPT !.output = o] \in Row
    BY NowSound DEF Row
  <2>. QED
    BY <1>6, <1>10, <2>1 DEF ChooseOutput
<1>. QED
  BY <1>1, <1>2, <1>3, <1>4, <1>5, <1>7, <1>8, <1>9, <1>10 DEF User

\* A callback takes its own call; only the verification's shows a profile LIVE
\* that was started together with its output.
LEMMA CallbackVerified ==
  ASSUME IInv, AllProper, Callback
  PROVE  AllProper' /\ Verified
<1>. SUFFICES ASSUME NEW c \in calls,
                     \/ FindAnswered(c) \/ CreateAnswered(c) \/ CreateFailed(c)
                     \/ ResumeAnswered(c) \/ UpdateAnswered(c) \/ SignAnswered(c)
                     \/ StartFires(c) \/ VerifyFires(c) \/ VerifyGivesUp(c)
                     \/ FailedDismissed(c) \/ UnsignedDismissed(c) \/ ResetDismissed(c)
                     \/ EndAnswered(c) \/ RefreshAnswered(c) \/ ReconcileAnswered(c)
              PROVE  AllProper' /\ Verified
  BY DEF Callback
<1>. DEFINE p == c.p
            h == Take(Now(c.p), c)
            b == Guarded(c)
<1>0. /\ c \in Call /\ p \in Profiles /\ h \in Handler /\ h.row = profile[p] /\ h.row \in Row
      /\ c.s \in Sessions \cup {NoSession} /\ c.o \in Target /\ Proper(c) /\ b \in BOOLEAN
  BY TakeSound DEF Typed, Call, AllProper, Guarded
<1>1. h.calls = calls \ {c}
  <2>1. Now(p) \in Handler /\ Now(p).calls = calls
    BY <1>0, NowSound DEF Sound, Typed, Now
  <2>. QED
    BY <2>1 DEF Take, Handler
<1>p. c.p = p
  OBVIOUS
<1>. HIDE DEF h, p, b
<1>a. ASSUME NEW g, Waits(h, g, b), Commit(p, g) PROVE AllProper' /\ Verified
  <2>1. Waits(h, g, FALSE)
    BY <1>a DEF Waits
  <2>2. \A d \in calls \ h.calls :
          d.p = p /\ (Guarded(d) /\ g.row.live => h.row.live \/ g.enc[d.o] = "active")
    BY <1>a, <1>1, <1>p DEF Waits, b
  <2>. QED
    BY <1>0, <1>1, <1>a, <2>1, <2>2, CommitVerified
<1>b. ASSUME NEW row \in Row, b /\ row.live => h.row.live
      PROVE  Waits(h, With(h, row), b) /\ Waits(h, Unmark(With(h, row), c.o), b)
  <2>. DEFINE g == With(h, row)
  <2>1. Waits(h, g, b) /\ g \in Handler
    BY <1>0, <1>b, WithWaits, WithIs
  <2>. HIDE DEF g
  <2>2. Waits(g, Unmark(g, c.o), b)
    BY <2>1, UnmarkWaits
  <2>3. Waits(h, Unmark(g, c.o), b)
    BY <2>1, <2>2, WaitsAll
  <2>. QED
    BY <2>1, <2>3 DEF g
<1>c. ASSUME NEW row \in Row, NEW s \in Sessions
      PROVE  LET m == [MarkUncertain(row, s) EXCEPT !.live = FALSE] IN m \in Row /\ ~m.live
  <2>. DEFINE m == MarkUncertain(row, s)
  <2>1. m \in Row
    BY <1>c, ReserveIs
  <2>. HIDE DEF m
  <2>2. LET x == [m EXCEPT !.live = FALSE] IN x \in Row /\ ~x.live
    BY <2>1 DEF Row
  <2>. QED
    BY <2>2 DEF m
<1>d. ASSUME NEW s \in Sessions
      PROVE  LET d == [c EXCEPT !.s = s]
             IN d \in Call /\ d.p = p /\ d.o = c.o /\ Guarded(d) = b /\ d.op = c.op
  BY <1>0 DEF Call, Guarded, b, p
<1>2. CASE FindAnswered(c)
  <2>. DEFINE row == [h.row EXCEPT !.preparing = FALSE]
              known(s) == [MarkUncertain(h.row, s) EXCEPT !.live = FALSE]
              d == [c EXCEPT !.op = "create", !.o = h.row.output]
  <2>1. \/ \E s \in Sessions : Commit(p, Unmark(With(h, known(s)), c.o))
        \/ Commit(p, Issue(h, d))
        \/ Commit(p, Unmark(With(h, row), c.o))
    BY <1>2 DEF FindAnswered, OpenFor, h, p
  <2>2. row \in Row /\ row.live = h.row.live
    BY <1>0, PreparingIs
  <2>3. d \in Call /\ Proper(d)
    BY <1>0 DEF Row, Call, Ops, Proper
  <2>. HIDE DEF row, d
  <2>4. ASSUME NEW s \in Sessions, Commit(p, Unmark(With(h, known(s)), c.o))
        PROVE  AllProper' /\ Verified
    <3>1. known(s) \in Row /\ ~known(s).live
      BY <1>0, <1>c
    <3>. HIDE DEF known
    <3>. QED
      BY <1>a, <1>b, <2>4, <3>1
  <2>5. Waits(h, Unmark(With(h, row), c.o), b) /\ Waits(h, Issue(h, d), b)
    BY <1>0, <1>b, <2>2, <2>3, IssueWaits
  <2>. QED
    BY <1>a, <2>1, <2>4, <2>5
<1>3. CASE CreateAnswered(c)
  <2>1. PICK s \in Sessions, row \in {h.row, Unassign(h.row)} :
          \/ Commit(p, IF c.p \in Studio THEN Activate(h, [c EXCEPT !.s = s])
                       ELSE Created(h, [c EXCEPT !.s = s]))
          \/ Commit(p, Fail(With(h, [Reserve(row, s) EXCEPT !.live = FALSE]),
                            [c EXCEPT !.s = s]))
    BY <1>3 DEF CreateAnswered, OpenFor, h, p
  <2>. DEFINE d == [c EXCEPT !.s = s]
              m == Reserve(row, s)
              r == [m EXCEPT !.live = FALSE]
              g == With(h, r)
  <2>2. d \in Call /\ d.p = p /\ Guarded(d) = b
    BY <1>d
  <2>3. m \in Row
    BY <1>0, UnassignIs, ReserveIs
  <2>. HIDE DEF m
  <2>4. r \in Row /\ ~r.live
    BY <2>3 DEF Row
  <2>5. \/ c.p \in Studio /\ Commit(p, Activate(h, d))
        \/ c.p \notin Studio /\ Commit(p, Created(h, d))
        \/ Commit(p, Fail(g, d))
    BY <2>1 DEF m
  <2>. HIDE DEF d, r
  <2>6. Waits(h, g, b) /\ g \in Handler
    BY <1>0, <2>4, WithWaits, WithIs
  <2>. HIDE DEF g
  <2>7. Waits(g, Fail(g, d), b)
    BY <2>2, <2>6, FailWaits
  <2>8. Waits(h, Fail(g, d), b)
    BY <2>6, <2>7, WaitsAll
  <2>9. Waits(h, Activate(h, d), b)
    BY <1>0, <2>2, ActivateWaits
  <2>10. c.p \notin Studio => Waits(h, Created(h, d), b)
    <3>1. c.p \notin Studio => b = FALSE
      BY DEF b, Guarded
    <3>. QED
      BY <1>0, <1>p, <2>2, <3>1, CreatedWaits
  <2>. QED
    BY <1>a, <2>5, <2>8, <2>9, <2>10
<1>4. CASE CreateFailed(c)
  <2>1. PICK row \in {h.row, Unassign(h.row)} :
          \/ Commit(p, Unmark(With(h, [row EXCEPT !.preparing = FALSE]), c.o))
          \/ Commit(p, With(h, [row EXCEPT !.preparing = FALSE]))
    BY <1>4 DEF CreateFailed, h, p
  <2>. DEFINE r == [row EXCEPT !.preparing = FALSE]
  <2>2. row \in Row /\ row.live = h.row.live
    BY <1>0, UnassignIs
  <2>3. r \in Row /\ r.live = h.row.live
    BY <2>2, PreparingIs
  <2>4. Commit(p, Unmark(With(h, r), c.o)) \/ Commit(p, With(h, r))
    BY <2>1
  <2>. HIDE DEF r
  <2>. QED
    BY <1>a, <1>b, <2>3, <2>4
<1>5. CASE ResumeAnswered(c)
  <2>. DEFINE row == [h.row EXCEPT !.recovering = FALSE]
              failed == [row EXCEPT !.preparing = FALSE, !.uncertain = TRUE]
              known(s) == [MarkUncertain(row, s) EXCEPT !.live = FALSE]
              g == With(h, row)
  <2>1. \/ \E s \in Sessions : Commit(p, Activate(g, [c EXCEPT !.s = s]))
        \/ Commit(p, Unmark(With(h, failed), c.o))
        \/ \E s \in Sessions : Commit(p, Unmark(With(h, known(s)), c.o))
    BY <1>5 DEF ResumeAnswered, OpenFor, h, p
  <2>2. row \in Row /\ row.live = h.row.live
    BY <1>0 DEF Row
  <2>. HIDE DEF row
  <2>3. failed \in Row /\ failed.live = h.row.live
    BY <2>2 DEF Row
  <2>. HIDE DEF failed
  <2>4. Waits(h, g, b) /\ g \in Handler
    BY <1>0, <2>2, WithWaits, WithIs
  <2>. HIDE DEF g
  <2>5. ASSUME NEW s \in Sessions, Commit(p, Activate(g, [c EXCEPT !.s = s]))
        PROVE  AllProper' /\ Verified
    <3>. DEFINE d == [c EXCEPT !.s = s]
    <3>1. d \in Call /\ Guarded(d) = b
      BY <1>d
    <3>2. Commit(p, Activate(g, d))
      BY <2>5
    <3>. HIDE DEF d
    <3>3. Waits(g, Activate(g, d), b)
      BY <2>4, <3>1, ActivateWaits
    <3>4. Waits(h, Activate(g, d), b)
      BY <2>4, <3>3, WaitsAll
    <3>. QED
      BY <1>a, <3>2, <3>4
  <2>6. ASSUME NEW s \in Sessions, Commit(p, Unmark(With(h, known(s)), c.o))
        PROVE  AllProper' /\ Verified
    <3>1. known(s) \in Row /\ ~known(s).live
      BY <1>c, <2>2
    <3>. HIDE DEF known
    <3>. QED
      BY <1>a, <1>b, <2>6, <3>1
  <2>. HIDE DEF known
  <2>7. Waits(h, Unmark(With(h, failed), c.o), b)
    BY <1>b, <2>3
  <2>. QED
    BY <1>a, <2>1, <2>5, <2>6, <2>7
<1>6. CASE UpdateAnswered(c)
  <2>1. Commit(p, Updated(h, c)) \/ Commit(p, NotUpdated(h, c))
    BY <1>6 DEF UpdateAnswered, Quiet, h, p
  <2>2. Waits(h, Updated(h, c), b) /\ Waits(h, NotUpdated(h, c), b)
    BY <1>0, UpdatedWaits, NotUpdatedWaits DEF b
  <2>. QED
    BY <1>a, <2>1, <2>2
<1>7. CASE SignAnswered(c)
  <2>. DEFINE k == [h EXCEPT !.signed = @ \cup {c.o}]
  <2>1. c.op = "sign" /\ (Commit(p, Signed(k, c)) \/ Commit(p, Unsigned(h, c)))
    BY <1>7 DEF SignAnswered, Quiet, h, p
  <2>2. k \in Handler /\ k.row = h.row /\ k.calls = h.calls
    BY <1>0 DEF Handler
  <2>. HIDE DEF k
  <2>3. b = FALSE
    BY <1>0, <2>1, OutputAssumption DEF b, Guarded, Proper
  <2>4. Waits(h, k, b)
    BY <2>2 DEF Waits, Keeps
  <2>5. Waits(k, Signed(k, c), b) /\ Waits(h, Unsigned(h, c), b)
    BY <1>0, <2>2, <2>3, SignedWaits, UnsignedWaits
  <2>6. Waits(h, Signed(k, c), b)
    BY <2>4, <2>5, WaitsAll
  <2>. QED
    BY <1>a, <2>1, <2>5, <2>6
<1>v. ASSUME NEW k \in Handler, k.row = h.row, k.calls = h.calls, Commit(p, VerifyOnce(k, c))
      PROVE  AllProper' /\ Verified
  <2>. DEFINE g == VerifyOnce(k, c)
  <2>1. Waits(k, g, FALSE) /\ (g.row.live => k.row.live \/ g.enc[c.o] = "active")
    BY <1>0, <1>v, VerifyOnceWaits
  <2>2. Commit(p, g)
    BY <1>v
  <2>. HIDE DEF g
  <2>3. \A d \in calls \ k.calls :
          d.p = p /\ (Guarded(d) /\ g.row.live => k.row.live \/ g.enc[d.o] = "active")
    BY <1>1, <1>p, <1>v, <2>1
  <2>. QED
    BY <1>0, <1>1, <1>v, <2>1, <2>2, <2>3, CommitVerified
<1>8. CASE StartFires(c)
  <2>. DEFINE k == [h EXCEPT !.enc[c.o] = IF @ = "off" THEN "starting" ELSE @]
              u == Unmark(h, c.o)
              d == [c EXCEPT !.s = h.row.sid]
  <2>1. \/ Commit(p, VerifyOnce(k, c))
        \/ c.p \in Studio /\ Commit(p, Fail(u, d))
        \/ Commit(p, Detach(u, c.o))
    BY <1>8 DEF StartFires, Quiet, h, p
  <2>2. k \in Handler /\ k.row = h.row /\ k.calls = h.calls
    BY <1>0 DEF Handler, Encoders
  <2>3. d \in Call
    BY <1>0 DEF Row, Call
  <2>. HIDE DEF k, d
  <2>4. Waits(h, u, b) /\ u \in Handler
    BY <1>0, UnmarkWaits, UnmarkIs
  <2>. HIDE DEF u
  <2>5. Waits(u, Fail(u, d), b) /\ Waits(u, Detach(u, c.o), b)
    BY <2>3, <2>4, FailWaits, DetachWaits
  <2>6. Waits(h, Fail(u, d), b) /\ Waits(h, Detach(u, c.o), b)
    BY <2>4, <2>5, WaitsAll
  <2>. QED
    BY <1>a, <1>v, <2>1, <2>2, <2>6
<1>9. CASE VerifyFires(c)
  BY <1>0, <1>9, <1>v DEF VerifyFires, Quiet, h, p
<1>10. CASE VerifyGivesUp(c)
  BY <1>0, <1>10, <1>a, EndUnstartedWaits DEF VerifyGivesUp, Quiet, h, p
<1>11. CASE FailedDismissed(c)
  <2>. DEFINE off == [h EXCEPT !.enc[c.o] = "off"]
              e == [c EXCEPT !.op = "endFailed"]
  <2>1. Commit(p, RequestEnd(off, e)) \/ Commit(p, RequestEnd(h, e))
    BY <1>11 DEF FailedDismissed, Quiet, h, p
  <2>2. off \in Handler /\ off.row = h.row /\ off.calls = h.calls
    BY <1>0 DEF Handler, Encoders
  <2>3. e \in Call /\ e.op = "endFailed" /\ Proper(e)
    BY <1>0, RelabelIs DEF Ops, EndOps, Proper
  <2>. HIDE DEF off, e
  <2>4. Waits(h, off, b)
    BY <2>2 DEF Waits, Keeps
  <2>5. Waits(off, RequestEnd(off, e), b) /\ Waits(h, RequestEnd(h, e), b)
    BY <1>0, <2>2, <2>3, RequestEndWaits DEF EndOps
  <2>6. Waits(h, RequestEnd(off, e), b)
    BY <2>4, <2>5, WaitsAll
  <2>. QED
    BY <1>a, <2>1, <2>5, <2>6
<1>12. CASE UnsignedDismissed(c)
  <2>. DEFINE e == [c EXCEPT !.op = "endUnsigned"]
  <2>1. c.op = "unsigned" /\ Commit(p, RequestEnd(h, e))
    BY <1>12 DEF UnsignedDismissed, Quiet, h, p
  <2>2. c.p \notin Studio /\ b = FALSE
    BY <1>0, <2>1 DEF Proper, Guarded, b
  <2>3. e \in Call /\ e.op = "endUnsigned" /\ Proper(e)
    BY <1>0, <2>2, RelabelIs DEF Ops, EndOps, Proper
  <2>. HIDE DEF e
  <2>4. Waits(h, RequestEnd(h, e), b)
    BY <1>0, <2>2, <2>3, RequestEndWaits DEF EndOps
  <2>. QED
    BY <1>a, <2>1, <2>4
<1>13. CASE ResetDismissed(c)
  <2>1. Commit(p, h) \/ Commit(p, ClearSession(h, p))
    BY <1>13 DEF ResetDismissed, Quiet, h, p
  <2>2. Waits(h, h, b) /\ Waits(h, ClearSession(h, p), b)
    BY <1>0, UnmarkWaits, ClearSessionWaits
  <2>. QED
    BY <1>a, <2>1, <2>2
<1>14. CASE EndAnswered(c)
  <2>1. /\ c.op \in EndOps \cup {"endUpdate", "endRecovery"}
        /\ Commit(p, FinishEnd(h, c, TRUE)) \/ Commit(p, FinishEnd(h, c, FALSE))
    BY <1>14 DEF EndAnswered, h, p
  <2>2. b => c.op \notin {"endUnsigned", "endUpdate"}
    BY <1>0 DEF b, Guarded, Proper
  <2>3. Waits(h, FinishEnd(h, c, TRUE), b) /\ Waits(h, FinishEnd(h, c, FALSE), b)
    BY <1>0, <2>1, <2>2, FinishEndWaits
  <2>. QED
    BY <1>a, <2>1, <2>3
<1>15. CASE RefreshAnswered(c)
  <2>. DEFINE row == Unassign(h.row)
  <2>1. Commit(p, h) \/ Commit(p, With(h, row))
    BY <1>15 DEF RefreshAnswered, Quiet, h, p
  <2>2. row \in Row /\ row.live = h.row.live
    BY <1>0, UnassignIs
  <2>. HIDE DEF row
  <2>3. Waits(h, h, b) /\ Waits(h, With(h, row), b)
    BY <1>0, <1>b, <2>2, UnmarkWaits
  <2>. QED
    BY <1>a, <2>1, <2>3
<1>16. CASE ReconcileAnswered(c)
  <2>. DEFINE row == [h.row EXCEPT !.recovering = FALSE, !.preparing = FALSE]
              known(s) == [MarkUncertain(row, s) EXCEPT !.live = FALSE]
              failed == [row EXCEPT !.live = FALSE, !.uncertain = TRUE]
              g == With(h, row)
  <2>1. \/ \E s \in Sessions : Commit(p, With(h, known(s)))
        \/ Commit(p, ClearSession(g, p))
        \/ Commit(p, With(h, failed))
    BY <1>16 DEF ReconcileAnswered, OpenFor, h, p
  <2>2. row \in Row /\ row.live = h.row.live
    BY <1>0 DEF Row
  <2>. HIDE DEF row
  <2>3. failed \in Row /\ ~failed.live
    BY <2>2 DEF Row
  <2>. HIDE DEF failed
  <2>4. Waits(h, g, b) /\ g \in Handler
    BY <1>0, <2>2, WithWaits, WithIs
  <2>. HIDE DEF g
  <2>5. Waits(g, ClearSession(g, p), b)
    BY <2>4, ClearSessionWaits
  <2>6. Waits(h, ClearSession(g, p), b) /\ Waits(h, With(h, failed), b)
    BY <1>b, <2>3, <2>4, <2>5, WaitsAll
  <2>7. ASSUME NEW s \in Sessions, Commit(p, With(h, known(s))) PROVE AllProper' /\ Verified
    <3>1. known(s) \in Row /\ ~known(s).live
      BY <1>c, <2>2
    <3>. HIDE DEF known
    <3>. QED
      BY <1>a, <1>b, <2>7, <3>1
  <2>. QED
    BY <1>a, <2>1, <2>6, <2>7
<1>. QED
  BY <1>2, <1>3, <1>4, <1>5, <1>6, <1>7, <1>8, <1>9, <1>10, <1>11, <1>12, <1>13, <1>14,
     <1>15, <1>16

LEMMA EnvironmentVerified ==
  ASSUME IInv, AllProper, Environment
  PROVE  AllProper' /\ Verified
<1>1. ASSUME NEW p \in Profiles, HeartbeatStale(p) PROVE AllProper' /\ Verified
  <2>. DEFINE g == ClearSession(Now(p), p)
  <2>1. Now(p) \in Handler /\ Now(p).row = profile[p] /\ Now(p).calls = calls
    BY NowSound DEF Sound, Typed, Now
  <2>2. Waits(Now(p), g, FALSE) /\ g \in Handler
    BY <2>1, ClearSessionWaits DEF Waits
  <2>3. Commit(p, Refresh(g, p))
    BY <1>1 DEF HeartbeatStale
  <2>. HIDE DEF g
  <2>4. Waits(g, Refresh(g, p), FALSE)
    BY <2>2, RefreshWaits
  <2>5. Waits(Now(p), Refresh(g, p), FALSE)
    BY <2>2, <2>4, WaitsAll
  <2>. QED
    BY <2>1, <2>3, <2>5, CommitVerified
<1>2. ASSUME UNCHANGED <<profile, calls>> PROVE AllProper' /\ Verified
  BY <1>2 DEF AllProper, Verified
<1>3. ASSUME Restart PROVE AllProper' /\ Verified
  <2>1. \A c \in calls' : c.op \in {"reconcile", "endRecovery"}
    BY <1>3 DEF Restart
  <2>2. AllProper'
    BY <2>1 DEF AllProper, Proper
  <2>3. restarts' # restarts
    <3>1. restarts' = restarts + 1 /\ restarts \in Nat
      BY <1>3 DEF Restart, IInv, TypeOK
    <3>. QED
      BY <3>1
  <2>. QED
    BY <2>2, <2>3 DEF Verified
<1>. QED
  BY <1>1, <1>2, <1>3 DEF Environment, EncoderUp, EncoderDown, RoomCloses

\* A LIVE Studio profile that was started together with its output is shown
\* LIVE only in a step after which the output is active: of every profile and
\* user, whatever fails.
THEOREM LiveIsVerified == Spec => VerifiedLive
<1>1. Init => AllProper
  BY DEF Init, AllProper
<1>2. IInv /\ AllProper /\ [Next]_vars => AllProper'
  <2>1. CASE UNCHANGED vars
    BY <2>1 DEF vars, AllProper
  <2>. QED
    BY <2>1, UserVerified, CallbackVerified, EnvironmentVerified DEF Next
<1>3. IInv /\ AllProper /\ [Next]_vars =>
        [\A c \in calls \ calls' :
           c.p \in Studio /\ c.start /\ c.o \in Outputs /\ ~profile[c.p].live
           /\ profile'[c.p].live /\ restarts' = restarts
             => encoders'[c.o] = "active"]_vars
  BY UserVerified, CallbackVerified, EnvironmentVerified DEF Next, Verified
<1>. QED
  BY <1>1, <1>2, <1>3, Invariant, PTL DEF Spec, VerifiedLive
=============================================================================

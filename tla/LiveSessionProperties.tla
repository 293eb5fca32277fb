------------------------ MODULE LiveSessionProperties ------------------------
(***************************************************************************)
(* What the LIVE lifecycle promises.  The invariants and action properties *)
(* are stated for any constants; the MC module says under which of them    *)
(* each holds, and which are refuted.                                      *)
(***************************************************************************)
EXTENDS LiveSession

\* The variables stay in their types.
TypeOK ==
  /\ profile \in [Profiles -> Row]
  /\ outputsPreparing \subseteq Outputs
  /\ calls \subseteq Call
  /\ attached \subseteq Target
  /\ rooms \in [Sessions -> Profiles \cup {Nobody}]
  /\ encoders \in [Outputs -> {"off", "starting", "active"}]
  /\ restarts \in 0 .. MaxRestarts

-----------------------------------------------------------------------------
\* Flags and resources, whatever fails and whatever the user does.

\* A profile shown as ending has an end request, or the error box that leads
\* to one, outstanding: Ending, which disables every button of the profile,
\* never outlives the callback that takes it back.
EndingHasCall ==
  \A p \in Profiles : profile[p].ending =>
    \E c \in calls : c.p = p /\ c.op \in EndOps \cup {"failed", "unsigned"}

\* A profile shown as recovering has the answer that resolves it outstanding.
RecoveringHasCall ==
  \A p \in Profiles : profile[p].recovering =>
    \E c \in calls : c.p = p /\ c.op \in {"resume", "reconcile", "endRecovery"}

\* Aitum's settings dialog is driven by one transaction at a time, although
\* every profile may ask for an update at any moment.
OneTransaction ==
  \A c, d \in calls : c.op = "update" /\ d.op = "update" => c = d

\* At most one signature prefetch per output is waiting to attach its packet
\* callback, however often the output changes hands meanwhile.
OnePrefetch ==
  \A c, d \in calls : c.op = "sign" /\ d.op = "sign" /\ c.o = d.o => c = d

-----------------------------------------------------------------------------
\* Reservations.

\* Invariant 2 of the architecture: an Aitum output is reserved by at most one
\* profile.
OutputExclusive ==
  \A p, q \in Profiles :
    p # q /\ Holding(profile[p]) /\ Holding(profile[q]) =>
      profile[p].output # profile[q].output \/ profile[p].output = NoOutput

\* Invariant 1: a TikTok account is active or preparing in at most one profile.
AccountExclusive ==
  \A p, q \in Profiles :
    p # q /\ Holding(profile[p]) /\ Holding(profile[q]) =>
      Account[p] # Account[q] \/ Account[p] = NoAccount

\* A profile shown LIVE with a remote provider knows the session it would end.
LiveKnowsSession ==
  \A p \in Profiles \ Local : profile[p].live => profile[p].sid # NoSession

\* Every session open at a platform is reserved by a profile or carried by a
\* callback that will reserve or end it: nothing stays on air unknown to the dock.
SessionTracked ==
  \A s \in Sessions : rooms[s] # Nobody =>
    \/ \E p \in Profiles : profile[p].sid = s /\ (Holding(profile[p]) \/ profile[p].ending)
    \/ \E c \in calls : c.s = s

HoldingOrEnding(row) == Holding(row) \/ row.ending

\* p gives up the session it holds or is ending in this step.
GivesUp(p) ==
  LET s == profile[p].sid IN
  /\ s # NoSession /\ HoldingOrEnding(profile[p])
  /\ ~(HoldingOrEnding(profile'[p]) /\ profile'[p].sid = s)

\* The user answered the reset confirmation of p.
Overruled(p) == \E c \in calls \ calls' : c.p = p /\ c.op = "reset"

\* What the code keeps of invariant 3 on its error paths too: until the platform
\* has closed the session the profile is reserved or busy ending it.
KeptOrEnding ==
  [][\A p \in Profiles : GivesUp(p) =>
       rooms'[profile[p].sid] = Nobody \/ Overruled(p)]_vars

-----------------------------------------------------------------------------
\* Outputs.

\* Invariant 4: a profile started together with its output is shown LIVE only
\* once the output is active, not when Aitum accepted the start.
VerifiedLive ==
  [][\A c \in calls \ calls' :
       c.p \in Studio /\ c.start /\ c.o \in Outputs /\ ~profile[c.p].live /\ profile'[c.p].live
       /\ restarts' = restarts
         => encoders'[c.o] = "active"]_vars

\* The comment in end_profile_live: the End button never leaves the profile's
\* own encoder running.  When the end request leaves, the output is off and no
\* timer is about to start it.
EncoderStopped ==
  [][\A c \in calls' \ calls :
       c.op = "endUser" /\ c.o \in Outputs =>
         /\ encoders'[c.o] = "off"
         /\ ~\E d \in calls' : d.op = "start" /\ d.o = c.o]_vars

-----------------------------------------------------------------------------
\* Progress.

Answer(c) ==
  \/ FindAnswered(c) \/ CreateAnswered(c) \/ CreateFailed(c) \/ ResumeAnswered(c)
  \/ UpdateAnswered(c) \/ SignAnswered(c) \/ StartFires(c) \/ VerifyFires(c)
  \/ VerifyGivesUp(c)
  \/ FailedDismissed(c) \/ UnsignedDismissed(c) \/ ResetDismissed(c)
  \/ EndAnswered(c) \/ RefreshAnswered(c) \/ ReconcileAnswered(c)

\* Network requests time out, Qt timers fire, the Aitum bridge and the output
\* verification give up after a fixed number of attempts, and the user closes
\* message boxes.  Nothing is assumed of the user's other actions, of OBS
\* outputs or of the platform.
Fairness ==
  /\ \A p \in Profiles, op \in Ops :
       WF_vars(\E c \in calls : c.p = p /\ c.op = op /\ Answer(c))
  /\ \A p \in Profiles : WF_vars(\E c \in calls : c.p = p /\ VerifyGivesUp(c))

FairSpec == Spec /\ Fairness

\* An ending profile gets its buttons back.
EndingResolves == \A p \in Profiles : profile[p].ending ~> ~profile[p].ending

\* A recovering profile leaves recovery.
RecoveringResolves == \A p \in Profiles : profile[p].recovering ~> ~profile[p].recovering

\* A start completes, or comes to rest with its buttons enabled, as it does when
\* the end request of a failed start fails too.
AtRest(p) ==
  ~profile[p].ending /\ ~profile[p].recovering /\ ~\E c \in calls : c.p = p

PreparingResolves ==
  \A p \in Profiles : profile[p].preparing ~> ~profile[p].preparing \/ AtRest(p)
==============================================================================

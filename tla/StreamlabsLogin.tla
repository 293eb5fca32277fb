--------------------------- MODULE StreamlabsLogin ---------------------------
(* The Streamlabs logins of the profiles: the token a profile has stored, the *)
(* account its row shows, the verifications of tokens that were pasted, found *)
(* on the PC or obtained by a browser login, and the one local server that    *)
(* receives what the browser confirms. A verification stores its token first  *)
(* and takes it back when Streamlabs refuses it; nothing keeps a second one,  *)
(* a deletion or another provider from coming in between. Which profile is    *)
(* selected is not followed: the dock's buttons act on any profile. Streamlabs *)
(* may refuse any token (it is wrong, expired, or Streamlabs is not reached),  *)
(* and the secret store may refuse any write.                                  *)
EXTENDS Naturals, FiniteSets

CONSTANTS
  Profiles, NoProfile,
  Tokens, NoToken,   \* a token stands for the account it logs in to as well
  Other,             \* the account of another provider
  Logins, NoLogin,   \* bound: the browser logins that something is left of at once
  MaxPending         \* bound: the verifications, searches, codes and connections at once

Providers == {"tiktok-studio", "streamlabs", "manual"}

ASSUME TokenAssumption == NoToken \notin Tokens /\ Other \notin Tokens /\ Other # NoToken
ASSUME NamesAssumption == NoProfile \notin Profiles /\ NoLogin \notin Logins
ASSUME BoundAssumption == MaxPending \in Nat \ {0}

VARIABLES
  provider,   \* provider_id of a profile, "none" before it is added, "deleted" afterwards
  username,   \* the account its row shows
  token,      \* what TokenStore holds for it
  jobs,       \* verifications that Streamlabs or TikTok has not answered
  searches,   \* profiles that wait for find_streamlabs_desktop_token
  login,      \* token_callback_: the browser login that waits, and the profile that asked
  verifier,   \* verifier_
  listening,  \* the login whose port the callback server listens on
  sockets,    \* connections of the browser that were accepted and not read
  exchanges,  \* codes being exchanged for a token
  accepted,   \* not in the code: the token Streamlabs accepted last for a profile
  disturbed   \* not in the code: profiles whose verifications overlapped, were lost or
              \* could not be stored, since their last undisturbed one
rows == <<provider, username, token>>
browser == <<login, verifier, listening, sockets, exchanges>>
history == <<accepted, disturbed>>
vars == <<rows, jobs, searches, browser, history>>

Nobody == [id |-> NoLogin, asker |-> NoProfile]
Present == {p \in Profiles : provider[p] \in Providers}
Pending == Cardinality(jobs) + Cardinality(searches) + Cardinality(exchanges) + Cardinality(sockets)
Room == Pending < MaxPending
Of(p, queue) == {j \in queue : j.profile = p}

\* The credentials of a manual profile are not modelled: it keeps its login form.
LoginForm(p) == p \in Present /\ (provider[p] = "manual" \/ username[p] = NoToken)
StreamlabsForm(p) == LoginForm(p) /\ provider[p] = "streamlabs"

-----------------------------------------------------------------------------
(* Verifications. *)

\* Whatever is under way for p is no longer alone.
Joined(p, queue) == {[j EXCEPT !.alone = @ /\ j.profile # p] : j \in queue}

\* The least number that no request under way has.
Free(queue) ==
  LET used == {j.id : j \in queue}
  IN {i \in 1 .. MaxPending : i \notin used /\ 1 .. i - 1 \subseteq used}

\* The request that ProviderLifecycle::refresh_account sends for the token t,
\* which is stored; queue: what is under way when it is sent.
Request(p, through, t, previous, queue) ==
  LET alone == Of(p, queue) = {} IN
  /\ \E id \in Free(queue) :
       jobs' = Joined(p, queue) \cup {[id |-> id, profile |-> p, token |-> t,
                 previous |-> previous, provider |-> through, alone |-> alone]}
  /\ disturbed' = disturbed \cup {j.profile : j \in jobs \ queue}
                    \cup (IF alone THEN {} ELSE {p})

\* verify_token_for_profile. There is nothing to do if the profile is gone, nor if
\* the token cannot be stored; a manual profile answers at once, whatever it is.
Verify(p, t) ==
  \/ UNCHANGED <<username, token, jobs, disturbed>>
  \/ /\ p \in Present /\ provider[p] = "manual"
     /\ token' = [token EXCEPT ![p] = t] /\ username' = [username EXCEPT ![p] = Other]
     /\ disturbed' = disturbed \cup {p} /\ jobs' = Joined(p, jobs)
  \/ /\ p \in Present /\ provider[p] # "manual"
     /\ token' = [token EXCEPT ![p] = t]
     /\ Request(p, provider[p], t, token[p], jobs)
     /\ UNCHANGED username

\* refresh_selected_account: what is stored for a Streamlabs profile is verified,
\* unless the profile is busy or the store refuses the write.
Recheck(p, through, queue) ==
  \/ /\ through = "streamlabs" /\ token[p] # NoToken
     /\ Request(p, through, token[p], token[p], queue)
  \/ /\ jobs' = queue
     /\ disturbed' = disturbed \cup {j.profile : j \in jobs \ queue}

\* The callback of verify_token_for_profile; ProfileAccountStatus::apply.
Accepted(j) ==
  /\ username' = [username EXCEPT ![j.profile] =
                    IF j.provider = "streamlabs" THEN j.token ELSE Other]
  /\ IF j.provider = "streamlabs" /\ j.alone
     THEN /\ accepted' = [accepted EXCEPT ![j.profile] = j.token]
          /\ disturbed' = disturbed \ {j.profile}
     ELSE disturbed' = disturbed \cup {j.profile} /\ UNCHANGED accepted
  /\ UNCHANGED token

\* Mutant: a refused token is removed, whatever was stored before.
RefusedRemoves(j) ==
  /\ token' = [token EXCEPT ![j.profile] = NoToken]
  /\ UNCHANGED <<username, accepted, disturbed>>
\* The store's refusal to take the previous token back is not noticed.
Refused(j) ==
  /\ \/ token' = [token EXCEPT ![j.profile] = j.previous] /\ UNCHANGED disturbed
     \/ UNCHANGED token /\ disturbed' = disturbed \cup {j.profile}
  /\ UNCHANGED <<username, accepted>>

Verdict(j) == Accepted(j) \/ Refused(j)

\* Mutant: the previous token is written back before the profile is looked up.
AnswerWithoutProfile(j) ==
  /\ jobs' = jobs \ {j}
  /\ Verdict(j)
  /\ UNCHANGED <<provider, searches, browser>>
Answer(j) ==
  /\ jobs' = jobs \ {j}
  /\ IF j.profile \in Present
     THEN Verdict(j)
     ELSE UNCHANGED <<username, token, history>>
  /\ UNCHANGED <<provider, searches, browser>>

-----------------------------------------------------------------------------
(* The profile rows and the login form. *)

\* A click on a row of the list, or on the button that refreshes the account.
Refresh(p) ==
  /\ p \in Present /\ Room
  /\ Recheck(p, provider[p], jobs)
  /\ UNCHANGED <<rows, searches, browser, accepted>>

Paste(p) ==
  /\ StreamlabsForm(p) /\ Room
  /\ \E t \in Tokens : Verify(p, t)
  /\ UNCHANGED <<provider, searches, browser, accepted>>

SearchDesktop(p) ==
  /\ StreamlabsForm(p) /\ Room /\ searches' = searches \cup {p}
  /\ UNCHANGED <<rows, jobs, browser, history>>

FoundOnDesktop(p) ==
  /\ p \in searches /\ searches' = searches \ {p}
  /\ \E t \in Tokens : Verify(p, t)
  /\ UNCHANGED <<provider, browser, accepted>>

\* The stored token stays; what else of the row is cleared belongs to LiveSession.
ChooseProvider(p, through) ==
  /\ LoginForm(p) /\ Room /\ through # provider[p]
  /\ provider' = [provider EXCEPT ![p] = through]
  /\ username' = [username EXCEPT ![p] = NoToken]
  /\ Recheck(p, through, jobs)
  /\ UNCHANGED <<token, searches, browser, accepted>>

AddProfile(p) ==
  /\ provider[p] = "none"
  /\ provider' = [provider EXCEPT ![p] = "tiktok-studio"]
  /\ UNCHANGED <<username, token, jobs, searches, browser, history>>

\* delete_selected_profile, for a profile that is at rest; the list is never empty.
\* TokenStore::remove is taken to succeed.
DeleteProfile(p) ==
  /\ p \in Present
  /\ token' = [token EXCEPT ![p] = NoToken]
  /\ IF Present # {p} THEN provider' = [provider EXCEPT ![p] = "deleted"]
     ELSE \E q \in Profiles : /\ provider[q] = "none"
                              /\ provider' = [provider EXCEPT ![p] = "deleted", ![q] = "tiktok-studio"]
  /\ username' = [username EXCEPT ![p] = NoToken]
  /\ accepted' = [accepted EXCEPT ![p] = NoToken] /\ disturbed' = disturbed \ {p}
  /\ UNCHANGED <<jobs, searches, browser>>

-----------------------------------------------------------------------------
(* The browser login of StreamlabsClient. *)

FinishLogin == login' = Nobody /\ verifier' = NoLogin
InUse == sockets \cup {e.code : e \in exchanges} \cup {login.id, listening}

\* Mutant: the verifier of the first login is used again.
BeginLoginOnce(p, id) ==
  /\ StreamlabsForm(p) /\ id \notin InUse
  /\ login' = [id |-> id, asker |-> p] /\ listening' = id
  /\ verifier' = IF verifier = NoLogin THEN id ELSE verifier
  /\ UNCHANGED <<rows, jobs, searches, sockets, exchanges, history>>
\* login_in_browser: a login that waits is cancelled, and its profile is not told.
\* The new one is told at once if the server cannot listen.
BeginLogin(p, id) ==
  /\ StreamlabsForm(p) /\ id \notin InUse
  /\ \/ login' = [id |-> id, asker |-> p] /\ verifier' = id /\ listening' = id
     \/ FinishLogin /\ listening' = NoLogin
  /\ UNCHANGED <<rows, jobs, searches, sockets, exchanges, history>>

\* The page of a login, sent back to the port the login listens on.
Connect ==
  /\ listening # NoLogin /\ Room /\ sockets' = sockets \cup {listening}
  /\ UNCHANGED <<rows, jobs, searches, login, verifier, listening, exchanges, history>>

\* readyRead: the server is closed, whichever login it listens for by now.
Read(id) ==
  /\ id \in sockets /\ sockets' = sockets \ {id} /\ listening' = NoLogin
  /\ \/ /\ exchanges' = exchanges \cup {[code |-> id, verifier |-> verifier, waiting |-> login.id]}
        /\ UNCHANGED <<login, verifier>>
     \/ FinishLogin /\ UNCHANGED exchanges
  /\ UNCHANGED <<rows, jobs, searches, history>>

\* Streamlabs gives the token for a code only with the verifier of its login.
Exchanged(e, t) ==
  /\ exchanges' = exchanges \ {e} /\ FinishLogin
  /\ e.verifier = e.code /\ login # Nobody
  /\ Verify(login.asker, t)
  /\ UNCHANGED <<provider, searches, listening, sockets, accepted>>
NotExchanged(e) ==
  /\ exchanges' = exchanges \ {e} /\ FinishLogin
  /\ UNCHANGED <<rows, jobs, searches, listening, sockets, history>>

-----------------------------------------------------------------------------

\* OBS stops and starts again: what is not saved is lost, one profile is selected.
Restart ==
  /\ \E p \in Present : Recheck(p, provider[p], {})
  /\ searches' = {} /\ login' = Nobody /\ verifier' = NoLogin /\ listening' = NoLogin
  /\ sockets' = {} /\ exchanges' = {}
  /\ UNCHANGED <<rows, accepted>>

Init ==
  /\ \E p \in Profiles : provider = [q \in Profiles |-> IF q = p THEN "tiktok-studio" ELSE "none"]
  /\ username = [p \in Profiles |-> NoToken] /\ token = [p \in Profiles |-> NoToken]
  /\ jobs = {} /\ searches = {}
  /\ login = Nobody /\ verifier = NoLogin /\ listening = NoLogin
  /\ sockets = {} /\ exchanges = {}
  /\ accepted = [p \in Profiles |-> NoToken] /\ disturbed = {}

Next ==
  \/ \E p \in Profiles :
       \/ Refresh(p) \/ Paste(p) \/ SearchDesktop(p) \/ FoundOnDesktop(p)
       \/ AddProfile(p) \/ DeleteProfile(p)
       \/ \E through \in Providers : ChooseProvider(p, through)
       \/ \E id \in Logins : BeginLogin(p, id)
  \/ \E j \in jobs : Answer(j)
  \/ Connect \/ (\E id \in Logins : Read(id))
  \/ \E e \in exchanges : NotExchanged(e) \/ \E t \in Tokens : Exchanged(e, t)
  \/ Restart
Spec == Init /\ [][Next]_vars

-----------------------------------------------------------------------------
(* Properties. *)

TypeOK ==
  /\ provider \in [Profiles -> Providers \cup {"none", "deleted"}]
  /\ username \in [Profiles -> Tokens \cup {NoToken, Other}]
  /\ token \in [Profiles -> Tokens \cup {NoToken}]
  /\ jobs \subseteq [id : 1 .. MaxPending, profile : Profiles, token : Tokens,
                     previous : Tokens \cup {NoToken}, provider : Providers, alone : BOOLEAN]
  /\ searches \subseteq Profiles
  /\ login \in [id : Logins, asker : Profiles] \cup {Nobody}
  /\ verifier \in Logins \cup {NoLogin} /\ listening \in Logins \cup {NoLogin}
  /\ sockets \subseteq Logins
  /\ exchanges \subseteq [code : Logins, verifier : Logins \cup {NoLogin}, waiting : Logins \cup {NoLogin}]
  /\ accepted \in [Profiles -> Tokens \cup {NoToken}] /\ disturbed \subseteq Profiles

\* The token of a deleted profile never comes back, whichever search, login or
\* verification answers afterwards (docs/PRIVACY.md: deleting a profile also
\* removes its credentials).
DeletedStaysDeleted == \A p \in Profiles : provider[p] = "deleted" => token[p] = NoToken

\* Between verifications a profile has the token that Streamlabs accepted last,
\* and the account it shows is the one its LIVE would be created with, as long
\* as its verifications do not overlap, none is lost with OBS and the previous
\* token could be written back; the next undisturbed login heals it.
AcceptedIsStored ==
  \A p \in Present \ disturbed : Of(p, jobs) = {} =>
    /\ token[p] = accepted[p]
    /\ provider[p] = "streamlabs" => username[p] \in {NoToken, token[p]}

\* A code that arrives while a login waits completes only that login: what an
\* earlier page confirms late is not taken for it. (A code that was under way
\* when the login began is; the README tells how.)
OwnCodeOnly ==
  [][\A e \in exchanges, t \in Tokens :
       Exchanged(e, t) /\ login.id = e.waiting => e.code = login.id]_vars
=============================================================================

--------------------------- MODULE StudioAccount ---------------------------
(* Who saves and deletes the LIVE Studio login of one account: the QR login  *)
(* and the browser import of the dock, the provider, which saves the cookies *)
(* of every answer it gets, the usage figures of frame signing, and the      *)
(* deletion of the last profile that uses the account. All run on the dock's *)
(* thread; requests are answered later, in any order.                        *)
EXTENDS TokenStore

CONSTANTS
  Profiles,      \* the profiles that share the account
  MaxRequests    \* bound: requests under way at a time

\* What the dock does when a call to the store returns.
Calls == [op : {"refresh", "erase"}, profile : Profiles]
         \cup [op : {"dialog"}, profile : Profiles, device : Devices \cup {NoDevice}, jar : Jars \cup {NoJar}]
Dialogs == [profile : Profiles, device : Devices \cup {NoDevice}, jar : Jars \cup {NoJar}]

ASSUME AccountAssumption == Nothing \notin Calls \cup Dialogs

VARIABLES
  profiles,   \* the profiles that refer to the account
  requests,   \* the requests under way, each with the login it was made with
  dialog,     \* the QR dialog open, with its profile and its account
  waiting     \* what the dock does when the store's call returns
vars == <<store, profiles, requests, dialog, waiting>>

\* A provider's request the profile waits for (create, end, recover: preparing,
\* ending and recovering keep it from being deleted), one it does not (account
\* refresh, game list, heartbeat), and the browser import.
Kinds == {"awaited", "loose", "import"}
Request == [profile : Profiles, kind : Kinds, device : Devices \cup {NoDevice},
            jar : Jars, newest : BOOLEAN]

HasDevice(account) == account # Nothing /\ account.device # NoDevice
HasLogin(account) == HasDevice(account) /\ account.jar # NoJar
Account == IF Loaded = Nothing THEN [device |-> NoDevice, jar |-> NoJar] ELSE Loaded

\* The dock's thread is between two events; a modal dialog keeps its buttons shut.
Free == Idle /\ waiting = Nothing
Clickable == Free /\ dialog = Nothing

\* ++tiktok_studio_account_generation_: older requests of the profile are stale.
Outdated(p) == {IF r.profile = p THEN [r EXCEPT !.newest = FALSE] ELSE r : r \in requests}

Init ==
  /\ InitStore
  /\ profiles = Profiles
  /\ requests = {} /\ dialog = Nothing /\ waiting = Nothing

\* A request beyond the bound is not made.
Ask(asked, p, kind, account) ==
  requests' = IF Cardinality(asked) < MaxRequests
              THEN asked \cup {[profile |-> p, kind |-> kind, device |-> account.device,
                                jar |-> account.jar, newest |-> kind = "import"]}
              ELSE asked

-----------------------------------------------------------------------------
(* The provider: a request carries the login it finds, and its answer saves  *)
(* the cookies it brought, unless it is an empty placeholder.                *)
RefreshAccount(p) ==
  IF HasLogin(Account) THEN Ask(Outdated(p), p, "loose", Account) ELSE requests' = Outdated(p)

Refresh(p) ==
  /\ Clickable /\ p \in profiles
  /\ RefreshAccount(p)
  /\ UNCHANGED <<store, profiles, dialog, waiting>>

\* The dock's other calls come on timers too, whether a dialog is open or not.
Call(p, kind) ==
  /\ Free /\ p \in profiles /\ kind # "import"
  /\ HasLogin(Account)
  /\ Ask(requests, p, kind, Account)
  /\ UNCHANGED <<store, profiles, dialog, waiting>>

Answered(r) ==
  /\ Free /\ r.kind # "import"
  /\ requests' = requests \ {r}
  /\ \/ \E jar \in Jars \cup {NoJar} : BeginSave([device |-> r.device, jar |-> jar])
     \/ UNCHANGED store
  /\ UNCHANGED <<profiles, dialog, waiting>>

-----------------------------------------------------------------------------
(* complete_tiktok_studio_login: the account is refreshed once it is saved. *)
CompleteLogin(p, account) ==
  IF p \in profiles /\ HasLogin(account)
  THEN BeginSave(account) /\ waiting' = [op |-> "refresh", profile |-> p]
  ELSE UNCHANGED <<store, waiting>>

Import(p, jar) ==
  /\ Clickable /\ p \in profiles
  /\ Ask(Outdated(p), p, "import", [Account EXCEPT !.jar = jar])
  /\ UNCHANGED <<store, profiles, dialog, waiting>>

ImportAnswered(r) ==
  /\ Free /\ r.kind = "import"
  /\ requests' = requests \ {r}
  /\ \/ /\ r.newest
        /\ \E device \in IF r.device = NoDevice THEN Devices ELSE {r.device}, jar \in Jars :
             CompleteLogin(r.profile, [device |-> device, jar |-> jar])
     \/ UNCHANGED <<store, waiting>>
  /\ UNCHANGED <<profiles, dialog>>

\* begin_tiktok_studio_login saves the RapidAPI key, then opens the dialog on
\* the login as it was loaded before.
BeginLogin(p) ==
  /\ Clickable /\ p \in profiles
  /\ BeginSave(Account)
  /\ waiting' = [op |-> "dialog", profile |-> p, device |-> Account.device, jar |-> Account.jar]
  /\ UNCHANGED <<profiles, requests, dialog>>

\* A QR code or a poll was answered: the device is registered, cookies came.
DialogAnswered ==
  /\ Free /\ dialog # Nothing
  /\ \E device \in IF dialog.device = NoDevice THEN Devices ELSE {dialog.device}, jar \in Jars \cup {NoJar} :
       dialog' = [dialog EXCEPT !.device = device, !.jar = jar]
  /\ UNCHANGED <<store, profiles, requests, waiting>>

DialogClosed ==
  /\ Free /\ dialog # Nothing
  /\ BeginSave([device |-> dialog.device, jar |-> dialog.jar])
  /\ dialog' = Nothing
  /\ UNCHANGED <<profiles, requests, waiting>>

DialogConfirmed ==
  /\ Free /\ HasDevice(dialog)
  /\ \E jar \in Jars \cup {NoJar} :
       CompleteLogin(dialog.profile, [device |-> dialog.device, jar |-> jar])
  /\ dialog' = Nothing
  /\ UNCHANGED <<profiles, requests>>

\* record_rapidapi_quota: the figures are merged into the login as it is stored.
RecordQuota(p) ==
  /\ Free /\ p \in profiles
  /\ BeginSave(Account)
  /\ UNCHANGED <<profiles, requests, dialog, waiting>>

-----------------------------------------------------------------------------
(* delete_selected_profile: the account goes with its last profile, and the  *)
(* profiles are saved after it.                                              *)
\* Mutant: a profile is deleted while it prepares, ends or recovers.
DeletableAnytime(p) == p \in profiles

Deletable(p) ==
  /\ p \in profiles
  /\ ~\E r \in requests : r.profile = p /\ r.kind = "awaited"

\* Mutant: the account goes with any of its profiles.
DeleteAlways(p) ==
  /\ Clickable /\ Deletable(p)
  /\ requests' = Outdated(p)
  /\ BeginRemove /\ waiting' = [op |-> "erase", profile |-> p]
  /\ UNCHANGED <<profiles, dialog>>

Delete(p) ==
  /\ Clickable /\ Deletable(p)
  /\ requests' = Outdated(p)
  /\ IF profiles = {p}
     THEN BeginRemove /\ waiting' = [op |-> "erase", profile |-> p] /\ UNCHANGED profiles
     ELSE profiles' = profiles \ {p} /\ UNCHANGED <<store, waiting>>
  /\ UNCHANGED dialog

-----------------------------------------------------------------------------
(* The store's call returns to its caller. *)
Erase ==
  /\ waiting.op = "erase"
  /\ profiles' = profiles \ {waiting.profile}
  /\ UNCHANGED <<requests, dialog>>

OpenDialog ==
  /\ waiting.op = "dialog"
  /\ IF result = "saved"
     THEN /\ requests' = Outdated(waiting.profile)
          /\ dialog' = [profile |-> waiting.profile, device |-> waiting.device, jar |-> waiting.jar]
     ELSE UNCHANGED <<requests, dialog>>
  /\ UNCHANGED profiles

\* The signing credentials are saved before the refresh, which may fail too.
LoginCompleted ==
  /\ waiting.op = "refresh"
  /\ \/ result = "saved" /\ RefreshAccount(waiting.profile)
     \/ (result = "failed" \/ "write" \in Faults) /\ UNCHANGED requests
  /\ UNCHANGED <<profiles, dialog>>

Return ==
  /\ Idle /\ waiting # Nothing
  /\ Erase \/ OpenDialog \/ LoginCompleted
  /\ waiting' = Nothing
  /\ UNCHANGED store

Work == StoreStep /\ UNCHANGED <<profiles, requests, dialog, waiting>>

Crash ==
  /\ CrashStore
  /\ requests' = {} /\ dialog' = Nothing /\ waiting' = Nothing
  /\ UNCHANGED profiles

Next ==
  \/ \E p \in Profiles :
       \/ Refresh(p) \/ BeginLogin(p) \/ RecordQuota(p) \/ Delete(p)
       \/ \E kind \in Kinds : Call(p, kind)
       \/ \E jar \in Jars : Import(p, jar)
  \/ \E r \in requests : Answered(r) \/ ImportAnswered(r)
  \/ DialogAnswered \/ DialogClosed \/ DialogConfirmed
  \/ Return \/ Work \/ Crash

Spec == Init /\ [][Next]_vars

-----------------------------------------------------------------------------
(* Properties. *)

\* The keyring holds nothing of the account but what it refused to remove.
Erased == /\ metadata # Nothing => MetadataEntry \in refused
          /\ \A e \in Entries : cookies[e] # NoJar => e \in refused

\* The deletion of the last profile that uses the account leaves nothing of it,
\* whatever a crash left behind before (that both sets go), and afterwards only
\* the answer to a request that the profile did not wait for saves it again: no
\* dialog, import, retry or answer to an awaited request does.
ErasedAtLast ==
  [][/\ profiles # {} /\ profiles' = {} => Erased'
     /\ profiles = {} /\ writing = Nothing /\ writing' # Nothing
          => \E r \in requests \ requests' : r.kind = "loose"]_vars

\* Once the last profile is deleted, the login is gone for good: what PRIVACY.md
\* says of a deletion.  The code does not keep it: a refresh, a heartbeat or the
\* game list that is answered later saves the cookies of its answer.
DeletedForGood == profiles = {} => Erased

\* A registered device outlives the deletion of one of several profiles that use
\* the account, and every save by the others.
SharedLoginKept ==
  [][Cardinality(profiles) > 1 /\ HasDevice(Loaded) => HasDevice(Loaded')]_vars
=============================================================================

----------------------------- MODULE SavedLogin -----------------------------
(* What secure storage promises of one saved LIVE Studio login, wherever a   *)
(* call is interrupted: a save replaces the login in one step, by what it     *)
(* was given and a registered device, or leaves it as it was; the cookies    *)
(* are lost only while the login is being deleted, and only a deletion        *)
(* forgets the device.                                                        *)
CONSTANTS Devices, NoDevice, Jars, NoJar, Nothing

VARIABLES
  login,      \* what a load returns
  saving,     \* the login that the save under way is to leave
  deleting    \* the login is being deleted
vars == <<login, saving, deleting>>

Logins == [device : Devices \cup {NoDevice}, jar : Jars \cup {NoJar}]

Init == login = Nothing /\ saving = Nothing /\ deleting = FALSE

\* The device that was registered first stays.
Begin ==
  /\ saving = Nothing /\ ~deleting
  /\ \E offered \in Logins :
       saving' = IF login # Nothing /\ login.device # NoDevice
                 THEN [offered EXCEPT !.device = login.device] ELSE offered
  /\ UNCHANGED <<login, deleting>>

Commit ==
  /\ saving # Nothing
  /\ login' = saving /\ saving' = Nothing
  /\ UNCHANGED deleting

\* A write failed, or the program crashed.
Abandon ==
  /\ saving # Nothing
  /\ saving' = Nothing
  /\ UNCHANGED <<login, deleting>>

BeginDelete ==
  /\ saving = Nothing /\ ~deleting
  /\ deleting' = TRUE
  /\ UNCHANGED <<login, saving>>

LoseCookies ==
  /\ deleting /\ login # Nothing
  /\ login' = [login EXCEPT !.jar = NoJar]
  /\ UNCHANGED <<saving, deleting>>

Forget ==
  /\ deleting
  /\ login' = Nothing /\ deleting' = FALSE
  /\ UNCHANGED saving

\* The deletion is interrupted, or the store refuses the last of it.
Stop ==
  /\ deleting
  /\ deleting' = FALSE
  /\ UNCHANGED <<login, saving>>

Next == Begin \/ Commit \/ Abandon \/ BeginDelete \/ LoseCookies \/ Forget \/ Stop
Spec == Init /\ [][Next]_vars
=============================================================================

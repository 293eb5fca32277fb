------------------------- MODULE OutputSigning_proofs -------------------------
(***************************************************************************)
(* What OutputSigning keeps for any sessions, outputs, keys and faults, and *)
(* for any times under TimeAssumption.                                     *)
(***************************************************************************)
EXTENDS OutputSigning, TLAPS

\* s is attached to its output.
At(s) == sessions[Name[s]] = s

\* An output has an attached session or a pending one, each under its name.
Registered ==
  /\ \A o \in Outputs : sessions[o] # NoSession =>
       /\ Name[sessions[o]] = o /\ answer[sessions[o]] = "told"
       /\ <<bound[sessions[o]], sessions[o]>> \in hooked
       /\ pending[o] = NoSession
  /\ \A o \in Outputs : pending[o] # NoSession =>
       Name[pending[o]] = o /\ answer[pending[o]] = "waiting"

\* Which object a session is bound to.
Placed ==
  /\ \A s \in Sessions : At(s) =>
       IF Name[s] = Main
       THEN bound[s] \in MainObjects /\ (mainObject \in running => bound[s] = mainObject)
       ELSE bound[s] = Name[s]
  /\ running \cap MainObjects \subseteq {mainObject}

\* A session that was never attached has never refreshed or failed.
Untouched ==
  \A s \in Sessions : answer[s] \in {"new", "waiting"} => ~refreshing[s] /\ ~fatal[s]

\* A request in time, a batch worth having, one refresh at a time.
JobsInTime ==
  \A j \in jobs :
    /\ j.op \in {"prefetch", "refresh"} => j.left >= Life - Timeout
    /\ j.op = "cached" => j.left >= Fresh
    /\ \A i \in jobs, s \in Sessions :
         j.op = "refresh" /\ i.op = "refresh" /\ s \in i.for /\ s \in j.for => i = j

TimerRuns == \A s \in Sessions : At(s) => timer # Stopped

\* What a session has left reaches the next tick and the answer after it.
Timely ==
  \A s \in Sessions : At(s) /\ s \notin spoiled =>
    /\ ~refreshing[s] => cache[s] + Tick > Due + timer
    /\ \A j \in jobs : j.op = "refresh" /\ s \in j.for => cache[s] > j.left - (Life - Timeout)

Shut == down => \A o \in Outputs : sessions[o] = NoSession /\ pending[o] = NoSession

\* An output does not run on after a fatal error, unless it may be restarted.
Closed ==
  "restart" \notin Faults => \A s \in Sessions :
    At(s) /\ fatal[s] /\ bound[s] \in running => \E j \in jobs : j.op = "fatal" /\ j.for = {s}

Attachment == TypeOK /\ Registered /\ CallbackOwned /\ Placed /\ Untouched /\ Shut
Supply == JobsInTime /\ RefreshingHasJob /\ TimerRuns /\ Timely
IInv == Attachment /\ Supply /\ Closed

-----------------------------------------------------------------------------
LEMMA AttachedAt ==
  ASSUME TypeOK, Registered
  PROVE  Attached = {s \in Sessions : At(s)}
<1>1. ASSUME NEW s \in Attached PROVE s \in Sessions /\ At(s)
  <2>. PICK o \in Outputs : s = sessions[o] /\ s # NoSession
    BY DEF Attached
  <2>. QED
    BY DEF TypeOK, Registered, At
<1>2. ASSUME NEW s \in Sessions, At(s) PROVE s \in Attached
  BY <1>2, NameAssumption, ObjectAssumption DEF Attached, At
<1>. QED
  BY <1>1, <1>2

LEMMA AttachedTold ==
  ASSUME TypeOK, Registered, NEW s \in Sessions, At(s)
  PROVE  answer[s] = "told"
<1>1. Name[s] \in Outputs /\ sessions[Name[s]] = s /\ s # NoSession
  BY NameAssumption, ObjectAssumption DEF At
<1>. QED
  BY <1>1 DEF Registered

LEMMA InitInv == Init => IInv
<1>. SUFFICES ASSUME Init PROVE IInv
  OBVIOUS
<1>1. TypeOK
  <2>1. 0 \in 0 .. Life /\ Stopped \in 0 .. Stopped
    BY TimeAssumption DEF Stopped
  <2>. QED
    BY <2>1 DEF Init, TypeOK
<1>2. \A s \in Sessions : ~At(s)
  BY NameAssumption, ObjectAssumption DEF Init, At
<1>3. Registered /\ CallbackOwned /\ Placed /\ Untouched /\ Shut
  BY <1>2 DEF Init, Registered, CallbackOwned, Placed, Untouched, Shut
<1>4. Supply /\ Closed
  BY <1>2 DEF Init, Supply, JobsInTime, RefreshingHasJob, TimerRuns, Timely, Closed
<1>. QED
  BY <1>1, <1>3, <1>4 DEF IInv, Attachment

-----------------------------------------------------------------------------
\* Steps that only change what OBS runs.

LEMMA StartOutputInv == ASSUME IInv, NEW o \in Outputs, StartOutput(o) PROVE IInv'
<1>. USE DEF IInv, Attachment, Supply
<1>1. /\ UNCHANGED <<sessions, pending, answer, bound, hooked, cache, refreshing, batches, timer,
                     spoiled, fatal, jobs, mainObject, down>>
      /\ running' = running \cup {o} /\ o # Main
  BY DEF StartOutput, registry, signatures
<1>2. TypeOK'
  BY <1>1 DEF TypeOK, Objects
<1>3. Registered' /\ CallbackOwned' /\ Untouched' /\ Shut' /\ Supply'
  BY <1>1 DEF Registered, CallbackOwned, Untouched, Shut, JobsInTime, RefreshingHasJob,
     TimerRuns, Timely, At
<1>4. Placed'
  BY <1>1, ObjectAssumption DEF Placed, At, TypeOK
<1>5. Closed'
  <2>. SUFFICES ASSUME "restart" \notin Faults, NEW s \in Sessions, At(s)', fatal'[s],
                       bound'[s] \in running'
                PROVE  \E j \in jobs' : j.op = "fatal" /\ j.for = {s}
    BY DEF Closed
  <2>1. At(s) /\ fatal[s]
    BY <1>1 DEF At
  <2>2. CASE bound[s] = o
    <3>1. Name[s] = o
      BY <1>1, <2>1, <2>2, ObjectAssumption DEF Placed
    <3>2. sessions[o] = s /\ s \in Attached
      BY <2>1, <3>1, AttachedAt DEF At
    <3>. QED
      BY <2>1, <3>2 DEF StartOutput, Startable, Fault
  <2>3. CASE bound[s] # o
    BY <1>1, <2>1, <2>3 DEF Closed
  <2>. QED
    BY <2>2, <2>3
<1>. QED
  BY <1>2, <1>3, <1>4, <1>5

LEMMA StopOutputInv == ASSUME IInv, NEW x \in Objects, StopOutput(x) PROVE IInv'
<1>. USE DEF IInv, Attachment, Supply
<1>1. /\ UNCHANGED <<sessions, pending, answer, bound, hooked, cache, refreshing, batches, timer,
                     spoiled, fatal, jobs, mainObject, down>>
      /\ running' \subseteq running
  BY DEF StopOutput, registry, signatures
<1>2. TypeOK'
  BY <1>1 DEF TypeOK
<1>3. Registered' /\ CallbackOwned' /\ Untouched' /\ Shut' /\ Supply' /\ Closed'
  BY <1>1 DEF Registered, CallbackOwned, Untouched, Shut, JobsInTime, RefreshingHasJob,
     TimerRuns, Timely, At, Closed
<1>4. Placed'
  BY <1>1 DEF Placed, At
<1>. QED
  BY <1>2, <1>3, <1>4

LEMMA ReplaceMainInv == ASSUME IInv, ReplaceMain PROVE IInv'
<1>. USE DEF IInv, Attachment, Supply
<1>1. /\ UNCHANGED <<sessions, pending, answer, bound, hooked, cache, refreshing, batches, timer,
                     spoiled, fatal, jobs, running, down>>
      /\ mainObject \notin running /\ mainObject' \in MainObjects \ {mainObject}
  BY DEF ReplaceMain, registry, signatures
<1>2. TypeOK'
  BY <1>1 DEF TypeOK
<1>3. Registered' /\ CallbackOwned' /\ Untouched' /\ Shut' /\ Supply' /\ Closed'
  BY <1>1 DEF Registered, CallbackOwned, Untouched, Shut, JobsInTime, RefreshingHasJob,
     TimerRuns, Timely, At, Closed
<1>4. Placed'
  <2>1. running \cap MainObjects = {}
    BY <1>1 DEF Placed
  <2>. QED
    BY <1>1, <2>1 DEF Placed, At
<1>. QED
  BY <1>2, <1>3, <1>4

LEMMA StartMainInv == ASSUME IInv, StartMain PROVE IInv'
<1>. USE DEF IInv, Attachment, Supply
<1>1. /\ UNCHANGED <<sessions, pending, answer, cache, refreshing, batches, timer,
                     spoiled, fatal, jobs, mainObject, down>>
      /\ mainObject \notin running /\ running' = running \cup {mainObject}
      /\ mainObject \in Objects /\ mainObject \in MainObjects
  BY DEF StartMain, signatures, TypeOK, Objects
<1>2. ASSUME NEW s \in Sessions, At(s), Name[s] = Main
      PROVE  bound'[s] = mainObject /\ <<mainObject, s>> \in hooked' /\ s = sessions[Main]
  <2>1. s = sessions[Main] /\ s # NoSession
    BY <1>2, ObjectAssumption DEF At
  <2>2. CASE bound[s] = mainObject
    <3>1. <<bound[sessions[Main]], sessions[Main]>> \in hooked
      BY <2>1, NameAssumption DEF Registered
    <3>2. UNCHANGED <<bound, hooked>>
      BY <2>1, <2>2 DEF StartMain, Rebind
    <3>. QED
      BY <2>1, <2>2, <3>1, <3>2
  <2>3. CASE bound[s] # mainObject
    <3>1. /\ hooked' = (hooked \ {<<bound[s], s>>}) \cup {<<mainObject, s>>}
          /\ bound' = [bound EXCEPT ![s] = mainObject]
      BY <2>1, <2>3 DEF StartMain, Rebind
    <3>. QED
      BY <2>1, <3>1 DEF TypeOK
  <2>. QED
    BY <2>2, <2>3
<1>3. ASSUME NEW s \in Sessions, ~(At(s) /\ Name[s] = Main)
      PROVE  bound'[s] = bound[s] /\ \A x \in Objects : <<x, s>> \in hooked' <=> <<x, s>> \in hooked
  <2>1. s # sessions[Main]
    <3>. SUFFICES ASSUME s = sessions[Main] PROVE FALSE
      OBVIOUS
    <3>1. Name[s] = Main
      BY NameAssumption, ObjectAssumption DEF Registered
    <3>. QED
      BY <1>3, <3>1 DEF At
  <2>2. CASE UNCHANGED <<bound, hooked>>
    BY <2>2
  <2>3. CASE /\ hooked' = (hooked \ {<<bound[sessions[Main]], sessions[Main]>>})
                             \cup {<<mainObject, sessions[Main]>>}
             /\ bound' = [bound EXCEPT ![sessions[Main]] = mainObject]
    BY <2>1, <2>3 DEF TypeOK
  <2>. QED
    BY <2>2, <2>3 DEF StartMain, Rebind
<1>4. TypeOK'
  <2>1. bound' \in [Sessions -> Objects \cup {NoObject}]
    BY <1>1 DEF TypeOK, StartMain, Rebind
  <2>2. hooked' \subseteq Objects \X Sessions
    BY <1>1, NameAssumption DEF TypeOK, StartMain, Rebind
  <2>. QED
    BY <1>1, <2>1, <2>2 DEF TypeOK
<1>5. Registered'
  <2>1. \A o \in Outputs : sessions[o] # NoSession => <<bound'[sessions[o]], sessions[o]>> \in hooked'
    <3>. SUFFICES ASSUME NEW o \in Outputs, sessions[o] # NoSession
                  PROVE  <<bound'[sessions[o]], sessions[o]>> \in hooked'
      OBVIOUS
    <3>1. sessions[o] \in Sessions /\ Name[sessions[o]] = o /\ At(sessions[o])
      BY DEF TypeOK, Registered, At
    <3>2. CASE o = Main
      BY <1>2, <3>1, <3>2
    <3>3. CASE o # Main
      <4>1. <<bound[sessions[o]], sessions[o]>> \in hooked /\ bound[sessions[o]] \in Objects
        BY DEF Registered, TypeOK
      <4>. QED
        BY <1>3, <3>1, <3>3, <4>1
    <3>. QED
      BY <3>2, <3>3
  <2>. QED
    BY <1>1, <2>1 DEF Registered
<1>6. CallbackOwned'
  <2>. SUFFICES ASSUME NEW h \in hooked'
                PROVE  sessions[Name[h[2]]] = h[2] /\ bound'[h[2]] = h[1]
    BY <1>1 DEF CallbackOwned
  <2>1. h = <<h[1], h[2]>> /\ h[1] \in Objects /\ h[2] \in Sessions
    BY <1>4 DEF TypeOK
  <2>2. CASE At(h[2]) /\ Name[h[2]] = Main
    <3>1. h[2] = sessions[Main] /\ bound'[h[2]] = mainObject
      BY <1>2, <2>1, <2>2
    <3>2. CASE bound[h[2]] = mainObject
      <4>1. h \in hooked
        BY <3>1, <3>2 DEF StartMain, Rebind
      <4>. QED
        BY <2>2, <3>1, <3>2, <4>1 DEF CallbackOwned, At
    <3>3. CASE bound[h[2]] # mainObject
      <4>1. hooked' = (hooked \ {<<bound[h[2]], h[2]>>}) \cup {<<mainObject, h[2]>>}
        BY <2>1, <3>1, <3>3, ObjectAssumption DEF StartMain, Rebind
      <4>2. h \in hooked => h[1] = bound[h[2]]
        BY DEF CallbackOwned
      <4>. QED
        BY <2>1, <2>2, <3>1, <4>1, <4>2 DEF At
    <3>. QED
      BY <3>2, <3>3
  <2>3. CASE ~(At(h[2]) /\ Name[h[2]] = Main)
    <3>1. h \in hooked /\ bound'[h[2]] = bound[h[2]]
      BY <1>3, <2>1, <2>3
    <3>. QED
      BY <3>1 DEF CallbackOwned
  <2>. QED
    BY <2>2, <2>3
<1>7. Placed'
  BY <1>1, <1>2, <1>3 DEF Placed, At
<1>8. Untouched' /\ Shut' /\ Supply'
  BY <1>1 DEF Untouched, Shut, JobsInTime, RefreshingHasJob, TimerRuns, Timely, At
<1>9. Closed'
  <2>. SUFFICES ASSUME "restart" \notin Faults, NEW s \in Sessions, At(s), fatal[s],
                       bound'[s] \in running'
                PROVE  \E j \in jobs : j.op = "fatal" /\ j.for = {s}
    BY <1>1 DEF Closed, At
  <2>1. CASE Name[s] = Main
    <3>1. s \in Attached /\ s = sessions[Main]
      BY <1>2, <2>1, AttachedAt
    <3>. QED
      BY <3>1 DEF StartMain, Startable, Fault
  <2>2. CASE Name[s] # Main
    <3>1. bound'[s] = Name[s] /\ bound[s] = Name[s] /\ Name[s] \notin MainObjects
      BY <1>3, <2>2, NameAssumption, ObjectAssumption DEF Placed
    <3>. QED
      BY <1>1, <3>1 DEF Closed
  <2>. QED
    BY <2>1, <2>2
<1>. QED
  BY <1>4, <1>5, <1>6, <1>7, <1>8, <1>9
-----------------------------------------------------------------------------
\* Detaching.  The lemmas about the outputs O serve detach, the destructor and
\* the beginning of prepare_and_attach.

Gone(O) == {sessions[o] : o \in O} \ {NoSession}

LEMMA GoneAt ==
  ASSUME TypeOK, Registered, NEW O \in SUBSET Outputs
  PROVE  Gone(O) = {s \in Sessions : At(s) /\ Name[s] \in O}
<1>1. ASSUME NEW s \in Gone(O) PROVE s \in Sessions /\ At(s) /\ Name[s] \in O
  <2>. PICK o \in O : s = sessions[o] /\ s # NoSession
    BY DEF Gone
  <2>. QED
    BY DEF TypeOK, Registered, At
<1>2. ASSUME NEW s \in Sessions, At(s), Name[s] \in O PROVE s \in Gone(O)
  BY <1>2, NameAssumption, ObjectAssumption DEF Gone, At
<1>. QED
  BY <1>1, <1>2

\* What is left after a release.
LEMMA Released ==
  ASSUME IInv, NEW O \in SUBSET Outputs, Release(O)
  PROVE  /\ \A o \in Outputs : sessions'[o] = IF o \in O THEN NoSession ELSE sessions[o]
         /\ \A s \in Sessions : At(s)' <=> At(s) /\ Name[s] \notin O
         /\ \A s \in Sessions : s \notin Gone(O) =>
              /\ bound'[s] = bound[s] /\ cache'[s] = cache[s] /\ fatal'[s] = fatal[s]
              /\ s \in spoiled' <=> s \in spoiled
         /\ \A s \in Sessions : fatal'[s] => fatal[s]
         /\ \A x \in Objects, s \in Sessions :
              <<x, s>> \in hooked' <=> <<x, s>> \in hooked /\ s \notin Gone(O)
         /\ timer' = timer \/ (timer' = Stopped /\ \A s \in Sessions : ~At(s)')
         /\ sessions' \in [Outputs -> Sessions \cup {NoSession}]
         /\ bound' \in [Sessions -> Objects \cup {NoObject}]
         /\ hooked' \subseteq Objects \X Sessions
         /\ cache' \in [Sessions -> 0 .. Life] /\ fatal' \in [Sessions -> BOOLEAN]
         /\ spoiled' \subseteq Sessions /\ timer' \in 0 .. Stopped
<1>. USE DEF IInv, Attachment
<1>1. /\ sessions' = [o \in Outputs |-> IF o \in O THEN NoSession ELSE sessions[o]]
      /\ hooked' = hooked \ {<<bound[s], s>> : s \in Gone(O)}
      /\ bound' = [s \in Sessions |-> IF s \in Gone(O) THEN NoObject ELSE bound[s]]
      /\ cache' = [s \in Sessions |-> IF s \in Gone(O) THEN 0 ELSE cache[s]]
      /\ fatal' = [s \in Sessions |-> fatal[s] /\ s \notin Gone(O)]
      /\ spoiled' = spoiled \ Gone(O)
      /\ timer' = IF Gone(O) # {} /\ Attached \subseteq Gone(O) THEN Stopped ELSE timer
  BY DEF Release, Gone
<1>2. \A s \in Sessions : At(s)' <=> At(s) /\ Name[s] \notin O
  <2>1. \A s \in Sessions : Name[s] \in Outputs /\ s # NoSession
    BY NameAssumption, ObjectAssumption
  <2>. QED
    BY <1>1, <2>1 DEF At
<1>3. ASSUME NEW x \in Objects, NEW s \in Sessions
      PROVE  <<x, s>> \in hooked' <=> <<x, s>> \in hooked /\ s \notin Gone(O)
  BY <1>1 DEF CallbackOwned
<1>4. timer' = timer \/ (timer' = Stopped /\ \A s \in Sessions : ~At(s)')
  <2>1. CASE Attached \subseteq Gone(O)
    BY <1>1, <1>2, <2>1, AttachedAt, GoneAt
  <2>2. CASE ~(Attached \subseteq Gone(O))
    <3>1. timer' = timer
      BY <1>1, <2>2
    <3>. QED
      BY <3>1
  <2>. QED
    BY <2>1, <2>2
<1>5. /\ sessions' \in [Outputs -> Sessions \cup {NoSession}]
      /\ bound' \in [Sessions -> Objects \cup {NoObject}]
      /\ hooked' \subseteq Objects \X Sessions
      /\ fatal' \in [Sessions -> BOOLEAN] /\ spoiled' \subseteq Sessions
  BY <1>1 DEF TypeOK
<1>6. cache' \in [Sessions -> 0 .. Life] /\ timer' \in 0 .. Stopped
  <2>1. 0 \in 0 .. Life /\ Stopped \in 0 .. Stopped
    BY TimeAssumption DEF Stopped
  <2>. QED
    BY <1>1, <2>1 DEF TypeOK
<1>. QED
  BY <1>1, <1>2, <1>3, <1>4, <1>5, <1>6 DEF TypeOK

LEMMA ReleaseKeeps ==
  ASSUME IInv, NEW O \in SUBSET Outputs, Release(O), UNCHANGED <<refreshing, mainObject, running>>,
         \A j \in jobs' : j.op = "refresh" => j \in jobs,
         jobs \subseteq jobs' \/ \A s \in Sessions : ~At(s)'
  PROVE  CallbackOwned' /\ Placed' /\ TimerRuns' /\ Timely' /\ Closed'
<1>. USE DEF IInv, Attachment, Supply
<1>1. \A s \in Sessions : s \in Gone(O) <=> At(s) /\ Name[s] \in O
  BY GoneAt
<1>2. \A s \in Sessions : At(s)' => At(s) /\ s \notin Gone(O)
  BY <1>1, Released
<1>3. CallbackOwned'
  <2>. SUFFICES ASSUME NEW h \in hooked'
                PROVE  sessions'[Name[h[2]]] = h[2] /\ bound'[h[2]] = h[1]
    BY DEF CallbackOwned
  <2>1. h = <<h[1], h[2]>> /\ h[1] \in Objects /\ h[2] \in Sessions
    BY Released
  <2>2. h \in hooked /\ h[2] \notin Gone(O) /\ bound'[h[2]] = bound[h[2]]
    BY <2>1, Released
  <2>3. At(h[2])'
    BY <1>1, <2>1, <2>2, Released DEF CallbackOwned, At
  <2>. QED
    BY <2>2, <2>3 DEF CallbackOwned, At
<1>4. Placed'
  BY <1>2, Released DEF Placed
<1>5. TimerRuns'
  BY <1>2, Released DEF TimerRuns
<1>6. Timely'
  <2>. SUFFICES ASSUME NEW s \in Sessions, At(s)', s \notin spoiled'
                PROVE  /\ ~refreshing'[s] => cache'[s] + Tick > Due + timer'
                       /\ \A j \in jobs' : j.op = "refresh" /\ s \in j.for =>
                            cache'[s] > j.left - (Life - Timeout)
    BY DEF Timely
  <2>1. At(s) /\ s \notin spoiled /\ cache'[s] = cache[s] /\ timer' = timer
    BY <1>2, Released
  <2>. QED
    BY <2>1 DEF Timely
<1>7. Closed'
  <2>. SUFFICES ASSUME "restart" \notin Faults, NEW s \in Sessions, At(s)', fatal'[s],
                       bound'[s] \in running
                PROVE  \E j \in jobs' : j.op = "fatal" /\ j.for = {s}
    BY DEF Closed
  <2>1. At(s) /\ fatal[s] /\ bound[s] \in running /\ jobs \subseteq jobs'
    BY <1>2, Released
  <2>. QED
    BY <2>1 DEF Closed
<1>. QED
  BY <1>3, <1>4, <1>5, <1>6, <1>7

LEMMA ToldDropped ==
  ASSUME IInv, NEW O \in SUBSET Outputs
  PROVE  /\ Told(O) \in [Sessions -> {"new", "waiting", "told", "dropped"}]
         /\ \A s \in Sessions : Told(O)[s] # answer[s] =>
              /\ answer[s] = "waiting" /\ Told(O)[s] = "dropped"
              /\ pending[Name[s]] = s /\ Name[s] \in O
<1>. USE DEF IInv, Attachment
<1>1. Told(O) \in [Sessions -> {"new", "waiting", "told", "dropped"}]
  BY DEF Told, TypeOK
<1>2. ASSUME NEW s \in Sessions, Told(O)[s] # answer[s]
      PROVE  /\ answer[s] = "waiting" /\ Told(O)[s] = "dropped"
             /\ pending[Name[s]] = s /\ Name[s] \in O
  <2>1. PICK o \in O : pending[o] = s /\ Told(O)[s] = "dropped"
    BY <1>2 DEF Told
  <2>. QED
    BY <2>1, ObjectAssumption DEF Registered
<1>. QED
  BY <1>1, <1>2

\* detach and the destructor.
LEMMA DetachedInv ==
  ASSUME IInv, NEW O \in SUBSET Outputs, Release(O),
         \A o \in Outputs : pending'[o] = IF o \in O THEN NoSession ELSE pending[o],
         pending' \in [Outputs -> Sessions \cup {NoSession}], answer' = Told(O),
         UNCHANGED <<refreshing, batches, mainObject, running>>, down' \in BOOLEAN,
         \/ UNCHANGED <<down, jobs>>
         \/ O = Outputs /\ down' /\ jobs' = {}
  PROVE  IInv'
<1>. USE DEF IInv, Attachment, Supply
<1>1. jobs' \subseteq jobs
  OBVIOUS
<1>2. TypeOK'
  BY <1>1, Released, ToldDropped DEF TypeOK
<1>3. CallbackOwned' /\ Placed' /\ TimerRuns' /\ Timely' /\ Closed'
  <2>1. jobs \subseteq jobs' \/ \A s \in Sessions : ~At(s)'
    BY Released, NameAssumption
  <2>. QED
    BY <1>1, <2>1, ReleaseKeeps
<1>4. Registered'
  <2>1. ASSUME NEW o \in Outputs, sessions'[o] # NoSession
        PROVE  /\ Name[sessions'[o]] = o /\ answer'[sessions'[o]] = "told"
               /\ <<bound'[sessions'[o]], sessions'[o]>> \in hooked'
               /\ pending'[o] = NoSession
    <3>1. o \notin O /\ sessions'[o] = sessions[o] /\ sessions[o] \in Sessions
      BY <2>1, Released DEF TypeOK
    <3>2. Name[sessions[o]] = o /\ sessions[o] \notin Gone(O)
      <4>1. Name[sessions[o]] = o
        BY <3>1, ObjectAssumption DEF Registered
      <4>. QED
        BY <3>1, <4>1, GoneAt
    <3>3. answer[sessions[o]] = "told" /\ <<bound[sessions[o]], sessions[o]>> \in hooked
      BY <3>1, ObjectAssumption DEF Registered
    <3>4. answer'[sessions[o]] = "told"
      BY <3>1, <3>3, ToldDropped
    <3>5. bound[sessions[o]] \in Objects
      BY <3>3 DEF TypeOK
    <3>6. <<bound'[sessions[o]], sessions[o]>> \in hooked'
      BY <3>1, <3>2, <3>3, <3>5, Released
    <3>7. pending'[o] = NoSession
      BY <2>1, <3>1, ObjectAssumption DEF Registered
    <3>. QED
      BY <3>1, <3>2, <3>4, <3>6, <3>7
  <2>2. ASSUME NEW o \in Outputs, pending'[o] # NoSession
        PROVE  Name[pending'[o]] = o /\ answer'[pending'[o]] = "waiting"
    <3>1. o \notin O /\ pending'[o] = pending[o] /\ pending[o] \in Sessions
      BY <2>2 DEF TypeOK
    <3>2. Name[pending[o]] = o /\ answer[pending[o]] = "waiting"
      BY <3>1, ObjectAssumption DEF Registered
    <3>. QED
      BY <3>1, <3>2, ToldDropped
  <2>. QED
    BY <2>1, <2>2 DEF Registered
<1>5. Untouched'
  BY ToldDropped, Released DEF Untouched
<1>6. Shut'
  BY Released DEF Shut
<1>7. JobsInTime'
  BY <1>1 DEF JobsInTime
<1>8. RefreshingHasJob'
  BY DEF RefreshingHasJob
<1>. QED
  BY <1>2, <1>3, <1>4, <1>5, <1>6, <1>7, <1>8

LEMMA DetachInv == ASSUME IInv, NEW o \in Outputs, Detach(o) PROVE IInv'
<1>1. /\ Release({o}) /\ answer' = Told({o}) /\ pending' = [pending EXCEPT ![o] = NoSession]
      /\ UNCHANGED <<refreshing, batches, jobs, mainObject, running, down>>
  BY DEF Detach, obs
<1>2. /\ pending \in [Outputs -> Sessions \cup {NoSession}] /\ down \in BOOLEAN
      /\ {o} \in SUBSET Outputs
  BY DEF IInv, Attachment, TypeOK
<1>3. /\ pending' \in [Outputs -> Sessions \cup {NoSession}]
      /\ \A q \in Outputs : pending'[q] = IF q \in {o} THEN NoSession ELSE pending[q]
  BY <1>1, <1>2
<1>. QED
  BY <1>1, <1>2, <1>3, DetachedInv

LEMMA DestroyInv == ASSUME IInv, Destroy PROVE IInv'
<1>1. /\ Release(Outputs) /\ answer' = Told(Outputs)
      /\ pending' = [o \in Outputs |-> NoSession] /\ jobs' = {} /\ down' = TRUE
      /\ UNCHANGED <<refreshing, batches, mainObject, running>>
  BY DEF Destroy, obs
<1>. QED
  BY <1>1, DetachedInv

-----------------------------------------------------------------------------
\* Preparing.

LEMMA RefuseInv == ASSUME IInv, NEW s \in Sessions, Prepare(s), Refuse(s) PROVE IInv'
<1>. USE DEF IInv, Attachment, Supply
<1>1. /\ UNCHANGED <<sessions, pending, bound, hooked, cache, refreshing, batches, timer,
                     spoiled, fatal, jobs, mainObject, running, down>>
      /\ answer' = [answer EXCEPT ![s] = "told"] /\ answer[s] = "new"
  BY DEF Prepare, Refuse, signatures, obs
<1>2. TypeOK'
  BY <1>1 DEF TypeOK
<1>3. Registered'
  <2>1. \A t \in Sessions : t # s => answer'[t] = answer[t]
    BY <1>1 DEF TypeOK
  <2>2. answer'[s] = "told"
    BY <1>1 DEF TypeOK
  <2>. QED
    BY <1>1, <2>1, <2>2 DEF Registered, TypeOK
<1>4. CallbackOwned' /\ Placed' /\ Shut' /\ Supply' /\ Closed'
  BY <1>1 DEF CallbackOwned, Placed, Shut, JobsInTime, RefreshingHasJob, TimerRuns, Timely, Closed, At
<1>5. Untouched'
  BY <1>1 DEF Untouched, TypeOK
<1>. QED
  BY <1>2, <1>3, <1>4, <1>5

LEMMA PrefetchInv == ASSUME IInv, NEW s \in Sessions, Prepare(s), Prefetch(s) PROVE IInv'
<1>. USE DEF IInv, Attachment, Supply
<1>. DEFINE o == Name[s]
            r == IF batches[Key[s]] >= Fresh
                 THEN [op |-> "cached", for |-> {s}, left |-> batches[Key[s]]]
                 ELSE [op |-> "prefetch", for |-> {s}, left |-> Life]
<1>1. /\ Release({o}) /\ {o} \in SUBSET Outputs /\ o \in Outputs
      /\ UNCHANGED <<refreshing, batches, mainObject, running, down>>
      /\ answer[s] = "new" /\ ~down
  BY NameAssumption DEF Prepare, Prefetch, obs
<1>2. \/ /\ jobs' = jobs \cup {r} /\ pending' = [pending EXCEPT ![o] = s]
         /\ answer' = [Told({o}) EXCEPT ![s] = "waiting"]
      \/ /\ jobs' = jobs /\ pending' = [pending EXCEPT ![o] = NoSession]
         /\ answer' = [Told({o}) EXCEPT ![s] = "told"]
  BY DEF Prefetch
<1>3. r \in Job /\ r.for = {s} /\ r.op \in {"cached", "prefetch"}
      /\ (r.op = "cached" => r.left >= Fresh)
      /\ (r.op = "prefetch" => r.left = Life)
  <2>1. batches[Key[s]] \in 0 .. Life /\ Life \in 0 .. Life
    BY TimeAssumption DEF TypeOK, Keys
  <2>. QED
    BY <2>1 DEF Job
<1>4. /\ answer' \in [Sessions -> {"new", "waiting", "told", "dropped"}]
      /\ answer'[s] \in {"waiting", "told"} /\ (pending'[o] = s => answer'[s] = "waiting")
      /\ \A t \in Sessions \ {s} : answer'[t] = Told({o})[t]
  <2>1. s # NoSession
    BY ObjectAssumption
  <2>2. Told({o}) \in [Sessions -> {"new", "waiting", "told", "dropped"}]
    BY <1>1, ToldDropped
  <2>3. \/ pending'[o] = s /\ answer' = [Told({o}) EXCEPT ![s] = "waiting"]
        \/ pending'[o] = NoSession /\ answer' = [Told({o}) EXCEPT ![s] = "told"]
    BY <1>1, <1>2 DEF TypeOK
  <2>. HIDE DEF o
  <2>4. CASE pending'[o] = s /\ answer' = [Told({o}) EXCEPT ![s] = "waiting"]
    BY <2>2, <2>4
  <2>5. CASE pending'[o] = NoSession /\ answer' = [Told({o}) EXCEPT ![s] = "told"]
    BY <2>1, <2>2, <2>5
  <2>. QED
    BY <2>3, <2>4, <2>5
<1>5. /\ pending' \in [Outputs -> Sessions \cup {NoSession}] /\ pending'[o] \in {s, NoSession}
      /\ \A q \in Outputs \ {o} : pending'[q] = pending[q]
  BY <1>1, <1>2 DEF TypeOK
<1>6. jobs \subseteq jobs' /\ \A j \in jobs' : j \in jobs \/ j = r
  BY <1>2
<1>. HIDE DEF r
<1>7. TypeOK'
  BY <1>1, <1>3, <1>4, <1>5, <1>6, Released DEF TypeOK
<1>8. CallbackOwned' /\ Placed' /\ TimerRuns' /\ Timely' /\ Closed'
  BY <1>1, <1>3, <1>6, ReleaseKeeps
<1>9. Registered'
  <2>1. ASSUME NEW q \in Outputs, sessions'[q] # NoSession
        PROVE  /\ Name[sessions'[q]] = q /\ answer'[sessions'[q]] = "told"
               /\ <<bound'[sessions'[q]], sessions'[q]>> \in hooked'
               /\ pending'[q] = NoSession
    <3>1. q # o /\ sessions'[q] = sessions[q] /\ sessions[q] \in Sessions
      BY <1>1, <2>1, Released DEF TypeOK
    <3>2. /\ Name[sessions[q]] = q /\ answer[sessions[q]] = "told" /\ pending[q] = NoSession
          /\ <<bound[sessions[q]], sessions[q]>> \in hooked
      BY <3>1, ObjectAssumption DEF Registered
    <3>3. sessions[q] \notin Gone({o})
      BY <1>1, <3>1, <3>2, GoneAt
    <3>4. answer'[sessions[q]] = "told"
      BY <1>1, <1>4, <3>1, <3>2, ToldDropped
    <3>5. bound[sessions[q]] \in Objects
      BY <3>2 DEF TypeOK
    <3>6. <<bound'[sessions[q]], sessions[q]>> \in hooked'
      BY <1>1, <3>1, <3>2, <3>3, <3>5, Released
    <3>. QED
      BY <1>5, <3>1, <3>2, <3>4, <3>6
  <2>2. ASSUME NEW q \in Outputs, pending'[q] # NoSession
        PROVE  Name[pending'[q]] = q /\ answer'[pending'[q]] = "waiting"
    <3>1. CASE q = o
      BY <1>4, <1>5, <2>2, <3>1
    <3>2. CASE q # o
      <4>1. pending'[q] = pending[q] /\ pending[q] \in Sessions
        BY <1>5, <2>2, <3>2 DEF TypeOK
      <4>2. Name[pending[q]] = q /\ answer[pending[q]] = "waiting"
        BY <4>1, ObjectAssumption DEF Registered
      <4>. QED
        BY <1>1, <1>4, <3>2, <4>1, <4>2, ToldDropped
    <3>. QED
      BY <3>1, <3>2
  <2>. QED
    BY <2>1, <2>2 DEF Registered
<1>10. Untouched'
  <2>. SUFFICES ASSUME NEW t \in Sessions, answer'[t] \in {"new", "waiting"}
                PROVE  ~refreshing'[t] /\ ~fatal'[t]
    BY DEF Untouched
  <2>1. answer[t] \in {"new", "waiting"}
    BY <1>1, <1>4, ToldDropped
  <2>. QED
    BY <1>1, <2>1, Released DEF Untouched
<1>11. Shut'
  BY <1>1 DEF Shut
<1>12. JobsInTime' /\ RefreshingHasJob'
  BY <1>1, <1>3, <1>6, TimeAssumption DEF JobsInTime, RefreshingHasJob
<1>. QED
  BY <1>7, <1>8, <1>9, <1>10, <1>11, <1>12

LEMMA PrepareInv == ASSUME IInv, NEW s \in Sessions, Prepare(s) PROVE IInv'
BY RefuseInv, PrefetchInv DEF Prepare

\* An answered request is no longer a job; nothing else is in question.
LEMMA JobsLeft ==
  ASSUME IInv, NEW j \in jobs, j.op \in {"prefetch", "cached"}, jobs' = jobs \ {j},
         UNCHANGED <<refreshing, down>>
  PROVE  /\ JobsInTime' /\ RefreshingHasJob'
         /\ \A i : i \in jobs' /\ i.op \in {"refresh", "fatal"} <=>
                  i \in jobs /\ i.op \in {"refresh", "fatal"}
<1>. USE DEF IInv, Supply
<1>1. \A i : i \in jobs' /\ i.op \in {"refresh", "fatal"} <=> i \in jobs /\ i.op \in {"refresh", "fatal"}
  OBVIOUS
<1>2. JobsInTime'
  BY DEF JobsInTime
<1>3. RefreshingHasJob'
  BY <1>1 DEF RefreshingHasJob
<1>. QED
  BY <1>1, <1>2, <1>3

LEMMA AttachInv ==
  ASSUME IInv, NEW s \in Sessions, NEW j \in jobs, j.op \in {"prefetch", "cached"}, j.for = {s},
         jobs' = jobs \ {j}, pending[Name[s]] = s, Attach(s, j.left),
         pending' = [pending EXCEPT ![Name[s]] = NoSession],
         UNCHANGED <<refreshing, spoiled, fatal, mainObject, running, down>>
  PROVE  IInv'
<1>. USE DEF IInv, Attachment, Supply
<1>. DEFINE o == Name[s]
            x == Object(o)
<1>1. o \in Outputs /\ s # NoSession /\ x \in Objects /\ j \in Job
  BY NameAssumption, ObjectAssumption DEF Object, Objects, TypeOK
<1>2. /\ answer' = [answer EXCEPT ![s] = "told"] /\ cache' = [cache EXCEPT ![s] = j.left]
      /\ batches' = [batches EXCEPT ![Key[s]] = j.left] /\ bound' = [bound EXCEPT ![s] = x]
      /\ hooked' = hooked \cup {<<x, s>>} /\ sessions' = [sessions EXCEPT ![o] = s]
      /\ timer' = IF timer = Stopped THEN Tick ELSE timer
  BY DEF Attach
<1>3. answer[s] = "waiting" /\ ~refreshing[s] /\ ~fatal[s]
  BY <1>1 DEF Registered, Untouched
<1>4. sessions[o] = NoSession /\ ~At(s)
  BY <1>1, ObjectAssumption DEF Registered, At
<1>5. ~down
  BY <1>1 DEF Shut
<1>6. \A t \in Sessions \ {s} : At(t)' <=> At(t)
  <2>. SUFFICES ASSUME NEW t \in Sessions \ {s} PROVE At(t)' <=> At(t)
    OBVIOUS
  <2>1. Name[t] \in Outputs /\ t # NoSession
    BY NameAssumption, ObjectAssumption
  <2>2. CASE Name[t] = o
    BY <1>1, <1>2, <1>4, <2>1, <2>2 DEF At, TypeOK
  <2>3. CASE Name[t] # o
    BY <1>1, <1>2, <2>1, <2>3 DEF At, TypeOK
  <2>. QED
    BY <2>2, <2>3
<1>7. At(s)'
  BY <1>1, <1>2 DEF At, TypeOK
<1>8. \A t \in Sessions \ {s} : bound'[t] = bound[t] /\ cache'[t] = cache[t] /\ answer'[t] = answer[t]
  BY <1>2 DEF TypeOK
<1>9. bound'[s] = x /\ cache'[s] = j.left /\ answer'[s] = "told"
  BY <1>2 DEF TypeOK
<1>10. timer' \in 0 .. Tick
  BY <1>2, TimeAssumption DEF TypeOK, Stopped
<1>11. j.left \in 0 .. Life /\ j.left > Due
  BY <1>1, TimeAssumption DEF JobsInTime, Job
<1>12. TypeOK'
  <2>1. timer' \in 0 .. Stopped
    BY <1>10, TimeAssumption DEF Stopped
  <2>2. /\ answer' \in [Sessions -> {"new", "waiting", "told", "dropped"}]
        /\ cache' \in [Sessions -> 0 .. Life] /\ batches' \in [Keys -> 0 .. Life]
        /\ bound' \in [Sessions -> Objects \cup {NoObject}] /\ hooked' \subseteq Objects \X Sessions
    BY <1>1, <1>2, <1>11 DEF TypeOK, Keys
  <2>3. /\ sessions' \in [Outputs -> Sessions \cup {NoSession}]
        /\ pending' \in [Outputs -> Sessions \cup {NoSession}]
    BY <1>1, <1>2 DEF TypeOK
  <2>. QED
    BY <2>1, <2>2, <2>3 DEF TypeOK
<1>13. Registered'
  <2>1. pending'[o] = NoSession /\ sessions'[o] = s
    BY <1>1, <1>2 DEF TypeOK
  <2>2. \A q \in Outputs \ {o} : pending'[q] = pending[q] /\ sessions'[q] = sessions[q]
    BY <1>1, <1>2 DEF TypeOK
  <2>3. ASSUME NEW q \in Outputs, sessions'[q] # NoSession
        PROVE  /\ Name[sessions'[q]] = q /\ answer'[sessions'[q]] = "told"
               /\ <<bound'[sessions'[q]], sessions'[q]>> \in hooked'
               /\ pending'[q] = NoSession
    <3>1. CASE q = o
      BY <1>2, <1>9, <2>1, <3>1
    <3>2. CASE q # o
      <4>1. sessions[q] # NoSession /\ sessions[q] \in Sessions /\ Name[sessions[q]] = q
        <5>1. sessions[q] # NoSession
          BY <2>2, <2>3, <3>2
        <5>2. sessions[q] \in Sessions
          BY <5>1 DEF TypeOK
        <5>. QED
          BY <5>1, <5>2 DEF Registered
      <4>2. sessions[q] # s
        BY <3>2, <4>1
      <4>. QED
        BY <1>2, <1>8, <2>2, <3>2, <4>1, <4>2 DEF Registered
    <3>. QED
      BY <3>1, <3>2
  <2>4. ASSUME NEW q \in Outputs, pending'[q] # NoSession
        PROVE  Name[pending'[q]] = q /\ answer'[pending'[q]] = "waiting"
    <3>1. q # o /\ pending'[q] = pending[q] /\ pending[q] \in Sessions
      BY <2>1, <2>2, <2>4 DEF TypeOK
    <3>2. Name[pending[q]] = q /\ answer[pending[q]] = "waiting"
      BY <3>1, ObjectAssumption DEF Registered
    <3>. QED
      BY <1>8, <3>1, <3>2
  <2>. QED
    BY <2>3, <2>4 DEF Registered
<1>14. CallbackOwned'
  <2>. SUFFICES ASSUME NEW h \in hooked'
                PROVE  sessions'[Name[h[2]]] = h[2] /\ bound'[h[2]] = h[1]
    BY DEF CallbackOwned
  <2>1. CASE h = <<x, s>>
    BY <1>7, <1>9, <2>1 DEF At
  <2>2. CASE h \in hooked
    <3>1. h[2] \in Sessions /\ At(h[2]) /\ bound[h[2]] = h[1]
      BY <2>2 DEF CallbackOwned, At, TypeOK
    <3>2. h[2] # s
      BY <1>4, <3>1
    <3>3. At(h[2])' /\ bound'[h[2]] = h[1]
      BY <1>6, <1>8, <3>1, <3>2
    <3>. QED
      BY <3>3 DEF At
  <2>. QED
    BY <1>2, <2>1, <2>2
<1>15. Placed'
  <2>1. IF o = Main THEN x = mainObject /\ x \in MainObjects ELSE x = o
    BY DEF Object, TypeOK
  <2>. SUFFICES ASSUME NEW t \in Sessions, At(t)'
                PROVE  IF Name[t] = Main
                       THEN bound'[t] \in MainObjects /\ (mainObject \in running => bound'[t] = mainObject)
                       ELSE bound'[t] = Name[t]
    BY DEF Placed
  <2>2. CASE t = s
    BY <1>9, <2>1, <2>2
  <2>3. CASE t # s
    BY <1>6, <1>8, <2>3 DEF Placed
  <2>. QED
    BY <2>2, <2>3
<1>16. Untouched'
  BY <1>8, <1>9 DEF Untouched
<1>17. Shut'
  BY <1>5 DEF Shut
<1>18. /\ JobsInTime' /\ RefreshingHasJob'
       /\ \A i : i \in jobs' /\ i.op \in {"refresh", "fatal"} <=> i \in jobs /\ i.op \in {"refresh", "fatal"}
  BY JobsLeft
<1>19. TimerRuns'
  BY <1>10, TimeAssumption DEF TimerRuns, Stopped
<1>20. Timely'
  <2>. SUFFICES ASSUME NEW t \in Sessions, At(t)', t \notin spoiled
                PROVE  /\ ~refreshing[t] => cache'[t] + Tick > Due + timer'
                       /\ \A i \in jobs' : i.op = "refresh" /\ t \in i.for =>
                            cache'[t] > i.left - (Life - Timeout)
    BY DEF Timely
  <2>1. CASE t = s
    <3>1. cache'[s] + Tick > Due + timer'
      BY <1>9, <1>10, <1>11, TimeAssumption
    <3>2. \A i \in jobs' : ~(i.op = "refresh" /\ s \in i.for)
      BY <1>3, <1>5, <1>18 DEF RefreshingHasJob
    <3>. QED
      BY <2>1, <3>1, <3>2
  <2>2. CASE t # s
    <3>1. At(t) /\ cache'[t] = cache[t]
      BY <1>6, <1>8, <2>2
    <3>2. timer' = timer
      BY <1>2, <3>1 DEF TimerRuns
    <3>. QED
      BY <1>18, <3>1, <3>2 DEF Timely
  <2>. QED
    BY <2>1, <2>2
<1>21. Closed'
  <2>. SUFFICES ASSUME "restart" \notin Faults, NEW t \in Sessions, At(t)', fatal[t], bound'[t] \in running
                PROVE  \E i \in jobs' : i.op = "fatal" /\ i.for = {t}
    BY DEF Closed
  <2>1. t # s /\ At(t) /\ bound[t] \in running
    BY <1>3, <1>6, <1>8
  <2>. QED
    BY <1>18, <2>1 DEF Closed
<1>. QED
  BY <1>12, <1>13, <1>14, <1>15, <1>16, <1>17, <1>18, <1>19, <1>20, <1>21

LEMMA NotAttachedInv ==
  ASSUME IInv, NEW s \in Sessions, NEW j \in jobs, j.op \in {"prefetch", "cached"}, j.for = {s},
         jobs' = jobs \ {j}, pending[Name[s]] = s, NotAttached(s, j),
         pending' = [pending EXCEPT ![Name[s]] = NoSession],
         UNCHANGED <<refreshing, spoiled, fatal, mainObject, running, down>>
  PROVE  IInv'
<1>. USE DEF IInv, Attachment, Supply
<1>1. /\ answer' = [answer EXCEPT ![s] = "told"]
      /\ batches' = batches \/ batches' = [batches EXCEPT ![Key[s]] = j.left]
      /\ UNCHANGED <<sessions, bound, hooked, cache, timer>>
  BY DEF NotAttached
<1>2. j \in Job /\ Name[s] \in Outputs /\ s # NoSession
  BY NameAssumption, ObjectAssumption DEF TypeOK
<1>3. TypeOK'
  <2>1. answer' \in [Sessions -> {"new", "waiting", "told", "dropped"}]
    BY <1>1 DEF TypeOK
  <2>2. batches' \in [Keys -> 0 .. Life]
    BY <1>1, <1>2 DEF TypeOK, Job
  <2>3. pending' \in [Outputs -> Sessions \cup {NoSession}] /\ jobs' \subseteq Job
    BY DEF TypeOK
  <2>. QED
    BY <1>1, <2>1, <2>2, <2>3 DEF TypeOK
<1>4. Registered'
  <2>1. pending'[Name[s]] = NoSession /\ \A q \in Outputs \ {Name[s]} : pending'[q] = pending[q]
    BY <1>2 DEF TypeOK
  <2>2. answer[s] = "waiting" /\ answer'[s] = "told" /\ \A t \in Sessions \ {s} : answer'[t] = answer[t]
    BY <1>1, <1>2 DEF TypeOK, Registered
  <2>3. ASSUME NEW q \in Outputs, sessions[q] # NoSession
        PROVE  /\ Name[sessions[q]] = q /\ answer'[sessions[q]] = "told"
               /\ <<bound[sessions[q]], sessions[q]>> \in hooked
               /\ pending'[q] = NoSession
    <3>1. sessions[q] \in Sessions
      BY <2>3 DEF TypeOK
    <3>. QED
      BY <2>1, <2>2, <2>3, <3>1 DEF Registered
  <2>4. ASSUME NEW q \in Outputs, pending'[q] # NoSession
        PROVE  Name[pending'[q]] = q /\ answer'[pending'[q]] = "waiting"
    <3>1. q # Name[s] /\ pending'[q] = pending[q] /\ pending[q] \in Sessions
      BY <2>1, <2>4 DEF TypeOK
    <3>2. Name[pending[q]] = q /\ answer[pending[q]] = "waiting"
      BY <3>1, ObjectAssumption DEF Registered
    <3>. QED
      BY <2>2, <3>1, <3>2
  <2>. QED
    BY <1>1, <2>3, <2>4 DEF Registered
<1>5. CallbackOwned' /\ Placed' /\ TimerRuns'
  BY <1>1 DEF CallbackOwned, Placed, TimerRuns, At
<1>6. Untouched'
  BY <1>1 DEF Untouched, TypeOK
<1>7. Shut'
  BY <1>2 DEF Shut
<1>8. /\ JobsInTime' /\ RefreshingHasJob'
      /\ \A i : i \in jobs' /\ i.op \in {"refresh", "fatal"} <=> i \in jobs /\ i.op \in {"refresh", "fatal"}
  BY JobsLeft
<1>9. Timely' /\ Closed'
  BY <1>1, <1>8 DEF Timely, Closed, At
<1>. QED
  BY <1>3, <1>4, <1>5, <1>6, <1>7, <1>8, <1>9

LEMMA PrepareAnsweredInv == ASSUME IInv, NEW s \in Sessions, PrepareAnswered(s) PROVE IInv'
<1>. USE DEF IInv, Attachment, Supply
<1>1. PICK j \in jobs :
        /\ j.op \in {"prefetch", "cached"} /\ j.for = {s} /\ jobs' = jobs \ {j}
        /\ IF pending[Name[s]] = s
           THEN /\ pending' = [pending EXCEPT ![Name[s]] = NoSession]
                /\ Attach(s, j.left) \/ NotAttached(s, j)
           ELSE UNCHANGED <<registry, cache, batches, timer>>
        /\ UNCHANGED <<refreshing, spoiled, fatal, obs, down>>
  BY DEF PrepareAnswered
<1>2. UNCHANGED <<refreshing, spoiled, fatal, mainObject, running, down>>
  BY <1>1 DEF obs
<1>3. CASE pending[Name[s]] = s
  BY <1>1, <1>2, <1>3, AttachInv, NotAttachedInv
<1>4. CASE pending[Name[s]] # s
  <2>1. UNCHANGED <<sessions, pending, answer, bound, hooked, cache, batches, timer>>
    BY <1>1, <1>4 DEF registry
  <2>2. /\ JobsInTime' /\ RefreshingHasJob'
        /\ \A i : i \in jobs' /\ i.op \in {"refresh", "fatal"} <=> i \in jobs /\ i.op \in {"refresh", "fatal"}
    BY <1>1, <1>2, JobsLeft
  <2>3. TypeOK'
    BY <1>1, <1>2, <2>1 DEF TypeOK
  <2>4. Registered' /\ CallbackOwned' /\ Placed' /\ TimerRuns' /\ Untouched' /\ Shut'
    BY <1>2, <2>1 DEF Registered, CallbackOwned, Placed, TimerRuns, Untouched, Shut, At
  <2>5. Timely' /\ Closed'
    BY <1>2, <2>1, <2>2 DEF Timely, Closed, At
  <2>. QED
    BY <2>2, <2>3, <2>4, <2>5
<1>. QED
  BY <1>3, <1>4

-----------------------------------------------------------------------------
\* Fatal errors.

LEMMA PacketFailsInv == ASSUME IInv, NEW s \in Sessions, PacketFails(s) PROVE IInv'
<1>. USE DEF IInv, Attachment, Supply
<1>. DEFINE f == [op |-> "fatal", for |-> {s}, left |-> 0]
<1>1. /\ UNCHANGED <<sessions, pending, answer, bound, hooked, cache, refreshing, batches, timer,
                     spoiled, mainObject, running, down>>
      /\ fatal' = [fatal EXCEPT ![s] = TRUE] /\ jobs' = jobs \cup {f}
  BY DEF PacketFails, registry, signatures, obs
<1>2. At(s)
  BY DEF PacketFails, CallbackOwned, At
<1>3. answer[s] = "told"
  BY <1>2, AttachedTold
<1>4. f \in Job /\ f.op = "fatal" /\ f.for = {s}
  BY TimeAssumption DEF Job
<1>. HIDE DEF f
<1>5. TypeOK'
  BY <1>1, <1>4 DEF TypeOK
<1>6. Registered' /\ CallbackOwned' /\ Placed' /\ TimerRuns' /\ Shut'
  BY <1>1 DEF Registered, CallbackOwned, Placed, TimerRuns, Shut, At
<1>7. Untouched'
  BY <1>1, <1>3 DEF Untouched, TypeOK
<1>8. JobsInTime' /\ RefreshingHasJob'
  BY <1>1, <1>4 DEF JobsInTime, RefreshingHasJob
<1>9. Timely'
  BY <1>1, <1>4 DEF Timely, At
<1>10. Closed'
  <2>. SUFFICES ASSUME "restart" \notin Faults, NEW t \in Sessions, At(t), fatal'[t], bound[t] \in running
                PROVE  \E j \in jobs' : j.op = "fatal" /\ j.for = {t}
    BY <1>1 DEF Closed, At
  <2>1. CASE t = s
    BY <1>1, <1>4, <2>1
  <2>2. CASE t # s
    BY <1>1, <2>2 DEF Closed, TypeOK
  <2>. QED
    BY <2>1, <2>2
<1>. QED
  BY <1>5, <1>6, <1>7, <1>8, <1>9, <1>10

LEMMA FinishFatalInv == ASSUME IInv, NEW s \in Sessions, FinishFatal(s) PROVE IInv'
<1>. USE DEF IInv, Attachment, Supply
<1>1. PICK j \in jobs :
        /\ j.op = "fatal" /\ j.for = {s} /\ jobs' = jobs \ {j}
        /\ running' = IF sessions[Name[s]] = s THEN running \ {bound[s]} ELSE running
        /\ UNCHANGED <<registry, signatures, fatal, mainObject, down>>
  BY DEF FinishFatal
<1>2. UNCHANGED <<sessions, pending, answer, bound, hooked, cache, refreshing, batches, timer,
                  spoiled, fatal, mainObject, down>>
  BY <1>1 DEF registry, signatures
<1>3. running' \subseteq running
  BY <1>1
<1>4. TypeOK'
  BY <1>1, <1>2, <1>3 DEF TypeOK
<1>5. Registered' /\ CallbackOwned' /\ Placed' /\ TimerRuns' /\ Untouched' /\ Shut'
  BY <1>2, <1>3 DEF Registered, CallbackOwned, Placed, TimerRuns, Untouched, Shut, At
<1>6. \A i \in jobs : i.op = "refresh" => i \in jobs'
  BY <1>1
<1>7. JobsInTime' /\ RefreshingHasJob' /\ Timely'
  BY <1>1, <1>2, <1>6 DEF JobsInTime, RefreshingHasJob, Timely, At
<1>8. Closed'
  <2>. SUFFICES ASSUME "restart" \notin Faults, NEW t \in Sessions, At(t), fatal[t], bound[t] \in running'
                PROVE  \E i \in jobs' : i.op = "fatal" /\ i.for = {t}
    BY <1>2 DEF Closed, At
  <2>1. t # s
    BY <1>1 DEF At
  <2>2. PICK i \in jobs : i.op = "fatal" /\ i.for = {t}
    BY <1>3 DEF Closed
  <2>. QED
    BY <1>1, <2>1, <2>2
<1>. QED
  BY <1>4, <1>5, <1>7, <1>8

-----------------------------------------------------------------------------
\* Refreshing.

LEMMA LaterAtLeast ==
  ASSUME NEW a \in 0 .. Life, NEW b \in 0 .. Life
  PROVE  Later(a, b) \in 0 .. Life /\ Later(a, b) >= a /\ Later(a, b) >= b
BY TimeAssumption DEF Later

LEMMA RefreshDueInv == ASSUME IInv, RefreshDue PROVE IInv'
<1>0. /\ TypeOK /\ Registered /\ CallbackOwned /\ Placed /\ Untouched /\ Shut
      /\ JobsInTime /\ RefreshingHasJob /\ TimerRuns /\ Timely /\ Closed
  BY DEF IInv, Attachment, Supply
<1>1. /\ UNCHANGED <<sessions, pending, answer, bound, hooked, batches, fatal,
                     mainObject, running, down>>
      /\ timer = 0 /\ timer' = Tick
      /\ cache' = [s \in Sessions |->
                     IF s \in Served THEN Later(cache[s], batches[Key[s]]) ELSE cache[s]]
  BY DEF RefreshDue, registry, obs
<1>2. PICK started \in SUBSET Keys :
        /\ refreshing' = [s \in Sessions |->
                            refreshing[s] \/ (s \in Ripe \ Served /\ Key[s] \in started)]
        /\ jobs' = jobs \cup {[op |-> "refresh", for |-> Group(k), left |-> Life] :
                               k \in {k \in started : Group(k) # {}}}
        /\ spoiled' = (spoiled \ Served) \cup {s \in Ripe \ Served : Key[s] \notin started}
  BY DEF RefreshDue
<1>. DEFINE New == {[op |-> "refresh", for |-> Group(k), left |-> Life] :
                       k \in {k \in started : Group(k) # {}}}
<1>3. /\ Ripe = {s \in Sessions : At(s) /\ cache[s] <= Due /\ ~refreshing[s]}
      /\ Served = {s \in Ripe : batches[Key[s]] >= Fresh}
  BY <1>0, AttachedAt DEF Ripe, Served
<1>4. ASSUME NEW i \in New
      PROVE  /\ i \in Job /\ i.op = "refresh" /\ i.left = Life
             /\ \E k \in started : i.for = Group(k) /\ i = [op |-> "refresh", for |-> Group(k), left |-> Life]
  <2>. PICK k \in started : i = [op |-> "refresh", for |-> Group(k), left |-> Life]
    OBVIOUS
  <2>1. Group(k) \in SUBSET Sessions
    BY <1>3 DEF Group
  <2>. QED
    BY <2>1, TimeAssumption DEF Job
<1>5. \A s \in Sessions : (\E i \in New : s \in i.for) <=> s \in Ripe \ Served /\ Key[s] \in started
  <2>1. ASSUME NEW s \in Sessions, NEW i \in New, s \in i.for
        PROVE  s \in Ripe \ Served /\ Key[s] \in started
    BY <1>4, <2>1 DEF Group
  <2>2. ASSUME NEW s \in Sessions, s \in Ripe \ Served, Key[s] \in started
        PROVE  \E i \in New : s \in i.for
    <3>. DEFINE i == [op |-> "refresh", for |-> Group(Key[s]), left |-> Life]
    <3>1. s \in Group(Key[s]) /\ Key[s] \in {k \in started : Group(k) # {}}
      BY <2>2 DEF Group
    <3>2. i \in New /\ s \in i.for
      BY <3>1
    <3>. QED
      BY <3>2
  <2>. QED
    BY <2>1, <2>2
<1>6. ASSUME NEW s \in Ripe
      PROVE  s \in Sessions /\ At(s) /\ ~down /\ ~refreshing[s] /\ answer[s] = "told"
             /\ \A i \in jobs : ~(i.op = "refresh" /\ s \in i.for)
  <2>1. s \in Sessions /\ At(s) /\ ~refreshing[s]
    BY <1>3
  <2>2. ~down
    BY <1>0, <2>1, NameAssumption, ObjectAssumption DEF Shut, At
  <2>. QED
    BY <1>0, <2>1, <2>2, AttachedTold DEF RefreshingHasJob
<1>7. jobs' = jobs \cup New
  BY <1>2
<1>. HIDE DEF New
<1>8. \A s \in Sessions : /\ cache[s] \in 0 .. Life /\ cache'[s] \in 0 .. Life /\ cache'[s] >= cache[s]
                          /\ s \in Served => cache'[s] >= Fresh
                          /\ s \notin Served => cache'[s] = cache[s]
  <2>. SUFFICES ASSUME NEW s \in Sessions
                PROVE  /\ cache[s] \in 0 .. Life /\ cache'[s] \in 0 .. Life /\ cache'[s] >= cache[s]
                       /\ s \in Served => cache'[s] >= Fresh
                       /\ s \notin Served => cache'[s] = cache[s]
    OBVIOUS
  <2>1. cache[s] \in 0 .. Life /\ batches[Key[s]] \in 0 .. Life
    BY <1>0 DEF TypeOK, Keys
  <2>2. CASE s \in Served
    <3>1. cache'[s] = Later(cache[s], batches[Key[s]]) /\ batches[Key[s]] >= Fresh
      BY <1>1, <1>3, <2>2
    <3>2. cache'[s] \in 0 .. Life /\ cache'[s] >= cache[s] /\ cache'[s] >= batches[Key[s]]
      BY <2>1, <3>1, LaterAtLeast
    <3>. QED
      BY <2>1, <2>2, <3>1, <3>2, TimeAssumption
  <2>3. CASE s \notin Served
    BY <1>1, <2>1, <2>3
  <2>. QED
    BY <2>2, <2>3
<1>9. TypeOK'
  <2>1. cache' \in [Sessions -> 0 .. Life]
    BY <1>1, <1>8
  <2>2. timer' \in 0 .. Stopped
    BY <1>1, TimeAssumption DEF Stopped
  <2>3. refreshing' \in [Sessions -> BOOLEAN] /\ spoiled' \subseteq Sessions
    BY <1>0, <1>2, <1>3 DEF TypeOK
  <2>4. jobs' \subseteq Job
    BY <1>0, <1>4, <1>7 DEF TypeOK
  <2>. QED
    BY <1>0, <1>1, <2>1, <2>2, <2>3, <2>4 DEF TypeOK
<1>10. Registered' /\ CallbackOwned' /\ Placed' /\ Shut'
  BY <1>0, <1>1 DEF Registered, CallbackOwned, Placed, Shut, At
<1>11. Untouched'
  BY <1>0, <1>1, <1>2, <1>6 DEF Untouched
<1>12. JobsInTime'
  <2>1. ASSUME NEW j \in jobs'
        PROVE  (j.op \in {"prefetch", "refresh"} => j.left >= Life - Timeout)
               /\ (j.op = "cached" => j.left >= Fresh)
    BY <1>0, <1>4, <1>7, TimeAssumption DEF JobsInTime
  <2>2. ASSUME NEW j \in jobs', NEW i \in jobs', NEW s \in Sessions,
               j.op = "refresh", i.op = "refresh", s \in i.for, s \in j.for
        PROVE  i = j
    <3>1. CASE j \in jobs /\ i \in jobs
      BY <1>0, <2>2, <3>1 DEF JobsInTime
    <3>2. CASE j \in New /\ i \in New
      BY <1>4, <2>2, <3>2 DEF Group
    <3>3. CASE (j \in New /\ i \in jobs) \/ (i \in New /\ j \in jobs)
      BY <1>5, <1>6, <2>2, <3>3
    <3>. QED
      BY <1>7, <3>1, <3>2, <3>3
  <2>. QED
    BY <2>1, <2>2 DEF JobsInTime
<1>13. RefreshingHasJob'
  <2>. SUFFICES ASSUME ~down, NEW s \in Sessions
                PROVE  refreshing'[s] <=> \E j \in jobs' : j.op = "refresh" /\ s \in j.for
    BY <1>1 DEF RefreshingHasJob
  <2>1. refreshing'[s] <=> refreshing[s] \/ (s \in Ripe \ Served /\ Key[s] \in started)
    BY <1>2
  <2>2. refreshing[s] <=> \E j \in jobs : j.op = "refresh" /\ s \in j.for
    BY <1>0 DEF RefreshingHasJob
  <2>. QED
    BY <1>4, <1>5, <1>7, <2>1, <2>2
<1>14. TimerRuns'
  BY <1>1, TimeAssumption DEF TimerRuns, Stopped
<1>15. Timely'
  <2>. SUFFICES ASSUME NEW s \in Sessions, At(s), s \notin spoiled'
                PROVE  /\ ~refreshing'[s] => cache'[s] + Tick > Due + timer'
                       /\ \A j \in jobs' : j.op = "refresh" /\ s \in j.for =>
                            cache'[s] > j.left - (Life - Timeout)
    BY <1>1 DEF Timely, At
  <2>1. ASSUME ~refreshing'[s] PROVE cache'[s] > Due
    <3>1. ~refreshing[s] /\ ~(s \in Ripe \ Served)
      BY <1>2, <2>1
    <3>2. CASE s \in Served
      BY <1>8, <3>2, TimeAssumption
    <3>3. CASE s \notin Ripe
      BY <1>3, <1>8, <3>1, <3>3, TimeAssumption
    <3>. QED
      BY <3>1, <3>2, <3>3
  <2>2. ASSUME NEW j \in jobs', j.op = "refresh", s \in j.for
        PROVE  cache'[s] > j.left - (Life - Timeout)
    <3>1. CASE j \in jobs
      <4>1. s \notin Ripe
        BY <1>6, <2>2, <3>1
      <4>2. s \notin spoiled /\ cache'[s] = cache[s]
        BY <1>2, <1>3, <1>8, <4>1
      <4>. QED
        BY <1>0, <2>2, <3>1, <4>2 DEF Timely
    <3>2. CASE j \in New
      <4>1. s \in Ripe \ Served /\ j.left = Life
        BY <1>4, <1>5, <2>2, <3>2
      <4>2. s \notin spoiled /\ ~refreshing[s] /\ cache'[s] = cache[s]
        BY <1>2, <1>6, <1>8, <4>1
      <4>3. cache[s] + Tick > Due
        BY <1>0, <1>1, <4>2, TimeAssumption DEF Timely
      <4>. QED
        BY <1>8, <4>1, <4>2, <4>3, TimeAssumption
    <3>. QED
      BY <1>7, <3>1, <3>2
  <2>. QED
    BY <1>1, <1>8, <2>1, <2>2, TimeAssumption
<1>16. Closed'
  BY <1>0, <1>1, <1>7 DEF Closed, At
<1>. QED
  BY <1>9, <1>10, <1>11, <1>12, <1>13, <1>14, <1>15, <1>16 DEF IInv, Attachment, Supply

LEMMA RefreshAnsweredInv == ASSUME IInv, RefreshAnswered PROVE IInv'
<1>0. /\ TypeOK /\ Registered /\ CallbackOwned /\ Placed /\ Untouched /\ Shut
      /\ JobsInTime /\ RefreshingHasJob /\ TimerRuns /\ Timely /\ Closed
  BY DEF IInv, Attachment, Supply
<1>1. PICK j \in jobs :
        /\ j.op = "refresh" /\ jobs' = jobs \ {j}
        /\ refreshing' = [s \in Sessions |-> refreshing[s] /\ s \notin j.for]
        /\ \/ /\ batches' = [k \in Keys |-> IF \E s \in j.for : Key[s] = k THEN j.left ELSE batches[k]]
              /\ cache' = [s \in Sessions |->
                             IF s \in j.for \cap Attached THEN Later(cache[s], j.left) ELSE cache[s]]
              /\ spoiled' = spoiled \ j.for
           \/ /\ spoiled' = spoiled \cup (j.for \cap Attached)
              /\ UNCHANGED <<batches, cache>>
        /\ UNCHANGED <<registry, timer, fatal, obs, down>>
  BY DEF RefreshAnswered
<1>2. UNCHANGED <<sessions, pending, answer, bound, hooked, timer, fatal, mainObject, running, down>>
  BY <1>1 DEF registry, obs
<1>3. j \in Job /\ j.left \in 0 .. Life /\ j.left > Due /\ j.for \subseteq Sessions
  BY <1>0, <1>1, TimeAssumption DEF TypeOK, JobsInTime, Job
<1>4. ASSUME NEW s \in Sessions
      PROVE  /\ cache[s] \in 0 .. Life /\ cache'[s] \in 0 .. Life
             /\ (s \notin j.for => cache'[s] = cache[s])
             /\ (s \in j.for /\ At(s) /\ s \notin spoiled' => cache'[s] > Due)
  <2>1. cache[s] \in 0 .. Life
    BY <1>0 DEF TypeOK
  <2>2. CASE UNCHANGED cache /\ spoiled' = spoiled \cup (j.for \cap Attached)
    BY <1>0, <2>1, <2>2, AttachedAt
  <2>3. CASE cache' = [t \in Sessions |->
                         IF t \in j.for \cap Attached THEN Later(cache[t], j.left) ELSE cache[t]]
    <3>1. CASE s \in j.for \cap Attached
      <4>1. cache'[s] = Later(cache[s], j.left)
        BY <2>3, <3>1
      <4>2. cache'[s] \in 0 .. Life /\ cache'[s] >= j.left
        BY <1>3, <2>1, <4>1, LaterAtLeast
      <4>. QED
        BY <1>3, <2>1, <3>1, <4>2, TimeAssumption
    <3>2. CASE s \notin j.for \cap Attached
      BY <1>0, <2>1, <2>3, <3>2, AttachedAt
    <3>. QED
      BY <3>1, <3>2
  <2>. QED
    BY <1>1, <2>2, <2>3
<1>5. ASSUME NEW s \in Sessions, s \notin spoiled' PROVE s \notin spoiled \/ s \in j.for
  BY <1>1, <1>5
<1>6. TypeOK'
  <2>1. cache' \in [Sessions -> 0 .. Life]
    <3>1. \A s \in Sessions : cache'[s] \in 0 .. Life
      BY <1>4
    <3>2. cache' = [s \in Sessions |-> cache'[s]]
      BY <1>0, <1>1 DEF TypeOK
    <3>. QED
      BY <3>1, <3>2
  <2>2. batches' \in [Keys -> 0 .. Life]
    BY <1>0, <1>1, <1>3 DEF TypeOK
  <2>3. refreshing' \in [Sessions -> BOOLEAN] /\ spoiled' \subseteq Sessions /\ jobs' \subseteq Job
    BY <1>0, <1>1, <1>3 DEF TypeOK
  <2>. QED
    BY <1>0, <1>2, <2>1, <2>2, <2>3 DEF TypeOK
<1>7. Registered' /\ CallbackOwned' /\ Placed' /\ Shut' /\ TimerRuns'
  BY <1>0, <1>2 DEF Registered, CallbackOwned, Placed, Shut, TimerRuns, At
<1>8. Untouched'
  BY <1>0, <1>1, <1>2 DEF Untouched
<1>9. JobsInTime'
  BY <1>0, <1>1 DEF JobsInTime
<1>10. RefreshingHasJob'
  <2>. SUFFICES ASSUME ~down, NEW s \in Sessions
                PROVE  refreshing'[s] <=> \E i \in jobs' : i.op = "refresh" /\ s \in i.for
    BY <1>2 DEF RefreshingHasJob
  <2>1. refreshing'[s] <=> refreshing[s] /\ s \notin j.for
    BY <1>1
  <2>2. refreshing[s] <=> \E i \in jobs : i.op = "refresh" /\ s \in i.for
    BY <1>0 DEF RefreshingHasJob
  <2>3. \A i \in jobs : i.op = "refresh" /\ s \in i.for /\ s \in j.for => i = j
    BY <1>0, <1>1 DEF JobsInTime
  <2>. QED
    BY <1>1, <2>1, <2>2, <2>3
<1>11. Timely'
  <2>. SUFFICES ASSUME NEW s \in Sessions, At(s), s \notin spoiled'
                PROVE  /\ ~refreshing'[s] => cache'[s] + Tick > Due + timer
                       /\ \A i \in jobs' : i.op = "refresh" /\ s \in i.for =>
                            cache'[s] > i.left - (Life - Timeout)
    BY <1>2 DEF Timely, At
  <2>1. CASE s \in j.for
    <3>1. cache'[s] > Due /\ cache'[s] \in 0 .. Life
      BY <1>4, <2>1
    <3>2. timer \in 0 .. Tick
      BY <1>0, TimeAssumption DEF TimerRuns, TypeOK, Stopped
    <3>3. \A i \in jobs' : ~(i.op = "refresh" /\ s \in i.for)
      BY <1>0, <1>1, <2>1 DEF JobsInTime
    <3>. QED
      BY <3>1, <3>2, <3>3, TimeAssumption
  <2>2. CASE s \notin j.for
    <3>1. s \notin spoiled /\ cache'[s] = cache[s] /\ refreshing'[s] = refreshing[s]
      BY <1>0, <1>1, <1>4, <1>5, <2>2 DEF TypeOK
    <3>. QED
      BY <1>0, <1>1, <3>1 DEF Timely
  <2>. QED
    BY <2>1, <2>2
<1>12. Closed'
  <2>1. \A i \in jobs : i.op = "fatal" => i \in jobs'
    BY <1>1
  <2>. QED
    BY <1>0, <1>2, <2>1 DEF Closed, At
<1>. QED
  BY <1>6, <1>7, <1>8, <1>9, <1>10, <1>11, <1>12 DEF IInv, Attachment, Supply

-----------------------------------------------------------------------------
\* Time.

LEMMA ElapseInv == ASSUME IInv, Elapse PROVE IInv'
<1>0. /\ TypeOK /\ Registered /\ CallbackOwned /\ Placed /\ Untouched /\ Shut
      /\ JobsInTime /\ RefreshingHasJob /\ TimerRuns /\ Timely /\ Closed
  BY DEF IInv, Attachment, Supply
<1>. DEFINE older(j) == [j EXCEPT !.left = Pass(@)]
<1>1. /\ UNCHANGED <<sessions, pending, answer, bound, hooked, refreshing, spoiled, fatal,
                     mainObject, running, down>>
      /\ timer # 0 /\ timer' = IF timer = Stopped THEN Stopped ELSE timer - 1
      /\ \A j \in jobs : j.op \in {"prefetch", "refresh"} /\ j.left > Life - Timeout
      /\ cache' = [s \in Sessions |-> Pass(cache[s])]
      /\ batches' = [k \in Keys |-> Pass(batches[k])]
      /\ jobs' = {older(j) : j \in jobs}
  BY DEF Elapse, registry, obs
<1>2. ASSUME NEW a \in 0 .. Life PROVE Pass(a) \in 0 .. Life /\ Pass(a) >= a - 1
  BY TimeAssumption DEF Pass
<1>3. ASSUME NEW j \in jobs
      PROVE  /\ older(j) \in Job /\ older(j).op = j.op /\ older(j).for = j.for
             /\ j.left \in 0 .. Life /\ older(j).left = j.left - 1
             /\ older(j).left >= Life - Timeout
  <2>1. j \in Job /\ j.left \in 0 .. Life /\ j.left > Life - Timeout
    BY <1>0, <1>1 DEF TypeOK, Job
  <2>2. Pass(j.left) = j.left - 1 /\ Pass(j.left) \in 0 .. Life
    BY <2>1, TimeAssumption DEF Pass
  <2>3. older(j) \in Job /\ older(j).op = j.op /\ older(j).for = j.for /\ older(j).left = Pass(j.left)
    BY <2>1, <2>2 DEF Job
  <2>. QED
    BY <2>1, <2>2, <2>3, TimeAssumption
<1>. HIDE DEF older
<1>4. TypeOK'
  <2>1. cache' \in [Sessions -> 0 .. Life] /\ batches' \in [Keys -> 0 .. Life]
    BY <1>0, <1>1, <1>2 DEF TypeOK
  <2>2. timer' \in 0 .. Stopped
    BY <1>0, <1>1, TimeAssumption DEF TypeOK, Stopped
  <2>3. jobs' \subseteq Job
    BY <1>1, <1>3
  <2>. QED
    BY <1>0, <1>1, <2>1, <2>2, <2>3 DEF TypeOK
<1>5. Registered' /\ CallbackOwned' /\ Placed' /\ Untouched' /\ Shut'
  BY <1>0, <1>1 DEF Registered, CallbackOwned, Placed, Untouched, Shut, At
<1>6. JobsInTime'
  <2>1. ASSUME NEW j \in jobs' PROVE j.op # "cached" /\ j.left >= Life - Timeout
    BY <1>1, <1>3
  <2>2. ASSUME NEW j \in jobs', NEW i \in jobs', NEW s \in Sessions,
               j.op = "refresh", i.op = "refresh", s \in i.for, s \in j.for
        PROVE  i = j
    <3>. PICK a \in jobs, b \in jobs : j = older(a) /\ i = older(b)
      BY <1>1
    <3>1. a = b
      BY <1>0, <1>3, <2>2 DEF JobsInTime
    <3>. QED
      BY <3>1
  <2>. QED
    BY <2>1, <2>2 DEF JobsInTime
<1>7. RefreshingHasJob'
  <2>1. ASSUME NEW s \in Sessions
        PROVE  (\E j \in jobs' : j.op = "refresh" /\ s \in j.for)
                  <=> \E j \in jobs : j.op = "refresh" /\ s \in j.for
    BY <1>1, <1>3
  <2>. QED
    BY <1>0, <1>1, <2>1 DEF RefreshingHasJob
<1>8. TimerRuns'
  BY <1>0, <1>1, TimeAssumption DEF TimerRuns, TypeOK, Stopped, At
<1>9. Timely'
  <2>. SUFFICES ASSUME NEW s \in Sessions, At(s), s \notin spoiled
                PROVE  /\ ~refreshing[s] => cache'[s] + Tick > Due + timer'
                       /\ \A j \in jobs' : j.op = "refresh" /\ s \in j.for =>
                            cache'[s] > j.left - (Life - Timeout)
    BY <1>1 DEF Timely, At
  <2>1. cache[s] \in 0 .. Life /\ cache'[s] \in 0 .. Life /\ cache'[s] >= cache[s] - 1
    BY <1>0, <1>1, <1>2 DEF TypeOK
  <2>2. timer \in 0 .. Stopped /\ timer' = timer - 1
    BY <1>0, <1>1 DEF TimerRuns, TypeOK
  <2>3. ASSUME ~refreshing[s] PROVE cache'[s] + Tick > Due + timer'
    <3>1. cache[s] + Tick > Due + timer
      BY <1>0, <2>3 DEF Timely
    <3>. QED
      BY <2>1, <2>2, <3>1, TimeAssumption DEF Stopped
  <2>4. ASSUME NEW j \in jobs', j.op = "refresh", s \in j.for
        PROVE  cache'[s] > j.left - (Life - Timeout)
    <3>. PICK a \in jobs : j = older(a)
      BY <1>1
    <3>1. a.op = "refresh" /\ s \in a.for /\ a.left \in 0 .. Life /\ j.left = a.left - 1
      BY <1>3, <2>4
    <3>2. cache[s] > a.left - (Life - Timeout)
      BY <1>0, <3>1 DEF Timely
    <3>. QED
      BY <2>1, <3>1, <3>2, TimeAssumption
  <2>. QED
    BY <2>3, <2>4
<1>10. Closed'
  <2>1. \A s \in Sessions : ~\E j \in jobs : j.op = "fatal" /\ j.for = {s}
    BY <1>1
  <2>. QED
    BY <1>0, <1>1, <2>1 DEF Closed, At
<1>. QED
  BY <1>4, <1>5, <1>6, <1>7, <1>8, <1>9, <1>10 DEF IInv, Attachment, Supply

-----------------------------------------------------------------------------
LEMMA StepInv == IInv /\ [Next]_vars => IInv'
<1>. SUFFICES ASSUME IInv, [Next]_vars PROVE IInv'
  OBVIOUS
<1>1. CASE UNCHANGED vars
  <2>1. UNCHANGED <<sessions, pending, answer, bound, hooked, cache, refreshing, batches, timer,
                    spoiled, fatal, jobs, mainObject, running, down>>
    BY <1>1 DEF vars, registry, signatures, obs
  <2>2. Attachment'
    BY <2>1 DEF IInv, Attachment, TypeOK, Registered, CallbackOwned, Placed, Untouched, Shut, At
  <2>3. Supply'
    BY <2>1 DEF IInv, Supply, JobsInTime, RefreshingHasJob, TimerRuns, Timely, At
  <2>4. Closed'
    BY <2>1 DEF IInv, Closed, At
  <2>. QED
    BY <2>2, <2>3, <2>4 DEF IInv
<1>2. ASSUME NEW s \in Sessions, Prepare(s) \/ PrepareAnswered(s) \/ PacketFails(s) \/ FinishFatal(s)
      PROVE  IInv'
  BY <1>2, PrepareInv, PrepareAnsweredInv, PacketFailsInv, FinishFatalInv
<1>3. ASSUME NEW o \in Outputs, Detach(o) \/ StartOutput(o) PROVE IInv'
  BY <1>3, DetachInv, StartOutputInv
<1>4. ASSUME NEW x \in Objects, StopOutput(x) PROVE IInv'
  BY <1>4, StopOutputInv
<1>5. CASE StartMain \/ ReplaceMain \/ Destroy
  BY <1>5, StartMainInv, ReplaceMainInv, DestroyInv
<1>6. CASE RefreshDue \/ RefreshAnswered \/ Elapse
  BY <1>6, RefreshDueInv, RefreshAnsweredInv, ElapseInv
<1>. QED
  BY <1>1, <1>2, <1>3, <1>4, <1>5, <1>6 DEF Next

LEMMA Invariant == Spec => []IInv
BY InitInv, StepInv, PTL DEF Spec

\* The state is what it is declared to be.
THEOREM TypeCorrect == Spec => []TypeOK
<1>1. IInv => TypeOK
  BY DEF IInv, Attachment
<1>. QED
  BY <1>1, Invariant, PTL

\* The raw pointer OBS calls back with is always the session that sessions_
\* keeps for its output, and detach knows the object to take it from.
THEOREM CallbacksOwned == Spec => []CallbackOwned
<1>1. IInv => CallbackOwned
  BY DEF IInv, Attachment
<1>. QED
  BY <1>1, Invariant, PTL

\* The running output of an attached session carries its callback, whichever
\* objects OBS takes for its main output between two streams.
THEOREM RunningOutputsHooked == Spec => []RunningHooked
<1>1. IInv => RunningHooked
  <2>. SUFFICES ASSUME IInv, NEW o \in Outputs, sessions[o] # NoSession, Object(o) \in running
                PROVE  <<Object(o), sessions[o]>> \in hooked
    BY DEF RunningHooked
  <2>1. /\ sessions[o] \in Sessions /\ Name[sessions[o]] = o /\ At(sessions[o])
        /\ <<bound[sessions[o]], sessions[o]>> \in hooked
    BY DEF IInv, Attachment, TypeOK, Registered, At
  <2>2. bound[sessions[o]] = Object(o)
    BY <2>1 DEF IInv, Attachment, Placed, Object
  <2>. QED
    BY <2>1, <2>2
<1>. QED
  BY <1>1, Invariant, PTL

\* Each session marked as refreshing has the request that takes the mark back.
THEOREM RefreshesUnderWay == Spec => []RefreshingHasJob
<1>1. IInv => RefreshingHasJob
  BY DEF IInv, Supply
<1>. QED
  BY <1>1, Invariant, PTL

\* A session none of whose refreshes failed always has a signature for the
\* current time, for every life, limit, tick and timeout that TimeAssumption
\* allows.
THEOREM SignedInTime == Spec => []InTime
<1>1. IInv => InTime
  <2>. SUFFICES ASSUME IInv, NEW s \in Attached \ spoiled PROVE cache[s] > 0
    BY DEF InTime
  <2>0. TypeOK /\ Registered /\ Shut /\ JobsInTime /\ RefreshingHasJob /\ TimerRuns /\ Timely
    BY DEF IInv, Attachment, Supply
  <2>1. s \in Sessions /\ At(s) /\ s \notin spoiled
    BY <2>0, AttachedAt
  <2>2. cache[s] \in 0 .. Life /\ timer \in 0 .. Stopped
    BY <2>0, <2>1 DEF TypeOK
  <2>3. CASE ~refreshing[s]
    <3>1. cache[s] + Tick > Due + timer
      BY <2>0, <2>1, <2>3 DEF Timely
    <3>. QED
      BY <2>2, <3>1, TimeAssumption DEF Stopped
  <2>4. CASE refreshing[s]
    <3>1. ~down
      BY <2>0, <2>1, NameAssumption, ObjectAssumption DEF Shut, At
    <3>2. PICK j \in jobs : j.op = "refresh" /\ s \in j.for
      BY <2>0, <2>1, <2>4, <3>1 DEF RefreshingHasJob
    <3>3. /\ cache[s] > j.left - (Life - Timeout) /\ j.left >= Life - Timeout
          /\ j.left \in 0 .. Life
      BY <2>0, <2>1, <3>2 DEF Timely, JobsInTime, TypeOK, Job
    <3>. QED
      BY <2>2, <3>3, TimeAssumption
  <2>. QED
    BY <2>3, <2>4
<1>. QED
  BY <1>1, Invariant, PTL

\* After a fatal error the output of the session is stopped, or its stop is
\* queued, as long as nothing starts the stopped output again.
THEOREM FailsClosedUnlessRestarted ==
  ASSUME "restart" \notin Faults
  PROVE  Spec => []FailsClosed
<1>1. IInv => FailsClosed
  BY AttachedAt DEF IInv, Attachment, Closed, FailsClosed
<1>. QED
  BY <1>1, Invariant, PTL
=============================================================================

---------------------------- MODULE OutputSigning ----------------------------
(***************************************************************************)
(* OutputSigningManager signs the video of an output: it prefetches a      *)
(* batch of signatures, hooks a packet callback onto the output and        *)
(* refreshes the batch before it runs out.  Its handlers run on the Qt     *)
(* event loop, fetches on workers whose answers are queued back, packet    *)
(* callbacks on encoder threads under the mutex of OBS's callback list.    *)
(*                                                                         *)
(* Time is what batches have left.  It passes in Elapse, only when no      *)
(* timer, queued answer or overdue request is waiting.                     *)
(***************************************************************************)
EXTENDS Integers

CONSTANTS
  Outputs, Main,         \* normalized output keys; main_stream_key()
  MainObjects,           \* the objects OBS uses for its main output, one at a time
  NoObject,
  Sessions, NoSession,   \* calls of prepare_and_attach, each with its Session object
  Name, Key,             \* the output and the batch_key of each session
  Life,      \* what a batch has left when it is requested (300 s)
  Due,       \* a session with no more left is refreshed (60 s)
  Fresh,     \* a shared batch with this much left is used again (90 s)
  Tick,      \* interval of the refresh timer (30 s)
  Timeout,   \* a request is answered by then (30 s)
  Faults

\* refused: prepare_and_attach finds something missing; worker: a thread cannot
\* be started; sign, refresh: the signer refuses; missing: the output is gone
\* when its batch arrives; codec: a packet cannot be signed; restart: an output
\* that a fatal error stopped is started again.
FaultKinds == {"refused", "worker", "sign", "refresh", "missing", "codec", "restart"}

Keys == {Key[s] : s \in Sessions}
Objects == (Outputs \ {Main}) \cup MainObjects
Stopped == Tick + 1

ASSUME NameAssumption == Name \in [Sessions -> Outputs] /\ Main \in Outputs
ASSUME ObjectAssumption == /\ MainObjects # {} /\ MainObjects \cap Outputs = {}
                           /\ NoObject \notin Objects /\ NoSession \notin Sessions
ASSUME TimeAssumption ==
  /\ Life \in Nat /\ Due \in Nat /\ Fresh \in Nat /\ Tick \in Nat /\ Timeout \in Nat
  /\ 0 < Tick /\ Tick + Timeout <= Due /\ Due < Fresh /\ Fresh <= Life /\ Due + Timeout < Life
ASSUME FaultAssumption == Faults \subseteq FaultKinds

VARIABLES
  sessions, pending,   \* sessions_, pending_: the session of each output
  answer,      \* what each completion was told; dropped with its pending session
  bound,       \* session->output
  hooked,      \* the <<object, session>> pairs registered with OBS
  cache,       \* what the signatures of a session have left, 0 when they have expired
  refreshing, fatal,
  batches,     \* what each of shared_batches_ has left
  timer,       \* time to the next tick of refresh_timer_, or Stopped
  jobs,        \* requests, answers and calls that are queued to the event loop
  mainObject, running,   \* OBS: the main output's object; the outputs that run
  down,        \* the manager is destroyed
  spoiled      \* not in the code: sessions whose last refresh failed

registry == <<sessions, pending, answer, bound, hooked>>
signatures == <<cache, refreshing, batches, timer, spoiled>>
obs == <<mainObject, running>>
vars == <<registry, signatures, fatal, jobs, obs, down>>

\* left: what the batch it brings has left.
Job == [op : {"prefetch", "cached", "refresh", "fatal"}, for : SUBSET Sessions, left : 0 .. Life]

Fault(f) == f \in Faults

\* find_output
Object(o) == IF o = Main THEN mainObject ELSE o

Attached == {sessions[o] : o \in Outputs} \ {NoSession}

Later(a, b) == IF a > b THEN a ELSE b

-----------------------------------------------------------------------------
Init ==
  /\ sessions = [o \in Outputs |-> NoSession] /\ pending = [o \in Outputs |-> NoSession]
  /\ answer = [s \in Sessions |-> "new"]
  /\ bound = [s \in Sessions |-> NoObject] /\ hooked = {}
  /\ cache = [s \in Sessions |-> 0] /\ batches = [k \in Keys |-> 0]
  /\ refreshing = [s \in Sessions |-> FALSE] /\ fatal = [s \in Sessions |-> FALSE]
  /\ timer = Stopped /\ spoiled = {} /\ jobs = {}
  /\ mainObject \in MainObjects /\ running = {}
  /\ down = FALSE

\* Mutant: the refresh timer stops with any session.
ReleaseStops(O) ==
  LET gone == {sessions[o] : o \in O} \ {NoSession}
  IN /\ sessions' = [o \in Outputs |-> IF o \in O THEN NoSession ELSE sessions[o]]
     /\ hooked' = hooked \ {<<bound[s], s>> : s \in gone}
     /\ bound' = [s \in Sessions |-> IF s \in gone THEN NoObject ELSE bound[s]]
     /\ cache' = [s \in Sessions |-> IF s \in gone THEN 0 ELSE cache[s]]
     /\ fatal' = [s \in Sessions |-> fatal[s] /\ s \notin gone]
     /\ spoiled' = spoiled \ gone
     /\ timer' = IF gone # {} THEN Stopped ELSE timer

\* detach, what it does to the attached sessions of the outputs O; nothing keeps
\* what such a session holds.
Release(O) ==
  LET gone == {sessions[o] : o \in O} \ {NoSession}
  IN /\ sessions' = [o \in Outputs |-> IF o \in O THEN NoSession ELSE sessions[o]]
     /\ hooked' = hooked \ {<<bound[s], s>> : s \in gone}
     /\ bound' = [s \in Sessions |-> IF s \in gone THEN NoObject ELSE bound[s]]
     /\ cache' = [s \in Sessions |-> IF s \in gone THEN 0 ELSE cache[s]]
     /\ fatal' = [s \in Sessions |-> fatal[s] /\ s \notin gone]
     /\ spoiled' = spoiled \ gone
     /\ timer' = IF gone # {} /\ Attached \subseteq gone THEN Stopped ELSE timer

\* detach, what it does to the completions of sessions that are still pending.
Told(O) == [s \in Sessions |-> IF \E o \in O : pending[o] = s THEN "dropped" ELSE answer[s]]

Detach(o) ==
  /\ ~down
  /\ Release({o})
  /\ pending' = [pending EXCEPT ![o] = NoSession]
  /\ answer' = Told({o})
  /\ UNCHANGED <<refreshing, batches, jobs, obs, down>>

\* The destructor waits for the workers; what they queued is discarded.
Destroy ==
  /\ ~down
  /\ down' = TRUE
  /\ Release(Outputs)
  /\ pending' = [o \in Outputs |-> NoSession]
  /\ answer' = Told(Outputs)
  /\ jobs' = {}
  /\ UNCHANGED <<refreshing, batches, obs>>

\* The checks at the start of prepare_and_attach; the output keeps what it has.
Refuse(s) ==
  /\ Fault("refused")
  /\ answer' = [answer EXCEPT ![s] = "told"]
  /\ UNCHANGED <<sessions, pending, bound, hooked, signatures, fatal, jobs>>

\* Mutant: an output that has a session is not detached first.
PrefetchOver(s) ==
  LET o == Name[s]
      request == IF batches[Key[s]] >= Fresh
                 THEN [op |-> "cached", for |-> {s}, left |-> batches[Key[s]]]
                 ELSE [op |-> "prefetch", for |-> {s}, left |-> Life]
  IN /\ UNCHANGED <<sessions, hooked, bound, timer, cache, fatal, spoiled>>
     /\ \/ /\ jobs' = jobs \cup {request}
           /\ pending' = [pending EXCEPT ![o] = s]
           /\ answer' = [Told({o}) EXCEPT ![s] = "waiting"]
        \/ /\ Fault("worker") /\ request.op = "prefetch"
           /\ pending' = [pending EXCEPT ![o] = NoSession]
           /\ answer' = [Told({o}) EXCEPT ![s] = "told"]
           /\ UNCHANGED jobs
     /\ UNCHANGED <<refreshing, batches>>

\* The rest of prepare_and_attach: a batch that is fresh is answered from the
\* event loop, any other is fetched.
Prefetch(s) ==
  LET o == Name[s]
      request == IF batches[Key[s]] >= Fresh
                 THEN [op |-> "cached", for |-> {s}, left |-> batches[Key[s]]]
                 ELSE [op |-> "prefetch", for |-> {s}, left |-> Life]
  IN /\ Release({o})
     /\ \/ /\ jobs' = jobs \cup {request}
           /\ pending' = [pending EXCEPT ![o] = s]
           /\ answer' = [Told({o}) EXCEPT ![s] = "waiting"]
        \/ /\ Fault("worker") /\ request.op = "prefetch"
           /\ pending' = [pending EXCEPT ![o] = NoSession]
           /\ answer' = [Told({o}) EXCEPT ![s] = "told"]
           /\ UNCHANGED jobs
     /\ UNCHANGED <<refreshing, batches>>

\* prepare_and_attach
Prepare(s) ==
  /\ ~down
  /\ answer[s] = "new"
  /\ Refuse(s) \/ Prefetch(s)
  /\ UNCHANGED <<obs, down>>

\* finish_initial_prepare for a session that is still the pending one.
Attach(s, left) ==
  LET o == Name[s]
  IN /\ answer' = [answer EXCEPT ![s] = "told"]
     /\ cache' = [cache EXCEPT ![s] = left]
     /\ batches' = [batches EXCEPT ![Key[s]] = left]
     /\ bound' = [bound EXCEPT ![s] = Object(o)]
     /\ hooked' = hooked \cup {<<Object(o), s>>}
     /\ sessions' = [sessions EXCEPT ![o] = s]
     /\ timer' = IF timer = Stopped THEN Tick ELSE timer

\* Mutant: a batch that is refused completes nothing.
NotAttachedSilently(s, j) ==
  /\ \/ j.op = "prefetch" /\ Fault("sign") /\ UNCHANGED <<batches, answer>>
     \/ /\ Fault("missing") /\ batches' = [batches EXCEPT ![Key[s]] = j.left]
        /\ answer' = [answer EXCEPT ![s] = "told"]
  /\ UNCHANGED <<sessions, bound, hooked, cache, timer>>

\* finish_initial_prepare when the batch is refused or the output is gone.
NotAttached(s, j) ==
  /\ answer' = [answer EXCEPT ![s] = "told"]
  /\ \/ j.op = "prefetch" /\ Fault("sign") /\ UNCHANGED batches
     \/ Fault("missing") /\ batches' = [batches EXCEPT ![Key[s]] = j.left]
  /\ UNCHANGED <<sessions, bound, hooked, cache, timer>>

\* finish_initial_prepare; a session that is no longer pending is ignored.
PrepareAnswered(s) ==
  \E j \in jobs :
    /\ j.op \in {"prefetch", "cached"} /\ j.for = {s}
    /\ jobs' = jobs \ {j}
    /\ IF pending[Name[s]] = s
       THEN /\ pending' = [pending EXCEPT ![Name[s]] = NoSession]
            /\ Attach(s, j.left) \/ NotAttached(s, j)
       ELSE UNCHANGED <<registry, cache, batches, timer>>
    /\ UNCHANGED <<refreshing, spoiled, fatal, obs, down>>

-----------------------------------------------------------------------------
\* Refreshing.

Ripe == {s \in Attached : cache[s] <= Due /\ ~refreshing[s]}
Served == {s \in Ripe : batches[Key[s]] >= Fresh}
Group(k) == {s \in Ripe \ Served : Key[s] = k}

\* refresh_due_sessions: sessions of one batch key share a request.
RefreshDue ==
  /\ timer = 0
  /\ timer' = Tick
  /\ cache' = [s \in Sessions |-> IF s \in Served THEN Later(cache[s], batches[Key[s]]) ELSE cache[s]]
  /\ \E started \in SUBSET Keys :
       /\ started = Keys \/ Fault("worker")
       /\ refreshing' = [s \in Sessions |->
                           refreshing[s] \/ (s \in Ripe \ Served /\ Key[s] \in started)]
       /\ jobs' = jobs \cup {[op |-> "refresh", for |-> Group(k), left |-> Life] :
                               k \in {k \in started : Group(k) # {}}}
       /\ spoiled' = (spoiled \ Served) \cup {s \in Ripe \ Served : Key[s] \notin started}
  /\ UNCHANGED <<registry, batches, fatal, obs, down>>

RefreshAnswered ==
  \E j \in jobs :
    /\ j.op = "refresh"
    /\ jobs' = jobs \ {j}
    /\ refreshing' = [s \in Sessions |-> refreshing[s] /\ s \notin j.for]
    /\ \/ /\ batches' = [k \in Keys |-> IF \E s \in j.for : Key[s] = k THEN j.left ELSE batches[k]]
          /\ cache' = [s \in Sessions |->
                         IF s \in j.for \cap Attached THEN Later(cache[s], j.left) ELSE cache[s]]
          /\ spoiled' = spoiled \ j.for
       \/ /\ Fault("refresh")
          /\ spoiled' = spoiled \cup (j.for \cap Attached)
          /\ UNCHANGED <<batches, cache>>
    /\ UNCHANGED <<registry, timer, fatal, obs, down>>

-----------------------------------------------------------------------------
\* Packets.

\* packet_callback of a session that cannot sign a packet that is due: there is
\* no signature for the time, or the packet is not one it can change.
PacketFails(s) ==
  \E x \in running :
    /\ <<x, s>> \in hooked
    /\ ~fatal[s]
    /\ cache[s] = 0 \/ Fault("codec")
    /\ fatal' = [fatal EXCEPT ![s] = TRUE]
    /\ jobs' = jobs \cup {[op |-> "fatal", for |-> {s}, left |-> 0]}
    /\ UNCHANGED <<registry, signatures, obs, down>>

\* Mutant: the output is told nothing.
FatalForgotten(s) ==
  \E j \in jobs :
    /\ j.op = "fatal" /\ j.for = {s}
    /\ jobs' = jobs \ {j}
    /\ UNCHANGED <<registry, signatures, fatal, obs, down>>

\* finish_fatal: the output is stopped with an error.
FinishFatal(s) ==
  \E j \in jobs :
    /\ j.op = "fatal" /\ j.for = {s}
    /\ jobs' = jobs \ {j}
    /\ running' = IF sessions[Name[s]] = s THEN running \ {bound[s]} ELSE running
    /\ UNCHANGED <<registry, signatures, fatal, mainObject, down>>

-----------------------------------------------------------------------------
\* OBS.

\* The sessions the dock or the user may start an output with.
Startable(o) == sessions[o] \in Attached => ~fatal[sessions[o]] \/ Fault("restart")

StartOutput(o) ==
  /\ o # Main
  /\ o \notin running /\ Startable(o)
  /\ running' = running \cup {o}
  /\ UNCHANGED <<registry, signatures, fatal, jobs, mainObject, down>>

\* Mutant: the session stays with the object it was attached to.
RebindNothing == UNCHANGED <<bound, hooked>>

\* rebind_main_output
Rebind ==
  LET s == sessions[Main]
  IN IF s = NoSession \/ bound[s] = mainObject
     THEN UNCHANGED <<bound, hooked>>
     ELSE /\ hooked' = (hooked \ {<<bound[s], s>>}) \cup {<<mainObject, s>>}
          /\ bound' = [bound EXCEPT ![s] = mainObject]

\* STREAMING_STARTING is sent before the main output runs.
StartMain ==
  /\ mainObject \notin running /\ Startable(Main)
  /\ Rebind
  /\ running' = running \cup {mainObject}
  /\ UNCHANGED <<sessions, pending, answer, signatures, fatal, jobs, mainObject, down>>

StopOutput(x) ==
  /\ running' = running \ {x}
  /\ x \in running
  /\ UNCHANGED <<registry, signatures, fatal, jobs, mainObject, down>>

\* OBS replaces the object of its main output while it does not stream.
ReplaceMain ==
  /\ mainObject \notin running
  /\ mainObject' \in MainObjects \ {mainObject}
  /\ UNCHANGED <<registry, signatures, fatal, jobs, running, down>>

-----------------------------------------------------------------------------
\* Time.

Pass(left) == IF left = 0 THEN 0 ELSE left - 1

Elapse ==
  /\ timer # 0
  /\ \A j \in jobs : j.op \in {"prefetch", "refresh"} /\ j.left > Life - Timeout
  /\ timer' = IF timer = Stopped THEN Stopped ELSE timer - 1
  /\ cache' = [s \in Sessions |-> Pass(cache[s])]
  /\ batches' = [k \in Keys |-> Pass(batches[k])]
  /\ jobs' = {[j EXCEPT !.left = Pass(@)] : j \in jobs}
  /\ UNCHANGED <<registry, refreshing, spoiled, fatal, obs, down>>

Next ==
  \/ \E s \in Sessions : Prepare(s) \/ PrepareAnswered(s) \/ PacketFails(s) \/ FinishFatal(s)
  \/ \E o \in Outputs : Detach(o) \/ StartOutput(o)
  \/ \E x \in Objects : StopOutput(x)
  \/ StartMain \/ ReplaceMain
  \/ RefreshDue \/ RefreshAnswered
  \/ Destroy \/ Elapse

Spec == Init /\ [][Next]_vars

\* A request is answered, by the signer or by its timeout, and the event loop
\* delivers the answer.
FairSpec == Spec /\ \A s \in Sessions : WF_vars(PrepareAnswered(s))

-----------------------------------------------------------------------------
TypeOK ==
  /\ sessions \in [Outputs -> Sessions \cup {NoSession}]
  /\ pending \in [Outputs -> Sessions \cup {NoSession}]
  /\ answer \in [Sessions -> {"new", "waiting", "told", "dropped"}]
  /\ bound \in [Sessions -> Objects \cup {NoObject}]
  /\ hooked \subseteq Objects \X Sessions
  /\ cache \in [Sessions -> 0 .. Life]
  /\ refreshing \in [Sessions -> BOOLEAN] /\ fatal \in [Sessions -> BOOLEAN]
  /\ batches \in [Keys -> 0 .. Life]
  /\ timer \in 0 .. Stopped
  /\ jobs \subseteq Job
  /\ mainObject \in MainObjects /\ running \subseteq Objects
  /\ down \in BOOLEAN /\ spoiled \subseteq Sessions

\* OBS calls back with a raw pointer: a registered session is the one
\* sessions_ keeps alive for its output, and is bound to the object it is
\* registered with, so that detach unregisters it.
CallbackOwned == \A h \in hooked : sessions[Name[h[2]]] = h[2] /\ bound[h[2]] = h[1]

\* No packet passes unsigned: while the output of an attached session runs, the
\* callback is on the very object that runs.
RunningHooked ==
  \A o \in Outputs :
    sessions[o] # NoSession /\ Object(o) \in running => <<Object(o), sessions[o]>> \in hooked

\* An attached session has a signature for the current time, unless a refresh
\* of it has failed.
InTime == \A s \in Attached \ spoiled : cache[s] > 0

\* A session that is marked as refreshing has exactly one request under way
\* that takes the mark back, and no other session has one.
RefreshingHasJob ==
  ~down => \A s \in Sessions : refreshing[s] <=> \E j \in jobs : j.op = "refresh" /\ s \in j.for

\* "An expired cache or unsupported codec raises an OBS output error and
\* schedules an immediate stop rather than falling back": after a fatal error
\* the output of an attached session does not run on.
FailsClosed ==
  \A s \in Attached : fatal[s] /\ bound[s] \in running =>
    \E j \in jobs : j.op = "fatal" /\ j.for = {s}

\* Each prepare_and_attach is completed, or dropped by a detach.
Completed == \A s \in Sessions : answer[s] = "waiting" ~> answer[s] # "waiting"
=============================================================================

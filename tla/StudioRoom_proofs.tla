-------------------------- MODULE StudioRoom_proofs --------------------------
(* The safety invariants of StudioRoom, for any rooms, number of hosts,       *)
(* faults and number of calls.                                                *)
EXTENDS StudioRoom, TLAPS

\* Every host asked in this pass that knows an open room gave no answer.
Swept(w, host) == \A r \in Rooms : \A h \in knows[r] : h < host => h \in w.blind

Sound(w) ==
  /\ w \in Worker /\ w.room \in opened \cup {NoRoom}
  /\ w.step = "look" => Swept(w, w.host)
  /\ w.step = "create" => Unseen(w.blind)
  /\ w.step \in {"prepare", "ping"} => w.room # NoRoom

Searching ==
  /\ held \subseteq opened
  /\ told \in [room : Rooms \cup {NoRoom}, blind : SUBSET Hosts]
  /\ worker # Nothing => Sound(worker)
  /\ NoneUnseen

\* A room closed, or left to what its first host failed to say.
Settled(r, blind) == knows[r] = {} \/ 1 \notin knows[r] \/ 1 \in blind

SoundCloser(c) ==
  /\ c \in Closer /\ c.room \in opened
  /\ c.host > 1 => 1 \in c.blind
  /\ c.first \in {"ok", "stale"} /\ c.op = "end" => Settled(c.room, c.blind)

Closing ==
  /\ verdict \in [room : Rooms \cup {NoRoom}, outcome : Errors \cup {"ended", "none"}, blind : SUBSET Hosts]
  /\ closer # Nothing => SoundCloser(closer)
  /\ verdict.outcome \in {"ended", "stale"} =>
       verdict.room \in opened /\ Settled(verdict.room, verdict.blind)

Opened ==
  /\ knows \in [Rooms -> SUBSET Hosts] /\ opened \subseteq Rooms
  /\ \A r \in Rooms \ opened : knows[r] = {}
  /\ made \in 0 .. MaxCalls

IInv == Opened /\ Searching /\ Closing

-----------------------------------------------------------------------------
(* Rooms only close, and a room in use only closes. *)
Shrinks == opened \subseteq opened' /\ \A r \in opened : knows'[r] \subseteq knows[r]

\* What is left to itself while rooms close stays sound.
LEMMA CloserKept ==
  ASSUME Opened, Closing, Opened', Shrinks, UNCHANGED <<closer, verdict>>
  PROVE  Closing'
BY DEF Opened, Closing, Shrinks, SoundCloser, Settled, Closer

LEMMA WorkerKept ==
  ASSUME Opened, Searching, Opened', opened' = opened, Shrinks, UNCHANGED <<held, told, worker>>
  PROVE  Searching'
<1>1. \A r \in Rooms : knows'[r] \subseteq knows[r]
  BY DEF Opened, Shrinks
<1>2. \A blind : Unseen(blind) => \A r \in Rooms : knows'[r] \subseteq blind
  BY <1>1 DEF Unseen
<1>3. worker # Nothing => Sound(worker)'
  BY <1>1, <1>2 DEF Searching, Sound, Swept, Unseen
<1>4. NoneUnseen'
  BY <1>2 DEF Searching, NoneUnseen, Unseen
<1> QED
  BY <1>3, <1>4 DEF Searching

\* The worker goes on, or returns, in a state where it is sound.
LEMMA GoSound ==
  ASSUME NEW w, Sound(w), Searching, UNCHANGED <<knows, opened>>, Go(w)
  PROVE  Searching'
<1>1. Sound(w)'
  BY DEF Sound, Swept, Unseen
<1>2. w # Nothing
  BY RoomAssumption DEF Sound
<1> QED
  BY <1>1, <1>2 DEF Searching, Go, NoneUnseen

LEMMA ReturnSound ==
  ASSUME NEW w, w \in Worker, w.room \in opened \cup {NoRoom}, w.room = NoRoom => Unseen(w.blind),
         Searching, UNCHANGED <<knows, opened>>, Return(w)
  PROVE  Searching'
<1>1. told' \in [room : Rooms \cup {NoRoom}, blind : SUBSET Hosts]
  BY DEF Return, Worker
<1>2. held' \subseteq opened'
  BY DEF Return, Searching
<1>3. NoneUnseen'
  BY DEF Return, NoneUnseen, Unseen
<1> QED
  BY <1>1, <1>2, <1>3 DEF Searching, Return

LEMMA EmptySound ==
  ASSUME NEW w, w \in Worker, w.room \in opened \cup {NoRoom}, Unseen(w.blind),
         Searching, UNCHANGED <<knows, opened>>, Empty(w)
  PROVE  Searching'
<1>1. CASE w.op = "start" /\ ~w.login /\ w.target < N
  <2> DEFINE v == [w EXCEPT !.step = "create", !.target = @ + 1]
  <2>1. w.target + 1 \in 0 .. N
    BY <1>1, RoomAssumption DEF Worker
  <2>2. v \in Worker /\ v.step = "create" /\ v.room = w.room /\ v.blind = w.blind
    BY <2>1 DEF Worker
  <2>3. Sound(v)
    BY <2>2 DEF Sound
  <2> QED
    BY <1>1, <2>3, GoSound DEF Empty
<1>2. CASE ~(w.op = "start" /\ ~w.login /\ w.target < N)
  BY <1>2, ReturnSound DEF Empty
<1> QED
  BY <1>1, <1>2

\* When every host has been asked, those that know a room gave no answer.
LEMMA OnwardSound ==
  ASSUME NEW w, w \in Worker, w.room \in opened \cup {NoRoom}, w.step = "look", Swept(w, w.host + 1),
         Opened, Searching, UNCHANGED <<knows, opened>>, Onward(w)
  PROVE  Searching'
<1>1. w.host \in 1 .. N
  BY DEF Worker, Hosts
<1>2. CASE w.host < N
  <2> DEFINE v == [w EXCEPT !.host = @ + 1]
  <2>1. v \in Worker /\ v.step = "look" /\ v.room = w.room /\ v.host = w.host + 1 /\ v.blind = w.blind
    BY <1>1, <1>2, RoomAssumption DEF Worker, Hosts
  <2>2. Sound(v)
    BY <2>1 DEF Sound, Swept
  <2> QED
    BY <1>2, <2>2, GoSound DEF Onward
<1>3. CASE ~(w.host < N)
  <2>1. w.host = N
    BY <1>1, <1>3, RoomAssumption
  <2>2. \A r \in Rooms : \A h \in knows[r] : h \in 1 .. N
    BY DEF Opened, Hosts
  <2>3. Unseen(w.blind)
    BY <2>1, <2>2, RoomAssumption DEF Swept, Unseen
  <2> QED
    BY <1>3, <2>3, EmptySound DEF Onward
<1> QED
  BY <1>2, <1>3

-----------------------------------------------------------------------------
(* One lemma per action. *)
LEMMA BeginInv ==
  ASSUME IInv, NEW op \in Lookups, Begin(op)
  PROVE  IInv'
<1>1. Opened'
  BY RoomAssumption DEF IInv, Opened, Begin, Made
<1>2. worker' \in Worker /\ worker'.step = "look" /\ worker'.host = 1 /\ worker'.room = NoRoom
  BY RoomAssumption DEF Begin, Worker, Lookups, Hosts
<1>3. \A r \in Rooms : \A h \in knows[r] : ~(h < 1)
  BY DEF IInv, Opened, Hosts
<1>4. Sound(worker)'
  BY <1>2, <1>3 DEF Sound, Swept, Begin
<1>5. worker' # Nothing
  BY <1>2, RoomAssumption
<1>6. Searching'
  BY <1>4, <1>5 DEF IInv, Searching, NoneUnseen, Begin
<1>7. Closing'
  BY <1>1, CloserKept DEF IInv, Begin, Shrinks
<1> QED
  BY <1>1, <1>6, <1>7 DEF IInv

LEMMA LookInv ==
  ASSUME IInv, LookAnswered
  PROVE  IInv'
<1> USE DEF IInv
<1>1. Opened' /\ Closing'
  BY CloserKept DEF LookAnswered, Opened, Shrinks
<1>2. worker # Nothing /\ Sound(worker) /\ worker.step = "look" /\ worker \in Worker
      /\ worker.host \in 1 .. N /\ Searching /\ UNCHANGED <<knows, opened>>
  BY DEF LookAnswered, Searching, Sound, Worker, Hosts
<1>3. ASSUME NEW r \in Rooms, worker.host \in knows[r], Go([worker EXCEPT !.step = "prepare", !.room = r])
      PROVE  Searching'
  <2> DEFINE v == [worker EXCEPT !.step = "prepare", !.room = r]
  <2>1. v \in Worker /\ v.step = "prepare" /\ v.room = r
    BY <1>2 DEF Worker
  <2>2. r \in opened /\ r # NoRoom
    BY <1>3, RoomAssumption DEF Opened
  <2>3. Sound(v)
    BY <2>1, <2>2 DEF Sound
  <2> QED
    BY <1>2, <1>3, <2>3, GoSound
<1>4. ASSUME ~(\E r \in Rooms : worker.host \in knows[r]), Onward([worker EXCEPT !.denied = TRUE])
      PROVE  Searching'
  <2> DEFINE v == [worker EXCEPT !.denied = TRUE]
  <2>1. v \in Worker /\ v.step = "look" /\ v.room = worker.room /\ v.host = worker.host /\ v.blind = worker.blind
    BY <1>2 DEF Worker
  <2>2. \A r \in Rooms : \A h \in knows[r] : h < worker.host + 1 => h < worker.host
    BY <1>2, <1>4, RoomAssumption DEF Opened, Hosts
  <2>3. Swept(v, v.host + 1)
    BY <1>2, <2>1, <2>2 DEF Sound, Swept
  <2> QED
    BY <1>2, <1>4, <2>1, <2>3, OnwardSound DEF Sound
<1>5. ASSUME Onward(Missed(worker))
      PROVE  Searching'
  <2> DEFINE v == Missed(worker)
  <2>1. v \in Worker /\ v.step = "look" /\ v.room = worker.room /\ v.host = worker.host
        /\ v.blind = worker.blind \cup {worker.host}
    BY <1>2 DEF Worker, Missed, Hosts
  <2>2. \A r \in Rooms : \A h \in knows[r] : h < worker.host + 1 => h < worker.host \/ h = worker.host
    BY <1>2, RoomAssumption DEF Opened, Hosts
  <2>3. Swept(v, v.host + 1)
    BY <1>2, <2>1, <2>2 DEF Sound, Swept
  <2> QED
    BY <1>2, <1>5, <2>1, <2>3, OnwardSound DEF Sound
<1>6. ASSUME Empty([worker EXCEPT !.login = TRUE, !.blind = @ \cup (worker.host .. N)])
      PROVE  Searching'
  <2> DEFINE v == [worker EXCEPT !.login = TRUE, !.blind = @ \cup (worker.host .. N)]
  <2>1. worker.host .. N \subseteq Hosts
    BY <1>2, RoomAssumption DEF Hosts
  <2>2. v \in Worker /\ v.room = worker.room /\ v.blind = worker.blind \cup (worker.host .. N)
    BY <1>2, <2>1 DEF Worker
  <2>3. \A r \in Rooms : \A h \in knows[r] : h < worker.host \/ h \in worker.host .. N
    BY <1>2, RoomAssumption DEF Opened, Hosts
  <2>4. Unseen(v.blind)
    BY <1>2, <2>2, <2>3 DEF Sound, Swept, Unseen
  <2> QED
    BY <1>2, <1>6, <2>2, <2>4, EmptySound DEF Sound
<1>7. Searching'
  BY <1>3, <1>4, <1>5, <1>6 DEF LookAnswered
<1> QED
  BY <1>1, <1>7

LEMMA CreateInv ==
  ASSUME IInv, CreateAnswered
  PROVE  IInv'
<1> USE DEF IInv
<1>1. worker # Nothing /\ Sound(worker) /\ worker \in Worker
  BY DEF CreateAnswered, Searching, Sound
<1> DEFINE again == Look(worker)
           refused == [Look(worker) EXCEPT !.login = TRUE]
<1>2. \A w \in {again, refused} : w \in Worker /\ w.step = "look" /\ w.room = worker.room /\ w.host = 1
  <2>1. 1 \in Hosts
    BY RoomAssumption DEF Hosts
  <2>2. again \in Worker /\ again.step = "look" /\ again.room = worker.room /\ again.host = 1
    BY <1>1, <2>1 DEF Look, Worker
  <2>3. refused \in Worker /\ refused.step = "look" /\ refused.room = worker.room /\ refused.host = 1
    BY <2>2 DEF Worker
  <2> QED
    BY <2>2, <2>3
<1>3. ASSUME NEW r \in Rooms \ opened, NEW hosts \in SUBSET Hosts,
             knows' = [knows EXCEPT ![r] = hosts], opened' = opened \cup {r},
             Go([worker EXCEPT !.step = "prepare", !.room = r]) \/ Go(again)
      PROVE  IInv'
  <2>1. Opened'
    BY <1>3 DEF CreateAnswered, Opened
  <2>2. Closing'
    BY <1>3, <2>1, CloserKept DEF CreateAnswered, Opened, Shrinks
  <2>3. r \in opened' /\ r # NoRoom /\ opened \subseteq opened'
    BY <1>3, RoomAssumption
  <2>4. CASE Go([worker EXCEPT !.step = "prepare", !.room = r])
    <3> DEFINE v == [worker EXCEPT !.step = "prepare", !.room = r]
    <3>1. v \in Worker /\ v.step = "prepare" /\ v.room = r
      BY <1>1 DEF Worker
    <3>2. worker' = v /\ Sound(worker)'
      BY <2>3, <2>4, <3>1 DEF Go, Sound
    <3> QED
      BY <2>1, <2>2, <2>3, <2>4, <3>1, <3>2, RoomAssumption DEF Go, Searching, NoneUnseen
  <2>5. CASE Go(again)
    <3>1. \A s \in Rooms : \A h \in knows'[s] : ~(h < 1)
      BY <2>1 DEF Opened, Hosts
    <3>2. worker' = again /\ Sound(worker)'
      BY <1>1, <1>2, <2>3, <2>5, <3>1 DEF Go, Sound, Swept
    <3> QED
      BY <1>2, <2>1, <2>2, <2>3, <2>5, <3>2, RoomAssumption DEF Go, Searching, NoneUnseen
  <2> QED
    BY <1>3, <2>4, <2>5
<1>4. ASSUME UNCHANGED <<knows, opened>>, NEW w \in {again, refused}, Go(w)
      PROVE  IInv'
  <2>1. Opened' /\ Closing'
    BY <1>4, CloserKept DEF CreateAnswered, Opened, Shrinks
  <2>2. \A r \in Rooms : \A h \in knows[r] : ~(h < 1)
    BY DEF Opened, Hosts
  <2>3. Sound(w)
    BY <1>1, <1>2, <2>2 DEF Sound, Swept
  <2> QED
    BY <1>4, <2>1, <2>3, GoSound
<1> QED
  BY <1>3, <1>4 DEF CreateAnswered

LEMMA PrepareInv ==
  ASSUME IInv, Prepare
  PROVE  IInv'
<1> USE DEF IInv
<1>1. Opened' /\ Closing'
  BY CloserKept DEF Prepare, Opened, Shrinks
<1>2. Sound(worker) /\ worker \in Worker /\ worker.step = "prepare" /\ worker.room # NoRoom
      /\ worker.room \in opened \cup {NoRoom} /\ UNCHANGED <<knows, opened>>
  BY DEF Prepare, Searching, Sound
<1>3. ASSUME Return(worker)
      PROVE  Searching'
  BY <1>2, <1>3, ReturnSound
<1>4. ASSUME Go([worker EXCEPT !.step = "ping", !.host = 1])
      PROVE  Searching'
  <2> DEFINE v == [worker EXCEPT !.step = "ping", !.host = 1]
  <2>1. 1 \in Hosts
    BY RoomAssumption DEF Hosts
  <2>2. v \in Worker /\ v.step = "ping" /\ v.room = worker.room
    BY <1>2, <2>1 DEF Worker
  <2>3. Sound(v)
    BY <1>2, <2>2 DEF Sound
  <2> QED
    BY <1>2, <1>4, <2>3, GoSound
<1> QED
  BY <1>1, <1>3, <1>4 DEF Prepare

LEMMA WorkerPingInv ==
  ASSUME IInv, WorkerPing
  PROVE  IInv'
<1> USE DEF IInv
<1>1. Opened' /\ Closing'
  BY CloserKept DEF WorkerPing, Opened, Shrinks
<1>2. Sound(worker) /\ worker \in Worker /\ worker.step = "ping" /\ worker.room # NoRoom
      /\ worker.room \in opened \cup {NoRoom} /\ worker.host \in 1 .. N /\ UNCHANGED <<knows, opened>>
  BY DEF WorkerPing, Searching, Sound, Worker, Hosts
<1>3. ASSUME Return(worker)
      PROVE  Searching'
  BY <1>2, <1>3, ReturnSound
<1>4. ASSUME NEW answer, ~Decided(answer, worker.host), Go([worker EXCEPT !.host = @ + 1])
      PROVE  Searching'
  <2> DEFINE v == [worker EXCEPT !.host = @ + 1]
  <2>1. worker.host + 1 \in Hosts
    BY <1>2, <1>4, RoomAssumption DEF Decided, Hosts
  <2>2. v \in Worker /\ v.step = "ping" /\ v.room = worker.room
    BY <1>2, <2>1 DEF Worker
  <2>3. Sound(v)
    BY <1>2, <2>2 DEF Sound
  <2> QED
    BY <1>2, <1>4, <2>3, GoSound
<1> QED
  BY <1>1, <1>3, <1>4 DEF WorkerPing

LEMMA CloseInv ==
  ASSUME IInv, NEW op \in {"end", "beat"}, NEW r \in Rooms, Close(op, r)
  PROVE  IInv'
<1> USE DEF IInv
<1>1. Opened'
  BY RoomAssumption DEF Close, Opened, Made
<1>2. Searching'
  BY <1>1, WorkerKept DEF Close, Shrinks
<1>3. SoundCloser(closer)'
  BY RoomAssumption DEF Close, SoundCloser, Closer, Errors, Hosts, Searching
<1>4. Closing'
  BY <1>3 DEF Close, Closing, Settled, SoundCloser
<1> QED
  BY <1>1, <1>2, <1>4

-----------------------------------------------------------------------------
(* heartbeat_sync: a room is found over by the first host, or after it failed. *)
LEMMA CloserPingInv ==
  ASSUME IInv, CloserPing
  PROVE  IInv'
<1> USE DEF IInv
<1> PICK answer \in Answers(closer.room, closer.host), reached \in BOOLEAN :
      LET c == IF answer = "failed" THEN [closer EXCEPT !.blind = @ \cup {closer.host}] ELSE closer
      IN /\ answer = "ok" /\ closer.op = "end" => reached
         /\ knows' = IF reached THEN [knows EXCEPT ![closer.room] = {}] ELSE knows
         /\ IF Decided(answer, closer.host) THEN Finish(c, answer)
            ELSE closer' = [c EXCEPT !.host = @ + 1] /\ UNCHANGED verdict
  BY DEF CloserPing
<1> PICK c : c = IF answer = "failed" THEN [closer EXCEPT !.blind = @ \cup {closer.host}] ELSE closer
  OBVIOUS
<1>0. IF Decided(answer, closer.host) THEN Finish(c, answer)
      ELSE closer' = [c EXCEPT !.host = @ + 1] /\ UNCHANGED verdict
  OBVIOUS
<1>1. SoundCloser(closer) /\ closer \in Closer /\ closer.room \in opened /\ closer.room \in Rooms
      /\ closer.host \in 1 .. N /\ UNCHANGED <<opened, held, worker, told, made>>
  BY DEF CloserPing, Closing, SoundCloser, Closer, Hosts
<1>2. Opened' /\ Shrinks
  BY <1>1 DEF Opened, Shrinks
<1>3. Searching'
  BY <1>1, <1>2, WorkerKept
<1>4. answer \in Errors /\ (answer = "stale" => closer.host \notin knows[closer.room])
  BY DEF Answers, Errors
<1>5. c \in Closer /\ c.room = closer.room /\ c.op = closer.op /\ c.first = closer.first
      /\ c.host = closer.host /\ closer.blind \subseteq c.blind
      /\ (answer = "failed" => closer.host \in c.blind)
  BY <1>1, <1>4 DEF Closer, Hosts
<1>6. knows'[c.room] \subseteq knows[c.room]
  BY <1>1, <1>2, <1>5 DEF Shrinks
<1>7. SoundCloser(c)'
  BY <1>1, <1>2, <1>5, <1>6 DEF SoundCloser, Settled, Shrinks
<1>8. answer = "stale" \/ (answer = "ok" /\ c.op = "end") => Settled(c.room, c.blind)'
  <2>1. CASE answer = "ok" /\ c.op = "end"
    BY <1>1, <1>5, <2>1 DEF Settled, Opened
  <2>2. CASE answer = "stale" /\ closer.host = 1
    BY <1>4, <1>5, <1>6, <2>2 DEF Settled
  <2>3. CASE answer = "stale" /\ closer.host # 1
    BY <1>1, <1>5, <2>3, RoomAssumption DEF Settled, SoundCloser
  <2> QED
    BY <2>1, <2>2, <2>3
<1>9. Closing'
  <2>1. CASE Decided(answer, closer.host) /\ c.op = "end" /\ c.first = "unsent"
    <3> DEFINE d == [c EXCEPT !.first = answer, !.host = 1]
    <3>1. closer' = d /\ verdict' = verdict
      BY <1>0, <2>1 DEF Finish
    <3> 1 \in Hosts
      BY RoomAssumption DEF Hosts
    <3>2. d \in Closer /\ d.first = answer /\ d.host = 1 /\ d.room = c.room /\ d.op = c.op /\ d.blind = c.blind
      BY <1>4, <1>5 DEF Closer
    <3>3. SoundCloser(closer)'
      BY <1>7, <1>8, <3>1, <3>2 DEF SoundCloser, Settled
    <3> QED
      BY <1>2, <3>1, <3>3 DEF Closing, Settled, Shrinks
  <2>2. CASE Decided(answer, closer.host) /\ ~(c.op = "end" /\ c.first = "unsent")
    <3>1. closer' = Nothing /\ verdict' = [room |-> c.room, blind |-> c.blind,
             outcome |-> IF c.op = "end" THEN Outcome(c.first, answer) ELSE answer]
      BY <1>0, <2>2 DEF Finish
    <3>2. verdict' \in [room : Rooms \cup {NoRoom}, outcome : Errors \cup {"ended", "none"}, blind : SUBSET Hosts]
      BY <1>1, <1>4, <1>5, <3>1 DEF Closer, Outcome, Errors
    <3>3. verdict'.outcome \in {"ended", "stale"} => Settled(c.room, c.blind)'
      BY <1>4, <1>7, <1>8, <3>1 DEF Outcome, SoundCloser, Settled, Errors
    <3> QED
      BY <1>7, <3>1, <3>2, <3>3 DEF Closing, SoundCloser, Settled
  <2>3. CASE ~Decided(answer, closer.host)
    <3> DEFINE d == [c EXCEPT !.host = @ + 1]
    <3>1. closer' = d /\ verdict' = verdict
      BY <1>0, <2>3
    <3>2. closer.host + 1 \in Hosts /\ answer = "failed"
      BY <1>1, <2>3, RoomAssumption DEF Decided, Hosts
    <3>3. d \in Closer /\ d.first = c.first /\ d.host = c.host + 1 /\ d.room = c.room /\ d.op = c.op /\ d.blind = c.blind
      BY <1>5, <3>2 DEF Closer
    <3>4. 1 \in c.blind
      BY <1>1, <1>5, <3>2, RoomAssumption DEF SoundCloser
    <3>5. SoundCloser(closer)'
      BY <1>7, <3>1, <3>3, <3>4 DEF SoundCloser, Settled
    <3> QED
      BY <1>2, <3>1, <3>5 DEF Closing, Settled, Shrinks
  <2> QED
    BY <2>1, <2>2, <2>3
<1> QED
  BY <1>2, <1>3, <1>9

LEMMA RoomClosesInv ==
  ASSUME IInv, RoomCloses
  PROVE  IInv'
<1> USE DEF IInv
<1>1. Opened' /\ Shrinks
  BY DEF RoomCloses, Opened, Shrinks
<1>2. Searching' /\ Closing'
  BY <1>1, WorkerKept, CloserKept DEF RoomCloses
<1> QED
  BY <1>1, <1>2

LEMMA StutterInv ==
  ASSUME IInv, UNCHANGED vars
  PROVE  IInv'
<1>1. Opened' /\ Shrinks
  BY DEF IInv, vars, Opened, Shrinks
<1>2. Searching' /\ Closing'
  BY <1>1, WorkerKept, CloserKept DEF IInv, vars
<1> QED
  BY <1>1, <1>2 DEF IInv

LEMMA InitInv ==
  ASSUME Init
  PROVE  IInv
<1>1. Opened
  BY RoomAssumption DEF Init, Opened
<1>2. Searching
  BY <1>1 DEF Init, Searching, NoneUnseen, Unseen, Opened
<1>3. Closing
  BY DEF Init, Closing, Errors
<1> QED
  BY <1>1, <1>2, <1>3 DEF IInv

LEMMA StepInv ==
  ASSUME IInv, [Next]_vars
  PROVE  IInv'
BY BeginInv, LookInv, CreateInv, PrepareInv, WorkerPingInv, CloseInv, CloserPingInv,
   RoomClosesInv, StutterInv DEF Next

\* TypeOK and the search are inductive together; the other invariants follow.
LEMMA InductiveInv == Spec => []IInv
BY InitInv, StepInv, PTL DEF Spec

\* The client's records stay within their types: no create beyond the last host.
THEOREM TypeCorrect == Spec => []TypeOK
<1>1. IInv => TypeOK
  BY DEF IInv, Opened, Searching, Closing, Sound, SoundCloser, TypeOK
<1> QED
  BY <1>1, InductiveInv, PTL

\* start_live creates a room only when no host that answered since its last
\* create knows an open one.
THEOREM NoSecondRoom == Spec => []CreatedUnseen
<1>1. IInv => CreatedUnseen
  BY DEF IInv, Searching, Sound, CreatedUnseen
<1> QED
  BY <1>1, InductiveInv, PTL

\* A call that finds no room was denied one by every host that answered.
THEOREM NoRoomOverlooked == Spec => []NoneUnseen
<1>1. IInv => NoneUnseen
  BY DEF IInv, Searching
<1> QED
  BY <1>1, InductiveInv, PTL

\* What the first host decides about a room is what the dock is told.
THEOREM FirstHostDecides == Spec => []FirstDecides
<1>1. IInv => FirstDecides
  BY DEF IInv, Closing, Settled, FirstDecides
<1> QED
  BY <1>1, InductiveInv, PTL
=============================================================================

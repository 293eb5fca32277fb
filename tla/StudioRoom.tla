----------------------------- MODULE StudioRoom -----------------------------
(* How tiktok_studio_client.cpp looks for, opens and closes the LIVE room of  *)
(* an account. TikTok answers on several regional hosts, which need not know  *)
(* each other's rooms; the client asks them in the order the saved cookies    *)
(* give, and a request may fail, or do its work while its answer is lost. The *)
(* dock makes one call at a time that looks for a room or opens one, and      *)
(* heartbeats and end requests beside it. One HTTP request is one step.       *)
EXTENDS Integers, FiniteSets

CONSTANTS
  Rooms, NoRoom,
  N,          \* webcast_hosts: the hosts are 1 .. N, the saved session's first
  Nothing,    \* no call under way
  Faults,     \* of "failed", "lost", "login", "partial"
  MaxCalls    \* bound on the calls the dock makes

Hosts == 1 .. N

Lookups == {"start", "find", "resume"}
Worker == [op : Lookups, step : {"look", "create", "prepare", "ping"}, host : Hosts,
           target : 0 .. N, blind : SUBSET Hosts, denied : BOOLEAN, login : BOOLEAN,
           room : Rooms \cup {NoRoom}]
Errors == {"ok", "stale", "login", "failed"}
Closer == [op : {"end", "beat"}, room : Rooms, host : Hosts, first : Errors \cup {"unsent"},
           blind : SUBSET Hosts]

ASSUME RoomAssumption ==
  /\ N \in Nat \ {0} /\ MaxCalls \in Nat
  /\ NoRoom \notin Rooms /\ Nothing \notin Worker \cup Closer

VARIABLES
  knows,    \* knows[r]: the hosts that know room r; none unless it is open
  opened,   \* the rooms opened so far
  held,     \* the rooms the dock was told of
  worker,   \* the call that looks for a room or opens one
  closer,   \* the heartbeat or end request
  told,     \* what the last worker told the dock
  verdict,  \* what the last closer told it
  made      \* calls made
vars == <<knows, opened, held, worker, closer, told, verdict, made>>

\* A room of an earlier run of OBS may still be open, and in the profile file.
Init ==
  /\ knows \in [Rooms -> SUBSET Hosts]
  /\ opened = {r \in Rooms : knows[r] # {}} /\ held \in SUBSET opened
  /\ worker = Nothing /\ closer = Nothing
  /\ told = [room |-> NoRoom, blind |-> Hosts]
  /\ verdict = [room |-> NoRoom, outcome |-> "none", blind |-> {}]
  /\ made = 0

Made == made < MaxCalls /\ made' = made + 1

-----------------------------------------------------------------------------
(* continuable_room_sync: every host is asked until one has a room. A host    *)
(* without one, or whose last room is over, denies it; blind are those that   *)
(* gave no answer, or were not asked because the login is refused first.      *)

\* Mutant: the search after a failed create starts at the host it failed at.
LookFromTarget(w) == [w EXCEPT !.step = "look", !.host = w.target, !.blind = {}, !.denied = FALSE]

Look(w) == [w EXCEPT !.step = "look", !.host = 1, !.blind = {}, !.denied = FALSE]

Begin(op) ==
  /\ worker = Nothing /\ Made
  /\ worker' = [op |-> op, step |-> "look", host |-> 1, target |-> 0, blind |-> {},
                denied |-> FALSE, login |-> FALSE, room |-> NoRoom]
  /\ UNCHANGED <<knows, opened, held, closer, told, verdict>>

Return(w) ==
  /\ worker' = Nothing
  /\ told' = [room |-> w.room, blind |-> w.blind]
  /\ held' = IF w.room = NoRoom THEN held ELSE held \cup {w.room}

Go(w) == worker' = w /\ UNCHANGED <<told, held>>

\* No host has a room: start_live goes on to create one, at the next host.
Empty(w) ==
  IF w.op = "start" /\ ~w.login /\ w.target < N
  THEN Go([w EXCEPT !.step = "create", !.target = @ + 1])
  ELSE Return(w)

Missed(w) == [w EXCEPT !.blind = @ \cup {w.host}]

\* Mutant: the first host that knows of no room ends the search.
OnwardUnlessDenied(w) == IF w.host < N /\ ~w.denied THEN Go([w EXCEPT !.host = @ + 1]) ELSE Empty(w)

Onward(w) == IF w.host < N THEN Go([w EXCEPT !.host = @ + 1]) ELSE Empty(w)

LookAnswered ==
  /\ worker # Nothing /\ worker.step = "look"
  /\ \/ \E r \in Rooms : worker.host \in knows[r] /\ Go([worker EXCEPT !.step = "prepare", !.room = r])
     \/ ~(\E r \in Rooms : worker.host \in knows[r]) /\ Onward([worker EXCEPT !.denied = TRUE])
     \/ "failed" \in Faults /\ Onward(Missed(worker))
     \/ /\ "login" \in Faults
        /\ IF worker.denied THEN Onward(Missed(worker))
           ELSE Empty([worker EXCEPT !.login = TRUE, !.blind = @ \cup (worker.host .. N)])
  /\ UNCHANGED <<knows, opened, closer, verdict, made>>

-----------------------------------------------------------------------------
(* start_live_sync: a create that fails may have opened the room all the      *)
(* same, so it is looked for before the next host is asked to create one.     *)
CreateAnswered ==
  /\ worker # Nothing /\ worker.step = "create"
  /\ \/ \E r \in Rooms \ opened, hosts \in SUBSET Hosts :
          /\ worker.target \in hosts
          /\ knows' = [knows EXCEPT ![r] = hosts] /\ opened' = opened \cup {r}
          /\ \/ Go([worker EXCEPT !.step = "prepare", !.room = r])
             \/ "lost" \in Faults /\ Go(Look(worker))
     \/ /\ \/ "failed" \in Faults /\ Go(Look(worker))
           \/ "login" \in Faults /\ Go([Look(worker) EXCEPT !.login = TRUE])
        /\ UNCHANGED <<knows, opened>>
  /\ UNCHANGED <<closer, verdict, made>>

\* prepare_live_room_sync: a room without its addresses or owner is returned
\* with an error; find_continuable_live does without the heartbeat.
Prepare ==
  /\ worker # Nothing /\ worker.step = "prepare"
  /\ \/ worker.op = "find" /\ Return(worker)
     \/ "partial" \in Faults /\ Return(worker)
     \/ worker.op # "find" /\ Go([worker EXCEPT !.step = "ping", !.host = 1])
  /\ UNCHANGED <<knows, opened, closer, verdict, made>>

-----------------------------------------------------------------------------
(* heartbeat_sync: only a failed request, or an error that decides nothing, is *)
(* asked of the next host.                                                     *)
Answers(r, host) ==
  {IF host \in knows[r] THEN "ok" ELSE "stale"} \cup (Faults \cap {"failed", "login"})

\* Mutant: an error of any kind is asked of the next host.
DecidedByOk(answer, host) == answer = "ok" \/ host = N

Decided(answer, host) == answer # "failed" \/ host = N

WorkerPing ==
  /\ worker # Nothing /\ worker.step = "ping"
  /\ \E answer \in Answers(worker.room, worker.host) :
       IF Decided(answer, worker.host) THEN Return(worker)
       ELSE Go([worker EXCEPT !.host = @ + 1])
  /\ UNCHANGED <<knows, opened, closer, verdict, made>>

Close(op, r) ==
  /\ closer = Nothing /\ r \in held /\ Made
  /\ closer' = [op |-> op, room |-> r, host |-> 1, first |-> "unsent", blind |-> {}]
  /\ UNCHANGED <<knows, opened, held, worker, told, verdict>>

\* end_live finishes twice; only if both fail it has failed, or the room is stale.
Outcome(first, second) ==
  IF "ok" \in {first, second} THEN "ended"
  ELSE IF "stale" \in {first, second} THEN "stale" ELSE "failed"

Finish(c, answer) ==
  IF c.op = "end" /\ c.first = "unsent"
  THEN closer' = [c EXCEPT !.first = answer, !.host = 1] /\ UNCHANGED verdict
  ELSE /\ closer' = Nothing
       /\ verdict' = [room |-> c.room, blind |-> c.blind,
                      outcome |-> IF c.op = "end" THEN Outcome(c.first, answer) ELSE answer]

\* The request that finishes a room closes it, whether it is answered or not.
CloserPing ==
  /\ closer # Nothing
  /\ \E answer \in Answers(closer.room, closer.host), reached \in BOOLEAN :
       LET c == IF answer = "failed" THEN [closer EXCEPT !.blind = @ \cup {closer.host}] ELSE closer
       IN /\ reached => closer.op = "end" /\ closer.host \in knows[closer.room]
                        /\ (answer = "ok" \/ (answer = "failed" /\ "lost" \in Faults))
          /\ answer = "ok" /\ closer.op = "end" => reached
          /\ knows' = IF reached THEN [knows EXCEPT ![closer.room] = {}] ELSE knows
          /\ IF Decided(answer, closer.host) THEN Finish(c, answer)
             ELSE closer' = [c EXCEPT !.host = @ + 1] /\ UNCHANGED verdict
  /\ UNCHANGED <<opened, held, worker, told, made>>

\* TikTok ends a room by itself.
RoomCloses ==
  /\ \E r \in opened : knows[r] # {} /\ knows' = [knows EXCEPT ![r] = {}]
  /\ UNCHANGED <<opened, held, worker, closer, told, verdict, made>>

Next ==
  \/ \E op \in Lookups : Begin(op)
  \/ LookAnswered \/ CreateAnswered \/ Prepare \/ WorkerPing
  \/ \E op \in {"end", "beat"}, r \in Rooms : Close(op, r)
  \/ CloserPing \/ RoomCloses

Spec == Init /\ [][Next]_vars

-----------------------------------------------------------------------------
(* Properties. *)
TypeOK ==
  /\ knows \in [Rooms -> SUBSET Hosts] /\ opened \subseteq Rooms /\ held \subseteq opened
  /\ \A r \in Rooms \ opened : knows[r] = {}
  /\ worker \in Worker \cup {Nothing} /\ closer \in Closer \cup {Nothing}
  /\ told \in [room : Rooms \cup {NoRoom}, blind : SUBSET Hosts]
  /\ verdict \in [room : Rooms \cup {NoRoom}, outcome : Errors \cup {"ended", "none"}, blind : SUBSET Hosts]
  /\ made \in 0 .. MaxCalls

Unseen(blind) == \A r \in Rooms : knows[r] \subseteq blind

\* start_live opens a room only if no room is open, as far as any host that
\* answered since its last create can tell (that a lost create is looked for at
\* every host before the next one).
CreatedUnseen == worker # Nothing /\ worker.step = "create" => Unseen(worker.blind)

\* The dock is told that there is no room only if no host that answered knows one
\* (that a denial, an error or a lost create does not hide a room elsewhere).
NoneUnseen == worker = Nothing /\ told.room = NoRoom => Unseen(told.blind)

\* A room reported as ended or stale is closed, unless its first host, that of
\* the saved session, did not know it or gave no answer (the comment in
\* heartbeat_sync: no fallback replaces what the first host decides).
FirstDecides ==
  verdict.outcome \in {"ended", "stale"} =>
    knows[verdict.room] = {} \/ 1 \notin knows[verdict.room] \/ 1 \in verdict.blind
=============================================================================

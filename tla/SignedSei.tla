------------------------------ MODULE SignedSei ------------------------------
(* The metadata session of an output whose video is signed: which payloads   *)
(* go with which packet, and which prefetched signature they carry. Packets  *)
(* come from OBS's encoder threads with the time of their stream; signatures *)
(* are cached by the second of the wall clock they were made for, and the    *)
(* output signing manager merges new ones (OutputSigning: when it does).     *)
(* What a packet fails on is fatal for the session: it is not called again.  *)
EXTENDS Integers, Sequences, FiniteSets, FiniteSetsExt

CONSTANTS
  Offsets, Kinds,   \* sei_offsets_ms, and the kind of payload of each slot
  Cycle,            \* sei_cycle_ms
  Gap,              \* maximum_cadence_gap_ms
  Interval,         \* signature_select_interval_ms
  Second,           \* the length of a second
  Tolerance,        \* signature_tolerance_seconds
  Cap,              \* signatures a session keeps (1200)
  Life, Slack,      \* seconds of a batch, of which up to Slack are past when it comes
  Ahead,            \* seconds a session has left when the manager refreshes it
  Lag,              \* how far a packet may come behind the time of its stream
  Horizon,          \* bound: the wall clock stops there
  Faults

\* late: the manager has no new batch in time; packet: dimensions, codec or
\* framing of a packet cannot be signed.
FaultKinds == {"late", "packet"}

None == -1
Slots == Len(Offsets)

ASSUME CadenceAssumption ==
  /\ Offsets \in Seq(Nat) /\ Kinds \in Seq({"reuse", "delay", "current"})
  /\ Slots > 0 /\ Len(Kinds) = Slots /\ Offsets[1] = 0 /\ Kinds[1] = "reuse"
  /\ \E i \in 1 .. Slots : Kinds[i] = "current"
  /\ \A i \in 1 .. Slots : Offsets[i] < Cycle
  /\ \A i \in 1 .. Slots - 1 : Offsets[i] <= Offsets[i + 1]
ASSUME TimeAssumption ==
  /\ Cycle \in Nat \ {0} /\ Gap \in Nat \ {0} /\ Interval \in Nat \ {0} /\ Second \in Nat \ {0}
  /\ Tolerance \in Nat /\ Life \in Nat /\ Slack \in Nat /\ Slack < Life /\ Ahead \in Nat
  /\ Cap \in Nat /\ Life + Tolerance <= Cap
  /\ Lag \in Nat /\ Horizon \in Nat
ASSUME FaultAssumption == Faults \subseteq FaultKinds

VARIABLES
  stream,    \* the fields reset_stream resets
  cache,     \* the seconds of signatures_
  fatal,     \* Session::fatal
  sent,      \* the payloads of the last packet that carried any
  now,       \* the wall clock
  main,      \* whether the output is OBS's main output
  run,       \* the output's run: the wall clock at its first packet, and the time of the last
  newest     \* not in the code: the last second that was fetched
vars == <<stream, cache, fatal, sent, now, main, run, newest>>

\* base: base_stream_ms_, or None before stream_started_; last: last_stream_ms_;
\* slot: next_slot_; index: sei_index_; startup: startup_done_; sign: the second
\* of sign_result_; select: next_signature_select_stream_ms_.
ResetStream == [base |-> None, last |-> None, slot |-> 0, index |-> -1, startup |-> FALSE,
                sign |-> None, select |-> None]
Stopped == [from |-> None, last |-> None]

Clock == now \div Second
Later(a, b) == IF a > b THEN a ELSE b

\* The seconds of a batch that was requested up to Slack seconds ago.
Batches == {first .. first + Life - 1 : first \in Clock - Slack .. Clock}

-----------------------------------------------------------------------------
(* The cadence. *)

Target(n) == (n \div Slots) * Cycle + Offsets[(n % Slots) + 1]
Signed(kind) == kind # "delay"

\* Mutant: a stream that starts over is not noticed.
BrokenOnlyByGaps(s, ts) == s.base # None /\ ts - s.last > Gap
\* Mutant: a stream that stood still is caught up with.
BrokenOnlyByRestarts(s, ts) == s.base # None /\ ts < s.last
Broken(s, ts) == s.base # None /\ (ts < s.last \/ ts - s.last > Gap)

\* The stream of a packet, before its payloads are taken.
Entered(s, ts) ==
  LET t == IF Broken(s, ts) THEN ResetStream ELSE s
  IN [t EXCEPT !.last = ts, !.base = IF @ = None THEN ts ELSE @]

Due(s) == {n \in s.slot .. ((s.last - s.base) \div Cycle + 1) * Slots : Target(n) <= s.last - s.base}

KindOf(s, n) ==
  LET kind == Kinds[(n % Slots) + 1]
      signed == {k \in Due(s) : Signed(Kinds[(k % Slots) + 1])}
  IN IF ~s.startup /\ n \in signed /\ n = Min(signed) THEN "startup" ELSE kind

Payloads(s) == [i \in 1 .. Cardinality(Due(s)) |-> KindOf(s, s.slot + i - 1)]

Taken(s) == [s EXCEPT !.slot = @ + Cardinality(Due(s)),
                      !.startup = @ \/ \E i \in DOMAIN Payloads(s) : Payloads(s)[i] = "startup"]

-----------------------------------------------------------------------------
(* The signatures. *)

Distance(k, second) == IF k < second THEN second - k ELSE k - second

\* signature_near: the earlier one of two that are as near.
Near(second) ==
  LET before == {k \in cache : k < second}
      after == cache \ before
      best == IF after = {} THEN Max(before)
              ELSE IF before = {} THEN Min(after)
              ELSE IF second - Max(before) <= Min(after) - second THEN Max(before) ELSE Min(after)
  IN IF cache = {} THEN None
     ELSE IF Distance(best, second) > Tolerance THEN None ELSE best

Ensured(s) == IF s.sign # None THEN s ELSE [s EXCEPT !.sign = Near(Clock)]

\* refresh_signature_if_due, called for the first "current" payload of a packet;
\* for the others of the packet nothing is due.
SelectDue(s) == s.select # None /\ s.last >= s.select
\* Mutant: every call puts the next selection off.
RefreshedLater(s) ==
  LET t == [s EXCEPT !.select = s.last + Interval]
  IN IF SelectDue(s) THEN [t EXCEPT !.sign = Near(Clock)] ELSE t
Refreshed(s) ==
  IF s.select = None THEN [s EXCEPT !.select = s.last + Interval]
  ELSE IF SelectDue(s)
  THEN [s EXCEPT !.select = @ + Interval * ((s.last - @) \div Interval + 1), !.sign = Near(Clock)]
  ELSE s

Payload(s, kind, index) ==
  [index |-> index, kind |-> kind,
   sign |-> IF Signed(kind) THEN s.sign ELSE None]

-----------------------------------------------------------------------------
(* transform_packet, for a packet of the time ts. *)

\* The session that cannot sign a packet, and the manager that will stop its output.
Cut(s) == stream' = s /\ fatal' = TRUE /\ UNCHANGED sent

Inject(s, kinds) ==
  LET currents == {i \in DOMAIN kinds : kinds[i] = "current"}
      before(i) == \A c \in currents : i < c
      t == Refreshed(s)
      count == Len(kinds)
  IN IF currents # {} /\ t.sign = None
     THEN Cut([t EXCEPT !.sign = s.sign, !.index = @ + Min(currents) - 1])
     ELSE LET u == IF currents = {} THEN s ELSE t
          IN /\ stream' = [u EXCEPT !.index = @ + count]
             /\ sent' = [i \in 1 .. count |->
                  Payload(IF before(i) THEN s ELSE u, kinds[i], s.index + i)]
             /\ UNCHANGED fatal

Transform(ts) ==
  LET s == Entered(stream, ts)
      t == Ensured(Taken(s))
  IN IF Due(s) = {} THEN stream' = s /\ UNCHANGED <<fatal, sent>>
     ELSE IF t.sign = None THEN Cut(t)
     ELSE Inject(t, Payloads(s))

\* packet_callback: the packets of a run carry the time since its first one.
Packet ==
  /\ ~fatal
  /\ \E lag \in 0 .. Lag :
       LET ts == IF run = Stopped THEN 0 ELSE now - run.from - lag IN
       /\ ts >= run.last
       /\ run' = IF run = Stopped THEN [from |-> now, last |-> 0] ELSE [run EXCEPT !.last = ts]
       /\ Transform(ts)
  /\ UNCHANGED <<cache, now, main, newest>>

\* What packet_callback and transform_packet ask of a packet first.
BadPacket ==
  /\ ~fatal /\ "packet" \in Faults
  /\ Cut(stream)
  /\ UNCHANGED <<cache, now, main, run, newest>>

-----------------------------------------------------------------------------
(* What happens around it. *)

\* Mutant: the newest signatures are dropped.
MergeKeepsOldest(batch) ==
  /\ ~fatal /\ \A k \in cache : k <= Clock + Ahead
  /\ cache' = {k \in cache \cup batch : Cardinality({j \in cache \cup batch : j < k}) < Cap}
  /\ newest' = Later(newest, Max(batch))
  /\ UNCHANGED <<stream, fatal, sent, now, main, run>>
\* merge_signatures; the manager asks for a batch when few seconds are left.
Merge(batch) ==
  /\ ~fatal /\ \A k \in cache : k <= Clock + Ahead
  /\ cache' = {k \in cache \cup batch : Cardinality({j \in cache \cup batch : j > k}) < Cap}
  /\ newest' = Later(newest, Max(batch))
  /\ UNCHANGED <<stream, fatal, sent, now, main, run>>

\* The output is started again, after it ran for longer than a packet; for the
\* main output OBS says so (rebind_main_output).
Restart ==
  /\ ~fatal /\ run.last > 0
  /\ run' = Stopped
  /\ stream' = IF main THEN ResetStream ELSE stream
  /\ UNCHANGED <<cache, fatal, sent, now, main, newest>>

\* The manager keeps a signature ahead of the clock (InTime of OutputSigning).
Elapse ==
  /\ ~fatal /\ now < Horizon
  /\ "late" \in Faults \/ \E k \in cache : k >= (now + 1) \div Second
  /\ now' = now + 1
  /\ UNCHANGED <<stream, cache, fatal, sent, main, run, newest>>

Init ==
  /\ now = Slack * Second /\ cache \in Batches /\ newest = Max(cache)
  /\ stream = ResetStream /\ fatal = FALSE /\ sent = <<>>
  /\ main \in BOOLEAN /\ run = Stopped

Next == Packet \/ BadPacket \/ (\E batch \in Batches : Merge(batch)) \/ Restart \/ Elapse
Spec == Init /\ [][Next]_vars

-----------------------------------------------------------------------------
(* Properties. *)

Streams ==
  [base : Nat \cup {None}, last : Nat \cup {None}, slot : Nat, index : Nat \cup {None},
   startup : BOOLEAN, sign : Nat \cup {None}, select : Nat \cup {None}]

\* Type invariant; the cache never holds more than its cap.
TypeOK ==
  /\ stream \in Streams
  /\ cache \subseteq Nat /\ Cardinality(cache) <= Cap
  /\ sent \in Seq([index : Nat, kind : {"startup", "reuse", "delay", "current"},
                   sign : Nat \cup {None}])
  /\ fatal \in BOOLEAN /\ main \in BOOLEAN /\ now \in Nat /\ newest \in Nat
  /\ run \in [from : Nat \cup {None}, last : Nat \cup {None}]

\* The session implements SeiFeed: whatever the gaps, restarts and catch-ups, each
\* slot of a stream's cadence is sent once and in order, numbered without a hole,
\* behind one startup payload; no packet catches up with more slots than a gap
\* that does not break the stream can hold, and a cut session sends nothing.
MaxBurst == (Gap \div Cycle + 2) * Slots
Feed == INSTANCE SeiFeed WITH cut <- fatal
FeedSpec == Feed!Spec

\* The first packet of each run of an output starts the stream over, with a
\* signature of its own time (media_signing_test.cpp: a restarted output resets
\* to the startup cadence), although only the main output's restart is announced.
RestartNoticed ==
  [][run = Stopped /\ run' # Stopped /\ ~fatal' =>
       /\ sent' # <<>> /\ sent'[1].index = 0
       /\ Distance(sent'[1].sign, Clock) <= Tolerance]_vars

\* The longest wait for a slot of kind "current", from any time of the cadence.
Wait ==
  Min({w \in 0 .. Cycle : \A t \in 0 .. Cycle - 1 : \E i \in 1 .. Slots :
         Kinds[i] = "current" /\ \E c \in {Offsets[i], Offsets[i] + Cycle} : c \in t .. t + w})

\* A signature is used for no longer than a selection interval, a wait before the
\* first "current" payload and one before the payload that replaces it; to each
\* wait a stream that stands still adds up to a gap.
MaxAge == Interval + 2 * (Wait + Gap - 1) + Lag + (Tolerance + 1) * Second
SignatureCurrent ==
  [][sent' # sent => \A i \in DOMAIN sent' :
       Signed(sent'[i].kind) => now - sent'[i].sign * Second < MaxAge]_vars

\* As long as some batch reached the current second, no packet is without a
\* signature: the cap, the tolerance and the late batches never lose one needed.
CutOnlyUnsigned ==
  [][Packet /\ fatal' => newest + Tolerance < Clock]_vars
=============================================================================

------------------------------- MODULE SeiFeed -------------------------------
(* What TikTok is to receive with the video of an output that is signed: a   *)
(* series of streams of metadata. Payload n of a stream is numbered n and of *)
(* the kind that slot n of the cadence calls for, the first payload of all   *)
(* describing the stream; none is left out or sent twice, a packet carries   *)
(* only a few, and once the feed is cut nothing follows.                     *)
EXTENDS Integers, Sequences

CONSTANTS
  Kinds,      \* the kind of payload of each slot of a cycle
  MaxBurst    \* the payloads a packet may carry

VARIABLES
  sent,       \* the payloads of the last packet that carried any
  cut
vars == <<sent, cut>>

KindOf(n) == IF n = 0 THEN "startup" ELSE Kinds[(n % Len(Kinds)) + 1]

\* The packet's payloads are those of a stream from number n on.
Carries(n) ==
  /\ sent' # <<>> /\ Len(sent') <= MaxBurst
  /\ \A i \in DOMAIN sent' : sent'[i].index = n + i - 1 /\ sent'[i].kind = KindOf(n + i - 1)

Init == sent = <<>> /\ cut = FALSE

Begin == ~cut /\ Carries(0) /\ UNCHANGED cut
Continue == ~cut /\ sent # <<>> /\ Carries(sent[Len(sent)].index + 1) /\ UNCHANGED cut
Cut == ~cut /\ cut' = TRUE /\ UNCHANGED sent

Next == Begin \/ Continue \/ Cut
Spec == Init /\ [][Next]_vars
=============================================================================

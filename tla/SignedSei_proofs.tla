--------------------------- MODULE SignedSei_proofs ---------------------------
(* The metadata session implements SeiFeed, notices a restart, is cut only     *)
(* without a signature and keeps its signatures current, for any cadence,      *)
(* times and faults.                                                           *)
EXTENDS SignedSei, FiniteSetTheorems, TLAPS

-----------------------------------------------------------------------------
(* Numbers. *)

LEMMA Least ==
  ASSUME NEW S \in SUBSET Nat, S # {}
  PROVE \E m \in S : \A n \in S : m <= n
<1>1. PICK m \in S : \A n \in S : ~(<<n, m>> \in OpToRel(<, Nat))
  BY NatLessThanWellFounded, WFMin, Zenon
<1>2. \A n \in S : ~(n < m)
  BY <1>1 DEF OpToRel
<1> QED
  BY <1>2

LEMMA MinOf ==
  ASSUME NEW S \in SUBSET Nat, S # {}
  PROVE Min(S) \in S /\ \A n \in S : Min(S) <= n
BY Least DEF Min

LEMMA MaxOf ==
  ASSUME NEW S \in SUBSET Nat, S # {}, NEW b \in Nat, \A n \in S : n <= b
  PROVE Max(S) \in S /\ \A n \in S : n <= Max(S)
<1> DEFINE Bounds == {m \in Nat : \A n \in S : n <= m}
<1>1. PICK m \in Bounds : \A n \in Bounds : m <= n
  <2>1. b \in Bounds
    OBVIOUS
  <2> QED
    BY <2>1, Least
<1>2. m \in S
  <2> SUFFICES ASSUME m \notin S PROVE FALSE
    OBVIOUS
  <2>1. \A n \in S : n < m
    BY <1>1
  <2>2. PICK x \in S : x \in Nat /\ x < m
    BY <2>1
  <2>3. m \in Nat /\ m - 1 \in Nat
    BY <1>1, <2>2
  <2>4. \A n \in S : n <= m - 1
    BY <2>1, <2>3
  <2>5. m - 1 \in Bounds
    BY <2>3, <2>4
  <2> QED
    BY <1>1, <2>3, <2>5
<1>3. \A n \in S : m >= n
  BY <1>1
<1> QED
  BY <1>2, <1>3 DEF Max

LEMMA Division ==
  ASSUME NEW a \in Nat, NEW b \in Nat \ {0}
  PROVE /\ a \div b \in Nat /\ a % b \in 0 .. b - 1
        /\ a = (a \div b) * b + (a % b)
  OBVIOUS

LEMMA Product ==
  ASSUME NEW a \in Nat, NEW b \in Nat, NEW c \in Nat, a <= b
  PROVE a * c \in Nat /\ b * c \in Nat /\ a * c <= b * c
  OBVIOUS

LEMMA Quotient ==
  ASSUME NEW a \in Nat, NEW b \in Nat, NEW c \in Nat \ {0}, a * c < b * c
  PROVE a < b
  OBVIOUS

LEMMA Successor ==
  ASSUME NEW a \in Nat, NEW c \in Nat
  PROVE a * c \in Nat /\ (a + 1) * c = a * c + c
  OBVIOUS

LEMMA DivisionBounds ==
  ASSUME NEW a \in Nat, NEW b \in Nat \ {0}
  PROVE /\ a \div b \in Nat /\ (a \div b) * b \in Nat
        /\ (a \div b) * b <= a /\ a < (a \div b) * b + b
<1>1. PICK q \in Nat : q = a \div b
  BY Division
<1>2. q * b \in Nat
  BY Successor
<1>3. a = q * b + (a % b) /\ a % b \in 0 .. b - 1
  BY <1>1, Division
<1> QED
  BY <1>1, <1>2, <1>3

LEMMA DivisionGrows ==
  ASSUME NEW a \in Nat, NEW b \in Nat, NEW c \in Nat \ {0}, a <= b
  PROVE a \div c <= b \div c
<1>1. PICK p \in Nat : p = a \div c /\ p * c <= a /\ p * c \in Nat
  BY DivisionBounds
<1>2. PICK q \in Nat : q = b \div c /\ b < q * c + c /\ q * c \in Nat
  BY DivisionBounds
<1>3. p * c < (q + 1) * c
  BY <1>1, <1>2, Successor
<1>4. p < q + 1
  BY <1>3, Quotient
<1> QED
  BY <1>1, <1>2, <1>4

-----------------------------------------------------------------------------
(* The cadence. *)

LEMMA SlotsType == Slots \in Nat \ {0} /\ \A i \in 1 .. Slots : Offsets[i] \in Nat
BY CadenceAssumption DEF Slots

LEMMA Ascending == \A i \in 1 .. Slots - 1 : Offsets[i] <= Offsets[i + 1]
BY CadenceAssumption

LEMMA OffsetsGrow ==
  ASSUME NEW i \in 1 .. Slots, NEW j \in 1 .. Slots, i <= j
  PROVE Offsets[i] <= Offsets[j]
<1> DEFINE Bad == {n \in Nat : n \in i .. Slots /\ Offsets[i] > Offsets[n]}
<1> SUFFICES ASSUME Bad # {} PROVE FALSE
  BY SlotsType
<1>1. PICK m \in Bad : \A n \in Bad : m <= n
  BY Least
<1>2. m - 1 \in i .. Slots - 1 /\ m - 1 \notin Bad
  BY <1>1, SlotsType
<1>3. m \in Nat /\ m \in i .. Slots /\ Offsets[i] > Offsets[m] /\ m - 1 \in 1 .. Slots - 1
  BY <1>1, <1>2, SlotsType
<1>4. Offsets[m - 1] <= Offsets[(m - 1) + 1]
  BY <1>3, Ascending
<1>5. (m - 1) + 1 = m /\ m - 1 \in Nat /\ m - 1 \in i .. Slots
  BY <1>2, <1>3, SlotsType
<1>6. ~(Offsets[i] > Offsets[m - 1])
  BY <1>2, <1>5
<1>7. Offsets[i] \in Nat /\ Offsets[m - 1] \in Nat /\ Offsets[m] \in Nat
  BY <1>3, <1>5, SlotsType
<1> QED
  BY <1>3, <1>4, <1>5, <1>6, <1>7

LEMMA TargetType ==
  ASSUME NEW n \in Nat
  PROVE /\ n \div Slots \in Nat /\ (n % Slots) + 1 \in 1 .. Slots
        /\ Offsets[(n % Slots) + 1] \in 0 .. Cycle - 1
        /\ Target(n) \in Nat /\ (n \div Slots) * Cycle \in Nat
        /\ Target(n) = (n \div Slots) * Cycle + Offsets[(n % Slots) + 1]
        /\ (n \div Slots) * Cycle <= Target(n)
        /\ Target(n) < (n \div Slots) * Cycle + Cycle
<1>1. n \div Slots \in Nat /\ n % Slots \in 0 .. Slots - 1
  BY SlotsType, Division
<1>2. (n % Slots) + 1 \in 1 .. Slots
  BY <1>1, SlotsType
<1>3. Offsets[(n % Slots) + 1] \in 0 .. Cycle - 1
  BY <1>2, SlotsType, CadenceAssumption, TimeAssumption
<1>4. (n \div Slots) * Cycle \in Nat
  BY <1>1, Successor, TimeAssumption
<1> QED
  BY <1>1, <1>2, <1>3, <1>4, TimeAssumption DEF Target

LEMMA TargetGrows ==
  ASSUME NEW m \in Nat, NEW n \in Nat, m <= n
  PROVE Target(m) <= Target(n)
<1>1. PICK p \in Nat, q \in Nat : p = m \div Slots /\ q = n \div Slots
  BY TargetType
<1>2. PICK i \in 1 .. Slots, j \in 1 .. Slots : i = (m % Slots) + 1 /\ j = (n % Slots) + 1
  BY TargetType
<1>3. /\ p * Cycle \in Nat /\ q * Cycle \in Nat
      /\ Target(m) = p * Cycle + Offsets[i] /\ Target(n) = q * Cycle + Offsets[j]
      /\ Offsets[i] \in 0 .. Cycle - 1 /\ Offsets[j] \in 0 .. Cycle - 1
  BY <1>1, <1>2, TargetType
<1>4. p <= q
  BY <1>1, DivisionGrows, SlotsType
<1>5. CASE p = q
  <2>1. m = p * Slots + (i - 1) /\ n = p * Slots + (j - 1)
    BY <1>1, <1>2, <1>5, Division, SlotsType
  <2>2. i <= j
    BY <2>1, Successor, SlotsType
  <2> QED
    BY <1>3, <1>5, <2>2, OffsetsGrow, TimeAssumption
<1>6. CASE p + 1 <= q
  <2>1. (p + 1) * Cycle <= q * Cycle
    BY <1>6, Product, TimeAssumption
  <2>2. p * Cycle + Cycle <= q * Cycle
    BY <2>1, Successor, TimeAssumption
  <2> QED
    BY <1>3, <2>2, TimeAssumption
<1> QED
  BY <1>4, <1>5, <1>6

LEMMA FirstTarget == Target(0) = 0
<1>1. 0 \div Slots = 0 /\ 0 % Slots = 0
  BY SlotsType, Division
<1>2. 0 * Cycle = 0
  BY TimeAssumption
<1>3. Offsets[1] = 0
  BY CadenceAssumption
<1>4. (0 % Slots) + 1 = 1
  BY <1>1
<1> QED
  BY <1>1, <1>2, <1>3, <1>4 DEF Target

\* Slots from a time's next cycle on are due later.
LEMMA TargetBeyond ==
  ASSUME NEW e \in Nat, NEW n \in Nat, n >= (e \div Cycle + 1) * Slots
  PROVE Target(n) > e
<1>1. PICK c \in Nat : c = e \div Cycle /\ c * Cycle \in Nat /\ e < c * Cycle + Cycle
  BY DivisionBounds, TimeAssumption
<1>2. PICK q \in Nat : q = n \div Slots /\ q * Slots \in Nat /\ n < q * Slots + Slots
  BY DivisionBounds, SlotsType
<1>3. (c + 1) * Slots < (q + 1) * Slots
  BY <1>1, <1>2, SlotsType, Successor
<1>4. c + 1 <= q
  BY <1>3, Quotient, SlotsType
<1>5. (c + 1) * Cycle <= q * Cycle
  BY <1>4, Product, TimeAssumption
<1>6. c * Cycle + Cycle <= q * Cycle
  BY <1>5, Successor, TimeAssumption
<1>7. q * Cycle <= Target(n) /\ q * Cycle \in Nat /\ Target(n) \in Nat
  BY <1>2, TargetType
<1> QED
  BY <1>1, <1>6, <1>7, TimeAssumption
-----------------------------------------------------------------------------
(* The slots that are due. *)

\* What the feed relies on while the session is not cut: the stream it is in has
\* sent every slot that was due, and continues the last payload.
Caught(s) ==
  IF s.base = None THEN s = ResetStream
  ELSE /\ s.base \in Nat /\ s.last \in Nat /\ s.base <= s.last
       /\ s.slot > 0 /\ s.index = s.slot - 1 /\ s.startup
       /\ \A n \in Nat : n >= s.slot => Target(n) > s.last - s.base
       /\ sent # <<>> /\ sent[Len(sent)].index = s.index

\* The stream as a packet finds it once gaps and restarts have been looked for.
Ready(s) ==
  /\ s \in Streams /\ s.base \in Nat /\ s.last \in Nat /\ s.base <= s.last
  /\ s.index = s.slot - 1 /\ (s.startup <=> s.slot > 0)
  /\ s.slot = 0 => s.base = s.last /\ s.sign = None /\ s.select = None
  /\ s.slot > 0 => /\ s.last - s.base < Target(s.slot) + Gap
                   /\ sent # <<>> /\ sent[Len(sent)].index = s.index

LEMMA Entering ==
  ASSUME NEW s \in Streams, Caught(s), NEW ts \in Nat
  PROVE /\ Ready(Entered(s, ts)) /\ Entered(s, ts).last = ts
        /\ Broken(s, ts) \/ s.base = None => Entered(s, ts).slot = 0
<1> DEFINE t == IF Broken(s, ts) THEN ResetStream ELSE s
           e == [t EXCEPT !.last = ts, !.base = IF @ = None THEN ts ELSE @]
<1>1. Entered(s, ts) = e
  BY DEF Entered
<1>2. ResetStream \in Streams /\ t \in Streams
  BY DEF ResetStream, Streams, None
<1>3. /\ e \in Streams /\ e.last = ts /\ e.slot = t.slot /\ e.index = t.index
      /\ e.startup = t.startup /\ e.sign = t.sign /\ e.select = t.select
      /\ e.base = IF t.base = None THEN ts ELSE t.base
  BY <1>2 DEF Streams
<1>4. CASE Broken(s, ts) \/ s.base = None
  <2>1. t = ResetStream
    BY <1>4 DEF Caught
  <2>2. e.base = ts /\ e.slot = 0 /\ e.index = -1 /\ e.startup = FALSE /\ e.sign = None /\ e.select = None
    BY <1>3, <2>1 DEF ResetStream, None
  <2> QED
    BY <1>1, <1>3, <2>2 DEF Ready
<1>5. CASE ~(Broken(s, ts) \/ s.base = None)
  <2>1. t = s /\ ts >= s.last /\ ts - s.last <= Gap /\ s.last \in Nat /\ s.base \in Nat
    BY <1>5, TimeAssumption DEF Broken, Caught
  <2>2. s.slot \in Nat /\ Target(s.slot) \in Nat
    BY TargetType DEF Streams
  <2>3. s.base <= s.last /\ Target(s.slot) > s.last - s.base
    BY <1>5, <2>2 DEF Caught
  <2>4. s.base <= ts /\ ts - s.base < Target(s.slot) + Gap
    <3> HIDE DEF t, e
    <3> QED
      BY <2>1, <2>2, <2>3, TimeAssumption
  <2>5. e.base = s.base
    BY <1>3, <1>5, <2>1
  <2> QED
    BY <1>1, <1>3, <1>5, <2>1, <2>4, <2>5 DEF Ready, Caught
<1> QED
  BY <1>4, <1>5

\* The slots due are those from next_slot_ to some end, at most a burst away,
\* behind which nothing is due.
LEMMA DueInterval ==
  ASSUME NEW s, Ready(s)
  PROVE \E k \in Nat :
          /\ s.slot <= k /\ k <= s.slot + MaxBurst /\ Due(s) = s.slot .. k - 1
          /\ s.slot = 0 => k > 0
          /\ \A n \in Nat : n >= k => Target(n) > s.last - s.base
<1> DEFINE e == s.last - s.base
           c == e \div Cycle
           Beyond == {n \in Nat : n >= s.slot /\ Target(n) > e}
<1>1. s.slot \in Nat /\ e \in Nat
  BY DEF Ready, Streams
<1>2. c \in Nat /\ c * Cycle \in Nat /\ c * Cycle <= e /\ e < c * Cycle + Cycle
  BY <1>1, DivisionBounds, TimeAssumption
<1>3. c * Slots \in Nat /\ (c + 1) * Slots = c * Slots + Slots
  BY <1>2, Successor, SlotsType
<1> HIDE DEF e
<1>4. Beyond # {}
  <2>1. s.slot + (c + 1) * Slots \in Nat /\ s.slot + (c + 1) * Slots >= (c + 1) * Slots
    BY <1>1, <1>3, SlotsType
  <2>2. Target(s.slot + (c + 1) * Slots) > e
    BY <1>1, <2>1, TargetBeyond
  <2>3. s.slot + (c + 1) * Slots \in Beyond
    BY <1>1, <1>3, <2>1, <2>2, SlotsType
  <2> QED
    BY <2>3
<1>5. PICK k \in Beyond : \A n \in Beyond : k <= n
  BY <1>4, Least
<1>6. k \in Nat /\ s.slot <= k /\ Target(k) > e
  BY <1>5
<1>7. \A n \in Nat : n >= k => Target(n) > e
  BY <1>1, <1>6, TargetGrows, TargetType
<1>8. \A n \in s.slot .. k - 1 : Target(n) <= e /\ n < (c + 1) * Slots
  <2> TAKE n \in s.slot .. k - 1
  <2>1. n \in Nat /\ n \notin Beyond
    BY <1>1, <1>5, <1>6
  <2>2. Target(n) <= e
    BY <1>1, <2>1, TargetType
  <2>3. ~(n >= (c + 1) * Slots)
    BY <1>1, <2>1, <2>2, TargetBeyond, TargetType
  <2> QED
    BY <1>3, <2>1, <2>2, <2>3, SlotsType
<1>9. Due(s) = s.slot .. k - 1
  <2>1. Due(s) = {n \in s.slot .. (c + 1) * Slots : Target(n) <= e}
    BY DEF Due, e
  <2>2. ASSUME NEW n \in Due(s) PROVE n \in s.slot .. k - 1
    <3>1. n \in Nat /\ s.slot <= n /\ Target(n) <= e
      BY <1>1, <1>3, <2>1, SlotsType
    <3> QED
      BY <1>1, <1>6, <1>7, <3>1, TargetType
  <2>3. ASSUME NEW n \in s.slot .. k - 1 PROVE n \in Due(s)
    BY <1>1, <1>3, <1>6, <1>8, <2>1, SlotsType
  <2> QED
    BY <2>2, <2>3
<1>10. s.slot = 0 => k > 0
  BY <1>1, <1>6, FirstTarget DEF Ready, e
<1>11. k <= s.slot + MaxBurst
  <2> DEFINE g == Gap \div Cycle
  <2>1. g \in Nat /\ g * Cycle \in Nat /\ Gap < g * Cycle + Cycle
    BY DivisionBounds, TimeAssumption
  <2>2. MaxBurst = (g + 2) * Slots /\ (g + 2) * Slots \in Nat
    BY <2>1, Successor, SlotsType DEF MaxBurst
  <2>3. k <= s.slot \/ k <= (c + 1) * Slots
    BY <1>1, <1>3, <1>6, <1>8, SlotsType
  <2>4. c * Slots <= s.slot + (g + 1) * Slots
    <3>1. CASE s.slot = 0
      <4>1. e = 0
        BY <3>1 DEF Ready, e
      <4>2. c = 0
        BY <4>1, TimeAssumption, Division
      <4> QED
        BY <3>1, <4>2, <2>1, Successor, SlotsType
    <3>2. CASE s.slot > 0
      <4>1. PICK q \in Nat : /\ q = s.slot \div Slots /\ q * Slots \in Nat /\ q * Slots <= s.slot
                             /\ q * Cycle \in Nat /\ Target(s.slot) < q * Cycle + Cycle
        BY <1>1, TargetType, DivisionBounds, SlotsType
      <4>2. e < q * Cycle + Cycle + Gap
        <5>1. e < Target(s.slot) + Gap /\ Target(s.slot) \in Nat
          BY <1>1, <3>2, TargetType DEF Ready, e
        <5> QED
          BY <1>1, <4>1, <5>1, TimeAssumption
      <4>3. c * Cycle < q * Cycle + Cycle + g * Cycle + Cycle
        <5> HIDE DEF c, g
        <5> QED
          BY <1>1, <1>2, <2>1, <4>1, <4>2, TimeAssumption
      <4>4. q * Cycle + Cycle + g * Cycle + Cycle = (q + g + 2) * Cycle
        BY <2>1, <4>1, TimeAssumption
      <4>5. c < q + g + 2
        BY <1>2, <2>1, <4>1, <4>3, <4>4, Quotient, TimeAssumption
      <4>6. c * Slots <= (q + g + 1) * Slots
        BY <1>2, <2>1, <4>1, <4>5, Product, SlotsType
      <4>7. (q + g + 1) * Slots = q * Slots + (g + 1) * Slots
        BY <2>1, <4>1, SlotsType
      <4>8. (g + 1) * Slots \in Nat
        BY <2>1, Successor, SlotsType
      <4> QED
        BY <1>1, <1>3, <4>1, <4>6, <4>7, <4>8
    <3> QED
      BY <1>1, <3>1, <3>2
  <2>5. (g + 2) * Slots = (g + 1) * Slots + Slots /\ (g + 1) * Slots \in Nat
    BY <2>1, Successor, SlotsType
  <2> HIDE DEF g, c
  <2> QED
    BY <1>1, <1>3, <1>6, <2>2, <2>3, <2>4, <2>5, SlotsType
<1> QED
  BY <1>6, <1>7, <1>9, <1>10, <1>11 DEF e

\* The payloads a packet takes are those the feed expects next.
LEMMA Taking ==
  ASSUME NEW s, Ready(s)
  PROVE LET c == Cardinality(Due(s)) IN
        /\ c \in Nat /\ c <= MaxBurst /\ (Due(s) = {} <=> c = 0)
        /\ s.slot = 0 => c > 0
        /\ \A n \in Nat : n >= s.slot + c => Target(n) > s.last - s.base
        /\ c > 0 => Target(s.slot + c - 1) <= s.last - s.base
        /\ Payloads(s) = [i \in 1 .. c |-> Feed!KindOf(s.slot + i - 1)]
        /\ c > 0 => Taken(s) = [s EXCEPT !.slot = s.slot + c, !.startup = TRUE]
<1> DEFINE c == Cardinality(Due(s))
<1>1. PICK k \in Nat :
          /\ s.slot <= k /\ k <= s.slot + MaxBurst /\ Due(s) = s.slot .. k - 1
          /\ s.slot = 0 => k > 0
          /\ \A n \in Nat : n >= k => Target(n) > s.last - s.base
  BY DueInterval
<1>2. s.slot \in Nat /\ c = k - s.slot /\ (Due(s) = {} <=> c = 0)
  <2>1. s.slot \in Nat
    BY DEF Ready, Streams
  <2>2. c = k - s.slot
    <3>1. s.slot \in Int /\ k - 1 \in Int
      BY <2>1
    <3>2. c = IF s.slot > k - 1 THEN 0 ELSE k - 1 - s.slot + 1
      BY <1>1, <3>1, FS_Interval
    <3> QED
      BY <1>1, <2>1, <3>2
  <2> QED
    BY <1>1, <2>1, <2>2
<1>3. MaxBurst \in Nat
  <2>1. Gap \div Cycle \in Nat
    BY Division, TimeAssumption
  <2>2. Gap \div Cycle + 2 \in Nat
    BY <2>1
  <2> QED
    BY <2>2, Successor, SlotsType DEF MaxBurst
<1>4. \A i \in 1 .. c : KindOf(s, s.slot + i - 1) = Feed!KindOf(s.slot + i - 1)
  <2> TAKE i \in 1 .. c
  <2> DEFINE n == s.slot + i - 1
             signed == {m \in Due(s) : Signed(Kinds[(m % Slots) + 1])}
  <2>1. n \in Nat /\ n \in Due(s)
    BY <1>1, <1>2
  <2>2. KindOf(s, n) = IF ~s.startup /\ n \in signed /\ n = Min(signed) THEN "startup"
                       ELSE Kinds[(n % Slots) + 1]
    BY DEF KindOf
  <2>3. Feed!KindOf(n) = IF n = 0 THEN "startup" ELSE Kinds[(n % Slots) + 1]
    BY CadenceAssumption DEF Feed!KindOf
  <2>4. CASE s.slot > 0
    <3>1. s.startup /\ n # 0
      BY <1>2, <2>4 DEF Ready
    <3> QED
      BY <2>2, <2>3, <3>1
  <2>5. CASE s.slot = 0
    <3>1. ~s.startup
      BY <2>5 DEF Ready, Streams
    <3>2. (0 % Slots) + 1 = 1
      BY SlotsType, Division
    <3>3. 0 \in signed /\ signed \in SUBSET Nat
      BY <1>1, <1>2, <2>5, <3>2, CadenceAssumption DEF Signed
    <3>4. Min(signed) \in Nat /\ Min(signed) <= 0
      BY <3>3, MinOf
    <3>5. Min(signed) = 0
      BY <3>4
    <3> QED
      BY <2>1, <2>2, <2>3, <3>1, <3>3, <3>5
  <2> QED
    BY <1>2, <2>4, <2>5
<1>5. Payloads(s) = [i \in 1 .. c |-> Feed!KindOf(s.slot + i - 1)]
  BY <1>4 DEF Payloads
<1>6. ASSUME c > 0 PROVE Taken(s) = [s EXCEPT !.slot = s.slot + c, !.startup = TRUE]
  <2>1. s.startup \/ \E i \in DOMAIN Payloads(s) : Payloads(s)[i] = "startup"
    <3>1. CASE s.slot > 0
      BY <3>1 DEF Ready
    <3>2. CASE s.slot = 0
      <4>1. 1 \in 1 .. c /\ s.slot + 1 - 1 = 0
        BY <1>1, <1>2, <1>6, <3>2
      <4>2. Payloads(s)[1] = "startup"
        BY <1>5, <4>1 DEF Feed!KindOf
      <4> QED
        BY <1>5, <4>1, <4>2
    <3> QED
      BY <1>2, <3>1, <3>2
  <2>2. s.startup \in BOOLEAN
    BY DEF Ready, Streams
  <2> QED
    BY <2>1, <2>2 DEF Taken
<1> HIDE DEF c
<1>7. c \in Nat /\ c <= MaxBurst /\ (s.slot = 0 => c > 0) /\ s.slot + c = k
  BY <1>1, <1>2, <1>3
<1>8. c > 0 => Target(s.slot + c - 1) <= s.last - s.base
  <2>1. c > 0 => s.slot + c - 1 \in Due(s)
    BY <1>1, <1>2, <1>7
  <2> QED
    BY <2>1 DEF Due
<1> QED
  BY <1>1, <1>2, <1>5, <1>6, <1>7, <1>8 DEF c

PayloadKinds == {"startup", "reuse", "delay", "current"}

LEMMA KindsType ==
  ASSUME NEW n \in Nat
  PROVE Feed!KindOf(n) \in PayloadKinds /\ Feed!KindOf(0) = "startup"
<1>1. Slots = Len(Kinds) /\ (n % Slots) + 1 \in 1 .. Slots
  BY CadenceAssumption, TargetType
<1>2. Kinds[(n % Slots) + 1] \in {"reuse", "delay", "current"}
  BY <1>1, CadenceAssumption
<1> QED
  BY <1>1, <1>2 DEF Feed!KindOf, PayloadKinds

-----------------------------------------------------------------------------
(* The signatures. *)

\* The cache holds the last batch whole, and nothing beyond it.
Supply ==
  /\ cache \subseteq 0 .. newest /\ newest \in Nat
  /\ newest - Life + 1 .. newest \subseteq cache
  /\ newest - Life + 1 <= Clock /\ Slack <= Clock

LEMMA ClockType == ASSUME now \in Nat PROVE Clock \in Nat
BY Division, TimeAssumption DEF Clock

\* signature_near finds a nearest signature, if there is one within the tolerance.
LEMMA Nearest ==
  ASSUME NEW b \in Nat, cache \subseteq 0 .. b, NEW second \in Nat
  PROVE /\ Near(second) \in Nat \cup {None}
        /\ Near(second) # None => Distance(Near(second), second) <= Tolerance
        /\ Near(second) = None => \A k \in cache : Distance(k, second) > Tolerance
<1> DEFINE before == {k \in cache : k < second}
           after == cache \ before
           best == IF after = {} THEN Max(before)
                   ELSE IF before = {} THEN Min(after)
                   ELSE IF second - Max(before) <= Min(after) - second THEN Max(before) ELSE Min(after)
<1>1. Near(second) = IF cache = {} THEN None
                     ELSE IF Distance(best, second) > Tolerance THEN None ELSE best
  BY DEF Near
<1>2. CASE cache = {}
  BY <1>1, <1>2
<1>3. CASE cache # {}
  <2>1. before \in SUBSET Nat /\ after \in SUBSET Nat
    <3>1. \A k \in cache : k \in Nat
      OBVIOUS
    <3> QED
      BY <3>1
  <2>2. before # {} => Max(before) \in before /\ \A k \in before : k <= Max(before)
    <3>1. \A k \in before : k <= b
      OBVIOUS
    <3> QED
      BY <2>1, <3>1, MaxOf
  <2>3. after # {} => Min(after) \in after /\ \A k \in after : Min(after) <= k
    BY <2>1, MinOf
  <2>4. (\A k \in before : k < second) /\ (\A k \in after : second <= k) /\ cache = before \cup after
    BY <2>1
  <2> HIDE DEF before, after
  <2>5. best \in cache
    BY <1>3, <2>2, <2>3, <2>4
  <2>6. \A k \in cache : Distance(best, second) <= Distance(k, second)
    <3>1. ASSUME NEW k \in before PROVE Distance(best, second) <= Distance(k, second)
      <4>1. k \in Nat /\ k < second /\ Max(before) \in Nat /\ Max(before) < second /\ k <= Max(before)
        BY <2>1, <2>2, <2>4, <3>1
      <4>2. after # {} => Min(after) \in Nat /\ second <= Min(after)
        BY <2>1, <2>3, <2>4
      <4> QED
        BY <4>1, <4>2, <3>1 DEF Distance
    <3>2. ASSUME NEW k \in after PROVE Distance(best, second) <= Distance(k, second)
      <4>1. k \in Nat /\ second <= k /\ Min(after) \in Nat /\ second <= Min(after) /\ Min(after) <= k
        BY <2>1, <2>3, <2>4, <3>2
      <4>2. before # {} => Max(before) \in Nat /\ Max(before) < second
        BY <2>1, <2>2, <2>4
      <4> QED
        BY <4>1, <4>2, <3>2 DEF Distance
    <3> QED
      BY <2>4, <3>1, <3>2
  <2>7. \A k \in cache : k \in Nat
    OBVIOUS
  <2> HIDE DEF best
  <2>8. best \in Nat /\ best # None
    BY <2>5, <2>7 DEF None
  <2> QED
    BY <1>1, <1>3, <2>6, <2>7, <2>8, TimeAssumption DEF Distance
<1> QED
  BY <1>2, <1>3

\* A second a batch reached has a signature within the tolerance.
LEMMA Supplied ==
  ASSUME Supply, now \in Nat, Near(Clock) = None
  PROVE newest + Tolerance < Clock
<1>1. Clock \in Nat /\ newest \in Nat /\ newest \in cache
  BY ClockType, TimeAssumption DEF Supply
<1>2. \A k \in cache : Distance(k, Clock) > Tolerance
  BY <1>1, Nearest DEF Supply
<1>3. Clock > newest
  <2> SUFFICES ASSUME Clock <= newest PROVE FALSE
    BY <1>1
  <2>1. Clock \in cache
    BY <1>1, TimeAssumption DEF Supply
  <2>2. Distance(Clock, Clock) = 0
    BY <1>1 DEF Distance
  <2> QED
    BY <1>2, <2>1, <2>2, TimeAssumption
<1>4. Distance(newest, Clock) = Clock - newest
  BY <1>1, <1>3 DEF Distance
<1> QED
  BY <1>1, <1>2, <1>4, TimeAssumption

LEMMA Refreshing ==
  ASSUME NEW s \in Streams, s.last \in Nat, Near(Clock) \in Nat \cup {None}
  PROVE LET t == Refreshed(s) IN
        /\ t = [s EXCEPT !.sign = t.sign, !.select = t.select]
        /\ t.sign \in Nat \cup {None} /\ t.select \in Nat \cup {None}
        /\ t.sign = s.sign \/ t.sign = Near(Clock)
        /\ s.select = None => t.sign = s.sign
<1>1. CASE s.select = None
  <2>1. s.last + Interval \in Nat
    BY TimeAssumption
  <2>2. Refreshed(s) = [s EXCEPT !.select = s.last + Interval]
    BY <1>1 DEF Refreshed
  <2> QED
    BY <2>1, <2>2 DEF Streams
<1>2. CASE s.select # None /\ SelectDue(s)
  <2>1. s.select \in Nat /\ s.last - s.select \in Nat
    BY <1>2 DEF SelectDue, Streams
  <2>2. (s.last - s.select) \div Interval + 1 \in Nat
    BY <2>1, Division, TimeAssumption
  <2>3. Interval * ((s.last - s.select) \div Interval + 1) \in Nat
    BY <2>2, Product, TimeAssumption
  <2>4. s.select + Interval * ((s.last - s.select) \div Interval + 1) \in Nat
    BY <2>1, <2>3
  <2> QED
    BY <1>2, <2>4 DEF Refreshed, Streams
<1>3. CASE s.select # None /\ ~SelectDue(s)
  BY <1>3 DEF Refreshed, Streams
<1> QED
  BY <1>1, <1>2, <1>3

-----------------------------------------------------------------------------
(* The payloads of a packet. *)

LEMMA Listing ==
  ASSUME NEW n \in Nat, NEW S, NEW f \in [1 .. n -> S]
  PROVE f \in Seq(S) /\ Len(f) = n
  OBVIOUS

\* What Inject leaves: a session that is cut, for want of a signature, or the
\* payloads, numbered on.
LEMMA Injecting ==
  ASSUME NEW t \in Streams, t.last \in Nat, t.sign # None, NEW kinds \in Seq(PayloadKinds),
         Near(Clock) \in Nat \cup {None}, Inject(t, kinds)
  PROVE \/ stream' \in Streams /\ fatal' = TRUE /\ sent' = sent /\ Near(Clock) = None
        \/ /\ stream' = [t EXCEPT !.index = t.index + Len(kinds),
                                  !.sign = stream'.sign, !.select = stream'.select]
           /\ stream' \in Streams /\ fatal' = fatal
           /\ sent' \in Seq([index : Nat, kind : PayloadKinds, sign : Nat \cup {None}])
           /\ Len(sent') = Len(kinds)
           /\ \A i \in 1 .. Len(kinds) : sent'[i].index = t.index + i /\ sent'[i].kind = kinds[i]
           /\ Len(kinds) > 0 /\ kinds[1] # "delay" /\ t.select = None => sent'[1].sign = t.sign
<1> DEFINE currents == {i \in DOMAIN kinds : kinds[i] = "current"}
           before(i) == \A c \in currents : i < c
           u == Refreshed(t)
           count == Len(kinds)
           v == IF currents = {} THEN t ELSE u
           payload(i) == Payload(IF before(i) THEN t ELSE v, kinds[i], t.index + i)
<1>1. /\ u = [t EXCEPT !.sign = u.sign, !.select = u.select]
      /\ u.sign \in Nat \cup {None} /\ u.select \in Nat \cup {None}
      /\ u.sign = t.sign \/ u.sign = Near(Clock)
      /\ t.select = None => u.sign = t.sign
  BY Refreshing
<1>2. count \in Nat /\ DOMAIN kinds = 1 .. count /\ \A i \in 1 .. count : kinds[i] \in PayloadKinds
  OBVIOUS
<1>3. t.index \in Nat \cup {None} /\ t.index + count \in Nat \cup {None}
      /\ \A i \in 1 .. count : t.index + i \in Nat
  BY <1>2 DEF Streams, None
<1>4. u \in Streams /\ u.index = t.index
  <2> HIDE DEF u
  <2> QED
    BY <1>1 DEF Streams
<1>5. CASE currents # {} /\ u.sign = None
  <2>1. stream' = [u EXCEPT !.sign = t.sign, !.index = u.index + Min(currents) - 1]
        /\ fatal' = TRUE /\ sent' = sent
    BY <1>5 DEF Inject, Cut
  <2>2. Min(currents) \in 1 .. count
    <3>1. currents \in SUBSET Nat
      BY <1>2
    <3> QED
      BY <1>2, <1>5, <3>1, MinOf
  <2>3. u.index + Min(currents) - 1 \in Nat \cup {None}
    BY <1>3, <1>4, <2>2 DEF None
  <2>4. Near(Clock) = None
    BY <1>1, <1>5
  <2> HIDE DEF u, currents
  <2>5. stream' \in Streams
    BY <1>4, <2>1, <2>3 DEF Streams
  <2> QED
    BY <2>1, <2>4, <2>5
<1>6. CASE ~(currents # {} /\ u.sign = None)
  <2>1. /\ stream' = [v EXCEPT !.index = v.index + count] /\ fatal' = fatal
        /\ sent' = [i \in 1 .. count |-> payload(i)]
    BY <1>6 DEF Inject
  <2>2. v \in Streams /\ v = [t EXCEPT !.sign = v.sign, !.select = v.select]
    <3> HIDE DEF u
    <3>1. CASE currents = {}
      BY <3>1 DEF Streams
    <3>2. CASE currents # {}
      BY <1>1, <1>4, <3>2
    <3> QED
      BY <3>1, <3>2
  <2>3. \A i \in 1 .. count :
          payload(i) \in [index : Nat, kind : PayloadKinds, sign : Nat \cup {None}]
          /\ payload(i).index = t.index + i /\ payload(i).kind = kinds[i]
          /\ payload(i).sign = IF Signed(kinds[i]) THEN (IF before(i) THEN t ELSE v).sign ELSE None
    <3> TAKE i \in 1 .. count
    <3>1. (IF before(i) THEN t ELSE v).sign \in Nat \cup {None}
      <4> HIDE DEF v, before
      <4> QED
        BY <2>2 DEF Streams
    <3>2. payload(i) = [index |-> t.index + i, kind |-> kinds[i],
                        sign |-> IF Signed(kinds[i]) THEN (IF before(i) THEN t ELSE v).sign ELSE None]
      BY DEF Payload
    <3> HIDE DEF v, before, payload
    <3> QED
      BY <1>2, <1>3, <3>1, <3>2
  <2>4. t.select = None => v.sign = t.sign
    <3> HIDE DEF u, currents
    <3> QED
      BY <1>1
  <2> HIDE DEF v, payload, before, count, currents, u
  <2>5. sent' \in Seq([index : Nat, kind : PayloadKinds, sign : Nat \cup {None}]) /\ Len(sent') = count
    <3>1. sent' \in [1 .. count -> [index : Nat, kind : PayloadKinds, sign : Nat \cup {None}]]
      BY <2>1, <2>3
    <3> QED
      BY <1>2, <3>1, Listing
  <2>6. \A i \in 1 .. count : sent'[i] = payload(i)
    BY <2>1
  <2>7. stream' \in Streams /\ stream' = [t EXCEPT !.index = t.index + count,
          !.sign = stream'.sign, !.select = stream'.select]
    BY <1>3, <2>1, <2>2 DEF Streams
  <2>8. count > 0 /\ kinds[1] # "delay" /\ t.select = None => sent'[1].sign = t.sign
    <3> SUFFICES ASSUME count > 0, kinds[1] # "delay", t.select = None PROVE sent'[1].sign = t.sign
      OBVIOUS
    <3>1. 1 \in 1 .. count /\ Signed(kinds[1])
      BY <1>2 DEF Signed
    <3>2. sent'[1].sign = (IF before(1) THEN t ELSE v).sign
      BY <2>3, <2>6, <3>1
    <3> QED
      BY <2>4, <3>2
  <2> QED
    BY <2>1, <2>3, <2>5, <2>6, <2>7, <2>8 DEF count
<1> QED
  BY <1>5, <1>6

-----------------------------------------------------------------------------
(* The invariant. *)

Times == run # Stopped => run.from \in Nat /\ run.last \in Nat

\* The stream is that of the output's run, or an earlier one of some length.
Following ==
  /\ run = Stopped /\ stream.base # None => stream.last > 0
  /\ run # Stopped => stream.base # None /\ stream.last = run.last

IInv == TypeOK /\ Times /\ Supply /\ (~fatal => Caught(stream) /\ Following)

\* A packet that is passed on or signed, or that cuts the session.
LEMMA Transforming ==
  ASSUME IInv, ~fatal, NEW ts \in Nat, Transform(ts)
  PROVE /\ stream' \in Streams /\ fatal' \in BOOLEAN
        /\ sent' \in Seq([index : Nat, kind : PayloadKinds, sign : Nat \cup {None}])
        /\ [Feed!Next]_<<sent, fatal>>
        /\ fatal' => newest + Tolerance < Clock
        /\ ~fatal' => Caught(stream)' /\ stream'.base # None /\ stream'.last = ts
        /\ ~fatal' /\ (Broken(stream, ts) \/ stream.base = None) =>
             sent' # <<>> /\ sent'[1].index = 0 /\ Distance(sent'[1].sign, Clock) <= Tolerance
<1> DEFINE s == Entered(stream, ts)
           c == Cardinality(Due(s))
           t == Ensured(Taken(s))
           kinds == Payloads(s)
<1>1. /\ Ready(s) /\ s.last = ts
      /\ Broken(stream, ts) \/ stream.base = None => s.slot = 0
  BY Entering DEF IInv, TypeOK
<1>2. /\ c \in Nat /\ c <= MaxBurst /\ (Due(s) = {} <=> c = 0)
      /\ s.slot = 0 => c > 0
      /\ \A n \in Nat : n >= s.slot + c => Target(n) > s.last - s.base
      /\ kinds = [i \in 1 .. c |-> Feed!KindOf(s.slot + i - 1)]
      /\ c > 0 => Taken(s) = [s EXCEPT !.slot = s.slot + c, !.startup = TRUE]
  BY <1>1, Taking
<1>3. /\ Near(Clock) \in Nat \cup {None}
      /\ Near(Clock) # None => Distance(Near(Clock), Clock) <= Tolerance
      /\ Near(Clock) = None => newest + Tolerance < Clock
  BY Nearest, Supplied, ClockType DEF IInv, TypeOK, Supply
<1>4. /\ s \in Streams /\ s.base \in Nat /\ s.last \in Nat /\ s.slot \in Nat /\ s.index = s.slot - 1
      /\ s.base <= s.last /\ s.base # None
  BY <1>1 DEF Ready, Streams, None
<1>5. sent \in Seq([index : Nat, kind : PayloadKinds, sign : Nat \cup {None}]) /\ fatal = FALSE
  BY DEF IInv, TypeOK, PayloadKinds
<1>6. Transform(ts) = IF Due(s) = {} THEN stream' = s /\ UNCHANGED <<fatal, sent>>
                      ELSE IF t.sign = None THEN Cut(t)
                      ELSE Inject(t, kinds)
  BY DEF Transform
<1> HIDE DEF s, c, t, kinds
<1>7. CASE Due(s) = {}
  <2>1. stream' = s /\ fatal' = fatal /\ sent' = sent
    BY <1>6, <1>7
  <2>2. s.slot > 0 /\ s.startup /\ sent # <<>> /\ sent[Len(sent)].index = s.index
    BY <1>1, <1>2, <1>4, <1>7 DEF Ready
  <2>3. \A n \in Nat : n >= s.slot => Target(n) > s.last - s.base
    BY <1>2, <1>4, <1>7
  <2>4. Caught(stream)'
    BY <1>4, <2>1, <2>2, <2>3 DEF Caught
  <2>5. stream' \in Streams /\ stream'.base # None /\ stream'.last = ts
    BY <1>1, <1>4, <2>1
  <2>6. ~(Broken(stream, ts) \/ stream.base = None)
    BY <1>1, <2>2, <1>4
  <2>7. sent' \in Seq([index : Nat, kind : PayloadKinds, sign : Nat \cup {None}]) /\ fatal' = FALSE
    BY <1>5, <2>1
  <2> QED
    BY <2>1, <2>4, <2>5, <2>6, <2>7
<1>8. CASE Due(s) # {}
  <2>1. t = [s EXCEPT !.slot = s.slot + c, !.startup = TRUE, !.sign = t.sign]
        /\ t.sign = IF s.sign # None THEN s.sign ELSE Near(Clock)
    <3> DEFINE r == Taken(s)
    <3>1. r = [s EXCEPT !.slot = s.slot + c, !.startup = TRUE] /\ s.slot + c \in Nat
      BY <1>2, <1>4, <1>8
    <3>2. r.sign = s.sign /\ r \in Streams
      BY <1>4, <3>1 DEF Streams
    <3>3. t = IF r.sign # None THEN r ELSE [r EXCEPT !.sign = Near(Clock)]
      BY DEF t, Ensured
    <3> HIDE DEF r
    <3>4. CASE s.sign # None
      <4>1. t = r /\ t.sign = s.sign
        BY <3>2, <3>3, <3>4
      <4> QED
        BY <1>4, <3>1, <3>4, <4>1 DEF Streams
    <3>5. CASE s.sign = None
      <4>1. t = [r EXCEPT !.sign = Near(Clock)] /\ t.sign = Near(Clock)
        BY <3>2, <3>3, <3>5 DEF Streams
      <4> QED
        BY <1>4, <3>1, <3>5, <4>1 DEF Streams
    <3> QED
      BY <3>4, <3>5
  <2>2. /\ t \in Streams /\ t.base = s.base /\ t.last = s.last /\ t.slot = s.slot + c
        /\ t.index = s.index /\ t.startup = TRUE /\ t.select = s.select
    <3>1. t.sign \in Nat \cup {None}
      BY <1>3, <1>4, <2>1 DEF Streams
    <3>2. s.slot + c \in Nat
      BY <1>2, <1>4
    <3> DEFINE g == t.sign
    <3>3. t = [s EXCEPT !.slot = s.slot + c, !.startup = TRUE, !.sign = g]
      BY <2>1
    <3> HIDE DEF g
    <3> QED
      BY <1>4, <3>1, <3>2, <3>3 DEF Streams, g
  <2>3. CASE t.sign = None
    <3>1. stream' = t /\ fatal' = TRUE /\ sent' = sent
      BY <1>6, <1>8, <2>3 DEF Cut
    <3>2. Near(Clock) = None
      BY <2>1, <2>3
    <3>3. Feed!Cut
      BY <1>5, <3>1 DEF Feed!Cut
    <3> QED
      BY <1>3, <1>5, <2>2, <3>1, <3>2, <3>3 DEF Feed!Next
  <2>4. CASE t.sign # None
    <3>1. Inject(t, kinds)
      BY <1>6, <1>8, <2>4
    <3>2. kinds \in Seq(PayloadKinds) /\ Len(kinds) = c
      <4>1. \A i \in 1 .. c : Feed!KindOf(s.slot + i - 1) \in PayloadKinds
        <5> TAKE i \in 1 .. c
        <5>1. s.slot + i - 1 \in Nat
          BY <1>2, <1>4
        <5> QED
          BY <5>1, KindsType
      <4>2. kinds \in [1 .. c -> PayloadKinds]
        BY <1>2, <4>1
      <4> QED
        BY <1>2, <4>2, Listing
    <3>3. CASE stream' \in Streams /\ fatal' = TRUE /\ sent' = sent /\ Near(Clock) = None
      <4>1. Feed!Cut
        BY <1>5, <3>3 DEF Feed!Cut
      <4> QED
        BY <1>3, <1>5, <3>3, <4>1 DEF Feed!Next
    <3>4. CASE
           /\ stream' = [t EXCEPT !.index = t.index + Len(kinds),
                                  !.sign = stream'.sign, !.select = stream'.select]
           /\ stream' \in Streams /\ fatal' = fatal
           /\ sent' \in Seq([index : Nat, kind : PayloadKinds, sign : Nat \cup {None}])
           /\ Len(sent') = Len(kinds)
           /\ \A i \in 1 .. Len(kinds) : sent'[i].index = t.index + i /\ sent'[i].kind = kinds[i]
           /\ Len(kinds) > 0 /\ kinds[1] # "delay" /\ t.select = None => sent'[1].sign = t.sign
      <4>1. /\ stream'.base = s.base /\ stream'.last = ts /\ stream'.slot = s.slot + c
            /\ stream'.index = s.slot + c - 1 /\ stream'.startup = TRUE
        <5>1. stream' \in Streams /\ stream'.base = t.base /\ stream'.last = t.last
              /\ stream'.slot = t.slot /\ stream'.startup = t.startup
          BY <2>2, <3>4 DEF Streams
        <5>2. stream'.index = t.index + c
          BY <2>2, <3>2, <3>4 DEF Streams
        <5>3. c \in Nat
          BY <1>2
        <5> QED
          BY <5>3, <1>1, <1>4, <2>2, <5>1, <5>2
      <4>2. c > 0 /\ Len(sent') = c /\ sent' # <<>> /\ DOMAIN sent' = 1 .. c
        BY <1>2, <1>8, <3>2, <3>4
      <4>3. \A i \in 1 .. c : sent'[i].index = s.slot + i - 1 /\ sent'[i].kind = Feed!KindOf(s.slot + i - 1)
        BY <1>2, <1>4, <2>2, <3>2, <3>4
      <4>4. Caught(stream)'
        <5>1. sent'[Len(sent')].index = stream'.index
          BY <1>2, <1>4, <4>1, <4>2, <4>3
        <5> QED
          BY <1>1, <1>2, <1>4, <4>1, <4>2, <5>1 DEF Caught
      <4>5. Feed!Carries(s.slot)
        <5>1. \A i \in 1 .. c : sent'[i].index = s.slot + i - 1 /\ sent'[i].kind = Feed!KindOf(s.slot + i - 1)
          BY <4>3
        <5> QED
          BY <1>2, <4>2, <5>1 DEF Feed!Carries
      <4>6. Feed!Next
        <5>1. CASE s.slot = 0
          BY <1>5, <3>4, <4>5, <5>1 DEF Feed!Next, Feed!Begin
        <5>2. CASE s.slot > 0
          <6>1. sent # <<>> /\ sent[Len(sent)].index + 1 = s.slot
            BY <1>1, <1>4, <5>2 DEF Ready
          <6> QED
            BY <1>5, <3>4, <4>5, <6>1 DEF Feed!Next, Feed!Continue
        <5> QED
          BY <1>4, <5>1, <5>2
      <4>7. ASSUME s.slot = 0
            PROVE sent'[1].index = 0 /\ Distance(sent'[1].sign, Clock) <= Tolerance
        <5>1. 1 \in 1 .. c /\ sent'[1].index = 0
          BY <1>2, <4>2, <4>3, <4>7
        <5>2. kinds[1] = "startup"
          BY <1>2, <4>7, <5>1, KindsType
        <5>3. s.sign = None /\ s.select = None
          BY <1>1, <4>7 DEF Ready
        <5>4. sent'[1].sign = t.sign /\ t.sign = Near(Clock)
          BY <2>1, <2>2, <3>2, <3>4, <4>2, <5>2, <5>3
        <5> QED
          BY <1>3, <2>4, <5>1, <5>4
      <4> QED
        BY <1>1, <1>4, <1>5, <3>4, <4>1, <4>2, <4>4, <4>6, <4>7
    <3> QED
      <4>1. t.last \in Nat
        BY <1>4, <2>2
      <4> HIDE DEF PayloadKinds
      <4> QED
        BY <1>3, <2>2, <2>4, <3>1, <3>2, <3>3, <3>4, <4>1, Injecting
  <2> QED
    BY <2>3, <2>4
<1> QED
  BY <1>7, <1>8

\* A batch covers Life seconds from a second that has come.
LEMMA BatchType ==
  ASSUME NEW batch \in Batches, Clock \in Nat, Slack <= Clock
  PROVE \E first \in Nat : /\ batch = first .. first + Life - 1 /\ first <= Clock
                           /\ Max(batch) = first + Life - 1 /\ first + Life - 1 \in Nat
<1>1. PICK first \in Clock - Slack .. Clock : batch = first .. first + Life - 1
  BY DEF Batches
<1>2. first \in Nat /\ first <= Clock /\ first + Life - 1 \in Nat /\ first <= first + Life - 1
  BY <1>1, TimeAssumption
<1>3. first + Life - 1 \in batch /\ \A k \in batch : k <= first + Life - 1
  BY <1>1, <1>2
<1>4. batch \in SUBSET Nat
  BY <1>1, <1>2
<1>5. Max(batch) \in batch /\ \A k \in batch : k <= Max(batch)
  BY <1>2, <1>3, <1>4, MaxOf
<1>6. Max(batch) = first + Life - 1
  BY <1>1, <1>2, <1>3, <1>4, <1>5
<1> QED
  BY <1>1, <1>2, <1>6

LEMMA InitInv == Init => IInv /\ Feed!Init
<1> SUFFICES ASSUME Init PROVE IInv /\ Feed!Init
  OBVIOUS
<1>1. now \in Nat /\ Clock = Slack
  <2>1. Slack * Second \in Nat /\ now = Slack * Second
    BY Successor, TimeAssumption DEF Init
  <2>2. PICK q \in Nat : q = Clock /\ q * Second \in Nat /\ q * Second <= now /\ now < q * Second + Second
    BY <2>1, DivisionBounds, TimeAssumption DEF Clock
  <2>3. Slack < q + 1
    BY <2>1, <2>2, Successor, Quotient, TimeAssumption
  <2>4. q < Slack + 1
    BY <2>1, <2>2, Successor, Quotient, TimeAssumption
  <2> QED
    BY <2>1, <2>2, <2>3, <2>4, TimeAssumption
<1>2. PICK first \in Nat : /\ cache = first .. first + Life - 1 /\ first <= Clock
                           /\ newest = first + Life - 1 /\ newest \in Nat
  BY <1>1, BatchType, TimeAssumption DEF Init
<1>3. Supply
  BY <1>1, <1>2, TimeAssumption DEF Supply
<1>4. cache \subseteq Nat /\ Cardinality(cache) <= Cap
  <2>1. Cardinality(cache) = Life
    BY <1>2, FS_Interval, TimeAssumption
  <2> QED
    BY <1>2, <2>1, TimeAssumption
<1>5. stream \in Streams /\ Caught(stream) /\ Following
  BY DEF Init, ResetStream, Streams, None, Caught, Following, Stopped
<1>6. /\ run = Stopped /\ run \in [from : Nat \cup {None}, last : Nat \cup {None}]
      /\ sent = <<>> /\ fatal = FALSE /\ main \in BOOLEAN
  BY DEF Init, Stopped, None
<1>7. sent \in Seq([index : Nat, kind : PayloadKinds, sign : Nat \cup {None}])
  BY <1>6
<1> QED
  BY <1>1, <1>2, <1>3, <1>4, <1>5, <1>6, <1>7
  DEF IInv, TypeOK, Times, PayloadKinds, Feed!Init

\* The last Cap elements of a set are no more than Cap.
LEMMA Trimmed ==
  ASSUME NEW b \in Nat, NEW S \in SUBSET (0 .. b), NEW T,
         T = {k \in S : Cardinality({j \in S : j > k}) < Cap}
  PROVE Cardinality(T) <= Cap
<1>1. CASE T = {}
  <2>1. Cardinality(T) = 0
    BY <1>1, FS_EmptySet, Zenon
  <2> QED
    BY <2>1, TimeAssumption
<1>2. CASE T # {}
  <2>1. IsFiniteSet(S) /\ S \in SUBSET Nat
    <3>1. \A k \in S : k \in Nat /\ k <= b
      OBVIOUS
    <3> QED
      BY <3>1, FS_BoundedSetOfNaturals
  <2>2. PICK m \in T : \A n \in T : m <= n
    BY <1>2, <2>1, Least
  <2> DEFINE above == {j \in S : j > m}
  <2>3. IsFiniteSet(above) /\ Cardinality(above) < Cap /\ Cardinality(above) \in Nat
    BY <2>1, <2>2, FS_Subset, FS_CardinalityType
  <2>4. IsFiniteSet(T) /\ IsFiniteSet(T \ {m}) /\ T \ {m} \subseteq above
    <3>1. T \subseteq S
      OBVIOUS
    <3>2. IsFiniteSet(T)
      BY <2>1, <3>1, FS_Subset
    <3>3. T \ {m} \subseteq above
      <4> SUFFICES ASSUME NEW j \in T \ {m} PROVE j \in above
        OBVIOUS
      <4>1. j \in S /\ j # m /\ m <= j /\ m \in S
        BY <2>2, <3>1
      <4>2. j \in Nat /\ m \in Nat
        BY <2>1, <4>1
      <4> QED
        BY <4>1, <4>2
    <3> QED
      BY <3>2, <3>3, FS_RemoveElement
  <2> HIDE DEF above
  <2>5. Cardinality(T \ {m}) <= Cardinality(above)
    BY <2>3, <2>4, FS_Subset
  <2>6. Cardinality(T \ {m}) = Cardinality(T) - 1 /\ Cardinality(T) \in Nat
    BY <2>2, <2>4, FS_RemoveElement, FS_CardinalityType
  <2> QED
    BY <2>3, <2>5, <2>6, TimeAssumption
<1> QED
  BY <1>1, <1>2

\* New signatures do not push out one of the newest batch.
LEMMA MergeInv ==
  ASSUME IInv, NEW batch \in Batches, Merge(batch)
  PROVE IInv' /\ UNCHANGED <<sent, fatal, run>>
<1>1. /\ Clock \in Nat /\ Slack <= Clock /\ newest \in Nat /\ cache \subseteq 0 .. newest
      /\ newest - Life + 1 .. newest \subseteq cache /\ newest - Life + 1 <= Clock /\ Clock' = Clock
  BY ClockType DEF IInv, TypeOK, Supply, Merge, Clock
<1>2. PICK first \in Nat : /\ batch = first .. first + Life - 1 /\ first <= Clock
                           /\ Max(batch) = first + Life - 1 /\ first + Life - 1 \in Nat
  BY <1>1, BatchType
<1> DEFINE all == cache \cup batch
<1>3. newest' = IF newest > first + Life - 1 THEN newest ELSE first + Life - 1
  BY <1>2 DEF Merge, Later
<1>4. newest' \in Nat /\ newest' - Life + 1 <= Clock
  BY <1>1, <1>2, <1>3, TimeAssumption
<1>5. all \subseteq 0 .. newest'
  BY <1>1, <1>2, <1>3, TimeAssumption
<1>6. newest' - Life + 1 .. newest' \subseteq all
  BY <1>1, <1>2, <1>3, TimeAssumption
<1>7. cache' = {k \in all : Cardinality({j \in all : j > k}) < Cap}
  BY DEF Merge
<1> HIDE DEF all
<1>8. Cardinality(cache') <= Cap /\ cache' \subseteq 0 .. newest' /\ cache' \subseteq Nat
  <2>1. all \in SUBSET (0 .. newest')
    BY <1>5
  <2>2. Cardinality(cache') <= Cap
    BY <1>4, <1>7, <2>1, Trimmed
  <2>3. cache' \subseteq all /\ \A k \in 0 .. newest' : k \in Nat
    BY <1>4, <1>7
  <2> QED
    BY <1>5, <2>2, <2>3
<1>9. newest' - Life + 1 .. newest' \subseteq cache'
  <2> SUFFICES ASSUME NEW k \in newest' - Life + 1 .. newest' PROVE k \in cache'
    OBVIOUS
  <2>1. k \in all /\ k \in Int /\ newest' - Life + 1 <= k /\ k <= newest'
    <3>1. k \in all
      BY <1>6
    <3>2. newest' \in Int /\ newest' - Life + 1 \in Int
      BY <1>4, TimeAssumption
    <3> QED
      BY <3>1, <3>2
  <2>2. {j \in all : j > k} \subseteq k + 1 .. newest'
    <3> SUFFICES ASSUME NEW j \in all, j > k PROVE j \in k + 1 .. newest'
      OBVIOUS
    <3>1. j \in 0 .. newest'
      BY <1>5
    <3> QED
      BY <1>4, <2>1, <3>1
  <2>3. IsFiniteSet(k + 1 .. newest') /\ Cardinality(k + 1 .. newest') <= Life - 1
    <3>1. k + 1 \in Int /\ newest' \in Int
      BY <1>4, <2>1
    <3>2. /\ IsFiniteSet(k + 1 .. newest')
          /\ Cardinality(k + 1 .. newest') = IF k + 1 > newest' THEN 0 ELSE newest' - (k + 1) + 1
      BY <3>1, FS_Interval
    <3>3. Life \in Nat /\ 0 <= Life - 1
      BY TimeAssumption
    <3>4. newest' - (k + 1) + 1 <= Life - 1
      <4>1. \A n \in Nat, l \in Nat, i \in Int : n - l + 1 <= i => n - (i + 1) + 1 <= l - 1
        OBVIOUS
      <4> QED
        BY <1>4, <2>1, <3>3, <4>1, Zenon
    <3> QED
      BY <3>2, <3>3, <3>4
  <2>4. /\ Cardinality({j \in all : j > k}) <= Cardinality(k + 1 .. newest')
        /\ Cardinality({j \in all : j > k}) \in Nat /\ Cardinality(k + 1 .. newest') \in Nat
    BY <2>2, <2>3, FS_Subset, FS_CardinalityType
  <2>5. Cardinality({j \in all : j > k}) < Cap
    BY <2>3, <2>4, TimeAssumption
  <2> QED
    BY <1>7, <2>1, <2>5
<1>10. Supply'
  BY <1>1, <1>4, <1>8, <1>9 DEF Supply
<1>11. UNCHANGED <<stream, fatal, sent, now, main, run>>
  BY DEF Merge
<1>12. TypeOK'
  BY <1>4, <1>8, <1>11 DEF IInv, TypeOK
<1>13. Times' /\ (~fatal' => Caught(stream)' /\ Following')
  BY <1>11 DEF IInv, Times, Caught, Following
<1> QED
  BY <1>10, <1>11, <1>12, <1>13 DEF IInv

\* What a packet does to the feed, and what it finds when a run begins or it is cut.
LEMMA PacketInv ==
  ASSUME IInv, Packet
  PROVE /\ IInv' /\ [Feed!Next]_<<sent, fatal>>
        /\ fatal' => newest + Tolerance < Clock
        /\ run = Stopped /\ ~fatal' =>
             sent' # <<>> /\ sent'[1].index = 0 /\ Distance(sent'[1].sign, Clock) <= Tolerance
<1>1. PICK lag \in 0 .. Lag : LET ts == IF run = Stopped THEN 0 ELSE now - run.from - lag IN
       /\ ts >= run.last
       /\ run' = IF run = Stopped THEN [from |-> now, last |-> 0] ELSE [run EXCEPT !.last = ts]
       /\ Transform(ts)
  BY DEF Packet
<1>2. PICK ts : /\ ts = IF run = Stopped THEN 0 ELSE now - run.from - lag
                /\ ts >= run.last /\ Transform(ts)
                /\ run' = IF run = Stopped THEN [from |-> now, last |-> 0] ELSE [run EXCEPT !.last = ts]
  BY <1>1
<1>3. ~fatal /\ UNCHANGED <<cache, now, main, newest>>
  BY DEF Packet
<1>4. ts \in Nat
  BY <1>2, TimeAssumption DEF IInv, TypeOK, Times
<1>5. /\ stream' \in Streams /\ fatal' \in BOOLEAN
      /\ sent' \in Seq([index : Nat, kind : PayloadKinds, sign : Nat \cup {None}])
      /\ [Feed!Next]_<<sent, fatal>>
      /\ fatal' => newest + Tolerance < Clock
      /\ ~fatal' => Caught(stream)' /\ stream'.base # None /\ stream'.last = ts
      /\ ~fatal' /\ (Broken(stream, ts) \/ stream.base = None) =>
           sent' # <<>> /\ sent'[1].index = 0 /\ Distance(sent'[1].sign, Clock) <= Tolerance
  BY <1>2, <1>3, <1>4, Transforming
<1>6. /\ run' \in [from : Nat \cup {None}, last : Nat \cup {None}]
      /\ run'.from \in Nat /\ run'.last = ts /\ run' # Stopped
  <2>1. now \in Nat /\ run \in [from : Nat \cup {None}, last : Nat \cup {None}]
    BY DEF IInv, TypeOK
  <2>2. CASE run = Stopped
    BY <1>2, <2>1, <2>2 DEF Stopped, None
  <2>3. CASE run # Stopped
    BY <1>2, <1>4, <2>1, <2>3 DEF Stopped, None, IInv, Times
  <2> QED
    BY <2>2, <2>3
<1>7. run = Stopped => Broken(stream, ts) \/ stream.base = None
  <2> SUFFICES ASSUME run = Stopped, stream.base # None PROVE Broken(stream, ts)
    OBVIOUS
  <2>1. ts = 0 /\ stream.last > 0
    BY <1>2, <1>3 DEF IInv, Following
  <2> QED
    BY <2>1 DEF Broken
<1>8. Supply'
  BY <1>3 DEF IInv, Supply, Clock
<1>9. TypeOK'
  BY <1>3, <1>5, <1>6 DEF IInv, TypeOK, PayloadKinds
<1>10. Times'
  BY <1>4, <1>6 DEF Times
<1>11. ~fatal' => Following'
  BY <1>5, <1>6 DEF Following
<1> QED
  BY <1>5, <1>7, <1>8, <1>9, <1>10, <1>11 DEF IInv

LEMMA RestartInv ==
  ASSUME IInv, Restart
  PROVE IInv' /\ UNCHANGED <<sent, fatal>> /\ run' = Stopped
<1>1. /\ UNCHANGED <<cache, fatal, sent, now, main, newest>> /\ run' = Stopped /\ ~fatal
      /\ stream' = (IF main THEN ResetStream ELSE stream) /\ run.last > 0
  BY DEF Restart
<1>2. stream \in Streams /\ Caught(stream) /\ Following
  BY <1>1 DEF IInv, TypeOK
<1>3. run # Stopped
  BY <1>1 DEF Stopped, None
<1>4. CASE main
  <2>1. stream' \in Streams /\ Caught(stream)' /\ Following'
    BY <1>1, <1>4 DEF ResetStream, Streams, None, Caught, Following
  <2> QED
    BY <1>1, <2>1 DEF IInv, TypeOK, Times, Supply, Clock, Stopped, None
<1>5. CASE ~main
  <2>1. stream' = stream /\ Following'
    BY <1>1, <1>2, <1>3, <1>5 DEF Following
  <2>2. Caught(stream)'
    BY <1>1, <1>2, <2>1 DEF Caught
  <2> QED
    BY <1>1, <2>1, <2>2 DEF IInv, TypeOK, Times, Supply, Clock, Stopped, None
<1> QED
  BY <1>1, <1>4, <1>5

LEMMA ElapseInv ==
  ASSUME IInv, Elapse
  PROVE IInv' /\ UNCHANGED <<sent, fatal, run>>
<1>1. UNCHANGED <<stream, cache, fatal, sent, main, run, newest>> /\ now' = now + 1 /\ now \in Nat
  BY DEF Elapse, IInv, TypeOK
<1>2. Clock \in Nat /\ Clock' \in Nat /\ Clock <= Clock'
  BY <1>1, ClockType, DivisionGrows, Division, TimeAssumption DEF Clock
<1>3. Supply'
  <2>1. Supply /\ Slack <= Clock' /\ newest - Life + 1 <= Clock'
    BY <1>2, TimeAssumption DEF IInv, Supply
  <2> QED
    BY <1>1, <2>1 DEF Supply
<1> QED
  BY <1>1, <1>3 DEF IInv, TypeOK, Times, Caught, Following

LEMMA BadPacketInv ==
  ASSUME IInv, BadPacket
  PROVE IInv' /\ Feed!Next /\ UNCHANGED run
<1>1. UNCHANGED <<stream, cache, sent, now, main, run, newest>> /\ fatal' = TRUE /\ fatal = FALSE
  BY DEF BadPacket, Cut, IInv, TypeOK
<1>2. Feed!Next
  BY <1>1 DEF Feed!Next, Feed!Cut
<1> QED
  BY <1>1, <1>2 DEF IInv, TypeOK, Times, Supply, Clock

\* The invariant is kept, and each step is one of the feed or leaves it alone.
LEMMA NextInv ==
  ASSUME IInv, [Next]_vars
  PROVE IInv' /\ [Feed!Next]_<<sent, fatal>>
<1>1. CASE Packet
  BY <1>1, PacketInv
<1>2. CASE BadPacket
  BY <1>2, BadPacketInv
<1>3. ASSUME NEW batch \in Batches, Merge(batch) PROVE IInv' /\ UNCHANGED <<sent, fatal>>
  BY <1>3, MergeInv
<1>4. CASE Restart
  BY <1>4, RestartInv
<1>5. CASE Elapse
  BY <1>5, ElapseInv
<1>6. CASE UNCHANGED vars
  BY <1>6 DEF vars, IInv, TypeOK, Times, Supply, Clock, Caught, Following
<1> QED
  BY <1>1, <1>2, <1>3, <1>4, <1>5, <1>6 DEF Next

-----------------------------------------------------------------------------

\* What the theorems rest on.
THEOREM Invariant == Spec => []IInv
<1>1. Init => IInv
  BY InitInv
<1>2. IInv /\ [Next]_vars => IInv'
  BY NextInv
<1> QED
  BY <1>1, <1>2, PTL DEF Spec

\* The state of a session has its types, and its cache at most its cap.
THEOREM TypeCorrect == Spec => []TypeOK
<1>1. IInv => TypeOK
  BY DEF IInv
<1> QED
  BY <1>1, Invariant, PTL

\* Whatever the gaps, restarts and catch-ups of a stream, TikTok receives what the
\* cadence calls for (SeiMetadataSession::Impl::due_payload_kinds, next_sei_index).
THEOREM ImplementsFeed == Spec => FeedSpec
<1>1. Init => Feed!Init
  BY InitInv
<1>2. IInv /\ [Next]_vars => [Feed!Next]_Feed!vars
  BY NextInv DEF Feed!vars
<1> QED
  BY <1>1, <1>2, Invariant, PTL DEF Spec, FeedSpec, Feed!Spec

\* The first packet of a run starts the stream over, announced or not.
THEOREM RestartsNoticed == Spec => RestartNoticed
<1>1. IInv /\ [Next]_vars =>
        [run = Stopped /\ run' # Stopped /\ ~fatal' =>
          /\ sent' # <<>> /\ sent'[1].index = 0
          /\ Distance(sent'[1].sign, Clock) <= Tolerance]_vars
  <2> SUFFICES ASSUME IInv, Next, run = Stopped, run' # Stopped, ~fatal'
               PROVE /\ sent' # <<>> /\ sent'[1].index = 0
                     /\ Distance(sent'[1].sign, Clock) <= Tolerance
    BY DEF vars
  <2>1. CASE Packet
    BY <2>1, PacketInv
  <2>2. CASE BadPacket
    BY <2>2, BadPacketInv
  <2>3. ASSUME NEW batch \in Batches, Merge(batch) PROVE FALSE
    BY <2>3, MergeInv
  <2>4. CASE Restart
    BY <2>4, RestartInv
  <2>5. CASE Elapse
    BY <2>5, ElapseInv
  <2> QED
    BY <2>1, <2>2, <2>3, <2>4, <2>5 DEF Next
<1> QED
  BY <1>1, Invariant, PTL DEF Spec, RestartNoticed

\* Only a second no batch reached cuts a session whose packets can be signed.
THEOREM CutsOnlyUnsigned == Spec => CutOnlyUnsigned
<1>1. IInv /\ [Next]_vars => [Packet /\ fatal' => newest + Tolerance < Clock]_vars
  BY PacketInv
<1> QED
  BY <1>1, Invariant, PTL DEF Spec, CutOnlyUnsigned

-----------------------------------------------------------------------------
(* How old a signature gets. *)

LEMMA SlotAt ==
  ASSUME NEW q \in Nat, NEW i \in 1 .. Slots
  PROVE LET n == q * Slots + (i - 1) IN
        n \in Nat /\ (n % Slots) + 1 = i /\ Target(n) = q * Cycle + Offsets[i]
<1> DEFINE n == q * Slots + (i - 1)
<1>1. q * Slots \in Nat /\ n \in Nat /\ i - 1 \in 0 .. Slots - 1
  BY SlotsType, Successor
<1>2. PICK p \in Nat, j \in 0 .. Slots - 1 :
        p = n \div Slots /\ j = n % Slots /\ n = p * Slots + j /\ p * Slots \in Nat
  BY <1>1, SlotsType, Division, DivisionBounds
<1>3. p * Slots < (q + 1) * Slots /\ q * Slots < (p + 1) * Slots
  BY <1>1, <1>2, SlotsType, Successor
<1>4. p = q
  BY <1>2, <1>3, SlotsType, Quotient
<1>5. j = i - 1
  BY <1>1, <1>2, <1>4
<1> QED
  BY <1>1, <1>2, <1>4, <1>5 DEF Target

LEMMA WaitIs ==
  /\ Wait \in Nat
  /\ \A t \in 0 .. Cycle - 1 : \E i \in 1 .. Slots :
       Kinds[i] = "current" /\ \E c \in {Offsets[i], Offsets[i] + Cycle} : c \in t .. t + Wait
<1> DEFINE Comes(w) == \A t \in 0 .. Cycle - 1 : \E i \in 1 .. Slots :
             Kinds[i] = "current" /\ \E c \in {Offsets[i], Offsets[i] + Cycle} : c \in t .. t + w
           W == {w \in 0 .. Cycle : Comes(w)}
<1>1. Comes(Cycle)
  <2>1. PICK i \in 1 .. Slots : Kinds[i] = "current"
    BY CadenceAssumption
  <2>2. Offsets[i] \in Nat /\ Offsets[i] < Cycle /\ Cycle \in Nat
    BY <2>1, SlotsType, CadenceAssumption, TimeAssumption
  <2> SUFFICES ASSUME NEW t \in 0 .. Cycle - 1
               PROVE \E c \in {Offsets[i], Offsets[i] + Cycle} : c \in t .. t + Cycle
    BY <2>1
  <2> QED
    BY <2>2
<1>2. Wait = Min(W)
  BY DEF Wait
<1> HIDE DEF Comes
<1>3. Cycle \in W /\ W \in SUBSET Nat
  BY <1>1, TimeAssumption
<1>4. Wait \in W
  BY <1>2, <1>3, MinOf
<1>5. Wait \in Nat /\ Comes(Wait)
  BY <1>3, <1>4
<1> QED
  BY <1>5 DEF Comes

\* From any time of a stream, a slot of kind "current" is due within the wait.
LEMMA NextCurrent ==
  ASSUME NEW t \in Nat
  PROVE \E n \in Nat : Feed!KindOf(n) = "current" /\ t <= Target(n) /\ Target(n) <= t + Wait
<1>1. PICK q \in Nat, r \in 0 .. Cycle - 1 : t = q * Cycle + r /\ q * Cycle \in Nat
  BY Division, DivisionBounds, TimeAssumption
<1>2. PICK i \in 1 .. Slots : Kinds[i] = "current" /\
        \E c \in {Offsets[i], Offsets[i] + Cycle} : c \in r .. r + Wait
  BY <1>1, WaitIs
<1>3. i # 1 /\ i \in Nat /\ Offsets[i] \in Nat /\ Wait \in Nat /\ Cycle \in Nat
  BY <1>2, SlotsType, CadenceAssumption, TimeAssumption, WaitIs
<1>4. ASSUME NEW p \in Nat
      PROVE LET n == p * Slots + (i - 1) IN
            n \in Nat /\ Feed!KindOf(n) = "current" /\ Target(n) = p * Cycle + Offsets[i]
  <2> DEFINE n == p * Slots + (i - 1)
  <2>1. n \in Nat /\ (n % Slots) + 1 = i /\ Target(n) = p * Cycle + Offsets[i]
    BY SlotAt
  <2>2. n # 0
    BY <1>3, <2>1, SlotsType, Successor
  <2> QED
    BY <1>2, <2>1, <2>2, CadenceAssumption DEF Feed!KindOf
<1>5. CASE Offsets[i] \in r .. r + Wait
  <2>1. t <= q * Cycle + Offsets[i] /\ q * Cycle + Offsets[i] <= t + Wait
    BY <1>1, <1>3, <1>5
  <2> QED
    BY <1>4, <2>1
<1>6. CASE Offsets[i] + Cycle \in r .. r + Wait
  <2>1. (q + 1) * Cycle = q * Cycle + Cycle
    BY <1>3, Successor
  <2>2. t <= (q + 1) * Cycle + Offsets[i] /\ (q + 1) * Cycle + Offsets[i] <= t + Wait
    BY <1>1, <1>3, <1>6, <2>1
  <2> QED
    BY <1>4, <2>2
<1> QED
  BY <1>2, <1>5, <1>6

Young == (Tolerance + 1) * Second

\* The stream holds a signature made for its time at, or not long before.
Held(s, from) ==
  /\ s.sign \in Nat
  /\ s.select # None => s.base <= s.select
  /\ \E at \in Nat :
       /\ from + at < s.sign * Second + Young
       /\ IF s.select = None THEN at = s.base ELSE s.select <= at + Interval + Wait + Gap - 1

\* When the next selection may be made, in the stream's time.
Since(s) == IF s.select = None THEN 0 ELSE s.select - s.base

\* A slot that makes it comes within the wait, and a packet within a gap of it.
Awaits(s) ==
  \E n \in Nat : s.slot <= n /\ Feed!KindOf(n) = "current" /\ Target(n) <= Since(s) + Wait
Reached(s) == s.last - s.base < Since(s) + Wait + Gap

Fresh == ~fatal /\ run # Stopped => Held(stream, run.from) /\ Awaits(stream)

LEMMA YoungType ==
  ASSUME NEW k \in Nat
  PROVE /\ Young \in Nat /\ k * Second \in Nat /\ Young = Tolerance * Second + Second
        /\ Tolerance * Second \in Nat
BY Successor, TimeAssumption DEF Young

\* A signature that signature_near finds is young.
LEMMA Selected ==
  ASSUME now \in Nat, NEW k \in Nat, Distance(k, Clock) <= Tolerance
  PROVE now < k * Second + Young
<1>1. PICK q \in Nat : q = Clock /\ q * Second \in Nat /\ now < q * Second + Second
  BY DivisionBounds, TimeAssumption DEF Clock
<1>2. q <= k + Tolerance
  BY <1>1, TimeAssumption DEF Distance
<1>3. q * Second <= (k + Tolerance) * Second
  BY <1>1, <1>2, Product, TimeAssumption
<1>4. (k + Tolerance) * Second = k * Second + Tolerance * Second
  BY TimeAssumption
<1>5. PICK a \in Nat, b \in Nat : a = k * Second /\ b = Tolerance * Second /\ Young = b + Second
  BY YoungType
<1>6. q * Second <= a + b
  BY <1>3, <1>4, <1>5
<1> QED
  BY <1>1, <1>5, <1>6, TimeAssumption

\* What a packet waits for brings it within reach of the next selection.
LEMMA Reaching ==
  ASSUME NEW s, Ready(s), Awaits(s), s.select # None => s.base <= s.select
  PROVE Reached(s)
<1>1. PICK n \in Nat : s.slot <= n /\ Target(n) <= Since(s) + Wait
  BY DEF Awaits
<1>2. /\ s.slot \in Nat /\ s.base \in Nat /\ s.last \in Nat /\ Wait \in Nat
      /\ s.select \in Nat \cup {None} /\ Since(s) \in Nat
  BY WaitIs DEF Ready, Streams, Since
<1>3. CASE s.slot = 0
  BY <1>2, <1>3, TimeAssumption DEF Ready, Reached
<1>4. CASE s.slot > 0
  <2>1. s.last - s.base < Target(s.slot) + Gap
    BY <1>4 DEF Ready
  <2>2. Target(s.slot) <= Target(n) /\ Target(n) \in Nat /\ Target(s.slot) \in Nat
    BY <1>1, <1>2, TargetGrows, TargetType
  <2> QED
    BY <1>1, <1>2, <2>1, <2>2, TimeAssumption DEF Reached
<1> QED
  BY <1>2, <1>3, <1>4


\* A packet the signature reaches finds it no older than it may be.
LEMMA Aging ==
  ASSUME NEW s \in Streams, s.base \in Nat, s.last \in Nat, NEW from \in Nat,
         Held(s, from), Reached(s), now \in Nat, now <= from + s.last + Lag
  PROVE now - s.sign * Second < MaxAge
<1>1. PICK at \in Nat :
       /\ from + at < s.sign * Second + Young
       /\ IF s.select = None THEN at = s.base ELSE s.select <= at + Interval + Wait + Gap - 1
  BY DEF Held
<1>2. /\ s.sign * Second \in Nat /\ Young \in Nat /\ Wait \in Nat
      /\ s.select \in Nat \cup {None}
  BY YoungType, WaitIs DEF Held, Streams
<1>3. s.last <= at + Interval + 2 * (Wait + Gap - 1)
  <2>1. CASE s.select = None
    BY <1>1, <1>2, <2>1, TimeAssumption DEF Reached, Since
  <2>2. CASE s.select # None
    <3>1. s.last < s.select + Wait + Gap
      BY <1>2, <2>2, TimeAssumption DEF Reached, Since
    <3> QED
      BY <1>1, <1>2, <2>2, <3>1, TimeAssumption
  <2> QED
    BY <2>1, <2>2
<1>4. MaxAge = Interval + 2 * (Wait + Gap - 1) + Lag + Young
  BY DEF MaxAge, Young
<1> QED
  BY <1>1, <1>2, <1>3, <1>4, TimeAssumption

LEMMA Selecting ==
  ASSUME NEW s \in Streams, s.last \in Nat
  PROVE LET u == Refreshed(s) IN
        /\ u.select \in Nat /\ s.last < u.select
        /\ \/ s.select = None /\ u.sign = s.sign /\ u.select = s.last + Interval
           \/ s.select # None /\ u = s
           \/ s.select # None /\ u.sign = Near(Clock) /\ u.select <= s.last + Interval
<1>1. CASE s.select = None
  <2>1. Refreshed(s) = [s EXCEPT !.select = s.last + Interval]
    BY <1>1 DEF Refreshed
  <2> QED
    BY <1>1, <2>1, TimeAssumption DEF Streams
<1>2. CASE s.select # None /\ SelectDue(s)
  <2>1. s.select \in Nat /\ s.last - s.select \in Nat
    BY <1>2 DEF SelectDue, Streams
  <2>2. PICK q \in Nat : /\ q = (s.last - s.select) \div Interval /\ q * Interval \in Nat
                         /\ q * Interval <= s.last - s.select
                         /\ s.last - s.select < q * Interval + Interval
    BY <2>1, DivisionBounds, TimeAssumption
  <2>3. Interval * (q + 1) = q * Interval + Interval
    BY <2>2, TimeAssumption
  <2>4. Refreshed(s) = [s EXCEPT !.select = s.select + Interval * (q + 1), !.sign = Near(Clock)]
    BY <1>2, <2>2 DEF Refreshed
  <2>5. s.select + Interval * (q + 1) \in Nat
    BY <2>1, <2>2, <2>3, TimeAssumption
  <2>6. Refreshed(s).select = s.select + Interval * (q + 1) /\ Refreshed(s).sign = Near(Clock)
    BY <2>4 DEF Streams
  <2> QED
    BY <1>2, <2>1, <2>2, <2>3, <2>5, <2>6, TimeAssumption
<1>3. CASE s.select # None /\ ~SelectDue(s)
  BY <1>3 DEF Refreshed, SelectDue, Streams
<1> QED
  BY <1>1, <1>2, <1>3

\* refresh_signature_if_due leaves a signature that is as young as it should be.
LEMMA Renewing ==
  ASSUME NEW s \in Streams, s.base \in Nat, s.last \in Nat, s.base <= s.last, NEW from \in Nat,
         Held(s, from), Reached(s), now \in Nat, from + s.last <= now, now <= from + s.last + Lag,
         NEW u, u = Refreshed(s), u.sign # None,
         Near(Clock) \in Nat \cup {None},
         Near(Clock) # None => Distance(Near(Clock), Clock) <= Tolerance
  PROVE /\ Held([s EXCEPT !.sign = u.sign, !.select = u.select], from)
        /\ s.last < u.select /\ u.select \in Nat
        /\ now - u.sign * Second < MaxAge
<1> DEFINE v == [s EXCEPT !.sign = u.sign, !.select = u.select]
<1>1. /\ u.select \in Nat /\ s.last < u.select
      /\ \/ s.select = None /\ u.sign = s.sign /\ u.select = s.last + Interval
         \/ s.select # None /\ u = s
         \/ s.select # None /\ u.sign = Near(Clock) /\ u.select <= s.last + Interval
  BY Selecting
<1>2. /\ v.sign = u.sign /\ v.select = u.select /\ v.base = s.base /\ v.select # None
      /\ v.base <= v.select
  BY <1>1 DEF Streams, None
<1>3. now - s.sign * Second < MaxAge
  BY Aging
<1>4. Wait \in Nat /\ Young \in Nat
  BY WaitIs, YoungType
<1> HIDE DEF v
<1>5. CASE s.select = None /\ u.sign = s.sign /\ u.select = s.last + Interval
  <2>1. s.base \in Nat /\ from + s.base < s.sign * Second + Young /\ s.sign \in Nat
    BY <1>5 DEF Held
  <2>2. s.last < s.base + Wait + Gap
    BY <1>4, <1>5, TimeAssumption DEF Reached, Since
  <2>3. u.select <= s.base + Interval + Wait + Gap - 1
    BY <1>4, <1>5, <2>2, TimeAssumption
  <2>4. Held(v, from)
    BY <1>2, <1>5, <2>1, <2>3 DEF Held
  <2> QED
    BY <1>1, <1>3, <1>5, <2>4 DEF v
<1>6. CASE s.select # None /\ u = s
  <2>1. Held(v, from)
    BY <1>2, <1>6 DEF Held
  <2> QED
    BY <1>1, <1>3, <1>6, <2>1 DEF v
<1>7. CASE s.select # None /\ u.sign = Near(Clock) /\ u.select <= s.last + Interval
  <2>1. u.sign \in Nat /\ now < u.sign * Second + Young /\ u.sign * Second \in Nat
    BY <1>7, Selected, YoungType
  <2>2. from + s.last < u.sign * Second + Young
    BY <1>4, <2>1
  <2>3. u.select <= s.last + Interval + Wait + Gap - 1
    BY <1>1, <1>4, <1>7, TimeAssumption
  <2>4. Held(v, from)
    BY <1>2, <2>1, <2>2, <2>3 DEF Held
  <2>5. MaxAge = Interval + 2 * (Wait + Gap - 1) + Lag + Young
    BY DEF MaxAge, Young
  <2>6. now - u.sign * Second < MaxAge
    BY <1>4, <2>1, <2>5, TimeAssumption
  <2> QED
    BY <1>1, <2>4, <2>6 DEF v
<1> QED
  BY <1>1, <1>5, <1>6, <1>7

\* Inject refreshes the signature for the first "current" payload, and sends no
\* signature but the one before and the one after.
LEMMA Carrying ==
  ASSUME NEW s \in Streams, NEW kinds \in Seq(PayloadKinds), Inject(s, kinds), fatal' = FALSE,
         s.last \in Nat, Near(Clock) \in Nat \cup {None}
  PROVE LET u == Refreshed(s)
            current == \E i \in DOMAIN kinds : kinds[i] = "current"
        IN /\ current => u.sign # None /\ stream'.sign = u.sign /\ stream'.select = u.select
           /\ ~current => stream'.sign = s.sign /\ stream'.select = s.select
           /\ \A i \in DOMAIN sent' : Signed(sent'[i].kind) =>
                sent'[i].sign = s.sign \/ (current /\ sent'[i].sign = u.sign)
<1> DEFINE currents == {i \in DOMAIN kinds : kinds[i] = "current"}
           before(i) == \A c \in currents : i < c
           u == Refreshed(s)
           count == Len(kinds)
           v == IF currents = {} THEN s ELSE u
<1>1. /\ ~(currents # {} /\ u.sign = None)
      /\ stream' = [v EXCEPT !.index = @ + count]
      /\ sent' = [i \in 1 .. count |->
           Payload(IF before(i) THEN s ELSE v, kinds[i], s.index + i)]
  BY DEF Inject, Cut
<1>2. u = [s EXCEPT !.sign = u.sign, !.select = u.select]
  BY Refreshing
<1>3. stream'.sign = v.sign /\ stream'.select = v.select
  <2> HIDE DEF u
  <2>1. CASE currents = {}
    BY <1>1, <2>1 DEF Streams
  <2>2. CASE currents # {}
    <3>1. stream' = [u EXCEPT !.index = @ + count]
      BY <1>1, <2>2
    <3>2. stream'.sign = u.sign /\ stream'.select = u.select
      BY <1>2, <3>1 DEF Streams
    <3> QED
      BY <2>2, <3>2
  <2> QED
    BY <2>1, <2>2
<1>4. ASSUME NEW i \in DOMAIN sent', Signed(sent'[i].kind)
      PROVE sent'[i].sign = s.sign \/ sent'[i].sign = v.sign
  <2> HIDE DEF v, before
  <2>1. sent'[i] = Payload(IF before(i) THEN s ELSE v, kinds[i], s.index + i)
    BY <1>1, <1>4
  <2>2. sent'[i].kind = kinds[i]
        /\ sent'[i].sign = IF Signed(kinds[i]) THEN (IF before(i) THEN s ELSE v).sign ELSE None
    BY <2>1 DEF Payload
  <2> QED
    BY <1>4, <2>2
<1> HIDE DEF u
<1>5. currents # {} <=> \E i \in DOMAIN kinds : kinds[i] = "current"
  OBVIOUS
<1>6. v = IF currents = {} THEN s ELSE u
  OBVIOUS
<1> HIDE DEF currents, v
<1>7. CASE currents = {}
  BY <1>3, <1>4, <1>5, <1>6, <1>7 DEF u
<1>8. CASE currents # {}
  <2>1. v = u
    BY <1>6, <1>8
  <2> QED
    BY <1>1, <1>3, <1>4, <1>5, <1>8, <2>1 DEF u
<1> QED
  BY <1>7, <1>8

\* A packet leaves a stream that holds a young signature and awaits its successor,
\* and sends none that is too old.
LEMMA FreshPacket ==
  ASSUME IInv, ~fatal, NEW ts \in Nat, NEW from \in Nat, Transform(ts), fatal' = FALSE,
         from + ts <= now, now <= from + ts + Lag,
         \/ Broken(stream, ts) \/ stream.base = None
         \/ Held(stream, from) /\ Awaits(stream)
  PROVE /\ Held(stream', from) /\ Awaits(stream')
        /\ sent' # sent => \A i \in DOMAIN sent' :
             Signed(sent'[i].kind) => now - sent'[i].sign * Second < MaxAge
<1> DEFINE s == Entered(stream, ts)
           c == Cardinality(Due(s))
           t == Ensured(Taken(s))
           kinds == Payloads(s)
<1>1. /\ Ready(s) /\ s.last = ts
      /\ Broken(stream, ts) \/ stream.base = None => s.slot = 0
  BY Entering DEF IInv, TypeOK
<1>2. /\ c \in Nat /\ (Due(s) = {} <=> c = 0)
      /\ s.slot = 0 => c > 0
      /\ \A n \in Nat : n >= s.slot + c => Target(n) > s.last - s.base
      /\ c > 0 => Target(s.slot + c - 1) <= s.last - s.base
      /\ kinds = [i \in 1 .. c |-> Feed!KindOf(s.slot + i - 1)]
      /\ c > 0 => Taken(s) = [s EXCEPT !.slot = s.slot + c, !.startup = TRUE]
  BY <1>1, Taking
<1>3. /\ Near(Clock) \in Nat \cup {None} /\ now \in Nat
      /\ Near(Clock) # None => Distance(Near(Clock), Clock) <= Tolerance
  BY Nearest, ClockType DEF IInv, TypeOK, Supply
<1>4. /\ s \in Streams /\ s.base \in Nat /\ s.last \in Nat /\ s.slot \in Nat
      /\ s.base <= s.last /\ s.select \in Nat \cup {None} /\ s.sign \in Nat \cup {None}
  BY <1>1 DEF Ready, Streams
<1>5. Transform(ts) = IF Due(s) = {} THEN stream' = s /\ UNCHANGED <<fatal, sent>>
                      ELSE IF t.sign = None THEN Cut(t)
                      ELSE Inject(t, kinds)
  BY DEF Transform
\* The stream a packet goes on with holds what it held before.
<1>6. s.slot > 0 => Held(s, from) /\ Awaits(s)
  <2> SUFFICES ASSUME s.slot > 0 PROVE Held(s, from) /\ Awaits(s)
    OBVIOUS
  <2>1. ~Broken(stream, ts) /\ stream.base # None /\ Held(stream, from) /\ Awaits(stream)
    BY <1>1, <1>4
  <2>2. s = [stream EXCEPT !.last = ts]
    BY <2>1 DEF Entered, IInv, TypeOK, Streams
  <2>3. /\ s.base = stream.base /\ s.slot = stream.slot /\ s.sign = stream.sign
        /\ s.select = stream.select
    BY <2>2 DEF IInv, TypeOK, Streams
  <2> HIDE DEF s
  <2> QED
    BY <2>1, <2>3 DEF Held, Awaits, Since
<1>7. Awaits(s) /\ (s.select # None => s.base <= s.select)
  <2>1. CASE s.slot = 0
    <3>1. s.select = None
      BY <1>1, <2>1 DEF Ready
    <3>2. PICK n \in Nat : Feed!KindOf(n) = "current" /\ Target(n) <= 0 + Wait
      BY NextCurrent
    <3> QED
      BY <1>4, <2>1, <3>1, <3>2 DEF Awaits, Since
  <2>2. CASE s.slot > 0
    BY <1>6, <2>2 DEF Held
  <2> QED
    BY <1>4, <2>1, <2>2
<1>8. Reached(s)
  BY <1>1, <1>7, Reaching
<1> HIDE DEF s, c, t, kinds
<1>9. CASE Due(s) = {}
  <2>1. stream' = s /\ sent' = sent
    BY <1>5, <1>9
  <2>2. s.slot > 0
    BY <1>2, <1>4, <1>9
  <2> QED
    BY <1>6, <2>1, <2>2
<1>10. CASE Due(s) # {}
  <2>1. t.sign # None /\ Inject(t, kinds)
    BY <1>5, <1>10 DEF Cut
  <2>2. /\ t \in Streams /\ t.base = s.base /\ t.last = s.last /\ t.slot = s.slot + c
        /\ t.select = s.select /\ t.sign = IF s.sign # None THEN s.sign ELSE Near(Clock)
    <3>1. PICK r : r = [s EXCEPT !.slot = s.slot + c, !.startup = TRUE] /\ r = Taken(s)
      BY <1>2, <1>10
    <3>2. s.slot + c \in Nat
      BY <1>2, <1>4
    <3>3. /\ r \in Streams /\ r.base = s.base /\ r.last = s.last /\ r.slot = s.slot + c
          /\ r.select = s.select /\ r.sign = s.sign
      BY <1>4, <3>1, <3>2 DEF Streams
    <3>4. t = IF r.sign # None THEN r ELSE [r EXCEPT !.sign = Near(Clock)]
      BY <3>1 DEF t, Ensured
    <3> QED
      BY <1>3, <3>3, <3>4 DEF Streams
  <2>3. Held(t, from) /\ Reached(t)
    <3>1. Reached(t)
      BY <1>8, <2>2 DEF Reached, Since
    <3>2. CASE s.slot = 0
      <4>1. s.sign = None /\ s.select = None /\ s.base = s.last
        BY <1>1, <3>2 DEF Ready
      <4>2. t.sign \in Nat /\ now < t.sign * Second + Young
        BY <1>3, <2>1, <2>2, <4>1, Selected
      <4>3. from + s.base < t.sign * Second + Young
        BY <1>1, <1>3, <1>4, <4>1, <4>2, YoungType
      <4>4. Held(t, from)
        BY <1>4, <2>2, <4>1, <4>2, <4>3 DEF Held
      <4> QED
        BY <3>1, <4>4
    <3>3. CASE s.slot > 0
      <4>1. Held(s, from) /\ s.sign # None
        BY <1>6, <3>3 DEF Held, None
      <4>2. Held(t, from)
        BY <2>2, <4>1 DEF Held
      <4> QED
        BY <3>1, <4>2
    <3> QED
      BY <1>4, <3>2, <3>3
  <2>4. kinds \in Seq(PayloadKinds) /\ DOMAIN kinds = 1 .. c /\ Len(kinds) = c
    <3>1. ASSUME NEW i \in 1 .. c PROVE Feed!KindOf(s.slot + i - 1) \in PayloadKinds
      <4>1. s.slot + i - 1 \in Nat
        BY <1>2, <1>4
      <4> QED
        BY <4>1, KindsType
    <3>2. kinds \in [1 .. c -> PayloadKinds]
      BY <1>2, <3>1
    <3> QED
      BY <1>2, <3>2, Listing
  <2> DEFINE u == Refreshed(t)
             current == \E i \in DOMAIN kinds : kinds[i] = "current"
  <2>5. /\ current => u.sign # None /\ stream'.sign = u.sign /\ stream'.select = u.select
        /\ ~current => stream'.sign = t.sign /\ stream'.select = t.select
        /\ \A i \in DOMAIN sent' : Signed(sent'[i].kind) =>
             sent'[i].sign = t.sign \/ (current /\ sent'[i].sign = u.sign)
    BY <1>3, <1>4, <2>1, <2>2, <2>4, Carrying
  <2>6. stream'.base = t.base /\ stream'.slot = t.slot
    <3>1. stream' = [t EXCEPT !.index = t.index + Len(kinds),
                              !.sign = stream'.sign, !.select = stream'.select]
      BY <1>3, <1>4, <2>1, <2>2, <2>4, Injecting
    <3> QED
      BY <2>2, <3>1 DEF Streams
  <2>7. now - t.sign * Second < MaxAge
    BY <1>1, <1>3, <1>4, <2>2, <2>3, Aging
  <2>8. CASE ~current
    <3>1. Held(stream', from)
      BY <2>3, <2>5, <2>6, <2>8 DEF Held
    <3>2. Awaits(stream')
      <4>1. PICK n \in Nat : s.slot <= n /\ Feed!KindOf(n) = "current" /\ Target(n) <= Since(s) + Wait
        BY <1>7 DEF Awaits
      <4>2. n >= s.slot + c
        <5> SUFFICES ASSUME n < s.slot + c PROVE FALSE
          BY <1>2, <1>4
        <5>0. s.slot \in Nat /\ c \in Nat /\ s.slot <= n
          BY <1>2, <1>4, <4>1
        <5>1. n - s.slot + 1 \in 1 .. c /\ s.slot + (n - s.slot + 1) - 1 = n
          BY <5>0
        <5>2. kinds[n - s.slot + 1] = "current"
          BY <1>2, <4>1, <5>1
        <5> QED
          BY <2>4, <2>8, <5>1, <5>2
      <4>3. Since(stream') = Since(s) /\ stream'.slot = s.slot + c
        BY <2>2, <2>5, <2>6, <2>8 DEF Since
      <4> QED
        BY <4>1, <4>2, <4>3 DEF Awaits
    <3> QED
      BY <2>5, <2>7, <2>8, <3>1, <3>2
  <2>9. CASE current
    <3> HIDE DEF current
    <3>1. /\ Held([t EXCEPT !.sign = u.sign, !.select = u.select], from)
          /\ t.last < u.select /\ u.select \in Nat
          /\ now - u.sign * Second < MaxAge
      <4>1. u.sign # None
        BY <2>5, <2>9
      <4> QED
        BY <1>1, <1>3, <1>4, <2>2, <2>3, <4>1, Renewing
    <3> HIDE DEF u
    <3>2. Held(stream', from)
      <4> DEFINE v == [t EXCEPT !.sign = u.sign, !.select = u.select]
      <4>1. v.sign = stream'.sign /\ v.select = stream'.select /\ v.base = stream'.base
        BY <2>2, <2>5, <2>6, <2>9 DEF Streams
      <4>2. Held(v, from)
        BY <3>1
      <4> HIDE DEF v
      <4> QED
        BY <4>1, <4>2 DEF Held
    <3>3. Awaits(stream')
      <4>1. u.select - s.base \in Nat /\ s.last - s.base < u.select - s.base
        BY <1>4, <2>2, <3>1
      <4>2. PICK n \in Nat : /\ Feed!KindOf(n) = "current" /\ u.select - s.base <= Target(n)
                             /\ Target(n) <= u.select - s.base + Wait
        BY <4>1, NextCurrent
      <4>3. n >= s.slot + c
        <5> SUFFICES ASSUME n < s.slot + c PROVE FALSE
          BY <1>2, <1>4
        <5>1. s.slot + c - 1 \in Nat /\ n <= s.slot + c - 1 /\ c > 0
          BY <1>2, <1>4, <1>10
        <5>2. Target(n) <= Target(s.slot + c - 1)
          BY <5>1, TargetGrows
        <5>3. Target(n) \in Nat /\ Target(s.slot + c - 1) \in Nat
          BY <5>1, TargetType
        <5>4. Target(s.slot + c - 1) <= s.last - s.base
          BY <1>2, <5>1
        <5> QED
          BY <1>4, <4>1, <4>2, <5>2, <5>3, <5>4
      <4>4. Since(stream') = u.select - s.base /\ stream'.slot = s.slot + c
        BY <2>2, <2>5, <2>6, <2>9, <3>1 DEF Since, None
      <4> QED
        BY <4>2, <4>3, <4>4 DEF Awaits
    <3> QED
      BY <2>5, <2>7, <3>1, <3>2, <3>3
  <2> QED
    BY <2>8, <2>9
<1> QED
  BY <1>9, <1>10

\* A stream keeps its signature young, and its packets carry none that is not.
LEMMA FreshNext ==
  ASSUME IInv, Fresh, [Next]_vars
  PROVE /\ Fresh'
        /\ sent' # sent => \A i \in DOMAIN sent' :
             Signed(sent'[i].kind) => now - sent'[i].sign * Second < MaxAge
<1>1. CASE Packet
  <2>1. PICK lag \in 0 .. Lag : LET ts == IF run = Stopped THEN 0 ELSE now - run.from - lag IN
         /\ ts >= run.last
         /\ run' = IF run = Stopped THEN [from |-> now, last |-> 0] ELSE [run EXCEPT !.last = ts]
         /\ Transform(ts)
    BY <1>1 DEF Packet
  <2>2. PICK ts : /\ ts = IF run = Stopped THEN 0 ELSE now - run.from - lag
                  /\ ts >= run.last /\ Transform(ts)
                  /\ run' = IF run = Stopped THEN [from |-> now, last |-> 0] ELSE [run EXCEPT !.last = ts]
    BY <2>1
  <2>3. ~fatal /\ UNCHANGED <<cache, now, main, newest>> /\ now \in Nat
        /\ run \in [from : Nat \cup {None}, last : Nat \cup {None}]
    BY <1>1 DEF Packet, IInv, TypeOK
  <2>4. ts \in Nat
    BY <2>2, TimeAssumption DEF IInv, TypeOK, Times
  <2>5. /\ run'.from \in Nat /\ run'.from + ts <= now /\ now <= run'.from + ts + Lag
        /\ run # Stopped => run'.from = run.from
    <3>1. CASE run = Stopped
      <4>1. run'.from = now /\ ts = 0
        BY <2>2, <3>1
      <4> QED
        BY <2>3, <3>1, <4>1, TimeAssumption
    <3>2. CASE run # Stopped
      <4>1. run'.from = run.from /\ ts = now - run.from - lag /\ run.from \in Nat
        BY <2>2, <2>3, <3>2 DEF IInv, Times
      <4> QED
        BY <2>3, <4>1, TimeAssumption
    <3> QED
      BY <3>1, <3>2
  <2>6. fatal' \in BOOLEAN /\ ([Feed!Next]_<<sent, fatal>>)
    BY <1>1, PacketInv DEF IInv, TypeOK
  <2>7. CASE fatal'
    <3>1. sent' = sent
      <4>1. fatal' = TRUE /\ fatal = FALSE
        BY <2>3, <2>6, <2>7 DEF IInv, TypeOK
      <4> QED
        BY <2>6, <4>1 DEF Feed!Next, Feed!Begin, Feed!Continue, Feed!Cut
    <3> QED
      BY <2>7, <3>1 DEF Fresh
  <2>8. CASE ~fatal'
    <3>1. fatal' = FALSE
      BY <2>6, <2>8
    <3>2. \/ Broken(stream, ts) \/ stream.base = None
          \/ Held(stream, run'.from) /\ Awaits(stream)
      <4>1. CASE run = Stopped
        <5>1. ts = 0 /\ (stream.base # None => stream.last > 0)
          BY <2>2, <2>3, <4>1 DEF IInv, Following
        <5> QED
          BY <5>1 DEF Broken
      <4>2. CASE run # Stopped
        BY <2>3, <2>5, <4>2 DEF Fresh
      <4> QED
        BY <4>1, <4>2
    <3>3. /\ Held(stream', run'.from) /\ Awaits(stream')
          /\ sent' # sent => \A i \in DOMAIN sent' :
               Signed(sent'[i].kind) => now - sent'[i].sign * Second < MaxAge
      BY <2>2, <2>3, <2>4, <2>5, <3>1, <3>2, FreshPacket
    <3> QED
      BY <3>3 DEF Fresh, Held, Awaits, Since
  <2> QED
    BY <2>7, <2>8
<1>2. CASE BadPacket
  BY <1>2 DEF BadPacket, Cut, Fresh
<1>3. ASSUME NEW batch \in Batches, Merge(batch)
      PROVE Fresh' /\ sent' = sent
  <2>1. UNCHANGED <<stream, fatal, sent, now, main, run>>
    BY <1>3 DEF Merge
  <2> QED
    BY <2>1 DEF Fresh, Held, Awaits, Since
<1>4. CASE Restart
  <2>1. run' = Stopped /\ sent' = sent
    BY <1>4 DEF Restart
  <2> QED
    BY <2>1 DEF Fresh
<1>5. CASE Elapse
  <2>1. UNCHANGED <<stream, fatal, sent, run>>
    BY <1>5 DEF Elapse
  <2> QED
    BY <2>1 DEF Fresh, Held, Awaits, Since
<1>6. CASE UNCHANGED vars
  BY <1>6 DEF vars, Fresh, Held, Awaits, Since
<1> QED
  BY <1>1, <1>2, <1>3, <1>4, <1>5, <1>6 DEF Next

\* Wherever the cadence has its "current" slots, a packet carries no signature
\* that was made more than a selection interval, two waits and two gaps ago.
THEOREM SignaturesCurrent == Spec => SignatureCurrent
<1>1. Init => Fresh
  BY DEF Init, Fresh
<1>2. IInv /\ Fresh /\ [Next]_vars => Fresh'
  BY FreshNext
<1>3. IInv /\ Fresh /\ [Next]_vars =>
        [sent' # sent => \A i \in DOMAIN sent' :
           Signed(sent'[i].kind) => now - sent'[i].sign * Second < MaxAge]_vars
  BY FreshNext
<1> QED
  BY <1>1, <1>2, <1>3, Invariant, PTL DEF Spec, SignatureCurrent
=============================================================================

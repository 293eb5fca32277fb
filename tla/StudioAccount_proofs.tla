------------------------ MODULE StudioAccount_proofs ------------------------
(* The keyring store keeps the promise of SavedLogin, for jars of every size, *)
(* whatever the keyring refuses and wherever the program crashes, and a save  *)
(* that returned left nothing of another jar where it is read; so it does     *)
(* under every caller of the dock. A login that several profiles use outlives *)
(* the deletion of one; and the deletion of the last leaves nothing of it,    *)
(* which only the answer to a request nobody waits for can save again.        *)
EXTENDS StudioAccount, FiniteSetTheorems, TLAPS

(* The chunks the metadata names are of one jar, which some removals may have *)
(* opened gaps in. *)
Whole(jar) ==
  /\ Size[jar] = metadata.chunks
  /\ \A e \in Holding(metadata) : cookies[e] \in {jar, NoJar}
Readable == metadata # Nothing => \E jar \in Jars \cup {NoJar} : Whole(jar)

(* A save writes the set the metadata does not name, in order, and the device *)
(* it will switch to is the registered one. *)
Writes ==
  writing # Nothing =>
    /\ clearing = {} /\ ~removing
    /\ writing.next <= Size[writing.jar] /\ Size[writing.jar] <= MaxChunks
    /\ \A i \in 0 .. MaxChunks - 1 : i < writing.next => cookies[<<writing.set, i>>] = writing.jar
    /\ metadata # Nothing =>
         /\ writing.set # metadata.set
         /\ metadata.device # NoDevice => writing.device = metadata.device

(* Only a deletion removes the entries the metadata names. *)
Spares == ~removing => clearing \cap Holding(metadata) = {}

StoreInv == TypeOK /\ Readable /\ Writes /\ Spares

-----------------------------------------------------------------------------
LEMMA SpanEntries ==
  ASSUME NEW set \in Sets, NEW a, NEW b
  PROVE  /\ Span(set, a, b) \subseteq Entries
         /\ \A e \in Entries : e \in Span(set, a, b) <=> e[1] = set /\ a <= e[2] /\ e[2] < b
BY DEF Span, Entries, Sets

LEMMA HoldingEntries ==
  ASSUME NEW entry \in Metadata \cup {Nothing}
  PROVE  /\ Holding(entry) \subseteq Entries
         /\ \A e \in Entries : entry # Nothing =>
              (e \in Holding(entry) <=> e[1] = entry.set /\ e[2] < entry.chunks)
<1>1. CASE entry = Nothing
  BY <1>1 DEF Holding
<1>2. CASE entry # Nothing
  <2>1. entry.set \in Sets /\ entry.chunks \in 0 .. MaxChunks
    BY <1>2 DEF Metadata
  <2>2. Holding(entry) = Span(entry.set, 0, entry.chunks)
    BY <1>2 DEF Holding
  <2>3. \A e \in Entries : 0 <= e[2]
    BY DEF Entries
  <2>. QED
    BY <2>1, <2>2, <2>3, SpanEntries
<1>. QED
  BY <1>1, <1>2

\* What a load returns of entries of one jar, some of which may be missing.
LEMMA ReadWhole ==
  ASSUME NEW entry \in Metadata, NEW chunk \in [Entries -> Jars \cup {NoJar}],
         NEW jar \in Jars \cup {NoJar}, Size[jar] = entry.chunks,
         \A e \in Holding(entry) : chunk[e] \in {jar, NoJar}
  PROVE  JarRead(entry, chunk) = IF \E e \in Holding(entry) : chunk[e] = NoJar THEN NoJar ELSE jar
<1>. DEFINE held == Holding(entry)
            first == chunk[<<entry.set, 0>>]
<1>0. entry # Nothing /\ entry.set \in Sets /\ entry.chunks \in 0 .. MaxChunks /\ MaxChunks \in Nat
  BY StoreAssumption DEF Metadata
<1>1. CASE \E e \in held : chunk[e] = NoJar
  BY <1>1 DEF JarRead
<1>2. CASE ~\E e \in held : chunk[e] = NoJar
  <2>1. \A e \in held : chunk[e] = jar
    BY <1>2
  <2>2. CASE held = {}
    <3>1. entry.chunks = 0
      <4>1. SUFFICES ASSUME entry.chunks > 0 PROVE FALSE
        BY <1>0
      <4>2. <<entry.set, 0>> \in Entries
        BY <4>1, <1>0 DEF Entries
      <4>3. <<entry.set, 0>> \in held
        BY <4>1, <4>2, <1>0, HoldingEntries
      <4>. QED
        BY <4>3, <2>2
    <3>2. jar = NoJar
      BY <3>1, StoreAssumption
    <3>. QED
      BY <2>2, <3>2 DEF JarRead
  <2>3. CASE held # {}
    <3>1. entry.chunks > 0
      <4>1. PICK e \in held : TRUE
        BY <2>3
      <4>2. e \in Entries /\ e[2] \in Nat /\ e[2] < entry.chunks
        BY <4>1, <1>0, HoldingEntries DEF Entries
      <4>. QED
        BY <4>2, <1>0
    <3>2. <<entry.set, 0>> \in Entries
      BY <3>1, <1>0 DEF Entries
    <3>3. <<entry.set, 0>> \in held
      BY <3>1, <3>2, <1>0, HoldingEntries
    <3>4. first = jar
      BY <3>3, <2>1
    <3>. QED
      BY <1>2, <2>1, <2>3, <3>4 DEF JarRead
  <2>. QED
    BY <2>2, <2>3
<1>. QED
  BY <1>1, <1>2

-----------------------------------------------------------------------------
(* Steps that leave the metadata and the entries it names alone. *)
LEMMA ReadableStays ==
  ASSUME StoreInv, UNCHANGED metadata, cookies' \in [Entries -> Jars \cup {NoJar}],
         \A e \in Holding(metadata) : cookies'[e] = cookies[e] \/ cookies'[e] = NoJar
  PROVE  Readable'
<1>. SUFFICES ASSUME metadata # Nothing
              PROVE  \E jar \in Jars \cup {NoJar} : Whole(jar)'
  BY DEF Readable
<1>1. PICK jar \in Jars \cup {NoJar} : Whole(jar)
  BY DEF StoreInv, Readable
<1>2. Holding(metadata)' = Holding(metadata)
  BY DEF Holding, Span
<1>3. Whole(jar)'
  BY <1>1, <1>2 DEF Whole
<1>. QED
  BY <1>3

LEMMA LoadedStays ==
  ASSUME StoreInv, UNCHANGED metadata, cookies' \in [Entries -> Jars \cup {NoJar}],
         \A e \in Holding(metadata) : cookies'[e] = cookies[e]
  PROVE  Loaded' = Loaded
<1>1. CASE metadata = Nothing
  BY <1>1 DEF Loaded
<1>2. CASE metadata # Nothing
  <2>1. metadata \in Metadata /\ cookies \in [Entries -> Jars \cup {NoJar}]
    BY <1>2 DEF StoreInv, TypeOK
  <2>2. PICK jar \in Jars \cup {NoJar} : Whole(jar)
    BY <1>2 DEF StoreInv, Readable
  <2>3. JarRead(metadata, cookies) = IF \E e \in Holding(metadata) : cookies[e] = NoJar THEN NoJar ELSE jar
    BY <2>1, <2>2, ReadWhole DEF Whole
  <2>4. JarRead(metadata, cookies') = IF \E e \in Holding(metadata) : cookies'[e] = NoJar THEN NoJar ELSE jar
    BY <2>1, <2>2, ReadWhole DEF Whole
  <2>5. JarRead(metadata, cookies') = JarRead(metadata, cookies)
    BY <2>3, <2>4
  <2>. QED
    BY <1>2, <2>5 DEF Loaded, JarRead, Holding, Span
<1>. QED
  BY <1>1, <1>2

\* A load finds a login where there is metadata, and the device in it.
LEMMA LoadedLogin ==
  ASSUME StoreInv, metadata # Nothing
  PROVE  Loaded \in Logins /\ Loaded # Nothing /\ Loaded.device = metadata.device
<1>1. PICK jar \in Jars \cup {NoJar} : Whole(jar)
  BY DEF StoreInv, Readable
<1>2. JarRead(metadata, cookies) \in Jars \cup {NoJar}
  BY <1>1, ReadWhole DEF Whole, StoreInv, TypeOK
<1>3. Loaded = [device |-> metadata.device, jar |-> JarRead(metadata, cookies)]
  BY DEF Loaded
<1>4. Loaded \in Logins
  BY <1>2, <1>3 DEF StoreInv, TypeOK, Metadata, Logins
<1>. QED
  BY <1>3, <1>4, StoreAssumption

\* The save under way is to leave a login.
LEMMA ToSaveLogin ==
  ASSUME writing \in Saves
  PROVE  /\ ToSave = [device |-> writing.device, jar |-> writing.jar]
         /\ ToSave \in Logins /\ ToSave # Nothing
<1>1. writing # Nothing /\ [device |-> writing.device, jar |-> writing.jar] \in Logins
  BY StoreAssumption DEF Saves, Logins
<1>. QED
  BY <1>1, StoreAssumption DEF ToSave

-----------------------------------------------------------------------------
LEMMA StoreInit == InitStore => StoreInv /\ Loaded = Nothing
BY StoreAssumption DEF InitStore, StoreInv, TypeOK, Readable, Writes, Spares, Loaded, Holding

LEMMA BeginSaveStep ==
  ASSUME StoreInv, NEW offered \in Logins, BeginSave(offered)
  PROVE  StoreInv' /\ Loaded' = Loaded /\ removing' = removing
<1>1. /\ UNCHANGED <<metadata, cookies, clearing, removing, refused>> /\ Idle
      /\ result' \in {"none", "failed"}
  BY DEF BeginSave
<1>2. cookies \in [Entries -> Jars \cup {NoJar}]
  BY DEF StoreInv, TypeOK
<1>3. Loaded' = Loaded /\ Readable'
  BY <1>1, <1>2, LoadedStays, ReadableStays
<1>4. Spares'
  BY <1>1 DEF StoreInv, Spares, Holding, Span
<1>5. CASE writing' = writing
  BY <1>1, <1>3, <1>4, <1>5 DEF StoreInv, TypeOK, Writes, Idle
<1>6. CASE Size[offered.jar] <= MaxChunks
           /\ writing' = [device |-> KeptDevice(offered.device), jar |-> offered.jar,
                          set |-> CookieSet, next |-> 0]
  <2>1. offered.jar \in Jars \cup {NoJar} /\ Size[offered.jar] \in Nat /\ MaxChunks \in Nat
    BY StoreAssumption DEF Logins
  <2>2. KeptDevice(offered.device) \in Devices \cup {NoDevice} /\ CookieSet \in Sets
    BY DEF KeptDevice, CookieSet, StoreInv, TypeOK, Metadata, Logins, Sets
  <2>3. writing' \in Saves
    BY <1>6, <2>1, <2>2 DEF Saves
  <2>4. metadata # Nothing =>
          /\ CookieSet # metadata.set
          /\ metadata.device # NoDevice => KeptDevice(offered.device) = metadata.device
    BY DEF KeptDevice, CookieSet, StoreInv, TypeOK, Metadata, Sets
  <2>5. TypeOK'
    BY <1>1, <2>3 DEF StoreInv, TypeOK
  <2>6. Writes'
    <3>1. \A i \in 0 .. MaxChunks - 1 : ~(i < 0)
      OBVIOUS
    <3>. QED
      BY <1>1, <1>6, <2>1, <2>4, <3>1 DEF Writes, Idle
  <2>. QED
    BY <1>1, <1>3, <1>4, <2>5, <2>6 DEF StoreInv
<1>7. Size[offered.jar] \in Nat /\ MaxChunks \in Nat
  BY StoreAssumption DEF Logins
<1>. QED
  BY <1>5, <1>6, <1>7 DEF BeginSave

\* A chunk goes to the set that is not read.
LEMMA WriteChunkStep ==
  ASSUME StoreInv, WriteChunk
  PROVE  StoreInv' /\ Loaded' = Loaded /\ removing' = removing /\ ToSave' = ToSave
<1>. DEFINE at == <<writing.set, writing.next>>
<1>0. writing # Nothing /\ writing \in Saves /\ MaxChunks \in Nat /\ Size[writing.jar] \in Nat
  BY StoreAssumption DEF WriteChunk, StoreInv, TypeOK, Saves
<1>1. /\ writing.next < Size[writing.jar] /\ Size[writing.jar] <= MaxChunks
      /\ clearing = {} /\ ~removing
  BY <1>0 DEF WriteChunk, Written, StoreInv, Writes, Saves
<1>2. at \in Entries
  BY <1>0, <1>1 DEF Saves, Entries
<1>3. /\ cookies' = [cookies EXCEPT ![at] = writing.jar]
      /\ writing' = [writing EXCEPT !.next = @ + 1]
      /\ refused' = refused \ {at}
      /\ UNCHANGED <<metadata, clearing, removing, result>>
  BY DEF WriteChunk
<1>4. at \notin Holding(metadata)
  <2>1. CASE metadata = Nothing
    BY <2>1 DEF Holding
  <2>2. CASE metadata # Nothing
    BY <1>0, <1>2, <2>2, HoldingEntries DEF StoreInv, Writes, TypeOK
  <2>. QED
    BY <2>1, <2>2
<1>5. /\ cookies' \in [Entries -> Jars \cup {NoJar}]
      /\ \A e \in Entries : cookies'[e] = IF e = at THEN writing.jar ELSE cookies[e]
  BY <1>0, <1>3 DEF StoreInv, TypeOK, Saves
<1>6. \A e \in Holding(metadata) : cookies'[e] = cookies[e]
  BY <1>4, <1>5, HoldingEntries DEF StoreInv, TypeOK
<1>7. Loaded' = Loaded /\ Readable'
  BY <1>3, <1>5, <1>6, LoadedStays, ReadableStays
<1>8. /\ writing' \in Saves /\ writing'.jar = writing.jar /\ writing'.set = writing.set
      /\ writing'.device = writing.device /\ writing'.next = writing.next + 1
  BY <1>0, <1>1, <1>3 DEF Saves
<1>9. TypeOK' /\ ToSave' = ToSave
  BY <1>0, <1>3, <1>5, <1>8, StoreAssumption DEF StoreInv, TypeOK, ToSave
<1>10. Writes'
  <2>1. ASSUME NEW i \in 0 .. MaxChunks - 1, i < writing.next + 1
        PROVE  cookies'[<<writing.set, i>>] = writing.jar
    <3>1. <<writing.set, i>> \in Entries
      BY <1>0 DEF Saves, Entries
    <3>2. CASE i = writing.next
      BY <3>1, <3>2, <1>5
    <3>3. CASE i # writing.next
      <4>1. i < writing.next
        BY <2>1, <3>3, <1>0 DEF Saves
      <4>. QED
        BY <4>1, <3>1, <1>5, <1>0 DEF StoreInv, Writes
    <3>. QED
      BY <3>2, <3>3
  <2>2. writing.next + 1 <= Size[writing.jar]
    BY <1>0, <1>1 DEF Saves
  <2>. QED
    BY <1>0, <1>1, <1>3, <1>8, <2>1, <2>2 DEF StoreInv, Writes
<1>11. Spares'
  BY <1>1, <1>3 DEF Spares
<1>. QED
  BY <1>3, <1>7, <1>9, <1>10, <1>11 DEF StoreInv

\* The switch: what the written set holds becomes the login.
LEMMA WriteMetadataStep ==
  ASSUME StoreInv, WriteMetadata
  PROVE  /\ StoreInv' /\ ~removing /\ UNCHANGED removing
         /\ writing # Nothing /\ writing \in Saves
         /\ Loaded' = [device |-> writing.device, jar |-> writing.jar]
         /\ metadata' # Nothing /\ metadata'.device = writing.device
<1>0. writing # Nothing /\ writing \in Saves /\ MaxChunks \in Nat /\ Size[writing.jar] \in Nat
  BY StoreAssumption DEF WriteMetadata, StoreInv, TypeOK, Saves
<1>1. /\ writing.next = Size[writing.jar] /\ Size[writing.jar] <= MaxChunks
      /\ clearing = {} /\ ~removing
  BY <1>0 DEF WriteMetadata, Written, StoreInv, Writes
<1>2. /\ metadata' = [device |-> writing.device, chunks |-> Size[writing.jar], set |-> writing.set]
      /\ refused' = refused \ {MetadataEntry}
      /\ clearing' = Holding(metadata) \cup Span(writing.set, Size[writing.jar], MaxChunks)
      /\ writing' = Nothing /\ result' = "saved" /\ UNCHANGED <<cookies, removing>>
  BY DEF WriteMetadata
<1>3. metadata' \in Metadata /\ metadata' # Nothing
  BY <1>0, <1>1, <1>2, StoreAssumption DEF Metadata, Saves
<1>4. \A e \in Holding(metadata)' : cookies[e] = writing.jar
  <2>. SUFFICES ASSUME NEW e \in Holding(metadata') PROVE cookies[e] = writing.jar
    BY DEF Holding, Span
  <2>1. e \in Entries /\ e[1] = writing.set /\ e[2] < Size[writing.jar]
    BY <1>2, <1>3, HoldingEntries
  <2>2. e = <<writing.set, e[2]>> /\ e[2] \in 0 .. MaxChunks - 1
    BY <2>1 DEF Entries
  <2>. QED
    BY <1>0, <1>1, <2>1, <2>2 DEF StoreInv, Writes
<1>5. writing.jar \in Jars \cup {NoJar} /\ Size[writing.jar] = metadata'.chunks
  BY <1>0, <1>2 DEF Saves
<1>6. Holding(metadata)' = Holding(metadata')
  BY DEF Holding, Span
<1>7. Readable'
  BY <1>2, <1>4, <1>5, <1>6 DEF Readable, Whole
<1>8. Loaded' = [device |-> writing.device, jar |-> writing.jar]
  <2>1. cookies \in [Entries -> Jars \cup {NoJar}]
    BY DEF StoreInv, TypeOK
  <2>2. JarRead(metadata', cookies)
          = IF \E e \in Holding(metadata') : cookies[e] = NoJar THEN NoJar ELSE writing.jar
    BY <1>3, <1>4, <1>5, <1>6, <2>1, ReadWhole
  <2>3. JarRead(metadata', cookies) = writing.jar
    BY <1>4, <1>6, <2>2
  <2>4. Loaded' = [device |-> metadata'.device, jar |-> JarRead(metadata', cookies')]
    BY <1>3 DEF Loaded, JarRead, Holding, Span
  <2>. QED
    BY <1>2, <2>3, <2>4
<1>9. clearing' \subseteq Entries
  <2>1. Span(writing.set, Size[writing.jar], MaxChunks) \subseteq Entries
    BY <1>0, SpanEntries DEF Saves
  <2>2. Holding(metadata) \subseteq Entries
    BY HoldingEntries DEF StoreInv, TypeOK
  <2>. QED
    BY <1>2, <2>1, <2>2
<1>10. TypeOK'
  BY <1>2, <1>3, <1>9 DEF StoreInv, TypeOK
<1>11. Writes'
  BY <1>2 DEF Writes
<1>12. Spares'
  <2>. SUFFICES ASSUME NEW e \in Holding(metadata'), e \in clearing' PROVE FALSE
    BY <1>6 DEF Spares
  <2>1. e \in Entries /\ e[1] = writing.set /\ e[2] < Size[writing.jar] /\ e[2] \in Nat
    BY <1>2, <1>3, HoldingEntries DEF Entries
  <2>2. CASE e \in Span(writing.set, Size[writing.jar], MaxChunks)
    BY <1>0, <2>1, <2>2, SpanEntries DEF Saves
  <2>3. CASE e \in Holding(metadata)
    <3>1. metadata # Nothing /\ metadata \in Metadata
      BY <2>3 DEF Holding, StoreInv, TypeOK
    <3>2. e[1] = metadata.set
      BY <2>1, <2>3, <3>1, HoldingEntries
    <3>. QED
      BY <1>0, <2>1, <3>1, <3>2 DEF StoreInv, Writes
  <2>. QED
    BY <1>2, <2>2, <2>3
<1>. QED
  BY <1>0, <1>1, <1>2, <1>3, <1>7, <1>8, <1>10, <1>11, <1>12 DEF StoreInv

\* A failed save removes only entries of the set it wrote.
LEMMA WriteFailsStep ==
  ASSUME StoreInv, WriteFails
  PROVE  StoreInv' /\ Loaded' = Loaded /\ removing' = removing
<1>. DEFINE end == IF Written THEN Size[writing.jar] ELSE writing.next + 1
<1>0. writing # Nothing /\ writing \in Saves
  BY DEF WriteFails, StoreInv, TypeOK
<1>1. /\ clearing' = Span(writing.set, 0, end)
      /\ writing' = Nothing /\ result' = "failed"
      /\ UNCHANGED <<metadata, cookies, removing, refused>>
  BY DEF WriteFails
<1>2. clearing' \subseteq Entries /\ \A e \in clearing' : e[1] = writing.set
  BY <1>0, <1>1, SpanEntries DEF Saves
<1>3. Loaded' = Loaded /\ Readable'
  BY <1>1, LoadedStays, ReadableStays DEF StoreInv, TypeOK
<1>4. TypeOK'
  BY <1>1, <1>2 DEF StoreInv, TypeOK
<1>5. Writes'
  BY <1>1 DEF Writes
<1>6. clearing' \cap Holding(metadata) = {}
  <2>. SUFFICES ASSUME NEW e \in Holding(metadata), e \in clearing' PROVE FALSE
    OBVIOUS
  <2>1. metadata # Nothing /\ metadata \in Metadata
    BY DEF Holding, StoreInv, TypeOK
  <2>2. e \in Entries /\ e[1] = metadata.set /\ e[1] = writing.set
    BY <1>2, <2>1, HoldingEntries
  <2>. QED
    BY <1>0, <2>1, <2>2 DEF StoreInv, Writes
<1>7. Spares'
  BY <1>1, <1>6 DEF Spares, Holding, Span
<1>. QED
  BY <1>1, <1>3, <1>4, <1>5, <1>7 DEF StoreInv

\* While an account is deleted its login loses its cookies, at most.
LEMMA ClearNextStep ==
  ASSUME StoreInv, ClearNext
  PROVE  /\ StoreInv' /\ UNCHANGED <<metadata, removing>>
         /\ \/ Loaded' = Loaded
            \/ removing /\ Loaded # Nothing /\ Loaded' = [Loaded EXCEPT !.jar = NoJar]
<1>1. PICK e \in clearing :
        /\ clearing' = clearing \ {e}
        /\ \/ cookies' = [cookies EXCEPT ![e] = NoJar] /\ refused' = refused \ {e}
           \/ refused' = refused \cup {e} /\ UNCHANGED cookies
  BY DEF ClearNext
<1>2. UNCHANGED <<metadata, writing, removing, result>> /\ writing = Nothing /\ e \in Entries
  BY DEF ClearNext, StoreInv, Writes, TypeOK
<1>3. /\ cookies' \in [Entries -> Jars \cup {NoJar}]
      /\ \A f \in Entries : cookies'[f] = cookies[f] \/ (f = e /\ cookies'[f] = NoJar)
  <2>1. cookies \in [Entries -> Jars \cup {NoJar}]
    BY DEF StoreInv, TypeOK
  <2>2. CASE UNCHANGED cookies
    BY <2>1, <2>2
  <2>3. CASE cookies' = [cookies EXCEPT ![e] = NoJar]
    BY <1>2, <2>1, <2>3
  <2>. QED
    BY <1>1, <2>2, <2>3
<1>4. Holding(metadata) \subseteq Entries
  BY HoldingEntries DEF StoreInv, TypeOK
<1>5. Readable'
  BY <1>2, <1>3, <1>4, ReadableStays
<1>6. TypeOK'
  BY <1>1, <1>2, <1>3 DEF StoreInv, TypeOK
<1>7. Writes' /\ Spares'
  BY <1>1, <1>2 DEF StoreInv, Writes, Spares, Holding, Span
<1>8. CASE \A f \in Holding(metadata) : cookies'[f] = cookies[f]
  BY <1>2, <1>3, <1>5, <1>6, <1>7, <1>8, LoadedStays DEF StoreInv
<1>9. CASE ~\A f \in Holding(metadata) : cookies'[f] = cookies[f]
  <2>1. e \in Holding(metadata) /\ cookies'[e] = NoJar
    BY <1>3, <1>4, <1>9
  <2>2. removing /\ metadata # Nothing /\ metadata \in Metadata
    BY <1>1, <2>1 DEF Holding, StoreInv, Spares, TypeOK
  <2>3. JarRead(metadata, cookies') = NoJar
    BY <2>1 DEF JarRead
  <2>4. Loaded' = [device |-> metadata.device, jar |-> NoJar]
    BY <1>2, <2>2, <2>3 DEF Loaded, JarRead, Holding, Span
  <2>5. Loaded = [device |-> metadata.device, jar |-> JarRead(metadata, cookies)]
    BY <2>2 DEF Loaded
  <2>6. Loaded # Nothing
    BY <2>2, LoadedLogin
  <2>. QED
    BY <1>2, <1>5, <1>6, <1>7, <2>2, <2>4, <2>5, <2>6 DEF StoreInv
<1>. QED
  BY <1>8, <1>9

LEMMA BeginRemoveStep ==
  ASSUME StoreInv, BeginRemove
  PROVE  StoreInv' /\ Loaded' = Loaded /\ removing' = TRUE /\ UNCHANGED metadata
<1>1. /\ clearing' = Entries /\ removing' = TRUE /\ result' = "none" /\ Idle
      /\ UNCHANGED <<metadata, cookies, writing, refused>>
  BY DEF BeginRemove
<1>2. Loaded' = Loaded /\ Readable'
  BY <1>1, LoadedStays, ReadableStays DEF StoreInv, TypeOK
<1>. QED
  BY <1>1, <1>2 DEF StoreInv, TypeOK, Writes, Spares, Idle

LEMMA RemoveMetadataStep ==
  ASSUME StoreInv, RemoveMetadata
  PROVE  /\ StoreInv' /\ removing /\ removing' = FALSE
         /\ \/ Loaded' = Nothing /\ metadata' = Nothing
            \/ Loaded' = Loaded /\ UNCHANGED metadata
<1>1. /\ removing /\ removing' = FALSE /\ clearing = {} /\ result' = "removed"
      /\ UNCHANGED <<cookies, writing, clearing>> /\ writing = Nothing
  BY DEF RemoveMetadata, StoreInv, Writes
<1>2. /\ refused' \subseteq Entries \cup {MetadataEntry}
      /\ metadata' = Nothing \/ UNCHANGED metadata
  BY DEF RemoveMetadata, StoreInv, TypeOK
<1>3. Writes' /\ Spares'
  BY <1>1 DEF Writes, Spares
<1>4. TypeOK'
  BY <1>1, <1>2 DEF StoreInv, TypeOK
<1>5. CASE metadata' = Nothing
  BY <1>1, <1>3, <1>4, <1>5 DEF StoreInv, Readable, Loaded
<1>6. CASE UNCHANGED metadata
  <2>1. Loaded' = Loaded /\ Readable'
    BY <1>1, <1>6, LoadedStays, ReadableStays DEF StoreInv, TypeOK
  <2>. QED
    BY <1>1, <1>3, <1>4, <1>6, <2>1 DEF StoreInv
<1>. QED
  BY <1>2, <1>5, <1>6

LEMMA CrashStoreStep ==
  ASSUME StoreInv, CrashStore
  PROVE  StoreInv' /\ Loaded' = Loaded /\ removing' = FALSE /\ UNCHANGED metadata
<1>1. /\ writing' = Nothing /\ clearing' = {} /\ removing' = FALSE /\ result' = "none"
      /\ UNCHANGED <<metadata, cookies, refused>>
  BY DEF CrashStore
<1>2. Loaded' = Loaded /\ Readable'
  BY <1>1, LoadedStays, ReadableStays DEF StoreInv, TypeOK
<1>. QED
  BY <1>1, <1>2 DEF StoreInv, TypeOK, Writes, Spares

-----------------------------------------------------------------------------
(* Every step of the store is a step of SavedLogin, or none that shows. *)
LEMMA StoreStays ==
  ASSUME StoreInv, UNCHANGED store
  PROVE  StoreInv' /\ Loaded' = Loaded /\ ToSave' = ToSave /\ UNCHANGED <<metadata, removing>>
BY DEF store, StoreInv, TypeOK, Readable, Whole, Writes, Spares, Loaded, JarRead, Holding, Span, ToSave

LEMMA Beginning ==
  ASSUME StoreInv, NEW offered \in Logins, BeginSave(offered)
  PROVE  Promise!Begin \/ UNCHANGED Promise!vars
<1>1. /\ Loaded' = Loaded /\ UNCHANGED removing /\ writing = Nothing /\ ~removing
      /\ StoreInv'
  BY BeginSaveStep DEF BeginSave, Idle
<1>2. ToSave = Nothing
  BY <1>1 DEF ToSave
<1>3. CASE writing' = writing
  BY <1>1, <1>2, <1>3 DEF ToSave, Promise!vars
<1>4. CASE writing' = [device |-> KeptDevice(offered.device), jar |-> offered.jar,
                       set |-> CookieSet, next |-> 0]
  <2>1. writing' # Nothing
    <3>1. CookieSet \in Sets /\ KeptDevice(offered.device) \in Devices \cup {NoDevice}
      BY DEF KeptDevice, CookieSet, StoreInv, TypeOK, Metadata, Logins, Sets
    <3>2. writing' \in Saves
      BY <1>4, <3>1, StoreAssumption DEF Saves, Logins
    <3>. QED
      BY <3>2, StoreAssumption
  <2>2. ToSave' = [device |-> KeptDevice(offered.device), jar |-> offered.jar]
    BY <1>4, <2>1 DEF ToSave
  <2>3. ToSave' = [offered EXCEPT !.device = KeptDevice(offered.device)]
    BY <2>2 DEF Logins
  <2>4. CASE Loaded # Nothing /\ Loaded.device # NoDevice
    <3>1. KeptDevice(offered.device) = Loaded.device
      BY <2>4, LoadedLogin DEF KeptDevice, Loaded
    <3>. QED
      BY <1>1, <1>2, <2>3, <2>4, <3>1 DEF Promise!Begin, Promise!Logins, Logins
  <2>5. CASE ~(Loaded # Nothing /\ Loaded.device # NoDevice)
    <3>1. KeptDevice(offered.device) = offered.device
      BY <2>5, LoadedLogin DEF KeptDevice
    <3>2. ToSave' = offered
      BY <2>3, <3>1 DEF Logins
    <3>. QED
      BY <1>1, <1>2, <2>5, <3>2 DEF Promise!Begin, Promise!Logins, Logins
  <2>. QED
    BY <2>4, <2>5
<1>. QED
  BY <1>3, <1>4 DEF BeginSave

LEMMA Switch ==
  ASSUME StoreInv, WriteMetadata
  PROVE  Promise!Commit
<1>1. /\ UNCHANGED removing /\ writing \in Saves
      /\ Loaded' = [device |-> writing.device, jar |-> writing.jar]
  BY WriteMetadataStep
<1>2. ToSave' = Nothing
  BY DEF WriteMetadata, ToSave
<1>. QED
  BY <1>1, <1>2, ToSaveLogin DEF Promise!Commit

LEMMA PromiseStep ==
  ASSUME StoreInv, [NextStore]_store
  PROVE  StoreInv' /\ [Promise!Next]_(Promise!vars)
<1>. USE DEF Promise!Next, Promise!vars
<1>1. CASE UNCHANGED store
  BY <1>1, StoreStays
<1>2. ASSUME NEW offered \in Logins, BeginSave(offered)
      PROVE  StoreInv' /\ [Promise!Next]_(Promise!vars)
  BY <1>2, BeginSaveStep, Beginning
<1>3. CASE WriteChunk
  BY <1>3, WriteChunkStep
<1>4. CASE WriteMetadata
  BY <1>4, WriteMetadataStep, Switch
<1>5. CASE WriteFails
  <2>1. writing \in Saves /\ ToSave' = Nothing
    BY <1>5 DEF WriteFails, ToSave, StoreInv, TypeOK
  <2>. QED
    BY <1>5, <2>1, WriteFailsStep, ToSaveLogin DEF Promise!Abandon
<1>6. CASE ClearNext
  <2>1. ToSave' = ToSave
    BY <1>6 DEF ClearNext, ToSave
  <2>. QED
    BY <1>6, <2>1, ClearNextStep DEF Promise!LoseCookies
<1>7. CASE BeginRemove
  <2>1. ToSave = Nothing /\ ToSave' = ToSave /\ ~removing
    BY <1>7 DEF BeginRemove, Idle, ToSave
  <2>. QED
    BY <1>7, <2>1, BeginRemoveStep DEF Promise!BeginDelete
<1>8. CASE RemoveMetadata
  <2>1. ToSave' = ToSave
    BY <1>8 DEF RemoveMetadata, ToSave
  <2>. QED
    BY <1>8, <2>1, RemoveMetadataStep DEF Promise!Forget, Promise!Stop
<1>9. CASE CrashStore
  <2>1. ToSave' = Nothing
    BY <1>9 DEF CrashStore, ToSave
  <2>2. CASE removing
    <3>1. ToSave = Nothing
      BY <2>2 DEF StoreInv, Writes, ToSave
    <3>. QED
      BY <1>9, <2>1, <2>2, <3>1, CrashStoreStep DEF Promise!Stop
  <2>3. CASE ~removing /\ ToSave # Nothing
    BY <1>9, <2>1, <2>3, CrashStoreStep DEF Promise!Abandon, StoreInv, TypeOK
  <2>4. CASE ~removing /\ ToSave = Nothing
    BY <1>9, <2>1, <2>4, CrashStoreStep DEF StoreInv, TypeOK
  <2>. QED
    BY <2>2, <2>3, <2>4
<1>. QED
  BY <1>1, <1>2, <1>3, <1>4, <1>5, <1>6, <1>7, <1>8, <1>9 DEF NextStore, StoreStep

\* The promise of SavedLogin: a login is replaced in one step and by the one the
\* save under way was given, or stays as it was; a registered device stays, and
\* cookies are lost only to a deletion, for jars of any size and any failing
\* writes, refused removals and crashes between two entries.
THEOREM StoreKeepsPromise == SpecStore => SavesInOneStep
<1>1. InitStore => StoreInv /\ Promise!Init
  BY StoreInit DEF Promise!Init, InitStore, ToSave
<1>2. StoreInv /\ [NextStore]_store => StoreInv' /\ [Promise!Next]_(Promise!vars)
  BY PromiseStep
<1>. QED
  BY <1>1, <1>2, PTL DEF SpecStore, SavesInOneStep, Promise!Spec

\* The entries, and what is under way with them, have their types.
THEOREM StoreTypes == SpecStore => []TypeOK
<1>1. InitStore => StoreInv
  BY StoreInit
<1>2. StoreInv /\ [NextStore]_store => StoreInv'
  BY PromiseStep
<1>3. StoreInv => TypeOK
  BY DEF StoreInv
<1>. QED
  BY <1>1, <1>2, <1>3, PTL DEF SpecStore

\* A registered device outlives every save, failure and crash: only the end of
\* a deletion takes it (invariant 11 of ARCHITECTURE.md).
THEOREM StoreKeepsIdentity == SpecStore => IdentityKept
<1>. DEFINE Stays == metadata # Nothing /\ metadata.device # NoDevice =>
                       \/ removing /\ metadata' = Nothing
                       \/ metadata' # Nothing /\ metadata'.device = metadata.device
<1>1. InitStore => StoreInv
  BY StoreInit
<1>2. StoreInv /\ [NextStore]_store => StoreInv'
  BY PromiseStep
<1>3. StoreInv /\ [NextStore]_store => [Stays]_store
  <2>. SUFFICES ASSUME StoreInv, NextStore PROVE Stays
    OBVIOUS
  <2>1. CASE UNCHANGED metadata
    BY <2>1
  <2>2. CASE WriteMetadata
    BY <2>2, WriteMetadataStep DEF StoreInv, Writes
  <2>3. CASE RemoveMetadata
    BY <2>3, RemoveMetadataStep
  <2>. QED
    BY <2>1, <2>2, <2>3 DEF NextStore, StoreStep, BeginSave, BeginRemove, WriteChunk, WriteFails,
                            ClearNext, CrashStore
<1>. QED
  BY <1>1, <1>2, <1>3, PTL DEF SpecStore, IdentityKept

-----------------------------------------------------------------------------
(* A save that returned. The set it switched to holds its chunks, and behind *)
(* them only what the call has still to remove or the keyring refused to.    *)
Settled ==
  result = "saved" =>
    /\ writing = Nothing /\ ~removing /\ metadata # Nothing
    /\ \A e \in Entries : e[1] = metadata.set =>
         IF e \in Holding(metadata) THEN cookies[e] # NoJar
         ELSE e \in refused \cup clearing \/ cookies[e] = NoJar

LEMMA SwitchSettles ==
  ASSUME StoreInv, WriteMetadata
  PROVE  Settled'
<1>1. /\ StoreInv' /\ ~removing /\ UNCHANGED removing /\ writing # Nothing /\ writing \in Saves
      /\ metadata' # Nothing
  BY WriteMetadataStep
<1>2. /\ metadata' = [device |-> writing.device, chunks |-> Size[writing.jar], set |-> writing.set]
      /\ clearing' = Holding(metadata) \cup Span(writing.set, Size[writing.jar], MaxChunks)
      /\ writing' = Nothing /\ UNCHANGED cookies /\ writing.next = Size[writing.jar]
  BY DEF WriteMetadata, Written
<1>3. /\ writing.set \in Sets /\ Size[writing.jar] \in Nat /\ MaxChunks \in Nat
      /\ writing.jar \in Jars \cup {NoJar}
  BY <1>1, StoreAssumption DEF Saves
<1>4. metadata' \in Metadata /\ Holding(metadata)' = Holding(metadata')
  BY <1>1 DEF StoreInv, TypeOK, Holding, Span
<1>5. ASSUME NEW e \in Entries, e[1] = writing.set
      PROVE  IF e \in Holding(metadata') THEN cookies[e] # NoJar ELSE e \in clearing'
  <2>1. e = <<writing.set, e[2]>> /\ e[2] \in 0 .. MaxChunks - 1
    BY <1>5 DEF Entries
  <2>2. e \in Holding(metadata') <=> e[2] < Size[writing.jar]
    BY <1>1, <1>2, <1>4, <1>5, HoldingEntries
  <2>3. CASE e[2] < Size[writing.jar]
    <3>1. cookies[e] = writing.jar
      BY <1>1, <1>2, <2>1, <2>3 DEF StoreInv, Writes
    <3>2. Size[writing.jar] # 0
      BY <1>3, <2>1, <2>3
    <3>. QED
      BY <1>3, <2>2, <2>3, <3>1, <3>2, StoreAssumption
  <2>4. CASE ~(e[2] < Size[writing.jar])
    <3>1. Size[writing.jar] <= e[2] /\ e[2] < MaxChunks
      BY <1>3, <2>1, <2>4
    <3>2. e \in Span(writing.set, Size[writing.jar], MaxChunks)
      BY <1>3, <1>5, <3>1, SpanEntries
    <3>. QED
      BY <1>2, <2>2, <2>4, <3>2
  <2>. QED
    BY <2>3, <2>4
<1>6. metadata'.set = writing.set
  BY <1>2
<1>. QED
  BY <1>1, <1>2, <1>4, <1>5, <1>6 DEF Settled

LEMMA ClearingSettles ==
  ASSUME StoreInv, Settled, ClearNext
  PROVE  Settled'
<1>1. PICK e \in clearing :
        /\ clearing' = clearing \ {e}
        /\ \/ cookies' = [cookies EXCEPT ![e] = NoJar] /\ refused' = refused \ {e}
           \/ refused' = refused \cup {e} /\ UNCHANGED cookies
  BY DEF ClearNext
<1>2. /\ UNCHANGED <<metadata, writing, removing, result>> /\ e \in Entries
      /\ cookies \in [Entries -> Jars \cup {NoJar}]
  BY DEF ClearNext, StoreInv, TypeOK
<1>. SUFFICES ASSUME result = "saved"
              PROVE  \A f \in Entries : f[1] = metadata.set =>
                       IF f \in Holding(metadata) THEN cookies'[f] # NoJar
                       ELSE f \in refused' \cup clearing' \/ cookies'[f] = NoJar
  BY <1>2 DEF Settled, Holding, Span
<1>3. e \notin Holding(metadata)
  BY <1>1 DEF Settled, StoreInv, Spares
<1>. TAKE f \in Entries
<1>. HAVE f[1] = metadata.set
<1>4. IF f \in Holding(metadata) THEN cookies[f] # NoJar
      ELSE f \in refused \cup clearing \/ cookies[f] = NoJar
  BY DEF Settled
<1>5. CASE f = e
  BY <1>1, <1>2, <1>3, <1>5
<1>6. CASE f # e
  BY <1>1, <1>2, <1>4, <1>6
<1>. QED
  BY <1>5, <1>6

LEMMA SettledStep ==
  ASSUME StoreInv, Settled, [NextStore]_store
  PROVE  Settled'
<1>1. CASE UNCHANGED store
  BY <1>1 DEF store, Settled, Holding, Span
<1>2. ASSUME NEW offered \in Logins, BeginSave(offered)
      PROVE  Settled'
  BY <1>2 DEF BeginSave, Settled
<1>3. CASE WriteChunk
  BY <1>3 DEF WriteChunk, Settled
<1>4. CASE WriteMetadata
  BY <1>4, SwitchSettles
<1>5. CASE ClearNext
  BY <1>5, ClearingSettles
<1>6. CASE WriteFails \/ BeginRemove \/ RemoveMetadata \/ CrashStore
  BY <1>6 DEF WriteFails, BeginRemove, RemoveMetadata, CrashStore, Settled
<1>. QED
  BY <1>1, <1>2, <1>3, <1>4, <1>5, <1>6 DEF NextStore, StoreStep

\* What a save leaves behind when it returns: the jar in the set the metadata
\* names and no chunk of another in that set, whatever was in it before, unless
\* the keyring refused a removal.
THEOREM StoreSavesCleanly == SpecStore => []SavedCleanly
<1>1. InitStore => StoreInv /\ Settled
  BY StoreInit DEF InitStore, Settled
<1>2. StoreInv /\ Settled /\ [NextStore]_store => (StoreInv /\ Settled)'
  BY PromiseStep, SettledStep
<1>3. Settled => SavedCleanly
  BY DEF Settled, SavedCleanly, Idle
<1>. QED
  BY <1>1, <1>2, <1>3, PTL DEF SpecStore

-----------------------------------------------------------------------------
(* The accounts. Requests that will save the login if they are answered. *)
Saving(r) == r.kind # "import" \/ r.newest
Erasing == waiting # Nothing /\ waiting.op = "erase"

(* The profiles that callers hold are there, and no import or awaited request *)
(* of a profile that is gone saves anything.                                  *)
Owned ==
  /\ profiles \subseteq Profiles
  /\ requests \subseteq Request
  /\ dialog # Nothing => dialog \in Dialogs /\ dialog.profile \in profiles
  /\ waiting # Nothing => waiting \in Calls /\ waiting.profile \in profiles
  /\ \A r \in requests : Saving(r) => r.kind = "loose" \/ r.profile \in profiles
  /\ Erasing => /\ dialog = Nothing /\ profiles = {waiting.profile}
                /\ \A r \in requests : Saving(r) => r.kind = "loose"

CallerInv == StoreInv /\ Owned

(* How far the deletion of the last profile has come. *)
Gone(e) == cookies[e] # NoJar => e \in refused
Erasure ==
  Erasing => \/ removing /\ \A e \in Entries \ clearing : Gone(e)
             \/ Idle /\ Erased

-----------------------------------------------------------------------------
LEMMA AccountType == StoreInv => Account \in Logins /\ (HasLogin(Account) => Account.jar \in Jars)
<1>. SUFFICES ASSUME StoreInv PROVE Account \in Logins
  BY DEF Logins, HasLogin
<1>1. CASE Loaded = Nothing
  BY <1>1 DEF Account, Logins
<1>2. CASE Loaded # Nothing
  <2>1. metadata # Nothing
    BY <1>2 DEF Loaded
  <2>. QED
    BY <1>2, <2>1, LoadedLogin DEF Account
<1>. QED
  BY <1>1, <1>2

LEMMA OutdatedOwned ==
  ASSUME requests \subseteq Request, NEW p \in Profiles
  PROVE  /\ Outdated(p) \subseteq Request
         /\ \A r \in Outdated(p) : Saving(r) =>
              \E q \in requests : Saving(q) /\ q.kind = r.kind /\ q.profile = r.profile
                                  /\ ~(r.kind = "import" /\ r.profile = p)
<1>. SUFFICES ASSUME NEW q \in requests
              PROVE  LET r == IF q.profile = p THEN [q EXCEPT !.newest = FALSE] ELSE q
                     IN /\ r \in Request /\ r.kind = q.kind /\ r.profile = q.profile
                        /\ Saving(r) => Saving(q) /\ ~(r.kind = "import" /\ r.profile = p)
  BY DEF Outdated
<1>1. q \in Request
  OBVIOUS
<1>2. CASE q.profile = p
  <2>1. [q EXCEPT !.newest = FALSE] \in Request /\ [q EXCEPT !.newest = FALSE].newest = FALSE
        /\ [q EXCEPT !.newest = FALSE].kind = q.kind /\ [q EXCEPT !.newest = FALSE].profile = q.profile
    BY <1>1 DEF Request
  <2>. QED
    BY <1>2, <2>1 DEF Saving
<1>3. CASE q.profile # p
  BY <1>1, <1>3
<1>. QED
  BY <1>2, <1>3

LEMMA AskOwned ==
  ASSUME NEW asked \in SUBSET Request, NEW p \in Profiles, NEW kind \in Kinds, NEW account \in Logins,
         account.jar \in Jars, Ask(asked, p, kind, account)
  PROVE  /\ requests' \subseteq Request
         /\ \A r \in requests' : r \in asked \/ (r.kind = kind /\ r.profile = p)
<1>. DEFINE new == [profile |-> p, kind |-> kind, device |-> account.device, jar |-> account.jar,
                    newest |-> kind = "import"]
<1>1. new \in Request
  BY DEF Request, Logins
<1>2. requests' = asked \/ requests' = asked \cup {new}
  BY DEF Ask
<1>. QED
  BY <1>1, <1>2

-----------------------------------------------------------------------------
(* Callers call the store with logins, and each step keeps Owned. *)
LEMMA RefreshAccountOwned ==
  ASSUME CallerInv, NEW p \in profiles, RefreshAccount(p)
  PROVE  /\ requests' \subseteq Request
         /\ \A r \in requests' : Saving(r) => r.kind = "loose" \/ r.profile \in profiles
<1>1. p \in Profiles /\ requests \subseteq Request
  BY DEF CallerInv, Owned
<1>2. /\ Outdated(p) \subseteq Request
      /\ \A r \in Outdated(p) : Saving(r) => r.kind = "loose" \/ r.profile \in profiles
  BY <1>1, OutdatedOwned DEF CallerInv, Owned
<1>3. CASE HasLogin(Account)
  <2>1. Account \in Logins /\ Account.jar \in Jars
    BY <1>3, AccountType DEF CallerInv
  <2>2. Ask(Outdated(p), p, "loose", Account) /\ "loose" \in Kinds
    BY <1>3 DEF RefreshAccount, Kinds
  <2>3. requests' \subseteq Request /\ \A r \in requests' : r \in Outdated(p) \/ r.kind = "loose"
    BY <1>1, <1>2, <2>1, <2>2, AskOwned
  <2>. QED
    BY <1>2, <2>3
<1>4. CASE ~HasLogin(Account)
  BY <1>2, <1>4 DEF RefreshAccount
<1>. QED
  BY <1>3, <1>4

LEMMA RefreshOwned ==
  ASSUME CallerInv, NEW p \in Profiles, Refresh(p)
  PROVE  UNCHANGED store /\ Owned'
<1>1. /\ p \in profiles /\ RefreshAccount(p) /\ waiting = Nothing
      /\ UNCHANGED <<store, profiles, dialog, waiting>>
  BY DEF Refresh, Clickable, Free
<1>2. /\ requests' \subseteq Request
      /\ \A r \in requests' : Saving(r) => r.kind = "loose" \/ r.profile \in profiles
  BY <1>1, RefreshAccountOwned
<1>. QED
  BY <1>1, <1>2 DEF CallerInv, Owned, Erasing

LEMMA CallOwned ==
  ASSUME CallerInv, NEW p \in Profiles, NEW kind \in Kinds, Call(p, kind)
  PROVE  UNCHANGED store /\ Owned'
<1>1. /\ p \in profiles /\ HasLogin(Account) /\ Ask(requests, p, kind, Account) /\ waiting = Nothing
      /\ UNCHANGED <<store, profiles, dialog, waiting>>
  BY DEF Call, Free
<1>2. Account \in Logins /\ Account.jar \in Jars /\ requests \subseteq Request
  BY <1>1, AccountType DEF CallerInv, Owned
<1>3. requests' \subseteq Request /\ \A r \in requests' : r \in requests \/ r.profile = p
  BY <1>1, <1>2, AskOwned
<1>. QED
  BY <1>1, <1>3 DEF CallerInv, Owned, Erasing

LEMMA AnsweredOwned ==
  ASSUME CallerInv, NEW r \in requests, Answered(r)
  PROVE  [NextStore]_store /\ Owned'
<1>1. /\ waiting = Nothing /\ requests' = requests \ {r} /\ UNCHANGED <<profiles, dialog, waiting>>
      /\ \/ \E jar \in Jars \cup {NoJar} : BeginSave([device |-> r.device, jar |-> jar])
         \/ UNCHANGED store
  BY DEF Answered, Free
<1>2. r.device \in Devices \cup {NoDevice}
  BY DEF CallerInv, Owned, Request
<1>3. [NextStore]_store
  <2>1. \A jar \in Jars \cup {NoJar} : [device |-> r.device, jar |-> jar] \in Logins
    BY <1>2 DEF Logins
  <2>. QED
    BY <1>1, <2>1 DEF NextStore
<1>. QED
  BY <1>1, <1>3 DEF CallerInv, Owned, Erasing

LEMMA CompleteLoginStep ==
  ASSUME NEW p \in Profiles, NEW account \in Logins, CompleteLogin(p, account)
  PROVE  /\ [NextStore]_store
         /\ \/ UNCHANGED <<store, waiting>>
            \/ p \in profiles /\ BeginSave(account) /\ waiting' = [op |-> "refresh", profile |-> p]
BY DEF CompleteLogin, NextStore

LEMMA ImportOwned ==
  ASSUME CallerInv, NEW p \in Profiles, NEW jar \in Jars, Import(p, jar)
  PROVE  UNCHANGED store /\ Owned'
<1>1. /\ p \in profiles /\ Ask(Outdated(p), p, "import", [Account EXCEPT !.jar = jar])
      /\ waiting = Nothing /\ UNCHANGED <<store, profiles, dialog, waiting>>
  BY DEF Import, Clickable, Free
<1>2. PICK account \in Logins : account.jar \in Jars /\ Ask(Outdated(p), p, "import", account)
  <2>1. [Account EXCEPT !.jar = jar] \in Logins /\ [Account EXCEPT !.jar = jar].jar \in Jars
    BY AccountType DEF CallerInv, Logins
  <2>. QED
    BY <1>1, <2>1
<1>3. /\ Outdated(p) \subseteq Request
      /\ \A r \in Outdated(p) : Saving(r) => r.kind = "loose" \/ r.profile \in profiles
  BY OutdatedOwned DEF CallerInv, Owned
<1>4. requests' \subseteq Request /\ \A r \in requests' : r \in Outdated(p) \/ r.profile = p
  <2>1. "import" \in Kinds
    BY DEF Kinds
  <2>. QED
    BY <1>2, <1>3, <2>1, AskOwned
<1>. QED
  BY <1>1, <1>3, <1>4 DEF CallerInv, Owned, Erasing

LEMMA ImportAnsweredOwned ==
  ASSUME CallerInv, NEW r \in requests, ImportAnswered(r)
  PROVE  [NextStore]_store /\ Owned'
<1>1. /\ waiting = Nothing /\ requests' = requests \ {r} /\ UNCHANGED <<profiles, dialog>>
  BY DEF ImportAnswered, Free
<1>2. r \in Request
  BY DEF CallerInv, Owned
<1>3. \/ UNCHANGED <<store, waiting>>
      \/ \E device \in Devices \cup {NoDevice}, jar \in Jars :
           CompleteLogin(r.profile, [device |-> device, jar |-> jar])
  BY <1>2 DEF ImportAnswered, Request
<1>4. \A device \in Devices \cup {NoDevice}, jar \in Jars : [device |-> device, jar |-> jar] \in Logins
  BY DEF Logins
<1>5. /\ [NextStore]_store
      /\ UNCHANGED waiting \/ (r.profile \in profiles /\ waiting' = [op |-> "refresh", profile |-> r.profile])
  BY <1>2, <1>3, <1>4, CompleteLoginStep DEF Request
<1>6. CASE UNCHANGED waiting
  BY <1>1, <1>5, <1>6 DEF CallerInv, Owned, Erasing
<1>7. CASE r.profile \in profiles /\ waiting' = [op |-> "refresh", profile |-> r.profile]
  <2>1. waiting' \in Calls /\ waiting'.profile \in profiles /\ waiting'.op # "erase"
    BY <1>2, <1>7 DEF Calls, Request
  <2>. QED
    BY <1>1, <1>5, <2>1 DEF CallerInv, Owned, Erasing
<1>. QED
  BY <1>5, <1>6, <1>7

LEMMA BeginLoginOwned ==
  ASSUME CallerInv, NEW p \in Profiles, BeginLogin(p)
  PROVE  [NextStore]_store /\ Owned'
<1>1. /\ p \in profiles /\ BeginSave(Account) /\ UNCHANGED <<profiles, requests, dialog>>
      /\ waiting' = [op |-> "dialog", profile |-> p, device |-> Account.device, jar |-> Account.jar]
      /\ waiting = Nothing
  BY DEF BeginLogin, Clickable, Free
<1>2. Account \in Logins
  BY AccountType DEF CallerInv
<1>3. waiting' \in Calls /\ waiting'.profile = p /\ waiting'.op = "dialog"
  BY <1>1, <1>2 DEF Calls, Logins
<1>. QED
  BY <1>1, <1>2, <1>3 DEF NextStore, CallerInv, Owned, Erasing

LEMMA DialogAnsweredOwned ==
  ASSUME CallerInv, DialogAnswered
  PROVE  UNCHANGED store /\ Owned'
<1>1. /\ waiting = Nothing /\ dialog # Nothing /\ UNCHANGED <<store, profiles, requests, waiting>>
      /\ \E device \in Devices \cup {dialog.device}, jar \in Jars \cup {NoJar} :
           dialog' = [dialog EXCEPT !.device = device, !.jar = jar]
  BY DEF DialogAnswered, Free
<1>2. dialog \in Dialogs /\ dialog.profile \in profiles
  BY <1>1 DEF CallerInv, Owned
<1>3. dialog' \in Dialogs /\ dialog'.profile = dialog.profile
  BY <1>1, <1>2 DEF Dialogs
<1>. QED
  BY <1>1, <1>2, <1>3 DEF CallerInv, Owned, Erasing

LEMMA DialogClosedOwned ==
  ASSUME CallerInv, DialogClosed
  PROVE  [NextStore]_store /\ Owned'
<1>1. /\ dialog # Nothing /\ BeginSave([device |-> dialog.device, jar |-> dialog.jar])
      /\ dialog' = Nothing /\ UNCHANGED <<profiles, requests, waiting>>
  BY DEF DialogClosed
<1>2. [device |-> dialog.device, jar |-> dialog.jar] \in Logins
  BY <1>1 DEF CallerInv, Owned, Dialogs, Logins
<1>. QED
  BY <1>1, <1>2 DEF NextStore, CallerInv, Owned, Erasing

LEMMA DialogConfirmedOwned ==
  ASSUME CallerInv, DialogConfirmed
  PROVE  [NextStore]_store /\ Owned'
<1>1. /\ waiting = Nothing /\ dialog # Nothing /\ dialog' = Nothing /\ UNCHANGED <<profiles, requests>>
      /\ \E jar \in Jars \cup {NoJar} :
           CompleteLogin(dialog.profile, [device |-> dialog.device, jar |-> jar])
  BY DEF DialogConfirmed, Free, HasDevice
<1>2. /\ dialog.profile \in Profiles /\ dialog.profile \in profiles
      /\ \A jar \in Jars \cup {NoJar} : [device |-> dialog.device, jar |-> jar] \in Logins
  BY <1>1 DEF CallerInv, Owned, Dialogs, Logins
<1>3. /\ [NextStore]_store
      /\ UNCHANGED waiting \/ waiting' = [op |-> "refresh", profile |-> dialog.profile]
  BY <1>1, <1>2, CompleteLoginStep
<1>4. waiting' # Nothing => waiting' \in Calls /\ waiting'.profile \in profiles /\ waiting'.op # "erase"
  BY <1>1, <1>2, <1>3 DEF Calls
<1>. QED
  BY <1>1, <1>3, <1>4 DEF CallerInv, Owned, Erasing

LEMMA RecordQuotaOwned ==
  ASSUME CallerInv, NEW p \in Profiles, RecordQuota(p)
  PROVE  [NextStore]_store /\ Owned'
<1>1. BeginSave(Account) /\ UNCHANGED <<profiles, requests, dialog, waiting>>
  BY DEF RecordQuota
<1>2. Account \in Logins
  BY AccountType DEF CallerInv
<1>. QED
  BY <1>1, <1>2 DEF NextStore, CallerInv, Owned, Erasing

LEMMA DeleteOwned ==
  ASSUME CallerInv, NEW p \in Profiles, Delete(p)
  PROVE  [NextStore]_store /\ Owned'
<1>1. /\ p \in profiles /\ requests' = Outdated(p) /\ waiting = Nothing
      /\ dialog = Nothing /\ UNCHANGED dialog
      /\ ~\E r \in requests : r.profile = p /\ r.kind = "awaited"
  BY DEF Delete, Deletable, Clickable, Free
<1>2. requests' \subseteq Request
  BY <1>1, OutdatedOwned DEF CallerInv, Owned
<1>3. \A r \in requests' : Saving(r) => r.kind = "loose" \/ r.profile \in profiles \ {p}
  <2>. SUFFICES ASSUME NEW r \in requests', Saving(r), r.kind # "loose"
                PROVE  r.profile \in profiles \ {p}
    OBVIOUS
  <2>1. PICK q \in requests : Saving(q) /\ q.kind = r.kind /\ q.profile = r.profile
                              /\ ~(r.kind = "import" /\ r.profile = p)
    BY <1>1, OutdatedOwned DEF CallerInv, Owned
  <2>2. q.profile \in profiles
    BY <2>1 DEF CallerInv, Owned
  <2>3. r.kind \in Kinds
    BY <1>2 DEF Request
  <2>. QED
    BY <1>1, <2>1, <2>2, <2>3 DEF Kinds
<1>4. CASE profiles = {p}
  <2>1. BeginRemove /\ waiting' = [op |-> "erase", profile |-> p] /\ UNCHANGED profiles
    BY <1>4 DEF Delete
  <2>2. waiting' \in Calls /\ waiting'.profile = p
    BY <2>1 DEF Calls
  <2>. QED
    BY <1>1, <1>2, <1>3, <1>4, <2>1, <2>2 DEF NextStore, CallerInv, Owned, Erasing
<1>5. CASE profiles # {p}
  <2>1. profiles' = profiles \ {p} /\ UNCHANGED <<store, waiting>>
    BY <1>5 DEF Delete
  <2>. QED
    BY <1>1, <1>2, <1>3, <2>1 DEF CallerInv, Owned, Erasing
<1>. QED
  BY <1>4, <1>5

LEMMA ReturnOwned ==
  ASSUME CallerInv, Return
  PROVE  UNCHANGED store /\ Owned'
<1>1. /\ waiting # Nothing /\ waiting' = Nothing /\ UNCHANGED store
      /\ waiting \in Calls /\ waiting.profile \in profiles
  BY DEF Return, CallerInv, Owned
<1>2. waiting.profile \in Profiles
  BY <1>1 DEF CallerInv, Owned
<1>3. CASE Erase
  BY <1>1, <1>3 DEF Erase, CallerInv, Owned, Erasing
<1>4. CASE OpenDialog
  <2>1. waiting.op = "dialog" /\ UNCHANGED profiles
    BY <1>4 DEF OpenDialog
  <2>2. CASE UNCHANGED <<requests, dialog>>
    BY <1>1, <2>1, <2>2 DEF CallerInv, Owned, Erasing
  <2>3. CASE /\ requests' = Outdated(waiting.profile)
             /\ dialog' = [profile |-> waiting.profile, device |-> waiting.device, jar |-> waiting.jar]
    <3>1. dialog' \in Dialogs /\ dialog'.profile = waiting.profile
      BY <1>1, <2>1, <2>3 DEF Calls, Dialogs
    <3>2. /\ requests' \subseteq Request
          /\ \A r \in requests' : Saving(r) => r.kind = "loose" \/ r.profile \in profiles
      BY <1>2, <2>3, OutdatedOwned DEF CallerInv, Owned
    <3>. QED
      BY <1>1, <2>1, <3>1, <3>2 DEF CallerInv, Owned, Erasing
  <2>. QED
    BY <1>4, <2>2, <2>3 DEF OpenDialog
<1>5. CASE LoginCompleted
  <2>1. UNCHANGED <<profiles, dialog>> /\ (RefreshAccount(waiting.profile) \/ UNCHANGED requests)
    BY <1>5 DEF LoginCompleted
  <2>2. /\ requests' \subseteq Request
        /\ \A r \in requests' : Saving(r) => r.kind = "loose" \/ r.profile \in profiles
    BY <1>1, <2>1, RefreshAccountOwned DEF CallerInv, Owned
  <2>. QED
    BY <1>1, <2>1, <2>2 DEF CallerInv, Owned, Erasing
<1>. QED
  BY <1>1, <1>3, <1>4, <1>5 DEF Return

LEMMA CallersStep == CallerInv /\ [Next]_vars => CallerInv' /\ [NextStore]_store
<1>. SUFFICES ASSUME CallerInv, [Next]_vars PROVE Owned' /\ [NextStore]_store
  BY PromiseStep DEF CallerInv
<1>1. CASE UNCHANGED vars
  BY <1>1 DEF vars, CallerInv, Owned, Erasing
<1>2. ASSUME NEW p \in Profiles, Refresh(p) \/ BeginLogin(p) \/ RecordQuota(p) \/ Delete(p)
      PROVE  Owned' /\ [NextStore]_store
  BY <1>2, RefreshOwned, BeginLoginOwned, RecordQuotaOwned, DeleteOwned
<1>3. ASSUME NEW p \in Profiles, NEW kind \in Kinds, Call(p, kind)
      PROVE  Owned' /\ [NextStore]_store
  BY <1>3, CallOwned
<1>4. ASSUME NEW p \in Profiles, NEW jar \in Jars, Import(p, jar)
      PROVE  Owned' /\ [NextStore]_store
  BY <1>4, ImportOwned
<1>5. ASSUME NEW r \in requests, Answered(r) \/ ImportAnswered(r)
      PROVE  Owned' /\ [NextStore]_store
  BY <1>5, AnsweredOwned, ImportAnsweredOwned
<1>6. CASE DialogAnswered \/ DialogClosed \/ DialogConfirmed \/ Return
  BY <1>6, DialogAnsweredOwned, DialogClosedOwned, DialogConfirmedOwned, ReturnOwned
<1>7. CASE Work
  BY <1>7 DEF Work, NextStore, CallerInv, Owned, Erasing
<1>8. CASE Crash
  BY <1>8 DEF Crash, NextStore, CallerInv, Owned, Erasing
<1>. QED
  BY <1>1, <1>2, <1>3, <1>4, <1>5, <1>6, <1>7, <1>8 DEF Next

LEMMA CallersInit == Init => CallerInv /\ InitStore
BY StoreInit DEF Init, CallerInv, Owned, Erasing

\* Whoever saves, the dock uses the store as it is meant to be used: one call at
\* a time, so that what is proved of the store holds of the accounts.
THEOREM AccountsUseStore == Spec => SpecStore
<1>1. Init => CallerInv /\ InitStore
  BY CallersInit
<1>2. CallerInv /\ [Next]_vars => CallerInv' /\ [NextStore]_store
  BY CallersStep
<1>. QED
  BY <1>1, <1>2, PTL DEF Spec, SpecStore

\* With every caller, an account's device stays until its last profile goes.
THEOREM AccountsKeepIdentity == Spec => SavesInOneStep /\ IdentityKept
BY AccountsUseStore, StoreKeepsPromise, StoreKeepsIdentity

\* With every caller, what a save wrote stands alone in the set that is read.
THEOREM AccountsSaveCleanly == Spec => []SavedCleanly
BY AccountsUseStore, StoreSavesCleanly

-----------------------------------------------------------------------------
(* Steps that do not begin a deletion keep out of one. *)
LEMMA InUse ==
  ASSUME CallerInv, ~removing, ~Erasing, [Next]_vars,
         ~\E p \in Profiles : Delete(p)
  PROVE  ~removing' /\ ~Erasing' /\ (profiles # {} => profiles' # {})
<1>1. ~removing /\ profiles \subseteq Profiles /\ requests \subseteq Request
  BY DEF CallerInv, Owned
<1>2. CASE UNCHANGED vars
  BY <1>1, <1>2 DEF vars, store, Erasing
<1>3. \A account : BeginSave(account) => UNCHANGED removing
  BY DEF BeginSave
<1>4. \A p, account : CompleteLogin(p, account) =>
        UNCHANGED removing /\ (UNCHANGED waiting \/ waiting' = [op |-> "refresh", profile |-> p])
  BY <1>3 DEF CompleteLogin, store
<1>5. ASSUME NEW p \in Profiles, Refresh(p) \/ RecordQuota(p)
      PROVE  UNCHANGED <<removing, profiles, waiting>>
  BY <1>3, <1>5 DEF Refresh, RecordQuota, store
<1>6. ASSUME NEW p \in Profiles, BeginLogin(p)
      PROVE  ~removing' /\ ~Erasing' /\ (profiles # {} => profiles' # {})
  BY <1>1, <1>3, <1>6 DEF BeginLogin, Erasing
<1>7. ASSUME NEW p \in Profiles, NEW kind \in Kinds, Call(p, kind)
      PROVE  UNCHANGED <<removing, profiles, waiting>>
  BY <1>7 DEF Call, store
<1>8. ASSUME NEW p \in Profiles, NEW jar \in Jars, Import(p, jar)
      PROVE  UNCHANGED <<removing, profiles, waiting>>
  BY <1>8 DEF Import, store
<1>9. ASSUME NEW r \in requests, Answered(r)
      PROVE  UNCHANGED <<removing, profiles, waiting>>
  BY <1>3, <1>9 DEF Answered, store
<1>10. ASSUME NEW r \in requests, ImportAnswered(r)
       PROVE  /\ UNCHANGED <<removing, profiles>>
              /\ UNCHANGED waiting \/ waiting' = [op |-> "refresh", profile |-> r.profile]
  BY <1>4, <1>10 DEF ImportAnswered, store
<1>11. CASE DialogAnswered \/ DialogClosed
  BY <1>1, <1>3, <1>11 DEF DialogAnswered, DialogClosed, store, Erasing
<1>12. CASE DialogConfirmed
  BY <1>1, <1>4, <1>12 DEF DialogConfirmed, Erasing
<1>13. CASE Return
  BY <1>1, <1>13 DEF Return, Erase, OpenDialog, LoginCompleted, store, Erasing
<1>14. CASE Work
  BY <1>1, <1>14 DEF Work, StoreStep, WriteChunk, WriteMetadata, WriteFails, ClearNext,
                     RemoveMetadata, Erasing
<1>15. CASE Crash
  BY <1>15 DEF Crash, CrashStore, Erasing
<1>. QED
  BY <1>1, <1>2, <1>5, <1>6, <1>7, <1>8, <1>9, <1>10, <1>11, <1>12, <1>13, <1>14, <1>15
     DEF Next, Erasing

-----------------------------------------------------------------------------
(* A login is removed only on behalf of the last profile that uses it. *)
Ordered == removing => Erasing

LEMMA OrderedStep ==
  ASSUME CallerInv, Ordered, [Next]_vars
  PROVE  Ordered'
<1>1. CASE UNCHANGED vars
  BY <1>1 DEF vars, store, Ordered, Erasing
<1>2. CASE Work
  BY <1>2 DEF Work, StoreStep, WriteChunk, WriteMetadata, WriteFails, ClearNext, RemoveMetadata,
              Ordered, Erasing
<1>3. CASE Crash
  BY <1>3 DEF Crash, CrashStore, Ordered
<1>4. CASE Return
  BY <1>4 DEF Return, Idle, store, Ordered
<1>5. ASSUME NEW p \in Profiles, Delete(p)
      PROVE  Ordered'
  <2>1. CASE profiles = {p}
    <3>1. waiting' = [op |-> "erase", profile |-> p]
      BY <1>5, <2>1 DEF Delete
    <3>2. waiting' \in Calls
      BY <3>1 DEF Calls
    <3>. QED
      BY <3>1, <3>2, AccountAssumption DEF Ordered, Erasing
  <2>2. CASE profiles # {p}
    BY <1>5, <2>2 DEF Delete, store, Clickable, Free, Idle, Ordered
  <2>. QED
    BY <2>1, <2>2
<1>6. CASE ~removing /\ ~Erasing /\ ~\E p \in Profiles : Delete(p)
  BY <1>6, InUse DEF Ordered
<1>7. CASE removing \/ Erasing
  <2>1. ~Free
    BY <1>7 DEF Free, Idle, Erasing
  <2>2. ~\E p \in Profiles, kind \in Kinds : Call(p, kind)
    BY <2>1 DEF Call
  <2>3. ~\E p \in Profiles, jar \in Jars : Import(p, jar)
    BY <2>1 DEF Import, Clickable
  <2>4. ~\E p \in Profiles : Refresh(p) \/ BeginLogin(p) \/ RecordQuota(p) \/ Delete(p)
    BY <2>1 DEF Refresh, BeginLogin, RecordQuota, Delete, Clickable
  <2>5. ~\E r \in requests : Answered(r) \/ ImportAnswered(r)
    BY <2>1 DEF Answered, ImportAnswered
  <2>6. ~(DialogAnswered \/ DialogClosed \/ DialogConfirmed)
    BY <2>1 DEF DialogAnswered, DialogClosed, DialogConfirmed
  <2>. QED
    BY <1>1, <1>2, <1>3, <1>4, <2>2, <2>3, <2>4, <2>5, <2>6 DEF Next
<1>. QED
  BY <1>5, <1>6, <1>7

\* The device of an account that several profiles use outlives every step, the
\* deletion of one of them included: for any number of profiles and requests.
THEOREM SharedLoginsStay == Spec => SharedLoginKept
<1>. DEFINE Stays == Cardinality(profiles) > 1 /\ HasDevice(Loaded) => HasDevice(Loaded')
<1>1. Init => CallerInv /\ Ordered
  BY CallersInit DEF Init, InitStore, Ordered
<1>2. CallerInv /\ Ordered /\ [Next]_vars => (CallerInv /\ Ordered)'
  BY CallersStep, OrderedStep
<1>3. CallerInv /\ Ordered /\ [Next]_vars => [Stays]_vars
  <2>. SUFFICES ASSUME CallerInv, Ordered, [Next]_vars,
                       Cardinality(profiles) > 1, HasDevice(Loaded)
                PROVE  HasDevice(Loaded')
    OBVIOUS
  <2>1. ~removing
    <3>1. SUFFICES ASSUME removing PROVE FALSE
      OBVIOUS
    <3>2. profiles = {waiting.profile}
      BY <3>1 DEF Ordered, CallerInv, Owned
    <3>3. Cardinality(profiles) = 1
      BY <3>2, FS_Singleton
    <3>. QED
      BY <3>3
  <2>2. [Promise!Next]_(Promise!vars)
    BY CallersStep, PromiseStep DEF CallerInv
  <2>3. CASE Loaded' = Loaded
    BY <2>3
  <2>4. CASE Promise!Commit
    <3>1. writing \in Saves /\ Loaded' = ToSave
      BY <2>4 DEF Promise!Commit, ToSave, CallerInv, StoreInv, TypeOK
    <3>2. metadata # Nothing /\ Loaded.device = metadata.device
      BY DEF HasDevice, Loaded
    <3>3. writing.device = Loaded.device
      BY <3>1, <3>2, StoreAssumption DEF CallerInv, StoreInv, Writes, HasDevice
    <3>. QED
      BY <3>1, <3>3, ToSaveLogin DEF HasDevice
  <2>. QED
    BY <2>1, <2>2, <2>3, <2>4 DEF Promise!Next, Promise!vars, Promise!Begin,
       Promise!Abandon, Promise!BeginDelete, Promise!LoseCookies, Promise!Forget, Promise!Stop
<1>. QED
  BY <1>1, <1>2, <1>3, PTL DEF Spec, SharedLoginKept

-----------------------------------------------------------------------------
(* The deletion of the last profile. *)

\* It begins with every entry there can be still to be removed.
LEMMA DeleteErasure ==
  ASSUME NEW p \in Profiles, Delete(p)
  PROVE  Erasure' /\ profiles' # {} /\ UNCHANGED writing
<1>1. p \in profiles /\ waiting = Nothing
  BY DEF Delete, Deletable, Clickable, Free
<1>2. CASE profiles = {p}
  BY <1>1, <1>2 DEF Delete, BeginRemove, Erasure
<1>3. CASE profiles # {p}
  BY <1>1, <1>3 DEF Delete, Erasure, Erasing, store
<1>. QED
  BY <1>2, <1>3

\* While it goes on, nothing else happens on the dock's thread: each removal
\* leaves an entry empty or refused, and the profile goes when all are.
LEMMA ErasingErasure ==
  ASSUME CallerInv, Erasure, Erasing, [Next]_vars
  PROVE  Erasure' /\ (profiles' = {} => Erased') /\ writing' = Nothing
<1>1. /\ waiting # Nothing /\ profiles = {waiting.profile} /\ writing = Nothing
      /\ \/ removing /\ \A e \in Entries \ clearing : Gone(e)
         \/ Idle /\ Erased
  BY DEF Erasure, Erasing, CallerInv, Owned, StoreInv, Writes, Idle
<1>2. CASE UNCHANGED vars
  BY <1>1, <1>2 DEF Erasure, Erasing, Gone, Idle, Erased, vars, store
<1>3. CASE Work
  <2>1. UNCHANGED <<profiles, waiting>> /\ StoreStep
    BY <1>3 DEF Work
  <2>2. Erasing' /\ profiles' # {}
    BY <1>1, <2>1 DEF Erasing
  <2>3. removing
    BY <1>1, <2>1 DEF Idle, StoreStep, WriteChunk, WriteMetadata, WriteFails, ClearNext, RemoveMetadata
  <2>4. \A e \in Entries \ clearing : Gone(e)
    BY <1>1, <2>3 DEF Idle
  <2>5. CASE ClearNext
    <3>1. PICK e \in clearing :
            /\ clearing' = clearing \ {e}
            /\ \/ cookies' = [cookies EXCEPT ![e] = NoJar] /\ refused' = refused \ {e}
               \/ refused' = refused \cup {e} /\ UNCHANGED cookies
      BY <2>5 DEF ClearNext
    <3>2. /\ UNCHANGED <<removing, writing>> /\ e \in Entries
          /\ cookies \in [Entries -> Jars \cup {NoJar}]
      BY <2>5, <3>1 DEF ClearNext, CallerInv, StoreInv, TypeOK
    <3>3. ASSUME NEW f \in Entries \ clearing' PROVE Gone(f)'
      <4>1. CASE f = e
        BY <3>1, <3>2, <4>1 DEF Gone
      <4>2. CASE f # e
        BY <2>4, <3>1, <3>2, <3>3, <4>2 DEF Gone
      <4>. QED
        BY <4>1, <4>2
    <3>. QED
      BY <1>1, <2>2, <2>3, <3>2, <3>3 DEF Erasure
  <2>6. CASE RemoveMetadata
    <3>1. /\ clearing = {} /\ clearing' = {} /\ removing' = FALSE /\ writing' = Nothing
          /\ UNCHANGED cookies
          /\ \/ metadata' = Nothing /\ refused' = refused \ {MetadataEntry}
             \/ refused' = refused \cup {MetadataEntry}
      BY <1>1, <2>6 DEF RemoveMetadata
    <3>2. MetadataEntry \notin Entries
      BY DEF MetadataEntry, Entries, Sets
    <3>3. Erased' /\ Idle'
      BY <2>4, <3>1, <3>2 DEF Erased, Gone, Idle
    <3>. QED
      BY <2>2, <3>1, <3>3 DEF Erasure
  <2>. QED
    BY <1>1, <2>1, <2>5, <2>6 DEF StoreStep, WriteChunk, WriteMetadata, WriteFails
<1>4. CASE Return
  <2>1. Idle /\ waiting' = Nothing /\ UNCHANGED store
    BY <1>4 DEF Return
  <2>2. Erased'
    BY <1>1, <2>1 DEF Idle, Erased, store
  <2>. QED
    BY <1>1, <2>1, <2>2 DEF Erasure, Erasing, store
<1>5. CASE Crash
  BY <1>1, <1>5 DEF Crash, CrashStore, Erasure, Erasing
<1>6. ~Free
  BY <1>1 DEF Free
<1>7. (\E p \in Profiles, kind \in Kinds : Call(p, kind)) => FALSE
  BY <1>6 DEF Call
<1>8. (\E p \in Profiles, jar \in Jars : Import(p, jar)) => FALSE
  BY <1>6 DEF Import, Clickable
<1>9. (\E p \in Profiles : Refresh(p) \/ BeginLogin(p) \/ RecordQuota(p) \/ Delete(p)) => FALSE
  BY <1>6 DEF Refresh, BeginLogin, RecordQuota, Delete, Clickable
<1>10. (\E r \in requests : Answered(r) \/ ImportAnswered(r)) => FALSE
  BY <1>6 DEF Answered, ImportAnswered
<1>11. DialogAnswered \/ DialogClosed \/ DialogConfirmed => FALSE
  BY <1>6 DEF DialogAnswered, DialogClosed, DialogConfirmed
<1>. QED
  BY <1>2, <1>3, <1>4, <1>5, <1>7, <1>8, <1>9, <1>10, <1>11 DEF Next

\* After it only the answer to a request nobody waits for begins a save.
LEMMA DeletedSaves ==
  ASSUME CallerInv, profiles = {}, writing = Nothing, writing' # Nothing, [Next]_vars
  PROVE  \E r \in requests \ requests' : r.kind = "loose"
<1>1. /\ waiting = Nothing /\ dialog = Nothing
      /\ \A r \in requests : Saving(r) => r.kind = "loose"
  BY DEF CallerInv, Owned
<1>2. ASSUME NEW r \in requests, Answered(r)
      PROVE  r \in requests \ requests' /\ r.kind = "loose"
  BY <1>1, <1>2 DEF Answered, Saving
<1>3. ~\E r \in requests : ImportAnswered(r)
  BY DEF ImportAnswered, CompleteLogin, store
<1>4. ~UNCHANGED vars
  BY DEF vars, store
<1>5. ~Work
  BY DEF Work, StoreStep, WriteChunk, WriteMetadata, WriteFails, ClearNext, RemoveMetadata
<1>6. ~(Return \/ Crash)
  BY <1>1 DEF Return, Crash, CrashStore
<1>7. ~(DialogAnswered \/ DialogClosed \/ DialogConfirmed)
  BY <1>1 DEF DialogAnswered, DialogClosed, DialogConfirmed, HasDevice
<1>8. ~\E p \in Profiles : Refresh(p) \/ BeginLogin(p) \/ RecordQuota(p) \/ Delete(p)
  BY DEF Refresh, BeginLogin, RecordQuota, Delete, Deletable
<1>9. /\ ~\E p \in Profiles, kind \in Kinds : Call(p, kind)
      /\ ~\E p \in Profiles, jar \in Jars : Import(p, jar)
  BY DEF Call, Import
<1>. QED
  BY <1>2, <1>3, <1>4, <1>5, <1>6, <1>7, <1>8, <1>9 DEF Next

\* The deletion of the last profile leaves nothing of the login, in either set,
\* that the keyring did not refuse to remove, and afterwards only the answer to
\* a request nobody waits for saves one: for any number of profiles and
\* requests, jars of any size, and whatever fails or crashes.
THEOREM DeletionErases == Spec => ErasedAtLast
<1>. DEFINE Step == /\ profiles # {} /\ profiles' = {} => Erased'
                    /\ profiles = {} /\ writing = Nothing /\ writing' # Nothing
                         => \E r \in requests \ requests' : r.kind = "loose"
<1>1. Init => CallerInv /\ Ordered /\ Erasure
  BY CallersInit DEF Init, InitStore, Ordered, Erasure, Erasing
<1>2. CallerInv /\ Ordered /\ Erasure /\ [Next]_vars => (CallerInv /\ Ordered /\ Erasure)' /\ Step
  <2>. SUFFICES ASSUME CallerInv, Ordered, Erasure, [Next]_vars PROVE Erasure' /\ Step
    BY CallersStep, OrderedStep
  <2>1. CASE Erasing
    <3>1. profiles # {}
      BY <2>1 DEF CallerInv, Owned
    <3>. QED
      BY <2>1, <3>1, ErasingErasure
  <2>2. CASE ~Erasing
    <3>1. CASE \E p \in Profiles : Delete(p)
      <4>1. Erasure' /\ profiles' # {} /\ UNCHANGED writing
        BY <3>1, DeleteErasure
      <4>. QED
        BY <4>1
    <3>2. CASE ~\E p \in Profiles : Delete(p)
      <4>1. ~Erasing' /\ (profiles # {} => profiles' # {})
        BY <2>2, <3>2, InUse DEF Ordered
      <4>. QED
        BY <4>1, DeletedSaves DEF Erasure
    <3>. QED
      BY <3>1, <3>2
  <2>. QED
    BY <2>1, <2>2
<1>3. CallerInv /\ Ordered /\ Erasure /\ [Next]_vars => [Step]_vars
  BY <1>2
<1>. QED
  BY <1>1, <1>2, <1>3, PTL DEF Spec, ErasedAtLast
=============================================================================

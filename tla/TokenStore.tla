----------------------------- MODULE TokenStore -----------------------------
(* How token_store.cpp keeps one LIVE Studio login in the keyring of the     *)
(* system, whose entries are too small for a cookie jar: a metadata entry     *)
(* says how many cookie entries hold the jar and in which of two sets, and a  *)
(* save writes the other set before it switches the metadata to it. Calls run *)
(* on the dock's thread, one at a time; each write or removal of an entry is  *)
(* a step, and the program may crash between two of them. Reads succeed.      *)
EXTENDS FiniteSets, Integers

CONSTANTS
  Devices, NoDevice,   \* device and install identifiers
  Jars, NoJar, Size,   \* cookie jars and the number of entries each fills
  Garbled,             \* what entries of more than one jar are read as
  MaxChunks,           \* CredentialChunks::maximum_chunks
  Nothing,             \* no entry, or no call under way
  Faults,              \* of "write", "remove", "crash"
  MaxRefused           \* bound: entries the keyring refuses to remove

Sets == {0, 1}
Entries == Sets \X (0 .. MaxChunks - 1)
MetadataEntry == <<2, 0>>
Logins == [device : Devices \cup {NoDevice}, jar : Jars \cup {NoJar}]
Metadata == [device : Devices \cup {NoDevice}, chunks : 0 .. MaxChunks, set : Sets]
Saves == [device : Devices \cup {NoDevice}, jar : Jars \cup {NoJar}, set : Sets, next : 0 .. MaxChunks]

ASSUME StoreAssumption ==
  /\ NoDevice \notin Devices /\ NoJar \notin Jars /\ Garbled \notin Jars \cup {NoJar}
  /\ MaxChunks \in Nat
  /\ Size \in [Jars \cup {NoJar} -> Nat]
  /\ \A jar \in Jars \cup {NoJar} : Size[jar] = 0 <=> jar = NoJar
  /\ Nothing \notin Metadata \cup Saves \cup Logins

ASSUME BoundAssumption == MaxRefused \in Nat

VARIABLES
  metadata,   \* the account's entry: its device, and where the cookies are
  cookies,    \* cookies[<<set, index>>]: the jar whose chunk the entry holds
  writing,    \* the save that is writing entries
  clearing,   \* the entries the call under way has still to remove
  removing,   \* the call under way removes the whole account
  refused,    \* entries whose last removal the keyring refused
  result      \* what the last call told its caller
store == <<metadata, cookies, writing, clearing, removing, refused, result>>

\* The entries of a set from index a up to, and without, b.
Span(set, a, b) == {<<set, i>> : i \in {j \in 0 .. MaxChunks - 1 : a <= j /\ j < b}}
Holding(entry) == IF entry = Nothing THEN {} ELSE Span(entry.set, 0, entry.chunks)

Idle == writing = Nothing /\ clearing = {} /\ ~removing

\* What load_tiktok_studio_account reads: no cookies if any entry is missing.
JarRead(entry, chunk) ==
  LET held == Holding(entry)
      first == chunk[<<entry.set, 0>>]
  IN IF held = {} \/ \E e \in held : chunk[e] = NoJar THEN NoJar
     ELSE IF Size[first] = entry.chunks /\ \A e \in held : chunk[e] = first THEN first
     ELSE Garbled
Loaded ==
  IF metadata = Nothing THEN Nothing
  ELSE [device |-> metadata.device, jar |-> JarRead(metadata, cookies)]

InitStore ==
  /\ metadata = Nothing
  /\ cookies = [e \in Entries |-> NoJar]
  /\ writing = Nothing /\ clearing = {} /\ removing = FALSE
  /\ refused = {} /\ result = "none"

-----------------------------------------------------------------------------
(* save_tiktok_studio_account: the device saved first is kept. *)

KeptDevice(offered) ==
  IF metadata # Nothing /\ metadata.device # NoDevice THEN metadata.device ELSE offered

\* Mutant: the save overwrites the set that is read.
CookieSetSame == IF metadata = Nothing THEN 0 ELSE metadata.set
CookieSet == IF metadata = Nothing THEN 0 ELSE 1 - metadata.set

BeginSave(offered) ==
  /\ Idle
  /\ IF Size[offered.jar] > MaxChunks
     THEN writing' = writing /\ result' = "failed"
     ELSE /\ writing' = [device |-> KeptDevice(offered.device), jar |-> offered.jar,
                         set |-> CookieSet, next |-> 0]
          /\ result' = "none"
  /\ UNCHANGED <<metadata, cookies, clearing, removing, refused>>

Written == writing.next = Size[writing.jar]

WriteChunk ==
  /\ writing # Nothing /\ ~Written
  /\ cookies' = [cookies EXCEPT ![<<writing.set, writing.next>>] = writing.jar]
  /\ refused' = refused \ {<<writing.set, writing.next>>}
  /\ writing' = [writing EXCEPT !.next = @ + 1]
  /\ UNCHANGED <<metadata, clearing, removing, result>>

\* Mutant: the entries behind the new jar are not removed.
WriteMetadataLonger ==
  /\ writing # Nothing /\ Written
  /\ metadata' = [device |-> writing.device, chunks |-> Size[writing.jar], set |-> writing.set]
  /\ refused' = refused \ {MetadataEntry}
  /\ clearing' = Holding(metadata)
  /\ writing' = Nothing /\ result' = "saved"
  /\ UNCHANGED <<cookies, removing>>

WriteMetadata ==
  /\ writing # Nothing /\ Written
  /\ metadata' = [device |-> writing.device, chunks |-> Size[writing.jar], set |-> writing.set]
  /\ refused' = refused \ {MetadataEntry}
  /\ clearing' = Holding(metadata) \cup Span(writing.set, Size[writing.jar], MaxChunks)
  /\ writing' = Nothing /\ result' = "saved"
  /\ UNCHANGED <<cookies, removing>>

\* Mutant: the clean-up removes the set that is read.
WriteFailsWipes ==
  /\ "write" \in Faults /\ writing # Nothing
  /\ clearing' = Holding(metadata)
  /\ writing' = Nothing /\ result' = "failed"
  /\ UNCHANGED <<metadata, cookies, removing, refused>>

\* A write fails: what this save wrote is removed, the login before it stays.
WriteFails ==
  /\ "write" \in Faults /\ writing # Nothing
  /\ clearing' = Span(writing.set, 0, IF Written THEN Size[writing.jar] ELSE writing.next + 1)
  /\ writing' = Nothing /\ result' = "failed"
  /\ UNCHANGED <<metadata, cookies, removing, refused>>

-----------------------------------------------------------------------------
(* The removals of a call, in its order: a deletion goes through both sets   *)
(* side by side, a save removes the set before it first. A refused removal   *)
(* goes unnoticed.                                                           *)
Rank(e) ==
  IF removing THEN 2 * e[2] + e[1]
  ELSE IF metadata # Nothing /\ e[1] = metadata.set THEN MaxChunks + e[2] ELSE e[2]

Refusable(e) == "remove" \in Faults /\ Cardinality(refused \cup {e}) <= MaxRefused

ClearNext ==
  /\ \E e \in clearing :
       /\ \A f \in clearing : Rank(e) <= Rank(f)
       /\ clearing' = clearing \ {e}
       /\ \/ cookies' = [cookies EXCEPT ![e] = NoJar] /\ refused' = refused \ {e}
          \/ Refusable(e) /\ refused' = refused \cup {e} /\ UNCHANGED cookies
  /\ UNCHANGED <<metadata, writing, removing, result>>

(* remove_tiktok_studio_account: every cookie entry there can be, then the metadata. *)

\* Mutant: only the entries the metadata names are removed.
BeginRemoveNamed ==
  /\ Idle
  /\ clearing' = Holding(metadata) /\ removing' = TRUE /\ result' = "none"
  /\ UNCHANGED <<metadata, cookies, writing, refused>>

BeginRemove ==
  /\ Idle
  /\ clearing' = Entries /\ removing' = TRUE /\ result' = "none"
  /\ UNCHANGED <<metadata, cookies, writing, refused>>

RemoveMetadata ==
  /\ removing /\ clearing = {}
  /\ \/ metadata' = Nothing /\ refused' = refused \ {MetadataEntry}
     \/ Refusable(MetadataEntry) /\ refused' = refused \cup {MetadataEntry} /\ UNCHANGED metadata
  /\ removing' = FALSE /\ result' = "removed"
  /\ UNCHANGED <<cookies, writing, clearing>>

StoreStep == WriteChunk \/ WriteMetadata \/ WriteFails \/ ClearNext \/ RemoveMetadata

\* The program crashes, or OBS is killed: the keyring keeps its entries.
CrashStore ==
  /\ "crash" \in Faults
  /\ writing' = Nothing /\ clearing' = {} /\ removing' = FALSE /\ result' = "none"
  /\ UNCHANGED <<metadata, cookies, refused>>

NextStore == (\E offered \in Logins : BeginSave(offered)) \/ BeginRemove \/ StoreStep \/ CrashStore
SpecStore == InitStore /\ [][NextStore]_store

-----------------------------------------------------------------------------
(* Properties of the store, whoever calls it. *)

\* Type invariant. A login never reads as the entries of two jars.
TypeOK ==
  /\ metadata \in Metadata \cup {Nothing}
  /\ cookies \in [Entries -> Jars \cup {NoJar}]
  /\ writing \in Saves \cup {Nothing}
  /\ clearing \subseteq Entries
  /\ removing \in BOOLEAN
  /\ refused \subseteq Entries \cup {MetadataEntry}
  /\ result \in {"none", "saved", "failed", "removed"}

\* The store keeps the promise of SavedLogin, whatever fails or crashes: what a
\* load returns is the login before the save under way until the save has its
\* login to return (that a save writes the other set, and switches to it with
\* the metadata).
ToSave == IF writing = Nothing THEN Nothing ELSE [device |-> writing.device, jar |-> writing.jar]
Promise == INSTANCE SavedLogin WITH login <- Loaded, saving <- ToSave, deleting <- removing
SavesInOneStep == Promise!Spec

\* A registered device stays until the account is deleted (invariant 11 of
\* ARCHITECTURE.md: ordinary session updates cannot rotate it).
IdentityKept ==
  [][metadata # Nothing /\ metadata.device # NoDevice =>
       \/ removing /\ metadata' = Nothing
       \/ metadata' # Nothing /\ metadata'.device = metadata.device]_store

\* When a save returned, the set it wrote holds the jar and nothing else: no
\* chunk of an older, longer jar stays behind it, unless its removal was refused.
SavedCleanly ==
  Idle /\ result = "saved" =>
    \A e \in Entries : e[1] = metadata.set /\ e \notin refused =>
      (cookies[e] # NoJar <=> e \in Holding(metadata))
=============================================================================

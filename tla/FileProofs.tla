----------------------------- MODULE FileProofs -----------------------------
(***************************************************************************)
(* Proofs about the two programs that write, one after the other, files    *)
(* that others read while they are written, and may be killed in between:  *)
(* the snapshot publisher, for any number of artifacts, any contents and   *)
(* any number of fetches and kills, and the build of the event calendar    *)
(* beside its operators, for any sources, any number of operators,         *)
(* approvals and builds, and any kill.  The calendar's labels come with    *)
(* it, for any sessions, rows and requests.                                *)
(***************************************************************************)
EXTENDS PublishSnapshot, EventBuild, TLAPS, WellFoundedInduction, FiniteSetTheorems,
        SequenceTheorems

(***************************************************************************)
(* The inductive invariant.  A lockfile stays fetchable because an upload  *)
(* writes under a key that held no object (CopyIsOwn), and a new one is    *)
(* because the payload in memory is at every step: what the publisher puts *)
(* into it has just been found in the store, or copied there from a file   *)
(* that hashes to its key (HandIsCanonical).                               *)
(***************************************************************************)
HandIsCanonical ==
  step \in {"upload", "copy"} => raw[at] = Canonical(sha)

CopyIsOwn == step = "copy" => store[Key] = PartialCopy

ManifestIsLocked == manifest \in lockfiles

LoadedIsFetchable ==
  (step # "idle" /\ ~skip /\ ~skipped) => \A a \in Artifacts : Fetchable(loaded[a])

(* What the publisher has passed over is as the manifest has it; the rest  *)
(* that lies behind it has been made canonical and pinned.                 *)
BehindIsPinned ==
  /\ step = "patch" => at = N + 1
  /\ step # "idle" => \A a \in Artifacts :
        IF a < at /\ a \in only /\ raw[a] # NoFile
        THEN raw[a] = Canonical(loaded[a].sha)
        ELSE loaded[a] = manifest[a]

HandIsChosen == step \in {"upload", "copy"} => at \in only /\ raw[at] # NoFile

PublishInv ==
  /\ TypeOK
  /\ HandIsCanonical /\ HandIsChosen /\ CopyIsOwn
  /\ ManifestIsLocked /\ LoadedIsFetchable /\ PinnedStaysFetchable
  /\ BehindIsPinned

(* The key of the artifact in hand.                                        *)
LEMMA KeyInHand ==
  ASSUME TypeOK, step \in {"upload", "copy"}
  PROVE  at \in Artifacts /\ Key \in Keys
<1>1. at \in Artifacts
  BY PublishAssumption DEF TypeOK, Artifacts
<1>2. loaded[at].key \in Keys
  BY <1>1 DEF TypeOK, ManifestEntry
<1> QED
  BY <1>1, <1>2 DEF TypeOK, Keys, Key, AddressedKey

LEMMA PublishInitInv == PublishInit => PublishInv
<1> SUFFICES ASSUME PublishInit PROVE PublishInv
  OBVIOUS
<1> USE PublishAssumption DEF PublishInit
<1>1. TypeOK
  <2>1. raw \in [Artifacts -> File \cup {NoFile}]
    BY DEF File, Canonical
  <2>2. store \in [Keys -> File \cup {NoObject, PartialCopy}]
    BY DEF File, Canonical
  <2>3. manifest \in [Artifacts -> ManifestEntry]
    BY DEF Keys, ManifestEntry
  <2>4. lockfiles \subseteq [Artifacts -> ManifestEntry] /\ sha \in Contents
    BY <2>3
  <2>5. at \in 1..(N + 1) /\ step = "idle"
    OBVIOUS
  <2> QED
    BY <2>1, <2>2, <2>3, <2>4, <2>5 DEF TypeOK
<1>2. \A a \in Artifacts : Fetchable(manifest[a])
  BY DEF Fetchable, Artifacts, Keys
<1>3. PinnedStaysFetchable
  BY <1>2 DEF PinnedStaysFetchable
<1> QED
  BY <1>1, <1>3 DEF PublishInv, HandIsCanonical, CopyIsOwn, ManifestIsLocked,
     LoadedIsFetchable, BehindIsPinned, HandIsChosen

LEMMA FetchArtifactInv ==
  ASSUME PublishInv, NEW a \in Artifacts, NEW c \in Contents, FetchArtifact(a, c)
  PROVE  PublishInv'
<1> USE DEF PublishInv, FetchArtifact, runVars
<1>1. TypeOK'
  BY PublishAssumption DEF TypeOK, File
<1>2. PinnedStaysFetchable'
  BY DEF PinnedStaysFetchable, Fetchable
<1> QED
  BY <1>1, <1>2 DEF HandIsCanonical, HandIsChosen, CopyIsOwn, ManifestIsLocked,
     LoadedIsFetchable, BehindIsPinned

LEMMA LoseFileInv ==
  ASSUME PublishInv, NEW a \in Artifacts, LoseFile(a)
  PROVE  PublishInv'
<1> USE DEF PublishInv, LoseFile, runVars
<1>1. TypeOK'
  BY PublishAssumption DEF TypeOK
<1>2. PinnedStaysFetchable'
  BY DEF PinnedStaysFetchable, Fetchable
<1> QED
  BY <1>1, <1>2 DEF HandIsCanonical, HandIsChosen, CopyIsOwn, ManifestIsLocked,
     LoadedIsFetchable, BehindIsPinned

LEMMA StartPublishInv ==
  ASSUME PublishInv, NEW option \in BOOLEAN, NEW chosen \in SUBSET Artifacts,
         StartPublish(option, chosen)
  PROVE  PublishInv'
<1> USE DEF PublishInv, StartPublish
<1>1. TypeOK'
  BY PublishAssumption DEF TypeOK
<1>2. LoadedIsFetchable' /\ PinnedStaysFetchable'
  BY DEF PinnedStaysFetchable, ManifestIsLocked, LoadedIsFetchable, Fetchable
<1>3. BehindIsPinned'
  BY DEF BehindIsPinned, Artifacts
<1> QED
  BY <1>1, <1>2, <1>3 DEF HandIsCanonical, HandIsChosen, CopyIsOwn, ManifestIsLocked

(* A publish that ends leaves the files, the store and the manifest alone, *)
(* but for what it has patched.                                            *)
LEMMA ExitInv ==
  ASSUME PublishInv, NEW how, Exit(how), UNCHANGED <<raw, store>>,
         manifest' \in [Artifacts -> ManifestEntry], skipped' \in BOOLEAN,
         manifest' \in lockfiles', lockfiles' \subseteq [Artifacts -> ManifestEntry],
         PinnedStaysFetchable'
  PROVE  PublishInv'
<1> USE DEF PublishInv, Exit
<1>1. at' \in 1..(N + 1) /\ sha' \in Contents /\ only' \subseteq Artifacts
  BY PublishAssumption
<1>2. TypeOK'
  BY <1>1 DEF TypeOK
<1> QED
  BY <1>2 DEF HandIsCanonical, HandIsChosen, CopyIsOwn, ManifestIsLocked,
     LoadedIsFetchable, BehindIsPinned

LEMMA PassOverInv ==
  ASSUME PublishInv, PassOver
  PROVE  PublishInv'
<1> USE DEF PublishInv, PassOver, Advance
<1>1. TypeOK'
  BY PublishAssumption DEF TypeOK, Artifacts
<1>2. LoadedIsFetchable' /\ PinnedStaysFetchable'
  BY DEF PinnedStaysFetchable, LoadedIsFetchable, Fetchable
<1>3. BehindIsPinned'
  BY PublishAssumption DEF BehindIsPinned, PassedOver, Artifacts, TypeOK
<1> QED
  BY <1>1, <1>2, <1>3 DEF HandIsCanonical, HandIsChosen, CopyIsOwn, ManifestIsLocked

LEMMA DigestRaisesInv ==
  ASSUME PublishInv, DigestRaises
  PROVE  PublishInv'
<1>1. PinnedStaysFetchable'
  BY DEF PublishInv, DigestRaises, PinnedStaysFetchable, Fetchable
<1> QED
  BY <1>1, ExitInv DEF PublishInv, DigestRaises, TypeOK, ManifestIsLocked

(* The digest is taken of the bytes that are on disk from then on.         *)
LEMMA DigestInv ==
  ASSUME PublishInv, Digest
  PROVE  PublishInv'
<1> DEFINE new == raw[at].content
<1> USE DEF PublishInv, Digest, Judge, PassedOver
<1>1. /\ at \in Artifacts /\ new \in Contents
      /\ raw' = [raw EXCEPT ![at] = Canonical(new)]
  <2>1. at \in Artifacts
    BY PublishAssumption DEF TypeOK, Artifacts
  <2>2. raw[at] \in File
    BY <2>1 DEF TypeOK, PassedOver
  <2>3. new \in Contents
    BY <2>2 DEF File
  <2> QED
    BY <2>1, <2>3
<1>2. /\ raw' \in [Artifacts -> File \cup {NoFile}] /\ raw'[at] = Canonical(new)
      /\ \A a \in Artifacts \ {at} : raw'[a] = raw[a]
  BY <1>1 DEF TypeOK, File, Canonical
<1>3. loaded[at].key[1] \in Artifacts /\ <<loaded[at].key[1], new>> \in Keys
  BY <1>1 DEF TypeOK, ManifestEntry, Keys
<1>4. /\ at \in only /\ raw[at] # NoFile /\ raw'[at] # NoFile /\ at \in 1..N
      /\ \A a \in Artifacts : a \in Nat /\ (a < at + 1 <=> a = at \/ a < at)
  <2>1. Canonical(new) \in File /\ at \in 1..N
    BY <1>1 DEF File, Canonical, Artifacts
  <2>2. \A a \in Artifacts : a \in Nat /\ (a < at + 1 <=> a = at \/ a < at)
    BY <2>1, PublishAssumption DEF Artifacts
  <2> QED
    BY <1>2, <2>1, <2>2, PublishAssumption
<1> USE DEF PinnedStaysFetchable, ManifestIsLocked, Fetchable
<1>5. CASE new = loaded[at].sha /\ Advance(loaded)
  <2>1. TypeOK'
    BY <1>1, <1>2, <1>5, PublishAssumption DEF TypeOK, Advance, Artifacts
  <2>2. LoadedIsFetchable'
    BY <1>5 DEF LoadedIsFetchable, Advance
  <2>3. BehindIsPinned'
    BY <1>1, <1>2, <1>4, <1>5 DEF BehindIsPinned, Advance
  <2> QED
    BY <1>5, <2>1, <2>2, <2>3 DEF Advance, HandIsCanonical, HandIsChosen, CopyIsOwn
<1>6. CASE skip /\ Advance([loaded EXCEPT ![at] = Entry(new)])
  <2>1. TypeOK'
    BY <1>1, <1>2, <1>3, <1>6, PublishAssumption
    DEF TypeOK, Advance, Artifacts, ManifestEntry, Entry, AddressedKey
  <2>2. LoadedIsFetchable'
    BY <1>6 DEF LoadedIsFetchable
  <2>3. BehindIsPinned'
    <3>1. /\ loaded' = [loaded EXCEPT ![at] = Entry(new)] /\ loaded'[at].sha = new
          /\ \A a \in Artifacts \ {at} : loaded'[a] = loaded[a]
      BY <1>1, <1>6 DEF Advance, TypeOK, Entry
    <3>2. step' = "patch" => at' = N + 1
      BY <1>6, <1>4, PublishAssumption DEF Advance
    <3>3. at' = at + 1 /\ step # "idle" /\ UNCHANGED <<only, manifest>>
      BY <1>6 DEF Advance
    <3>4. ASSUME NEW a \in Artifacts
          PROVE  IF a < at' /\ a \in only /\ raw'[a] # NoFile
                 THEN raw'[a] = Canonical(loaded'[a].sha) ELSE loaded'[a] = manifest[a]
      <4>1. CASE a = at
        BY <1>2, <1>4, <3>1, <3>3, <4>1
      <4>2. CASE a # at
        BY <1>2, <1>4, <3>1, <3>3, <4>2 DEF BehindIsPinned
      <4> QED
        BY <4>1, <4>2
    <3> QED
      BY <3>2, <3>3, <3>4 DEF BehindIsPinned
  <2> QED
    BY <1>6, <2>1, <2>2, <2>3 DEF Advance, HandIsCanonical, HandIsChosen, CopyIsOwn
<1>7. CASE ~skip /\ sha' = new /\ step' = "upload" /\ UNCHANGED <<at, loaded>>
  <2>1. TypeOK'
    BY <1>1, <1>2, <1>7, PublishAssumption DEF TypeOK, Artifacts
  <2>2. LoadedIsFetchable' /\ HandIsCanonical' /\ HandIsChosen' /\ CopyIsOwn'
    BY <1>2, <1>4, <1>7 DEF LoadedIsFetchable, HandIsCanonical, HandIsChosen, CopyIsOwn
  <2>3. BehindIsPinned'
    BY <1>1, <1>2, <1>4, <1>7 DEF BehindIsPinned
  <2> QED
    BY <1>7, <2>1, <2>2, <2>3
<1> QED
  BY <1>5, <1>6, <1>7

(* What is in hand goes into the payload when the store has it.            *)
LEMMA PinInv ==
  ASSUME PublishInv, step \in {"upload", "copy"}, step' \in {"digest", "patch"},
         Advance([loaded EXCEPT ![at] = Entry(sha)]),
         store' \in [Keys -> File \cup {NoObject, PartialCopy}],
         store'[Key] = Canonical(sha),
         \A k \in Keys : store[k] \in File => store'[k] = store[k],
         UNCHANGED <<raw, manifest, lockfiles, skipped, skip, only, sha>>
  PROVE  PublishInv'
<1> USE DEF PublishInv
<1>1. at \in Artifacts
  BY PublishAssumption DEF TypeOK, Artifacts
<1>2. Key \in Keys
  BY KeyInHand
<1>3. Entry(sha) = [key |-> Key, sha |-> sha] /\ Entry(sha) \in ManifestEntry
  BY <1>2 DEF TypeOK, ManifestEntry, Key, Entry
<1>4. TypeOK'
  <2>1. Entry(sha) \in ManifestEntry
    BY <1>2, <1>3
  <2>2. at' \in 1..(N + 1) /\ (step' = "digest" => at' <= N)
    BY <1>1, PublishAssumption DEF Advance, Artifacts
  <2> QED
    BY <1>1, <2>1, <2>2 DEF TypeOK, Advance
<1>5. ASSUME NEW e \in ManifestEntry, Fetchable(e)
      PROVE  store'[e.key] = Canonical(e.sha)
  <2>1. e.key \in Keys /\ Canonical(e.sha) \in File
    BY DEF ManifestEntry, File, Canonical
  <2> QED
    BY <1>5, <2>1 DEF Fetchable
<1>6. PinnedStaysFetchable'
  BY <1>5 DEF PinnedStaysFetchable, TypeOK, Fetchable
<1>7. LoadedIsFetchable'
  <2>1. \A a \in Artifacts \ {at} : loaded'[a] = loaded[a] /\ loaded[a] \in ManifestEntry
    BY <1>1 DEF Advance, TypeOK
  <2>2. loaded'[at] = Entry(sha)
    BY <1>1 DEF Advance, TypeOK
  <2>3. store'[loaded'[at].key] = Canonical(loaded'[at].sha)
    BY <1>3, <2>2
  <2>4. ASSUME ~skip, ~skipped, NEW a \in Artifacts
        PROVE  store'[loaded'[a].key] = Canonical(loaded'[a].sha)
    BY <1>5, <2>1, <2>3, <2>4 DEF LoadedIsFetchable
  <2> QED
    BY <2>4 DEF LoadedIsFetchable, Fetchable
<1>8. BehindIsPinned'
  BY <1>1, PublishAssumption
  DEF BehindIsPinned, HandIsCanonical, HandIsChosen, Advance, Artifacts, TypeOK, Entry
<1> QED
  BY <1>4, <1>6, <1>7, <1>8 DEF HandIsCanonical, HandIsChosen, CopyIsOwn, ManifestIsLocked

LEMMA UploadInv ==
  ASSUME PublishInv, Upload
  PROVE  PublishInv'
<1> USE DEF PublishInv, Upload
<1>1. /\ at \in Artifacts /\ Key \in Keys /\ raw[at] = Canonical(sha)
      /\ store \in [Keys -> File \cup {NoObject, PartialCopy}]
  BY KeyInHand DEF HandIsCanonical, TypeOK
<1>2. CASE store[Key] = NoObject /\ BeginCopy
  <2>1. /\ store' = [store EXCEPT ![Key] = PartialCopy] /\ Key' = Key
        /\ UNCHANGED <<step, at, loaded>> \/ step' = "copy"
    BY <1>2 DEF BeginCopy, Key, AddressedKey
  <2>2. TypeOK'
    BY <1>1, <1>2, PublishAssumption DEF TypeOK, BeginCopy
  <2>3. ASSUME NEW e \in ManifestEntry, Fetchable(e)
        PROVE  store'[e.key] = Canonical(e.sha)
    <3>1. e.key \in Keys /\ Canonical(e.sha) \in File
      BY DEF ManifestEntry, File, Canonical
    <3>2. e.key # Key
      BY <1>2, <2>3, <3>1, PublishAssumption DEF Fetchable
    <3> QED
      BY <1>1, <2>1, <2>3, <3>1, <3>2 DEF Fetchable
  <2>4. PinnedStaysFetchable'
    BY <2>3 DEF PinnedStaysFetchable, TypeOK, Fetchable
  <2>5. LoadedIsFetchable'
    BY <1>2, <2>3 DEF LoadedIsFetchable, TypeOK, Fetchable, BeginCopy
  <2>6. CopyIsOwn'
    BY <1>1, <2>1 DEF CopyIsOwn
  <2> QED
    BY <1>2, <2>2, <2>4, <2>5, <2>6
    DEF BeginCopy, HandIsCanonical, HandIsChosen, ManifestIsLocked, BehindIsPinned
<1>3. CASE store[Key] = raw[at] /\ Pin /\ UNCHANGED store
  <2>1. step' \in {"digest", "patch"}
    BY <1>3 DEF Pin, Advance
  <2> QED
    BY <1>1, <1>3, <2>1, PinInv DEF Pin
<1>4. CASE Exit("refused") /\ UNCHANGED store
  <2>1. PinnedStaysFetchable'
    BY <1>4 DEF PinnedStaysFetchable, Fetchable
  <2> QED
    BY <1>4, <2>1, ExitInv DEF TypeOK, ManifestIsLocked
<1> QED
  BY <1>2, <1>3, <1>4

LEMMA CopiedInv ==
  ASSUME PublishInv, Copied
  PROVE  PublishInv'
<1> USE DEF PublishInv, Copied, Pin
<1>1. /\ at \in Artifacts /\ Key \in Keys /\ raw[at] = Canonical(sha)
      /\ store \in [Keys -> File \cup {NoObject, PartialCopy}]
  BY KeyInHand DEF HandIsCanonical, TypeOK
<1>2. Canonical(sha) \in File
  BY DEF TypeOK, File, Canonical
<1>3. store[Key] = PartialCopy /\ PartialCopy \notin File
  BY PublishAssumption DEF CopyIsOwn
<1>4. /\ store' \in [Keys -> File \cup {NoObject, PartialCopy}] /\ store'[Key] = Canonical(sha)
      /\ \A k \in Keys : store[k] \in File => store'[k] = store[k]
  BY <1>1, <1>2, <1>3
<1>5. step' \in {"digest", "patch"}
  BY DEF Advance
<1> QED
  BY <1>4, <1>5, PinInv

LEMMA PatchInv ==
  ASSUME PublishInv, Patch
  PROVE  PublishInv'
<1> USE DEF PublishInv, Patch
<1>1. PinnedStaysFetchable'
  <2> SUFFICES ASSUME ~skipped', NEW lock \in lockfiles', NEW a \in Artifacts
               PROVE  Fetchable(lock[a])
    BY DEF PinnedStaysFetchable, Fetchable
  <2>1. CASE lock = loaded /\ ~skip
    BY <2>1 DEF LoadedIsFetchable
  <2>2. CASE lock = loaded /\ loaded = manifest
    BY <2>2 DEF PinnedStaysFetchable, ManifestIsLocked
  <2>3. CASE lock \in lockfiles
    BY <2>3 DEF PinnedStaysFetchable
  <2> QED
    BY <2>1, <2>2, <2>3
<1> QED
  BY <1>1, ExitInv DEF TypeOK

LEMMA KillPublishInv ==
  ASSUME PublishInv, KillPublish
  PROVE  PublishInv'
<1>1. PinnedStaysFetchable'
  BY DEF PublishInv, KillPublish, PinnedStaysFetchable, Fetchable
<1> QED
  BY <1>1, ExitInv DEF PublishInv, KillPublish, TypeOK, ManifestIsLocked

LEMMA PublishStutterInv ==
  ASSUME PublishInv, UNCHANGED publishVars
  PROVE  PublishInv'
BY DEF PublishInv, publishVars, runVars, TypeOK, HandIsCanonical, HandIsChosen, CopyIsOwn,
   Key, AddressedKey,
   ManifestIsLocked, LoadedIsFetchable, PinnedStaysFetchable, Fetchable, BehindIsPinned

LEMMA PublishStepInv == PublishInv /\ [PublishNext]_publishVars => PublishInv'
<1> SUFFICES ASSUME PublishInv, [PublishNext]_publishVars PROVE PublishInv'
  OBVIOUS
<1>1. CASE \E a \in Artifacts, c \in Contents : FetchArtifact(a, c)
  BY <1>1, FetchArtifactInv
<1>2. CASE \E a \in Artifacts : LoseFile(a)
  BY <1>2, LoseFileInv
<1>3. CASE \E option \in BOOLEAN, chosen \in SUBSET Artifacts : StartPublish(option, chosen)
  BY <1>3, StartPublishInv
<1>4. CASE PassOver
  BY <1>4, PassOverInv
<1>5. CASE DigestRaises
  BY <1>5, DigestRaisesInv
<1>6. CASE Digest
  BY <1>6, DigestInv
<1>7. CASE Upload
  BY <1>7, UploadInv
<1>8. CASE Copied
  BY <1>8, CopiedInv
<1>9. CASE Patch
  BY <1>9, PatchInv
<1>10. CASE KillPublish
  BY <1>10, KillPublishInv
<1>11. CASE UNCHANGED publishVars
  BY <1>11, PublishStutterInv
<1> QED
  BY <1>1, <1>2, <1>3, <1>4, <1>5, <1>6, <1>7, <1>8, <1>9, <1>10, <1>11
  DEF PublishNext, Publish

LEMMA PublishInvariance == PublishSpec => []PublishInv
BY PublishInitInv, PublishStepInv, PTL DEF PublishSpec

-----------------------------------------------------------------------------
(* The files, the objects and the manifests keep their shape.              *)
THEOREM TypeCorrect == PublishSpec => []TypeOK
<1>1. PublishInv => TypeOK
  BY DEF PublishInv
<1> QED
  BY <1>1, PublishInvariance, PTL

(* No lockfile ever committed without --skip-upload loses an object it pins*)
(* or pins one that is not there, whatever is fetched, refused or killed   *)
(* (publish_canonical_snapshot, run_publish; artifact_store, put_file).    *)
THEOREM LockfilesStayFetchable == PublishSpec => []PinnedStaysFetchable
<1>1. PublishInv => PinnedStaysFetchable
  BY DEF PublishInv
<1> QED
  BY <1>1, PublishInvariance, PTL

(* A manifest that is replaced names, for the artifacts the publish was to *)
(* take and found, the files on disk, all of them canonical, and keeps the *)
(* entries of the others (publish_canonical_snapshot, run_publish).        *)
THEOREM PatchNamesTheTree == PublishSpec => PatchedIsRaw
<1> DEFINE Named == manifest' # manifest =>
                      \A a \in Artifacts :
                        IF a \in only /\ raw[a] # NoFile
                        THEN raw[a] = Canonical(manifest'[a].sha)
                        ELSE manifest'[a] = manifest[a]
<1>1. PublishInv /\ [PublishNext]_publishVars => [Named]_publishVars
  <2> SUFFICES ASSUME PublishInv, PublishNext, manifest' # manifest PROVE Named
    OBVIOUS
  <2>1. Patch
    BY DEF PublishNext, Publish, FetchArtifact, LoseFile, StartPublish, PassOver,
       DigestRaises, Digest, Upload, Copied, KillPublish
  <2>2. step = "patch" /\ manifest' = loaded /\ at = N + 1
    BY <2>1 DEF Patch, PublishInv, BehindIsPinned
  <2>3. \A a \in Artifacts : a < at
    BY <2>2, PublishAssumption DEF Artifacts
  <2> QED
    BY <2>2, <2>3 DEF PublishInv, BehindIsPinned
<1> QED
  BY <1>1, PublishInvariance, PTL DEF PublishSpec, PatchedIsRaw

-----------------------------------------------------------------------------
(* A finite nonempty set of integers has a maximum: a smallest set without *)
(* one would lose an element and still have none.                          *)
LEMMA MaxExists ==
  ASSUME NEW S \in SUBSET Int, IsFiniteSet(S), S # {}
  PROVE  Max(S) \in S /\ \A x \in S : x <= Max(S)
<1> DEFINE HasMax(T) == \E x \in T : \A y \in T : x >= y
           Bad == {T \in SUBSET S : T # {} /\ ~HasMax(T)}
           Sizes == {Cardinality(T) : T \in Bad}
           R == OpToRel(<, Nat)
<1>1. \A T \in SUBSET S : IsFiniteSet(T) /\ Cardinality(T) \in Nat
  BY FS_Subset, FS_CardinalityType
<1>2. Bad = {}
  <2> SUFFICES ASSUME Bad # {} PROVE FALSE
    OBVIOUS
  <2>1. Sizes # {} /\ Sizes \subseteq Nat
    BY <1>1
  <2>2. IsWellFoundedOn(R, Nat)
    BY NatLessThanWellFounded
  <2>3. PICK n \in Sizes : \A k \in Nat : <<k, n>> \in R => k \notin Sizes
    BY <2>1, <2>2, WFMin
  <2>4. \A k \in Nat : k < n => k \notin Sizes
    BY <2>1, <2>3 DEF OpToRel
  <2>5. PICK T \in Bad : Cardinality(T) = n
    BY <2>3
  <2>6. PICK x \in T : TRUE
    BY <2>5
  <2>7. IsFiniteSet(T \ {x}) /\ Cardinality(T \ {x}) = n - 1 /\ n - 1 \in Nat /\ n \in Nat
    <3>1. IsFiniteSet(T) /\ n \in Nat
      BY <1>1, <2>5
    <3>2. IsFiniteSet(T \ {x}) /\ Cardinality(T \ {x}) = n - 1
      BY <2>5, <2>6, <3>1, FS_RemoveElement
    <3>3. Cardinality(T \ {x}) \in Nat
      BY <3>2, FS_CardinalityType
    <3> QED
      BY <3>1, <3>2, <3>3
  <2>8. T \ {x} \notin Bad
    <3>1. n - 1 \notin Sizes
      BY <2>4, <2>7
    <3> QED
      BY <2>7, <3>1
  <2>9. T \ {x} \in SUBSET S
    BY <2>5
  <2>10. CASE T \ {x} = {}
    <3>1. T = {x} /\ x \in Int
      BY <2>5, <2>6, <2>10
    <3> QED
      BY <2>5, <3>1
  <2>11. CASE T \ {x} # {}
    <3>1. PICK y \in T \ {x} : \A z \in T \ {x} : y >= z
      BY <2>8, <2>9, <2>11
    <3>2. x \in Int /\ \A z \in T : z \in Int
      BY <2>5, <2>6
    <3>3. HasMax(T)
      <4>1. CASE x >= y
        <5>1. \A z \in T : x >= z
          BY <3>1, <3>2, <4>1
        <5> QED
          BY <2>6, <5>1
      <4>2. CASE ~(x >= y)
        <5>1. \A z \in T : y >= z
          BY <3>1, <3>2, <4>2
        <5> QED
          BY <3>1, <5>1
      <4> QED
        BY <4>1, <4>2
    <3> QED
      BY <2>5, <3>3
  <2> QED
    BY <2>10, <2>11
<1>3. HasMax(S)
  BY <1>2
<1> QED
  BY <1>3 DEF Max

LEMMA RangeIsFinite ==
  ASSUME NEW S, IsFiniteSet(S), NEW f, f = [x \in S |-> f[x]]
  PROVE  IsFiniteSet({f[x] : x \in S})
<1>1. f \in Surjection(S, {f[x] : x \in S})
  BY DEF Surjection
<1> QED
  BY <1>1, FS_Surjection

LEMMA MinExists ==
  ASSUME NEW S \in SUBSET Int, IsFiniteSet(S), S # {}
  PROVE  Min(S) \in S /\ \A x \in S : Min(S) <= x
<1> DEFINE f == [x \in S |-> -x]
           T == {f[x] : x \in S}
<1>1. IsFiniteSet(T)
  BY RangeIsFinite
<1>2. T \in SUBSET Int /\ T # {}
  <2>1. \A x \in S : f[x] \in Int
    OBVIOUS
  <2> QED
    BY <2>1
<1>3. Max(T) \in T /\ \A y \in T : y <= Max(T)
  BY <1>1, <1>2, MaxExists
<1>4. PICK m \in S : Max(T) = -m
  BY <1>3
<1>5. \A x \in S : m <= x
  <2> TAKE x \in S
  <2>1. -x <= -m
    BY <1>3, <1>4
  <2> QED
    BY <2>1
<1> QED
  BY <1>5 DEF Min

(***************************************************************************)
(* The labels of the calendar.  The point classifier and the bulk one      *)
(* count trading days on different sets of sessions; either set has every  *)
(* session between two days of the years of the request and of the rows,   *)
(* and that is all the labels of a day depend on.                          *)
(***************************************************************************)
LEMMA DivMonotone ==
  ASSUME NEW n \in Nat, n > 0, NEW a \in Int, NEW b \in Int, a <= b
  PROVE  a \div n \in Int /\ b \div n \in Int /\ a \div n <= b \div n
OBVIOUS

LEMMA DivOfSum ==
  ASSUME NEW n \in Nat, n > 0, NEW q \in Int, NEW r \in 0 .. n - 1
  PROVE  (q * n + r) \div n = q
OBVIOUS

LEMMA DivOfDiv ==
  ASSUME NEW n \in Nat, n > 0, NEW k \in Nat, k > 0, NEW a \in Int
  PROVE  a \div (k * n) = (a \div n) \div k
<1> DEFINE m == a \div n
           y == m \div k
           r == a - m * n
           t == m - y * k
<1>1. m \in Int /\ r \in 0 .. n - 1
  OBVIOUS
<1>2. y \in Int /\ t \in 0 .. k - 1
  BY <1>1
<1> HIDE DEF m, y
<1>3. a = y * (k * n) + (t * n + r)
  BY <1>1, <1>2
<1>4. t * n + r \in 0 .. k * n - 1
  <2>1. t * n >= 0 /\ t * n <= (k - 1) * n
    BY <1>2
  <2> QED
    BY <1>1, <1>2, <2>1
<1>5. k * n \in Nat /\ k * n > 0
  OBVIOUS
<1> QED
  BY <1>2, <1>3, <1>4, <1>5, DivOfSum DEF y, m

(* A set of sessions with every session between two of some days.          *)
Spans(sessions, days) ==
  /\ sessions \subseteq Sessions
  /\ \A a, b \in days, s \in Sessions : a <= s /\ s <= b => s \in sessions

WholeYears(days) == {x \in Int : \E d \in days : YearOf(x) = YearOf(d)}

LEMMA YearsGrow ==
  ASSUME NEW a \in Int, NEW b \in Int, a <= b
  PROVE  YearOf(a) \in Int /\ YearOf(b) \in Int /\ YearOf(a) <= YearOf(b)
BY DivMonotone, CalendarAssumption DEF YearOf

LEMMA MonthsGrow ==
  ASSUME NEW a \in Int, NEW b \in Int, a <= b
  PROVE  MonthOf(a) \in Int /\ MonthOf(b) \in Int /\ MonthOf(a) <= MonthOf(b)
BY DivMonotone, CalendarAssumption DEF MonthOf

(* A month lies in one year.                                               *)
LEMMA MonthInYear ==
  ASSUME NEW a \in Int, NEW b \in Int, MonthOf(a) = MonthOf(b)
  PROVE  YearOf(a) = YearOf(b)
<1> DEFINE k == YearLength \div MonthLength
<1>1. k \in Nat /\ k > 0 /\ YearLength = k * MonthLength
  BY CalendarAssumption
<1>2. ASSUME NEW c \in Int PROVE YearOf(c) = MonthOf(c) \div k
  <2> HIDE DEF k
  <2> QED
    BY <1>1, DivOfDiv, CalendarAssumption DEF YearOf, MonthOf
<1> QED
  BY <1>2

LEMMA SameTradingDays ==
  ASSUME NEW sessions, NEW days, Spans(sessions, days), NEW a \in days, NEW b \in days,
         a \in Int, b \in Int
  PROVE  TradingDays(a, b, sessions) = TradingDays(a, b, Sessions)
<1>1. \A s \in Sessions : s \in Int
  BY CalendarAssumption
<1>2. {s \in sessions : a < s /\ s <= b} = {s \in Sessions : a < s /\ s <= b}
  BY <1>1 DEF Spans
<1>3. {s \in sessions : b < s /\ s <= a} = {s \in Sessions : b < s /\ s <= a}
  BY <1>1 DEF Spans
<1> QED
  BY <1>2, <1>3 DEF TradingDays

LEMMA SameSessions ==
  ASSUME NEW sessions, NEW days, Spans(sessions, days), NEW a \in days, a \in Int
  PROVE  a \in sessions <=> a \in Sessions
BY DEF Spans

LEMMA SpansLess ==
  ASSUME NEW sessions, NEW days, Spans(sessions, days), NEW fewer \in SUBSET days
  PROVE  Spans(sessions, fewer)
BY DEF Spans

LEMMA SessionsSpan == ASSUME NEW days PROVE Spans(Sessions, days)
BY DEF Spans

(* Rows as the loader reads them, finitely many.                           *)
DatedRows(rows) == IsFiniteSet(rows) /\ \A row \in rows : IsDated(row)

LEMMA RowDaysAreFinite ==
  ASSUME NEW rows, DatedRows(rows)
  PROVE  RowDays(rows) \in SUBSET Int /\ IsFiniteSet(RowDays(rows))
<1> DEFINE date == [row \in rows |-> row.date]
           published == [row \in rows |-> PublishedOn(row)]
<1>1. RowDays(rows) = {date[row] : row \in rows} \cup {published[row] : row \in rows}
  BY DEF RowDays
<1>2. IsFiniteSet({date[row] : row \in rows}) /\ IsFiniteSet({published[row] : row \in rows})
  BY RangeIsFinite DEF DatedRows
<1>3. IsFiniteSet(RowDays(rows))
  BY <1>1, <1>2, FS_Union
<1>4. RowDays(rows) \subseteq Int
  BY DEF RowDays, DatedRows, IsDated
<1> QED
  BY <1>3, <1>4

LEMMA DaysAreFinite ==
  ASSUME NEW rows, DatedRows(rows), NEW request \in SUBSET Sessions
  PROVE  /\ request \cup RowDays(rows) \in SUBSET Int
         /\ IsFiniteSet(request \cup RowDays(rows))
<1>1. IsFiniteSet(request) /\ request \subseteq Int
  BY CalendarAssumption, FS_Subset
<1>2. RowDays(rows) \in SUBSET Int /\ IsFiniteSet(RowDays(rows))
  BY RowDaysAreFinite
<1> QED
  BY <1>1, <1>2, FS_Union

LEMMA GlobalSpans ==
  ASSUME NEW rows, DatedRows(rows), NEW request \in SUBSET Sessions
  PROVE  Spans(GlobalSessions(request, rows), WholeYears(request \cup RowDays(rows)))
<1> DEFINE days == request \cup RowDays(rows)
           year == [day \in days |-> YearOf(day)]
           years == {YearOf(day) : day \in days}
<1>1. days \in SUBSET Int /\ IsFiniteSet(days)
  BY DaysAreFinite
<1>2. years = {year[day] : day \in days}
  OBVIOUS
<1>3. IsFiniteSet(years)
  <2>1. IsFiniteSet({year[day] : day \in days})
    BY <1>1, RangeIsFinite
  <2> QED
    BY <1>2, <2>1
<1>4. years \in SUBSET Int
  BY <1>1, YearsGrow
<1>5. GlobalSessions(request, rows) =
        {s \in Sessions : YearOf(s) \in Min(years) .. Max(years)}
  BY DEF GlobalSessions
<1> HIDE DEF years
<1>6. ASSUME NEW a \in WholeYears(days), NEW b \in WholeYears(days), NEW s \in Sessions,
             a <= s, s <= b
      PROVE  YearOf(s) \in Min(years) .. Max(years)
  <2>1. a \in Int /\ b \in Int /\ s \in Int
    BY CalendarAssumption DEF WholeYears
  <2>2. YearOf(a) \in years /\ YearOf(b) \in years
    BY DEF WholeYears, years
  <2>3. /\ Min(years) \in Int /\ Min(years) <= YearOf(a)
        /\ Max(years) \in Int /\ YearOf(b) <= Max(years)
    <3>1. Min(years) \in years /\ \A y \in years : Min(years) <= y
      BY <1>3, <1>4, <2>2, MinExists
    <3>2. Max(years) \in years /\ \A y \in years : y <= Max(years)
      BY <1>3, <1>4, <2>2, MaxExists
    <3> QED
      BY <1>4, <2>2, <3>1, <3>2
  <2>4. /\ YearOf(a) \in Int /\ YearOf(s) \in Int /\ YearOf(b) \in Int
        /\ YearOf(a) <= YearOf(s) /\ YearOf(s) <= YearOf(b)
    BY <1>6, <2>1, YearsGrow
  <2> QED
    BY <2>3, <2>4
<1> QED
  BY <1>5, <1>6 DEF Spans

LEMMA PaddedSpans ==
  ASSUME NEW rows, DatedRows(rows), NEW request \in SUBSET Sessions
  PROVE  Spans(PaddedSessions(request, rows), request \cup RowDays(rows))
<1> DEFINE days == request \cup RowDays(rows)
<1>1. days \in SUBSET Int /\ IsFiniteSet(days)
  BY DaysAreFinite
<1>2. PaddedSessions(request, rows) =
        {s \in Sessions : s \in Min(days) - Padding .. Max(days) + Padding}
  BY DEF PaddedSessions
<1> HIDE DEF days
<1>3. ASSUME NEW a \in days, NEW b \in days, NEW s \in Sessions, a <= s, s <= b
      PROVE  s \in Min(days) - Padding .. Max(days) + Padding
  <2>1. Min(days) \in Int /\ Min(days) <= a
    BY <1>1, MinExists
  <2>2. Max(days) \in Int /\ b <= Max(days)
    BY <1>1, MaxExists
  <2> QED
    BY <1>1, <1>3, <2>1, <2>2, CalendarAssumption
<1> QED
  BY <1>2, <1>3 DEF Spans, days

LEMMA SameMarks ==
  ASSUME NEW sessions, NEW days, Spans(sessions, days), NEW day \in days, day \in Int,
         NEW row, row.date \in days, row.date \in Int
  PROVE  MarkedBy(row, day, sessions) <=> MarkedBy(row, day, Sessions)
BY SameTradingDays, SameSessions DEF MarkedBy, InWindow

LEMMA SameClosing ==
  ASSUME NEW sessions, NEW days, Spans(sessions, days), NEW day \in days, day \in Int,
         NEW row, row.date \in days, row.date \in Int, NEW trailing
  PROVE  ClosedWithin(row, day, trailing, sessions)
           <=> ClosedWithin(row, day, trailing, Sessions)
BY SameTradingDays, SameSessions DEF ClosedWithin

(* The expiry of a month whose year is spanned is its expiry on all        *)
(* sessions.                                                               *)
LEMMA SameExpiry ==
  ASSUME NEW sessions \in SUBSET Sessions, NEW d \in Int,
         \A s \in Sessions : YearOf(s) = YearOf(d) => s \in sessions
  PROVE  LET expiry == ExpirySession(MonthOf(d), Sessions)
         IN /\ ExpirySession(MonthOf(d), sessions) = expiry
            /\ expiry # None => expiry \in Sessions /\ MonthOf(expiry) = MonthOf(d)
<1> DEFINE m == MonthOf(d)
           friday == m * MonthLength + ThirdFriday
           UpTo(set) == {s \in set : s <= friday}
<1>1. Sessions \in SUBSET Int /\ IsFiniteSet(Sessions)
  BY CalendarAssumption
<1>2. m \in Int /\ friday \in Int /\ MonthOf(friday) = m
  <2>1. m \in Int /\ MonthLength \in Nat /\ MonthLength > 0
        /\ ThirdFriday \in 0 .. MonthLength - 1
    BY MonthsGrow, CalendarAssumption
  <2> HIDE DEF m
  <2>2. friday \in Int
    BY <2>1
  <2> QED
    BY <2>1, <2>2, DivOfSum DEF MonthOf
<1> HIDE DEF friday, m
<1>3. ASSUME NEW set \in SUBSET Sessions, UpTo(set) # {}
      PROVE  /\ Max(UpTo(set)) \in set /\ Max(UpTo(set)) \in Int
             /\ Max(UpTo(set)) <= friday
             /\ \A s \in UpTo(set) : s <= Max(UpTo(set))
  <2>1. UpTo(set) \in SUBSET Int /\ IsFiniteSet(UpTo(set))
    BY <1>1, FS_Subset
  <2>2. Max(UpTo(set)) \in UpTo(set) /\ \A s \in UpTo(set) : s <= Max(UpTo(set))
    BY <1>3, <2>1, MaxExists
  <2> QED
    BY <2>1, <2>2
<1>4. \A set : ExpirySession(m, set) =
        IF UpTo(set) = {} \/ MonthOf(Max(UpTo(set))) # m THEN None ELSE Max(UpTo(set))
  BY DEF ExpirySession, friday
<1>5. UpTo(sessions) \subseteq UpTo(Sessions)
  OBVIOUS
<1> HIDE DEF UpTo
<1>6. ASSUME NEW s \in Sessions, MonthOf(s) = m, s <= friday
      PROVE  s \in UpTo(sessions)
  <2>1. YearOf(s) = YearOf(d)
    BY <1>1, <1>6, MonthInYear DEF m
  <2> QED
    BY <1>6, <2>1 DEF UpTo
<1>7. CASE UpTo(Sessions) # {} /\ MonthOf(Max(UpTo(Sessions))) = m
  <2> DEFINE last == Max(UpTo(Sessions))
  <2>1. last \in Sessions /\ last \in Int /\ last <= friday
        /\ \A s \in UpTo(Sessions) : s <= last
    BY <1>3, <1>7
  <2> HIDE DEF last
  <2>2. last \in UpTo(sessions)
    BY <1>6, <1>7, <2>1 DEF last
  <2>3. Max(UpTo(sessions)) \in UpTo(sessions) /\ Max(UpTo(sessions)) \in Int
        /\ last <= Max(UpTo(sessions))
    <3>1. Max(UpTo(sessions)) \in sessions /\ Max(UpTo(sessions)) \in Int
          /\ Max(UpTo(sessions)) <= friday
          /\ \A s \in UpTo(sessions) : s <= Max(UpTo(sessions))
      BY <1>3, <2>2
    <3> QED
      BY <2>2, <3>1 DEF UpTo
  <2>4. Max(UpTo(sessions)) = last
    BY <1>5, <2>1, <2>3
  <2> QED
    BY <1>4, <1>7, <2>1, <2>2, <2>4 DEF last, m
<1>8. CASE UpTo(Sessions) = {} \/ MonthOf(Max(UpTo(Sessions))) # m
  <2>1. ASSUME UpTo(sessions) # {}, MonthOf(Max(UpTo(sessions))) = m
        PROVE  FALSE
    <3>1. UpTo(Sessions) # {}
      BY <1>5, <2>1
    <3> DEFINE last == Max(UpTo(Sessions))
               kept == Max(UpTo(sessions))
    <3>2. last \in Int /\ last <= friday /\ \A s \in UpTo(Sessions) : s <= last
      BY <1>3, <3>1
    <3>3. kept \in Int /\ kept \in sessions /\ kept <= friday
      BY <1>3, <2>1
    <3>4. kept <= last
      BY <3>2, <3>3 DEF UpTo
    <3> HIDE DEF last, kept
    <3>5. MonthOf(kept) <= MonthOf(last) /\ MonthOf(last) <= MonthOf(friday)
          /\ MonthOf(last) \in Int
      BY <1>2, <3>2, <3>3, <3>4, MonthsGrow
    <3>6. MonthOf(last) = m
      BY <1>2, <2>1, <3>5 DEF kept
    <3> QED
      BY <1>8, <3>1, <3>6 DEF last
  <2> QED
    BY <1>4, <1>8, <2>1 DEF m
<1> QED
  BY <1>7, <1>8

(* An expiry week is asked for by the day's own month alone.               *)
LEMMA SameExpiryWeek ==
  ASSUME NEW request \in SUBSET Sessions, NEW day \in request, NEW sessions,
         Spans(sessions, WholeYears(request))
  PROVE  InExpiryWeek(day, request, sessions) <=> InExpiryWeek(day, {day}, Sessions)
<1> DEFINE Expiry(d) == ExpirySession(MonthOf(d), Sessions)
           Hears(d) == Expiry(d) # None /\ InWindow(day, Expiry(d), ExpiryWindow, Sessions)
<1>1. Sessions \subseteq Int
  BY CalendarAssumption
<1>2. ASSUME NEW d \in request
      PROVE  /\ ExpirySession(MonthOf(d), sessions) = Expiry(d)
             /\ Expiry(d) # None => Expiry(d) \in WholeYears(request)
                                    /\ Expiry(d) \in Int
  <2>1. \A s \in Sessions : YearOf(s) = YearOf(d) => s \in sessions
    BY <1>1 DEF Spans, WholeYears
  <2>2. /\ ExpirySession(MonthOf(d), sessions) = Expiry(d)
        /\ Expiry(d) # None => Expiry(d) \in Sessions /\ MonthOf(Expiry(d)) = MonthOf(d)
    BY <1>1, <2>1, SameExpiry DEF Spans
  <2> HIDE DEF Expiry
  <2>3. ASSUME Expiry(d) # None PROVE YearOf(Expiry(d)) = YearOf(d)
    BY <1>1, <2>2, <2>3, MonthInYear
  <2> QED
    BY <1>1, <2>2, <2>3 DEF WholeYears
<1> HIDE DEF Expiry
<1>3. ASSUME NEW d \in request, Expiry(d) # None
      PROVE  InWindow(day, Expiry(d), ExpiryWindow, sessions)
               <=> InWindow(day, Expiry(d), ExpiryWindow, Sessions)
  <2>1. day \in WholeYears(request) /\ day \in Int
    BY <1>1 DEF WholeYears
  <2> QED
    BY <1>2, <1>3, <2>1, SameTradingDays DEF InWindow
<1>4. InExpiryWeek(day, request, sessions) <=> \E d \in request : Hears(d)
  <2>1. InExpiryWeek(day, request, sessions) <=>
          \E d \in request : /\ ExpirySession(MonthOf(d), sessions) # None
                             /\ InWindow(day, ExpirySession(MonthOf(d), sessions),
                                         ExpiryWindow, sessions)
    BY DEF InExpiryWeek
  <2> QED
    BY <1>2, <1>3, <2>1
<1>5. InExpiryWeek(day, {day}, Sessions) <=> Hears(day)
  BY DEF InExpiryWeek, Expiry
<1>6. \A d \in request : Hears(d) => MonthOf(day) = MonthOf(d)
  BY ExpiryAssumption DEF Expiry
<1>7. \A d \in request : MonthOf(day) = MonthOf(d) => Expiry(d) = Expiry(day)
  BY DEF Expiry
<1> QED
  BY <1>4, <1>5, <1>6, <1>7

(* A season is one of the day's own year.                                  *)
LEMMA SameSeason ==
  ASSUME NEW request \in SUBSET Int, NEW day \in request
  PROVE  InEarningsSeason(day, request) <=> InEarningsSeason(day, {day})
<1> DEFINE InSeasonOf(y) == \E start \in SeasonsOf(y) : day \in start .. start + SeasonDays
<1>1. ASSUME NEW d \in request, InSeasonOf(YearOf(d))
      PROVE  YearOf(d) = YearOf(day)
  <2>1. YearOf(d) \in Int
    BY YearsGrow
  <2>2. PICK o \in SeasonStarts :
          day \in YearOf(d) * YearLength + o .. YearOf(d) * YearLength + o + SeasonDays
    BY <1>1 DEF SeasonsOf
  <2>3. o \in Nat /\ o + SeasonDays < YearLength /\ SeasonDays \in Nat
        /\ YearLength \in Nat
    BY CalendarAssumption
  <2> DEFINE y == YearOf(d)
             r == day - y * YearLength
  <2> HIDE DEF y
  <2>4. r \in 0 .. YearLength - 1 /\ day = y * YearLength + r /\ y \in Int
    BY <2>1, <2>2, <2>3 DEF y
  <2> HIDE DEF r
  <2>5. (y * YearLength + r) \div YearLength = y
    BY <2>3, <2>4, DivOfSum
  <2> QED
    BY <2>4, <2>5 DEF YearOf, y
<1>2. \A set : InEarningsSeason(day, set) <=> \E d \in set : InSeasonOf(YearOf(d))
  BY DEF InEarningsSeason
<1> HIDE DEF InSeasonOf
<1> QED
  BY <1>1, <1>2

(* The labels of a day are those of the request of that day alone, and the *)
(* rows known by then decide them.                                         *)
LEMMA SameLabels ==
  ASSUME NEW rows, DatedRows(rows), NEW request \in SUBSET Sessions, NEW day \in request
  PROVE  LabelsOn(day, request, rows, GlobalSessions(request, rows))
           = LabelsOn(day, {day}, rows, Sessions)
<1> DEFINE days == WholeYears(request \cup RowDays(rows))
           sessions == GlobalSessions(request, rows)
<1>1. Sessions \subseteq Int
  BY CalendarAssumption
<1>2. Spans(sessions, days)
  BY GlobalSpans
<1>3. day \in days /\ day \in Int
  BY <1>1 DEF WholeYears
<1>4. \A row \in rows : row.date \in days /\ row.date \in Int
  BY RowDaysAreFinite DEF WholeYears, RowDays, DatedRows, IsDated
<1>5. Spans(sessions, WholeYears(request))
  BY <1>2, SpansLess DEF WholeYears
<1> HIDE DEF sessions, days
<1>6. {row \in rows : MarkedBy(row, day, sessions)}
        = {row \in rows : MarkedBy(row, day, Sessions)}
  BY <1>2, <1>3, <1>4, SameMarks
<1>7. InExpiryWeek(day, request, sessions) <=> InExpiryWeek(day, {day}, Sessions)
  BY <1>5, SameExpiryWeek
<1>8. InEarningsSeason(day, request) <=> InEarningsSeason(day, {day})
  BY <1>1, SameSeason
<1>9. LabelsOn(day, request, rows, sessions) = LabelsOn(day, {day}, rows, Sessions)
  BY <1>6, <1>7, <1>8, Zenon DEF LabelsOn
<1> QED
  BY <1>9 DEF sessions

LEMMA OutputsOfLabels ==
  ASSUME NEW rows, DatedRows(rows), NEW request \in SUBSET Sessions, NEW day \in request
  PROVE  Outputs(request, rows)[day] =
           LET labels == LabelsOn(day, {day}, rows, Sessions)
           IN IF labels = {} THEN <<"normal_calendar">> ELSE Ordered(labels)
<1>1. Outputs(request, rows)[day] =
        LET labels == LabelsOn(day, request, rows, GlobalSessions(request, rows))
        IN IF labels = {} THEN <<"normal_calendar">> ELSE Ordered(labels)
  BY DEF Outputs
<1> QED
  BY <1>1, SameLabels

LEMMA SameClosings ==
  ASSUME NEW rows, DatedRows(rows), rows # {}, NEW request \in SUBSET Sessions,
         NEW day \in request, NEW trailing
  PROVE  WindowJustPassed(request, rows, trailing)[day]
           = \E row \in rows : ClosedWithin(row, day, trailing, Sessions)
<1> DEFINE days == request \cup RowDays(rows)
           sessions == PaddedSessions(request, rows)
<1>1. Spans(sessions, days)
  BY PaddedSpans
<1>2. day \in days /\ day \in Int
  BY CalendarAssumption
<1>3. \A row \in rows : row.date \in days /\ row.date \in Int
  BY DEF RowDays, DatedRows, IsDated
<1>4. WindowJustPassed(request, rows, trailing)[day]
        = \E row \in rows : ClosedWithin(row, day, trailing, sessions)
  BY DEF WindowJustPassed
<1> HIDE DEF sessions, days
<1>5. \A row \in rows : ClosedWithin(row, day, trailing, sessions)
                          <=> ClosedWithin(row, day, trailing, Sessions)
  BY <1>1, <1>2, <1>3, SameClosing
<1> QED
  BY <1>4, <1>5, Zenon

LEMMA KnownRowsDecide ==
  ASSUME NEW rows, DatedRows(rows), NEW day \in Sessions, NEW trailing
  PROVE  LET known == {r \in rows : PublishedOn(r) <= day}
         IN /\ DatedRows(known)
            /\ LabelsOn(day, {day}, rows, Sessions) = LabelsOn(day, {day}, known, Sessions)
            /\ (\E row \in rows : ClosedWithin(row, day, trailing, Sessions))
                 <=> (\E row \in known : ClosedWithin(row, day, trailing, Sessions))
<1> DEFINE known == {r \in rows : PublishedOn(r) <= day}
<1>1. DatedRows(known)
  BY FS_Subset DEF DatedRows
<1>2. day \in Int /\ \A r \in rows : PublishedOn(r) \in Int
  BY CalendarAssumption DEF DatedRows, IsDated
<1>3. {r \in rows : MarkedBy(r, day, Sessions)} = {r \in known : MarkedBy(r, day, Sessions)}
  BY <1>2 DEF MarkedBy
<1>4. LabelsOn(day, {day}, rows, Sessions) = LabelsOn(day, {day}, known, Sessions)
  BY <1>3, Zenon DEF LabelsOn
<1>5. (\E row \in rows : ClosedWithin(row, day, trailing, Sessions))
        <=> (\E row \in known : ClosedWithin(row, day, trailing, Sessions))
  BY <1>2 DEF ClosedWithin
<1> QED
  BY <1>1, <1>4, <1>5

(* The labels of a day are the same in every range it is asked for with,   *)
(* whatever rows the calendar has (compute_event_calendar_outputs and      *)
(* classify_event_calendar).                                               *)
THEOREM LabelsArePointwise ==
  ASSUME NEW rows, DatedRows(rows), NEW request \in SUBSET Sessions, NEW day \in request
  PROVE  Outputs(request, rows)[day] = Classify(day, rows)
<1>1. {day} \in SUBSET Sessions /\ day \in {day}
  OBVIOUS
<1>2. Outputs({day}, rows)[day] = Outputs(request, rows)[day]
  BY <1>1, OutputsOfLabels
<1> QED
  BY <1>2 DEF Classify

(* Until the first build the calendar is the curated one, or there is none.*)
CuratedInv ==
  /\ builds \in Nat
  /\ builds = 0 => build.pc = "idle" /\ calendar \in Curated \cup {Absent}

LEMMA CuratedHolds == Spec => []CuratedInv
<1>1. Init => CuratedInv
  BY DEF Init, CuratedInv, NoBuild
<1>2. CuratedInv /\ [Next]_vars => CuratedInv'
  <2> SUFFICES ASSUME CuratedInv, [Next]_vars PROVE CuratedInv'
    OBVIOUS
  <2> USE DEF CuratedInv
  <2>1. ASSUME NEW name \in DOMAIN Answers, StartBuild(name) PROVE CuratedInv'
    BY <2>1 DEF StartBuild
  <2>2. CASE \/ LoadApprovalOverlay \/ Gather \/ Triage \/ WriteValidations
             \/ WriteCandidates \/ WriteQuarantine \/ WriteCalendar \/ WriteReport
    BY <2>2 DEF LoadApprovalOverlay, Gather, Triage, WriteValidations, WriteCandidates,
       WriteQuarantine, WriteCalendar, WriteReport, At
  <2>3. CASE Kill
    BY <2>3 DEF Kill, At
  <2>4. ASSUME NEW o \in Operators,
               \/ ReadCandidates(o) \/ LoadForAppend(o) \/ OpenOverlay(o)
               \/ WriteOverlay(o) \/ KillApproval(o)
        PROVE  CuratedInv'
    BY <2>4 DEF ReadCandidates, LoadForAppend, OpenOverlay, WriteOverlay, KillApproval
  <2>5. CASE UNCHANGED vars
    BY <2>5 DEF vars
  <2> QED
    BY <2>1, <2>2, <2>3, <2>4, <2>5 DEF Next
<1> QED
  BY <1>1, <1>2, PTL DEF Spec

LEMMA CuratedIsDated ==
  ASSUME CuratedInv, builds = 0, CalendarLoads
  PROVE  DatedRows(calendar)
BY BuildAssumption DEF CuratedInv, CalendarLoads, DatedRows

(* The labels of a session do not depend on the range they are asked for   *)
(* with (compute_event_calendar_outputs, classify_event_calendar and       *)
(* compute_event_window_just_passed).                                      *)
THEOREM PointIsBulk == Spec => []PointMatchesBulk
<1>1. CuratedInv => PointMatchesBulk
  <2> SUFFICES ASSUME CuratedInv, builds = 0, CalendarLoads, NEW request \in Requests,
                      NEW day \in request
               PROVE  /\ Outputs(request, calendar)[day] = Classify(day, calendar)
                      /\ calendar # {} =>
                           WindowJustPassed(request, calendar, Trailing)[day]
                             = WindowJustPassed({day}, calendar, Trailing)[day]
    BY DEF PointMatchesBulk
  <2>1. DatedRows(calendar)
    BY CuratedIsDated
  <2>2. request \in SUBSET Sessions /\ {day} \in SUBSET Sessions /\ day \in {day}
    BY BuildAssumption
  <2>3. Outputs(request, calendar)[day] = Classify(day, calendar)
    BY <2>1, <2>2, LabelsArePointwise
  <2>4. ASSUME calendar # {}
        PROVE  WindowJustPassed(request, calendar, Trailing)[day]
                 = WindowJustPassed({day}, calendar, Trailing)[day]
    <3>1. WindowJustPassed(request, calendar, Trailing)[day]
            = \E row \in calendar : ClosedWithin(row, day, Trailing, Sessions)
      BY <2>1, <2>2, <2>4, SameClosings
    <3>2. WindowJustPassed({day}, calendar, Trailing)[day]
            = \E row \in calendar : ClosedWithin(row, day, Trailing, Sessions)
      BY <2>1, <2>2, <2>4, SameClosings
    <3> QED
      BY <3>1, <3>2, Zenon
  <2> QED
    BY <2>3, <2>4
<1> QED
  BY <1>1, CuratedHolds, PTL

(* A row nobody knew of on a session changes nothing of what is said about *)
(* it (compute_event_calendar_outputs, compute_event_window_just_passed).  *)
THEOREM UnknownRowsAreSilent == Spec => []NoForesight
<1>1. CuratedInv => NoForesight
  <2> SUFFICES ASSUME CuratedInv, builds = 0, CalendarLoads, NEW day \in UNION Requests
               PROVE  /\ Classify(day, calendar) = Classify(day, KnownOn(day))
                      /\ calendar # {} =>
                           IF KnownOn(day) = {}
                           THEN ~WindowJustPassed({day}, calendar, Trailing)[day]
                           ELSE WindowJustPassed({day}, calendar, Trailing)
                                  = WindowJustPassed({day}, KnownOn(day), Trailing)
    BY DEF NoForesight
  <2>1. DatedRows(calendar)
    BY CuratedIsDated
  <2>2. day \in Sessions /\ {day} \in SUBSET Sessions /\ day \in {day}
    BY BuildAssumption
  <2>3. /\ DatedRows(KnownOn(day))
        /\ LabelsOn(day, {day}, calendar, Sessions)
             = LabelsOn(day, {day}, KnownOn(day), Sessions)
        /\ (\E row \in calendar : ClosedWithin(row, day, Trailing, Sessions))
             <=> (\E row \in KnownOn(day) : ClosedWithin(row, day, Trailing, Sessions))
    BY <2>1, <2>2, KnownRowsDecide DEF KnownOn
  <2>4. Classify(day, calendar) = Classify(day, KnownOn(day))
    BY <2>1, <2>2, <2>3, OutputsOfLabels DEF Classify
  <2>5. ASSUME calendar # {}
        PROVE  WindowJustPassed({day}, calendar, Trailing)[day]
                 = \E row \in KnownOn(day) : ClosedWithin(row, day, Trailing, Sessions)
    <3>1. WindowJustPassed({day}, calendar, Trailing)[day]
            = \E row \in calendar : ClosedWithin(row, day, Trailing, Sessions)
      BY <2>1, <2>2, <2>5, SameClosings
    <3> QED
      BY <2>3, <3>1, Zenon
  <2>6. ASSUME calendar # {}, KnownOn(day) = {}
        PROVE  ~WindowJustPassed({day}, calendar, Trailing)[day]
    <3>1. ~ \E row \in KnownOn(day) : ClosedWithin(row, day, Trailing, Sessions)
      BY <2>6
    <3> QED
      BY <2>5, <2>6, <3>1, Zenon
  <2>7. ASSUME calendar # {}, KnownOn(day) # {}
        PROVE  WindowJustPassed({day}, calendar, Trailing)
                 = WindowJustPassed({day}, KnownOn(day), Trailing)
    <3>1. WindowJustPassed({day}, KnownOn(day), Trailing)[day]
            = \E row \in KnownOn(day) : ClosedWithin(row, day, Trailing, Sessions)
      BY <2>2, <2>3, <2>7, SameClosings
    <3>2. WindowJustPassed({day}, calendar, Trailing)[day]
            = WindowJustPassed({day}, KnownOn(day), Trailing)[day]
      BY <2>5, <2>7, <3>1, Zenon
    <3>3. \A rows : rows # {} =>
            WindowJustPassed({day}, rows, Trailing)
              = [d \in {day} |-> WindowJustPassed({day}, rows, Trailing)[d]]
      BY DEF WindowJustPassed
    <3> QED
      BY <2>7, <3>2, <3>3
  <2> QED
    BY <2>4, <2>6, <2>7
<1> QED
  BY <1>1, CuratedHolds, PTL

-----------------------------------------------------------------------------
(***************************************************************************)
(* Lists.  A list of a build is known by its domain, 1 .. Len, whatever    *)
(* its entries are.                                                        *)
(***************************************************************************)
LEMMA SeqIsList ==
  ASSUME NEW X, NEW s \in Seq(X)
  PROVE  /\ IsList(s) /\ Len(s) \in Nat /\ DOMAIN s = 1 .. Len(s)
         /\ s = [i \in 1 .. Len(s) |-> s[i]]
<1>1. Len(s) \in Nat /\ DOMAIN s = 1 .. Len(s) /\ s \in [1 .. Len(s) -> X]
  BY LenProperties
<1>2. s \in [1 .. Len(s) -> ToSet(s)]
  BY <1>1 DEF ToSet
<1>3. s \in Seq(ToSet(s))
  BY <1>1, <1>2, SeqDef
<1> QED
  BY <1>1, <1>3 DEF IsList

LEMMA FunctionIsList ==
  ASSUME NEW n \in Nat, NEW f, f = [i \in 1 .. n |-> f[i]]
  PROVE  IsList(f) /\ Len(f) = n /\ DOMAIN f = 1 .. n
<1>1. f \in [1 .. n -> ToSet(f)]
  BY DEF ToSet
<1>2. f \in Seq(ToSet(f))
  BY <1>1, SeqDef
<1> QED
  BY <1>1, <1>2, LenProperties DEF IsList

LEMMA ListShape ==
  ASSUME NEW s, IsList(s)
  PROVE  /\ Len(s) \in Nat /\ DOMAIN s = 1 .. Len(s)
         /\ IsFiniteSet(DOMAIN s) /\ DOMAIN s \subseteq Nat
         /\ s = [i \in 1 .. Len(s) |-> s[i]]
<1>1. Len(s) \in Nat /\ DOMAIN s = 1 .. Len(s) /\ s \in [1 .. Len(s) -> ToSet(s)]
  BY LenProperties DEF IsList
<1>2. IsFiniteSet(1 .. Len(s))
  BY <1>1, FS_Interval
<1> QED
  BY <1>1, <1>2

LEMMA EmptyList == IsList(<<>>) /\ DOMAIN <<>> = {} /\ Len(<<>>) = 0
BY FunctionIsList DEF IsList, ToSet

LEMMA ConcatIsList ==
  ASSUME NEW s, NEW t, IsList(s), IsList(t)
  PROVE  /\ IsList(s \o t) /\ Len(s \o t) = Len(s) + Len(t)
         /\ \A i \in DOMAIN (s \o t) :
              \/ i \in DOMAIN s /\ (s \o t)[i] = s[i]
              \/ i - Len(s) \in DOMAIN t /\ (s \o t)[i] = t[i - Len(s)]
<1> DEFINE X == ToSet(s) \cup ToSet(t)
<1>1. s \in Seq(X) /\ t \in Seq(X)
  BY SeqMonotonic DEF IsList
<1>2. /\ s \o t \in Seq(X) /\ Len(s \o t) = Len(s) + Len(t)
      /\ \A i \in 1 .. Len(s) + Len(t) :
           (s \o t)[i] = IF i <= Len(s) THEN s[i] ELSE t[i - Len(s)]
  BY <1>1, ConcatProperties
<1>3. IsList(s \o t) /\ DOMAIN (s \o t) = 1 .. Len(s) + Len(t)
  BY <1>2, SeqIsList
<1>4. /\ Len(s) \in Nat /\ DOMAIN s = 1 .. Len(s)
      /\ Len(t) \in Nat /\ DOMAIN t = 1 .. Len(t)
  BY ListShape
<1> QED
  BY <1>2, <1>3, <1>4

LEMMA AppendIsList ==
  ASSUME NEW s, IsList(s), NEW e
  PROVE  /\ IsList(Append(s, e)) /\ Len(Append(s, e)) = Len(s) + 1
         /\ \A i \in DOMAIN Append(s, e) :
              \/ i \in DOMAIN s /\ Append(s, e)[i] = s[i]
              \/ Append(s, e)[i] = e
<1> DEFINE X == ToSet(s) \cup {e}
<1>1. s \in Seq(X)
  BY SeqMonotonic DEF IsList
<1>2. Len(s) \in Nat /\ DOMAIN s = 1 .. Len(s)
  BY ListShape
<1>3. /\ Append(s, e) \in Seq(X) /\ Len(Append(s, e)) = Len(s) + 1
      /\ \A i \in 1 .. Len(s) : Append(s, e)[i] = s[i]
      /\ Append(s, e)[Len(s) + 1] = e
  BY <1>1, <1>2
<1>4. IsList(Append(s, e)) /\ DOMAIN Append(s, e) = 1 .. Len(s) + 1
  BY <1>3, SeqIsList
<1> QED
  BY <1>2, <1>3, <1>4

LEMMA HeadIsList ==
  ASSUME NEW s, IsList(s), NEW n \in 0 .. Len(s)
  PROVE  /\ IsList(SubSeq(s, 1, n)) /\ Len(SubSeq(s, 1, n)) = n
         /\ \A i \in DOMAIN SubSeq(s, 1, n) : i \in DOMAIN s /\ SubSeq(s, 1, n)[i] = s[i]
<1>1. Len(s) \in Nat /\ DOMAIN s = 1 .. Len(s)
  BY ListShape
<1>2. \A i \in 1 .. n : s[i] \in ToSet(s)
  BY <1>1 DEF ToSet
<1>3. /\ SubSeq(s, 1, n) \in Seq(ToSet(s)) /\ Len(SubSeq(s, 1, n)) = n
      /\ \A i \in 1 .. n : SubSeq(s, 1, n)[i] = s[i]
  BY <1>1, <1>2, SubSeqProperties
<1>4. IsList(SubSeq(s, 1, n)) /\ DOMAIN SubSeq(s, 1, n) = 1 .. n
  BY <1>3, SeqIsList
<1> QED
  BY <1>1, <1>3, <1>4

(* The first and the last entry with a key are entries with that key.      *)
LEMMA KeyedEntries ==
  ASSUME NEW s, IsList(s), NEW key \in KeysOf(s)
  PROVE  /\ \E i \in DOMAIN s : KeyOf(s[i]) = key /\ FirstOf(s, key) = s[i]
         /\ \E i \in DOMAIN s : KeyOf(s[i]) = key /\ LastOf(s, key) = s[i]
<1>1. WithKey(s, key) \in SUBSET Int /\ IsFiniteSet(WithKey(s, key)) /\ WithKey(s, key) # {}
  <2>1. WithKey(s, key) \subseteq DOMAIN s
    BY DEF WithKey
  <2>2. WithKey(s, key) # {}
    BY DEF WithKey, KeysOf
  <2> QED
    BY <2>1, <2>2, ListShape, FS_Subset
<1>2. Min(WithKey(s, key)) \in WithKey(s, key)
  BY <1>1, MinExists
<1>3. Max(WithKey(s, key)) \in WithKey(s, key)
  BY <1>1, MaxExists
<1> QED
  BY <1>2, <1>3 DEF WithKey, FirstOf, LastOf

(***************************************************************************)
(* Candidates.                                                             *)
(***************************************************************************)
IsCandidate(c) ==
  c = [date |-> c.date, type |-> c.type, source |-> c.source, window |-> c.window,
       deadline |-> c.deadline, id |-> c.id]

Candidates(s) == IsList(s) /\ \A i \in DOMAIN s : IsCandidate(s[i])

LEMMA ConcatCandidates ==
  ASSUME NEW s, NEW t, Candidates(s), Candidates(t)
  PROVE  Candidates(s \o t)
BY ConcatIsList DEF Candidates

LEMMA CandidateHasShape ==
  ASSUME NEW date, NEW type, NEW source, NEW window
  PROVE  IsCandidate(Candidate(date, type, source, window))
BY DEF IsCandidate, Candidate

LEMMA AscendingDomain ==
  ASSUME NEW days, IsFiniteSet(days)
  PROVE  Cardinality(days) \in Nat /\ DOMAIN Ascending(days) = 1 .. Cardinality(days)
BY FS_CardinalityType DEF Ascending

LEMMA DatedCandidates ==
  ASSUME NEW days, IsFiniteSet(days), NEW type, NEW source, NEW window
  PROVE  Candidates(Dated(days, type, source, window))
<1> DEFINE list == Dated(days, type, source, window)
           n == Cardinality(days)
<1>1. n \in Nat /\ list = [i \in 1 .. n |-> Candidate(Ascending(days)[i], type, source, window)]
  BY AscendingDomain DEF Dated
<1> HIDE DEF n, list
<1>2. DOMAIN list = 1 .. n /\ list = [i \in 1 .. n |-> list[i]]
  BY <1>1
<1>3. IsList(list)
  BY <1>1, <1>2, FunctionIsList
<1>4. \A i \in DOMAIN list : IsCandidate(list[i])
  BY <1>1, CandidateHasShape
<1>5. Candidates(list)
  BY <1>3, <1>4 DEF Candidates
<1> QED
  BY <1>5 DEF list

LEMMA InYearsIsFinite ==
  ASSUME NEW days, IsFiniteSet(days)
  PROVE  IsFiniteSet({d \in days : InYears(d)})
BY FS_Subset

LEMMA ElectionsAreFinite == IsFiniteSet(ElectionDates)
<1> DEFINE even == {year \in Years : year % 2 = 0}
           day == [y \in even |-> ElectionDay(y)]
<1>1. IsFiniteSet(even)
  BY SourcesAssumption, FS_Interval, FS_Subset DEF Years
<1>2. IsFiniteSet({day[y] : y \in even})
  BY <1>1, RangeIsFinite
<1>3. ElectionDates = {day[y] : y \in even}
  BY DEF ElectionDates
<1> QED
  BY <1>2, <1>3

LEMMA DeadlineCandidates == Candidates(Deadlines)
<1> DEFINE n == EndYear - StartYear + 1
<1>1. n \in Nat /\ Deadlines = [i \in 1 .. n |-> Deadline(StartYear + i - 1)]
  BY SourcesAssumption DEF Deadlines
<1> HIDE DEF n
<1>2. DOMAIN Deadlines = 1 .. n /\ Deadlines = [i \in 1 .. n |-> Deadlines[i]]
  BY <1>1
<1>3. IsList(Deadlines)
  BY <1>1, <1>2, FunctionIsList
<1>4. \A y : IsCandidate(Deadline(y))
  BY DEF Deadline, IsCandidate
<1> QED
  BY <1>1, <1>2, <1>3, <1>4 DEF Candidates

(* A list picked from a list, and entries made of its own.                 *)
LEMMA PickedIsList ==
  ASSUME NEW s, IsList(s), NEW positions \in SUBSET DOMAIN s
  PROVE  \E n \in Nat : /\ DOMAIN Picked(s, positions) = 1 .. n
                        /\ DOMAIN Ascending(positions) = 1 .. n
<1>1. IsFiniteSet(positions)
  BY ListShape, FS_Subset
<1>2. DOMAIN Picked(s, positions) = DOMAIN Ascending(positions)
  BY DEF Picked
<1> QED
  BY <1>1, <1>2, AscendingDomain

LEMMA TreasuryIsList ==
  ASSUME NEW treasury, treasury = Down \/ IsList(treasury)
  PROVE  IsList(TreasuryRecords(treasury))
<1>1. CASE treasury = Down
  BY <1>1, EmptyList DEF TreasuryRecords
<1>2. CASE treasury # Down
  <2> DEFINE positions == {i \in DOMAIN treasury : IsDebtLimit(treasury[i])}
             found == Picked(treasury, positions)
             records == [i \in DOMAIN found |->
               [date |-> found[i].date, source |-> "treasury.gov:debt-limit",
                url |-> found[i].url]]
  <2>1. PICK n \in Nat : DOMAIN found = 1 .. n
    BY <1>2, PickedIsList
  <2>2. records = [i \in 1 .. n |-> records[i]]
    BY <2>1
  <2>3. IsList(records)
    <3> HIDE DEF records
    <3> QED
      BY <2>2, FunctionIsList
  <2>4. TreasuryRecords(treasury) = records
    BY <1>2 DEF TreasuryRecords
  <2> QED
    BY <2>3, <2>4
<1> QED
  BY <1>1, <1>2

LEMMA GovInfoIsList ==
  ASSUME NEW laws, IsList(laws)
  PROVE  IsList(GovInfoRecords(laws))
<1> DEFINE positions == {i \in DOMAIN laws : IsContinuing(laws[i])}
           found == Ascending(positions)
           records == [n \in DOMAIN found |->
             [date |-> laws[found[n]].expires, source |-> "govinfo.gov:public-law",
              url |-> found[n]]]
<1>1. PICK n \in Nat : DOMAIN found = 1 .. n
  BY PickedIsList
<1>2. records = [i \in 1 .. n |-> records[i]]
  BY <1>1
<1>3. IsList(records)
  <2> HIDE DEF records
  <2> QED
    BY <1>2, FunctionIsList
<1>4. GovInfoRecords(laws) = records
  BY DEF GovInfoRecords
<1> QED
  BY <1>3, <1>4

LEMMA BudgetsAreCandidates ==
  ASSUME NEW budget, budget.treasury = Down \/ IsList(budget.treasury),
         IsList(budget.laws)
  PROVE  Candidates(BudgetCandidates(budget))
<1> DEFINE all == TreasuryRecords(budget.treasury) \o GovInfoRecords(budget.laws)
           positions == {i \in DOMAIN all : InYears(all[i].date)
                                            /\ \A j \in 1 .. i - 1 : all[j] # all[i]}
           records == Picked(all, positions)
           list == [i \in DOMAIN records |->
                      Candidate(records[i].date, "budget", records[i].source, None)]
<1>1. IsList(all)
  BY TreasuryIsList, GovInfoIsList, ConcatIsList
<1>2. PICK n \in Nat : DOMAIN records = 1 .. n
  <2> HIDE DEF all
  <2> QED
    BY <1>1, PickedIsList
<1>3. BudgetCandidates(budget) = list
  BY DEF BudgetCandidates, BudgetRecords
<1> HIDE DEF records
<1>4. DOMAIN list = 1 .. n /\ list = [i \in 1 .. n |-> list[i]]
  BY <1>2
<1>5. \A i \in DOMAIN list : IsCandidate(list[i])
  BY CandidateHasShape
<1> HIDE DEF list
<1>6. IsList(list)
  BY <1>4, FunctionIsList
<1> QED
  BY <1>3, <1>5, <1>6 DEF Candidates

LEMMA SpikesAreCandidates ==
  ASSUME NEW gpr, gpr \in {Down, Broken} \/ IsList(gpr)
  PROVE  Candidates(GprCandidates(gpr))
<1> DEFINE spikes == Ascending(GprSpikes(gpr))
           list == [n \in DOMAIN spikes |->
              Candidate(gpr[spikes[n]].date, "geopolitical_event", "gpr:caldara-iacoviello",
                        SpikeWindow(gpr, spikes[n]))]
<1>1. IsFiniteSet(GprSpikes(gpr))
  <2>1. CASE gpr \in {Down, Broken}
    BY <2>1, FS_EmptySet DEF GprSpikes
  <2>2. CASE gpr \notin {Down, Broken}
    <3>1. GprSpikes(gpr) \subseteq DOMAIN gpr
      BY <2>2 DEF GprSpikes
    <3> QED
      BY <2>2, <3>1, ListShape, FS_Subset
  <2> QED
    BY <2>1, <2>2
<1>2. PICK n \in Nat : DOMAIN spikes = 1 .. n
  BY <1>1, AscendingDomain
<1>3. GprCandidates(gpr) = list
  BY DEF GprCandidates
<1> HIDE DEF spikes
<1>4. DOMAIN list = 1 .. n /\ list = [i \in 1 .. n |-> list[i]]
  BY <1>2
<1>5. \A i \in DOMAIN list : IsCandidate(list[i])
  BY CandidateHasShape
<1> HIDE DEF list
<1>6. IsList(list)
  BY <1>4, FunctionIsList
<1> QED
  BY <1>3, <1>5, <1>6 DEF Candidates

(* What a build gathers is a list of candidates.                           *)
LEMMA GatheredCandidates ==
  ASSUME NEW answer, IsReadable(answer), ~AdaptersRaise(answer)
  PROVE  Candidates(Gathered(answer))
<1> DEFINE Bank(days, type, source) == Dated({d \in days : InYears(d)}, type, source, None)
           ecb == Bank(EcbDates(answer.ecb), "ECB_decision",
                       "ecb.europa.eu:monetary-policy-decisions")
           boe == Bank(BoeDates(answer.boe), "BOE_decision",
                       "bankofengland.co.uk:mpc-decisions")
           boj == Bank(BojDates(answer.boj), "BOJ_decision",
                       "boj.or.jp:monetary-policy-meetings")
           elections == Dated(ElectionDates, "election", "fec.gov:election-dates", <<-5, 10>>)
           Conflicts(served, source) ==
             Dated(ConflictDates(served), "geopolitical_event", source, None)
           acled == Conflicts(answer.acled, "acled:events")
           ucdp == Conflicts(answer.ucdp, "ucdp:ged-candidate")
<1>1. /\ IsFiniteSet(EcbDates(answer.ecb)) /\ IsFiniteSet(BoeDates(answer.boe))
      /\ IsFiniteSet(BojDates(answer.boj)) /\ IsFiniteSet(ConflictDates(answer.acled))
      /\ IsFiniteSet(ConflictDates(answer.ucdp))
  BY DEF IsReadable
<1>2. Candidates(ecb) /\ Candidates(boe) /\ Candidates(boj)
  BY <1>1, InYearsIsFinite, DatedCandidates
<1>3. Candidates(elections) /\ Candidates(acled) /\ Candidates(ucdp)
  BY <1>1, ElectionsAreFinite, DatedCandidates
<1>4. Candidates(BudgetCandidates(answer.budget)) /\ Candidates(GprCandidates(answer.gpr))
  BY BudgetsAreCandidates, SpikesAreCandidates DEF IsReadable
<1>5. Gathered(answer) = ecb \o boe \o boj \o elections \o Deadlines
                           \o BudgetCandidates(answer.budget) \o GprCandidates(answer.gpr)
                           \o acled \o ucdp
  BY DEF Gathered
<1> HIDE DEF ecb, boe, boj, elections, acled, ucdp
<1>6. Candidates(ecb \o boe \o boj \o elections)
  BY <1>2, <1>3, ConcatCandidates
<1>7. Candidates(ecb \o boe \o boj \o elections \o Deadlines
                   \o BudgetCandidates(answer.budget) \o GprCandidates(answer.gpr))
  BY <1>4, <1>6, DeadlineCandidates, ConcatCandidates
<1> QED
  BY <1>3, <1>5, <1>7, ConcatCandidates

(* The id of a candidate is that of its key.                               *)
Identified(s) ==
  /\ Candidates(s)
  /\ \A i, j \in DOMAIN s : KeyOf(s[i]) = KeyOf(s[j]) => s[i].id = s[j].id

LEMMA StampedIdentify ==
  ASSUME NEW candidates, Candidates(candidates), NEW validations
  PROVE  Identified(Stamped(candidates, validations))
<1> DEFINE list == Stamped(candidates, validations)
           Id(c) == CandidateId(KeyOf(c), candidates, validations)
<1>1. PICK n \in Nat : DOMAIN candidates = 1 .. n
  BY ListShape DEF Candidates
<1>2. list = [i \in 1 .. n |-> [candidates[i] EXCEPT !.id = Id(candidates[i])]]
  BY <1>1 DEF Stamped
<1> HIDE DEF Id, list
<1>3. DOMAIN list = 1 .. n /\ list = [i \in 1 .. n |-> list[i]]
  BY <1>2
<1>4. IsList(list)
  BY <1>3, FunctionIsList
<1>5. ASSUME NEW i \in 1 .. n
      PROVE  /\ IsCandidate(list[i]) /\ KeyOf(list[i]) = KeyOf(candidates[i])
             /\ list[i].id = Id(candidates[i])
  <2>1. IsCandidate(candidates[i])
    BY <1>1 DEF Candidates
  <2>2. list[i] = [candidates[i] EXCEPT !.id = Id(candidates[i])]
    BY <1>2
  <2> QED
    BY <2>1, <2>2 DEF IsCandidate, KeyOf
<1>6. ASSUME NEW i \in 1 .. n, NEW j \in 1 .. n, KeyOf(list[i]) = KeyOf(list[j])
      PROVE  list[i].id = list[j].id
  <2>1. KeyOf(candidates[i]) = KeyOf(candidates[j])
    BY <1>5, <1>6
  <2>2. Id(candidates[i]) = Id(candidates[j])
    BY <2>1 DEF Id
  <2> QED
    BY <1>5, <2>2
<1>7. Identified(list)
  BY <1>3, <1>4, <1>5, <1>6 DEF Identified, Candidates
<1> QED
  BY <1>7 DEF list

(***************************************************************************)
(* Approvals and rows.                                                     *)
(***************************************************************************)
Trusted(s, keys) ==
  IsList(s) /\ \A i \in DOMAIN s : IsApproval(s[i]) /\ KeyOf(s[i]) \in keys

Distinct(s) == \A i, j \in DOMAIN s : KeyOf(s[i]) = KeyOf(s[j]) => i = j

OfGroupB(s) == \A i \in DOMAIN s : s[i].type \in GroupB

IsRow(r) == r = Row(r.date, r.type, r.window, r.approved)

LEMMA TrustGrows ==
  ASSUME NEW s, NEW keys, NEW more, Trusted(s, keys), keys \subseteq more
  PROVE  Trusted(s, more)
BY DEF Trusted

LEMMA EmptyIsTrusted == ASSUME NEW keys PROVE Trusted(<<>>, keys)
BY EmptyList DEF Trusted

LEMMA AppendTrusted ==
  ASSUME NEW s, NEW keys, Trusted(s, keys), NEW a, IsApproval(a), KeyOf(a) \in keys
  PROVE  Trusted(Append(s, a), keys)
BY AppendIsList DEF Trusted

(* What a cut leaves of an overlay holds nothing that was not approved.    *)
LEMMA CutTrusted ==
  ASSUME NEW s, NEW keys, Trusted(s, keys), NEW cut \in CutApprovals(s)
  PROVE  Trusted(cut, keys)
<1> DEFINE LastBare(h) == [h EXCEPT ![Len(h)].window = None]
           heads == {SubSeq(s, 1, n) : n \in 0 .. Len(s)}
<1>1. ASSUME NEW h \in heads PROVE Trusted(h, keys)
  <2>1. PICK n \in 0 .. Len(s) : h = SubSeq(s, 1, n)
    BY <1>1
  <2>2. /\ IsList(h)
        /\ \A i \in DOMAIN h : i \in DOMAIN s /\ h[i] = s[i]
    BY <2>1, HeadIsList DEF Trusted
  <2> QED
    BY <2>2 DEF Trusted
<1>2. ASSUME NEW h, Trusted(h, keys), h # <<>> PROVE Trusted(LastBare(h), keys)
  <2>1. /\ Len(h) \in Nat /\ DOMAIN h = 1 .. Len(h)
        /\ h = [i \in 1 .. Len(h) |-> h[i]]
    BY <1>2, ListShape DEF Trusted
  <2> DEFINE n == Len(h)
             bare == LastBare(h)
  <2>2. /\ DOMAIN bare = 1 .. n /\ bare = [i \in 1 .. n |-> bare[i]]
        /\ \A i \in 1 .. n : bare[i] = IF i = n THEN [h[i] EXCEPT !.window = None] ELSE h[i]
    BY <2>1
  <2> HIDE DEF bare
  <2>3. IsList(bare)
    BY <2>1, <2>2, FunctionIsList
  <2>4. ASSUME NEW a, IsApproval(a), NEW w, NEW b, b = [a EXCEPT !.window = w]
        PROVE  IsApproval(b) /\ KeyOf(b) = KeyOf(a)
    BY <2>4 DEF IsApproval, KeyOf
  <2>5. \A i \in 1 .. n : IsApproval(bare[i]) /\ KeyOf(bare[i]) = KeyOf(h[i])
    BY <1>2, <2>1, <2>2, <2>4 DEF Trusted
  <2>6. Trusted(bare, keys)
    BY <1>2, <2>1, <2>2, <2>3, <2>5 DEF Trusted
  <2> QED
    BY <2>6 DEF bare
<1>3. CutApprovals(s) = heads \cup {LastBare(h) : h \in heads \ {<<>>}}
  BY DEF CutApprovals
<1> HIDE DEF heads, LastBare
<1> QED
  BY <1>1, <1>2, <1>3

(* The row of a key is a row of that key; it is approved when the key is,  *)
(* with the window of the approval if that names one.                      *)
LEMMA RenderedRow ==
  ASSUME NEW candidates, Candidates(candidates), NEW approvals, IsList(approvals),
         NEW key \in KeysOf(candidates)
  PROVE  LET row == Rendered(candidates, approvals, key)
         IN /\ IsRow(row) /\ KeyOf(row) = key
            /\ row.approved => key \in KeysOf(approvals)
            /\ \A i \in DOMAIN approvals :
                 KeyOf(approvals[i]) = key /\ Distinct(approvals) =>
                   /\ row.approved
                   /\ approvals[i].window # None => row.window = approvals[i].window
<1> DEFINE row == Rendered(candidates, approvals, key)
           candidate == LastOf(candidates, key)
           approval == FirstOf(approvals, key)
<1>1. KeyOf(candidate) = key
  BY KeyedEntries DEF Candidates
<1>2. CASE key \notin KeysOf(approvals)
  <2>1. row = Row(candidate.date, candidate.type, candidate.window, FALSE)
    BY <1>2 DEF Rendered
  <2>2. \A i \in DOMAIN approvals : KeyOf(approvals[i]) # key
    BY <1>2 DEF KeysOf
  <2> HIDE DEF candidate, row
  <2> QED
    BY <1>1, <2>1, <2>2 DEF IsRow, Row, KeyOf, row
<1>3. CASE key \in KeysOf(approvals)
  <2> DEFINE window == IF approval.window # None THEN approval.window ELSE candidate.window
  <2>1. row = Row(candidate.date, candidate.type, window, TRUE)
    BY <1>3 DEF Rendered, ApprovedRow
  <2>2. PICK first \in DOMAIN approvals :
          KeyOf(approvals[first]) = key /\ approval = approvals[first]
    BY <1>3, KeyedEntries
  <2>3. \A i \in DOMAIN approvals :
          KeyOf(approvals[i]) = key /\ Distinct(approvals) => approval = approvals[i]
    BY <2>2 DEF Distinct
  <2> HIDE DEF candidate, row, approval
  <2>4. IsRow(row) /\ KeyOf(row) = key /\ row.approved /\ row.window = window
    BY <1>1, <2>1 DEF IsRow, Row, KeyOf
  <2> QED
    BY <1>3, <2>3, <2>4 DEF row
<1> QED
  BY <1>2, <1>3

(* An approved key whose candidates are not contradicted is promoted.      *)
LEMMA ApprovedIsPromoted ==
  ASSUME NEW candidates, NEW validations, NEW approvals,
         NEW key \in KeysOf(candidates), key[1] \in GroupB, key \in KeysOf(approvals),
         Triangulate(candidates, validations, approvals)[key] # "quarantine"
  PROVE  key \in Decided(Triangulate(candidates, validations, approvals), "promote")
BY DEF Triangulate, Decided, Outcome, GroupBOutcome

(***************************************************************************)
(* The inductive invariant.  No key is approved but by an operator, or by  *)
(* the files a first build finds: the overlay, what the desks hold, what   *)
(* the build has loaded and every approved row are of keys approved so     *)
(* far.  From triage to the end of the build, its rows hold the row of     *)
(* every promoted key and no other approved row; the calendar and then the *)
(* report are the ones of the build until the next one starts.             *)
(***************************************************************************)
IsBuild(b) ==
  b = [pc |-> b.pc, answer |-> b.answer, approvals |-> b.approvals,
       candidates |-> b.candidates, validations |-> b.validations,
       decisions |-> b.decisions, rows |-> b.rows, error |-> b.error]

IsDesk(d) == d = [pc |-> d.pc, id |-> d.id, key |-> d.key, held |-> d.held]

IsKey(key) == key = <<key[1], key[2]>>

Ended == {"idle", "failed", "done"}
Writing == {"validations", "candidates", "quarantine", "calendar", "report"}
Judged == Writing \cup {"done"}

OverlayIsTrusted == overlay \in {Absent, Torn} \/ Trusted(overlay, approved)

CalendarIsTrusted ==
  calendar \in {Absent, Torn} \/ \A r \in calendar : r.approved => KeyOf(r) \in approved

FilesAreKeyed ==
  /\ files = [validations |-> files.validations, candidates |-> files.candidates,
              quarantine |-> files.quarantine]
  /\ \/ files.candidates \in {Absent, Torn}
     \/ \A record \in files.candidates : IsKey(record.key)

DeskIsTrusted(d, keys) ==
  /\ IsDesk(d) /\ Trusted(d.held, keys)
  /\ d.pc \in {"idle", "read", "loaded", "writing"}
  /\ d.pc # "idle" => IsKey(d.key)
  /\ d.pc = "writing" => d.key \in keys

DesksAreTrusted ==
  /\ desk = [o \in Operators |-> desk[o]]
  /\ \A o \in Operators : DeskIsTrusted(desk[o], approved)

(* What a build has loaded, gathered and rendered.                         *)
LoadedSoundly(b, keys) ==
  Trusted(b.approvals, keys) /\ Distinct(b.approvals) /\ OfGroupB(b.approvals)

RowsAnswer(b) ==
  /\ \A key \in Decided(b.decisions, "promote") :
       Rendered(b.candidates, b.approvals, key) \in b.rows
  /\ \A r \in b.rows :
       IsRow(r) /\ (r.approved => /\ KeyOf(r) \in Decided(b.decisions, "promote")
                                  /\ KeyOf(r) \in KeysOf(b.approvals))

JudgedSoundly(b) ==
  /\ b.decisions = Triangulate(b.candidates, b.validations, b.approvals)
  /\ RowsAnswer(b)

PlainRows(rows) == \A r \in rows : IsRow(r) /\ ~r.approved

BuildIsSound(b, keys) ==
  /\ IsBuild(b) /\ LoadedSoundly(b, keys)
  /\ b.pc \in {"idle", "failed", "fetched", "loaded", "gathered"} \cup Judged
  /\ b.pc \in {"fetched", "loaded", "gathered"} =>
       b.answer \in DOMAIN Answers /\ PlainRows(b.rows)
  /\ b.pc \in {"gathered"} \cup Judged => Identified(b.candidates)
  /\ b.pc \in Judged => JudgedSoundly(b)

WrittenAsBuilt ==
  /\ build.pc \in {"report", "done"} => calendar = build.rows
  /\ build.pc = "done" =>
       report = BuildReport(build.candidates, build.decisions, build.approvals)

EventInv ==
  /\ OverlayIsTrusted /\ CalendarIsTrusted /\ FilesAreKeyed /\ DesksAreTrusted
  /\ BuildIsSound(build, approved) /\ WrittenAsBuilt

(* Approving another key disturbs nothing that is trusted.                 *)
LEMMA DeskTrustGrows ==
  ASSUME NEW d, NEW keys, NEW more, DeskIsTrusted(d, keys), keys \subseteq more
  PROVE  DeskIsTrusted(d, more)
BY TrustGrows DEF DeskIsTrusted

LEMMA BuildTrustGrows ==
  ASSUME NEW b, NEW keys, NEW more, BuildIsSound(b, keys), keys \subseteq more
  PROVE  BuildIsSound(b, more)
BY TrustGrows DEF BuildIsSound, LoadedSoundly

LEMMA NoBuildIsSound ==
  ASSUME NEW keys, NEW b, IsBuild(b), b.approvals = <<>>, b.pc \in {"idle", "failed"}
  PROVE  BuildIsSound(b, keys)
BY EmptyIsTrusted, EmptyList
DEF BuildIsSound, LoadedSoundly, Distinct, OfGroupB, Judged, Writing

LEMMA FailedIsSound ==
  ASSUME NEW keys, NEW error, Failed(error)
  PROVE  BuildIsSound(build', keys) /\ build'.pc = "failed"
<1>1. /\ IsBuild(build') /\ build'.approvals = <<>> /\ build'.pc = "failed"
  BY DEF Failed, NoBuild, IsBuild
<1> QED
  BY <1>1, NoBuildIsSound

LEMMA InitEventInv == Init => EventInv
<1> SUFFICES ASSUME Init PROVE EventInv
  OBVIOUS
<1>1. OverlayIsTrusted
  <2>1. CASE overlay \in FirstOverlays \ {Absent}
    <3>1. IsList(overlay) /\ \A i \in DOMAIN overlay : IsApproval(overlay[i])
      BY <2>1, BuildAssumption
    <3>2. \A i \in DOMAIN overlay : KeyOf(overlay[i]) \in approved
      BY <2>1 DEF Init, KeysOf
    <3> QED
      BY <3>1, <3>2 DEF OverlayIsTrusted, Trusted
  <2> QED
    BY <2>1 DEF Init, OverlayIsTrusted
<1>2. CalendarIsTrusted
  BY DEF Init, CalendarIsTrusted, RowsOnDisk
<1>3. FilesAreKeyed
  BY DEF Init, FilesAreKeyed
<1>4. DesksAreTrusted
  BY EmptyIsTrusted DEF Init, DesksAreTrusted, DeskIsTrusted, IsDesk, Idle
<1>5. BuildIsSound(build, approved) /\ build.pc = "idle"
  <2>1. IsBuild(build) /\ build.approvals = <<>> /\ build.pc = "idle"
    BY DEF Init, NoBuild, IsBuild
  <2> QED
    BY <2>1, NoBuildIsSound
<1> QED
  BY <1>1, <1>2, <1>3, <1>4, <1>5 DEF EventInv, WrittenAsBuilt

(* A step of the build touches neither the overlay nor a desk.             *)
LEMMA BuildStep ==
  ASSUME EventInv, UNCHANGED <<overlay, desk, approved>>,
         BuildIsSound(build', approved), FilesAreKeyed', CalendarIsTrusted', WrittenAsBuilt'
  PROVE  EventInv'
<1>1. OverlayIsTrusted' /\ DesksAreTrusted'
  BY DEF EventInv, OverlayIsTrusted, DesksAreTrusted
<1>2. BuildIsSound(build, approved)'
  OBVIOUS
<1> QED
  BY <1>1, <1>2 DEF EventInv

LEMMA FilesAndCalendarStay ==
  ASSUME EventInv, UNCHANGED <<files, calendar, approved>>
  PROVE  FilesAreKeyed' /\ CalendarIsTrusted'
BY DEF EventInv, FilesAreKeyed, CalendarIsTrusted

(* Before its files are written a build owes nothing.                      *)
LEMMA NothingOwed ==
  ASSUME build'.pc \notin {"report", "done"}
  PROVE  WrittenAsBuilt'
BY DEF WrittenAsBuilt

LEMMA StartBuildInv ==
  ASSUME EventInv, NEW name \in DOMAIN Answers, StartBuild(name)
  PROVE  EventInv'
<1>1. UNCHANGED <<overlay, files, calendar, desk, approved>>
  BY DEF StartBuild
<1>2. BuildIsSound(build', approved) /\ build'.pc \in {"failed", "fetched"}
  <2>1. CASE build' = [NoBuild EXCEPT !.pc = "failed", !.error = "schedule"]
    BY <2>1, FailedIsSound DEF Failed
  <2>2. CASE build' = [NoBuild EXCEPT !.pc = "fetched", !.answer = name,
                                      !.rows = ScheduledRows(Answers[name])]
    <3>1. /\ IsBuild(build') /\ build'.pc = "fetched" /\ build'.answer = name
          /\ build'.approvals = <<>> /\ build'.rows = ScheduledRows(Answers[name])
      BY <2>2 DEF NoBuild, IsBuild
    <3>2. PlainRows(build'.rows)
      <4>1. ASSUME NEW date, NEW type, NEW r, r = Row(date, type, None, FALSE)
            PROVE  IsRow(r) /\ ~r.approved
        BY <4>1 DEF IsRow, Row
      <4>2. ASSUME NEW r \in ScheduledRows(Answers[name])
            PROVE  \E date, type : r = Row(date, type, None, FALSE)
        <5>1. CASE \E e \in FomcEntries(Answers[name].fomc) : r = Row(e.date, "FOMC", None, FALSE)
          BY <5>1
        <5>2. CASE \E type \in {"CPI", "NFP"} :
                     \E d \in Releases(Answers[name].bls, type) : r = Row(d, type, None, FALSE)
          BY <5>2
        <5> QED
          BY <4>2, <5>1, <5>2 DEF ScheduledRows
      <4>3. \A r \in ScheduledRows(Answers[name]) : IsRow(r) /\ ~r.approved
        BY <4>1, <4>2
      <4> QED
        BY <3>1, <4>3 DEF PlainRows
    <3>3. LoadedSoundly(build', approved)
      BY <3>1, EmptyIsTrusted, EmptyList DEF LoadedSoundly, Distinct, OfGroupB
    <3> QED
      BY <3>1, <3>2, <3>3 DEF BuildIsSound, Judged, Writing
  <2> QED
    BY <2>1, <2>2 DEF StartBuild
<1> QED
  BY <1>1, <1>2, BuildStep, FilesAndCalendarStay, NothingOwed

LEMMA LoadOverlayInv ==
  ASSUME EventInv, LoadApprovalOverlay
  PROVE  EventInv'
<1>1. UNCHANGED <<overlay, files, calendar, desk, approved>> /\ build.pc = "fetched"
  BY DEF LoadApprovalOverlay, At
<1>2. BuildIsSound(build', approved) /\ build'.pc \in {"failed", "loaded"}
  <2>1. CASE Failed("overlay")
    BY <2>1, FailedIsSound
  <2>2. CASE /\ OverlayLoads
             /\ build' = [build EXCEPT !.pc = "loaded", !.approvals = ApprovalsOnDisk]
    <3>1. /\ BuildIsSound(build, approved) /\ IsBuild(build)
      BY DEF EventInv, BuildIsSound
    <3>2. /\ IsBuild(build') /\ build'.pc = "loaded" /\ build'.approvals = ApprovalsOnDisk
          /\ build'.answer = build.answer /\ build'.rows = build.rows
      BY <2>2, <3>1 DEF IsBuild
    <3>3. LoadedSoundly(build', approved)
      <4>1. CASE overlay = Absent
        BY <3>2, <4>1, EmptyIsTrusted, EmptyList
        DEF ApprovalsOnDisk, LoadedSoundly, Distinct, OfGroupB
      <4>2. CASE overlay # Absent
        <5>1. Trusted(overlay, approved) /\ ApprovalsOnDisk = overlay
          BY <2>2, <4>2 DEF EventInv, OverlayIsTrusted, OverlayLoads, ApprovalsOnDisk
        <5>2. OfGroupB(overlay) /\ Distinct(overlay)
          BY <2>2, <4>2 DEF OverlayLoads, IsInjective, OfGroupB, Distinct
        <5> QED
          BY <3>2, <5>1, <5>2 DEF LoadedSoundly
      <4> QED
        BY <4>1, <4>2
    <3> QED
      BY <1>1, <3>1, <3>2, <3>3 DEF BuildIsSound, Judged, Writing
  <2> QED
    BY <2>1, <2>2 DEF LoadApprovalOverlay
<1> QED
  BY <1>1, <1>2, BuildStep, FilesAndCalendarStay, NothingOwed

LEMMA GatherInv ==
  ASSUME EventInv, Gather
  PROVE  EventInv'
<1>1. UNCHANGED <<overlay, files, calendar, desk, approved>> /\ build.pc = "loaded"
  BY DEF Gather, At
<1>2. BuildIsSound(build', approved) /\ build'.pc \in {"failed", "gathered"}
  <2>1. CASE Failed("source") \/ Failed("validator")
    BY <2>1, FailedIsSound
  <2>2. ASSUME NEW validations, ~SourcesRaise,
               build' = [build EXCEPT !.pc = "gathered", !.validations = validations,
                                      !.candidates = Stamped(Gathered(Answer), validations)]
        PROVE  BuildIsSound(build', approved) /\ build'.pc = "gathered"
    <3>1. /\ BuildIsSound(build, approved) /\ IsBuild(build)
          /\ build.answer \in DOMAIN Answers
      BY <1>1 DEF EventInv, BuildIsSound
    <3>2. /\ IsBuild(build') /\ build'.pc = "gathered" /\ build'.approvals = build.approvals
          /\ build'.answer = build.answer /\ build'.rows = build.rows
          /\ build'.candidates = Stamped(Gathered(Answer), validations)
      BY <2>2, <3>1 DEF IsBuild
    <3>3. Candidates(Gathered(Answer))
      BY <2>2, <3>1, BuildAssumption, GatheredCandidates DEF SourcesRaise, Answer
    <3>4. Identified(build'.candidates)
      BY <3>2, <3>3, StampedIdentify
    <3> QED
      BY <1>1, <3>1, <3>2, <3>4 DEF BuildIsSound, LoadedSoundly, Judged, Writing
  <2> QED
    BY <2>1, <2>2 DEF Gather
<1> QED
  BY <1>1, <1>2, BuildStep, FilesAndCalendarStay, NothingOwed

LEMMA TriageInv ==
  ASSUME EventInv, Triage
  PROVE  EventInv'
<1>1. UNCHANGED <<overlay, files, calendar, desk, approved>> /\ build.pc = "gathered"
  BY DEF Triage, At
<1> DEFINE decisions == Triangulate(build.candidates, build.validations, build.approvals)
<1>2. BuildIsSound(build', approved) /\ build'.pc \in {"failed", "validations"}
  <2>1. CASE \/ Failed("quarantine")
             \/ Failed(Refusal(build.candidates, decisions, build.approvals))
    BY <2>1, FailedIsSound
  <2>2. CASE build' = [build EXCEPT !.pc = "validations", !.decisions = decisions,
               !.rows = @ \cup Promoted(build.candidates, decisions, build.approvals)]
    <3>1. /\ BuildIsSound(build, approved) /\ IsBuild(build)
          /\ PlainRows(build.rows) /\ Identified(build.candidates)
          /\ LoadedSoundly(build, approved)
      BY <1>1 DEF EventInv, BuildIsSound
    <3> HIDE DEF decisions
    <3>2. /\ IsBuild(build') /\ build'.pc = "validations"
          /\ build'.approvals = build.approvals /\ build'.candidates = build.candidates
          /\ build'.validations = build.validations /\ build'.decisions = decisions
          /\ build'.rows = build.rows \cup Promoted(build.candidates, decisions,
                                                     build.approvals)
      BY <2>2, <3>1 DEF IsBuild
    <3>3. Decided(decisions, "promote") \subseteq KeysOf(build.candidates)
      BY DEF decisions, Triangulate, Decided
    <3>4. ASSUME NEW key \in Decided(decisions, "promote")
          PROVE  LET row == Rendered(build.candidates, build.approvals, key)
                 IN /\ IsRow(row) /\ KeyOf(row) = key
                    /\ row.approved => key \in KeysOf(build.approvals)
      BY <3>1, <3>3, RenderedRow DEF Identified, LoadedSoundly, Trusted
    <3>5. RowsAnswer(build')
      <4>1. \A key \in Decided(decisions, "promote") :
              Rendered(build.candidates, build.approvals, key) \in build'.rows
        BY <3>2 DEF Promoted
      <4>2. ASSUME NEW r \in build'.rows
            PROVE  /\ IsRow(r)
                   /\ r.approved => /\ KeyOf(r) \in Decided(decisions, "promote")
                                    /\ KeyOf(r) \in KeysOf(build.approvals)
        <5>1. CASE r \in build.rows
          BY <3>1, <5>1 DEF PlainRows
        <5>2. CASE r \in Promoted(build.candidates, decisions, build.approvals)
          BY <3>4, <5>2 DEF Promoted
        <5> QED
          BY <3>2, <5>1, <5>2
      <4> QED
        BY <3>2, <4>1, <4>2 DEF RowsAnswer
    <3>6. JudgedSoundly(build')
      BY <3>2, <3>5 DEF JudgedSoundly, decisions
    <3> QED
      BY <3>1, <3>2, <3>6 DEF BuildIsSound, LoadedSoundly, Judged, Writing
  <2> QED
    BY <2>1, <2>2 DEF Triage
<1> QED
  BY <1>1, <1>2, BuildStep, FilesAndCalendarStay, NothingOwed

(* From one file to the next.                                              *)
LEMMA GoesOn ==
  ASSUME EventInv, build.pc \in Writing, NEW pc \in Judged, Goes(pc)
  PROVE  /\ BuildIsSound(build', approved) /\ build'.pc = pc
         /\ build'.rows = build.rows /\ build'.candidates = build.candidates
         /\ build'.decisions = build.decisions /\ build'.approvals = build.approvals
<1>1. BuildIsSound(build, approved) /\ IsBuild(build)
  BY DEF EventInv, BuildIsSound
<1>2. /\ IsBuild(build') /\ build'.pc = pc
      /\ build'.rows = build.rows /\ build'.candidates = build.candidates
      /\ build'.decisions = build.decisions /\ build'.approvals = build.approvals
      /\ build'.validations = build.validations
  BY <1>1 DEF Goes, IsBuild
<1>3. /\ LoadedSoundly(build, approved) /\ Identified(build.candidates)
      /\ JudgedSoundly(build)
  BY <1>1 DEF BuildIsSound, Judged
<1>4. LoadedSoundly(build', approved) /\ JudgedSoundly(build')
  BY <1>2, <1>3 DEF LoadedSoundly, JudgedSoundly, RowsAnswer
<1>5. pc \notin {"fetched", "loaded", "gathered"}
  BY DEF Judged, Writing
<1> QED
  BY <1>2, <1>3, <1>4, <1>5 DEF BuildIsSound

LEMMA WriteValidationsInv ==
  ASSUME EventInv, WriteValidations
  PROVE  EventInv'
<1>1. /\ build.pc = "validations" /\ Goes("candidates")
      /\ UNCHANGED <<overlay, calendar, report, desk, approved>>
      /\ files' = [files EXCEPT !.validations = ToSet(build.validations)]
  BY DEF WriteValidations, At
<1>2. BuildIsSound(build', approved) /\ build'.pc = "candidates"
  BY <1>1, GoesOn DEF Judged, Writing
<1>3. FilesAreKeyed' /\ CalendarIsTrusted'
  BY <1>1 DEF EventInv, FilesAreKeyed, CalendarIsTrusted
<1> QED
  BY <1>1, <1>2, <1>3, BuildStep, NothingOwed

LEMMA WriteCandidatesInv ==
  ASSUME EventInv, WriteCandidates
  PROVE  EventInv'
<1>1. /\ build.pc = "candidates" /\ Goes("quarantine")
      /\ UNCHANGED <<overlay, calendar, report, desk, approved>>
      /\ files' = [files EXCEPT !.candidates = Records]
  BY DEF WriteCandidates, At
<1>2. BuildIsSound(build', approved) /\ build'.pc = "quarantine"
  BY <1>1, GoesOn DEF Judged, Writing
<1>3. \A record \in Records : IsKey(record.key)
  <2>1. \A c : IsKey(KeyOf(c))
    BY DEF KeyOf, IsKey
  <2>2. \A record \in Records : \E c : record.key = KeyOf(c)
    BY DEF Records, CandidateRecords, CandidateRecord
  <2> QED
    BY <2>1, <2>2
<1>4. FilesAreKeyed' /\ CalendarIsTrusted'
  BY <1>1, <1>3 DEF EventInv, FilesAreKeyed, CalendarIsTrusted
<1> QED
  BY <1>1, <1>2, <1>4, BuildStep, NothingOwed

LEMMA WriteQuarantineInv ==
  ASSUME EventInv, WriteQuarantine
  PROVE  EventInv'
<1>1. /\ build.pc = "quarantine" /\ Goes("calendar")
      /\ UNCHANGED <<overlay, calendar, report, desk, approved>>
      /\ files' = [files EXCEPT !.quarantine = QuarantineRecords(Records)]
  BY DEF WriteQuarantine, At
<1>2. BuildIsSound(build', approved) /\ build'.pc = "calendar"
  BY <1>1, GoesOn DEF Judged, Writing
<1>3. FilesAreKeyed' /\ CalendarIsTrusted'
  BY <1>1 DEF EventInv, FilesAreKeyed, CalendarIsTrusted
<1> QED
  BY <1>1, <1>2, <1>3, BuildStep, NothingOwed

(* The rows a build writes are of keys the overlay it loaded approves.     *)
LEMMA RowsAreTrusted ==
  ASSUME EventInv, build.pc \in Judged
  PROVE  \A r \in build.rows : IsRow(r) /\ (r.approved => KeyOf(r) \in approved)
<1>1. /\ RowsAnswer(build) /\ Trusted(build.approvals, approved)
  BY DEF EventInv, BuildIsSound, JudgedSoundly, LoadedSoundly
<1>2. KeysOf(build.approvals) \subseteq approved
  BY <1>1 DEF Trusted, KeysOf
<1> QED
  BY <1>1, <1>2 DEF RowsAnswer

LEMMA WriteCalendarInv ==
  ASSUME EventInv, WriteCalendar
  PROVE  EventInv'
<1>1. /\ build.pc = "calendar" /\ Goes("report") /\ calendar' = build.rows
      /\ UNCHANGED <<overlay, files, report, desk, approved>>
  BY DEF WriteCalendar, At
<1>2. /\ BuildIsSound(build', approved) /\ build'.pc = "report"
      /\ build'.rows = build.rows
  BY <1>1, GoesOn DEF Judged, Writing
<1>3. CalendarIsTrusted'
  BY <1>1, RowsAreTrusted DEF CalendarIsTrusted, Judged, Writing
<1>4. FilesAreKeyed' /\ WrittenAsBuilt'
  BY <1>1, <1>2 DEF EventInv, FilesAreKeyed, WrittenAsBuilt
<1> QED
  BY <1>1, <1>2, <1>3, <1>4, BuildStep

LEMMA WriteReportInv ==
  ASSUME EventInv, WriteReport
  PROVE  EventInv'
<1>1. /\ build.pc = "report" /\ Goes("done")
      /\ report' = BuildReport(build.candidates, build.decisions, build.approvals)
      /\ UNCHANGED <<overlay, files, calendar, desk, approved>>
  BY DEF WriteReport, At
<1>2. /\ BuildIsSound(build', approved) /\ build'.pc = "done"
      /\ build'.rows = build.rows /\ build'.candidates = build.candidates
      /\ build'.decisions = build.decisions /\ build'.approvals = build.approvals
  BY <1>1, GoesOn DEF Judged, Writing
<1>3. WrittenAsBuilt'
  BY <1>1, <1>2 DEF EventInv, WrittenAsBuilt
<1> QED
  BY <1>1, <1>2, <1>3, BuildStep, FilesAndCalendarStay

(* What a kill leaves of the calendar has lost rows, labels and windows,   *)
(* and gained no approval.                                                 *)
LEMMA CutRowsTrusted ==
  ASSUME EventInv, build.pc \in Judged, NEW rows \in CutRows(build.rows), NEW r \in rows,
         r.approved
  PROVE  KeyOf(r) \in approved
<1>1. CASE r \in build.rows
  BY <1>1, RowsAreTrusted
<1>2. CASE r \notin build.rows
  <2>1. PICK s \in build.rows :
          \E w \in {None, s.window} : r = [s EXCEPT !.approved = FALSE, !.window = w]
    <3> DEFINE Kept(day) == {s \in build.rows : s.date <= day}
               Labelled(kept) == {s \in kept : s.approved /\ s.date = Max(CutDays)}
               Bare(kept) ==
                 UNION {{(kept \ {s}) \cup {[s EXCEPT !.approved = FALSE, !.window = w]} :
                            w \in {None, s.window}} : s \in Labelled(kept)}
    <3>1. PICK day \in CutDays : rows \in {Kept(day)} \cup Bare(Kept(day))
      BY DEF CutRows
    <3>2. Kept(day) \subseteq build.rows
      OBVIOUS
    <3> HIDE DEF Kept
    <3>3. PICK s \in Kept(day) : \E w \in {None, s.window} :
            rows = (Kept(day) \ {s}) \cup {[s EXCEPT !.approved = FALSE, !.window = w]}
      <4>1. rows \in Bare(Kept(day))
        BY <1>2, <3>1, <3>2
      <4>2. PICK s \in Labelled(Kept(day)) :
              rows \in {(Kept(day) \ {s}) \cup {[s EXCEPT !.approved = FALSE, !.window = w]} :
                          w \in {None, s.window}}
        BY <4>1
      <4> QED
        BY <4>2
    <3> QED
      BY <1>2, <3>2, <3>3
  <2>2. s = Row(s.date, s.type, s.window, s.approved)
    BY RowsAreTrusted DEF IsRow
  <2>3. ~r.approved
    BY <2>1, <2>2 DEF Row
  <2> QED
    BY <2>3
<1> QED
  BY <1>1, <1>2

LEMMA KillBuildInv ==
  ASSUME EventInv, Kill
  PROVE  EventInv'
<1>1. build' = NoBuild /\ UNCHANGED <<overlay, desk, approved>>
  BY DEF Kill
<1>2. BuildIsSound(build', approved) /\ build'.pc = "idle"
  <2>1. IsBuild(build') /\ build'.approvals = <<>> /\ build'.pc = "idle"
    BY <1>1 DEF NoBuild, IsBuild
  <2> QED
    BY <2>1, NoBuildIsSound
<1>3. FilesAreKeyed'
  <2>1. files' = files \/ /\ build.pc \in {"validations", "candidates", "quarantine"}
                          /\ files' = [files EXCEPT ![build.pc] = Torn]
    BY DEF Kill, EventInv, FilesAreKeyed
  <2> QED
    BY <2>1 DEF EventInv, FilesAreKeyed
<1>4. CalendarIsTrusted'
  <2>1. CASE calendar' \in {calendar, Torn}
    BY <1>1, <2>1 DEF EventInv, CalendarIsTrusted
  <2>2. CASE build.pc = "calendar" /\ calendar' \in CutRows(build.rows)
    BY <1>1, <2>2, CutRowsTrusted DEF CalendarIsTrusted, Judged, Writing
  <2> QED
    BY <2>1, <2>2 DEF Kill, At
<1> QED
  BY <1>1, <1>2, <1>3, <1>4, BuildStep, NothingOwed

(* A step of an operator touches only the overlay, the desk of that        *)
(* operator and what is approved.                                          *)
LEMMA OperatorStep ==
  ASSUME EventInv, NEW o \in Operators, NEW state,
         UNCHANGED <<files, calendar, report, build>>,
         approved \subseteq approved', OverlayIsTrusted',
         Desk(o, state), DeskIsTrusted(state, approved')
  PROVE  EventInv'
<1>1. CalendarIsTrusted' /\ FilesAreKeyed' /\ WrittenAsBuilt'
  BY DEF EventInv, CalendarIsTrusted, FilesAreKeyed, WrittenAsBuilt
<1>2. BuildIsSound(build', approved')
  BY BuildTrustGrows DEF EventInv
<1>3. DesksAreTrusted'
  <2>1. desk = [p \in Operators |-> desk[p]] /\ desk' = [desk EXCEPT ![o] = state]
    BY DEF EventInv, DesksAreTrusted, Desk
  <2>2. desk' = [p \in Operators |-> desk'[p]]
    BY <2>1
  <2>3. ASSUME NEW p \in Operators PROVE DeskIsTrusted(desk'[p], approved')
    <3>1. CASE p = o
      BY <2>1, <3>1
    <3>2. CASE p # o
      <4>1. DeskIsTrusted(desk[p], approved) /\ desk'[p] = desk[p]
        BY <2>1, <3>2 DEF EventInv, DesksAreTrusted
      <4> QED
        BY <4>1, DeskTrustGrows
    <3> QED
      BY <3>1, <3>2
  <2> QED
    BY <2>2, <2>3 DEF DesksAreTrusted
<1> QED
  BY <1>1, <1>2, <1>3 DEF EventInv

LEMMA OverlayStays ==
  ASSUME EventInv, UNCHANGED overlay, approved \subseteq approved'
  PROVE  OverlayIsTrusted'
BY TrustGrows DEF EventInv, OverlayIsTrusted

LEMMA IdleDesk == ASSUME NEW keys PROVE DeskIsTrusted(Idle, keys)
BY EmptyIsTrusted DEF DeskIsTrusted, IsDesk, Idle

LEMMA ReadCandidatesInv ==
  ASSUME EventInv, NEW o \in Operators, ReadCandidates(o)
  PROVE  EventInv'
<1>1. /\ UNCHANGED <<overlay, files, calendar, report, build, approved>>
      /\ files.candidates \notin {Absent, Torn}
  BY DEF ReadCandidates
<1>2. PICK record \in files.candidates :
        Desk(o, [Idle EXCEPT !.pc = "read", !.id = record.id, !.key = record.key])
  BY DEF ReadCandidates
<1>3. PICK state :
        state = [Idle EXCEPT !.pc = "read", !.id = record.id, !.key = record.key]
  OBVIOUS
<1>4. /\ IsDesk(state) /\ state.pc = "read" /\ state.held = <<>> /\ state.key = record.key
  BY <1>3 DEF Idle, IsDesk
<1>5. IsKey(record.key)
  BY <1>1 DEF EventInv, FilesAreKeyed
<1>6. DeskIsTrusted(state, approved')
  BY <1>4, <1>5, EmptyIsTrusted DEF DeskIsTrusted
<1>7. OverlayIsTrusted'
  BY <1>1, OverlayStays
<1> QED
  BY <1>1, <1>2, <1>3, <1>6, <1>7, OperatorStep

LEMMA LoadForAppendInv ==
  ASSUME EventInv, NEW o \in Operators, LoadForAppend(o)
  PROVE  EventInv'
<1>1. /\ UNCHANGED <<overlay, files, calendar, report, build, approved>>
      /\ desk[o].pc = "read" /\ DeskIsTrusted(desk[o], approved)
  BY DEF LoadForAppend, EventInv, DesksAreTrusted
<1>2. OverlayIsTrusted'
  BY <1>1, OverlayStays
<1>3. CASE Desk(o, Idle)
  BY <1>1, <1>2, <1>3, IdleDesk, OperatorStep
<1>4. CASE /\ OverlayLoads
           /\ Desk(o, [desk[o] EXCEPT !.pc = "loaded", !.held = ApprovalsOnDisk])
  <2>1. PICK state : state = [desk[o] EXCEPT !.pc = "loaded", !.held = ApprovalsOnDisk]
    OBVIOUS
  <2>2. /\ IsDesk(state) /\ state.pc = "loaded" /\ state.held = ApprovalsOnDisk
        /\ state.key = desk[o].key
    BY <1>1, <2>1 DEF DeskIsTrusted, IsDesk
  <2>3. Trusted(ApprovalsOnDisk, approved)
    BY <1>4, EmptyIsTrusted DEF EventInv, OverlayIsTrusted, OverlayLoads, ApprovalsOnDisk
  <2>4. DeskIsTrusted(state, approved')
    BY <1>1, <2>2, <2>3 DEF DeskIsTrusted
  <2> QED
    BY <1>1, <1>2, <1>4, <2>1, <2>4, OperatorStep
<1> QED
  BY <1>3, <1>4 DEF LoadForAppend

LEMMA OpenOverlayInv ==
  ASSUME EventInv, NEW o \in Operators, OpenOverlay(o)
  PROVE  EventInv'
<1>1. /\ UNCHANGED <<files, calendar, report, build>> /\ overlay' = <<>>
      /\ approved' = approved \cup {desk[o].key}
      /\ desk[o].pc = "loaded" /\ DeskIsTrusted(desk[o], approved)
      /\ Desk(o, [desk[o] EXCEPT !.pc = "writing"])
  BY DEF OpenOverlay, EventInv, DesksAreTrusted
<1> DEFINE state == [desk[o] EXCEPT !.pc = "writing"]
<1>2. /\ IsDesk(state) /\ state.pc = "writing" /\ state.held = desk[o].held
      /\ state.key = desk[o].key
  BY <1>1 DEF DeskIsTrusted, IsDesk
<1> HIDE DEF state
<1>3. DeskIsTrusted(state, approved')
  <2>1. Trusted(state.held, approved')
    BY <1>1, <1>2, TrustGrows DEF DeskIsTrusted
  <2> QED
    BY <1>1, <1>2, <2>1 DEF DeskIsTrusted
<1>4. OverlayIsTrusted'
  BY <1>1, EmptyIsTrusted DEF OverlayIsTrusted
<1> QED
  BY <1>1, <1>3, <1>4, OperatorStep DEF state

(* The approval an operator writes is of the key that was approved.        *)
LEMMA WrittenIsTrusted ==
  ASSUME EventInv, NEW o \in Operators, desk[o].pc = "writing"
  PROVE  Trusted(Append(desk[o].held, NewApproval(o)), approved)
<1>1. DeskIsTrusted(desk[o], approved)
  BY DEF EventInv, DesksAreTrusted
<1>2. IsApproval(NewApproval(o)) /\ KeyOf(NewApproval(o)) = desk[o].key
  BY <1>1 DEF NewApproval, IsApproval, KeyOf, DeskIsTrusted, IsKey
<1> QED
  BY <1>1, <1>2, AppendTrusted DEF DeskIsTrusted

LEMMA WriteOverlayInv ==
  ASSUME EventInv, NEW o \in Operators, WriteOverlay(o)
  PROVE  EventInv'
<1>1. /\ UNCHANGED <<files, calendar, report, build, approved>> /\ Desk(o, Idle)
      /\ overlay' = Append(desk[o].held, NewApproval(o)) /\ desk[o].pc = "writing"
  BY DEF WriteOverlay
<1>2. OverlayIsTrusted'
  BY <1>1, WrittenIsTrusted DEF OverlayIsTrusted
<1> QED
  BY <1>1, <1>2, IdleDesk, OperatorStep

LEMMA KillApprovalInv ==
  ASSUME EventInv, NEW o \in Operators, KillApproval(o)
  PROVE  EventInv'
<1>1. /\ UNCHANGED <<files, calendar, report, build, approved>> /\ Desk(o, Idle)
      /\ overlay' \in {Torn} \cup CutApprovals(Append(desk[o].held, NewApproval(o)))
      /\ desk[o].pc = "writing"
  BY DEF KillApproval
<1>2. OverlayIsTrusted'
  BY <1>1, WrittenIsTrusted, CutTrusted DEF OverlayIsTrusted
<1> QED
  BY <1>1, <1>2, IdleDesk, OperatorStep

LEMMA StutterEventInv ==
  ASSUME EventInv, UNCHANGED vars
  PROVE  EventInv'
<1>1. UNCHANGED <<overlay, files, calendar, report, build, desk, approved>>
  BY DEF vars
<1>2. BuildIsSound(build', approved)
  BY <1>1 DEF EventInv
<1>3. WrittenAsBuilt'
  BY <1>1 DEF EventInv, WrittenAsBuilt
<1> QED
  BY <1>1, <1>2, <1>3, BuildStep, FilesAndCalendarStay

LEMMA EventStepInv == EventInv /\ [Next]_vars => EventInv'
<1> SUFFICES ASSUME EventInv, [Next]_vars PROVE EventInv'
  OBVIOUS
<1>1. CASE \E name \in DOMAIN Answers : StartBuild(name)
  BY <1>1, StartBuildInv
<1>2. CASE LoadApprovalOverlay \/ Gather \/ Triage
  BY <1>2, LoadOverlayInv, GatherInv, TriageInv
<1>3. CASE WriteValidations \/ WriteCandidates \/ WriteQuarantine
  BY <1>3, WriteValidationsInv, WriteCandidatesInv, WriteQuarantineInv
<1>4. CASE WriteCalendar \/ WriteReport \/ Kill
  BY <1>4, WriteCalendarInv, WriteReportInv, KillBuildInv
<1>5. ASSUME NEW o \in Operators,
             \/ ReadCandidates(o) \/ LoadForAppend(o) \/ OpenOverlay(o)
             \/ WriteOverlay(o) \/ KillApproval(o)
      PROVE  EventInv'
  BY <1>5, ReadCandidatesInv, LoadForAppendInv, OpenOverlayInv, WriteOverlayInv,
     KillApprovalInv
<1>6. CASE UNCHANGED vars
  BY <1>6, StutterEventInv
<1> QED
  BY <1>1, <1>2, <1>3, <1>4, <1>5, <1>6 DEF Next

(* The overlay, the desks, the build and the calendar keep their shape, and*)
(* everything approved in them was approved by an operator.                *)
THEOREM EventInvariant == Spec => []EventInv
BY InitEventInv, EventStepInv, PTL DEF Spec

(* No session is labelled a geopolitical event for a shock nobody approved *)
(* (render_events_from_candidates, run_us_event_calendar_fetch).           *)
THEOREM ShocksAreApproved == Spec => []OnlyApprovedShocksFire
<1>1. EventInv => OnlyApprovedShocksFire
  BY DEF EventInv, CalendarIsTrusted, OnlyApprovedShocksFire, CalendarLoads, MayLabel
<1> QED
  BY <1>1, EventInvariant, PTL

LEMMA FinishedBuildAnswers ==
  ASSUME EventInv, build.pc = "done", NEW a \in ToSet(build.approvals)
  PROVE  IF ResultOf(a) # {} THEN ~HasRow(a)
         ELSE HasRow(a) /\ (SameEvidence(a) \/ <<KeyOf(a), "other evidence">> \in report)
<1> DEFINE key == KeyOf(a)
           candidates == build.candidates
           approvals == build.approvals
           promoted == Decided(build.decisions, "promote")
<1>1. /\ calendar = build.rows
      /\ report = BuildReport(candidates, build.decisions, approvals)
      /\ Identified(candidates) /\ RowsAnswer(build) /\ LoadedSoundly(build, approved)
      /\ build.decisions = Triangulate(candidates, build.validations, approvals)
  BY DEF EventInv, WrittenAsBuilt, BuildIsSound, JudgedSoundly, Judged, Writing
<1>2. PICK n \in DOMAIN approvals : a = approvals[n]
  BY DEF ToSet
<1>3. /\ a.type \in GroupB /\ key[1] = a.type /\ key \in KeysOf(approvals)
      /\ IsList(approvals) /\ Distinct(approvals)
  BY <1>1, <1>2 DEF LoadedSoundly, OfGroupB, Trusted, KeyOf, KeysOf
<1>4. promoted \subseteq KeysOf(candidates)
  BY <1>1 DEF Triangulate, Decided
<1>5. \A k : k \in promoted => build.decisions[k] = "promote"
  BY DEF Decided
<1>6. HasRow(a) => key \in promoted
  BY <1>1 DEF HasRow, RowsAnswer
<1>7. ASSUME NEW b \in ToSet(approvals), KeyOf(b) = key,
             StatusOf(b, candidates, build.decisions) \in {"stale", "contradicted"}
      PROVE  key \notin promoted
  <2>1. CASE key \notin KeysOf(candidates)
    BY <1>4, <2>1
  <2>2. CASE key \in KeysOf(candidates)
    <3>1. build.decisions[key] = "quarantine"
      BY <1>3, <1>7, <2>2 DEF StatusOf
    <3> QED
      BY <1>5, <3>1
  <2> QED
    BY <2>1, <2>2
<1>8. ASSUME ResultOf(a) # {} PROVE ~HasRow(a)
  <2>1. \E status \in {"stale", "contradicted"} : <<key, status>> \in report
    BY <1>8 DEF ResultOf
  <2>2. PICK b \in ToSet(approvals) :
          /\ KeyOf(b) = key
          /\ StatusOf(b, candidates, build.decisions) \in {"stale", "contradicted"}
    BY <1>1, <2>1 DEF BuildReport
  <2> QED
    BY <1>6, <1>7, <2>2
<1>9. ASSUME ResultOf(a) = {}
      PROVE  HasRow(a) /\ (SameEvidence(a) \/ <<key, "other evidence">> \in report)
  <2> DEFINE status == StatusOf(a, candidates, build.decisions)
  <2>1. status # "as approved" => <<key, status>> \in report
    BY <1>1 DEF BuildReport
  <2>2. status \notin {"stale", "contradicted"}
    BY <1>9, <2>1 DEF ResultOf
  <2>3. key \in KeysOf(candidates) /\ build.decisions[key] # "quarantine"
    BY <1>3, <2>2 DEF StatusOf
  <2>4. key \in promoted
    BY <1>1, <1>3, <2>3, ApprovedIsPromoted
  <2>5. HasRow(a)
    <3> DEFINE row == Rendered(candidates, approvals, key)
    <3>1. /\ KeyOf(row) = key /\ row.approved
          /\ a.window # None => row.window = a.window
      BY <1>1, <1>2, <1>3, <2>3, RenderedRow DEF Identified
    <3>2. row \in calendar
      BY <1>1, <2>4 DEF RowsAnswer
    <3> QED
      BY <3>1, <3>2 DEF HasRow
  <2>6. CASE LastOf(candidates, key).id = a.evidence
    <3>1. PICK last \in DOMAIN candidates :
            KeyOf(candidates[last]) = key /\ LastOf(candidates, key) = candidates[last]
      BY <1>1, <2>3, KeyedEntries DEF Identified, Candidates
    <3>2. SameEvidence(a)
      BY <1>1, <2>6, <3>1 DEF SameEvidence, WithKey, Identified
    <3> QED
      BY <2>5, <3>2
  <2>7. CASE LastOf(candidates, key).id # a.evidence
    <3>1. status = "other evidence"
      BY <1>3, <2>3, <2>7 DEF StatusOf
    <3> QED
      BY <2>1, <2>5, <3>1
  <2> QED
    BY <2>6, <2>7
<1> QED
  BY <1>8, <1>9

(* A finished build leaves no approval it loaded without its row or its    *)
(* line in the report (render_events_from_candidates, then                *)
(* build_group_b_report).                                                  *)
THEOREM ApprovalsAnswered == Spec => []EveryApprovalAnswered
<1>1. EventInv => EveryApprovalAnswered
  BY FinishedBuildAnswers DEF EveryApprovalAnswered, At
<1> QED
  BY <1>1, EventInvariant, PTL
=============================================================================

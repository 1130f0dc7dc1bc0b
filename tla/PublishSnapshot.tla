--------------------------- MODULE PublishSnapshot ---------------------------
(***************************************************************************)
(* publish_canonical_snapshot (src/scripts/publish_canonical_snapshot.py)  *)
(* over the local artifact store (src/src/regime_data_fetch/               *)
(* artifact_store.py): each selected artifact whose file is there is       *)
(* canonicalised on disk, uploaded under a key that carries its hash when  *)
(* the hash is new, and at the end the manifest is patched.  Fetchers      *)
(* rewrite the raw tree or lose files of it, manifests are committed as    *)
(* lockfiles that old checkouts still read, and the process may be killed  *)
(* at any step.                                                            *)
(***************************************************************************)
EXTENDS Integers, FiniteSets

CONSTANTS N,           \* artifacts 1..N, in manifest order
          Contents,    \* contents, by the hash of their canonical bytes
          First,       \* the content every artifact is pinned to at the start
          Daily,       \* the artifacts under the daily OHLCV symbol contract
          Barred,      \* contents that would break that contract
          NoFile,      \* no file in the raw tree
          NoObject,    \* no object under a key
          PartialCopy, \* a copy cut short
          Logical,     \* a key without a content address
          MaxFetches,  \* bound on files rewritten or lost
          MaxKills     \* bound on killed publishes

Artifacts == 1..N
Keys == Artifacts \X (Contents \cup {Logical})
File == [content : Contents, canonical : BOOLEAN]
Canonical(c) == [content |-> c, canonical |-> TRUE]
ManifestEntry == [key : Keys, sha : Contents]

ASSUME PublishAssumption ==
    /\ N \in Nat \ {0} /\ First \in Contents \ Barred
    /\ Daily \subseteq Artifacts /\ Barred \subseteq Contents /\ NoFile \notin File
    /\ NoObject \notin File /\ PartialCopy \notin File /\ NoObject # PartialCopy
    /\ Logical \notin Contents
    /\ MaxFetches \in Nat /\ MaxKills \in Nat

VARIABLES
    raw,       \* the files of data/raw, those that are there
    store,     \* the object under each key
    manifest,  \* key and hash per artifact
    lockfiles, \* history: every manifest revision that was in force
    step,      \* idle, digest, upload, copy, patch
    skip,      \* --skip-upload
    only,      \* the artifacts --only selects, or all of them
    skipped,   \* history: was a manifest ever patched with --skip-upload?
    at,        \* the artifact in hand
    sha,       \* its digest, as run_publish computed it
    loaded,    \* the manifest payload, updated in memory
    outcome,   \* how the last publish ended
    fetches, kills

publishVars == <<raw, store, manifest, lockfiles, skipped, step, skip, only, at, sha,
                 loaded, outcome, fetches, kills>>
runVars == <<step, skip, only, at, sha, loaded, outcome>>

\* A plausible slip: the path-only key of the legacy manifests.
PathOnlyKey(entry, hash) == <<entry.key[1], Logical>>

\* content_addressed_key(strip_content_address(uri), new_sha)
AddressedKey(entry, hash) == <<entry.key[1], hash>>

-----------------------------------------------------------------------------
\* Between two publishes a fetcher rewrites an artifact's file, not in
\* canonical form.
FetchArtifact(a, c) ==
    /\ fetches < MaxFetches /\ fetches' = fetches + 1
    /\ step = "idle"
    /\ raw' = [raw EXCEPT ![a] = [content |-> c, canonical |-> FALSE]]
    /\ UNCHANGED <<store, manifest, lockfiles, skipped, runVars, kills>>

\* A file of the tree goes, as in a checkout that was never filled.
LoseFile(a) ==
    /\ fetches < MaxFetches /\ fetches' = fetches + 1
    /\ step = "idle" /\ raw[a] # NoFile
    /\ raw' = [raw EXCEPT ![a] = NoFile]
    /\ UNCHANGED <<store, manifest, lockfiles, skipped, runVars, kills>>

StartPublish(option, chosen) ==
    /\ step = "idle"
    /\ step' = "digest" /\ skip' = option /\ only' = chosen /\ at' = 1
    /\ loaded' = manifest /\ outcome' = "running"
    /\ UNCHANGED <<raw, store, manifest, lockfiles, skipped, sha, fetches, kills>>

\* The process ends; what it had in memory goes.
Exit(how) ==
    /\ step' = "idle" /\ outcome' = how
    /\ skip' = FALSE /\ only' = {} /\ at' = 1 /\ sha' = First /\ loaded' = manifest'

\* On to the next artifact, with `payload' in memory.
Advance(payload) ==
    /\ loaded' = payload /\ at' = at + 1
    /\ step' = IF at = N THEN "patch" ELSE "digest"

Key == AddressedKey(loaded[at], sha)
Entry(hash) == [key |-> AddressedKey(loaded[at], hash), sha |-> hash]

\* An artifact that --only leaves out, or whose file is not there (MISSING).
PassedOver == at \notin only \/ raw[at] = NoFile

PassOver ==
    /\ step = "digest" /\ PassedOver
    /\ Advance(loaded)
    /\ UNCHANGED <<raw, store, manifest, lockfiles, skipped, skip, only, sha, outcome,
                   fetches, kills>>

\* The rows of a daily OHLCV artifact do not honour its contract.
InBreach(a) == a \in Daily /\ raw[a] # NoFile /\ raw[a].content \in Barred

\* _validate_daily_ohlcv_symbol_contract raises before the file is rewritten,
\* and run_publish with it: nothing of what is in memory reaches the manifest.
DigestRaises ==
    /\ step = "digest" /\ ~PassedOver /\ InBreach(at)
    /\ UNCHANGED <<raw, store, manifest, lockfiles, skipped, fetches, kills>>
    /\ Exit("raised")

\* A digest that is pinned already is a MATCH; with --skip-upload only the
\* payload changes.
Judge(new) ==
    /\ sha' = new
    /\ IF new = loaded[at].sha THEN Advance(loaded)
       ELSE IF skip THEN Advance([loaded EXCEPT ![at] = Entry(new)])
       ELSE step' = "upload" /\ UNCHANGED <<at, loaded>>

\* A plausible slip: the digest of the first artifact serves for all.
DigestOnce ==
    /\ step = "digest" /\ ~PassedOver /\ ~InBreach(at)
    /\ raw' = [raw EXCEPT ![at] = Canonical(@.content)]
    /\ Judge(IF raw[1] = NoFile THEN First ELSE raw[1].content)
    /\ UNCHANGED <<store, manifest, lockfiles, skipped, skip, only, outcome, fetches, kills>>

\* canonical_artifact_digest, and the file rewritten canonically in place.
Digest ==
    /\ step = "digest" /\ ~PassedOver /\ ~InBreach(at)
    /\ raw' = [raw EXCEPT ![at] = Canonical(@.content)]
    /\ Judge(raw[at].content)
    /\ UNCHANGED <<store, manifest, lockfiles, skipped, skip, only, outcome, fetches, kills>>

\* The copy begins: what is under the key from now on is not complete.
BeginCopy ==
    /\ store' = [store EXCEPT ![Key] = PartialCopy]
    /\ step' = "copy"
    /\ UNCHANGED <<skip, only, at, sha, loaded, outcome>>

\* The object is there: the payload in memory pins it.
Pin ==
    /\ Advance([loaded EXCEPT ![at] = Entry(sha)])
    /\ UNCHANGED <<skip, only, sha, outcome>>

\* A plausible slip: any object under a content address is taken for right.
UploadIfMissing ==
    /\ step = "upload"
    /\ UNCHANGED <<raw, manifest, lockfiles, skipped, fetches, kills>>
    /\ IF store[Key] = NoObject THEN BeginCopy ELSE Pin /\ UNCHANGED store

\* put_file up to the copy: an equal object is reused, another one refused
\* with ArtifactOverwriteError, which ends the publish.
Upload ==
    /\ step = "upload"
    /\ UNCHANGED <<raw, manifest, lockfiles, skipped, fetches, kills>>
    /\ \/ store[Key] = NoObject /\ BeginCopy
       \/ store[Key] = raw[at] /\ Pin /\ UNCHANGED store
       \/ store[Key] \notin {NoObject, raw[at]} /\ Exit("refused") /\ UNCHANGED store

\* The copy is complete: it has the bytes the file has now.
Copied ==
    /\ step = "copy"
    /\ store' = [store EXCEPT ![Key] = raw[at]]
    /\ Pin
    /\ UNCHANGED <<raw, manifest, lockfiles, skipped, fetches, kills>>

\* _patch_manifest_artifact_metadata replaces the manifest in one rename.
Patch ==
    /\ step = "patch"
    /\ manifest' = loaded /\ lockfiles' = lockfiles \cup {loaded}
    /\ skipped' = (skipped \/ (skip /\ loaded # manifest))
    /\ Exit("published")
    /\ UNCHANGED <<raw, store, fetches, kills>>

KillPublish ==
    /\ step # "idle"
    /\ kills < MaxKills /\ kills' = kills + 1
    /\ UNCHANGED <<raw, store, manifest, lockfiles, skipped, fetches>>
    /\ Exit("killed")

PublishInit ==
    /\ raw = [a \in Artifacts |-> Canonical(First)]
    /\ manifest = [a \in Artifacts |-> [key |-> <<a, Logical>>, sha |-> First]]
    /\ store = [k \in Keys |->
                   IF k[2] = Logical THEN Canonical(First) ELSE NoObject]
    /\ lockfiles = {manifest} /\ skipped = FALSE
    /\ step = "idle" /\ skip = FALSE /\ only = {} /\ at = 1 /\ sha = First
    /\ loaded = manifest /\ outcome = "none" /\ fetches = 0 /\ kills = 0

Publish == \/ \E option \in BOOLEAN, chosen \in SUBSET Artifacts :
                 StartPublish(option, chosen)
           \/ PassOver \/ DigestRaises \/ Digest \/ Upload \/ Copied \/ Patch

PublishNext == \/ \E a \in Artifacts, c \in Contents : FetchArtifact(a, c)
               \/ \E a \in Artifacts : LoseFile(a)
               \/ Publish \/ KillPublish

\* A publish that was started or is asked for is carried on.
PublishSpec == PublishInit /\ [][PublishNext]_publishVars /\ WF_publishVars(Publish)

-----------------------------------------------------------------------------
(* Properties                                                              *)

Fetchable(entry) == store[entry.key] = Canonical(entry.sha)

TypeOK ==
    /\ raw \in [Artifacts -> File \cup {NoFile}]
    /\ store \in [Keys -> File \cup {NoObject, PartialCopy}]
    /\ manifest \in [Artifacts -> ManifestEntry]
    /\ loaded \in [Artifacts -> ManifestEntry]
    /\ only \subseteq Artifacts /\ skip \in BOOLEAN /\ skipped \in BOOLEAN
    /\ lockfiles \subseteq [Artifacts -> ManifestEntry]
    /\ step \in {"idle", "digest", "upload", "copy", "patch"}
    /\ at \in 1..(N + 1) /\ (step \in {"digest", "upload", "copy"} => at <= N)
    /\ sha \in Contents

\* As long as --skip-upload is not used, every lockfile ever committed can be
\* materialised: neither a later publish nor one that was killed or refused
\* takes an object from under it, or pins one that is not there.
PinnedStaysFetchable ==
    ~skipped => \A lock \in lockfiles : \A a \in Artifacts : Fetchable(lock[a])

\* The manifest a publish leaves names, for every artifact it was to publish
\* and found, the file on disk in its canonical form, and every other entry is
\* as it was, whatever --only left out and whatever was missing in between.
PatchedIsRaw ==
    [][manifest' # manifest =>
          \A a \in Artifacts :
              IF a \in only /\ raw[a] # NoFile
              THEN raw[a] = Canonical(manifest'[a].sha)
              ELSE manifest'[a] = manifest[a]]_publishVars

\* Fetches stop, publishes of all artifacts go on: in the end the manifest pins
\* every file of the raw tree, unless one breaks the daily OHLCV contract or a
\* killed copy has left a torn object, neither of which a publish ever mends.
PublishConverges ==
    (/\ []<>(\A k \in Keys : store[k] # PartialCopy)
     /\ []<>(\A a \in Artifacts : ~InBreach(a))
     /\ []<><<\E option \in BOOLEAN : StartPublish(option, Artifacts)>>_publishVars)
        => <>[](\A a \in Artifacts : raw[a] # NoFile => manifest[a].sha = raw[a].content)
=============================================================================

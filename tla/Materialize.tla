----------------------------- MODULE Materialize -----------------------------
(***************************************************************************)
(* materialize_manifest (src/src/regime_data_fetch/materialization.py) and *)
(* the verified download it is built on (get_file of artifact_store.py):   *)
(* a local tree is brought to the contents a manifest pins.  Everything is *)
(* downloaded and verified first, then promoted file by file, the replaced *)
(* files going to a backup in the same temporary directory.  An exception  *)
(* rolls the promoted files back, as long as no second one ends that too;  *)
(* a killed process does not.  Either takes the backups with it.           *)
(***************************************************************************)
EXTENDS Integers, Sequences, FiniteSetsExt

CONSTANTS N,          \* artifacts 1..N, in manifest order
          Contents,   \* file contents, by hash
          Absent,     \* no file
          Manifest,   \* the content each artifact is pinned to
          MaxFaults   \* bound on failed copies, failed renames, failed unlinks and kills

Artifacts == 1..N

ASSUME MaterializeAssumption ==
    /\ N \in Nat /\ MaxFaults \in Nat /\ Absent \notin Contents
    /\ Manifest \in [Artifacts -> Contents]

VARIABLES
    tree,      \* the destination files
    store,     \* what the store holds under each artifact's uri
    step,      \* idle, fetch, backup, place, unlink, restore, done
    queue,     \* what is left of to_fetch, which is worked off in manifest order
    staged,    \* verified downloads waiting in the temporary directory
    promoted,  \* promoted destinations and their backups, latest first
    backup,    \* the file moved away for the artifact in hand
    outcome,   \* how the last run ended
    faults,    \* how much of the bound is used up
    before     \* history: the tree when the run started

vars == <<tree, store, step, queue, staged, promoted, backup, outcome, faults,
          before>>

\* A plausible slip: only an existing destination can be stale.
WantedStale(files) == {a \in Artifacts : files[a] \notin {Manifest[a], Absent}}

\* The artifacts whose file is missing or has another hash than the pinned.
Wanted(files) == {a \in Artifacts : files[a] # Manifest[a]}

Fault == faults < MaxFaults /\ faults' = faults + 1

\* The temporary directory goes, with everything in it.
Leave(how) ==
    /\ step' = "idle" /\ outcome' = how
    /\ queue' = {} /\ staged' = {} /\ promoted' = <<>> /\ backup' = Absent

-----------------------------------------------------------------------------
\* The tree is compared with the manifest; what matches is not touched.
Start ==
    /\ step = "idle" /\ outcome # "returned"
    /\ before' = tree
    /\ queue' = Wanted(tree)
    /\ step' = "fetch" /\ outcome' = "running"
    /\ UNCHANGED <<tree, store, staged, promoted, backup, faults>>

Unstaged == queue \ staged
Download == Min(Unstaged)
InHand == Min(queue)

\* A plausible slip: the copy is not hashed before it is trusted.
Trusted(a) == store[a] # Absent

\* get_file: the object is there and its copy hashes to the pinned value.
Verified(a) == store[a] = Manifest[a]

Fetch ==
    /\ step = "fetch" /\ Unstaged # {} /\ Verified(Download)
    /\ staged' = staged \cup {Download}
    /\ UNCHANGED <<tree, store, step, queue, promoted, backup, outcome, faults,
                   before>>

\* get_file raises: no such object, another hash, or the copy itself failed.
FetchFails ==
    /\ step = "fetch" /\ Unstaged # {}
    /\ IF Verified(Download) THEN Fault ELSE UNCHANGED faults
    /\ Leave("raised")
    /\ UNCHANGED <<tree, store, before>>

\* The promotion loop starts when every download is verified.
Promote ==
    /\ step = "fetch" /\ Unstaged = {}
    /\ step' = IF queue = {} THEN "done" ELSE "backup"
    /\ UNCHANGED <<tree, store, queue, staged, promoted, backup, outcome, faults,
                   before>>

\* destination.replace(backup_path), when there is a destination.
MoveAway ==
    /\ step = "backup"
    /\ backup' = tree[InHand]
    /\ tree' = [tree EXCEPT ![InHand] = Absent]
    /\ step' = "place"
    /\ UNCHANGED <<store, queue, staged, promoted, outcome, faults, before>>

\* A plausible slip: the rollback would undo the first promotion first.
PlaceQueued ==
    /\ step = "place"
    /\ tree' = [tree EXCEPT ![InHand] = store[InHand]]
    /\ promoted' = Append(promoted, [artifact |-> InHand, backup |-> backup])
    /\ backup' = Absent
    /\ queue' = queue \ {InHand}
    /\ step' = IF queue' = {} THEN "done" ELSE "backup"
    /\ UNCHANGED <<store, staged, outcome, faults, before>>

\* staged_path.replace(destination); promoted.append(...)
Place ==
    /\ step = "place"
    /\ tree' = [tree EXCEPT ![InHand] = store[InHand]]
    /\ promoted' = <<[artifact |-> InHand, backup |-> backup]>> \o promoted
    /\ backup' = Absent
    /\ queue' = queue \ {InHand}
    /\ step' = IF queue' = {} THEN "done" ELSE "backup"
    /\ UNCHANGED <<store, staged, outcome, faults, before>>

\* A rename raises; the artifact in hand is not in `promoted' yet.
PromoteFails ==
    /\ step \in {"backup", "place"}
    /\ Fault
    /\ step' = "unlink"
    /\ UNCHANGED <<tree, store, queue, staged, promoted, backup, outcome, before>>

Last == Head(promoted)

\* The rollback, latest promotion first: destination.unlink() ...
Unlink ==
    /\ step = "unlink" /\ promoted # <<>>
    /\ tree' = [tree EXCEPT ![Last.artifact] = Absent]
    /\ step' = "restore"
    /\ UNCHANGED <<store, queue, staged, promoted, backup, outcome, faults, before>>

\* A plausible slip: what was promoted is unlinked, its backup forgotten.
Forget ==
    /\ step = "restore"
    /\ promoted' = Tail(promoted) /\ step' = "unlink"
    /\ UNCHANGED <<tree, store, queue, staged, backup, outcome, faults, before>>

\* ... then backup_path.replace(destination), when there is a backup.
Restore ==
    /\ step = "restore"
    /\ tree' = [tree EXCEPT ![Last.artifact] = Last.backup]
    /\ promoted' = Tail(promoted) /\ step' = "unlink"
    /\ UNCHANGED <<store, queue, staged, backup, outcome, faults, before>>

\* The rollback is through; the exception goes on to the caller.
Reraise ==
    /\ step = "unlink" /\ promoted = <<>>
    /\ Leave("raised")
    /\ UNCHANGED <<tree, store, faults, before>>

\* An unlink or a rename of the rollback raises in its turn: what is left of
\* `promoted' stays promoted, and the backups go with the directory.
RollBackFails ==
    /\ \/ step = "unlink" /\ promoted # <<>>
       \/ step = "restore" /\ Last.backup # Absent
    /\ Fault
    /\ Leave("aborted")
    /\ UNCHANGED <<tree, store, before>>

Return ==
    /\ step = "done"
    /\ Leave("returned")
    /\ UNCHANGED <<tree, store, faults, before>>

\* The process is killed; its temporary directory is never looked at again.
Kill ==
    /\ step # "idle"
    /\ Fault
    /\ Leave("killed")
    /\ UNCHANGED <<tree, store, before>>

\* Between two runs the publisher completes a missing or torn object.
Republish ==
    /\ step = "idle" /\ outcome # "returned"
    /\ \E a \in Artifacts :
          store[a] # Manifest[a] /\ store' = [store EXCEPT ![a] = Manifest[a]]
    /\ UNCHANGED <<tree, step, queue, staged, promoted, backup, outcome, faults,
                   before>>

Init ==
    /\ tree \in [Artifacts -> Contents \cup {Absent}]
    /\ store \in [Artifacts -> Contents \cup {Absent}]
    /\ step = "idle" /\ queue = {} /\ staged = {} /\ promoted = <<>>
    /\ backup = Absent /\ outcome = "none" /\ faults = 0 /\ before = tree

Run == \/ Start \/ Fetch \/ FetchFails \/ Promote \/ MoveAway \/ Place
       \/ Unlink \/ Restore \/ Reraise \/ Return

Next == Run \/ PromoteFails \/ RollBackFails \/ Kill \/ Republish

\* The operator runs it again until it returns.
Spec == Init /\ [][Next]_vars /\ WF_vars(Run)

-----------------------------------------------------------------------------
(* Properties                                                              *)

TypeOK ==
    /\ {tree, store, before} \subseteq [Artifacts -> Contents \cup {Absent}]
    /\ step \in {"idle", "fetch", "backup", "place", "unlink", "restore", "done"}
    /\ outcome \in {"none", "running", "raised", "aborted", "killed", "returned"}
    /\ queue \subseteq Artifacts /\ staged \subseteq Artifacts
    /\ promoted \in Seq([artifact : Artifacts, backup : Contents \cup {Absent}])
    /\ step \in {"backup", "place"} => queue # {}
    /\ backup \in Contents \cup {Absent}
    /\ step = "restore" => promoted # <<>>
    /\ backup # Absent => step \in {"place", "unlink", "restore"}
    /\ faults \in 0..MaxFaults

\* Bytes the store holds by mistake never reach the tree: at every instant a
\* file is the one the run found, the pinned one, or missing.
OldOrPinned ==
    \A a \in Artifacts : tree[a] \in {before[a], Manifest[a], Absent}

\* A file that matched the manifest is never touched, whatever happens to the
\* others ("a mid-run failure on a different artifact cannot corrupt them").
MatchingUntouched ==
    \A a \in Artifacts : before[a] = Manifest[a] => tree[a] = before[a]

\* What the run found and took away, and has not replaced.
Lost == {a \in Artifacts : before[a] # Absent /\ tree[a] = Absent}

\* At every instant, and so after any kill or any second failure, the tree is
\* the pinned one up to some artifact and the one found from there on, but for
\* two files at most: one in hand when a rename failed, and one the rollback had
\* just unlinked.
OneSeam ==
    /\ \E seam \in 0..N : \A a \in Artifacts :
          tree[a] \in IF a <= seam THEN {Manifest[a]} ELSE {before[a], Absent}
    /\ Cardinality(Lost) <= 2

\* A run that returns leaves what the manifest pins.  One that raises after its
\* rollback came through has undone every completed promotion, so that at most
\* the one file of the failed rename differs from what the run found.
WholeOrRestored ==
    /\ outcome = "returned" => tree = Manifest
    /\ outcome = "raised" =>
          Cardinality({a \in Artifacts : tree[a] # before[a]}) <= 1

\* "Every artifact in to_fetch promotes together or none of them do", because
\* existing files move to the temp tree "so a mid-run failure can roll back
\* without leaving a mixed old/new manifest directory" (materialization.py:61-62
\* and :98-100): a run that raises leaves every file as it found it.
AllOrNothing ==
    outcome \in {"raised", "aborted"} => tree = before

\* Once the store is whole, running again repairs whatever failed renames, failed
\* rollbacks and killed runs have left.
RerunsRepair ==
    (\A a \in Artifacts : store[a] = Manifest[a]) ~> (tree = Manifest)
=============================================================================

-------------------------- MODULE MaterializeProofs --------------------------
(***************************************************************************)
(* Proofs about the materialisation of a manifest, for any number of       *)
(* artifacts, any contents, any starting tree and store and any number of  *)
(* failed copies, failed renames, failed unlinks and kills.                *)
(***************************************************************************)
EXTENDS Materialize, TLAPS, WellFoundedInduction, FiniteSetTheorems

LEMMA MinIsLeast ==
  ASSUME NEW S \in SUBSET Nat, S # {}
  PROVE  Min(S) \in S /\ \A x \in S : Min(S) <= x
<1>1. IsWellFoundedOn(OpToRel(<, Nat), Nat)
  BY NatLessThanWellFounded
<1>2. PICK m \in S : \A x \in S : ~ (<<x, m>> \in OpToRel(<, Nat))
  BY <1>1, WFMin
<1>3. \A x \in S : ~ (x < m)
  BY <1>2 DEF OpToRel
<1>4. m \in S /\ \A x \in S : m <= x
  BY <1>3
<1> QED
  BY <1>4 DEF Min

(***************************************************************************)
(* The inductive invariant.  An artifact is in one of four places: already *)
(* right, waiting in the queue, in hand, or promoted with its backup on    *)
(* the stack.  The stack is in manifest order and below the queue, so what *)
(* is promoted, and what the rollback has undone, meet at one seam; only   *)
(* the one in hand and the one just unlinked can be missing from the tree. *)
(***************************************************************************)
Promoted == {promoted[i].artifact : i \in DOMAIN promoted}

StackIsSound ==
  /\ \A i, j \in DOMAIN promoted : i < j => promoted[j].artifact < promoted[i].artifact
  /\ \A i \in DOMAIN promoted :
        /\ \A a \in queue : promoted[i].artifact < a
        /\ promoted[i].backup = before[promoted[i].artifact]

StagedIsPinned ==
  /\ step = "idle" => staged = {} /\ promoted = <<>>
  /\ step # "idle" => \A a \in staged : store[a] = Manifest[a]
  /\ step \notin {"idle", "fetch"} => queue \subseteq staged

(* The artifact whose destination was moved away and not yet replaced, and *)
(* the one the rollback has unlinked and not yet restored.                 *)
Displaced(a) ==
  /\ step \in {"place", "unlink", "restore"} /\ queue # {} /\ a = InHand
  /\ tree[a] = Absent

Unlinked(a) == step = "restore" /\ a = Last.artifact

Undone(a) == step \in {"unlink", "restore"} /\ \A p \in Promoted : p < a

Placed(a) ==
  /\ a \in queue => before[a] # Manifest[a]
  /\ a \in Promoted => /\ tree[a] = IF Unlinked(a) THEN Absent ELSE Manifest[a]
                       /\ before[a] # Manifest[a]
  /\ a \notin Promoted => tree[a] = before[a] \/ Displaced(a)
  /\ a \notin Promoted \cup queue => before[a] = Manifest[a] \/ Undone(a)

RunIsPlaced ==
  step # "idle" =>
    /\ outcome = "running"
    /\ step = "fetch" => promoted = <<>>
    /\ step = "done" => queue = {}
    /\ step = "place" => backup = before[InHand]
    /\ \A a \in Artifacts : Placed(a)

(* At every moment: what the tree may hold, its seam and its holes.        *)
TreeIsSound == OldOrPinned /\ MatchingUntouched /\ OneSeam

EndIsSound ==
  /\ outcome = "returned" => tree = Manifest
  /\ outcome = "raised" =>
        \E hole \in Nat : \A a \in Artifacts \ {hole} : tree[a] = before[a]

MaterializeInv ==
  /\ TypeOK /\ StackIsSound /\ StagedIsPinned /\ RunIsPlaced
  /\ TreeIsSound /\ EndIsSound

(***************************************************************************)
(* The stack of promoted artifacts.                                        *)
(***************************************************************************)
Record == [artifact : Artifacts, backup : Contents \cup {Absent}]

LEMMA PushOnStack ==
  ASSUME NEW p \in Seq(Record), NEW r \in Record
  PROVE  LET q == <<r>> \o p
         IN  /\ q \in Seq(Record) /\ DOMAIN q = 1..(Len(p) + 1)
             /\ q[1] = r
             /\ \A i \in DOMAIN p : i + 1 \in DOMAIN q /\ q[i + 1] = p[i]
             /\ \A j \in DOMAIN q : j = 1 \/ (j - 1 \in DOMAIN p /\ q[j] = p[j - 1])
<1> DEFINE q == <<r>> \o p
<1>1. Len(p) \in Nat /\ DOMAIN p = 1..Len(p)
  OBVIOUS
<1>2. q \in Seq(Record) /\ DOMAIN q = 1..(Len(p) + 1) /\ q[1] = r
  OBVIOUS
<1>3. \A j \in 1..(Len(p) + 1) : j # 1 => q[j] = p[j - 1]
  OBVIOUS
<1>4. \A i \in DOMAIN p : i + 1 \in DOMAIN q /\ q[i + 1] = p[i]
  <2> TAKE i \in DOMAIN p
  <2>1. i \in Nat /\ i >= 1 /\ i <= Len(p)
    BY <1>1
  <2> HIDE DEF q
  <2> QED
    BY <1>1, <1>2, <1>3, <2>1
<1>5. \A j \in DOMAIN q : j = 1 \/ (j - 1 \in DOMAIN p /\ q[j] = p[j - 1])
  <2> TAKE j \in DOMAIN q
  <2>1. j \in 1..(Len(p) + 1)
    BY <1>2
  <2>2. j # 1 => j - 1 \in DOMAIN p
    BY <1>1, <2>1
  <2>3. j # 1 => q[j] = p[j - 1]
    BY <1>3, <2>1
  <2> QED
    BY <2>2, <2>3
<1> QED
  BY <1>2, <1>4, <1>5

LEMMA PopFromStack ==
  ASSUME NEW p \in Seq(Record), p # <<>>
  PROVE  /\ 1 \in DOMAIN p /\ Head(p) = p[1]
         /\ Tail(p) \in Seq(Record) /\ DOMAIN Tail(p) = 1..(Len(p) - 1)
         /\ \A i \in DOMAIN Tail(p) : i + 1 \in DOMAIN p /\ Tail(p)[i] = p[i + 1]
OBVIOUS

LEMMA HandIsQueued ==
  ASSUME TypeOK, queue # {}
  PROVE  InHand \in queue /\ InHand \in Artifacts
<1>1. queue \in SUBSET Nat
  BY MaterializeAssumption DEF TypeOK, Artifacts
<1> QED
  BY <1>1, MinIsLeast DEF InHand, TypeOK

(* The artifact promoted last is the highest on the stack.                 *)
LEMMA LastIsHighest ==
  ASSUME TypeOK, StackIsSound, promoted # <<>>
  PROVE  /\ 1 \in DOMAIN promoted /\ Last = promoted[1] /\ Last \in Record
         /\ Last.artifact \in Promoted /\ Last.artifact \in Artifacts
         /\ \A p \in Promoted : p \in Artifacts /\ (p = Last.artifact \/ p < Last.artifact)
         /\ \A a \in queue : Last.artifact < a
<1>1. promoted \in Seq(Record)
  BY DEF TypeOK, Record
<1>2. 1 \in DOMAIN promoted /\ Last = promoted[1] /\ Last \in Record
  BY <1>1, PopFromStack DEF Last
<1>3. ASSUME NEW i \in DOMAIN promoted
      PROVE  /\ promoted[i].artifact \in Artifacts
             /\ i = 1 \/ promoted[i].artifact < promoted[1].artifact
  <2>1. promoted[i] \in Record /\ i \in Nat /\ i >= 1
    BY <1>1
  <2> QED
    BY <1>2, <2>1 DEF StackIsSound, Record
<1> QED
  BY <1>2, <1>3 DEF Promoted, StackIsSound, Record

LEMMA AtMostTwo ==
  ASSUME NEW S, NEW one, NEW other, S \subseteq {one, other}
  PROVE  Cardinality(S) <= 2
<1>1. IsFiniteSet({one}) /\ Cardinality({one}) = 1
  BY FS_Singleton
<1>2. IsFiniteSet({one} \cup {other}) /\ Cardinality({one} \cup {other}) <= 2
  BY <1>1, FS_AddElement
<1>3. {one} \cup {other} = {one, other}
  OBVIOUS
<1>4. Cardinality(S) <= Cardinality({one, other})
  BY <1>2, <1>3, FS_Subset
<1>5. Cardinality(S) \in Nat /\ Cardinality({one, other}) \in Nat
  BY <1>2, <1>3, FS_Subset, FS_CardinalityType
<1> QED
  BY <1>2, <1>3, <1>4, <1>5

(* While a run is under way its tree is sound because of where every       *)
(* artifact is.                                                            *)
LEMMA PlacedIsSound == TypeOK /\ StackIsSound /\ RunIsPlaced /\ step # "idle" => TreeIsSound
<1> SUFFICES ASSUME TypeOK, StackIsSound, RunIsPlaced, step # "idle"
             PROVE  TreeIsSound
  OBVIOUS
<1>1. \A a \in Artifacts : Placed(a) /\ Manifest[a] # Absent
  BY MaterializeAssumption DEF RunIsPlaced
<1>2. \A a \in Artifacts : Displaced(a) => a \in queue
  BY HandIsQueued DEF Displaced
<1>3. OldOrPinned /\ MatchingUntouched
  <2> SUFFICES ASSUME NEW a \in Artifacts
               PROVE  /\ tree[a] \in {before[a], Manifest[a], Absent}
                      /\ before[a] = Manifest[a] => tree[a] = before[a]
    BY DEF OldOrPinned, MatchingUntouched
  <2> QED
    BY <1>1, <1>2 DEF Placed, Displaced
<1> DEFINE high == Last.artifact
           seam == IF promoted = <<>> THEN 0
                   ELSE IF step = "restore" THEN high - 1 ELSE high
<1>4. ASSUME NEW a \in Artifacts
      PROVE  tree[a] \in IF a <= seam THEN {Manifest[a]} ELSE {before[a], Absent}
  <2>0. a \in Nat /\ a >= 1
    BY MaterializeAssumption DEF Artifacts
  <2>1. CASE promoted = <<>>
    <3>1. Promoted = {} /\ seam = 0
      BY <2>1 DEF Promoted
    <3> QED
      BY <1>1, <2>0, <3>1 DEF Placed, Displaced
  <2>2. CASE promoted # <<>>
    <3>1. /\ high \in Promoted /\ high \in Nat
          /\ \A p \in Promoted : p \in Nat /\ (p = high \/ p < high)
          /\ \A q \in queue : q \in Nat /\ high < q
      BY <2>2, LastIsHighest, MaterializeAssumption DEF Artifacts, TypeOK
    <3>2. CASE a < high
      <4>1. a \notin queue /\ ~Undone(a) /\ ~Unlinked(a) /\ ~Displaced(a)
        BY <1>2, <2>0, <3>1, <3>2 DEF Undone, Unlinked
      <4>2. tree[a] = Manifest[a] /\ a <= seam
        BY <1>1, <2>0, <2>2, <3>1, <3>2, <4>1 DEF Placed
      <4> QED
        BY <4>2
    <3>3. CASE a = high
      <4>1. tree[a] = IF step = "restore" THEN Absent ELSE Manifest[a]
        BY <1>1, <3>1, <3>3 DEF Placed, Unlinked
      <4>2. a <= seam <=> step # "restore"
        BY <2>2, <3>1, <3>3
      <4> QED
        BY <4>1, <4>2
    <3>4. CASE high < a
      <4>1. a \notin Promoted /\ ~(a <= seam)
        BY <2>0, <2>2, <3>1, <3>4
      <4> QED
        BY <1>1, <4>1 DEF Placed, Displaced
    <3> QED
      BY <2>0, <3>1, <3>2, <3>3, <3>4
  <2> QED
    BY <2>1, <2>2
<1>5. seam \in 0..N
  <2>1. promoted # <<>> => high \in 1..N
    BY LastIsHighest DEF Artifacts
  <2> QED
    BY <2>1, MaterializeAssumption
<1>6. Lost \subseteq {InHand, high}
  BY <1>1 DEF Lost, Placed, Displaced, Unlinked
<1>7. OneSeam
  BY <1>4, <1>5, <1>6, AtMostTwo DEF OneSeam
<1> QED
  BY <1>3, <1>7 DEF TreeIsSound

LEMMA PlacedIsSoundNext == (TypeOK /\ StackIsSound /\ RunIsPlaced /\ step # "idle" => TreeIsSound)'
BY PlacedIsSound, PTL

(***************************************************************************)
(* One lemma per action.                                                   *)
(***************************************************************************)
LEMMA InitInv == Init => MaterializeInv
<1> SUFFICES ASSUME Init PROVE MaterializeInv
  OBVIOUS
<1>1. TypeOK
  BY MaterializeAssumption DEF Init, TypeOK
<1>2. TreeIsSound
  <2>1. Lost = {} /\ 0 \in 0..N /\ \A a \in Artifacts : ~(a <= 0)
    BY MaterializeAssumption DEF Init, Lost, Artifacts
  <2>2. Cardinality(Lost) <= 2
    BY <2>1, FS_EmptySet
  <2>3. OneSeam
    BY <2>1, <2>2 DEF Init, OneSeam
  <2> QED
    BY <2>3 DEF Init, TreeIsSound, OldOrPinned, MatchingUntouched
<1> QED
  BY <1>1, <1>2 DEF Init, MaterializeInv, StackIsSound, StagedIsPinned, RunIsPlaced,
     EndIsSound

LEMMA StartInv ==
  ASSUME MaterializeInv, Start
  PROVE  MaterializeInv'
<1> USE DEF MaterializeInv, Start
<1>1. TypeOK'
  BY DEF TypeOK, Wanted
<1>2. RunIsPlaced' /\ StackIsSound'
  BY DEF RunIsPlaced, Placed, Promoted, Wanted, TypeOK, StagedIsPinned, StackIsSound
<1>3. TreeIsSound'
  BY <1>1, <1>2, PlacedIsSoundNext
<1> QED
  BY <1>1, <1>2, <1>3 DEF StagedIsPinned, EndIsSound

(* A run is left without touching the tree.                                *)
LEMMA LeaveInv ==
  ASSUME MaterializeInv, NEW how \in {"raised", "aborted", "killed", "returned"}, Leave(how),
         faults' \in 0..MaxFaults, UNCHANGED <<tree, store, before>>,
         how = "returned" => tree = Manifest,
         how = "raised" =>
           \E hole \in Nat : \A a \in Artifacts \ {hole} : tree[a] = before[a]
  PROVE  MaterializeInv'
<1> USE DEF MaterializeInv, Leave
<1>1. TypeOK'
  BY DEF TypeOK
<1>2. TreeIsSound'
  BY DEF TreeIsSound, OldOrPinned, MatchingUntouched, OneSeam, Lost
<1> QED
  BY <1>1, <1>2 DEF StackIsSound, StagedIsPinned, RunIsPlaced, EndIsSound

LEMMA FetchInv ==
  ASSUME MaterializeInv, Fetch
  PROVE  MaterializeInv'
<1> USE DEF MaterializeInv, Fetch
<1>1. Download \in queue /\ store[Download] = Manifest[Download]
  <2>1. Unstaged \in SUBSET Nat
    BY MaterializeAssumption DEF TypeOK, Artifacts, Unstaged
  <2> QED
    BY <2>1, MinIsLeast DEF Download, Unstaged, Verified
<1>2. TypeOK' /\ StagedIsPinned'
  BY <1>1 DEF TypeOK, StagedIsPinned
<1>3. RunIsPlaced'
  BY DEF RunIsPlaced, Placed, Promoted, Displaced, Unlinked, Undone, InHand, Last
<1>4. TreeIsSound'
  BY DEF TreeIsSound, OldOrPinned, MatchingUntouched, OneSeam, Lost
<1> QED
  BY <1>2, <1>3, <1>4 DEF StackIsSound, EndIsSound

LEMMA FetchFailsInv ==
  ASSUME MaterializeInv, FetchFails
  PROVE  MaterializeInv'
<1> USE DEF MaterializeInv, FetchFails
<1>1. faults' \in 0..MaxFaults
  BY MaterializeAssumption DEF Fault, TypeOK
<1>2. \A a \in Artifacts : tree[a] = before[a]
  BY DEF RunIsPlaced, Placed, Promoted, Displaced
<1> QED
  BY <1>1, <1>2, LeaveInv

LEMMA PromoteInv ==
  ASSUME MaterializeInv, Promote
  PROVE  MaterializeInv'
<1> USE DEF MaterializeInv, Promote
<1>1. TypeOK'
  BY DEF TypeOK
<1>2. StagedIsPinned'
  BY DEF StagedIsPinned, Unstaged
<1>3. RunIsPlaced'
  BY DEF RunIsPlaced, Placed, Promoted, Displaced, Unlinked, Undone, InHand, Last
<1>4. TreeIsSound'
  BY DEF TreeIsSound, OldOrPinned, MatchingUntouched, OneSeam, Lost
<1> QED
  BY <1>1, <1>2, <1>3, <1>4 DEF StackIsSound, EndIsSound

LEMMA MoveAwayInv ==
  ASSUME MaterializeInv, MoveAway
  PROVE  MaterializeInv'
<1> USE DEF MaterializeInv, MoveAway
<1>1. queue # {} /\ InHand \in queue /\ InHand \in Artifacts /\ InHand' = InHand
  BY HandIsQueued DEF TypeOK, InHand
<1>2. TypeOK'
  BY <1>1 DEF TypeOK
<1>3. RunIsPlaced'
  <2>0. InHand \notin Promoted
    BY <1>1, MaterializeAssumption DEF StackIsSound, Promoted, TypeOK, Artifacts
  <2>1. tree[InHand] = before[InHand]
    BY <1>1, <2>0 DEF RunIsPlaced, Placed, Displaced
  <2>2. Promoted' = Promoted
    BY DEF Promoted
  <2>3. ASSUME NEW a \in Artifacts
        PROVE  Placed(a)'
    <3>1. Placed(a) /\ ~Displaced(a) /\ ~Undone(a) /\ ~Unlinked(a) /\ ~Unlinked(a)'
      BY DEF RunIsPlaced, Displaced, Undone, Unlinked
    <3>2. CASE a = InHand
      BY <1>1, <2>0, <2>2, <3>1, <3>2 DEF Placed, Displaced, TypeOK
    <3>3. CASE a # InHand
      BY <1>1, <2>2, <3>1, <3>3 DEF Placed, Displaced, TypeOK
    <3> QED
      BY <3>2, <3>3
  <2> QED
    BY <1>1, <2>1, <2>3 DEF RunIsPlaced
<1>4. StackIsSound'
  BY DEF StackIsSound
<1>5. TreeIsSound'
  BY <1>2, <1>3, <1>4, PlacedIsSoundNext
<1> QED
  BY <1>2, <1>3, <1>4, <1>5 DEF StagedIsPinned, EndIsSound, RunIsPlaced

LEMMA PlaceInv ==
  ASSUME MaterializeInv, Place
  PROVE  MaterializeInv'
<1> USE DEF MaterializeInv, Place
<1> DEFINE top == [artifact |-> InHand, backup |-> backup]
<1>1. queue # {} /\ InHand \in queue /\ InHand \in Artifacts
  BY HandIsQueued DEF TypeOK
<1>2. store[InHand] = Manifest[InHand] /\ Manifest[InHand] \in Contents
  BY <1>1, MaterializeAssumption DEF StagedIsPinned
<1>3. top \in Record /\ promoted \in Seq(Record)
  BY <1>1 DEF Record, TypeOK
<1>4. /\ promoted' \in Seq(Record) /\ DOMAIN promoted' = 1..(Len(promoted) + 1)
      /\ promoted'[1] = top
      /\ \A i \in DOMAIN promoted :
            i + 1 \in DOMAIN promoted' /\ promoted'[i + 1] = promoted[i]
      /\ \A j \in DOMAIN promoted' :
            j = 1 \/ (j - 1 \in DOMAIN promoted /\ promoted'[j] = promoted[j - 1])
  BY <1>3, PushOnStack
<1>5. Len(promoted) \in Nat /\ 1 \in DOMAIN promoted' /\ top.artifact = InHand
  BY <1>3, <1>4
<1>6. Promoted' = Promoted \cup {InHand}
  <2>1. InHand \in Promoted'
    BY <1>4, <1>5 DEF Promoted
  <2>2. Promoted \subseteq Promoted'
    <3>1. \A i \in DOMAIN promoted : promoted[i].artifact \in Promoted'
      <4> TAKE i \in DOMAIN promoted
      <4>1. i + 1 \in DOMAIN promoted'
            /\ promoted[i].artifact = promoted'[i + 1].artifact
        BY <1>4
      <4> QED
        BY <4>1 DEF Promoted
    <3> QED
      BY <3>1 DEF Promoted
  <2>3. Promoted' \subseteq Promoted \cup {InHand}
    BY <1>4 DEF Promoted
  <2> QED
    BY <2>1, <2>2, <2>3
<1>7. TypeOK'
  BY <1>1, <1>2, <1>4 DEF TypeOK, Record
<1>8. StackIsSound'
  <2>1. backup = before[InHand]
    BY DEF RunIsPlaced
  <2>2. /\ \A i \in DOMAIN promoted : promoted[i].artifact < InHand
        /\ \A a \in queue' : InHand < a
    <3>1. queue \in SUBSET Nat
      BY MaterializeAssumption DEF TypeOK, Artifacts
    <3>2. \A a \in queue : InHand <= a
      BY <1>1, <3>1, MinIsLeast DEF InHand
    <3>3. \A a \in queue' : InHand < a
      BY <1>1, <3>1, <3>2
    <3> QED
      BY <1>1, <3>3 DEF StackIsSound
  <2>3. ASSUME NEW i \in DOMAIN promoted'
        PROVE  /\ \A a \in queue' : promoted'[i].artifact < a
               /\ promoted'[i].backup = before[promoted'[i].artifact]
    <3>1. CASE i = 1
      BY <1>4, <1>5, <2>1, <2>2, <3>1
    <3>2. CASE i # 1
      BY <1>4, <2>3, <3>2 DEF StackIsSound
    <3> QED
      BY <3>1, <3>2
  <2>4. ASSUME NEW i \in DOMAIN promoted', NEW j \in DOMAIN promoted', i < j
        PROVE  promoted'[j].artifact < promoted'[i].artifact
    <3>1. j # 1 /\ j - 1 \in DOMAIN promoted /\ promoted'[j] = promoted[j - 1]
      BY <1>4, <1>5, <2>4
    <3>2. CASE i = 1
      BY <1>4, <1>5, <2>2, <3>1, <3>2
    <3>3. CASE i # 1
      <4>1. /\ i - 1 \in DOMAIN promoted /\ promoted'[i] = promoted[i - 1]
            /\ i - 1 < j - 1
        BY <1>4, <1>5, <2>4, <3>3
      <4> QED
        BY <3>1, <4>1 DEF StackIsSound
    <3> QED
      BY <3>2, <3>3
  <2> QED
    BY <2>3, <2>4 DEF StackIsSound
<1>9. RunIsPlaced'
  <2>1. ASSUME NEW a \in Artifacts
        PROVE  Placed(a)'
    <3>1. Placed(a) /\ ~Undone(a) /\ ~Unlinked(a) /\ ~Unlinked(a)'
      BY DEF RunIsPlaced, Undone, Unlinked
    <3>2. CASE a = InHand
      BY <1>1, <1>2, <1>6, <3>1, <3>2 DEF Placed, TypeOK
    <3>3. CASE a # InHand
      BY <1>1, <1>6, <3>1, <3>3 DEF Placed, Displaced, TypeOK
    <3> QED
      BY <3>2, <3>3
  <2> QED
    BY <2>1 DEF RunIsPlaced
<1>10. TreeIsSound'
  BY <1>7, <1>8, <1>9, PlacedIsSoundNext
<1> QED
  BY <1>7, <1>8, <1>9, <1>10 DEF StagedIsPinned, EndIsSound, RunIsPlaced

LEMMA PromoteFailsInv ==
  ASSUME MaterializeInv, PromoteFails
  PROVE  MaterializeInv'
<1> USE DEF MaterializeInv, PromoteFails
<1>1. TypeOK'
  BY MaterializeAssumption DEF TypeOK, Fault
<1>2. RunIsPlaced'
  BY DEF RunIsPlaced, Placed, Promoted, Displaced, Unlinked, Undone, InHand, Last
<1>3. TreeIsSound'
  BY DEF TreeIsSound, OldOrPinned, MatchingUntouched, OneSeam, Lost
<1> QED
  BY <1>1, <1>2, <1>3 DEF StackIsSound, StagedIsPinned, EndIsSound

(* The unlinked file was the highest promoted one, and no other.           *)
LEMMA UnlinkInv ==
  ASSUME MaterializeInv, Unlink
  PROVE  MaterializeInv'
<1> USE DEF MaterializeInv, Unlink
<1>1. /\ Last \in Record /\ Last.artifact \in Promoted /\ Last.artifact \in Artifacts
      /\ \A a \in queue : Last.artifact < a
  BY LastIsHighest
<1>2. Last' = Last /\ Promoted' = Promoted /\ InHand' = InHand
  BY DEF Last, Promoted, InHand
<1>3. TypeOK'
  BY <1>1 DEF TypeOK
<1>4. StackIsSound'
  BY DEF StackIsSound
<1>5. ASSUME NEW a \in Artifacts
      PROVE  Placed(a)'
  <2>1. Placed(a) /\ ~Unlinked(a) /\ (Undone(a)' <=> Undone(a))
    BY <1>2 DEF RunIsPlaced, Unlinked, Undone
  <2>2. CASE a = Last.artifact
    <3>1. tree'[a] = Absent /\ Unlinked(a)'
      BY <1>1, <1>2, <2>2 DEF TypeOK, Unlinked
    <3> QED
      BY <1>1, <1>2, <2>1, <2>2, <3>1 DEF Placed
  <2>3. CASE a # Last.artifact
    <3>1. tree'[a] = tree[a] /\ ~Unlinked(a)' /\ (Displaced(a) => Displaced(a)')
      BY <1>2, <2>3 DEF TypeOK, Unlinked, Displaced
    <3> QED
      BY <1>2, <2>1, <3>1 DEF Placed
  <2> QED
    BY <2>2, <2>3
<1>6. RunIsPlaced'
  BY <1>5 DEF RunIsPlaced
<1>7. TreeIsSound'
  BY <1>3, <1>4, <1>6, PlacedIsSoundNext
<1> QED
  BY <1>3, <1>4, <1>6, <1>7 DEF StagedIsPinned, EndIsSound, RunIsPlaced

(* What is restored leaves the stack; all that is left on it lies below.   *)
LEMMA RestoreInv ==
  ASSUME MaterializeInv, Restore
  PROVE  MaterializeInv'
<1> USE DEF MaterializeInv, Restore
<1> DEFINE top == Last.artifact
<1>1. promoted # <<>> /\ promoted \in Seq(Record)
  BY DEF TypeOK, Record
<1>2. /\ 1 \in DOMAIN promoted /\ Last = promoted[1] /\ Last \in Record
      /\ top \in Promoted /\ top \in Artifacts /\ top \in Nat
      /\ \A p \in Promoted : p \in Nat /\ (p = top \/ p < top)
      /\ \A a \in queue : a \in Nat /\ top < a
  BY <1>1, LastIsHighest, MaterializeAssumption DEF Artifacts, TypeOK
<1>3. /\ promoted' \in Seq(Record) /\ DOMAIN promoted' = 1..(Len(promoted) - 1)
      /\ \A i \in DOMAIN promoted' :
            i + 1 \in DOMAIN promoted /\ promoted'[i] = promoted[i + 1]
  BY <1>1, PopFromStack
<1>4. Promoted' = Promoted \ {top}
  <2>1. \A i \in DOMAIN promoted : i = 1 \/ i - 1 \in DOMAIN promoted'
    BY <1>1, <1>3
  <2>2. ASSUME NEW i \in DOMAIN promoted'
        PROVE  promoted'[i].artifact # top
    <3>1. i + 1 \in DOMAIN promoted /\ 1 < i + 1 /\ promoted'[i] = promoted[i + 1]
      BY <1>1, <1>3
    <3>2. promoted[i + 1].artifact < top
      BY <1>2, <3>1 DEF StackIsSound
    <3>3. promoted[i + 1].artifact \in Promoted
      BY <3>1 DEF Promoted
    <3> QED
      BY <1>2, <3>1, <3>2, <3>3
  <2>3. Promoted' \subseteq Promoted
    BY <1>3 DEF Promoted
  <2>4. ASSUME NEW p \in Promoted, p # top
        PROVE  p \in Promoted'
    <3>1. PICK i \in DOMAIN promoted : p = promoted[i].artifact
      BY DEF Promoted
    <3>2. i # 1 /\ i - 1 \in DOMAIN promoted' /\ i \in Nat
      BY <1>1, <1>2, <2>1, <2>4, <3>1
    <3>3. promoted'[i - 1] = promoted[i]
      BY <1>3, <3>2
    <3> QED
      BY <3>1, <3>2, <3>3 DEF Promoted
  <2>5. top \notin Promoted'
    BY <2>2 DEF Promoted
  <2> QED
    BY <2>3, <2>4, <2>5
<1>5. TypeOK'
  BY <1>2, <1>3 DEF TypeOK, Record
<1>6. StackIsSound'
  <2>1. ASSUME NEW i \in DOMAIN promoted', NEW j \in DOMAIN promoted', i < j
        PROVE  promoted'[j].artifact < promoted'[i].artifact
    <3>1. i + 1 \in DOMAIN promoted /\ j + 1 \in DOMAIN promoted /\ i + 1 < j + 1
      BY <1>1, <1>3, <2>1
    <3> QED
      BY <1>3, <3>1 DEF StackIsSound
  <2> QED
    BY <1>3, <2>1 DEF StackIsSound
<1>7. ASSUME NEW a \in Artifacts
      PROVE  Placed(a)'
  <2>1. Placed(a) /\ InHand' = InHand /\ ~Unlinked(a)' /\ a \in Nat
    BY MaterializeAssumption DEF RunIsPlaced, InHand, Unlinked, Artifacts
  <2>2. CASE a = top
    <3>1. tree'[a] = before[a]
      BY <1>2, <2>2 DEF TypeOK, StackIsSound
    <3>2. a \notin queue /\ Undone(a)'
      BY <1>2, <1>4, <2>2 DEF Undone
    <3> QED
      BY <1>2, <1>4, <2>1, <2>2, <3>1, <3>2 DEF Placed
  <2>3. CASE a # top
    <3>1. /\ tree'[a] = tree[a] /\ ~Unlinked(a) /\ (a \in Promoted' <=> a \in Promoted)
          /\ Displaced(a) => Displaced(a)'
      BY <1>2, <1>4, <2>1, <2>3 DEF TypeOK, Unlinked, Displaced
    <3>2. Undone(a) => Undone(a)'
      BY <1>4 DEF Undone
    <3> QED
      BY <2>1, <3>1, <3>2 DEF Placed
  <2> QED
    BY <2>2, <2>3
<1>8. RunIsPlaced'
  BY <1>7 DEF RunIsPlaced
<1>9. TreeIsSound'
  BY <1>5, <1>6, <1>8, PlacedIsSoundNext
<1> QED
  BY <1>5, <1>6, <1>8, <1>9 DEF StagedIsPinned, EndIsSound, RunIsPlaced

LEMMA ReraiseInv ==
  ASSUME MaterializeInv, Reraise
  PROVE  MaterializeInv'
<1> USE DEF MaterializeInv, Reraise
<1>1. PICK hole \in Nat : queue # {} => hole = InHand
  BY HandIsQueued, MaterializeAssumption DEF Artifacts
<1>2. \A a \in Artifacts \ {hole} : tree[a] = before[a]
  BY <1>1 DEF RunIsPlaced, Placed, Promoted, Displaced
<1>3. faults' \in 0..MaxFaults
  BY DEF TypeOK
<1> QED
  BY <1>2, <1>3, LeaveInv

LEMMA RollBackFailsInv ==
  ASSUME MaterializeInv, RollBackFails
  PROVE  MaterializeInv'
<1>1. faults' \in 0..MaxFaults
  BY MaterializeAssumption DEF MaterializeInv, RollBackFails, Fault, TypeOK
<1> QED
  BY <1>1, LeaveInv DEF RollBackFails

LEMMA ReturnInv ==
  ASSUME MaterializeInv, Return
  PROVE  MaterializeInv'
<1> USE DEF MaterializeInv, Return
<1>1. \A a \in Artifacts : tree[a] = Manifest[a]
  BY DEF RunIsPlaced, Placed, Displaced, Unlinked, Undone
<1>2. tree = Manifest
  BY <1>1, MaterializeAssumption DEF TypeOK
<1>3. faults' \in 0..MaxFaults
  BY DEF TypeOK
<1> QED
  BY <1>2, <1>3, LeaveInv

LEMMA KillInv ==
  ASSUME MaterializeInv, Kill
  PROVE  MaterializeInv'
<1>1. faults' \in 0..MaxFaults
  BY MaterializeAssumption DEF MaterializeInv, Kill, Fault, TypeOK
<1> QED
  BY <1>1, LeaveInv DEF Kill

LEMMA RepublishInv ==
  ASSUME MaterializeInv, Republish
  PROVE  MaterializeInv'
<1> USE DEF MaterializeInv, Republish
<1>1. TypeOK'
  <2>1. store' \in [Artifacts -> Contents \cup {Absent}]
    BY MaterializeAssumption DEF TypeOK
  <2> QED
    BY <2>1 DEF TypeOK
<1>2. TreeIsSound'
  BY DEF TreeIsSound, OldOrPinned, MatchingUntouched, OneSeam, Lost
<1> QED
  BY <1>1, <1>2 DEF StackIsSound, StagedIsPinned, RunIsPlaced, EndIsSound

LEMMA StutterInv ==
  ASSUME MaterializeInv, UNCHANGED vars
  PROVE  MaterializeInv'
BY DEF vars, MaterializeInv, TypeOK, StackIsSound, StagedIsPinned, RunIsPlaced, Placed,
   Promoted, Displaced, InHand, Unlinked, Undone, Last, TreeIsSound, OldOrPinned,
   MatchingUntouched, OneSeam, Lost, EndIsSound

LEMMA StepInv == MaterializeInv /\ [Next]_vars => MaterializeInv'
BY StartInv, FetchInv, FetchFailsInv, PromoteInv, MoveAwayInv, PlaceInv, UnlinkInv,
   RestoreInv, ReraiseInv, ReturnInv, PromoteFailsInv, RollBackFailsInv, KillInv,
   RepublishInv, StutterInv DEF Next, Run

LEMMA Invariance == Spec => []MaterializeInv
BY InitInv, StepInv, PTL DEF Spec

-----------------------------------------------------------------------------
(* The files, the queue and the stack keep their shape.                    *)
THEOREM TypeCorrect == Spec => []TypeOK
<1>1. MaterializeInv => TypeOK
  BY DEF MaterializeInv
<1> QED
  BY <1>1, Invariance, PTL

(* At every instant a file of the destination is the one the run found, the*)
(* pinned one, or missing: bytes that do not hash to the manifest are never*)
(* promoted (materialize_manifest; artifact_store, get_file).              *)
THEOREM OnlyPinnedBytesArrive == Spec => []OldOrPinned
<1>1. MaterializeInv => OldOrPinned
  BY DEF MaterializeInv, TreeIsSound
<1> QED
  BY <1>1, Invariance, PTL

(* A file that already matches is never touched (materialize_manifest).    *)
THEOREM MatchingStays == Spec => []MatchingUntouched
<1>1. MaterializeInv => MatchingUntouched
  BY DEF MaterializeInv, TreeIsSound
<1> QED
  BY <1>1, Invariance, PTL

(* Wherever a run stops, by itself, by a second failure in its rollback or *)
(* killed, the tree is the pinned one below a seam and the found one above,*)
(* with at most two holes (materialize_manifest, its promotion loop and    *)
(* its rollback).                                                          *)
THEOREM OneSeamAlways == Spec => []OneSeam
<1>1. MaterializeInv => OneSeam
  BY DEF MaterializeInv, TreeIsSound
<1> QED
  BY <1>1, Invariance, PTL

(* A run that returns has made the tree what the manifest pins; one whose  *)
(* rollback came through has put back every file but at most the one in    *)
(* hand (materialize_manifest).                                            *)
THEOREM EndsWholeOrRestored == Spec => []WholeOrRestored
<1>1. MaterializeInv => WholeOrRestored
  <2> SUFFICES ASSUME MaterializeInv, outcome = "raised"
               PROVE  Cardinality({a \in Artifacts : tree[a] # before[a]}) <= 1
    BY DEF MaterializeInv, EndIsSound, WholeOrRestored
  <2>1. PICK hole \in Nat : \A a \in Artifacts \ {hole} : tree[a] = before[a]
    BY DEF MaterializeInv, EndIsSound
  <2>2. {a \in Artifacts : tree[a] # before[a]} \subseteq {hole}
    BY <2>1
  <2>3. IsFiniteSet({hole}) /\ Cardinality({hole}) = 1
    BY FS_Singleton
  <2> QED
    BY <2>2, <2>3, FS_Subset
<1> QED
  BY <1>1, Invariance, PTL
=============================================================================

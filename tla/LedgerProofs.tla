----------------------------- MODULE LedgerProofs -----------------------------
(***************************************************************************)
(* Proofs about forward shadow mode: first the counter of clean sessions,  *)
(* for every ledger, then the ledger the three processes share, for any    *)
(* calendar, any configurations and any number of mishaps.                 *)
(***************************************************************************)
EXTENDS ShadowLedger, TLAPS, WellFoundedInduction, FiniteSetTheorems

(***************************************************************************)
(* Least and greatest elements.                                            *)
(***************************************************************************)
LEMMA MinIsLeast ==
  ASSUME NEW S \in SUBSET Nat, S # {}
  PROVE  Min(S) \in S /\ \A x \in S : Min(S) <= x
<1>1. IsWellFoundedOn(OpToRel(<, Nat), Nat)
  BY NatLessThanWellFounded
<1>2. PICK m \in S : \A x \in S : ~ (<<x, m>> \in OpToRel(<, Nat))
  BY <1>1, WFMin
<1>3. \A x \in S : ~ (x < m)
  BY <1>2 DEF OpToRel
<1>4. m \in S /\ \A x \in S : m <= x
  BY <1>3
<1> QED
  BY <1>4 DEF Min

LEMMA MaxIsGreatest ==
  ASSUME NEW n \in Nat, NEW S, S # {}, \A x \in S : x \in Nat /\ x <= n
  PROVE  Max(S) \in S /\ \A x \in S : x <= Max(S)
<1> DEFINE T == {n - x : x \in S}
<1>1. T \in SUBSET Nat /\ T # {}
  <2>1. \A x \in S : n - x \in Nat
    OBVIOUS
  <2> QED
    BY <2>1
<1>2. Min(T) \in T /\ \A y \in T : Min(T) <= y
  BY <1>1, MinIsLeast
<1>3. PICK m \in S : Min(T) = n - m
  BY <1>2
<1>4. \A x \in S : m >= x
  <2> TAKE x \in S
  <2>1. n - m <= n - x
    BY <1>2, <1>3
  <2> QED
    BY <2>1
<1> QED
  BY <1>4 DEF Max

-----------------------------------------------------------------------------
(***************************************************************************)
(* The walk of evaluate_shadow_qualification.                              *)
(***************************************************************************)
Statuses == {"missing", "in_progress", "success", "failure"}
LedgerType ==
  [status : [Sessions -> Statuses], mismatch : SUBSET Nat, breaking : SUBSET Nat]

Before(s) == {t \in Sessions : t < s}

LEMMA SessionsAreNat == \A s \in Sessions : s \in Nat
BY CalendarAssumption

LEMMA SessionsUpTo ==
  ASSUME NEW end \in Nat
  PROVE  /\ \A s \in Expected(end) : s \in Sessions /\ s \in Nat /\ s <= end
         /\ IsFiniteSet(Expected(end))
<1>1. Sessions \in SUBSET Nat /\ IsFiniteSet(Sessions)
  BY CalendarAssumption
<1>2. Expected(end) \in SUBSET Sessions
  BY DEF Expected
<1>3. IsFiniteSet(Expected(end))
  BY <1>1, <1>2, FS_Subset
<1> QED
  BY <1>1, <1>3 DEF Expected

(* The previous session.                                                   *)
LEMMA PreviousSession ==
  ASSUME NEW s \in Nat, Before(s) # {}
  PROVE  LET p == Max(Before(s))
         IN  /\ p \in Sessions /\ p \in Nat /\ p < s
             /\ Expected(p) = Before(s)
<1>1. \A t \in Before(s) : t \in Sessions /\ t \in Nat /\ t <= s
  BY CalendarAssumption DEF Before
<1>2. Max(Before(s)) \in Before(s) /\ \A t \in Before(s) : t <= Max(Before(s))
  BY <1>1, MaxIsGreatest
<1> QED
  BY <1>2, SessionsAreNat DEF Before, Expected

(* One turn of the loop, from what the rest of the walk comes to.          *)
Turn(ledger, end, s, rest) ==
  LET reason == Reason(ledger, s, Until(end, s))
  IN  IF reason # "clean" THEN [count |-> 0, reason |-> reason]
      ELSE IF Before(s) = {}
          THEN [count |-> 1, reason |-> "insufficient_consecutive_sessions"]
      ELSE [count |-> rest.count + 1, reason |-> rest.reason]

IsWalk(ledger, end, f, n) ==
  f = [s \in Expected(n) |-> Turn(ledger, end, s, f[Max(Before(s))])]

(* Walks of every length exist, by the least length that had none.         *)
LEMMA WalkExists ==
  ASSUME NEW ledger, NEW end, NEW n \in Nat
  PROVE  \E f : IsWalk(ledger, end, f, n)
<1> DEFINE Has(m) == \E f : IsWalk(ledger, end, f, m)
           Without == {m \in Nat : ~ Has(m)}
<1> SUFFICES ASSUME Without # {} PROVE FALSE
  OBVIOUS
<1> DEFINE m == Min(Without)
<1>1. m \in Without /\ \A x \in Without : m <= x
  BY MinIsLeast
<1> HIDE DEF m
<1>2. CASE m = 0
  <2> DEFINE f == [s \in Expected(0) |-> Turn(ledger, end, s, 0)]
             g == [s \in Expected(0) |-> Turn(ledger, end, s, f[Max(Before(s))])]
  <2>1. \A s \in Expected(0) : Before(s) = {}
    BY SessionsAreNat DEF Expected, Before
  <2>2. \A s \in Expected(0) : \A x, y : Turn(ledger, end, s, x) = Turn(ledger, end, s, y)
    BY <2>1 DEF Turn
  <2>3. f = g
    BY <2>2
  <2> QED
    BY <1>1, <1>2, <2>3 DEF IsWalk
<1>3. CASE m # 0
  <2>1. m - 1 \in Nat /\ m - 1 \notin Without
    BY <1>1, <1>3
  <2>2. PICK f : IsWalk(ledger, end, f, m - 1)
    BY <2>1
  <2> DEFINE g == [s \in Expected(m) |->
                     IF s = m THEN Turn(ledger, end, m, f[Max(Before(m))]) ELSE f[s]]
  <2>3. ASSUME NEW s \in Expected(m)
        PROVE  g[s] = Turn(ledger, end, s, g[Max(Before(s))])
    <3>1. s \in Nat /\ s \in Sessions /\ s <= m
      BY CalendarAssumption DEF Expected
    <3>2. g[s] = Turn(ledger, end, s, f[Max(Before(s))])
      <4>1. CASE s = m
        BY <4>1
      <4>2. CASE s # m
        <5>1. s \in Expected(m - 1)
          BY <1>1, <3>1, <4>2 DEF Expected
        <5> QED
          BY <2>2, <4>2, <5>1 DEF IsWalk
      <4> QED
        BY <4>1, <4>2
    <3>3. CASE Before(s) = {}
      BY <3>2, <3>3 DEF Turn
    <3>4. CASE Before(s) # {}
      <4>1. Max(Before(s)) \in Expected(m) /\ Max(Before(s)) # m
        BY <1>1, <3>1, <3>4, PreviousSession DEF Expected
      <4>2. g[Max(Before(s))] = f[Max(Before(s))]
        BY <4>1
      <4> QED
        BY <3>2, <4>2
    <3> QED
      BY <3>3, <3>4
  <2>4. IsWalk(ledger, end, g, m)
    BY <2>3 DEF IsWalk
  <2> QED
    BY <1>1, <2>4
<1> QED
  BY <1>2, <1>3

LEMMA WalkTurns ==
  ASSUME NEW ledger, NEW end \in Nat, NEW s \in Expected(end)
  PROVE  Walk(ledger, end)[s] =
            Turn(ledger, end, s, Walk(ledger, end)[Max(Before(s))])
<1> DEFINE Body(f) == [t \in Expected(end) |-> Turn(ledger, end, t, f[Max(Before(t))])]
<1>1. \A t \in Expected(end) : {u \in Expected(end) : u < t} = Before(t)
  BY SessionsAreNat DEF Expected, Before
<1>2. Walk(ledger, end) = CHOOSE f : f = Body(f)
  BY <1>1, ZenonT(60) DEF Walk, Turn
<1>3. \E f : f = Body(f)
  <2>1. PICK f : IsWalk(ledger, end, f, end)
    BY WalkExists
  <2>2. f = Body(f)
    BY <2>1 DEF IsWalk
  <2> QED
    BY <2>2
<1>4. Walk(ledger, end) = Body(Walk(ledger, end))
  BY <1>2, <1>3
<1> QED
  BY <1>4

(***************************************************************************)
(* What the walk counts: the last k sessions up to s.                      *)
(***************************************************************************)
Later(s, t) == {u \in Expected(s) : u > t}
LastSessions(s, k) == {t \in Expected(s) : Cardinality(Later(s, t)) < k}
Clean(ledger, end, t) == Reason(ledger, t, Until(end, t)) = "clean"

LEMMA LaterIsFinite ==
  ASSUME NEW s \in Nat, NEW t
  PROVE  IsFiniteSet(Later(s, t)) /\ Cardinality(Later(s, t)) \in Nat
<1>1. Later(s, t) \in SUBSET Expected(s) /\ IsFiniteSet(Expected(s))
  BY SessionsUpTo DEF Later
<1>2. IsFiniteSet(Later(s, t))
  BY <1>1, FS_Subset
<1> QED
  BY <1>2, FS_CardinalityType

LEMMA TailOfFirst ==
  ASSUME NEW s \in Sessions, NEW k \in Nat \ {0}, Before(s) = {}
  PROVE  LastSessions(s, k) = {s}
<1>1. Expected(s) = {s} /\ s \in Nat
  BY SessionsAreNat DEF Before, Expected
<1>2. Later(s, s) = {}
  BY <1>1 DEF Later
<1>3. Cardinality(Later(s, s)) < k
  BY <1>2, FS_EmptySet
<1> QED
  BY <1>1, <1>3 DEF LastSessions

LEMMA TailGrows ==
  ASSUME NEW s \in Sessions, NEW k \in Nat \ {0}, Before(s) # {}
  PROVE  LET p == Max(Before(s))
         IN  LastSessions(s, k) = {s} \cup LastSessions(p, k - 1) /\ s \notin LastSessions(p, k - 1)
<1> DEFINE p == Max(Before(s))
<1>1. s \in Nat /\ p \in Nat /\ p < s /\ Expected(p) = Before(s)
  BY SessionsAreNat, PreviousSession
<1> HIDE DEF p
<1>2. Expected(s) = Expected(p) \cup {s} /\ s \notin Expected(p)
  <2>1. \A t \in Sessions : t <= s <=> t < s \/ t = s
    BY <1>1, SessionsAreNat
  <2>2. s \notin Before(s)
    BY <1>1 DEF Before
  <2>3. \A t : t \in Expected(s) <=> t \in Before(s) \/ t = s
    BY <2>1 DEF Expected, Before
  <2>4. Expected(s) = Before(s) \cup {s}
    BY <2>3
  <2> QED
    BY <1>1, <2>2, <2>4
<1>3. Later(s, s) = {}
  BY <1>1, SessionsUpTo DEF Later
<1>4. Cardinality(Later(s, s)) < k
  BY <1>3, FS_EmptySet
<1>5. ASSUME NEW t \in Expected(p)
      PROVE  Cardinality(Later(s, t)) = Cardinality(Later(p, t)) + 1
  <2>1. Later(s, t) = Later(p, t) \cup {s} /\ s \notin Later(p, t)
    BY <1>1, <1>2, SessionsUpTo DEF Later
  <2> QED
    BY <1>1, <2>1, LaterIsFinite, FS_AddElement
<1>6. \A t \in Expected(p) :
         Cardinality(Later(s, t)) < k <=> Cardinality(Later(p, t)) < k - 1
  BY <1>1, <1>5, LaterIsFinite
<1> QED
  BY <1>2, <1>4, <1>6 DEF LastSessions, p

LEMMA TailIsFinite ==
  ASSUME NEW s \in Nat, NEW k
  PROVE  IsFiniteSet(LastSessions(s, k)) /\ Cardinality(LastSessions(s, k)) \in Nat
<1>1. LastSessions(s, k) \in SUBSET Expected(s) /\ IsFiniteSet(Expected(s))
  BY SessionsUpTo DEF LastSessions
<1>2. IsFiniteSet(LastSessions(s, k))
  BY <1>1, FS_Subset
<1> QED
  BY <1>2, FS_CardinalityType

(* The count at s is at least k exactly when there are k sessions up to s  *)
(* and the last k of them are clean.                                       *)
Counts(ledger, end, s) ==
  LET count == Walk(ledger, end)[s].count
  IN  /\ count \in Nat
      /\ \A k \in Nat \ {0} :
            count >= k <=> /\ Cardinality(LastSessions(s, k)) = k
                           /\ \A t \in LastSessions(s, k) : Clean(ledger, end, t)

LEMMA WalkCounts ==
  ASSUME NEW ledger, NEW end \in Nat, NEW s \in Expected(end)
  PROVE  Counts(ledger, end, s)
<1> DEFINE Wrong == {t \in Expected(end) : ~ Counts(ledger, end, t)}
<1> SUFFICES ASSUME Wrong # {} PROVE FALSE
  OBVIOUS
<1> DEFINE m == Min(Wrong)
<1>1. m \in Wrong /\ \A x \in Wrong : m <= x
  <2>1. Wrong \in SUBSET Nat
    BY SessionsUpTo
  <2> QED
    BY <2>1, MinIsLeast
<1> HIDE DEF m
<1>2. m \in Expected(end) /\ m \in Sessions /\ m \in Nat
  BY <1>1, SessionsUpTo
<1> DEFINE p == Max(Before(m))
           walk == Walk(ledger, end)
<1>3. walk[m] = Turn(ledger, end, m, walk[p])
  BY <1>2, WalkTurns
<1>4. \A k \in Nat \ {0} : m \in LastSessions(m, k)
  BY <1>2, TailOfFirst, TailGrows
<1>5. CASE ~ Clean(ledger, end, m)
  <2>1. walk[m].count = 0
    BY <1>3, <1>5 DEF Turn, Clean
  <2>2. Counts(ledger, end, m)
    BY <1>4, <1>5, <2>1 DEF Counts
  <2> QED
    BY <1>1, <2>2
<1>6. CASE Clean(ledger, end, m) /\ Before(m) = {}
  <2>1. walk[m].count = 1
    BY <1>3, <1>6 DEF Turn, Clean
  <2>2. \A k \in Nat \ {0} : LastSessions(m, k) = {m} /\ Cardinality(LastSessions(m, k)) = 1
    BY <1>2, <1>6, TailOfFirst, FS_Singleton
  <2>3. Counts(ledger, end, m)
    BY <1>6, <2>1, <2>2 DEF Counts
  <2> QED
    BY <1>1, <2>3
<1>7. CASE Clean(ledger, end, m) /\ Before(m) # {}
  <2>1. walk[m].count = walk[p].count + 1
    BY <1>3, <1>7 DEF Turn, Clean
  <2>2. p \in Expected(end) /\ p \in Nat /\ p < m
    BY <1>2, <1>7, PreviousSession, SessionsUpTo DEF Expected
  <2>3. Counts(ledger, end, p)
    BY <1>1, <1>2, <2>2
  <2> HIDE DEF p
  <2>4. ASSUME NEW k \in Nat \ {0}
        PROVE  /\ LastSessions(m, k) = {m} \cup LastSessions(p, k - 1)
               /\ Cardinality(LastSessions(m, k)) = Cardinality(LastSessions(p, k - 1)) + 1
               /\ Cardinality(LastSessions(p, k - 1)) \in Nat
    <3>1. LastSessions(m, k) = {m} \cup LastSessions(p, k - 1) /\ m \notin LastSessions(p, k - 1)
      BY <1>2, <1>7, TailGrows DEF p
    <3>2. IsFiniteSet(LastSessions(p, k - 1)) /\ Cardinality(LastSessions(p, k - 1)) \in Nat
      BY <2>2, TailIsFinite
    <3>3. LastSessions(m, k) = LastSessions(p, k - 1) \cup {m}
      BY <3>1
    <3>4. Cardinality(LastSessions(m, k)) = Cardinality(LastSessions(p, k - 1)) + 1
      BY <3>1, <3>2, <3>3, FS_AddElement
    <3> QED
      BY <3>1, <3>2, <3>4
  <2>5. ASSUME NEW k \in Nat \ {0}
        PROVE  walk[m].count >= k <=> /\ Cardinality(LastSessions(m, k)) = k
                                      /\ \A t \in LastSessions(m, k) : Clean(ledger, end, t)
    <3>1. CASE k = 1
      <4>1. \A t : ~ (t \in LastSessions(p, 0))
        BY <2>2, LaterIsFinite DEF LastSessions
      <4>2. LastSessions(p, k - 1) = {}
        BY <3>1, <4>1
      <4>3. Cardinality(LastSessions(m, k)) = 1
        <5>1. Cardinality(LastSessions(p, k - 1)) = 0
          BY <4>2, FS_EmptySet
        <5> QED
          BY <2>4, <5>1
      <4> QED
        BY <1>7, <2>1, <2>3, <2>4, <3>1, <4>2, <4>3 DEF Counts
    <3>2. CASE k # 1
      <4>1. k - 1 \in Nat \ {0}
        BY <3>2
      <4>2. walk[p].count >= k - 1 <=>
               /\ Cardinality(LastSessions(p, k - 1)) = k - 1
               /\ \A t \in LastSessions(p, k - 1) : Clean(ledger, end, t)
        BY <2>3, <4>1 DEF Counts
      <4>3. walk[p].count \in Nat
        BY <2>3 DEF Counts
      <4> QED
        BY <1>7, <2>1, <2>4, <4>2, <4>3
    <3> QED
      BY <3>1, <3>2
  <2>6. Counts(ledger, end, m)
    BY <2>1, <2>3, <2>5 DEF Counts
  <2> QED
    BY <1>1, <2>6
<1> QED
  BY <1>5, <1>6, <1>7

(***************************************************************************)
(* The incident windows of the sessions of a window cover it without a gap.*)
(***************************************************************************)
LEMMA UntilIsBounded ==
  ASSUME NEW end \in Nat, NEW t \in Expected(end)
  PROVE  Until(end, t) \in Int /\ Until(end, t) <= end
<1>1. Later(end, t) \in SUBSET Nat /\ \A u \in Later(end, t) : u <= end
  BY SessionsUpTo DEF Later
<1>2. Later(end, t) # {} => Min(Later(end, t)) \in Later(end, t)
  BY <1>1, MinIsLeast
<1> QED
  BY <1>1, <1>2 DEF Until, Later

LEMMA UntilCovers ==
  ASSUME NEW end \in Nat, NEW t \in Expected(end), NEW i \in Nat, t <= i, i <= end
  PROVE  \E u \in Expected(end) : t <= u /\ u <= i /\ i <= Until(end, u)
<1> DEFINE upTo == {x \in Expected(end) : x <= i}
           u == Max(upTo)
<1>1. u \in upTo /\ \A x \in upTo : x <= u
  <2>1. upTo # {} /\ \A x \in upTo : x \in Nat /\ x <= end
    BY SessionsUpTo
  <2> QED
    BY <2>1, MaxIsGreatest
<1> HIDE DEF u
<1>2. t <= u /\ u <= i /\ u \in Expected(end)
  BY <1>1
<1>3. \A x \in Later(end, u) : x \in Nat /\ x > i
  BY <1>1, SessionsUpTo DEF Later
<1>4. Later(end, u) # {} => Min(Later(end, u)) \in Later(end, u)
  <2>1. Later(end, u) \in SUBSET Nat
    BY <1>3
  <2> QED
    BY <2>1, MinIsLeast
<1>5. i <= Until(end, u)
  BY <1>3, <1>4 DEF Until, Later
<1> QED
  BY <1>2, <1>5

LEMMA WindowReachesEnd ==
  ASSUME NEW end \in Nat, NEW t \in Window(end), NEW u \in Expected(end), t <= u
  PROVE  u \in Window(end)
<1>1. Required \in Nat
  BY CalendarAssumption
<1>2. Later(end, u) \in SUBSET Later(end, t)
  BY SessionsUpTo DEF Later, Window
<1>3. Cardinality(Later(end, u)) <= Cardinality(Later(end, t))
  BY <1>2, LaterIsFinite, FS_Subset
<1>4. Cardinality(Later(end, t)) < Required
  BY DEF Window, Later
<1>5. Cardinality(Later(end, u)) < Required
  BY <1>1, <1>3, <1>4, LaterIsFinite
<1> QED
  BY <1>5 DEF Window, Later

LEMMA WindowIsLast ==
  ASSUME NEW end \in Nat, Expected(end) # {}
  PROVE  LET last == Max(Expected(end))
         IN  last \in Expected(end) /\ LastSessions(last, Required) = Window(end)
<1> DEFINE last == Max(Expected(end))
<1>1. last \in Expected(end) /\ \A t \in Expected(end) : t <= last
  BY SessionsUpTo, MaxIsGreatest
<1> HIDE DEF last
<1>2. Expected(last) = Expected(end)
  <2>1. last \in Nat /\ last <= end
    BY <1>1, SessionsUpTo
  <2>2. \A t \in Sessions : t <= last <=> t <= end
    BY <1>1, <2>1, SessionsAreNat DEF Expected
  <2> QED
    BY <2>2 DEF Expected
<1> QED
  BY <1>1, <1>2 DEF last, LastSessions, Later, Window

(* Walking back from the last session finds an unbroken clean window       *)
(* exactly when there is one, for every ledger and every day asked for.    *)
LEMMA WalkFindsWindow ==
  ASSUME NEW ledger \in LedgerType, NEW end \in Nat
  PROVE  Qualifies(ledger, end) <=> CleanWindow(ledger, end)
<1>1. Required \in Nat \ {0}
  BY CalendarAssumption
<1>2. CASE Expected(end) = {}
  <2>1. Window(end) = {}
    BY <1>2 DEF Window
  <2> QED
    BY <1>1, <1>2, <2>1, FS_EmptySet DEF Qualifies, Evaluate, CleanWindow
<1>3. CASE Expected(end) # {}
  <2> DEFINE last == Max(Expected(end))
             W == Window(end)
  <2>1. last \in Expected(end) /\ LastSessions(last, Required) = W
    BY <1>3, WindowIsLast
  <2>2. Counts(ledger, end, last)
    BY <2>1, WalkCounts
  <2>3. Qualifies(ledger, end) <=>
           Cardinality(W) = Required /\ \A t \in W : Clean(ledger, end, t)
    BY <1>1, <1>3, <2>1, <2>2 DEF Counts, Qualifies, Evaluate
  <2> HIDE DEF last
  <2>4. ASSUME Cardinality(W) = Required
        PROVE  (\A t \in W : Clean(ledger, end, t)) <=> CleanWindow(ledger, end)
    <3>1. W \in SUBSET Nat /\ \A t \in W : t \in Expected(end) /\ t \in Sessions
      BY SessionsUpTo DEF Window
    <3>2. W # {}
      BY <1>1, <2>4, FS_EmptySet
    <3>3. Min(W) \in W /\ \A t \in W : Min(W) <= t
      BY <3>1, <3>2, MinIsLeast
    <3>4. \A t \in W : Clean(ledger, end, t) <=>
             /\ \A i \in ledger.breaking : ~ (t <= i /\ i <= Until(end, t))
             /\ t \notin ledger.mismatch /\ ledger.status[t] = "success"
      BY DEF Clean, Reason
    <3>5. ASSUME NEW i \in ledger.breaking, NEW t \in W, t <= i, i <= Until(end, t)
          PROVE  Min(W) <= i /\ i <= end
      BY <3>1, <3>3, <3>5, UntilIsBounded DEF LedgerType
    <3>6. ASSUME NEW i \in ledger.breaking, Min(W) <= i, i <= end
          PROVE  \E t \in W : t <= i /\ i <= Until(end, t)
      <4>1. i \in Nat
        BY DEF LedgerType
      <4>2. PICK u \in Expected(end) : Min(W) <= u /\ u <= i /\ i <= Until(end, u)
        BY <3>1, <3>3, <3>6, <4>1, UntilCovers
      <4>3. u \in W
        BY <3>3, <4>2, WindowReachesEnd
      <4> QED
        BY <4>2, <4>3
    <3> QED
      BY <2>4, <3>4, <3>5, <3>6 DEF CleanWindow
  <2> QED
    BY <2>3, <2>4 DEF CleanWindow
<1> QED
  BY <1>2, <1>3

-----------------------------------------------------------------------------
(***************************************************************************)
(* The inductive invariant of the ledger.  Two rows of one version with    *)
(* different contents have a breaking incident between the earlier of them *)
(* and today; the run under way is already covered before its row exists,  *)
(* because the incident is committed first.                                *)
(***************************************************************************)
Broken(d, e) ==
  \E i \in incidents : i.breaks = TRUE /\ (d <= i.day \/ e <= i.day) /\ i.day <= today

ChangesAreBroken ==
  \A p, r \in RowIds :
     /\ VersionOf[runs[p].config] = VersionOf[runs[r].config]
     /\ runs[p].config # runs[r].config
     => Broken(runs[p].date, runs[r].date)

RunIsCovered ==
  runner.step \in {"archive", "insert"} =>
     \A p \in RowIds :
        /\ VersionOf[runs[p].config] = VersionOf[runner.config]
        /\ runs[p].config # runner.config
        => Broken(runs[p].date, runner.date)

RunnerHasRow ==
  runner.step \in {"classify", "publish"} =>
     \E r \in RowIds : /\ runs[r].date = runner.date
                       /\ VersionOf[runs[r].config] = VersionOf[runner.config]
                       /\ runs[r].status = "in_progress"

RunnerInTime == runner # Idle => runner.date <= today

MissingBreaks ==
  \A i \in incidents :
     i.cause = "missing" => i.breaks = TRUE /\ \E s \in Sessions : s < i.day

LedgerInv ==
  /\ TypeOK /\ RowsAreUnique /\ RunnerHasRow /\ RunnerInTime
  /\ ChangesAreBroken /\ RunIsCovered /\ MissingBreaks

(***************************************************************************)
(* The tables.                                                             *)
(***************************************************************************)
LEMMA CalendarIsNat ==
  /\ FirstDay \in Nat /\ LastDay \in Nat /\ FirstDay <= LastDay /\ MaxMishaps \in Nat
  /\ \A s \in Sessions : s \in 1..LastDay
  /\ today \in FirstDay..LastDay => today \in Nat /\ today \in 1..LastDay
BY LedgerAssumption, SessionsAreNat

LEMMA RunnerBusy ==
  ASSUME TypeOK, runner # Idle
  PROVE  /\ runner \in RunnerType /\ runner.date \in Sessions /\ runner.config \in Configs
         /\ runner.feed \in Feeds
BY DEF TypeOK, RunnerType

LEMMA RunnerSteps ==
  ASSUME TypeOK, runner # Idle, NEW step \in {"archive", "insert", "classify", "publish"}
  PROVE  LET next == [runner EXCEPT !.step = step]
         IN  /\ next \in RunnerType /\ next # Idle /\ next.step = step
             /\ next.date = runner.date /\ next.config = runner.config
             /\ next.feed = runner.feed
BY RunnerBusy DEF RunnerType, Idle

LEMMA RowIsTyped ==
  ASSUME TypeOK, NEW r \in RowIds
  PROVE  /\ runs[r] \in RowType /\ runs[r].date \in Sessions /\ runs[r].config \in Configs
         /\ runs[r].date \in Nat
<1>1. runs[r] \in RowType
  BY DEF TypeOK, RowIds
<1> QED
  BY <1>1, SessionsAreNat DEF RowType

LEMMA AppendedRow ==
  ASSUME TypeOK, NEW row \in RowType, runs' = Append(runs, row)
  PROVE  /\ runs' \in Seq(RowType) /\ RowIds' = RowIds \cup {Len(runs) + 1}
         /\ Len(runs) + 1 \notin RowIds
         /\ \A r \in RowIds : runs'[r] = runs[r]
         /\ runs'[Len(runs) + 1] = row
<1>1. Len(runs) \in Nat
  BY DEF TypeOK
<1>2. /\ runs' \in Seq(RowType) /\ Len(runs') = Len(runs) + 1
      /\ \A r \in 1..Len(runs) : runs'[r] = runs[r]
      /\ runs'[Len(runs) + 1] = row
  BY DEF TypeOK
<1> QED
  BY <1>1, <1>2 DEF RowIds

LEMMA UpdatedRow ==
  ASSUME TypeOK, NEW u \in RowIds, NEW row \in RowType, runs' = [runs EXCEPT ![u] = row]
  PROVE  /\ runs' \in Seq(RowType) /\ RowIds' = RowIds
         /\ \A r \in RowIds \ {u} : runs'[r] = runs[r]
         /\ runs'[u] = row
BY DEF TypeOK, RowIds

(* The row the runner works on is the one of its date and version.         *)
LEMMA RunnerRowIsThere ==
  ASSUME TypeOK, RowsAreUnique, RunnerHasRow, runner.step \in {"classify", "publish"}
  PROVE  /\ RunnerRow \in RowIds /\ runs[RunnerRow].date = runner.date
         /\ VersionOf[runs[RunnerRow].config] = VersionOf[runner.config]
         /\ runs[RunnerRow].status = "in_progress"
<1> DEFINE rows == RowsAt(runner.date) \cap RowsOf(VersionOf[runner.config])
<1>1. PICK r \in RowIds : /\ runs[r].date = runner.date
                         /\ VersionOf[runs[r].config] = VersionOf[runner.config]
                         /\ runs[r].status = "in_progress"
  BY DEF RunnerHasRow
<1>2. Len(runs) \in Nat /\ \A q \in rows : q \in Nat /\ q <= Len(runs)
  BY DEF TypeOK, RowsAt, RowIds
<1>3. r \in rows
  BY <1>1 DEF RowsAt, RowsOf
<1>4. Max(rows) \in rows
  BY <1>2, <1>3, MaxIsGreatest
<1>5. Max(rows) = r
  BY <1>1, <1>4 DEF RowsAreUnique, RowsAt, RowsOf
<1> QED
  BY <1>1, <1>5 DEF RunnerRow

(***************************************************************************)
(* One lemma per action.  Most leave the rows and the incidents alone.     *)
(***************************************************************************)
(* A step that keeps the rows, and neither takes an incident back nor turns*)
(* back the day, keeps the coverage of the rows.                           *)
LEMMA RowsKept ==
  ASSUME LedgerInv, TypeOK', runs' = runs, incidents \subseteq incidents', today <= today'
  PROVE  RowsAreUnique' /\ ChangesAreBroken'
<1>1. RowsAreUnique'
  BY DEF LedgerInv, RowsAreUnique, RowIds
<1>2. ASSUME NEW p \in RowIds, NEW r \in RowIds,
             VersionOf[runs[p].config] = VersionOf[runs[r].config],
             runs[p].config # runs[r].config
      PROVE  \E i \in incidents' : /\ i.breaks = TRUE /\ i.day <= today'
                                   /\ (runs[p].date <= i.day \/ runs[r].date <= i.day)
  <2>1. Broken(runs[p].date, runs[r].date)
    BY <1>2 DEF LedgerInv, ChangesAreBroken
  <2>2. PICK i \in incidents : /\ i.breaks = TRUE /\ i.day <= today
                              /\ (runs[p].date <= i.day \/ runs[r].date <= i.day)
    BY <2>1 DEF Broken
  <2>3. i.day \in Nat /\ today \in Nat /\ today' \in Nat
    BY CalendarIsNat DEF LedgerInv, TypeOK
  <2> QED
    BY <2>2, <2>3
<1>3. ChangesAreBroken'
  BY <1>2 DEF ChangesAreBroken, Broken, RowIds
<1> QED
  BY <1>1, <1>3

(* The same for the run under way.                                         *)
LEMMA CoverKept ==
  ASSUME LedgerInv, TypeOK', runs' = runs, incidents \subseteq incidents', today <= today',
         runner' = runner \/ (runner' # Idle /\ runner.step \in {"archive", "insert"}
                              /\ runner'.date = runner.date
                              /\ runner'.config = runner.config)
  PROVE  RunIsCovered'
<1> SUFFICES ASSUME runner.step \in {"archive", "insert"}, NEW p \in RowIds,
                    VersionOf[runs[p].config] = VersionOf[runner.config],
                    runs[p].config # runner.config
             PROVE  \E i \in incidents' : /\ i.breaks = TRUE /\ i.day <= today'
                                /\ (runs[p].date <= i.day \/ runner.date <= i.day)
  BY DEF RunIsCovered, Broken, RowIds
<1>1. Broken(runs[p].date, runner.date)
  BY DEF LedgerInv, RunIsCovered
<1>2. PICK i \in incidents : /\ i.breaks = TRUE /\ i.day <= today
                            /\ (runs[p].date <= i.day \/ runner.date <= i.day)
  BY <1>1 DEF Broken
<1>3. i.day \in Nat /\ today \in Nat /\ today' \in Nat
  BY CalendarIsNat DEF LedgerInv, TypeOK
<1> QED
  BY <1>2, <1>3

LEMMA InitInv == Init => LedgerInv
<1> SUFFICES ASSUME Init PROVE LedgerInv
  OBVIOUS
<1>1. None \in ArchiveType /\ NoOutput \in OutputType
  BY DEF None, NoOutput, ArchiveType, OutputType
<1>2. TypeOK
  <2>1. today \in FirstDay..LastDay /\ mishaps \in 0..MaxMishaps
    <3>1. today = FirstDay /\ mishaps = 0
      BY DEF Init
    <3> QED
      BY <3>1, CalendarIsNat
  <2>2. runs \in Seq(RowType) /\ mismatches \subseteq RowIds
    BY DEF Init
  <2>3. archives \in [Sessions -> ArchiveType] /\ outputs \in [Sessions -> OutputType]
    BY <1>1 DEF Init
  <2> QED
    BY <2>1, <2>2, <2>3 DEF Init, TypeOK
<1> QED
  BY <1>2 DEF Init, LedgerInv, RowsAreUnique, RunnerHasRow, RunnerInTime, ChangesAreBroken,
     RunIsCovered, MissingBreaks, RowIds, Idle

(* latest_config_sha256: the content of a row no row of the version is     *)
(* later than.                                                             *)
LEMMA LatestRow ==
  ASSUME TypeOK, NEW version, RowsOf(version) # {}
  PROVE  \E l \in RowsOf(version) :
            /\ runs[l].config = LatestConfig(version)
            /\ \A p \in RowsOf(version) : runs[p].date <= runs[l].date
<1> DEFINE dates == {runs[r].date : r \in RowsOf(version)}
           rows == RowsOf(version) \cap RowsAt(Max(dates))
<1>1. \A d \in dates : d \in Nat /\ d <= LastDay
  BY RowIsTyped, CalendarIsNat DEF RowsOf
<1>2. Max(dates) \in dates /\ \A d \in dates : d <= Max(dates)
  BY <1>1, CalendarIsNat, MaxIsGreatest
<1>3. Len(runs) \in Nat /\ \A q \in rows : q \in Nat /\ q <= Len(runs)
  BY DEF TypeOK, RowsAt, RowIds
<1>4. rows # {}
  BY <1>2 DEF RowsOf, RowsAt
<1>5. Max(rows) \in rows
  BY <1>3, <1>4, MaxIsGreatest
<1> QED
  BY <1>2, <1>5 DEF LatestConfig, RowsAt

LEMMA StartRunInv ==
  ASSUME LedgerInv, NEW date \in Sessions, NEW config \in Configs, NEW feed \in Feeds,
         StartRun(date, config, feed)
  PROVE  LedgerInv'
<1> USE DEF StartRun
<1>1. /\ runner' \in RunnerType /\ runner'.date = date /\ runner'.config = config
      /\ runner'.step = "archive"
  BY DEF RunnerType
<1>2. date \in Nat /\ date <= today /\ today \in Nat
  BY CalendarIsNat, SessionsAreNat DEF LedgerInv, TypeOK
<1>3. TypeOK'
  <2>1. mishaps' \in 0..MaxMishaps
    BY CalendarIsNat DEF LedgerInv, TypeOK, Mishap
  <2>2. Incident(date, "config", TRUE) \in [day : 1..LastDay, cause : Causes, breaks : BOOLEAN]
    BY CalendarIsNat DEF Incident, Causes
  <2>3. incidents' \subseteq [day : 1..LastDay, cause : Causes, breaks : BOOLEAN]
    BY <2>2 DEF LedgerInv, TypeOK
  <2> QED
    BY <1>1, <2>1, <2>3 DEF LedgerInv, TypeOK, RowIds
<1>4. RowsAreUnique' /\ ChangesAreBroken'
  <2>1. incidents \subseteq incidents' /\ runs' = runs
    OBVIOUS
  <2>2. today <= today'
    BY <1>2
  <2> QED
    BY <1>3, <2>1, <2>2, RowsKept
<1>5. RunIsCovered'
  <2> SUFFICES ASSUME NEW p \in RowIds, VersionOf[runs[p].config] = VersionOf[config],
                      runs[p].config # config
               PROVE  \E i \in incidents' : /\ i.breaks = TRUE /\ i.day <= today
                                /\ (runs[p].date <= i.day \/ date <= i.day)
    BY <1>1 DEF RunIsCovered, Broken, RowIds
  <2> DEFINE version == VersionOf[config]
  <2>1. p \in RowsOf(version)
    BY DEF RowsOf
  <2>2. PICK l \in RowsOf(version) :
           /\ runs[l].config = LatestConfig(version)
           /\ \A q \in RowsOf(version) : runs[q].date <= runs[l].date
    BY <2>1, LatestRow DEF LedgerInv
  <2>3. CASE LatestConfig(version) # config
    <3>1. Incident(date, "config", TRUE) \in incidents'
      BY <2>1, <2>3 DEF ConfigChanged
    <3> QED
      BY <1>2, <3>1 DEF Incident
  <2>4. CASE LatestConfig(version) = config
    <3>1. Broken(runs[p].date, runs[l].date) /\ runs[p].date <= runs[l].date
      BY <2>1, <2>2, <2>4 DEF LedgerInv, ChangesAreBroken, RowsOf
    <3>2. PICK i \in incidents : /\ i.breaks = TRUE /\ i.day <= today
                                /\ (runs[p].date <= i.day \/ runs[l].date <= i.day)
      BY <3>1 DEF Broken
    <3>3. i.day \in Nat /\ runs[p].date \in Nat /\ runs[l].date \in Nat
      BY RowIsTyped DEF LedgerInv, TypeOK, RowsOf
    <3>4. runs[p].date <= i.day
      BY <3>1, <3>2, <3>3
    <3>5. i \in incidents'
      BY <3>2
    <3> QED
      BY <3>2, <3>4, <3>5
  <2> QED
    BY <2>3, <2>4
<1>6. MissingBreaks'
  BY DEF LedgerInv, MissingBreaks, Incident
<1> QED
  BY <1>1, <1>2, <1>3, <1>4, <1>5, <1>6 DEF LedgerInv, RunnerHasRow, RunnerInTime

LEMMA ArchiveInputsInv ==
  ASSUME LedgerInv, ArchiveInputs
  PROVE  LedgerInv'
<1> USE DEF ArchiveInputs, ledgerVars
<1>1. runner # Idle
  BY DEF Idle
<1>2. /\ runner' \in RunnerType /\ runner' # Idle /\ runner'.step = "insert"
      /\ runner'.date = runner.date /\ runner'.config = runner.config
  BY <1>1, RunnerSteps DEF LedgerInv
<1>3. TypeOK'
  <2>1. runner.date \in Sessions /\ runner.feed \in Feeds
    BY <1>1, RunnerBusy DEF LedgerInv
  <2>2. WithFeed(archives[runner.date], runner.feed) \in ArchiveType
    BY <2>1 DEF LedgerInv, TypeOK, ArchiveType, WithFeed
  <2>3. archives' \in [Sessions -> ArchiveType]
    BY <2>1, <2>2 DEF LedgerInv, TypeOK
  <2> QED
    BY <1>2, <2>3 DEF LedgerInv, TypeOK, RowIds
<1>4. today <= today'
  BY CalendarIsNat DEF LedgerInv, TypeOK
<1>5. RowsAreUnique' /\ ChangesAreBroken' /\ RunIsCovered'
  BY <1>2, <1>3, <1>4, RowsKept, CoverKept
<1> QED
  BY <1>1, <1>2, <1>3, <1>5 DEF LedgerInv, RunnerHasRow, RunnerInTime, MissingBreaks

LEMMA InsertRunRowInv ==
  ASSUME LedgerInv, InsertRunRow
  PROVE  LedgerInv'
<1> USE DEF InsertRunRow, fileVars
<1>1. runner # Idle /\ runner \in RunnerType /\ Idle.step = "idle"
  BY RunnerBusy DEF LedgerInv, Idle
<1>2. today <= today'
  BY CalendarIsNat DEF LedgerInv, TypeOK
<1>3. CASE Recorded(runner.date, runner.config)
  <2>1. TypeOK'
    BY <1>3 DEF LedgerInv, TypeOK, RowIds
  <2>2. RowsAreUnique' /\ ChangesAreBroken'
    BY <1>2, <1>3, <2>1, RowsKept
  <2> QED
    BY <1>1, <1>3, <2>1, <2>2 DEF LedgerInv, RunnerHasRow, RunnerInTime, RunIsCovered,
       MissingBreaks
<1>4. CASE ~ Recorded(runner.date, runner.config)
  <2> DEFINE n == Len(runs) + 1
  <2>1. /\ runner' \in RunnerType /\ runner' # Idle /\ runner'.step = "classify"
        /\ runner'.date = runner.date /\ runner'.config = runner.config
    BY <1>1, <1>4, RunnerSteps DEF LedgerInv
  <2>2. /\ NewRow \in RowType /\ NewRow.date = runner.date /\ NewRow.config = runner.config
        /\ NewRow.status = "in_progress"
    BY <1>1, RunnerBusy DEF LedgerInv, NewRow, RowType, NoOutput, OutputType
  <2>3. /\ runs' \in Seq(RowType) /\ RowIds' = RowIds \cup {n} /\ n \notin RowIds
        /\ \A r \in RowIds : runs'[r] = runs[r]
        /\ runs'[n] = NewRow
    BY <1>4, <2>2, AppendedRow DEF LedgerInv
  <2> HIDE DEF n
  <2>4. TypeOK'
    BY <1>4, <2>1, <2>3 DEF LedgerInv, TypeOK
  <2>5. \A r \in RowIds : runs[r].date = runner.date =>
           VersionOf[runs[r].config] # VersionOf[runner.config]
    BY <1>4 DEF Recorded, RowsAt, RowsOf
  <2>6. RowsAreUnique'
    BY <2>2, <2>3, <2>5 DEF LedgerInv, RowsAreUnique
  <2>7. ChangesAreBroken'
    <3> SUFFICES ASSUME NEW p \in RowIds \cup {n}, NEW r \in RowIds \cup {n},
                        VersionOf[runs'[p].config] = VersionOf[runs'[r].config],
                        runs'[p].config # runs'[r].config
                 PROVE  \E i \in incidents : /\ i.breaks = TRUE /\ i.day <= today
                                /\ (runs'[p].date <= i.day \/ runs'[r].date <= i.day)
      BY <1>4, <2>3 DEF ChangesAreBroken, Broken
    <3>1. CASE p \in RowIds /\ r \in RowIds
      BY <2>3, <3>1 DEF LedgerInv, ChangesAreBroken, Broken
    <3>2. CASE p = n /\ r \in RowIds
      BY <2>2, <2>3, <3>2 DEF LedgerInv, RunIsCovered, Broken
    <3>3. CASE p \in RowIds /\ r = n
      BY <2>2, <2>3, <3>3 DEF LedgerInv, RunIsCovered, Broken
    <3> QED
      BY <2>2, <3>1, <3>2, <3>3
  <2>8. RunnerHasRow'
    BY <2>1, <2>2, <2>3 DEF RunnerHasRow
  <2> QED
    BY <1>1, <1>4, <2>1, <2>4, <2>6, <2>7, <2>8 DEF LedgerInv, RunnerInTime, RunIsCovered,
       MissingBreaks
<1> QED
  BY <1>3, <1>4

LEMMA ClassifyAndWriteInv ==
  ASSUME LedgerInv, ClassifyAndWrite
  PROVE  LedgerInv'
<1> USE DEF ClassifyAndWrite, ledgerVars
<1>1. runner # Idle
  BY DEF Idle
<1>2. /\ runner' \in RunnerType /\ runner' # Idle /\ runner'.step = "publish"
      /\ runner'.date = runner.date /\ runner'.config = runner.config
  BY <1>1, RunnerSteps DEF LedgerInv
<1>3. TypeOK'
  <2>1. runner.date \in Sessions /\ runner.feed \in Feeds /\ runner.config \in Configs
    BY <1>1, RunnerBusy DEF LedgerInv
  <2>2. Classify(archives[runner.date], runner.feed.membership, runner.config) \in OutputType
    BY <2>1 DEF LedgerInv, TypeOK, ArchiveType, Classify, OutputType
  <2>3. outputs' \in [Sessions -> OutputType]
    BY <2>1, <2>2 DEF LedgerInv, TypeOK
  <2> QED
    BY <1>2, <2>3 DEF LedgerInv, TypeOK, RowIds
<1>4. today <= today'
  BY CalendarIsNat DEF LedgerInv, TypeOK
<1>5. RowsAreUnique' /\ ChangesAreBroken'
  BY <1>3, <1>4, RowsKept
<1> QED
  BY <1>1, <1>2, <1>3, <1>5 DEF LedgerInv, RunnerHasRow, RunnerInTime, RunIsCovered,
     MissingBreaks, RowIds

(* The end of a run closes its row and nothing else.                       *)
LEMMA RowClosed ==
  ASSUME LedgerInv, NEW u \in RowIds, NEW row \in RowType,
         row.date = runs[u].date, row.config = runs[u].config,
         runs' = [runs EXCEPT ![u] = row], runner' = Idle, mishaps' \in 0..MaxMishaps,
         UNCHANGED <<today, mismatches, incidents, fileVars, replayer, checked>>
  PROVE  LedgerInv'
<1>1. /\ runs' \in Seq(RowType) /\ RowIds' = RowIds
      /\ \A r \in RowIds \ {u} : runs'[r] = runs[r]
      /\ runs'[u] = row
  BY UpdatedRow DEF LedgerInv
<1>2. \A r \in RowIds : runs'[r].date = runs[r].date /\ runs'[r].config = runs[r].config
  BY <1>1
<1>3. TypeOK'
  BY <1>1 DEF LedgerInv, TypeOK, fileVars
<1>4. RowsAreUnique'
  BY <1>1, <1>2 DEF LedgerInv, RowsAreUnique
<1>5. ChangesAreBroken'
  BY <1>1, <1>2 DEF LedgerInv, ChangesAreBroken, Broken
<1> QED
  BY <1>3, <1>4, <1>5 DEF LedgerInv, RunnerHasRow, RunnerInTime, RunIsCovered,
     MissingBreaks, Idle

LEMMA SuccessRow ==
  ASSUME LedgerInv, UpdateSuccess
  PROVE  \E row \in RowType :
            /\ runs' = [runs EXCEPT ![RunnerRow] = row]
            /\ row.date = runs[RunnerRow].date /\ row.config = runs[RunnerRow].config
            /\ row.status = "success" /\ row.sha = outputs[runner.date]
<1> DEFINE row == [runs[RunnerRow] EXCEPT !.status = "success", !.sha = outputs[runner.date]]
<1>1. runner # Idle /\ RunnerRow \in RowIds /\ runs[RunnerRow] \in RowType
  BY RunnerRowIsThere, RowIsTyped DEF LedgerInv, UpdateSuccess, Idle
<1>2. outputs[runner.date] \in OutputType
  BY <1>1, RunnerBusy DEF LedgerInv, TypeOK
<1>3. /\ row \in RowType /\ row.status = "success" /\ row.sha = outputs[runner.date]
      /\ row.date = runs[RunnerRow].date /\ row.config = runs[RunnerRow].config
  BY <1>1, <1>2 DEF RowType
<1>4. runs' = [runs EXCEPT ![RunnerRow] = row]
  BY <1>1 DEF UpdateSuccess
<1> QED
  BY <1>3, <1>4

LEMMA FailureRow ==
  ASSUME LedgerInv, UpdateFailure
  PROVE  \E row \in RowType :
            /\ runs' = [runs EXCEPT ![RunnerRow] = row]
            /\ row.date = runs[RunnerRow].date /\ row.config = runs[RunnerRow].config
            /\ row.status = "failure"
<1> DEFINE row == [runs[RunnerRow] EXCEPT !.status = "failure"]
<1>1. RunnerRow \in RowIds /\ runs[RunnerRow] \in RowType
  BY RunnerRowIsThere, RowIsTyped DEF LedgerInv, UpdateFailure
<1>2. /\ row \in RowType /\ row.status = "failure"
      /\ row.date = runs[RunnerRow].date /\ row.config = runs[RunnerRow].config
  BY <1>1 DEF RowType
<1>3. runs' = [runs EXCEPT ![RunnerRow] = row]
  BY <1>1 DEF UpdateFailure
<1> QED
  BY <1>2, <1>3

LEMMA UpdateSuccessInv ==
  ASSUME LedgerInv, UpdateSuccess
  PROVE  LedgerInv'
<1>1. RunnerRow \in RowIds
  BY RunnerRowIsThere DEF LedgerInv, UpdateSuccess
<1>2. mishaps' \in 0..MaxMishaps
  BY DEF LedgerInv, TypeOK, UpdateSuccess
<1> QED
  BY <1>1, <1>2, SuccessRow, RowClosed DEF UpdateSuccess

LEMMA UpdateFailureInv ==
  ASSUME LedgerInv, UpdateFailure
  PROVE  LedgerInv'
<1>1. RunnerRow \in RowIds
  BY RunnerRowIsThere DEF LedgerInv, UpdateFailure
<1>2. mishaps' \in 0..MaxMishaps
  BY CalendarIsNat DEF LedgerInv, TypeOK, UpdateFailure, Mishap
<1> QED
  BY <1>1, <1>2, FailureRow, RowClosed DEF UpdateFailure

LEMMA RunnerCrashInv ==
  ASSUME LedgerInv, RunnerCrash
  PROVE  LedgerInv'
<1> USE DEF RunnerCrash, ledgerVars, fileVars
<1>1. today <= today' /\ mishaps' \in 0..MaxMishaps
  BY CalendarIsNat DEF LedgerInv, TypeOK, Mishap
<1>2. TypeOK'
  BY <1>1 DEF LedgerInv, TypeOK, RowIds
<1>3. RowsAreUnique' /\ ChangesAreBroken'
  BY <1>1, <1>2, RowsKept
<1> QED
  BY <1>2, <1>3 DEF LedgerInv, RunnerHasRow, RunnerInTime, RunIsCovered, MissingBreaks, Idle

(* Steps of the other processes and of the calendar: the rows and the      *)
(* runner stay, incidents are only added.                                  *)
LEMMA OthersInv ==
  ASSUME LedgerInv, TypeOK', UNCHANGED <<runs, runner>>,
         today <= today', incidents \subseteq incidents',
         \A i \in incidents' \ incidents :
            i.cause = "missing" => i.breaks = TRUE /\ \E s \in Sessions : s < i.day
  PROVE  LedgerInv'
<1>1. RowsAreUnique' /\ ChangesAreBroken' /\ RunIsCovered'
  BY RowsKept, CoverKept
<1>2. RunnerHasRow'
  BY DEF LedgerInv, RunnerHasRow, RowIds
<1>3. RunnerInTime'
  <2>1. runner # Idle => runner.date \in Nat
    BY RunnerBusy, SessionsAreNat DEF LedgerInv
  <2>2. today \in Nat /\ today' \in Nat
    BY CalendarIsNat DEF LedgerInv, TypeOK
  <2> QED
    BY <2>1, <2>2 DEF LedgerInv, RunnerInTime
<1>4. MissingBreaks'
  BY DEF LedgerInv, MissingBreaks
<1> QED
  BY <1>1, <1>2, <1>3, <1>4 DEF LedgerInv

LEMMA ReplayMismatchInv ==
  ASSUME LedgerInv, NEW date \in Sessions, NEW config \in Configs, NEW labels \in BOOLEAN,
         ReplayMismatch(date, config, labels)
  PROVE  LedgerInv'
<1> USE DEF ReplayMismatch, fileVars
<1>1. FetchRunRow(date) \in RowIds
  <2>1. Len(runs) \in Nat /\ \A q \in RowsAt(date) : q \in Nat /\ q <= Len(runs)
    BY DEF LedgerInv, TypeOK, RowsAt, RowIds
  <2> QED
    BY <2>1, MaxIsGreatest DEF FetchRunRow, RowsAt
<1>2. today <= today' /\ mishaps' \in 0..MaxMishaps
  BY CalendarIsNat DEF LedgerInv, TypeOK, Mishap
<1>3. replayer' \in [step : {"report"}, date : Sessions, labels : BOOLEAN]
  OBVIOUS
<1>4. TypeOK'
  BY <1>1, <1>2, <1>3 DEF LedgerInv, TypeOK, RowIds
<1> QED
  BY <1>2, <1>4, OthersInv

LEMMA ReportMismatchInv ==
  ASSUME LedgerInv, ReportMismatch
  PROVE  LedgerInv'
<1> USE DEF ReportMismatch, fileVars
<1>1. replayer.date \in Sessions /\ replayer.labels \in BOOLEAN
  BY DEF LedgerInv, TypeOK, Idle
<1>2. Incident(replayer.date, "replay", replayer.labels)
         \in [day : 1..LastDay, cause : Causes, breaks : BOOLEAN]
  BY <1>1, CalendarIsNat DEF Incident, Causes
<1>3. today <= today'
  BY CalendarIsNat DEF LedgerInv, TypeOK
<1>4. TypeOK'
  BY <1>2 DEF LedgerInv, TypeOK, RowIds
<1>5. \A i \in incidents' \ incidents : i.cause = "replay"
  BY DEF Incident
<1> QED
  BY <1>3, <1>4, <1>5, OthersInv

LEMMA ReplayerCrashInv ==
  ASSUME LedgerInv, ReplayerCrash
  PROVE  LedgerInv'
<1> USE DEF ReplayerCrash, ledgerVars, fileVars
<1>1. today <= today'
  BY CalendarIsNat DEF LedgerInv, TypeOK
<1>2. TypeOK'
  BY DEF LedgerInv, TypeOK, RowIds
<1> QED
  BY <1>1, <1>2, OthersInv

LEMMA DeadmanCheckInv ==
  ASSUME LedgerInv, DeadmanCheck
  PROVE  LedgerInv'
<1>1. /\ PreviousSessions # {}
      /\ \/ incidents' = incidents
         \/ \E cause \in Causes : incidents' = incidents \cup {Incident(today, cause, TRUE)}
      /\ checked' = TRUE
      /\ UNCHANGED <<today, runs, mismatches, fileVars, runner, replayer, mishaps>>
  BY DEF DeadmanCheck, MorningCheck, Causes
<1>2. \A cause \in Causes :
         Incident(today, cause, TRUE) \in [day : 1..LastDay, cause : Causes, breaks : BOOLEAN]
  BY CalendarIsNat DEF LedgerInv, TypeOK, Incident
<1>3. incidents' \subseteq [day : 1..LastDay, cause : Causes, breaks : BOOLEAN]
  BY <1>1, <1>2 DEF LedgerInv, TypeOK
<1>4. TypeOK'
  BY <1>1, <1>3 DEF LedgerInv, TypeOK, RowIds, fileVars
<1>5. \A i \in incidents' \ incidents : i.breaks = TRUE /\ \E s \in Sessions : s < i.day
  BY <1>1 DEF Incident, PreviousSessions
<1>6. today <= today'
  BY <1>1, CalendarIsNat DEF LedgerInv, TypeOK
<1> QED
  BY <1>1, <1>4, <1>5, <1>6, OthersInv

LEMMA NextDayInv ==
  ASSUME LedgerInv, NextDay
  PROVE  LedgerInv'
<1> USE DEF NextDay, ledgerVars, fileVars
<1>1. today <= today' /\ today' \in FirstDay..LastDay
  BY CalendarIsNat DEF LedgerInv, TypeOK
<1>2. TypeOK'
  BY <1>1 DEF LedgerInv, TypeOK, RowIds
<1> QED
  BY <1>1, <1>2, OthersInv

LEMMA StutterInv ==
  ASSUME LedgerInv, UNCHANGED vars
  PROVE  LedgerInv'
<1> USE DEF vars, ledgerVars, fileVars
<1>1. today <= today'
  BY CalendarIsNat DEF LedgerInv, TypeOK
<1>2. TypeOK'
  BY DEF LedgerInv, TypeOK, RowIds
<1> QED
  BY <1>1, <1>2, OthersInv

LEMMA StepInv == LedgerInv /\ [Next]_vars => LedgerInv'
BY StartRunInv, ArchiveInputsInv, InsertRunRowInv, ClassifyAndWriteInv, UpdateSuccessInv,
   UpdateFailureInv, RunnerCrashInv, ReplayMismatchInv, ReportMismatchInv,
   ReplayerCrashInv, DeadmanCheckInv, NextDayInv, StutterInv DEF Next, Runner, Replayer

LEMMA Invariance == Spec => []LedgerInv
BY InitInv, StepInv, PTL DEF Spec

-----------------------------------------------------------------------------
(***************************************************************************)
(* What the evaluation reads of the tables.                                *)
(***************************************************************************)
LEMMA LedgerIsTyped ==
  ASSUME TypeOK, NEW version
  PROVE  Ledger(version) \in LedgerType
<1>1. ASSUME NEW s \in Sessions, RowsOf(version) \cap RowsAt(s) # {}
      PROVE  runs[Max(RowsOf(version) \cap RowsAt(s))].status \in Statuses
  <2> DEFINE rows == RowsOf(version) \cap RowsAt(s)
  <2>1. Len(runs) \in Nat /\ \A q \in rows : q \in Nat /\ q <= Len(runs)
    BY DEF TypeOK, RowsAt, RowIds
  <2>2. Max(rows) \in rows
    BY <1>1, <2>1, MaxIsGreatest
  <2>3. Max(rows) \in RowIds
    BY <2>2 DEF RowsOf
  <2> QED
    BY <2>3, RowIsTyped DEF RowType, Statuses
<1>2. [s \in Sessions |->
         LET rows == RowsOf(version) \cap RowsAt(s)
         IN  IF rows = {} THEN "missing" ELSE runs[Max(rows)].status]
      \in [Sessions -> Statuses]
  BY <1>1 DEF Statuses
<1>3. {runs[r].date : r \in mismatches \cap RowsOf(version)} \in SUBSET Nat
  BY RowIsTyped DEF RowsOf
<1>4. {i.day : i \in {j \in incidents : j.breaks}} \in SUBSET Nat
  BY DEF TypeOK
<1> QED
  BY <1>2, <1>3, <1>4 DEF Ledger, LedgerType

LEMMA DaysAreNat ==
  ASSUME TypeOK, NEW end \in FirstDay..today
  PROVE  end \in Nat /\ today \in Nat
BY CalendarIsNat DEF TypeOK

(* A window that qualifies has no breaking incident from its first session *)
(* on.                                                                     *)
LEMMA QualifiedWindow ==
  ASSUME TypeOK, NEW version, NEW end \in Nat, Qualifies(Ledger(version), end)
  PROVE  /\ Window(end) # {} /\ \A s \in Window(end) : Min(Window(end)) <= s
         /\ \A i \in incidents, s \in Window(end) :
               i.breaks = TRUE /\ i.day <= end => ~ (s <= i.day)
<1> DEFINE W == Window(end)
<1>1. CleanWindow(Ledger(version), end)
  BY LedgerIsTyped, WalkFindsWindow
<1>2. W # {}
  BY <1>1, CalendarAssumption, FS_EmptySet DEF CleanWindow
<1>3. W \in SUBSET Nat
  BY SessionsUpTo DEF Window
<1>4. Min(W) \in W /\ \A s \in W : Min(W) <= s
  BY <1>2, <1>3, MinIsLeast
<1>5. ASSUME NEW i \in incidents, i.breaks = TRUE, i.day <= end, NEW s \in W, s <= i.day
      PROVE  FALSE
  <2>1. i.day \in Ledger(version).breaking
    BY <1>5 DEF Ledger
  <2>2. ~ (Min(W) <= i.day /\ i.day <= end)
    BY <1>1, <2>1 DEF CleanWindow
  <2>3. i.day \in Nat /\ s \in Nat /\ Min(W) \in Nat
    BY <1>3, <1>4 DEF TypeOK
  <2> QED
    BY <1>4, <1>5, <2>2, <2>3
<1> QED
  BY <1>2, <1>4, <1>5

(* The tables, the files and the three processes keep their shape.         *)
THEOREM TypeCorrect == Spec => []TypeOK
<1>1. LedgerInv => TypeOK
  BY DEF LedgerInv
<1> QED
  BY <1>1, Invariance, PTL

(* No two rows of the runs table are of one date and version.              *)
THEOREM OneRowPerRun == Spec => []RowsAreUnique
<1>1. LedgerInv => RowsAreUnique
  BY DEF LedgerInv
<1> QED
  BY <1>1, Invariance, PTL

(* The backward walk of evaluate_shadow_qualification qualifies a day      *)
(* exactly when an unbroken clean window of Required sessions ends on it.  *)
THEOREM WalkIsTheWindow == Spec => []QualifiesIffClean
<1>1. LedgerInv => QualifiesIffClean
  BY LedgerIsTyped, DaysAreNat, WalkFindsWindow DEF LedgerInv, QualifiesIffClean
<1> QED
  BY <1>1, Invariance, PTL

(* A window that qualifies today was run with one config content, wherever *)
(* runs died and in whatever order the sessions were run.                  *)
THEOREM WindowHasOneConfig == Spec => []OneConfigPerWindow
<1>1. LedgerInv => OneConfigPerWindow
  <2> SUFFICES ASSUME LedgerInv, NEW v \in Versions, Qualifies(Ledger(v), today),
                      NEW s \in Window(today), NEW t \in Window(today),
                      NEW p \in RowsAt(s) \cap RowsOf(v), NEW r \in RowsAt(t) \cap RowsOf(v),
                      runs[p].config # runs[r].config
               PROVE  FALSE
    BY DEF OneConfigPerWindow
  <2>1. Broken(s, t)
    BY DEF LedgerInv, ChangesAreBroken, RowsAt, RowsOf
  <2>2. PICK i \in incidents : i.breaks = TRUE /\ (s <= i.day \/ t <= i.day) /\ i.day <= today
    BY <2>1 DEF Broken
  <2>3. today \in Nat
    BY CalendarIsNat DEF LedgerInv, TypeOK
  <2> QED
    BY <2>2, <2>3, QualifiedWindow DEF LedgerInv
<1> QED
  BY <1>1, Invariance, PTL

(* A session the dead man's switch found missing is in no window that      *)
(* reaches past the morning it was found.                                  *)
THEOREM MissedStaysMissed == Spec => []MissedSessionStaysMissed
<1>1. LedgerInv => MissedSessionStaysMissed
  <2> SUFFICES ASSUME LedgerInv, NEW i \in incidents, NEW v \in Versions,
                      NEW end \in FirstDay..today, i.cause = "missing", i.day <= end,
                      Qualifies(Ledger(v), end),
                      Max({s \in Sessions : s < i.day}) \in Window(end)
               PROVE  FALSE
    BY DEF MissedSessionStaysMissed
  <2> DEFINE missed == {s \in Sessions : s < i.day}
  <2>1. i.day \in Nat /\ i.breaks = TRUE /\ missed # {}
    BY DEF LedgerInv, TypeOK, MissingBreaks
  <2>2. \A s \in missed : s \in Nat /\ s <= i.day
    BY <2>1, SessionsAreNat
  <2>3. Max(missed) \in missed
    BY <2>1, <2>2, MaxIsGreatest
  <2>4. Max(missed) <= i.day
    BY <2>2, <2>3
  <2>5. end \in Nat
    BY DaysAreNat DEF LedgerInv
  <2> QED
    BY <2>1, <2>4, <2>5, QualifiedWindow DEF LedgerInv
<1> QED
  BY <1>1, Invariance, PTL

(* The row of a finished run never changes again, and no row disappears or *)
(* moves to another date.                                                  *)
THEOREM FinishedStaysFinished == Spec => FinishedRowsAreFinal
<1> DEFINE Final == \A r \in RowIds :
                      /\ r \in DOMAIN runs' /\ runs'[r].date = runs[r].date
                      /\ runs[r].status # "in_progress" => runs'[r] = runs[r]
<1>1. ASSUME LedgerInv, [Next]_vars PROVE Final
  <2>1. DOMAIN runs = RowIds
    BY <1>1 DEF LedgerInv, TypeOK, RowIds
  <2>2. CASE UNCHANGED runs
    BY <2>1, <2>2
  <2>3. CASE InsertRunRow /\ ~ UNCHANGED runs
    <3>1. runner # Idle /\ runs' = Append(runs, NewRow)
      BY <2>3 DEF InsertRunRow, Idle
    <3>2. NewRow \in RowType
      BY <1>1, <3>1, RunnerBusy DEF LedgerInv, NewRow, RowType, NoOutput, OutputType
    <3>3. /\ runs' \in Seq(RowType) /\ RowIds' = RowIds \cup {Len(runs) + 1}
          /\ \A r \in RowIds : runs'[r] = runs[r]
      BY <1>1, <3>1, <3>2, AppendedRow DEF LedgerInv
    <3>4. DOMAIN runs' = RowIds'
      BY <3>3 DEF RowIds
    <3> QED
      BY <3>3, <3>4
  <2>4. CASE UpdateSuccess \/ UpdateFailure
    <3>1. /\ RunnerRow \in RowIds /\ runs[RunnerRow].status = "in_progress"
          /\ \E row \in RowType : /\ runs' = [runs EXCEPT ![RunnerRow] = row]
                                 /\ row.date = runs[RunnerRow].date
      BY <1>1, <2>4, RunnerRowIsThere, SuccessRow, FailureRow
         DEF LedgerInv, UpdateSuccess, UpdateFailure
    <3>2. DOMAIN runs' = RowIds /\ \A r \in RowIds : r # RunnerRow => runs'[r] = runs[r]
      BY <2>1, <3>1
    <3>3. runs'[RunnerRow].date = runs[RunnerRow].date
      BY <2>1, <3>1
    <3> QED
      BY <3>1, <3>2, <3>3
  <2> QED
    BY <1>1, <2>2, <2>3, <2>4 DEF Next, Runner, Replayer, StartRun, ArchiveInputs,
       ClassifyAndWrite, RunnerCrash, ReplayMismatch, ReportMismatch, ReplayerCrash,
       DeadmanCheck, MorningCheck, NextDay, vars, ledgerVars
<1>2. LedgerInv /\ [Next]_vars => [Final]_vars
  BY <1>1
<1> QED
  BY <1>2, Invariance, PTL DEF Spec, FinishedRowsAreFinal

(***************************************************************************)
(* The output file of a date is shared by the versions: with one version in*)
(* use, the row of a date is the row of the run that writes the file.      *)
(***************************************************************************)
OneVersionInUse == \A c, d \in Configs : VersionOf[c] = VersionOf[d]

LEMMA OutputStep ==
  ASSUME OneVersionInUse, LedgerInv, SuccessKeepsOutput, [Next]_vars
  PROVE  SuccessKeepsOutput'
<1>1. CASE UNCHANGED <<runs, outputs>>
  BY <1>1 DEF SuccessKeepsOutput, RowIds
<1>2. CASE InsertRunRow /\ ~ UNCHANGED runs
  <2>1. runner # Idle /\ runs' = Append(runs, NewRow) /\ outputs' = outputs
    BY <1>2 DEF InsertRunRow, Idle, fileVars
  <2>2. NewRow \in RowType /\ NewRow.status = "in_progress"
    BY <2>1, RunnerBusy DEF LedgerInv, NewRow, RowType, NoOutput, OutputType
  <2>3. /\ RowIds' = RowIds \cup {Len(runs) + 1} /\ runs'[Len(runs) + 1] = NewRow
        /\ \A r \in RowIds : runs'[r] = runs[r]
    BY <2>1, <2>2, AppendedRow DEF LedgerInv
  <2> QED
    BY <2>1, <2>2, <2>3 DEF SuccessKeepsOutput
<1>3. CASE ClassifyAndWrite
  <2>1. /\ runner # Idle /\ runs' = runs
        /\ outputs' = [outputs EXCEPT ![runner.date] =
                          Classify(archives[runner.date], runner.feed.membership,
                                   runner.config)]
    BY <1>3 DEF ClassifyAndWrite, ledgerVars, Idle
  <2>2. /\ RunnerRow \in RowIds /\ runs[RunnerRow].date = runner.date
        /\ runs[RunnerRow].status = "in_progress"
    BY <1>3, RunnerRowIsThere DEF LedgerInv, ClassifyAndWrite
  <2>3. ASSUME NEW r \in RowIds, runs[r].status = "success"
        PROVE  outputs'[runs[r].date] = outputs[runs[r].date]
    <3>1. runs[r].date # runner.date
      BY <2>2, <2>3, RowIsTyped DEF OneVersionInUse, LedgerInv, RowsAreUnique
    <3>2. runs[r].date \in Sessions /\ outputs \in [Sessions -> OutputType]
      BY RowIsTyped DEF LedgerInv, TypeOK
    <3> QED
      BY <2>1, <3>1, <3>2
  <2> QED
    BY <2>1, <2>3 DEF SuccessKeepsOutput, RowIds
<1>4. CASE UpdateSuccess
  <2>1. RunnerRow \in RowIds /\ runs[RunnerRow].date = runner.date /\ outputs' = outputs
    BY <1>4, RunnerRowIsThere DEF LedgerInv, UpdateSuccess, fileVars
  <2>2. PICK row \in RowType : /\ runs' = [runs EXCEPT ![RunnerRow] = row]
                              /\ row.date = runs[RunnerRow].date
                              /\ row.sha = outputs[runner.date]
    BY <1>4, SuccessRow
  <2>3. /\ RowIds' = RowIds /\ runs'[RunnerRow] = row
        /\ \A r \in RowIds \ {RunnerRow} : runs'[r] = runs[r]
    BY <2>1, <2>2, UpdatedRow DEF LedgerInv
  <2>4. \A r \in RowIds : runs'[r].status = "success" => outputs[runs'[r].date] = runs'[r].sha
    BY <2>1, <2>2, <2>3 DEF SuccessKeepsOutput
  <2> QED
    BY <2>1, <2>3, <2>4 DEF SuccessKeepsOutput
<1>5. CASE UpdateFailure
  <2>1. RunnerRow \in RowIds /\ outputs' = outputs
    BY <1>5, RunnerRowIsThere DEF LedgerInv, UpdateFailure, fileVars
  <2>2. PICK row \in RowType : /\ runs' = [runs EXCEPT ![RunnerRow] = row]
                              /\ row.status = "failure"
    BY <1>5, FailureRow
  <2>3. /\ RowIds' = RowIds /\ runs'[RunnerRow] = row
        /\ \A r \in RowIds \ {RunnerRow} : runs'[r] = runs[r]
    BY <2>1, <2>2, UpdatedRow DEF LedgerInv
  <2>4. \A r \in RowIds : runs'[r].status = "success" => outputs[runs'[r].date] = runs'[r].sha
    BY <2>2, <2>3 DEF SuccessKeepsOutput
  <2> QED
    BY <2>1, <2>3, <2>4 DEF SuccessKeepsOutput
<1> QED
  BY <1>1, <1>2, <1>3, <1>4, <1>5 DEF Next, Runner, Replayer, StartRun, ArchiveInputs,
     InsertRunRow, RunnerCrash, ReplayMismatch, ReportMismatch, ReplayerCrash,
     DeadmanCheck, MorningCheck, NextDay, vars, ledgerVars, fileVars

(* With one config version in use, the output file of a successful run     *)
(* stays the one whose hash its row holds, through reruns and crashes.     *)
THEOREM OutputIsKept ==
  ASSUME OneVersionInUse
  PROVE  Spec => []SuccessKeepsOutput
<1>1. Init => SuccessKeepsOutput
  BY DEF Init, SuccessKeepsOutput, RowIds
<1>2. LedgerInv /\ SuccessKeepsOutput /\ [Next]_vars => SuccessKeepsOutput'
  BY OutputStep
<1> QED
  BY <1>1, <1>2, Invariance, PTL DEF Spec
=============================================================================

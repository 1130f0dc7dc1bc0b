-------------------------- MODULE HysteresisProofs --------------------------
(***************************************************************************)
(* Proofs about the hysteresis for every label set, ranking, threshold     *)
(* table and freeze length, and about two replays that differ in where     *)
(* their window starts.                                                    *)
(***************************************************************************)
EXTENDS QualityHysteresis, ReplayWindow, TLAPS

(* The next-state relation as one disjunction, ready for CASE.             *)
LEMMA NextCases ==
  ASSUME [Next]_vars
  PROVE  \/ UNCHANGED vars
         \/ \E raw \in Labels : NextSession /\ ClassifiedSession(raw)
         \/ \E raw \in Labels : NextSession /\ HeldSession(raw)
         \/ \E raw \in Labels : NextSession /\ ExhaustedSession(raw)
         \/ \E raw \in Labels : NextSession /\ OverriddenSession(raw)
BY DEF Next

(***************************************************************************)
(* The label memory alone.                                                 *)
(***************************************************************************)
MemInv == LabelTypeOK /\ CandidateIsRun

(* One vote keeps the memory well typed and the candidate equal to the run. *)
LEMMA ClassifyMemInv ==
  ASSUME MemInv, Tick, NEW raw \in Labels, Classify(raw)
  PROVE  MemInv'
<1> USE LabelAssumption, SessionsAssumption DEF MemInv
<1>1. sessions' \in 0..MaxSessions
  BY DEF Tick, LabelTypeOK
<1>2. run' \in [label : Labels \cup {None}, len : Nat] /\ run'.label = raw
      /\ run'.len = IF run.label = raw THEN run.len + 1 ELSE 1
  BY DEF Classify, ExtendRun, LabelTypeOK
<1>3. Streak(raw) \in Nat /\ Streak(raw) >= 1
  BY DEF Streak, LabelTypeOK
<1>4. CASE stable \in {None, raw} /\ Settle(raw)
  BY <1>1, <1>2, <1>4 DEF Settle, LabelTypeOK, CandidateIsRun
<1>5. CASE Settle(raw)
  BY <1>1, <1>2, <1>5 DEF Settle, LabelTypeOK, CandidateIsRun
<1>6. CASE /\ stable \notin {None, raw}
           /\ ~(Streak(raw) >= Threshold(stable, raw))
           /\ pending' = raw
           /\ pendingCount' = Streak(raw)
           /\ stable' = stable
  <2>1. LabelTypeOK'
    BY <1>1, <1>2, <1>3, <1>6 DEF LabelTypeOK
  <2>2. Streak(raw) = run'.len
    BY <1>2, <1>6 DEF Streak, CandidateIsRun, LabelTypeOK
  <2>3. Streak(raw) < Threshold(stable, raw)
    <3>1. Threshold(stable, raw) \in Nat
      BY <1>6 DEF Threshold, LabelTypeOK
    <3> QED BY <1>3, <1>6, <3>1
  <2>4. CandidateIsRun'
    BY <1>2, <1>6, <2>2, <2>3 DEF CandidateIsRun, Threshold
  <2> QED BY <2>1, <2>4
<1> QED BY <1>4, <1>5, <1>6 DEF Classify, StepMemory, Confirmed

LEMMA SkipMemInv ==
  ASSUME MemInv, Tick, Skip
  PROVE  MemInv'
<1> USE DEF MemInv, Skip
<1>1. LabelTypeOK'
  BY LabelAssumption, SessionsAssumption DEF Tick, LabelTypeOK
<1>2. CandidateIsRun'
  BY DEF CandidateIsRun, Threshold
<1> QED BY <1>1, <1>2

LEMMA ForgetMemInv ==
  ASSUME MemInv, Tick, Forget
  PROVE  MemInv'
<1> USE LabelAssumption, SessionsAssumption DEF MemInv, Forget, Settle
<1>1. LabelTypeOK'
  BY DEF Tick, LabelTypeOK
<1>2. CandidateIsRun'
  BY DEF CandidateIsRun
<1> QED BY <1>1, <1>2

(* A vote that moves the stable label was backed by a full run.            *)
LEMMA ClassifyConfirmed ==
  ASSUME MemInv, NEW raw \in Labels, Classify(raw),
         stable # None, stable' # stable
  PROVE  run'.label = stable' /\ run'.len >= Threshold(stable, stable')
<1> USE LabelAssumption, SessionsAssumption
<1>1. stable \notin {None, raw} /\ stable' = raw /\ Streak(raw) >= Threshold(stable, raw)
  BY DEF Classify, StepMemory, Settle, Confirmed
<1>2. run'.label = raw /\ run'.len = IF run.label = raw THEN run.len + 1 ELSE 1
  BY DEF Classify, ExtendRun, MemInv, LabelTypeOK
<1>3. Streak(raw) = run'.len
  BY <1>1, <1>2 DEF Streak, MemInv, CandidateIsRun, LabelTypeOK
<1> QED BY <1>1, <1>2, <1>3
(***************************************************************************)
(* The published rows.                                                     *)
(***************************************************************************)
(* Everything the safety theorems need, inductive: the memory invariant,   *)
(* what is remembered for a hold, and what the last row shows.             *)
IInv ==
  /\ TypeOK
  /\ CandidateIsRun
  /\ NeverUnderReports
  /\ HoldBounded
  /\ ForcedRowIsHeldOrUnknown
  /\ lastStable = None <=> lastActive = None
  /\ freezeDays = 0 => lastStable = None
  /\ row.frozen => row.stable = lastStable /\ row.active = lastActive
  /\ row.forced /\ ~row.frozen => lastStable = None
  /\ (~row.forced /\ row.raw # None) => gap = 0
  /\ (~row.forced /\ Unknown \notin {row.raw, row.stable} /\ lastStable # None)
       => row.stable = lastStable /\ row.active = lastActive

LEMMA ActiveKnown ==
  ASSUME NEW s \in Labels, NEW r \in Labels, Unknown \notin {s, r}
  PROVE  ActiveOf(s, r) \in Labels \ {Unknown}
BY DEF ActiveOf

LEMMA ActiveDominates ==
  ASSUME NEW s \in Labels, NEW r \in Labels
  PROVE  /\ ActiveOf(s, r) \in Labels
         /\ Rank[ActiveOf(s, r)] >= Rank[r]
         /\ Rank[ActiveOf(s, r)] >= Rank[s]
<1>1. Rank[s] \in Nat /\ Rank[r] \in Nat
  BY LabelAssumption, SessionsAssumption
<1> QED BY <1>1 DEF ActiveOf

LEMMA ClassifySettles ==
  ASSUME MemInv, NEW raw \in Labels, Classify(raw)
  PROVE  stable' \in Labels
<1>1. stable \in Labels \cup {None}
  BY DEF MemInv, LabelTypeOK
<1> QED BY <1>1, LabelAssumption, SessionsAssumption DEF Classify, StepMemory, Settle

LEMMA ClassifiedKeeps ==
  ASSUME IInv, NEW raw \in Labels, NextSession, ClassifiedSession(raw)
  PROVE  IInv'
<1> USE LabelAssumption, SessionsAssumption
<1>0. /\ Tick /\ freezeDays \in FreezeChoices /\ freezeDays \in Nat
      /\ freezeDays' = freezeDays
  BY FreezeAssumption DEF NextSession, IInv, TypeOK
<1> USE <1>0
<1>1. Classify(raw) /\ MemInv
  BY DEF ClassifiedSession, IInv, MemInv, TypeOK
<1>2. MemInv' /\ stable' \in Labels
  BY <1>1, ClassifyMemInv, ClassifySettles
<1>3. /\ row' = [raw |-> raw, forced |-> FALSE, stable |-> stable',
                 active |-> ActiveOf(stable', raw), frozen |-> FALSE]
      /\ gap' = 0
  BY DEF ClassifiedSession, Row
<1>4. /\ ActiveOf(stable', raw) \in Labels
      /\ Rank[ActiveOf(stable', raw)] >= Rank[raw]
      /\ Rank[ActiveOf(stable', raw)] >= Rank[stable']
  BY <1>2, ActiveDominates
<1>5. RowTypeOK' /\ NeverUnderReports' /\ HoldBounded' /\ ForcedRowIsHeldOrUnknown'
  BY <1>2, <1>3, <1>4
     DEF RowTypeOK, NeverUnderReports, HoldBounded, ForcedRowIsHeldOrUnknown
<1>6. CASE freezeDays > 0 /\ Unknown \notin {raw, stable'}
  <2>1. lastStable' = row'.stable /\ lastActive' = row'.active
    BY <1>6 DEF ClassifiedSession, Remembers
  <2>2. row'.stable \in Labels \ {Unknown} /\ row'.active \in Labels \ {Unknown}
    BY <1>2, <1>3, <1>6, ActiveKnown
  <2>3. ~row'.forced /\ ~row'.frozen
    BY <1>3
  <2>4. TypeOK'
    BY <1>2, <1>3, <1>5, <2>1, <2>2 DEF TypeOK, MemInv
  <2> QED BY <1>2, <1>3, <1>5, <1>6, <2>1, <2>2, <2>3, <2>4 DEF IInv, MemInv
<1>7. CASE ~(freezeDays > 0 /\ Unknown \notin {raw, stable'})
  <2>1. lastStable' = lastStable /\ lastActive' = lastActive
    BY <1>7 DEF ClassifiedSession, Remembers
  <2> QED BY <1>2, <1>3, <1>5, <1>7, <2>1 DEF IInv, TypeOK, MemInv
<1> QED BY <1>6, <1>7

LEMMA HeldKeeps ==
  ASSUME IInv, NEW raw \in Labels, NextSession, HeldSession(raw)
  PROVE  IInv'
<1> USE LabelAssumption, SessionsAssumption
<1>0. /\ Tick /\ freezeDays \in FreezeChoices /\ freezeDays \in Nat
      /\ freezeDays' = freezeDays
  BY FreezeAssumption DEF NextSession, IInv, TypeOK
<1> USE <1>0
<1>1. MemInv'
  BY SkipMemInv DEF HeldSession, IInv, MemInv, TypeOK
<1>2. /\ row' = [raw |-> raw, forced |-> TRUE, stable |-> lastStable,
                 active |-> lastActive, frozen |-> TRUE]
      /\ gap' = gap + 1
      /\ lastStable' = lastStable /\ lastActive' = lastActive
      /\ lastStable # None /\ gap + 1 <= HoldLimit(lastStable)
  BY DEF HeldSession, Holding, Row
<1>3. /\ lastStable \in Labels \ {Unknown} /\ lastActive \in Labels \ {Unknown}
      /\ gap \in Nat
  BY <1>2 DEF IInv, TypeOK
<1>4. gap + 1 <= freezeDays \/ gap + 1 < DeescDays[lastStable]
  BY <1>2, <1>3 DEF HoldLimit
<1>5. RowTypeOK' /\ NeverUnderReports' /\ HoldBounded' /\ ForcedRowIsHeldOrUnknown'
  BY <1>2, <1>3, <1>4
     DEF RowTypeOK, NeverUnderReports, HoldBounded, ForcedRowIsHeldOrUnknown
<1> QED BY <1>1, <1>2, <1>3, <1>5 DEF IInv, TypeOK, MemInv

LEMMA ExhaustedKeeps ==
  ASSUME IInv, NEW raw \in Labels, NextSession, ExhaustedSession(raw)
  PROVE  IInv'
<1> USE LabelAssumption, SessionsAssumption
<1>0. /\ Tick /\ freezeDays \in FreezeChoices /\ freezeDays \in Nat
      /\ freezeDays' = freezeDays
  BY FreezeAssumption DEF NextSession, IInv, TypeOK
<1> USE <1>0
<1>1. MemInv'
  BY ForgetMemInv DEF ExhaustedSession, IInv, MemInv, TypeOK
<1>2. /\ row' = [raw |-> raw, forced |-> TRUE, stable |-> Unknown,
                 active |-> Unknown, frozen |-> FALSE]
      /\ gap' = gap + 1 /\ gap \in Nat
      /\ lastStable' = None /\ lastActive' = None
  BY DEF ExhaustedSession, Row, IInv, TypeOK
<1>3. RowTypeOK' /\ NeverUnderReports' /\ HoldBounded' /\ ForcedRowIsHeldOrUnknown'
  BY <1>2 DEF RowTypeOK, NeverUnderReports, HoldBounded, ForcedRowIsHeldOrUnknown
<1> QED BY <1>1, <1>2, <1>3 DEF IInv, TypeOK, MemInv

LEMMA OverriddenKeeps ==
  ASSUME IInv, NEW raw \in Labels, NextSession, OverriddenSession(raw)
  PROVE  IInv'
<1> USE LabelAssumption, SessionsAssumption
<1>0. /\ Tick /\ freezeDays \in FreezeChoices /\ freezeDays \in Nat
      /\ freezeDays' = freezeDays
  BY FreezeAssumption DEF NextSession, IInv, TypeOK
<1> USE <1>0
<1>1. MemInv'
  BY ClassifyMemInv DEF OverriddenSession, IInv, MemInv, TypeOK
<1>2. /\ row' = [raw |-> raw, forced |-> TRUE, stable |-> Unknown,
                 active |-> Unknown, frozen |-> FALSE]
      /\ gap' = gap /\ gap \in Nat
      /\ lastStable' = None /\ lastActive' = None
  BY DEF OverriddenSession, Row, IInv, TypeOK
<1>3. RowTypeOK' /\ NeverUnderReports' /\ HoldBounded' /\ ForcedRowIsHeldOrUnknown'
  BY <1>2 DEF RowTypeOK, NeverUnderReports, HoldBounded, ForcedRowIsHeldOrUnknown
<1> QED BY <1>1, <1>2, <1>3 DEF IInv, TypeOK, MemInv

LEMMA InitIInv == Init => IInv
<1> SUFFICES ASSUME Init PROVE IInv
  OBVIOUS
<1> USE LabelAssumption, SessionsAssumption DEF Init, LabelInit
<1>1. LabelTypeOK /\ CandidateIsRun
  BY DEF LabelTypeOK, CandidateIsRun
<1>2. RowTypeOK /\ NeverUnderReports /\ HoldBounded /\ ForcedRowIsHeldOrUnknown
  BY DEF Row, RowTypeOK, NeverUnderReports, HoldBounded, ForcedRowIsHeldOrUnknown
<1> QED BY <1>1, <1>2 DEF Row, IInv, TypeOK

LEMMA StutterKeeps == IInv /\ UNCHANGED vars => IInv'
BY DEF vars, IInv, TypeOK, LabelTypeOK, CandidateIsRun, Threshold, RowTypeOK,
       NeverUnderReports, HoldBounded, ForcedRowIsHeldOrUnknown

LEMMA NextIInv == IInv /\ [Next]_vars => IInv'
BY NextCases, ClassifiedKeeps, HeldKeeps, ExhaustedKeeps, OverriddenKeeps, StutterKeeps

LEMMA IInvAlways == Spec => []IInv
BY InitIInv, NextIInv, PTL DEF Spec

(* The types of every variable, in particular that what is remembered for  *)
(* a hold is never the unknown sentinel.                                   *)
THEOREM TypeCorrect == Spec => []TypeOK
BY IInvAlways, PTL DEF IInv

(* The candidate and its count are those of the current run of sessions.   *)
THEOREM CandidateCorrect == Spec => []CandidateIsRun
BY IInvAlways, PTL DEF IInv

(* No classified session publishes less risk than its rules saw.           *)
THEOREM RiskNeverUnderReported == Spec => []NeverUnderReports
BY IInvAlways, PTL DEF IInv

(* Holds are bounded by the freeze and the confirmation of the held label. *)
THEOREM HoldsAreBounded == Spec => []HoldBounded
BY IInvAlways, PTL DEF IInv

LEMMA LongRunFollows == IInv => LongRunWins
<1> SUFFICES ASSUME IInv, LongRun, stable # run.label
             PROVE  FALSE
  BY DEF LongRunWins
<1>1. pending # None
  BY DEF IInv, CandidateIsRun
<1>2. stable \in Labels \ {run.label} /\ run.len < Threshold(stable, run.label)
  BY <1>1 DEF IInv, CandidateIsRun, TypeOK, LabelTypeOK
<1>3. run.label \in Labels /\ run.len \in Nat
  BY <1>1, LabelAssumption, SessionsAssumption DEF IInv, CandidateIsRun, TypeOK,
     LabelTypeOK
<1>4. Threshold(stable, run.label) \in Nat
  BY <1>2, <1>3, LabelAssumption, SessionsAssumption DEF Threshold
<1> QED BY <1>2, <1>3, <1>4 DEF LongRun

(* A run that satisfies every threshold determines the stable label, so    *)
(* replays with different starts agree after it.                           *)
THEOREM LongRunDecides == Spec => []LongRunWins
BY IInvAlways, LongRunFollows, PTL

(***************************************************************************)
(* Action properties and the refinement.                                   *)
(***************************************************************************)
LEMMA StepConfirmed ==
  ASSUME IInv, [Next]_vars, stable # None, stable' # stable, run'.len > 0
  PROVE  run'.label = stable' /\ run'.len >= Threshold(stable, stable')
<1>1. MemInv
  BY DEF IInv, MemInv, TypeOK
<1>2. ASSUME NEW raw \in Labels, Classify(raw)
      PROVE  run'.label = stable' /\ run'.len >= Threshold(stable, stable')
  BY <1>1, <1>2, ClassifyConfirmed
<1>3. CASE \E raw \in Labels : NextSession /\ ExhaustedSession(raw)
  BY <1>3 DEF ExhaustedSession, Forget
<1> QED BY <1>2, <1>3, NextCases
        DEF vars, ClassifiedSession, HeldSession, Skip, OverriddenSession

(* No vote moves the stable label without the sessions its change needs.   *)
THEOREM LeaveIsConfirmed == Spec => ConfirmedLeave
<1>1. IInv /\ [Next]_vars =>
        [(stable # None /\ stable' # stable /\ run'.len > 0)
           => /\ run'.label = stable'
              /\ run'.len >= Threshold(stable, stable')]_labelVars
  BY StepConfirmed
<1> QED BY <1>1, IInvAlways, PTL DEF Spec, ConfirmedLeave

LEMMA StepHoldContinues ==
  ASSUME IInv, [Next]_vars, row' # row, row'.frozen
  PROVE  \/ row'.stable = row.stable /\ row'.active = row.active
         \/ ~row.forced /\ Unknown \in {row.raw, row.stable}
<1>1. PICK raw \in Labels : HeldSession(raw)
  BY NextCases DEF vars, Row, ClassifiedSession, ExhaustedSession, OverriddenSession
<1>2. row'.stable = lastStable /\ row'.active = lastActive /\ lastStable # None
  BY <1>1 DEF HeldSession, Holding, Row
<1> QED BY <1>2 DEF IInv

(* A hold continues what was shown; a gap that gave up stays given up.     *)
THEOREM HoldOnlyContinues == Spec => HoldContinues
<1>1. IInv /\ [Next]_vars =>
        [row'.frozen =>
           \/ row'.stable = row.stable /\ row'.active = row.active
           \/ ~row.forced /\ Unknown \in {row.raw, row.stable}]_vars
  <2> SUFFICES ASSUME IInv, [Next]_vars, vars' # vars, row'.frozen
               PROVE  \/ row'.stable = row.stable /\ row'.active = row.active
                      \/ ~row.forced /\ Unknown \in {row.raw, row.stable}
    OBVIOUS
  <2> QED BY StepHoldContinues
<1> QED BY <1>1, IInvAlways, PTL DEF Spec, HoldContinues

(* The data-quality-aware machine implements the label memory.             *)
THEOREM MemoryRefinement == Spec => ImplementsMemory
<1> USE DEF Memory!LabelInit, Memory!MemoryNext, Memory!labelVars, Memory!Tick,
        Memory!Skip, Memory!Forget, Memory!Settle, Memory!Classify,
        Memory!StepMemory, Memory!Confirmed, Memory!ExtendRun, Memory!Streak,
        Memory!Threshold
<1>1. Init => Memory!LabelInit
  BY DEF Init, LabelInit
<1>2. [Next]_vars => [Memory!MemoryNext]_(Memory!labelVars)
  <2> SUFFICES ASSUME [Next]_vars
               PROVE  [Memory!MemoryNext]_(Memory!labelVars)
    OBVIOUS
  <2>1. ASSUME NEW raw \in Labels, NextSession, Classify(raw)
        PROVE  Memory!MemoryNext
    BY <2>1 DEF NextSession, Tick, Classify, StepMemory, Confirmed, Settle, ExtendRun,
       Streak, Threshold
  <2>2. ASSUME NextSession, Skip
        PROVE  Memory!MemoryNext
    BY <2>2 DEF NextSession, Tick, Skip
  <2>3. ASSUME NextSession, Forget
        PROVE  Memory!MemoryNext
    BY <2>3 DEF NextSession, Tick, Forget, Settle
  <2>4. UNCHANGED vars => UNCHANGED Memory!labelVars
    BY DEF vars
  <2> QED BY <2>1, <2>2, <2>3, <2>4, NextCases
          DEF ClassifiedSession, HeldSession, ExhaustedSession, OverriddenSession
<1> QED BY <1>1, <1>2, PTL DEF Spec, ImplementsMemory, Memory!MemorySpec

----------------------------------------------------------------------------
(***************************************************************************)
(* Two replays of one market, for windows of every length.                 *)
(***************************************************************************)
RunOf == [label : Labels \cup {None}, len : Nat]

(***************************************************************************)
(* Both replays are the same machine: its step, written once over a memory *)
(* of a stable label s, a candidate p and its count c.                     *)
(***************************************************************************)
Seen(raw, p, c) == IF p = raw THEN c + 1 ELSE 1
Settles(raw, s, p, c) == s \in {None, raw} \/ Seen(raw, p, c) >= Threshold(s, raw)

Moves(raw, s, p, c, s2, p2, c2) ==
  IF Settles(raw, s, p, c) THEN s2 = raw /\ p2 = None /\ c2 = 0
                           ELSE s2 = s /\ p2 = raw /\ c2 = Seen(raw, p, c)

LEMMA BothMove ==
  ASSUME NEW raw
  PROVE  /\ Long!StepMemory(raw) =>
              Moves(raw, longStable, longPending, longCount,
                         longStable', longPending', longCount')
         /\ Short!StepMemory(raw) =>
              Moves(raw, shortStable, shortPending, shortCount,
                         shortStable', shortPending', shortCount')
BY DEF Moves, Settles, Seen, Threshold, Long!Threshold, Short!Threshold,
   Long!StepMemory, Short!StepMemory, Long!Confirmed,
   Short!Confirmed, Long!Streak, Short!Streak, 
   Long!Settle, Short!Settle

LEMMA MaxDaysIsLongest ==
  /\ MaxDays \in Nat \ {0}
  /\ \A s, l \in Labels : Threshold(s, l) \in Nat /\ Threshold(s, l) <= MaxDays
<1> DEFINE days == {EscDays[l] : l \in Labels} \cup {DeescDays[l] : l \in Labels}
           Longest(d) == \A l \in Labels : EscDays[l] <= d /\ DeescDays[l] <= d
<1>1. \E d \in days : Longest(d)
  BY LabelAssumption, ReplayAssumption
<1>2. MaxDays = CHOOSE d \in days : Longest(d)
  BY DEF MaxDays
<1>3. MaxDays \in days /\ Longest(MaxDays)
  BY <1>1, <1>2
<1>4. MaxDays \in Nat /\ EscDays[Unknown] \in Nat \ {0} /\ EscDays[Unknown] <= MaxDays
  BY <1>3, LabelAssumption, ReplayAssumption
<1> QED
  BY <1>3, <1>4, LabelAssumption, ReplayAssumption DEF Threshold

(* A candidate is the label of the current run, seen as often as the run is*)
(* long, which is never as long as the saturated count goes.               *)
Machine(s, p, c, r) ==
  /\ s \in Labels \cup {None} /\ p \in Labels \cup {None} /\ c \in Nat /\ r \in RunOf
  /\ p # None => /\ s \notin {None, p} /\ p = r.label /\ c = r.len
                 /\ c < Threshold(s, p)
  /\ p = None => s = r.label /\ c = 0

LEMMA MovesKeepMachine ==
  ASSUME NEW raw \in Labels, NEW s, NEW p, NEW c, NEW r, Machine(s, p, c, r),
         NEW s2, NEW p2, NEW c2, Moves(raw, s, p, c, s2, p2, c2)
  PROVE  Machine(s2, p2, c2, Saturate(r, raw))
<1> DEFINE r2 == Saturate(r, raw)
<1>1. raw # None /\ MaxDays \in Nat
  BY LabelAssumption, ReplayAssumption, MaxDaysIsLongest
<1>2. r2 \in RunOf /\ r2.label = raw
  BY <1>1 DEF Saturate, RunOf, Machine
<1>3. CASE Settles(raw, s, p, c)
  BY <1>1, <1>2, <1>3 DEF Moves, Machine
<1>4. CASE ~ Settles(raw, s, p, c)
  <2>1. s \in Labels \ {raw, None} /\ Threshold(s, raw) \in Nat /\ Threshold(s,
  raw) <= MaxDays
    BY <1>4, MaxDaysIsLongest DEF Settles, Machine
  <2>2. Seen(raw, p, c) \in Nat /\ Seen(raw, p, c) < Threshold(s, raw)
    BY <1>4, <2>1 DEF Settles, Seen, Machine
  <2>3. Seen(raw, p, c) = r2.len
    <3>1. CASE p = raw
      BY <1>1, <2>1, <3>1 DEF Machine, Seen, Saturate
    <3>2. CASE p # raw
      BY <1>1, <2>1, <3>2 DEF Machine, Seen, Saturate
    <3> QED
      BY <3>1, <3>2
  <2>4. s2 = s /\ p2 = raw /\ c2 = Seen(raw, p, c)
    BY <1>4 DEF Moves
  <2> HIDE DEF r2
  <2>5. Machine(s2, p2, c2, r2)
    BY <1>1, <1>2, <2>1, <2>2, <2>3, <2>4 DEF Machine
  <2> QED
    BY <2>5 DEF r2
<1> QED
  BY <1>3, <1>4

(* A run that is long enough for every change to its label has won.        *)
LEMMA LongRunSettles ==
  ASSUME NEW s, NEW p, NEW c, NEW r, Machine(s, p, c, r), r.label \in Labels,
         \A t \in Labels \ {r.label} : r.len >= Threshold(t, r.label)
  PROVE  s = r.label /\ p = None /\ c = 0
<1>1. CASE p # None
  <2>1. s \in Labels \ {r.label} /\ r.len < Threshold(s, r.label)
    BY <1>1 DEF Machine
  <2>2. r.len \in Nat /\ Threshold(s, r.label) \in Nat
    BY <2>1, MaxDaysIsLongest DEF Machine, RunOf
  <2> QED
    BY <2>1, <2>2
<1> QED
  BY <1>1 DEF Machine

(***************************************************************************)
(* The inductive invariant: the long replay has seen at least the run the  *)
(* short one has, and after a long run both have the same memory.          *)
(***************************************************************************)
RunsAgree ==
  age > 0 => longRun.label = shortRun.label /\ longRun.len >= shortRun.len

ReplayInv ==
  /\ age \in 0..Warmup
  /\ Machine(longStable, longPending, longCount, longRun)
  /\ Machine(shortStable, shortPending, shortCount, shortRun)
  /\ age = 0 => shortPending = None /\ shortRun.len = 0 /\ ~ synced
  /\ RunsAgree /\ SyncedAgree

LEMMA ReplayInitInv == ReplayInit => ReplayInv
BY LabelAssumption, ReplayAssumption DEF ReplayInit, Long!LabelInit, ReplayInv, Machine,
   RunOf, RunsAgree, SyncedAgree

LEMMA LeadSessionInv ==
  ASSUME ReplayInv, NEW raw \in Labels, LeadSession(raw)
  PROVE  ReplayInv'
<1>1. Machine(longStable, longPending, longCount, longRun)'
  BY BothMove, MovesKeepMachine DEF ReplayInv, LeadSession
<1> QED
  BY <1>1 DEF ReplayInv, LeadSession, RunsAgree, SyncedAgree, shortVars

LEMMA SharedSessionInv ==
  ASSUME ReplayInv, NEW raw \in Labels, SharedSession(raw)
  PROVE  ReplayInv'
<1> USE DEF SharedSession
<1>1. /\ Machine(longStable, longPending, longCount, longRun)'
      /\ Machine(shortStable, shortPending, shortCount, shortRun)'
  BY BothMove, MovesKeepMachine DEF ReplayInv
<1>2. age' \in 0..Warmup /\ age' > 0
  BY LabelAssumption, ReplayAssumption DEF ReplayInv
<1>3. longRun'.label = raw /\ shortRun'.label = raw /\ longRun'.len >= shortRun'.len
  <2>1. longRun'.label = raw /\ shortRun'.label = raw
    BY DEF Saturate
  <2>2. longRun \in RunOf /\ shortRun \in RunOf /\ MaxDays \in Nat \ {0}
    BY MaxDaysIsLongest DEF ReplayInv, Machine
  <2>3. longRun'.len >= 1
    BY <2>2 DEF Saturate, RunOf
  <2>4. CASE age = 0
    <3>1. shortRun'.len = 1
      BY <2>2, <2>4 DEF ReplayInv, Saturate, RunOf
    <3> QED
      BY <2>1, <2>3, <3>1
  <2>5. CASE age > 0
    BY <2>1, <2>2, <2>5 DEF ReplayInv, RunsAgree, Saturate, RunOf
  <2> QED
    BY <2>4, <2>5 DEF ReplayInv
<1>4. SyncedAgree'
  <2>1. CASE synced
    <3>1. SameMemory
      BY <2>1 DEF ReplayInv, SyncedAgree
    <3> QED
      BY <3>1, BothMove DEF SameMemory, SyncedAgree, Moves
  <2>2. CASE Short!LongRun'
    <3>1. \A t \in Labels \ {raw} : shortRun'.len >= Threshold(t, raw)
      BY <1>3, <2>2 DEF Short!LongRun, Short!Threshold, Threshold
    <3>2. \A t \in Labels \ {raw} : longRun'.len >= Threshold(t, raw)
      <4>1. longRun'.len \in Nat /\ shortRun'.len \in Nat
        BY <1>1 DEF Machine, RunOf
      <4> QED
        BY <1>3, <3>1, <4>1, MaxDaysIsLongest
    <3>3. longStable' = raw /\ longPending' = None /\ longCount' = 0
      BY <1>1, <1>3, <3>2, LongRunSettles
    <3>4. shortStable' = raw /\ shortPending' = None /\ shortCount' = 0
      BY <1>1, <1>3, <3>1, LongRunSettles
    <3> QED
      BY <3>3, <3>4 DEF SameMemory, SyncedAgree
  <2>3. CASE ~ synced'
    BY <2>3 DEF SyncedAgree
  <2> QED
    BY <2>1, <2>2, <2>3
<1> QED
  BY <1>1, <1>2, <1>3, <1>4 DEF ReplayInv, RunsAgree

LEMMA ReplayStepInv == ReplayInv /\ [ReplayNext]_replayVars => ReplayInv'
<1>1. ASSUME ReplayInv, UNCHANGED replayVars PROVE ReplayInv'
  BY <1>1 DEF replayVars, longVars, shortVars, ReplayInv, RunsAgree, SyncedAgree,
     SameMemory
<1> QED
  BY <1>1, LeadSessionInv, SharedSessionInv DEF ReplayNext

LEMMA ReplayInvariance == ReplaySpec => []ReplayInv
BY ReplayInitInv, ReplayStepInv, PTL DEF ReplaySpec

-----------------------------------------------------------------------------
(* Once a row has followed a run of one raw label that is long enough for  *)
(* every change to it, it does not depend on where its window starts       *)
(* (timeline.py slices the context; hysteresis.py replays it).             *)
THEOREM LongRunSynchronises == ReplaySpec => []SyncedAgree
<1>1. ReplayInv => SyncedAgree
  BY DEF ReplayInv
<1> QED
  BY <1>1, ReplayInvariance, PTL

(***************************************************************************)
(* For an axis that leaves unknown at once, as every axis of               *)
(* core3-v2.0.0.yaml does (its de-escalation days of unknown are 0, and    *)
(* escalations are immediate), agreement on one session is agreement for   *)
(* good.  A slower unknown would let the short replay, which starts there, *)
(* count a candidate from a later session than the long one.               *)
(***************************************************************************)
UnknownYields == \A l \in Labels \ {Unknown} : Threshold(Unknown, l) <= 1

AgreedIsSame == age > 0 /\ longStable = shortStable => SameMemory

AgreeInv ==
  ReplayInv /\ AgreedIsSame /\ (age = 0 => shortStable \in {None, Unknown})

LEMMA AgreeInit == ReplayInit => AgreeInv
BY ReplayInitInv DEF AgreeInv, AgreedIsSame, ReplayInv, ReplayInit, Long!LabelInit

LEMMA AgreeStep ==
  ASSUME UnknownYields, AgreeInv, [ReplayNext]_replayVars
  PROVE  AgreeInv'
<1>1. ReplayInv'
  BY ReplayStepInv DEF AgreeInv
<1>2. CASE UNCHANGED replayVars
  BY <1>1, <1>2 DEF replayVars, longVars, shortVars, AgreeInv, AgreedIsSame, SameMemory
<1>3. ASSUME NEW raw \in Labels, LeadSession(raw)
      PROVE  AgreeInv'
  BY <1>1, <1>3 DEF LeadSession, shortVars, AgreeInv, AgreedIsSame
<1>4. ASSUME NEW raw \in Labels, SharedSession(raw)
      PROVE  AgreeInv'
  <2>1. age' > 0
    BY <1>4, LabelAssumption, ReplayAssumption DEF SharedSession, AgreeInv, ReplayInv
  <2> DEFINE LongSettles == Settles(raw, longStable, longPending, longCount)
             ShortSettles == Settles(raw, shortStable, shortPending, shortCount)
  <2>2. /\ Moves(raw, longStable, longPending, longCount,
                      longStable', longPending', longCount')
        /\ Moves(raw, shortStable, shortPending, shortCount,
                      shortStable', shortPending', shortCount')
    BY <1>4, BothMove DEF SharedSession
  <2>3. LongSettles /\ ShortSettles => SameMemory'
    BY <2>2 DEF Moves, SameMemory
  <2>4. LongSettles # ShortSettles => longStable' # shortStable'
    BY <2>2 DEF Moves, Settles
  <2>5. ASSUME ~ LongSettles, ~ ShortSettles, longStable' = shortStable'
        PROVE  SameMemory'
    <3>1. longStable = shortStable
      BY <2>2, <2>5 DEF Moves
    <3>2. CASE age > 0
      BY <2>2, <3>1, <3>2 DEF AgreeInv, AgreedIsSame, SameMemory, Moves
    <3>3. CASE age = 0
      <4>1. shortStable = Unknown /\ raw # Unknown /\ Seen(raw, shortPending,
      shortCount) = 1
        BY <2>5, <3>3, LabelAssumption, ReplayAssumption DEF AgreeInv, ReplayInv,
           Settles, Seen
      <4> QED
        BY <2>5, <4>1 DEF UnknownYields, Settles
    <3> QED
      BY <3>2, <3>3 DEF AgreeInv, ReplayInv
  <2> QED
    BY <1>1, <2>1, <2>3, <2>4, <2>5 DEF AgreeInv, AgreedIsSame
<1> QED
  BY <1>2, <1>3, <1>4 DEF ReplayNext

(* Two windows that publish the same stable label on a shared session      *)
(* publish the same one on every later session.                            *)
THEOREM AgreementLasts ==
  ASSUME UnknownYields
  PROVE  ReplaySpec => AgreementIsPermanent
<1>1. ASSUME AgreeInv, [ReplayNext]_replayVars, age > 0, longStable = shortStable
      PROVE  longStable' = shortStable'
  <2>1. AgreeInv' /\ SameMemory
    BY <1>1, AgreeStep DEF AgreeInv, AgreedIsSame
  <2>2. CASE UNCHANGED replayVars
    BY <1>1, <2>2 DEF replayVars, longVars, shortVars
  <2>3. ASSUME NEW raw \in Labels, SharedSession(raw)
        PROVE  longStable' = shortStable'
    BY <2>1, <2>3, BothMove DEF SharedSession, SameMemory, Moves
  <2>4. \A raw \in Labels : ~ LeadSession(raw)
    BY <1>1 DEF LeadSession, AgreeInv, ReplayInv
  <2> QED
    BY <1>1, <2>2, <2>3, <2>4 DEF ReplayNext
<1>2. AgreeInv /\ [ReplayNext]_replayVars =>
        [(age > 0 /\ longStable = shortStable) => longStable' = shortStable']_replayVars
  BY <1>1
<1>3. AgreeInv /\ [ReplayNext]_replayVars => AgreeInv'
  BY AgreeStep
<1> QED
  BY AgreeInit, <1>2, <1>3, PTL DEF ReplaySpec, AgreementIsPermanent
=============================================================================

------------------------- MODULE TransitionRiskProofs -------------------------
(***************************************************************************)
(* Proofs about the transition-risk state for every confirmation table,    *)
(* cooldown, horizon and set of labels and scores.                         *)
(***************************************************************************)
EXTENDS TransitionRisk, TLAPS

(* The inductive invariant.  VotesAreRun needs that no session has voted   *)
(* before the first row: a candidate of the first session counts one.      *)
NoVoteBeforeRows == row = None => run.state = None

IInv == TypeOK /\ VotesAreRun /\ NoVoteBeforeRows /\ RequestedRowsKnown

(***************************************************************************)
(* What one session computes.                                              *)
(***************************************************************************)
LEMMA ScoreReady ==
  ASSUME TypeOK, NEW s \in Sessions, ~NotReady(s)
  PROVE  Score(s).band \in Bands
<1>1. CASE scored
  <2>1. s.score \in Scores
    BY <1>1 DEF Sessions, NotReady, Score
  <2> QED BY <1>1, <2>1, RiskAssumption DEF Score
<1>2. CASE ~scored
  BY <1>2 DEF Score, Bands
<1> QED BY <1>1, <1>2

LEMMA SelectedState ==
  ASSUME TypeOK, NEW s \in Sessions, ~NotReady(s)
  PROVE  /\ Select(s) \in States \ {"insufficient_data"}
         /\ Cooldown(s) => Select(s) # "stable"
<1>1. ScoreState(s) \in {"high_transition_risk", "stable", "weakening",
                         "transition_warning"}
  BY ScoreReady DEF ScoreState, Bands
<1> QED BY <1>1 DEF Select, States

LEMMA HistoryTypes ==
  ASSUME TypeOK, NEW s \in Sessions, History(s)
  PROVE  /\ sinceSwitch' \in 0..SwitchHorizon
         /\ sinceBear' \in 1..(BearHorizon + 1)
         /\ stableBear' \in BOOLEAN
<1> USE RiskAssumption DEF TypeOK, History
<1>1. sinceSwitch' \in 0..SwitchHorizon
  BY DEF SinceSwitch, MinOf
<1>2. sinceBear' \in 1..(BearHorizon + 1)
  BY DEF SinceBear, MinOf
<1>3. stableBear' \in BOOLEAN
  BY DEF Sessions
<1> QED BY <1>1, <1>2, <1>3

LEMMA PublishedRow ==
  ASSUME TypeOK, NEW s \in Sessions, NEW raw \in States, Publish(s, raw),
         active' \in States, strict' \in BOOLEAN
  PROVE  row' \in Rows /\ row' # None
<1>1. /\ InsufficientData(s) \in BOOLEAN /\ NotReady(s) \in BOOLEAN
      /\ Cooldown(s) \in BOOLEAN
  BY DEF InsufficientData, NotReady, Cooldown
<1>2. row' \in Rows
  BY <1>1 DEF Publish, Rows
<1> QED BY <1>2, RiskAssumption

(***************************************************************************)
(* The debounce.                                                           *)
(***************************************************************************)
LEMMA DebounceTypes ==
  ASSUME TypeOK, NEW raw \in States, Debounce(raw)
  PROVE  /\ active' \in States /\ pending' \in States \cup {None}
         /\ pendingCount' \in Nat
         /\ run' \in [state : States \cup {None}, len : Nat]
         /\ run'.state = raw
<1> USE RiskAssumption DEF TypeOK, Debounce
<1>1. active' \in States /\ pending' \in States \cup {None} /\ pendingCount' \in Nat
  BY DEF Accept, Defer, Votes
<1>2. run' \in [state : States \cup {None}, len : Nat] /\ run'.state = raw
  BY DEF MinOf
<1> QED BY <1>1, <1>2

(* A vote for a raw state that is not active counts the run it belongs to, *)
(* up to the length that is asked for.                                     *)
LEMMA VotesCountRun ==
  ASSUME TypeOK, VotesAreRun, NoVoteBeforeRows,
         NEW raw \in States, Debounce(raw), raw # active
  PROVE  /\ Votes(raw) < RequiredDays[raw] => run'.len = Votes(raw)
         /\ Votes(raw) >= RequiredDays[raw] => run'.len >= RequiredDays[raw]
<1> USE RiskAssumption DEF TypeOK, VotesAreRun, NoVoteBeforeRows
<1>1. run'.len = IF run.state # raw THEN 1 ELSE MinOf(run.len + 1, RequiredDays[raw])
  BY DEF Debounce
<1>2. RequiredDays[raw] \in Nat \ {0}
  OBVIOUS
<1>3. CASE pending = raw
  BY <1>1, <1>2, <1>3 DEF Votes, MinOf
<1>4. CASE pending # raw
  <2>1. run.state # raw
    BY <1>4
  <2> QED BY <1>1, <1>2, <1>4, <2>1 DEF Votes
<1> QED BY <1>3, <1>4

LEMMA DebounceVotes ==
  ASSUME TypeOK, VotesAreRun, NoVoteBeforeRows, NEW raw \in States, Debounce(raw)
  PROVE  VotesAreRun'
<1> USE RiskAssumption
<1>1. run'.state = raw
  BY DebounceTypes
<1>2. CASE raw = active \/ Votes(raw) >= RequiredDays[raw]
  BY <1>1, <1>2 DEF Debounce, Accept, VotesAreRun
<1>3. CASE ~(raw = active \/ Votes(raw) >= RequiredDays[raw])
  <2>1. Votes(raw) \in Nat /\ RequiredDays[raw] \in Nat
    BY DEF Votes, TypeOK
  <2>2. Votes(raw) < RequiredDays[raw]
    BY <1>3, <2>1
  <2>3. run'.len = Votes(raw)
    BY <1>3, <2>2, VotesCountRun
  <2>4. pending' = raw /\ pendingCount' = Votes(raw) /\ active' = active
    BY <1>3 DEF Debounce, Defer
  <2> QED BY <1>1, <1>3, <2>2, <2>3, <2>4 DEF VotesAreRun
<1> QED BY <1>2, <1>3

LEMMA DebounceConfirmed ==
  ASSUME TypeOK, VotesAreRun, NoVoteBeforeRows, NEW raw \in States, Debounce(raw),
         active' # active
  PROVE  run'.state = active' /\ run'.len >= RequiredDays[active']
<1>1. raw # active /\ Votes(raw) >= RequiredDays[raw] /\ active' = raw
  BY DEF Debounce, Accept, Defer
<1> QED BY <1>1, DebounceTypes, VotesCountRun

(***************************************************************************)
(* The sessions preserve the invariant.                                    *)
(***************************************************************************)
LEMMA NextCases ==
  ASSUME [Next]_vars
  PROVE  \/ UNCHANGED vars
         \/ /\ scored' = scored /\ strict' \in {strict, TRUE}
            /\ \E s \in Sessions :
                 ReadySession(s) \/ InsufficientSession(s) \/ RefusedSession(s)
BY DEF Next

LEMMA RefusedKeeps ==
  ASSUME IInv, scored' = scored, strict' \in {strict, TRUE},
         NEW s \in Sessions, RefusedSession(s)
  PROVE  IInv'
<1> USE DEF IInv, RefusedSession
<1>1. TypeOK'
  BY DEF TypeOK
<1>2. VotesAreRun' /\ NoVoteBeforeRows'
  BY DEF VotesAreRun, NoVoteBeforeRows
<1>3. RequestedRowsKnown'
  BY DEF RequestedRowsKnown
<1> QED BY <1>1, <1>2, <1>3

LEMMA PublishedKeeps ==
  ASSUME IInv, scored' = scored, strict' \in {strict, TRUE},
         NEW s \in Sessions, NEW raw \in States,
         Debounce(raw), Publish(s, raw), History(s), UNCHANGED refused,
         (scored /\ strict') => ~InsufficientData(s) /\ raw # "insufficient_data"
  PROVE  IInv'
<1> USE DEF IInv
<1>1. strict' \in BOOLEAN /\ scored' \in BOOLEAN /\ refused' \in BOOLEAN
  BY DEF TypeOK
<1>2. row' \in Rows /\ row' # None
  BY <1>1, DebounceTypes, PublishedRow
<1>3. TypeOK'
  BY <1>1, <1>2, DebounceTypes, HistoryTypes DEF TypeOK
<1>4. VotesAreRun' /\ NoVoteBeforeRows'
  BY <1>2, DebounceVotes DEF NoVoteBeforeRows
<1>5. RequestedRowsKnown'
  BY DEF RequestedRowsKnown, Publish
<1> QED BY <1>3, <1>4, <1>5

LEMMA ReadyKeeps ==
  ASSUME IInv, scored' = scored, strict' \in {strict, TRUE},
         NEW s \in Sessions, ReadySession(s)
  PROVE  IInv'
<1>1. Select(s) \in States /\ Select(s) # "insufficient_data"
  BY SelectedState DEF IInv, ReadySession
<1>2. ~InsufficientData(s)
  BY DEF ReadySession, NotReady
<1> QED BY <1>1, <1>2, PublishedKeeps DEF ReadySession

LEMMA InsufficientKeeps ==
  ASSUME IInv, scored' = scored, strict' \in {strict, TRUE},
         NEW s \in Sessions, InsufficientSession(s)
  PROVE  IInv'
<1>1. "insufficient_data" \in States
  BY DEF States
<1> QED BY <1>1, PublishedKeeps DEF InsufficientSession

LEMMA InitIInv == Init => IInv
<1> SUFFICES ASSUME Init PROVE IInv
  OBVIOUS
<1>1. TypeOK
  <2>1. /\ sinceSwitch \in 0..SwitchHorizon
        /\ sinceBear \in 1..(BearHorizon + 1)
    BY RiskAssumption DEF Init
  <2>2. run \in [state : States \cup {None}, len : Nat]
    BY DEF Init
  <2> QED BY <2>1, <2>2, RiskAssumption DEF Init, TypeOK
<1>2. VotesAreRun /\ NoVoteBeforeRows /\ RequestedRowsKnown
  BY DEF Init, VotesAreRun, NoVoteBeforeRows, RequestedRowsKnown
<1> QED BY <1>1, <1>2 DEF IInv

LEMMA NextIInv == IInv /\ [Next]_vars => IInv'
<1> SUFFICES ASSUME IInv, [Next]_vars PROVE IInv'
  OBVIOUS
<1>1. CASE UNCHANGED vars
  BY <1>1 DEF vars, IInv, TypeOK, VotesAreRun, NoVoteBeforeRows, RequestedRowsKnown
<1>2. CASE /\ scored' = scored /\ strict' \in {strict, TRUE}
           /\ \E s \in Sessions :
                ReadySession(s) \/ InsufficientSession(s) \/ RefusedSession(s)
  BY <1>2, ReadyKeeps, InsufficientKeeps, RefusedKeeps
<1> QED BY <1>1, <1>2, NextCases

LEMMA IInvAlways == Spec => []IInv
BY InitIInv, NextIInv, PTL DEF Spec

(***************************************************************************)
(* The theorems.                                                           *)
(***************************************************************************)
(* The state of the debounce and of the history evidence keeps its types.  *)
THEOREM TypeCorrect == Spec => []TypeOK
BY IInvAlways, PTL DEF IInv

(* The candidate is the raw state of the current run and its count the     *)
(* length of that run (transition_risk_history.py, the debounce).          *)
THEOREM VotesCorrect == Spec => []VotesAreRun
BY IInvAlways, PTL DEF IInv

(* Whatever the labels and scores, the V2 engine publishes no requested    *)
(* session of which an axis is unknown (transition_risk.py).               *)
THEOREM RequestedKnown == Spec => []RequestedRowsKnown
BY IInvAlways, PTL DEF IInv

LEMMA StepConfirmed ==
  ASSUME IInv, [Next]_vars, active' # active
  PROVE  run'.state = active' /\ run'.len >= RequiredDays[active']
<1> USE DEF IInv
<1>1. ~UNCHANGED vars
  BY DEF vars
<1>2. PICK s \in Sessions :
        ReadySession(s) \/ InsufficientSession(s) \/ RefusedSession(s)
  BY <1>1, NextCases
<1>3. CASE ReadySession(s)
  BY <1>3, SelectedState, DebounceConfirmed DEF ReadySession
<1>4. CASE InsufficientSession(s)
  BY <1>4, DebounceConfirmed DEF InsufficientSession, States
<1>5. CASE RefusedSession(s)
  BY <1>5 DEF RefusedSession
<1> QED BY <1>2, <1>3, <1>4, <1>5

(* Of a published session: a raw crisis is published at once, and a state  *)
(* other than the raw one is published only while the raw one is pending   *)
(* and asks for a second print.                                            *)
LEMMA DebouncePublishes ==
  ASSUME TypeOK, VotesAreRun, NoVoteBeforeRows, NEW raw \in States, Debounce(raw),
         active' # raw
  PROVE  pending' = raw /\ raw # None /\ RequiredDays[raw] > 1
<1> USE RiskAssumption DEF TypeOK
<1>1. ~(raw = active \/ Votes(raw) >= RequiredDays[raw])
  BY DEF Debounce, Accept
<1>2. Votes(raw) \in Nat /\ Votes(raw) >= 1 /\ RequiredDays[raw] \in Nat
  BY DEF Votes
<1> QED BY <1>1, <1>2 DEF Debounce, Defer

(* What the last row shows, for every table that publishes a crisis on its *)
(* first print.                                                            *)
RowInv == QuietCooldownIsPending /\ (RequiredDays["crisis"] = 1 => CrisisShows)

LEMMA NextRowInv == IInv /\ RowInv /\ [Next]_vars => RowInv'
<1> SUFFICES ASSUME IInv, RowInv, [Next]_vars PROVE RowInv'
  OBVIOUS
<1> USE DEF IInv
<1>1. CASE UNCHANGED vars
  BY <1>1 DEF vars, RowInv, QuietCooldownIsPending, CrisisShows
<1>2. ASSUME NEW s \in Sessions, ReadySession(s) PROVE RowInv'
  <2>1. Select(s) \in States /\ (Cooldown(s) => Select(s) # "stable")
    BY <1>2, SelectedState DEF ReadySession
  <2>2. /\ row'.state = active'
        /\ row'.cooldown = Cooldown(s)
        /\ row'.crisisVol = Crisis(s)
    BY <1>2 DEF ReadySession, Publish, Crisis
  <2>3. active' # Select(s) =>
          pending' = Select(s) /\ Select(s) # None /\ RequiredDays[Select(s)] > 1
    BY <1>2, <2>1, DebouncePublishes DEF ReadySession
  <2>4. Crisis(s) => Select(s) = "crisis"
    BY DEF Select
  <2>5. QuietCooldownIsPending'
    BY <2>1, <2>2, <2>3 DEF QuietCooldownIsPending
  <2>6. RequiredDays["crisis"] = 1 => CrisisShows'
    BY <2>2, <2>3, <2>4 DEF CrisisShows
  <2> QED BY <2>5, <2>6 DEF RowInv
<1>3. ASSUME NEW s \in Sessions, InsufficientSession(s) PROVE RowInv'
  <2>1. row'.ready = FALSE
    BY <1>3 DEF InsufficientSession, Publish
  <2> QED BY <2>1 DEF RowInv, QuietCooldownIsPending, CrisisShows
<1>4. ASSUME NEW s \in Sessions, RefusedSession(s) PROVE RowInv'
  BY <1>4 DEF RefusedSession, RowInv, QuietCooldownIsPending, CrisisShows
<1> QED BY <1>1, <1>2, <1>3, <1>4, NextCases

LEMMA RowInvAlways == Spec => []RowInv
<1>1. Init => RowInv
  BY DEF Init, RowInv, QuietCooldownIsPending, CrisisShows
<1> QED BY <1>1, NextRowInv, IInvAlways, PTL DEF Spec

(* Within a cooldown a session with complete evidence is published as      *)
(* stable only while a stronger state waits for its second print, whatever *)
(* the confirmation table and the cooldown.                                *)
THEOREM QuietCooldown == Spec => []QuietCooldownIsPending
BY RowInvAlways, PTL DEF RowInv

(* Where a crisis asks for one print only, a crisis volatility label with  *)
(* complete evidence is published as crisis on its own session.            *)
THEOREM CrisisOnTheDay == Spec => [](RequiredDays["crisis"] = 1 => CrisisShows)
BY RowInvAlways, PTL DEF RowInv

(* No published state changes on fewer consecutive prints than its         *)
(* confirmation asks for, for every confirmation table.                    *)
THEOREM StateIsConfirmed == Spec => ConfirmedState
<1>1. IInv /\ [Next]_vars =>
        [active' # active =>
           run'.state = active' /\ run'.len >= RequiredDays[active']]_vars
  BY StepConfirmed
<1> QED BY <1>1, IInvAlways, PTL DEF Spec, ConfirmedState
=============================================================================

--------------------------- MODULE TransitionRisk ---------------------------
(***************************************************************************)
(* The transition-risk state of each session: history evidence             *)
(* (transition_risk_history.py), the rule flags and the choice of a raw    *)
(* state (transition_risk_series.py, transition_risk.py) and the debounce  *)
(* that turns raw states into the published one.                           *)
(*                                                                         *)
(* The active labels of the four core axes, the switch of their stable     *)
(* labels and the composed score are inputs.  The replayed window starts   *)
(* with warm-up sessions; from the first requested session on (`strict')   *)
(* the V2 engine refuses to publish on missing evidence.                   *)
(***************************************************************************)
EXTENDS Integers

CONSTANTS
  Trends, Characters, Vols, Breadths,  \* active labels of the four axes
  Scores,         \* composed scores: [band, credit, corr, event]
  NoScore,        \* the score of a session with a missing component
  None,
  RequiredDays,   \* state_confirmation_days
  InitialState,   \* initial_active_state
  CooldownDays,   \* cooldown_window_days
  SwitchHorizon,  \* days_since_axis_switch is None from here on (60 in the code)
  BearHorizon     \* window of prior_bear (60 in the code)

States == {"stable", "watch", "weakening", "transition_warning",
           "high_transition_risk", "fragile_bull", "recovery_attempt",
           "bear_stress", "crisis", "insufficient_data"}

Bands == {"stable", "weakening", "transition_warning", "high"}

(* A published row, and what the properties remember of its session.       *)
Rows == [raw : States, state : States, requested : BOOLEAN, crisisVol : BOOLEAN,
         unknownAxis : BOOLEAN, ready : BOOLEAN, cooldown : BOOLEAN]

ASSUME RiskAssumption ==
  /\ None \notin States /\ None \notin Rows
  /\ Scores \subseteq [band : Bands, credit : BOOLEAN, corr : BOOLEAN, event : BOOLEAN]
  /\ NoScore \notin Scores
  /\ RequiredDays \in [States -> Nat \ {0}]
  /\ InitialState \in States
  /\ CooldownDays \in Nat /\ SwitchHorizon \in Nat \ {0} /\ BearHorizon \in Nat \ {0}

VARIABLES
  scored,        \* is a transition_score section configured (the V2 engine)?
  active,        \* active_state of the debounce
  pending,       \* pending_state
  pendingCount,  \* pending_count
  sinceSwitch,   \* days_since_axis_switch; SwitchHorizon stands for None
  stableBear,    \* was trend_direction.stable_label bear on the last session?
  sinceBear,     \* sessions since that label was bear; BearHorizon: too long
  strict,        \* has the requested part of the window begun?
  refused,       \* has the replay raised?
  row,           \* the last row
  run            \* history: the last raw state and how often in a row

vars == <<scored, active, pending, pendingCount, sinceSwitch, stableBear, sinceBear,
          strict, refused, row, run>>

----------------------------------------------------------------------------
(* One session as the axes present it.  Only a trend at least as risky as  *)
(* bear can be active while the stable trend is bear, and a change of the  *)
(* stable trend to or from bear is an axis switch.                         *)
Sessions ==
  { s \in [trend : Trends, character : Characters, vol : Vols, breadth : Breadths,
           score : Scores \cup {NoScore}, aboveSma : BOOLEAN,
           stableBear : BOOLEAN, switched : BOOLEAN] :
      /\ s.stableBear => s.trend \in {"bear", "euphoria"}
      /\ (s.stableBear # stableBear /\ row # None) => s.switched }

MinOf(a, b) == IF a < b THEN a ELSE b

(* The first session of a window never counts as a switch.                 *)
SinceSwitch(s) ==
  IF s.switched /\ row # None THEN 0 ELSE MinOf(sinceSwitch + 1, SwitchHorizon)

(* Sessions back to the last bear print, today excluded (shift(1)).        *)
SinceBear == IF stableBear THEN 1 ELSE MinOf(sinceBear + 1, BearHorizon + 1)

PriorBear == SinceBear <= BearHorizon

InsufficientData(s) == "unknown" \in {s.trend, s.character, s.vol, s.breadth}

(* Without a transition_score section the score is a constant stable one.  *)
Score(s) ==
  IF scored THEN s.score ELSE [band |-> "stable", credit |-> FALSE, corr |-> FALSE, event |-> FALSE]

(* A plausible slip: only the score is looked at.                          *)
NotReadyByScore(s) == Score(s) = NoScore

NotReady(s) == InsufficientData(s) \/ Score(s) = NoScore

(* A plausible slip: the emergency waits for a second opinion.             *)
CrisisIfBreadthAgrees(s) == s.vol = "crisis_vol" /\ s.breadth # "healthy_breadth"

Crisis(s) == s.vol = "crisis_vol"

BearStress(s) ==
  /\ s.trend = "bear"
  /\ s.vol \in {"high_vol", "crisis_vol"}
  /\ \/ s.breadth \in {"weak_breadth", "narrowing_breadth", "divergent_fragile", "unknown"}
     \/ Score(s).credit

FragileBull(s) ==
  /\ s.trend = "bull"
  /\ s.breadth = "divergent_fragile" \/ Score(s).corr \/ Score(s).credit

RecoveryAttempt(s) ==
  \/ s.character = "recovery_attempt"
  \/ /\ PriorBear
     /\ s.aboveSma
     /\ s.breadth \in {"recovery_breadth", "healthy_breadth"}

SidewaysStress(s) ==
  /\ s.trend = "sideways"
  /\ s.vol = "high_vol"
  /\ s.breadth \in {"weak_breadth", "narrowing_breadth", "divergent_fragile"}

Cooldown(s) ==
  /\ SinceSwitch(s) < SwitchHorizon
  /\ SinceSwitch(s) <= CooldownDays
  /\ ~Crisis(s)

ScoreState(s) ==
  IF Score(s).band = "high" THEN "high_transition_risk" ELSE Score(s).band

(* A plausible slip: the cooldown is forgotten.                            *)
SelectWithoutCooldown(s) ==
  IF Crisis(s) THEN "crisis"
  ELSE IF BearStress(s) THEN "bear_stress"
  ELSE IF FragileBull(s) THEN "fragile_bull"
  ELSE IF RecoveryAttempt(s) THEN "recovery_attempt"
  ELSE IF SidewaysStress(s) \/ Score(s).event THEN "watch"
  ELSE ScoreState(s)

(* _select_transition_state, the alternatives in order of precedence.      *)
Select(s) ==
  IF Crisis(s) THEN "crisis"
  ELSE IF BearStress(s) THEN "bear_stress"
  ELSE IF FragileBull(s) THEN "fragile_bull"
  ELSE IF RecoveryAttempt(s) THEN "recovery_attempt"
  ELSE IF SidewaysStress(s) \/ Score(s).event THEN "watch"
  ELSE IF Cooldown(s) /\ ScoreState(s) = "stable" THEN "watch"
  ELSE ScoreState(s)

----------------------------------------------------------------------------
(* A plausible slip: a changed raw state does not restart the count.       *)
VotesNeverRestarted(raw) == pendingCount + 1

Votes(raw) == IF pending = raw THEN pendingCount + 1 ELSE 1

Accept(raw) ==
  /\ active' = raw
  /\ pending' = None
  /\ pendingCount' = 0

Defer(raw) ==
  /\ pending' = raw
  /\ pendingCount' = Votes(raw)
  /\ UNCHANGED active

Debounce(raw) ==
  /\ IF raw = active \/ Votes(raw) >= RequiredDays[raw] THEN Accept(raw) ELSE Defer(raw)
  /\ run' = [state |-> raw, len |-> IF run.state # raw THEN 1
                                    ELSE MinOf(run.len + 1, RequiredDays[raw])]

History(s) ==
  /\ sinceSwitch' = SinceSwitch(s)
  /\ sinceBear' = SinceBear
  /\ stableBear' = s.stableBear

Publish(s, raw) ==
  row' = [raw |-> raw, state |-> active', requested |-> strict',
          crisisVol |-> s.vol = "crisis_vol",
          unknownAxis |-> InsufficientData(s),
          ready |-> ~NotReady(s), cooldown |-> Cooldown(s)]

ReadySession(s) ==
  /\ ~NotReady(s)
  /\ Debounce(Select(s))
  /\ Publish(s, Select(s))
  /\ History(s)
  /\ UNCHANGED refused

(* A session that lacks evidence is published as insufficient_data while   *)
(* warming up, and always in V1.                                           *)
InsufficientSession(s) ==
  /\ NotReady(s)
  /\ ~(scored /\ strict')
  /\ Debounce("insufficient_data")
  /\ Publish(s, "insufficient_data")
  /\ History(s)
  /\ UNCHANGED refused

(* A requested V2 session that lacks evidence makes the whole call raise.  *)
RefusedSession(s) ==
  /\ NotReady(s)
  /\ scored /\ strict'
  /\ refused' = TRUE
  /\ UNCHANGED <<active, pending, pendingCount, sinceSwitch, stableBear, sinceBear,
                 row, run>>

Init ==
  /\ scored \in BOOLEAN
  /\ active = InitialState
  /\ pending = None
  /\ pendingCount = 0
  /\ sinceSwitch = SwitchHorizon
  /\ stableBear = FALSE
  /\ sinceBear = BearHorizon + 1
  /\ strict \in BOOLEAN
  /\ refused = FALSE
  /\ row = None
  /\ run = [state |-> None, len |-> 0]

Next ==
  /\ ~refused /\ UNCHANGED scored
  /\ strict' \in {strict, TRUE}
  /\ \E s \in Sessions :
       ReadySession(s) \/ InsufficientSession(s) \/ RefusedSession(s)

Spec == Init /\ [][Next]_vars

----------------------------------------------------------------------------
TypeOK ==
  /\ scored \in BOOLEAN
  /\ active \in States
  /\ pending \in States \cup {None}
  /\ pendingCount \in Nat
  /\ sinceSwitch \in 0..SwitchHorizon
  /\ stableBear \in BOOLEAN
  /\ sinceBear \in 1..(BearHorizon + 1)
  /\ strict \in BOOLEAN
  /\ refused \in BOOLEAN
  /\ run \in [state : States \cup {None}, len : Nat]
  /\ row \in Rows \cup {None}

(* The candidate of the debounce is the raw state of the current run, its  *)
(* count the length of that run; the published state is the candidate's    *)
(* predecessor, and it is the raw state when there is no candidate.        *)
VotesAreRun ==
  /\ pending # None =>
       /\ pending = run.state /\ pending # active
       /\ pendingCount = run.len /\ pendingCount < RequiredDays[pending]
  /\ pending = None => pendingCount = 0 /\ (row # None => active = run.state)

(* The published state changes only to a raw state that came on as many    *)
(* consecutive sessions as its confirmation asks for: "a single noisy      *)
(* session cannot drive a regime change" (docs/transition_risk.md).        *)
ConfirmedState ==
  [][ active' # active =>
        run'.state = active' /\ run'.len >= RequiredDays[active'] ]_vars

(* A crisis volatility label with complete evidence is published as crisis *)
(* on the same session, whatever is pending.                               *)
CrisisShows == (row # None /\ row.crisisVol /\ row.ready) => row.state = "crisis"

(* Within the cooldown after an axis switch a session with complete        *)
(* evidence is published as stable only while a stronger state waits for   *)
(* its second print.                                                       *)
QuietCooldownIsPending ==
  (row # None /\ row.cooldown /\ row.ready /\ row.state = "stable") =>
    pending # None /\ RequiredDays[pending] > 1

(* The V2 engine never publishes a requested session of which an axis is   *)
(* unknown: it refuses, instead of reporting a state.                      *)
RequestedRowsKnown ==
  (scored /\ row # None /\ row.requested) => ~row.unknownAxis /\ row.raw # "insufficient_data"
=============================================================================

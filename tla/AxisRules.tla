------------------------------ MODULE AxisRules ------------------------------
(***************************************************************************)
(* One axis, one session: the readings change one at a time (an            *)
(* observation arrives, is revised or is lost) and the axis is classified  *)
(* anew, with the labels of the axes it listens to.                        *)
(***************************************************************************)
EXTENDS RuleBook

CONSTANTS
  Axes,      \* the axes explored
  Values,    \* axis -> reading -> the values it may take, NaN among them
  Breadths, Vols, Credits  \* labels the network axis hears; credit also growth

(* The readings without which an axis may say unknown.                     *)
Required ==
  [trend |-> {"close", "sma50", "sma200", "ret63"},
   character |-> {"close", "sma50", "ret10", "ret21", "drawdown63", "adx"},
   vol |-> {"ret1", "ret5", "ret21", "volPct"},
   breadth |-> {"ratio", "ratioSma", "ratioRet20", "offHigh"},
   volume |-> {"volumeZ", "ret1", "gapPct", "rangePct"},
   network |-> {"corrPct", "dispersion", "stability"},
   growth |-> {"cpiSlope", "pmi", "spy"},
   monetary |-> {"z2y", "z10y", "zUsd", "fast2y", "fast10y"}]

(* The readings that rank the labels of an axis, all else equal: 1 where a *)
(* higher one is worse, -1 where a lower one is.                           *)
Worse ==
  [vol |-> [ret1 |-> -1, ret5 |-> -1, ret21 |-> -1, volPct |-> 1, vixPct |-> 1],
   volume |-> [volumeZ |-> 1, ret1 |-> -1, gapPct |-> 1, rangePct |-> 1],
   network |-> [volPct |-> 1, eigPct |-> 1, vixPct |-> 1],
   credit |-> [hyPct |-> 1, hySlope |-> 1, igSlope |-> 1, usdZ |-> 1,
               fundingSlope |-> 1, spy |-> -1, tlt |-> -1, volPct |-> 1, corrPct |-> 1]]

(* What the rules of two ranked axes read beside what they require; those  *)
(* of the other two ask the row whether it has a reading (ScalarAt).       *)
Optional ==
  [vol |-> {"vixPct", "atrRatio", "vol10", "vol21", "vol63", "ivChange", "eventJustPassed"},
   volume |-> {"gaps", "range"}]

(* Every reading has a value, none that is required or read is left out,   *)
(* and those that rank labels, and two of the network, are numbers wherever*)
(* they are there.                                                         *)
ASSUME AxisAssumption ==
  /\ Axes \subseteq {"trend", "character", "vol", "breadth", "volume", "network", "credit",
                    "growth", "monetary"}
  /\ \A a \in Axes : \A f \in DOMAIN Values[a] : Values[a][f] # {}
  /\ \A a \in Axes \cap DOMAIN Required : Required[a] \subseteq DOMAIN Values[a]
  /\ \A a \in Axes \cap DOMAIN Optional : Optional[a] \subseteq DOMAIN Values[a]
  /\ \A a \in Axes \cap DOMAIN Worse : \A f \in DOMAIN Worse[a] \cap DOMAIN Values[a] :
       Values[a][f] \subseteq Int \cup {NaN}
  /\ "network" \in Axes =>
       \A f \in {"corrPct", "stability"} : Values["network"][f] \subseteq Int \cup {NaN}

VARIABLES axis, reading, heard, label

axisVars == <<axis, reading, heard, label>>

Audible == [breadth : Breadths, vol : Vols, credit : Credits]

AxisInit ==
  /\ axis \in Axes
  /\ reading = [f \in DOMAIN Values[axis] |->
                  IF NaN \in Values[axis][f] THEN NaN ELSE CHOOSE v \in Values[axis][f] : TRUE]
  /\ heard = [breadth |-> "unknown", vol |-> "unknown", credit |-> None]
  /\ label = LabelOf(axis, reading, heard)

Observe(f, v) ==
  /\ v # NaN
  /\ reading' = [reading EXCEPT ![f] = v]
  /\ label' = LabelOf(axis, reading', heard)
  /\ UNCHANGED <<axis, heard>>

Lose(f) ==
  /\ reading[f] # NaN /\ NaN \in Values[axis][f]
  /\ reading' = [reading EXCEPT ![f] = NaN]
  /\ label' = LabelOf(axis, reading', heard)
  /\ UNCHANGED <<axis, heard>>

(* Another label of an upstream axis, for the axes that listen.            *)
Hear(h) ==
  /\ axis \in {"network", "growth"}
  /\ axis = "growth" => h = [heard EXCEPT !.credit = h.credit]
  /\ heard' = h
  /\ label' = LabelOf(axis, reading, heard')
  /\ UNCHANGED <<axis, reading>>

AxisNext ==
  \/ \E f \in DOMAIN reading : Lose(f) \/ \E v \in Values[axis][f] : Observe(f, v)
  \/ \E h \in Audible : Hear(h)

AxisSpec == AxisInit /\ [][AxisNext]_axisVars

Risk(l) == RankOf(axis)[l]

(* A reading that moves towards stress, all else equal, never lowers the   *)
(* rank of the label: no threshold of a milder rule is placed so that      *)
(* passing it hides a worse one (the order of the rules in                 *)
(* credit_funding_rules, volatility_state_rules, volume_liquidity_rules).  *)
WorseNeverCalmer ==
  [][ (/\ heard' = heard /\ axis \in DOMAIN Worse
       /\ \E f \in DOMAIN reading \cap DOMAIN Worse[axis] :
            /\ NaN \notin {reading[f], reading'[f]}
            /\ Worse[axis][f] * (reading'[f] - reading[f]) > 0)
        => Risk(label') >= Risk(label) ]_axisVars

(* An axis says unknown only when a reading it needs is missing: between   *)
(* them its rules leave no gap.  Credit is not among these axes: a flat    *)
(* spread in the upper percentiles matches none of its rules.              *)
UnknownMeansMissing ==
  (label = "unknown" /\ axis \in DOMAIN Required) => ~Known(reading, Required[axis])

(* What credit says, or that it is silent, never changes how risky the     *)
(* network label is: losing credit takes the name systemic stress away,    *)
(* not the rank (network_fragility_rules, evaluate_rules_with_evidence).   *)
CreditNamesNotRanks ==
  axis = "network" =>
    \A c \in Credits : Risk(LabelOf(axis, reading, [heard EXCEPT !.credit = c])) = Risk(label)
=============================================================================

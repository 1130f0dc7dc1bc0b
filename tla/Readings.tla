------------------------------ MODULE Readings ------------------------------
(***************************************************************************)
(* The scalar a rule reads on one session: a number, or NaN when the       *)
(* window behind it is not full, an observation is missing or the session  *)
(* is not in the index of its series.  Numbers are integers on the scale   *)
(* of the thresholds they meet: percentiles and returns in percent, slopes *)
(* by their sign.                                                          *)
(***************************************************************************)
EXTENDS Integers, Sequences, FiniteSets

CONSTANTS
  NaN,   \* a reading that is not there
  None   \* what an axis that is not built, or a value not supplied, yields

(* Neither is a number.                                                    *)
ASSUME ReadingAssumption == NaN \notin Int /\ None \notin Int

(* any_nan, negated: every reading in S of the record r is a number.       *)
Known(r, S) == \A f \in S : r[f] # NaN

(* scalar_at on the row of a session, a record of the series that hold it: *)
(* a series that is not supplied, or does not hold it, reads NaN.          *)
ScalarAt(row, f) == IF f \in DOMAIN row THEN row[f] ELSE NaN

Magnitude(x) == IF x < 0 THEN -x ELSE x

(* A precedence walk: the label of the first rule that fires.              *)
FirstMatch(rules, otherwise) ==
  LET fires == {i \in DOMAIN rules : rules[i][1]}
  IN IF fires = {} THEN otherwise
     ELSE rules[CHOOSE i \in fires : \A j \in fires : i <= j][2]
=============================================================================

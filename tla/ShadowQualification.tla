------------------------- MODULE ShadowQualification -------------------------
(***************************************************************************)
(* The counter of consecutive clean shadow sessions                        *)
(* (src/src/regime_detection/shadow_qualification.py), as operators over   *)
(* what it reads from the shadow database.  Calendar days are integers and *)
(* Sessions are the days on which the exchange trades.  A ledger is what   *)
(* the three queries return for one engine/config pair:                    *)
(*   status    the run status of every session, "missing" without a row;   *)
(*   mismatch  the sessions some replay check did not reproduce;           *)
(*   breaking  the days of the qualification-breaking incidents.           *)
(***************************************************************************)
EXTENDS Integers, FiniteSets, FiniteSetsExt

CONSTANTS Sessions, Required

ASSUME CalendarAssumption ==
    /\ Sessions \subseteq Nat /\ IsFiniteSet(Sessions)
    /\ Required \in Nat \ {0}

Expected(end) == {s \in Sessions : s <= end}

\* A plausible slip: an incident only counts on the very day of a session.
SameDayReason(ledger, s, until) ==
    IF s \in ledger.breaking THEN "qualification_breaking_incident"
    ELSE IF s \in ledger.mismatch THEN "replay_mismatch"
    ELSE IF ledger.status[s] = "missing" THEN "missing_session_gap"
    ELSE IF ledger.status[s] # "success" THEN "non_success_run"
    ELSE "clean"

\* The first test the loop fails at session s; `until' is incident_window_end.
Reason(ledger, s, until) ==
    IF \E i \in ledger.breaking : s <= i /\ i <= until
        THEN "qualification_breaking_incident"
    ELSE IF s \in ledger.mismatch THEN "replay_mismatch"
    ELSE IF ledger.status[s] = "missing" THEN "missing_session_gap"
    ELSE IF ledger.status[s] # "success" THEN "non_success_run"
    ELSE "clean"

\* incident_window_end: the day before the session looked at last.
Until(end, s) ==
    LET later == {t \in Expected(end) : t > s}
    IN  IF later = {} THEN end ELSE Min(later) - 1

\* The loop, from session s back to the first one that is not clean.  It is
\* not cut at Required: only "at least Required" is ever read.
Walk(ledger, end) ==
    LET walk[s \in Expected(end)] ==
            LET reason == Reason(ledger, s, Until(end, s))
                before == {t \in Expected(end) : t < s}
            IN  IF reason # "clean" THEN [count |-> 0, reason |-> reason]
                ELSE IF before = {}
                    THEN [count  |-> 1,
                          reason |-> "insufficient_consecutive_sessions"]
                ELSE [count  |-> walk[Max(before)].count + 1,
                      reason |-> walk[Max(before)].reason]
    IN  walk

Evaluate(ledger, end) ==
    IF Expected(end) = {}
        THEN [count |-> 0, reason |-> "no_nyse_sessions"]
        ELSE Walk(ledger, end)[Max(Expected(end))]

Qualifies(ledger, end) == Evaluate(ledger, end).count >= Required

\* The window a qualifying ledger qualifies with.
Window(end) ==
    {s \in Expected(end) :
        Cardinality({t \in Expected(end) : t > s}) < Required}

\* What the shadow specification asks of a window, said without a walk.
CleanWindow(ledger, end) ==
    /\ Cardinality(Window(end)) = Required
    /\ \A s \in Window(end) :
          ledger.status[s] = "success" /\ s \notin ledger.mismatch
    /\ \A i \in ledger.breaking : ~ (Min(Window(end)) <= i /\ i <= end)
=============================================================================

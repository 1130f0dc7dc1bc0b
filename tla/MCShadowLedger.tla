--------------------------- MODULE MCShadowLedger ---------------------------
(***************************************************************************)
(* An instance of ShadowLedger: a short calendar with a weekend in it, so  *)
(* that a check day need not be a session, and two configurations of one   *)
(* version that nothing tells apart.                                       *)
(***************************************************************************)
EXTENDS ShadowLedger, TLC

Week == {1, 2, 4}

OneVersion == [c \in Configs |-> "v1"]
Alike == Permutations(Configs)

Feed(market, macro, membership) ==
    [market |-> market, macro |-> macro, membership |-> membership]
OneFeed == {Feed("m1", "x1", "derived")}
=============================================================================

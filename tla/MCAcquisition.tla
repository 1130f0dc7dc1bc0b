--------------------------- MODULE MCAcquisition ---------------------------
(***************************************************************************)
(* Every fetch mode twice, with the files its operator provides; two       *)
(* orders of modes that write the same files; the unattended modes of a    *)
(* small registry in a pool; and fetches under a consolidation.            *)
(***************************************************************************)
EXTENDS Acquisition

Spec1(name, concurrent) == [name |-> name, concurrent |-> concurrent]
TheRegistry ==
  <<Spec1("market", FALSE), Spec1("sentiment", TRUE), Spec1("cleveland_fed_nowcast", TRUE),
    Spec1("pmi", TRUE)>>

(* Sources stop serving date 1 and revise date 2.                          *)
TheServed == << [d \in {1, 2} |-> 1], [d \in {2, 3} |-> d - 1] >>

Other ==
  [EmptyDb EXCEPT !.runs = <<[mode |-> "macro", status |-> "ok"]>>,
                  !.artifacts = {[run |-> 1, source |-> "fred"]}]

Call(mode) == [mode |-> mode, conservative |-> TRUE]
Script(modes, present, consolidates) ==
  [calls |-> [i \in DOMAIN modes |-> Call(modes[i])], files |-> present,
   consolidates |-> consolidates]
Twice(mode, present) == Script(<<mode, mode>>, present, FALSE)

TheScripts ==
  {Twice(m, {}) : m \in {"market", "macro", "sentiment", "events", "pit", "fomc",
                         "powell", "cleveland_fed_nowcast", "sf_fed_news_sentiment",
                         "eps_spglobal_auto", "eps_wayback", "investing_live"}}
  \cup {Twice("sentiment", {"sentiment_seed"}), Twice("usd_index_local", {"usd_csv"}),
        Twice("investing_archive_local", {"archive"}), Twice("eps", {"eps_workbook"}),
        Script(<<"pmi", "pmi_manual", "pmi">>, {"pmi_tables"}, FALSE),
        Script(<<"eps_wayback", "eps_spglobal_auto">>, {}, FALSE),
        Script(<<"all">>, {"sentiment_seed"}, FALSE),
        Script(<<"all">>, {}, FALSE),
        Script(<<"pit", "pit">>, {}, TRUE), Script(<<"market">>, {}, TRUE)}
=============================================================================

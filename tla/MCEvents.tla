------------------------------ MODULE MCEvents ------------------------------
(***************************************************************************)
(* Years of 24 days in three months, a weekend every fourth day, and ten   *)
(* answers of the sources: a full one, its degradations and the ones that  *)
(* abort a build.                                                          *)
(***************************************************************************)
EXTENDS EventBuild

MCSessions == {d \in 20 .. 92 : d % 4 # 3}
MCSeasonStarts == {12}
MCExpiryWindow == <<-2, 0>>
MCCancelled == {<<"NFP", 1>>}

-----------------------------------------------------------------------------
Entry(d) == [date |-> d]
Titled(d, title) == [date |-> d, title |-> title]
FomcPage(days) == [entries |-> {Entry(d) : d \in days}, links |-> days]
BlsPage(cpi, nfp) == [CPI |-> cpi, NFP |-> nfp]
BojTable(days) == [rows |-> days, inline |-> {20}]
Day(d, gpr, ma7) == [date |-> d, gpr |-> gpr, ma7 |-> ma7, ma30 |-> NoFigure]
Served(pages) == [pages |-> pages, total |-> NoFigure]
Debt(d) == [title |-> "debt limit", date |-> d, url |-> 0]
Law(d) == [continuing |-> TRUE, expires |-> d]

(* One shock on session 45, persistent over a week and seen by AI-GPR and  *)
(* GDELT, and one on the weekend of day 59 that only ACLED reports.        *)
Full ==
  [fomc |-> [listing |-> FomcPage({50, 64}), index |-> {1, 2},
             pages |-> [y \in {1} |-> FomcPage({29, 37})]],
   bls |-> <<<<Down, BlsPage({25, 41}, {32})>>, <<BlsPage({49}, {57})>>>>,
   ecb |-> [archive |-> <<{Titled(26, "decisions"), Titled(28, "accounts")}, {}>>,
            snippets |-> {1, 2, 3}, calendar |-> {Titled(54, "press"), Titled(53, "day 1")}],
   boe |-> [upcoming |-> {}, legacy |-> {58, 99}, linked |-> {1, 4},
            pages |-> [y \in {1, 4} |-> IF y = 1 THEN {34} ELSE {100}],
            news |-> <<{34, 20}, Down>>],
   boj |-> [current |-> BojTable({61}), past |-> BojTable({})],
   budget |-> [treasury |-> <<Titled(52, "other") @@ [url |-> 0]>>, laws |-> <<Down>>],
   gpr |-> <<Day(42, 1, NoFigure), Day(43, 3, 2), Day(44, 1, 2), Day(45, 9, 6),
             Day(46, 3, 2)>>,
   aiGpr |-> [days |-> {45}, months |-> {6}],
   acled |-> Served(<<<<59, 59>>, <<>>>>),
   ucdp |-> NoToken,
   gdelt |-> [down |-> {44}, broken |-> {44}, conflict |-> {46}],
   hf |-> [ECB_decision |-> {26}, BOE_decision |-> {}, BOJ_decision |-> {}]]

Partial(total) == [pages |-> <<<<59, NoDate>>, <<45>>>>, total |-> total]

MCAnswers ==
  [full |-> Full,
   noContext |-> [Full EXCEPT !.aiGpr = Down, !.ucdp = Partial(3), !.fomc.index = {},
                              !.gpr[4].ma30 = 8, !.hf = Down],
   noSignals |-> [Full EXCEPT !.gpr = Down, !.acled = Down,
                              !.budget.treasury = <<Debt(52), Debt(99)>>,
                              !.hf.BOE_decision = {33, 34, 59}],
   debtAndLaw |-> [Full EXCEPT !.budget = [treasury |-> <<Debt(52), Debt(52)>>,
                                           laws |-> <<Law(52)>>]],
   twoDaysOff |-> [Full EXCEPT !.hf.BOE_decision = {33, 59}],
   brokenHf |-> [Full EXCEPT !.hf = Broken],
   brokenDay |-> [Full EXCEPT !.gdelt.broken = {46}],
   shortUcdp |-> [Full EXCEPT !.ucdp = Partial(4)],
   noBoe |-> [Full EXCEPT !.boe.news = <<{34}, Down>>],
   lostMeeting |-> [Full EXCEPT !.fomc.pages[1] = FomcPage({29})],
   lostRelease |-> [Full EXCEPT !.bls[1] = <<Down, BlsPage({25}, {32})>>]]

(* Rows around the turn of year 2, at 48, and of its first month.          *)
CuratedRow(date, type, published, window) ==
  [date |-> date, type |-> type, published |-> published, window |-> window, approved |-> TRUE]

CuratedRows ==
  {CuratedRow(d, type, None, None) :
     d \in {46, 49}, type \in {"FOMC", "CPI", "BOJ_decision", "geopolitical_event"}}
  \cup {CuratedRow(46, "election", None, w) : w \in {None, <<0, 3>>}}
  \cup {CuratedRow(50, "NFP", p, <<-3, 2>>) : p \in {49, 53}}
  \cup {CuratedRow(52, "geopolitical_event", p, <<-2, 1>>) : p \in {None, 49, 53}}
  \cup {CuratedRow(52, type, 30, None) : type \in {"ad_hoc", "budget"}}
  \cup {CuratedRow(51, "geopolitical_event", None, <<-1, 1>>),
        [CuratedRow(49, "geopolitical_event", None, <<-1, 1>>) EXCEPT !.approved = FALSE]}

MCCurated == {{a, b} : a, b \in CuratedRows}
MCRequests == {{d \in MCSessions : d \in 41 .. 57}, {44, 49, 66}}
MCCutDays == {41, 45}

Approval(date, evidence, window) ==
  [type |-> "geopolitical_event", date |-> date, evidence |-> evidence, window |-> window]

MCFirstOverlays ==
  {Absent,
   <<Approval(45, None, <<-2, 1>>), Approval(47, None, None)>>,
   <<Approval(45, None, <<1, -2>>)>>,
   <<Approval(45, None, None), Approval(45, None, <<0, 1>>)>>}
=============================================================================

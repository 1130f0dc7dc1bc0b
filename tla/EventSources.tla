---------------------------- MODULE EventSources ----------------------------
(***************************************************************************)
(* Where the rows of the event calendar come from: the Federal Reserve and *)
(* BLS pages, whose rows are written as they are, and the candidates of    *)
(* central banks, of statute and of geopolitical signals, which validators *)
(* confirm or contradict and an operator may have to approve.              *)
(*                                                                         *)
(* An answer is what the sources serve to one build: a page is the set of  *)
(* dated entries a parser finds in it, or Down when it cannot be fetched   *)
(* and Broken when it cannot be decoded.  Confidences, importances and     *)
(* titles decide nothing that is written and are left out.                 *)
(***************************************************************************)
EXTENDS EventCalendar, SequencesExt

CONSTANTS
  Down, Broken, NoDate, NoFigure, NoToken,
  StartYear, EndYear,     \* bls_start_year, effective_end_year
  ElectionOffset, FiscalOffset, \* day of the year of the election, of Sep 30
  FirstListedYear,        \* first year of the current FOMC page: 2021
  MeetingsPerYear, ReleasesPerYear, \* 8 meetings, 12 releases
  Cancelled,              \* <<type, year>> of a cancelled BLS release
  NewsPages,              \* pages of BoE news ever asked for: 29
  MergeDays,              \* merge_window_days: 2
  ConfirmDays,            \* confirmation_window_days: 1
  MinHistory,             \* min_history_days: 252
  Threshold,              \* stddev_threshold: 3
  PageSize,               \* records of a full page of a conflict API
  QuarantineLimit         \* candidates per quarantined date: 100

ASSUME SourcesAssumption ==
  /\ {StartYear, EndYear, FirstListedYear} \subseteq Int /\ StartYear <= EndYear
  /\ {NewsPages, MergeDays, ConfirmDays, MinHistory, Threshold, PageSize} \subseteq Nat
  /\ MinHistory > 0 /\ PageSize > 0 /\ QuarantineLimit \in Nat \ {0}

Years == StartYear .. EndYear
InYears(day) == YearOf(day) \in Years
ElectionDay(year) == year * YearLength + ElectionOffset
FiscalYearEnd(year) == year * YearLength + FiscalOffset

-----------------------------------------------------------------------------
(* The Federal Reserve page and the pages of earlier years: every minutes  *)
(* link must have been parsed, and every year but the last be complete.    *)

DatesIn(days, years) == {d \in days : YearOf(d) \in years}

Intact(page, years) ==
  LET parsed == DatesIn({entry.date : entry \in page.entries}, years)
      counted == {YearOf(d) : d \in parsed}
  IN /\ parsed = DatesIn(page.links, years)
     /\ \A y \in counted : y < Max(counted) =>
          Cardinality({d \in parsed : YearOf(d) = y}) = MeetingsPerYear

EarlierYears(fomc) == {y \in fomc.index : y < FirstListedYear}

YearsIn(page) == {YearOf(d) : d \in page.links \cup {entry.date : entry \in page.entries}}

FomcRaises(fomc) ==
  \/ fomc = Down
  \/ fomc.listing.entries = {}
  \/ ~Intact(fomc.listing, {y \in YearsIn(fomc.listing) : y >= FirstListedYear})
  \/ fomc.index # {} /\ EarlierYears(fomc) = {}
  \/ \E y \in EarlierYears(fomc) : fomc.pages[y] = Down \/ ~Intact(fomc.pages[y], {y})

(* Entries of a year's page replace those of the current page.             *)
FomcEntries(fomc) ==
  LET earlier == UNION {fomc.pages[y].entries : y \in EarlierYears(fomc)}
  IN earlier \cup {entry \in fomc.listing.entries :
                     \A other \in earlier : other.date # entry.date}

-----------------------------------------------------------------------------
(* The BLS schedule: of a year's pages the first that can be fetched and   *)
(* has releases.                                                           *)
Parseable(page) == page # Down /\ page.CPI \cup page.NFP # {}

YearIsServed(pages) == \E i \in DOMAIN pages : Parseable(pages[i])

YearPage(pages) == pages[Min({i \in DOMAIN pages : Parseable(pages[i])})]

Releases(bls, type) == UNION {YearPage(bls[y])[type] : y \in Years}

Expected(type, year) == ReleasesPerYear - IF <<type, year>> \in Cancelled THEN 1 ELSE 0

BlsRaises(bls) ==
  \/ \E y \in Years : ~YearIsServed(bls[y])
  \/ \E type \in {"CPI", "NFP"} :
       \/ Releases(bls, type) = {}
       \/ \E y \in Years \ {EndYear} :
            Cardinality(DatesIn(Releases(bls, type), {y})) # Expected(type, y)

-----------------------------------------------------------------------------
(* Candidates.  The window of a candidate is its own or None.              *)

Candidate(date, type, source, window) ==
  [date |-> date, type |-> type, source |-> source, window |-> window,
   deadline |-> FALSE, id |-> None]

(* Days, or positions of a list, in ascending order.                       *)
Ascending(days) ==
  [n \in 1 .. Cardinality(days) |->
     CHOOSE d \in days : Cardinality({e \in days : e < d}) = n - 1]

(* The entries of a list at some of its positions.                         *)
Picked(s, positions) ==
  LET order == Ascending(positions) IN [n \in DOMAIN order |-> s[order[n]]]

IsList(s) == s \in Seq(ToSet(s))

Dated(days, type, source, window) ==
  LET sorted == Ascending(days)
  IN [i \in DOMAIN sorted |-> Candidate(sorted[i], type, source, window)]

(* ECB: decisions in the archive snippets of the years, meetings with a    *)
(* press conference in the current calendar.  An index without snippets    *)
(* only costs the archive.                                                 *)
EcbDates(ecb) ==
  {entry.date : entry \in {e \in UNION {ecb.archive[y] : y \in ecb.snippets \cap Years} :
                             e.title = "decisions"}}
  \cup {entry.date : entry \in {e \in ecb.calendar : e.title \in {"day 2", "press"}}}

(* BoE: upcoming dates, in either layout; the dates pages of the years the *)
(* sitemap lists; news pages until one reaches back before the years.      *)
UpcomingDates(boe) == IF boe.upcoming # {} THEN boe.upcoming ELSE boe.legacy

NewsRead(news) ==
  LET reached == {i \in 1 .. NewsPages :
                    news[i] # Down /\ \E d \in news[i] : YearOf(d) < StartYear}
  IN 1 .. (IF reached = {} THEN NewsPages ELSE Min(reached))

BoeRaises(boe) == boe = Down \/ \E i \in NewsRead(boe.news) : boe.news[i] = Down

BoeDates(boe) ==
  UpcomingDates(boe)
  \cup UNION {boe.pages[y] : y \in boe.linked \cap Years}
  \cup UNION {boe.news[i] : i \in NewsRead(boe.news)}

(* BoJ: the tables of each page, or the dates in its text.                 *)
BojPage(page) == IF page.rows # {} THEN page.rows ELSE page.inline
BojDates(boj) == BojPage(boj.current) \cup BojPage(boj.past)

(* Federal elections of even years.                                        *)
ElectionDates == {ElectionDay(y) : y \in {year \in Years : year % 2 = 0}}

(* The last session of the fiscal year.                                    *)
PreviousSession(day) == Max({s \in Sessions : s <= day})

Deadline(year) ==
  LET last == PreviousSession(FiscalYearEnd(year))
  IN [date |-> last, type |-> "budget", source |-> "usa.gov:federal-budget-process",
      window |-> None, deadline |-> TRUE, id |-> None]

Deadlines == [i \in 1 .. EndYear - StartYear + 1 |-> Deadline(StartYear + i - 1)]

-----------------------------------------------------------------------------
(* Budget dates found in Treasury and GovInfo pages; what cannot be        *)
(* fetched is skipped.                                                     *)

IsDebtLimit(anchor) == anchor.title \in {"debt limit", "disp ending"} /\ anchor.date # NoDate
IsContinuing(law) == law # Down /\ law.continuing /\ law.expires # NoDate

TreasuryRecords(treasury) ==
  IF treasury = Down THEN <<>>
  ELSE LET found == Picked(treasury, {i \in DOMAIN treasury : IsDebtLimit(treasury[i])})
       IN [i \in DOMAIN found |->
             [date |-> found[i].date, source |-> "treasury.gov:debt-limit", url |-> found[i].url]]

GovInfoRecords(laws) ==
  LET found == Ascending({i \in DOMAIN laws : IsContinuing(laws[i])})
  IN [n \in DOMAIN found |->
        [date |-> laws[found[n]].expires, source |-> "govinfo.gov:public-law", url |-> found[n]]]

(* Of equal records the first is kept.                                     *)
BudgetRecords(budget) ==
  LET all == TreasuryRecords(budget.treasury) \o GovInfoRecords(budget.laws)
  IN Picked(all, {i \in DOMAIN all : InYears(all[i].date)
                                      /\ \A j \in 1 .. i - 1 : all[j] # all[i]})

BudgetCandidates(budget) ==
  LET records == BudgetRecords(budget)
  IN [i \in DOMAIN records |->
        Candidate(records[i].date, "budget", records[i].source, None)]

-----------------------------------------------------------------------------
(* Geopolitical signals.  The daily GPR index spikes where it exceeds the  *)
(* mean of the days before by Threshold standard deviations: with n days   *)
(* of sum S and sum of squares Q, where n v - S > k sqrt(n Q - S^2).       *)

History(series, i) == [j \in 1 .. MinHistory |-> series[i - MinHistory + j - 1].gpr]
SumOf(s) == FoldLeft(LAMBDA a, b : a + b, 0, s)
SumOfSquares(s) == FoldLeft(LAMBDA a, b : a + b * b, 0, s)
Spread(s) == MinHistory * SumOfSquares(s) - SumOf(s) * SumOf(s)

Exceeds(value, history) ==
  LET above == MinHistory * value - SumOf(history)
  IN above > 0 /\ above * above > Threshold * Threshold * Spread(history)

IsSpike(series, i) ==
  /\ i > MinHistory
  /\ Spread(History(series, i)) # 0
  /\ Exceeds(series[i].gpr, History(series, i))

(* The averages over the same threshold make the spike persistent.         *)
Persistent(series, i, average) ==
  average # NoFigure /\ Exceeds(average, History(series, i))

SpikeWindow(series, i) ==
  IF Persistent(series, i, series[i].ma30) THEN <<-2, 5>>
  ELSE IF Persistent(series, i, series[i].ma7) THEN <<-1, 3>>
  ELSE <<0, 0>>

(* An index that cannot be fetched or parsed has no spikes.                *)
GprSpikes(gpr) ==
  IF gpr \in {Down, Broken} THEN {}
  ELSE {i \in DOMAIN gpr : IsSpike(gpr, i) /\ InYears(gpr[i].date)}

GprCandidates(gpr) ==
  LET spikes == Ascending(GprSpikes(gpr))
  IN [n \in DOMAIN spikes |->
        Candidate(gpr[spikes[n]].date, "geopolitical_event", "gpr:caldara-iacoviello",
                  SpikeWindow(gpr, spikes[n]))]

GprDates(gpr) == {gpr[i].date : i \in GprSpikes(gpr)}

(* AI-GPR speaks of the spikes it has a day or a month for.                *)
AiGprDates(ai, gpr) ==
  IF ai \in {Down, Broken} THEN {}
  ELSE {d \in GprDates(gpr) : d \in ai.days \/ MonthOf(d) \in ai.months}

(* A conflict API is read page by page up to a short page or the total it  *)
(* announces; a short page before the total aborts the build.              *)
RecordsUpTo(answer, i) == FlattenSeq(SubSeq(answer.pages, 1, i))
TotalReached(answer, i) ==
  answer.total # NoFigure /\ Len(RecordsUpTo(answer, i)) >= answer.total
LastPage(answer) ==
  Min({i \in DOMAIN answer.pages :
         Len(answer.pages[i]) < PageSize \/ TotalReached(answer, i)})
RecordsRead(answer) == RecordsUpTo(answer, LastPage(answer))

(* An API that cannot be reached, or a missing token, is no records; what  *)
(* is no OSError of the fetch is not caught.                               *)
IsServed(answer) == answer \notin {Down, NoToken, Broken}

ConflictRaises(answer) ==
  \/ answer = Broken
  \/ IsServed(answer) /\ answer.total # NoFigure /\ ~TotalReached(answer, LastPage(answer))

ConflictDates(answer) ==
  IF ~IsServed(answer) THEN {}
  ELSE {d \in ToSet(RecordsRead(answer)) \ {NoDate} : InYears(d)}

-----------------------------------------------------------------------------
(* All candidates of an answer, in the order of adapters and generators.   *)

AdaptersRaise(answer) ==
  \/ answer.ecb = Down \/ BoeRaises(answer.boe) \/ answer.boj = Down
  \/ ConflictRaises(answer.acled) \/ ConflictRaises(answer.ucdp)

Gathered(answer) ==
  Dated({d \in EcbDates(answer.ecb) : InYears(d)}, "ECB_decision",
        "ecb.europa.eu:monetary-policy-decisions", None)
  \o Dated({d \in BoeDates(answer.boe) : InYears(d)}, "BOE_decision",
           "bankofengland.co.uk:mpc-decisions", None)
  \o Dated({d \in BojDates(answer.boj) : InYears(d)}, "BOJ_decision",
           "boj.or.jp:monetary-policy-meetings", None)
  \o Dated(ElectionDates, "election", "fec.gov:election-dates", <<-5, 10>>)
  \o Deadlines
  \o BudgetCandidates(answer.budget)
  \o GprCandidates(answer.gpr)
  \o Dated(ConflictDates(answer.acled), "geopolitical_event", "acled:events", None)
  \o Dated(ConflictDates(answer.ucdp), "geopolitical_event", "ucdp:ged-candidate", None)

(* What the sources serve are lists, and finitely many days.               *)
IsReadable(answer) ==
  /\ answer.gpr \in {Down, Broken} \/ IsList(answer.gpr)
  /\ answer.budget.treasury = Down \/ IsList(answer.budget.treasury)
  /\ IsList(answer.budget.laws)
  /\ ~AdaptersRaise(answer) =>
       \A days \in {EcbDates(answer.ecb), BoeDates(answer.boe), BojDates(answer.boj),
                    ConflictDates(answer.acled), ConflictDates(answer.ucdp)} :
          IsFiniteSet(days)

KeyOf(event) == <<event.type, event.date>>
KeysOf(candidates) == {KeyOf(candidates[i]) : i \in DOMAIN candidates}

(* The entries of a list with a key: where they are, the first and the last.*)
WithKey(s, key) == {i \in DOMAIN s : KeyOf(s[i]) = key}
FirstOf(s, key) == s[Min(WithKey(s, key))]
LastOf(s, key) == s[Max(WithKey(s, key))]
=============================================================================

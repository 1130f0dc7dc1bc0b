--------------------------- MODULE EventCalendar ---------------------------
(***************************************************************************)
(* The event-calendar labels of a session: the rows of the calendar file   *)
(* as the loader normalises them, the window each row opens around its     *)
(* date, the expiry week and the earnings seasons, and the volatility      *)
(* rule's "an event window has just closed".                               *)
(*                                                                         *)
(* A day is an integer.  Months and years have the same length throughout, *)
(* which keeps what the code asks of a calendar (the year of a day, the    *)
(* sessions of a year, the third Friday of a month) and drops the rest.    *)
(* Every row that is built is of the US or GLOBAL market.                  *)
(***************************************************************************)
EXTENDS Integers, FiniteSets, FiniteSetsExt, Sequences

CONSTANTS
  Sessions,         \* the NYSE sessions
  YearLength, MonthLength,
  ThirdFriday,      \* day of the month of its third Friday
  SeasonStarts,     \* days of the year on which an earnings season starts
  SeasonDays,       \* season.end_offset_days
  ExpiryWindow,     \* monthly_options.window_trading_days
  PublicationLead,  \* days before its date a scheduled event is known: 90
  Padding,          \* _SESSION_PADDING_DAYS
  AllowV2,          \* config_version is not core3-v1.0.0
  None              \* an absent field

ASSUME CalendarAssumption ==
  /\ Sessions \in SUBSET Int /\ IsFiniteSet(Sessions)
  /\ {YearLength, MonthLength, SeasonDays, PublicationLead, Padding} \subseteq Nat
  /\ MonthLength > 0 /\ YearLength % MonthLength = 0 /\ YearLength >= MonthLength
  /\ ThirdFriday \in 0 .. MonthLength - 1
  /\ ExpiryWindow[1] <= ExpiryWindow[2]
  \* a configured season ends in the year it starts in
  /\ \A o \in SeasonStarts : o \in Nat /\ o + SeasonDays < YearLength
  /\ AllowV2 \in BOOLEAN

YearOf(day) == day \div YearLength
MonthOf(day) == day \div MonthLength

-----------------------------------------------------------------------------
(* Rows.                                                                   *)

ScheduledTypes ==
  {"FOMC", "CPI", "NFP", "election", "budget", "global_rate_decision",
   "ECB_decision", "BOE_decision", "BOJ_decision"}
AllowedTypes == ScheduledTypes \cup {"geopolitical_event", "ad_hoc"}

(* A reversed window is refused when the file is loaded.                   *)
WindowIsOrdered(row) == row.window = None \/ row.window[1] <= row.window[2]

(* The frame the loader accepts; anything else raises.                     *)
Loadable(rows) == \A row \in rows : row.type \in AllowedTypes /\ WindowIsOrdered(row)

(* The day a row is known from: what it says, 90 days before a scheduled   *)
(* event, the day itself of a shock.                                       *)
PublishedOn(row) ==
  IF row.published # None THEN row.published
  ELSE IF row.type \in ScheduledTypes THEN row.date - PublicationLead
  ELSE row.date

V1Labels == [FOMC |-> "fed_week", CPI |-> "cpi_week", NFP |-> "nfp_week"]
V2Labels ==
  [budget |-> "budget_week", election |-> "election_window",
   geopolitical_event |-> "geopolitical_event",
   global_rate_decision |-> "global_rate_decision",
   ECB_decision |-> "global_rate_decision", BOE_decision |-> "global_rate_decision",
   BOJ_decision |-> "global_rate_decision"]

(* No label: an ad hoc row, or a row of phase 2 under a phase 1 config.    *)
LabelOf(type) ==
  IF type \in DOMAIN V1Labels THEN V1Labels[type]
  ELSE IF AllowV2 /\ type \in DOMAIN V2Labels THEN V2Labels[type]
  ELSE None

Precedence ==
  <<"geopolitical_event", "election_window", "fed_week", "global_rate_decision",
    "budget_week", "cpi_week", "nfp_week", "expiry_week", "earnings_season",
    "normal_calendar", "unknown">>

Windows ==
  [fed_week |-> <<-2, 2>>, cpi_week |-> <<-1, 1>>, nfp_week |-> <<-1, 1>>,
   budget_week |-> <<0, 0>>, election_window |-> <<-5, 10>>,
   geopolitical_event |-> <<0, 0>>, global_rate_decision |-> <<0, 0>>]

WindowOf(row) == IF row.window # None THEN row.window ELSE Windows[LabelOf(row.type)]

-----------------------------------------------------------------------------
(* Labels of the requested sessions.                                       *)

(* Every day a row mentions.                                               *)
RowDays(rows) == {row.date : row \in rows} \cup {PublishedOn(row) : row \in rows}

(* Slip: the rows' years are not covered.                                  *)
RequestSessions(request, rows) ==
  {s \in Sessions : YearOf(s) \in {YearOf(day) : day \in request}}

(* The sessions trading days are counted on: the whole years from the      *)
(* first to the last of the request and of the rows.                       *)
GlobalSessions(request, rows) ==
  LET years == {YearOf(day) : day \in request \cup RowDays(rows)}
  IN {s \in Sessions : YearOf(s) \in Min(years) .. Max(years)}

(* Trading days from session a to session b, counted on sessions.          *)
TradingDays(a, b, sessions) ==
  IF a <= b THEN Cardinality({s \in sessions : a < s /\ s <= b})
  ELSE -Cardinality({s \in sessions : b < s /\ s <= a})

InWindow(day, anchor, window, sessions) ==
  TradingDays(anchor, day, sessions) \in window[1] .. window[2]

(* Slip: the operator's label is not asked for.                            *)
HasLabel(row) == LabelOf(row.type) # None

MayLabel(row) ==
  /\ LabelOf(row.type) # None
  /\ row.type = "geopolitical_event" => row.approved

(* Slip: whether the row was published is not asked.                       *)
InWindowOf(row, day, sessions) ==
  /\ MayLabel(row) /\ row.date \in sessions
  /\ InWindow(day, row.date, WindowOf(row), sessions)

(* A row marks the sessions of its window from its publication on; one     *)
(* whose date is no session marks none.                                    *)
MarkedBy(row, day, sessions) ==
  /\ MayLabel(row) /\ row.date \in sessions
  /\ InWindow(day, row.date, WindowOf(row), sessions)
  /\ day >= PublishedOn(row)

(* The last session up to the third Friday, if it is in the same month.    *)
ExpirySession(month, sessions) ==
  LET upTo == {s \in sessions : s <= month * MonthLength + ThirdFriday}
  IN IF upTo = {} \/ MonthOf(Max(upTo)) # month THEN None ELSE Max(upTo)

InExpiryWeek(day, request, sessions) ==
  \E month \in {MonthOf(d) : d \in request} :
     \E expiry \in {ExpirySession(month, sessions)} :
        expiry # None /\ InWindow(day, expiry, ExpiryWindow, sessions)

SeasonsOf(year) == {year * YearLength + o : o \in SeasonStarts}

(* The configured expiry window stays in the month of its expiry.          *)
ASSUME ExpiryAssumption ==
  \A day, s \in Sessions :
     \E expiry \in {ExpirySession(MonthOf(s), Sessions)} :
        expiry # None /\ InWindow(day, expiry, ExpiryWindow, Sessions)
          => MonthOf(day) = MonthOf(s)

InEarningsSeason(day, request) ==
  \E year \in {YearOf(d) : d \in request} :
     \E start \in SeasonsOf(year) : day \in start .. start + SeasonDays

LabelsOn(day, request, rows, sessions) ==
  {LabelOf(row.type) : row \in {r \in rows : MarkedBy(r, day, sessions)}}
  \cup {l \in {"expiry_week"} : InExpiryWeek(day, request, sessions)}
  \cup {l \in {"earnings_season"} : InEarningsSeason(day, request)}

Ordered(labels) == SelectSeq(Precedence, LAMBDA l : l \in labels)

(* matching_labels of every requested session, the primary one first.      *)
Outputs(request, rows) ==
  [day \in request |->
     LET labels == LabelsOn(day, request, rows, GlobalSessions(request, rows))
     IN IF labels = {} THEN <<"normal_calendar">> ELSE Ordered(labels)]

(* The point classifier asks for one session.                              *)
Classify(day, rows) == Outputs({day}, rows)[day]

-----------------------------------------------------------------------------
(* The sessions on which the window of a FOMC, CPI or NFP row closed       *)
(* within the last trailing sessions.                                      *)
PaddedSessions(request, rows) ==
  LET days == request \cup RowDays(rows)
  IN {s \in Sessions : s \in Min(days) - Padding .. Max(days) + Padding}

ClosedWithin(row, day, trailing, sessions) ==
  /\ row.type \in DOMAIN V1Labels /\ row.date \in sessions
  /\ LET after == Windows[V1Labels[row.type]][2]
     IN TradingDays(row.date, day, sessions) \in after + 1 .. after + trailing
  /\ day >= PublishedOn(row)

(* A calendar without rows is a broken dependency: None is its ValueError.  *)
WindowJustPassed(request, rows, trailing) ==
  IF rows = {} THEN None ELSE
  [day \in request |->
     \E row \in rows : ClosedWithin(row, day, trailing, PaddedSessions(request, rows))]
=============================================================================

--------------------------- MODULE FetchPrograms ---------------------------
(* What each fetcher of src/regime_data_fetch does to the files under      *)
(* data/raw and to the acquisition database, in its order: a program is a  *)
(* sequence of steps, and a fetch mode has one program per outcome of the  *)
(* choices its code makes (a fallback source, a file that is there).  Any  *)
(* step may raise; Acquisition says what that leaves behind.               *)
(*                                                                         *)
(* The content of a data file is a table, a function from the dates it has *)
(* rows for to the revision of each row.  Reports are files without rows.  *)
EXTENDS Functions, FiniteSetsExt, Integers, Sequences

(* The files under data/raw, and those an operator puts in place.          *)
Files ==
  {"daily_ohlcv", "macro", "cpi_vintages", "sentiment", "us_events", "pmi", "pmi_history",
   "pit", "fomc_minutes", "powell_speeches", "nowcast_json", "cpi_nowcast",
   "news_workbook", "news_sentiment", "eps_snapshots", "eps_weekly", "wayback_index",
   "wayback_xlsx", "eps_timeline", "usd_index", "raw_archive", "investing",
   "sentiment_seed", "pmi_tables", "eps_workbook", "usd_csv", "archive",
   "market_report", "macro_report", "sentiment_report", "event_report", "pmi_report",
   "pit_report", "fomc_report", "powell_report", "nowcast_report", "news_report",
   "eps_report", "wayback_report", "usd_report", "investing_report"}

CONSTANTS
  NoFile,   \* what a path holds that does not exist
  Torn      \* a file whose write was broken off

IsTable(content) == content \notin {NoFile, Torn}
Report == [d \in {} |-> 0]

Step(op, file, from, how) == [op |-> op, file |-> file, from |-> from, how |-> how]

(* Enter `with store.run(...)`.                                            *)
Open == Step("open", "none", "none", "none")
(* Read the source, and read it and keep the response as an artifact.      *)
Download == Step("download", "none", "none", "none")
Fetch(source) == Step("fetch", source, "none", "none")
(* Read a file, if there is one, before anything is written.               *)
Inspect(file) == Step("inspect", file, "none", "none")
(* Keep a file that is there as an artifact (record_file_artifact).        *)
Keep(file) == Step("keep", file, "none", "none")
(* Write a file from the response ("net") or from another file.            *)
Save(file, from, how) == Step("save", file, from, how)
WriteReport(file) == Step("save", file, "report", "replace")
(* record_output, with and without its artifact record.                    *)
Record(file) == Step("record", file, "none", "with_record")
RecordOnly(file) == Step("record", file, "none", "declined")
Link(file, source) == Step("link", file, source, "none")
Checkpoint(source) == Step("checkpoint", source, "none", "none")

Run(steps) == [steps |-> steps, status |-> "ok"]
IsRun(prog) ==
  /\ prog = [steps |-> prog.steps, status |-> prog.status]
  /\ prog.steps \in Seq(Range(prog.steps)) /\ prog.status \in {"ok", "skipped"}

---------------------------------------------------------------------------
(* Row policies: what a file holds after new rows have met the old ones.   *)

OldRows(old) == IF old = NoFile THEN Report ELSE old
LastRow(table) ==
  LET dates == DOMAIN table IN
  IF dates = {} THEN table ELSE [d \in {Max(dates)} |-> table[d]]
Over(new, old) ==
  [d \in DOMAIN new \cup DOMAIN old |-> IF d \in DOMAIN new THEN new[d] ELSE old[d]]
Newer(old, new) ==
  [d \in {d \in DOMAIN new : \A e \in DOMAIN old : d > e} |-> new[d]]

(* A plausible slip: what was fetched takes the place of the file.         *)
FetchedOnly(old, new) == new

(* _merge_existing_rows: on one key the row that was fetched is kept.      *)
MergeExisting(old, new) == Over(new, OldRows(old))

(* _merge_existing_history_rows: the rows of one period are sorted by      *)
(* their release, with the existing ones first, and the last is kept; a    *)
(* revision has the release timestamp its period prescribes.               *)
MergeHistory(old, new) == Over(new, OldRows(old))

(* update_cpi_nowcast_parquet: existing rows of a parsed date are dropped. *)
MergeNowcast(old, new) == Over(new, OldRows(old))

(* update_aaii_parquet: only rows after the last known date are parsed.    *)
AppendNewer(old, new) == Over(OldRows(old), Newer(OldRows(old), new))

(* append_weekly_eps_snapshot: the workbook's current row, by its date.    *)
AppendWeekly(old, new) == Over(LastRow(new), OldRows(old))

(* seed_weekly_history_from_wayback_timeline: existing rows win.           *)
SeedWeekly(old, new) == Over(OldRows(old), new)

(* What Save leaves in a file, given what it held and the rows to write.   *)
Saved(how, old, new) ==
  CASE how \in {"merge", "rewrite"} -> MergeExisting(old, new)
    [] how = "history" -> MergeHistory(old, new)
    [] how = "history_last" -> MergeHistory(old, LastRow(new))
    [] how = "nowcast" -> MergeNowcast(old, new)
    [] how \in {"append", "bootstrap"} -> AppendNewer(old, new)
    [] how = "weekly" -> AppendWeekly(old, new)
    [] how = "seed" -> SeedWeekly(old, new)
    [] how = "last" -> LastRow(new)
    [] how = "if_absent" -> IF old = NoFile THEN new ELSE old
    [] how = "replace" -> new

(* The policies that read the file they are about to write.                *)
Reads(how) == how \in {"merge", "rewrite", "history", "history_last", "nowcast",
                       "append", "weekly", "seed"}

---------------------------------------------------------------------------
(* The programs.  Loops over series, pages and articles are one step: each *)
(* iteration does what the first does.                                     *)

(* run_market_fetch: the merged tree is written after the old one has been *)
(* removed; one of its files stands for the tree in the output row.        *)
MarketPrograms ==
  {Run(<<Open, Fetch("bars"), Save("daily_ohlcv", "net", "rewrite"),
         WriteReport("market_report"), Record("daily_ohlcv"), Record("market_report")>>)}

(* run_macro_fetch, with and without the vintages of CPI.                  *)
MacroPrograms ==
  LET series == <<Open, Fetch("fred")>>
      vintages == <<Fetch("fred_realtime"), Save("cpi_vintages", "net", "merge")>>
      macro == <<Save("macro", "net", "merge"), WriteReport("macro_report"),
                 Record("macro")>>
  IN {Run(series \o macro \o <<Record("macro_report")>>),
      Run(series \o vintages \o macro
            \o <<Record("cpi_vintages"), Record("macro_report")>>)}

(* run_sentiment_fetch: without the parquet and without its seed the run   *)
(* raises when the mode was asked for by name, and is skipped otherwise.   *)
SentimentPrograms(files, required) ==
  LET bootstrap == files["sentiment"] = NoFile
      update == IF bootstrap THEN Save("sentiment", "sentiment_seed", "bootstrap")
                ELSE Save("sentiment", "net", "append")
      canonical == <<Record("sentiment")>>
      closing == <<Checkpoint("aaii"), RecordOnly("sentiment_report")>>
  IN IF bootstrap /\ files["sentiment_seed"] = NoFile
     THEN {IF required
           THEN Run(<<Open, Keep("sentiment_seed")>>)
           ELSE [steps |-> <<Open, WriteReport("sentiment_report"),
                             RecordOnly("sentiment_report")>>, status |-> "skipped"]}
     ELSE {Run(<<Open, Download, update, WriteReport("sentiment_report")>>
            \o (IF files["sentiment_seed"] # NoFile
                THEN <<Keep("sentiment_seed")>> \o canonical
                     \o <<Link("sentiment", "sentiment_seed")>>
                ELSE canonical)
            \o closing)}

(* run_us_event_calendar_fetch: FOMC pages, then BLS pages.                *)
EventPrograms ==
  {Run(<<Open, Fetch("fomc_calendar"), Fetch("bls"), Save("us_events", "net", "replace"),
         WriteReport("event_report"), Record("us_events"), Record("event_report")>>)}

(* run_pmi_fetch: the primary source, the backup when it raises or is      *)
(* stale; the history comes from the primary whenever it answered.  The    *)
(* backup knows the latest period only.                                    *)
PmiPublished(history) ==
  <<Inspect("pmi_history"), Save("pmi", "net", "last"), Save("pmi_history", "net", history),
    WriteReport("pmi_report"), Record("pmi"), Record("pmi_history"), Record("pmi_report")>>
PmiPrograms ==
  {Run(<<Open, Fetch("dbnomics")>> \o PmiPublished("history")),
   Run(<<Open, Fetch("dbnomics"), Fetch("tradingeconomics")>> \o PmiPublished("history")),
   Run(<<Open, Fetch("tradingeconomics")>> \o PmiPublished("history_last"))}

(* run_manual_pmi_history_import: the pasted tables replace the history.   *)
ManualPmiPrograms ==
  {Run(<<Open, Keep("pmi_tables"), Save("pmi", "pmi_tables", "last"),
         Save("pmi_history", "pmi_tables", "replace"), WriteReport("pmi_report"),
         Record("pmi"), Record("pmi_history"), Record("pmi_report")>>)}

(* run_pit_constituents_fetch parses before it keeps the response.         *)
PitPrograms ==
  {Run(<<Open, Fetch("pit_csv"), Save("pit", "net", "replace"), WriteReport("pit_report"),
         Record("pit"), Record("pit_report")>>)}

(* run_fomc_minutes_fetch: listings first, then the articles they name.    *)
FomcPrograms ==
  {Run(<<Open, Fetch("fomc_listing"), Fetch("fomc_article"),
         Save("fomc_minutes", "net", "replace"), WriteReport("fomc_report"),
         Record("fomc_minutes"), Record("fomc_report")>>)}

(* run_powell_speeches_fetch: index and year pages, then the articles.     *)
PowellPrograms ==
  {Run(<<Open, Fetch("powell_index"), Fetch("powell_article"),
         Save("powell_speeches", "net", "replace"), WriteReport("powell_report"),
         Record("powell_speeches"), Record("powell_report")>>)}

(* run_cleveland_fed_nowcast_fetch: when the download fails, the file of   *)
(* an earlier download, if there is one, is parsed in its place.           *)
ClevelandPrograms(files) ==
  LET parse == <<Save("cpi_nowcast", "nowcast_json", "nowcast"),
                 WriteReport("nowcast_report"), Keep("nowcast_json"),
                 Record("cpi_nowcast"), Record("nowcast_report"),
                 Link("cpi_nowcast", "nowcast_json")>>
  IN {Run(<<Open, Download, Save("nowcast_json", "net", "replace")>> \o parse)}
       \cup (IF files["nowcast_json"] = NoFile THEN {} ELSE {Run(<<Open>> \o parse)})

(* run_sf_fed_news_sentiment_fetch: the workbook, then its table.          *)
SfFedPrograms ==
  {Run(<<Open, Download, Save("news_workbook", "net", "replace"),
         Save("news_sentiment", "net", "replace"), WriteReport("news_report"),
         Keep("news_workbook"), Record("news_sentiment"), Record("news_report"),
         Link("news_sentiment", "news_workbook")>>)}

(* run_aggregate_eps_fetch of an operator's workbook.                      *)
EpsSteps ==
  <<Open, Keep("eps_workbook"), Save("eps_snapshots", "eps_workbook", "replace"),
    Save("eps_weekly", "eps_workbook", "weekly"), WriteReport("eps_report"),
    Record("eps_snapshots"), Record("eps_report")>>

(* run_aggregate_eps_auto_fetch: the workbook is downloaded only when      *)
(* there is none.                                                          *)
EpsAutoPrograms(files) ==
  {Run((IF files["eps_workbook"] = NoFile
        THEN <<Download, Save("eps_workbook", "net", "replace")>> ELSE <<>>)
       \o EpsSteps)}

(* run_wayback_aggregate_eps_fetch: a snapshot file that is there is not   *)
(* downloaded again; the weekly history takes the dates it lacks.          *)
WaybackPrograms ==
  {Run(<<Open, Download, Save("wayback_index", "net", "replace"), Fetch("cdx"),
         Save("wayback_xlsx", "net", "if_absent"), Keep("wayback_xlsx"),
         Save("eps_timeline", "wayback_xlsx", "replace"),
         Save("eps_weekly", "eps_timeline", "seed"), WriteReport("wayback_report"),
         Record("wayback_index"), Record("eps_timeline"), Record("eps_weekly"),
         Record("wayback_report")>>)}

(* run_local_usd_index_import of an operator's CSV.                        *)
UsdIndexPrograms ==
  {Run(<<Open, Keep("usd_csv"), Save("usd_index", "usd_csv", "replace"),
         WriteReport("usd_report"), Record("usd_index"), Record("usd_report")>>)}

(* run_local_investing_archive_import: the raw files are copied and the    *)
(* tables written before the run is entered.                               *)
InvestingArchiveSteps ==
  <<Save("raw_archive", "archive", "replace"), Save("investing", "archive", "replace"),
    Open, Keep("raw_archive"), Record("investing"), Link("investing", "raw_archive"),
    WriteReport("investing_report"), Record("investing_report")>>

(* run_investing_live_fetch captures an archive and imports it.            *)
InvestingLivePrograms ==
  {Run(<<Download, Save("archive", "net", "replace")>> \o InvestingArchiveSteps)}

Modes ==
  {"market", "macro", "sentiment", "events", "pmi", "pmi_manual", "pit", "fomc", "powell",
   "cleveland_fed_nowcast", "sf_fed_news_sentiment", "eps", "eps_spglobal_auto", "eps_wayback",
   "usd_index_local", "investing_archive_local", "investing_live"}

(* FETCH_MODE_REGISTRY and the operator-assisted branches of main; the     *)
(* parser refuses any other mode.                                          *)
Programs(mode, files, required) ==
  CASE mode = "market" -> MarketPrograms
    [] mode = "macro" -> MacroPrograms
    [] mode = "sentiment" -> SentimentPrograms(files, required)
    [] mode = "events" -> EventPrograms
    [] mode = "pmi" -> PmiPrograms
    [] mode = "pmi_manual" -> ManualPmiPrograms
    [] mode = "pit" -> PitPrograms
    [] mode = "fomc" -> FomcPrograms
    [] mode = "powell" -> PowellPrograms
    [] mode = "cleveland_fed_nowcast" -> ClevelandPrograms(files)
    [] mode = "sf_fed_news_sentiment" -> SfFedPrograms
    [] mode = "eps" -> {Run(EpsSteps)}
    [] mode = "eps_spglobal_auto" -> EpsAutoPrograms(files)
    [] mode = "eps_wayback" -> WaybackPrograms
    [] mode = "usd_index_local" -> UsdIndexPrograms
    [] mode = "investing_archive_local" -> {Run(InvestingArchiveSteps)}
    [] mode = "investing_live" -> InvestingLivePrograms
    [] OTHER -> {}

SavedBy(prog) == {step.file : step \in {s \in Range(prog.steps) : s.op = "save"}}

(* The "paths" of a mode's report: the files a manifest may be made of.    *)
ReportPaths(mode, prog) ==
  CASE mode = "market" -> {"daily_ohlcv"}
    [] mode = "macro" -> {"macro", "cpi_vintages"} \cap SavedBy(prog)
    [] mode = "sentiment" -> {"sentiment"}
    [] mode = "events" -> {"us_events"}
    [] mode = "pmi" -> {"pmi", "pmi_history"}
    [] mode = "pmi_manual" -> {"pmi", "pmi_history", "pmi_tables"}
    [] mode = "pit" -> {"pit"}
    [] mode = "fomc" -> {"fomc_minutes"}
    [] mode = "powell" -> {"powell_speeches"}
    [] mode = "cleveland_fed_nowcast" -> {"cpi_nowcast"}
    [] mode = "sf_fed_news_sentiment" -> {"news_sentiment"}
    [] mode \in {"eps", "eps_spglobal_auto"} -> {"eps_snapshots", "eps_weekly"}
    [] mode = "eps_wayback" -> {"wayback_xlsx", "wayback_index", "eps_timeline", "eps_weekly"}
    [] mode = "usd_index_local" -> {"usd_index"}
    [] mode \in {"investing_archive_local", "investing_live"} -> {"investing", "raw_archive"}

=============================================================================

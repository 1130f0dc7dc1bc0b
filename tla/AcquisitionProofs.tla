------------------------- MODULE AcquisitionProofs -------------------------
(***************************************************************************)
(* Proofs about the fetch programs, the acquisition database and its       *)
(* consolidation for every registry, pool, set of scripts, served tables   *)
(* and number of faults.                                                   *)
(***************************************************************************)
EXTENDS Acquisition, TLAPS, FiniteSetTheorems, WellFoundedInduction

(***************************************************************************)
(* Tables.                                                                 *)
(***************************************************************************)
LEMMA TableShape ==
  ASSUME NEW f
  PROVE  f \in Table <=> DOMAIN f \subseteq Dates /\ f \in [DOMAIN f -> Revisions]
BY DEF Table

LEMMA ReportIsTable == Report \in Table
<1>1. DOMAIN Report = {} /\ Report = [d \in {} |-> Report[d]]
  BY DEF Report
<1> QED
  BY <1>1, TableShape

(* A finite nonempty set of integers has a maximum: a smallest set without *)
(* one would lose an element and still have none.                          *)
LEMMA MaxExists ==
  ASSUME NEW S \in SUBSET Int, IsFiniteSet(S), S # {}
  PROVE  Max(S) \in S /\ \A x \in S : x <= Max(S)
<1> DEFINE HasMax(T) == \E x \in T : \A y \in T : x >= y
           Bad == {T \in SUBSET S : T # {} /\ ~HasMax(T)}
           Sizes == {Cardinality(T) : T \in Bad}
           R == OpToRel(<, Nat)
<1>1. \A T \in SUBSET S : IsFiniteSet(T) /\ Cardinality(T) \in Nat
  BY FS_Subset, FS_CardinalityType
<1>2. Bad = {}
  <2> SUFFICES ASSUME Bad # {} PROVE FALSE
    OBVIOUS
  <2>1. Sizes # {} /\ Sizes \subseteq Nat
    BY <1>1
  <2>2. IsWellFoundedOn(R, Nat)
    BY NatLessThanWellFounded
  <2>3. PICK n \in Sizes : \A k \in Nat : <<k, n>> \in R => k \notin Sizes
    BY <2>1, <2>2, WFMin
  <2>4. \A k \in Nat : k < n => k \notin Sizes
    BY <2>1, <2>3 DEF OpToRel
  <2>5. PICK T \in Bad : Cardinality(T) = n
    BY <2>3
  <2>6. PICK x \in T : TRUE
    BY <2>5
  <2>7. IsFiniteSet(T \ {x}) /\ Cardinality(T \ {x}) = n - 1 /\ n - 1 \in Nat /\ n \in Nat
    <3>1. IsFiniteSet(T) /\ n \in Nat
      BY <1>1, <2>5
    <3>2. IsFiniteSet(T \ {x}) /\ Cardinality(T \ {x}) = n - 1
      BY <2>5, <2>6, <3>1, FS_RemoveElement
    <3>3. Cardinality(T \ {x}) \in Nat
      BY <3>2, FS_CardinalityType
    <3> QED
      BY <3>1, <3>2, <3>3
  <2>8. T \ {x} \notin Bad
    <3>1. n - 1 \notin Sizes
      BY <2>4, <2>7
    <3> QED
      BY <2>7, <3>1
  <2>9. T \ {x} \in SUBSET S
    BY <2>5
  <2>10. CASE T \ {x} = {}
    <3>1. T = {x} /\ x \in Int
      BY <2>5, <2>6, <2>10
    <3> QED
      BY <2>5, <3>1
  <2>11. CASE T \ {x} # {}
    <3>1. PICK y \in T \ {x} : \A z \in T \ {x} : y >= z
      BY <2>8, <2>9, <2>11
    <3>2. x \in Int /\ \A z \in T : z \in Int
      BY <2>5, <2>6
    <3>3. HasMax(T)
      <4>1. CASE x >= y
        <5>1. \A z \in T : x >= z
          BY <3>1, <3>2, <4>1
        <5> QED
          BY <2>6, <5>1
      <4>2. CASE ~(x >= y)
        <5>1. \A z \in T : y >= z
          BY <3>1, <3>2, <4>2
        <5> QED
          BY <3>1, <5>1
      <4> QED
        BY <4>1, <4>2
    <3> QED
      BY <2>5, <3>3
  <2> QED
    BY <2>10, <2>11
<1>3. HasMax(S)
  BY <1>2
<1> QED
  BY <1>3 DEF Max

(* The row policies turn tables into tables, and every policy that reads   *)
(* the file keeps the dates the file has.                                  *)
LEMMA OverIsTable ==
  ASSUME NEW f \in Table, NEW g \in Table
  PROVE  Over(f, g) \in Table /\ DOMAIN Over(f, g) = DOMAIN f \cup DOMAIN g
<1>1. DOMAIN Over(f, g) = DOMAIN f \cup DOMAIN g
  BY DEF Over
<1>2. \A d \in DOMAIN Over(f, g) : Over(f, g)[d] \in Revisions
  BY TableShape DEF Over
<1>3. Over(f, g) \in [DOMAIN Over(f, g) -> Revisions]
  BY <1>2 DEF Over
<1> QED
  BY <1>1, <1>3, TableShape

LEMMA NewerIsTable ==
  ASSUME NEW f \in Table, NEW g \in Table
  PROVE  Newer(f, g) \in Table
<1>1. DOMAIN Newer(f, g) \subseteq DOMAIN g
  BY DEF Newer
<1>2. Newer(f, g) \in [DOMAIN Newer(f, g) -> Revisions]
  BY TableShape DEF Newer
<1> QED
  BY <1>1, <1>2, TableShape

LEMMA LastRowIsTable ==
  ASSUME NEW f \in Table
  PROVE  LastRow(f) \in Table
<1>1. CASE DOMAIN f = {}
  BY <1>1 DEF LastRow
<1>2. CASE DOMAIN f # {}
  <2>1. DOMAIN f \in SUBSET Int /\ IsFiniteSet(DOMAIN f)
    BY TableShape, AcquisitionAssumption, FS_Subset
  <2>2. Max(DOMAIN f) \in DOMAIN f
    BY <1>2, <2>1, MaxExists
  <2>3. LastRow(f) = [d \in {Max(DOMAIN f)} |-> f[d]]
    BY <1>2 DEF LastRow
  <2>4. LastRow(f) \in [{Max(DOMAIN f)} -> Revisions] /\ DOMAIN LastRow(f) \subseteq Dates
    BY <2>2, <2>3, TableShape
  <2> QED
    BY <2>3, <2>4, TableShape
<1> QED
  BY <1>1, <1>2

LEMMA OldRowsIsTable ==
  ASSUME NEW old \in Table \cup {NoFile}
  PROVE  OldRows(old) \in Table
BY ReportIsTable DEF OldRows

Policies == {"merge", "rewrite", "history", "history_last", "nowcast", "append", "weekly",
             "seed", "bootstrap", "last", "if_absent", "replace"}

LEMMA SavedIsTable ==
  ASSUME NEW how \in Policies \ {"if_absent"}, NEW old \in Contents, NEW new \in Table,
         Reads(how) \/ how = "bootstrap" => old # Torn
  PROVE  /\ Saved(how, old, new) \in Table
         /\ Reads(how) /\ old # NoFile => DOMAIN old \subseteq DOMAIN Saved(how, old, new)
<1>1. CASE how \in {"last", "replace"}
  BY <1>1, LastRowIsTable DEF Saved, Reads
<1>2. CASE how \in {"merge", "rewrite", "history", "history_last", "nowcast", "append", "weekly",
                    "seed", "bootstrap"}
  <2>1. old \in Table \cup {NoFile} /\ OldRows(old) \in Table
    BY <1>2, OldRowsIsTable DEF Contents, Reads
  <2>2. LastRow(new) \in Table /\ Newer(OldRows(old), new) \in Table
    BY <2>1, LastRowIsTable, NewerIsTable
  <2>3. Saved(how, old, new) \in
          {Over(new, OldRows(old)), Over(LastRow(new), OldRows(old)), Over(OldRows(old), new),
           Over(OldRows(old), Newer(OldRows(old), new))}
    BY <1>2 DEF Saved, MergeExisting, MergeHistory, MergeNowcast, AppendNewer, AppendWeekly,
                SeedWeekly
  <2>4. /\ Saved(how, old, new) \in Table
        /\ DOMAIN OldRows(old) \subseteq DOMAIN Saved(how, old, new)
    <3>1. CASE Saved(how, old, new) = Over(new, OldRows(old))
      <4>1. DOMAIN Over(new, OldRows(old)) = DOMAIN new \cup DOMAIN OldRows(old)
            /\ Over(new, OldRows(old)) \in Table
        BY <2>1, OverIsTable
      <4> QED
        BY <3>1, <4>1
    <3>2. CASE Saved(how, old, new) = Over(LastRow(new), OldRows(old))
      <4>1. DOMAIN Over(LastRow(new), OldRows(old)) = DOMAIN LastRow(new) \cup DOMAIN OldRows(old)
            /\ Over(LastRow(new), OldRows(old)) \in Table
        BY <2>1, <2>2, OverIsTable
      <4> QED
        BY <3>2, <4>1
    <3>3. CASE Saved(how, old, new) = Over(OldRows(old), new)
      <4>1. DOMAIN Over(OldRows(old), new) = DOMAIN OldRows(old) \cup DOMAIN new
            /\ Over(OldRows(old), new) \in Table
        BY <2>1, OverIsTable
      <4> QED
        BY <3>3, <4>1
    <3>4. CASE Saved(how, old, new) = Over(OldRows(old), Newer(OldRows(old), new))
      <4>1. DOMAIN Over(OldRows(old), Newer(OldRows(old), new))
              = DOMAIN OldRows(old) \cup DOMAIN Newer(OldRows(old), new)
            /\ Over(OldRows(old), Newer(OldRows(old), new)) \in Table
        BY <2>1, <2>2, OverIsTable
      <4> QED
        BY <3>4, <4>1
    <3> QED
      BY <2>3, <3>1, <3>2, <3>3, <3>4
  <2> QED
    BY <2>4 DEF OldRows
<1> QED
  BY <1>1, <1>2 DEF Policies

(***************************************************************************)
(* The programs.                                                           *)
(***************************************************************************)
(* Files an operator provides and no program writes.                       *)
Provided == {"sentiment_seed", "pmi_tables"}

Saves(step, f) == step.op = "save" /\ step.file = f
Bootstraps(step) == step.op = "save" /\ step.how = "bootstrap"

(* What a program writes and under which policy.  Only the sentiment file  *)
(* is bootstrapped; a history is otherwise written by a policy that reads  *)
(* it, or replaced by the manual import of PMI tables.                     *)
SaveIsSound(mode, step) ==
  step.op = "save" =>
    /\ step.file \in Files \ Provided /\ step.from \in Files \cup {"net", "report"}
    /\ step.how \in Policies
    /\ step.how = "if_absent" => step.file = "wayback_xlsx"
    /\ step.how = "bootstrap" => step.file = "sentiment" /\ step.from \in Files
    /\ step.file = "sentiment" => mode = "sentiment"
    /\ step.file \in Histories => \/ Reads(step.how) /\ step.from # "report"
                                  \/ step.how = "bootstrap"
                                  \/ mode = "pmi_manual" /\ step.file = "pmi_history"

(* The run is entered once, before anything is recorded.                   *)
OpensAt(prog, k) ==
  /\ k \in DOMAIN prog.steps /\ prog.steps[k].op = "open"
  /\ \A i \in DOMAIN prog.steps :
       /\ i # k => prog.steps[i].op # "open"
       /\ i < k => prog.steps[i].op \in {"download", "save"}

(* A reported file is written by the program, provided or not there.       *)
Pinnable(mode, prog) == ReportPaths(mode, prog) \ {"wayback_xlsx"}
Writes(prog, f) == \E i \in DOMAIN prog.steps : Saves(prog.steps[i], f)

ProgramIsSound(mode, prog) ==
  /\ IsRun(prog)
  /\ \A i \in DOMAIN prog.steps : SaveIsSound(mode, prog.steps[i])
  /\ \E k \in DOMAIN prog.steps : OpensAt(prog, k)
  /\ \A i, j \in DOMAIN prog.steps :
        Bootstraps(prog.steps[i]) /\ Saves(prog.steps[j], "sentiment") => i = j
  /\ Pinnable(mode, prog) \subseteq Files

StartIsSound(mode, prog, present) ==
  /\ (\E i \in DOMAIN prog.steps : Bootstraps(prog.steps[i])) => present["sentiment"] = NoFile
  /\ \A f \in Pinnable(mode, prog) :
        Writes(prog, f) \/ f \in Provided \/ present[f] = NoFile

(* Every program of a mode is sound, whatever files it finds.              *)
Sound(mode, prog, present) == ProgramIsSound(mode, prog) /\ StartIsSound(mode, prog, present)

LEMMA MarketSound ==
  ASSUME NEW prog \in MarketPrograms, NEW present
  PROVE  Sound("market", prog, present)
<1> USE DEF MarketPrograms, Run
<1>1. IsRun(prog)
  BY DEF IsRun, Range
<1> USE DEF Open, Download, Fetch, Inspect, Keep, Save, WriteReport, Record, Link, Step
<1>2. \A i \in DOMAIN prog.steps : SaveIsSound("market", prog.steps[i]) /\ ~Bootstraps(prog.steps[i])
  BY DEF SaveIsSound, Files, Provided, Policies, Histories, Reads, Bootstraps
<1>3. OpensAt(prog, 1)
  BY DEF OpensAt
<1>4. \A f \in Pinnable("market", prog) : f \in Files /\ (f \in Provided \/ Writes(prog, f))
  BY DEF Pinnable, ReportPaths, Writes, Saves, Files, Provided
<1> QED
  BY <1>1, <1>2, <1>3, <1>4 DEF Sound, ProgramIsSound, StartIsSound, OpensAt

LEMMA EventsSound ==
  ASSUME NEW prog \in EventPrograms, NEW present
  PROVE  Sound("events", prog, present)
<1> USE DEF EventPrograms, Run
<1>1. IsRun(prog)
  BY DEF IsRun, Range
<1> USE DEF Open, Download, Fetch, Inspect, Keep, Save, WriteReport, Record, Link, Step
<1>2. \A i \in DOMAIN prog.steps : SaveIsSound("events", prog.steps[i]) /\ ~Bootstraps(prog.steps[i])
  BY DEF SaveIsSound, Files, Provided, Policies, Histories, Reads, Bootstraps
<1>3. OpensAt(prog, 1)
  BY DEF OpensAt
<1>4. \A f \in Pinnable("events", prog) : f \in Files /\ (f \in Provided \/ Writes(prog, f))
  BY DEF Pinnable, ReportPaths, Writes, Saves, Files, Provided
<1> QED
  BY <1>1, <1>2, <1>3, <1>4 DEF Sound, ProgramIsSound, StartIsSound, OpensAt

LEMMA ManualPmiSound ==
  ASSUME NEW prog \in ManualPmiPrograms, NEW present
  PROVE  Sound("pmi_manual", prog, present)
<1> USE DEF ManualPmiPrograms, Run
<1>1. IsRun(prog)
  BY DEF IsRun, Range
<1> USE DEF Open, Download, Fetch, Inspect, Keep, Save, WriteReport, Record, Link, Step
<1>2. \A i \in DOMAIN prog.steps : SaveIsSound("pmi_manual", prog.steps[i]) /\ ~Bootstraps(prog.steps[i])
  BY DEF SaveIsSound, Files, Provided, Policies, Histories, Reads, Bootstraps
<1>3. OpensAt(prog, 1)
  BY DEF OpensAt
<1>4. \A f \in Pinnable("pmi_manual", prog) : f \in Files /\ (f \in Provided \/ Writes(prog, f))
  BY DEF Pinnable, ReportPaths, Writes, Saves, Files, Provided
<1> QED
  BY <1>1, <1>2, <1>3, <1>4 DEF Sound, ProgramIsSound, StartIsSound, OpensAt

LEMMA PitSound ==
  ASSUME NEW prog \in PitPrograms, NEW present
  PROVE  Sound("pit", prog, present)
<1> USE DEF PitPrograms, Run
<1>1. IsRun(prog)
  BY DEF IsRun, Range
<1> USE DEF Open, Download, Fetch, Inspect, Keep, Save, WriteReport, Record, Link, Step
<1>2. \A i \in DOMAIN prog.steps : SaveIsSound("pit", prog.steps[i]) /\ ~Bootstraps(prog.steps[i])
  BY DEF SaveIsSound, Files, Provided, Policies, Histories, Reads, Bootstraps
<1>3. OpensAt(prog, 1)
  BY DEF OpensAt
<1>4. \A f \in Pinnable("pit", prog) : f \in Files /\ (f \in Provided \/ Writes(prog, f))
  BY DEF Pinnable, ReportPaths, Writes, Saves, Files, Provided
<1> QED
  BY <1>1, <1>2, <1>3, <1>4 DEF Sound, ProgramIsSound, StartIsSound, OpensAt

LEMMA FomcSound ==
  ASSUME NEW prog \in FomcPrograms, NEW present
  PROVE  Sound("fomc", prog, present)
<1> USE DEF FomcPrograms, Run
<1>1. IsRun(prog)
  BY DEF IsRun, Range
<1> USE DEF Open, Download, Fetch, Inspect, Keep, Save, WriteReport, Record, Link, Step
<1>2. \A i \in DOMAIN prog.steps : SaveIsSound("fomc", prog.steps[i]) /\ ~Bootstraps(prog.steps[i])
  BY DEF SaveIsSound, Files, Provided, Policies, Histories, Reads, Bootstraps
<1>3. OpensAt(prog, 1)
  BY DEF OpensAt
<1>4. \A f \in Pinnable("fomc", prog) : f \in Files /\ (f \in Provided \/ Writes(prog, f))
  BY DEF Pinnable, ReportPaths, Writes, Saves, Files, Provided
<1> QED
  BY <1>1, <1>2, <1>3, <1>4 DEF Sound, ProgramIsSound, StartIsSound, OpensAt

LEMMA PowellSound ==
  ASSUME NEW prog \in PowellPrograms, NEW present
  PROVE  Sound("powell", prog, present)
<1> USE DEF PowellPrograms, Run
<1>1. IsRun(prog)
  BY DEF IsRun, Range
<1> USE DEF Open, Download, Fetch, Inspect, Keep, Save, WriteReport, Record, Link, Step
<1>2. \A i \in DOMAIN prog.steps : SaveIsSound("powell", prog.steps[i]) /\ ~Bootstraps(prog.steps[i])
  BY DEF SaveIsSound, Files, Provided, Policies, Histories, Reads, Bootstraps
<1>3. OpensAt(prog, 1)
  BY DEF OpensAt
<1>4. \A f \in Pinnable("powell", prog) : f \in Files /\ (f \in Provided \/ Writes(prog, f))
  BY DEF Pinnable, ReportPaths, Writes, Saves, Files, Provided
<1> QED
  BY <1>1, <1>2, <1>3, <1>4 DEF Sound, ProgramIsSound, StartIsSound, OpensAt

LEMMA SfFedSound ==
  ASSUME NEW prog \in SfFedPrograms, NEW present
  PROVE  Sound("sf_fed_news_sentiment", prog, present)
<1> USE DEF SfFedPrograms, Run
<1>1. IsRun(prog)
  BY DEF IsRun, Range
<1> USE DEF Open, Download, Fetch, Inspect, Keep, Save, WriteReport, Record, Link, Step
<1>2. \A i \in DOMAIN prog.steps : SaveIsSound("sf_fed_news_sentiment", prog.steps[i]) /\ ~Bootstraps(prog.steps[i])
  BY DEF SaveIsSound, Files, Provided, Policies, Histories, Reads, Bootstraps
<1>3. OpensAt(prog, 1)
  BY DEF OpensAt
<1>4. \A f \in Pinnable("sf_fed_news_sentiment", prog) : f \in Files /\ (f \in Provided \/ Writes(prog, f))
  BY DEF Pinnable, ReportPaths, Writes, Saves, Files, Provided
<1> QED
  BY <1>1, <1>2, <1>3, <1>4 DEF Sound, ProgramIsSound, StartIsSound, OpensAt

LEMMA WaybackSound ==
  ASSUME NEW prog \in WaybackPrograms, NEW present
  PROVE  Sound("eps_wayback", prog, present)
<1> USE DEF WaybackPrograms, Run
<1>1. IsRun(prog)
  BY DEF IsRun, Range
<1> USE DEF Open, Download, Fetch, Inspect, Keep, Save, WriteReport, Record, Link, Step
<1>2. \A i \in DOMAIN prog.steps : SaveIsSound("eps_wayback", prog.steps[i]) /\ ~Bootstraps(prog.steps[i])
  BY DEF SaveIsSound, Files, Provided, Policies, Histories, Reads, Bootstraps
<1>3. OpensAt(prog, 1)
  BY DEF OpensAt
<1>4. \A f \in Pinnable("eps_wayback", prog) : f \in Files /\ (f \in Provided \/ Writes(prog, f))
  BY DEF Pinnable, ReportPaths, Writes, Saves, Files, Provided
<1> QED
  BY <1>1, <1>2, <1>3, <1>4 DEF Sound, ProgramIsSound, StartIsSound, OpensAt

LEMMA UsdSound ==
  ASSUME NEW prog \in UsdIndexPrograms, NEW present
  PROVE  Sound("usd_index_local", prog, present)
<1> USE DEF UsdIndexPrograms, Run
<1>1. IsRun(prog)
  BY DEF IsRun, Range
<1> USE DEF Open, Download, Fetch, Inspect, Keep, Save, WriteReport, Record, Link, Step
<1>2. \A i \in DOMAIN prog.steps : SaveIsSound("usd_index_local", prog.steps[i]) /\ ~Bootstraps(prog.steps[i])
  BY DEF SaveIsSound, Files, Provided, Policies, Histories, Reads, Bootstraps
<1>3. OpensAt(prog, 1)
  BY DEF OpensAt
<1>4. \A f \in Pinnable("usd_index_local", prog) : f \in Files /\ (f \in Provided \/ Writes(prog, f))
  BY DEF Pinnable, ReportPaths, Writes, Saves, Files, Provided
<1> QED
  BY <1>1, <1>2, <1>3, <1>4 DEF Sound, ProgramIsSound, StartIsSound, OpensAt

LEMMA MacroSound ==
  ASSUME NEW present, NEW prog \in MacroPrograms
  PROVE  Sound("macro", prog, present)
<1> USE DEF MacroPrograms, Run
<1>1. IsRun(prog)
  BY SMTT(30) DEF IsRun, Range
<1> USE DEF Open, Download, Fetch, Inspect, Keep, Save, WriteReport, Record, Link, Step
<1>2. \A i \in DOMAIN prog.steps : SaveIsSound("macro", prog.steps[i]) /\ ~Bootstraps(prog.steps[i])
  BY DEF SaveIsSound, Files, Provided, Policies, Histories, Reads, Bootstraps
<1>3. OpensAt(prog, 1)
  BY DEF OpensAt
<1>4. \A f \in Pinnable("macro", prog) : f \in Files /\ (f \in Provided \/ Writes(prog, f))
  BY DEF Pinnable, ReportPaths, Writes, Saves, Files, Provided, SavedBy, Range
<1> QED
  BY <1>1, <1>2, <1>3, <1>4 DEF Sound, ProgramIsSound, StartIsSound, OpensAt

LEMMA PmiSound ==
  ASSUME NEW present, NEW prog \in PmiPrograms
  PROVE  Sound("pmi", prog, present)
<1> USE DEF PmiPrograms, PmiPublished, Run
<1>1. IsRun(prog)
  <2>1. CASE prog = Run(<<Open, Fetch("dbnomics")>> \o PmiPublished("history"))
    BY <2>1 DEF IsRun, Range
  <2>2. CASE prog = Run(<<Open, Fetch("dbnomics"), Fetch("tradingeconomics")>>
                         \o PmiPublished("history"))
    BY <2>2 DEF IsRun, Range
  <2>3. CASE prog = Run(<<Open, Fetch("tradingeconomics")>> \o PmiPublished("history_last"))
    BY <2>3 DEF IsRun, Range
  <2> QED
    BY <2>1, <2>2, <2>3
<1> USE DEF Open, Download, Fetch, Inspect, Keep, Save, WriteReport, Record, Link, Step
<1>2. \A i \in DOMAIN prog.steps : SaveIsSound("pmi", prog.steps[i]) /\ ~Bootstraps(prog.steps[i])
  BY DEF SaveIsSound, Files, Provided, Policies, Histories, Reads, Bootstraps
<1>3. OpensAt(prog, 1)
  BY DEF OpensAt
<1>4. \A f \in Pinnable("pmi", prog) : f \in Files /\ (f \in Provided \/ Writes(prog, f))
  BY DEF Pinnable, ReportPaths, Writes, Saves, Files, Provided, SavedBy, Range
<1> QED
  BY <1>1, <1>2, <1>3, <1>4 DEF Sound, ProgramIsSound, StartIsSound, OpensAt

LEMMA ClevelandSound ==
  ASSUME NEW present, NEW prog \in ClevelandPrograms(present)
  PROVE  Sound("cleveland_fed_nowcast", prog, present)
<1> USE DEF ClevelandPrograms, Run
<1> DEFINE parse == <<Save("cpi_nowcast", "nowcast_json", "nowcast"),
                      WriteReport("nowcast_report"), Keep("nowcast_json"),
                      Record("cpi_nowcast"), Record("nowcast_report"),
                      Link("cpi_nowcast", "nowcast_json")>>
<1>1. IsRun(prog)
  <2>1. CASE prog = Run(<<Open, Download, Save("nowcast_json", "net", "replace")>> \o parse)
    BY <2>1 DEF IsRun, Range
  <2>2. CASE prog = Run(<<Open>> \o parse)
    BY <2>2 DEF IsRun, Range
  <2> QED
    BY <2>1, <2>2
<1> USE DEF Open, Download, Fetch, Inspect, Keep, Save, WriteReport, Record, Link, Step
<1>2. \A i \in DOMAIN prog.steps : SaveIsSound("cleveland_fed_nowcast", prog.steps[i]) /\ ~Bootstraps(prog.steps[i])
  BY DEF SaveIsSound, Files, Provided, Policies, Histories, Reads, Bootstraps
<1>3. OpensAt(prog, 1)
  BY DEF OpensAt
<1>4. \A f \in Pinnable("cleveland_fed_nowcast", prog) : f \in Files /\ (f \in Provided \/ Writes(prog, f))
  BY DEF Pinnable, ReportPaths, Writes, Saves, Files, Provided, SavedBy, Range
<1> QED
  BY <1>1, <1>2, <1>3, <1>4 DEF Sound, ProgramIsSound, StartIsSound, OpensAt

LEMMA EpsSound ==
  ASSUME NEW present, NEW prog \in {Run(EpsSteps)}
  PROVE  Sound("eps", prog, present)
<1> USE DEF EpsSteps, Run
<1>1. IsRun(prog)
  BY DEF IsRun, Range
<1> USE DEF Open, Download, Fetch, Inspect, Keep, Save, WriteReport, Record, Link, Step
<1>2. \A i \in DOMAIN prog.steps : SaveIsSound("eps", prog.steps[i]) /\ ~Bootstraps(prog.steps[i])
  BY DEF SaveIsSound, Files, Provided, Policies, Histories, Reads, Bootstraps
<1>3. OpensAt(prog, 1)
  BY DEF OpensAt
<1>4. \A f \in Pinnable("eps", prog) : f \in Files /\ (f \in Provided \/ Writes(prog, f))
  BY DEF Pinnable, ReportPaths, Writes, Saves, Files, Provided, SavedBy, Range
<1> QED
  BY <1>1, <1>2, <1>3, <1>4 DEF Sound, ProgramIsSound, StartIsSound, OpensAt

LEMMA EpsAutoSound ==
  ASSUME NEW present, NEW prog \in EpsAutoPrograms(present)
  PROVE  Sound("eps_spglobal_auto", prog, present)
<1> DEFINE first == <<Download, Save("eps_workbook", "net", "replace")>>
<1>1. prog \in {Run(first \o EpsSteps), Run(<<>> \o EpsSteps)}
  BY DEF EpsAutoPrograms
<1> USE DEF EpsSteps, Run
<1>2. IsRun(prog)
  <2>1. CASE prog = Run(first \o EpsSteps)
    BY <2>1 DEF IsRun, Range
  <2>2. CASE prog = Run(<<>> \o EpsSteps)
    BY <2>2 DEF IsRun, Range
  <2> QED
    BY <1>1, <2>1, <2>2
<1> USE DEF Open, Download, Fetch, Inspect, Keep, Save, WriteReport, Record, Link, Step
<1>3. \A i \in DOMAIN prog.steps :
         SaveIsSound("eps_spglobal_auto", prog.steps[i]) /\ ~Bootstraps(prog.steps[i])
  <2>1. CASE prog = Run(first \o EpsSteps)
    <3> DEFINE IsFine(step) == SaveIsSound("eps_spglobal_auto", step) /\ ~Bootstraps(step)
    <3>1. \A i \in 1 .. 2 : IsFine(first[i])
      BY DEF SaveIsSound, Files, Provided, Policies, Histories, Reads, Bootstraps
    <3>2. \A i \in 1 .. 7 : IsFine(EpsSteps[i])
      BY DEF SaveIsSound, Files, Provided, Policies, Histories, Reads, Bootstraps
    <3>3. DOMAIN prog.steps = 1 .. 9
          /\ \A i \in 1 .. 9 : prog.steps[i] = IF i <= 2 THEN first[i] ELSE EpsSteps[i - 2]
      BY <2>1
    <3>4. \A i \in 1 .. 9 : i <= 2 \/ i - 2 \in 1 .. 7
      OBVIOUS
    <3> HIDE DEF IsFine, first, EpsSteps
    <3>5. \A i \in 1 .. 9 : IsFine(prog.steps[i])
      BY <3>1, <3>2, <3>3, <3>4
    <3> QED
      BY <3>3, <3>5 DEF IsFine
  <2>2. CASE prog = Run(<<>> \o EpsSteps)
    BY <2>2 DEF SaveIsSound, Files, Provided, Policies, Histories, Reads, Bootstraps
  <2> QED
    BY <1>1, <2>1, <2>2
<1>4. OpensAt(prog, 1) \/ OpensAt(prog, 3)
  <2>1. CASE prog = Run(first \o EpsSteps)
    BY <2>1 DEF OpensAt
  <2>2. CASE prog = Run(<<>> \o EpsSteps)
    BY <2>2 DEF OpensAt
  <2> QED
    BY <1>1, <2>1, <2>2
<1>5. \A f \in Pinnable("eps_spglobal_auto", prog) : f \in Files /\ Writes(prog, f)
  <2>1. CASE prog = Run(first \o EpsSteps)
    <3>1. /\ {5, 6} \subseteq DOMAIN prog.steps /\ Saves(prog.steps[5], "eps_snapshots")
          /\ Saves(prog.steps[6], "eps_weekly")
      BY <2>1 DEF Saves
    <3> QED
      BY <3>1 DEF Pinnable, ReportPaths, Writes, Files
  <2>2. CASE prog = Run(<<>> \o EpsSteps)
    BY <2>2 DEF Pinnable, ReportPaths, Writes, Saves, Files
  <2> QED
    BY <1>1, <2>1, <2>2
<1> QED
  BY <1>2, <1>3, <1>4, <1>5 DEF Sound, ProgramIsSound, StartIsSound, OpensAt

LEMMA ArchiveSound ==
  ASSUME NEW present, NEW prog \in {Run(InvestingArchiveSteps)}
  PROVE  Sound("investing_archive_local", prog, present)
<1> USE DEF InvestingArchiveSteps, Run
<1>1. IsRun(prog)
  BY DEF IsRun, Range
<1> USE DEF Open, Download, Fetch, Inspect, Keep, Save, WriteReport, Record, Link, Step
<1>2. \A i \in DOMAIN prog.steps : SaveIsSound("investing_archive_local", prog.steps[i]) /\ ~Bootstraps(prog.steps[i])
  BY DEF SaveIsSound, Files, Provided, Policies, Histories, Reads, Bootstraps
<1>3. OpensAt(prog, 3)
  BY DEF OpensAt
<1>4. \A f \in Pinnable("investing_archive_local", prog) : f \in Files /\ (f \in Provided \/ Writes(prog, f))
  BY DEF Pinnable, ReportPaths, Writes, Saves, Files, Provided, SavedBy, Range
<1> QED
  BY <1>1, <1>2, <1>3, <1>4 DEF Sound, ProgramIsSound, StartIsSound, OpensAt

LEMMA LiveSound ==
  ASSUME NEW present, NEW prog \in InvestingLivePrograms
  PROVE  Sound("investing_live", prog, present)
<1> USE DEF InvestingLivePrograms, InvestingArchiveSteps, Run
<1>1. IsRun(prog)
  BY SMTT(30) DEF IsRun, Range
<1> USE DEF Open, Download, Fetch, Inspect, Keep, Save, WriteReport, Record, Link, Step
<1>2. \A i \in DOMAIN prog.steps : SaveIsSound("investing_live", prog.steps[i]) /\ ~Bootstraps(prog.steps[i])
  BY DEF SaveIsSound, Files, Provided, Policies, Histories, Reads, Bootstraps
<1>3. OpensAt(prog, 5)
  BY DEF OpensAt
<1>4. \A f \in Pinnable("investing_live", prog) : f \in Files /\ (f \in Provided \/ Writes(prog, f))
  BY DEF Pinnable, ReportPaths, Writes, Saves, Files, Provided, SavedBy, Range
<1> QED
  BY <1>1, <1>2, <1>3, <1>4 DEF Sound, ProgramIsSound, StartIsSound, OpensAt

LEMMA SentimentSound ==
  ASSUME NEW present, NEW required, NEW prog \in SentimentPrograms(present, required)
  PROVE  Sound("sentiment", prog, present)
<1> DEFINE update(bootstrap) == IF bootstrap THEN Save("sentiment", "sentiment_seed", "bootstrap")
                                             ELSE Save("sentiment", "net", "append")
           first(bootstrap) == <<Open, Download, update(bootstrap), WriteReport("sentiment_report")>>
           closing == <<Checkpoint("aaii"), RecordOnly("sentiment_report")>>
           kept == <<Keep("sentiment_seed")>> \o <<Record("sentiment")>>
                     \o <<Link("sentiment", "sentiment_seed")>>
           absent == present["sentiment"] = NoFile
           missing == Run(<<Open, Keep("sentiment_seed")>>)
           skipped == [steps |-> <<Open, WriteReport("sentiment_report"),
                                   RecordOnly("sentiment_report")>>, status |-> "skipped"]
<1>1. \/ absent /\ prog \in {missing, skipped}
      \/ prog = Run(first(absent) \o kept \o closing)
      \/ prog = Run(first(absent) \o <<Record("sentiment")>> \o closing)
  BY DEF SentimentPrograms
<1> USE DEF Run
<1>2. Pinnable("sentiment", prog) = {"sentiment"}
  BY DEF Pinnable, ReportPaths
<1>3. IsRun(prog) /\ 1 \in DOMAIN prog.steps
  <2>1. CASE prog \in {missing, skipped}
    BY <2>1 DEF IsRun, Range
  <2>2. CASE prog = Run(first(absent) \o kept \o closing)
    BY <2>2 DEF IsRun, Range
  <2>3. CASE prog = Run(first(absent) \o <<Record("sentiment")>> \o closing)
    BY <2>3 DEF IsRun, Range
  <2> QED
    BY <1>1, <2>1, <2>2, <2>3
<1> USE DEF Open, Download, Keep, Save, WriteReport, Record, RecordOnly, Link, Checkpoint, Step
<1>4. OpensAt(prog, 1)
  BY <1>1 DEF OpensAt
<1>5. CASE absent /\ prog \in {missing, skipped}
  <2>1. \A i \in DOMAIN prog.steps :
           SaveIsSound("sentiment", prog.steps[i]) /\ ~Bootstraps(prog.steps[i])
    BY <1>1, <1>5 DEF SaveIsSound, Files, Provided, Policies, Histories, Reads, Bootstraps
  <2> QED
    BY <1>2, <1>3, <1>4, <1>5, <2>1 DEF Sound, ProgramIsSound, StartIsSound, Files
<1>6. CASE \/ prog = Run(first(absent) \o kept \o closing)
           \/ prog = Run(first(absent) \o <<Record("sentiment")>> \o closing)
  <2>1. /\ 3 \in DOMAIN prog.steps /\ Saves(prog.steps[3], "sentiment")
        /\ Bootstraps(prog.steps[3]) => absent
    BY <1>6 DEF Saves, Bootstraps
  <2>2. \A i \in DOMAIN prog.steps :
           /\ SaveIsSound("sentiment", prog.steps[i])
           /\ Bootstraps(prog.steps[i]) \/ Saves(prog.steps[i], "sentiment") => i = 3
    BY <1>6 DEF Saves, SaveIsSound, Files, Provided, Policies, Histories, Reads, Bootstraps
  <2> QED
    BY <1>2, <1>3, <1>4, <2>1, <2>2 DEF Sound, ProgramIsSound, StartIsSound, Writes, Files
<1> QED
  BY <1>1, <1>5, <1>6

LEMMA ProgramsAreSound ==
  ASSUME NEW mode, NEW present, NEW required, NEW prog \in Programs(mode, present, required)
  PROVE  mode \in Modes /\ Sound(mode, prog, present)
<1>1. mode \in Modes
  BY DEF Programs, Modes
<1> QED
  BY <1>1, MarketSound, MacroSound, SentimentSound, EventsSound, PmiSound, ManualPmiSound,
     PitSound, FomcSound, PowellSound, ClevelandSound, SfFedSound, EpsSound, EpsAutoSound,
     WaybackSound, UsdSound, ArchiveSound, LiveSound DEF Programs, Modes

(***************************************************************************)
(* The database: what is written for a run in progress leaves every run    *)
(* that has ended as it is, with its artifacts and its outputs.            *)
(***************************************************************************)
RunRow == [mode : Modes, status : {"running", "ok", "skipped", "failed"}]
RowsAt(rows, r) == {row \in rows : row.run = r}
Ended(store, r) == r \in RunIds(store) /\ store.runs[r].status # "running"

Keeps(old, new) ==
  /\ Len(old.runs) <= Len(new.runs)
  /\ \A r \in RunIds(old) : Ended(old, r) =>
       /\ new.runs[r] = old.runs[r]
       /\ RowsAt(new.artifacts, r) = RowsAt(old.artifacts, r)
       /\ RowsAt(new.outputs, r) = RowsAt(old.outputs, r)

LEMMA LedgerRuns ==
  ASSUME NEW store, IsLedger(store)
  PROVE  /\ store.runs \in Seq(RunRow) /\ Len(store.runs) \in Nat
         /\ RunIds(store) = 1 .. Len(store.runs)
         /\ \A r \in RunIds(store) : store.runs[r] \in RunRow
<1>1. store.runs \in Seq(RunRow)
  BY DEF IsLedger, RunRow
<1> QED
  BY <1>1 DEF RunIds

LEMMA EmptyIsLedger == IsLedger(EmptyDb)
BY DEF IsLedger, EmptyDb, RunIds

LEMMA RunStarts ==
  ASSUME NEW store, IsLedger(store), NEW mode \in Modes
  PROVE  LET new == StartFetchRun(store, mode)
         IN  /\ IsLedger(new) /\ Keeps(store, new)
             /\ Len(new.runs) = Len(store.runs) + 1
             /\ \A r \in RunIds(store) : new.runs[r] = store.runs[r]
             /\ new.runs[Len(store.runs) + 1] = [mode |-> mode, status |-> "running"]
<1> DEFINE new == StartFetchRun(store, mode)
           row == [mode |-> mode, status |-> "running"]
<1>1. /\ DOMAIN new = DOMAIN store /\ new.runs = Append(store.runs, row)
      /\ new.artifacts = store.artifacts /\ new.outputs = store.outputs
  BY DEF IsLedger, StartFetchRun
<1>2. store.runs \in Seq(RunRow) /\ row \in RunRow
  BY LedgerRuns DEF RunRow
<1>3. /\ new.runs \in Seq(RunRow) /\ Len(new.runs) = Len(store.runs) + 1
      /\ \A r \in 1 .. Len(store.runs) : new.runs[r] = store.runs[r]
      /\ new.runs[Len(store.runs) + 1] = row
  BY <1>1, <1>2
<1>4. RunIds(store) \subseteq RunIds(new) /\ RunIds(store) = 1 .. Len(store.runs)
  BY <1>2, <1>3 DEF RunIds
<1>5. IsLedger(new)
  BY <1>1, <1>3, <1>4 DEF IsLedger, RunRow
<1>6. Keeps(store, new)
  BY <1>1, <1>2, <1>3, <1>4 DEF Keeps, RowsAt
<1> QED
  BY <1>3, <1>4, <1>5, <1>6

LEMMA RunFinishes ==
  ASSUME NEW store, IsLedger(store), NEW run \in RunIds(store),
         store.runs[run].status = "running", NEW status \in {"ok", "skipped", "failed"}
  PROVE  LET new == FinishFetchRun(store, run, status)
         IN  /\ IsLedger(new) /\ Keeps(store, new)
             /\ Len(new.runs) = Len(store.runs) /\ new.runs[run].status = status
             /\ \A r \in RunIds(store) : r # run => new.runs[r] = store.runs[r]
<1> DEFINE new == FinishFetchRun(store, run, status)
           row == [mode |-> store.runs[run].mode, status |-> status]
<1>1. store.runs \in Seq(RunRow) /\ store.runs[run] \in RunRow /\ row \in RunRow
  BY LedgerRuns DEF RunRow
<1>2. [store.runs EXCEPT ![run].status = status] = [store.runs EXCEPT ![run] = row]
  <2>1. [store.runs[run] EXCEPT !.status = status] = row
    BY <1>1 DEF RunRow
  <2> QED
    BY <2>1
<1>3. /\ DOMAIN new = DOMAIN store /\ new.runs = [store.runs EXCEPT ![run] = row]
      /\ new.artifacts = store.artifacts /\ new.outputs = store.outputs
  BY <1>2 DEF IsLedger, FinishFetchRun
<1>4. /\ new.runs \in Seq(RunRow) /\ Len(new.runs) = Len(store.runs)
      /\ new.runs[run] = row
      /\ \A r \in RunIds(store) : r # run => new.runs[r] = store.runs[r]
  BY <1>1, <1>3 DEF RunIds
<1>5. RunIds(new) = RunIds(store)
  BY <1>1, <1>4 DEF RunIds
<1>6. IsLedger(new)
  BY <1>3, <1>4, <1>5 DEF IsLedger, RunRow
<1>7. Keeps(store, new)
  BY <1>1, <1>3, <1>4, <1>5 DEF Keeps, RowsAt, Ended
<1> QED
  BY <1>4, <1>6, <1>7

LEMMA ArtifactInserted ==
  ASSUME NEW store, IsLedger(store), NEW run \in RunIds(store), ~Ended(store, run), NEW source
  PROVE  LET new == InsertArtifact(store, run, source)
         IN  IsLedger(new) /\ Keeps(store, new) /\ new.runs = store.runs
<1> DEFINE new == InsertArtifact(store, run, source)
           row == [run |-> run, source |-> source]
<1>1. /\ DOMAIN new = DOMAIN store /\ new.runs = store.runs
      /\ new.artifacts = store.artifacts \cup {row} /\ new.outputs = store.outputs
  BY DEF IsLedger, InsertArtifact
<1>2. IsLedger(new)
  BY <1>1 DEF IsLedger, RunIds
<1>3. \A r \in RunIds(store) : Ended(store, r) =>
         RowsAt(new.artifacts, r) = RowsAt(store.artifacts, r)
  BY <1>1 DEF RowsAt
<1>4. Len(store.runs) \in Nat
  BY LedgerRuns
<1> HIDE DEF new
<1>5. Keeps(store, new)
  <2>1. Len(store.runs) <= Len(new.runs)
    BY <1>1, <1>4
  <2> QED
    BY <1>1, <1>3, <2>1, Zenon DEF Keeps
<1> QED
  BY <1>1, <1>2, <1>5 DEF new

LEMMA OutputInserted ==
  ASSUME NEW store, IsLedger(store), NEW run \in RunIds(store), ~Ended(store, run), NEW file,
         NEW content
  PROVE  LET new == InsertDerivedOutput(store, run, file, content)
         IN  IsLedger(new) /\ Keeps(store, new) /\ new.runs = store.runs
<1> DEFINE new == InsertDerivedOutput(store, run, file, content)
           row == [run |-> run, file |-> file, content |-> content]
<1>1. /\ DOMAIN new = DOMAIN store /\ new.runs = store.runs
      /\ new.artifacts = store.artifacts /\ new.outputs = store.outputs \cup {row}
  BY DEF IsLedger, InsertDerivedOutput
<1>2. IsLedger(new)
  BY <1>1 DEF IsLedger, RunIds
<1>3. \A r \in RunIds(store) : Ended(store, r) =>
         RowsAt(new.outputs, r) = RowsAt(store.outputs, r)
  BY <1>1 DEF RowsAt
<1>4. Len(store.runs) \in Nat
  BY LedgerRuns
<1> HIDE DEF new
<1>5. Keeps(store, new)
  <2>1. Len(store.runs) <= Len(new.runs)
    BY <1>1, <1>4
  <2> QED
    BY <1>1, <1>3, <2>1, Zenon DEF Keeps
<1> QED
  BY <1>1, <1>2, <1>5 DEF new

(* Records, lineage and checkpoints are beside the runs and their rows.    *)
LEMMA BesideTheRuns ==
  ASSUME NEW store, IsLedger(store), NEW new, new.runs = store.runs,
         new.artifacts = store.artifacts, new.outputs = store.outputs,
         DOMAIN new = DOMAIN store
  PROVE  IsLedger(new) /\ Keeps(store, new)
<1>1. IsLedger(new)
  BY DEF IsLedger, RunIds
<1> QED
  BY <1>1, LedgerRuns DEF Keeps

LEMMA ArtifactRecorded ==
  ASSUME NEW store, IsLedger(store), NEW run, NEW name, NEW stage
  PROVE  LET new == RecordArtifactRecord(store, run, name, stage)
         IN  /\ IsLedger(new) /\ new.runs = store.runs
             /\ new.artifacts = store.artifacts /\ new.outputs = store.outputs
<1> DEFINE new == RecordArtifactRecord(store, run, name, stage)
<1>1. /\ DOMAIN new = DOMAIN store /\ new.runs = store.runs
      /\ new.artifacts = store.artifacts /\ new.outputs = store.outputs
  BY DEF IsLedger, RecordArtifactRecord
<1> QED
  BY <1>1, BesideTheRuns

LEMMA StepRecorded ==
  ASSUME IsLedger(db), NEW task, NEW step, step.op # "open",
         step.op \in {"download", "inspect", "save"}
           \/ (task.run \in RunIds(db) /\ ~Ended(db, task.run))
  PROVE  LET new == LedgerAfter(task, step)
         IN  IsLedger(new) /\ Keeps(db, new) /\ new.runs = db.runs
<1> DEFINE new == LedgerAfter(task, step)
<1>1. CASE new = db
  BY <1>1, LedgerRuns DEF Keeps
<1>2. CASE step.op \in {"fetch", "keep"} /\ task.run \in RunIds(db) /\ ~Ended(db, task.run)
  <2> DEFINE mid == InsertArtifact(db, task.run, step.file)
  <2>1. IsLedger(mid) /\ Keeps(db, mid) /\ mid.runs = db.runs
    BY <1>2, ArtifactInserted
  <2>2. new = RecordArtifactRecord(mid, task.run, step.file, "raw_capture")
    BY <1>2 DEF LedgerAfter, RecordArtifact
  <2>3. /\ IsLedger(new) /\ new.runs = mid.runs
        /\ new.artifacts = mid.artifacts /\ new.outputs = mid.outputs
    BY <2>1, <2>2, ArtifactRecorded
  <2> HIDE DEF new, mid
  <2>4. Keeps(db, new)
    BY <2>1, <2>3 DEF Keeps
  <2> QED
    BY <2>1, <2>3, <2>4 DEF new
<1>3. CASE step.op = "record" /\ task.run \in RunIds(db) /\ ~Ended(db, task.run)
  <2> DEFINE mid == InsertDerivedOutput(db, task.run, step.file, files[step.file])
  <2>1. IsLedger(mid) /\ Keeps(db, mid) /\ mid.runs = db.runs
    BY <1>3, OutputInserted
  <2>2. new = mid \/ new = RecordArtifactRecord(mid, task.run, step.file, "canonical")
    BY <1>3 DEF LedgerAfter, RecordOutput
  <2>3. /\ IsLedger(new) /\ new.runs = mid.runs
        /\ new.artifacts = mid.artifacts /\ new.outputs = mid.outputs
    BY <2>1, <2>2, ArtifactRecorded
  <2> HIDE DEF new, mid
  <2>4. Keeps(db, new)
    BY <2>1, <2>3 DEF Keeps
  <2> QED
    BY <2>1, <2>3, <2>4 DEF new
<1>4. CASE step.op \in {"link", "checkpoint"}
  <2>1. /\ DOMAIN new = DOMAIN db /\ new.runs = db.runs
        /\ new.artifacts = db.artifacts /\ new.outputs = db.outputs
    BY <1>4 DEF LedgerAfter, RecordArtifactLineage, SetSourceCheckpoint, IsLedger
  <2> QED
    BY <2>1, BesideTheRuns
<1> QED
  <2>1. step.op \notin {"fetch", "keep", "record", "link", "checkpoint"} => new = db
    BY DEF LedgerAfter
  <2> QED
    BY <1>1, <1>2, <1>3, <1>4, <2>1

(***************************************************************************)
(* What holds between the files, the database and the threads.             *)
(***************************************************************************)
(* A thread that runs has entered its run exactly when it is past the step *)
(* that enters it, and that run is in progress.                            *)
ThreadIsSound(m) ==
  LET task == tasks[m]
  IN  /\ task.st \in {"queued", "cancelled"} => task.run = 0 /\ task.pc = 1
      /\ task.st \in {"running", "done"} => m \in Modes /\ ProgramIsSound(m, task.prog)
      /\ task.st = "running" =>
           /\ \E k \in DOMAIN task.prog.steps :
                OpensAt(task.prog, k) /\ (task.run = 0 <=> task.pc <= k)
           /\ task.run # 0 => db.runs[task.run].status = "running"
      /\ task.st = "done" => task.pc > Len(task.prog.steps)

ThreadInv ==
  /\ \A m \in DOMAIN tasks : ThreadIsSound(m)
  /\ \A m, n \in DOMAIN tasks :
       tasks[m].run # 0 /\ tasks[m].run = tasks[n].run => m = n

(* A run opened since the invocation started has ended well, or a thread   *)
(* of the present group answers for it.                                    *)
Accounted(r) ==
  \/ db.runs[r].status \in {"ok", "skipped"}
  \/ \E m \in DOMAIN tasks : tasks[m].run = r /\ tasks[m].st \in {"running", "failed"}

BatchInv ==
  /\ main.st \in {"idle", "emitting"} => DOMAIN tasks = {}
  /\ main.st # "idle" => \A r \in main.base + 1 .. Len(db.runs) : Accounted(r)

(* Until a thread fails no reported file is torn, unless its thread is     *)
(* still to write it.                                                      *)
Pending(task, f) ==
  \E i \in task.pc .. Len(task.prog.steps) : Saves(task.prog.steps[i], f)

NoneFailed == \A m \in DOMAIN tasks : tasks[m].st # "failed"

ReportIsWhole(report) ==
  \A f \in report.paths \ {"wayback_xlsx"} : f \in Files /\ files[f] # Torn

FileInv ==
  /\ \A f \in Provided : files[f] # Torn
  /\ \A m \in DOMAIN tasks :
       /\ tasks[m].st = "running"
       /\ \E i \in tasks[m].pc .. Len(tasks[m].prog.steps) : Bootstraps(tasks[m].prog.steps[i])
       => files["sentiment"] = NoFile
  /\ NoneFailed =>
       /\ \A report \in main.reports : ReportIsWhole(report)
       /\ \A m \in DOMAIN tasks : tasks[m].st \in {"running", "done"} =>
            \A f \in Pinnable(m, tasks[m].prog) : files[f] # Torn \/ Pending(tasks[m], f)

FetchInv == FetchTypeOK /\ ThreadInv /\ BatchInv /\ FileInv

LEMMA InitFetchInv == Init => FetchInv
<1> SUFFICES ASSUME Init PROVE FetchInv
  OBVIOUS
<1> USE DEF Init, Idle, NoTasks
<1>1. Served[1] \in Table /\ 1 \in DOMAIN Served
  BY AcquisitionAssumption
<1>2. db.runs = <<>> /\ Len(db.runs) = 0
  BY DEF EmptyDb
<1>3. FetchTypeOK
  BY <1>1, <1>2, EmptyIsLedger DEF FetchTypeOK, Contents
<1>4. \A f \in Provided : files[f] # Torn
  BY <1>1, AcquisitionAssumption DEF Provided, Files
<1> QED
  BY <1>2, <1>3, <1>4 DEF FetchInv, ThreadInv, BatchInv, FileInv

(* A task moves and the others stay.                                       *)
LEMMA TaskMoves ==
  ASSUME FetchInv, NEW m \in DOMAIN tasks, DOMAIN tasks' = DOMAIN tasks,
         \A n \in DOMAIN tasks : n # m => tasks'[n] = tasks[n],
         IsLedger(db'), Len(db.runs) <= Len(db'.runs),
         \A r \in RunIds(db) : r # tasks[m].run => db'.runs[r] = db.runs[r],
         IsTask(tasks[m])', ThreadIsSound(m)',
         tasks'[m].run \in {tasks[m].run, Len(db.runs) + 1},
         files' \in [Files -> Contents], epoch' = epoch, main' = main
  PROVE  FetchTypeOK' /\ ThreadInv'
<1> USE DEF FetchInv
<1>1. \A n \in DOMAIN tasks : n # m => IsTask(tasks[n])'
  BY LedgerRuns DEF FetchTypeOK, IsTask
<1>2. FetchTypeOK'
  BY <1>1, LedgerRuns DEF FetchTypeOK
<1>3. ASSUME NEW n \in DOMAIN tasks, n # m PROVE ThreadIsSound(n)'
  <2>1. ThreadIsSound(n)
    BY DEF ThreadInv
  <2>2. tasks[n].run # 0 => tasks[n].run \in RunIds(db) /\ tasks[n].run # tasks[m].run
    BY <1>3, LedgerRuns DEF FetchTypeOK, IsTask, ThreadInv
  <2> QED
    BY <1>3, <2>1, <2>2 DEF ThreadIsSound
<1>4. \A n, o \in DOMAIN tasks : tasks'[n].run # 0 /\ tasks'[n].run = tasks'[o].run => n = o
  <2>1. \A n \in DOMAIN tasks : tasks[n].run \in 0 .. Len(db.runs)
    BY DEF FetchTypeOK, IsTask
  <2>2. Len(db.runs) \in Nat
    BY LedgerRuns DEF FetchTypeOK
  <2>3. \A n, o \in DOMAIN tasks : tasks[n].run # 0 /\ tasks[n].run = tasks[o].run => n = o
    BY DEF ThreadInv
  <2> QED
    BY <2>1, <2>2, <2>3
<1> QED
  BY <1>2, <1>3, <1>4 DEF ThreadInv

(***************************************************************************)
(* The steps of a thread.                                                  *)
(***************************************************************************)
(* What is known of the step a running thread is at.                       *)
LEMMA MidwayStep ==
  ASSUME FetchInv, NEW m, Midway(m)
  PROVE  LET task == tasks[m]
         IN  /\ m \in DOMAIN tasks /\ m \in Modes /\ task.st = "running" /\ IsTask(task)
             /\ ProgramIsSound(m, task.prog)
             /\ task.pc \in DOMAIN task.prog.steps /\ task.pc \in Nat
             /\ Len(task.prog.steps) \in Nat
             /\ DOMAIN task.prog.steps = 1 .. Len(task.prog.steps)
             /\ SaveIsSound(m, At(task))
<1> DEFINE task == tasks[m]
<1>1. m \in DOMAIN tasks /\ task.st = "running" /\ task.pc <= Len(task.prog.steps)
  BY DEF Midway, Running
<1>2. IsTask(task) /\ m \in Modes /\ ProgramIsSound(m, task.prog)
  BY <1>1 DEF FetchInv, FetchTypeOK, ThreadInv, ThreadIsSound
<1>3. Len(task.prog.steps) \in Nat /\ DOMAIN task.prog.steps = 1 .. Len(task.prog.steps)
  BY <1>2 DEF IsTask, IsRun
<1>4. task.pc \in DOMAIN task.prog.steps /\ task.pc \in Nat
  BY <1>1, <1>2, <1>3 DEF IsTask
<1>5. SaveIsSound(m, At(task))
  BY <1>2, <1>4 DEF ProgramIsSound, At
<1> QED
  BY <1>1, <1>2, <1>3, <1>4, <1>5

(* The run of a thread is in progress whenever a step records in it.       *)
LEMMA MidwayRun ==
  ASSUME FetchInv, NEW m, Midway(m), tasks[m].run # 0
  PROVE  tasks[m].run \in RunIds(db) /\ db.runs[tasks[m].run].status = "running"
                                     /\ ~Ended(db, tasks[m].run)
<1>1. m \in DOMAIN tasks /\ tasks[m].st = "running" /\ IsTask(tasks[m])
  BY MidwayStep
<1>2. RunIds(db) = 1 .. Len(db.runs) /\ Len(db.runs) \in Nat
  BY LedgerRuns DEF FetchInv, FetchTypeOK
<1>3. tasks[m].run \in RunIds(db)
  BY <1>1, <1>2 DEF IsTask
<1>4. db.runs[tasks[m].run].status = "running"
  BY <1>1 DEF FetchInv, ThreadInv, ThreadIsSound
<1> QED
  BY <1>3, <1>4 DEF Ended

LEMMA RecordsInRun ==
  ASSUME FetchInv, NEW m, Midway(m), At(tasks[m]).op \notin {"open", "download", "save"}
  PROVE  tasks[m].run # 0
<1> DEFINE task == tasks[m]
<1>1. /\ task.st = "running" /\ m \in DOMAIN tasks /\ task.pc \in DOMAIN task.prog.steps
      /\ task.pc \in Nat /\ DOMAIN task.prog.steps = 1 .. Len(task.prog.steps)
      /\ Len(task.prog.steps) \in Nat
  BY MidwayStep
<1>2. PICK k \in DOMAIN task.prog.steps :
         OpensAt(task.prog, k) /\ (task.run = 0 <=> task.pc <= k)
  BY <1>1 DEF FetchInv, ThreadInv, ThreadIsSound
<1>3. ~(task.pc < k) /\ task.pc # k
  BY <1>1, <1>2 DEF OpensAt, At
<1> QED
  BY <1>1, <1>2, <1>3

(* What a whole save writes is a table, or with "if_absent" what was there.*)
LEMMA WrittenIsTyped ==
  ASSUME FetchInv, NEW m, Midway(m), ~Raises(At(tasks[m])), At(tasks[m]).op = "save"
  PROVE  LET step == At(tasks[m])
             table == Written(tasks[m], step)
         IN  /\ step.how # "if_absent" => table \in Table
             /\ step.how = "if_absent" =>
                  table \in Contents /\ (files[step.file] # Torn => table # Torn)
             /\ Reads(step.how) /\ step.from # "report" /\ IsTable(files[step.file]) =>
                  DOMAIN files[step.file] \subseteq DOMAIN table
<1> DEFINE task == tasks[m]
           step == At(task)
<1>1. IsTask(task) /\ SaveIsSound(m, step) /\ files \in [Files -> Contents]
  BY MidwayStep DEF FetchInv, FetchTypeOK
<1>2. /\ step.from \in {"net", "report"} \/ IsTable(files[step.from])
      /\ Reads(step.how) => files[step.file] # Torn
  BY DEF Raises
<1>3. /\ step.file \in Files /\ step.from \in Files \cup {"net", "report"}
      /\ step.how \in Policies
      /\ step.how = "if_absent" => step.file = "wayback_xlsx"
      /\ step.how = "bootstrap" => step.from \in Files
  BY <1>1 DEF SaveIsSound
<1>4. task.data \in Table
  BY <1>1 DEF IsTask
<1>5. \A c \in Contents : IsTable(c) <=> c \in Table
  BY AcquisitionAssumption DEF IsTable, Contents
<1>6. step.from \in Files => files[step.from] \in Table
  <2>1. "net" \notin Files /\ "report" \notin Files
    BY DEF Files
  <2> QED
    BY <1>1, <1>2, <1>5, <2>1
<1> DEFINE old == IF step.how = "bootstrap" THEN files[step.from] ELSE files[step.file]
           new == IF step.from = "net" \/ step.how = "bootstrap" THEN task.data
                                                                ELSE files[step.from]
<1>7. step.from # "report" => old \in Contents /\ new \in Table
  BY <1>1, <1>3, <1>4, <1>6
<1>8. Reads(step.how) \/ step.how = "bootstrap" => old # Torn
  BY <1>2, <1>3, <1>6, AcquisitionAssumption
<1>9. Written(task, step) = IF step.from = "report" THEN Report ELSE Saved(step.how, old, new)
  BY DEF Written
<1>10. old = IF step.how = "bootstrap" THEN files[step.from] ELSE files[step.file]
  OBVIOUS
<1> HIDE DEF old, new
<1>11. step.how # "if_absent" => Written(task, step) \in Table
  BY <1>3, <1>7, <1>8, <1>9, SavedIsTable, ReportIsTable
<1>12. step.how = "if_absent" =>
         Written(task, step) \in Contents /\ (files[step.file] # Torn => Written(task, step) # Torn)
  <2> SUFFICES ASSUME step.how = "if_absent" PROVE
         Written(task, step) \in Contents /\ (files[step.file] # Torn => Written(task, step) # Torn)
    OBVIOUS
  <2>1. old = files[step.file]
    BY <1>10
  <2>2. Saved(step.how, old, new) = IF old = NoFile THEN new ELSE old
    BY DEF Saved
  <2> QED
    BY <1>7, <1>9, <2>1, <2>2, ReportIsTable, AcquisitionAssumption DEF Contents
<1>13. Reads(step.how) /\ step.from # "report" /\ IsTable(files[step.file]) =>
         DOMAIN files[step.file] \subseteq DOMAIN Written(task, step)
  <2> SUFFICES ASSUME Reads(step.how), step.from # "report", IsTable(files[step.file])
               PROVE  DOMAIN files[step.file] \subseteq DOMAIN Written(task, step)
    OBVIOUS
  <2>1. old = files[step.file] /\ old # NoFile /\ step.how # "if_absent"
    BY <1>10 DEF Reads, IsTable
  <2> QED
    BY <1>3, <1>7, <1>8, <1>9, <2>1, SavedIsTable
<1> QED
  BY <1>11, <1>12, <1>13

(* What a broken step leaves in the files and in the database.             *)
LEMMA PartsAreTables ==
  ASSUME NEW table \in Table, NEW part \in PartsOf(table)
  PROVE  part \in Table
<1>1. PICK all \in SUBSET Dates : table \in [all -> Revisions]
  BY DEF Table
<1>2. PICK dates \in SUBSET DOMAIN table : part = [d \in dates |-> table[d]]
  BY DEF PartsOf
<1>3. dates \in SUBSET Dates /\ part \in [dates -> Revisions]
  BY <1>1, <1>2
<1> QED
  BY <1>3 DEF Table

LEMMA BrokenFilesAreTyped ==
  ASSUME FetchInv, NEW m, Midway(m),
         NEW left \in BrokenFiles(tasks[m], At(tasks[m])),
         left = files \/ ~Raises(At(tasks[m]))
  PROVE  left \in [Files -> Contents] /\ \A f \in Provided : left[f] = files[f]
<1> DEFINE step == At(tasks[m])
<1>1. SaveIsSound(m, step) /\ files \in [Files -> Contents]
  BY MidwayStep DEF FetchInv, FetchTypeOK
<1>2. Provided \subseteq Files
  BY DEF Provided, Files
<1>3. ASSUME left # files
      PROVE  /\ step.op = "save"
             /\ \E c \in Contents : left = [files EXCEPT ![step.file] = c]
  <2>1. /\ step.op = "save"
        /\ \E c \in Leftovers(tasks[m], step) : left = [files EXCEPT ![step.file] = c]
    BY <1>3 DEF BrokenFiles
  <2>2. step.how = "rewrite" => Written(tasks[m], step) \in Table
    BY <1>3, <2>1, WrittenIsTyped
  <2>3. Leftovers(tasks[m], step) \subseteq Contents
    BY <2>2, PartsAreTables DEF Leftovers, Contents
  <2> QED
    BY <2>1, <2>3
<1> QED
  BY <1>1, <1>2, <1>3 DEF SaveIsSound

LEMMA BrokenLedgersKeep ==
  ASSUME FetchInv, NEW m, Midway(m), NEW ledger \in BrokenLedgers(tasks[m], At(tasks[m]))
  PROVE  IsLedger(ledger) /\ Keeps(db, ledger) /\ ledger.runs = db.runs
<1> DEFINE task == tasks[m]
           step == At(task)
<1>1. IsLedger(db) /\ Len(db.runs) \in Nat
  BY LedgerRuns DEF FetchInv, FetchTypeOK
<1>2. Keeps(db, db)
  BY <1>1 DEF Keeps
<1>3. \/ ledger = db
      \/ step.op \in {"fetch", "keep"} /\ ledger = InsertArtifact(db, task.run, step.file)
      \/ step.op = "record"
           /\ ledger = InsertDerivedOutput(db, task.run, step.file, files[step.file])
  BY DEF BrokenLedgers
<1>4. step.op \in {"fetch", "keep", "record"} => task.run \in RunIds(db) /\ ~Ended(db, task.run)
  BY RecordsInRun, MidwayRun
<1> QED
  BY <1>1, <1>2, <1>3, <1>4, ArtifactInserted, OutputInserted

(* An invocation that ends, however it does.                               *)
LEMMA QuietInv ==
  ASSUME FetchInv, main' = Idle, DOMAIN tasks' = {}, db' = db, epoch' = epoch,
         files' \in [Files -> Contents], \A f \in Provided : files'[f] = files[f]
  PROVE  FetchInv'
<1>1. FetchTypeOK'
  BY LedgerRuns DEF FetchInv, FetchTypeOK, Idle
<1>2. ThreadInv'
  BY DEF ThreadInv
<1>3. BatchInv'
  BY DEF BatchInv, Idle
<1>4. FileInv'
  BY DEF FetchInv, FileInv, Idle
<1> QED
  BY <1>1, <1>2, <1>3, <1>4 DEF FetchInv

(* Nothing the fetches touch moves.                                        *)
LEMMA StillInv ==
  ASSUME FetchInv, UNCHANGED <<db, files, epoch, main>>, DOMAIN tasks' = DOMAIN tasks,
         \A n \in DOMAIN tasks : tasks'[n] = tasks[n]
  PROVE  FetchInv'
<1>1. FetchTypeOK'
  BY DEF FetchInv, FetchTypeOK, IsTask
<1>2. ThreadInv'
  BY DEF FetchInv, ThreadInv, ThreadIsSound
<1>3. BatchInv'
  BY DEF FetchInv, BatchInv, Accounted
<1>4. FileInv'
  BY DEF FetchInv, FileInv, NoneFailed, ReportIsWhole, Pending
<1> QED
  BY <1>1, <1>2, <1>3, <1>4 DEF FetchInv

LEMMA StartInvocationInv ==
  ASSUME FetchInv, StartInvocation
  PROVE  FetchInv'
<1> USE DEF FetchInv, StartInvocation
<1>1. /\ main'.st = "fetching" /\ main'.base = Len(db.runs) /\ main'.reports = {}
      /\ DOMAIN main' = {"st", "groups", "required", "base", "reports"}
  BY DEF Idle
<1>2. \A m \in DOMAIN tasks' : tasks'[m] = Queued
  BY DEF TasksOf
<1>3. epoch' \in DOMAIN Served
  <2>1. DOMAIN Served = 1 .. Len(Served) /\ Len(Served) \in Nat /\ Len(Served) >= 1
    BY AcquisitionAssumption
  <2>2. epoch \in 1 .. Len(Served)
    BY <2>1 DEF FetchTypeOK
  <2>3. Min({epoch + 1, Len(Served)}) \in {epoch + 1, Len(Served)}
        /\ Min({epoch + 1, Len(Served)}) <= Len(Served)
    BY <2>1, <2>2 DEF Min
  <2> QED
    BY <2>1, <2>2, <2>3
<1>4. IsTask(Queued)' /\ Queued.st = "queued" /\ Queued.run = 0 /\ Queued.pc = 1
  <2>1. /\ DOMAIN Queued = {"st", "prog", "pc", "run", "data"} /\ Queued.st = "queued"
        /\ Queued.prog = Run(<<>>) /\ Queued.pc = 1 /\ Queued.run = 0 /\ Queued.data = Report
    BY DEF Queued
  <2>2. IsRun(Run(<<>>)) /\ Run(<<>>).steps = <<>>
    BY DEF IsRun, Run, Range
  <2>3. Len(db.runs) \in Nat /\ db' = db
    BY LedgerRuns DEF FetchTypeOK
  <2> HIDE DEF FetchInv, StartInvocation
  <2> QED
    BY <2>1, <2>2, <2>3, ReportIsTable DEF IsTask
<1>5. FetchTypeOK'
  BY <1>1, <1>2, <1>3, <1>4, LedgerRuns DEF FetchTypeOK
<1>6. ThreadInv'
  BY <1>2, <1>4 DEF ThreadInv, ThreadIsSound
<1>7. BatchInv'
  BY <1>1, LedgerRuns DEF BatchInv, FetchTypeOK
<1>8. FileInv'
  BY <1>1, <1>2, <1>4 DEF FileInv
<1> QED
  BY <1>5, <1>6, <1>7, <1>8

LEMMA StartTaskInv ==
  ASSUME FetchInv, NEW i \in Places, StartTask(i)
  PROVE  FetchInv'
<1>0. PICK m : m = Group[i]
  OBVIOUS
<1>1. PICK prog \in Programs(m, files, main.required) :
         tasks' = [tasks EXCEPT ![m].st = "running", ![m].prog = prog]
  BY <1>0 DEF StartTask
<1>2. ProgramIsSound(m, prog) /\ StartIsSound(m, prog, files) /\ m \in Modes
  BY ProgramsAreSound DEF Sound
<1>3. /\ DOMAIN tasks' = DOMAIN tasks
      /\ \A n \in DOMAIN tasks : n # m => tasks'[n] = tasks[n]
  BY <1>1
<1>4. UNCHANGED <<db, files, epoch, main>> /\ tasks[m].st = "queued"
  BY <1>0 DEF StartTask
<1>5. CASE m \notin DOMAIN tasks
  BY <1>3, <1>4, <1>5, StillInv
<1>6. CASE m \in DOMAIN tasks
  <2>1. IsTask(tasks[m]) /\ tasks[m].run = 0 /\ tasks[m].pc = 1
    BY <1>4, <1>6 DEF FetchInv, FetchTypeOK, ThreadInv, ThreadIsSound
  <2>2. /\ DOMAIN tasks'[m] = DOMAIN tasks[m] /\ tasks'[m].st = "running"
        /\ tasks'[m].prog = prog /\ tasks'[m].pc = 1 /\ tasks'[m].run = 0
        /\ tasks'[m].data = tasks[m].data
    BY <1>1, <1>6, <2>1 DEF IsTask
  <2>3. /\ Len(prog.steps) \in Nat /\ DOMAIN prog.steps = 1 .. Len(prog.steps)
        /\ IsRun(prog)
    BY <1>2 DEF ProgramIsSound, IsRun
  <2>4. IsTask(tasks[m])'
    BY <1>4, <2>1, <2>2, <2>3, LedgerRuns DEF IsTask, FetchInv, FetchTypeOK
  <2>5. ThreadIsSound(m)'
    BY <1>2, <2>2, <2>3 DEF ThreadIsSound, ProgramIsSound
  <2>6. FetchTypeOK' /\ ThreadInv'
    <3>1. IsLedger(db) /\ files \in [Files -> Contents]
      BY DEF FetchInv, FetchTypeOK
    <3>2. Len(db.runs) \in Nat
      BY <3>1, LedgerRuns
    <3> QED
      BY <1>3, <1>4, <1>6, <2>1, <2>2, <2>4, <2>5, <3>1, <3>2, TaskMoves
  <2>7. BatchInv'
    <3>1. \A r \in 1 .. Len(db.runs) : Accounted(r) => Accounted(r)'
      BY <1>3, <1>4, <1>6, <2>1 DEF Accounted
    <3>2. main.base \in Nat /\ Len(db.runs) \in Nat
      BY LedgerRuns DEF FetchInv, FetchTypeOK
    <3> QED
      BY <1>3, <1>4, <3>1, <3>2 DEF FetchInv, BatchInv
  <2>8. FileInv'
    <3>1. \A f \in Pinnable(m, prog) : files[f] # Torn \/ Pending(tasks'[m], f)
      <4>1. \A f : Writes(prog, f) => Pending(tasks'[m], f)
        BY <2>2, <2>3 DEF Writes, Pending
      <4>2. NoFile # Torn
        BY AcquisitionAssumption
      <4> QED
        BY <1>2, <4>1, <4>2 DEF StartIsSound, FetchInv, FileInv
    <3>2. (\E j \in tasks'[m].pc .. Len(tasks'[m].prog.steps) : Bootstraps(tasks'[m].prog.steps[j]))
            => files["sentiment"] = NoFile
      BY <1>2, <2>2, <2>3 DEF StartIsSound
    <3>3. NoneFailed' => NoneFailed
      BY <1>3, <1>4 DEF NoneFailed
    <3>4. \A report : ReportIsWhole(report) => ReportIsWhole(report)'
      BY <1>4 DEF ReportIsWhole
    <3> QED
      BY <1>3, <1>4, <2>2, <3>1, <3>2, <3>3, <3>4 DEF FetchInv, FileInv, Pending
  <2> QED
    BY <2>6, <2>7, <2>8 DEF FetchInv
<1> QED
  BY <1>5, <1>6

LEMMA CancelQueuedInv ==
  ASSUME FetchInv, NEW i \in Places, CancelQueued(i)
  PROVE  FetchInv'
<1>1. /\ DOMAIN tasks' = DOMAIN tasks /\ UNCHANGED <<db, files, epoch, main>>
      /\ \A n \in DOMAIN tasks : IsTask(tasks[n])
  BY DEF CancelQueued, FetchInv, FetchTypeOK
<1>2. \A n \in DOMAIN tasks :
         /\ DOMAIN tasks'[n] = DOMAIN tasks[n] /\ tasks'[n].prog = tasks[n].prog
         /\ tasks'[n].pc = tasks[n].pc /\ tasks'[n].run = tasks[n].run
         /\ tasks'[n].data = tasks[n].data
         /\ tasks'[n].st = IF tasks[n].st = "queued" THEN "cancelled" ELSE tasks[n].st
  BY <1>1 DEF CancelQueued, IsTask
<1>3. FetchTypeOK'
  BY <1>1, <1>2 DEF FetchInv, FetchTypeOK, IsTask
<1>4. ThreadInv'
  <2>1. ASSUME NEW n \in DOMAIN tasks PROVE ThreadIsSound(n)'
    BY <1>1, <1>2 DEF FetchInv, ThreadInv, ThreadIsSound
  <2> QED
    BY <1>1, <1>2, <2>1 DEF FetchInv, ThreadInv
<1>5. BatchInv'
  <2>1. \A r : Accounted(r) => Accounted(r)'
    BY <1>1, <1>2 DEF Accounted
  <2> QED
    BY <1>1, <2>1 DEF FetchInv, BatchInv
<1>6. FileInv'
  <2>1. NoneFailed' => NoneFailed
    BY <1>1, <1>2 DEF NoneFailed
  <2>2. \A report : ReportIsWhole(report) => ReportIsWhole(report)'
    BY <1>1 DEF ReportIsWhole
  <2>3. \A n \in DOMAIN tasks : \A f : Pending(tasks[n], f) => Pending(tasks'[n], f)
    BY <1>2 DEF Pending
  <2>4. \A n \in DOMAIN tasks :
           tasks'[n].st \in {"running", "done"} => tasks'[n].st = tasks[n].st
    BY <1>2
  <2> QED
    BY <1>1, <1>2, <2>1, <2>2, <2>3, <2>4 DEF FetchInv, FileInv
<1> QED
  BY <1>3, <1>4, <1>5, <1>6 DEF FetchInv

(* What one step forward does to the files.                                *)
LEMMA ProceedFiles ==
  ASSUME FetchInv, NEW m, Proceed(m)
  PROVE  LET step == At(tasks[m])
         IN  /\ files' \in [Files -> Contents]
             /\ \A f \in Files : files[f] # Torn => files'[f] # Torn
             /\ \A f \in Files : files'[f] # files[f] => Saves(step, f)
             /\ \A f \in Files \ {"wayback_xlsx"} : Saves(step, f) => files'[f] \in Table
             /\ \A f \in Histories :
                  IsTable(files[f]) => \/ DOMAIN files[f] \subseteq DOMAIN files'[f]
                                       \/ Bootstraps(step) /\ Saves(step, f)
                                       \/ m = "pmi_manual" /\ f = "pmi_history"
<1> DEFINE task == tasks[m]
           step == At(task)
<1>1. /\ IsTask(task) /\ SaveIsSound(m, step) /\ files \in [Files -> Contents]
      /\ Histories \subseteq Files
  BY MidwayStep DEF Proceed, FetchInv, FetchTypeOK, Histories, Files
<1>2. CASE step.op # "save"
  <2>1. files' = files
    BY <1>2 DEF Proceed
  <2> QED
    BY <1>1, <1>2, <2>1 DEF Saves
<1>3. CASE step.op = "save"
  <2>1. /\ step.from \in {"net", "report"} \/ IsTable(files[step.from])
        /\ Reads(step.how) => files[step.file] # Torn
        /\ files' = [files EXCEPT ![step.file] = Written(task, step)]
    BY <1>3 DEF Proceed, Raises
  <2>2. /\ step.file \in Files /\ step.from \in Files \cup {"net", "report"}
        /\ step.how \in Policies
        /\ step.how = "if_absent" => step.file = "wayback_xlsx"
        /\ step.how = "bootstrap" => step.from \in Files
    BY <1>1, <1>3 DEF SaveIsSound
  <2>3. /\ step.how # "if_absent" => Written(task, step) \in Table
        /\ step.how = "if_absent" =>
             /\ Written(task, step) \in Contents
             /\ files[step.file] # Torn => Written(task, step) # Torn
        /\ Reads(step.how) /\ step.from # "report" /\ IsTable(files[step.file]) =>
             DOMAIN files[step.file] \subseteq DOMAIN Written(task, step)
    BY <1>3, WrittenIsTyped DEF Proceed
  <2>4. /\ files'[step.file] = Written(task, step)
         /\ \A f \in Files : f # step.file => files'[f] = files[f]
    BY <1>1, <2>1, <2>2
  <2>5. files' \in [Files -> Contents]
    BY <1>1, <2>1, <2>2, <2>3 DEF Contents
  <2>6. \A f \in Files : files[f] # Torn => files'[f] # Torn
    BY <2>3, <2>4, AcquisitionAssumption
  <2>7. \A f \in Histories : IsTable(files[f]) =>
            \/ DOMAIN files[f] \subseteq DOMAIN files'[f]
            \/ Bootstraps(step) /\ Saves(step, f)
            \/ m = "pmi_manual" /\ f = "pmi_history"
    BY <1>1, <1>3, <2>3, <2>4 DEF SaveIsSound, Saves, Bootstraps
  <2> QED
    BY <1>3, <2>2, <2>3, <2>4, <2>5, <2>6, <2>7 DEF Saves
<1> QED
  BY <1>2, <1>3

LEMMA ProceedInv ==
  ASSUME FetchInv, NEW m \in DOMAIN tasks, Proceed(m)
  PROVE  FetchInv' /\ Keeps(db, db')
<1> DEFINE task == tasks[m]
           step == At(task)
<1>1. /\ Midway(m) /\ step.op # "open" /\ UNCHANGED <<epoch, main>>
      /\ db' = LedgerAfter(task, step)
  BY DEF Proceed
<1>2. /\ m \in Modes /\ task.st = "running" /\ IsTask(task) /\ ProgramIsSound(m, task.prog)
      /\ task.pc \in DOMAIN task.prog.steps /\ task.pc \in Nat
      /\ Len(task.prog.steps) \in Nat /\ DOMAIN task.prog.steps = 1 .. Len(task.prog.steps)
      /\ SaveIsSound(m, step) /\ step = task.prog.steps[task.pc]
  BY <1>1, MidwayStep DEF At
<1>3. /\ DOMAIN tasks' = DOMAIN tasks
      /\ \A n \in DOMAIN tasks : n # m => tasks'[n] = tasks[n]
      /\ DOMAIN tasks'[m] = DOMAIN task /\ tasks'[m].st = "running"
      /\ tasks'[m].prog = task.prog /\ tasks'[m].pc = task.pc + 1 /\ tasks'[m].run = task.run
      /\ tasks'[m].data \in Table
  <2>1. epoch \in DOMAIN Served /\ Served[epoch] \in Table
    BY AcquisitionAssumption DEF FetchInv, FetchTypeOK
  <2> QED
    BY <1>2, <2>1 DEF Proceed, IsTask
<1>4. IsLedger(db') /\ Keeps(db, db') /\ db'.runs = db.runs
  <2>1. step.op \in {"download", "inspect", "save"}
          \/ (task.run \in RunIds(db) /\ ~Ended(db, task.run))
    BY <1>1, RecordsInRun, MidwayRun
  <2>2. IsLedger(db)
    BY DEF FetchInv, FetchTypeOK
  <2> QED
    BY <1>1, <2>1, <2>2, StepRecorded
<1>5. /\ files' \in [Files -> Contents]
      /\ \A f \in Files : files[f] # Torn => files'[f] # Torn
      /\ \A f \in Files : files'[f] # files[f] => Saves(step, f)
      /\ \A f \in Files \ {"wayback_xlsx"} : Saves(step, f) => files'[f] \in Table
  BY ProceedFiles
<1>6. Len(db.runs) \in Nat /\ RunIds(db) = 1 .. Len(db.runs)
  BY LedgerRuns DEF FetchInv, FetchTypeOK
<1>7. IsTask(tasks[m])'
  BY <1>2, <1>3, <1>4 DEF IsTask
<1>8. ThreadIsSound(m)'
  <2>1. PICK k \in DOMAIN task.prog.steps :
           OpensAt(task.prog, k) /\ (task.run = 0 <=> task.pc <= k)
    BY <1>2 DEF FetchInv, ThreadInv, ThreadIsSound
  <2>2. task.pc # k /\ k \in Nat
    BY <1>1, <1>2, <2>1 DEF OpensAt
  <2>3. task.run = 0 <=> task.pc + 1 <= k
    BY <1>2, <2>1, <2>2
  <2>4. task.run # 0 => db'.runs[task.run].status = "running"
    BY <1>1, <1>4, MidwayRun
  <2> QED
    BY <1>2, <1>3, <2>1, <2>3, <2>4 DEF ThreadIsSound
<1>9. FetchTypeOK' /\ ThreadInv'
  BY <1>1, <1>3, <1>4, <1>5, <1>6, <1>7, <1>8, TaskMoves
<1>10. BatchInv'
  <2>1. \A r : Accounted(r) => Accounted(r)'
    BY <1>2, <1>3, <1>4 DEF Accounted
  <2> QED
    BY <1>1, <1>3, <1>4, <2>1 DEF FetchInv, BatchInv
<1>11. FileInv'
  <2>1. \A f \in Provided : files'[f] = files[f]
    <3>1. Provided \subseteq Files
      BY DEF Provided, Files
    <3>2. \A f \in Provided : ~Saves(step, f)
      BY <1>2 DEF Saves, SaveIsSound
    <3> QED
      BY <1>5, <3>1, <3>2
  <2>2. ASSUME NEW n \in DOMAIN tasks, tasks'[n].st = "running",
               NEW i \in tasks'[n].pc .. Len(tasks'[n].prog.steps),
               Bootstraps(tasks'[n].prog.steps[i])
        PROVE  files'["sentiment"] = NoFile
    <3>1. /\ tasks[n].st = "running" /\ tasks[n].prog = tasks'[n].prog
          /\ n = m \/ tasks[n].pc = tasks'[n].pc
      BY <1>2, <1>3, <2>2
    <3>2. /\ IsTask(tasks[n]) /\ ProgramIsSound(n, tasks[n].prog)
          /\ Len(tasks[n].prog.steps) \in Nat /\ tasks[n].pc \in Nat \ {0}
          /\ DOMAIN tasks[n].prog.steps = 1 .. Len(tasks[n].prog.steps)
      BY <3>1 DEF FetchInv, FetchTypeOK, ThreadInv, ThreadIsSound, IsTask, IsRun
    <3>3. i \in tasks[n].pc .. Len(tasks[n].prog.steps) /\ i \in DOMAIN tasks[n].prog.steps
      BY <1>2, <1>3, <2>2, <3>1, <3>2
    <3>4. files["sentiment"] = NoFile
      BY <2>2, <3>1, <3>3 DEF FetchInv, FileInv
    <3>5. n = "sentiment"
      BY <2>2, <3>1, <3>2, <3>3 DEF ProgramIsSound, SaveIsSound, Bootstraps
    <3>6. ~Saves(step, "sentiment")
      <4>1. CASE n # m
        BY <1>2, <3>5, <4>1 DEF SaveIsSound, Saves
      <4>2. CASE n = m
        <5>1. i # task.pc
          BY <1>2, <1>3, <2>2, <4>2
        <5> QED
          BY <1>2, <2>2, <3>1, <3>2, <3>3, <4>2, <5>1 DEF ProgramIsSound
      <4> QED
        BY <4>1, <4>2
    <3> QED
      BY <1>5, <3>4, <3>6 DEF Files
  <2>3. \A report : ReportIsWhole(report) => ReportIsWhole(report)'
    BY <1>5 DEF ReportIsWhole
  <2>4. NoneFailed' => NoneFailed
    BY <1>2, <1>3 DEF NoneFailed
  <2>5. ASSUME NoneFailed, NEW n \in DOMAIN tasks, tasks'[n].st \in {"running", "done"},
               NEW f \in Pinnable(n, tasks'[n].prog)
        PROVE  files'[f] # Torn \/ Pending(tasks'[n], f)
    <3>1. tasks[n].st \in {"running", "done"} /\ tasks[n].prog = tasks'[n].prog
      BY <1>2, <1>3, <2>5
    <3>2. f \in Files /\ f # "wayback_xlsx"
      BY <3>1 DEF FetchInv, ThreadInv, ThreadIsSound, ProgramIsSound, Pinnable
    <3>3. files[f] # Torn \/ Pending(tasks[n], f)
      BY <2>5, <3>1 DEF FetchInv, FileInv
    <3>4. CASE n # m
      BY <1>3, <1>5, <3>2, <3>3, <3>4
    <3>5. CASE n = m /\ Saves(step, f)
      BY <1>5, <3>2, <3>5, AcquisitionAssumption
    <3>6. CASE n = m /\ ~Saves(step, f)
      <4>1. Pending(task, f) => Pending(tasks'[m], f)
        BY <1>2, <1>3, <3>6 DEF Pending
      <4> QED
        BY <1>5, <3>2, <3>3, <3>6, <4>1
    <3> QED
      BY <3>4, <3>5, <3>6
  <2>6. \A f \in Provided : files'[f] # Torn
    BY <2>1 DEF FetchInv, FileInv
  <2>7. NoneFailed => \A report \in main.reports : ReportIsWhole(report)
    BY DEF FetchInv, FileInv
  <2> QED
    BY <1>1, <1>3, <2>2, <2>3, <2>4, <2>5, <2>6, <2>7 DEF FileInv
<1> QED
  BY <1>4, <1>9, <1>10, <1>11 DEF FetchInv

LEMMA OpenRunInv ==
  ASSUME FetchInv, NEW m \in DOMAIN tasks, OpenRun(m)
  PROVE  FetchInv' /\ Keeps(db, db')
<1> DEFINE task == tasks[m]
<1>0. PICK new : new = Len(db.runs) + 1
  OBVIOUS
<1>1. /\ Midway(m) /\ At(task).op = "open" /\ UNCHANGED <<files, epoch, main>>
      /\ db' = StartFetchRun(db, m)
  BY DEF OpenRun
<1>2. /\ m \in Modes /\ task.st = "running" /\ IsTask(task) /\ ProgramIsSound(m, task.prog)
      /\ task.pc \in DOMAIN task.prog.steps /\ task.pc \in Nat
      /\ Len(task.prog.steps) \in Nat /\ DOMAIN task.prog.steps = 1 .. Len(task.prog.steps)
      /\ At(task) = task.prog.steps[task.pc]
  BY <1>1, MidwayStep DEF At
<1>3. /\ DOMAIN tasks' = DOMAIN tasks
      /\ \A n \in DOMAIN tasks : n # m => tasks'[n] = tasks[n]
      /\ DOMAIN tasks'[m] = DOMAIN task /\ tasks'[m].st = "running"
      /\ tasks'[m].prog = task.prog /\ tasks'[m].pc = task.pc + 1 /\ tasks'[m].run = new
      /\ tasks'[m].data = task.data
  BY <1>0, <1>2 DEF OpenRun, IsTask
<1>4. IsLedger(db) /\ files \in [Files -> Contents] /\ Len(db.runs) \in Nat
      /\ RunIds(db) = 1 .. Len(db.runs)
  BY LedgerRuns DEF FetchInv, FetchTypeOK
<1>5. /\ IsLedger(db') /\ Keeps(db, db') /\ Len(db'.runs) = new
      /\ \A r \in RunIds(db) : db'.runs[r] = db.runs[r]
      /\ db'.runs[new].status = "running"
  <2> DEFINE next == StartFetchRun(db, m)
  <2>1. /\ IsLedger(next) /\ Keeps(db, next) /\ Len(next.runs) = Len(db.runs) + 1
        /\ \A r \in RunIds(db) : next.runs[r] = db.runs[r]
        /\ next.runs[Len(db.runs) + 1] = [mode |-> m, status |-> "running"]
    BY <1>2, <1>4, RunStarts
  <2> HIDE DEF next
  <2>2. db' = next
    BY <1>1 DEF next
  <2> QED
    BY <1>0, <2>1, <2>2
<1>6. PICK k \in DOMAIN task.prog.steps :
         OpensAt(task.prog, k) /\ (task.run = 0 <=> task.pc <= k)
  BY <1>2 DEF FetchInv, ThreadInv, ThreadIsSound
<1>7. task.pc = k /\ task.run = 0
  BY <1>1, <1>2, <1>6 DEF OpensAt
<1>8. IsTask(tasks[m])'
  BY <1>0, <1>2, <1>3, <1>4, <1>5 DEF IsTask
<1>9. ThreadIsSound(m)'
  <2>1. new # 0 /\ ~(task.pc + 1 <= k)
    BY <1>0, <1>2, <1>4, <1>7
  <2> QED
    BY <1>2, <1>3, <1>5, <1>6, <2>1 DEF ThreadIsSound
<1>10. FetchTypeOK' /\ ThreadInv'
  BY <1>0, <1>1, <1>3, <1>4, <1>5, <1>8, <1>9, TaskMoves
<1>11. BatchInv'
  <2>1. \A r \in RunIds(db) : Accounted(r) => Accounted(r)'
    <3>1. \A r \in RunIds(db) : r # 0
      BY <1>4
    <3> QED
      BY <1>3, <1>5, <1>7, <3>1 DEF Accounted
  <2>2. Accounted(new)'
    BY <1>3 DEF Accounted
  <2>3. main.base \in Nat
    BY <1>4 DEF FetchInv, FetchTypeOK
  <2> QED
    BY <1>0, <1>1, <1>3, <1>4, <1>5, <2>1, <2>2, <2>3 DEF FetchInv, BatchInv
<1>12. FileInv'
  <2>1. NoneFailed' => NoneFailed
    BY <1>2, <1>3 DEF NoneFailed
  <2>2. \A report : ReportIsWhole(report) => ReportIsWhole(report)'
    BY <1>1 DEF ReportIsWhole
  <2>3. \A f : Pending(task, f) => Pending(tasks'[m], f)
    BY <1>1, <1>2, <1>3 DEF Pending, Saves
  <2>4. \A i \in task.pc + 1 .. Len(task.prog.steps) : i \in task.pc .. Len(task.prog.steps)
    BY <1>2
  <2>5. ASSUME NEW n \in DOMAIN tasks, tasks'[n].st = "running",
               NEW i \in tasks'[n].pc .. Len(tasks'[n].prog.steps),
               Bootstraps(tasks'[n].prog.steps[i])
        PROVE  files["sentiment"] = NoFile
    <3>1. /\ tasks[n].st = "running" /\ tasks[n].prog = tasks'[n].prog
          /\ i \in tasks[n].pc .. Len(tasks[n].prog.steps)
      BY <1>2, <1>3, <2>4, <2>5
    <3> QED
      BY <2>5, <3>1 DEF FetchInv, FileInv
  <2>6. ASSUME NoneFailed, NEW n \in DOMAIN tasks, tasks'[n].st \in {"running", "done"},
               NEW f \in Pinnable(n, tasks'[n].prog)
        PROVE  files[f] # Torn \/ Pending(tasks'[n], f)
    <3>1. tasks[n].st \in {"running", "done"} /\ tasks[n].prog = tasks'[n].prog
      BY <1>2, <1>3, <2>6
    <3>2. files[f] # Torn \/ Pending(tasks[n], f)
      BY <2>6, <3>1 DEF FetchInv, FileInv
    <3> QED
      BY <1>3, <2>3, <3>2
  <2>7. /\ \A f \in Provided : files[f] # Torn
        /\ NoneFailed => \A report \in main.reports : ReportIsWhole(report)
    BY DEF FetchInv, FileInv
  <2> QED
    BY <1>1, <1>3, <2>1, <2>2, <2>5, <2>6, <2>7 DEF FileInv
<1> QED
  BY <1>5, <1>10, <1>11, <1>12 DEF FetchInv

LEMMA CloseRunInv ==
  ASSUME FetchInv, NEW m \in DOMAIN tasks, CloseRun(m)
  PROVE  FetchInv' /\ Keeps(db, db')
<1> DEFINE task == tasks[m]
           status == task.prog.status
<1>1. /\ task.st = "running" /\ task.pc > Len(task.prog.steps)
      /\ UNCHANGED <<files, epoch, main>>
      /\ db' = FinishFetchRun(db, task.run, status)
  BY DEF CloseRun, Running
<1>2. /\ m \in Modes /\ IsTask(task) /\ ProgramIsSound(m, task.prog) /\ IsRun(task.prog)
      /\ Len(task.prog.steps) \in Nat /\ task.pc \in Nat
      /\ DOMAIN task.prog.steps = 1 .. Len(task.prog.steps) /\ status \in {"ok", "skipped"}
  BY <1>1 DEF FetchInv, FetchTypeOK, ThreadInv, ThreadIsSound, IsTask, IsRun
<1>3. /\ DOMAIN tasks' = DOMAIN tasks
      /\ \A n \in DOMAIN tasks : n # m => tasks'[n] = tasks[n]
      /\ DOMAIN tasks'[m] = DOMAIN task /\ tasks'[m].st = "done"
      /\ tasks'[m].prog = task.prog /\ tasks'[m].pc = task.pc /\ tasks'[m].run = task.run
      /\ tasks'[m].data = task.data
  BY <1>2 DEF CloseRun, IsTask
<1>4. IsLedger(db) /\ files \in [Files -> Contents] /\ Len(db.runs) \in Nat
      /\ RunIds(db) = 1 .. Len(db.runs)
  BY LedgerRuns DEF FetchInv, FetchTypeOK
<1>5. task.run # 0 /\ db.runs[task.run].status = "running" /\ task.run \in RunIds(db)
  BY <1>1, <1>2, <1>4 DEF FetchInv, ThreadInv, ThreadIsSound, IsTask
<1>6. /\ IsLedger(db') /\ Keeps(db, db') /\ Len(db'.runs) = Len(db.runs)
      /\ db'.runs[task.run].status = status
      /\ \A r \in RunIds(db) : r # task.run => db'.runs[r] = db.runs[r]
  <2> DEFINE next == FinishFetchRun(db, task.run, status)
  <2>1. /\ IsLedger(next) /\ Keeps(db, next) /\ Len(next.runs) = Len(db.runs)
        /\ next.runs[task.run].status = status
        /\ \A r \in RunIds(db) : r # task.run => next.runs[r] = db.runs[r]
    BY <1>2, <1>4, <1>5, RunFinishes, SMTT(30)
  <2>2. db' = next
    BY <1>1
  <2> HIDE DEF next
  <2> QED
    BY <2>1, <2>2
<1>7. IsTask(tasks[m])'
  BY <1>2, <1>3, <1>6 DEF IsTask
<1>8. ThreadIsSound(m)'
  BY <1>1, <1>2, <1>3 DEF ThreadIsSound
<1>9. FetchTypeOK' /\ ThreadInv'
  BY <1>1, <1>3, <1>4, <1>6, <1>7, <1>8, TaskMoves
<1>10. BatchInv'
  <2>1. \A r \in RunIds(db) : Accounted(r) => Accounted(r)'
    <3> SUFFICES ASSUME NEW r \in RunIds(db), Accounted(r) PROVE Accounted(r)'
      OBVIOUS
    <3>1. CASE r = task.run
      BY <1>2, <1>6, <3>1 DEF Accounted
    <3>2. CASE r # task.run
      BY <1>3, <1>6, <3>2 DEF Accounted
    <3> QED
      BY <3>1, <3>2
  <2>2. main.base \in Nat
    BY <1>4 DEF FetchInv, FetchTypeOK
  <2> QED
    BY <1>1, <1>3, <1>4, <1>6, <2>1, <2>2 DEF FetchInv, BatchInv
<1>11. FileInv'
  <2>1. NoneFailed' => NoneFailed
    BY <1>1, <1>3 DEF NoneFailed
  <2>2. \A report : ReportIsWhole(report) => ReportIsWhole(report)'
    BY <1>1 DEF ReportIsWhole
  <2>3. \A f : Pending(task, f) => Pending(tasks'[m], f)
    BY <1>1, <1>2, <1>3 DEF Pending
  <2> QED
    BY <1>1, <1>3, <2>1, <2>2, <2>3 DEF FetchInv, FileInv
<1> QED
  BY <1>6, <1>9, <1>10, <1>11 DEF FetchInv

(* A thread fails, whatever the step it is at leaves behind.               *)
LEMMA FailTaskInv ==
  ASSUME FetchInv, NEW m \in DOMAIN tasks, Midway(m),
         NEW ledger \in BrokenLedgers(tasks[m], At(tasks[m])), FailTask(m, ledger),
         files' \in BrokenFiles(tasks[m], At(tasks[m])),
         files' = files \/ ~Raises(At(tasks[m]))
  PROVE  FetchInv' /\ Keeps(db, db')
<1> DEFINE task == tasks[m]
<1>1. UNCHANGED <<epoch, main>> /\ task.st = "running" /\ IsTask(task)
  BY MidwayStep DEF FailTask
<1>2. /\ DOMAIN tasks' = DOMAIN tasks
      /\ \A n \in DOMAIN tasks : n # m => tasks'[n] = tasks[n]
      /\ DOMAIN tasks'[m] = DOMAIN task /\ tasks'[m].st = "failed"
      /\ tasks'[m].prog = task.prog /\ tasks'[m].pc = task.pc /\ tasks'[m].run = task.run
      /\ tasks'[m].data = task.data
  BY <1>1 DEF FailTask, IsTask
<1>3. IsLedger(db) /\ Len(db.runs) \in Nat /\ RunIds(db) = 1 .. Len(db.runs)
  BY LedgerRuns DEF FetchInv, FetchTypeOK
<1>4. IsLedger(ledger) /\ Keeps(db, ledger) /\ ledger.runs = db.runs
  BY BrokenLedgersKeep
<1>5. /\ IsLedger(db') /\ Keeps(db, db') /\ Len(db'.runs) = Len(db.runs)
      /\ \A r \in RunIds(db) : r # task.run => db'.runs[r] = db.runs[r]
  <2>1. CASE task.run = 0
    BY <1>4, <2>1 DEF FailTask
  <2>2. CASE task.run # 0
    <3>1. db' = FinishFetchRun(ledger, task.run, "failed")
      BY <2>2 DEF FailTask
    <3>2. task.run \in RunIds(ledger) /\ ledger.runs[task.run].status = "running"
      BY <1>4, <2>2, MidwayRun DEF RunIds
    <3>3. /\ IsLedger(db') /\ Keeps(ledger, db') /\ Len(db'.runs) = Len(ledger.runs)
          /\ \A r \in RunIds(ledger) : r # task.run => db'.runs[r] = ledger.runs[r]
      <4> DEFINE next == FinishFetchRun(ledger, task.run, "failed")
      <4>1. /\ IsLedger(next) /\ Keeps(ledger, next) /\ Len(next.runs) = Len(ledger.runs)
            /\ \A r \in RunIds(ledger) : r # task.run => next.runs[r] = ledger.runs[r]
        BY <1>4, <3>2, RunFinishes
      <4>2. db' = next
        BY <3>1
      <4> HIDE DEF next
      <4> QED
        BY <4>1, <4>2
    <3>4. RunIds(ledger) = RunIds(db) /\ \A r : Ended(ledger, r) <=> Ended(db, r)
      BY <1>4 DEF RunIds, Ended
    <3>5. Keeps(db, db')
      BY <1>3, <1>4, <3>3, <3>4 DEF Keeps
    <3> QED
      BY <1>4, <3>3, <3>4, <3>5
  <2> QED
    BY <2>1, <2>2
<1>6. files' \in [Files -> Contents] /\ \A f \in Provided : files'[f] = files[f]
  BY BrokenFilesAreTyped
<1>7. IsTask(tasks[m])'
  BY <1>1, <1>2, <1>5 DEF IsTask
<1>8. ThreadIsSound(m)'
  BY <1>2 DEF ThreadIsSound
<1>9. FetchTypeOK' /\ ThreadInv'
  BY <1>1, <1>2, <1>3, <1>5, <1>6, <1>7, <1>8, TaskMoves
<1>10. BatchInv'
  <2>1. \A r \in RunIds(db) : Accounted(r) => Accounted(r)'
    <3> SUFFICES ASSUME NEW r \in RunIds(db), Accounted(r) PROVE Accounted(r)'
      OBVIOUS
    <3>1. CASE r = task.run
      BY <1>2, <3>1 DEF Accounted
    <3>2. CASE r # task.run
      BY <1>2, <1>5, <3>2 DEF Accounted
    <3> QED
      BY <3>1, <3>2
  <2>2. main.base \in Nat
    BY <1>3 DEF FetchInv, FetchTypeOK
  <2> QED
    BY <1>1, <1>2, <1>3, <1>5, <2>1, <2>2 DEF FetchInv, BatchInv
<1>11. FileInv'
  <2>1. ~NoneFailed'
    BY <1>2 DEF NoneFailed
  <2>2. ASSUME NEW n \in DOMAIN tasks, tasks'[n].st = "running",
               NEW i \in tasks'[n].pc .. Len(tasks'[n].prog.steps),
               Bootstraps(tasks'[n].prog.steps[i])
        PROVE  files'["sentiment"] = NoFile
    <3>1. n # m /\ tasks'[n] = tasks[n]
      BY <1>2, <2>2
    <3>2. files["sentiment"] = NoFile
      BY <2>2, <3>1 DEF FetchInv, FileInv
    <3>3. n = "sentiment"
      <4>1. ProgramIsSound(n, tasks[n].prog) /\ IsTask(tasks[n])
        BY <2>2, <3>1 DEF FetchInv, FetchTypeOK, ThreadInv, ThreadIsSound
      <4>2. Len(tasks[n].prog.steps) \in Nat /\ tasks[n].pc \in Nat \ {0}
            /\ DOMAIN tasks[n].prog.steps = 1 .. Len(tasks[n].prog.steps)
        BY <4>1 DEF IsTask, IsRun
      <4>3. i \in DOMAIN tasks[n].prog.steps
        BY <2>2, <3>1, <4>2
      <4> QED
        BY <2>2, <3>1, <4>1, <4>3 DEF ProgramIsSound, SaveIsSound, Bootstraps
    <3>4. ~Saves(At(task), "sentiment")
      BY <3>1, <3>3, MidwayStep DEF SaveIsSound, Saves
    <3>5. files'["sentiment"] = files["sentiment"]
      <4>1. files \in [Files -> Contents] /\ "sentiment" \in Files
        BY DEF FetchInv, FetchTypeOK, Files
      <4>2. files' = files \/ \E c : files' = [files EXCEPT ![At(task).file] = c]
        BY DEF BrokenFiles
      <4>3. files' = files \/ At(task).op = "save"
        BY DEF BrokenFiles
      <4> QED
        BY <3>4, <4>1, <4>2, <4>3 DEF Saves
    <3> QED
      BY <3>2, <3>5
  <2>3. \A f \in Provided : files'[f] # Torn
    BY <1>6 DEF FetchInv, FileInv
  <2> QED
    BY <1>2, <2>1, <2>2, <2>3 DEF FileInv
<1> QED
  BY <1>5, <1>9, <1>10, <1>11 DEF FetchInv

(***************************************************************************)
(* The end of a group and of the invocation.                               *)
(***************************************************************************)
LEMMA RaiseUnreadableInv ==
  ASSUME FetchInv, NEW m \in DOMAIN tasks, RaiseUnreadable(m)
  PROVE  FetchInv' /\ Keeps(db, db')
<1>1. Midway(m) /\ FailTask(m, db) /\ files' = files
  BY DEF RaiseUnreadable
<1>2. db \in BrokenLedgers(tasks[m], At(tasks[m])) /\ files \in BrokenFiles(tasks[m], At(tasks[m]))
  BY DEF BrokenLedgers, BrokenFiles
<1> QED
  BY <1>1, <1>2, FailTaskInv

LEMMA RaiseMidwayInv ==
  ASSUME FetchInv, NEW m \in DOMAIN tasks, RaiseMidway(m)
  PROVE  FetchInv' /\ Keeps(db, db')
<1>1. PICK ledger \in BrokenLedgers(tasks[m], At(tasks[m])) : FailTask(m, ledger)
  BY DEF RaiseMidway
<1> QED
  BY <1>1, FailTaskInv DEF RaiseMidway

LEMMA KillInv ==
  ASSUME FetchInv, Kill
  PROVE  FetchInv'
<1>1. main' = Idle /\ DOMAIN tasks' = {} /\ UNCHANGED <<db, epoch>>
  BY DEF Kill, NoTasks
<1>2. files' = files \/ \E m : /\ Midway(m) /\ ~Raises(At(tasks[m]))
                              /\ files' \in BrokenFiles(tasks[m], At(tasks[m]))
  BY DEF Kill
<1>3. files' \in [Files -> Contents] /\ \A f \in Provided : files'[f] = files[f]
  BY <1>2, BrokenFilesAreTyped DEF FetchInv, FetchTypeOK
<1> QED
  BY <1>1, <1>3, QuietInv

LEMMA GroupRaisesInv ==
  ASSUME FetchInv, GroupRaises
  PROVE  FetchInv'
<1>1. /\ main' = Idle /\ DOMAIN tasks' = {} /\ UNCHANGED <<db, epoch, files>>
      /\ files \in [Files -> Contents]
  BY DEF GroupRaises, NoTasks, FetchInv, FetchTypeOK
<1> QED
  BY <1>1, QuietInv

LEMMA EmitManifestInv ==
  ASSUME FetchInv, EmitManifest
  PROVE  FetchInv'
<1>1. /\ main' = Idle /\ UNCHANGED <<db, epoch, files, tasks>> /\ DOMAIN tasks = {}
      /\ files \in [Files -> Contents]
  BY DEF EmitManifest, FetchInv, FetchTypeOK, BatchInv
<1> QED
  BY <1>1, QuietInv

LEMMA GroupDoneInv ==
  ASSUME FetchInv, GroupDone
  PROVE  FetchInv'
<1>1. /\ UNCHANGED <<db, files, epoch>> /\ main.st = "fetching"
      /\ \A m \in DOMAIN tasks : tasks[m].st = "done"
  BY DEF GroupDone, AllDone
<1>2. /\ DOMAIN main' = {"st", "groups", "required", "base", "reports"}
      /\ main'.st \in {"fetching", "emitting"} /\ main'.base = main.base
      /\ main'.reports = main.reports \cup {ReportOf(m) : m \in DOMAIN tasks}
      /\ main'.st = "emitting" => DOMAIN tasks' = {}
      /\ \A m \in DOMAIN tasks' : tasks'[m] = Queued
  <2>1. DOMAIN main = {"st", "groups", "required", "base", "reports"}
    BY DEF FetchInv, FetchTypeOK
  <2> QED
    BY <1>1, <2>1 DEF GroupDone, NoTasks, TasksOf
<1>3. IsTask(Queued)' /\ Queued.st = "queued" /\ Queued.run = 0 /\ Queued.pc = 1
  <2>1. /\ DOMAIN Queued = {"st", "prog", "pc", "run", "data"} /\ Queued.st = "queued"
        /\ Queued.prog = Run(<<>>) /\ Queued.pc = 1 /\ Queued.run = 0 /\ Queued.data = Report
    BY DEF Queued
  <2>2. IsRun(Run(<<>>)) /\ Run(<<>>).steps = <<>>
    BY DEF IsRun, Run, Range
  <2>3. Len(db.runs) \in Nat /\ db' = db
    BY <1>1, LedgerRuns DEF FetchInv, FetchTypeOK
  <2> QED
    BY <2>1, <2>2, <2>3, ReportIsTable DEF IsTask
<1>4. FetchTypeOK'
  BY <1>1, <1>2, <1>3 DEF FetchInv, FetchTypeOK
<1>5. ThreadInv'
  BY <1>2, <1>3 DEF ThreadInv, ThreadIsSound
<1>6. BatchInv'
  <2>1. \A r : Accounted(r) => Accounted(r)'
    BY <1>1 DEF Accounted
  <2> QED
    BY <1>1, <1>2, <2>1 DEF FetchInv, BatchInv
<1>7. FileInv'
  <2>1. \A report \in main.reports : ReportIsWhole(report)
    BY <1>1 DEF FetchInv, FileInv, NoneFailed
  <2>2. ASSUME NEW m \in DOMAIN tasks PROVE ReportIsWhole(ReportOf(m))
    <3>1. /\ IsTask(tasks[m]) /\ ProgramIsSound(m, tasks[m].prog)
          /\ tasks[m].pc > Len(tasks[m].prog.steps)
      BY <1>1 DEF FetchInv, FetchTypeOK, ThreadInv, ThreadIsSound
    <3>2. Len(tasks[m].prog.steps) \in Nat /\ tasks[m].pc \in Nat
      BY <3>1 DEF IsTask, IsRun
    <3>3. \A f : ~Pending(tasks[m], f)
      BY <3>1, <3>2 DEF Pending
    <3>4. \A f \in Pinnable(m, tasks[m].prog) : f \in Files /\ files[f] # Torn
      BY <1>1, <3>1, <3>3 DEF FetchInv, FileInv, NoneFailed, ProgramIsSound
    <3> QED
      BY <3>4 DEF ReportIsWhole, ReportOf, Pinnable
  <2>3. \A report : ReportIsWhole(report) => ReportIsWhole(report)'
    BY <1>1 DEF ReportIsWhole
  <2>4. \A report \in main'.reports : ReportIsWhole(report)'
    BY <1>2, <2>1, <2>2, <2>3
  <2> QED
    BY <1>1, <1>2, <1>3, <2>4 DEF FetchInv, FileInv
<1> QED
  BY <1>4, <1>5, <1>6, <1>7 DEF FetchInv

Consolidating ==
  StartConsolidation \/ ImportRuns \/ ImportArtifacts \/ ImportOutputs \/ ImportRows

LEMMA ConsolidatingFetchesNothing ==
  Consolidating => UNCHANGED fetching
BY DEF Consolidating, StartConsolidation, ImportRuns, ImportArtifacts, ImportOutputs, ImportRows

LEMMA FetchInvKept ==
  FetchInv /\ [Next]_vars => FetchInv' /\ Keeps(db, db')
<1> SUFFICES ASSUME FetchInv, [Next]_vars PROVE FetchInv' /\ Keeps(db, db')
  OBVIOUS
<1>0. db' = db => Keeps(db, db')
  BY LedgerRuns DEF Keeps, FetchInv, FetchTypeOK
<1>1. CASE StartInvocation
  BY <1>0, <1>1, StartInvocationInv DEF StartInvocation
<1>2. CASE GroupDone
  BY <1>0, <1>2, GroupDoneInv DEF GroupDone
<1>3. CASE GroupRaises
  BY <1>0, <1>3, GroupRaisesInv DEF GroupRaises
<1>4. CASE EmitManifest
  BY <1>0, <1>4, EmitManifestInv DEF EmitManifest
<1>5. CASE \E i \in Places : StartTask(i) \/ CancelQueued(i)
  BY <1>0, <1>5, StartTaskInv, CancelQueuedInv DEF StartTask, CancelQueued
<1>6. ASSUME NEW m \in DOMAIN tasks,
             \/ OpenRun(m) \/ Proceed(m) \/ CloseRun(m)
             \/ RaiseUnreadable(m) \/ RaiseMidway(m)
      PROVE  FetchInv' /\ Keeps(db, db')
  BY <1>6, OpenRunInv, ProceedInv, CloseRunInv, RaiseUnreadableInv, RaiseMidwayInv
<1>7. CASE Kill
  BY <1>0, <1>7, KillInv DEF Kill
<1>8. CASE Consolidating \/ UNCHANGED vars
  <2>1. UNCHANGED <<db, files, epoch, main, tasks>>
    BY <1>8, ConsolidatingFetchesNothing DEF fetching, vars
  <2> QED
    BY <1>0, <2>1, StillInv
<1> QED
  BY <1>1, <1>2, <1>3, <1>4, <1>5, <1>6, <1>7, <1>8 DEF Next, Consolidating

(***************************************************************************)
(* The manifest: the runs it names have ended, and stay as they are.       *)
(***************************************************************************)
ManifestInv ==
  /\ ManifestOfFinishedRuns
  /\ manifest # NoFile => manifest.runs \subseteq RunIds(db)

LEMMA ManifestInvKept ==
  FetchInv /\ ManifestInv /\ [Next]_vars => ManifestInv'
<1> SUFFICES ASSUME FetchInv, ManifestInv, [Next]_vars PROVE ManifestInv'
  OBVIOUS
<1>1. /\ Keeps(db, db') /\ IsLedger(db) /\ IsLedger(db')
  BY FetchInvKept DEF FetchInv, FetchTypeOK
<1>2. /\ RunIds(db) = 1 .. Len(db.runs) /\ Len(db.runs) \in Nat
      /\ RunIds(db') = 1 .. Len(db'.runs) /\ Len(db'.runs) \in Nat
  BY <1>1, LedgerRuns
<1>3. RunIds(db) \subseteq RunIds(db')
  BY <1>1, <1>2 DEF Keeps
<1>4. CASE manifest' = manifest
  <2>1. \A r \in RunIds(db) : db.runs[r].status \in {"ok", "skipped"} => db'.runs[r] = db.runs[r]
    BY <1>1 DEF Keeps, Ended
  <2> QED
    BY <1>3, <1>4, <2>1 DEF ManifestInv, ManifestOfFinishedRuns
<1>5. CASE EmitManifest /\ manifest' # manifest
  <2>1. /\ db' = db /\ main.st = "emitting" /\ DOMAIN tasks = {}
        /\ manifest' = [runs |-> main.base + 1 .. Len(db.runs),
                        pins |-> {[file |-> f, content |-> files[f]] :
                                    f \in UNION {Exportable(r) : r \in main.reports}}]
    BY <1>5 DEF EmitManifest, FetchInv, BatchInv
  <2>2. /\ manifest'.runs = main.base + 1 .. Len(db.runs)
        /\ \A pin \in manifest'.pins : \E f \in UNION {Exportable(r) : r \in main.reports} :
              pin.file = f /\ pin.content = files[f]
    BY <2>1
  <2>3. \A r \in manifest'.runs : r \in RunIds(db) /\ db.runs[r].status \in {"ok", "skipped"}
    <3>1. main.base \in Nat
      BY <1>2 DEF FetchInv, FetchTypeOK
    <3> QED
      BY <1>2, <2>1, <2>2, <3>1 DEF FetchInv, BatchInv, Accounted
  <2>4. \A pin \in manifest'.pins : pin.file # "wayback_xlsx" => IsTable(pin.content)
    <3>1. \A report \in main.reports : ReportIsWhole(report)
      BY <2>1 DEF FetchInv, FileInv, NoneFailed
    <3> QED
      BY <2>2, <3>1 DEF ReportIsWhole, Exportable, IsTable
  <2> QED
    BY <2>1, <2>3, <2>4 DEF ManifestInv, ManifestOfFinishedRuns
<1> QED
  <2>1. manifest' = manifest \/ EmitManifest
    BY DEF Next, vars, fetching, StartInvocation, GroupDone, GroupRaises, StartTask, CancelQueued,
           OpenRun, Proceed, CloseRun, RaiseUnreadable, RaiseMidway, FailTask, Kill,
           StartConsolidation, ImportRuns, ImportArtifacts, ImportOutputs, ImportRows
  <2> QED
    BY <1>4, <1>5, <2>1

(***************************************************************************)
(* The consolidation.                                                      *)
(***************************************************************************)
Runnable(rows) == \A row \in rows : "run" \in DOMAIN row

LEMMA LedgerRows ==
  ASSUME NEW store, IsLedger(store)
  PROVE  /\ Runnable(store.artifacts) /\ Runnable(store.outputs)
         /\ \A row \in store.artifacts \cup store.outputs : row.run \in 1 .. Len(store.runs)
<1>1. \A row \in store.artifacts :
         row = [run |-> row.run, source |-> row.source] /\ row.run \in RunIds(store)
  BY DEF IsLedger
<1>2. \A row \in store.outputs :
         /\ row = [run |-> row.run, file |-> row.file, content |-> row.content]
         /\ row.run \in RunIds(store)
  BY DEF IsLedger
<1>3. RunIds(store) = 1 .. Len(store.runs)
  BY LedgerRuns
<1>4. \A row \in store.artifacts : DOMAIN row = {"run", "source"}
  BY <1>1
<1>5. \A row \in store.outputs : DOMAIN row = {"run", "file", "content"}
  BY <1>2
<1> QED
  BY <1>1, <1>2, <1>3, <1>4, <1>5 DEF Runnable

(* Rows moved behind those of the target are found under their new run and *)
(* disturb no run of the target.                                           *)
Behind(rows, first) == {[row EXCEPT !.run = @ + first] : row \in rows}

Movable(old, rows, first) ==
  /\ first \in Nat /\ Runnable(rows)
  /\ \A row \in old : row.run \in 1 .. first
  /\ \A row \in rows : row.run \in Nat \ {0}

Together(all, old, rows, first) ==
  /\ \A r \in 1 .. first : OfRun(all, r) = OfRun(old, r)
  /\ \A r \in Nat \ {0} : OfRun(all, first + r) = OfRun(rows, r)

LEMMA RowsMoveTogether ==
  ASSUME NEW first, NEW old, NEW rows, Movable(old, rows, first)
  PROVE  Together(old \cup Behind(rows, first), old, rows, first)
<1> USE DEF Movable
<1>0. PICK all : all = old \cup Behind(rows, first)
  OBVIOUS
<1> DEFINE Moved(row) == [row EXCEPT !.run = @ + first]
           Zeroed(row) == [row EXCEPT !.run = 0]
<1>1. \A row \in rows : Moved(row).run = row.run + first /\ Zeroed(Moved(row)) = Zeroed(row)
  BY DEF Runnable
<1>2. all = old \cup {Moved(row) : row \in rows}
  BY <1>0 DEF Behind
<1>3. \A set, r : OfRun(set, r) = {Zeroed(row) : row \in {row \in set : row.run = r}}
  BY DEF OfRun
<1> HIDE DEF Moved, Zeroed
<1>4. ASSUME NEW r \in 1 .. first
      PROVE  {row \in all : row.run = r} = {row \in old : row.run = r}
  BY <1>1, <1>2
<1>5. ASSUME NEW r \in Nat \ {0}
      PROVE  {row \in all : row.run = first + r} = {Moved(row) : row \in {row \in rows : row.run = r}}
  BY <1>1, <1>2
<1>6. ASSUME NEW r \in Nat \ {0}
      PROVE  {Zeroed(row) : row \in {Moved(row) : row \in {row \in rows : row.run = r}}}
               = {Zeroed(row) : row \in {row \in rows : row.run = r}}
  <2>1. \A row \in {row \in rows : row.run = r} : Zeroed(Moved(row)) = Zeroed(row)
    BY <1>1
  <2> QED
    BY <2>1
<1> QED
  BY <1>0, <1>3, <1>4, <1>5, <1>6 DEF Together

(* What is read of a source while its transaction is open.                 *)
SnapshotInv ==
  LET tx == import.tx
      first == Len(target.runs)
  IN  /\ OtherDb # NoSource /\ import.seen <= Len(SourceDb.runs)
      /\ import.source = 1 => import.seen = Len(OtherDb.runs)
      /\ Len(tx.runs) = first + import.seen
      /\ \A r \in 1 .. first : tx.runs[r] = target.runs[r]
      /\ \A r \in 1 .. import.seen :
           tx.runs[first + r].status = "ok" => SourceDb.runs[r].status = "ok"

ArtifactsInv ==
  LET first == Len(target.runs)
  IN  /\ \A r \in 1 .. first : OfRun(import.tx.artifacts, r) = OfRun(target.artifacts, r)
      /\ \A r \in 1 .. import.seen : import.tx.runs[first + r].status = "ok" =>
           OfRun(import.tx.artifacts, first + r) = OfRun(SourceDb.artifacts, r)

OutputsInv ==
  LET first == Len(target.runs)
  IN  /\ \A r \in 1 .. first : OfRun(import.tx.outputs, r) = OfRun(target.outputs, r)
      /\ \A r \in 1 .. import.seen : import.tx.runs[first + r].status = "ok" =>
           OfRun(import.tx.outputs, first + r) = OfRun(SourceDb.outputs, r)

Before == IF OtherDb = NoSource THEN 0 ELSE Len(OtherDb.runs)
Foreign(r) == OtherDb # NoSource /\ r <= Len(OtherDb.runs)

(* A run that a consolidated database calls ok is ok, and so final, in its *)
(* source, and has the rows of its source.                                 *)
OkIn(store) ==
  \A r \in RunIds(store) : store.runs[r].status = "ok" /\ ~Foreign(r) =>
    r - Before \in RunIds(db) /\ db.runs[r - Before].status = "ok"

WholeIn(store) ==
  \A r \in RunIds(store) :
    LET source == IF Foreign(r) THEN OtherDb ELSE db
        own == IF Foreign(r) THEN r ELSE r - Before
    IN store.runs[r].status = "ok" =>
         /\ OfRun(store.artifacts, r) = OfRun(source.artifacts, own)
         /\ OfRun(store.outputs, r) = OfRun(source.outputs, own)

LEMMA WholeInTarget == OkRunIsWhole <=> (target # NoFile => WholeIn(target))
<1>1. \A r : (r - (IF OtherDb = NoSource THEN 0 ELSE Len(OtherDb.runs))) = r - Before
  BY DEF Before
<1> QED
  BY <1>1, Zenon DEF OkRunIsWhole, WholeIn, Foreign

ImportingInv ==
  import.st = "importing" =>
    /\ IsLedger(target)
    /\ Len(target.runs) = IF import.source = 1 THEN 0 ELSE Len(OtherDb.runs)
    /\ import.source = 2 => OtherDb # NoSource
    /\ import.phase # "runs" => SnapshotInv
    /\ import.phase = "artifacts" => import.tx.artifacts = target.artifacts
    /\ import.phase \in {"artifacts", "outputs"} => import.tx.outputs = target.outputs
    /\ import.phase \in {"outputs", "rows"} => ArtifactsInv
    /\ import.phase = "rows" => OutputsInv

ImportInv ==
  /\ ImportTypeOK /\ ImportingInv
  /\ import.st = "planned" => import.source = 1 /\ import.phase = "runs"
  /\ target # NoFile \/ import.st = "importing" => OkIn(target) /\ WholeIn(target)

LEMMA InitImportInv == Init => ImportInv
<1> SUFFICES ASSUME Init PROVE ImportInv
  OBVIOUS
<1> USE DEF Init
<1> QED
  BY EmptyIsLedger DEF ImportInv, ImportTypeOK, ImportingInv

LEMMA SourceDbIs ==
  ASSUME ImportTypeOK
  PROVE  SourceDb = IF import.source = 1 THEN OtherDb ELSE db
BY DEF ImportTypeOK, SourceDb, Sources

(* What ends well in a source does not move under the consolidation.       *)
LEMMA OkRowsStay ==
  ASSUME IsLedger(db), IsLedger(db'), Keeps(db, db'), NEW r \in RunIds(db),
         db.runs[r].status = "ok"
  PROVE  /\ r \in RunIds(db') /\ db'.runs[r].status = "ok"
         /\ OfRun(db'.artifacts, r) = OfRun(db.artifacts, r)
         /\ OfRun(db'.outputs, r) = OfRun(db.outputs, r)
<1>1. /\ RunIds(db) = 1 .. Len(db.runs) /\ RunIds(db') = 1 .. Len(db'.runs)
      /\ Len(db.runs) \in Nat /\ Len(db'.runs) \in Nat /\ Len(db.runs) <= Len(db'.runs)
  BY LedgerRuns DEF Keeps
<1>2. /\ db'.runs[r] = db.runs[r]
      /\ RowsAt(db'.artifacts, r) = RowsAt(db.artifacts, r)
      /\ RowsAt(db'.outputs, r) = RowsAt(db.outputs, r)
  BY DEF Keeps, Ended
<1>3. \A rows : OfRun(rows, r) = {[row EXCEPT !.run = 0] : row \in RowsAt(rows, r)}
  BY DEF OfRun, RowsAt
<1>4. r \in RunIds(db')
  BY <1>1
<1>5. /\ OfRun(db'.artifacts, r) = OfRun(db.artifacts, r)
      /\ OfRun(db'.outputs, r) = OfRun(db.outputs, r)
  BY <1>2, <1>3, Zenon
<1> QED
  BY <1>2, <1>4, <1>5

LEMMA FetchesLeaveImports ==
  ASSUME ImportInv, IsLedger(db), IsLedger(db'), Keeps(db, db'), UNCHANGED consolidating
  PROVE  ImportInv'
<1>1. target' = target /\ import' = import
  BY DEF consolidating
<1>2. ImportTypeOK' /\ ImportTypeOK
  BY <1>1 DEF ImportInv, ImportTypeOK
<1>3. /\ SourceDb = IF import.source = 1 THEN OtherDb ELSE db
      /\ SourceDb' = IF import.source = 1 THEN OtherDb ELSE db'
  <2>1. SourceDb = IF import.source = 1 THEN OtherDb ELSE db
    BY <1>2, SourceDbIs
  <2>2. SourceDb' = IF import'.source = 1 THEN OtherDb ELSE db'
    BY <1>1, <1>2 DEF SourceDb, Sources, ImportTypeOK
  <2> QED
    BY <1>1, <2>1, <2>2
<1>4. /\ Len(db.runs) \in Nat /\ Len(db'.runs) \in Nat /\ Len(db.runs) <= Len(db'.runs)
      /\ RunIds(db) = 1 .. Len(db.runs)
  BY LedgerRuns DEF Keeps
<1>5. SnapshotInv => import.seen <= Len(SourceDb.runs) /\ import.seen \in Nat
  BY <1>2 DEF SnapshotInv, ImportTypeOK
<1>6. SnapshotInv => SnapshotInv'
  <2> SUFFICES ASSUME SnapshotInv PROVE SnapshotInv'
    OBVIOUS
  <2>1. CASE import.source = 1
    BY <1>1, <1>3, <2>1 DEF SnapshotInv
  <2>2. CASE import.source # 1
    <3>1. \A r \in 1 .. import.seen : r \in RunIds(db)
      BY <1>3, <1>4, <1>5, <2>2
    <3>2. \A r \in 1 .. import.seen : db.runs[r].status = "ok" => db'.runs[r].status = "ok"
      BY <3>1, OkRowsStay
    <3> QED
      BY <1>1, <1>3, <1>4, <1>5, <2>2, <3>2 DEF SnapshotInv
  <2> QED
    BY <2>1, <2>2
<1>7. ASSUME SnapshotInv
      PROVE  (ArtifactsInv => ArtifactsInv') /\ (OutputsInv => OutputsInv')
  <2>1. CASE import.source = 1
    BY <1>1, <1>3, <2>1 DEF ArtifactsInv, OutputsInv
  <2>2. CASE import.source # 1
    <3>1. \A r \in 1 .. import.seen : r \in RunIds(db)
      BY <1>3, <1>4, <1>5, <1>7, <2>2
    <3>2. \A r \in 1 .. import.seen : import.tx.runs[Len(target.runs) + r].status = "ok" =>
             /\ OfRun(db'.artifacts, r) = OfRun(db.artifacts, r)
             /\ OfRun(db'.outputs, r) = OfRun(db.outputs, r)
      BY <1>3, <1>7, <2>2, <3>1, OkRowsStay DEF SnapshotInv
    <3> QED
      BY <1>1, <1>3, <2>2, <3>2 DEF ArtifactsInv, OutputsInv
  <2> QED
    BY <2>1, <2>2
<1>8. ImportingInv'
  BY <1>1, <1>6, <1>7 DEF ImportInv, ImportingInv
<1>9. OkIn(target) /\ WholeIn(target) => OkIn(target)' /\ WholeIn(target)'
  <2> SUFFICES ASSUME OkIn(target), WholeIn(target) PROVE OkIn(target)' /\ WholeIn(target)'
    OBVIOUS
  <2>1. OkIn(target)'
    BY <1>1, OkRowsStay DEF OkIn, Foreign, Before
  <2>2. WholeIn(target)'
    <3> SUFFICES ASSUME NEW r \in RunIds(target), target.runs[r].status = "ok"
                 PROVE  LET source == IF Foreign(r) THEN OtherDb ELSE db'
                            own == IF Foreign(r) THEN r ELSE r - Before
                        IN  /\ OfRun(target.artifacts, r) = OfRun(source.artifacts, own)
                            /\ OfRun(target.outputs, r) = OfRun(source.outputs, own)
      BY <1>1 DEF WholeIn, Foreign, Before
    <3>1. CASE Foreign(r)
      BY <3>1 DEF WholeIn
    <3>2. CASE ~Foreign(r)
      <4>1. r - Before \in RunIds(db) /\ db.runs[r - Before].status = "ok"
        BY <3>2 DEF OkIn
      <4>2. /\ OfRun(target.artifacts, r) = OfRun(db.artifacts, r - Before)
            /\ OfRun(target.outputs, r) = OfRun(db.outputs, r - Before)
        BY <3>2 DEF WholeIn
      <4> QED
        BY <3>2, <4>1, <4>2, OkRowsStay
    <3> QED
      BY <3>1, <3>2
  <2> QED
    BY <2>1, <2>2
<1> QED
  BY <1>1, <1>2, <1>8, <1>9 DEF ImportInv

LEMMA StartConsolidationInv ==
  ASSUME ImportInv, StartConsolidation
  PROVE  ImportInv'
<1>1. /\ target' = EmptyDb /\ import' = [import EXCEPT !.st = "importing"] /\ import.st = "planned"
  BY DEF StartConsolidation
<1>2. ImportTypeOK
  BY DEF ImportInv
<1>3. /\ DOMAIN import' = DOMAIN import /\ import'.st = "importing"
      /\ import'.source = import.source /\ import'.phase = import.phase
      /\ import'.seen = import.seen /\ import'.tx = import.tx
  BY <1>1, <1>2 DEF ImportTypeOK
<1>4. ImportTypeOK'
  BY <1>1, <1>2, <1>3, EmptyIsLedger DEF ImportTypeOK
<1>5. /\ EmptyDb.runs = <<>> /\ Len(EmptyDb.runs) = 0 /\ RunIds(EmptyDb) = {}
  BY DEF EmptyDb, RunIds
<1>6. ImportingInv'
  BY <1>1, <1>3, <1>5, EmptyIsLedger DEF ImportInv, ImportingInv
<1>7. OkIn(target)' /\ WholeIn(target)'
  BY <1>1, <1>5 DEF OkIn, WholeIn
<1> QED
  BY <1>1, <1>3, <1>4, <1>6, <1>7 DEF ImportInv

LEMMA ImportRaisesInv ==
  ASSUME ImportInv, ImportRaises, UNCHANGED fetching
  PROVE  ImportInv'
<1>1. /\ target' = target /\ import' = [import EXCEPT !.st = "failed"] /\ db' = db
      /\ ImportTypeOK
  BY DEF ImportRaises, fetching, ImportInv
<1>2. /\ DOMAIN import' = DOMAIN import /\ import'.st = "failed"
      /\ import'.source = import.source /\ import'.phase = import.phase
      /\ import'.seen = import.seen /\ import'.tx = import.tx
  BY <1>1 DEF ImportTypeOK
<1>3. ImportTypeOK'
  BY <1>1, <1>2 DEF ImportTypeOK
<1>4. OkIn(target) => OkIn(target)'
  BY <1>1 DEF OkIn, Foreign, Before
<1>5. WholeIn(target) => WholeIn(target)'
  BY <1>1 DEF WholeIn, Foreign, Before
<1> QED
  BY <1>1, <1>2, <1>3, <1>4, <1>5 DEF ImportInv, ImportingInv

LEMMA RunsFollow ==
  ASSUME NEW first \in Seq(RunRow), NEW second \in Seq(RunRow)
  PROVE  /\ first \o second \in Seq(RunRow)
         /\ Len(first \o second) = Len(first) + Len(second)
         /\ DOMAIN (first \o second) = 1 .. Len(first) + Len(second)
         /\ \A r \in 1 .. Len(first) : (first \o second)[r] = first[r]
         /\ \A r \in 1 .. Len(second) : (first \o second)[Len(first) + r] = second[r]
OBVIOUS

LEMMA ImportRunsInv ==
  ASSUME ImportInv, ImportRuns, IsLedger(db)
  PROVE  ImportInv'
<1>0. ImportTypeOK /\ import.st = "importing" /\ import.phase = "runs" /\ UNCHANGED fetching
  BY DEF ImportRuns, ImportInv
<1>1. CASE SourceDb = NoSource
  BY <1>0, <1>1, ImportRaisesInv DEF ImportRuns
<1>2. CASE SourceDb # NoSource
  <2>0. PICK first, seen : first = Len(target.runs) /\ seen = Len(SourceDb.runs)
    OBVIOUS
  <2>1. /\ UNCHANGED <<target, db>>
        /\ import' = [import EXCEPT !.phase = "artifacts", !.seen = Len(SourceDb.runs),
                                    !.tx = [target EXCEPT !.runs = @ \o SourceDb.runs]]
    BY <1>0, <1>2 DEF ImportRuns, fetching
  <2>2. /\ SourceDb = IF import.source = 1 THEN OtherDb ELSE db
        /\ OtherDb # NoSource /\ IsLedger(SourceDb) /\ IsLedger(target)
    <3>1. SourceDb = IF import.source = 1 THEN OtherDb ELSE db
      BY <1>0, SourceDbIs
    <3>2. IsLedger(target) /\ (import.source = 2 => OtherDb # NoSource) /\ import.source \in {1, 2}
      BY <1>0 DEF ImportInv, ImportingInv, ImportTypeOK
    <3>3. OtherDb # NoSource => IsLedger(OtherDb)
      BY AcquisitionAssumption
    <3>4. CASE import.source = 1
      BY <1>2, <3>1, <3>2, <3>3, <3>4
    <3>5. CASE import.source = 2
      <4>1. SourceDb = db
        BY <3>1, <3>5
      <4> QED
        BY <3>1, <3>2, <3>5, <4>1
    <3> QED
      BY <3>2, <3>4, <3>5
  <2>3. SourceDb' = SourceDb
    BY <1>0, <2>1, <2>2 DEF SourceDb, Sources, ImportTypeOK
  <2>4. /\ DOMAIN import' = DOMAIN import /\ import'.st = "importing"
        /\ import'.source = import.source /\ import'.phase = "artifacts"
        /\ import'.seen = seen /\ import'.tx = [target EXCEPT !.runs = @ \o SourceDb.runs]
    BY <1>0, <2>0, <2>1 DEF ImportTypeOK
  <2>5. /\ target.runs \in Seq(RunRow) /\ SourceDb.runs \in Seq(RunRow)
        /\ first \in Nat /\ seen \in Nat /\ RunIds(target) = 1 .. first
    BY <2>0, <2>2, LedgerRuns
  <2>6. /\ DOMAIN import'.tx = DOMAIN target /\ import'.tx.runs = target.runs \o SourceDb.runs
        /\ import'.tx.artifacts = target.artifacts /\ import'.tx.outputs = target.outputs
    BY <2>2, <2>4 DEF IsLedger
  <2>7. /\ import'.tx.runs \in Seq(RunRow) /\ Len(import'.tx.runs) = first + seen
        /\ RunIds(import'.tx) = 1 .. first + seen
        /\ \A r \in 1 .. first : import'.tx.runs[r] = target.runs[r]
        /\ \A r \in 1 .. seen : import'.tx.runs[first + r] = SourceDb.runs[r]
    <3> DEFINE both == target.runs \o SourceDb.runs
    <3>1. /\ both \in Seq(RunRow) /\ Len(both) = first + seen /\ DOMAIN both = 1 .. first + seen
          /\ \A r \in 1 .. first : both[r] = target.runs[r]
          /\ \A r \in 1 .. seen : both[first + r] = SourceDb.runs[r]
      <4>1. target.runs \in Seq(RunRow) /\ SourceDb.runs \in Seq(RunRow)
        BY <2>5
      <4>2. /\ both \in Seq(RunRow) /\ Len(both) = Len(target.runs) + Len(SourceDb.runs)
            /\ DOMAIN both = 1 .. Len(target.runs) + Len(SourceDb.runs)
            /\ \A r \in 1 .. Len(target.runs) : both[r] = target.runs[r]
            /\ \A r \in 1 .. Len(SourceDb.runs) : both[Len(target.runs) + r] = SourceDb.runs[r]
        BY <4>1, RunsFollow
      <4> QED
        BY <2>0, <4>2
    <3>2. import'.tx.runs = both /\ RunIds(import'.tx) = DOMAIN both
      BY <2>6 DEF RunIds
    <3> HIDE DEF both
    <3> QED
      BY <3>1, <3>2
  <2>8. RunIds(target) \subseteq RunIds(import'.tx)
    <3>1. 1 .. first \subseteq 1 .. first + seen
      BY <2>5
    <3> QED
      BY <2>5, <2>7, <3>1
  <2>9. IsLedger(import'.tx)
    BY <2>2, <2>6, <2>7, <2>8 DEF IsLedger, RunRow
  <2>10. ImportTypeOK'
    BY <1>0, <2>1, <2>4, <2>5, <2>9 DEF ImportTypeOK
  <2>11. SnapshotInv'
    <3>1. import'.source = 1 => import'.seen = Len(OtherDb.runs)
      BY <2>0, <2>2, <2>4
    <3>2. /\ Len(import'.tx.runs) = Len(target'.runs) + import'.seen
          /\ import'.seen <= Len(SourceDb'.runs)
      <4>1. Len(target'.runs) = first /\ Len(SourceDb'.runs) = seen /\ import'.seen = seen
        BY <2>0, <2>1, <2>3, <2>4
      <4> QED
        BY <2>5, <2>7, <4>1
    <3>3. \A r \in 1 .. Len(target'.runs) : import'.tx.runs[r] = target'.runs[r]
      BY <2>0, <2>1, <2>7
    <3>4. \A r \in 1 .. import'.seen : import'.tx.runs[Len(target'.runs) + r] = SourceDb'.runs[r]
      BY <2>0, <2>1, <2>3, <2>4, <2>7
    <3> QED
      BY <2>2, <3>1, <3>2, <3>3, <3>4 DEF SnapshotInv
  <2>12. ImportingInv'
    BY <1>0, <2>1, <2>4, <2>6, <2>11 DEF ImportInv, ImportingInv
  <2>13. OkIn(target) => OkIn(target)'
    BY <2>1 DEF OkIn, Foreign, Before
  <2>14. WholeIn(target) => WholeIn(target)'
    BY <2>1 DEF WholeIn, Foreign, Before
  <2> QED
    BY <1>0, <2>1, <2>4, <2>10, <2>12, <2>13, <2>14 DEF ImportInv
<1> QED
  BY <1>1, <1>2

(* What the phases after the first start from.                             *)
LEMMA MidTransaction ==
  ASSUME ImportInv, import.st = "importing", import.phase # "runs", IsLedger(db)
  PROVE  /\ ImportTypeOK /\ SnapshotInv /\ IsLedger(target) /\ IsLedger(SourceDb)
         /\ SourceDb = IF import.source = 1 THEN OtherDb ELSE db
         /\ Len(target.runs) \in Nat /\ import.seen \in Nat
         /\ RunIds(import.tx) = 1 .. Len(target.runs) + import.seen
<1>1. ImportTypeOK /\ SnapshotInv /\ IsLedger(target) /\ OtherDb # NoSource
  BY DEF ImportInv, ImportingInv, SnapshotInv
<1>2. SourceDb = IF import.source = 1 THEN OtherDb ELSE db
  BY <1>1, SourceDbIs
<1>3. IsLedger(SourceDb)
  <2>1. IsLedger(OtherDb)
    BY <1>1, AcquisitionAssumption
  <2> QED
    BY <1>2, <2>1
<1>4. Len(target.runs) \in Nat /\ import.seen \in Nat
  BY <1>1, LedgerRuns DEF ImportTypeOK
<1>5. RunIds(import.tx) = 1 .. Len(import.tx.runs)
  BY <1>1, LedgerRuns DEF ImportTypeOK
<1> QED
  BY <1>1, <1>2, <1>3, <1>4, <1>5 DEF SnapshotInv

(* The transaction goes on to its next phase.                              *)
LEMMA PhaseMoves ==
  ASSUME ImportInv, import.st = "importing", import.phase # "runs", IsLedger(db),
         UNCHANGED <<db, target>>, NEW next, NEW tx, next.st = "importing",
         DOMAIN next = DOMAIN import, next.source = import.source, next.seen = import.seen,
         next.phase \in {"outputs", "rows"}, next.tx = tx, IsLedger(tx), tx.runs = import.tx.runs,
         import' = next
  PROVE  /\ ImportTypeOK' /\ SnapshotInv' /\ SourceDb' = SourceDb
         /\ OkIn(target) => OkIn(target)'
         /\ WholeIn(target) => WholeIn(target)'
<1>1. /\ ImportTypeOK /\ SnapshotInv /\ SourceDb = IF import.source = 1 THEN OtherDb ELSE db
  BY MidTransaction
<1>2. SourceDb' = SourceDb
  BY <1>1 DEF SourceDb, Sources, ImportTypeOK
<1>3. ImportTypeOK'
  BY <1>1 DEF ImportTypeOK
<1>4. SnapshotInv'
  BY <1>1, <1>2 DEF SnapshotInv
<1>5. OkIn(target) => OkIn(target)'
  BY DEF OkIn, Foreign, Before
<1>6. WholeIn(target) => WholeIn(target)'
  BY DEF WholeIn, Foreign, Before
<1> QED
  BY <1>2, <1>3, <1>4, <1>5, <1>6

LEMMA ImportArtifactsInv ==
  ASSUME ImportInv, ImportArtifacts, IsLedger(db)
  PROVE  ImportInv'
<1>0. ImportTypeOK /\ import.st = "importing" /\ import.phase = "artifacts" /\ UNCHANGED fetching
  BY DEF ImportArtifacts, ImportInv
<1>1. CASE ~Known(SourceDb.artifacts)
  BY <1>0, <1>1, ImportRaisesInv DEF ImportArtifacts
<1>2. CASE Known(SourceDb.artifacts)
  <2> DEFINE tx == import'.tx
  <2>0. PICK first, rows : first = Len(target.runs) /\ rows = SourceDb.artifacts
    OBVIOUS
  <2>1. /\ UNCHANGED <<target, db>>
        /\ import' = [import EXCEPT !.phase = "outputs",
                                    !.tx.artifacts = @ \cup Remapped(SourceDb.artifacts)]
    BY <1>0, <1>2 DEF ImportArtifacts, fetching
  <2>2. /\ SnapshotInv /\ IsLedger(target) /\ IsLedger(SourceDb) /\ IsLedger(import.tx)
        /\ first \in Nat /\ import.seen \in Nat /\ RunIds(import.tx) = 1 .. first + import.seen
    BY <1>0, <2>0, MidTransaction DEF ImportTypeOK
  <2>3. /\ DOMAIN import' = DOMAIN import /\ import'.st = "importing"
        /\ import'.source = import.source /\ import'.phase = "outputs"
        /\ import'.seen = import.seen
        /\ tx = [import.tx EXCEPT !.artifacts = @ \cup Remapped(SourceDb.artifacts)]
    BY <1>0, <2>1 DEF ImportTypeOK
  <2>4. /\ DOMAIN tx = DOMAIN import.tx /\ tx.runs = import.tx.runs
        /\ tx.outputs = import.tx.outputs
        /\ tx.artifacts = target.artifacts \cup Behind(rows, first)
    BY <1>0, <2>0, <2>2, <2>3 DEF IsLedger, ImportInv, ImportingInv, Remapped, Behind
  <2>5. /\ Runnable(rows) /\ \A row \in rows : row.run \in Nat \ {0} /\ row.run <= import.seen
        /\ \A row \in target.artifacts : row.run \in 1 .. first
    <3>1. \A row \in rows : row.run \in 1 .. Len(SourceDb.runs) /\ row.run <= import.seen
      BY <1>2, <2>0, <2>2, LedgerRows DEF Known
    <3>2. Len(SourceDb.runs) \in Nat
      BY <2>2, LedgerRuns
    <3> QED
      BY <2>0, <2>2, <3>1, <3>2, LedgerRows
  <2>6. IsLedger(tx)
    <3>1. ASSUME NEW row \in rows, NEW moved, moved = [row EXCEPT !.run = @ + first]
          PROVE  /\ moved = [run |-> moved.run, source |-> moved.source]
                 /\ moved.run \in 1 .. first + import.seen
      <4>1. row = [run |-> row.run, source |-> row.source]
        BY <2>0, <2>2 DEF IsLedger
      <4>2. moved = [run |-> row.run + first, source |-> row.source]
        BY <3>1, <4>1
      <4> QED
        BY <2>2, <2>5, <4>2
    <3>2. \A row \in target.artifacts :
             /\ row = [run |-> row.run, source |-> row.source]
             /\ row.run \in 1 .. first + import.seen
      BY <2>2, <2>5 DEF IsLedger
    <3>3. RunIds(tx) = 1 .. first + import.seen
      BY <2>2, <2>4 DEF RunIds
    <3>4. \A row \in tx.artifacts :
             row.run \in RunIds(tx) /\ row = [run |-> row.run, source |-> row.source]
      BY <2>4, <3>1, <3>2, <3>3 DEF Behind
    <3> QED
      BY <2>2, <2>4, <3>4 DEF IsLedger, RunIds
  <2>7. /\ ImportTypeOK' /\ SnapshotInv' /\ SourceDb' = SourceDb
        /\ OkIn(target) => OkIn(target)'
        /\ WholeIn(target) => WholeIn(target)'
    BY <1>0, <2>1, <2>3, <2>4, <2>6, PhaseMoves
  <2>8. ArtifactsInv'
    <3>0. PICK all, old : all = tx.artifacts /\ old = target.artifacts
      OBVIOUS
    <3>1. Movable(old, rows, first) /\ all = old \cup Behind(rows, first)
      BY <2>2, <2>4, <2>5, <3>0 DEF Movable
    <3>2. Together(all, old, rows, first)
      BY <3>1, RowsMoveTogether
    <3>3. /\ first = Len(target'.runs) /\ old = target'.artifacts /\ rows = SourceDb'.artifacts
          /\ all = import'.tx.artifacts /\ import'.seen = import.seen
      BY <2>0, <2>1, <2>3, <2>7, <3>0
    <3>4. \A r \in 1 .. import.seen : r \in Nat \ {0}
      BY <2>2
    <3> QED
      BY <3>2, <3>3, <3>4 DEF Together, ArtifactsInv
  <2>9. ImportingInv'
    BY <1>0, <2>1, <2>3, <2>4, <2>7, <2>8 DEF ImportInv, ImportingInv
  <2> QED
    BY <1>0, <2>1, <2>3, <2>7, <2>9 DEF ImportInv
<1> QED
  BY <1>1, <1>2

LEMMA ImportOutputsInv ==
  ASSUME ImportInv, ImportOutputs, IsLedger(db)
  PROVE  ImportInv'
<1>0. ImportTypeOK /\ import.st = "importing" /\ import.phase = "outputs" /\ UNCHANGED fetching
  BY DEF ImportOutputs, ImportInv
<1>1. CASE ~Known(SourceDb.outputs)
  BY <1>0, <1>1, ImportRaisesInv DEF ImportOutputs
<1>2. CASE Known(SourceDb.outputs)
  <2> DEFINE tx == import'.tx
  <2>0. PICK first, rows : first = Len(target.runs) /\ rows = SourceDb.outputs
    OBVIOUS
  <2>1. /\ UNCHANGED <<target, db>>
        /\ import' = [import EXCEPT !.phase = "rows",
                                    !.tx.outputs = @ \cup Remapped(SourceDb.outputs)]
    BY <1>0, <1>2 DEF ImportOutputs, fetching
  <2>2. /\ SnapshotInv /\ IsLedger(target) /\ IsLedger(SourceDb) /\ IsLedger(import.tx)
        /\ first \in Nat /\ import.seen \in Nat /\ RunIds(import.tx) = 1 .. first + import.seen
    BY <1>0, <2>0, MidTransaction DEF ImportTypeOK
  <2>3. /\ DOMAIN import' = DOMAIN import /\ import'.st = "importing"
        /\ import'.source = import.source /\ import'.phase = "rows"
        /\ import'.seen = import.seen
        /\ tx = [import.tx EXCEPT !.outputs = @ \cup Remapped(SourceDb.outputs)]
    BY <1>0, <2>1 DEF ImportTypeOK
  <2>4. /\ DOMAIN tx = DOMAIN import.tx /\ tx.runs = import.tx.runs
        /\ tx.artifacts = import.tx.artifacts
        /\ tx.outputs = target.outputs \cup Behind(rows, first)
    BY <1>0, <2>0, <2>2, <2>3 DEF IsLedger, ImportInv, ImportingInv, Remapped, Behind
  <2>5. /\ Runnable(rows) /\ \A row \in rows : row.run \in Nat \ {0} /\ row.run <= import.seen
        /\ \A row \in target.outputs : row.run \in 1 .. first
    <3>1. \A row \in rows : row.run \in 1 .. Len(SourceDb.runs) /\ row.run <= import.seen
      BY <1>2, <2>0, <2>2, LedgerRows DEF Known
    <3>2. Len(SourceDb.runs) \in Nat
      BY <2>2, LedgerRuns
    <3> QED
      BY <2>0, <2>2, <3>1, <3>2, LedgerRows
  <2>6. IsLedger(tx)
    <3>1. ASSUME NEW row \in rows, NEW moved, moved = [row EXCEPT !.run = @ + first]
          PROVE  /\ moved = [run |-> moved.run, file |-> moved.file, content |-> moved.content]
                 /\ moved.run \in 1 .. first + import.seen
      <4>1. row = [run |-> row.run, file |-> row.file, content |-> row.content]
        BY <2>0, <2>2 DEF IsLedger
      <4>2. moved = [run |-> row.run + first, file |-> row.file, content |-> row.content]
        BY <3>1, <4>1
      <4> QED
        BY <2>2, <2>5, <4>2
    <3>2. \A row \in target.outputs :
             /\ row = [run |-> row.run, file |-> row.file, content |-> row.content]
             /\ row.run \in 1 .. first + import.seen
      BY <2>2, <2>5 DEF IsLedger
    <3>3. RunIds(tx) = 1 .. first + import.seen
      BY <2>2, <2>4 DEF RunIds
    <3>4. \A row \in tx.outputs :
             /\ row.run \in RunIds(tx)
             /\ row = [run |-> row.run, file |-> row.file, content |-> row.content]
      BY <2>4, <3>1, <3>2, <3>3 DEF Behind
    <3> QED
      BY <2>2, <2>4, <3>4 DEF IsLedger, RunIds
  <2>7. /\ ImportTypeOK' /\ SnapshotInv' /\ SourceDb' = SourceDb
        /\ OkIn(target) => OkIn(target)'
        /\ WholeIn(target) => WholeIn(target)'
    BY <1>0, <2>1, <2>3, <2>4, <2>6, PhaseMoves
  <2>8. OutputsInv'
    <3>0. PICK all, old : all = tx.outputs /\ old = target.outputs
      OBVIOUS
    <3>1. Movable(old, rows, first) /\ all = old \cup Behind(rows, first)
      BY <2>2, <2>4, <2>5, <3>0 DEF Movable
    <3>2. Together(all, old, rows, first)
      BY <3>1, RowsMoveTogether
    <3>3. /\ first = Len(target'.runs) /\ old = target'.outputs /\ rows = SourceDb'.outputs
          /\ all = import'.tx.outputs /\ import'.seen = import.seen
      BY <2>0, <2>1, <2>3, <2>7, <3>0
    <3>4. \A r \in 1 .. import.seen : r \in Nat \ {0}
      BY <2>2
    <3> QED
      BY <3>2, <3>3, <3>4 DEF Together, OutputsInv
  <2>9. ArtifactsInv'
    <3>1. ArtifactsInv
      BY <1>0 DEF ImportInv, ImportingInv
    <3>2. /\ target' = target /\ SourceDb' = SourceDb /\ import'.seen = import.seen
          /\ tx.artifacts = import.tx.artifacts /\ tx.runs = import.tx.runs
      BY <2>1, <2>3, <2>4, <2>7
    <3> QED
      BY <3>1, <3>2 DEF ArtifactsInv
  <2>10. ImportingInv'
    BY <1>0, <2>1, <2>3, <2>7, <2>8, <2>9 DEF ImportInv, ImportingInv
  <2> QED
    BY <1>0, <2>1, <2>3, <2>7, <2>10 DEF ImportInv
<1> QED
  BY <1>1, <1>2

(* What the transaction is about to commit is whole.                       *)
LEMMA CommitIsWhole ==
  ASSUME ImportInv, import.st = "importing", import.phase = "rows", IsLedger(db)
  PROVE  OkIn(import.tx) /\ WholeIn(import.tx)
<1>0. PICK first, tx : first = Len(target.runs) /\ tx = import.tx
  OBVIOUS
<1>1. /\ ImportTypeOK /\ SnapshotInv /\ IsLedger(target) /\ first \in Nat /\ import.seen \in Nat
      /\ SourceDb = IF import.source = 1 THEN OtherDb ELSE db
      /\ RunIds(tx) = 1 .. first + import.seen
  BY <1>0, MidTransaction
<1>2. /\ ArtifactsInv /\ OutputsInv /\ OkIn(target) /\ WholeIn(target)
      /\ first = IF import.source = 1 THEN 0 ELSE Len(OtherDb.runs)
  BY <1>0 DEF ImportInv, ImportingInv
<1>3. OtherDb # NoSource /\ Before = Len(OtherDb.runs)
  BY <1>1 DEF SnapshotInv, Before
<1>4. ASSUME NEW r \in 1 .. first, tx.runs[r].status = "ok"
      PROVE  /\ Foreign(r)
             /\ OfRun(tx.artifacts, r) = OfRun(OtherDb.artifacts, r)
             /\ OfRun(tx.outputs, r) = OfRun(OtherDb.outputs, r)
  <2>1. import.source # 1 /\ first = Len(OtherDb.runs) /\ Foreign(r)
    BY <1>1, <1>2, <1>3 DEF Foreign
  <2>2. /\ OfRun(tx.artifacts, r) = OfRun(target.artifacts, r)
        /\ OfRun(tx.outputs, r) = OfRun(target.outputs, r)
        /\ tx.runs[r] = target.runs[r]
    BY <1>0, <1>1, <1>2 DEF SnapshotInv, ArtifactsInv, OutputsInv
  <2>3. r \in RunIds(target)
    BY <1>0, <1>1, LedgerRuns
  <2>4. /\ OfRun(target.artifacts, r) = OfRun(OtherDb.artifacts, r)
        /\ OfRun(target.outputs, r) = OfRun(OtherDb.outputs, r)
    BY <1>2, <1>4, <2>1, <2>2, <2>3 DEF WholeIn
  <2> QED
    BY <2>1, <2>2, <2>4
<1>5. ASSUME NEW q \in 1 .. import.seen, tx.runs[first + q].status = "ok"
      PROVE  /\ SourceDb.runs[q].status = "ok"
             /\ OfRun(tx.artifacts, first + q) = OfRun(SourceDb.artifacts, q)
             /\ OfRun(tx.outputs, first + q) = OfRun(SourceDb.outputs, q)
  BY <1>0, <1>1, <1>2, <1>5 DEF SnapshotInv, ArtifactsInv, OutputsInv
<1>6. ASSUME NEW r \in RunIds(tx), tx.runs[r].status = "ok"
      PROVE  LET source == IF Foreign(r) THEN OtherDb ELSE db
                 own == IF Foreign(r) THEN r ELSE r - Before
             IN  /\ OfRun(tx.artifacts, r) = OfRun(source.artifacts, own)
                 /\ OfRun(tx.outputs, r) = OfRun(source.outputs, own)
                 /\ ~Foreign(r) => own \in RunIds(db) /\ db.runs[own].status = "ok"
  <2>1. CASE r \in 1 .. first
    BY <1>4, <1>6, <2>1
  <2>2. CASE r \notin 1 .. first
    <3>1. r - first \in 1 .. import.seen /\ r = first + (r - first)
      BY <1>1, <2>2
    <3>2. /\ SourceDb.runs[r - first].status = "ok"
          /\ OfRun(tx.artifacts, r) = OfRun(SourceDb.artifacts, r - first)
          /\ OfRun(tx.outputs, r) = OfRun(SourceDb.outputs, r - first)
      BY <1>5, <1>6, <3>1
    <3>3. CASE import.source = 1
      <4>1. first = 0 /\ SourceDb = OtherDb /\ import.seen = Len(OtherDb.runs) /\ r - first = r
        BY <1>1, <1>2, <3>3 DEF SnapshotInv
      <4>2. Foreign(r)
        BY <1>1, <1>3, <3>1, <4>1 DEF Foreign
      <4> QED
        BY <3>2, <4>1, <4>2
    <3>4. CASE import.source # 1
      <4>1. /\ first = Before /\ first = Len(OtherDb.runs) /\ SourceDb = db
            /\ import.seen <= Len(db.runs)
        BY <1>1, <1>2, <1>3, <3>4 DEF SnapshotInv
      <4>2. ~Foreign(r)
        BY <1>1, <2>2, <3>1, <4>1 DEF Foreign
      <4>3. r - first \in RunIds(db)
        <5>1. RunIds(db) = 1 .. Len(db.runs) /\ Len(db.runs) \in Nat
          BY LedgerRuns
        <5>2. r - first <= import.seen /\ r - first \in Nat \ {0}
          BY <1>1, <3>1
        <5> QED
          BY <1>1, <4>1, <5>1, <5>2
      <4> QED
        BY <3>2, <4>1, <4>2, <4>3
    <3> QED
      BY <3>3, <3>4
  <2> QED
    BY <2>1, <2>2
<1>7. OkIn(tx) /\ WholeIn(tx)
  BY <1>6 DEF OkIn, WholeIn
<1> QED
  BY <1>0, <1>7

LEMMA ImportRowsInv ==
  ASSUME ImportInv, ImportRows, IsLedger(db)
  PROVE  ImportInv'
<1>0. ImportTypeOK /\ import.st = "importing" /\ import.phase = "rows" /\ UNCHANGED fetching
  BY DEF ImportRows, ImportInv
<1>1. CASE ~RowsReadable(import.tx.outputs \ target.outputs)
  BY <1>0, <1>1, ImportRaisesInv DEF ImportRows
<1>2. CASE RowsReadable(import.tx.outputs \ target.outputs)
  <2>1. /\ target' = import.tx /\ db' = db
        /\ import' = IF import.source = 2 THEN [import EXCEPT !.st = "done"]
                     ELSE [import EXCEPT !.source = @ + 1, !.phase = "runs"]
    BY <1>0, <1>2 DEF ImportRows, Sources, fetching
  <2>2. /\ DOMAIN import' = DOMAIN import /\ import'.seen = import.seen /\ import'.tx = import.tx
        /\ import'.source \in {1, 2} /\ import'.phase \in {"rows", "runs"}
        /\ import'.st \in {"done", "importing"}
        /\ import'.st = "importing" =>
             import.source = 1 /\ import'.source = 2 /\ import'.phase = "runs"
    BY <1>0, <2>1 DEF ImportTypeOK
  <2>3. ImportTypeOK'
    BY <1>0, <2>1, <2>2 DEF ImportTypeOK
  <2>4. ImportingInv'
    <3>1. /\ IsLedger(import.tx) /\ OtherDb # NoSource
          /\ Len(import.tx.runs) = Len(target.runs) + import.seen /\ import.seen \in Nat
          /\ import.source = 1 => import.seen = Len(OtherDb.runs) /\ Len(target.runs) = 0
      BY <1>0 DEF ImportInv, ImportingInv, ImportTypeOK, SnapshotInv
    <3>2. import.source = 1 => Len(import.tx.runs) = Len(OtherDb.runs)
      BY <3>1
    <3> QED
      BY <2>1, <2>2, <3>1, <3>2 DEF ImportingInv
  <2>5. OkIn(import.tx) /\ WholeIn(import.tx)
    BY <1>0, CommitIsWhole
  <2>6. OkIn(target)'
    BY <2>1, <2>5 DEF OkIn, Foreign, Before
  <2>7. WholeIn(target)'
    BY <2>1, <2>5 DEF WholeIn, Foreign, Before
  <2> QED
    BY <2>2, <2>3, <2>4, <2>6, <2>7 DEF ImportInv
<1> QED
  BY <1>1, <1>2

LEMMA FetchesLeaveTarget ==
  [Next]_vars => Consolidating \/ UNCHANGED consolidating
BY DEF Next, Consolidating, vars, consolidating, StartInvocation, GroupDone, GroupRaises,
       EmitManifest, StartTask, CancelQueued, OpenRun, Proceed, CloseRun, RaiseUnreadable,
       RaiseMidway, FailTask, Kill

LEMMA ImportInvKept ==
  FetchInv /\ ImportInv /\ [Next]_vars => ImportInv'
<1> SUFFICES ASSUME FetchInv, ImportInv, [Next]_vars PROVE ImportInv'
  OBVIOUS
<1>1. IsLedger(db) /\ IsLedger(db') /\ Keeps(db, db')
  BY FetchInvKept DEF FetchInv, FetchTypeOK
<1>2. CASE UNCHANGED consolidating
  BY <1>1, <1>2, FetchesLeaveImports
<1>3. CASE Consolidating
  BY <1>1, <1>3, StartConsolidationInv, ImportRunsInv, ImportArtifactsInv, ImportOutputsInv,
     ImportRowsInv DEF Consolidating
<1> QED
  BY <1>2, <1>3, FetchesLeaveTarget

(***************************************************************************)
(* The theorems.                                                           *)
(***************************************************************************)
FaultsOK == faults \in 0 .. MaxFaults

LEMMA FaultsOKKept == FaultsOK /\ [Next]_vars => FaultsOK'
<1> SUFFICES ASSUME FaultsOK, [Next]_vars PROVE FaultsOK'
  OBVIOUS
<1>1. CASE faults' = faults
  BY <1>1 DEF FaultsOK
<1>2. CASE faults' = faults + 1 /\ faults < MaxFaults
  BY <1>2, AcquisitionAssumption DEF FaultsOK
<1>3. faults' = faults \/ (faults' = faults + 1 /\ faults < MaxFaults)
  BY DEF Next, vars, fetching, StartInvocation, GroupDone, GroupRaises, EmitManifest,
         StartTask, CancelQueued, OpenRun, Proceed, CloseRun, RaiseUnreadable, RaiseMidway, Kill,
         StartConsolidation, ImportRuns, ImportArtifacts, ImportOutputs, ImportRows
<1> QED
  BY <1>1, <1>2, <1>3

AcquisitionInv == FetchInv /\ ManifestInv /\ ImportInv /\ FaultsOK

LEMMA AcquisitionInvariant == Spec => []AcquisitionInv
<1>1. Init => AcquisitionInv
  <2>1. Init => ManifestInv
    BY DEF Init, ManifestInv, ManifestOfFinishedRuns
  <2>2. Init => FaultsOK
    BY AcquisitionAssumption DEF Init, FaultsOK
  <2> QED
    BY <2>1, <2>2, InitFetchInv, InitImportInv DEF AcquisitionInv
<1>2. AcquisitionInv /\ [Next]_vars => AcquisitionInv'
  BY FetchInvKept, ManifestInvKept, ImportInvKept, FaultsOKKept DEF AcquisitionInv
<1> QED
  BY <1>1, <1>2, PTL DEF Spec

(* Whatever fails, is killed or runs beside what: the database stays one   *)
(* whose rows are of runs it has, a file holds a table, is torn or is not  *)
(* there, and so does the database a consolidation builds.                 *)
THEOREM TypeCorrect == Spec => []TypeOK
<1>1. AcquisitionInv => TypeOK
  BY DEF AcquisitionInv, FetchInv, ImportInv, FaultsOK, TypeOK
<1> QED
  BY <1>1, AcquisitionInvariant, PTL

(* A manifest names only runs that ended well, then and ever after, and    *)
(* pins no torn file: for every registry, pool size and number of faults.  *)
THEOREM ManifestIsFinished == Spec => []ManifestOfFinishedRuns
<1>1. AcquisitionInv => ManifestOfFinishedRuns
  BY DEF AcquisitionInv, ManifestInv
<1> QED
  BY <1>1, AcquisitionInvariant, PTL

(* A consolidated database never calls a run ok without having all its     *)
(* artifacts and outputs and none of another's, although the source goes   *)
(* on writing between the reads of the transaction.                        *)
THEOREM ConsolidationIsWhole == Spec => []OkRunIsWhole
<1>1. AcquisitionInv => OkRunIsWhole
  BY WholeInTarget DEF AcquisitionInv, ImportInv
<1> QED
  BY <1>1, AcquisitionInvariant, PTL

(* The row of a run that has ended, its artifacts and its outputs are      *)
(* final: no fetch that comes later touches them.                          *)
THEOREM EndedRunsAreFinal == Spec => [][Keeps(db, db')]_vars
<1>1. AcquisitionInv /\ [Next]_vars => Keeps(db, db')
  BY FetchInvKept DEF AcquisitionInv
<1> QED
  BY <1>1, AcquisitionInvariant, PTL DEF Spec

(* A fetch never drops a date from a history: only a write that is broken  *)
(* off, and the manual import that replaces the PMI history, can.          *)
THEOREM HistoriesOnlyGrow == Spec => HistoryOnlyGrows
<1> DEFINE Grows == \A f \in Histories :
                      /\ IsTable(files[f]) /\ faults' = faults
                      /\ f = "pmi_history" => "pmi_manual" \notin Running
                      => IsTable(files'[f]) /\ DOMAIN files[f] \subseteq DOMAIN files'[f]
<1>1. FetchInv /\ FaultsOK /\ [Next]_vars => Grows
  <2> SUFFICES ASSUME FetchInv, FaultsOK, [Next]_vars, NEW f \in Histories, IsTable(files[f]),
                      faults' = faults, f = "pmi_history" => "pmi_manual" \notin Running
               PROVE  IsTable(files'[f]) /\ DOMAIN files[f] \subseteq DOMAIN files'[f]
    OBVIOUS
  <2>1. CASE files' = files
    BY <2>1
  <2>2. CASE \E m \in DOMAIN tasks : Proceed(m)
    <3>1. PICK m : Proceed(m)
      BY <2>2
    <3>2. /\ f \in Files \ {"wayback_xlsx"} /\ m \in Running /\ Midway(m)
          /\ \A c \in Contents : IsTable(c) <=> c \in Table
      BY <3>1, AcquisitionAssumption DEF Proceed, Midway, Histories, Files, IsTable, Contents
    <3>3. IsTable(files'[f])
      BY <3>1, <3>2, ProceedFiles DEF FetchInv, FetchTypeOK
    <3>4. ~(Bootstraps(At(tasks[m])) /\ Saves(At(tasks[m]), f))
      <4> SUFFICES ASSUME Bootstraps(At(tasks[m])), Saves(At(tasks[m]), f) PROVE FALSE
        OBVIOUS
      <4>1. f = "sentiment"
        BY <3>2, MidwayStep DEF SaveIsSound, Bootstraps, Saves
      <4>2. /\ m \in DOMAIN tasks /\ tasks[m].st = "running"
            /\ tasks[m].pc \in tasks[m].pc .. Len(tasks[m].prog.steps)
        BY <3>2, MidwayStep
      <4>3. files["sentiment"] = NoFile
        BY <4>2 DEF FetchInv, FileInv, At
      <4> QED
        BY <4>1, <4>3 DEF IsTable
    <3>5. ~(m = "pmi_manual" /\ f = "pmi_history")
      BY <3>2
    <3> QED
      BY <3>1, <3>3, <3>4, <3>5, ProceedFiles
  <2>3. CASE (\E m \in DOMAIN tasks : RaiseMidway(m)) \/ Kill
    <3>1. faults' = faults + 1 /\ faults < MaxFaults
      BY <2>3 DEF RaiseMidway, Kill
    <3>2. faults \in Nat
      BY AcquisitionAssumption DEF FaultsOK
    <3> QED
      BY <3>1, <3>2
  <2> QED
    <3>1. \/ files' = files \/ (\E m \in DOMAIN tasks : Proceed(m))
          \/ (\E m \in DOMAIN tasks : RaiseMidway(m)) \/ Kill
      BY DEF Next, vars, fetching, StartInvocation, GroupDone, GroupRaises, EmitManifest,
             StartTask, CancelQueued, OpenRun, CloseRun, RaiseUnreadable, StartConsolidation,
             ImportRuns, ImportArtifacts, ImportOutputs, ImportRows
    <3> QED
      BY <2>1, <2>2, <2>3, <3>1
<1>2. AcquisitionInv => FetchInv /\ FaultsOK
  BY DEF AcquisitionInv
<1>3. Spec => [][Grows]_vars
  BY <1>1, <1>2, AcquisitionInvariant, PTL DEF Spec
<1> QED
  BY <1>3 DEF HistoryOnlyGrows
=============================================================================

----------------------------- MODULE OhlcvProofs -----------------------------
(***************************************************************************)
(* Proofs about the refresh of the constituent price history, for any      *)
(* number of symbols, dates, revisions of the provider's data, runs,       *)
(* exceptions and kills.                                                   *)
(***************************************************************************)
EXTENDS OhlcvRefresh, TLAPS, WellFoundedInduction

LEMMA MinIsMember ==
  ASSUME NEW S \in SUBSET Nat, S # {}
  PROVE  Min(S) \in S
<1>1. IsWellFoundedOn(OpToRel(<, Nat), Nat)
  BY NatLessThanWellFounded
<1>2. PICK m \in S : \A x \in S : ~ (<<x, m>> \in OpToRel(<, Nat))
  BY <1>1, WFMin
<1>3. \A x \in S : ~ (x < m)
  BY <1>2 DEF OpToRel
<1>4. m \in S /\ \A x \in S : m <= x
  BY <1>3
<1> QED
  BY <1>4 DEF Min

(***************************************************************************)
(* The inductive invariant.  First, where the process is and what the rows *)
(* of its runs say: the import in hand is the last row, the refresh in hand*)
(* is the last or the one before it, and both still run.                   *)
(***************************************************************************)
Row == [kind : {"refresh", "import"}, status : {"running", "ok", "failed"}]
RunningImport == [kind |-> "import", status |-> "running"]
RunningRefresh == [kind |-> "refresh", status |-> "running"]
OkImport == [kind |-> "import", status |-> "ok"]

ImportInHand ==
  inner # 0 => /\ inner = Len(runs) /\ runs[inner] = RunningImport
               /\ outer # 0 => outer = inner - 1

RefreshInHand ==
  outer # 0 => /\ runs[outer] = RunningRefresh
               /\ inner = 0 => outer \in {Len(runs) - 1, Len(runs)}

ControlFits ==
  /\ step \in {"fetch", "merge", "write", "record", "open"} =>
        outer # 0 /\ outer = Len(runs) /\ inner = 0
  /\ step \in {"import", "recordImport", "closeImport"} => inner # 0
  /\ step \in {"report", "close"} =>
        outer # 0 /\ outer = Len(runs) - 1 /\ inner = 0 /\ runs[Len(runs)] = OkImport

RunningIsKnown ==
  \A r \in 1..Len(runs) : runs[r].status = "running" => r \in {outer, inner} \cup lost

ControlInv == ImportInHand /\ RefreshInHand /\ ControlFits /\ RunningIsKnown

(* Second, the data: a frame on its way to a file holds what the file held,*)
(* and from the commit of an import to the next refresh the database has   *)
(* the tree.                                                               *)
TreeInDb ==
  \A s \in Symbols :
     tree[s] # Torn /\ \A d \in Dates : tree[s][d] # NoBar => db[s][d] = tree[s][d]

DataInv ==
  /\ step \in {"recordImport", "closeImport"} => TreeInDb
  /\ runs # <<>> /\ runs[Len(runs)] = OkImport => TreeInDb
  /\ HistoryIsKept
  /\ step = "write" => \A d \in known[InHand] : outgoing[d] # NoBar

(* Third, the outputs on record.                                           *)
OkRefresh(row) == row.kind = "refresh" /\ row.status = "ok"

WholeRefresh(r) ==
  /\ r < Len(runs) /\ runs[r + 1] = OkImport
  /\ {<<r, "tree">>, <<r, "report">>, <<r + 1, "report">>} \subseteq recorded

RecordInv ==
  /\ \A r \in 1..Len(runs) : OkRefresh(runs[r]) => WholeRefresh(r)
  /\ outer # 0 /\ step \in {"open", "import", "recordImport", "closeImport",
                            "report", "close"} => <<outer, "tree">> \in recorded
  /\ step = "closeImport" => <<inner, "report">> \in recorded
  /\ step \in {"report", "close"} => <<outer + 1, "report">> \in recorded
  /\ step = "close" => <<outer, "report">> \in recorded

RefreshInv == TypeOK /\ ControlInv /\ DataInv /\ RecordInv

(***************************************************************************)
(* The table of runs.                                                      *)
(***************************************************************************)
LEMMA StartedRow ==
  ASSUME runs \in Seq(Row), NEW kind \in {"refresh", "import"}
  PROVE  LET q == Started(kind)
         IN  /\ q \in Seq(Row) /\ Len(q) = Len(runs) + 1 /\ q # <<>>
             /\ \A i \in 1..Len(runs) : q[i] = runs[i]
             /\ q[Len(runs) + 1] = [kind |-> kind, status |-> "running"]
BY DEF Started, Row

LEMMA FinishedRow ==
  ASSUME runs \in Seq(Row), NEW run \in 1..Len(runs), NEW status \in {"ok", "failed"}
  PROVE  LET q == Finished(run, status)
         IN  /\ q \in Seq(Row) /\ Len(q) = Len(runs) /\ q # <<>>
             /\ \A i \in 1..Len(runs) : i # run => q[i] = runs[i]
             /\ q[run] = [kind |-> runs[run].kind, status |-> status]
<1> DEFINE row == [kind |-> runs[run].kind, status |-> status]
<1>1. runs[run] \in Row
  OBVIOUS
<1>2. row \in Row
  BY <1>1 DEF Row
<1>3. [runs[run] EXCEPT !.status = status] = row
  BY <1>1 DEF Row
<1>4. Finished(run, status) = [runs EXCEPT ![run] = row]
  BY <1>3 DEF Finished
<1> HIDE DEF row
<1>5. LET q == [runs EXCEPT ![run] = row]
      IN  /\ q \in Seq(Row) /\ Len(q) = Len(runs) /\ q # <<>>
          /\ \A i \in 1..Len(runs) : i # run => q[i] = runs[i]
          /\ q[run] = row
  BY <1>2
<1> QED
  BY <1>4, <1>5 DEF row

(* What a step does to the finished runs: the rows of imports that went well*)
(* stay, and a row is a well finished refresh only if it was one or if it  *)
(* is whole.                                                               *)
LEMMA FinishedRunsKept ==
  ASSUME \A r \in 1..Len(runs) : OkRefresh(runs[r]) => WholeRefresh(r),
         Len(runs) \in Nat, Len(runs') \in Nat, Len(runs) <= Len(runs'),
         recorded \subseteq recorded',
         \A i \in 1..Len(runs) : runs[i] = OkImport => runs'[i] = OkImport,
         \A i \in 1..Len(runs') :
            \/ ~ OkRefresh(runs'[i])
            \/ i \in 1..Len(runs) /\ runs'[i] = runs[i]
            \/ WholeRefresh(i)'
  PROVE  (\A r \in 1..Len(runs) : OkRefresh(runs[r]) => WholeRefresh(r))'
<1> SUFFICES ASSUME NEW r \in 1..Len(runs'), OkRefresh(runs'[r])
             PROVE  WholeRefresh(r)'
  OBVIOUS
<1>1. CASE r \in 1..Len(runs) /\ runs'[r] = runs[r]
  <2>1. WholeRefresh(r)
    BY <1>1
  <2>2. r + 1 \in 1..Len(runs)
    BY <2>1 DEF WholeRefresh
  <2> QED
    BY <2>1, <2>2 DEF WholeRefresh
<1> QED
  BY <1>1

LEMMA HandIsSymbol ==
  ASSUME TypeOK, queue # {}
  PROVE  InHand \in queue /\ InHand \in Symbols
<1>1. queue \in SUBSET Nat
  BY RefreshAssumption DEF TypeOK, Symbols
<1> QED
  BY <1>1, MinIsMember DEF InHand, TypeOK

LEMMA NoFileIsBars == NoFile \in Bars
BY RefreshAssumption DEF NoFile, Bars, NoBar

LEMMA InitInv == Init => RefreshInv
<1> SUFFICES ASSUME Init PROVE RefreshInv
  OBVIOUS
<1>1. TypeOK
  BY RefreshAssumption, NoFileIsBars DEF Init, TypeOK, Steps, Dates
<1> QED
  BY <1>1, RefreshAssumption DEF Init, RefreshInv, ControlInv, ImportInHand,
     RefreshInHand, ControlFits, RunningIsKnown, DataInv, RecordInv, HistoryIsKept


LEMMA StartRefreshInv ==
  ASSUME RefreshInv, StartRefresh
  PROVE  RefreshInv'
<1> USE DEF RefreshInv, StartRefresh, disk, memory
<1>a. runs \in Seq(Row)
  BY DEF TypeOK, Row
<1>b. /\ runs' \in Seq(Row) /\ Len(runs') = Len(runs) + 1 /\ runs' # <<>>
      /\ \A i \in 1..Len(runs) : runs'[i] = runs[i]
      /\ runs'[Len(runs) + 1] = RunningRefresh
  BY <1>a, StartedRow DEF RunningRefresh
<1>c. Len(runs) \in Nat
  BY <1>a
<1>1. TypeOK'
  BY <1>b, <1>c, RefreshAssumption DEF TypeOK, Steps, Row
<1>2. ControlInv'
  <2>1. RunningIsKnown'
    <3> SUFFICES ASSUME NEW r \in 1..Len(runs'), runs'[r].status = "running"
                 PROVE  r \in {outer', inner'} \cup lost'
      BY DEF RunningIsKnown
    <3>1. CASE r = Len(runs) + 1
      BY <3>1
    <3>2. CASE r \in 1..Len(runs)
      BY <1>b, <3>2 DEF ControlInv, ControlFits, RunningIsKnown, TypeOK
    <3> QED
      BY <1>b, <1>c, <3>1, <3>2
  <2>2. ImportInHand' /\ RefreshInHand' /\ ControlFits'
    BY <1>b, <1>c DEF ControlInv, ImportInHand, RefreshInHand, ControlFits, RunningImport,
       RunningRefresh, TypeOK
  <2> QED
    BY <2>1, <2>2 DEF ControlInv
<1>3. DataInv'
  <2>1. runs'[Len(runs')] # OkImport
    BY <1>b, <1>c DEF OkImport, RunningImport, RunningRefresh
  <2>2. HistoryIsKept'
    BY DEF DataInv, HistoryIsKept
  <2> QED
    BY <2>1, <2>2 DEF DataInv
<1>4. RecordInv'
  <2>1. \A i \in 1..Len(runs') :
           ~ OkRefresh(runs'[i]) \/ (i \in 1..Len(runs) /\ runs'[i] = runs[i])
    BY <1>b, <1>c DEF OkRefresh, RunningImport, RunningRefresh
  <2>2. (\A r \in 1..Len(runs) : OkRefresh(runs[r]) => WholeRefresh(r))'
    BY <1>b, <1>c, <2>1, FinishedRunsKept DEF RecordInv
  <2> QED
    BY <2>2 DEF RecordInv, TypeOK, ControlInv, ControlFits
<1> QED
  BY <1>1, <1>2, <1>3, <1>4

LEMMA FetchInv ==
  ASSUME RefreshInv, NEW first \in Dates, NEW symbols \in SUBSET Symbols,
         NEW allow \in BOOLEAN, Fetch(first, symbols, allow)
  PROVE  RefreshInv'
<1> USE DEF RefreshInv, Fetch, disk, memory
<1>1. TypeOK'
  BY RefreshAssumption DEF TypeOK, Steps
<1>2. ControlInv'
  BY RefreshAssumption DEF TypeOK, ControlInv, ImportInHand, RefreshInHand, ControlFits, RunningIsKnown
<1>3. DataInv'
  BY RefreshAssumption DEF TypeOK, ControlInv, ImportInHand, RefreshInHand, ControlFits,
     DataInv, TreeInDb, HistoryIsKept, InHand
<1>4. RecordInv'
  BY RefreshAssumption DEF TypeOK, ControlInv, ImportInHand, RefreshInHand, ControlFits,
     RecordInv, OkRefresh, WholeRefresh
<1> QED
  BY <1>1, <1>2, <1>3, <1>4

LEMMA MergeSymbolInv ==
  ASSUME RefreshInv, MergeSymbol
  PROVE  RefreshInv'
<1> USE DEF RefreshInv, MergeSymbol, disk, memory
<1>a. InHand \in Symbols /\ InHand' = InHand
  BY HandIsSymbol DEF TypeOK, InHand
<1>1. TypeOK'
  BY <1>a, RefreshAssumption DEF TypeOK, Steps, Merged
<1>2. ControlInv'
  BY <1>a, RefreshAssumption DEF TypeOK, ControlInv, ImportInHand, RefreshInHand, ControlFits, RunningIsKnown
<1>3. DataInv'
  <2>1. runs # <<>> /\ runs[Len(runs)] # OkImport
    BY DEF ControlInv, ControlFits, RefreshInHand, RunningRefresh, OkImport, TypeOK
  <2>2. HistoryIsKept'
    BY <1>a DEF DataInv, HistoryIsKept, TypeOK
  <2>3. ASSUME tree[InHand] # Torn, NEW d \in known[InHand]
        PROVE  outgoing'[d] # NoBar
    <3>1. d \in Dates /\ tree[InHand][d] # NoBar
      BY <1>a, <2>3 DEF DataInv, HistoryIsKept, TypeOK
    <3>2. outgoing' \in Merged(tree[InHand])
      BY <2>3
    <3> QED
      BY <3>1, <3>2 DEF Merged
  <2> QED
    BY <1>a, <2>1, <2>2, <2>3 DEF DataInv
<1>4. RecordInv'
  BY <1>a, RefreshAssumption DEF TypeOK, ControlInv, ImportInHand, RefreshInHand, ControlFits,
     RecordInv, OkRefresh, WholeRefresh
<1> QED
  BY <1>1, <1>2, <1>3, <1>4

LEMMA WriteSymbolInv ==
  ASSUME RefreshInv, WriteSymbol
  PROVE  RefreshInv'
<1> USE DEF RefreshInv, WriteSymbol, disk, memory
<1>a. InHand \in Symbols
  BY HandIsSymbol DEF TypeOK
<1>1. TypeOK'
  BY <1>a, RefreshAssumption DEF TypeOK, Steps
<1>2. ControlInv'
  BY <1>a, RefreshAssumption DEF TypeOK, ControlInv, ImportInHand, RefreshInHand, ControlFits, RunningIsKnown
<1>3. DataInv'
  <2>1. runs # <<>> /\ runs[Len(runs)] # OkImport
    BY DEF ControlInv, ControlFits, RefreshInHand, RunningRefresh, OkImport, TypeOK
  <2>2. ASSUME NEW s \in Symbols, tree'[s] # Torn, NEW d \in known'[s]
        PROVE  tree'[s][d] # NoBar
    <3>1. CASE s = InHand
      <4>1. tree'[s] = outgoing
        BY <1>a, <3>1 DEF TypeOK
      <4>2. d \in known[s] \/ outgoing[d] # NoBar
        BY <1>a, <2>2, <3>1 DEF TypeOK
      <4> QED
        BY <3>1, <4>1, <4>2 DEF DataInv
    <3>2. CASE s # InHand
      BY <1>a, <2>2, <3>2 DEF DataInv, HistoryIsKept, TypeOK
    <3> QED
      BY <3>1, <3>2
  <2> QED
    BY <2>1, <2>2 DEF DataInv, HistoryIsKept
<1>4. RecordInv'
  BY <1>a, RefreshAssumption DEF TypeOK, ControlInv, ImportInHand, RefreshInHand, ControlFits,
     RecordInv, OkRefresh, WholeRefresh
<1> QED
  BY <1>1, <1>2, <1>3, <1>4

LEMMA RecordTreeInv ==
  ASSUME RefreshInv, RecordTree
  PROVE  RefreshInv'
<1> USE DEF RefreshInv, RecordTree, disk, memory
<1>1. TypeOK'
  <2>1. <<outer, "tree">> \in (1..Len(runs)) \X {"tree", "report"}
    BY DEF TypeOK, ControlInv, ControlFits, ImportInHand
  <2> QED
    BY <2>1 DEF TypeOK, Steps
<1>2. ControlInv'
  BY RefreshAssumption DEF TypeOK, ControlInv, ImportInHand, RefreshInHand, ControlFits, RunningIsKnown
<1>3. DataInv'
  BY RefreshAssumption DEF TypeOK, ControlInv, ImportInHand, RefreshInHand, ControlFits,
     DataInv, TreeInDb, HistoryIsKept, InHand
<1>4. RecordInv'
  BY RefreshAssumption DEF TypeOK, ControlInv, ImportInHand, RefreshInHand, ControlFits,
     RecordInv, OkRefresh, WholeRefresh
<1> QED
  BY <1>1, <1>2, <1>3, <1>4

LEMMA StartImportInv ==
  ASSUME RefreshInv, StartImport
  PROVE  RefreshInv'
<1> USE DEF RefreshInv, StartImport, disk, memory
<1>a. runs \in Seq(Row)
  BY DEF TypeOK, Row
<1>b. /\ runs' \in Seq(Row) /\ Len(runs') = Len(runs) + 1 /\ runs' # <<>>
      /\ \A i \in 1..Len(runs) : runs'[i] = runs[i]
      /\ runs'[Len(runs) + 1] = RunningImport
  BY <1>a, StartedRow DEF RunningImport
<1>c. Len(runs) \in Nat
  BY <1>a
<1>1. TypeOK'
  BY <1>b, <1>c, RefreshAssumption DEF TypeOK, Steps, Row
<1>2. ControlInv'
  <2>1. RunningIsKnown'
    <3> SUFFICES ASSUME NEW r \in 1..Len(runs'), runs'[r].status = "running"
                 PROVE  r \in {outer', inner'} \cup lost'
      BY DEF RunningIsKnown
    <3>1. CASE r = Len(runs) + 1
      BY <3>1
    <3>2. CASE r \in 1..Len(runs)
      BY <1>b, <3>2 DEF ControlInv, ControlFits, RunningIsKnown, TypeOK
    <3> QED
      BY <1>b, <1>c, <3>1, <3>2
  <2>2. ImportInHand' /\ RefreshInHand' /\ ControlFits'
    BY <1>b, <1>c DEF ControlInv, ImportInHand, RefreshInHand, ControlFits, RunningImport,
       RunningRefresh, TypeOK
  <2> QED
    BY <2>1, <2>2 DEF ControlInv
<1>3. DataInv'
  <2>1. runs'[Len(runs')] # OkImport
    BY <1>b, <1>c DEF OkImport, RunningImport, RunningRefresh
  <2>2. HistoryIsKept'
    BY DEF DataInv, HistoryIsKept
  <2> QED
    BY <2>1, <2>2 DEF DataInv
<1>4. RecordInv'
  <2>1. \A i \in 1..Len(runs') :
           ~ OkRefresh(runs'[i]) \/ (i \in 1..Len(runs) /\ runs'[i] = runs[i])
    BY <1>b, <1>c DEF OkRefresh, RunningImport, RunningRefresh
  <2>2. (\A r \in 1..Len(runs) : OkRefresh(runs[r]) => WholeRefresh(r))'
    BY <1>b, <1>c, <2>1, FinishedRunsKept DEF RecordInv
  <2> QED
    BY <2>2 DEF RecordInv, TypeOK, ControlInv, ControlFits
<1> QED
  BY <1>1, <1>2, <1>3, <1>4

LEMMA ImportRowsInv ==
  ASSUME RefreshInv, ImportRows
  PROVE  RefreshInv'
<1> USE DEF RefreshInv, ImportRows, disk, memory
<1>1. TypeOK'
  <2>1. \A s \in Symbols, d \in Dates :
           tree[s] # Torn => Imported(s, d) \in NoBar..MaxVersion
    BY DEF TypeOK, Imported, Bars
  <2>2. db' \in [Symbols -> Bars]
    BY <2>1 DEF TypeOK, Bars
  <2> QED
    BY <2>2 DEF TypeOK, Steps
<1>2. ControlInv'
  BY RefreshAssumption DEF TypeOK, ControlInv, ImportInHand, RefreshInHand, ControlFits, RunningIsKnown
<1>3. DataInv'
  BY RefreshAssumption DEF TypeOK, ControlInv, ImportInHand, RefreshInHand, ControlFits,
     DataInv, TreeInDb, HistoryIsKept, InHand, Imported
<1>4. RecordInv'
  BY RefreshAssumption DEF TypeOK, ControlInv, ImportInHand, RefreshInHand, ControlFits,
     RecordInv, OkRefresh, WholeRefresh
<1> QED
  BY <1>1, <1>2, <1>3, <1>4

LEMMA RecordImportInv ==
  ASSUME RefreshInv, RecordImport
  PROVE  RefreshInv'
<1> USE DEF RefreshInv, RecordImport, disk, memory
<1>1. TypeOK'
  <2>1. <<inner, "report">> \in (1..Len(runs)) \X {"tree", "report"}
    BY DEF TypeOK, ControlInv, ControlFits, ImportInHand
  <2> QED
    BY <2>1 DEF TypeOK, Steps
<1>2. ControlInv'
  BY RefreshAssumption DEF TypeOK, ControlInv, ImportInHand, RefreshInHand, ControlFits, RunningIsKnown
<1>3. DataInv'
  BY RefreshAssumption DEF TypeOK, ControlInv, ImportInHand, RefreshInHand, ControlFits,
     DataInv, TreeInDb, HistoryIsKept, InHand
<1>4. RecordInv'
  <2>1. \A r \in 1..Len(runs) : OkRefresh(runs[r]) => WholeRefresh(r)'
    BY DEF RecordInv, WholeRefresh, OkImport
  <2>2. recorded \subseteq recorded' /\ <<inner, "report">> \in recorded'
    OBVIOUS
  <2> QED
    BY <2>1, <2>2 DEF RecordInv, OkRefresh
<1> QED
  BY <1>1, <1>2, <1>3, <1>4

LEMMA CloseImportInv ==
  ASSUME RefreshInv, CloseImport
  PROVE  RefreshInv'
<1> USE DEF RefreshInv, CloseImport, disk, memory
<1>a. runs \in Seq(Row)
  BY DEF TypeOK, Row
<1>d. inner \in 1..Len(runs)
  BY <1>a DEF TypeOK, ControlInv, ControlFits
<1>b. /\ runs' \in Seq(Row) /\ Len(runs') = Len(runs) /\ runs' # <<>>
      /\ \A i \in 1..Len(runs) : i # inner => runs'[i] = runs[i]
      /\ runs'[inner] = [kind |-> runs[inner].kind, status |-> "ok"]
  BY <1>a, <1>d, FinishedRow DEF TypeOK, ControlInv, ControlFits
<1>c. Len(runs) \in Nat
  BY <1>a
<1>1. TypeOK'
  BY <1>b, <1>c, RefreshAssumption DEF TypeOK, Steps, Row
<1>2. ControlInv'
  BY <1>b, <1>c, RefreshAssumption DEF TypeOK, ControlInv, ImportInHand, RefreshInHand, ControlFits, RunningIsKnown, RunningRefresh, RunningImport, OkImport
<1>3. DataInv'
  BY <1>b, <1>c, RefreshAssumption DEF TypeOK, ControlInv, ImportInHand, RefreshInHand, ControlFits,
     DataInv, TreeInDb, HistoryIsKept, InHand, RunningRefresh, RunningImport, OkImport
<1>4. RecordInv'
  <2>1. \A i \in 1..Len(runs') :
           ~ OkRefresh(runs'[i]) \/ (i \in 1..Len(runs) /\ runs'[i] = runs[i])
    BY <1>b, <1>c, <1>d DEF OkRefresh, RunningImport, ControlInv, ImportInHand
  <2>2. \A i \in 1..Len(runs) : runs[i] = OkImport => runs'[i] = OkImport
    BY <1>b, <1>c, <1>d DEF OkImport, RunningImport, RunningRefresh, ControlInv,
       ImportInHand, RefreshInHand
  <2>3. (\A r \in 1..Len(runs) : OkRefresh(runs[r]) => WholeRefresh(r))'
    BY <1>b, <1>c, <2>1, <2>2, FinishedRunsKept DEF RecordInv
  <2> QED
    <3>1. outer # 0 => outer + 1 = inner
      BY <1>c DEF TypeOK, ControlInv, ControlFits, ImportInHand
    <3> QED
      BY <2>3, <3>1 DEF RecordInv, TypeOK
<1> QED
  BY <1>1, <1>2, <1>3, <1>4

LEMMA RecordReportInv ==
  ASSUME RefreshInv, RecordReport
  PROVE  RefreshInv'
<1> USE DEF RefreshInv, RecordReport, disk, memory
<1>1. TypeOK'
  <2>1. <<outer, "report">> \in (1..Len(runs)) \X {"tree", "report"}
    BY DEF TypeOK, ControlInv, ControlFits, ImportInHand
  <2> QED
    BY <2>1 DEF TypeOK, Steps
<1>2. ControlInv'
  BY RefreshAssumption DEF TypeOK, ControlInv, ImportInHand, RefreshInHand, ControlFits, RunningIsKnown
<1>3. DataInv'
  BY RefreshAssumption DEF TypeOK, ControlInv, ImportInHand, RefreshInHand, ControlFits,
     DataInv, TreeInDb, HistoryIsKept, InHand
<1>4. RecordInv'
  BY RefreshAssumption DEF TypeOK, ControlInv, ImportInHand, RefreshInHand, ControlFits,
     RecordInv, OkRefresh, WholeRefresh
<1> QED
  BY <1>1, <1>2, <1>3, <1>4

LEMMA CloseRefreshInv ==
  ASSUME RefreshInv, CloseRefresh
  PROVE  RefreshInv'
<1> USE DEF RefreshInv, CloseRefresh, disk, memory
<1>a. runs \in Seq(Row)
  BY DEF TypeOK, Row
<1>d. outer \in 1..Len(runs)
  BY <1>a DEF TypeOK, ControlInv, ControlFits
<1>b. /\ runs' \in Seq(Row) /\ Len(runs') = Len(runs) /\ runs' # <<>>
      /\ \A i \in 1..Len(runs) : i # outer => runs'[i] = runs[i]
      /\ runs'[outer] = [kind |-> runs[outer].kind, status |-> "ok"]
  BY <1>a, <1>d, FinishedRow DEF TypeOK, ControlInv, ControlFits
<1>c. Len(runs) \in Nat
  BY <1>a
<1>1. TypeOK'
  <2>1. inner = 0
    BY DEF ControlInv, ControlFits
  <2> QED
    BY <1>b, <1>c, <2>1 DEF TypeOK, Steps, Row
<1>2. ControlInv'
  BY <1>b, <1>c, RefreshAssumption DEF TypeOK, ControlInv, ImportInHand, RefreshInHand, ControlFits, RunningIsKnown, RunningRefresh, RunningImport, OkImport
<1>3. DataInv'
  BY <1>b, <1>c, RefreshAssumption DEF TypeOK, ControlInv, ImportInHand, RefreshInHand, ControlFits,
     DataInv, TreeInDb, HistoryIsKept, InHand, RunningRefresh, OkImport
<1>4. RecordInv'
  <2>1. \A i \in 1..Len(runs) : i # outer => runs'[i] = runs[i]
    BY <1>b
  <2>2. runs[outer] # OkImport
    BY <1>d DEF ControlInv, RefreshInHand, RunningRefresh, OkImport
  <2>3. ASSUME NEW i, i = outer
        PROVE  WholeRefresh(i)'
    <3>1. outer = Len(runs) - 1 /\ runs[Len(runs)] = OkImport
      BY DEF ControlInv, ControlFits
    <3>2. outer + 1 = Len(runs) /\ outer + 1 \in 1..Len(runs) /\ outer + 1 # outer
      BY <1>c, <1>d, <3>1
    <3>3. runs'[outer + 1] = OkImport
      BY <2>1, <3>1, <3>2
    <3>4. {<<outer, "tree">>, <<outer, "report">>, <<outer + 1, "report">>} \subseteq recorded
      BY <1>d DEF RecordInv
    <3> QED
      BY <1>b, <1>c, <2>3, <3>1, <3>2, <3>3, <3>4 DEF WholeRefresh
  <2>4. (\A r \in 1..Len(runs) : OkRefresh(runs[r]) => WholeRefresh(r))'
    <3>1. \A i \in 1..Len(runs) : runs[i] = OkImport => runs'[i] = OkImport
      BY <2>1, <2>2
    <3>2. \A i \in 1..Len(runs') :
             (i \in 1..Len(runs) /\ runs'[i] = runs[i]) \/ WholeRefresh(i)'
      BY <1>b, <2>1, <2>3
    <3> QED
      BY <1>b, <1>c, <3>1, <3>2, FinishedRunsKept DEF RecordInv
  <2> QED
    BY <2>4 DEF RecordInv
<1> QED
  BY <1>1, <1>2, <1>3, <1>4

LEMMA RaiseInv ==
  ASSUME RefreshInv, Raise
  PROVE  RefreshInv'
<1> USE DEF RefreshInv, Raise, disk, memory
<1>1. TypeOK'
  BY RefreshAssumption DEF TypeOK, Steps, Fault
<1>2. ControlInv'
  BY RefreshAssumption DEF TypeOK, ControlInv, ImportInHand, RefreshInHand, ControlFits, RunningIsKnown
<1>3. DataInv'
  BY RefreshAssumption DEF TypeOK, ControlInv, ImportInHand, RefreshInHand, ControlFits,
     DataInv, TreeInDb, HistoryIsKept, InHand
<1>4. RecordInv'
  BY RefreshAssumption DEF TypeOK, ControlInv, ImportInHand, RefreshInHand, ControlFits,
     RecordInv, OkRefresh, WholeRefresh
<1> QED
  BY <1>1, <1>2, <1>3, <1>4

LEMMA UnwindInv ==
  ASSUME RefreshInv, Unwind
  PROVE  RefreshInv'
<1> USE DEF RefreshInv, Unwind, disk, memory
<1> DEFINE last == IF inner # 0 THEN inner ELSE outer
<1>a. runs \in Seq(Row)
  BY DEF TypeOK, Row
<1>d. last \in 1..Len(runs) /\ runs' = Finished(last, "failed")
  BY <1>a DEF TypeOK, ControlInv, ControlFits
<1> HIDE DEF last
<1>b. /\ runs' \in Seq(Row) /\ Len(runs') = Len(runs) /\ runs' # <<>>
      /\ \A i \in 1..Len(runs) : i # last => runs'[i] = runs[i]
      /\ runs'[last] = [kind |-> runs[last].kind, status |-> "failed"]
  BY <1>a, <1>d, FinishedRow
<1>c. Len(runs) \in Nat
  BY <1>a
<1>1. TypeOK'
  BY <1>b, <1>c, RefreshAssumption DEF TypeOK, Steps, Row
<1>2. ControlInv'
  <2>1. RunningIsKnown'
    BY <1>b, <1>c DEF last, ControlInv, RunningIsKnown, TypeOK
  <2>2. ImportInHand' /\ RefreshInHand' /\ ControlFits'
    BY <1>b, <1>c DEF last, ControlInv, ImportInHand, RefreshInHand, ControlFits,
       RunningImport, RunningRefresh, TypeOK
  <2> QED
    BY <2>1, <2>2 DEF ControlInv
<1>3. DataInv'
  BY <1>b, <1>c, RefreshAssumption DEF TypeOK, ControlInv, ImportInHand, RefreshInHand, ControlFits,
     DataInv, TreeInDb, HistoryIsKept, InHand, RunningRefresh, RunningImport, OkImport
<1>4. RecordInv'
  <2>1. \A i \in 1..Len(runs') :
           ~ OkRefresh(runs'[i]) \/ (i \in 1..Len(runs) /\ runs'[i] = runs[i])
    BY <1>b, <1>c, <1>d DEF OkRefresh, RunningImport, ControlInv, ImportInHand
  <2>2. \A i \in 1..Len(runs) : runs[i] = OkImport => runs'[i] = OkImport
    BY <1>b, <1>c, <1>d DEF last, OkImport, RunningImport, RunningRefresh, ControlInv,
       ImportInHand, RefreshInHand
  <2>3. (\A r \in 1..Len(runs) : OkRefresh(runs[r]) => WholeRefresh(r))'
    BY <1>b, <1>c, <2>1, <2>2, FinishedRunsKept DEF RecordInv
  <2> QED
    BY <2>3 DEF RecordInv, TypeOK, ControlInv, ControlFits, ImportInHand
<1> QED
  BY <1>1, <1>2, <1>3, <1>4

LEMMA LoseEndInv ==
  ASSUME RefreshInv, LoseEnd
  PROVE  RefreshInv'
<1> USE DEF RefreshInv, LoseEnd, disk, memory
<1>1. TypeOK'
  <2>1. (IF inner # 0 THEN inner ELSE outer) \in 1..Len(runs)
    BY DEF TypeOK
  <2> QED
    BY <2>1, RefreshAssumption DEF TypeOK, Steps, Fault
<1>2. ControlInv'
  BY RefreshAssumption DEF TypeOK, ControlInv, ImportInHand, RefreshInHand, ControlFits, RunningIsKnown
<1>3. DataInv'
  BY RefreshAssumption DEF TypeOK, ControlInv, ImportInHand, RefreshInHand, ControlFits,
     DataInv, TreeInDb, HistoryIsKept, InHand
<1>4. RecordInv'
  BY RefreshAssumption DEF TypeOK, ControlInv, ImportInHand, RefreshInHand, ControlFits,
     RecordInv, OkRefresh, WholeRefresh
<1> QED
  BY <1>1, <1>2, <1>3, <1>4

LEMMA KillInv ==
  ASSUME RefreshInv, Kill
  PROVE  RefreshInv'
<1> USE DEF RefreshInv, Kill, disk, memory
<1>1. TypeOK'
  BY RefreshAssumption DEF TypeOK, Steps, Fault
<1>2. ControlInv'
  BY RefreshAssumption DEF TypeOK, ControlInv, ImportInHand, RefreshInHand, ControlFits, RunningIsKnown
<1>3. DataInv'
  BY RefreshAssumption DEF TypeOK, ControlInv, ImportInHand, RefreshInHand, ControlFits,
     DataInv, TreeInDb, HistoryIsKept, InHand
<1>4. RecordInv'
  BY RefreshAssumption DEF TypeOK, ControlInv, ImportInHand, RefreshInHand, ControlFits,
     RecordInv, OkRefresh, WholeRefresh
<1> QED
  BY <1>1, <1>2, <1>3, <1>4

LEMMA ReviseInv ==
  ASSUME RefreshInv, Revise
  PROVE  RefreshInv'
<1> USE DEF RefreshInv, Revise, disk, memory
<1>1. TypeOK'
  BY RefreshAssumption DEF TypeOK, Steps
<1>2. ControlInv'
  BY RefreshAssumption DEF TypeOK, ControlInv, ImportInHand, RefreshInHand, ControlFits, RunningIsKnown
<1>3. DataInv'
  BY RefreshAssumption DEF TypeOK, ControlInv, ImportInHand, RefreshInHand, ControlFits,
     DataInv, TreeInDb, HistoryIsKept, InHand
<1>4. RecordInv'
  BY RefreshAssumption DEF TypeOK, ControlInv, ImportInHand, RefreshInHand, ControlFits,
     RecordInv, OkRefresh, WholeRefresh
<1> QED
  BY <1>1, <1>2, <1>3, <1>4

LEMMA StutterInv ==
  ASSUME RefreshInv, UNCHANGED vars
  PROVE  RefreshInv'
<1> USE DEF vars
<1>1. TypeOK'
  BY DEF RefreshInv, TypeOK
<1>2. ControlInv'
  BY DEF RefreshInv, ControlInv, ImportInHand, RefreshInHand, ControlFits, RunningIsKnown
<1>3. DataInv'
  BY DEF RefreshInv, DataInv, TreeInDb, HistoryIsKept, InHand
<1>4. RecordInv'
  BY DEF RefreshInv, RecordInv, OkRefresh, WholeRefresh, OkImport
<1> QED
  BY <1>1, <1>2, <1>3, <1>4 DEF RefreshInv

LEMMA StepInv == RefreshInv /\ [Next]_vars => RefreshInv'
BY StartRefreshInv, FetchInv, MergeSymbolInv, WriteSymbolInv, RecordTreeInv,
   StartImportInv, ImportRowsInv, RecordImportInv, CloseImportInv, RecordReportInv,
   CloseRefreshInv, RaiseInv, UnwindInv, LoseEndInv, KillInv, ReviseInv, StutterInv
   DEF Next

LEMMA Invariance == Spec => []RefreshInv
BY InitInv, StepInv, PTL DEF Spec

-----------------------------------------------------------------------------
(* The files, the tables and the frame in memory keep their shape.         *)
THEOREM TypeCorrect == Spec => []TypeOK
<1>1. RefreshInv => TypeOK
  BY DEF RefreshInv
<1> QED
  BY <1>1, Invariance, PTL

(* A date a file has ever held is still in it, unless the file is torn:    *)
(* refreshes of other windows or of fewer symbols, exceptions and kills    *)
(* lose no history (merge of an answer into a symbol's parquet file).      *)
THEOREM NoHistoryLost == Spec => []HistoryIsKept
<1>1. RefreshInv => HistoryIsKept
  BY DEF RefreshInv, DataInv
<1> QED
  BY <1>1, Invariance, PTL

(* While the latest row is an import that ended well, the database holds   *)
(* every bar of the tree as the tree has it.                               *)
THEOREM DatabaseHoldsTree == Spec => []LastImportIsTree
<1>1. RefreshInv => LastImportIsTree
  BY DEF RefreshInv, DataInv, LastImportIsTree, OkImport, TreeInDb
<1> QED
  BY <1>1, Invariance, PTL

(* A refresh recorded as ok is followed by its import, recorded as ok, with*)
(* every output of both on record: no exception is lost on its way through *)
(* the two nested context managers.                                        *)
THEOREM OkRefreshIsWhole == Spec => []OkMeansImported
<1>1. RefreshInv => OkMeansImported
  BY DEF RefreshInv, RecordInv, OkMeansImported, OkRefresh, WholeRefresh, OkImport
<1> QED
  BY <1>1, Invariance, PTL

(* A row that says running when no process is there was left by a kill or  *)
(* by a failing UPDATE, never by an exception.                             *)
THEOREM OnlyLostRunsHang == Spec => []RunningMeansLost
<1>1. RefreshInv => RunningMeansLost
  BY DEF RefreshInv, TypeOK, ControlInv, RunningIsKnown, RunningMeansLost
<1> QED
  BY <1>1, Invariance, PTL

(* The database only moves by an import that has read every file of the    *)
(* tree, none of them torn, and then holds all their bars.                 *)
THEOREM ImportMovesWhole == Spec => ImportIsWhole
<1>1. ASSUME RefreshInv, [Next]_vars, db' # db
      PROVE  \A s \in Symbols :
                tree[s] # Torn
                /\ \A d \in Dates : tree[s][d] # NoBar => db'[s][d] = tree[s][d]
  <2>1. ImportRows
    BY <1>1 DEF Next, StartRefresh, Fetch, MergeSymbol, WriteSymbol, RecordTree,
       StartImport, RecordImport, CloseImport, RecordReport, CloseRefresh, Raise, Unwind,
       LoseEnd, Kill, Revise, vars, disk
  <2> QED
    BY <1>1, <2>1 DEF ImportRows, Imported
<1>2. RefreshInv /\ [Next]_vars =>
        [db' # db =>
          \A s \in Symbols :
              tree[s] # Torn
              /\ \A d \in Dates : tree[s][d] # NoBar => db'[s][d] = tree[s][d]]_vars
  BY <1>1
<1> QED
  BY <1>2, Invariance, PTL DEF ImportIsWhole, Spec
=============================================================================

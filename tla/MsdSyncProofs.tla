--------------------------- MODULE MsdSyncProofs ---------------------------
(***************************************************************************)
(* Proofs about MsdSync, for any staging tables and references between     *)
(* them, any size of a page, and any number of exports and failures: it    *)
(* keeps its types, it implements Replica, and a row is left out only for  *)
(* one of the reasons of SkippedForAReason.                                *)
(***************************************************************************)
EXTENDS MsdSync, FiniteSetTheorems, TLAPS

-----------------------------------------------------------------------------
(* The invariant behind the refinement *)

\* The worker holds a page only between its selection and its mark, of one kind.
PageIsHeld ==
  \A r \in DOMAIN worker.page : worker.pc \in {"save", "transfer"} /\ r \in Of(worker.kind)

\* Nobody else marks a row of the page, and a row that is exported meanwhile is noted.
PageIsPending ==
  \A r \in DOMAIN worker.page :
    /\ table[r].pending /\ 0 < worker.page[r] /\ worker.page[r] <= table[r].version
    /\ worker.page[r] = table[r].version \/ r \in overtaken

\* What is still to be saved is no older than the copy ...
PageIsNewer ==
  worker.pc = "save" => \A r \in DOMAIN worker.page : db[r] <= worker.page[r]

\* ... and what is still to be marked has been saved, or left out.
PageIsSaved ==
  worker.pc = "transfer" =>
    \A r \in DOMAIN worker.page :
      /\ db[r] = worker.page[r] \/ r \in skipped \/ r \in overtaken
      /\ r \in Products => r \in known
      /\ r \in Sales => db[r] > 0

CopyIsNotAhead == (\A r \in Rows : db[r] <= table[r].version) /\ db[Master] <= 1

CopiedIsKnown == \A r \in Products : db[r] > 0 => r \in known

\* A row is pending only once it has been exported, and a product or a sale that was
\* marked is in the database.
MarkedIsThere ==
  \A r \in Rows :
    /\ table[r].pending => table[r].version > 0
    /\ ~table[r].pending /\ table[r].version > 0 =>
         (r \in Products => r \in known) /\ (r \in Sales => db[r] > 0)

ReplicaInv == /\ PageIsHeld /\ PageIsPending /\ PageIsNewer /\ PageIsSaved
              /\ CopyIsNotAhead /\ CopiedIsKnown /\ MarkedIsThere

-----------------------------------------------------------------------------
(* The invariant behind the reasons *)

KindOfPlace == /\ worker.pc = "master" => worker.kind = "productCategories"
               /\ worker.pc = "claimLines" => worker.kind = "salesLines"

Fetching == worker.pc \in {"select", "save", "transfer", "done"}
PagesLeft == IF worker.pc \in {"save", "transfer"} THEN worker.pages - 1 ELSE worker.pages

\* The pages that are left hold all pending rows of the kind.
PagesSuffice(k) ==
  /\ PagesLeft \in Nat
  /\ Cardinality(Pending(k) \ DOMAIN worker.page) <= PagesLeft * PageSize
  /\ worker.pc = "done" => Pending(k) = {}

\* Without a failure or an export the pending rows of a kind that others refer to are
\* counted, until they are fetched.
Counted(k) ==
  /\ worker.pc \in {"counting", "next", "master", "claimLines"} \/ (Fetching /\ worker.kind # k)
       => Pending(k) \subseteq worker.rows
  /\ Fetching /\ worker.kind = k => PagesSuffice(k)

QuietIsCounted == worker.quiet => \A k \in {"products", "sales"} \intersect worker.found : Counted(k)

\* The kinds that a kind refers to were fetched before.
OrderIsKept ==
  Fetching \/ worker.pc = "claimLines" =>
    /\ worker.kind = "inventorySums" => worker.rows \intersect Products = {}
    /\ worker.kind = "salesLines" => worker.rows \intersect Sales = {}

MasterIsFetched ==
  worker.quiet /\ Fetching /\ worker.kind = "productCategories" => db[Master] > 0

ReasonInv == KindOfPlace /\ QuietIsCounted /\ OrderIsKept /\ MasterIsFetched

-----------------------------------------------------------------------------
(* The rows *)

LEMMA OfIsSome ==
  \A k \in Kinds : Of(k) \in {Products, Categories, Dims, Inventory, Sales, SalesLines}
BY DEF Of

LEMMA OfRows == \A k \in Kinds : Of(k) \subseteq Rows
BY OfIsSome DEF Rows

LEMMA FetchedKinds == Fetched \subseteq Kinds
BY DEF Kinds

LEMMA KindsAreApart == \A k, l \in Kinds : \A r \in Of(k) : r \in Of(l) => k = l
BY MsdAssumption

LEMMA SixKinds ==
  /\ Of("products") = Products /\ Of("productCategories") = Categories
  /\ Of("inventoryDims") = Dims /\ Of("inventorySums") = Inventory
  /\ Of("sales") = Sales /\ Of("salesLines") = SalesLines
  /\ Kinds = {"products", "productCategories", "inventoryDims", "inventorySums", "sales",
              "salesLines"}
BY DEF Of, Kinds, Fetched

LEMMA MasterIsNoRow == Master \notin Rows
BY MsdAssumption, SixKinds DEF Rows

LEMMA KindsAreFinite == \A k \in Kinds : IsFiniteSet(Of(k))
BY MsdAssumption

-----------------------------------------------------------------------------
(* Types *)

Batches == UNION {[S -> Version] : S \in SUBSET Rows}

LEMMA PageType ==
  \A p : p \in Batches <=> DOMAIN p \in SUBSET Rows /\ p \in [DOMAIN p -> Version]
BY DEF Batches

LEMMA NoPageType == NoPage \in Batches /\ DOMAIN NoPage = {}
<1>1. NoPage \in [{} -> Version] /\ DOMAIN NoPage = {}
  BY DEF NoPage
<1> QED
  BY <1>1 DEF Batches

Places == {"idle", "claim", "connect", "count", "counting", "none", "next", "master",
           "claimLines", "select", "save", "transfer", "done", "release"}

LEMMA WorkerType ==
  ASSUME NEW w \in Worker
  PROVE  /\ w.pc \in Places /\ w.found \subseteq Kinds /\ w.rows \subseteq Rows
         /\ w.kind \in Fetched /\ w.kind \in Kinds /\ w.pages \in Nat
         /\ w.page \in Batches /\ w.quiet \in BOOLEAN
BY DEF Worker, Batches, Places, Kinds

LEMMA IdleWorkerType == IdleWorker \in Worker
BY NoPageType DEF IdleWorker, Worker, Batches, Kinds, Fetched

LEMMA FaultType ==
  ASSUME faults \in 0 .. MaxFaults, Fault \/ UNCHANGED faults
  PROVE  faults' \in 0 .. MaxFaults
BY MsdAssumption DEF Fault

LEMMA UpdateType ==
  ASSUME sync \in [Kinds -> SyncModel], NEW kinds, NEW to \in SyncModel, Update(kinds, to)
  PROVE  sync' \in [Kinds -> SyncModel]
BY DEF Update

LEMMA PagesType ==
  ASSUME NEW k \in Kinds, NEW rows \in SUBSET Of(k)
  PROVE  Pages(rows) \in Nat
<1>1. Cardinality(rows) \in Nat
  BY KindsAreFinite, FS_Subset, FS_CardinalityType
<1>2. \A n \in Nat : (n + PageSize - 1) \div PageSize \in Nat
  BY MsdAssumption
<1> QED
  BY <1>1, <1>2 DEF Pages

SameKind == /\ worker'.found = worker.found /\ worker'.rows = worker.rows
            /\ worker'.kind = worker.kind

LEMMA Went ==
  ASSUME worker \in Worker, NEW pc \in Places, Goto(pc)
  PROVE  /\ worker' \in Worker /\ worker'.pc = pc /\ SameKind
         /\ worker'.pages = worker.pages /\ worker'.page = worker.page
         /\ worker'.quiet = worker.quiet
BY DEF Goto, Worker, Places, SameKind

LEMMA FailedTo ==
  ASSUME worker \in Worker, NEW pc \in Places, FailTo(pc)
  PROVE  /\ worker' \in Worker /\ worker'.pc = pc /\ SameKind
         /\ worker'.pages = worker.pages /\ worker'.page = worker.page
         /\ ~worker'.quiet
BY DEF FailTo, Worker, Places, SameKind

LEMMA PageEnded ==
  ASSUME worker \in Worker, worker.pages > 0, NextPage
  PROVE  /\ worker' \in Worker /\ worker'.pc = "select" /\ SameKind
         /\ worker'.pages = worker.pages - 1 /\ worker'.page = NoPage
         /\ worker'.quiet = worker.quiet
<1>1. worker.pages - 1 \in Nat
  BY WorkerType
<1> QED
  BY <1>1, NoPageType DEF NextPage, Worker, Batches, SameKind

LEMMA KindEnded ==
  ASSUME worker \in Worker, EndKind
  PROVE  /\ worker' \in Worker /\ worker'.pc = "next" /\ SameKind
         /\ worker'.page = NoPage /\ worker'.quiet = worker.quiet
BY NoPageType DEF EndKind, Worker, Batches, SameKind

LEMMA FetchFailed ==
  ASSUME worker \in Worker, FetchFails
  PROVE  /\ worker' \in Worker /\ worker'.pc \in {"select", "next"} /\ SameKind
         /\ worker'.page = NoPage /\ ~worker'.quiet
         /\ worker'.pc = "select" => worker.kind = "salesLines"
<1>1. CASE worker' = [worker EXCEPT !.pc = "select", !.pages = @ - 1, !.page = NoPage,
                                    !.quiet = FALSE]
           /\ worker.pages > 0 /\ worker.kind = "salesLines"
  <2>1. worker.pages - 1 \in Nat
    BY <1>1, WorkerType
  <2> QED
    BY <1>1, <2>1, NoPageType DEF Worker, Batches, SameKind
<1>2. CASE worker' = [worker EXCEPT !.pc = "next", !.pages = 0, !.page = NoPage,
                                    !.quiet = FALSE]
  BY <1>2, NoPageType DEF Worker, Batches, SameKind
<1> QED
  BY <1>1, <1>2 DEF FetchFails

LEMMA Exported ==
  ASSUME TypeOK, NEW r \in Rows, Export(r)
  PROVE  /\ worker' \in Worker /\ worker'.pc = worker.pc /\ SameKind
         /\ worker'.pages = worker.pages /\ worker'.page = worker.page
         /\ worker'.quiet = (worker.quiet /\ ~Busy)
         /\ table' \in [Rows -> StagingRow]
         /\ table'[r].version = table[r].version + 1 /\ table'[r].pending
         /\ \A q \in Rows \ {r} : table'[q] = table[q]
<1>1. worker \in Worker /\ Busy \in BOOLEAN
  BY DEF TypeOK, Busy
<1>2. /\ worker' \in Worker /\ worker'.pc = worker.pc /\ SameKind
      /\ worker'.pages = worker.pages /\ worker'.page = worker.page
      /\ worker'.quiet = (worker.quiet /\ ~Busy)
  BY <1>1 DEF Export, Worker, SameKind
<1>3. table[r].version \in Nat /\ table[r].version < MaxExports /\ MaxExports \in Nat
  BY MsdAssumption DEF Export, TypeOK, StagingRow, Version
<1>4. [version |-> table[r].version + 1, pending |-> TRUE] \in StagingRow
  BY <1>3 DEF StagingRow, Version
<1>5. table' = [table EXCEPT ![r] = [version |-> table[r].version + 1, pending |-> TRUE]]
  BY DEF Export
<1> QED
  BY <1>2, <1>4, <1>5 DEF TypeOK

\* What the fetch of a kind begins with.
Begun(k) ==
  /\ k \in Todo /\ Before(k) \intersect Todo = {}
  /\ worker'.kind = k /\ worker'.rows = worker.rows \ Of(k)
  /\ worker'.pages = Pages(worker.rows \intersect Of(k))
  /\ worker'.pc = CASE k = "productCategories" -> "master"
                    [] k = "salesLines"        -> "claimLines"
                    [] OTHER                   -> "select"
  /\ worker'.found = worker.found /\ worker'.page = worker.page /\ worker'.quiet = worker.quiet

LEMMA KindBegun ==
  ASSUME worker \in Worker, NextKind, ~Goto("release")
  PROVE  worker' \in Worker /\ \E k \in Fetched : Begun(k)
<1>1. PICK k \in Todo :
        /\ Before(k) \intersect Todo = {}
        /\ worker' = [worker EXCEPT !.kind = k, !.rows = @ \ Of(k),
             !.pages = Pages(worker.rows \intersect Of(k)),
             !.pc = CASE k = "productCategories" -> "master"
                      [] k = "salesLines"        -> "claimLines"
                      [] OTHER                   -> "select"]
  BY DEF NextKind
<1>2. k \in Fetched /\ k \in Kinds
  BY FetchedKinds DEF Todo
<1>3. Pages(worker.rows \intersect Of(k)) \in Nat
  BY <1>2, PagesType
<1>4. (CASE k = "productCategories" -> "master" [] k = "salesLines" -> "claimLines"
         [] OTHER -> "select") \in Places
  BY DEF Places
<1> QED
  BY <1>1, <1>2, <1>3, <1>4 DEF Begun, Worker, Places

LEMMA PageSelected ==
  ASSUME TypeOK, SelectPage
  PROVE  /\ worker' \in Worker /\ worker'.pc = "save" /\ SameKind
         /\ worker'.pages = worker.pages /\ worker'.quiet = worker.quiet
         /\ worker.pc = "select" /\ worker.pages > 0
         /\ \E S \in SUBSET Selectable(worker.kind) :
              /\ worker'.page = [r \in S |-> table[r].version]
              /\ DOMAIN worker'.page = S /\ overtaken' = overtaken \ S
              /\ \/ Cardinality(S) = PageSize
                 \/ S = Selectable(worker.kind) /\ Cardinality(S) < PageSize
<1>1. PICK S \in SUBSET Selectable(worker.kind) :
        /\ Cardinality(S) = PageSize
           \/ (S = Selectable(worker.kind) /\ Cardinality(S) < PageSize)
        /\ worker' = [worker EXCEPT !.pc = "save", !.page = [r \in S |-> table[r].version]]
        /\ overtaken' = overtaken \ S
  BY DEF SelectPage
<1>2. S \subseteq Rows
  BY OfRows, WorkerType DEF Selectable, Pending, TypeOK
<1>3. [r \in S |-> table[r].version] \in [S -> Version]
  BY <1>2 DEF TypeOK, StagingRow
<1>4. [r \in S |-> table[r].version] \in Batches
  BY <1>2, <1>3 DEF Batches
<1>5. /\ worker' \in Worker /\ worker'.pc = "save" /\ SameKind
      /\ worker'.pages = worker.pages /\ worker'.quiet = worker.quiet
      /\ worker'.page = [r \in S |-> table[r].version]
  BY <1>1, <1>4 DEF TypeOK, Worker, Batches, SameKind
<1> QED
  BY <1>1, <1>5 DEF SelectPage

LEMMA RowsSaved ==
  ASSUME TypeOK, NEW S \in SUBSET DOMAIN worker.page, SaveRows(S)
  PROVE  /\ db' \in [Rows \union {Master} -> Version]
         /\ known' \subseteq Products /\ skipped' \subseteq Rows
<1>1. S \subseteq Rows /\ \A r \in S : worker.page[r] \in Version
  BY WorkerType, PageType DEF TypeOK
<1>2. \A r \in Categories : ProductOf[r] \in Products
  BY MsdAssumption
<1> QED
  BY <1>1, <1>2 DEF SaveRows, TypeOK

LEMMA RowsMarked ==
  ASSUME TypeOK, NEW S, Mark(S)
  PROVE  /\ table' \in [Rows -> StagingRow]
         /\ \A r \in Rows : /\ table'[r].version = table[r].version
                            /\ table'[r].pending = (table[r].pending /\ r \notin S)
<1>1. \A r \in Rows : /\ table[r] \in StagingRow
                      /\ [table[r] EXCEPT !.pending = FALSE] \in StagingRow
                      /\ [table[r] EXCEPT !.pending = FALSE].version = table[r].version
                      /\ [table[r] EXCEPT !.pending = FALSE].pending = FALSE
  BY DEF TypeOK, StagingRow
<1>2. table' = [r \in Rows |-> IF r \in S THEN [table[r] EXCEPT !.pending = FALSE]
                                          ELSE table[r]]
  BY DEF Mark
<1>3. table' \in [Rows -> StagingRow]
  BY <1>1, <1>2
<1>4. SUFFICES ASSUME NEW r \in Rows
               PROVE  /\ table'[r].version = table[r].version
                      /\ table'[r].pending = (table[r].pending /\ r \notin S)
  BY <1>3
<1>5. CASE r \in S
  <2>1. table'[r] = [table[r] EXCEPT !.pending = FALSE]
    BY <1>2, <1>5
  <2>2. table'[r].pending = FALSE
    BY <1>1, <2>1
  <2> QED
    BY <1>1, <1>5, <2>1, <2>2
<1>6. CASE r \notin S
  <2>1. table'[r] = table[r] /\ table[r].pending \in BOOLEAN
    BY <1>1, <1>2, <1>6 DEF StagingRow
  <2> QED
    BY <1>6, <2>1
<1> QED
  BY <1>5, <1>6

LEMMA SomeLeft ==
  ASSUME TypeOK, LeavesSome
  PROVE  /\ table' \in [Rows -> StagingRow] /\ db' \in [Rows \union {Master} -> Version]
         /\ known' \subseteq Products /\ skipped' \subseteq Rows
BY RowsSaved, RowsMarked DEF LeavesSome, TypeOK

\* A page is held while there are pages to fetch.
PageIsWanted == worker.pc \in {"save", "transfer"} => worker.pages > 0

TypeInv == TypeOK /\ PageIsWanted

LEMMA TypeInit == Init => TypeInv
<1> SUFFICES ASSUME Init PROVE TypeInv
  OBVIOUS
<1>1. 0 \in Version /\ 0 \in 0 .. MaxFaults /\ MaxExports \in Nat
  BY MsdAssumption DEF Version
<1>2. table \in [Rows -> StagingRow] /\ db \in [Rows \union {Master} -> Version]
  BY <1>1 DEF Init, StagingRow
<1>3. sync \in [Kinds -> SyncModel]
  BY DEF Init, SyncModel
<1> QED
  BY <1>1, <1>2, <1>3, IdleWorkerType DEF Init, TypeInv, TypeOK, PageIsWanted, IdleWorker

LEMMA EnvironmentType == ASSUME TypeInv, Environment PROVE TypeInv'
<1>1. ASSUME NEW r \in Rows, Export(r) PROVE TypeInv'
  <2>1. skipped' \subseteq Rows /\ overtaken' \subseteq Rows
    BY <1>1 DEF Export, TypeInv, TypeOK
  <2> QED
    BY <1>1, <2>1, Exported DEF Export, TypeInv, TypeOK, PageIsWanted
<1>2. CASE CreateSyncModels
  <2>1. sync' \in [Kinds -> SyncModel]
    BY <1>2 DEF CreateSyncModels, TypeInv, TypeOK, SyncModel
  <2> QED
    BY <1>2, <2>1 DEF CreateSyncModels, TypeInv, TypeOK, PageIsWanted
<1>3. CASE DestroySyncModels
  <2>1. sync' \in [Kinds -> SyncModel]
    BY <1>3 DEF DestroySyncModels, SyncModel
  <2> QED
    BY <1>3, <2>1, FaultType DEF DestroySyncModels, TypeInv, TypeOK, PageIsWanted
<1> QED
  BY <1>1, <1>2, <1>3 DEF Environment

\* The steps of syncWorker.js and find-differential-msd-data.js.
ProcessStep ==
  \/ FindSyncModels \/ Claim \/ ClaimFails \/ Connect \/ CountRows \/ FindIncremental
  \/ NoIncrementalData \/ SyncFails \/ NextKind \/ Release \/ ReleaseFails

\* What they leave alone.
Elsewhere == <<table, db, known, skipped, overtaken>>

LEMMA ProcessFrame == ASSUME ProcessStep PROVE UNCHANGED Elsewhere
BY DEF ProcessStep, FindSyncModels, Claim, ClaimFails, Connect, CountRows, FindIncremental,
       NoIncrementalData, SyncFails, NextKind, Release, ReleaseFails, Elsewhere

LEMMA Found ==
  ASSUME worker \in Worker, FindSyncModels
  PROVE  worker' \in Worker /\ worker'.pc = "claim" /\ worker'.page = NoPage
<1>1. worker' = [IdleWorker EXCEPT !.pc = "claim", !.found = {k \in Kinds : sync[k] = "free"}]
  BY DEF FindSyncModels
<1> QED
  BY <1>1, IdleWorkerType DEF Worker, IdleWorker

LEMMA RowsCounted ==
  ASSUME TypeOK, CountRows
  PROVE  /\ worker' \in Worker /\ worker'.pc = "counting" /\ worker'.page = worker.page
         /\ worker'.rows = PendingRows /\ worker'.found = worker.found
         /\ worker'.quiet = worker.quiet
<1>1. PendingRows \subseteq Rows /\ worker \in Worker
  BY WorkerType, OfRows DEF PendingRows, Pending, TypeOK
<1> QED
  BY <1>1 DEF CountRows, Worker

LEMMA RowsFound ==
  ASSUME TypeOK, FindIncremental
  PROVE  /\ worker' \in Worker /\ worker'.pc \in {"none", "next"} /\ worker'.page = worker.page
         /\ worker.rows \ Dims \subseteq worker'.rows /\ worker'.found = worker.found
         /\ worker'.quiet = worker.quiet
<1>1. PICK late \in SUBSET (PendingRows \ worker.rows) :
        worker' = [worker EXCEPT !.pc = IF worker.rows \union late = {} THEN "none" ELSE "next",
                                 !.rows = (worker.rows \union late) \ Dims]
  BY DEF FindIncremental
<1>2. PendingRows \subseteq Rows /\ worker \in Worker /\ worker.rows \subseteq Rows
  BY WorkerType, OfRows DEF PendingRows, Pending, TypeOK
<1> QED
  BY <1>1, <1>2 DEF Worker

LEMMA ProcessType ==
  ASSUME TypeInv, ProcessStep
  PROVE  TypeInv'
<1>1. worker \in Worker /\ faults \in 0 .. MaxFaults /\ sync \in [Kinds -> SyncModel]
  BY DEF TypeInv, TypeOK
<1>2. worker' \in Worker /\ worker'.pc \notin {"save", "transfer"}
  <2>1. CASE FindSyncModels
    BY <1>1, <2>1, Found
  <2>2. CASE Claim \/ Connect \/ NoIncrementalData
    BY <1>1, <2>2, Went DEF Claim, Connect, NoIncrementalData, Places
  <2>3. CASE ClaimFails \/ SyncFails
    BY <1>1, <2>3, FailedTo DEF ClaimFails, SyncFails, Places
  <2>4. CASE CountRows \/ FindIncremental
    BY <2>4, RowsCounted, RowsFound DEF TypeInv
  <2>5. CASE NextKind
    <3>1. CASE Goto("release")
      BY <1>1, <3>1, Went DEF Places
    <3>2. CASE ~Goto("release")
      BY <1>1, <2>5, <3>2, KindBegun DEF Begun
    <3> QED
      BY <3>1, <3>2
  <2>6. CASE Release \/ ReleaseFails
    <3>1. worker' = IdleWorker
      BY <2>6 DEF Release, ReleaseFails
    <3> QED
      BY <3>1, IdleWorkerType DEF IdleWorker
  <2> QED
    BY <2>1, <2>2, <2>3, <2>4, <2>5, <2>6 DEF ProcessStep
<1>3. faults' \in 0 .. MaxFaults
  <2>1. Fault \/ UNCHANGED faults
    BY DEF ProcessStep, FindSyncModels, Claim, ClaimFails, Connect, CountRows, FindIncremental,
           NoIncrementalData, SyncFails, NextKind, Release, ReleaseFails, FailTo
  <2> QED
    BY <1>1, <2>1, FaultType
<1>4. sync' \in [Kinds -> SyncModel]
  <2>1. UNCHANGED sync \/ Update(Kinds, "claimed") \/ Update(Kinds, "free")
    BY DEF ProcessStep, FindSyncModels, Claim, ClaimFails, Connect, CountRows, FindIncremental,
           NoIncrementalData, SyncFails, NextKind, Release, ReleaseFails
  <2> QED
    BY <1>1, <2>1, UpdateType DEF SyncModel
<1> QED
  BY <1>2, <1>3, <1>4, ProcessFrame DEF TypeInv, TypeOK, PageIsWanted, Elsewhere

LEMMA FetchType ==
  ASSUME TypeInv, \/ FetchMaster \/ FetchMasterFails \/ ClaimSalesLines \/ SelectPage
                  \/ SelectNothing \/ EndPages \/ UpdateSyncModel
  PROVE  TypeInv'
<1>1. worker \in Worker /\ faults \in 0 .. MaxFaults /\ sync \in [Kinds -> SyncModel]
  BY DEF TypeInv, TypeOK
<1>2. CASE FetchMaster
  <2>1. 1 \in Version
    BY MsdAssumption DEF Version
  <2> QED
    BY <1>1, <1>2, <2>1, Went DEF FetchMaster, TypeInv, TypeOK, PageIsWanted, Places
<1>3. CASE FetchMasterFails
  BY <1>1, <1>3, FailedTo, FaultType
     DEF FetchMasterFails, FailTo, TypeInv, TypeOK, PageIsWanted, Places
<1>4. CASE ClaimSalesLines
  BY <1>1, <1>4, Went, UpdateType
     DEF ClaimSalesLines, TypeInv, TypeOK, PageIsWanted, Places, SyncModel
<1>5. CASE SelectPage
  <2>1. overtaken' \subseteq Rows
    BY <1>5, PageSelected DEF TypeInv, TypeOK
  <2> QED
    BY <1>5, <2>1, PageSelected DEF SelectPage, TypeInv, TypeOK, PageIsWanted
<1>6. CASE SelectNothing
  <2>1. worker' \in Worker /\ worker'.pc \notin {"save", "transfer"}
    BY <1>1, <1>6, PageEnded, KindEnded DEF SelectNothing
  <2> QED
    BY <1>6, <2>1 DEF SelectNothing, TypeInv, TypeOK, PageIsWanted
<1>7. CASE EndPages
  BY <1>1, <1>7, Went DEF EndPages, TypeInv, TypeOK, PageIsWanted, Places
<1>8. CASE UpdateSyncModel
  BY <1>1, <1>8, KindEnded, UpdateType
     DEF UpdateSyncModel, TypeInv, TypeOK, PageIsWanted, SyncModel
<1> QED
  BY <1>2, <1>3, <1>4, <1>5, <1>6, <1>7, <1>8

LEMMA BatchType ==
  ASSUME TypeInv, SaveBatch \/ MarkTransferred \/ FetchFails \/ Crash
  PROVE  TypeInv'
<1>1. worker \in Worker /\ faults \in 0 .. MaxFaults
  BY DEF TypeInv, TypeOK
<1>2. CASE SaveBatch
  <2>1. worker' \in Worker /\ worker'.pages > 0
    BY <1>1, <1>2, Went DEF SaveBatch, Places, TypeInv, PageIsWanted
  <2> QED
    BY <1>2, <2>1, RowsSaved DEF SaveBatch, TypeInv, TypeOK, PageIsWanted
<1>3. CASE MarkTransferred
  BY <1>1, <1>3, RowsMarked, PageEnded DEF MarkTransferred, TypeInv, TypeOK, PageIsWanted
<1>4. CASE FetchFails
  BY <1>1, <1>4, FetchFailed, SomeLeft, FaultType DEF FetchFails, TypeInv, TypeOK, PageIsWanted
<1>5. CASE Crash
  BY <1>1, <1>5, IdleWorkerType, SomeLeft, FaultType
     DEF Crash, TypeInv, TypeOK, PageIsWanted, IdleWorker
<1> QED
  BY <1>2, <1>3, <1>4, <1>5

LEMMA TypeNext == ASSUME TypeInv, [Next]_vars PROVE TypeInv'
<1>1. CASE UNCHANGED vars
  BY <1>1 DEF vars, TypeInv, TypeOK, PageIsWanted
<1>2. CASE Next
  BY <1>2, EnvironmentType, ProcessType, FetchType, BatchType DEF Next, WorkerStep, ProcessStep
<1> QED
  BY <1>1, <1>2

\* The sync keeps its types: in particular the worker never counts its pages below zero,
\* and saves and marks only rows of the staging tables.
THEOREM SyncTypeCorrect == Spec => []TypeOK
<1>1. TypeInv => TypeOK
  BY DEF TypeInv
<1> QED
  BY <1>1, TypeInit, TypeNext, PTL DEF Spec

-----------------------------------------------------------------------------
(* Pages, copies and marks *)

SyncInv == TypeInv /\ ReplicaInv

LEMMA Versions ==
  ASSUME TypeOK
  PROVE  /\ \A r \in Rows : /\ table[r].version \in Nat /\ table[r].pending \in BOOLEAN
                            /\ db[r] \in Nat
         /\ db[Master] \in Nat
         /\ \A r \in DOMAIN worker.page : r \in Rows /\ worker.page[r] \in Nat
<1>1. worker.page \in Batches
  BY WorkerType DEF TypeOK
<1> QED
  BY <1>1, PageType DEF TypeOK, StagingRow, Version

LEMMA NoneHeld ==
  ASSUME SyncInv, DOMAIN worker'.page = {}, UNCHANGED <<table, known>>,
         \A r \in Rows : db'[r] = db[r], db'[Master] <= 1
  PROVE  ReplicaInv'
<1>1. Products \subseteq Rows
  BY DEF Rows
<1> QED
  BY <1>1 DEF SyncInv, ReplicaInv, PageIsHeld, PageIsPending, PageIsNewer, PageIsSaved,
         CopyIsNotAhead, CopiedIsKnown, MarkedIsThere

LEMMA NothingHeld ==
  ASSUME SyncInv, worker.pc \notin {"save", "transfer"}
  PROVE  DOMAIN worker.page = {}
BY DEF SyncInv, ReplicaInv, PageIsHeld

LEMMA ExportedKeeps == ASSUME SyncInv, NEW r \in Rows, Export(r) PROVE ReplicaInv'
<1>0. /\ UNCHANGED <<db, known>> /\ skipped' = skipped \ {r}
      /\ worker'.pc = worker.pc /\ worker'.page = worker.page /\ worker'.kind = worker.kind
      /\ r \in DOMAIN worker.page => r \in overtaken'
      /\ \A q \in Rows \ {r} : q \in overtaken' <=> q \in overtaken
      /\ table'[r].version = table[r].version + 1 /\ table'[r].pending
      /\ \A q \in Rows \ {r} : table'[q] = table[q]
  BY Exported DEF Export, SyncInv, TypeInv, SameKind
<1>1. Products \subseteq Rows /\ Sales \subseteq Rows
  BY DEF Rows
<1>2. TypeOK
  BY DEF SyncInv, TypeInv
<1>3. PageIsHeld' /\ PageIsNewer'
  BY <1>0 DEF SyncInv, ReplicaInv, PageIsHeld, PageIsNewer
<1>4. PageIsPending'
  <2>1. SUFFICES ASSUME NEW q \in DOMAIN worker.page
                 PROVE  /\ table'[q].pending /\ 0 < worker.page[q]
                        /\ worker.page[q] <= table'[q].version
                        /\ worker.page[q] = table'[q].version \/ q \in overtaken'
    BY <1>0 DEF PageIsPending
  <2>2. /\ table[q].pending /\ 0 < worker.page[q] /\ worker.page[q] <= table[q].version
        /\ worker.page[q] = table[q].version \/ q \in overtaken
        /\ q \in Rows /\ worker.page[q] \in Nat /\ table[q].version \in Nat
    BY <1>2, Versions DEF SyncInv, ReplicaInv, PageIsPending
  <2> QED
    BY <1>0, <2>2
<1>5. PageIsSaved'
  BY <1>0, <1>2, Versions DEF SyncInv, ReplicaInv, PageIsSaved
<1>6. CopyIsNotAhead'
  BY <1>0, <1>2, Versions DEF SyncInv, ReplicaInv, CopyIsNotAhead
<1>7. CopiedIsKnown'
  BY <1>0 DEF SyncInv, ReplicaInv, CopiedIsKnown
<1>8. MarkedIsThere'
  BY <1>0, <1>2, Versions DEF SyncInv, ReplicaInv, MarkedIsThere
<1> QED
  BY <1>3, <1>4, <1>5, <1>6, <1>7, <1>8 DEF ReplicaInv

LEMMA SelectedKeeps == ASSUME SyncInv, SelectPage PROVE ReplicaInv'
<1>0. TypeOK
  BY DEF SyncInv, TypeInv
<1>1. PICK S \in SUBSET Selectable(worker.kind) :
        /\ worker'.page = [r \in S |-> table[r].version] /\ DOMAIN worker'.page = S
  BY <1>0, PageSelected
<1>2. worker'.pc = "save" /\ worker'.kind = worker.kind /\ UNCHANGED <<table, db, known>>
  BY <1>0, PageSelected DEF SelectPage, SameKind
<1>3. S \subseteq Rows /\ \A r \in S : r \in Of(worker.kind) /\ table[r].pending
  BY <1>0, OfRows, WorkerType DEF Selectable, Pending, TypeOK
<1>4. PageIsHeld'
  BY <1>1, <1>2, <1>3 DEF PageIsHeld
<1>5. PageIsPending' /\ PageIsNewer' /\ PageIsSaved'
  BY <1>0, <1>1, <1>2, <1>3, Versions
     DEF SyncInv, ReplicaInv, PageIsPending, PageIsNewer, PageIsSaved, CopyIsNotAhead,
         MarkedIsThere
<1>6. CopyIsNotAhead' /\ CopiedIsKnown' /\ MarkedIsThere'
  BY <1>2 DEF SyncInv, ReplicaInv, CopyIsNotAhead, CopiedIsKnown, MarkedIsThere
<1> QED
  BY <1>4, <1>5, <1>6 DEF ReplicaInv

\* A row is saved as it was selected, or left out.
LEMMA SavedAs ==
  ASSUME SyncInv, worker.pc = "save", NEW S \in SUBSET DOMAIN worker.page, SaveRows(S)
  PROVE  /\ \A r \in Rows \ S : db'[r] = db[r] /\ (r \in skipped' <=> r \in skipped)
         /\ \A r \in S : /\ Attached(r) => db'[r] = worker.page[r]
                         /\ ~Attached(r) => db'[r] = db[r] /\ r \in skipped'
                         /\ db[r] <= db'[r] /\ db'[r] <= worker.page[r]
                         /\ r \in Products => r \in known'
         /\ db'[Master] = db[Master] /\ known \subseteq known'
<1>0. TypeOK /\ DOMAIN db = Rows \union {Master} /\ S \subseteq Rows /\ Master \notin S
  BY Versions, MasterIsNoRow DEF SyncInv, TypeInv, TypeOK
<1>1. db' = [r \in Rows \union {Master} |-> IF r \in S /\ Attached(r) THEN worker.page[r]
                                                                     ELSE db[r]]
  BY <1>0 DEF SaveRows
<1>2. \A r \in S : db[r] <= worker.page[r] /\ db[r] \in Nat /\ worker.page[r] \in Nat
  BY <1>0, Versions DEF SyncInv, ReplicaInv, PageIsNewer
<1>3. known \subseteq known' /\ \A r \in S : r \in Products => r \in known'
  BY DEF SaveRows
<1>4. skipped' = (skipped \ S) \union {r \in S : ~Attached(r)}
  BY DEF SaveRows
<1>5. \A r \in Rows \ S : db'[r] = db[r] /\ (r \in skipped' <=> r \in skipped)
  BY <1>1, <1>4
<1>6. \A r \in S : /\ Attached(r) => db'[r] = worker.page[r]
                   /\ ~Attached(r) => db'[r] = db[r] /\ r \in skipped'
  BY <1>0, <1>1, <1>4
<1>7. \A r \in S : db[r] <= db'[r] /\ db'[r] <= worker.page[r]
  BY <1>2, <1>6
<1> QED
  BY <1>0, <1>1, <1>3, <1>5, <1>6, <1>7

LEMMA SavedKeeps ==
  ASSUME SyncInv, worker.pc = "save", NEW S \in SUBSET DOMAIN worker.page, SaveRows(S),
         UNCHANGED table
  PROVE  CopyIsNotAhead' /\ CopiedIsKnown' /\ MarkedIsThere'
<1>0. TypeOK /\ S \subseteq Rows /\ Products \subseteq Rows /\ Sales \subseteq Rows
  BY Versions DEF SyncInv, TypeInv, Rows
<1>1. \A r \in Rows : db[r] <= db'[r] /\ db'[r] \in Nat /\ db[r] \in Nat
  BY <1>0, SavedAs, Versions, RowsSaved DEF Version
<1>2. CopyIsNotAhead'
  <2>1. \A r \in S : /\ db'[r] <= worker.page[r] /\ worker.page[r] <= table[r].version
                     /\ worker.page[r] \in Nat /\ table[r].version \in Nat
    BY <1>0, SavedAs, Versions DEF SyncInv, ReplicaInv, PageIsPending
  <2>2. \A r \in Rows : db'[r] <= table'[r].version
    BY <1>0, <1>1, <2>1, SavedAs DEF SyncInv, ReplicaInv, CopyIsNotAhead
  <2>3. db'[Master] <= 1
    BY SavedAs DEF SyncInv, ReplicaInv, CopyIsNotAhead
  <2> QED
    BY <2>2, <2>3 DEF CopyIsNotAhead
<1>3. CopiedIsKnown'
  BY <1>0, SavedAs DEF SyncInv, ReplicaInv, CopiedIsKnown
<1>4. MarkedIsThere'
  <2>1. \A r \in Rows : r \in known => r \in known'
    BY SavedAs
  <2> QED
    BY <1>1, <2>1 DEF SyncInv, ReplicaInv, MarkedIsThere
<1> QED
  BY <1>2, <1>3, <1>4

LEMMA BatchSavedKeeps == ASSUME SyncInv, SaveBatch PROVE ReplicaInv'
<1>0. TypeOK /\ SaveRows(DOMAIN worker.page) /\ worker.pc = "save"
      /\ UNCHANGED <<table, overtaken>>
  BY DEF SyncInv, TypeInv, SaveBatch
<1>1. worker'.pc = "transfer" /\ worker'.page = worker.page /\ worker'.kind = worker.kind
  BY <1>0, Went DEF SaveBatch, TypeOK, Places, SameKind
<1>2. PageIsHeld' /\ PageIsPending' /\ PageIsNewer'
  BY <1>0, <1>1 DEF SyncInv, ReplicaInv, PageIsHeld, PageIsPending, PageIsNewer
<1>3. PageIsSaved'
  <2>1. SUFFICES ASSUME NEW r \in DOMAIN worker.page
                 PROVE  /\ db'[r] = worker.page[r] \/ r \in skipped'
                        /\ r \in Products => r \in known'
                        /\ r \in Sales => db'[r] > 0
    BY <1>1 DEF PageIsSaved
  <2>2. r \in Sales => Attached(r)
    BY MsdAssumption, SixKinds DEF Attached
  <2>3. worker.page[r] > 0
    BY DEF SyncInv, ReplicaInv, PageIsPending
  <2> QED
    BY <1>0, <2>2, <2>3, SavedAs
<1> QED
  BY <1>0, <1>2, <1>3, SavedKeeps DEF ReplicaInv

LEMMA MarkedKeeps ==
  ASSUME SyncInv, worker.pc = "transfer", Mark(DOMAIN worker.page), UNCHANGED <<db, known>>
  PROVE  CopyIsNotAhead' /\ CopiedIsKnown' /\ MarkedIsThere'
<1>1. TypeOK
  BY DEF SyncInv, TypeInv
<1>2. \A r \in Rows : /\ table'[r].version = table[r].version
                      /\ table'[r].pending = (table[r].pending /\ r \notin DOMAIN worker.page)
  BY <1>1, RowsMarked
<1>3. CopyIsNotAhead' /\ CopiedIsKnown'
  BY <1>2 DEF SyncInv, ReplicaInv, CopyIsNotAhead, CopiedIsKnown
<1>4. MarkedIsThere'
  BY <1>2 DEF SyncInv, ReplicaInv, MarkedIsThere, PageIsSaved
<1> QED
  BY <1>3, <1>4

LEMMA SomeLeftKeeps ==
  ASSUME SyncInv, LeavesSome
  PROVE  CopyIsNotAhead' /\ CopiedIsKnown' /\ MarkedIsThere'
<1>1. ASSUME NEW S \in SUBSET DOMAIN worker.page, worker.pc = "save", UNCHANGED table, SaveRows(S)
      PROVE  CopyIsNotAhead' /\ CopiedIsKnown' /\ MarkedIsThere'
  BY <1>1, SavedKeeps
<1>2. CASE worker.pc = "transfer" /\ Mark(DOMAIN worker.page) /\ UNCHANGED <<db, known>>
  BY <1>2, MarkedKeeps
<1>3. CASE UNCHANGED <<table, db, known>>
  BY <1>3 DEF SyncInv, ReplicaInv, CopyIsNotAhead, CopiedIsKnown, MarkedIsThere
<1> QED
  BY <1>1, <1>2, <1>3 DEF LeavesSome

LEMMA PageDropped ==
  ASSUME DOMAIN worker'.page = {}, CopyIsNotAhead', CopiedIsKnown', MarkedIsThere'
  PROVE  ReplicaInv'
BY DEF ReplicaInv, PageIsHeld, PageIsPending, PageIsNewer, PageIsSaved

\* After the steps that save and mark nothing the worker holds no page.
Bystep == \/ ProcessStep \/ FetchMasterFails \/ ClaimSalesLines \/ SelectNothing \/ EndPages
          \/ UpdateSyncModel

LEMMA BystepHolds ==
  ASSUME SyncInv, Bystep
  PROVE  DOMAIN worker'.page = {} /\ UNCHANGED Elsewhere
<1>1. worker \in Worker /\ TypeOK
  BY DEF SyncInv, TypeInv, TypeOK
<1>2. CASE ProcessStep
  <2>1. CASE FindSyncModels
    BY <1>1, <2>1, Found, NoPageType, ProcessFrame DEF ProcessStep
  <2>2. CASE Claim \/ Connect \/ NoIncrementalData
    BY <1>1, <2>2, Went, NothingHeld, ProcessFrame
       DEF Claim, Connect, NoIncrementalData, Places, ProcessStep
  <2>3. CASE ClaimFails \/ SyncFails
    BY <1>1, <2>3, FailedTo, NothingHeld, ProcessFrame DEF ClaimFails, SyncFails, Places, ProcessStep
  <2>4. CASE CountRows \/ FindIncremental
    BY <1>1, <2>4, RowsCounted, RowsFound, NothingHeld, ProcessFrame
       DEF CountRows, FindIncremental, ProcessStep
  <2>5. CASE NextKind
    <3>1. DOMAIN worker.page = {}
      BY <2>5, NothingHeld DEF NextKind
    <3>2. worker'.page = worker.page
      BY <1>1, <2>5, KindBegun, Went DEF Begun, Places
    <3> QED
      BY <2>5, <3>1, <3>2, ProcessFrame DEF ProcessStep
  <2>6. CASE Release \/ ReleaseFails
    <3>1. worker'.page = NoPage
      BY <2>6 DEF Release, ReleaseFails, IdleWorker
    <3> QED
      BY <2>6, <3>1, NoPageType, ProcessFrame DEF ProcessStep
  <2> QED
    BY <1>2, <2>1, <2>2, <2>3, <2>4, <2>5, <2>6 DEF ProcessStep
<1>3. CASE FetchMasterFails
  BY <1>1, <1>3, FailedTo, NothingHeld DEF FetchMasterFails, Places, Elsewhere
<1>4. CASE ClaimSalesLines \/ EndPages
  BY <1>1, <1>4, Went, NothingHeld DEF ClaimSalesLines, EndPages, Places, Elsewhere
<1>5. CASE SelectNothing
  BY <1>1, <1>5, PageEnded, KindEnded, NoPageType DEF SelectNothing, Elsewhere
<1>6. CASE UpdateSyncModel
  BY <1>1, <1>6, KindEnded, NoPageType DEF UpdateSyncModel, Elsewhere
<1> QED
  BY <1>2, <1>3, <1>4, <1>5, <1>6 DEF Bystep

LEMMA SyncNext == ASSUME SyncInv, [Next]_vars PROVE SyncInv'
<1>0. TypeInv' /\ worker \in Worker
  BY TypeNext DEF SyncInv, TypeInv, TypeOK
<1>1. CASE UNCHANGED vars \/ CreateSyncModels \/ DestroySyncModels
  <2>1. UNCHANGED <<Elsewhere, worker>>
    BY <1>1 DEF vars, CreateSyncModels, DestroySyncModels, Elsewhere
  <2> QED
    BY <1>0, <2>1 DEF SyncInv, ReplicaInv, PageIsHeld, PageIsPending, PageIsNewer, PageIsSaved,
                     CopyIsNotAhead, CopiedIsKnown, MarkedIsThere, Elsewhere
<1>2. ASSUME NEW r \in Rows, Export(r) PROVE SyncInv'
  BY <1>0, <1>2, ExportedKeeps DEF SyncInv
<1>3. CASE Bystep
  <2>1. CopyIsNotAhead' /\ CopiedIsKnown' /\ MarkedIsThere'
    BY <1>3, BystepHolds
       DEF SyncInv, ReplicaInv, CopyIsNotAhead, CopiedIsKnown, MarkedIsThere, Elsewhere
  <2> QED
    BY <1>0, <1>3, <2>1, BystepHolds, PageDropped DEF SyncInv
<1>4. CASE FetchMaster
  <2>1. DOMAIN worker'.page = {}
    BY <1>0, <1>4, Went, NothingHeld DEF FetchMaster, Places
  <2>2. db'[Master] <= 1 /\ \A r \in Rows : db'[r] = db[r]
    BY <1>4, MasterIsNoRow DEF FetchMaster, SyncInv, TypeInv, TypeOK
  <2> QED
    BY <1>0, <1>4, <2>1, <2>2, NoneHeld DEF FetchMaster, SyncInv
<1>5. CASE SelectPage
  BY <1>0, <1>5, SelectedKeeps DEF SyncInv
<1>6. CASE SaveBatch
  BY <1>0, <1>6, BatchSavedKeeps DEF SyncInv
<1>7. CASE MarkTransferred
  <2>1. DOMAIN worker'.page = {}
    BY <1>0, <1>7, PageEnded, NoPageType DEF MarkTransferred, SyncInv, TypeInv, PageIsWanted
  <2> QED
    BY <1>0, <1>7, <2>1, MarkedKeeps, PageDropped DEF MarkTransferred, SyncInv
<1>8. CASE FetchFails \/ Crash
  <2>1. DOMAIN worker'.page = {}
    BY <1>0, <1>8, FetchFailed, NoPageType DEF Crash, IdleWorker
  <2> QED
    BY <1>0, <1>8, <2>1, SomeLeftKeeps, PageDropped DEF FetchFails, Crash, SyncInv
<1> QED
  BY <1>1, <1>2, <1>3, <1>4, <1>5, <1>6, <1>7, <1>8
     DEF Next, Environment, WorkerStep, Bystep, ProcessStep

-----------------------------------------------------------------------------
(* The refinement *)

Source == [r \in Rows \union {Master} |-> IF r = Master THEN 1 ELSE table[r].version]
Marked == {r \in Rows : ~table[r].pending}
Excused == skipped \union overtaken

LEMMA Stutters ==
  ASSUME UNCHANGED <<table, db, skipped, overtaken>> PROVE UNCHANGED Promise!vars
BY DEF Promise!vars

LEMMA Changes == ASSUME SyncInv, NEW r \in Rows, Export(r) PROVE Promise!Change(r)
<1>0. TypeOK /\ r # Master
  BY MasterIsNoRow DEF SyncInv, TypeInv
<1>1. /\ table'[r].version = table[r].version + 1 /\ table'[r].pending
      /\ \A q \in Rows \ {r} : table'[q] = table[q]
      /\ table'[r].version \in Version /\ table[r].version \in Nat
  BY <1>0, Exported, Versions DEF StagingRow
<1>2. table[r].version + 1 > Source[r] /\ Source' = [Source EXCEPT ![r] = table[r].version + 1]
  <2>1. Source[r] = table[r].version
    BY <1>0 DEF Source
  <2>2. \A q \in (Rows \union {Master}) \ {r} :
          (IF q = Master THEN 1 ELSE table'[q].version) = Source[q]
    BY <1>1 DEF Source
  <2>3. (IF r = Master THEN 1 ELSE table'[r].version) = table[r].version + 1
    BY <1>0, <1>1
  <2>4. Source' = [q \in Rows \union {Master} |-> IF q = r THEN table[r].version + 1
                                                          ELSE Source[q]]
    BY <2>2, <2>3 DEF Source
  <2>5. DOMAIN Source = Rows \union {Master}
    BY DEF Source
  <2>6. Source' = [Source EXCEPT ![r] = table[r].version + 1]
    BY <2>4, <2>5
  <2>7. table[r].version + 1 > table[r].version
    BY <1>1
  <2> QED
    BY <2>1, <2>6, <2>7
<1>3. Marked' = Marked \ {r}
  BY <1>1 DEF Marked
<1>4. Excused' \in {Excused \ {r}, Excused \union {r}}
  BY DEF Export, Excused
<1>5. table[r].version + 1 \in Version /\ UNCHANGED db
  BY <1>1 DEF Export
<1> QED
  BY <1>2, <1>3, <1>4, <1>5 DEF Promise!Change, Source, Marked, Excused

\* A save, of all rows of a page or of some, is a copy.
LEMMA Copies ==
  ASSUME SyncInv, worker.pc = "save", NEW S \in SUBSET DOMAIN worker.page, SaveRows(S),
         UNCHANGED <<table, overtaken>>
  PROVE  Promise!Copy
<1>0. TypeOK /\ S \subseteq Rows
  BY Versions DEF SyncInv, TypeInv
<1>1. db' \in [Rows \union {Master} -> Version]
  BY <1>0, RowsSaved
<1>2. ASSUME NEW r \in Rows \union {Master}, db'[r] # db[r]
      PROVE  db[r] < db'[r] /\ db'[r] <= Source[r] /\ r \notin Marked
  <2>1. r \in S
    BY <1>2, SavedAs
  <2>2. /\ db[r] <= db'[r] /\ db'[r] <= worker.page[r]
        /\ worker.page[r] <= table[r].version /\ table[r].pending
    BY <2>1, SavedAs DEF SyncInv, ReplicaInv, PageIsPending
  <2>3. /\ db[r] \in Nat /\ worker.page[r] \in Nat /\ table[r].version \in Nat
        /\ db'[r] \in Nat
    BY <1>0, <1>1, <2>1, Versions DEF Version
  <2>4. r # Master /\ r \in Rows
    BY <1>0, <2>1, MasterIsNoRow
  <2>5. Source[r] = table[r].version
    BY <2>4 DEF Source
  <2> QED
    BY <1>2, <2>2, <2>3, <2>5 DEF Marked
<1>3. Excused \intersect Marked \subseteq Excused'
  <2>1. \A r \in S : table[r].pending
    BY DEF SyncInv, ReplicaInv, PageIsPending
  <2> QED
    BY <1>0, <2>1, SavedAs DEF Excused, Marked
<1>4. ASSUME NEW r \in Excused' \ Excused
      PROVE  r \in DOMAIN Ref /\ db[Ref[r]] = 0
  <2>1. r \in S /\ ~Attached(r)
    BY <1>4 DEF Excused, SaveRows
  <2>2. r \in Categories \union Inventory \union SalesLines
    BY <2>1 DEF Attached
  <2>3. r \in DOMAIN Ref
    BY <2>2, MsdAssumption
  <2>4. CASE r \in Inventory
    <3>1. Ref[r] \in Products /\ Ref[r] \notin known
      BY <2>1, <2>3, <2>4, MsdAssumption, SixKinds DEF Attached
    <3>2. db[Ref[r]] \in Nat
      BY <1>0, <3>1, Versions DEF Rows
    <3> QED
      BY <2>3, <3>1, <3>2 DEF SyncInv, ReplicaInv, CopiedIsKnown
  <2>5. CASE r \in SalesLines
    <3>1. Ref[r] \in Sales /\ ~(db[Ref[r]] > 0)
      BY <2>1, <2>3, <2>5, MsdAssumption, SixKinds DEF Attached
    <3>2. db[Ref[r]] \in Nat
      BY <1>0, <3>1, Versions DEF Rows
    <3> QED
      BY <2>3, <3>1, <3>2
  <2>6. CASE r \in Categories
    <3>1. Ref[r] = Master /\ ~(db[Master] > 0)
      BY <2>1, <2>3, <2>6, MsdAssumption, SixKinds DEF Attached
    <3>2. db[Master] \in Nat
      BY <1>0, Versions
    <3> QED
      BY <2>3, <3>1, <3>2
  <2> QED
    BY <2>2, <2>4, <2>5, <2>6
<1> QED
  BY <1>1, <1>2, <1>3, <1>4 DEF Promise!Copy, Source, Marked, Excused

LEMMA Selects == ASSUME SyncInv, SelectPage PROVE Promise!Copy
<1>0. TypeOK
  BY DEF SyncInv, TypeInv
<1>1. PICK S \in SUBSET Selectable(worker.kind) : overtaken' = overtaken \ S
  BY <1>0, PageSelected
<1>2. \A r \in S : table[r].pending
  BY DEF Selectable, Pending
<1>3. UNCHANGED <<table, db, skipped>> /\ db \in [Rows \union {Master} -> Version]
  BY <1>0 DEF SelectPage, TypeOK
<1> QED
  BY <1>1, <1>2, <1>3 DEF Promise!Copy

LEMMA CopiesMaster == ASSUME SyncInv, FetchMaster PROVE Promise!Copy
<1>0. TypeOK /\ Master \notin Rows /\ 1 \in Version
  BY MasterIsNoRow, MsdAssumption DEF SyncInv, TypeInv, Version
<1>1. db' = [db EXCEPT ![Master] = 1] /\ db \in [Rows \union {Master} -> Version]
  BY <1>0 DEF FetchMaster, TypeOK
<1>2. db' \in [Rows \union {Master} -> Version]
  BY <1>0, <1>1
<1>3. ASSUME NEW r \in Rows \union {Master}, db'[r] # db[r]
      PROVE  db[r] < db'[r] /\ db'[r] <= Source[r] /\ r \notin Marked
  <2>1. r = Master /\ db'[Master] = 1 /\ Source[Master] = 1
    BY <1>1, <1>3 DEF Source
  <2>2. db[Master] \in Nat /\ db[Master] <= 1
    BY <1>0, Versions DEF SyncInv, ReplicaInv, CopyIsNotAhead
  <2> QED
    BY <1>0, <1>3, <2>1, <2>2 DEF Marked
<1> QED
  BY <1>2, <1>3 DEF FetchMaster, Promise!Copy, Source, Marked

\* The mark of a page settles its rows.
LEMMA Settles ==
  ASSUME SyncInv, worker.pc = "transfer", Mark(DOMAIN worker.page),
         UNCHANGED <<db, skipped, overtaken>>
  PROVE  Promise!Settle
<1>0. TypeOK
  BY DEF SyncInv, TypeInv
<1>1. \A r \in Rows : /\ table'[r].version = table[r].version
                      /\ table'[r].pending = (table[r].pending /\ r \notin DOMAIN worker.page)
  BY <1>0, RowsMarked
<1>2. Marked \subseteq Marked' /\ Source' = Source
  BY <1>1 DEF Marked, Source
<1>3. ASSUME NEW r \in Marked' \ Marked
      PROVE  db[r] = Source[r] \/ r \in Excused
  <2>1. r \in DOMAIN worker.page /\ r \in Rows /\ r # Master
    BY <1>1, <1>3, MasterIsNoRow DEF Marked
  <2>2. db[r] = worker.page[r] \/ r \in Excused
    BY <2>1 DEF SyncInv, ReplicaInv, PageIsSaved, Excused
  <2>3. worker.page[r] = table[r].version \/ r \in Excused
    BY <2>1 DEF SyncInv, ReplicaInv, PageIsPending, Excused
  <2>4. Source[r] = table[r].version
    BY <2>1 DEF Source
  <2> QED
    BY <2>2, <2>3, <2>4
<1> QED
  BY <1>2, <1>3 DEF Promise!Settle, Source, Marked, Excused

LEMMA FailureCopies ==
  ASSUME SyncInv, FetchFails \/ Crash
  PROVE  Promise!Next \/ UNCHANGED Promise!vars
<1>0. LeavesSome /\ UNCHANGED overtaken
  BY DEF FetchFails, Crash
<1>1. ASSUME NEW S \in SUBSET DOMAIN worker.page, worker.pc = "save", UNCHANGED table,
             SaveRows(S)
      PROVE  Promise!Next
  BY <1>0, <1>1, Copies DEF Promise!Next
<1>2. CASE worker.pc = "transfer" /\ Mark(DOMAIN worker.page) /\ UNCHANGED <<db, known, skipped>>
  BY <1>0, <1>2, Settles DEF Promise!Next
<1>3. CASE UNCHANGED <<table, db, known, skipped>>
  BY <1>0, <1>3, Stutters
<1> QED
  BY <1>0, <1>1, <1>2, <1>3 DEF LeavesSome

LEMMA StepsOfReplica == ASSUME SyncInv, [Next]_vars PROVE [Promise!Next]_(Promise!vars)
<1>1. CASE UNCHANGED vars \/ CreateSyncModels \/ DestroySyncModels
  BY <1>1, Stutters DEF vars, CreateSyncModels, DestroySyncModels
<1>2. ASSUME NEW r \in Rows, Export(r) PROVE Promise!Next
  BY <1>2, Changes DEF Promise!Next
<1>3. CASE Bystep
  <2>1. UNCHANGED overtaken
    BY <1>3 DEF Bystep, ProcessStep, FindSyncModels, Claim, ClaimFails, Connect, CountRows,
           FindIncremental, NoIncrementalData, SyncFails, NextKind, Release, ReleaseFails,
           FetchMasterFails, ClaimSalesLines, SelectNothing, EndPages, UpdateSyncModel
  <2> QED
    BY <1>3, <2>1, BystepHolds, Stutters DEF Elsewhere
<1>4. CASE FetchMaster \/ SelectPage
  BY <1>4, CopiesMaster, Selects DEF Promise!Next
<1>5. CASE SaveBatch
  BY <1>5, Copies DEF SaveBatch, Promise!Next
<1>6. CASE MarkTransferred
  BY <1>6, Settles DEF MarkTransferred, Promise!Next
<1>7. CASE FetchFails \/ Crash
  BY <1>7, FailureCopies
<1> QED
  BY <1>1, <1>2, <1>3, <1>4, <1>5, <1>6, <1>7
     DEF Next, Environment, WorkerStep, Bystep, ProcessStep

LEMMA SyncInit == Init => SyncInv /\ Promise!Init
<1> SUFFICES ASSUME Init PROVE SyncInv /\ Promise!Init
  OBVIOUS
<1>1. /\ \A r \in Rows : table[r].version = 0 /\ ~table[r].pending /\ db[r] = 0
      /\ db[Master] = 0 /\ DOMAIN worker.page = {} /\ skipped = {} /\ overtaken = {}
  BY NoPageType DEF Init, IdleWorker
<1>2. Products \subseteq Rows
  BY DEF Rows
<1>3. CopyIsNotAhead /\ CopiedIsKnown /\ MarkedIsThere
  BY <1>1, <1>2 DEF CopyIsNotAhead, CopiedIsKnown, MarkedIsThere
<1>4. ReplicaInv
  BY <1>1, <1>3 DEF ReplicaInv, PageIsHeld, PageIsPending, PageIsNewer, PageIsSaved
<1>5. Source \in [Rows \union {Master} -> Version]
  BY <1>1, MsdAssumption DEF Source, Version
<1>6. Marked = {r \in Rows \union {Master} : Source[r] = 0}
  BY <1>1, MasterIsNoRow DEF Source, Marked
<1>7. Promise!Init
  BY <1>1, <1>5, <1>6 DEF Promise!Init, Source, Marked, Init
<1> QED
  BY <1>4, <1>7, TypeInit DEF SyncInv

\* The synchronisation with Dynamics implements Replica: the copies in the database never
\* become older and are never ahead of the staging tables, and a row that is marked as
\* transferred was saved as it is there, unless it was exported again meanwhile or was
\* left out because what it refers to is not in the database.  That is so however the
\* exports fall between the selection, the save and the mark of a page, and whichever
\* of them fails.
THEOREM MsdSyncIsAReplica == Spec => ImplementsReplica
<1>1. Init => SyncInv /\ Promise!Init
  BY SyncInit
<1>2. SyncInv /\ [Next]_vars => SyncInv' /\ [Promise!Next]_(Promise!vars)
  BY SyncNext, StepsOfReplica
<1> QED
  BY <1>1, <1>2, PTL DEF Spec, ImplementsReplica, Promise!Spec

-----------------------------------------------------------------------------
(* The order of the kinds *)

\* The pages that are counted hold all rows.
LEMMA PagesHold ==
  ASSUME NEW n \in Nat, NEW m \in Nat \ {0}
  PROVE  n <= ((n + m - 1) \div m) * m
<1> DEFINE q == (n + m - 1) \div m
           a == n + m - 1
<1>1. a \in Nat
  OBVIOUS
<1>2. q \in Nat /\ m * q <= a /\ a < m * (q + 1)
  BY <1>1
<1>3. n <= m * q
  BY <1>1, <1>2
<1>4. m * q = q * m
  BY <1>2
<1> QED
  BY <1>3, <1>4

LEMMA OnePageLess ==
  ASSUME NEW n \in Nat, NEW m \in Nat \ {0}, NEW k \in Nat, n <= k * m, k > 0
  PROVE  n - m <= (k - 1) * m
OBVIOUS

\* The steps after which no kind is being fetched, or still the same.
Fetchless == worker'.pc \in {"idle", "claim", "connect", "count", "none", "release"}

LEMMA FetchlessKeeps == ASSUME Fetchless PROVE ReasonInv'
BY DEF Fetchless, ReasonInv, KindOfPlace, QuietIsCounted, Counted, Fetching, OrderIsKept,
       MasterIsFetched

LEMMA LeavesFetching ==
  ASSUME worker \in Worker,
         \/ FindSyncModels \/ Claim \/ ClaimFails \/ Connect \/ NoIncrementalData \/ SyncFails
         \/ Release \/ ReleaseFails \/ Crash
  PROVE  Fetchless
<1>1. CASE FindSyncModels
  BY <1>1, Found DEF Fetchless
<1>2. CASE Claim \/ Connect \/ NoIncrementalData
  BY <1>2, Went DEF Claim, Connect, NoIncrementalData, Places, Fetchless
<1>3. CASE ClaimFails \/ SyncFails
  BY <1>3, FailedTo DEF ClaimFails, SyncFails, Places, Fetchless
<1>4. CASE Release \/ ReleaseFails \/ Crash
  BY <1>4 DEF Release, ReleaseFails, Crash, IdleWorker, Fetchless
<1> QED
  BY <1>1, <1>2, <1>3, <1>4

LEMMA PendingFinite ==
  ASSUME NEW k \in Kinds, NEW S \in SUBSET Of(k)
  PROVE  IsFiniteSet(S) /\ Cardinality(S) \in Nat
BY KindsAreFinite, FS_Subset, FS_CardinalityType

\* A step to another place of the fetch of the same kind, which adds no pending row.
LEMMA OtherCounted ==
  ASSUME NEW k \in Kinds, Counted(k), Fetching \/ worker.pc \in {"claimLines", "master"},
         worker.kind # k, worker'.kind = worker.kind, worker'.rows = worker.rows,
         Pending(k)' \subseteq Pending(k)
  PROVE  Counted(k)'
BY DEF Counted, Fetching

LEMMA ExportedReasons ==
  ASSUME TypeOK, ReasonInv, NEW r \in Rows, Export(r)
  PROVE  ReasonInv'
<1>0. /\ worker'.pc = worker.pc /\ worker'.rows = worker.rows /\ worker'.kind = worker.kind
      /\ worker'.quiet = (worker.quiet /\ ~Busy) /\ UNCHANGED db
  BY Exported DEF Export, SameKind
<1>1. CASE Busy
  BY <1>0, <1>1 DEF ReasonInv, KindOfPlace, QuietIsCounted, OrderIsKept, MasterIsFetched, Fetching
<1>2. CASE ~Busy
  BY <1>0, <1>2, FetchlessKeeps DEF Busy, Fetchless
<1> QED
  BY <1>1, <1>2

LEMMA CountReasons == ASSUME TypeOK, CountRows PROVE ReasonInv'
<1>0. /\ worker'.pc = "counting" /\ worker'.found = worker.found /\ worker'.rows = PendingRows
      /\ UNCHANGED table
  BY RowsCounted DEF CountRows
<1>1. \A k \in worker.found : Pending(k)' \subseteq worker'.rows
  BY <1>0 DEF PendingRows, Pending
<1> QED
  BY <1>0, <1>1
     DEF ReasonInv, KindOfPlace, QuietIsCounted, Counted, Fetching, OrderIsKept, MasterIsFetched

LEMMA FoundReasons == ASSUME TypeOK, ReasonInv, FindIncremental PROVE ReasonInv'
<1>0. /\ worker'.pc \in {"none", "next"} /\ worker'.found = worker.found
      /\ worker.rows \ Dims \subseteq worker'.rows /\ worker'.quiet = worker.quiet
      /\ worker.pc = "counting" /\ UNCHANGED table
  BY RowsFound DEF FindIncremental
<1>1. ASSUME NEW k \in {"products", "sales"} \intersect worker.found, worker.quiet
      PROVE  Pending(k)' \subseteq worker'.rows
  <2>1. Of(k) \intersect Dims = {}
    BY MsdAssumption, SixKinds
  <2>2. Pending(k)' = Pending(k) /\ Pending(k) \subseteq Of(k)
    BY <1>0 DEF Pending
  <2>3. Pending(k) \subseteq worker.rows
    BY <1>0, <1>1 DEF ReasonInv, QuietIsCounted, Counted
  <2> QED
    BY <1>0, <2>1, <2>2, <2>3
<1> QED
  BY <1>0, <1>1
     DEF ReasonInv, KindOfPlace, QuietIsCounted, Counted, Fetching, OrderIsKept, MasterIsFetched

LEMMA BegunReasons == ASSUME SyncInv, ReasonInv, NextKind PROVE ReasonInv'
<1>0. worker \in Worker /\ UNCHANGED <<table, db>> /\ worker.pc = "next"
  BY DEF SyncInv, TypeInv, TypeOK, NextKind
<1>1. CASE Goto("release")
  BY <1>0, <1>1, Went, FetchlessKeeps DEF Places, Fetchless
<1>2. CASE ~Goto("release")
  <2>0. PICK l \in Fetched : Begun(l)
    BY <1>0, <1>2, KindBegun
  <2>1. /\ worker'.kind = l /\ worker'.rows = worker.rows \ Of(l) /\ l \in Kinds
        /\ worker'.found = worker.found /\ worker'.quiet = worker.quiet
        /\ worker'.pages = Pages(worker.rows \intersect Of(l)) /\ worker'.page = worker.page
        /\ Before(l) \intersect Todo = {}
    BY <2>0, FetchedKinds DEF Begun
  <2>2. /\ l = "productCategories" => worker'.pc = "master"
        /\ l = "salesLines" => worker'.pc = "claimLines"
        /\ l \notin {"productCategories", "salesLines"} => worker'.pc = "select"
    BY <2>0 DEF Begun
  <2>3. KindOfPlace'
    BY <2>1, <2>2 DEF KindOfPlace
  <2>4. OrderIsKept'
    <3>1. l = "inventorySums" => "products" \notin Todo
      BY <2>1 DEF Before
    <3>2. l = "salesLines" => "sales" \notin Todo
      BY <2>1 DEF Before, Fetched
    <3>3. "products" \notin Todo => worker.rows \intersect Products = {}
      BY SixKinds DEF Todo, Fetched
    <3>4. "sales" \notin Todo => worker.rows \intersect Sales = {}
      BY SixKinds DEF Todo, Fetched
    <3> QED
      BY <2>1, <3>1, <3>2, <3>3, <3>4 DEF OrderIsKept
  <2>5. MasterIsFetched'
    BY <2>1, <2>2 DEF MasterIsFetched, Fetching
  <2>6. ASSUME NEW k \in {"products", "sales"} \intersect worker.found, worker.quiet
        PROVE  Counted(k)'
    <3>1. k \in Kinds /\ Pending(k) \subseteq worker.rows /\ Pending(k)' = Pending(k)
      BY <1>0, <2>6, SixKinds DEF ReasonInv, QuietIsCounted, Counted, Pending
    <3>2. CASE k # l
      <4>1. Pending(k) \subseteq worker'.rows
        BY <2>1, <3>1, <3>2, KindsAreApart DEF Pending
      <4> QED
        BY <2>1, <3>1, <3>2, <4>1 DEF Counted
    <3>3. CASE k = l
      <4>1. worker'.pc = "select" /\ DOMAIN worker'.page = {} /\ worker'.pages \in Nat
        BY <1>0, <2>1, <2>2, <2>6, <3>3, NothingHeld, PagesType
      <4> DEFINE S == worker.rows \intersect Of(k)
      <4>2. IsFiniteSet(S) /\ Cardinality(S) \in Nat
        BY <3>1, PendingFinite
      <4>3. Cardinality(Pending(k)) \in Nat /\ Cardinality(Pending(k)) <= Cardinality(S)
        <5>1. Pending(k) \subseteq S
          BY <3>1 DEF Pending
        <5> QED
          BY <4>2, <5>1, FS_Subset, FS_CardinalityType
      <4>4. Cardinality(S) <= worker'.pages * PageSize
        BY <2>1, <3>3, <4>2, PagesHold, MsdAssumption DEF Pages
      <4>5. Pending(k) \ DOMAIN worker'.page = Pending(k)
        BY <4>1
      <4>6. worker'.pages * PageSize \in Nat
        BY <4>1, MsdAssumption
      <4>7. Cardinality(Pending(k)) <= worker'.pages * PageSize
        BY <4>2, <4>3, <4>4, <4>6
      <4>8. PagesLeft' = worker'.pages
        BY <4>1 DEF PagesLeft
      <4>9. (Pending(k) \ DOMAIN worker.page)' = Pending(k)
        BY <3>1, <4>5
      <4>10. PagesSuffice(k)'
        BY <4>1, <4>7, <4>8, <4>9 DEF PagesSuffice
      <4> QED
        BY <2>1, <3>3, <4>1, <4>10 DEF Counted, Fetching
    <3> QED
      BY <3>2, <3>3
  <2> QED
    BY <2>1, <2>3, <2>4, <2>5, <2>6 DEF ReasonInv, QuietIsCounted
<1> QED
  BY <1>1, <1>2

LEMMA MasterReasons ==
  ASSUME SyncInv, ReasonInv, FetchMaster \/ FetchMasterFails
  PROVE  ReasonInv'
<1>0. /\ worker \in Worker /\ Master \in DOMAIN db /\ worker.pc = "master"
      /\ worker.kind = "productCategories" /\ UNCHANGED table
  BY DEF SyncInv, TypeInv, TypeOK, ReasonInv, KindOfPlace, FetchMaster, FetchMasterFails
<1>1. worker'.pc = "select" /\ SameKind /\ (worker'.quiet => worker.quiet /\ FetchMaster)
  BY <1>0, Went, FailedTo DEF FetchMaster, FetchMasterFails, Places
<1>2. KindOfPlace' /\ OrderIsKept'
  BY <1>0, <1>1 DEF KindOfPlace, OrderIsKept, SameKind
<1>3. MasterIsFetched'
  BY <1>0, <1>1 DEF MasterIsFetched, FetchMaster
<1>4. ASSUME NEW k \in {"products", "sales"} \intersect worker.found, worker.quiet
      PROVE  Counted(k)'
  <2>1. Counted(k) /\ k \in Kinds /\ worker.kind # k /\ Pending(k)' = Pending(k)
    BY <1>0, <1>4, SixKinds DEF ReasonInv, QuietIsCounted, Pending
  <2> QED
    BY <1>0, <1>1, <2>1, OtherCounted DEF SameKind
<1> QED
  BY <1>1, <1>2, <1>3, <1>4 DEF ReasonInv, QuietIsCounted, SameKind

LEMMA ClaimLinesReasons == ASSUME SyncInv, ReasonInv, ClaimSalesLines PROVE ReasonInv'
<1>0. worker \in Worker /\ worker.pc = "claimLines" /\ worker.kind = "salesLines"
      /\ UNCHANGED <<table, db>>
  BY DEF SyncInv, TypeInv, TypeOK, ReasonInv, KindOfPlace, ClaimSalesLines
<1>1. worker'.pc = "select" /\ SameKind /\ worker'.quiet = worker.quiet
  BY <1>0, Went DEF ClaimSalesLines, Places
<1>2. KindOfPlace' /\ OrderIsKept' /\ MasterIsFetched'
  BY <1>0, <1>1
     DEF KindOfPlace, ReasonInv, OrderIsKept, MasterIsFetched, Fetching, SameKind
<1>3. ASSUME NEW k \in {"products", "sales"} \intersect worker.found, worker.quiet
      PROVE  Counted(k)'
  <2>1. Counted(k) /\ k \in Kinds /\ worker.kind # k /\ Pending(k)' = Pending(k)
    BY <1>0, <1>3, SixKinds DEF ReasonInv, QuietIsCounted, Pending
  <2> QED
    BY <1>0, <1>1, <2>1, OtherCounted DEF SameKind
<1> QED
  BY <1>1, <1>2, <1>3 DEF ReasonInv, QuietIsCounted, SameKind

\* A step within the fetch of a kind: what is left to show is about the pages.
Within == /\ Fetching /\ Fetching' /\ SameKind /\ worker'.quiet = worker.quiet
          /\ \A k \in Kinds : Pending(k)' \subseteq Pending(k)
          /\ db[Master] > 0 => db'[Master] > 0

LEMMA WithinReasons ==
  ASSUME ReasonInv, Within,
         \A k \in Kinds : worker.kind = k /\ k \in {"products", "sales"} /\ PagesSuffice(k)
                            => PagesSuffice(k)'
  PROVE  ReasonInv'
<1>1. KindOfPlace' /\ OrderIsKept' /\ MasterIsFetched'
  BY DEF Within, Fetching, KindOfPlace, ReasonInv, OrderIsKept, MasterIsFetched, SameKind
<1>2. ASSUME NEW k \in {"products", "sales"} \intersect worker.found, worker.quiet
      PROVE  Counted(k)'
  <2>1. Counted(k) /\ k \in Kinds
    BY <1>2, SixKinds DEF ReasonInv, QuietIsCounted
  <2>2. CASE worker.kind # k
    BY <2>1, <2>2, OtherCounted DEF Within, SameKind
  <2>3. CASE worker.kind = k
    <3>1. PagesSuffice(k)'
      BY <1>2, <2>1, <2>3 DEF Within, Counted
    <3> QED
      BY <2>3, <3>1 DEF Within, Counted, Fetching, SameKind
  <2> QED
    BY <2>2, <2>3
<1> QED
  BY <1>1, <1>2 DEF ReasonInv, QuietIsCounted, Within, SameKind

LEMMA SelectedReasons == ASSUME SyncInv, ReasonInv, SelectPage PROVE ReasonInv'
<1>0. TypeOK /\ worker \in Worker /\ UNCHANGED <<table, db>> /\ worker.pc = "select"
  BY DEF SyncInv, TypeInv, TypeOK, SelectPage
<1>1. /\ worker'.pc = "save" /\ SameKind /\ worker'.pages = worker.pages /\ worker.pages > 0
      /\ worker'.quiet = worker.quiet
  BY <1>0, PageSelected
<1>2. PICK S \in SUBSET Selectable(worker.kind) :
        /\ DOMAIN worker'.page = S
        /\ \/ Cardinality(S) = PageSize
           \/ S = Selectable(worker.kind) /\ Cardinality(S) < PageSize
  BY <1>0, PageSelected
<1>3. Within
  BY <1>0, <1>1 DEF Within, Fetching, Pending
<1>4. ASSUME NEW k \in Kinds, worker.kind = k, k \in {"products", "sales"}, PagesSuffice(k)
      PROVE  PagesSuffice(k)'
  <2>1. Selectable(k) = Pending(k) /\ Pending(k) \subseteq Of(k)
    BY <1>4, MsdAssumption, SixKinds DEF Selectable, Pending
  <2>2. DOMAIN worker.page = {}
    BY <1>0, NothingHeld
  <2>3. /\ worker.pages \in Nat /\ Cardinality(Pending(k)) <= worker.pages * PageSize
        /\ Pending(k)' = Pending(k)
    <3>1. Pending(k) \ DOMAIN worker.page = Pending(k)
      BY <2>2
    <3> QED
      BY <1>0, <1>4, <3>1 DEF PagesSuffice, PagesLeft, Pending
  <2>4. /\ IsFiniteSet(Pending(k)) /\ Cardinality(Pending(k)) \in Nat
        /\ Cardinality(Pending(k) \ S) \in Nat
        /\ Cardinality(Pending(k) \ S)
             = Cardinality(Pending(k)) - Cardinality(Pending(k) \intersect S)
    BY <2>1, PendingFinite, FS_Difference
  <2>5. Pending(k) \intersect S = S
    BY <1>2, <1>4, <2>1
  <2>6. worker.pages - 1 \in Nat /\ PageSize \in Nat \ {0}
    BY <1>1, <2>3, MsdAssumption
  <2>7. Cardinality(Pending(k) \ S) <= (worker.pages - 1) * PageSize
    <3>1. CASE Cardinality(S) = PageSize
      <4>1. Cardinality(Pending(k)) - PageSize <= (worker.pages - 1) * PageSize
        BY <1>1, <2>3, <2>4, <2>6, OnePageLess
      <4> QED
        BY <2>4, <2>5, <3>1, <4>1
    <3>2. CASE S = Selectable(worker.kind)
      <4>1. Cardinality(Pending(k) \ S) = 0
        BY <1>4, <2>1, <2>4, <2>5, <3>2
      <4>2. (worker.pages - 1) * PageSize \in Nat
        BY <2>6
      <4> QED
        BY <4>1, <4>2
    <3> QED
      BY <1>2, <3>1, <3>2
  <2>8. PagesLeft' = worker.pages - 1 /\ (Pending(k) \ DOMAIN worker.page)' = Pending(k) \ S
    BY <1>1, <1>2, <2>3 DEF PagesLeft
  <2> QED
    BY <1>1, <2>6, <2>7, <2>8 DEF PagesSuffice
<1> QED
  BY <1>3, <1>4, WithinReasons

LEMMA SavedReasons == ASSUME SyncInv, ReasonInv, SaveBatch PROVE ReasonInv'
<1>0. worker \in Worker /\ UNCHANGED table /\ worker.pc = "save"
      /\ SaveRows(DOMAIN worker.page)
  BY DEF SyncInv, TypeInv, TypeOK, SaveBatch
<1>1. /\ worker'.pc = "transfer" /\ SameKind /\ worker'.pages = worker.pages
      /\ worker'.page = worker.page /\ worker'.quiet = worker.quiet
  BY <1>0, Went DEF SaveBatch, Places
<1>2. Within
  BY <1>0, <1>1, SavedAs DEF Within, Fetching, Pending
<1>3. ASSUME NEW k \in Kinds, PagesSuffice(k) PROVE PagesSuffice(k)'
  BY <1>0, <1>1, <1>3 DEF PagesSuffice, PagesLeft, Pending
<1> QED
  BY <1>2, <1>3, WithinReasons

LEMMA MarkedReasons == ASSUME SyncInv, ReasonInv, MarkTransferred PROVE ReasonInv'
<1>0. worker \in Worker /\ TypeOK /\ worker.pc = "transfer" /\ worker.pages > 0 /\ UNCHANGED db
  BY DEF SyncInv, TypeInv, TypeOK, MarkTransferred, PageIsWanted
<1>1. /\ worker'.pc = "select" /\ SameKind /\ worker'.pages = worker.pages - 1
      /\ DOMAIN worker'.page = {} /\ worker'.quiet = worker.quiet
  BY <1>0, PageEnded, NoPageType DEF MarkTransferred
<1>2. \A k \in Kinds : Pending(k)' = Pending(k) \ DOMAIN worker.page
  BY <1>0, RowsMarked, OfRows DEF MarkTransferred, Pending
<1>3. Within
  BY <1>0, <1>1, <1>2 DEF Within, Fetching
<1>4. ASSUME NEW k \in Kinds, PagesSuffice(k) PROVE PagesSuffice(k)'
  <2>1. PagesLeft' = PagesLeft
    BY <1>0, <1>1 DEF PagesLeft
  <2>2. (Pending(k) \ DOMAIN worker.page)' = Pending(k) \ DOMAIN worker.page
    BY <1>1, <1>2
  <2> QED
    BY <1>1, <1>4, <2>1, <2>2 DEF PagesSuffice
<1> QED
  BY <1>3, <1>4, WithinReasons

LEMMA EndedReasons == ASSUME SyncInv, ReasonInv, EndPages PROVE ReasonInv'
<1>0. worker \in Worker /\ UNCHANGED <<table, db>> /\ worker.pc = "select" /\ worker.pages = 0
  BY DEF SyncInv, TypeInv, TypeOK, EndPages
<1>1. /\ worker'.pc = "done" /\ SameKind /\ worker'.pages = worker.pages
      /\ worker'.page = worker.page /\ worker'.quiet = worker.quiet
  BY <1>0, Went DEF EndPages, Places
<1>2. Within
  BY <1>0, <1>1 DEF Within, Fetching, Pending
<1>3. ASSUME NEW k \in Kinds, PagesSuffice(k) PROVE PagesSuffice(k)'
  <2>1. DOMAIN worker.page = {} /\ Pending(k)' = Pending(k)
    BY <1>0, NothingHeld DEF Pending
  <2>2. Pending(k) \ DOMAIN worker.page = Pending(k) /\ Pending(k) \subseteq Of(k)
    BY <2>1 DEF Pending
  <2>3. Cardinality(Pending(k)) \in Nat /\ IsFiniteSet(Pending(k))
    BY <2>2, PendingFinite
  <2>4. PagesLeft = 0 /\ PagesLeft' = 0
    BY <1>0, <1>1 DEF PagesLeft
  <2>5. Cardinality(Pending(k)) <= 0
    <3>1. Cardinality(Pending(k)) <= PagesLeft * PageSize
      BY <1>3, <2>2 DEF PagesSuffice
    <3>2. 0 * PageSize = 0
      BY MsdAssumption
    <3> QED
      BY <2>4, <3>1, <3>2
  <2>6. Pending(k) = {}
    BY <2>3, <2>5, FS_EmptySet
  <2>7. (Pending(k) \ DOMAIN worker.page)' = {} /\ Cardinality({}) = 0
    BY <2>1, <2>6, FS_EmptySet
  <2>8. 0 <= 0 * PageSize
    BY MsdAssumption
  <2> QED
    BY <2>1, <2>4, <2>6, <2>7, <2>8 DEF PagesSuffice
<1> QED
  BY <1>2, <1>3, WithinReasons

\* The kind is ended with no row of it pending, of those that others refer to.
LEMMA KindEndedReasons ==
  ASSUME SyncInv, ReasonInv, Fetching, EndKind, UNCHANGED table,
         \A k \in {"products", "sales"} \intersect worker.found :
           worker.quiet /\ worker.kind = k => Pending(k) = {}
  PROVE  ReasonInv'
<1>0. worker'.pc = "next" /\ SameKind /\ worker'.quiet = worker.quiet
  BY KindEnded DEF SyncInv, TypeInv, TypeOK
<1>1. ASSUME NEW k \in {"products", "sales"} \intersect worker.found, worker.quiet
      PROVE  Pending(k)' \subseteq worker'.rows
  <2>1. Counted(k) /\ Pending(k)' = Pending(k)
    BY <1>1 DEF ReasonInv, QuietIsCounted, Pending
  <2>2. CASE worker.kind # k
    BY <1>0, <2>1, <2>2 DEF Counted, SameKind
  <2>3. CASE worker.kind = k
    BY <1>1, <2>1, <2>3
  <2> QED
    BY <2>2, <2>3
<1> QED
  BY <1>0, <1>1
     DEF ReasonInv, KindOfPlace, QuietIsCounted, Counted, Fetching, OrderIsKept,
         MasterIsFetched, SameKind

LEMMA NothingReasons == ASSUME SyncInv, ReasonInv, SelectNothing PROVE ReasonInv'
<1>0. /\ worker \in Worker /\ UNCHANGED <<table, db>> /\ worker.pc = "select"
      /\ worker.pages > 0 /\ Selectable(worker.kind) = {} /\ Fetching
  BY DEF SyncInv, TypeInv, TypeOK, SelectNothing, Fetching
<1>1. CASE worker.kind = "salesLines"
  <2>1. worker'.pc = "select" /\ SameKind /\ worker'.quiet = worker.quiet
    BY <1>0, <1>1, PageEnded DEF SelectNothing
  <2>2. Within
    BY <1>0, <2>1 DEF Within, Fetching, Pending
  <2> QED
    BY <1>1, <2>2, WithinReasons
<1>2. CASE worker.kind # "salesLines"
  <2>1. \A k \in {"products", "sales"} : worker.kind = k => Pending(k) = {}
    BY <1>0, MsdAssumption, SixKinds DEF Selectable, Pending
  <2> QED
    BY <1>0, <1>2, <2>1, KindEndedReasons DEF SelectNothing
<1> QED
  BY <1>1, <1>2

LEMMA ReleasedReasons == ASSUME SyncInv, ReasonInv, UpdateSyncModel PROVE ReasonInv'
<1>1. worker.pc = "done" /\ Fetching /\ UNCHANGED table /\ EndKind
  BY DEF UpdateSyncModel, Fetching
<1>2. \A k \in {"products", "sales"} \intersect worker.found :
        worker.quiet /\ worker.kind = k => Pending(k) = {}
  BY <1>1 DEF ReasonInv, QuietIsCounted, Counted, PagesSuffice
<1> QED
  BY <1>1, <1>2, KindEndedReasons

LEMMA FailedReasons == ASSUME SyncInv, ReasonInv, FetchFails PROVE ReasonInv'
<1>0. worker \in Worker
  BY DEF SyncInv, TypeInv, TypeOK
<1>1. /\ worker'.pc \in {"select", "next"} /\ SameKind /\ ~worker'.quiet
      /\ worker'.pc = "select" => worker.kind = "salesLines"
  BY <1>0, FetchFailed
<1>2. worker'.pc = "select" => Fetching \/ worker.pc = "claimLines"
  BY <1>0 DEF FetchFails, Fetching
<1> QED
  BY <1>1, <1>2
     DEF ReasonInv, KindOfPlace, QuietIsCounted, OrderIsKept, MasterIsFetched, Fetching, SameKind

LEMMA ReasonNext == ASSUME SyncInv, ReasonInv, [Next]_vars PROVE ReasonInv'
<1>0. TypeOK /\ worker \in Worker
  BY DEF SyncInv, TypeInv, TypeOK
<1>1. CASE UNCHANGED vars \/ CreateSyncModels \/ DestroySyncModels
  <2>1. UNCHANGED <<table, db, worker>>
    BY <1>1 DEF vars, CreateSyncModels, DestroySyncModels
  <2> QED
    BY <2>1 DEF ReasonInv, KindOfPlace, QuietIsCounted, Counted, PagesSuffice, PagesLeft,
                Pending, Fetching, OrderIsKept, MasterIsFetched
<1>2. ASSUME NEW r \in Rows, Export(r) PROVE ReasonInv'
  BY <1>0, <1>2, ExportedReasons
<1>3. CASE \/ FindSyncModels \/ Claim \/ ClaimFails \/ Connect \/ NoIncrementalData
           \/ SyncFails \/ Release \/ ReleaseFails \/ Crash
  BY <1>0, <1>3, LeavesFetching, FetchlessKeeps
<1>4. CASE CountRows \/ FindIncremental \/ NextKind
  BY <1>0, <1>4, CountReasons, FoundReasons, BegunReasons
<1>5. CASE FetchMaster \/ FetchMasterFails \/ ClaimSalesLines
  BY <1>5, MasterReasons, ClaimLinesReasons
<1>6. CASE SelectPage \/ SelectNothing \/ SaveBatch \/ MarkTransferred \/ EndPages
           \/ UpdateSyncModel \/ FetchFails
  BY <1>6, SelectedReasons, NothingReasons, SavedReasons, MarkedReasons, EndedReasons,
     ReleasedReasons, FailedReasons
<1> QED
  BY <1>1, <1>2, <1>3, <1>4, <1>5, <1>6 DEF Next, Environment, WorkerStep

\* Only a save leaves a row out, one of the page that has not what it refers to.
LEMMA LeftOut ==
  ASSUME SyncInv, [Next]_vars, NEW r \in skipped' \ skipped
  PROVE  worker.pc = "save" /\ r \in DOMAIN worker.page /\ ~Attached(r)
<1>1. ASSUME NEW S \in SUBSET DOMAIN worker.page, SaveRows(S)
      PROVE  r \in DOMAIN worker.page /\ ~Attached(r)
  BY <1>1 DEF SaveRows
<1>2. CASE SaveBatch
  BY <1>1, <1>2 DEF SaveBatch
<1>3. CASE FetchFails \/ Crash
  <2>1. LeavesSome
    BY <1>3 DEF FetchFails, Crash
  <2> QED
    BY <1>1, <2>1 DEF LeavesSome
<1>4. CASE Bystep
  BY <1>4, BystepHolds DEF Elsewhere
<1>5. ASSUME NEW q \in Rows, Export(q) PROVE FALSE
  BY <1>5 DEF Export
<1>6. CASE FetchMaster \/ SelectPage \/ MarkTransferred
  BY <1>6 DEF FetchMaster, SelectPage, MarkTransferred
<1>7. CASE UNCHANGED vars \/ CreateSyncModels \/ DestroySyncModels
  BY <1>7 DEF vars, CreateSyncModels, DestroySyncModels
<1> QED
  BY <1>2, <1>3, <1>4, <1>5, <1>6, <1>7
     DEF Next, Environment, WorkerStep, Bystep, ProcessStep

\* In a sync without an export or a failure, what a row refers to is in the database when
\* it was ever exported and its SyncModel was found: it was fetched before.
LEMMA RefersToFetched ==
  ASSUME SyncInv, ReasonInv, worker.pc = "save", worker.quiet, NEW p \in Rows,
         table[p].version > 0,
         \/ worker.kind = "inventorySums" /\ p \in Products /\ "products" \in worker.found
         \/ worker.kind = "salesLines" /\ p \in Sales /\ "sales" \in worker.found
  PROVE  (p \in Products => p \in known) /\ (p \in Sales => db[p] > 0)
<1>1. Fetching
  BY DEF Fetching
<1>2. ~table[p].pending
  <2>1. CASE worker.kind = "inventorySums" /\ p \in Products /\ "products" \in worker.found
    <3>1. Pending("products") \subseteq worker.rows /\ worker.rows \intersect Products = {}
      BY <1>1, <2>1 DEF ReasonInv, QuietIsCounted, Counted, OrderIsKept
    <3> QED
      BY <2>1, <3>1, SixKinds DEF Pending
  <2>2. CASE worker.kind = "salesLines" /\ p \in Sales /\ "sales" \in worker.found
    <3>1. Pending("sales") \subseteq worker.rows /\ worker.rows \intersect Sales = {}
      BY <1>1, <2>2 DEF ReasonInv, QuietIsCounted, Counted, OrderIsKept
    <3> QED
      BY <2>2, <3>1, SixKinds DEF Pending
  <2> QED
    BY <2>1, <2>2
<1> QED
  BY <1>2 DEF SyncInv, ReplicaInv, MarkedIsThere

LEMMA LeftOutForAReason ==
  ASSUME SyncInv, ReasonInv, [Next]_vars, NEW r \in skipped' \ skipped
  PROVE  \/ ~worker.quiet
         \/ r \notin Categories /\ table[Ref[r]].version = 0
         \/ r \in Inventory /\ "products" \notin worker.found
         \/ r \in SalesLines /\ "sales" \notin worker.found
<1>0. SUFFICES ASSUME worker.quiet
               PROVE  \/ r \notin Categories /\ table[Ref[r]].version = 0
                      \/ r \in Inventory /\ "products" \notin worker.found
                      \/ r \in SalesLines /\ "sales" \notin worker.found
  OBVIOUS
<1>1. /\ worker.pc = "save" /\ r \in DOMAIN worker.page /\ ~Attached(r) /\ TypeOK
      /\ r \in Of(worker.kind) /\ worker.kind \in Kinds
  BY LeftOut, WorkerType DEF SyncInv, TypeInv, TypeOK, ReplicaInv, PageIsHeld
<1>2. r \in Categories \union Inventory \union SalesLines /\ r \in DOMAIN Ref
  BY <1>1, MsdAssumption DEF Attached
<1>3. CASE r \in Categories
  <2>1. worker.kind = "productCategories"
    BY <1>1, <1>3, SixKinds, KindsAreApart
  <2>2. db[Master] > 0
    BY <1>0, <1>1, <2>1 DEF ReasonInv, MasterIsFetched, Fetching
  <2> QED
    BY <1>1, <1>3, <2>2, MsdAssumption, SixKinds DEF Attached
<1>4. CASE r \in Inventory
  <2>1. worker.kind = "inventorySums" /\ r \notin Categories
    BY <1>1, <1>4, SixKinds, KindsAreApart, MsdAssumption
  <2>2. Ref[r] \in Products /\ Ref[r] \in Rows /\ Ref[r] \notin known
    BY <1>1, <1>2, <1>4, MsdAssumption, SixKinds DEF Attached, Rows
  <2>3. table[Ref[r]].version \in Nat
    BY <1>1, <2>2, Versions
  <2> QED
    BY <1>0, <1>1, <1>4, <2>1, <2>2, <2>3, RefersToFetched
<1>5. CASE r \in SalesLines
  <2>1. worker.kind = "salesLines" /\ r \notin Categories
    BY <1>1, <1>5, SixKinds, KindsAreApart, MsdAssumption
  <2>2. Ref[r] \in Sales /\ Ref[r] \in Rows /\ ~(db[Ref[r]] > 0)
    BY <1>1, <1>2, <1>5, MsdAssumption, SixKinds DEF Attached, Rows
  <2>3. table[Ref[r]].version \in Nat
    BY <1>1, <2>2, Versions
  <2> QED
    BY <1>0, <1>1, <1>5, <2>1, <2>2, <2>3, RefersToFetched
<1> QED
  BY <1>2, <1>3, <1>4, <1>5

LEMMA ReasonInit == Init => ReasonInv
BY DEF Init, IdleWorker, ReasonInv, KindOfPlace, QuietIsCounted, Counted, Fetching,
       OrderIsKept, MasterIsFetched

\* A row is left out only for a reason, for any number of rows and any size of a page:
\* the pages that were counted hold all pending rows of a kind, and the kinds are fetched
\* in an order in which what a row refers to comes first.
THEOREM RowsAreSkippedForAReason == Spec => SkippedForAReason
<1>1. Init => SyncInv /\ ReasonInv
  BY SyncInit, ReasonInit
<1>2. SyncInv /\ ReasonInv /\ [Next]_vars => SyncInv' /\ ReasonInv'
  BY SyncNext, ReasonNext
<1>3. SyncInv /\ ReasonInv /\ [Next]_vars =>
        [\A r \in skipped' \ skipped :
           \/ ~worker.quiet
           \/ r \notin Categories /\ table[Ref[r]].version = 0
           \/ r \in Inventory /\ "products" \notin worker.found
           \/ r \in SalesLines /\ "sales" \notin worker.found]_vars
  BY LeftOutForAReason
<1> QED
  BY <1>1, <1>2, <1>3, PTL DEF Spec, SkippedForAReason
==============================================================================

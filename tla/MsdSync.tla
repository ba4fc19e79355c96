------------------------------ MODULE MsdSync ------------------------------
(***************************************************************************)
(* The synchronisation of an organisation's catalogue with Microsoft       *)
(* Dynamics.                                                               *)
(*                                                                         *)
(* Dynamics exports its tables to staging tables in SQL.  A row is pending *)
(* (STOCKUPTRANSFER = 0) until the sync process has saved it and marks it  *)
(* as transferred.  The process is the one of VendSync; for a Dynamics     *)
(* organisation it counts the pending rows of every table, then selects,   *)
(* saves and marks them kind by kind and page by page.  Each kind releases *)
(* its own SyncModel when it is done.  The API creates the SyncModels, and *)
(* destroys them when the sync is stopped.                                 *)
(*                                                                         *)
(* The stores of all rows are known and all transactions are posted sales: *)
(* rows that are not are left out and marked in the same step.             *)
(***************************************************************************)
EXTENDS Naturals, FiniteSetsExt

CONSTANTS
  Products, Categories, Dims, Inventory, Sales, SalesLines, \* the rows there may be
  Master,     \* the categories' master data, which is fetched and not staged
  Ref,        \* the product of inventory, the sale of a line, Master for a category row
  ProductOf,  \* the product of a category row
  DimOf,      \* the dimension of inventory
  PageSize,   \* rows in a page
  Created,    \* the SyncModels there are from the start
  MaxExports, \* bound on the exports
  MaxFaults   \* bound on failed calls, crashes and stops

Rows == Products \union Categories \union Dims \union Inventory \union Sales \union SalesLines
Fetched == {"products", "productCategories", "inventorySums", "sales", "salesLines"}
Kinds == Fetched \union {"inventoryDims"}

Of(k) == CASE k = "products"          -> Products
           [] k = "productCategories" -> Categories
           [] k = "inventoryDims"     -> Dims
           [] k = "inventorySums"     -> Inventory
           [] k = "sales"             -> Sales
           [] OTHER                   -> SalesLines

ASSUME MsdAssumption ==
  /\ \A k, l \in Kinds : k # l => Of(k) \intersect Of(l) = {}
  /\ \A k \in Kinds : Master \notin Of(k) /\ IsFiniteSet(Of(k))
  /\ Ref \in [Categories \union Inventory \union SalesLines ->
                {Master} \union Products \union Sales]
  /\ \A r \in DOMAIN Ref : Ref[r] \in CASE r \in Categories -> {Master}
                                        [] r \in Inventory  -> Products
                                        [] OTHER            -> Sales
  /\ ProductOf \in [Categories -> Products] /\ DimOf \in [Inventory -> Dims]
  /\ PageSize \in Nat \ {0} /\ Created \subseteq Kinds
  /\ MaxExports \in Nat \ {0} /\ MaxFaults \in Nat

VARIABLES
  table,     \* the staging tables: the version of each row, and whether it is pending
  db,        \* the version that was saved of each row, 0 for none
  known,     \* the products in the database, those with a category only included
  sync,      \* the SyncModels
  worker,    \* the sync process
  faults,    \* failed calls, crashes and stops so far
  skipped,   \* history: rows that were left out for want of what they refer to
  overtaken  \* history: rows that were exported again while they were saved

vars == <<table, db, known, sync, worker, faults, skipped, overtaken>>

Version == 0 .. MaxExports
StagingRow == [version : Version, pending : BOOLEAN]

\* "none" before it is created, "claimed" when syncInProcess is set.  Whether syncInterval
\* has passed since lastSyncedAt is not kept: a sync may begin whenever the last one is over.
SyncModel == {"none", "free", "claimed"}

Worker == [pc    : {"idle", "claim", "connect", "count", "counting", "none", "next", "master", "claimLines",
                    "select", "save", "transfer", "done", "release"},
           found : SUBSET Kinds,    \* the SyncModels that were found
           rows  : SUBSET Rows,     \* counted, of the kinds that are still to be fetched
           kind  : Fetched,         \* being fetched
           pages : Nat,             \* pagesToFetch
           page  : UNION {[S -> Version] : S \in SUBSET Rows},
           quiet : BOOLEAN]         \* history: no export and no failure since it began

NoPage == [r \in {} |-> 0]
IdleWorker == [pc |-> "idle", found |-> {}, rows |-> {}, kind |-> "products", pages |-> 0, page |-> NoPage,
               quiet |-> TRUE]

TypeOK ==
  /\ table \in [Rows -> StagingRow]
  /\ db \in [Rows \union {Master} -> Version]
  /\ known \subseteq Products
  /\ sync \in [Kinds -> SyncModel]
  /\ worker \in Worker
  /\ faults \in 0 .. MaxFaults
  /\ skipped \subseteq Rows /\ overtaken \subseteq Rows

Init ==
  /\ table = [r \in Rows |-> [version |-> 0, pending |-> FALSE]]
  /\ db = [r \in Rows \union {Master} |-> 0]
  /\ known = {}
  /\ sync = [k \in Kinds |-> IF k \in Created THEN "free" ELSE "none"]
  /\ worker = IdleWorker
  /\ faults = 0
  /\ skipped = {} /\ overtaken = {}

-----------------------------------------------------------------------------
(* Dynamics, the API and the clock *)

Busy == worker.pc \notin {"idle", "claim", "connect"}

\* A row is staged, or staged again in its place; the tables are exported each on its own.
Export(r) ==
  /\ table[r].version < MaxExports
  /\ MapThenSumSet(LAMBDA each : table[each].version, Rows) < MaxExports
  /\ table' = [table EXCEPT ![r] = [version |-> @.version + 1, pending |-> TRUE]]
  /\ worker' = [worker EXCEPT !.quiet = @ /\ ~Busy]
  /\ skipped' = skipped \ {r}
  /\ overtaken' = IF r \in DOMAIN worker.page THEN overtaken \union {r} ELSE overtaken \ {r}
  /\ UNCHANGED <<db, known, sync, faults>>

\* initiateMSDSync: findOrCreate, for all kinds at once.  A sync that begins between two
\* of the calls is one that begins with Created.
CreateSyncModels ==
  /\ \E k \in Kinds : sync[k] = "none"
  /\ sync' = [k \in Kinds |-> IF sync[k] = "none" THEN "free" ELSE sync[k]]
  /\ UNCHANGED <<table, db, known, worker, faults, skipped, overtaken>>

Fault == faults < MaxFaults /\ faults' = faults + 1

\* stopMSDSync, whether the organisation is being synchronised or not.
DestroySyncModels ==
  /\ \E k \in Kinds : sync[k] # "none"
  /\ Fault
  /\ sync' = [k \in Kinds |-> "none"]
  /\ UNCHANGED <<table, db, known, worker, skipped, overtaken>>

-----------------------------------------------------------------------------
(* syncWorker.js *)

Goto(pc) == worker' = [worker EXCEPT !.pc = pc]
FailTo(pc) == Fault /\ worker' = [worker EXCEPT !.pc = pc, !.quiet = FALSE]

\* An update of the SyncModels of some kinds that are there.
Update(kinds, to) ==
  sync' = [k \in Kinds |-> IF k \in kinds /\ sync[k] # "none" THEN to ELSE sync[k]]

FindSyncModels ==
  /\ worker.pc = "idle"
  /\ \E k \in Kinds : sync[k] = "free"
  /\ worker' = [IdleWorker EXCEPT !.pc = "claim", !.found = {k \in Kinds : sync[k] = "free"}]
  /\ UNCHANGED <<table, db, known, sync, faults, skipped, overtaken>>

Claim ==
  /\ worker.pc = "claim"
  /\ Update(Kinds, "claimed")
  /\ Goto("connect")
  /\ UNCHANGED <<table, db, known, faults, skipped, overtaken>>

\* The error is logged and the sync goes on without the claim.
ClaimFails ==
  /\ worker.pc = "claim"
  /\ FailTo("connect")
  /\ UNCHANGED <<table, db, known, sync, skipped, overtaken>>

\* Mutant: only the SyncModels that were found are released.
ReleaseFound ==
  /\ worker.pc = "release"
  /\ Update(worker.found, "free")
  /\ worker' = IdleWorker
  /\ UNCHANGED <<table, db, known, faults, skipped, overtaken>>

\* The organisation is released, whatever happened.
Release ==
  /\ worker.pc = "release"
  /\ Update(Kinds, "free")
  /\ worker' = IdleWorker
  /\ UNCHANGED <<table, db, known, faults, skipped, overtaken>>

ReleaseFails ==
  /\ worker.pc = "release"
  /\ Fault
  /\ worker' = IdleWorker
  /\ UNCHANGED <<table, db, known, sync, skipped, overtaken>>

-----------------------------------------------------------------------------
(* find-differential-msd-data.js *)

Connect ==
  /\ worker.pc = "connect"
  /\ Goto("count")
  /\ UNCHANGED <<table, db, known, sync, faults, skipped, overtaken>>

Pending(k) == {r \in Of(k) : table[r].pending}

\* The rows of all tables are counted at the same time, each with a query of its own: a
\* row that is exported meanwhile is counted or not.
PendingRows == UNION {Pending(k) : k \in worker.found}

CountRows ==
  /\ worker.pc = "count"
  /\ worker' = [worker EXCEPT !.pc = "counting", !.rows = PendingRows]
  /\ UNCHANGED <<table, db, known, sync, faults, skipped, overtaken>>

FindIncremental ==
  /\ worker.pc = "counting"
  /\ \E late \in SUBSET (PendingRows \ worker.rows) :
       LET rows == worker.rows \union late
       IN  worker' = [worker EXCEPT !.pc = IF rows = {} THEN "none" ELSE "next",
                                    !.rows = rows \ Dims]
  /\ UNCHANGED <<table, db, known, sync, faults, skipped, overtaken>>

NoIncrementalData ==
  /\ worker.pc = "none"
  /\ Update(Kinds, "free")
  /\ Goto("release")
  /\ UNCHANGED <<table, db, known, faults, skipped, overtaken>>

\* No database, integration or SQL server.  run() resolves the error, as all of the
\* workers do: the last catch of the chain is meant for closing the connection.
SyncFails ==
  /\ worker.pc \in {"connect", "count", "counting", "none"}
  /\ FailTo("release")
  /\ UNCHANGED <<table, db, known, sync, skipped, overtaken>>

\* Mutant: the order is hampered, inventory goes first.
BeforeInventory(k) == CASE k = "inventorySums" -> {}
                        [] k = "products"      -> {"inventorySums"}
                        [] OTHER               -> {"products", "inventorySums"}

\* "Do not hamper the order here"
Before(k) == CASE k = "products"          -> {}
               [] k = "productCategories" -> {"products"}
               [] k = "inventorySums"     -> {"products", "productCategories"}
               [] k = "sales"             -> {"products", "productCategories", "inventorySums"}
               [] OTHER                   -> Fetched \ {"salesLines"}

Todo == {k \in Fetched : worker.rows \intersect Of(k) # {}}

Pages(rows) == (Cardinality(rows) + PageSize - 1) \div PageSize

NextKind ==
  /\ worker.pc = "next"
  /\ \/ Todo = {} /\ Goto("release")
     \/ \E k \in Todo :
          /\ Before(k) \intersect Todo = {}
          /\ worker' = [worker EXCEPT !.kind = k, !.rows = @ \ Of(k),
               !.pages = Pages(worker.rows \intersect Of(k)),
               !.pc = CASE k = "productCategories" -> "master"
                        [] k = "salesLines"        -> "claimLines"
                        [] OTHER                   -> "select"]
  /\ UNCHANGED <<table, db, known, sync, faults, skipped, overtaken>>

-----------------------------------------------------------------------------
(* The fetch workers *)

\* fetch-category-msd.js, before the categories of the products: an error is resolved.
FetchMaster ==
  /\ worker.pc = "master"
  /\ db' = [db EXCEPT ![Master] = 1]
  /\ Goto("select")
  /\ UNCHANGED <<table, known, sync, faults, skipped, overtaken>>

FetchMasterFails ==
  /\ worker.pc = "master"
  /\ FailTo("select")
  /\ UNCHANGED <<table, db, known, sync, skipped, overtaken>>

\* Only the worker of sales lines claims its SyncModel itself, once more.
ClaimSalesLines ==
  /\ worker.pc = "claimLines"
  /\ Update({"salesLines"}, "claimed")
  /\ Goto("select")
  /\ UNCHANGED <<table, db, known, faults, skipped, overtaken>>

\* Inventory is selected with its dimension.
Selectable(k) == {r \in Pending(k) : r \in Inventory => table[DimOf[r]].version > 0}

NextPage == worker' = [worker EXCEPT !.pc = "select", !.pages = @ - 1, !.page = NoPage]
EndKind == worker' = [worker EXCEPT !.pc = "next", !.pages = 0, !.page = NoPage]

\* Mutant: one page too many is fetched.
SelectPageMore ==
  /\ worker.pc = "select"
  /\ \E S \in SUBSET Selectable(worker.kind) :
       /\ S # {} /\ Cardinality(S) <= PageSize
       /\ worker' = [worker EXCEPT !.pc = "save",
                                   !.page = [r \in S |-> table[r].version]]
       /\ overtaken' = overtaken \ S
  /\ UNCHANGED <<table, db, known, sync, faults, skipped>>

\* SELECT TOP, in no order.
SelectPage ==
  /\ worker.pc = "select" /\ worker.pages > 0
  /\ \E S \in SUBSET Selectable(worker.kind) :
       /\ S # {}
       /\ Cardinality(S) = PageSize \/ (S = Selectable(worker.kind) /\ Cardinality(S) < PageSize)
       /\ worker' = [worker EXCEPT !.pc = "save",
                                   !.page = [r \in S |-> table[r].version]]
       /\ overtaken' = overtaken \ S
  /\ UNCHANGED <<table, db, known, sync, faults, skipped>>

\* An empty page makes an empty batch, or a query that SQL refuses, "IN ()": that ends the
\* kind, or for sales lines the page.
SelectNothing ==
  /\ worker.pc = "select" /\ worker.pages > 0
  /\ Selectable(worker.kind) = {}
  /\ IF worker.kind = "salesLines" THEN NextPage ELSE EndKind
  /\ UNCHANGED <<table, db, known, sync, faults, skipped, overtaken>>

Attached(r) == CASE r \in Inventory  -> Ref[r] \in known
                 [] r \in SalesLines -> db[Ref[r]] > 0
                 [] r \in Categories -> db[Master] > 0
                 [] OTHER            -> TRUE

\* The rows of S that have what they refer to are saved; a category row makes its
\* product known in any case.
SaveRows(S) ==
  /\ db' = [r \in DOMAIN db |-> IF r \in S /\ Attached(r) THEN worker.page[r] ELSE db[r]]
  /\ known' = known \union {r \in Products : r \in S}
                    \union {ProductOf[r] : r \in S \intersect Categories}
  /\ skipped' = (skipped \ S) \union {r \in S : ~Attached(r)}

SaveBatch ==
  /\ worker.pc = "save"
  /\ SaveRows(DOMAIN worker.page)
  /\ Goto("transfer")
  /\ UNCHANGED <<table, sync, faults, overtaken>>

Mark(S) == table' = [r \in Rows |-> IF r \in S THEN [table[r] EXCEPT !.pending = FALSE]
                                               ELSE table[r]]

\* Mutant: UPDATE without the locations of the page.
MarkAllTransferred ==
  /\ worker.pc = "transfer"
  /\ Mark(Pending(worker.kind))
  /\ NextPage
  /\ UNCHANGED <<db, known, sync, faults, skipped, overtaken>>

\* The rows are found again by their physical location.
MarkTransferred ==
  /\ worker.pc = "transfer"
  /\ Mark(DOMAIN worker.page)
  /\ NextPage
  /\ UNCHANGED <<db, known, sync, faults, skipped, overtaken>>

EndPages ==
  /\ worker.pc = "select" /\ worker.pages = 0
  /\ Goto("done")
  /\ UNCHANGED <<table, db, known, sync, faults, skipped, overtaken>>

\* The kind's SyncModel is released; the worker of the categories names another one.
UpdateSyncModel ==
  /\ worker.pc = "done"
  /\ Update({IF worker.kind = "productCategories" THEN "products" ELSE worker.kind},
            "free")
  /\ EndKind
  /\ UNCHANGED <<table, db, known, faults, skipped, overtaken>>

\* What a call leaves that fails, or whose answer is lost: some of an unordered batch,
\* the rows marked or not.
LeavesSome ==
  \/ worker.pc = "save" /\ UNCHANGED table
       /\ \E S \in SUBSET DOMAIN worker.page : SaveRows(S)
  \/ worker.pc = "transfer" /\ Mark(DOMAIN worker.page) /\ UNCHANGED <<db, known, skipped>>
  \/ UNCHANGED <<table, db, known, skipped>>

\* An error ends the kind, and the next one is fetched.  The worker of sales lines goes on
\* with its next page.
FetchFails ==
  /\ worker.pc \in {"claimLines", "select", "save", "transfer", "done"}
  /\ Fault
  /\ LeavesSome
  /\ worker' = IF worker.kind = "salesLines" /\ worker.pc \in {"select", "save", "transfer"}
                    /\ worker.pages > 0
               THEN [worker EXCEPT !.pc = "select", !.pages = @ - 1, !.page = NoPage,
                                   !.quiet = FALSE]
               ELSE [worker EXCEPT !.pc = "next", !.pages = 0, !.page = NoPage, !.quiet = FALSE]
  /\ UNCHANGED <<sync, overtaken>>

\* The process dies; the container is restarted and finds the SyncModels as they are.
Crash ==
  /\ worker.pc # "idle"
  /\ Fault
  /\ LeavesSome
  /\ worker' = IdleWorker
  /\ UNCHANGED <<sync, overtaken>>

-----------------------------------------------------------------------------
Environment == \/ \E r \in Rows : Export(r)
               \/ CreateSyncModels \/ DestroySyncModels

WorkerStep ==
  \/ FindSyncModels \/ Claim \/ ClaimFails \/ Connect \/ CountRows
  \/ FindIncremental \/ NoIncrementalData \/ SyncFails \/ NextKind
  \/ FetchMaster \/ FetchMasterFails \/ ClaimSalesLines \/ SelectPage \/ SelectNothing
  \/ SaveBatch \/ MarkTransferred \/ EndPages \/ UpdateSyncModel \/ FetchFails
  \/ Release \/ ReleaseFails \/ Crash

Next == Environment \/ WorkerStep

Spec == Init /\ [][Next]_vars

\* The process runs (restart: always); nothing has to be exported, created or stopped.
Fairness == WF_vars(WorkerStep)

FairSpec == Spec /\ Fairness
-----------------------------------------------------------------------------
(* Properties *)

Promise == INSTANCE Replica WITH
  Records <- Rows \union {Master},
  Ref     <- Ref,
  Version <- Version,
  source  <- [r \in Rows \union {Master} |-> IF r = Master THEN 1 ELSE table[r].version],
  copy    <- db,
  settled <- {r \in Rows : ~table[r].pending},
  excused <- skipped \union overtaken

\* The synchronisation implements Replica.
ImplementsReplica == Promise!Spec

\* A row is left out only when what it refers to was never exported, was exported (or
\* failed) during the same sync, or its SyncModel was not there: the order of the kinds
\* protects the others.
SkippedForAReason ==
  [][\A r \in skipped' \ skipped :
       \/ ~worker.quiet
       \/ r \notin Categories /\ table[Ref[r]].version = 0
       \/ r \in Inventory /\ "products" \notin worker.found
       \/ r \in SalesLines /\ "sales" \notin worker.found]_vars

\* Once the SyncModels are there to stay, every row is fetched and marked in the end, whatever
\* failed and however the kinds' own releases interleave with the claims: unless a process
\* died, or a release failed, with the whole organisation claimed, or inventory waits for
\* its dimension to be exported.
EveryRowIsTransferred ==
  <>[](\A k \in Kinds : sync[k] # "none") =>
    <>[](\/ \A k \in Kinds : sync[k] = "claimed"
         \/ \A r \in Rows \ Dims :
              table[r].pending => r \in Inventory /\ table[DimOf[r]].version = 0)
=============================================================================

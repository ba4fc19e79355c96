------------------------------ MODULE VendSync ------------------------------
(***************************************************************************)
(* The synchronisation of an organisation's catalogue with Vend.           *)
(*                                                                         *)
(* One process (syncWorker.js, restarted when it ends) claims the          *)
(* organisation, fetches what changed in Vend kind by kind and page by     *)
(* page, saves it, remembers the version it reached, and releases the      *)
(* organisation.  Vend changes meanwhile; it numbers all changes of an     *)
(* account with one counter.  The API only creates the SyncModels.         *)
(*                                                                         *)
(* Organisations are synchronised one after the other and share nothing,   *)
(* so the model has one.  The stores of all records are known.             *)
(***************************************************************************)
EXTENDS Naturals, FiniteSets

CONSTANTS
  Suppliers, Products, Inventory, Sales, \* the records Vend may hold
  Ref,        \* the supplier of a product, the product of an inventory record
  Created,    \* the SyncModels an earlier call of initiateVendSync has created
  PageSize,   \* records in an answer of Vend
  MaxVersion, \* bound on the changes in Vend
  MaxFaults   \* bound on failed calls and crashes

Records == Suppliers \union Products \union Inventory \union Sales
Kinds == {"suppliers", "products", "inventory", "sales"}

Of(k) == CASE k = "suppliers" -> Suppliers
           [] k = "products"  -> Products
           [] k = "inventory" -> Inventory
           [] OTHER           -> Sales

ASSUME SyncAssumption ==
  /\ \A k, l \in Kinds : k # l => Of(k) \intersect Of(l) = {}
  /\ Ref \in [Products \union Inventory -> Suppliers \union Products]
  /\ Created \subseteq Kinds
  /\ PageSize \in Nat \ {0} /\ MaxVersion \in Nat /\ MaxFaults \in Nat

VARIABLES
  vend,   \* the records in Vend, each with the version of its last change
  db,     \* the records saved: the version saved, 0 for none
  stores, \* suppliers with a virtual store
  sync,   \* the SyncModels
  worker, \* the sync process
  faults, \* failed calls and crashes so far
  stuck   \* history: a process that claimed the organisation did not release it

vars == <<vend, db, stores, sync, worker, faults, stuck>>

Version == 0 .. MaxVersion
VendRecord == [version : Version, deleted : BOOLEAN]

\* linked: a product's supplier was known, a sale's line items were saved.
Saved == [version : Version, linked : BOOLEAN]

\* due: lastSyncedAt is at least syncInterval ago.
SyncModel == [created : BOOLEAN, version : Version, syncInProcess : BOOLEAN, due : BOOLEAN]

Worker == [pc    : {"idle", "claim", "connect", "next", "fetch", "save", "lines",
                    "version", "stores", "release"},
           kinds : SUBSET Kinds,           \* found, and not fetched yet
           kind  : Kinds,                  \* being fetched
           after : Version,                \* the version the next page starts after
           upto  : Version,                \* the version the page ends with
           page  : UNION {[S -> VendRecord] : S \in SUBSET Records}]

NoPage == [r \in {} |-> [version |-> 0, deleted |-> FALSE]]
IdleWorker == [pc |-> "idle", kinds |-> {}, kind |-> "suppliers", after |-> 0, upto |-> 0,
               page |-> NoPage]

TypeOK ==
  /\ vend \in [Records -> VendRecord]
  /\ db \in [Records -> Saved]
  /\ stores \subseteq Suppliers
  /\ sync \in [Kinds -> SyncModel]
  /\ worker \in Worker
  /\ faults \in 0 .. MaxFaults
  /\ stuck \in BOOLEAN

Init ==
  /\ vend = [r \in Records |-> [version |-> 0, deleted |-> FALSE]]
  /\ db = [r \in Records |-> [version |-> 0, linked |-> FALSE]]
  /\ stores = {}
  /\ sync = [k \in Kinds |-> [created |-> k \in Created, version |-> 0,
                              syncInProcess |-> FALSE, due |-> TRUE]]
  /\ worker = IdleWorker
  /\ faults = 0
  /\ stuck = FALSE

-----------------------------------------------------------------------------
(* Vend, the API and the clock *)

InVend(r) == vend[r].version > 0 /\ ~vend[r].deleted
InDb(r) == db[r].version > 0

\* The number of Vend's next change.
IsNext(v) == /\ v > 0
             /\ \A r \in Records : vend[r].version < v
             /\ v = 1 \/ \E r \in Records : vend[r].version = v - 1

\* A record is created, or changed.
VendChanges(r) ==
  /\ ~vend[r].deleted
  /\ vend[r].version = 0 /\ r \in DOMAIN Ref => InVend(Ref[r])
  /\ \E v \in Version : IsNext(v) /\ vend' = [vend EXCEPT ![r].version = v]
  /\ UNCHANGED <<db, stores, sync, worker, faults, stuck>>

VendDeletes(r) ==
  /\ InVend(r)
  /\ \E v \in Version :
       IsNext(v) /\ vend' = [vend EXCEPT ![r] = [version |-> v, deleted |-> TRUE]]
  /\ UNCHANGED <<db, stores, sync, worker, faults, stuck>>

\* initiateVendSync: findOrCreate, for all kinds at once.
CreateSyncModel(k) ==
  /\ ~sync[k].created
  /\ sync' = [sync EXCEPT ![k] = [created |-> TRUE, version |-> 0,
                                  syncInProcess |-> FALSE, due |-> TRUE]]
  /\ UNCHANGED <<vend, db, stores, worker, faults, stuck>>

\* syncInterval passes.  While a sync runs it makes no difference, because nothing
\* reads lastSyncedAt then and the release writes it.
Elapse ==
  /\ worker.pc = "idle"
  /\ \E k \in Kinds : ~sync[k].due
  /\ sync' = [k \in Kinds |-> [sync[k] EXCEPT !.due = TRUE]]
  /\ UNCHANGED <<vend, db, stores, worker, faults, stuck>>

-----------------------------------------------------------------------------
(* syncWorker.js *)

Goto(pc) == worker' = [worker EXCEPT !.pc = pc]
Fault == faults < MaxFaults /\ faults' = faults + 1

\* What updateMany does to the SyncModels of the organisation: a new lastSyncedAt ends
\* that they are due.
UpdateMany(syncInProcess, stillDue) ==
  sync' = [k \in Kinds |->
    IF sync[k].created
    THEN [sync[k] EXCEPT !.syncInProcess = syncInProcess, !.due = @ /\ stillDue]
    ELSE sync[k]]

FindSyncModels ==
  /\ worker.pc = "idle"
  /\ LET found == {k \in Kinds : /\ sync[k].created /\ sync[k].due
                                 /\ ~sync[k].syncInProcess}
     IN  /\ found # {}
         /\ worker' = [IdleWorker EXCEPT !.pc = "claim", !.kinds = found]
  /\ UNCHANGED <<vend, db, stores, sync, faults, stuck>>

Claim ==
  /\ worker.pc = "claim"
  /\ UpdateMany(TRUE, TRUE)
  /\ Goto("connect")
  /\ UNCHANGED <<vend, db, stores, faults, stuck>>

\* The error is logged and the sync goes on without the claim.
ClaimFails ==
  /\ worker.pc = "claim"
  /\ Fault
  /\ Goto("connect")
  /\ UNCHANGED <<vend, db, stores, sync, stuck>>

\* Mutant: the error of a sync is passed on, past the release.
ConnectFailsUnreleased ==
  /\ worker.pc = "connect"
  /\ Fault
  /\ worker' = IdleWorker
  /\ UNCHANGED <<vend, db, stores, sync, stuck>>

\* find-differential-vend-data.js: no database, token or integration.
ConnectFails ==
  /\ worker.pc = "connect"
  /\ Fault
  /\ Goto("release")
  /\ UNCHANGED <<vend, db, stores, sync, stuck>>

Connect ==
  /\ worker.pc = "connect"
  /\ Goto("next")
  /\ UNCHANGED <<vend, db, stores, sync, faults, stuck>>

\* Suppliers, products, inventory, sales: in this order, those that were found.
Before(k) == CASE k = "suppliers" -> {}
               [] k = "products"  -> {"suppliers"}
               [] k = "inventory" -> {"suppliers", "products"}
               [] OTHER           -> {"suppliers", "products", "inventory"}

\* Mutant: the version of the sync model is taken for the first one still to fetch.
NextKindAfterNext ==
  /\ worker.pc = "next"
  /\ \/ worker.kinds = {} /\ Goto("release")
     \/ \E k \in worker.kinds :
          /\ Before(k) \intersect worker.kinds = {}
          /\ worker' = [worker EXCEPT !.pc = "fetch", !.kind = k, !.kinds = @ \ {k},
                                      !.after = sync[k].version + 1]
  /\ UNCHANGED <<vend, db, stores, sync, faults, stuck>>

NextKind ==
  /\ worker.pc = "next"
  /\ \/ worker.kinds = {} /\ Goto("release")
     \/ \E k \in worker.kinds :
          /\ Before(k) \intersect worker.kinds = {}
          /\ worker' = [worker EXCEPT !.pc = "fetch", !.kind = k, !.kinds = @ \ {k},
                                      !.after = sync[k].version]
  /\ UNCHANGED <<vend, db, stores, sync, faults, stuck>>

\* The organisation is released, and counts as synchronised whatever happened.
Release ==
  /\ worker.pc = "release"
  /\ UpdateMany(FALSE, FALSE)
  /\ worker' = IdleWorker
  /\ stuck' = FALSE
  /\ UNCHANGED <<vend, db, stores, faults>>

ReleaseFails ==
  /\ worker.pc = "release"
  /\ Fault
  /\ worker' = IdleWorker
  /\ stuck' = (stuck \/ \E k \in Kinds : sync[k].syncInProcess)
  /\ UNCHANGED <<vend, db, stores, sync>>

-----------------------------------------------------------------------------
(* fetch-incremental-suppliers, -products, -inventory and -sales.js *)

\* The worker is done with its kind, one way or the other.
EndKind == worker' = [IdleWorker EXCEPT !.pc = "next", !.kinds = worker.kinds]

Changed(k, after) == {r \in Of(k) : vend[r].version > after}

\* Vend answers the next page, in the order of versions; an empty one ends the kind.
Fetch ==
  /\ worker.pc = "fetch"
  /\ LET changed == Changed(worker.kind, worker.after)
         page(v) == {r \in changed : vend[r].version <= v}
     IN  \/ changed = {} /\ EndKind
         \/ \E last \in changed :
              LET v == vend[last].version
              IN  /\ Cardinality(page(v)) = PageSize
                       \/ (page(v) = changed /\ Cardinality(changed) < PageSize)
                  /\ worker' = [worker EXCEPT !.pc = "save", !.upto = v,
                                  !.page = [r \in page(v) |-> vend[r]]]
  /\ UNCHANGED <<vend, db, stores, sync, faults, stuck>>

\* What saving a fetched record leaves.  The filter that should remove a deleted
\* supplier matches nothing, and inventory of an unknown product is skipped.
SavedRecord(r) ==
  LET new == worker.page[r]
  IN  IF new.deleted
      THEN IF r \in Suppliers THEN db[r] ELSE [version |-> 0, linked |-> FALSE]
      ELSE IF r \in Inventory /\ ~InDb(Ref[r]) THEN db[r]
      ELSE [version |-> new.version,
            linked  |-> IF r \in Products THEN InDb(Ref[r]) ELSE r \notin Sales]

SaveRecords(S) == db' = [r \in Records |-> IF r \in S THEN SavedRecord(r) ELSE db[r]]

\* saveSuppliers, saveProducts, saveInventory and the first batch of saveSales.
SaveBatch ==
  /\ worker.pc = "save"
  /\ SaveRecords(DOMAIN worker.page)
  /\ Goto(IF worker.kind = "sales" THEN "lines" ELSE "version")
  /\ UNCHANGED <<vend, stores, sync, faults, stuck>>

\* The second batch of saveSales.  Removing the line items of a deleted sale, which has
\* some, uses a variable that is not in scope: the batch is abandoned with an error.
SaveLineItems ==
  /\ worker.pc = "lines"
  /\ IF \E r \in DOMAIN worker.page : worker.page[r].deleted
     THEN EndKind /\ UNCHANGED db
     ELSE /\ db' = [r \in Records |->
                IF r \in DOMAIN worker.page THEN [db[r] EXCEPT !.linked = TRUE] ELSE db[r]]
          /\ Goto("version")
  /\ UNCHANGED <<vend, stores, sync, faults, stuck>>

\* Mutant: the version of the latest change is taken for that of the page.
SaveLatestVersion ==
  /\ worker.pc = "version"
  /\ \E r \in Of(worker.kind) :
       /\ \A q \in Of(worker.kind) : vend[q].version <= vend[r].version
       /\ sync' = [sync EXCEPT ![worker.kind].version = vend[r].version]
       /\ worker' = [worker EXCEPT !.after = vend[r].version, !.upto = 0,
                       !.pc = IF worker.kind = "suppliers" THEN "stores" ELSE "fetch",
                       !.page = IF worker.kind = "suppliers" THEN @ ELSE NoPage]
  /\ UNCHANGED <<vend, db, stores, faults, stuck>>

\* Mutant: the version after the page is saved.
SaveNextVersion ==
  /\ worker.pc = "version"
  /\ sync' = [sync EXCEPT ![worker.kind].version = worker.upto + 1]
  /\ worker' = [worker EXCEPT !.after = worker.upto, !.upto = 0,
                              !.pc = IF worker.kind = "suppliers" THEN "stores" ELSE "fetch",
                              !.page = IF worker.kind = "suppliers" THEN @ ELSE NoPage]
  /\ UNCHANGED <<vend, db, stores, faults, stuck>>

\* The version is saved, and the fetch goes on after it.
SaveVersion ==
  /\ worker.pc = "version"
  /\ sync' = [sync EXCEPT ![worker.kind].version = worker.upto]
  /\ worker' = [worker EXCEPT !.after = worker.upto, !.upto = 0,
                              !.pc = IF worker.kind = "suppliers" THEN "stores" ELSE "fetch",
                              !.page = IF worker.kind = "suppliers" THEN @ ELSE NoPage]
  /\ UNCHANGED <<vend, db, stores, faults, stuck>>

\* assignVirtualStores, for the suppliers of the page that the database has.
AssignVirtualStores ==
  /\ worker.pc = "stores"
  /\ stores' = stores \union {r \in DOMAIN worker.page : ~worker.page[r].deleted /\ InDb(r)}
  /\ worker' = [worker EXCEPT !.pc = "fetch", !.page = NoPage]
  /\ UNCHANGED <<vend, db, sync, faults, stuck>>

\* Some of an unordered batch may be applied when it fails.
SaveSome == IF worker.pc = "save" THEN \E S \in SUBSET DOMAIN worker.page : SaveRecords(S)
                                  ELSE UNCHANGED db

\* The error ends the kind; run() resolves it and the next kind is fetched.
FetchFails ==
  /\ worker.pc \in {"fetch", "save", "lines", "version", "stores"}
  /\ Fault
  /\ SaveSome
  /\ EndKind
  /\ UNCHANGED <<vend, stores, sync, stuck>>

\* The process dies; the container is restarted and finds the claim in the database.
Crash ==
  /\ worker.pc # "idle"
  /\ Fault
  /\ SaveSome
  /\ worker' = IdleWorker
  /\ stuck' = (stuck \/ \E k \in Kinds : sync[k].syncInProcess)
  /\ UNCHANGED <<vend, stores, sync>>

-----------------------------------------------------------------------------
Environment == \/ \E r \in Records : VendChanges(r) \/ VendDeletes(r)
               \/ \E k \in Kinds : CreateSyncModel(k)

WorkerStep ==
  \/ FindSyncModels \/ Claim \/ ClaimFails \/ Connect \/ ConnectFails \/ NextKind
  \/ Fetch \/ SaveBatch \/ SaveLineItems \/ SaveVersion \/ AssignVirtualStores
  \/ FetchFails \/ Release \/ ReleaseFails \/ Crash

Next == Environment \/ Elapse \/ WorkerStep

Spec == Init /\ [][Next]_vars

\* Time passes and the process runs (restart: always); nothing has to change in Vend.
Fairness == WF_vars(Elapse) /\ WF_vars(WorkerStep)

FairSpec == Spec /\ Fairness
-----------------------------------------------------------------------------
(* Properties *)

\* An organisation marked as being synchronised is: failed fetches and a claim that
\* failed halfway leave no mark behind.  Only a process that dies, or a release that
\* fails, does (stuck), and no process ever finds what it left marked.
ClaimIsHeld ==
  (\E k \in Kinds : sync[k].syncInProcess) /\ ~stuck => worker.pc \notin {"idle", "claim"}

\* Whatever the version that was saved covers is in the database as it is in Vend,
\* through pages, failures halfway through a batch, crashes, and changes in Vend
\* between a fetch and its save; so a later sync misses nothing.  Suppliers that
\* were deleted and inventory have properties of their own.
SyncedMeansSaved ==
  \A r \in Suppliers \union Products \union Sales :
    LET k == CHOOSE l \in Kinds : r \in Of(l)
    IN  0 < vend[r].version /\ vend[r].version <= sync[k].version =>
          IF vend[r].deleted THEN r \in Suppliers \/ ~InDb(r)
                             ELSE db[r].version = vend[r].version

\* Once Vend and the API are quiet the catalogue catches up, whatever failed before:
\* unless the organisation is stuck, and for sales unless one was deleted.
CatalogueCatchesUp ==
  <>[](\/ stuck
       \/ \A k \in Kinds :
            sync[k].created =>
              \/ k = "sales" /\ \E r \in Sales : vend[r].deleted
              \/ Changed(k, sync[k].version) = {})

\* "Inventory is dependent on products, so it needs products"
\* (find-differential-vend-data.js:161): between syncs, inventory of a product that
\* is known has been saved if the version says so.
InventoryIsNotSkipped ==
  \A r \in Inventory :
    worker.pc = "idle" /\ InVend(r) /\ vend[r].version <= sync["inventory"].version
      /\ InDb(Ref[r])
    => db[r].version = vend[r].version
=============================================================================

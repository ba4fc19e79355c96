--------------------------- MODULE VendSyncProofs ---------------------------
(***************************************************************************)
(* Proofs about VendSync, for any catalogue, page size and number of       *)
(* changes and failures.                                                   *)
(***************************************************************************)
EXTENDS VendSync, TLAPS

\* The changes up to v were all made when v was reached: the next one is later.
IsReached(v) == v = 0 \/ \E r \in Records : v <= vend[r].version

\* A SyncModel that is marked exists, so the release takes the mark away.
OnlyCreatedAreMarked == \A k \in Kinds : sync[k].syncInProcess => sync[k].created

VersionsAreReached == \A k \in Kinds : IsReached(sync[k].version)

InKind == {"fetch", "save", "lines", "version", "stores"}
HasPage == {"save", "lines", "version"}

\* Only SyncModels that exist are fetched.  While a kind is fetched, its saved version is the one the page starts after.
KindsAreCreated ==
  /\ \A k \in worker.kinds : sync[k].created
  /\ worker.pc \in InKind => sync[worker.kind].created

FetchesAfterVersion ==
  worker.pc \in InKind => worker.after = sync[worker.kind].version

\* A page is of the kind that is fetched, and only suppliers get virtual stores.
PageIsOfKind ==
  /\ worker.pc \in HasPage \union {"stores"} => DOMAIN worker.page \subseteq Of(worker.kind)
  /\ worker.pc = "stores" => worker.kind = "suppliers"

\* A page still has all its records as they are in Vend, except for later changes.
PageIsComplete ==
  worker.pc \in HasPage =>
    /\ IsReached(worker.upto)
    /\ \A r \in DOMAIN worker.page :
         worker.after < worker.page[r].version /\ worker.page[r].version <= vend[r].version
    /\ \A r \in Of(worker.kind) :
         worker.after < vend[r].version /\ vend[r].version <= worker.upto =>
           r \in DOMAIN worker.page /\ worker.page[r] = vend[r]

\* What it means that the database has a record as Vend had it.
Has(r, record) == IF record.deleted THEN r \in Suppliers \/ db[r].version = 0
                                    ELSE db[r].version = record.version

PageIsSaved ==
  worker.pc \in {"lines", "version"} =>
    \A r \in DOMAIN worker.page \ Inventory : Has(r, worker.page[r])

\* SyncedMeansSaved, kind by kind.
KindIsSaved(k) ==
  \A r \in Of(k) \ Inventory :
    0 < vend[r].version /\ vend[r].version <= sync[k].version => Has(r, vend[r])

SavedInv ==
  /\ VersionsAreReached /\ KindsAreCreated /\ FetchesAfterVersion
  /\ PageIsComplete /\ PageIsSaved
  /\ \A k \in Kinds : KindIsSaved(k)

SyncInv == TypeOK /\ PageIsOfKind /\ SavedInv

-----------------------------------------------------------------------------
(* The kinds *)

LEMMA OfIsSome == \A k \in Kinds : Of(k) \in {Suppliers, Products, Inventory, Sales}
BY DEF Of

LEMMA OfRecords == \A k \in Kinds : Of(k) \subseteq Records
BY OfIsSome DEF Records

LEMMA KindsAreApart == \A k, l \in Kinds : \A r \in Of(k) : r \in Of(l) => k = l
BY SyncAssumption

-----------------------------------------------------------------------------
(* Types *)

Pages == UNION {[S -> VendRecord] : S \in SUBSET Records}

LEMMA PageType ==
  \A p : p \in Pages <=> /\ DOMAIN p \in SUBSET Records
                         /\ p \in [DOMAIN p -> VendRecord]
BY DEF Pages

LEMMA NoPageType == NoPage \in Pages
<1>1. NoPage \in [{} -> VendRecord]
  BY DEF NoPage
<1> QED
  BY <1>1 DEF Pages

LEMMA WorkerType ==
  ASSUME NEW w \in Worker
  PROVE  /\ w = [pc |-> w.pc, kinds |-> w.kinds, kind |-> w.kind, after |-> w.after,
                 upto |-> w.upto, page |-> w.page]
         /\ w.pc \in {"idle", "claim", "connect"} \union InKind \union {"next", "release"}
         /\ w.kinds \subseteq Kinds /\ w.kind \in Kinds
         /\ w.after \in Version /\ w.upto \in Version /\ w.page \in Pages
BY DEF Worker, Pages, InKind

LEMMA IdleWorkerType == IdleWorker \in Worker
BY NoPageType, SyncAssumption DEF IdleWorker, Worker, Kinds, Version, Pages

LEMMA EndKindType ==
  ASSUME TypeOK, EndKind
  PROVE  worker' \in Worker /\ worker'.pc = "next"
<1>1. worker' = [pc |-> "next", kinds |-> worker.kinds, kind |-> "suppliers", after |-> 0,
                 upto |-> 0, page |-> NoPage]
  BY DEF EndKind, IdleWorker
<1>2. worker.kinds \subseteq Kinds
  BY WorkerType DEF TypeOK
<1> QED
  BY <1>1, <1>2, NoPageType, SyncAssumption DEF Worker, Kinds, Version, Pages

LEMMA GotoType ==
  ASSUME TypeOK, NEW pc \in {"idle", "claim", "connect", "next", "release"} \union InKind,
         Goto(pc)
  PROVE  worker' \in Worker /\ worker'.pc = pc
BY DEF Goto, TypeOK, Worker, InKind

LEMMA FaultType ==
  ASSUME faults \in 0 .. MaxFaults, Fault \/ UNCHANGED faults
  PROVE  faults' \in 0 .. MaxFaults
BY SyncAssumption DEF Fault

LEMMA ChangeType ==
  ASSUME TypeOK, NEW r \in Records, VendChanges(r) \/ VendDeletes(r)
  PROVE  TypeOK'
<1>1. CASE VendChanges(r)
  BY <1>1 DEF VendChanges, TypeOK, VendRecord
<1>2. CASE VendDeletes(r)
  BY <1>2 DEF VendDeletes, TypeOK, VendRecord
<1> QED
  BY <1>1, <1>2

LEMMA SyncModelsType ==
  ASSUME TypeOK, Elapse \/ \E k \in Kinds : CreateSyncModel(k)
  PROVE  TypeOK'
<1>1. CASE Elapse
  BY <1>1 DEF Elapse, TypeOK, SyncModel
<1>2. ASSUME NEW k \in Kinds, CreateSyncModel(k) PROVE TypeOK'
  BY <1>2, SyncAssumption DEF CreateSyncModel, TypeOK, SyncModel, Version
<1> QED
  BY <1>1, <1>2

LEMMA ClaimType ==
  ASSUME TypeOK, FindSyncModels \/ Claim \/ ClaimFails \/ Connect \/ ConnectFails
  PROVE  TypeOK'
<1>1. CASE FindSyncModels
  <2>1. PICK found \in SUBSET Kinds : worker' = [IdleWorker EXCEPT !.pc = "claim", !.kinds = found]
    BY <1>1 DEF FindSyncModels
  <2>2. worker' \in Worker
    BY <2>1, IdleWorkerType DEF Worker
  <2> QED
    BY <1>1, <2>2 DEF FindSyncModels, TypeOK
<1>2. CASE Claim
  <2>1. sync' \in [Kinds -> SyncModel]
    BY <1>2 DEF Claim, UpdateMany, TypeOK, SyncModel
  <2>2. worker' \in Worker
    BY <1>2, GotoType DEF Claim, InKind
  <2> QED
    BY <1>2, <2>1, <2>2 DEF Claim, TypeOK
<1>3. CASE ClaimFails \/ Connect \/ ConnectFails
  <2>1. worker' \in Worker
    BY <1>3, GotoType DEF ClaimFails, Connect, ConnectFails
  <2>2. faults' \in 0 .. MaxFaults
    BY <1>3, SyncAssumption DEF ClaimFails, Connect, ConnectFails, Fault, TypeOK
  <2> QED
    BY <1>3, <2>1, <2>2 DEF ClaimFails, Connect, ConnectFails, TypeOK
<1> QED
  BY <1>1, <1>2, <1>3

LEMMA NextKindType == ASSUME TypeOK, NextKind PROVE TypeOK'
<1>1. worker' \in Worker
  <2>1. CASE Goto("release")
    BY <2>1, GotoType
  <2>2. ASSUME NEW k \in worker.kinds,
               worker' = [worker EXCEPT !.pc = "fetch", !.kind = k, !.kinds = @ \ {k},
                                        !.after = sync[k].version]
        PROVE  worker' \in Worker
    <3>1. k \in Kinds /\ worker \in Worker
      BY WorkerType DEF TypeOK
    <3>2. sync[k].version \in Version
      BY <3>1 DEF TypeOK, SyncModel
    <3> QED
      BY <2>2, <3>1, <3>2 DEF Worker
  <2> QED
    BY <2>1, <2>2 DEF NextKind
<1> QED
  BY <1>1 DEF NextKind, TypeOK

LEMMA ReleaseType ==
  ASSUME TypeOK, Release \/ ReleaseFails
  PROVE  TypeOK'
<1>1. worker' \in Worker
  BY IdleWorkerType DEF Release, ReleaseFails
<1>2. sync' \in [Kinds -> SyncModel]
  BY DEF Release, ReleaseFails, UpdateMany, TypeOK, SyncModel
<1>3. faults' \in 0 .. MaxFaults
  BY FaultType DEF Release, ReleaseFails, TypeOK
<1>4. stuck' \in BOOLEAN
  BY Zenon DEF Release, ReleaseFails
<1> QED
  BY <1>1, <1>2, <1>3, <1>4 DEF Release, ReleaseFails, TypeOK

LEMMA FetchType == ASSUME TypeOK, Fetch PROVE TypeOK'
<1>1. worker' \in Worker
  <2>1. CASE EndKind
    BY <2>1, EndKindType
  <2>2. ASSUME NEW last \in Of(worker.kind), NEW S \in SUBSET Of(worker.kind),
               worker' = [worker EXCEPT !.pc = "save", !.upto = vend[last].version,
                            !.page = [r \in S |-> vend[r]]]
        PROVE  worker' \in Worker
    <3>1. S \subseteq Records /\ last \in Records /\ worker \in Worker
      BY WorkerType, OfRecords DEF TypeOK
    <3>2. [r \in S |-> vend[r]] \in [S -> VendRecord]
      BY <3>1 DEF TypeOK
    <3>3. vend[last].version \in Version
      BY <3>1 DEF TypeOK, VendRecord
    <3>4. [r \in S |-> vend[r]] \in Pages
      BY <3>1, <3>2 DEF Pages
    <3> QED
      BY <2>2, <3>1, <3>3, <3>4 DEF Worker, Pages
  <2> QED
    BY <2>1, <2>2 DEF Fetch, Changed
<1> QED
  BY <1>1 DEF Fetch, TypeOK

LEMMA SavedType ==
  ASSUME TypeOK, NEW S \in SUBSET DOMAIN worker.page, SaveRecords(S)
  PROVE  db' \in [Records -> Saved]
<1>1. SUFFICES ASSUME NEW r \in S PROVE r \in Records /\ SavedRecord(r) \in Saved
  BY DEF SaveRecords, TypeOK
<1>2. r \in Records /\ worker.page[r] \in VendRecord
  BY WorkerType, PageType DEF TypeOK
<1>3. db[r] \in Saved
  BY <1>2 DEF TypeOK
<1>4. InDb(Ref[r]) \in BOOLEAN
  BY DEF InDb
<1>5. [version |-> 0, linked |-> FALSE] \in Saved
  BY SyncAssumption DEF Saved, Version
<1>6. \A b \in BOOLEAN : [version |-> worker.page[r].version, linked |-> b] \in Saved
  BY <1>2 DEF VendRecord, Saved
<1>7. (IF r \in Products THEN InDb(Ref[r]) ELSE r \notin Sales) \in BOOLEAN
  BY <1>4
<1> QED
  BY <1>2, <1>3, <1>5, <1>6, <1>7 DEF SavedRecord

LEMMA SaveSomeType == ASSUME TypeOK, SaveSome PROVE db' \in [Records -> Saved]
<1>1. CASE worker.pc = "save"
  BY <1>1, SavedType DEF SaveSome
<1>2. CASE worker.pc # "save"
  BY <1>2 DEF SaveSome, TypeOK
<1> QED
  BY <1>1, <1>2

LEMMA SaveType ==
  ASSUME TypeOK, SaveBatch \/ SaveLineItems
  PROVE  TypeOK'
<1>1. CASE SaveBatch
  <2>1. worker' \in Worker
    BY <1>1, GotoType DEF SaveBatch, InKind
  <2> QED
    BY <1>1, <2>1, SavedType DEF SaveBatch, TypeOK
<1>2. CASE SaveLineItems
  <2>1. worker' \in Worker
    BY <1>2, GotoType, EndKindType DEF SaveLineItems, InKind
  <2>2. \A r \in Records : db[r] \in Saved /\ [db[r] EXCEPT !.linked = TRUE] \in Saved
    BY DEF TypeOK, Saved
  <2>3. db' \in [Records -> Saved]
    <3>1. CASE UNCHANGED db
      BY <3>1 DEF TypeOK
    <3>2. CASE db' = [r \in Records |-> IF r \in DOMAIN worker.page
                        THEN [db[r] EXCEPT !.linked = TRUE] ELSE db[r]]
      BY <2>2, <3>2
    <3> QED
      BY <1>2, <3>1, <3>2 DEF SaveLineItems
  <2> QED
    BY <1>2, <2>1, <2>3 DEF SaveLineItems, TypeOK
<1> QED
  BY <1>1, <1>2

LEMMA SaveVersionType ==
  ASSUME TypeOK, PageIsOfKind, SaveVersion \/ AssignVirtualStores
  PROVE  TypeOK'
<1> DEFINE W(pc, after, upto, page) ==
      [worker EXCEPT !.pc = pc, !.after = after, !.upto = upto, !.page = page]
<1>0. /\ worker \in Worker /\ worker.kind \in Kinds /\ worker.upto \in Version
      /\ worker.after \in Version /\ worker.page \in Pages /\ NoPage \in Pages
      /\ 0 \in Version
  BY WorkerType, NoPageType, SyncAssumption DEF TypeOK, Version
<1>1. CASE SaveVersion
  <2>1. sync' \in [Kinds -> SyncModel]
    BY <1>0, <1>1 DEF SaveVersion, TypeOK, SyncModel
  <2>2. worker' \in Worker
    <3>1. CASE worker.kind = "suppliers"
      BY <1>0, <1>1, <3>1 DEF SaveVersion, Worker, Pages
    <3>2. CASE worker.kind # "suppliers"
      BY <1>0, <1>1, <3>2 DEF SaveVersion, Worker, Pages
    <3> QED
      BY <3>1, <3>2
  <2> QED
    BY <1>1, <2>1, <2>2 DEF SaveVersion, TypeOK
<1>2. CASE AssignVirtualStores
  <2>1. worker' \in Worker
    BY <1>0, <1>2 DEF AssignVirtualStores, Worker, Pages
  <2>2. stores' \subseteq Suppliers
    BY <1>2 DEF AssignVirtualStores, TypeOK, PageIsOfKind, Of
  <2> QED
    BY <1>2, <2>1, <2>2 DEF AssignVirtualStores, TypeOK
<1> QED
  BY <1>1, <1>2

LEMMA FailureType ==
  ASSUME TypeOK, FetchFails \/ Crash
  PROVE  TypeOK'
<1>1. worker' \in Worker
  BY IdleWorkerType, EndKindType DEF FetchFails, Crash
<1>2. faults' \in 0 .. MaxFaults
  BY FaultType DEF FetchFails, Crash, TypeOK
<1>3. stuck' \in BOOLEAN
  BY Zenon DEF FetchFails, Crash, TypeOK
<1> QED
  BY <1>1, <1>2, <1>3, SaveSomeType DEF FetchFails, Crash, TypeOK

LEMMA TypeNext == TypeOK /\ PageIsOfKind /\ [Next]_vars => TypeOK'
<1> SUFFICES ASSUME TypeOK, PageIsOfKind, [Next]_vars PROVE TypeOK'
  OBVIOUS
<1>1. CASE UNCHANGED vars
  BY <1>1 DEF vars, TypeOK
<1>2. CASE Environment
  BY <1>2, ChangeType, SyncModelsType DEF Environment
<1>3. CASE Elapse
  BY <1>3, SyncModelsType
<1>4. CASE WorkerStep
  BY <1>4, ClaimType, NextKindType, ReleaseType, FetchType, SaveType, SaveVersionType,
     FailureType DEF WorkerStep
<1> QED
  BY <1>1, <1>2, <1>3, <1>4 DEF Next

\* What a step of the process does to the page it holds: it keeps it, drops it, or
\* fetches one of its kind.
LEMMA PageStep ==
  ASSUME TypeOK, WorkerStep
  PROVE  \/ worker'.pc \notin HasPage \union {"stores"}
         \/ /\ worker.pc \in HasPage
            /\ worker'.kind = worker.kind /\ worker'.page = worker.page
            /\ worker'.pc = "stores" => worker.kind = "suppliers"
         \/ Fetch /\ worker'.kind = worker.kind /\ worker'.pc = "save"
              /\ DOMAIN worker'.page \subseteq Of(worker.kind)
<1> USE DEF HasPage
<1>0. worker \in Worker /\ IdleWorker.pc = "idle"
  BY DEF TypeOK, IdleWorker
<1>1. CASE FindSyncModels \/ Claim \/ ClaimFails \/ Connect \/ ConnectFails \/ NextKind
  BY <1>0, <1>1 DEF FindSyncModels, Claim, ClaimFails, Connect, ConnectFails, NextKind, Goto,
                    IdleWorker, Worker
<1>2. CASE Fetch
  <2>1. CASE EndKind
    BY <2>1, EndKindType
  <2>2. ASSUME NEW S \in SUBSET Of(worker.kind), NEW v,
               worker' = [worker EXCEPT !.pc = "save", !.upto = v,
                            !.page = [r \in S |-> vend[r]]]
        PROVE  /\ worker'.kind = worker.kind /\ worker'.pc = "save"
               /\ DOMAIN worker'.page \subseteq Of(worker.kind)
    BY <1>0, <2>2 DEF Worker
  <2> QED
    BY <1>2, <2>1, <2>2 DEF Fetch, Changed
<1>3. CASE SaveBatch \/ SaveLineItems
  BY <1>0, <1>3, EndKindType DEF SaveBatch, SaveLineItems, Goto, Worker
<1>4. CASE SaveVersion \/ AssignVirtualStores
  BY <1>0, <1>4 DEF SaveVersion, AssignVirtualStores, Worker
<1>5. CASE FetchFails \/ Release \/ ReleaseFails \/ Crash
  BY <1>0, <1>5, EndKindType DEF FetchFails, Release, ReleaseFails, Crash
<1> QED
  BY <1>1, <1>2, <1>3, <1>4, <1>5 DEF WorkerStep

LEMMA PageNext == TypeOK /\ PageIsOfKind /\ [Next]_vars => PageIsOfKind'
<1> SUFFICES ASSUME TypeOK, PageIsOfKind, [Next]_vars PROVE PageIsOfKind'
  OBVIOUS
<1>1. CASE UNCHANGED worker
  BY <1>1 DEF PageIsOfKind
<1>2. CASE WorkerStep
  BY <1>2, PageStep DEF PageIsOfKind, HasPage, Of
<1> QED
  BY <1>1, <1>2 DEF Next, vars, Environment, VendChanges, VendDeletes, CreateSyncModel, Elapse

LEMMA TypeInit == Init => TypeOK
<1> SUFFICES ASSUME Init PROVE TypeOK
  OBVIOUS
<1>1. 0 \in Version /\ 0 \in 0 .. MaxFaults
  BY SyncAssumption DEF Version
<1>2. vend \in [Records -> VendRecord] /\ db \in [Records -> Saved]
  BY <1>1 DEF Init, VendRecord, Saved
<1>3. sync \in [Kinds -> SyncModel]
  <2>1. \A k \in Kinds : (k \in Created) \in BOOLEAN
    OBVIOUS
  <2> QED
    BY <1>1, <2>1 DEF Init, SyncModel
<1> QED
  BY <1>1, <1>2, <1>3, IdleWorkerType DEF Init, TypeOK

\* Every reachable state of the synchronisation is well typed: in particular a saved
\* version is never past the changes Vend can have numbered, and only suppliers get a
\* virtual store.
THEOREM SyncTypeCorrect == Spec => []TypeOK
<1>1. Init => PageIsOfKind
  BY DEF Init, PageIsOfKind, IdleWorker, HasPage
<1> QED
  BY <1>1, TypeInit, TypeNext, PageNext, PTL DEF Spec

-----------------------------------------------------------------------------
(* The claim *)

ClaimInv == TypeOK /\ PageIsOfKind /\ OnlyCreatedAreMarked /\ ClaimIsHeld

LEMMA ClaimStep ==
  ASSUME ClaimInv, WorkerStep
  PROVE  OnlyCreatedAreMarked' /\ ClaimIsHeld'
<1> DEFINE Marked == \E k \in Kinds : sync[k].syncInProcess
<1> USE DEF ClaimInv
<1>0. worker \in Worker /\ sync \in [Kinds -> SyncModel] /\ IdleWorker.pc = "idle"
  BY DEF TypeOK, IdleWorker
<1>1. ASSUME UNCHANGED <<sync, stuck>>, worker'.pc \notin {"idle", "claim"} \/ ~Marked \/ stuck
      PROVE  OnlyCreatedAreMarked' /\ ClaimIsHeld'
  BY <1>1 DEF OnlyCreatedAreMarked, ClaimIsHeld
<1>2. CASE FindSyncModels
  BY <1>1, <1>2 DEF FindSyncModels, ClaimIsHeld
<1>3. CASE Claim
  <2>1. worker'.pc = "connect"
    BY <1>0, <1>3 DEF Claim, Goto, Worker
  <2>2. OnlyCreatedAreMarked'
    BY <1>0, <1>3 DEF Claim, UpdateMany, OnlyCreatedAreMarked, SyncModel
  <2> QED
    BY <2>1, <2>2 DEF ClaimIsHeld
<1>4. CASE ClaimFails \/ Connect \/ ConnectFails \/ NextKind
  <2>1. worker'.pc \notin {"idle", "claim"}
    BY <1>0, <1>4 DEF ClaimFails, Connect, ConnectFails, NextKind, Goto, Worker
  <2> QED
    BY <1>1, <1>4, <2>1 DEF ClaimFails, Connect, ConnectFails, NextKind
<1>5. CASE Fetch \/ SaveBatch \/ SaveLineItems \/ AssignVirtualStores \/ FetchFails
  <2>1. worker'.pc \notin {"idle", "claim"}
    BY <1>0, <1>5, EndKindType
       DEF Fetch, SaveBatch, SaveLineItems, AssignVirtualStores, FetchFails, Goto, Worker
  <2> QED
    BY <1>1, <1>5, <2>1
       DEF Fetch, SaveBatch, SaveLineItems, AssignVirtualStores, FetchFails
<1>6. CASE SaveVersion
  <2>1. worker'.pc \notin {"idle", "claim"}
    BY <1>0, <1>6 DEF SaveVersion, Worker
  <2>2. \A k \in Kinds : /\ sync'[k].syncInProcess = sync[k].syncInProcess
                         /\ sync'[k].created = sync[k].created
    BY <1>0, <1>6 DEF SaveVersion, SyncModel
  <2> QED
    BY <2>1, <2>2 DEF ClaimIsHeld, OnlyCreatedAreMarked
<1>7. CASE Release
  <2>1. \A k \in Kinds : ~sync'[k].syncInProcess
    BY <1>0, <1>7 DEF Release, UpdateMany, OnlyCreatedAreMarked, SyncModel
  <2> QED
    BY <2>1 DEF ClaimIsHeld, OnlyCreatedAreMarked
<1>8. CASE ReleaseFails \/ Crash
  BY <1>8 DEF ReleaseFails, Crash, OnlyCreatedAreMarked, ClaimIsHeld
<1> QED
  BY <1>2, <1>3, <1>4, <1>5, <1>6, <1>7, <1>8 DEF WorkerStep

LEMMA ClaimOthers ==
  ASSUME ClaimInv, Environment \/ Elapse
  PROVE  OnlyCreatedAreMarked' /\ ClaimIsHeld'
<1>0. sync \in [Kinds -> SyncModel] /\ worker' = worker /\ stuck' = stuck
  BY DEF ClaimInv, TypeOK, Environment, VendChanges, VendDeletes, CreateSyncModel, Elapse
<1>1. \A k \in Kinds : sync'[k].syncInProcess =>
                         sync[k].syncInProcess /\ sync'[k].created = sync[k].created
  BY <1>0 DEF Environment, VendChanges, VendDeletes, CreateSyncModel, Elapse, SyncModel
<1> QED
  BY <1>0, <1>1 DEF ClaimInv, OnlyCreatedAreMarked, ClaimIsHeld

\* As long as no process died with the claim and no release failed, an organisation is
\* marked as being synchronised only while the process synchronises it: errors of the
\* connection and of any fetch, even of the claim itself, end in the release.
THEOREM ClaimsAreReleased == Spec => []ClaimIsHeld
<1>1. Init => ClaimInv
  <2>1. Init => PageIsOfKind
    BY DEF Init, PageIsOfKind, IdleWorker, HasPage
  <2>2. Init => \A k \in Kinds : ~sync[k].syncInProcess
    BY DEF Init
  <2> QED
    BY <2>1, <2>2, TypeInit DEF ClaimInv, OnlyCreatedAreMarked, ClaimIsHeld
<1>2. ClaimInv /\ [Next]_vars => ClaimInv'
  <2>1. ClaimInv /\ UNCHANGED vars => ClaimInv'
    BY DEF vars, ClaimInv, TypeOK, PageIsOfKind, OnlyCreatedAreMarked, ClaimIsHeld
  <2> QED
    BY <2>1, TypeNext, PageNext, ClaimStep, ClaimOthers DEF ClaimInv, Next
<1>3. ClaimInv => ClaimIsHeld
  BY DEF ClaimInv
<1> QED
  BY <1>1, <1>2, <1>3, PTL DEF Spec

-----------------------------------------------------------------------------
(* What is saved *)

SameVend == vend' = vend
SameDb == \A r \in Records : db'[r].version = db[r].version
SameSync == \A k \in Kinds : /\ sync'[k].version = sync[k].version
                             /\ sync'[k].created = sync[k].created

LEMMA HasStays ==
  ASSUME SameDb, NEW r \in Records, NEW record, Has(r, record)
  PROVE  Has(r, record)'
BY DEF SameDb, Has

\* A step that changes neither Vend, nor what was saved, nor a version.
LEMMA KeepsSaved ==
  ASSUME SyncInv, SameVend, SameDb, SameSync
  PROVE  VersionsAreReached' /\ \A k \in Kinds : KindIsSaved(k)'
<1>1. VersionsAreReached'
  BY DEF SyncInv, SavedInv, VersionsAreReached, IsReached, SameVend, SameSync
<1>2. ASSUME NEW k \in Kinds PROVE KindIsSaved(k)'
  <2>1. SUFFICES ASSUME NEW r \in Of(k) \ Inventory,
                        0 < vend[r].version, vend[r].version <= sync[k].version
                 PROVE  Has(r, vend[r])'
    BY DEF KindIsSaved, SameVend, SameSync
  <2>2. Has(r, vend[r]) /\ r \in Records
    BY <2>1, OfRecords DEF SyncInv, SavedInv, KindIsSaved
  <2> QED
    BY <2>2, HasStays DEF SameVend, Has, SameDb
<1> QED
  BY <1>1, <1>2

\* The process ends a kind, or is not fetching.
LEMMA Leave ==
  ASSUME SyncInv, SameVend, SameDb, SameSync, worker'.pc \notin InKind,
         \A k \in worker'.kinds : k \in Kinds /\ sync[k].created
  PROVE  SavedInv'
BY KeepsSaved
   DEF SavedInv, KindsAreCreated, FetchesAfterVersion, PageIsComplete, PageIsSaved,
       SameSync, HasPage, InKind

\* The process goes on with its kind.
LEMMA GoOn ==
  ASSUME SyncInv, SameVend, SameDb, SameSync, worker.pc \in InKind,
         worker'.kinds = worker.kinds, worker'.kind = worker.kind,
         worker'.after = worker.after,
         worker'.pc \in HasPage =>
           worker.pc \in HasPage /\ worker'.upto = worker.upto /\ worker'.page = worker.page,
         worker'.pc \in {"lines", "version"} => worker.pc \in {"lines", "version"}
  PROVE  SavedInv'
<1>0. worker.kind \in Kinds /\ worker.kinds \subseteq Kinds
  BY WorkerType DEF SyncInv, TypeOK
<1>1. KindsAreCreated' /\ FetchesAfterVersion'
  BY <1>0 DEF SyncInv, SavedInv, KindsAreCreated, FetchesAfterVersion, SameSync
<1>2. PageIsComplete'
  BY DEF SyncInv, SavedInv, PageIsComplete, SameVend, IsReached
<1>3. PageIsSaved'
  <2>1. SUFFICES ASSUME worker'.pc \in {"lines", "version"},
                        NEW r \in DOMAIN worker.page \ Inventory
                 PROVE  Has(r, worker.page[r])'
    BY DEF PageIsSaved, HasPage
  <2>2. Has(r, worker.page[r]) /\ r \in Records
    BY <2>1, WorkerType, PageType DEF SyncInv, SavedInv, PageIsSaved, TypeOK
  <2> QED
    BY <2>1, <2>2, HasStays DEF HasPage, Has, SameDb
<1> QED
  BY <1>1, <1>2, <1>3, KeepsSaved DEF SavedInv

LEMMA NewPage == ASSUME SyncInv, Fetch PROVE SavedInv'
<1>0. /\ worker \in Worker /\ worker.kind \in Kinds /\ worker.kinds \subseteq Kinds
      /\ SameVend /\ SameDb /\ SameSync
  BY WorkerType DEF SyncInv, TypeOK, Fetch, SameVend, SameDb, SameSync
<1>1. CASE EndKind
  <2>1. worker'.kinds = worker.kinds /\ worker'.pc = "next"
    BY <1>1 DEF EndKind, IdleWorker
  <2> QED
    BY <1>0, <2>1, Leave DEF InKind, SyncInv, SavedInv, KindsAreCreated
<1>2. ASSUME NEW last \in Changed(worker.kind, worker.after), NEW v, v = vend[last].version,
             NEW S, S = {r \in Changed(worker.kind, worker.after) : vend[r].version <= v},
             worker' = [worker EXCEPT !.pc = "save", !.upto = v,
                          !.page = [r \in S |-> vend[r]]]
      PROVE  SavedInv'
  <2>1. /\ worker'.pc = "save" /\ worker'.upto = v /\ worker'.kind = worker.kind
        /\ worker'.kinds = worker.kinds /\ worker'.after = worker.after
        /\ worker'.page = [r \in S |-> vend[r]]
    BY <1>0, <1>2 DEF Worker
  <2>2. last \in Records
    BY <1>0, OfRecords DEF Changed
  <2>3. \A r \in Records : vend[r].version \in Nat
    BY DEF SyncInv, TypeOK, VendRecord, Version
  <2>4. PageIsComplete'
    <3>1. IsReached(worker.upto)'
      BY <1>0, <1>2, <2>1, <2>2, <2>3 DEF IsReached, SameVend
    <3>2. \A r \in S : /\ worker'.after < worker'.page[r].version
                       /\ worker'.page[r].version <= vend'[r].version
      BY <1>0, <1>2, <2>1, <2>3, OfRecords DEF Changed, SameVend
    <3>3. \A r \in Of(worker.kind) :
            worker'.after < vend'[r].version /\ vend'[r].version <= worker'.upto =>
              r \in S /\ worker'.page[r] = vend'[r]
      BY <1>0, <1>2, <2>1, <2>3, OfRecords DEF Changed, SameVend
    <3> QED
      BY <2>1, <3>1, <3>2, <3>3 DEF PageIsComplete
  <2>5. KindsAreCreated' /\ FetchesAfterVersion' /\ PageIsSaved'
    BY <1>0, <1>2, <2>1
       DEF SyncInv, SavedInv, KindsAreCreated, FetchesAfterVersion, PageIsSaved, InKind,
           SameSync, Fetch
  <2> QED
    BY <1>0, <2>4, <2>5, KeepsSaved DEF SavedInv
<1> QED
  BY <1>1, <1>2 DEF Fetch

\* Saving some records of a page, or all, touches nothing the saved versions cover.
LEMMA SavingKeeps ==
  ASSUME SyncInv, worker.pc = "save", NEW S \in SUBSET DOMAIN worker.page, SaveRecords(S),
         SameVend, SameSync
  PROVE  VersionsAreReached' /\ \A k \in Kinds : KindIsSaved(k)'
<1>1. VersionsAreReached'
  BY DEF SyncInv, SavedInv, VersionsAreReached, IsReached, SameVend, SameSync
<1>2. ASSUME NEW k \in Kinds PROVE KindIsSaved(k)'
  <2>1. SUFFICES ASSUME NEW r \in Of(k) \ Inventory,
                        0 < vend[r].version, vend[r].version <= sync[k].version
                 PROVE  Has(r, vend[r])'
    BY DEF KindIsSaved, SameVend, SameSync
  <2>2. Has(r, vend[r]) /\ r \in Records
    BY <2>1, OfRecords DEF SyncInv, SavedInv, KindIsSaved
  <2>3. r \notin DOMAIN worker.page
    <3>1. SUFFICES ASSUME r \in DOMAIN worker.page PROVE FALSE
      OBVIOUS
    <3>2. worker.kind \in Kinds /\ worker.after \in Version
          /\ worker.page[r] \in VendRecord
      BY <3>1, WorkerType, PageType DEF SyncInv, TypeOK
    <3>3. worker.kind = k
      BY <3>1, <3>2, KindsAreApart DEF SyncInv, PageIsOfKind, HasPage
    <3>4. worker.after < worker.page[r].version /\ worker.page[r].version <= vend[r].version
      BY <3>1 DEF SyncInv, SavedInv, PageIsComplete, HasPage
    <3>5. worker.after = sync[k].version
      BY <3>3 DEF SyncInv, SavedInv, FetchesAfterVersion, InKind
    <3>6. vend[r].version \in Nat /\ worker.page[r].version \in Nat /\ worker.after \in Nat
      BY <2>2, <3>2 DEF SyncInv, TypeOK, VendRecord, Version
    <3> QED
      BY <2>1, <3>4, <3>5, <3>6
  <2>4. db'[r] = db[r]
    BY <2>2, <2>3 DEF SaveRecords
  <2> QED
    BY <2>2, <2>4 DEF Has, SameVend
<1> QED
  BY <1>1, <1>2

LEMMA BatchSaved == ASSUME SyncInv, SaveBatch PROVE SavedInv'
<1>0. /\ worker \in Worker /\ worker.kind \in Kinds /\ worker.kinds \subseteq Kinds
      /\ SameVend /\ SameSync
  BY WorkerType DEF SyncInv, TypeOK, SaveBatch, SameVend, SameSync
<1>1. /\ worker'.pc \in {"lines", "version"} /\ worker'.upto = worker.upto
      /\ worker'.kind = worker.kind /\ worker'.kinds = worker.kinds
      /\ worker'.after = worker.after /\ worker'.page = worker.page
  BY <1>0 DEF SaveBatch, Goto, Worker
<1>2. KindsAreCreated' /\ FetchesAfterVersion' /\ PageIsComplete'
  BY <1>0, <1>1
     DEF SyncInv, SavedInv, KindsAreCreated, FetchesAfterVersion, PageIsComplete, InKind,
         HasPage, SaveBatch, SameVend, SameSync, IsReached
<1>3. PageIsSaved'
  <2>1. SUFFICES ASSUME NEW r \in DOMAIN worker.page \ Inventory
                 PROVE  Has(r, worker.page[r])'
    BY <1>1 DEF PageIsSaved
  <2>2. r \in Records /\ worker.page[r] \in VendRecord
    BY <1>0, WorkerType, PageType
  <2>3. db'[r] = SavedRecord(r)
    BY <2>2 DEF SaveBatch, SaveRecords
  <2> QED
    BY <1>1, <2>1, <2>2, <2>3 DEF SavedRecord, Has, VendRecord
<1> QED
  BY <1>0, <1>2, <1>3, SavingKeeps DEF SavedInv, SaveBatch

LEMMA LinesSaved == ASSUME SyncInv, SaveLineItems PROVE SavedInv'
<1>0. /\ worker \in Worker /\ worker.kind \in Kinds /\ worker.kinds \subseteq Kinds
      /\ SameVend /\ SameSync
  BY WorkerType DEF SyncInv, TypeOK, SaveLineItems, SameVend, SameSync
<1>1. SameDb
  BY DEF SaveLineItems, SameDb, SyncInv, TypeOK, Saved
<1>2. CASE EndKind
  <2>1. worker'.kinds = worker.kinds /\ worker'.pc = "next"
    BY <1>2 DEF EndKind, IdleWorker
  <2> QED
    BY <1>0, <1>1, <2>1, Leave DEF InKind, SyncInv, SavedInv, KindsAreCreated
<1>3. CASE Goto("version")
  <2>1. /\ worker'.pc = "version" /\ worker'.upto = worker.upto
        /\ worker'.kind = worker.kind /\ worker'.kinds = worker.kinds
        /\ worker'.after = worker.after /\ worker'.page = worker.page
    BY <1>0, <1>3 DEF Goto, Worker
  <2> QED
    BY <1>0, <1>1, <2>1, GoOn DEF SaveLineItems, InKind, HasPage
<1> QED
  BY <1>2, <1>3 DEF SaveLineItems

LEMMA StoresAssigned == ASSUME SyncInv, AssignVirtualStores PROVE SavedInv'
<1>0. worker \in Worker /\ SameVend /\ SameSync /\ SameDb
  BY DEF SyncInv, TypeOK, AssignVirtualStores, SameVend, SameSync, SameDb
<1>1. /\ worker'.pc = "fetch" /\ worker'.kind = worker.kind
      /\ worker'.kinds = worker.kinds /\ worker'.after = worker.after
  BY <1>0 DEF AssignVirtualStores, Worker
<1> QED
  BY <1>0, <1>1, GoOn DEF AssignVirtualStores, InKind, HasPage

LEMMA VersionSaved == ASSUME SyncInv, SaveVersion PROVE SavedInv'
<1> DEFINE kind == worker.kind
<1>0. /\ worker \in Worker /\ kind \in Kinds /\ worker.kinds \subseteq Kinds
      /\ SameVend /\ SameDb /\ sync \in [Kinds -> SyncModel]
  BY WorkerType DEF SyncInv, TypeOK, SaveVersion, SameVend, SameDb
<1>1. /\ worker'.pc \in {"stores", "fetch"} /\ worker'.after = worker.upto
      /\ worker'.kind = kind /\ worker'.kinds = worker.kinds
  BY <1>0 DEF SaveVersion, Worker
<1>2. \A k \in Kinds :
        /\ sync'[k].created = sync[k].created
        /\ sync'[k].version = IF k = kind THEN worker.upto ELSE sync[k].version
  BY <1>0 DEF SaveVersion, SyncModel
<1>3. IsReached(worker.upto) /\ worker.after = sync[kind].version
  BY DEF SyncInv, SavedInv, PageIsComplete, FetchesAfterVersion, SaveVersion, HasPage, InKind
<1>4. VersionsAreReached'
  BY <1>0, <1>2, <1>3
     DEF SyncInv, SavedInv, VersionsAreReached, IsReached, SameVend
<1>5. KindsAreCreated' /\ FetchesAfterVersion' /\ PageIsComplete' /\ PageIsSaved'
  BY <1>0, <1>1, <1>2
     DEF SyncInv, SavedInv, KindsAreCreated, FetchesAfterVersion, PageIsComplete,
         PageIsSaved, HasPage, InKind, SaveVersion
<1>6. ASSUME NEW k \in Kinds PROVE KindIsSaved(k)'
  <2>1. SUFFICES ASSUME NEW r \in Of(k) \ Inventory,
                        0 < vend[r].version, vend[r].version <= sync'[k].version
                 PROVE  Has(r, vend[r])
    BY <1>0 DEF KindIsSaved, SameVend, SameDb, Has, SaveVersion
  <2>2. CASE vend[r].version <= sync[k].version
    BY <2>1, <2>2 DEF SyncInv, SavedInv, KindIsSaved
  <2>3. CASE ~(vend[r].version <= sync[k].version)
    <3>1. k = kind /\ vend[r].version <= worker.upto
      BY <1>2, <2>1, <2>3
    <3>2. vend[r].version \in Nat /\ worker.after \in Nat
      BY <1>0, OfRecords, WorkerType DEF SyncInv, TypeOK, VendRecord, Version
    <3>3. worker.after < vend[r].version
      BY <1>3, <2>3, <3>1, <3>2
    <3>4. r \in DOMAIN worker.page /\ worker.page[r] = vend[r]
      BY <3>1, <3>3 DEF SyncInv, SavedInv, PageIsComplete, SaveVersion, HasPage
    <3> QED
      BY <3>4 DEF SyncInv, SavedInv, PageIsSaved, SaveVersion
  <2> QED
    BY <2>2, <2>3
<1> QED
  BY <1>4, <1>5, <1>6 DEF SavedInv

\* A fetch that fails, or a process that dies, may have saved some of its batch.
LEMMA FailureSaved == ASSUME SyncInv, FetchFails \/ Crash PROVE SavedInv'
<1>0. /\ worker \in Worker /\ worker.kinds \subseteq Kinds /\ SameVend /\ SameSync
      /\ SaveSome
  BY WorkerType DEF SyncInv, TypeOK, FetchFails, Crash, SameVend, SameSync
<1>1. worker'.pc \in {"idle", "next"} /\ worker'.kinds \in {{}, worker.kinds}
  <2>1. CASE EndKind
    BY <2>1 DEF EndKind, IdleWorker
  <2>2. CASE worker' = IdleWorker
    BY <2>2 DEF IdleWorker
  <2> QED
    BY <2>1, <2>2 DEF FetchFails, Crash
<1>2. VersionsAreReached' /\ \A k \in Kinds : KindIsSaved(k)'
  <2>1. CASE worker.pc = "save"
    BY <1>0, <2>1, SavingKeeps DEF SaveSome
  <2>2. CASE worker.pc # "save"
    BY <1>0, <2>2, KeepsSaved DEF SaveSome, SameDb
  <2> QED
    BY <2>1, <2>2
<1> QED
  BY <1>0, <1>1, <1>2
     DEF SyncInv, SavedInv, KindsAreCreated, FetchesAfterVersion, PageIsComplete, PageIsSaved,
         SameSync, HasPage, InKind

LEMMA UpdateManyKeeps ==
  ASSUME sync \in [Kinds -> SyncModel], NEW marked, NEW stillDue,
         UpdateMany(marked, stillDue)
  PROVE  SameSync
<1> SUFFICES ASSUME NEW k \in Kinds
             PROVE  sync'[k].version = sync[k].version /\ sync'[k].created = sync[k].created
  BY DEF SameSync
<1>1. CASE sync[k].created
  BY <1>1 DEF UpdateMany, SyncModel
<1>2. CASE ~sync[k].created
  BY <1>2 DEF UpdateMany
<1> QED
  BY <1>1, <1>2

LEMMA ClaimSaved ==
  ASSUME SyncInv, \/ FindSyncModels \/ Claim \/ ClaimFails \/ Connect \/ ConnectFails
                  \/ Release \/ ReleaseFails
  PROVE  SavedInv'
<1>0. worker \in Worker /\ worker.kinds \subseteq Kinds /\ sync \in [Kinds -> SyncModel]
  BY WorkerType DEF SyncInv, TypeOK
<1>1. SameVend /\ SameDb
  BY DEF FindSyncModels, Claim, ClaimFails, Connect, ConnectFails, Release, ReleaseFails,
         SameVend, SameDb
<1>2. SameSync
  <2>1. CASE Claim \/ Release
    BY <1>0, <2>1, UpdateManyKeeps DEF Claim, Release
  <2>2. CASE FindSyncModels \/ ClaimFails \/ Connect \/ ConnectFails \/ ReleaseFails
    BY <2>2 DEF FindSyncModels, ClaimFails, Connect, ConnectFails, ReleaseFails, SameSync
  <2> QED
    BY <2>1, <2>2
<1>3. /\ worker'.pc \notin InKind
      /\ \A k \in worker'.kinds : k \in Kinds /\ sync[k].created
  <2>1. CASE FindSyncModels
    BY <2>1 DEF FindSyncModels, IdleWorker, InKind
  <2>2. CASE Claim \/ ClaimFails \/ Connect \/ ConnectFails
    BY <1>0, <2>2 DEF Claim, ClaimFails, Connect, ConnectFails, Goto, Worker, InKind,
                      SyncInv, SavedInv, KindsAreCreated
  <2>3. CASE Release \/ ReleaseFails
    <3>1. worker' = IdleWorker
      BY <2>3 DEF Release, ReleaseFails
    <3> QED
      BY <3>1 DEF IdleWorker, InKind
  <2> QED
    BY <2>1, <2>2, <2>3
<1> QED
  BY <1>1, <1>2, <1>3, Leave

LEMMA KindBegun == ASSUME SyncInv, NextKind PROVE SavedInv'
<1>0. /\ worker \in Worker /\ worker.kinds \subseteq Kinds
      /\ SameVend /\ SameDb /\ SameSync
  BY WorkerType DEF SyncInv, TypeOK, NextKind, SameVend, SameDb, SameSync
<1>1. CASE Goto("release")
  <2>1. worker'.pc = "release" /\ worker'.kinds = worker.kinds
    BY <1>0, <1>1 DEF Goto, Worker
  <2> QED
    BY <1>0, <2>1, Leave DEF InKind, SyncInv, SavedInv, KindsAreCreated
<1>2. ASSUME NEW k \in worker.kinds,
             worker' = [worker EXCEPT !.pc = "fetch", !.kind = k, !.kinds = @ \ {k},
                                      !.after = sync[k].version]
      PROVE  SavedInv'
  <2>1. /\ worker'.pc = "fetch" /\ worker'.kind = k /\ worker'.kinds = worker.kinds \ {k}
        /\ worker'.after = sync[k].version
    BY <1>0, <1>2 DEF Worker
  <2> QED
    BY <1>0, <2>1, KeepsSaved
       DEF SyncInv, SavedInv, KindsAreCreated, FetchesAfterVersion, PageIsComplete,
           PageIsSaved, SameSync, HasPage, InKind
<1> QED
  BY <1>1, <1>2 DEF NextKind

\* Vend numbers a change past all versions that were reached, so that it is in no
\* page and not covered by a version.
LEMMA VendChanged ==
  ASSUME SyncInv, TypeOK', NEW r \in Records, VendChanges(r) \/ VendDeletes(r)
  PROVE  SavedInv'
<1>0. /\ UNCHANGED <<db, sync, worker>> /\ worker.kind \in Kinds /\ worker \in Worker
      /\ \A q \in Records : vend[q] \in VendRecord
  BY WorkerType DEF SyncInv, TypeOK, VendChanges, VendDeletes
<1>1. PICK v \in Version : /\ IsNext(v) /\ vend'[r].version = v
                           /\ \A q \in Records : q # r => vend'[q] = vend[q]
  BY <1>0 DEF VendChanges, VendDeletes, SyncInv, TypeOK, VendRecord
<1>2. \A q \in Records : vend[q].version < v /\ vend[q].version \in Nat /\ v \in Nat
  BY <1>0, <1>1 DEF IsNext, VendRecord, Version
<1>3. \A x \in Version : IsReached(x) => IsReached(x)' /\ x < v
  BY <1>0, <1>1, <1>2 DEF IsReached, IsNext, Version
<1>4. worker.upto \in Version /\ \A k \in Kinds : sync[k].version \in Version
  BY <1>0, WorkerType DEF SyncInv, TypeOK, SyncModel
<1>5. VersionsAreReached' /\ \A k \in Kinds : sync[k].version < v
  BY <1>0, <1>3, <1>4 DEF SyncInv, SavedInv, VersionsAreReached, IsReached
<1>6. PageIsComplete'
  <2>1. SUFFICES ASSUME worker.pc \in HasPage PROVE PageIsComplete'
    BY <1>0 DEF PageIsComplete
  <2>2. IsReached(worker.upto) /\ worker.upto < v
    BY <1>3, <1>4, <2>1 DEF SyncInv, SavedInv, PageIsComplete
  <2>3. IsReached(worker.upto)'
    BY <1>0, <1>3, <1>4, <2>2 DEF IsReached
  <2>4. ASSUME NEW q \in DOMAIN worker.page
        PROVE  worker.after < worker.page[q].version
               /\ worker.page[q].version <= vend'[q].version
    <3>1. q \in Records /\ worker.page[q] \in VendRecord
      BY <1>0, WorkerType, PageType
    <3>2. worker.after < worker.page[q].version /\ worker.page[q].version <= vend[q].version
      BY <2>1 DEF SyncInv, SavedInv, PageIsComplete
    <3>3. worker.page[q].version \in Nat
      BY <3>1 DEF VendRecord, Version
    <3> QED
      BY <1>1, <1>2, <3>1, <3>2, <3>3
  <2>5. ASSUME NEW q \in Of(worker.kind),
               worker.after < vend'[q].version, vend'[q].version <= worker.upto
        PROVE  q \in DOMAIN worker.page /\ worker.page[q] = vend'[q]
    <3>1. q # r /\ q \in Records
      BY <1>0, <1>1, <1>2, <1>4, <2>2, <2>5, OfRecords DEF Version
    <3> QED
      BY <1>1, <2>1, <2>5, <3>1 DEF SyncInv, SavedInv, PageIsComplete
  <2> QED
    BY <1>0, <2>3, <2>4, <2>5 DEF PageIsComplete
<1>7. ASSUME NEW k \in Kinds PROVE KindIsSaved(k)'
  <2>1. SUFFICES ASSUME NEW q \in Of(k) \ Inventory,
                        0 < vend'[q].version, vend'[q].version <= sync[k].version
                 PROVE  Has(q, vend[q])'
    BY <1>0 DEF KindIsSaved
  <2>2. q # r /\ q \in Records
    BY <1>1, <1>4, <1>5, <2>1, OfRecords DEF Version
  <2>3. vend'[q] = vend[q]
    BY <1>1, <2>2
  <2> QED
    BY <1>0, <2>1, <2>3 DEF SyncInv, SavedInv, KindIsSaved, Has
<1> QED
  BY <1>0, <1>5, <1>6, <1>7
     DEF SyncInv, SavedInv, KindsAreCreated, FetchesAfterVersion, PageIsSaved, Has

LEMMA SyncModelsChanged ==
  ASSUME SyncInv, Elapse \/ \E k \in Kinds : CreateSyncModel(k)
  PROVE  SavedInv'
<1>0. UNCHANGED <<vend, db, worker>> /\ worker.kind \in Kinds /\ worker.kinds \subseteq Kinds
      /\ sync \in [Kinds -> SyncModel]
  BY WorkerType DEF SyncInv, TypeOK, Elapse, CreateSyncModel
<1>1. \A k \in Kinds : \/ /\ sync'[k].version = sync[k].version
                          /\ sync'[k].created = sync[k].created
                       \/ ~sync[k].created /\ sync'[k].created /\ sync'[k].version = 0
  BY <1>0 DEF Elapse, CreateSyncModel, SyncModel
<1>2. VersionsAreReached' /\ KindsAreCreated' /\ FetchesAfterVersion'
  BY <1>0, <1>1
     DEF SyncInv, SavedInv, VersionsAreReached, IsReached, KindsAreCreated, FetchesAfterVersion
<1>3. PageIsComplete' /\ PageIsSaved'
  BY <1>0 DEF SyncInv, SavedInv, PageIsComplete, PageIsSaved, IsReached, Has
<1>4. ASSUME NEW k \in Kinds PROVE KindIsSaved(k)'
  <2>1. \A r \in Of(k) : vend[r].version \in Nat
    BY OfRecords DEF SyncInv, TypeOK, VendRecord, Version
  <2> QED
    BY <1>0, <1>1, <2>1 DEF SyncInv, SavedInv, KindIsSaved, Has
<1> QED
  BY <1>2, <1>3, <1>4 DEF SavedInv

LEMMA SyncNext == SyncInv /\ [Next]_vars => SyncInv'
<1> SUFFICES ASSUME SyncInv, [Next]_vars PROVE SyncInv'
  OBVIOUS
<1>1. TypeOK' /\ PageIsOfKind'
  BY TypeNext, PageNext DEF SyncInv
<1>2. SavedInv'
  <2>1. CASE UNCHANGED vars
    BY <2>1 DEF vars, SyncInv, SavedInv, VersionsAreReached, IsReached, KindsAreCreated,
                FetchesAfterVersion, PageIsComplete, PageIsSaved, KindIsSaved, Has
  <2>2. CASE Environment
    BY <1>1, <2>2, VendChanged, SyncModelsChanged DEF Environment
  <2>3. CASE Elapse
    BY <2>3, SyncModelsChanged
  <2>4. CASE WorkerStep
    BY <2>4, ClaimSaved, KindBegun, NewPage, BatchSaved, LinesSaved, VersionSaved,
       StoresAssigned, FailureSaved DEF WorkerStep
  <2> QED
    BY <2>1, <2>2, <2>3, <2>4 DEF Next
<1> QED
  BY <1>1, <1>2 DEF SyncInv

\* What the saved version of suppliers, products and sales covers was saved as it is in
\* Vend, whatever the page size, however often a fetch, a batch or the process failed
\* halfway, and whatever changed in Vend between a fetch and its save.
THEOREM NothingIsMissed == Spec => []SyncedMeansSaved
<1>1. Init => SyncInv
  <2>1. Init => VersionsAreReached /\ \A k \in Kinds : KindIsSaved(k)
    BY OfRecords DEF Init, VersionsAreReached, IsReached, KindIsSaved
  <2> QED
    BY <2>1, TypeInit
       DEF Init, SyncInv, SavedInv, IdleWorker, PageIsOfKind, KindsAreCreated,
           FetchesAfterVersion, PageIsComplete, PageIsSaved, HasPage, InKind
<1>2. SyncInv => SyncedMeansSaved
  <2>1. SUFFICES ASSUME SyncInv, NEW r \in Suppliers \union Products \union Sales,
                        NEW k, k = CHOOSE l \in Kinds : r \in Of(l),
                        0 < vend[r].version, vend[r].version <= sync[k].version
                 PROVE  IF vend[r].deleted THEN r \in Suppliers \/ ~InDb(r)
                                           ELSE db[r].version = vend[r].version
    BY DEF SyncedMeansSaved
  <2>2. k \in Kinds /\ r \in Of(k) /\ r \in Records
    BY <2>1 DEF Kinds, Of, Records
  <2>3. r \notin Inventory
    BY SyncAssumption DEF Kinds, Of
  <2>4. Has(r, vend[r])
    BY <2>1, <2>2, <2>3 DEF SyncInv, SavedInv, KindIsSaved
  <2> QED
    BY <2>2, <2>4 DEF Has, InDb, SyncInv, TypeOK, Saved
<1> QED
  BY <1>1, <1>2, SyncNext, PTL DEF Spec
=============================================================================

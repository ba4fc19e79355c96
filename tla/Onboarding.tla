----------------------------- MODULE Onboarding -----------------------------
(***************************************************************************)
(* Connecting an organisation and starting its synchronisation: the        *)
(* Connect page of the administrators, and the remote methods it calls.    *)
(*                                                                         *)
(* The page leads to the vendor, whose answer handleVendToken or           *)
(* handleMSDToken stores.  Then stores, users and categories are fetched,  *)
(* one by one or all by initiateVendSync, and the SyncModels are created   *)
(* that make the sync process begin.  Every fetch is a call of Connection. *)
(*                                                                         *)
(* What Vend and Dynamics hold does not change meanwhile, and is not       *)
(* empty.                                                                  *)
(***************************************************************************)
EXTENDS Connection

CONSTANTS
  Stores,  \* outlets or standard warehouses
  Users,   \* users of the vendor that have an e-mail address
  Types    \* product types (the one page of 1000 that is fetched) or categories

VARIABLES
  db,          \* what was saved of them
  sync,        \* there are SyncModels
  page,        \* what each administrator's page shows
  created,     \* the users a call has created: usersCreated
  unassigned   \* history: users that were created, and whose call failed before their role

vars == <<connVars, db, sync, page, created, unassigned>>
dataVars == <<db, sync, created, unassigned>>

\* "manager" when the user has the storeManager role.
Database == [stores : SUBSET Stores, users : [Users -> {"none", "saved", "manager"}], types : SUBSET Types]

Page == [open : BOOLEAN, integration : BOOLEAN, isActive : BOOLEAN, companies : BOOLEAN,
         dataAreaId : BOOLEAN, databaseValid : BOOLEAN, syncModels : BOOLEAN]

Closed == [open |-> FALSE, integration |-> FALSE, isActive |-> FALSE, companies |-> FALSE,
           dataAreaId |-> FALSE, databaseValid |-> FALSE, syncModels |-> FALSE]

TypeOK ==
  /\ ConnTypeOK
  /\ db \in Database
  /\ sync \in BOOLEAN
  /\ page \in [Sessions -> Page]
  /\ created \in [Sessions -> SUBSET Users]
  /\ unassigned \subseteq Users

Init ==
  /\ ConnInit
  /\ db = [stores |-> {}, users |-> [u \in Users |-> "none"], types |-> {}]
  /\ sync = FALSE
  /\ page = [s \in Sessions |-> Closed]
  /\ created = [s \in Sessions |-> {}]
  /\ unassigned = {}

-----------------------------------------------------------------------------
(* The Connect page.  A loading overlay keeps it to one call at a time; it is read again after *)
(* each, but may have grown old when its buttons are used.                                     *)

Waiting(s) == caller[s].pc = "idle" /\ page[s].open

\* ConnectResolverService.
Shown(models) ==
  IF records = <<>> THEN [Closed EXCEPT !.open = TRUE, !.syncModels = models]
  ELSE [open |-> TRUE, integration |-> TRUE, isActive |-> Integration.isActive,
        companies |-> Integration.companies, dataAreaId |-> Integration.dataAreaId,
        databaseValid |-> Integration.databaseValid, syncModels |-> models]

OpenPage(s) ==
  /\ caller[s].pc = "idle"
  /\ page' = [page EXCEPT ![s] = Shown(sync)]
  /\ UNCHANGED <<connVars, dataVars>>

Leave(s) == page' = [page EXCEPT ![s] = Closed]

Begin(s, task, stage, pc) ==
  caller' = [caller EXCEPT ![s] = [IdleCaller EXCEPT !.task = task, !.stage = stage, !.pc = pc]]

\* Connect, or Reconnect for an inactive Dynamics integration: the browser goes to the vendor.
Connect(s) ==
  /\ Waiting(s) /\ NewCall
  /\ ~page[s].integration \/ (system = "msdynamics" /\ ~page[s].isActive)
  /\ Begin(s, "connect", "companies", "authorise")
  /\ Leave(s)
  /\ UNCHANGED <<system, vendor, records, faults, lost, dataVars>>

\* The buttons of the page.
MaySync(s, task) ==
  IF system = "vend" THEN page[s].integration ELSE task # "initiate" /\ page[s].dataAreaId

SyncData(s, task, stage) ==
  /\ Waiting(s) /\ NewCall /\ MaySync(s, task)
  /\ Begin(s, task, stage, "find")
  /\ Leave(s)
  /\ UNCHANGED <<system, vendor, records, faults, lost, dataVars>>

SaveCompany(s) ==
  /\ Waiting(s)
  /\ system = "msdynamics" /\ page[s].companies /\ ~page[s].dataAreaId
  /\ \/ records' = [records EXCEPT ![1].dataAreaId = TRUE] /\ UNCHANGED faults
     \/ Fault /\ UNCHANGED records
  /\ Leave(s)
  /\ UNCHANGED <<system, vendor, caller, calls, lost, dataVars>>

\* validateMSSQLDatabase
ValidateDatabase(s) ==
  /\ Waiting(s)
  /\ system = "msdynamics" /\ page[s].dataAreaId /\ ~page[s].databaseValid /\ ~page[s].syncModels
  /\ \/ records' = [i \in DOMAIN records |-> [records[i] EXCEPT !.databaseValid = TRUE]] /\ UNCHANGED faults
     \/ Fault /\ UNCHANGED records
  /\ Leave(s)
  /\ UNCHANGED <<system, vendor, caller, calls, lost, dataVars>>

MayInitiateMSD(s) == page[s].dataAreaId /\ ~page[s].syncModels /\ page[s].databaseValid

InitiateMSDSync(s) ==
  /\ Waiting(s)
  /\ system = "msdynamics" /\ MayInitiateMSD(s)
  /\ \/ sync' = TRUE /\ UNCHANGED faults
     \/ sync' \in {sync, TRUE} /\ Fault
  /\ Leave(s)
  /\ UNCHANGED <<system, vendor, records, caller, calls, lost, db, created, unassigned>>

StopMSDSync(s) ==
  /\ Waiting(s)
  /\ system = "msdynamics" /\ page[s].integration /\ page[s].syncModels
  /\ \/ sync' = FALSE /\ UNCHANGED faults
     \/ UNCHANGED sync /\ Fault
  /\ Leave(s)
  /\ UNCHANGED <<system, vendor, records, caller, calls, lost, db, created, unassigned>>

-----------------------------------------------------------------------------
(* handleVendToken and handleMSDToken *)

\* The remote method has answered.
Return(s) == caller' = [caller EXCEPT ![s] = IdleCaller]

\* The user consents and the code is exchanged for tokens, or neither.
Authorise(s) ==
  /\ caller[s].pc = "authorise" /\ vendor.issued < MaxIssued
  /\ vendor' = [vendor EXCEPT !.issued = Issued, !.valid = @ \union {Issued}]
  /\ caller' = [caller EXCEPT ![s].got = [refresh |-> Issued, access |-> Issued],
                              ![s].pc = IF system = "vend" THEN "store" ELSE "findRecord"]
  /\ UNCHANGED <<system, records, calls, faults, lost, dataVars, page>>

AuthoriseFails(s) ==
  /\ caller[s].pc \in {"authorise", "findRecord", "store"}
  /\ IF vendor.issued = MaxIssued THEN UNCHANGED faults ELSE Fault
  /\ Return(s)
  /\ UNCHANGED <<system, vendor, records, calls, lost, dataVars, page>>

FindRecord(s) ==
  /\ caller[s].pc = "findRecord"
  /\ caller' = [caller EXCEPT ![s].pc = "store", ![s].found = records # <<>>]
  /\ UNCHANGED <<system, vendor, records, calls, faults, lost, dataVars, page>>

\* Mutant: the expiry of a new connection is put off past that of its access token.
NewRecordOutlives(got) ==
  [refresh |-> got.refresh, until |-> got.access + 1,
   isActive |-> TRUE, companies |-> FALSE, dataAreaId |-> FALSE, databaseValid |-> FALSE]

NewRecord(got) ==
  [refresh |-> got.refresh,
   until |-> IF system = "vend" THEN got.access ELSE 0,   \* expires_on = 0: refreshed by the first call
   isActive |-> TRUE, companies |-> FALSE, dataAreaId |-> FALSE, databaseValid |-> FALSE]

Reconnected(record, got) ==
  [record EXCEPT !.refresh = got.refresh, !.until = 0, !.isActive = TRUE]

\* handleVendToken always creates a record.  handleMSDToken then fetches the companies.
StoreGrant(s) ==
  /\ caller[s].pc = "store"
  /\ records' = IF caller[s].found THEN [records EXCEPT ![1] = Reconnected(@, caller[s].got)]
                ELSE Append(records, NewRecord(caller[s].got))
  /\ IF system = "vend" THEN Return(s) ELSE Begin(s, "connect", "companies", "find")
  /\ UNCHANGED <<system, vendor, calls, faults, lost, dataVars, page>>

-----------------------------------------------------------------------------
(* The answers of the calls *)

At(s, pc, stage) == s \in Sessions /\ caller[s].pc = pc /\ caller[s].stage = stage

SaveCompanies(s) ==
  /\ At(s, "called", "companies")
  /\ \/ records' = [i \in DOMAIN records |-> [records[i] EXCEPT !.companies = TRUE]] /\ UNCHANGED faults
     \/ Fault /\ UNCHANGED records
  /\ Return(s)
  /\ UNCHANGED <<system, vendor, calls, lost, dataVars, page>>

\* The next thing initiateVendSync does.
Proceed(s) ==
  IF caller[s].task # "initiate" THEN Return(s)
  ELSE CASE caller[s].stage = "stores" -> Begin(s, "initiate", "users", "find")
         [] caller[s].stage = "users"  -> Begin(s, "initiate", "types", "find")
         [] OTHER                      -> Begin(s, "initiate", "types", "models")

\* Each is saved by findOrCreate; when one fails the others may be saved.
SaveEach(s, stage, all) ==
  /\ At(s, "called", stage)
  /\ \/ db' = [db EXCEPT ![stage] = all] /\ Proceed(s) /\ UNCHANGED faults
     \/ /\ Fault
        /\ \E saved \in SUBSET all : db' = [db EXCEPT ![stage] = @ \union saved]
        /\ Return(s)
  /\ UNCHANGED <<system, vendor, records, calls, lost, sync, created, unassigned, page>>

SyncVendStores(s) == system = "vend" /\ SaveEach(s, "stores", Stores)
SyncMSDStores(s) == system = "msdynamics" /\ SaveEach(s, "stores", Stores)
SyncVendProductTypes(s) == system = "vend" /\ SaveEach(s, "types", Types)
SyncMSDCategories(s) == system = "msdynamics" /\ SaveEach(s, "types", Types)

\* Users that findOrCreate leaves as they are when it finds them.
WithUsers(users) == [u \in Users |-> IF u \in users /\ db.users[u] = "none" THEN "saved" ELSE db.users[u]]

\* The users of Dynamics get no role; one that cannot be saved fails the call.
SyncMSDUsers(s) ==
  /\ system = "msdynamics" /\ At(s, "called", "users")
  /\ \E users \in SUBSET Users :
       /\ IF users = Users THEN UNCHANGED faults ELSE Fault
       /\ db' = [db EXCEPT !.users = WithUsers(users)]
  /\ Return(s)
  /\ UNCHANGED <<system, vendor, records, calls, lost, sync, created, unassigned, page>>

\* Mutant: those it found.
NewUsersAreFound(users) == {u \in users : db.users[u] # "none"}

\* The users findOrCreate reports as created.
NewUsers(users) == {u \in users : db.users[u] = "none"}

\* A user whose findOrCreate fails is passed over, also when it was saved and only the answer lost.
SyncVendUsers(s) ==
  /\ system = "vend" /\ At(s, "called", "users")
  /\ \E users \in SUBSET Users : \E answered \in SUBSET users :
       /\ IF answered = Users THEN UNCHANGED faults ELSE Fault
       /\ db' = [db EXCEPT !.users = WithUsers(users)]
       /\ created' = [created EXCEPT ![s] = NewUsers(answered)]
       /\ unassigned' = unassigned \union (NewUsers(users) \ answered)
  /\ Goto(s, "roles")
  /\ UNCHANGED <<system, vendor, records, calls, lost, sync, page>>

WithRole(users) == [u \in Users |-> IF u \in users THEN "manager" ELSE db.users[u]]

\* assignRoles of each created user.  Whatever fails is passed over: assignStoresToVendUsers,
\* which comes next, always does, for it hands its options over as the role.
AssignRoles(s) ==
  /\ caller[s].pc = "roles"
  /\ \E users \in SUBSET created[s] :
       /\ IF users = created[s] THEN UNCHANGED faults ELSE Fault
       /\ db' = [db EXCEPT !.users = WithRole(users)]
       /\ unassigned' = unassigned \union (created[s] \ users)
  /\ created' = [created EXCEPT ![s] = {}]
  /\ Proceed(s)
  /\ UNCHANGED <<system, vendor, records, calls, lost, sync, page>>

\* Mutant: a failure to fetch the stores is passed over, like one to fetch the users.
MovesOnAlways(s) == caller[s].task = "initiate" /\ caller[s].stage \in {"users", "stores"}

\* syncVendUsers never rejects.
MovesOn(s) == caller[s].task = "initiate" /\ caller[s].stage = "users"

CallFails(s) ==
  /\ caller[s].pc = "failed"
  /\ IF MovesOn(s) THEN Proceed(s) ELSE Return(s)
  /\ UNCHANGED <<system, vendor, records, calls, faults, lost, dataVars, page>>

\* initiateVendSync creates the SyncModels at last.
CreateSyncModels(s) ==
  /\ caller[s].pc = "models"
  /\ \/ sync' = TRUE /\ UNCHANGED faults
     \/ sync' \in {sync, TRUE} /\ Fault
  /\ Return(s)
  /\ UNCHANGED <<system, vendor, records, calls, lost, db, created, unassigned, page>>

\* The API process ends, and all its calls with it.
Crash ==
  /\ \E s \in Sessions : caller[s].pc # "idle"
  /\ Fault
  /\ caller' = [c \in Callers |-> IF c \in Sessions THEN IdleCaller ELSE caller[c]]
  /\ lost' = (lost \/ \E s \in Sessions : caller[s].pc = "save" /\ caller[s].got.refresh # 0)
  /\ created' = [s \in Sessions |-> {}]
  /\ unassigned' = unassigned \union UNION {created[s] : s \in Sessions}
  /\ UNCHANGED <<system, vendor, records, calls, db, sync, page>>

-----------------------------------------------------------------------------
(* The specification *)

PageStep(s) ==
  \/ OpenPage(s) \/ Connect(s)
  \/ SyncData(s, "stores", "stores") \/ SyncData(s, "users", "users") \/ SyncData(s, "types", "types")
  \/ SyncData(s, "initiate", "stores")
  \/ SaveCompany(s) \/ ValidateDatabase(s) \/ InitiateMSDSync(s) \/ StopMSDSync(s)

CallStep(s) ==
  \/ Authorise(s) \/ AuthoriseFails(s) \/ FindRecord(s) \/ StoreGrant(s) \/ SaveCompanies(s)
  \/ SyncVendStores(s) \/ SyncMSDStores(s) \/ SyncVendProductTypes(s) \/ SyncMSDCategories(s)
  \/ SyncVendUsers(s) \/ SyncMSDUsers(s) \/ AssignRoles(s) \/ CallFails(s) \/ CreateSyncModels(s)

Next ==
  \/ ConnectionStep /\ UNCHANGED <<dataVars, page>>
  \/ \E s \in Sessions : PageStep(s) \/ CallStep(s)
  \/ Crash

Spec == Init /\ [][Next]_vars

-----------------------------------------------------------------------------
(* Properties *)

\* The sync process has what its workers take for granted: an organisation of Vend has all its
\* stores and categories, one of Dynamics its company and a database that can be reached.
SyncHasItsData ==
  sync => IF system = "vend" THEN db.stores = Stores /\ db.types = Types
          ELSE Integration.dataAreaId /\ Integration.databaseValid

\* A synchronised user of Vend has a role, or the call that created it is about to assign one, or
\* failed before that (on a role, or on the answer to the creation): no later call makes up for it.
RoleIsMissingForAReason ==
  system = "vend" =>
    \A u \in Users : db.users[u] = "saved" =>
      u \in unassigned \/ \E s \in Sessions : caller[s].pc = "roles" /\ u \in created[s]
=============================================================================

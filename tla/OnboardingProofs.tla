-------------------------- MODULE OnboardingProofs --------------------------
(***************************************************************************)
(* The type invariant and the safety properties of Connection and          *)
(* Onboarding, for any numbers of administrators, workers, tokens, calls,  *)
(* stores, users, types and faults.                                        *)
(***************************************************************************)
EXTENDS Onboarding, TLAPS

Pcs == {"idle", "authorise", "findRecord", "store", "find", "refresh", "save", "deactivate",
        "call", "called", "failed", "roles", "models"}

-----------------------------------------------------------------------------
(* The parts of a state *)

LEMMA IntegrationModelType ==
  ASSUME NEW r \in IntegrationModel
  PROVE  /\ r.refresh \in Token /\ r.until \in Token
         /\ r.isActive \in BOOLEAN /\ r.companies \in BOOLEAN
         /\ r.dataAreaId \in BOOLEAN /\ r.databaseValid \in BOOLEAN
BY DEF IntegrationModel

LEMMA RecordType ==
  ASSUME records \in Seq(IntegrationModel), NEW i \in DOMAIN records
  PROVE  records[i] \in IntegrationModel
OBVIOUS

LEMMA MappedRecords ==
  ASSUME records \in Seq(IntegrationModel), NEW f \in [DOMAIN records -> IntegrationModel]
  PROVE  f \in Seq(IntegrationModel)
<1>1. DOMAIN records = 1 .. Len(records) /\ Len(records) \in Nat
  OBVIOUS
<1> QED
  BY <1>1

LEMMA CallerType ==
  ASSUME NEW r \in Caller
  PROVE  /\ r = [pc |-> r.pc, task |-> r.task, stage |-> r.stage, found |-> r.found,
                 seen |-> r.seen, got |-> r.got]
         /\ r.pc \in Pcs /\ r.task \in Tasks /\ r.stage \in Stages /\ r.found \in BOOLEAN
         /\ r.seen \in Token /\ r.got.refresh \in Token /\ r.got.access \in Token
         /\ r.got \in [refresh : Token, access : Token]
BY DEF Caller, Pcs

LEMMA NoTokensType == 0 \in Token /\ NoTokens \in [refresh : Token, access : Token]
BY ConnectionAssumption DEF Token, NoTokens

LEMMA IdleCallerType == IdleCaller \in Caller
BY NoTokensType DEF IdleCaller, Caller, Tasks, Stages

\* What the helpers do to the callers.
LEMMA GotoType ==
  ASSUME caller \in [Callers -> Caller], NEW c \in Callers, NEW pc \in Pcs, Goto(c, pc)
  PROVE  caller' \in [Callers -> Caller]
<1>1. [caller[c] EXCEPT !.pc = pc] \in Caller
  BY CallerType DEF Caller, Pcs
<1> QED
  BY <1>1 DEF Goto

LEMMA AnsweredType ==
  ASSUME caller \in [Callers -> Caller], NEW c \in Callers, NEW pc \in Pcs, Answered(c, pc)
  PROVE  caller' \in [Callers -> Caller]
<1>1. [caller[c] EXCEPT !.pc = pc, !.seen = 0, !.got = NoTokens] \in Caller
  BY CallerType, NoTokensType DEF Caller, Pcs
<1> QED
  BY <1>1 DEF Answered

LEMMA BeginType ==
  ASSUME caller \in [Callers -> Caller], NEW c \in Callers, NEW task \in Tasks,
         NEW stage \in Stages, NEW pc \in Pcs, Begin(c, task, stage, pc)
  PROVE  caller' \in [Callers -> Caller]
<1>1. [IdleCaller EXCEPT !.task = task, !.stage = stage, !.pc = pc] \in Caller
  BY IdleCallerType, CallerType DEF Caller, Pcs, IdleCaller
<1> QED
  BY <1>1 DEF Begin

LEMMA ReturnType ==
  ASSUME caller \in [Callers -> Caller], NEW c \in Callers, Return(c)
  PROVE  caller' \in [Callers -> Caller]
BY IdleCallerType DEF Return

LEMMA ProceedType ==
  ASSUME caller \in [Callers -> Caller], NEW c \in Callers, Proceed(c)
  PROVE  caller' \in [Callers -> Caller]
<1>1. CASE caller[c].task # "initiate"
  BY <1>1, ReturnType DEF Proceed
<1>2. CASE caller[c].task = "initiate" /\ caller[c].stage = "stores"
  <2>1. Begin(c, "initiate", "users", "find")
    BY <1>2 DEF Proceed
  <2> QED
    BY <2>1, BeginType DEF Tasks, Stages, Pcs
<1>3. CASE caller[c].task = "initiate" /\ caller[c].stage = "users"
  <2>1. Begin(c, "initiate", "types", "find")
    BY <1>3 DEF Proceed
  <2> QED
    BY <2>1, BeginType DEF Tasks, Stages, Pcs
<1>4. CASE caller[c].task = "initiate" /\ caller[c].stage \notin {"stores", "users"}
  <2>1. Begin(c, "initiate", "types", "models")
    BY <1>4 DEF Proceed
  <2> QED
    BY <2>1, BeginType DEF Tasks, Stages, Pcs
<1> QED
  BY <1>1, <1>2, <1>3, <1>4

LEMMA Counters ==
  ASSUME faults \in 0 .. MaxFaults, calls \in 0 .. MaxCalls
  PROVE  /\ Fault => faults' \in 0 .. MaxFaults
         /\ NewCall => calls' \in 0 .. MaxCalls
         /\ UNCHANGED faults => faults' \in 0 .. MaxFaults
         /\ UNCHANGED calls => calls' \in 0 .. MaxCalls
BY ConnectionAssumption DEF Fault, NewCall

-----------------------------------------------------------------------------
(* Connection *)

LEMMA TokensType ==
  /\ Token \subseteq Nat /\ 1 .. MaxIssued \subseteq Token
  /\ \A v \in Vendor : v = [issued |-> v.issued, valid |-> v.valid, past |-> v.past]
                       /\ v.issued \in Token /\ v.valid \subseteq 1 .. MaxIssued /\ v.past \in Token
BY ConnectionAssumption DEF Token, Vendor

LEMMA WithTokensType ==
  ASSUME NEW r \in IntegrationModel, NEW got \in [refresh : Token, access : Token]
  PROVE  WithTokens(r, got) \in IntegrationModel
BY IntegrationModelType DEF WithTokens, IntegrationModel

LEMMA AnswersType ==
  ASSUME vendor \in Vendor, vendor.issued < MaxIssued,
         NEW refresh \in Token, NEW answer \in Answers(refresh)
  PROVE  /\ Issued \in 1 .. MaxIssued
         /\ answer.got \in [refresh : Token, access : Token]
         /\ answer.valid \subseteq 1 .. MaxIssued
<1>1. Issued \in 1 .. MaxIssued /\ Issued \in Token /\ 0 \in Token
  BY TokensType, ConnectionAssumption DEF Issued, Token
<1>2. vendor.valid \subseteq 1 .. MaxIssued
  BY TokensType
<1> QED
  BY <1>1, <1>2 DEF Answers

LEMMA GrantedType ==
  ASSUME NEW r \in Caller, NEW got \in [refresh : Token, access : Token], NEW pc \in Pcs
  PROVE  [r EXCEPT !.got = got, !.pc = pc] \in Caller
BY CallerType DEF Caller, Pcs

LEMMA ExpireType ==
  ASSUME ConnTypeOK, Expire \/ Revoke
  PROVE  ConnTypeOK'
<1>1. vendor' \in Vendor
  BY TokensType DEF ConnTypeOK, Expire, Revoke, Vendor
<1> QED
  BY <1>1, Counters DEF ConnTypeOK, Expire, Revoke

LEMMA AfterFaultType ==
  ASSUME caller \in [Callers -> Caller], NEW c \in Callers, AfterFault(c)
  PROVE  caller' \in [Callers -> Caller]
BY AnsweredType DEF AfterFault, Unrefreshed, Pcs

LEMMA FindType ==
  ASSUME ConnTypeOK, NEW c \in Callers, FindTokens(c) \/ FindNoTokens(c)
  PROVE  ConnTypeOK'
<1>1. CASE FindTokens(c)
  <2>1. CASE Expired(Integration)
    <3>1. Integration.refresh \in Token
      BY <1>1, RecordType, IntegrationModelType DEF ConnTypeOK, Integration, FindTokens
    <3>2. [caller[c] EXCEPT !.pc = "refresh", !.seen = Integration.refresh] \in Caller
      BY <3>1, CallerType DEF Caller, ConnTypeOK
    <3>3. caller' \in [Callers -> Caller]
      BY <1>1, <2>1, <3>2 DEF FindTokens, ConnTypeOK
    <3> QED
      BY <1>1, <3>3 DEF FindTokens, ConnTypeOK
  <2>2. CASE ~Expired(Integration)
    <3>1. caller' \in [Callers -> Caller]
      BY <1>1, <2>2, GotoType DEF FindTokens, ConnTypeOK, Pcs
    <3> QED
      BY <1>1, <3>1 DEF FindTokens, ConnTypeOK
  <2> QED
    BY <2>1, <2>2
<1>2. CASE FindNoTokens(c)
  <2>1. caller' \in [Callers -> Caller]
    BY <1>2, AnsweredType DEF FindNoTokens, ConnTypeOK, Pcs
  <2> QED
    BY <1>2, <2>1, Counters DEF FindNoTokens, ConnTypeOK
<1> QED
  BY <1>1, <1>2

LEMMA RefreshType ==
  ASSUME ConnTypeOK, NEW c \in Callers, Refresh(c)
  PROVE  ConnTypeOK'
<1>1. PICK answer \in Answers(caller[c].seen) :
        /\ vendor' = [vendor EXCEPT !.issued = Issued, !.valid = answer.valid]
        /\ \/ /\ caller' = [caller EXCEPT ![c].got = answer.got, ![c].pc = "save"]
              /\ UNCHANGED <<faults, lost>>
           \/ /\ Fault
              /\ lost' = (lost \/ answer.got.refresh # 0)
              /\ AfterFault(c)
  BY DEF Refresh
<1>2. /\ Issued \in 1 .. MaxIssued
      /\ answer.got \in [refresh : Token, access : Token]
      /\ answer.valid \subseteq 1 .. MaxIssued
  BY AnswersType, CallerType DEF ConnTypeOK, Refresh
<1>3. vendor' \in Vendor
  BY <1>1, <1>2, TokensType DEF ConnTypeOK, Vendor
<1>4. [caller[c] EXCEPT !.got = answer.got, !.pc = "save"] \in Caller
  BY <1>2, GrantedType DEF ConnTypeOK, Pcs
<1>5. caller' \in [Callers -> Caller]
  BY <1>1, <1>4, AfterFaultType DEF ConnTypeOK
<1>6. faults' \in 0 .. MaxFaults /\ lost' \in BOOLEAN
  BY <1>1, Counters DEF ConnTypeOK
<1> QED
  BY <1>3, <1>5, <1>6 DEF ConnTypeOK, Refresh

LEMMA SaveTokensType ==
  ASSUME ConnTypeOK, NEW c \in Callers, SaveTokens(c)
  PROVE  ConnTypeOK'
<1>1. \A i \in DOMAIN records :
        /\ records[i] \in IntegrationModel
        /\ WithTokens(records[i], caller[c].got) \in IntegrationModel
  BY RecordType, WithTokensType, CallerType DEF ConnTypeOK
<1>2. records' \in Seq(IntegrationModel)
  BY <1>1, MappedRecords DEF SaveTokens, ConnTypeOK
<1>3. caller' \in [Callers -> Caller]
  BY AnsweredType DEF SaveTokens, ConnTypeOK, Pcs
<1> QED
  BY <1>2, <1>3 DEF SaveTokens, ConnTypeOK

LEMMA FailType ==
  ASSUME ConnTypeOK, NEW c \in Callers, RefreshFails(c) \/ SaveTokensFails(c) \/ Call(c)
  PROVE  ConnTypeOK'
<1>1. caller' \in [Callers -> Caller]
  BY AnsweredType, AfterFaultType
  DEF RefreshFails, SaveTokensFails, Call, Unrefreshed, ConnTypeOK, Pcs
<1> QED
  BY <1>1, Counters DEF RefreshFails, SaveTokensFails, Call, ConnTypeOK

LEMMA DeactivateType ==
  ASSUME ConnTypeOK, NEW c \in Callers, Deactivate(c)
  PROVE  ConnTypeOK'
<1>1. \A i \in DOMAIN records : [records[i] EXCEPT !.isActive = FALSE] \in IntegrationModel
  BY RecordType, IntegrationModelType DEF ConnTypeOK, IntegrationModel
<1>2. records' \in Seq(IntegrationModel)
  BY <1>1, MappedRecords DEF Deactivate, ConnTypeOK
<1>3. caller' \in [Callers -> Caller]
  BY AnsweredType DEF Deactivate, ConnTypeOK, Pcs
<1> QED
  BY <1>2, <1>3, Counters DEF Deactivate, ConnTypeOK

LEMMA WorkerType ==
  ASSUME ConnTypeOK, NEW j \in Jobs, WorkerStep(j)
  PROVE  ConnTypeOK'
<1>1. j \in Callers
  BY DEF Callers
<1>2. [IdleCaller EXCEPT !.pc = "find", !.task = "use"] \in Caller
  BY IdleCallerType, CallerType DEF Caller, IdleCaller, Tasks
<1>3. caller' \in [Callers -> Caller]
  BY <1>1, <1>2, IdleCallerType DEF ConnTypeOK, WorkerStep, UseConnection, EndUse, KillWorker
<1> QED
  BY <1>3, Counters DEF ConnTypeOK, WorkerStep, UseConnection, EndUse, KillWorker

LEMMA ConnectionTypes ==
  ASSUME ConnTypeOK, ConnectionStep
  PROVE  ConnTypeOK'
BY ExpireType, FindType, RefreshType, SaveTokensType, FailType, DeactivateType, WorkerType
DEF ConnectionStep, TokenStep

-----------------------------------------------------------------------------
(* Onboarding *)

LEMMA DatabaseType ==
  ASSUME NEW d \in Database
  PROVE  /\ d = [stores |-> d.stores, users |-> d.users, types |-> d.types]
         /\ d.stores \subseteq Stores /\ d.types \subseteq Types
         /\ d.users \in [Users -> {"none", "saved", "manager"}]
BY DEF Database

LEMMA ClosedType == Closed \in Page
BY DEF Closed, Page

LEMMA LeaveType ==
  ASSUME page \in [Sessions -> Page], NEW s \in Sessions, Leave(s)
  PROVE  page' \in [Sessions -> Page]
BY ClosedType DEF Leave

LEMMA OpenPageType ==
  ASSUME TypeOK, NEW s \in Sessions, OpenPage(s)
  PROVE  TypeOK'
<1>1. Shown(sync) \in Page
  <2>1. CASE records = <<>>
    BY <2>1 DEF Shown, Closed, Page, TypeOK
  <2>2. CASE records # <<>>
    <3>1. Integration \in IntegrationModel
      BY <2>2 DEF Integration, TypeOK, ConnTypeOK
    <3> QED
      BY <2>2, <3>1, IntegrationModelType DEF Shown, Page, TypeOK
  <2> QED
    BY <2>1, <2>2
<1>2. page' \in [Sessions -> Page]
  BY <1>1 DEF OpenPage, TypeOK
<1> QED
  BY <1>2 DEF OpenPage, TypeOK, ConnTypeOK, connVars, dataVars

LEMMA BeginCallType ==
  ASSUME TypeOK, NEW s \in Sessions, NEW task \in Tasks, NEW stage \in Stages,
         Connect(s) \/ SyncData(s, task, stage)
  PROVE  TypeOK'
<1>1. caller' \in [Callers -> Caller]
  BY BeginType DEF Connect, SyncData, TypeOK, ConnTypeOK, Callers, Tasks, Stages, Pcs
<1>2. page' \in [Sessions -> Page]
  BY LeaveType DEF Connect, SyncData, TypeOK
<1> QED
  BY <1>1, <1>2, Counters DEF Connect, SyncData, TypeOK, ConnTypeOK, dataVars

LEMMA SavePageType ==
  ASSUME TypeOK, NEW s \in Sessions, SaveCompany(s) \/ ValidateDatabase(s)
  PROVE  TypeOK'
<1>1. \A i \in DOMAIN records :
        /\ [records[i] EXCEPT !.dataAreaId = TRUE] \in IntegrationModel
        /\ [records[i] EXCEPT !.databaseValid = TRUE] \in IntegrationModel
  BY RecordType, IntegrationModelType DEF TypeOK, ConnTypeOK, IntegrationModel
<1>2. records' \in Seq(IntegrationModel)
  <2>1. CASE records' = [records EXCEPT ![1].dataAreaId = TRUE]
    <3>1. \A i \in DOMAIN records : records[i] \in IntegrationModel
      BY RecordType DEF TypeOK, ConnTypeOK
    <3>2. records' = [i \in DOMAIN records |->
                        IF i = 1 THEN [records[i] EXCEPT !.dataAreaId = TRUE] ELSE records[i]]
      BY <2>1
    <3>3. records' \in [DOMAIN records -> IntegrationModel]
      BY <1>1, <3>1, <3>2
    <3> QED
      BY <3>3, MappedRecords DEF TypeOK, ConnTypeOK
  <2>2. CASE records' = [i \in DOMAIN records |-> [records[i] EXCEPT !.databaseValid = TRUE]]
    BY <1>1, <2>2, MappedRecords DEF TypeOK, ConnTypeOK
  <2>3. CASE UNCHANGED records
    BY <2>3 DEF TypeOK, ConnTypeOK
  <2> QED
    BY <2>1, <2>2, <2>3 DEF SaveCompany, ValidateDatabase
<1>3. page' \in [Sessions -> Page]
  BY LeaveType DEF SaveCompany, ValidateDatabase, TypeOK
<1> QED
  BY <1>2, <1>3, Counters DEF SaveCompany, ValidateDatabase, TypeOK, ConnTypeOK, dataVars

LEMMA InitiateType ==
  ASSUME TypeOK, NEW s \in Sessions, InitiateMSDSync(s) \/ StopMSDSync(s)
  PROVE  TypeOK'
<1>1. page' \in [Sessions -> Page]
  BY LeaveType DEF InitiateMSDSync, StopMSDSync, TypeOK
<1>2. sync' \in BOOLEAN
  BY DEF InitiateMSDSync, StopMSDSync, TypeOK
<1> QED
  BY <1>1, <1>2, Counters DEF InitiateMSDSync, StopMSDSync, TypeOK, ConnTypeOK

LEMMA AuthoriseType ==
  ASSUME TypeOK, NEW s \in Sessions, Authorise(s)
  PROVE  TypeOK'
<1>1. Issued \in 1 .. MaxIssued /\ Issued \in Token
  BY TokensType, ConnectionAssumption DEF Issued, Token, Authorise, TypeOK, ConnTypeOK
<1>2. vendor' \in Vendor
  BY <1>1, TokensType DEF Authorise, TypeOK, ConnTypeOK, Vendor
<1>3. \A pc \in Pcs :
        [caller[s] EXCEPT !.got = [refresh |-> Issued, access |-> Issued], !.pc = pc] \in Caller
  BY <1>1, GrantedType DEF TypeOK, ConnTypeOK, Callers
<1>4. caller' \in [Callers -> Caller]
  BY <1>3 DEF Authorise, TypeOK, ConnTypeOK, Pcs
<1> QED
  BY <1>2, <1>4 DEF Authorise, TypeOK, ConnTypeOK, dataVars

LEMMA AuthoriseFailsType ==
  ASSUME TypeOK, NEW s \in Sessions, AuthoriseFails(s)
  PROVE  TypeOK'
<1>1. caller' \in [Callers -> Caller]
  BY ReturnType DEF AuthoriseFails, TypeOK, ConnTypeOK, Callers
<1> QED
  BY <1>1, Counters DEF AuthoriseFails, TypeOK, ConnTypeOK, dataVars

LEMMA FoundType ==
  ASSUME NEW r \in Caller, NEW found \in BOOLEAN
  PROVE  [r EXCEPT !.pc = "store", !.found = found] \in Caller
BY CallerType DEF Caller

LEMMA FindRecordType ==
  ASSUME TypeOK, NEW s \in Sessions, FindRecord(s)
  PROVE  TypeOK'
<1>1. \A found \in BOOLEAN : [caller[s] EXCEPT !.pc = "store", !.found = found] \in Caller
  BY FoundType DEF TypeOK, ConnTypeOK, Callers
<1>2. PICK found \in BOOLEAN :
        caller' = [caller EXCEPT ![s].pc = "store", ![s].found = found]
  BY DEF FindRecord
<1>3. caller' \in [Callers -> Caller]
  BY <1>1, <1>2 DEF TypeOK, ConnTypeOK
<1> QED
  BY <1>3 DEF FindRecord, TypeOK, ConnTypeOK, dataVars

LEMMA NewRecordType ==
  ASSUME NEW got \in [refresh : Token, access : Token]
  PROVE  /\ NewRecord(got) \in IntegrationModel
         /\ \A r \in IntegrationModel : Reconnected(r, got) \in IntegrationModel
<1>1. NewRecord(got) \in IntegrationModel
  BY NoTokensType DEF NewRecord, IntegrationModel
<1>2. \A r \in IntegrationModel : Reconnected(r, got) \in IntegrationModel
  BY NoTokensType, IntegrationModelType DEF Reconnected, IntegrationModel
<1> QED
  BY <1>1, <1>2

LEMMA StoreGrantType ==
  ASSUME TypeOK, NEW s \in Sessions, StoreGrant(s)
  PROVE  TypeOK'
<1>1. caller[s].got \in [refresh : Token, access : Token]
  BY CallerType DEF TypeOK, ConnTypeOK, Callers
<1>2. records' \in Seq(IntegrationModel)
  <2>1. CASE caller[s].found
    <3>1. \A i \in DOMAIN records : Reconnected(records[i], caller[s].got) \in IntegrationModel
      BY <1>1, RecordType, NewRecordType DEF TypeOK, ConnTypeOK
    <3>2. records' \in [DOMAIN records -> IntegrationModel]
      BY <2>1, <3>1, RecordType DEF StoreGrant, TypeOK, ConnTypeOK
    <3> QED
      BY <3>2, MappedRecords DEF TypeOK, ConnTypeOK
  <2>2. CASE ~caller[s].found
    BY <1>1, <2>2, NewRecordType DEF StoreGrant, TypeOK, ConnTypeOK
  <2> QED
    BY <2>1, <2>2
<1>3. caller' \in [Callers -> Caller]
  BY BeginType, ReturnType DEF StoreGrant, TypeOK, ConnTypeOK, Callers, Tasks, Stages, Pcs
<1> QED
  BY <1>2, <1>3 DEF StoreGrant, TypeOK, ConnTypeOK, dataVars

LEMMA SaveCompaniesType ==
  ASSUME TypeOK, NEW s \in Sessions, SaveCompanies(s)
  PROVE  TypeOK'
<1>1. \A i \in DOMAIN records : [records[i] EXCEPT !.companies = TRUE] \in IntegrationModel
  BY RecordType, IntegrationModelType DEF TypeOK, ConnTypeOK, IntegrationModel
<1>2. records' \in Seq(IntegrationModel)
  BY <1>1, MappedRecords DEF SaveCompanies, TypeOK, ConnTypeOK
<1>3. caller' \in [Callers -> Caller]
  BY ReturnType DEF SaveCompanies, TypeOK, ConnTypeOK, Callers
<1> QED
  BY <1>2, <1>3, Counters DEF SaveCompanies, TypeOK, ConnTypeOK, dataVars

LEMMA SaveEachType ==
  ASSUME TypeOK, NEW s \in Sessions,
         SaveEach(s, "stores", Stores) \/ SaveEach(s, "types", Types)
  PROVE  TypeOK'
<1>1. /\ \A saved \in SUBSET Stores : /\ [db EXCEPT !["stores"] = saved] \in Database
                                      /\ [db EXCEPT !["stores"] = @ \union saved] \in Database
      /\ \A saved \in SUBSET Types : /\ [db EXCEPT !["types"] = saved] \in Database
                                     /\ [db EXCEPT !["types"] = @ \union saved] \in Database
  BY DatabaseType DEF TypeOK, Database
<1>2. db' \in Database
  BY <1>1 DEF SaveEach
<1>3. caller' \in [Callers -> Caller]
  BY ReturnType, ProceedType DEF SaveEach, TypeOK, ConnTypeOK, Callers
<1> QED
  BY <1>2, <1>3, Counters DEF SaveEach, TypeOK, ConnTypeOK

LEMMA UsersType ==
  ASSUME TypeOK, NEW users \in SUBSET Users
  PROVE  /\ [db EXCEPT !.users = WithUsers(users)] \in Database
         /\ [db EXCEPT !.users = WithRole(users)] \in Database
         /\ NewUsers(users) \subseteq Users
<1>1. /\ WithUsers(users) \in [Users -> {"none", "saved", "manager"}]
      /\ WithRole(users) \in [Users -> {"none", "saved", "manager"}]
  BY DatabaseType DEF WithUsers, WithRole, TypeOK
<1> QED
  BY <1>1, DatabaseType DEF TypeOK, Database, NewUsers

LEMMA SyncUsersType ==
  ASSUME TypeOK, NEW s \in Sessions, SyncVendUsers(s) \/ SyncMSDUsers(s)
  PROVE  TypeOK'
<1>1. db' \in Database
  BY UsersType DEF SyncVendUsers, SyncMSDUsers
<1>2. caller' \in [Callers -> Caller]
  BY ReturnType, GotoType DEF SyncVendUsers, SyncMSDUsers, TypeOK, ConnTypeOK, Callers, Pcs
<1>3. created' \in [Sessions -> SUBSET Users] /\ unassigned' \subseteq Users
  BY UsersType DEF SyncVendUsers, SyncMSDUsers, TypeOK
<1>4. faults' \in 0 .. MaxFaults
  BY Counters DEF SyncVendUsers, SyncMSDUsers, TypeOK, ConnTypeOK
<1> QED
  BY <1>1, <1>2, <1>3, <1>4 DEF SyncVendUsers, SyncMSDUsers, TypeOK, ConnTypeOK

LEMMA AssignRolesType ==
  ASSUME TypeOK, NEW s \in Sessions, AssignRoles(s)
  PROVE  TypeOK'
<1>1. created[s] \subseteq Users
  BY DEF TypeOK
<1>2. db' \in Database /\ unassigned' \subseteq Users
  BY <1>1, UsersType DEF AssignRoles, TypeOK
<1>3. caller' \in [Callers -> Caller]
  BY ProceedType DEF AssignRoles, TypeOK, ConnTypeOK, Callers
<1>4. created' \in [Sessions -> SUBSET Users]
  BY DEF AssignRoles, TypeOK
<1>5. faults' \in 0 .. MaxFaults
  BY Counters DEF AssignRoles, TypeOK, ConnTypeOK
<1> QED
  BY <1>2, <1>3, <1>4, <1>5 DEF AssignRoles, TypeOK, ConnTypeOK

LEMMA EndCallType ==
  ASSUME TypeOK, NEW s \in Sessions, CallFails(s) \/ CreateSyncModels(s)
  PROVE  TypeOK'
<1>1. caller' \in [Callers -> Caller]
  BY ProceedType, ReturnType DEF CallFails, CreateSyncModels, TypeOK, ConnTypeOK, Callers
<1>2. sync' \in BOOLEAN
  BY DEF CallFails, CreateSyncModels, TypeOK, dataVars
<1> QED
  BY <1>1, <1>2, Counters DEF CallFails, CreateSyncModels, TypeOK, ConnTypeOK, dataVars

LEMMA CrashType ==
  ASSUME TypeOK, Crash
  PROVE  TypeOK'
<1>1. caller' \in [Callers -> Caller]
  BY IdleCallerType DEF Crash, TypeOK, ConnTypeOK
<1>2. created' \in [Sessions -> SUBSET Users] /\ unassigned' \subseteq Users
  BY DEF Crash, TypeOK
<1> QED
  BY <1>1, <1>2, Counters DEF Crash, TypeOK, ConnTypeOK

-----------------------------------------------------------------------------
(* The specification *)

LEMMA InitType ==
  ASSUME Init
  PROVE  TypeOK
<1>1. /\ [issued |-> 0, valid |-> {}, past |-> 0] \in Vendor
      /\ 0 \in 0 .. MaxCalls /\ 0 \in 0 .. MaxFaults
  BY NoTokensType, ConnectionAssumption DEF Vendor
<1>2. [stores |-> {}, users |-> [u \in Users |-> "none"], types |-> {}] \in Database
  BY DEF Database
<1>3. ConnTypeOK
  <2>1. caller \in [Callers -> Caller]
    BY IdleCallerType DEF Init, ConnInit
  <2>2. records \in Seq(IntegrationModel)
    BY DEF Init, ConnInit
  <2>3. system \in {"vend", "msdynamics"} /\ lost \in BOOLEAN
    BY DEF Init, ConnInit
  <2>4. vendor \in Vendor /\ calls \in 0 .. MaxCalls /\ faults \in 0 .. MaxFaults
    BY <1>1 DEF Init, ConnInit
  <2> QED
    BY <2>1, <2>2, <2>3, <2>4 DEF ConnTypeOK
<1>4. page \in [Sessions -> Page] /\ created \in [Sessions -> SUBSET Users] /\ unassigned \subseteq Users
  BY ClosedType DEF Init
<1>5. db \in Database /\ sync \in BOOLEAN
  BY <1>2 DEF Init
<1> QED
  BY <1>3, <1>4, <1>5 DEF TypeOK

LEMMA PageStepType ==
  ASSUME TypeOK, NEW s \in Sessions, PageStep(s)
  PROVE  TypeOK'
<1>1. CASE OpenPage(s)
  BY <1>1, OpenPageType
<1>2. CASE Connect(s)
  BY <1>2, BeginCallType DEF Tasks, Stages
<1>3. CASE \/ SyncData(s, "stores", "stores") \/ SyncData(s, "users", "users")
           \/ SyncData(s, "types", "types") \/ SyncData(s, "initiate", "stores")
  BY <1>3, BeginCallType DEF Tasks, Stages
<1>4. CASE SaveCompany(s) \/ ValidateDatabase(s)
  BY <1>4, SavePageType
<1>5. CASE InitiateMSDSync(s) \/ StopMSDSync(s)
  BY <1>5, InitiateType
<1> QED
  BY <1>1, <1>2, <1>3, <1>4, <1>5 DEF PageStep

LEMMA CallStepType ==
  ASSUME TypeOK, NEW s \in Sessions, CallStep(s)
  PROVE  TypeOK'
<1>1. CASE Authorise(s) \/ AuthoriseFails(s) \/ FindRecord(s) \/ StoreGrant(s)
  BY <1>1, AuthoriseType, AuthoriseFailsType, FindRecordType, StoreGrantType
<1>2. CASE SyncVendStores(s) \/ SyncMSDStores(s) \/ SyncVendProductTypes(s) \/ SyncMSDCategories(s)
  BY <1>2, SaveEachType DEF SyncVendStores, SyncMSDStores, SyncVendProductTypes, SyncMSDCategories
<1>3. CASE SyncVendUsers(s) \/ SyncMSDUsers(s) \/ AssignRoles(s)
  BY <1>3, SyncUsersType, AssignRolesType
<1>4. CASE SaveCompanies(s) \/ CallFails(s) \/ CreateSyncModels(s)
  BY <1>4, SaveCompaniesType, EndCallType
<1> QED
  BY <1>1, <1>2, <1>3, <1>4 DEF CallStep

LEMMA NextType ==
  ASSUME TypeOK, [Next]_vars
  PROVE  TypeOK'
<1>1. CASE ConnectionStep /\ UNCHANGED <<dataVars, page>>
  BY <1>1, ConnectionTypes DEF TypeOK, dataVars
<1>2. CASE \E s \in Sessions : PageStep(s) \/ CallStep(s)
  BY <1>2, PageStepType, CallStepType
<1>3. CASE Crash
  BY <1>3, CrashType
<1>4. CASE UNCHANGED vars
  BY <1>4 DEF vars, connVars, TypeOK, ConnTypeOK
<1> QED
  BY <1>1, <1>2, <1>3, <1>4 DEF Next

\* The state of the connection, of the calls and of the pages always has its type; no more
\* tokens are issued, calls begun or faults met than the bounds allow.
THEOREM OnboardingTypeCorrect == Spec => []TypeOK
BY InitType, NextType, PTL DEF Spec

-----------------------------------------------------------------------------
(* The callers and the record *)

\* Every caller but c goes on as it was.
Alone(c) == \A d \in Callers \ {c} : caller'[d] = caller[d]

LEMMA HelpersAlone ==
  ASSUME caller \in [Callers -> Caller], NEW c \in Callers
  PROVE  /\ \A pc \in Pcs : Goto(c, pc) \/ Answered(c, pc) => Alone(c)
         /\ \A task \in Tasks, stage \in Stages, pc \in Pcs : Begin(c, task, stage, pc) => Alone(c)
         /\ Return(c) => Alone(c)
BY DEF Goto, Answered, Begin, Return, Alone

LEMMA ProceedAlone ==
  ASSUME caller \in [Callers -> Caller], NEW c \in Callers, Proceed(c)
  PROVE  Alone(c)
BY HelpersAlone DEF Proceed, Begin, Return, Alone

LEMMA TokenStepAlone ==
  ASSUME TypeOK, NEW c \in Callers, TokenStep(c)
  PROVE  /\ Alone(c)
         /\ caller[c].pc \in {"find", "refresh", "save", "deactivate", "call"}
<1>1. caller \in [Callers -> Caller]
  BY DEF TypeOK, ConnTypeOK
<1>2. CASE FindTokens(c)
  BY <1>1, <1>2 DEF FindTokens, Goto, Alone
<1>3. CASE Refresh(c)
  BY <1>1, <1>3 DEF Refresh, AfterFault, Answered, Alone
<1>4. CASE FindNoTokens(c) \/ RefreshFails(c) \/ SaveTokens(c) \/ SaveTokensFails(c)
           \/ Deactivate(c) \/ Call(c)
  BY <1>1, <1>4 DEF FindNoTokens, RefreshFails, SaveTokens, SaveTokensFails, Deactivate, Call,
                    AfterFault, Answered, Alone
<1> QED
  BY <1>2, <1>3, <1>4 DEF TokenStep

LEMMA WorkerStepAlone ==
  ASSUME TypeOK, NEW j \in Jobs, WorkerStep(j)
  PROVE  Alone(j)
BY DEF TypeOK, ConnTypeOK, WorkerStep, UseConnection, EndUse, KillWorker, Alone, Callers

LEMMA PageStepAlone ==
  ASSUME TypeOK, NEW s \in Sessions, PageStep(s)
  PROVE  Alone(s) /\ caller[s].pc = "idle"
BY DEF TypeOK, ConnTypeOK, PageStep, OpenPage, Connect, SyncData, SaveCompany, ValidateDatabase,
       InitiateMSDSync, StopMSDSync, Waiting, Begin, Alone, Callers, connVars

LEMMA CallStepAlone ==
  ASSUME TypeOK, NEW s \in Sessions, CallStep(s)
  PROVE  Alone(s)
<1>1. caller \in [Callers -> Caller] /\ s \in Callers
  BY DEF TypeOK, ConnTypeOK, Callers
<1>2. CASE Authorise(s) \/ AuthoriseFails(s) \/ FindRecord(s) \/ StoreGrant(s) \/ SaveCompanies(s)
  BY <1>1, <1>2 DEF Authorise, AuthoriseFails, FindRecord, StoreGrant, SaveCompanies, Begin,
                    Return, Alone
<1>3. CASE SyncVendStores(s) \/ SyncMSDStores(s) \/ SyncVendProductTypes(s) \/ SyncMSDCategories(s)
  BY <1>1, <1>3, HelpersAlone, ProceedAlone
  DEF SyncVendStores, SyncMSDStores, SyncVendProductTypes, SyncMSDCategories, SaveEach
<1>4. CASE SyncVendUsers(s)
  BY <1>1, <1>4, HelpersAlone DEF SyncVendUsers, Pcs
<1>5. CASE SyncMSDUsers(s) \/ CreateSyncModels(s)
  BY <1>1, <1>5, HelpersAlone DEF SyncMSDUsers, CreateSyncModels
<1>6. CASE AssignRoles(s) \/ CallFails(s)
  BY <1>1, <1>6, HelpersAlone, ProceedAlone DEF AssignRoles, CallFails
<1> QED
  BY <1>2, <1>3, <1>4, <1>5, <1>6 DEF CallStep

-----------------------------------------------------------------------------
(* Roles *)

\* What makes RoleIsMissingForAReason inductive: a call knows whom it created only until it
\* assigns the roles.
RoleInvariant ==
  /\ \A s \in Sessions : created[s] # {} => caller[s].pc = "roles"
  /\ RoleIsMissingForAReason

LEMMA RolesUntouched ==
  ASSUME RoleInvariant, UNCHANGED <<system, created, unassigned>>, db'.users = db.users,
         \A s \in Sessions : caller[s].pc = "roles" => caller'[s].pc = "roles"
  PROVE  RoleInvariant'
BY DEF RoleInvariant, RoleIsMissingForAReason

LEMMA RolesConnection ==
  ASSUME TypeOK, RoleInvariant, ConnectionStep, UNCHANGED <<dataVars, page>>
  PROVE  RoleInvariant'
<1>1. \A s \in Sessions : caller[s].pc = "roles" => caller'[s].pc = "roles"
  <2>1. CASE Expire \/ Revoke
    BY <2>1 DEF Expire, Revoke
  <2>2. ASSUME NEW c \in Callers, TokenStep(c)
        PROVE  \A s \in Sessions : caller[s].pc = "roles" => caller'[s].pc = "roles"
    BY <2>2, TokenStepAlone DEF Alone, Callers
  <2>3. ASSUME NEW j \in Jobs, WorkerStep(j)
        PROVE  \A s \in Sessions : caller[s].pc = "roles" => caller'[s].pc = "roles"
    BY <2>3, WorkerStepAlone, ConnectionAssumption DEF Alone, Callers
  <2> QED
    BY <2>1, <2>2, <2>3 DEF ConnectionStep
<1>2. UNCHANGED system
  BY DEF ConnectionStep, Expire, Revoke, TokenStep, FindTokens, FindNoTokens, Refresh, RefreshFails,
         SaveTokens, SaveTokensFails, Deactivate, Call, WorkerStep, UseConnection, EndUse, KillWorker
<1> QED
  BY <1>1, <1>2, RolesUntouched DEF dataVars

LEMMA RolesPage ==
  ASSUME TypeOK, RoleInvariant, NEW s \in Sessions, PageStep(s)
  PROVE  RoleInvariant'
<1>1. \A t \in Sessions : caller[t].pc = "roles" => caller'[t].pc = "roles"
  BY PageStepAlone DEF Alone, Callers
<1>2. UNCHANGED <<system, db, created, unassigned>>
  BY DEF PageStep, OpenPage, Connect, SyncData, SaveCompany, ValidateDatabase, InitiateMSDSync,
         StopMSDSync, connVars, dataVars
<1> QED
  BY <1>1, <1>2, RolesUntouched

LEMMA RolesCall ==
  ASSUME TypeOK, RoleInvariant, NEW s \in Sessions, CallStep(s)
  PROVE  RoleInvariant'
<1>1. Alone(s) /\ \A t \in Sessions \ {s} : caller'[t] = caller[t]
  BY CallStepAlone DEF Alone, Callers
<1>2. CASE caller[s].pc # "roles" /\ UNCHANGED <<system, created, unassigned>> /\ db'.users = db.users
  BY <1>1, <1>2, RolesUntouched
<1>3. CASE Authorise(s) \/ AuthoriseFails(s) \/ FindRecord(s) \/ StoreGrant(s) \/ SaveCompanies(s)
           \/ CallFails(s) \/ CreateSyncModels(s)
  BY <1>2, <1>3 DEF Authorise, AuthoriseFails, FindRecord, StoreGrant, SaveCompanies, At,
                    CallFails, CreateSyncModels, dataVars
<1>4. CASE SyncVendStores(s) \/ SyncMSDStores(s) \/ SyncVendProductTypes(s) \/ SyncMSDCategories(s)
  <2>1. db'.users = db.users
    BY <1>4, DatabaseType DEF SyncVendStores, SyncMSDStores, SyncVendProductTypes,
                              SyncMSDCategories, SaveEach, TypeOK
  <2> QED
    BY <1>2, <1>4, <2>1 DEF SyncVendStores, SyncMSDStores, SyncVendProductTypes,
                            SyncMSDCategories, SaveEach, At
<1>5. CASE SyncVendUsers(s)
  <2>1. PICK users \in SUBSET Users : \E answered \in SUBSET users :
          /\ db' = [db EXCEPT !.users = WithUsers(users)]
          /\ created' = [created EXCEPT ![s] = NewUsers(answered)]
          /\ unassigned' = unassigned \union (NewUsers(users) \ answered)
    BY <1>5 DEF SyncVendUsers
  <2>2. PICK answered \in SUBSET users :
          /\ db' = [db EXCEPT !.users = WithUsers(users)]
          /\ created' = [created EXCEPT ![s] = NewUsers(answered)]
          /\ unassigned' = unassigned \union (NewUsers(users) \ answered)
    BY <2>1
  <2>3. /\ caller[s].pc = "called" /\ caller'[s].pc = "roles" /\ created[s] = {}
        /\ UNCHANGED system
    BY <1>5 DEF SyncVendUsers, At, Goto, TypeOK, ConnTypeOK, Callers, RoleInvariant, Caller
  <2>4. db'.users = WithUsers(users) /\ created'[s] = NewUsers(answered)
        /\ \A t \in Sessions \ {s} : created'[t] = created[t]
    BY <2>2, DatabaseType DEF TypeOK
  <2>5. \A t \in Sessions : created'[t] # {} => caller'[t].pc = "roles"
    BY <1>1, <2>3, <2>4 DEF RoleInvariant
  <2>6. ASSUME system = "vend", NEW u \in Users, db'.users[u] = "saved"
        PROVE  u \in unassigned' \/ \E t \in Sessions : caller'[t].pc = "roles" /\ u \in created'[t]
    <3>1. CASE db.users[u] = "none"
      <4>1. u \in users
        BY <2>4, <2>6, <3>1 DEF WithUsers
      <4> QED
        BY <2>2, <2>3, <2>4, <3>1, <4>1 DEF NewUsers
    <3>2. CASE db.users[u] # "none"
      <4>1. db.users[u] = "saved"
        BY <2>4, <2>6, <3>2 DEF WithUsers
      <4> QED
        BY <1>1, <2>2, <2>3, <2>4, <2>6, <4>1 DEF RoleInvariant, RoleIsMissingForAReason
    <3> QED
      BY <3>1, <3>2
  <2> QED
    BY <2>3, <2>5, <2>6 DEF RoleInvariant, RoleIsMissingForAReason
<1>6. CASE SyncMSDUsers(s)
  BY <1>1, <1>6 DEF SyncMSDUsers, At, RoleInvariant, RoleIsMissingForAReason
<1>7. CASE AssignRoles(s)
  <2>1. PICK users \in SUBSET created[s] :
          /\ db' = [db EXCEPT !.users = WithRole(users)]
          /\ unassigned' = unassigned \union (created[s] \ users)
    BY <1>7 DEF AssignRoles
  <2>2. db'.users = WithRole(users)
    BY <2>1, DatabaseType DEF TypeOK
  <2>3. created'[s] = {} /\ \A t \in Sessions \ {s} : created'[t] = created[t]
    BY <1>7 DEF AssignRoles, TypeOK
  <2>4. UNCHANGED system
    BY <1>7 DEF AssignRoles
  <2>5. ASSUME system = "vend", NEW u \in Users, db'.users[u] = "saved"
        PROVE  u \in unassigned' \/ \E t \in Sessions : caller'[t].pc = "roles" /\ u \in created'[t]
    <3>1. u \notin users /\ db.users[u] = "saved"
      BY <2>2, <2>5 DEF WithRole
    <3> QED
      BY <1>1, <2>1, <2>3, <2>5, <3>1 DEF RoleInvariant, RoleIsMissingForAReason
  <2> QED
    BY <1>1, <2>3, <2>4, <2>5 DEF RoleInvariant, RoleIsMissingForAReason
<1> QED
  BY <1>3, <1>4, <1>5, <1>6, <1>7 DEF CallStep

LEMMA RolesCrash ==
  ASSUME TypeOK, RoleInvariant, Crash
  PROVE  RoleInvariant'
<1>1. UNCHANGED <<system, db>> /\ \A s \in Sessions : created'[s] = {}
  BY DEF Crash
<1>2. unassigned' = unassigned \union UNION {created[s] : s \in Sessions}
  BY DEF Crash
<1> QED
  BY <1>1, <1>2 DEF RoleInvariant, RoleIsMissingForAReason

\* Every synchronised user of Vend without a role has a call that failed, or is about to assign
\* one, whatever the calls, their failures and the crashes of the API process.
THEOREM RolesAreMissingForAReason == Spec => []RoleIsMissingForAReason
<1>1. Init => RoleInvariant
  BY DEF Init, RoleInvariant, RoleIsMissingForAReason
<1>2. TypeOK /\ RoleInvariant /\ [Next]_vars => RoleInvariant'
  <2> SUFFICES ASSUME TypeOK, RoleInvariant, [Next]_vars PROVE RoleInvariant'
    OBVIOUS
  <2>1. CASE UNCHANGED vars
    BY <2>1, RolesUntouched DEF vars, connVars
  <2> QED
    BY <2>1, RolesConnection, RolesPage, RolesCall, RolesCrash DEF Next
<1>3. RoleInvariant => RoleIsMissingForAReason
  BY DEF RoleInvariant
<1> QED
  BY <1>1, <1>2, <1>3, OnboardingTypeCorrect, PTL DEF Spec

-----------------------------------------------------------------------------
(* The data of the sync process *)

\* What a call of initiateVendSync has done by the stage it is at.
InitiateKeepsOrder ==
  \A s \in Sessions :
    /\ caller[s].task = "initiate" =>
         system = "vend" /\ (caller[s].stage \in {"users", "types"} => db.stores = Stores)
    /\ caller[s].pc = "models" => caller[s].task = "initiate" /\ db.stores = Stores /\ db.types = Types
    /\ caller[s].pc = "roles" => caller[s].stage = "users"

\* What a page shows of the record stays true of it.
PagesAreTrue ==
  \A s \in Sessions :
    /\ page[s].dataAreaId => records # <<>> /\ Integration.dataAreaId
    /\ page[s].databaseValid => records # <<>> /\ Integration.databaseValid

\* What makes SyncHasItsData inductive.
DataInvariant ==
  /\ InitiateKeepsOrder
  /\ PagesAreTrue
  /\ sync /\ system = "msdynamics" => records # <<>>
  /\ SyncHasItsData

\* What no step takes from the database.
DataStays ==
  /\ UNCHANGED system
  /\ db.stores = Stores => db'.stores = Stores
  /\ db.types = Types => db'.types = Types
  /\ records # <<>> => /\ records' # <<>>
                       /\ Integration.dataAreaId => Integration'.dataAreaId
                       /\ Integration.databaseValid => Integration'.databaseValid

LEMMA FirstRecord ==
  ASSUME records \in Seq(IntegrationModel), records # <<>>
  PROVE  1 \in DOMAIN records /\ Integration = records[1] /\ Integration \in IntegrationModel
BY DEF Integration

LEMMA ConnectionKeepsData ==
  ASSUME TypeOK, ConnectionStep, UNCHANGED <<dataVars, page>>
  PROVE  DataStays
<1>1. UNCHANGED <<system, db>>
  BY DEF ConnectionStep, Expire, Revoke, TokenStep, FindTokens, FindNoTokens, Refresh, RefreshFails,
         SaveTokens, SaveTokensFails, Deactivate, Call, WorkerStep, UseConnection, EndUse,
         KillWorker, dataVars
<1>2. CASE UNCHANGED records
  BY <1>1, <1>2 DEF DataStays, Integration
<1>3. ASSUME NEW c \in Callers, SaveTokens(c), records # <<>>
      PROVE  /\ records' # <<>>
             /\ Integration.dataAreaId => Integration'.dataAreaId
             /\ Integration.databaseValid => Integration'.databaseValid
  <2>1. records' = [i \in DOMAIN records |->
                      IF i \in Saves(c) THEN WithTokens(records[i], caller[c].got) ELSE records[i]]
    BY <1>3 DEF SaveTokens
  <2>2. 1 \in DOMAIN records /\ Integration = records[1] /\ Integration \in IntegrationModel
    BY <1>3, FirstRecord DEF TypeOK, ConnTypeOK
  <2>3. /\ DOMAIN records' = DOMAIN records
        /\ records'[1] \in {Integration, WithTokens(Integration, caller[c].got)}
    BY <2>1, <2>2
  <2>4. /\ WithTokens(Integration, caller[c].got).dataAreaId = Integration.dataAreaId
        /\ WithTokens(Integration, caller[c].got).databaseValid = Integration.databaseValid
    BY <2>2 DEF WithTokens, IntegrationModel
  <2> QED
    BY <2>2, <2>3, <2>4 DEF Integration
<1>4. ASSUME NEW c \in Callers, Deactivate(c), records # <<>>
      PROVE  /\ records' # <<>>
             /\ Integration.dataAreaId => Integration'.dataAreaId
             /\ Integration.databaseValid => Integration'.databaseValid
  <2>1. 1 \in DOMAIN records /\ Integration = records[1] /\ Integration \in IntegrationModel
    BY <1>4, FirstRecord DEF TypeOK, ConnTypeOK
  <2>2. CASE UNCHANGED records
    BY <1>4, <2>2 DEF Integration
  <2>3. CASE records' = [i \in DOMAIN records |-> [records[i] EXCEPT !.isActive = FALSE]]
    BY <2>1, <2>3 DEF Integration, IntegrationModel
  <2> QED
    BY <1>4, <2>2, <2>3 DEF Deactivate
<1>5. ASSUME NEW c \in Callers, TokenStep(c), ~SaveTokens(c), ~Deactivate(c)
      PROVE  UNCHANGED records
  BY <1>5 DEF TokenStep, FindTokens, FindNoTokens, Refresh, RefreshFails, SaveTokensFails, Call
<1>6. CASE \/ Expire \/ Revoke \/ \E j \in Jobs : WorkerStep(j)
  BY <1>2, <1>6 DEF Expire, Revoke, WorkerStep, UseConnection, EndUse, KillWorker
<1> QED
  BY <1>1, <1>2, <1>3, <1>4, <1>5, <1>6 DEF ConnectionStep, DataStays

LEMMA PageKeepsData ==
  ASSUME TypeOK, NEW s \in Sessions, PageStep(s)
  PROVE  DataStays
<1>1. UNCHANGED <<system, db>>
  BY DEF PageStep, OpenPage, Connect, SyncData, SaveCompany, ValidateDatabase, InitiateMSDSync,
         StopMSDSync, connVars, dataVars
<1>2. CASE UNCHANGED records
  BY <1>1, <1>2 DEF DataStays, Integration
<1>3. ASSUME records # <<>>
      PROVE  1 \in DOMAIN records /\ Integration = records[1] /\ Integration \in IntegrationModel
  BY <1>3, FirstRecord DEF TypeOK, ConnTypeOK
<1>4. CASE records' = [records EXCEPT ![1].dataAreaId = TRUE]
  BY <1>1, <1>3, <1>4 DEF DataStays, Integration, IntegrationModel
<1>5. CASE records' = [i \in DOMAIN records |-> [records[i] EXCEPT !.databaseValid = TRUE]]
  BY <1>1, <1>3, <1>5 DEF DataStays, Integration, IntegrationModel
<1> QED
  BY <1>2, <1>4, <1>5 DEF PageStep, OpenPage, Connect, SyncData, SaveCompany, ValidateDatabase,
                          InitiateMSDSync, StopMSDSync, connVars

LEMMA CallKeepsData ==
  ASSUME TypeOK, NEW s \in Sessions, CallStep(s)
  PROVE  DataStays
<1>1. ASSUME records # <<>>
      PROVE  1 \in DOMAIN records /\ Integration = records[1] /\ Integration \in IntegrationModel
  BY <1>1, FirstRecord DEF TypeOK, ConnTypeOK
<1>2. CASE Authorise(s) \/ AuthoriseFails(s) \/ FindRecord(s) \/ CallFails(s) \/ CreateSyncModels(s)
  BY <1>2 DEF Authorise, AuthoriseFails, FindRecord, CallFails, CreateSyncModels, dataVars,
              DataStays, Integration
<1>3. CASE StoreGrant(s)
  <2>1. UNCHANGED <<system, db>>
    BY <1>3 DEF StoreGrant, dataVars
  <2>2. CASE caller[s].found
    <3>1. records' = [records EXCEPT ![1] = Reconnected(@, caller[s].got)]
      BY <1>3, <2>2 DEF StoreGrant
    <3> QED
      BY <1>1, <2>1, <3>1 DEF DataStays, Integration, Reconnected, IntegrationModel
  <2>3. CASE ~caller[s].found
    <3>1. records' = Append(records, NewRecord(caller[s].got))
      BY <1>3, <2>3 DEF StoreGrant
    <3>2. records # <<>> => records' # <<>> /\ records'[1] = records[1]
      BY <1>1, <3>1 DEF TypeOK, ConnTypeOK
    <3> QED
      BY <2>1, <3>2 DEF DataStays, Integration
  <2> QED
    BY <2>2, <2>3
<1>4. CASE SaveCompanies(s)
  <2>1. UNCHANGED <<system, db>>
    BY <1>4 DEF SaveCompanies, dataVars
  <2>2. CASE UNCHANGED records
    BY <2>1, <2>2 DEF DataStays, Integration
  <2>3. CASE records' = [i \in DOMAIN records |-> [records[i] EXCEPT !.companies = TRUE]]
    BY <1>1, <2>1, <2>3 DEF DataStays, Integration, IntegrationModel
  <2> QED
    BY <1>4, <2>2, <2>3 DEF SaveCompanies
<1>5. CASE SyncVendStores(s) \/ SyncMSDStores(s) \/ SyncVendProductTypes(s) \/ SyncMSDCategories(s)
  <2>1. UNCHANGED <<system, records>>
    BY <1>5 DEF SyncVendStores, SyncMSDStores, SyncVendProductTypes, SyncMSDCategories, SaveEach
  <2>2. (db.stores = Stores => db'.stores = Stores) /\ (db.types = Types => db'.types = Types)
    BY <1>5, DatabaseType
    DEF SyncVendStores, SyncMSDStores, SyncVendProductTypes, SyncMSDCategories, SaveEach, TypeOK
  <2> QED
    BY <2>1, <2>2 DEF DataStays, Integration
<1>6. CASE SyncVendUsers(s) \/ SyncMSDUsers(s) \/ AssignRoles(s)
  <2>1. UNCHANGED <<system, records>>
    BY <1>6 DEF SyncVendUsers, SyncMSDUsers, AssignRoles
  <2>2. db'.stores = db.stores /\ db'.types = db.types
    BY <1>6, DatabaseType DEF SyncVendUsers, SyncMSDUsers, AssignRoles, TypeOK
  <2> QED
    BY <2>1, <2>2 DEF DataStays, Integration
<1> QED
  BY <1>2, <1>3, <1>4, <1>5, <1>6 DEF CallStep

LEMMA StepKeepsData ==
  ASSUME TypeOK, [Next]_vars
  PROVE  DataStays
<1>1. CASE Crash
  BY <1>1 DEF Crash, DataStays, Integration
<1>2. CASE UNCHANGED vars
  BY <1>2 DEF vars, connVars, DataStays, Integration
<1> QED
  BY <1>1, <1>2, ConnectionKeepsData, PageKeepsData, CallKeepsData DEF Next

\* A caller whose step begins nothing of initiateVendSync.
Unhurried(s) ==
  \/ caller'[s] = caller[s]
  \/ caller'[s].task # "initiate" /\ caller'[s].pc \notin {"models", "roles"}
  \/ /\ caller'[s].task = caller[s].task /\ caller'[s].stage = caller[s].stage
     /\ caller'[s].pc \notin {"models", "roles"}

LEMMA OrderKept ==
  ASSUME InitiateKeepsOrder, DataStays, \A s \in Sessions : Unhurried(s)
  PROVE  InitiateKeepsOrder'
BY DEF InitiateKeepsOrder, DataStays, Unhurried

LEMMA OrderOf ==
  ASSUME InitiateKeepsOrder, DataStays, NEW s \in Sessions,
         \A t \in Sessions \ {s} : Unhurried(t),
         caller'[s].task = "initiate" =>
           system = "vend" /\ (caller'[s].stage \in {"users", "types"} => db'.stores = Stores),
         caller'[s].pc = "models" =>
           caller'[s].task = "initiate" /\ db'.stores = Stores /\ db'.types = Types,
         caller'[s].pc = "roles" => caller'[s].stage = "users"
  PROVE  InitiateKeepsOrder'
<1>1. UNCHANGED system
  BY DEF DataStays
<1>2. ASSUME NEW t \in Sessions \ {s}
      PROVE  /\ caller'[t].task = "initiate" =>
                  system = "vend" /\ (caller'[t].stage \in {"users", "types"} => db'.stores = Stores)
             /\ caller'[t].pc = "models" =>
                  caller'[t].task = "initiate" /\ db'.stores = Stores /\ db'.types = Types
             /\ caller'[t].pc = "roles" => caller'[t].stage = "users"
  BY DEF InitiateKeepsOrder, DataStays, Unhurried
<1> QED
  BY <1>1, <1>2 DEF InitiateKeepsOrder

LEMMA ConnectionUnhurried ==
  ASSUME TypeOK, ConnectionStep
  PROVE  \A s \in Sessions : Unhurried(s)
<1>1. CASE Expire \/ Revoke
  BY <1>1 DEF Expire, Revoke, Unhurried
<1>2. ASSUME NEW j \in Jobs, WorkerStep(j)
      PROVE  \A s \in Sessions : Unhurried(s)
  BY <1>2, WorkerStepAlone, ConnectionAssumption DEF Alone, Callers, Unhurried
<1>3. ASSUME NEW c \in Callers, TokenStep(c)
      PROVE  \A s \in Sessions : Unhurried(s)
  <2>1. /\ caller \in [Callers -> Caller] /\ Sessions \subseteq Callers
        /\ caller[c] \in Caller
    BY DEF TypeOK, ConnTypeOK, Callers
  <2>2. \A pc \in Pcs \ {"models", "roles"} : Goto(c, pc) \/ Answered(c, pc) => Unhurried(c)
    BY <2>1 DEF Goto, Answered, Unhurried, Caller
  <2>3. FindTokens(c) => Unhurried(c)
    <3>1. CASE caller' = [caller EXCEPT ![c].pc = "refresh", ![c].seen = Integration.refresh]
      BY <2>1, <3>1 DEF Unhurried, Caller
    <3>2. CASE Goto(c, "call")
      BY <2>2, <3>2 DEF Pcs
    <3> QED
      BY <3>1, <3>2 DEF FindTokens
  <2>4. AfterFault(c) => Unhurried(c)
    BY <2>2 DEF AfterFault, Unrefreshed, Unhurried, Pcs
  <2>5. Refresh(c) => Unhurried(c)
    <3>1. ASSUME NEW answer, caller' = [caller EXCEPT ![c].got = answer.got, ![c].pc = "save"]
          PROVE  Unhurried(c)
      BY <2>1, <3>1 DEF Unhurried, Caller
    <3> QED
      BY <2>4, <3>1 DEF Refresh
  <2>6. FindNoTokens(c) \/ RefreshFails(c) \/ SaveTokens(c) \/ SaveTokensFails(c)
        \/ Deactivate(c) \/ Call(c) => Unhurried(c)
    BY <2>2, <2>4 DEF FindNoTokens, RefreshFails, SaveTokens, SaveTokensFails, Deactivate, Call,
                      Unrefreshed, Pcs
  <2>7. Unhurried(c)
    BY <1>3, <2>3, <2>5, <2>6 DEF TokenStep
  <2> QED
    BY <1>3, <2>1, <2>7, TokenStepAlone DEF Alone, Unhurried
<1> QED
  BY <1>1, <1>2, <1>3 DEF ConnectionStep

LEMMA OrderPage ==
  ASSUME TypeOK, InitiateKeepsOrder, DataStays, NEW s \in Sessions, PageStep(s)
  PROVE  InitiateKeepsOrder'
<1>1. /\ caller \in [Callers -> Caller] /\ s \in Callers /\ Sessions \subseteq Callers
      /\ \A t \in Sessions \ {s} : Unhurried(t)
  BY PageStepAlone DEF TypeOK, ConnTypeOK, Callers, Alone, Unhurried
<1>2. CASE Unhurried(s)
  BY <1>1, <1>2, OrderKept
<1>3. CASE OpenPage(s) \/ SaveCompany(s) \/ ValidateDatabase(s) \/ InitiateMSDSync(s) \/ StopMSDSync(s)
  BY <1>2, <1>3 DEF OpenPage, SaveCompany, ValidateDatabase, InitiateMSDSync, StopMSDSync,
                    connVars, Unhurried
<1>4. CASE Connect(s)
  <2>1. caller'[s] = [IdleCaller EXCEPT !.task = "connect", !.stage = "companies", !.pc = "authorise"]
    BY <1>1, <1>4 DEF Connect, Begin
  <2> QED
    BY <1>2, <2>1 DEF Unhurried, IdleCaller
<1>5. ASSUME NEW task \in {"stores", "users", "types"}, SyncData(s, task, task)
      PROVE  Unhurried(s)
  <2>1. caller'[s] = [IdleCaller EXCEPT !.task = task, !.stage = task, !.pc = "find"]
    BY <1>1, <1>5 DEF SyncData, Begin
  <2> QED
    BY <2>1 DEF Unhurried, IdleCaller
<1>6. CASE SyncData(s, "initiate", "stores")
  <2>1. caller'[s] = [IdleCaller EXCEPT !.task = "initiate", !.stage = "stores", !.pc = "find"]
    BY <1>1, <1>6 DEF SyncData, Begin
  <2>2. system = "vend"
    BY <1>6 DEF SyncData, MaySync
  <2>3. /\ caller'[s].task = "initiate" /\ caller'[s].stage = "stores" /\ caller'[s].pc = "find"
    BY <2>1 DEF IdleCaller
  <2> QED
    BY <1>1, <2>2, <2>3 DEF InitiateKeepsOrder, DataStays, Unhurried
<1> QED
  BY <1>2, <1>3, <1>4, <1>5, <1>6 DEF PageStep

\* What initiateVendSync begins next keeps its order, when what it was about is done.
LEMMA OrderProceed ==
  ASSUME TypeOK, InitiateKeepsOrder, DataStays, NEW s \in Sessions, Proceed(s),
         caller[s].stage \in {"stores", "users", "types"},
         caller[s].stage = "stores" => db'.stores = Stores,
         caller[s].stage = "types" => db'.types = Types
  PROVE  InitiateKeepsOrder'
<1>1. /\ caller \in [Callers -> Caller] /\ s \in Callers /\ Sessions \subseteq Callers
      /\ \A t \in Sessions \ {s} : Unhurried(t)
  BY ProceedAlone DEF TypeOK, ConnTypeOK, Callers, Alone, Unhurried
<1>2. CASE caller[s].task # "initiate"
  <2>1. caller'[s] = IdleCaller
    BY <1>1, <1>2 DEF Proceed, Return
  <2> QED
    BY <1>1, <2>1, OrderKept DEF Unhurried, IdleCaller
<1>3. CASE caller[s].task = "initiate"
  <2>1. system = "vend" /\ db'.stores = Stores
    BY <1>3 DEF InitiateKeepsOrder, DataStays
  <2>2. \E stage \in {"users", "types"}, pc \in {"find", "models"} :
          /\ Begin(s, "initiate", stage, pc)
          /\ pc = "models" => db'.types = Types
    BY <1>3 DEF Proceed
  <2>3. PICK stage \in {"users", "types"}, pc \in {"find", "models"} :
          /\ caller'[s] = [IdleCaller EXCEPT !.task = "initiate", !.stage = stage, !.pc = pc]
          /\ pc = "models" => db'.types = Types
    BY <1>1, <2>2 DEF Begin
  <2>4. caller'[s].task = "initiate" /\ caller'[s].stage = stage /\ caller'[s].pc = pc
    BY <2>3 DEF IdleCaller
  <2> QED
    BY <1>1, <2>1, <2>3, <2>4, OrderOf
<1> QED
  BY <1>2, <1>3

LEMMA OrderCall ==
  ASSUME TypeOK, InitiateKeepsOrder, DataStays, NEW s \in Sessions, CallStep(s)
  PROVE  InitiateKeepsOrder'
<1>1. /\ caller \in [Callers -> Caller] /\ s \in Callers /\ Sessions \subseteq Callers
      /\ caller[s] \in Caller
      /\ \A t \in Sessions \ {s} : Unhurried(t)
  BY CallStepAlone DEF TypeOK, ConnTypeOK, Callers, Alone, Unhurried
<1>2. CASE Unhurried(s)
  BY <1>1, <1>2, OrderKept
<1>3. CASE Return(s)
  BY <1>1, <1>2, <1>3 DEF Return, IdleCaller, Unhurried
<1>4. CASE Authorise(s) \/ FindRecord(s)
  <2>1. /\ caller'[s].task = caller[s].task /\ caller'[s].stage = caller[s].stage
        /\ caller'[s].pc \in {"store", "findRecord"}
    BY <1>1, <1>4 DEF Authorise, FindRecord, Caller
  <2> QED
    BY <1>2, <2>1 DEF Unhurried
<1>5. CASE StoreGrant(s)
  <2>1. CASE Begin(s, "connect", "companies", "find")
    <3>1. caller'[s] = [IdleCaller EXCEPT !.task = "connect", !.stage = "companies", !.pc = "find"]
      BY <1>1, <2>1 DEF Begin
    <3> QED
      BY <1>2, <3>1 DEF Unhurried, IdleCaller
  <2> QED
    BY <1>3, <1>5, <2>1 DEF StoreGrant
<1>6. CASE AuthoriseFails(s) \/ SaveCompanies(s) \/ SyncMSDUsers(s) \/ CreateSyncModels(s)
  BY <1>3, <1>6 DEF AuthoriseFails, SaveCompanies, SyncMSDUsers, CreateSyncModels
<1>7. CASE SyncVendStores(s) \/ SyncMSDStores(s)
  <2>1. SaveEach(s, "stores", Stores)
    BY <1>7 DEF SyncVendStores, SyncMSDStores
  <2>2. caller[s].stage = "stores" /\ (Return(s) \/ (Proceed(s) /\ db' = [db EXCEPT !["stores"] = Stores]))
    BY <2>1 DEF SaveEach, At
  <2>3. db' = [db EXCEPT !["stores"] = Stores] => db'.stores = Stores
    BY DatabaseType DEF TypeOK
  <2> QED
    BY <1>3, <2>2, <2>3, OrderProceed
<1>8. CASE SyncVendProductTypes(s) \/ SyncMSDCategories(s)
  <2>1. SaveEach(s, "types", Types)
    BY <1>8 DEF SyncVendProductTypes, SyncMSDCategories
  <2>2. caller[s].stage = "types" /\ (Return(s) \/ (Proceed(s) /\ db' = [db EXCEPT !["types"] = Types]))
    BY <2>1 DEF SaveEach, At
  <2>3. db' = [db EXCEPT !["types"] = Types] => db'.types = Types
    BY DatabaseType DEF TypeOK
  <2> QED
    BY <1>3, <2>2, <2>3, OrderProceed
<1>9. CASE SyncVendUsers(s)
  <2>1. caller[s].stage = "users" /\ caller'[s] = [caller[s] EXCEPT !.pc = "roles"]
    BY <1>1, <1>9 DEF SyncVendUsers, At, Goto
  <2>2. caller'[s].task = caller[s].task /\ caller'[s].stage = "users" /\ caller'[s].pc = "roles"
    BY <1>1, <2>1 DEF Caller
  <2>3. caller[s].task = "initiate" => system = "vend" /\ db'.stores = Stores
    BY <2>1 DEF InitiateKeepsOrder, DataStays
  <2> QED
    BY <1>1, <2>2, <2>3, OrderOf
<1>10. CASE AssignRoles(s)
  <2>1. caller[s].stage = "users" /\ Proceed(s)
    BY <1>10 DEF AssignRoles, InitiateKeepsOrder
  <2> QED
    BY <2>1, OrderProceed
<1>11. CASE CallFails(s)
  BY <1>3, <1>11, OrderProceed DEF CallFails, MovesOn
<1> QED
  BY <1>4, <1>5, <1>6, <1>7, <1>8, <1>9, <1>10, <1>11 DEF CallStep

LEMMA OrderStep ==
  ASSUME TypeOK, InitiateKeepsOrder, [Next]_vars
  PROVE  InitiateKeepsOrder'
<1>1. DataStays
  BY StepKeepsData
<1>2. CASE Crash
  <2>1. \A s \in Sessions : caller'[s] = IdleCaller
    BY <1>2 DEF Crash, Callers
  <2> QED
    BY <1>1, <2>1, OrderKept DEF Unhurried, IdleCaller
<1>3. CASE UNCHANGED vars
  BY <1>1, <1>3, OrderKept DEF vars, connVars, Unhurried
<1> QED
  BY <1>1, <1>2, <1>3, OrderKept, ConnectionUnhurried, OrderPage, OrderCall DEF Next

LEMMA PagesStep ==
  ASSUME TypeOK, PagesAreTrue, [Next]_vars
  PROVE  PagesAreTrue'
<1>1. DataStays
  BY StepKeepsData
<1>2. CASE UNCHANGED page
  BY <1>1, <1>2 DEF PagesAreTrue, DataStays
<1>3. ASSUME NEW s \in Sessions, PageStep(s)
      PROVE  PagesAreTrue'
  <2>1. CASE OpenPage(s)
    <3>1. UNCHANGED records /\ page' = [page EXCEPT ![s] = Shown(sync)]
      BY <2>1 DEF OpenPage, connVars
    <3>2. Shown(sync).dataAreaId => records # <<>> /\ Integration.dataAreaId
      BY DEF Shown, Closed
    <3>3. Shown(sync).databaseValid => records # <<>> /\ Integration.databaseValid
      BY DEF Shown, Closed
    <3> QED
      BY <3>1, <3>2, <3>3 DEF PagesAreTrue, TypeOK, Integration
  <2>2. CASE Leave(s)
    BY <1>1, <2>2 DEF Leave, Closed, PagesAreTrue, DataStays, TypeOK
  <2> QED
    BY <1>3, <2>1, <2>2 DEF PageStep, Connect, SyncData, SaveCompany, ValidateDatabase,
                            InitiateMSDSync, StopMSDSync
<1>4. ASSUME NEW s \in Sessions, CallStep(s)
      PROVE  UNCHANGED page
  BY <1>4 DEF CallStep, Authorise, AuthoriseFails, FindRecord, StoreGrant, SaveCompanies,
              SyncVendStores, SyncMSDStores, SyncVendProductTypes, SyncMSDCategories, SaveEach,
              SyncVendUsers, SyncMSDUsers, AssignRoles, CallFails, CreateSyncModels
<1> QED
  BY <1>2, <1>3, <1>4 DEF Next, Crash, vars

\* The sync process begins only when initiateVendSync has done its work, or from a page that
\* showed a company and a valid database.
LEMMA SyncBegins ==
  ASSUME TypeOK, InitiateKeepsOrder, PagesAreTrue, [Next]_vars, sync' # sync, sync' = TRUE
  PROVE  /\ UNCHANGED <<system, db, records>>
         /\ system = "vend" => db.stores = Stores /\ db.types = Types
         /\ system = "msdynamics" =>
              records # <<>> /\ Integration.dataAreaId /\ Integration.databaseValid
<1>1. PICK s \in Sessions : PageStep(s) \/ CallStep(s)
  BY DEF Next, Crash, vars, dataVars
<1>2. CASE InitiateMSDSync(s)
  BY <1>2 DEF InitiateMSDSync, MayInitiateMSD, PagesAreTrue
<1>3. CASE CreateSyncModels(s)
  BY <1>3 DEF CreateSyncModels, InitiateKeepsOrder
<1>4. PageStep(s) /\ ~InitiateMSDSync(s) => UNCHANGED sync \/ sync' = FALSE
  BY DEF PageStep, OpenPage, Connect, SyncData, SaveCompany, ValidateDatabase, StopMSDSync, dataVars
<1>5. CallStep(s) /\ ~CreateSyncModels(s) => UNCHANGED sync
  BY DEF CallStep, Authorise, AuthoriseFails, FindRecord, StoreGrant, SaveCompanies,
         SyncVendStores, SyncMSDStores, SyncVendProductTypes, SyncMSDCategories, SaveEach,
         SyncVendUsers, SyncMSDUsers, AssignRoles, CallFails, dataVars
<1> QED
  BY <1>1, <1>2, <1>3, <1>4, <1>5

\* The sync process never runs without the stores and categories, or the company and the
\* database, its workers take for granted: not after failed calls, crashes, or from a page that
\* was loaded long before.
THEOREM TheSyncHasItsData == Spec => []SyncHasItsData
<1>1. Init => DataInvariant
  BY DEF Init, ConnInit, DataInvariant, InitiateKeepsOrder, PagesAreTrue, SyncHasItsData,
         IdleCaller, Closed, Callers
<1>2. TypeOK /\ DataInvariant /\ [Next]_vars => DataInvariant'
  <2> SUFFICES ASSUME TypeOK, DataInvariant, [Next]_vars PROVE DataInvariant'
    OBVIOUS
  <2>1. DataStays /\ InitiateKeepsOrder' /\ PagesAreTrue'
    BY StepKeepsData, OrderStep, PagesStep DEF DataInvariant
  <2>2. system \in {"vend", "msdynamics"} /\ UNCHANGED system
    BY <2>1 DEF TypeOK, ConnTypeOK, DataStays
  <2>3. CASE ~sync'
    BY <2>1, <2>3 DEF DataInvariant, SyncHasItsData
  <2>4. CASE sync' /\ sync
    BY <2>1, <2>2, <2>4 DEF DataInvariant, SyncHasItsData, DataStays
  <2>5. CASE sync' /\ ~sync
    <3>1. sync' # sync /\ sync' = TRUE
      BY <2>5, NextType DEF TypeOK
    <3>2. /\ UNCHANGED <<system, db, records>>
          /\ system = "vend" => db.stores = Stores /\ db.types = Types
          /\ system = "msdynamics" =>
               records # <<>> /\ Integration.dataAreaId /\ Integration.databaseValid
      BY <3>1, SyncBegins DEF DataInvariant
    <3> QED
      BY <2>1, <2>2, <3>2 DEF DataInvariant, SyncHasItsData, Integration
  <2> QED
    BY <2>3, <2>4, <2>5
<1>3. DataInvariant => SyncHasItsData
  BY DEF DataInvariant
<1> QED
  BY <1>1, <1>2, <1>3, OnboardingTypeCorrect, PTL DEF Spec

-----------------------------------------------------------------------------
(* The grant *)

\* The refresh token caller c got and has not written yet.
Got(c) == caller[c].got.refresh

\* No token beyond the last one issued is anywhere.
TokensAreIssued ==
  /\ vendor.valid \subseteq 1 .. vendor.issued
  /\ \A i \in DOMAIN records : records[i].refresh <= vendor.issued
  /\ \A c \in Callers : caller[c].seen <= vendor.issued /\ Got(c) <= vendor.issued

\* The refresh token a caller got is known to nobody else until it is written.
GotIsItsOwn ==
  \A c \in Callers : Got(c) # 0 =>
    /\ \A i \in DOMAIN records : records[i].refresh # Got(c)
    /\ \A d \in Callers : caller[d].seen # Got(c) /\ (d # c => Got(d) # Got(c))

\* A new connection has a refresh token to store.
GrantedOnConnect == \A c \in Callers : caller[c].pc \in {"findRecord", "store"} => Got(c) # 0

\* What a caller got stays valid.
GotIsValid == \A c \in Callers : Got(c) # 0 => Got(c) \in vendor.valid

\* GrantIsLostForAReason; with Dynamics the token in the database is valid itself.
GrantIsKept ==
  records # <<>> =>
    \/ Integration.refresh \in vendor.valid
    \/ system = "vend" /\ \E c \in Callers : caller[c].pc = "save" /\ Got(c) \in vendor.valid

GrantInvariant ==
  /\ TokensAreIssued
  /\ GotIsItsOwn
  /\ GrantedOnConnect
  /\ ~lost => GotIsValid /\ GrantIsKept

\* A caller that does not get or write a refresh token, and drops none without its being lost.
QuietCaller(c) ==
  \/ caller'[c] = caller[c]
  \/ /\ caller'[c].seen = 0 /\ caller'[c].got.refresh = 0
     /\ caller'[c].pc \notin {"findRecord", "store"}
     /\ caller[c].pc = "save" /\ Got(c) # 0 => lost'
  \/ /\ caller'[c].seen = caller[c].seen /\ caller'[c].got = caller[c].got
     /\ caller[c].pc # "save"
     /\ caller'[c].pc \in {"findRecord", "store"} => caller[c].pc \in {"findRecord", "store"}

\* A step that leaves the refresh tokens alone.
Quiet ==
  /\ UNCHANGED system
  /\ vendor'.valid = vendor.valid /\ vendor'.issued = vendor.issued
  /\ lost => lost'
  /\ DOMAIN records' = DOMAIN records /\ (records' = <<>> <=> records = <<>>)
  /\ \A i \in DOMAIN records : records'[i].refresh = records[i].refresh
  /\ \A c \in Callers : QuietCaller(c)

LEMMA QuietCallerTokens ==
  ASSUME TypeOK, NEW c \in Callers, QuietCaller(c)
  PROVE  /\ caller'[c].seen \in {caller[c].seen, 0}
         /\ Got(c)' \in {Got(c), 0}
         /\ caller[c].pc = "save" /\ Got(c) # 0 /\ ~lost' => caller'[c].pc = "save" /\ Got(c)' = Got(c)
         /\ caller'[c].pc \in {"findRecord", "store"} =>
              caller[c].pc \in {"findRecord", "store"} /\ Got(c)' = Got(c)
BY DEF QuietCaller, Got

LEMMA TypedTokens ==
  ASSUME TypeOK
  PROVE  /\ vendor = [issued |-> vendor.issued, valid |-> vendor.valid, past |-> vendor.past]
         /\ vendor.issued \in Nat /\ vendor.valid \subseteq Nat \ {0}
         /\ \A i \in DOMAIN records : records[i] \in IntegrationModel /\ records[i].refresh \in Nat
         /\ \A c \in Callers : caller[c] \in Caller /\ caller[c].seen \in Nat /\ Got(c) \in Nat
                               /\ caller[c].got \in [refresh : Token, access : Token]
<1>1. vendor \in Vendor /\ records \in Seq(IntegrationModel) /\ caller \in [Callers -> Caller]
  BY DEF TypeOK, ConnTypeOK
<1>2. 1 .. MaxIssued \subseteq Nat \ {0} /\ Token \subseteq Nat
  BY ConnectionAssumption DEF Token
<1>3. \A i \in DOMAIN records : records[i] \in IntegrationModel /\ records[i].refresh \in Nat
  BY <1>1, <1>2, RecordType, IntegrationModelType
<1>4. \A c \in Callers : caller[c] \in Caller /\ caller[c].seen \in Nat /\ Got(c) \in Nat
                         /\ caller[c].got \in [refresh : Token, access : Token]
  BY <1>1, <1>2, CallerType DEF Got
<1> QED
  BY <1>1, <1>2, <1>3, <1>4, TokensType

LEMMA QuietKeepsGrant ==
  ASSUME TypeOK, GrantInvariant, Quiet
  PROVE  GrantInvariant'
<1>1. \A c \in Callers :
        /\ caller'[c].seen \in {caller[c].seen, 0} /\ Got(c)' \in {Got(c), 0}
        /\ caller[c].pc = "save" /\ Got(c) # 0 /\ ~lost' => caller'[c].pc = "save" /\ Got(c)' = Got(c)
        /\ caller'[c].pc \in {"findRecord", "store"} =>
             caller[c].pc \in {"findRecord", "store"} /\ Got(c)' = Got(c)
  BY QuietCallerTokens DEF Quiet
<1>2. TokensAreIssued'
  BY <1>1, TypedTokens DEF GrantInvariant, TokensAreIssued, Quiet
<1>3. GotIsItsOwn'
  <2> SUFFICES ASSUME NEW c \in Callers, Got(c)' # 0
               PROVE  /\ \A i \in DOMAIN records' : records'[i].refresh # Got(c)'
                      /\ \A d \in Callers : caller'[d].seen # Got(c)' /\ (d # c => Got(d)' # Got(c)')
    BY DEF GotIsItsOwn
  <2>1. Got(c)' = Got(c) /\ Got(c) # 0
    BY <1>1
  <2>2. \A i \in DOMAIN records' : records'[i].refresh # Got(c)'
    BY <2>1 DEF Quiet, GrantInvariant, GotIsItsOwn
  <2>3. \A d \in Callers : caller'[d].seen # Got(c)' /\ (d # c => Got(d)' # Got(c)')
    BY <1>1, <2>1 DEF GrantInvariant, GotIsItsOwn
  <2> QED
    BY <2>2, <2>3
<1>4. GrantedOnConnect'
  BY <1>1 DEF GrantInvariant, GrantedOnConnect
<1>5. ASSUME ~lost'
      PROVE  GotIsValid' /\ GrantIsKept'
  <2>1. ~lost /\ GotIsValid /\ GrantIsKept
    BY <1>5 DEF GrantInvariant, Quiet
  <2>2. GotIsValid'
    BY <1>1, <2>1 DEF GotIsValid, Quiet
  <2>3. ASSUME records' # <<>>
        PROVE  \/ Integration'.refresh \in vendor'.valid
               \/ /\ system' = "vend"
                  /\ \E c \in Callers : caller'[c].pc = "save" /\ Got(c)' \in vendor'.valid
    <3>1. Integration'.refresh = Integration.refresh /\ records # <<>>
      BY <2>3, FirstRecord DEF Quiet, Integration, TypeOK, ConnTypeOK
    <3>2. CASE Integration.refresh \in vendor.valid
      BY <3>1, <3>2 DEF Quiet
    <3>3. CASE system = "vend" /\ \E c \in Callers : caller[c].pc = "save" /\ Got(c) \in vendor.valid
      <4>1. PICK c \in Callers : caller[c].pc = "save" /\ Got(c) \in vendor.valid
        BY <3>3
      <4>2. Got(c) # 0
        BY <4>1, TypedTokens
      <4> QED
        BY <1>1, <1>5, <3>3, <4>1, <4>2 DEF Quiet
    <3> QED
      BY <2>1, <3>1, <3>2, <3>3 DEF GrantIsKept
  <2> QED
    BY <2>2, <2>3 DEF GrantIsKept
<1> QED
  BY <1>2, <1>3, <1>4, <1>5 DEF GrantInvariant

\* The answer to a refresh with a token: only that token may become invalid, and only in exchange
\* for a new one.
LEMMA AnswersExchange ==
  ASSUME TypeOK, NEW refresh, NEW answer \in Answers(refresh), vendor.valid \subseteq 1 .. vendor.issued
  PROVE  /\ answer.valid \subseteq 1 .. Issued
         /\ answer.got.refresh \in {0, Issued}
         /\ answer.got.refresh = Issued => Issued \in answer.valid
         /\ \A n \in vendor.valid : n # refresh => n \in answer.valid
         /\ answer.got.refresh = 0 \/ system = "msdynamics" => vendor.valid \subseteq answer.valid
<1>1. vendor.issued \in Nat /\ Issued = vendor.issued + 1 /\ vendor.valid \subseteq 1 .. Issued
  BY TypedTokens DEF Issued
<1>2. CASE system = "vend"
  <2>1. CASE answer = [got |-> [refresh |-> Issued, access |-> Issued],
                       valid |-> (vendor.valid \ {refresh}) \union {Issued}]
    <3>1. answer.got.refresh = Issued /\ answer.valid = (vendor.valid \ {refresh}) \union {Issued}
      BY <2>1
    <3> QED
      BY <1>1, <1>2, <3>1
  <2>2. CASE answer = [got |-> [refresh |-> 0, access |-> Issued], valid |-> vendor.valid]
    <3>1. answer.got.refresh = 0 /\ answer.valid = vendor.valid
      BY <2>2
    <3> QED
      BY <1>1, <1>2, <3>1
  <2> QED
    BY <1>2, <2>1, <2>2 DEF Answers
<1>3. CASE system = "msdynamics"
  <2>1. answer.got.refresh = Issued /\ answer.valid = vendor.valid \union {Issued}
    BY <1>3 DEF Answers
  <2> QED
    BY <1>1, <1>3, <2>1
<1> QED
  BY <1>2, <1>3 DEF TypeOK, ConnTypeOK

LEMMA NewTokenIsItsOwn ==
  ASSUME TypeOK, GrantInvariant, NEW c \in Callers, Alone(c), UNCHANGED records,
         Got(c)' \in {0, Issued}, caller'[c].seen = caller[c].seen
  PROVE  GotIsItsOwn'
<1>1. Issued = vendor.issued + 1 /\ vendor.issued \in Nat
  BY TypedTokens DEF Issued
<1>2. \A d \in Callers \ {c} : caller'[d] = caller[d] /\ Got(d)' = Got(d)
  BY DEF Alone, Got
<1> SUFFICES ASSUME NEW d \in Callers, Got(d)' # 0
             PROVE  /\ \A i \in DOMAIN records' : records'[i].refresh # Got(d)'
                    /\ \A e \in Callers : caller'[e].seen # Got(d)' /\ (e # d => Got(e)' # Got(d)')
  BY DEF GotIsItsOwn
<1>3. CASE d = c
  <2>1. Got(d)' = vendor.issued + 1
    BY <1>1, <1>3
  <2>2. \A i \in DOMAIN records' : records'[i].refresh # Got(d)'
    BY <1>1, <2>1, TypedTokens DEF GrantInvariant, TokensAreIssued
  <2>3. \A e \in Callers : caller'[e].seen # Got(d)'
    BY <1>1, <1>2, <2>1, TypedTokens DEF GrantInvariant, TokensAreIssued
  <2>4. \A e \in Callers : e # d => Got(e)' # Got(d)'
    BY <1>1, <1>2, <1>3, <2>1, TypedTokens DEF GrantInvariant, TokensAreIssued
  <2> QED
    BY <2>2, <2>3, <2>4
<1>4. CASE d # c
  <2>1. Got(d)' = Got(d) /\ Got(d) <= vendor.issued
    BY <1>2, <1>4 DEF GrantInvariant, TokensAreIssued
  <2>2. \A i \in DOMAIN records' : records'[i].refresh # Got(d)'
    BY <2>1 DEF GrantInvariant, GotIsItsOwn
  <2>3. \A e \in Callers : caller'[e].seen # Got(d)'
    BY <1>2, <2>1 DEF GrantInvariant, GotIsItsOwn
  <2>4. Got(c)' # Got(d)'
    BY <1>1, <2>1, TypedTokens
  <2>5. \A e \in Callers \ {c} : e # d => Got(e)' # Got(d)'
    BY <1>2, <2>1 DEF GrantInvariant, GotIsItsOwn
  <2> QED
    BY <2>2, <2>3, <2>4, <2>5
<1> QED
  BY <1>3, <1>4

LEMMA RefreshKeepsGrant ==
  ASSUME TypeOK, GrantInvariant, NEW c \in Callers, Refresh(c)
  PROVE  GrantInvariant'
<1>1. PICK answer \in Answers(caller[c].seen) :
        /\ vendor' = [vendor EXCEPT !.issued = Issued, !.valid = answer.valid]
        /\ \/ /\ caller' = [caller EXCEPT ![c].got = answer.got, ![c].pc = "save"]
              /\ UNCHANGED <<faults, lost>>
           \/ /\ Fault
              /\ lost' = (lost \/ answer.got.refresh # 0)
              /\ AfterFault(c)
  BY DEF Refresh
<1> DEFINE new == answer.got.refresh
<1>2. /\ answer.valid \subseteq 1 .. Issued
      /\ new \in {0, Issued}
      /\ new = Issued => Issued \in answer.valid
      /\ \A n \in vendor.valid : n # caller[c].seen => n \in answer.valid
      /\ new = 0 \/ system = "msdynamics" => vendor.valid \subseteq answer.valid
  BY AnswersExchange DEF GrantInvariant, TokensAreIssued
<1>3. /\ UNCHANGED <<system, records>> /\ caller[c].pc = "refresh"
      /\ caller \in [Callers -> Caller] /\ caller[c] \in Caller
      /\ Alone(c) /\ system \in {"vend", "msdynamics"}
  BY TokenStepAlone DEF Refresh, TokenStep, TypeOK, ConnTypeOK
<1>4. vendor'.issued = Issued /\ vendor'.valid = answer.valid
  BY <1>1, TypedTokens
<1>5. Issued = vendor.issued + 1 /\ vendor.issued \in Nat
  BY TypedTokens DEF Issued
<1>6. \A d \in Callers \ {c} : caller'[d] = caller[d] /\ Got(d)' = Got(d)
  BY <1>3 DEF Alone, Got
<1>7. CASE caller' = [caller EXCEPT ![c].got = answer.got, ![c].pc = "save"] /\ UNCHANGED lost
  <2>1. caller'[c].pc = "save" /\ Got(c)' = new /\ caller'[c].seen = caller[c].seen
    BY <1>3, <1>7 DEF Got, Caller
  <2>2. TokensAreIssued'
    BY <1>2, <1>3, <1>4, <1>5, <1>6, <2>1, TypedTokens DEF GrantInvariant, TokensAreIssued
  <2>3. GotIsItsOwn'
    BY <1>2, <1>3, <2>1, NewTokenIsItsOwn
  <2>4. GrantedOnConnect'
    BY <1>6, <2>1 DEF GrantInvariant, GrantedOnConnect
  <2>5. ASSUME ~lost'
        PROVE  GotIsValid' /\ GrantIsKept'
    <3>1. GotIsValid /\ GrantIsKept
      BY <1>7, <2>5 DEF GrantInvariant
    <3>2. ASSUME NEW d \in Callers \ {c}, Got(d) # 0
          PROVE  Got(d)' \in vendor'.valid
      BY <1>2, <1>4, <1>6, <3>1, <3>2 DEF GotIsValid, GrantInvariant, GotIsItsOwn
    <3>3. GotIsValid'
      BY <1>2, <1>4, <1>6, <2>1, <3>2 DEF GotIsValid
    <3>4. CASE Integration.refresh \in vendor.valid
      <4>1. Integration' = Integration
        BY <1>3 DEF Integration
      <4>2. CASE Integration.refresh \in answer.valid
        BY <1>4, <3>3, <4>1, <4>2 DEF GrantIsKept
      <4>3. CASE Integration.refresh \notin answer.valid
        <5>1. system = "vend" /\ new = Issued /\ Issued \in answer.valid
          BY <1>2, <1>3, <3>4, <4>3
        <5> QED
          BY <1>3, <1>4, <2>1, <3>3, <5>1 DEF GrantIsKept
      <4> QED
        BY <4>2, <4>3
    <3>5. CASE system = "vend" /\ \E d \in Callers : caller[d].pc = "save" /\ Got(d) \in vendor.valid
      <4>1. PICK d \in Callers : caller[d].pc = "save" /\ Got(d) \in vendor.valid
        BY <3>5
      <4>2. d # c /\ Got(d) # 0 /\ caller'[d] = caller[d]
        BY <1>3, <1>6, <4>1, TypedTokens
      <4> QED
        BY <1>3, <3>2, <3>3, <3>5, <4>1, <4>2 DEF GrantIsKept
    <3> QED
      BY <1>3, <3>1, <3>3, <3>4, <3>5 DEF GrantIsKept
  <2> QED
    BY <2>2, <2>3, <2>4, <2>5 DEF GrantInvariant
<1>8. CASE lost' = (lost \/ new # 0) /\ AfterFault(c)
  <2>1. /\ caller'[c].seen \in {caller[c].seen, 0} /\ Got(c)' \in {Got(c), 0}
        /\ caller'[c].pc \notin {"findRecord", "store"}
    BY <1>3, <1>8 DEF AfterFault, Answered, Unrefreshed, Got, Caller, NoTokens
  <2>2. TokensAreIssued'
    BY <1>2, <1>3, <1>4, <1>5, <1>6, <2>1, TypedTokens DEF GrantInvariant, TokensAreIssued
  <2>3. \A d \in Callers : caller'[d].seen \in {caller[d].seen, 0} /\ Got(d)' \in {Got(d), 0}
    BY <1>6, <2>1
  <2>4. GotIsItsOwn'
    BY <1>3, <2>3 DEF GrantInvariant, GotIsItsOwn
  <2>5. GrantedOnConnect'
    BY <1>6, <2>1 DEF GrantInvariant, GrantedOnConnect
  <2>6. ASSUME ~lost'
        PROVE  GotIsValid' /\ GrantIsKept'
    <3>1. GotIsValid /\ GrantIsKept /\ vendor.valid \subseteq vendor'.valid
      BY <1>2, <1>4, <1>8, <2>6 DEF GrantInvariant
    <3>2. GotIsValid'
      BY <2>3, <3>1 DEF GotIsValid
    <3>3. \A d \in Callers : caller[d].pc = "save" => d # c /\ caller'[d] = caller[d] /\ Got(d)' = Got(d)
      BY <1>3, <1>6
    <3> QED
      BY <1>3, <3>1, <3>2, <3>3 DEF GrantIsKept, Integration
  <2> QED
    BY <2>2, <2>4, <2>5, <2>6 DEF GrantInvariant
<1> QED
  BY <1>1, <1>7, <1>8

LEMMA FindKeepsGrant ==
  ASSUME TypeOK, GrantInvariant, NEW c \in Callers, FindTokens(c)
  PROVE  GrantInvariant'
<1>1. /\ caller \in [Callers -> Caller] /\ caller[c] \in Caller
      /\ records # <<>> /\ 1 \in DOMAIN records /\ Integration = records[1]
      /\ UNCHANGED <<system, vendor, records, lost>> /\ caller[c].pc = "find"
      /\ \A d \in Callers \ {c} : caller'[d] = caller[d] /\ Got(d)' = Got(d)
  BY FirstRecord, TokenStepAlone DEF FindTokens, TokenStep, TypeOK, ConnTypeOK, Alone, Got
<1>2. CASE Goto(c, "call")
  <2>1. caller'[c].seen = caller[c].seen /\ caller'[c].got = caller[c].got /\ caller'[c].pc = "call"
    BY <1>1, <1>2 DEF Goto, Caller
  <2> QED
    BY <1>1, <2>1, QuietKeepsGrant DEF Quiet, QuietCaller
<1>3. CASE caller' = [caller EXCEPT ![c].pc = "refresh", ![c].seen = Integration.refresh]
  <2>1. caller'[c].seen = records[1].refresh /\ Got(c)' = Got(c) /\ caller'[c].pc = "refresh"
    BY <1>1, <1>3 DEF Got, Caller
  <2>2. \A d \in Callers : Got(d)' = Got(d) /\ caller'[d].seen \in {caller[d].seen, records[1].refresh}
    BY <1>1, <2>1
  <2>3. TokensAreIssued'
    BY <1>1, <2>2 DEF GrantInvariant, TokensAreIssued
  <2>4. GotIsItsOwn'
    BY <1>1, <2>2 DEF GrantInvariant, GotIsItsOwn
  <2>5. GrantedOnConnect'
    BY <1>1, <2>1 DEF GrantInvariant, GrantedOnConnect
  <2>6. ASSUME ~lost'
        PROVE  GotIsValid' /\ GrantIsKept'
    <3>1. GotIsValid /\ GrantIsKept
      BY <1>1, <2>6 DEF GrantInvariant
    <3>2. GotIsValid'
      BY <1>1, <2>2, <3>1 DEF GotIsValid
    <3>3. \A d \in Callers : caller[d].pc = "save" => caller'[d].pc = "save"
      BY <1>1
    <3> QED
      BY <1>1, <2>2, <3>1, <3>2, <3>3 DEF GrantIsKept, Integration
  <2> QED
    BY <2>3, <2>4, <2>5, <2>6 DEF GrantInvariant
<1> QED
  BY <1>2, <1>3 DEF FindTokens

LEMMA AuthoriseKeepsGrant ==
  ASSUME TypeOK, GrantInvariant, NEW s \in Sessions, Authorise(s)
  PROVE  GrantInvariant'
<1>1. /\ caller \in [Callers -> Caller] /\ s \in Callers /\ caller[s] \in Caller
      /\ UNCHANGED <<system, records, lost>> /\ caller[s].pc = "authorise" /\ Alone(s)
  BY CallStepAlone DEF Authorise, CallStep, TypeOK, ConnTypeOK, Callers, dataVars
<1>2. vendor'.issued = Issued /\ vendor'.valid = vendor.valid \union {Issued}
  BY TypedTokens DEF Authorise
<1>3. Issued = vendor.issued + 1 /\ vendor.issued \in Nat
  BY TypedTokens DEF Issued
<1>4. \A d \in Callers \ {s} : caller'[d] = caller[d] /\ Got(d)' = Got(d)
  BY <1>1 DEF Alone, Got
<1>5. Got(s)' = Issued /\ caller'[s].seen = caller[s].seen
  BY <1>1 DEF Authorise, Got, Caller
<1>6. TokensAreIssued'
  BY <1>1, <1>2, <1>3, <1>4, <1>5, TypedTokens DEF GrantInvariant, TokensAreIssued
<1>7. GotIsItsOwn'
  BY <1>1, <1>5, NewTokenIsItsOwn
<1>8. GrantedOnConnect'
  BY <1>3, <1>4, <1>5 DEF GrantInvariant, GrantedOnConnect
<1>9. ASSUME ~lost'
      PROVE  GotIsValid' /\ GrantIsKept'
  <2>1. GotIsValid /\ GrantIsKept
    BY <1>1, <1>9 DEF GrantInvariant
  <2>2. GotIsValid'
    BY <1>2, <1>4, <1>5, <2>1 DEF GotIsValid
  <2>3. \A d \in Callers : caller[d].pc = "save" => caller'[d].pc = "save" /\ Got(d)' = Got(d)
    BY <1>1, <1>4
  <2> QED
    BY <1>1, <1>2, <2>1, <2>2, <2>3 DEF GrantIsKept, Integration
<1> QED
  BY <1>6, <1>7, <1>8, <1>9 DEF GrantInvariant

\* Writing the token a caller got, in some of the records.
LEMMA WriteKeepsGrant ==
  ASSUME TypeOK, GrantInvariant, NEW c \in Callers, UNCHANGED <<system, vendor, lost>>, Alone(c),
         caller'[c].seen = 0, Got(c)' = 0, caller'[c].pc \notin {"findRecord", "store"},
         \A i \in DOMAIN records' :
           \/ records'[i].refresh = Got(c) /\ Got(c) # 0
           \/ i \in DOMAIN records /\ records'[i].refresh = records[i].refresh,
         records' # <<>> => 1 \in DOMAIN records',
         caller[c].pc = "save" /\ Got(c) # 0 /\ system = "vend" /\ 1 \in DOMAIN records' =>
           records'[1].refresh = Got(c)
  PROVE  GrantInvariant'
<1>1. \A d \in Callers \ {c} : caller'[d] = caller[d] /\ Got(d)' = Got(d)
  BY DEF Alone, Got
<1>2. TokensAreIssued'
  BY <1>1, TypedTokens DEF GrantInvariant, TokensAreIssued
<1>3. GotIsItsOwn'
  <2> SUFFICES ASSUME NEW d \in Callers \ {c}, Got(d)' # 0
               PROVE  /\ \A i \in DOMAIN records' : records'[i].refresh # Got(d)'
                      /\ \A e \in Callers : caller'[e].seen # Got(d)' /\ (e # d => Got(e)' # Got(d)')
    BY DEF GotIsItsOwn
  <2>1. Got(d)' = Got(d) /\ Got(d) # 0 /\ Got(c) # Got(d)
    BY <1>1 DEF GrantInvariant, GotIsItsOwn
  <2>2. \A i \in DOMAIN records' : records'[i].refresh # Got(d)'
    BY <2>1 DEF GrantInvariant, GotIsItsOwn
  <2>3. \A e \in Callers : caller'[e].seen # Got(d)' /\ (e # d => Got(e)' # Got(d)')
    BY <1>1, <2>1 DEF GrantInvariant, GotIsItsOwn
  <2> QED
    BY <2>2, <2>3
<1>4. GrantedOnConnect'
  BY <1>1 DEF GrantInvariant, GrantedOnConnect
<1>5. ASSUME ~lost'
      PROVE  GotIsValid' /\ GrantIsKept'
  <2>1. GotIsValid /\ GrantIsKept
    BY <1>5 DEF GrantInvariant
  <2>2. GotIsValid'
    BY <1>1, <2>1 DEF GotIsValid
  <2>3. ASSUME records' # <<>>
        PROVE  \/ Integration'.refresh \in vendor.valid
               \/ system = "vend" /\ \E d \in Callers : caller'[d].pc = "save" /\ Got(d)' \in vendor.valid
    <3>1. 1 \in DOMAIN records' /\ Integration' = records'[1]
      BY <2>3 DEF Integration
    <3>2. CASE records'[1].refresh = Got(c) /\ Got(c) # 0
      BY <2>1, <3>1, <3>2 DEF GotIsValid
    <3>3. CASE /\ 1 \in DOMAIN records /\ records'[1].refresh = records[1].refresh
               /\ ~(records'[1].refresh = Got(c) /\ Got(c) # 0)
      <4>1. records # <<>> /\ Integration = records[1]
        BY <3>3 DEF Integration
      <4>2. CASE Integration.refresh \in vendor.valid
        BY <3>1, <3>3, <4>1, <4>2
      <4>3. CASE system = "vend" /\ \E d \in Callers : caller[d].pc = "save" /\ Got(d) \in vendor.valid
        <5>1. PICK d \in Callers : caller[d].pc = "save" /\ Got(d) \in vendor.valid
          BY <4>3
        <5>2. Got(d) # 0
          BY <5>1, TypedTokens
        <5>3. d # c
          BY <3>1, <3>3, <4>3, <5>1, <5>2
        <5> QED
          BY <1>1, <4>3, <5>1, <5>3
      <4> QED
        BY <2>1, <4>1, <4>2, <4>3 DEF GrantIsKept
    <3> QED
      BY <3>1, <3>2, <3>3
  <2> QED
    BY <2>2, <2>3 DEF GrantIsKept
<1> QED
  BY <1>2, <1>3, <1>4, <1>5 DEF GrantInvariant

LEMMA SaveKeepsGrant ==
  ASSUME TypeOK, GrantInvariant, NEW c \in Callers, SaveTokens(c)
  PROVE  GrantInvariant'
<1>1. /\ caller \in [Callers -> Caller] /\ caller[c] \in Caller
      /\ UNCHANGED <<system, vendor, lost>> /\ caller[c].pc = "save" /\ Alone(c)
      /\ system \in {"vend", "msdynamics"}
  BY TokenStepAlone DEF SaveTokens, TokenStep, TypeOK, ConnTypeOK
<1>2. caller'[c].seen = 0 /\ Got(c)' = 0 /\ caller'[c].pc = "call"
  BY <1>1 DEF SaveTokens, Answered, Got, Caller, NoTokens
<1>3. /\ DOMAIN records' = DOMAIN records
      /\ \A i \in DOMAIN records :
           records'[i] = IF i \in Saves(c) THEN WithTokens(records[i], caller[c].got) ELSE records[i]
  BY DEF SaveTokens
<1>4. \A i \in DOMAIN records :
        WithTokens(records[i], caller[c].got).refresh = IF Got(c) = 0 THEN records[i].refresh ELSE Got(c)
  BY TypedTokens DEF WithTokens, Got, IntegrationModel
<1>5. \A i \in DOMAIN records' :
        \/ records'[i].refresh = Got(c) /\ Got(c) # 0
        \/ i \in DOMAIN records /\ records'[i].refresh = records[i].refresh
  BY <1>3, <1>4
<1>6. records' # <<>> => 1 \in DOMAIN records'
  BY <1>3, FirstRecord DEF TypeOK, ConnTypeOK
<1>7. system = "vend" /\ Got(c) # 0 /\ 1 \in DOMAIN records' => records'[1].refresh = Got(c)
  BY <1>3, <1>4 DEF Saves
<1> QED
  BY <1>1, <1>2, <1>5, <1>6, <1>7, WriteKeepsGrant

LEMMA StoreKeepsGrant ==
  ASSUME TypeOK, GrantInvariant, NEW s \in Sessions, StoreGrant(s)
  PROVE  GrantInvariant'
<1>1. /\ caller \in [Callers -> Caller] /\ s \in Callers /\ caller[s] \in Caller
      /\ UNCHANGED <<system, vendor, lost>> /\ caller[s].pc = "store" /\ Alone(s)
      /\ records \in Seq(IntegrationModel)
  BY CallStepAlone DEF StoreGrant, CallStep, TypeOK, ConnTypeOK, Callers, dataVars
<1>2. Got(s) # 0
  BY <1>1 DEF GrantInvariant, GrantedOnConnect
<1>3. caller'[s].seen = 0 /\ Got(s)' = 0 /\ caller'[s].pc \in {"idle", "find"}
  <2>1. CASE Return(s)
    BY <1>1, <2>1 DEF Return, IdleCaller, NoTokens, Got
  <2>2. CASE Begin(s, "connect", "companies", "find")
    <3>1. caller'[s] = [IdleCaller EXCEPT !.task = "connect", !.stage = "companies", !.pc = "find"]
      BY <1>1, <2>2 DEF Begin
    <3> QED
      BY <3>1 DEF IdleCaller, NoTokens, Got
  <2> QED
    BY <2>1, <2>2 DEF StoreGrant
<1>4. CASE caller[s].found
  <2>1. records' = [records EXCEPT ![1] = Reconnected(@, caller[s].got)]
    BY <1>4 DEF StoreGrant
  <2>2. 1 \in DOMAIN records => Reconnected(records[1], caller[s].got).refresh = Got(s)
    BY TypedTokens DEF Reconnected, IntegrationModel, Got
  <2>3. \A i \in DOMAIN records' :
          \/ records'[i].refresh = Got(s) /\ Got(s) # 0
          \/ i \in DOMAIN records /\ records'[i].refresh = records[i].refresh
    BY <1>2, <2>1, <2>2
  <2>4. records' # <<>> => 1 \in DOMAIN records'
    BY <1>1, <2>1, FirstRecord
  <2> QED
    BY <1>1, <1>3, <2>3, <2>4, WriteKeepsGrant
<1>5. CASE ~caller[s].found
  <2>1. records' = Append(records, NewRecord(caller[s].got))
    BY <1>5 DEF StoreGrant
  <2>2. NewRecord(caller[s].got).refresh = Got(s)
    BY DEF NewRecord, Got
  <2>3. \A i \in DOMAIN records' :
          \/ records'[i].refresh = Got(s) /\ Got(s) # 0
          \/ i \in DOMAIN records /\ records'[i].refresh = records[i].refresh
    BY <1>1, <1>2, <2>1, <2>2
  <2>4. 1 \in DOMAIN records'
    BY <1>1, <2>1
  <2> QED
    BY <1>1, <1>3, <2>3, <2>4, WriteKeepsGrant
<1> QED
  BY <1>4, <1>5

\* The steps that neither get, write nor drop a refresh token.
LEMMA QuietHelpers ==
  ASSUME caller \in [Callers -> Caller], NEW c \in Callers
  PROVE  /\ \A pc \in Pcs \ {"findRecord", "store"} :
              Answered(c, pc) /\ (caller[c].pc = "save" /\ Got(c) # 0 => lost') => QuietCaller(c)
         /\ \A pc \in Pcs \ {"findRecord", "store"} :
              Goto(c, pc) /\ caller[c].pc # "save" => QuietCaller(c)
         /\ \A task \in Tasks, stage \in Stages, pc \in Pcs \ {"findRecord", "store"} :
              Begin(c, task, stage, pc) /\ caller[c].pc # "save" => QuietCaller(c)
         /\ Return(c) /\ caller[c].pc # "save" => QuietCaller(c)
<1>1. caller[c] \in Caller
  OBVIOUS
<1>2. ASSUME NEW pc \in Pcs \ {"findRecord", "store"}, Answered(c, pc),
             caller[c].pc = "save" /\ Got(c) # 0 => lost'
      PROVE  QuietCaller(c)
  <2>1. caller'[c].seen = 0 /\ caller'[c].got = NoTokens /\ caller'[c].pc = pc
    BY <1>1, <1>2 DEF Answered, Caller
  <2> QED
    BY <1>2, <2>1 DEF QuietCaller, NoTokens
<1>3. ASSUME NEW pc \in Pcs \ {"findRecord", "store"}, Goto(c, pc), caller[c].pc # "save"
      PROVE  QuietCaller(c)
  <2>1. caller'[c].seen = caller[c].seen /\ caller'[c].got = caller[c].got /\ caller'[c].pc = pc
    BY <1>1, <1>3 DEF Goto, Caller
  <2> QED
    BY <1>3, <2>1 DEF QuietCaller
<1>4. ASSUME NEW task \in Tasks, NEW stage \in Stages, NEW pc \in Pcs \ {"findRecord", "store"},
             Begin(c, task, stage, pc), caller[c].pc # "save"
      PROVE  QuietCaller(c)
  <2>1. caller'[c] = [IdleCaller EXCEPT !.task = task, !.stage = stage, !.pc = pc]
    BY <1>4 DEF Begin
  <2>2. caller'[c].seen = 0 /\ caller'[c].got = NoTokens /\ caller'[c].pc = pc
    BY <2>1 DEF IdleCaller
  <2> QED
    BY <1>4, <2>2 DEF QuietCaller, NoTokens
<1>5. Return(c) /\ caller[c].pc # "save" => QuietCaller(c)
  BY DEF Return, QuietCaller, IdleCaller, NoTokens
<1> QED
  BY <1>2, <1>3, <1>4, <1>5

LEMMA QuietProceed ==
  ASSUME caller \in [Callers -> Caller], NEW c \in Callers, Proceed(c), caller[c].pc # "save"
  PROVE  QuietCaller(c)
<1>1. Return(c) \/ Begin(c, "initiate", "users", "find") \/ Begin(c, "initiate", "types", "find")
      \/ Begin(c, "initiate", "types", "models")
  BY DEF Proceed
<1> QED
  BY <1>1, QuietHelpers DEF Tasks, Stages, Pcs

\* The records but for their refresh tokens.
LEMMA QuietRecords ==
  ASSUME TypeOK,
         \/ UNCHANGED records
         \/ records' = [records EXCEPT ![1].dataAreaId = TRUE]
         \/ records' = [i \in DOMAIN records |-> [records[i] EXCEPT !.databaseValid = TRUE]]
         \/ records' = [i \in DOMAIN records |-> [records[i] EXCEPT !.companies = TRUE]]
         \/ records' = [i \in DOMAIN records |-> [records[i] EXCEPT !.isActive = FALSE]]
  PROVE  /\ DOMAIN records' = DOMAIN records /\ (records' = <<>> <=> records = <<>>)
         /\ \A i \in DOMAIN records : records'[i].refresh = records[i].refresh
<1>1. \A i \in DOMAIN records : records[i] \in IntegrationModel
  BY TypedTokens
<1>2. DOMAIN records' = DOMAIN records /\ \A i \in DOMAIN records : records'[i].refresh = records[i].refresh
  BY <1>1 DEF IntegrationModel
<1>3. records = <<>> => records' = <<>>
  OBVIOUS
<1>4. records # <<>> => records' # <<>>
  BY <1>2, FirstRecord DEF TypeOK, ConnTypeOK
<1> QED
  BY <1>2, <1>3, <1>4

LEMMA LostStays ==
  ASSUME NEW more, lost' = (lost \/ more)
  PROVE  lost => lost'
OBVIOUS

LEMMA QuietConnection ==
  ASSUME TypeOK, NEW c \in Callers,
         FindNoTokens(c) \/ RefreshFails(c) \/ SaveTokensFails(c) \/ Deactivate(c) \/ Call(c)
  PROVE  Quiet
<1>1. caller \in [Callers -> Caller] /\ Alone(c)
  BY TokenStepAlone DEF TypeOK, ConnTypeOK, TokenStep
<1>2. UNCHANGED <<system, vendor>> /\ (lost => lost')
  <2>1. UNCHANGED <<system, vendor>>
    BY DEF FindNoTokens, RefreshFails, SaveTokensFails, Deactivate, Call
  <2>2. UNCHANGED lost \/ SaveTokensFails(c)
    BY DEF FindNoTokens, RefreshFails, Deactivate, Call
  <2> QED
    BY <2>1, <2>2, LostStays DEF SaveTokensFails
<1>3. QuietCaller(c)
  <2>1. CASE FindNoTokens(c) \/ Deactivate(c) \/ Call(c)
    BY <1>1, <2>1, QuietHelpers DEF FindNoTokens, Deactivate, Call, Pcs
  <2>2. CASE RefreshFails(c)
    BY <1>1, <2>2, QuietHelpers DEF RefreshFails, AfterFault, Unrefreshed, Pcs, QuietCaller
  <2>3. CASE SaveTokensFails(c)
    BY <1>1, <2>3, QuietHelpers DEF SaveTokensFails, Unrefreshed, Pcs, Got
  <2> QED
    BY <2>1, <2>2, <2>3
<1>4. /\ DOMAIN records' = DOMAIN records /\ (records' = <<>> <=> records = <<>>)
      /\ \A i \in DOMAIN records : records'[i].refresh = records[i].refresh
  BY QuietRecords DEF FindNoTokens, RefreshFails, SaveTokensFails, Deactivate, Call
<1>5. \A d \in Callers : QuietCaller(d)
  BY <1>1, <1>3 DEF Alone, QuietCaller
<1> QED
  BY <1>2, <1>4, <1>5 DEF Quiet

LEMMA QuietWorker ==
  ASSUME TypeOK, NEW j \in Jobs, WorkerStep(j)
  PROVE  Quiet
<1>1. caller \in [Callers -> Caller] /\ Alone(j) /\ j \in Callers
  BY WorkerStepAlone DEF TypeOK, ConnTypeOK, Callers
<1>2. UNCHANGED <<system, vendor, records>> /\ (lost => lost')
  <2>1. UNCHANGED <<system, vendor, records>>
    BY DEF WorkerStep, UseConnection, EndUse, KillWorker
  <2>2. UNCHANGED lost \/ KillWorker(j)
    BY DEF WorkerStep, UseConnection, EndUse
  <2> QED
    BY <2>1, <2>2, LostStays DEF KillWorker
<1>3. \/ caller'[j] = IdleCaller
      \/ caller'[j] = [IdleCaller EXCEPT !.pc = "find", !.task = "use"]
  BY <1>1 DEF WorkerStep, UseConnection, EndUse, KillWorker
<1>4. caller'[j].seen = 0 /\ caller'[j].got.refresh = 0 /\ caller'[j].pc \notin {"findRecord", "store"}
  <2>1. CASE caller'[j] = IdleCaller
    BY <2>1 DEF IdleCaller, NoTokens
  <2>2. CASE caller'[j] = [IdleCaller EXCEPT !.pc = "find", !.task = "use"]
    BY <2>2 DEF IdleCaller, NoTokens
  <2> QED
    BY <1>3, <2>1, <2>2
<1>5. caller[j].pc = "save" /\ Got(j) # 0 => lost'
  BY DEF WorkerStep, UseConnection, EndUse, KillWorker, Got
<1>6. \A d \in Callers : QuietCaller(d)
  BY <1>1, <1>4, <1>5 DEF Alone, QuietCaller
<1> QED
  BY <1>2, <1>6 DEF Quiet

LEMMA QuietPage ==
  ASSUME TypeOK, NEW s \in Sessions, PageStep(s)
  PROVE  Quiet
<1>1. caller \in [Callers -> Caller] /\ Alone(s) /\ s \in Callers /\ caller[s].pc = "idle"
  BY PageStepAlone DEF TypeOK, ConnTypeOK, Callers
<1>2. UNCHANGED <<system, vendor, lost>>
  BY DEF PageStep, OpenPage, Connect, SyncData, SaveCompany, ValidateDatabase, InitiateMSDSync,
         StopMSDSync, connVars
<1>3. /\ DOMAIN records' = DOMAIN records /\ (records' = <<>> <=> records = <<>>)
      /\ \A i \in DOMAIN records : records'[i].refresh = records[i].refresh
  BY QuietRecords DEF PageStep, OpenPage, Connect, SyncData, SaveCompany, ValidateDatabase,
                      InitiateMSDSync, StopMSDSync, connVars
<1>4. QuietCaller(s)
  <2>1. CASE UNCHANGED caller
    BY <2>1 DEF QuietCaller
  <2>2. CASE Begin(s, "connect", "companies", "authorise")
    BY <1>1, <2>2, QuietHelpers DEF Tasks, Stages, Pcs
  <2>3. ASSUME NEW task \in Tasks, NEW stage \in Stages, SyncData(s, task, stage)
        PROVE  QuietCaller(s)
    BY <1>1, <2>3, QuietHelpers DEF SyncData, Pcs
  <2> QED
    BY <2>1, <2>2, <2>3 DEF PageStep, OpenPage, Connect, SaveCompany, ValidateDatabase,
                            InitiateMSDSync, StopMSDSync, connVars, Tasks, Stages
<1>5. \A d \in Callers : QuietCaller(d)
  BY <1>1, <1>4 DEF Alone, QuietCaller
<1> QED
  BY <1>2, <1>3, <1>5 DEF Quiet

LEMMA QuietCall ==
  ASSUME TypeOK, NEW s \in Sessions, CallStep(s), ~Authorise(s), ~StoreGrant(s)
  PROVE  Quiet
<1>1. caller \in [Callers -> Caller] /\ Alone(s) /\ s \in Callers
  BY CallStepAlone DEF TypeOK, ConnTypeOK, Callers
<1>2. UNCHANGED <<system, vendor, lost>>
  BY DEF CallStep, AuthoriseFails, FindRecord, SaveCompanies, SyncVendStores, SyncMSDStores,
         SyncVendProductTypes, SyncMSDCategories, SaveEach, SyncVendUsers, SyncMSDUsers,
         AssignRoles, CallFails, CreateSyncModels
<1>3. /\ DOMAIN records' = DOMAIN records /\ (records' = <<>> <=> records = <<>>)
      /\ \A i \in DOMAIN records : records'[i].refresh = records[i].refresh
  BY QuietRecords
  DEF CallStep, AuthoriseFails, FindRecord, SaveCompanies, SyncVendStores, SyncMSDStores,
      SyncVendProductTypes, SyncMSDCategories, SaveEach, SyncVendUsers, SyncMSDUsers,
      AssignRoles, CallFails, CreateSyncModels
<1>4. QuietCaller(s)
  <2>1. CASE AuthoriseFails(s) \/ SaveCompanies(s) \/ SyncMSDUsers(s) \/ CreateSyncModels(s)
    BY <1>1, <2>1, QuietHelpers DEF AuthoriseFails, SaveCompanies, SyncMSDUsers, CreateSyncModels, At
  <2>2. CASE FindRecord(s)
    <3>1. /\ caller'[s].seen = caller[s].seen /\ caller'[s].got = caller[s].got
          /\ caller[s].pc = "findRecord"
      BY <1>1, <2>2 DEF FindRecord, Caller
    <3> QED
      BY <3>1 DEF QuietCaller
  <2>3. CASE SyncVendStores(s) \/ SyncMSDStores(s) \/ SyncVendProductTypes(s) \/ SyncMSDCategories(s)
    BY <1>1, <2>3, QuietHelpers, QuietProceed
    DEF SyncVendStores, SyncMSDStores, SyncVendProductTypes, SyncMSDCategories, SaveEach, At
  <2>4. CASE SyncVendUsers(s)
    BY <1>1, <2>4, QuietHelpers DEF SyncVendUsers, At, Pcs
  <2>5. CASE AssignRoles(s) \/ CallFails(s)
    BY <1>1, <2>5, QuietHelpers, QuietProceed DEF AssignRoles, CallFails
  <2> QED
    BY <2>1, <2>2, <2>3, <2>4, <2>5 DEF CallStep
<1>5. \A d \in Callers : QuietCaller(d)
  BY <1>1, <1>4 DEF Alone, QuietCaller
<1> QED
  BY <1>2, <1>3, <1>5 DEF Quiet

LEMMA QuietCrash ==
  ASSUME TypeOK, Crash
  PROVE  Quiet
<1>1. ASSUME NEW c \in Callers
      PROVE  QuietCaller(c)
  <2>1. CASE c \in Sessions
    <3>1. caller'[c] = IdleCaller /\ (caller[c].pc = "save" /\ Got(c) # 0 => lost')
      BY <2>1 DEF Crash, Got
    <3> QED
      BY <3>1 DEF QuietCaller, IdleCaller, NoTokens
  <2>2. CASE c \notin Sessions
    BY <2>2 DEF Crash, QuietCaller
  <2> QED
    BY <2>1, <2>2
<1> QED
  BY <1>1 DEF Crash, Quiet

LEMMA VendorStepsKeepGrant ==
  ASSUME TypeOK, GrantInvariant, Expire \/ Revoke
  PROVE  GrantInvariant'
<1>1. CASE Expire
  <2>1. vendor'.valid = vendor.valid /\ vendor'.issued = vendor.issued
    BY <1>1, TypedTokens DEF Expire
  <2> QED
    BY <1>1, <2>1, QuietKeepsGrant DEF Expire, Quiet, QuietCaller
<1>2. CASE Revoke
  <2>1. vendor'.valid = {} /\ vendor'.issued = vendor.issued
    BY <1>2, TypedTokens DEF Revoke
  <2> QED
    BY <1>2, <2>1 DEF Revoke, GrantInvariant, TokensAreIssued, GotIsItsOwn, GrantedOnConnect, Got
<1> QED
  BY <1>1, <1>2

\* As long as no grant is revoked and no answer of the vendor gets lost on its way to the
\* database, the refresh token there works, or a caller is about to write the one that replaced
\* it, however many callers refresh at once.
THEOREM TheGrantIsLostForAReason == Spec => []GrantIsLostForAReason
<1>1. Init => GrantInvariant
  BY DEF Init, ConnInit, GrantInvariant, TokensAreIssued, GotIsItsOwn, GrantedOnConnect,
         GotIsValid, GrantIsKept, Got, IdleCaller, NoTokens
<1>2. TypeOK /\ GrantInvariant /\ [Next]_vars => GrantInvariant'
  <2> SUFFICES ASSUME TypeOK, GrantInvariant, [Next]_vars PROVE GrantInvariant'
    OBVIOUS
  <2>1. ASSUME NEW c \in Callers, TokenStep(c)
        PROVE  GrantInvariant'
    BY <2>1, RefreshKeepsGrant, FindKeepsGrant, SaveKeepsGrant, QuietConnection, QuietKeepsGrant
    DEF TokenStep
  <2>2. CASE ConnectionStep
    BY <2>1, <2>2, VendorStepsKeepGrant, QuietWorker, QuietKeepsGrant DEF ConnectionStep
  <2>3. ASSUME NEW s \in Sessions, PageStep(s) \/ CallStep(s)
        PROVE  GrantInvariant'
    BY <2>3, AuthoriseKeepsGrant, StoreKeepsGrant, QuietPage, QuietCall, QuietKeepsGrant
  <2>4. CASE Crash
    BY <2>4, QuietCrash, QuietKeepsGrant
  <2>5. CASE UNCHANGED vars
    BY <2>5, QuietKeepsGrant DEF vars, connVars, Quiet, QuietCaller
  <2> QED
    BY <2>2, <2>3, <2>4, <2>5 DEF Next
<1>3. GrantInvariant => GrantIsLostForAReason
  BY DEF GrantInvariant, GrantIsKept, GrantIsLostForAReason, Got
<1> QED
  BY <1>1, <1>2, <1>3, OnboardingTypeCorrect, PTL DEF Spec
=============================================================================

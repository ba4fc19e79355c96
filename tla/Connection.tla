----------------------------- MODULE Connection -----------------------------
(***************************************************************************)
(* An organisation's connection to Vend or to Microsoft Dynamics: the      *)
(* IntegrationModel with its OAuth tokens, and the calls that use it.      *)
(*                                                                         *)
(* Before each call the API and the workers read the tokens; when the      *)
(* access token has expired they refresh it and save the answer.  Several  *)
(* callers do so at once, with the same refresh token.  What happens to    *)
(* the answer of a call is left to the modules that extend this one.       *)
(***************************************************************************)
EXTENDS Naturals, Sequences

CONSTANTS
  Sessions,  \* the administrators' pages; each makes one call of the API at a time
  Jobs,      \* the workers
  MaxIssued, \* bound on the tokens issued
  MaxCalls,  \* bound on the calls begun
  MaxFaults  \* bound on failed calls, lost answers, crashes and revocations

Callers == Sessions \union Jobs

ASSUME ConnectionAssumption ==
  Sessions \intersect Jobs = {} /\ {MaxIssued, MaxCalls, MaxFaults} \subseteq Nat

VARIABLES
  system,  \* what the organisation connects to
  vendor,  \* the authorisation server
  records, \* the IntegrationModels of the organisation, oldest first
  caller,  \* the calls
  calls,   \* calls begun so far
  faults,  \* faults so far
  lost     \* history: a grant was revoked, or the answer to a refresh did not get to the database

connVars == <<system, vendor, records, caller, calls, faults, lost>>

\* Tokens are numbered as they are issued; 0 stands for none.  Beyond the bound the server refuses.
Token == 0 .. MaxIssued

\* issued: the last token; valid: the refresh tokens it accepts;
\* past: the access tokens up to this one have expired.
Vendor == [issued : Token, valid : SUBSET (1 .. MaxIssued), past : Token]

\* refresh, until: refresh_token, and expires or expires_on by the number of the access token.
IntegrationModel == [refresh : Token, until : Token, isActive : BOOLEAN, companies : BOOLEAN,
                     dataAreaId : BOOLEAN, databaseValid : BOOLEAN]

\* task, stage: what the caller is about; see Onboarding.
Tasks == {"none", "use", "connect", "stores", "users", "types", "initiate"}
Stages == {"companies", "stores", "users", "types"}
Caller == [pc    : {"idle", "authorise", "findRecord", "store", "find", "refresh", "save", "deactivate",
                    "call", "called", "failed", "roles", "models"},
           task  : Tasks,
           stage : Stages,
           found : BOOLEAN,   \* handleMSDToken found a record
           seen  : Token,     \* the refresh token it read
          got   : [refresh : Token, access : Token]]  \* the answer of the authorisation server

NoTokens == [refresh |-> 0, access |-> 0]
IdleCaller == [pc |-> "idle", task |-> "none", stage |-> "stores", found |-> FALSE,
               seen |-> 0, got |-> NoTokens]

ConnTypeOK ==
  /\ system \in {"vend", "msdynamics"}
  /\ vendor \in Vendor
  /\ records \in Seq(IntegrationModel)
  /\ caller \in [Callers -> Caller]
  /\ calls \in 0 .. MaxCalls
  /\ faults \in 0 .. MaxFaults
  /\ lost \in BOOLEAN

ConnInit ==
  /\ system \in {"vend", "msdynamics"}
  /\ vendor = [issued |-> 0, valid |-> {}, past |-> 0]
  /\ records = <<>>
  /\ caller = [c \in Callers |-> IdleCaller]
  /\ calls = 0
  /\ faults = 0
  /\ lost = FALSE

Goto(c, pc) == caller' = [caller EXCEPT ![c].pc = pc]

\* The call is over; its tokens are forgotten.
Answered(c, pc) == caller' = [caller EXCEPT ![c].pc = pc, ![c].seen = 0, ![c].got = NoTokens]

Fault == faults < MaxFaults /\ faults' = faults + 1
NewCall == calls < MaxCalls /\ calls' = calls + 1

-----------------------------------------------------------------------------
(* The authorisation server *)

Issued == vendor.issued + 1

\* Access tokens are short-lived: all that were issued expire before another one is used up.
Expire ==
  /\ vendor.past < vendor.issued
  /\ vendor' = [vendor EXCEPT !.past = vendor.issued]
  /\ UNCHANGED <<system, records, caller, calls, faults, lost>>

Revoke ==
  /\ vendor.valid # {}
  /\ Fault
  /\ vendor' = [vendor EXCEPT !.valid = {}]
  /\ lost' = TRUE
  /\ UNCHANGED <<system, records, caller, calls>>

\* The answers to a refresh, and the refresh tokens that are valid then.  Dynamics issues a new
\* one and leaves the old one valid; Vend may replace it, or issue none.
Answers(refresh) ==
  LET new  == [refresh |-> Issued, access |-> Issued]
      none == [refresh |-> 0, access |-> Issued]
  IN IF system = "vend"
     THEN {[got |-> new, valid |-> (vendor.valid \ {refresh}) \union {Issued}],
           [got |-> none, valid |-> vendor.valid]}
     ELSE {[got |-> new, valid |-> vendor.valid \union {Issued}]}

-----------------------------------------------------------------------------
(* fetchVendToken and refreshMSDToken, of the API and of the workers *)

\* A worker begins to use the connection.
UseConnection(j) ==
  /\ caller[j].pc = "idle"
  /\ NewCall
  /\ caller' = [caller EXCEPT ![j] = [IdleCaller EXCEPT !.pc = "find", !.task = "use"]]
  /\ UNCHANGED <<system, vendor, records, faults, lost>>

\* The record the code uses when there are several.
Integration == records[1]

\* A Dynamics caller reads the refresh token by a second query, which is taken as the same.
Expired(record) == record.until <= vendor.past

FindTokens(c) ==
  /\ caller[c].pc = "find" /\ records # <<>>
  /\ IF Expired(Integration)
     THEN caller' = [caller EXCEPT ![c].pc = "refresh", ![c].seen = Integration.refresh]
     ELSE Goto(c, "call")
  /\ UNCHANGED <<system, vendor, records, calls, faults, lost>>

FindNoTokens(c) ==
  /\ caller[c].pc = "find"
  /\ \/ records = <<>> /\ UNCHANGED faults
     \/ Fault
  /\ Answered(c, "failed")
  /\ UNCHANGED <<system, vendor, records, calls, lost>>

\* The API marks a Dynamics integration as inactive when a refresh or its save fails.
Unrefreshed(c) == IF system = "msdynamics" /\ c \in Sessions THEN "deactivate" ELSE "failed"

\* A worker repeats a call to Vend that fails with 502, 503 or 504, with the token it read.
AfterFault(c) ==
  Answered(c, Unrefreshed(c)) \/ (system = "vend" /\ c \in Jobs /\ UNCHANGED caller)

Refresh(c) ==
  /\ caller[c].pc = "refresh"
  /\ caller[c].seen \in vendor.valid /\ vendor.issued < MaxIssued
  /\ \E answer \in Answers(caller[c].seen) :
       /\ vendor' = [vendor EXCEPT !.issued = Issued, !.valid = answer.valid]
       /\ \/ /\ caller' = [caller EXCEPT ![c].got = answer.got, ![c].pc = "save"]
             /\ UNCHANGED <<faults, lost>>
          \/ /\ Fault                                 \* the answer is lost
             /\ lost' = (lost \/ answer.got.refresh # 0)
             /\ AfterFault(c)
  /\ UNCHANGED <<system, records, calls>>

RefreshFails(c) ==
  /\ caller[c].pc = "refresh"
  /\ \/ /\ caller[c].seen \notin vendor.valid \/ vendor.issued = MaxIssued
        /\ Answered(c, Unrefreshed(c))
        /\ UNCHANGED faults
     \/ Fault /\ AfterFault(c)
  /\ UNCHANGED <<system, vendor, records, calls, lost>>

\* Mutant: the refresh token is written even when the answer has none.
WithTokensAlways(record, got) ==
  [record EXCEPT !.until = got.access, !.refresh = got.refresh]

WithTokens(record, got) ==
  [record EXCEPT !.until = got.access,
                 !.refresh = IF got.refresh = 0 THEN @ ELSE got.refresh]

\* The API writes all the organisation's records, a worker the one it read; with Dynamics a
\* worker looks for the record with the organisation's id as a string and writes none.
Saves(c) == IF c \in Sessions THEN DOMAIN records ELSE IF system = "vend" THEN {1} ELSE {}

SaveTokens(c) ==
  /\ caller[c].pc = "save"
  /\ records' = [i \in DOMAIN records |->
                   IF i \in Saves(c) THEN WithTokens(records[i], caller[c].got) ELSE records[i]]
  /\ Answered(c, "call")
  /\ UNCHANGED <<system, vendor, calls, faults, lost>>

SaveTokensFails(c) ==
  /\ caller[c].pc = "save"
  /\ Fault
  /\ lost' = (lost \/ caller[c].got.refresh # 0)
  /\ Answered(c, Unrefreshed(c))
  /\ UNCHANGED <<system, vendor, records, calls>>

Deactivate(c) ==
  /\ caller[c].pc = "deactivate"
  /\ \/ records' = [i \in DOMAIN records |-> [records[i] EXCEPT !.isActive = FALSE]] /\ UNCHANGED faults
     \/ Fault /\ UNCHANGED records
  /\ Answered(c, "failed")
  /\ UNCHANGED <<system, vendor, calls, lost>>

\* The call itself, with the token that was saved or, for Vend, the one getVendConnectionInfo
\* reads again.  It is refused when the token has expired meanwhile.
Call(c) ==
  /\ caller[c].pc = "call"
  /\ \E pc \in {"called", "failed"} : Answered(c, pc)
  /\ UNCHANGED <<system, vendor, records, calls, faults, lost>>

\* A worker is through with the call, whatever its answer, or is killed.
EndUse(j) ==
  /\ caller[j].pc \in {"called", "failed"}
  /\ caller' = [caller EXCEPT ![j] = IdleCaller]
  /\ UNCHANGED <<system, vendor, records, calls, faults, lost>>

KillWorker(j) ==
  /\ caller[j].pc # "idle"
  /\ Fault
  /\ lost' = (lost \/ (caller[j].pc = "save" /\ caller[j].got.refresh # 0))
  /\ caller' = [caller EXCEPT ![j] = IdleCaller]
  /\ UNCHANGED <<system, vendor, records, calls>>

TokenStep(c) ==
  \/ FindTokens(c) \/ FindNoTokens(c) \/ Refresh(c) \/ RefreshFails(c)
  \/ SaveTokens(c) \/ SaveTokensFails(c) \/ Deactivate(c) \/ Call(c)

WorkerStep(j) == UseConnection(j) \/ EndUse(j) \/ KillWorker(j)

ConnectionStep ==
  \/ Expire \/ Revoke
  \/ \E c \in Callers : TokenStep(c)
  \/ \E j \in Jobs : WorkerStep(j)

-----------------------------------------------------------------------------
(* Properties *)

\* The refresh token in the database works, or a caller is about to save the one that replaced
\* it; several callers that refresh at once never lose it.  When a grant is revoked, or an
\* answer does not get to the database, it may.
GrantIsLostForAReason ==
  \/ records = <<>> \/ lost
  \/ Integration.refresh \in vendor.valid
  \/ \E c \in Callers : caller[c].pc = "save" /\ caller[c].got.refresh \in vendor.valid
=============================================================================

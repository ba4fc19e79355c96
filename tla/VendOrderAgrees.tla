-------------------------- MODULE VendOrderAgrees --------------------------
(***************************************************************************)
(* What the order, its line items and Vend agree upon.                     *)
(*                                                                         *)
(* OnePurchaseOrder, SentOrderHasItsLines and CompleteOrderAgreesWithVend  *)
(* speak of executions in which no two requests overlap.  They all rest on *)
(* one inductive invariant, OrderInv: then at most one actor is at work    *)
(* (OneActor); the order's state tells how far it may be (SessionInv,      *)
(* StateOf); nothing of the order is sent or received while it may still   *)
(* be ordered (Untouched); the worker and the order name the same          *)
(* consignment (OwnOf); and what the worker has still to do and what it    *)
(* has done add up to the whole order (PushedBy, PlannedBy).               *)
(***************************************************************************)
EXTENDS VendOrderProofs

OrderingPcs == GenPcs \union (PoPcs \ {"po_state"})

\* The receive worker before it writes SUBMITTING_RECEIVALS, and after it failed.
EarlyReceipt == {"gen_fulfil", "rc_read", "rc_lines", "rc_flag", "rc_state", "rc_error"}

Sending(s) == session[s].pc = "send"
Working(j) == job[j].pc = "queued" \/ Running(j)

\* The actor has still to order, or is doing so.
SessionOrders(s) == session[s].pc = "send" /\ session[s].op # "receive"
JobOrders(j) == \/ job[j].pc = "queued" /\ job[j].op # "receive"
                \/ job[j].pc \in OrderingPcs

\* A purchase order may still be made for the order.
MayBeOrdered == \/ report.state \in {"absent", "ERROR_SENDING_TO_SUPPLIER"}
                \/ report.vendConsignmentId = None

\* Vend was told of no delivery and no receipt, and has lost no line.
Untouched ==
  /\ \A c \in Consignments :
       /\ vend[c].status # "received"
       /\ ~mixed.lostReply => vend[c].status # "sent"
       /\ vend[c].counted = {}
  /\ \A i \in Items : ~item[i].vendDeletedAt

OneActor ==
  /\ \A s, t \in Sessions : Sending(s) /\ Sending(t) => s = t
  /\ \A j, k \in Jobs : Working(j) /\ Working(k) => j = k
  /\ \A s \in Sessions, j \in Jobs : ~(Sending(s) /\ Working(j))

\* Vend has a line for the item in consignment c, and the item knows it.
Linked(i, c) == item[i].line = c /\ i \in vend[c].lines

\* The receipt has nothing to do for the item any more.
Done(i) ==
  /\ item[i].receivedQuantity => item[i].line # None /\ i \in vend[item[i].line].counted
  /\ ~item[i].receivedQuantity => item[i].line = None \/ item[i].vendDeletedAt

-----------------------------------------------------------------------------
(* What holds of a session that is to send a message *)

SessionInv(s) ==
  /\ Sending(s) => report.state \notin {"absent", "ERROR_SENDING_TO_SUPPLIER",
                                        "FULFILMENT_PENDING", "COMPLETE"}
  /\ SessionOrders(s) => Untouched

-----------------------------------------------------------------------------
(* What holds of a message and its worker *)

StateOf(j) ==
  Working(j) =>
    /\ report.state \notin {"absent", "COMPLETE"}
    /\ job[j].pc # "gen_fulfil" => report.state # "FULFILMENT_PENDING"
    /\ job[j].pc \notin EarlyReceipt => report.state # "ERROR_SENDING_TO_SUPPLIER"

OwnOf(j) ==
  /\ job[j].pc \in {"po_save", "po_lines", "po_push", "po_link", "po_mark", "po_state"} =>
       job[j].own # None
  /\ job[j].pc \in {"po_lines", "po_push", "po_link", "po_mark", "po_state", "rc_lines",
                    "rc_flag", "rc_state", "rc_items", "rc_unlink", "rc_mark", "rc_settle"} =>
       job[j].own = report.vendConsignmentId

\* What the purchase order worker has pushed so far.
PushedBy(j) ==
  /\ job[j].pc \in {"po_push", "po_link"} =>
       \A i \in Items : item[i].approved = "true" =>
         i \in job[j].todo \/ Linked(i, job[j].own)
  /\ job[j].pc = "po_link" =>
       job[j].cur \in Items /\ job[j].cur \in vend[job[j].own].lines
  /\ job[j].pc \in {"po_mark", "po_state"} =>
       \A i \in Items : item[i].approved = "true" => Linked(i, job[j].own)
  /\ job[j].pc = "po_state" => vend[job[j].own].status \in {"sent", "received"}

\* The lines that the receive worker's plan names, whatever is edited meanwhile.
PlannedLines(j) ==
  /\ job[j].pc \in {"rc_flag", "rc_state", "rc_items", "rc_unlink"} =>
       \A i \in job[j].todo : job[j].plan[i].line = item[i].line
  /\ job[j].pc = "rc_unlink" =>
       /\ job[j].cur \in Items /\ item[job[j].cur].line # None
       /\ job[j].cur \notin vend[item[job[j].cur].line].lines

\* What the receive worker has planned is due, and the rest is done.
PlannedBy(j) ==
  /\ job[j].pc \in {"rc_flag", "rc_state", "rc_items", "rc_unlink"} =>
       \A i \in Items :
         IF i \in job[j].todo
         THEN job[j].plan[i].act = "update" <=> item[i].receivedQuantity
         ELSE Done(i)
  /\ job[j].pc = "rc_unlink" =>
       job[j].cur \in Items /\ ~item[job[j].cur].receivedQuantity
  /\ job[j].pc \in {"rc_mark", "rc_settle"} => \A i \in Items : Done(i)
  /\ job[j].pc = "rc_settle" =>
       job[j].own # None /\ vend[job[j].own].status = "received"

JobInv(j) ==
  /\ StateOf(j)
  /\ JobOrders(j) => Untouched
  /\ OwnOf(j)
  /\ PlannedLines(j)
  /\ ~mixed.lateEdit => PushedBy(j) /\ PlannedBy(j)

-----------------------------------------------------------------------------
(* What holds of the order, its line items and Vend *)

SentIsTheOrders ==
  \A c \in Consignments :
    vend[c].status = "received" \/ (vend[c].status = "sent" /\ ~mixed.lostReply) =>
      c = report.vendConsignmentId

LinesAreOrdered ==
  \A i \in Items : item[i].line # None => report.vendConsignmentId # None

\* What Vend counts or deletes is in the line the item has.
LinesAgree ==
  /\ \A i \in Items : item[i].vendDeletedAt =>
       item[i].line # None /\ i \notin vend[item[i].line].lines
  /\ \A i \in Items, c \in Consignments : i \in vend[c].counted =>
       i \in vend[c].lines /\ item[i].line = c

SentIsLinked ==
  report.state = "FULFILMENT_PENDING" =>
    /\ report.vendConsignmentId # None
    /\ vend[report.vendConsignmentId].status \in {"sent", "received"}
    /\ \A i \in Items : item[i].approved = "true" => Linked(i, report.vendConsignmentId)

CompleteIsDone ==
  report.state = "COMPLETE" =>
    /\ report.vendConsignmentId # None
    /\ vend[report.vendConsignmentId].status = "received"
    /\ \A i \in Items : Done(i)

DataInv ==
  /\ MayBeOrdered => Untouched
  /\ SentIsTheOrders /\ LinesAreOrdered /\ LinesAgree
  /\ ~mixed.lateEdit => SentIsLinked /\ CompleteIsDone

-----------------------------------------------------------------------------
OrderInv ==
  ~mixed.overlap =>
    /\ OneActor
    /\ \A s \in Sessions : SessionInv(s)
    /\ \A j \in Jobs : JobInv(j)
    /\ DataInv
-----------------------------------------------------------------------------
(* Only one actor moves at a time *)

IdlePcs == {"free", "done", "gave_up", "dead"}

LEMMA WorkingIs ==
  ASSUME TypeOK, NEW j \in Jobs
  PROVE  Working(j) <=> job[j].pc \notin IdlePcs
  BY JobFieldType DEF Working, Running, IdlePcs

\* Of a message that nobody works on there is nothing to say.
LEMMA IdleJob ==
  ASSUME NEW j \in Jobs, job'[j].pc \in IdlePcs PROVE JobInv(j)'
  BY DEF IdlePcs, Working, Running, JobInv, StateOf, JobOrders, OrderingPcs, GenPcs, PoPcs,
     OwnOf, PushedBy, PlannedLines, PlannedBy

\* The worker at work is the only actor.
LEMMA Alone ==
  ASSUME TypeOK, OneActor, NEW j \in Jobs, Working(j)
  PROVE  /\ \A k \in Jobs \ {j} : job[k].pc \in IdlePcs
         /\ \A s \in Sessions : ~Sending(s)
  BY WorkingIs DEF OneActor

\* A step of a worker has to keep only what is said of that worker and of the data.
LEMMA WorkerKeeps ==
  ASSUME TypeOK, TypeOK', OneActor, NEW j \in Jobs, Working(j), Frame(j), JobInv(j)', DataInv'
  PROVE  OrderInv'
<1>1. \A k \in Jobs \ {j} : job'[k].pc \in IdlePcs
  BY Alone DEF Frame
<1>2. \A s \in Sessions : ~Sending(s)'
  BY Alone DEF Frame, Sending
<1>3. \A k \in Jobs \ {j} : ~Working(k)'
  BY <1>1 DEF IdlePcs, Working, Running
<1>4. OneActor'
  BY <1>2, <1>3 DEF OneActor
<1>5. \A s \in Sessions : SessionInv(s)'
  BY <1>2 DEF Sending, SessionInv, SessionOrders
<1>6. \A k \in Jobs \ {j} : JobInv(k)'
  BY <1>1, IdleJob
<1> QED
  BY <1>4, <1>5, <1>6 DEF OrderInv

\* A worker that ends leaves nothing to say of it.
LEMMA EndKeeps ==
  ASSUME TypeOK, TypeOK', OneActor, NEW j \in Jobs, Working(j), Frame(j),
         job'[j].pc \in IdlePcs, DataInv'
  PROVE  OrderInv'
<1>1. JobInv(j)'
  BY IdleJob
<1> QED
  BY <1>1, WorkerKeeps

\* A step that writes neither the order, nor its line items, nor Vend.
LEMMA DataKept ==
  ASSUME DataInv, UNCHANGED <<report, item, vend>>, mixed'.lateEdit = mixed.lateEdit,
         mixed.lostReply => mixed'.lostReply
  PROVE  DataInv'
  BY DEF DataInv, MayBeOrdered, Untouched, SentIsTheOrders, LinesAreOrdered, LinesAgree,
     SentIsLinked, CompleteIsDone, Linked, Done
-----------------------------------------------------------------------------
(* What a step of a worker leaves in its job *)

LEMMA GotoFields ==
  ASSUME TypeOK, NEW j \in Jobs, NEW pc, Goto(j, pc)
  PROVE  /\ job'[j].pc = pc /\ job'[j].op = job[j].op
         /\ job'[j].own = job[j].own /\ job'[j].todo = job[j].todo
         /\ job'[j].cur = job[j].cur /\ job'[j].plan = job[j].plan
  BY DEF TypeOK, Job, Goto

\* A move of the program counter that says nothing new: the worker starts, fails,
\* or has nothing left to do.
QuietMove(j, pc) ==
  \/ job[j].pc = "queued" /\ pc = (CASE job[j].op = "generate" -> "gen_rows"
                                    [] job[j].op = "purchase" -> "po_create"
                                    [] OTHER                  -> "rc_read")
  \/ job[j].pc = "gen_rows" /\ pc = "gen_state"
  \/ job[j].pc = "gen_state" /\ pc = "po_create"
  \/ job[j].pc = "gen_fulfil" /\ report.state # "FULFILMENT_PENDING" /\ pc = "rc_read"
  \/ job[j].pc = "po_create" /\ pc = "po_create"
  \/ job[j].pc \in OrderingPcs /\ pc = "po_error"
  \/ job[j].pc = "po_push" /\ job[j].todo = {} /\ pc = "po_mark"
  \/ job[j].pc \in RcPcs /\ pc = "rc_error"
  \/ job[j].pc = "rc_items" /\ job[j].todo = {} /\ pc = "rc_mark"

LEMMA QuietKeeps ==
  ASSUME TypeOK, NEW j \in Jobs, NEW pc, JobInv(j), Goto(j, pc), QuietMove(j, pc),
         UNCHANGED <<report, item, vend>>, mixed'.lateEdit = mixed.lateEdit,
         mixed.lostReply => mixed'.lostReply
  PROVE  JobInv(j)'
<1> USE GotoFields DEF GenPcs, PoPcs, RcPcs, OrderingPcs, EarlyReceipt
<1>0. /\ job[j].op \in Ops
      /\ Working(j) /\ pc # "gen_fulfil" /\ job[j].pc # "po_state"
      /\ pc \in {"gen_rows", "gen_state", "po_create", "rc_read", "po_error", "po_mark",
                 "rc_error", "rc_mark"}
  BY JobFieldType DEF QuietMove, Working, Running
<1>1. StateOf(j)'
  BY <1>0 DEF JobInv, StateOf, QuietMove
<1>2. JobOrders(j)' => JobOrders(j)
  BY <1>0 DEF JobOrders, QuietMove, Ops
<1>3. Untouched => Untouched'
  BY DEF Untouched
<1>4. OwnOf(j)'
  BY <1>0 DEF JobInv, OwnOf, QuietMove
<1>5. PlannedLines(j)'
  BY <1>0 DEF PlannedLines
<1>6. ~mixed.lateEdit => PushedBy(j)'
  BY <1>0 DEF JobInv, PushedBy, Linked, QuietMove
<1>7. ~mixed.lateEdit => PlannedBy(j)'
  BY <1>0 DEF JobInv, PlannedBy, Done, QuietMove
<1> QED
  BY <1>1, <1>2, <1>3, <1>4, <1>5, <1>6, <1>7 DEF JobInv
\* A write of the order's state that promises nothing.
PlainStates == REPORT_STATES \ {"ERROR_SENDING_TO_SUPPLIER", "FULFILMENT_PENDING", "COMPLETE"}

LEMMA PlainStateKeeps ==
  ASSUME DataInv, report'.vendConsignmentId = report.vendConsignmentId,
         report'.state \in PlainStates, UNCHANGED <<item, vend>>,
         mixed'.lateEdit = mixed.lateEdit, mixed.lostReply => mixed'.lostReply
  PROVE  DataInv'
<1>1. report'.state \notin {"absent", "ERROR_SENDING_TO_SUPPLIER", "FULFILMENT_PENDING", "COMPLETE"}
  BY DEF PlainStates, REPORT_STATES
<1>2. MayBeOrdered' => Untouched'
  BY <1>1 DEF DataInv, MayBeOrdered, Untouched
<1>3. SentIsTheOrders' /\ LinesAreOrdered' /\ LinesAgree'
  BY DEF DataInv, SentIsTheOrders, LinesAreOrdered, LinesAgree
<1>4. SentIsLinked' /\ CompleteIsDone'
  BY <1>1 DEF SentIsLinked, CompleteIsDone
<1> QED
  BY <1>2, <1>3, <1>4 DEF DataInv

LEMMA SetStateFields ==
  ASSUME TypeOK, NEW st, SetState(st)
  PROVE  report'.state = st /\ report'.vendConsignmentId = report.vendConsignmentId
  BY DEF TypeOK, Report, SetState

-----------------------------------------------------------------------------
(* The generate worker, and what ends any worker *)

\* The worker of a step is at work.
LEMMA StepsWork ==
  ASSUME NEW j \in Jobs, WorkerStep(j) PROVE Working(j)
<1> USE DEF Working, Running
<1>1. ReceiveMessage(j) \/ GiveUp(j) \/ Crash(j) \/ GenerateStep(j) => Working(j)
  BY DEF ReceiveMessage, GiveUp, Crash, GenerateStep, GenerateRows, GenerateFails,
     SetDefaultState, FulfillAndReceive, PoPcs
<1>2. PurchaseStep(j) => Working(j)
  BY DEF PurchaseStep, CreateStockOrder, SaveConsignment, FindApprovedItems, PushLineItem,
     SaveVendLine, AllPushed, MarkAsSent, SetFulfilmentPending, PurchaseOrderFails,
     PurchaseOrderUnanswered, SetErrorSending
<1>3. ReceiveStep(j) => Working(j)
  BY DEF ReceiveStep, FindReport, FindItems, FlagReceived, SetSubmitting, ReceiveLineItem,
     NoSuchLine, SaveVendDeleted, AllReceived, MarkAsReceived, ReceiveFails,
     ReceiveUnanswered, SetComplete, SetReceivingFailure, RcPcs
<1> QED
  BY <1>1, <1>2, <1>3 DEF WorkerStep

\* A purchase order worker that ends, well or not, may hand over to the receipt.
LEMMA EndOrHandOver ==
  ASSUME TypeOK, TypeOK', OneActor, NEW j \in Jobs, Working(j), Frame(j),
         job'[j].pc \in IdlePcs \union {"gen_fulfil"},
         report'.state \notin {"absent", "COMPLETE"}, DataInv'
  PROVE  OrderInv'
<1>1. CASE job'[j].pc \in IdlePcs
  BY <1>1, EndKeeps
<1>2. CASE job'[j].pc = "gen_fulfil"
  <2>1. JobInv(j)'
    BY <1>2 DEF JobInv, StateOf, EarlyReceipt, JobOrders, OrderingPcs, GenPcs, PoPcs, OwnOf,
       PushedBy, PlannedLines, PlannedBy
  <2> QED
    BY <2>1, WorkerKeeps
<1> QED
  BY <1>1, <1>2

LEMMA GenerateKeeps ==
  ASSUME TypeOK, TypeOK', NEW j \in Jobs, OneActor, JobInv(j), DataInv,
         ReceiveMessage(j) \/ GiveUp(j) \/ Crash(j) \/ GenerateStep(j)
  PROVE  OrderInv'
<1>0. Working(j) /\ Frame(j)
  BY StepsWork, GenerateOutcome DEF WorkerStep
<1>0a. report.state \notin {"absent", "COMPLETE"}
  BY <1>0 DEF JobInv, StateOf
<1>1. CASE ReceiveMessage(j)
  <2> DEFINE pc == CASE job[j].op = "generate" -> "gen_rows"
                     [] job[j].op = "purchase" -> "po_create"
                     [] OTHER                  -> "rc_read"
  <2>1. Goto(j, pc) /\ QuietMove(j, pc)
    BY <1>1 DEF ReceiveMessage, QuietMove
  <2>2. JobInv(j)' /\ DataInv'
    BY <1>1, <2>1, QuietKeeps, DataKept DEF ReceiveMessage
  <2> QED
    BY <1>0, <2>2, WorkerKeeps
<1>2. CASE GiveUp(j)
  <2>1. DataInv'
    BY <1>2, DataKept DEF GiveUp
  <2>2. job'[j].pc \in IdlePcs \union {"gen_fulfil"}
    BY <1>2, FinishJob DEF GiveUp, IdlePcs
  <2> QED
    BY <1>0, <1>0a, <1>2, <2>1, <2>2, EndOrHandOver DEF GiveUp
<1>3. CASE Crash(j)
  <2>1. DataInv' /\ job'[j].pc \in IdlePcs
    BY <1>3, DataKept, FinishJob DEF Crash, IdlePcs
  <2> QED
    BY <1>0, <2>1, EndKeeps
<1>4. CASE GenerateRows(j)
  <2>1. Untouched /\ job'[j].pc = "gen_state" /\ job[j].pc = "gen_rows"
    BY <1>4, GotoFields DEF GenerateRows, JobInv, JobOrders, OrderingPcs, GenPcs
  <2>2. \A i \in Items : item'[i].line = None /\ ~item'[i].vendDeletedAt
    BY <1>4 DEF GenerateRows, NewItem
  <2>3. Untouched'
    BY <1>4, <2>1, <2>2 DEF GenerateRows, Untouched
  <2>4. report.state \notin {"FULFILMENT_PENDING", "COMPLETE", "ERROR_SENDING_TO_SUPPLIER"}
    BY <1>0, <2>1 DEF JobInv, StateOf, EarlyReceipt
  <2>5. JobInv(j)'
    BY <1>0a, <1>4, <2>1, <2>3, <2>4 DEF GenerateRows, JobInv, StateOf, OwnOf, PushedBy,
       PlannedLines, PlannedBy
  <2>6. DataInv'
    <3>1. SentIsTheOrders'
      BY <1>4 DEF GenerateRows, DataInv, SentIsTheOrders
    <3>2. LinesAreOrdered' /\ LinesAgree'
      BY <2>2, <2>3 DEF LinesAreOrdered, LinesAgree, Untouched
    <3>3. SentIsLinked' /\ CompleteIsDone'
      BY <1>4, <2>4 DEF GenerateRows, SentIsLinked, CompleteIsDone
    <3> QED
      BY <2>3, <3>1, <3>2, <3>3 DEF DataInv
  <2> QED
    BY <1>0, <2>5, <2>6, WorkerKeeps
<1>5. CASE GenerateFails(j)
  <2>1. DataInv'
    BY <1>5, SetStateFields, PlainStateKeeps DEF GenerateFails, PlainStates, REPORT_STATES
  <2>2. job'[j].pc \in IdlePcs
    BY <1>5, FinishJob DEF GenerateFails, IdlePcs
  <2> QED
    BY <1>0, <2>1, <2>2, EndKeeps
<1>6. CASE SetDefaultState(j)
  <2>1. CASE supplier \in {"unset"} \union notApprovedStates \union notReceivedStates
    <3> DEFINE st == IF supplier = "unset" THEN "GENERATED" ELSE supplier
    <3>1. SetState(st) /\ Finish(j, "done") /\ st \in PlainStates
      BY <1>6, <2>1 DEF SetDefaultState, notApprovedStates, notReceivedStates, PlainStates,
         REPORT_STATES
    <3>2. DataInv'
      BY <1>6, <3>1, SetStateFields, PlainStateKeeps DEF SetDefaultState
    <3>3. job'[j].pc \in IdlePcs
      BY <3>1, FinishJob DEF IdlePcs
    <3> QED
      BY <1>0, <3>2, <3>3, EndKeeps
  <2>2. CASE supplier \notin {"unset"} \union notApprovedStates \union notReceivedStates
    <3>1. Goto(j, "po_create") /\ QuietMove(j, "po_create")
          /\ UNCHANGED <<report, item, vend, mixed>>
      BY <1>6, <2>2 DEF SetDefaultState, QuietMove
    <3>2. JobInv(j)' /\ DataInv'
      BY <3>1, QuietKeeps, DataKept
    <3> QED
      BY <1>0, <3>2, WorkerKeeps
  <2> QED
    BY <2>1, <2>2
<1>7. CASE FulfillAndReceive(j)
  <2>1. CASE report.state = "FULFILMENT_PENDING"
    <3>1. report'.state = "RECEIVING_PENDING" /\ job'[j].pc = "rc_read"
      BY <1>7, <2>1, GotoFields, SetStateFields DEF FulfillAndReceive
    <3>2. DataInv'
      BY <1>7, <2>1, SetStateFields, PlainStateKeeps DEF FulfillAndReceive, PlainStates,
         REPORT_STATES
    <3>3. JobInv(j)'
      BY <3>1 DEF JobInv, StateOf, EarlyReceipt, JobOrders, OrderingPcs, GenPcs, PoPcs,
         OwnOf, PushedBy, PlannedLines, PlannedBy
    <3> QED
      BY <1>0, <3>2, <3>3, WorkerKeeps
  <2>2. CASE report.state # "FULFILMENT_PENDING"
    <3>1. /\ Goto(j, "rc_read") /\ QuietMove(j, "rc_read")
          /\ UNCHANGED <<report, item, vend, mixed>>
      BY <1>7, <2>2 DEF FulfillAndReceive, QuietMove
    <3>2. JobInv(j)' /\ DataInv'
      BY <3>1, QuietKeeps, DataKept
    <3> QED
      BY <1>0, <3>2, WorkerKeeps
  <2> QED
    BY <2>1, <2>2
<1> QED
  BY <1>1, <1>2, <1>3, <1>4, <1>5, <1>6, <1>7 DEF GenerateStep
-----------------------------------------------------------------------------
(* The purchase order worker *)

\* What a write to one consignment leaves.
StatusBecomes(c, st) ==
  \A d \in Consignments :
    /\ vend'[d].status = (IF d = c THEN st ELSE vend[d].status)
    /\ vend'[d].lines = vend[d].lines /\ vend'[d].counted = vend[d].counted

LineIsAdded(c, i) ==
  \A d \in Consignments :
    /\ vend'[d].status = vend[d].status /\ vend'[d].counted = vend[d].counted
    /\ vend'[d].lines = (IF d = c THEN vend[d].lines \union {i} ELSE vend[d].lines)

LEMMA StatusWritten ==
  ASSUME TypeOK, NEW c, NEW st, vend' = [vend EXCEPT ![c].status = st]
  PROVE  StatusBecomes(c, st)
  BY DEF TypeOK, Consignment, StatusBecomes

LEMMA LineWritten ==
  ASSUME TypeOK, NEW c, NEW i, vend' = [vend EXCEPT ![c].lines = @ \union {i}]
  PROVE  LineIsAdded(c, i)
  BY DEF TypeOK, Consignment, LineIsAdded

\* While a worker has the order, it is neither waiting for fulfilment nor complete.
LEMMA WorkingPromisesNothing ==
  ASSUME NEW j \in Jobs, Working(j), job[j].pc # "gen_fulfil", JobInv(j),
         report'.state = report.state
  PROVE  SentIsLinked' /\ CompleteIsDone'
  BY DEF JobInv, StateOf, SentIsLinked, CompleteIsDone

LEMMA PurchaseOrderKeeps1 ==
  ASSUME TypeOK, TypeOK', NEW j \in Jobs, OneActor, JobInv(j), DataInv,
         CreateStockOrder(j) \/ SaveConsignment(j) \/ FindApprovedItems(j) \/ PushLineItem(j)
  PROVE  OrderInv'
<1>0. Working(j) /\ Frame(j) /\ job[j].pc # "gen_fulfil" /\ Untouched
  <2>1. PurchaseStep(j) /\ JobOrders(j) /\ job[j].pc # "gen_fulfil"
    BY DEF PurchaseStep, CreateStockOrder, SaveConsignment, FindApprovedItems, PushLineItem,
       JobOrders, OrderingPcs, GenPcs, PoPcs
  <2> QED
    BY <2>1, StepsWork, PurchaseOutcome DEF WorkerStep, JobInv
<1>0a. report.state \notin {"absent", "COMPLETE", "FULFILMENT_PENDING"}
  BY <1>0 DEF JobInv, StateOf
<1>0b. report.state # "ERROR_SENDING_TO_SUPPLIER"
  BY <1>0 DEF JobInv, StateOf, EarlyReceipt, CreateStockOrder, SaveConsignment,
     FindApprovedItems, PushLineItem
<1>1. CASE CreateStockOrder(j)
  <2>1. PICK c \in Consignments :
          /\ vend[c].status = "absent"
          /\ vend' = [vend EXCEPT ![c].status = "open"]
          /\ job' = [job EXCEPT ![j].own = c, ![j].pc = "po_save"]
    BY <1>1 DEF CreateStockOrder, NewConsignment
  <2>2. job'[j].own = c /\ job'[j].pc = "po_save" /\ c # None
    BY <2>1, ConstantsAssumption DEF TypeOK, Job
  <2>3. StatusBecomes(c, "open")
    BY <2>1, StatusWritten
  <2>4. Untouched'
    BY <1>0, <1>1, <2>3 DEF CreateStockOrder, Untouched, StatusBecomes
  <2>5. JobInv(j)'
    BY <1>0a, <1>0b, <1>1, <2>2, <2>4 DEF CreateStockOrder, JobInv, StateOf, OwnOf, PushedBy,
       PlannedLines, PlannedBy
  <2>6. SentIsTheOrders'
    BY <1>1, <2>3 DEF CreateStockOrder, DataInv, SentIsTheOrders, StatusBecomes
  <2>7. LinesAreOrdered' /\ LinesAgree'
    BY <1>1, <2>3, <2>4 DEF CreateStockOrder, DataInv, LinesAreOrdered, LinesAgree, Untouched
  <2>8. DataInv'
    BY <1>0, <1>1, <2>4, <2>6, <2>7, WorkingPromisesNothing DEF CreateStockOrder, DataInv
  <2> QED
    BY <1>0, <2>5, <2>8, WorkerKeeps
<1>2. CASE SaveConsignment(j)
  <2>1. /\ job'[j].pc = "po_lines" /\ job'[j].own = job[j].own
        /\ report'.state = report.state /\ report'.vendConsignmentId = job[j].own
    BY <1>2, GotoFields DEF SaveConsignment, TypeOK, Report
  <2>2. Untouched' /\ job[j].own # None
    BY <1>0, <1>2 DEF SaveConsignment, Untouched, JobInv, OwnOf
  <2>3. JobInv(j)'
    BY <1>0a, <1>0b, <2>1, <2>2 DEF JobInv, StateOf, OwnOf, PushedBy, PlannedLines, PlannedBy
  <2>4. SentIsTheOrders' /\ LinesAreOrdered' /\ LinesAgree'
    BY <2>1, <2>2 DEF SentIsTheOrders, LinesAreOrdered, LinesAgree, Untouched
  <2>5. DataInv'
    BY <1>0, <2>1, <2>2, <2>4, WorkingPromisesNothing DEF DataInv
  <2> QED
    BY <1>0, <2>3, <2>5, WorkerKeeps
<1>3. CASE FindApprovedItems(j)
  <2>1. /\ job'[j].pc = "po_push" /\ job'[j].own = job[j].own
        /\ job'[j].todo = {i \in Items : item[i].approved = "true"}
    BY <1>3 DEF FindApprovedItems, TypeOK, Job
  <2>2. Untouched' /\ DataInv'
    BY <1>0, <1>3, DataKept DEF FindApprovedItems, Untouched
  <2>3. StateOf(j)' /\ OwnOf(j)'
    BY <1>0a, <1>0b, <1>3, <2>1 DEF FindApprovedItems, JobInv, StateOf, OwnOf
  <2>4. PushedBy(j)' /\ PlannedLines(j)' /\ PlannedBy(j)'
    BY <1>3, <2>1 DEF FindApprovedItems, PushedBy, PlannedLines, PlannedBy
  <2> QED
    BY <1>0, <2>2, <2>3, <2>4, WorkerKeeps DEF JobInv
<1>4. CASE PushLineItem(j)
  <2>1. PICK i \in job[j].todo :
          /\ vend' = [vend EXCEPT ![job[j].own].lines = @ \union {i}]
          /\ job' = [job EXCEPT ![j].cur = i, ![j].pc = "po_link"]
    BY <1>4 DEF PushLineItem
  <2>2. /\ job'[j].pc = "po_link" /\ job'[j].own = job[j].own
        /\ job'[j].todo = job[j].todo /\ job'[j].cur = i
    BY <2>1 DEF TypeOK, Job
  <2>3. LineIsAdded(job[j].own, i)
    BY <2>1, LineWritten
  <2>4. i \in Items /\ job[j].own \in Consignments
    BY <1>4, JobFieldType DEF PushLineItem, JobInv, OwnOf
  <2>5. Untouched'
    BY <1>0, <1>4, <2>3 DEF PushLineItem, Untouched, LineIsAdded
  <2>6. StateOf(j)' /\ OwnOf(j)' /\ PlannedLines(j)' /\ PlannedBy(j)'
    BY <1>0a, <1>0b, <1>4, <2>2 DEF PushLineItem, JobInv, StateOf, OwnOf, PlannedLines, PlannedBy
  <2>7. ~mixed.lateEdit => PushedBy(j)'
    BY <1>4, <2>2, <2>3, <2>4 DEF PushLineItem, JobInv, PushedBy, Linked, LineIsAdded
  <2>8. JobInv(j)'
    BY <1>4, <2>5, <2>6, <2>7 DEF PushLineItem, JobInv
  <2>9. SentIsTheOrders' /\ LinesAreOrdered' /\ LinesAgree'
    BY <1>4, <2>3, <2>5 DEF PushLineItem, DataInv, SentIsTheOrders, LinesAreOrdered, LinesAgree,
       Untouched, LineIsAdded
  <2>10. DataInv'
    BY <1>0, <1>4, <2>5, <2>9, WorkingPromisesNothing DEF PushLineItem, DataInv
  <2> QED
    BY <1>0, <2>8, <2>10, WorkerKeeps
<1> QED
  BY <1>1, <1>2, <1>3, <1>4
LEMMA PurchaseOrderKeeps2 ==
  ASSUME TypeOK, TypeOK', NEW j \in Jobs, OneActor, JobInv(j), DataInv,
         \/ SaveVendLine(j) \/ AllPushed(j) \/ MarkAsSent(j) \/ SetFulfilmentPending(j)
         \/ PurchaseOrderFails(j)
  PROVE  OrderInv'
<1>0. Working(j) /\ Frame(j) /\ job[j].pc # "gen_fulfil"
  <2>1. PurchaseStep(j) /\ job[j].pc # "gen_fulfil"
    BY DEF PurchaseStep, SaveVendLine, AllPushed, MarkAsSent, SetFulfilmentPending,
       PurchaseOrderFails
  <2> QED
    BY <2>1, StepsWork, PurchaseOutcome DEF WorkerStep
<1>0a. report.state \notin {"absent", "COMPLETE", "FULFILMENT_PENDING"}
  BY <1>0 DEF JobInv, StateOf
<1>0b. report.state # "ERROR_SENDING_TO_SUPPLIER"
  BY <1>0 DEF JobInv, StateOf, EarlyReceipt, SaveVendLine, AllPushed, MarkAsSent,
     SetFulfilmentPending, PurchaseOrderFails
<1>1. CASE SaveVendLine(j)
  <2>1. /\ job'[j].pc = "po_push" /\ job'[j].own = job[j].own
        /\ job'[j].todo = job[j].todo \ {job[j].cur}
    BY <1>1 DEF SaveVendLine, TypeOK, Job
  <2>2. \A i \in Items :
          /\ item'[i].line = (IF i = job[j].cur THEN job[j].own ELSE item[i].line)
          /\ item'[i].approved = item[i].approved
          /\ item'[i].vendDeletedAt = item[i].vendDeletedAt
    BY <1>1 DEF SaveVendLine, TypeOK, Item
  <2>3. Untouched /\ job[j].own # None /\ job[j].own = report.vendConsignmentId
    BY <1>1 DEF SaveVendLine, JobInv, JobOrders, OrderingPcs, PoPcs, OwnOf
  <2>4. Untouched'
    BY <1>1, <2>2, <2>3 DEF SaveVendLine, Untouched
  <2>5. StateOf(j)' /\ OwnOf(j)' /\ PlannedLines(j)' /\ PlannedBy(j)'
    BY <1>0a, <1>0b, <1>1, <2>1, <2>3 DEF SaveVendLine, StateOf, OwnOf, PlannedLines, PlannedBy
  <2>6. ~mixed.lateEdit => PushedBy(j)'
    BY <1>1, <2>1, <2>2 DEF SaveVendLine, JobInv, PushedBy, Linked
  <2>7. JobInv(j)'
    BY <1>1, <2>4, <2>5, <2>6 DEF SaveVendLine, JobInv
  <2>8. SentIsTheOrders' /\ LinesAreOrdered' /\ LinesAgree'
    BY <1>1, <2>3, <2>4 DEF SaveVendLine, DataInv, SentIsTheOrders, LinesAreOrdered, LinesAgree,
       Untouched
  <2>9. DataInv'
    BY <1>0, <1>1, <2>4, <2>8, WorkingPromisesNothing DEF SaveVendLine, DataInv
  <2> QED
    BY <1>0, <2>7, <2>9, WorkerKeeps
<1>2. CASE AllPushed(j)
  <2>1. Goto(j, "po_mark") /\ QuietMove(j, "po_mark")
    BY <1>2 DEF AllPushed, QuietMove
  <2>2. JobInv(j)' /\ DataInv'
    BY <1>2, <2>1, QuietKeeps, DataKept DEF AllPushed
  <2> QED
    BY <1>0, <2>2, WorkerKeeps
<1>3. CASE MarkAsSent(j)
  <2>1. Untouched /\ job[j].own \in Consignments /\ job[j].own = report.vendConsignmentId
    BY <1>3, JobFieldType DEF MarkAsSent, JobInv, JobOrders, OrderingPcs, PoPcs, OwnOf
  <2>2. vend[job[j].own].status # "received"
    BY <2>1 DEF Untouched
  <2>3. Goto(j, "po_state") /\ StatusBecomes(job[j].own, "sent")
    BY <1>3, <2>2, StatusWritten DEF MarkAsSent
  <2>4. job'[j].pc = "po_state" /\ job'[j].own = job[j].own
    BY <2>3, GotoFields
  <2>5. /\ StateOf(j)' /\ OwnOf(j)' /\ PlannedLines(j)' /\ PlannedBy(j)'
        /\ ~JobOrders(j)'
    <3>1. UNCHANGED report /\ job[j].own # None
      BY <1>3, <2>1, ConstantsAssumption DEF MarkAsSent
    <3>2. StateOf(j)' /\ OwnOf(j)'
      BY <1>0a, <1>0b, <2>1, <2>4, <3>1 DEF StateOf, OwnOf
    <3>3. PlannedLines(j)' /\ PlannedBy(j)' /\ ~JobOrders(j)'
      BY <2>4 DEF PlannedLines, PlannedBy, JobOrders, OrderingPcs, GenPcs, PoPcs
    <3> QED
      BY <3>2, <3>3
  <2>6. ~mixed.lateEdit => PushedBy(j)'
    BY <1>3, <2>1, <2>3, <2>4 DEF MarkAsSent, JobInv, PushedBy, Linked, StatusBecomes
  <2>7. JobInv(j)'
    BY <1>3, <2>5, <2>6 DEF MarkAsSent, JobInv
  <2>8. ~MayBeOrdered'
    BY <1>0a, <1>0b, <1>3, <2>1, ConstantsAssumption DEF MarkAsSent, MayBeOrdered
  <2>9. SentIsTheOrders' /\ LinesAreOrdered' /\ LinesAgree'
    BY <1>3, <2>1, <2>3 DEF MarkAsSent, DataInv, SentIsTheOrders, LinesAreOrdered, LinesAgree,
       Untouched, StatusBecomes
  <2>10. DataInv'
    BY <1>0, <1>3, <2>8, <2>9, WorkingPromisesNothing DEF MarkAsSent, DataInv
  <2> QED
    BY <1>0, <2>7, <2>10, WorkerKeeps
<1>4. CASE SetFulfilmentPending(j)
  <2>1. job[j].own # None /\ job[j].own = report.vendConsignmentId
    BY <1>4 DEF SetFulfilmentPending, JobInv, OwnOf
  <2>2. /\ report'.state = "FULFILMENT_PENDING"
        /\ report'.vendConsignmentId = report.vendConsignmentId
    BY <1>4, <2>1 DEF SetFulfilmentPending
  <2>3. job'[j].pc \in IdlePcs \union {"gen_fulfil"}
    BY <1>4, FinishJob DEF SetFulfilmentPending, EndPurchaseOrder, IdlePcs
  <2>4. ~MayBeOrdered'
    BY <2>1, <2>2 DEF MayBeOrdered
  <2>5. SentIsTheOrders' /\ LinesAreOrdered' /\ LinesAgree'
    BY <1>4, <2>2 DEF SetFulfilmentPending, DataInv, SentIsTheOrders, LinesAreOrdered, LinesAgree
  <2>6. ~mixed.lateEdit => SentIsLinked' /\ CompleteIsDone'
    BY <1>4, <2>1, <2>2 DEF SetFulfilmentPending, JobInv, PushedBy, Linked, SentIsLinked,
       CompleteIsDone
  <2>7. DataInv'
    BY <1>4, <2>4, <2>5, <2>6 DEF SetFulfilmentPending, DataInv
  <2> QED
    BY <1>0, <2>2, <2>3, <2>7, EndOrHandOver
<1>5. CASE PurchaseOrderFails(j)
  <2>1. Goto(j, "po_error") /\ QuietMove(j, "po_error")
    BY <1>5 DEF PurchaseOrderFails, QuietMove, OrderingPcs, PoPcs
  <2>2. JobInv(j)' /\ DataInv'
    BY <1>5, <2>1, QuietKeeps, DataKept DEF PurchaseOrderFails
  <2> QED
    BY <1>0, <2>2, WorkerKeeps
<1> QED
  BY <1>1, <1>2, <1>3, <1>4, <1>5

LEMMA PurchaseOrderKeeps3 ==
  ASSUME TypeOK, TypeOK', NEW j \in Jobs, OneActor, JobInv(j), DataInv,
         PurchaseOrderUnanswered(j) \/ SetErrorSending(j)
  PROVE  OrderInv'
<1>0. Working(j) /\ Frame(j) /\ job[j].pc # "gen_fulfil" /\ Untouched
  <2>1. PurchaseStep(j) /\ job[j].pc # "gen_fulfil" /\ JobOrders(j)
    BY DEF PurchaseStep, PurchaseOrderUnanswered, SetErrorSending, JobOrders, OrderingPcs, PoPcs
  <2> QED
    BY <2>1, StepsWork, PurchaseOutcome DEF WorkerStep, JobInv
<1>0a. report.state \notin {"absent", "COMPLETE", "FULFILMENT_PENDING"}
  BY <1>0 DEF JobInv, StateOf
<1>1. CASE PurchaseOrderUnanswered(j)
  <2>1. mixed'.lostReply /\ mixed'.lateEdit = mixed.lateEdit
    BY <1>1 DEF PurchaseOrderUnanswered, TypeOK
  <2>2. PICK pc \in {"po_create", "po_error"} : Goto(j, pc)
    BY <1>1 DEF PurchaseOrderUnanswered
  <2>3. job'[j].pc = pc
    BY <2>2, GotoFields
  <2>4. report.state # "ERROR_SENDING_TO_SUPPLIER"
    BY <1>0, <1>1 DEF PurchaseOrderUnanswered, JobInv, StateOf, EarlyReceipt
  <2>5. \A d \in Consignments :
          /\ vend'[d].status # "received" /\ vend'[d].counted = vend[d].counted
    <3>1. ASSUME NEW c, NEW st \in {"open", "sent"}, vend' = [vend EXCEPT ![c].status = st],
                 NEW d \in Consignments
          PROVE  vend'[d].status # "received" /\ vend'[d].counted = vend[d].counted
      BY <1>0, <3>1, StatusWritten DEF Untouched, StatusBecomes
    <3>2. ASSUME NEW c, NEW i, vend' = [vend EXCEPT ![c].lines = @ \union {i}],
                 NEW d \in Consignments
          PROVE  vend'[d].status # "received" /\ vend'[d].counted = vend[d].counted
      BY <1>0, <3>2, LineWritten DEF Untouched, LineIsAdded
    <3> QED
      BY <1>1, <3>1, <3>2 DEF PurchaseOrderUnanswered, NewConsignment
  <2>6. Untouched'
    BY <1>0, <1>1, <2>1, <2>5 DEF PurchaseOrderUnanswered, Untouched
  <2>7. JobInv(j)'
    BY <1>0a, <1>1, <2>2, <2>3, <2>4, <2>6 DEF PurchaseOrderUnanswered, JobInv, StateOf, OwnOf,
       PushedBy, PlannedLines, PlannedBy
  <2>8. SentIsTheOrders' /\ LinesAreOrdered' /\ LinesAgree'
    BY <1>1, <2>1, <2>5, <2>6 DEF PurchaseOrderUnanswered, DataInv, SentIsTheOrders,
       LinesAreOrdered, LinesAgree, Untouched
  <2>9. DataInv'
    BY <1>0, <1>1, <2>6, <2>8, WorkingPromisesNothing DEF PurchaseOrderUnanswered, DataInv
  <2> QED
    BY <1>0, <2>7, <2>9, WorkerKeeps
<1>2. CASE SetErrorSending(j)
  <2>1. /\ report'.state = "ERROR_SENDING_TO_SUPPLIER"
        /\ report'.vendConsignmentId = report.vendConsignmentId
    BY <1>2, SetStateFields DEF SetErrorSending
  <2>2. job'[j].pc \in IdlePcs \union {"gen_fulfil"}
    BY <1>2, FinishJob DEF SetErrorSending, EndPurchaseOrder, IdlePcs
  <2>3. Untouched'
    BY <1>0, <1>2 DEF SetErrorSending, Untouched
  <2>4. SentIsTheOrders' /\ LinesAreOrdered' /\ LinesAgree'
    BY <1>2, <2>1 DEF SetErrorSending, DataInv, SentIsTheOrders, LinesAreOrdered, LinesAgree
  <2>5. DataInv'
    BY <2>1, <2>3, <2>4 DEF DataInv, SentIsLinked, CompleteIsDone
  <2> QED
    BY <1>0, <2>1, <2>2, <2>5, EndOrHandOver
<1> QED
  BY <1>1, <1>2

LEMMA PurchaseOrderKeeps ==
  ASSUME TypeOK, TypeOK', NEW j \in Jobs, OneActor, JobInv(j), DataInv, PurchaseStep(j)
  PROVE  OrderInv'
  BY PurchaseOrderKeeps1, PurchaseOrderKeeps2, PurchaseOrderKeeps3 DEF PurchaseStep
-----------------------------------------------------------------------------
(* The receive worker *)

ItemIsCounted(c, i) ==
  \A d \in Consignments :
    /\ vend'[d].status = vend[d].status /\ vend'[d].lines = vend[d].lines
    /\ vend'[d].counted = (IF d = c THEN vend[d].counted \union {i} ELSE vend[d].counted)

LineIsDeleted(c, i) ==
  \A d \in Consignments :
    /\ vend'[d].status = vend[d].status
    /\ vend'[d].lines = (IF d = c THEN vend[d].lines \ {i} ELSE vend[d].lines)
    /\ vend'[d].counted = (IF d = c THEN vend[d].counted \ {i} ELSE vend[d].counted)

LEMMA VendCalled ==
  ASSUME TypeOK, NEW j \in Jobs, NEW i, CallVend(j, i)
  PROVE  IF job[j].plan[i].act = "update" THEN ItemIsCounted(job[j].plan[i].line, i)
                                          ELSE LineIsDeleted(job[j].plan[i].line, i)
<1> DEFINE c == job[j].plan[i].line
<1>1. ASSUME vend' = [vend EXCEPT ![c].counted = @ \union {i}] PROVE ItemIsCounted(c, i)
  BY <1>1 DEF TypeOK, Consignment, ItemIsCounted
<1>2. ASSUME vend' = [vend EXCEPT ![c].lines = @ \ {i}, ![c].counted = @ \ {i}]
      PROVE  LineIsDeleted(c, i)
  BY <1>2 DEF TypeOK, Consignment, LineIsDeleted
<1> QED
  BY <1>1, <1>2 DEF CallVend

\* A call that Vend carries out keeps what the order and Vend agree upon.
LEMMA VendCallKeeps ==
  ASSUME TypeOK, NEW j \in Jobs, job[j].pc = "rc_items", JobInv(j), DataInv,
         NEW i \in job[j].todo, LineExists(j, i), CallVend(j, i),
         UNCHANGED <<report, item>>, mixed'.lateEdit = mixed.lateEdit,
         mixed.lostReply => mixed'.lostReply
  PROVE  /\ DataInv'
         /\ i \in Items /\ job[j].plan[i].line = item[i].line /\ item[i].line \in Consignments
<1>1. i \in Items /\ job[j].plan[i].line = item[i].line
  BY JobFieldType DEF JobInv, PlannedLines
<1>2. item[i].line \in Consignments /\ i \in vend[item[i].line].lines
  BY <1>1 DEF LineExists, TypeOK, Item
<1>3. report.vendConsignmentId # None
  BY <1>1, <1>2, ConstantsAssumption DEF DataInv, LinesAreOrdered
<1>4. Working(j) /\ report.state \notin {"absent", "ERROR_SENDING_TO_SUPPLIER"}
  BY DEF Working, Running, JobInv, StateOf, EarlyReceipt
<1>5. ~MayBeOrdered'
  BY <1>3, <1>4 DEF MayBeOrdered
<1>6. SentIsLinked' /\ CompleteIsDone'
  BY <1>4, WorkingPromisesNothing
<1>7. ItemIsCounted(item[i].line, i) \/ LineIsDeleted(item[i].line, i)
  BY <1>1, VendCalled
<1>8. SentIsTheOrders' /\ LinesAreOrdered'
  BY <1>7 DEF DataInv, SentIsTheOrders, LinesAreOrdered, ItemIsCounted, LineIsDeleted
<1>9. LinesAgree'
  <2>1. ASSUME NEW k \in Items, item'[k].vendDeletedAt
        PROVE  item'[k].line # None /\ k \notin vend'[item'[k].line].lines
    <3>1. item[k].line \in Consignments /\ k \notin vend[item[k].line].lines
      BY <2>1 DEF DataInv, LinesAgree, TypeOK, Item
    <3> QED
      BY <1>7, <3>1, ConstantsAssumption DEF ItemIsCounted, LineIsDeleted
  <2>2. ASSUME NEW k \in Items, NEW c \in Consignments, k \in vend'[c].counted
        PROVE  k \in vend'[c].lines /\ item'[k].line = c
    <3>1. k \in vend[c].counted => k \in vend[c].lines /\ item[k].line = c
      BY DEF DataInv, LinesAgree
    <3>2. CASE c = item[i].line /\ k = i
      BY <1>2, <1>7, <2>2, <3>2 DEF ItemIsCounted, LineIsDeleted
    <3>3. CASE ~(c = item[i].line /\ k = i)
      <4>1. k \in vend[c].counted /\ (k \in vend[c].lines => k \in vend'[c].lines)
        <5>1. \/ vend'[c].counted = vend[c].counted /\ vend'[c].lines = vend[c].lines
              \/ /\ c = item[i].line /\ vend'[c].lines = vend[c].lines
                 /\ vend'[c].counted = vend[c].counted \union {i}
              \/ /\ c = item[i].line /\ vend'[c].lines = vend[c].lines \ {i}
                 /\ vend'[c].counted = vend[c].counted \ {i}
          BY <1>7 DEF ItemIsCounted, LineIsDeleted
        <5> QED
          BY <2>2, <3>3, <5>1
      <4>2. item'[k].line = item[k].line
        OBVIOUS
      <4> QED
        BY <3>1, <4>1, <4>2
    <3> QED
      BY <3>2, <3>3
  <2> QED
    BY <2>1, <2>2 DEF LinesAgree
<1> QED
  BY <1>1, <1>2, <1>5, <1>6, <1>8, <1>9 DEF DataInv

\* Up to its first call to Vend, and when it fails.
LEMMA ReceiptKeeps1 ==
  ASSUME TypeOK, TypeOK', NEW j \in Jobs, OneActor, JobInv(j), DataInv,
         \/ FindReport(j) \/ FindItems(j) \/ FlagReceived(j) \/ SetSubmitting(j)
         \/ NoSuchLine(j) \/ AllReceived(j) \/ ReceiveFails(j) \/ SetReceivingFailure(j)
  PROVE  OrderInv'
<1>0. Working(j) /\ Frame(j) /\ job[j].pc # "gen_fulfil" /\ job[j].pc \in RcPcs
  <2>1. ReceiveStep(j) /\ job[j].pc # "gen_fulfil" /\ job[j].pc \in RcPcs
    BY DEF ReceiveStep, FindReport, FindItems, FlagReceived, SetSubmitting, NoSuchLine,
       AllReceived, ReceiveFails, SetReceivingFailure, RcPcs
  <2> QED
    BY <2>1, StepsWork, ReceiveOutcome DEF WorkerStep
<1>0a. report.state \notin {"absent", "COMPLETE", "FULFILMENT_PENDING"}
  BY <1>0 DEF JobInv, StateOf
<1>1. CASE FindReport(j)
  <2>1. job'[j].pc = "rc_lines" /\ job'[j].own = report.vendConsignmentId
    BY <1>1 DEF FindReport, TypeOK, Job
  <2>2. JobInv(j)'
    BY <1>0a, <1>1, <2>1 DEF FindReport, JobInv, StateOf, EarlyReceipt, OwnOf, PushedBy,
       PlannedLines, PlannedBy, JobOrders, OrderingPcs, GenPcs, PoPcs
  <2> QED
    BY <1>0, <1>1, <2>2, DataKept, WorkerKeeps DEF FindReport
<1>2. CASE FindItems(j)
  <2>1. /\ job'[j].pc = "rc_flag" /\ job'[j].own = job[j].own
        /\ job'[j].plan = [i \in Items |-> PlanFor(i)]
        /\ job'[j].todo = {i \in Items : PlanFor(i).act # "skip"}
    BY <1>2 DEF FindItems, TypeOK, Job
  <2>2. \A i \in Items :
          IF i \in job'[j].todo
          THEN /\ job'[j].plan[i].line = item[i].line
               /\ job'[j].plan[i].act = "update" <=> item[i].receivedQuantity
          ELSE Done(i)'
    <3> SUFFICES ASSUME NEW i \in Items
                 PROVE  IF i \in job'[j].todo
                        THEN /\ job'[j].plan[i].line = item[i].line
                             /\ job'[j].plan[i].act = "update" <=> item[i].receivedQuantity
                        ELSE Done(i)'
      OBVIOUS
    <3>1. job'[j].plan[i] = PlanFor(i) /\ (i \in job'[j].todo <=> PlanFor(i).act # "skip")
      BY <2>1
    <3>2. CASE item[i].receivedQuantity
      BY <3>1, <3>2 DEF PlanFor
    <3>3. CASE ~item[i].receivedQuantity /\ item[i].line # None /\ ~item[i].vendDeletedAt
      BY <3>1, <3>3 DEF PlanFor
    <3>4. CASE ~item[i].receivedQuantity /\ ~(item[i].line # None /\ ~item[i].vendDeletedAt)
      BY <1>2, <3>1, <3>4 DEF FindItems, PlanFor, NoPlan, Done
    <3> QED
      BY <3>2, <3>3, <3>4
  <2>3. StateOf(j)' /\ OwnOf(j)' /\ PushedBy(j)' /\ ~JobOrders(j)'
    BY <1>0a, <1>2, <2>1 DEF FindItems, JobInv, StateOf, EarlyReceipt, OwnOf, PushedBy,
       JobOrders, OrderingPcs, GenPcs, PoPcs
  <2>4. PlannedLines(j)' /\ PlannedBy(j)'
    BY <1>2, <2>1, <2>2 DEF FindItems, PlannedLines, PlannedBy
  <2> QED
    BY <1>0, <1>2, <2>3, <2>4, DataKept, WorkerKeeps DEF FindItems, JobInv
<1>3. CASE FlagReceived(j)
  <2>1. /\ job'[j].pc = "rc_state" /\ job'[j].own = job[j].own /\ job'[j].todo = job[j].todo
        /\ job'[j].plan = job[j].plan
    BY <1>3, GotoFields DEF FlagReceived
  <2>2. \A i \in Items :
          /\ item'[i].line = item[i].line /\ item'[i].vendDeletedAt = item[i].vendDeletedAt
          /\ item'[i].receivedQuantity = item[i].receivedQuantity
    BY <1>3 DEF FlagReceived, TypeOK, Item
  <2>3. StateOf(j)' /\ OwnOf(j)' /\ PushedBy(j)' /\ ~JobOrders(j)'
    BY <1>0a, <1>3, <2>1 DEF FlagReceived, JobInv, StateOf, EarlyReceipt, OwnOf, PushedBy,
       JobOrders, OrderingPcs, GenPcs, PoPcs
  <2>4. PlannedLines(j)' /\ (~mixed.lateEdit => PlannedBy(j)')
    BY <1>3, <2>1, <2>2, JobFieldType DEF FlagReceived, JobInv, PlannedLines, PlannedBy, Done
  <2>5. MayBeOrdered' => Untouched'
    BY <1>3, <2>2 DEF FlagReceived, DataInv, MayBeOrdered, Untouched
  <2>6. SentIsTheOrders' /\ LinesAreOrdered' /\ LinesAgree'
    BY <1>3, <2>2 DEF FlagReceived, DataInv, SentIsTheOrders, LinesAreOrdered, LinesAgree
  <2>7. DataInv'
    BY <1>0, <1>3, <2>5, <2>6, WorkingPromisesNothing DEF FlagReceived, DataInv
  <2> QED
    BY <1>0, <1>3, <2>3, <2>4, <2>7, WorkerKeeps DEF FlagReceived, JobInv
<1>4. CASE SetSubmitting(j)
  <2>1. /\ job'[j].pc = "rc_items" /\ job'[j].own = job[j].own /\ job'[j].todo = job[j].todo
        /\ job'[j].plan = job[j].plan
        /\ report'.state = "SUBMITTING_RECEIVALS"
        /\ report'.vendConsignmentId = report.vendConsignmentId
    BY <1>4, GotoFields, SetStateFields DEF SetSubmitting
  <2>2. StateOf(j)' /\ OwnOf(j)' /\ PushedBy(j)' /\ ~JobOrders(j)'
    BY <1>4, <2>1 DEF SetSubmitting, JobInv, StateOf, OwnOf, PushedBy, JobOrders, OrderingPcs,
       GenPcs, PoPcs
  <2>3. PlannedLines(j)' /\ (~mixed.lateEdit => PlannedBy(j)')
    BY <1>4, <2>1 DEF SetSubmitting, JobInv, PlannedLines, PlannedBy, Done
  <2>4. DataInv'
    BY <1>4, <2>1, PlainStateKeeps DEF SetSubmitting, PlainStates, REPORT_STATES
  <2> QED
    BY <1>0, <1>4, <2>2, <2>3, <2>4, WorkerKeeps DEF SetSubmitting, JobInv
<1>5. CASE NoSuchLine(j) \/ ReceiveFails(j)
  <2>1. Goto(j, "rc_error") /\ QuietMove(j, "rc_error")
    BY <1>0, <1>5 DEF NoSuchLine, ReceiveFails, QuietMove
  <2>2. UNCHANGED <<report, item, vend, mixed>>
    BY <1>5 DEF NoSuchLine, ReceiveFails
  <2>3. JobInv(j)' /\ DataInv'
    BY <2>1, <2>2, QuietKeeps, DataKept
  <2> QED
    BY <1>0, <2>3, WorkerKeeps
<1>6. CASE AllReceived(j)
  <2>1. Goto(j, "rc_mark") /\ QuietMove(j, "rc_mark")
    BY <1>6 DEF AllReceived, QuietMove
  <2>2. JobInv(j)' /\ DataInv'
    BY <1>6, <2>1, QuietKeeps, DataKept DEF AllReceived
  <2> QED
    BY <1>0, <2>2, WorkerKeeps
<1>7. CASE SetReceivingFailure(j)
  <2>1. DataInv'
    BY <1>7, SetStateFields, PlainStateKeeps DEF SetReceivingFailure, PlainStates, REPORT_STATES
  <2>2. job'[j].pc \in IdlePcs
    BY <1>7, FinishJob DEF SetReceivingFailure, IdlePcs
  <2> QED
    BY <1>0, <2>1, <2>2, EndKeeps
<1> QED
  BY <1>1, <1>2, <1>3, <1>4, <1>5, <1>6, <1>7
\* Vend marks the order's consignment as received.
LEMMA MarkKeeps ==
  ASSUME TypeOK, NEW j \in Jobs, job[j].pc = "rc_mark", JobInv(j), DataInv,
         job[j].own # None, StatusBecomes(job[j].own, "received"),
         UNCHANGED <<report, item>>, mixed'.lateEdit = mixed.lateEdit,
         mixed.lostReply => mixed'.lostReply
  PROVE  DataInv'
<1>1. job[j].own = report.vendConsignmentId
  BY DEF JobInv, OwnOf
<1>2. Working(j) /\ report.state \notin {"absent", "ERROR_SENDING_TO_SUPPLIER"}
  BY DEF Working, Running, JobInv, StateOf, EarlyReceipt
<1>3. ~MayBeOrdered'
  BY <1>1, <1>2 DEF MayBeOrdered
<1>4. SentIsLinked' /\ CompleteIsDone'
  BY <1>2, WorkingPromisesNothing
<1>5. SentIsTheOrders' /\ LinesAreOrdered'
  BY <1>1 DEF DataInv, SentIsTheOrders, LinesAreOrdered, StatusBecomes
<1>6. LinesAgree'
  <2>1. ASSUME NEW k \in Items, item'[k].vendDeletedAt
        PROVE  item'[k].line # None /\ k \notin vend'[item'[k].line].lines
    <3>1. item[k].line \in Consignments /\ k \notin vend[item[k].line].lines
      BY <2>1 DEF DataInv, LinesAgree, TypeOK, Item
    <3> QED
      BY <3>1, ConstantsAssumption DEF StatusBecomes
  <2> QED
    BY <2>1 DEF DataInv, LinesAgree, StatusBecomes
<1> QED
  BY <1>3, <1>4, <1>5, <1>6 DEF DataInv

\* Its calls to Vend and what it saves of them.
LEMMA ReceiptKeeps2 ==
  ASSUME TypeOK, TypeOK', NEW j \in Jobs, OneActor, JobInv(j), DataInv,
         \/ ReceiveLineItem(j) \/ SaveVendDeleted(j) \/ MarkAsReceived(j)
         \/ ReceiveUnanswered(j) \/ SetComplete(j)
  PROVE  OrderInv'
<1>0. Working(j) /\ Frame(j) /\ job[j].pc # "gen_fulfil"
  <2>1. ReceiveStep(j) /\ job[j].pc # "gen_fulfil"
    BY DEF ReceiveStep, ReceiveLineItem, SaveVendDeleted, MarkAsReceived, ReceiveUnanswered,
       SetComplete
  <2> QED
    BY <2>1, StepsWork, ReceiveOutcome DEF WorkerStep
<1>0a. report.state \notin {"absent", "COMPLETE", "FULFILMENT_PENDING"}
  BY <1>0 DEF JobInv, StateOf
<1>0b. report.state # "ERROR_SENDING_TO_SUPPLIER"
  BY <1>0 DEF JobInv, StateOf, EarlyReceipt, ReceiveLineItem, SaveVendDeleted, MarkAsReceived,
     ReceiveUnanswered, SetComplete
<1>0c. report'.state = report.state /\ job'[j].pc = "rc_error" => JobInv(j)'
  BY <1>0a DEF JobInv, StateOf, EarlyReceipt, JobOrders, OrderingPcs, GenPcs, PoPcs, OwnOf,
     PushedBy, PlannedLines, PlannedBy
<1>1. CASE ReceiveLineItem(j)
  <2>1. PICK i \in job[j].todo :
          /\ LineExists(j, i) /\ CallVend(j, i)
          /\ job' = IF job[j].plan[i].act = "update"
                    THEN [job EXCEPT ![j].todo = @ \ {i}]
                    ELSE [job EXCEPT ![j].cur = i, ![j].pc = "rc_unlink"]
    BY <1>1 DEF ReceiveLineItem
  <2>2. DataInv' /\ i \in Items /\ job[j].plan[i].line = item[i].line
        /\ item[i].line \in Consignments
    BY <1>1, <2>1, VendCallKeeps DEF ReceiveLineItem
  <2>3. CASE job[j].plan[i].act = "update"
    <3>1. /\ job'[j].pc = "rc_items" /\ job'[j].own = job[j].own
          /\ job'[j].todo = job[j].todo \ {i} /\ job'[j].plan = job[j].plan
      <4>1. job' = [job EXCEPT ![j].todo = @ \ {i}]
        BY <2>1, <2>3
      <4> QED
        BY <1>1, <4>1 DEF ReceiveLineItem, TypeOK, Job
    <3>2. ItemIsCounted(item[i].line, i)
      BY <2>1, <2>2, <2>3, VendCalled
    <3>3. StateOf(j)' /\ OwnOf(j)' /\ ~JobOrders(j)' /\ PushedBy(j)'
      BY <1>0a, <1>0b, <1>1, <3>1 DEF ReceiveLineItem, JobInv, StateOf, OwnOf, JobOrders,
         OrderingPcs, GenPcs, PoPcs, PushedBy
    <3>4. PlannedLines(j)'
      BY <1>1, <3>1 DEF ReceiveLineItem, JobInv, PlannedLines
    <3>5. ASSUME ~mixed.lateEdit PROVE PlannedBy(j)'
      <4>1. ASSUME NEW k \in Items, k \notin job[j].todo PROVE Done(k)'
        <5>1. Done(k)
          BY <1>1, <3>5, <4>1 DEF ReceiveLineItem, JobInv, PlannedBy
        <5>2. item[k].line \in Consignments \union {None}
          BY DEF TypeOK, Item
        <5> QED
          BY <1>1, <3>2, <5>1, <5>2 DEF ReceiveLineItem, Done, ItemIsCounted
      <4>2. Done(i)'
        <5>1. item[i].receivedQuantity
          BY <1>1, <2>2, <2>3, <3>5 DEF ReceiveLineItem, JobInv, PlannedBy
        <5> QED
          BY <1>1, <2>2, <3>2, <5>1, ConstantsAssumption DEF ReceiveLineItem, Done, ItemIsCounted
      <4>3. \A k \in Items : k \in job[j].todo =>
              (job[j].plan[k].act = "update" <=> item'[k].receivedQuantity)
        BY <1>1, <3>5 DEF ReceiveLineItem, JobInv, PlannedBy
      <4> QED
        BY <3>1, <4>1, <4>2, <4>3 DEF PlannedBy
    <3>6. JobInv(j)'
      BY <1>1, <3>3, <3>4, <3>5 DEF ReceiveLineItem, JobInv
    <3> QED
      BY <1>0, <2>2, <3>6, WorkerKeeps
  <2>4. CASE job[j].plan[i].act # "update"
    <3>1. /\ job'[j].pc = "rc_unlink" /\ job'[j].own = job[j].own /\ job'[j].cur = i
          /\ job'[j].todo = job[j].todo /\ job'[j].plan = job[j].plan
      <4>1. job' = [job EXCEPT ![j].cur = i, ![j].pc = "rc_unlink"]
        BY <2>1, <2>4
      <4> QED
        BY <4>1 DEF TypeOK, Job
    <3>2. LineIsDeleted(item[i].line, i)
      BY <2>1, <2>2, <2>4, VendCalled
    <3>3. StateOf(j)' /\ OwnOf(j)' /\ ~JobOrders(j)' /\ PushedBy(j)'
      BY <1>0a, <1>0b, <1>1, <3>1 DEF ReceiveLineItem, JobInv, StateOf, OwnOf, JobOrders,
         OrderingPcs, GenPcs, PoPcs, PushedBy
    <3>4. PlannedLines(j)'
      <4>1. item[i].line # None /\ i \notin vend'[item[i].line].lines
        BY <2>2, <3>2, ConstantsAssumption DEF LineIsDeleted
      <4> QED
        BY <1>1, <2>2, <3>1, <4>1 DEF ReceiveLineItem, JobInv, PlannedLines
    <3>5. ASSUME ~mixed.lateEdit PROVE PlannedBy(j)'
      <4>1. ASSUME NEW k \in Items, k \notin job[j].todo PROVE Done(k)'
        <5>1. Done(k) /\ k # i
          BY <1>1, <2>1, <3>5, <4>1 DEF ReceiveLineItem, JobInv, PlannedBy
        <5>2. item[k].line \in Consignments \union {None}
          BY DEF TypeOK, Item
        <5> QED
          BY <1>1, <3>2, <5>1, <5>2 DEF ReceiveLineItem, Done, LineIsDeleted
      <4>2. ~item'[i].receivedQuantity
        BY <1>1, <2>2, <2>4, <3>5 DEF ReceiveLineItem, JobInv, PlannedBy
      <4>3. \A k \in Items : k \in job[j].todo =>
              (job[j].plan[k].act = "update" <=> item'[k].receivedQuantity)
        BY <1>1, <3>5 DEF ReceiveLineItem, JobInv, PlannedBy
      <4> QED
        BY <2>2, <3>1, <4>1, <4>2, <4>3 DEF PlannedBy
    <3>6. JobInv(j)'
      BY <1>1, <3>3, <3>4, <3>5 DEF ReceiveLineItem, JobInv
    <3> QED
      BY <1>0, <2>2, <3>6, WorkerKeeps
  <2> QED
    BY <2>3, <2>4
<1>2. CASE SaveVendDeleted(j)
  <2>1. /\ job'[j].pc = "rc_items" /\ job'[j].own = job[j].own
        /\ job'[j].todo = job[j].todo \ {job[j].cur} /\ job'[j].plan = job[j].plan
    BY <1>2 DEF SaveVendDeleted, TypeOK, Job
  <2>2. \A i \in Items :
          /\ item'[i].line = item[i].line
          /\ item'[i].receivedQuantity = item[i].receivedQuantity
          /\ item'[i].vendDeletedAt <=> i = job[j].cur \/ item[i].vendDeletedAt
    <3>1. ASSUME NEW i \in Items, i = job[j].cur
          PROVE  /\ item'[i].line = item[i].line
                 /\ item'[i].receivedQuantity = item[i].receivedQuantity
                 /\ item'[i].vendDeletedAt
      BY <1>2, <3>1 DEF SaveVendDeleted, TypeOK, Item
    <3>2. ASSUME NEW i \in Items, i # job[j].cur PROVE item'[i] = item[i]
      BY <1>2, <3>2 DEF SaveVendDeleted, TypeOK
    <3> QED
      BY <3>1, <3>2
  <2>3. /\ job[j].cur \in Items /\ item[job[j].cur].line # None
        /\ job[j].cur \notin vend[item[job[j].cur].line].lines
    BY <1>2 DEF SaveVendDeleted, JobInv, PlannedLines
  <2>4. StateOf(j)' /\ OwnOf(j)' /\ ~JobOrders(j)' /\ PushedBy(j)'
    BY <1>0a, <1>0b, <1>2, <2>1 DEF SaveVendDeleted, JobInv, StateOf, OwnOf, JobOrders,
       OrderingPcs, GenPcs, PoPcs, PushedBy
  <2>5. PlannedLines(j)'
    BY <1>2, <2>1, <2>2, JobFieldType DEF SaveVendDeleted, JobInv, PlannedLines
  <2>6. ASSUME ~mixed.lateEdit PROVE PlannedBy(j)'
    <3>1. ASSUME NEW k \in Items, k \notin job[j].todo PROVE Done(k)'
      <4>1. Done(k)
        BY <1>2, <2>6, <3>1 DEF SaveVendDeleted, JobInv, PlannedBy
      <4> QED
        BY <1>2, <2>2, <4>1 DEF SaveVendDeleted, Done
    <3>2. ASSUME NEW k \in Items, k = job[j].cur PROVE Done(k)'
      <4>1. ~item[job[j].cur].receivedQuantity
        BY <1>2, <2>6 DEF SaveVendDeleted, JobInv, PlannedBy
      <4>2. ~item'[k].receivedQuantity /\ item'[k].vendDeletedAt
        BY <2>2, <3>2, <4>1
      <4> QED
        BY <4>2 DEF Done
    <3>3. \A k \in Items : k \in job[j].todo =>
            (job[j].plan[k].act = "update" <=> item'[k].receivedQuantity)
      BY <1>2, <2>2, <2>6 DEF SaveVendDeleted, JobInv, PlannedBy
    <3> QED
      BY <2>1, <3>1, <3>2, <3>3 DEF PlannedBy
  <2>7. JobInv(j)'
    BY <1>2, <2>4, <2>5, <2>6 DEF SaveVendDeleted, JobInv
  <2>8. ~MayBeOrdered'
    BY <1>0a, <1>0b, <1>2, <2>3 DEF SaveVendDeleted, DataInv, LinesAreOrdered, MayBeOrdered
  <2>9. SentIsTheOrders' /\ LinesAreOrdered' /\ LinesAgree'
    <3>1. SentIsTheOrders' /\ LinesAreOrdered'
      BY <1>2, <2>2 DEF SaveVendDeleted, DataInv, SentIsTheOrders, LinesAreOrdered
    <3>2. ASSUME NEW i \in Items, item'[i].vendDeletedAt
          PROVE  item'[i].line # None /\ i \notin vend'[item'[i].line].lines
      BY <1>2, <2>2, <2>3, <3>2 DEF SaveVendDeleted, DataInv, LinesAgree
    <3>3. ASSUME NEW i \in Items, NEW c \in Consignments, i \in vend'[c].counted
          PROVE  i \in vend'[c].lines /\ item'[i].line = c
      BY <1>2, <2>2, <3>3 DEF SaveVendDeleted, DataInv, LinesAgree
    <3> QED
      BY <3>1, <3>2, <3>3 DEF LinesAgree
  <2>10. DataInv'
    BY <1>0, <1>2, <2>8, <2>9, WorkingPromisesNothing DEF SaveVendDeleted, DataInv
  <2> QED
    BY <1>0, <2>7, <2>10, WorkerKeeps
<1>3. CASE MarkAsReceived(j)
  <2>1. CASE job[j].own = None
    <3>1. Goto(j, "rc_error") /\ UNCHANGED <<report, item, vend, mixed>>
      BY <1>3, <2>1 DEF MarkAsReceived
    <3>2. JobInv(j)' /\ DataInv'
      BY <1>0c, <3>1, GotoFields, DataKept
    <3> QED
      BY <1>0, <3>2, WorkerKeeps
  <2>2. CASE job[j].own # None
    <3>1. /\ Goto(j, "rc_settle") /\ StatusBecomes(job[j].own, "received")
          /\ UNCHANGED <<report, item, mixed>> /\ job[j].pc = "rc_mark"
      BY <1>3, <2>2, StatusWritten DEF MarkAsReceived
    <3>2. job'[j].pc = "rc_settle" /\ job'[j].own = job[j].own
      BY <3>1, GotoFields
    <3>3. DataInv'
      BY <2>2, <3>1, MarkKeeps
    <3>4. StateOf(j)' /\ OwnOf(j)' /\ ~JobOrders(j)' /\ PushedBy(j)' /\ PlannedLines(j)'
      BY <1>0a, <1>0b, <3>1, <3>2 DEF JobInv, StateOf, OwnOf, JobOrders, OrderingPcs, GenPcs,
         PoPcs, PushedBy, PlannedLines
    <3>5. ASSUME ~mixed.lateEdit PROVE PlannedBy(j)'
      <4>1. \A k \in Items : Done(k)'
        <5>1. \A k \in Items : Done(k) /\ item[k].line \in Consignments \union {None}
          BY <3>1, <3>5 DEF JobInv, PlannedBy, TypeOK, Item
        <5> QED
          BY <3>1, <5>1 DEF Done, StatusBecomes
      <4>2. vend'[job[j].own].status = "received"
        BY <2>2, <3>1, JobFieldType DEF StatusBecomes
      <4> QED
        BY <2>2, <3>2, <4>1, <4>2 DEF PlannedBy
    <3>6. JobInv(j)'
      BY <3>1, <3>4, <3>5 DEF JobInv
    <3> QED
      BY <1>0, <3>3, <3>6, WorkerKeeps
  <2> QED
    BY <2>1, <2>2
<1>4. CASE ReceiveUnanswered(j)
  <2>1. /\ mixed'.lateEdit = mixed.lateEdit /\ mixed'.lostReply
        /\ UNCHANGED <<report, item>> /\ job'[j].pc = "rc_error"
    BY <1>4, GotoFields DEF ReceiveUnanswered, TypeOK
  <2>2. DataInv'
    <3>1. ASSUME job[j].pc = "rc_items", NEW i \in job[j].todo, LineExists(j, i), CallVend(j, i)
          PROVE  DataInv'
      BY <2>1, <3>1, VendCallKeeps
    <3>2. ASSUME job[j].pc = "rc_mark", job[j].own # None,
                 vend' = [vend EXCEPT ![job[j].own].status = "received"]
          PROVE  DataInv'
      BY <2>1, <3>2, StatusWritten, MarkKeeps
    <3> QED
      BY <1>4, <3>1, <3>2 DEF ReceiveUnanswered
  <2> QED
    BY <1>0, <1>0c, <2>1, <2>2, WorkerKeeps
<1>5. CASE SetComplete(j)
  <2>1. /\ report'.state = "COMPLETE" /\ job'[j].pc \in IdlePcs
        /\ report'.vendConsignmentId = report.vendConsignmentId
    BY <1>5, SetStateFields, FinishJob DEF SetComplete, IdlePcs
  <2>2. MayBeOrdered' => Untouched'
    BY <1>5, <2>1 DEF SetComplete, DataInv, MayBeOrdered, Untouched
  <2>3. SentIsTheOrders' /\ LinesAreOrdered' /\ LinesAgree'
    BY <1>5, <2>1 DEF SetComplete, DataInv, SentIsTheOrders, LinesAreOrdered, LinesAgree
  <2>4. ~mixed.lateEdit => SentIsLinked' /\ CompleteIsDone'
    BY <1>5, <2>1 DEF SetComplete, JobInv, OwnOf, PlannedBy, Done, SentIsLinked, CompleteIsDone
  <2>5. DataInv'
    BY <1>5, <2>2, <2>3, <2>4 DEF SetComplete, DataInv
  <2> QED
    BY <1>0, <2>1, <2>5, EndKeeps
<1> QED
  BY <1>1, <1>2, <1>3, <1>4, <1>5

LEMMA ReceiptKeeps ==
  ASSUME TypeOK, TypeOK', NEW j \in Jobs, OneActor, JobInv(j), DataInv, ReceiveStep(j)
  PROVE  OrderInv'
  BY ReceiptKeeps1, ReceiptKeeps2 DEF ReceiveStep
-----------------------------------------------------------------------------
(* The sessions *)

\* A step of session s that leaves the jobs and Vend alone and starts no request.
LEMMA SessionKeeps ==
  ASSUME TypeOK, NEW s \in Sessions, ~mixed.overlap, OrderInv,
         UNCHANGED <<job, vend>>, \A t \in Sessions \ {s} : session'[t] = session[t],
         ~Sending(s)', mixed'.lostReply = mixed.lostReply,
         \A i \in Items : item'[i].line = item[i].line
                         /\ item'[i].vendDeletedAt = item[i].vendDeletedAt,
         \A j \in Jobs : JobInv(j)', SentIsLinked' \/ mixed'.lateEdit,
         CompleteIsDone' \/ mixed'.lateEdit,
         report'.vendConsignmentId = report.vendConsignmentId,
         report'.state = report.state \/ report'.state \in PlainStates
  PROVE  OrderInv'
<1>1. OneActor'
  BY DEF OrderInv, OneActor, Sending, Working, Running
<1>2. Untouched => Untouched'
  BY DEF Untouched
<1>3. report'.state \notin {"absent", "ERROR_SENDING_TO_SUPPLIER", "FULFILMENT_PENDING", "COMPLETE"}
        \/ report'.state = report.state
  BY DEF PlainStates, REPORT_STATES
<1>4. ASSUME NEW t \in Sessions PROVE SessionInv(t)'
  BY <1>2, <1>3 DEF OrderInv, SessionInv, Sending, SessionOrders
<1>5. MayBeOrdered' => MayBeOrdered
  BY <1>3 DEF MayBeOrdered
<1>6. SentIsTheOrders' /\ LinesAreOrdered' /\ LinesAgree'
  BY DEF OrderInv, DataInv, SentIsTheOrders, LinesAreOrdered, LinesAgree
<1> QED
  BY <1>1, <1>2, <1>4, <1>5, <1>6 DEF OrderInv, DataInv

\* What is said of a worker does not depend on the state that a session puts.
LEMMA JobsKept ==
  ASSUME TypeOK, NEW j \in Jobs, JobInv(j), UNCHANGED <<job, vend>>,
         report'.vendConsignmentId = report.vendConsignmentId,
         report'.state = report.state \/ report'.state \in PlainStates,
         mixed'.lostReply = mixed.lostReply,
         \A i \in Items : item'[i].line = item[i].line
                         /\ item'[i].vendDeletedAt = item[i].vendDeletedAt,
         \/ mixed'.lateEdit
         \/ /\ ~mixed.lateEdit
            /\ \A i \in Items : item'[i].approved = item[i].approved
                              /\ item'[i].receivedQuantity = item[i].receivedQuantity
         \/ ~Working(j)
  PROVE  JobInv(j)'
<1>1. CASE ~Working(j)
  <2>1. job'[j].pc \in IdlePcs
    BY <1>1, WorkingIs
  <2> QED
    BY <2>1, IdleJob
<1>2. CASE Working(j)
  <2>1. report'.state \notin {"absent", "ERROR_SENDING_TO_SUPPLIER", "FULFILMENT_PENDING", "COMPLETE"}
          \/ report'.state = report.state
    BY DEF PlainStates, REPORT_STATES
  <2>2. StateOf(j)'
    BY <1>2, <2>1 DEF JobInv, StateOf
  <2>3. JobOrders(j)' => Untouched'
    BY DEF JobInv, JobOrders, Untouched
  <2>4. OwnOf(j)'
    BY DEF JobInv, OwnOf
  <2>5. PlannedLines(j)'
    BY JobFieldType DEF JobInv, PlannedLines
  <2>6. ~mixed'.lateEdit => PushedBy(j)' /\ PlannedBy(j)'
    <3>1. CASE ~mixed.lateEdit /\ \A i \in Items :
                 /\ item'[i].approved = item[i].approved
                 /\ item'[i].receivedQuantity = item[i].receivedQuantity
      <4>1. PushedBy(j)'
        BY <3>1 DEF JobInv, PushedBy, Linked
      <4>2. PlannedBy(j)'
        BY <3>1 DEF JobInv, PlannedBy, Done
      <4> QED
        BY <4>1, <4>2
    <3> QED
      BY <1>2, <3>1
  <2> QED
    BY <2>2, <2>3, <2>4, <2>5, <2>6 DEF JobInv
<1> QED
  BY <1>1, <1>2
\* A request is accepted while nobody is at work.
LEMMA RequestKeeps ==
  ASSUME TypeOK, NEW s \in Sessions, ~mixed.overlap, OrderInv, ~Active,
         UNCHANGED <<job, vend, item>>, \A t \in Sessions \ {s} : session'[t] = session[t],
         session'[s].op # "receive" => Untouched,
         mixed'.lostReply = mixed.lostReply, mixed'.lateEdit = mixed.lateEdit,
         report'.vendConsignmentId = report.vendConsignmentId,
         report'.state \in {"PROCESSING", "SENDING_TO_SUPPLIER", "SUBMITTING_RECEIVALS"}
  PROVE  OrderInv'
<1>1. (\A t \in Sessions : ~Sending(t)) /\ (\A j \in Jobs : ~Working(j))
  BY DEF Active, Sending, Working
<1>2. OneActor'
  BY <1>1 DEF OneActor, Sending, Working, Running
<1>3. Untouched => Untouched'
  BY DEF Untouched
<1>4. ASSUME NEW t \in Sessions PROVE SessionInv(t)'
  BY <1>1, <1>3 DEF SessionInv, Sending, SessionOrders
<1>5. report'.state \in PlainStates
  BY DEF PlainStates, REPORT_STATES
<1>6. ASSUME NEW j \in Jobs PROVE JobInv(j)'
  BY <1>1, <1>5, JobsKept DEF OrderInv
<1>7. DataInv'
  BY <1>5, PlainStateKeeps DEF OrderInv
<1> QED
  BY <1>2, <1>4, <1>6, <1>7 DEF OrderInv

\* Nobody works for an order that does not exist yet.
LEMMA AbsentIsIdle ==
  ASSUME OrderInv, ~mixed.overlap, report.state = "absent" PROVE ~Active
  BY DEF OrderInv, SessionInv, Sending, JobInv, StateOf, Working, Active

LEMMA SendPayLoadKeeps ==
  ASSUME TypeOK, TypeOK', NEW s \in Sessions, OrderInv, ~mixed.overlap, SendPayLoad(s)
  PROVE  OrderInv'
<1>1. PICK j \in Jobs : job[j].pc = "free" /\ job' = [job EXCEPT ![j] = NewJob(session[s].op, "queued")]
  BY DEF SendPayLoad
<1>2. /\ job'[j].pc = "queued" /\ job'[j].op = session[s].op
      /\ \A k \in Jobs \ {j} : job'[k] = job[k]
  BY <1>1 DEF NewJob, TypeOK
<1>3. /\ session'[s].pc = "idle" /\ Sending(s)
      /\ \A t \in Sessions \ {s} : session'[t] = session[t]
  BY DEF SendPayLoad, Return, TypeOK, Session, Sending
<1>4. (\A t \in Sessions \ {s} : ~Sending(t)) /\ (\A k \in Jobs : ~Working(k))
  BY <1>3 DEF OrderInv, OneActor
<1>5. \A t \in Sessions : ~Sending(t)'
  BY <1>3, <1>4 DEF Sending
<1>6. \A k \in Jobs \ {j} : job'[k].pc \in IdlePcs /\ ~Working(k)'
  BY <1>2, <1>4, WorkingIs DEF Working, Running
<1>7. OneActor'
  BY <1>5, <1>6 DEF OneActor
<1>8. Untouched => Untouched'
  BY DEF SendPayLoad, Untouched
<1>9. JobInv(j)'
  <2>1. StateOf(j)'
    BY <1>2, <1>3 DEF SendPayLoad, OrderInv, SessionInv, StateOf
  <2>2. JobOrders(j)' => Untouched'
    BY <1>2, <1>3, <1>8 DEF OrderInv, SessionInv, SessionOrders, Sending, JobOrders, OrderingPcs,
       GenPcs, PoPcs
  <2>3. OwnOf(j)' /\ PlannedLines(j)' /\ PushedBy(j)' /\ PlannedBy(j)'
    BY <1>2 DEF OwnOf, PlannedLines, PushedBy, PlannedBy
  <2> QED
    BY <2>1, <2>2, <2>3 DEF JobInv
<1>10. \A k \in Jobs : JobInv(k)'
  BY <1>6, <1>9, IdleJob
<1>11. \A t \in Sessions : SessionInv(t)'
  BY <1>5 DEF SessionInv, Sending, SessionOrders
<1>12. DataInv'
  BY DataKept DEF SendPayLoad, OrderInv
<1> QED
  BY <1>7, <1>10, <1>11, <1>12 DEF OrderInv

\* An edit that does not come late touches no item that a worker or a promise of the
\* order's state is about.
LEMMA EditKeeps ==
  ASSUME TypeOK, TypeOK', NEW s \in Sessions, NEW k \in Items, OrderInv, ~mixed.overlap,
         EditItem(s, k)
  PROVE  OrderInv'
<1>1. \A i \in Items : item'[i].line = item[i].line
                       /\ item'[i].vendDeletedAt = item[i].vendDeletedAt
  <2> SUFFICES ASSUME NEW i \in Items
               PROVE  item'[i].line = item[i].line /\ item'[i].vendDeletedAt = item[i].vendDeletedAt
    OBVIOUS
  <2>1. ASSUME NEW a \in {"true", "false", "null"}, item' = [item EXCEPT ![k].approved = a]
        PROVE  item'[i].line = item[i].line /\ item'[i].vendDeletedAt = item[i].vendDeletedAt
    BY <2>1 DEF TypeOK, Item
  <2>2. ASSUME NEW f \in {"true", "false", "null"}, NEW q \in BOOLEAN,
               item' = [item EXCEPT ![k].fulfilled = f, ![k].fulfilledQuantity = q]
        PROVE  item'[i].line = item[i].line /\ item'[i].vendDeletedAt = item[i].vendDeletedAt
    BY <2>2 DEF TypeOK, Item
  <2>3. CASE item' = [item EXCEPT ![k].received = TRUE, ![k].receivedQuantity = TRUE]
    BY <2>3 DEF TypeOK, Item
  <2>4. CASE item' = [item EXCEPT ![k].received = FALSE, ![k].receivedQuantity = FALSE]
    BY <2>4 DEF TypeOK, Item
  <2> QED
    BY <2>1, <2>2, <2>3, <2>4 DEF EditItem
<1>2. /\ mixed'.lostReply = mixed.lostReply
      /\ mixed'.lateEdit <=> \/ mixed.lateEdit \/ Active
                             \/ report.state \notin Editable(session[s].page)
  BY DEF EditItem, TypeOK
<1>3. ASSUME NEW j \in Jobs PROVE JobInv(j)'
  <2>1. mixed'.lateEdit \/ ~Working(j)
    BY <1>2 DEF Active, Working
  <2> QED
    BY <1>1, <1>2, <2>1, JobsKept DEF EditItem, OrderInv
<1>4. ASSUME ~mixed'.lateEdit PROVE SentIsLinked' /\ CompleteIsDone'
  <2>1. ~mixed.lateEdit /\ report.state \in Editable(session[s].page)
    BY <1>2, <1>4
  <2>2. report.state # "COMPLETE"
    BY <2>1 DEF Editable
  <2>3. CASE report.state # "FULFILMENT_PENDING"
    BY <2>2, <2>3 DEF EditItem, SentIsLinked, CompleteIsDone
  <2>4. CASE report.state = "FULFILMENT_PENDING"
    <3>1. session[s].page = "fulfill"
      BY <2>1, <2>4 DEF Editable
    <3>2. \A i \in Items : item'[i].approved = item[i].approved
      BY <3>1 DEF EditItem, TypeOK, Item
    <3> QED
      BY <1>1, <2>1, <2>2, <3>2 DEF EditItem, OrderInv, DataInv, SentIsLinked, CompleteIsDone,
         Linked
  <2> QED
    BY <2>3, <2>4
<1>5. ~Sending(s)' /\ UNCHANGED <<report, vend, session, job>>
  BY DEF EditItem, Sending
<1> QED
  BY <1>1, <1>2, <1>3, <1>4, <1>5, SessionKeeps

LEMMA SessionStepKeeps ==
  ASSUME TypeOK, TypeOK', NEW s \in Sessions, OrderInv, ~mixed'.overlap,
         SessionCall(s) \/ SessionStep(s)
  PROVE  OrderInv'
<1>0. ~mixed.overlap
  BY DEF SessionCall, SessionStep, CallGenerate, CallCreatePurchaseOrder,
     CallSendDelivery, CallReceiveConsignment, OpenPage, EditItem, PutOpenedState,
     WriteSendingToSupplier, WriteReceivingPending, FlagFulfilled, SendPayLoad,
     SendPayLoadFails, TypeOK
<1>1. CASE CallGenerate(s)
  <2>1. /\ \A t \in Sessions \ {s} : session'[t] = session[t]
        /\ report'.state = "PROCESSING" /\ report'.vendConsignmentId = report.vendConsignmentId
    BY <1>1, SetStateFields DEF CallGenerate, TypeOK
  <2>2. ~Active /\ Untouched
    BY <1>0, <1>1, AbsentIsIdle DEF CallGenerate, OrderInv, DataInv, MayBeOrdered
  <2> QED
    BY <1>0, <1>1, <2>1, <2>2, RequestKeeps DEF CallGenerate
<1>2. CASE WriteSendingToSupplier(s)
  <2>1. /\ \A t \in Sessions \ {s} : session'[t] = session[t]
        /\ report'.state = "SENDING_TO_SUPPLIER"
        /\ report'.vendConsignmentId = report.vendConsignmentId
    BY <1>2, SetStateFields DEF WriteSendingToSupplier, TypeOK
  <2>2. /\ ~Active /\ MayCreatePurchaseOrder
        /\ mixed'.lostReply = mixed.lostReply /\ mixed'.lateEdit = mixed.lateEdit
    BY <1>2 DEF WriteSendingToSupplier, TypeOK
  <2>3. Untouched
    BY <1>0, <2>2 DEF OrderInv, DataInv, MayBeOrdered, MayCreatePurchaseOrder
  <2> QED
    BY <1>0, <1>2, <2>1, <2>2, <2>3, RequestKeeps DEF WriteSendingToSupplier
<1>3. CASE CallReceiveConsignment(s)
  <2>1. /\ \A t \in Sessions \ {s} : session'[t] = session[t]
        /\ session'[s].op = "receive"
        /\ report'.state = "SUBMITTING_RECEIVALS"
        /\ report'.vendConsignmentId = report.vendConsignmentId
    BY <1>3, SetStateFields DEF CallReceiveConsignment, TypeOK, Session
  <2>2. /\ ~Active
        /\ mixed'.lostReply = mixed.lostReply /\ mixed'.lateEdit = mixed.lateEdit
    BY <1>3 DEF CallReceiveConsignment, TypeOK
  <2> QED
    BY <1>0, <1>3, <2>1, <2>2, RequestKeeps DEF CallReceiveConsignment
<1>4. CASE \/ PutOpenedState(s) \/ WriteReceivingPending(s) \/ CallCreatePurchaseOrder(s)
           \/ CallSendDelivery(s) \/ SendPayLoadFails(s) \/ FlagFulfilled(s)
           \/ \E p \in Pages : OpenPage(s, p)
  <2>1. /\ UNCHANGED <<job, vend>> /\ \A t \in Sessions \ {s} : session'[t] = session[t]
        /\ mixed'.lostReply = mixed.lostReply /\ mixed'.lateEdit = mixed.lateEdit
    BY <1>4 DEF PutOpenedState, WriteReceivingPending, CallCreatePurchaseOrder, CallSendDelivery,
       SendPayLoadFails, FlagFulfilled, OpenPage, Return, TypeOK
  <2>2. session'[s].pc # "send"
    <3>1. ASSUME NEW pc \in SessionPcs \ {"send"}, session' = [session EXCEPT ![s].pc = pc]
          PROVE  session'[s].pc # "send"
      BY <3>1 DEF TypeOK, Session
    <3>2. ASSUME NEW p \in Pages, OpenPage(s, p) PROVE session'[s].pc # "send"
      BY <3>2 DEF OpenPage, TypeOK, Session
    <3> QED
      BY <1>4, <3>1, <3>2 DEF PutOpenedState, WriteReceivingPending, CallCreatePurchaseOrder,
         CallSendDelivery, SendPayLoadFails, FlagFulfilled, Return, SessionPcs
  <2>3. \A i \in Items :
          /\ item'[i].line = item[i].line /\ item'[i].vendDeletedAt = item[i].vendDeletedAt
          /\ item'[i].approved = item[i].approved
          /\ item'[i].receivedQuantity = item[i].receivedQuantity
    <3>1. CASE FlagFulfilled(s)
      BY <3>1 DEF FlagFulfilled, TypeOK, Item
    <3>2. CASE UNCHANGED item
      BY <3>2
    <3> QED
      BY <1>4, <3>1, <3>2 DEF PutOpenedState, WriteReceivingPending, CallCreatePurchaseOrder,
         CallSendDelivery, SendPayLoadFails, OpenPage
  <2>4. /\ report'.vendConsignmentId = report.vendConsignmentId
        /\ report'.state = report.state \/ report'.state \in PlainStates
    <3>1. CASE PutOpenedState(s) \/ WriteReceivingPending(s)
      BY <3>1, SetStateFields DEF PutOpenedState, Opened, WriteReceivingPending, PlainStates,
         REPORT_STATES
    <3>2. CASE UNCHANGED report
      BY <3>2
    <3> QED
      BY <1>4, <3>1, <3>2 DEF FlagFulfilled, CallCreatePurchaseOrder, CallSendDelivery,
         SendPayLoadFails, OpenPage
  <2>5. \A j \in Jobs : JobInv(j)'
    BY <1>0, <2>1, <2>3, <2>4, JobsKept DEF OrderInv
  <2>6. ~mixed.lateEdit => SentIsLinked'
    BY <1>0, <2>1, <2>3, <2>4 DEF OrderInv, DataInv, SentIsLinked, Linked, PlainStates
  <2>7. ~mixed.lateEdit => CompleteIsDone'
    BY <1>0, <2>1, <2>3, <2>4 DEF OrderInv, DataInv, CompleteIsDone, Done, PlainStates
  <2> QED
    BY <1>0, <2>1, <2>2, <2>3, <2>4, <2>5, <2>6, <2>7, SessionKeeps DEF Sending
<1>5. ASSUME NEW i \in Items, EditItem(s, i) PROVE OrderInv'
  BY <1>0, <1>5, EditKeeps
<1>6. CASE SendPayLoad(s)
  BY <1>0, <1>6, SendPayLoadKeeps
<1> QED
  BY <1>1, <1>2, <1>3, <1>4, <1>5, <1>6 DEF SessionCall, SessionStep

-----------------------------------------------------------------------------
(* The invariant and what it says *)

LEMMA WorkersKeepOverlap ==
  ASSUME TypeOK, NEW j \in Jobs, WorkerStep(j) PROVE mixed'.overlap = mixed.overlap
<1>1. UNCHANGED mixed \/ PurchaseOrderUnanswered(j) \/ ReceiveUnanswered(j)
  BY DEF WorkerStep, ReceiveMessage, GiveUp, Crash, GenerateStep, GenerateRows, GenerateFails,
     SetDefaultState, FulfillAndReceive, PurchaseStep, CreateStockOrder, SaveConsignment,
     FindApprovedItems, PushLineItem, SaveVendLine, AllPushed, MarkAsSent,
     SetFulfilmentPending, PurchaseOrderFails, SetErrorSending, ReceiveStep, FindReport,
     FindItems, FlagReceived, SetSubmitting, ReceiveLineItem, NoSuchLine, SaveVendDeleted,
     AllReceived, MarkAsReceived, ReceiveFails, SetComplete, SetReceivingFailure
<1> QED
  BY <1>1 DEF PurchaseOrderUnanswered, ReceiveUnanswered, TypeOK

LEMMA OrderNext == TypeOK /\ OrderInv /\ [Next]_vars => OrderInv'
<1> SUFFICES ASSUME TypeOK, OrderInv, [Next]_vars, ~mixed'.overlap PROVE OrderInv'
  BY DEF OrderInv
<1>1. TypeOK'
  BY NextType
<1>2. CASE UNCHANGED vars
  <2>1. OrderInv' <=> OrderInv
    BY <1>2 DEF vars, OrderInv, OneActor, Sending, Working, Running, SessionInv, SessionOrders,
       JobInv, StateOf, JobOrders, Untouched, OwnOf, PlannedLines, PushedBy, PlannedBy, Linked,
       Done, DataInv, MayBeOrdered, SentIsTheOrders, LinesAreOrdered, LinesAgree, SentIsLinked,
       CompleteIsDone
  <2> QED
    BY <2>1
<1>3. ASSUME NEW s \in Sessions, SessionCall(s) \/ SessionStep(s) PROVE OrderInv'
  BY <1>1, <1>3, SessionStepKeeps
<1>4. ASSUME NEW j \in Jobs, WorkerStep(j) PROVE OrderInv'
  <2>1. OneActor /\ JobInv(j) /\ DataInv
    BY <1>4, WorkersKeepOverlap DEF OrderInv
  <2> QED
    BY <1>1, <1>4, <2>1, GenerateKeeps, PurchaseOrderKeeps, ReceiptKeeps DEF WorkerStep
<1> QED
  BY <1>2, <1>3, <1>4 DEF Next

LEMMA OrderInit == Init => OrderInv
<1> SUFFICES ASSUME Init PROVE OrderInv
  OBVIOUS
<1>1. \A j \in Jobs : job[j].pc = "free"
  BY DEF Init, NewJob
<1>2. OneActor
  BY <1>1 DEF Init, OneActor, Sending, Working, Running
<1>3. \A s \in Sessions : SessionInv(s)
  BY DEF Init, SessionInv, Sending, SessionOrders
<1>4. \A j \in Jobs : JobInv(j)
  BY <1>1 DEF JobInv, StateOf, Working, Running, JobOrders, OrderingPcs, GenPcs, PoPcs, OwnOf,
     PlannedLines, PushedBy, PlannedBy
<1>5. DataInv
  BY DEF Init, NewItem, DataInv, Untouched, SentIsTheOrders, LinesAreOrdered, LinesAgree,
     SentIsLinked, CompleteIsDone
<1> QED
  BY <1>2, <1>3, <1>4, <1>5 DEF OrderInv

LEMMA OrderInvariant == Spec => [](TypeOK /\ OrderInv)
  BY OrderInit, OrderNext, TypeCorrect, PTL DEF Spec

\* The supplier gets one purchase order, through retries after an error, crashes and
\* states put back by stale pages, unless Vend's answer was lost or requests overlap.
THEOREM OrdersAreSentOnce == Spec => []OnePurchaseOrder
<1>1. OrderInv => OnePurchaseOrder
  BY DEF OrderInv, DataInv, SentIsTheOrders, OnePurchaseOrder
<1> QED
  BY <1>1, OrderInvariant, PTL

\* Whenever a worker dies or fails between creating a consignment, saving its id and
\* marking it as sent, and however often the order is sent again: what Vend has as sent
\* or received is the consignment the order names.
THEOREM SentOrdersAreKnown == Spec => []SentOrderIsKnown
<1>1. OrderInv => SentOrderIsKnown
  BY DEF OrderInv, DataInv, SentIsTheOrders, SentOrderIsKnown
<1> QED
  BY <1>1, OrderInvariant, PTL

\* An order that waits for fulfilment has a line in its own consignment, which Vend
\* was told is sent, for every approved item.
THEOREM SentOrdersHaveTheirLines == Spec => []SentOrderHasItsLines
<1>1. OrderInv => SentOrderHasItsLines
  BY DEF OrderInv, DataInv, SentIsLinked, Linked, SentOrderHasItsLines
<1> QED
  BY <1>1, OrderInvariant, PTL

\* The order and Vend agree on what was received once a receipt completes the order.
THEOREM CompleteOrdersAgreeWithVend == Spec => []CompleteOrderAgreesWithVend
<1>1. TypeOK /\ OrderInv => CompleteOrderAgreesWithVend
  <2> SUFFICES ASSUME TypeOK, OrderInv, report.state = "COMPLETE", ~mixed.overlap, ~mixed.lateEdit
               PROVE  /\ report.vendConsignmentId # None
                      /\ vend[report.vendConsignmentId].status = "received"
                      /\ \A i \in Items : item[i].receivedQuantity =>
                           item[i].line # None /\ i \in vend[item[i].line].counted
                      /\ \A i \in Items, c \in Consignments :
                           /\ i \in vend[c].counted => item[i].receivedQuantity
                           /\ item[i].line = c /\ ~item[i].receivedQuantity =>
                                i \notin vend[c].lines
    BY DEF CompleteOrderAgreesWithVend
  <2>1. CompleteIsDone /\ LinesAgree
    BY DEF OrderInv, DataInv
  <2>2. ASSUME NEW i \in Items, NEW c \in Consignments
        PROVE  /\ i \in vend[c].counted => item[i].receivedQuantity
               /\ item[i].line = c /\ ~item[i].receivedQuantity => i \notin vend[c].lines
    BY <2>1, ConstantsAssumption DEF CompleteIsDone, Done, LinesAgree
  <2> QED
    BY <2>1, <2>2 DEF CompleteIsDone, Done
<1> QED
  BY <1>1, OrderInvariant, PTL
=============================================================================

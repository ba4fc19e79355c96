------------------------------ MODULE VendOrder ------------------------------
(***************************************************************************)
(* The life of one Vend stock order, from its generation to its receipt.   *)
(*                                                                         *)
(* Four kinds of actors act on it at once:                                 *)
(*   - sessions of the admin UI, which show a page of the order and call   *)
(*     the API; every call is split where the handler awaits the database  *)
(*     or the queue, so that what it read may be stale when it writes;     *)
(*   - the work queue: a message is delivered once and goes to the dead    *)
(*     letter queue when its worker dies (maxReceiveCount 1);              *)
(*   - the workers, one process per message, which write the order, its    *)
(*     line items and Vend one call at a time;                             *)
(*   - Vend, whose answers may fail or be lost after the call took effect. *)
(*                                                                         *)
(* A line item's quantities are abstracted to "is it positive?", which is  *)
(* all that the handlers below test.                                       *)
(***************************************************************************)
EXTENDS Naturals, FiniteSets, ReportStates

CONSTANTS
  Items,         \* the products the generated order has rows for
  Sessions,      \* concurrent sessions of the admin UI
  Jobs,          \* queue messages, each with the worker process it starts
  Consignments,  \* ids that Vend may hand out
  None,          \* no consignment, no item
  Pages,         \* the order pages the sessions visit
  DefaultStates, \* values of supplier.reportDefaultState to start from
  MaxFaults      \* bound on failed calls, lost answers and crashes

AllPages == {"generated", "fulfill", "receive"}
Ops == {"generate", "purchase", "receive"}

ASSUME ConstantsAssumption ==
  /\ None \notin Items \union Consignments
  /\ Pages \subseteq AllPages
  /\ DefaultStates \subseteq REPORT_STATES \union {"unset"}
  /\ MaxFaults \in Nat

VARIABLES
  report,   \* the ReportModel: its state and vendConsignmentId
  supplier, \* supplier.reportDefaultState
  item,     \* the StockOrderLineitemModels of the report
  vend,     \* the consignments in Vend
  session,  \* the page each session shows and the call it is in
  job,      \* the queue messages and their workers
  faults,   \* calls failed, answers lost and processes crashed so far
  unsent,   \* operations whose message the queue refused
  mixed     \* history: what ran at the same time (see Overlap, LateEdit)

vars == <<report, supplier, item, vend, session, job, faults, unsent, mixed>>

-----------------------------------------------------------------------------
(* Types *)

GenPcs == {"gen_rows", "gen_state"}
PoPcs  == {"po_create", "po_save", "po_lines", "po_push", "po_link",
           "po_mark", "po_state", "po_error"}
RcPcs  == {"rc_read", "rc_lines", "rc_flag", "rc_state", "rc_items",
           "rc_unlink", "rc_mark", "rc_settle", "rc_error"}
JobPcs == {"free", "queued", "gen_fulfil", "done", "gave_up", "dead"}
            \union GenPcs \union PoPcs \union RcPcs
SessionPcs == {"idle", "put", "po_write", "send", "del_state", "del_items"}

Report == [state             : REPORT_STATES \union {"absent"},
           vendConsignmentId : Consignments \union {None}]

Session == [page : Pages \union {"none"}, pc : SessionPcs, op : Ops]

Consignment == [status  : {"absent", "open", "sent", "received"},
                lines   : SUBSET Items,   \* the products it orders
                counted : SUBSET Items]   \* those with a received quantity

Item == [approved         : {"absent", "null", "true", "false"},
         fulfilled        : {"null", "true", "false"},
         fulfilledQuantity: BOOLEAN,      \* is it positive?
         received         : BOOLEAN,
         receivedQuantity : BOOLEAN,      \* is it positive?
         line             : Consignments \union {None}, \* vendConsignmentProductId
         vendDeletedAt    : BOOLEAN]

\* What the receive worker is to do to a line item, and to which line in Vend.
Plan == [act  : {"skip", "update", "delete"},
         line : Consignments \union {None}]

Job == [op   : Ops,
        pc   : JobPcs,
        own  : Consignments \union {None}, \* vendConsignmentId as the worker holds it
        todo : SUBSET Items,               \* line items still to push
        cur  : Items \union {None},        \* line item whose answer is to be saved
        plan : [Items -> Plan]]            \* what the worker will do to the items it read

NewItem == [approved |-> "absent", fulfilled |-> "null", fulfilledQuantity |-> FALSE,
            received |-> FALSE, receivedQuantity |-> FALSE, line |-> None,
            vendDeletedAt |-> FALSE]
NoPlan == [act |-> "skip", line |-> None]
NewJob(op, pc) == [op |-> op, pc |-> pc, own |-> None, todo |-> {}, cur |-> None,
                   plan |-> [i \in Items |-> NoPlan]]

TypeOK ==
  /\ report \in Report
  /\ supplier \in DefaultStates
  /\ item \in [Items -> Item]
  /\ vend \in [Consignments -> Consignment]
  /\ session \in [Sessions -> Session]
  /\ job \in [Jobs -> Job]
  /\ faults \in 0 .. MaxFaults
  /\ unsent \subseteq Ops
  /\ mixed \in [overlap : BOOLEAN, lateEdit : BOOLEAN, lostReply : BOOLEAN]

Init ==
  /\ report = [state |-> "absent", vendConsignmentId |-> None]
  /\ supplier \in DefaultStates
  /\ item = [i \in Items |-> NewItem]
  /\ vend = [c \in Consignments |-> [status |-> "absent", lines |-> {}, counted |-> {}]]
  /\ session = [s \in Sessions |-> [page |-> "none", pc |-> "idle", op |-> "generate"]]
  /\ job = [j \in Jobs |-> NewJob("generate", "free")]
  /\ faults = 0
  /\ unsent = {}
  /\ mixed = [overlap |-> FALSE, lateEdit |-> FALSE, lostReply |-> FALSE]

-----------------------------------------------------------------------------
(* Helpers *)

SetState(st) == report' = [report EXCEPT !.state = st]
Goto(j, pc) == job' = [job EXCEPT ![j].pc = pc]
Finish(j, pc) == job' = [job EXCEPT ![j] = NewJob(job[j].op, pc)]
Return(s) == session' = [session EXCEPT ![s].pc = "idle"]
Fault == faults < MaxFaults /\ faults' = faults + 1

\* The supplier's orders are received as soon as they are generated.
ReceivesAtOnce(j) == job[j].op = "generate" /\ supplier = "COMPLETE"

Running(j) == job[j].pc \notin {"free", "queued", "done", "gave_up", "dead"}

\* Some request has been accepted and its worker has not ended yet.
Active == \/ \E s \in Sessions : session[s].pc = "send"
          \/ \E j \in Jobs : job[j].pc = "queued" \/ Running(j)

\* Bound of the model: a call that ends in a message starts only while a message
\* is left for it.
MessageLeft == Cardinality({s \in Sessions : session[s].pc \in {"po_write", "send"}})
                 < Cardinality({j \in Jobs : job[j].pc = "free"})

\* The page lets its user edit the order when it is loaded in one of these states.
Editable(p) ==
  CASE p = "generated" -> {"GENERATED", "APPROVAL_IN_PROCESS",
                           "ERROR_SENDING_TO_SUPPLIER", "PROCESSING_FAILURE"}
    [] p = "fulfill"   -> {"FULFILMENT_PENDING", "FULFILMENT_IN_PROCESS",
                           "FULFILMENT_FAILURE"}
    [] p = "receive"   -> {"RECEIVING_PENDING", "RECEIVING_IN_PROCESS",
                           "RECEIVING_FAILURE"}
    [] OTHER           -> {}

\* The state in which loading the page changes the order, and the state it puts.
Fresh(p) == CASE p = "generated" -> "GENERATED"
              [] p = "fulfill"   -> "FULFILMENT_PENDING"
              [] OTHER           -> "RECEIVING_PENDING"
Opened(p) == CASE p = "generated" -> "APPROVAL_IN_PROCESS"
               [] p = "fulfill"   -> "FULFILMENT_IN_PROCESS"
               [] OTHER           -> "RECEIVING_IN_PROCESS"

\* Mutant: an order that already has a purchase order is not refused.
MayCreatePurchaseOrderAgain == report.state \in {"APPROVAL_IN_PROCESS", "ERROR_SENDING_TO_SUPPLIER"}

\* createPurchaseOrderVend goes on: no purchase order yet, or a failed one.
MayCreatePurchaseOrder ==
  /\ report.vendConsignmentId = None \/ report.state = "ERROR_SENDING_TO_SUPPLIER"
  /\ report.state \in {"APPROVAL_IN_PROCESS", "ERROR_SENDING_TO_SUPPLIER"}

-----------------------------------------------------------------------------
(* Sessions: pages, line item edits and API calls *)

\* generateStockOrderVend: the report is created, then the message is sent.
CallGenerate(s) ==
  /\ MessageLeft
  /\ report.state = "absent"
  /\ session[s].pc = "idle"
  /\ SetState("PROCESSING")
  /\ session' = [session EXCEPT ![s].pc = "send", ![s].op = "generate"]
  /\ UNCHANGED <<supplier, item, vend, job, faults, unsent, mixed>>

\* A page is loaded; from the fresh state it also starts a PUT of the opened state.
OpenPage(s, p) ==
  /\ session[s].pc = "idle"
  /\ report.state \in Editable(p)
  /\ session' = [session EXCEPT
       ![s].page = p,
       ![s].pc = IF report.state = Fresh(p) THEN "put" ELSE "idle"]
  /\ UNCHANGED <<report, supplier, item, vend, job, faults, unsent, mixed>>

\* The PUT arrives, whatever state the order is in by then.
PutOpenedState(s) ==
  /\ session[s].pc = "put"
  /\ SetState(Opened(session[s].page))
  /\ Return(s)
  /\ UNCHANGED <<supplier, item, vend, job, faults, unsent, mixed>>

\* updateAllStockOrderLineItemModels, as each page calls it on one line item.
EditItem(s, i) ==
  /\ session[s].pc = "idle"
  /\ item[i].approved # "absent"
  /\ \/ /\ session[s].page = "generated"
        /\ \E a \in {"true", "false", "null"} : item' = [item EXCEPT ![i].approved = a]
     \/ /\ session[s].page = "fulfill"
        /\ item[i].approved = "true"
        /\ \/ item' = [item EXCEPT ![i].fulfilled = "true", ![i].fulfilledQuantity = TRUE]
           \/ \E f \in {"false", "null"} :
                item' = [item EXCEPT ![i].fulfilled = f, ![i].fulfilledQuantity = FALSE]
     \/ /\ session[s].page = "receive"
        /\ item[i].fulfilled = "true"
        /\ \E b \in BOOLEAN :
             item' = [item EXCEPT ![i].received = b, ![i].receivedQuantity = b]
  /\ mixed' = [mixed EXCEPT !.lateEdit = @ \/ Active
                              \/ report.state \notin Editable(session[s].page)]
  /\ UNCHANGED <<report, supplier, vend, session, job, faults, unsent>>

\* createPurchaseOrderVend: the page refuses unreviewed items, the handler reads
\* the report and checks it ...
CallCreatePurchaseOrder(s) ==
  /\ MessageLeft
  /\ session[s].pc = "idle" /\ session[s].page = "generated"
  /\ \A i \in Items : item[i].approved # "null"
  /\ \E i \in Items : item[i].approved = "true"
  /\ MayCreatePurchaseOrder
  /\ session' = [session EXCEPT ![s].pc = "po_write"]
  /\ UNCHANGED <<report, supplier, item, vend, job, faults, unsent, mixed>>

\* ... then writes the state, without looking again, and sends the message.
WriteSendingToSupplier(s) ==
  /\ session[s].pc = "po_write"
  /\ SetState("SENDING_TO_SUPPLIER")
  /\ session' = [session EXCEPT ![s].pc = "send", ![s].op = "purchase"]
  /\ mixed' = [mixed EXCEPT !.overlap = @ \/ Active \/ ~MayCreatePurchaseOrder]
  /\ UNCHANGED <<supplier, item, vend, job, faults, unsent>>

\* sendConsignmentDelivery: count the fulfilled items, ...
CallSendDelivery(s) ==
  /\ session[s].pc = "idle" /\ session[s].page = "fulfill"
  /\ \E i \in Items : item[i].fulfilledQuantity
  /\ session' = [session EXCEPT ![s].pc = "del_state"]
  /\ UNCHANGED <<report, supplier, item, vend, job, faults, unsent, mixed>>

\* ... write the state, ...
WriteReceivingPending(s) ==
  /\ session[s].pc = "del_state"
  /\ SetState("RECEIVING_PENDING")
  /\ session' = [session EXCEPT ![s].pc = "del_items"]
  /\ mixed' = [mixed EXCEPT !.overlap = @ \/ Active]
  /\ UNCHANGED <<supplier, item, vend, job, faults, unsent>>

\* ... flag the items.
FlagFulfilled(s) ==
  /\ session[s].pc = "del_items"
  /\ item' = [i \in Items |->
       IF item[i].fulfilledQuantity THEN [item[i] EXCEPT !.fulfilled = "true"] ELSE item[i]]
  /\ Return(s)
  /\ UNCHANGED <<report, supplier, vend, job, faults, unsent, mixed>>

\* receiveConsignment: the state is written whatever it was, then the message is sent.
CallReceiveConsignment(s) ==
  /\ MessageLeft
  /\ session[s].pc = "idle" /\ session[s].page = "receive"
  /\ \E i \in Items : item[i].received
  /\ SetState("SUBMITTING_RECEIVALS")
  /\ session' = [session EXCEPT ![s].pc = "send", ![s].op = "receive"]
  /\ mixed' = [mixed EXCEPT !.overlap = @ \/ Active
                              \/ report.state \notin Editable("receive")]
  /\ UNCHANGED <<supplier, item, vend, job, faults, unsent>>

\* sendPayLoad: the message is queued, or the call fails and the caller is told so.
SendPayLoad(s) ==
  /\ session[s].pc = "send"
  /\ \E j \in Jobs :
       /\ job[j].pc = "free"
       /\ job' = [job EXCEPT ![j] = NewJob(session[s].op, "queued")]
  /\ Return(s)
  /\ UNCHANGED <<report, supplier, item, vend, faults, unsent, mixed>>

SendPayLoadFails(s) ==
  /\ session[s].pc = "send"
  /\ Fault
  /\ unsent' = unsent \union {session[s].op}
  /\ Return(s)
  /\ UNCHANGED <<report, supplier, item, vend, job, mixed>>

-----------------------------------------------------------------------------
(* The queue *)

\* receiveMessage and routeToWorker.
ReceiveMessage(j) ==
  /\ job[j].pc = "queued"
  /\ Goto(j, CASE job[j].op = "generate" -> "gen_rows"
               [] job[j].op = "purchase" -> "po_create"
               [] OTHER                  -> "rc_read")
  /\ UNCHANGED <<report, supplier, item, vend, session, faults, unsent, mixed>>

\* The process dies; its message was received once and moves to the dead letter queue.
Crash(j) ==
  /\ Running(j)
  /\ Fault
  /\ Finish(j, "dead")
  /\ UNCHANGED <<report, supplier, item, vend, session, unsent, mixed>>

\* The worker ends without the write its message was for: no database, or the
\* write itself failed.  The message is deleted all the same.  An inline purchase
\* order worker that ends so still hands over to the receive worker.
GiveUp(j) ==
  /\ job[j].pc \in {"gen_rows", "gen_state", "gen_fulfil", "po_create", "po_state",
                    "po_error", "rc_read", "rc_settle", "rc_error"}
  /\ Fault
  /\ Finish(j, IF job[j].pc \in PoPcs /\ ReceivesAtOnce(j) THEN "gen_fulfil" ELSE "gave_up")
  /\ UNCHANGED <<report, supplier, item, vend, session, unsent, mixed>>

-----------------------------------------------------------------------------
(* generate-stock-order-vend.js *)

\* The rows are computed and inserted, approved, fulfilled and received as the
\* supplier's default state says.
GenerateRows(j) ==
  /\ job[j].pc = "gen_rows"
  /\ item' = [i \in Items |->
       [NewItem EXCEPT
          !.approved = IF supplier \in approvedStates THEN "true" ELSE "null",
          !.fulfilled = IF supplier \in fulfilledStates THEN "true" ELSE "null",
          !.fulfilledQuantity = supplier \in fulfilledStates,
          !.received = supplier \in receivedStates,
          !.receivedQuantity = supplier \in receivedStates]]
  /\ Goto(j, "gen_state")
  /\ UNCHANGED <<report, supplier, vend, session, faults, unsent, mixed>>

\* Mutant: the failure is only logged.
GenerateFailsSilently(j) ==
  /\ job[j].pc = "gen_rows"
  /\ Fault
  /\ Finish(j, "done")
  /\ UNCHANGED <<report, supplier, item, vend, session, unsent, mixed>>

\* Products, inventory or rows failed: the order is marked and the worker ends.
GenerateFails(j) ==
  /\ job[j].pc = "gen_rows"
  /\ Fault
  /\ SetState("PROCESSING_FAILURE")
  /\ Finish(j, "done")
  /\ UNCHANGED <<supplier, item, vend, session, unsent, mixed>>

\* The order takes the default state, or the purchase order worker is run inline.
SetDefaultState(j) ==
  /\ job[j].pc = "gen_state"
  /\ IF supplier \in {"unset"} \union notApprovedStates \union notReceivedStates
     THEN /\ SetState(IF supplier = "unset" THEN "GENERATED" ELSE supplier)
          /\ Finish(j, "done")
     ELSE /\ Goto(j, "po_create")
          /\ UNCHANGED report
  /\ UNCHANGED <<supplier, item, vend, session, faults, unsent, mixed>>

\* fulfillAndReceiveConsignment: FULFILMENT_PENDING, if it is still so, becomes
\* RECEIVING_PENDING; the receive worker is run inline in any case.
FulfillAndReceive(j) ==
  /\ job[j].pc = "gen_fulfil"
  /\ IF report.state = "FULFILMENT_PENDING" THEN SetState("RECEIVING_PENDING")
                                            ELSE UNCHANGED report
  /\ Goto(j, "rc_read")
  /\ UNCHANGED <<supplier, item, vend, session, faults, unsent, mixed>>

-----------------------------------------------------------------------------
(* generate-purchase-order-vend.js *)

NewConsignment(c) ==
  /\ vend[c].status = "absent"
  /\ vend' = [vend EXCEPT ![c].status = "open"]

\* After the purchase order: a COMPLETE default order is received at once, also
\* when its purchase order failed.
EndPurchaseOrder(j) ==
  Finish(j, IF ReceivesAtOnce(j) THEN "gen_fulfil" ELSE "done")

CreateStockOrder(j) ==
  /\ job[j].pc = "po_create"
  /\ \E c \in Consignments :
       /\ NewConsignment(c)
       /\ job' = [job EXCEPT ![j].own = c, ![j].pc = "po_save"]
  /\ UNCHANGED <<report, supplier, item, session, faults, unsent, mixed>>

\* Mutant: the id is left to the write that ends the worker.
SaveConsignmentLater(j) ==
  /\ job[j].pc = "po_save"
  /\ Goto(j, "po_lines")
  /\ UNCHANGED <<report, supplier, item, vend, session, faults, unsent, mixed>>

SaveConsignment(j) ==
  /\ job[j].pc = "po_save"
  /\ report' = [report EXCEPT !.vendConsignmentId = job[j].own]
  /\ Goto(j, "po_lines")
  /\ UNCHANGED <<supplier, item, vend, session, faults, unsent, mixed>>

FindApprovedItems(j) ==
  /\ job[j].pc = "po_lines"
  /\ job' = [job EXCEPT ![j].todo = {i \in Items : item[i].approved = "true"},
                        ![j].pc = "po_push"]
  /\ UNCHANGED <<report, supplier, item, vend, session, faults, unsent, mixed>>

\* createStockOrderLineitemForVend, and then vendConsignmentProductId is saved.
PushLineItem(j) ==
  /\ job[j].pc = "po_push"
  /\ \E i \in job[j].todo :
       /\ vend' = [vend EXCEPT ![job[j].own].lines = @ \union {i}]
       /\ job' = [job EXCEPT ![j].cur = i, ![j].pc = "po_link"]
  /\ UNCHANGED <<report, supplier, item, session, faults, unsent, mixed>>

\* Mutant: a line item that has a line keeps it when the order is sent again.
SaveVendLineOnce(j) ==
  /\ job[j].pc = "po_link"
  /\ item' = [item EXCEPT ![job[j].cur].line = IF @ = None THEN job[j].own ELSE @]
  /\ job' = [job EXCEPT ![j].todo = @ \ {job[j].cur}, ![j].cur = None, ![j].pc = "po_push"]
  /\ UNCHANGED <<report, supplier, vend, session, faults, unsent, mixed>>

SaveVendLine(j) ==
  /\ job[j].pc = "po_link"
  /\ item' = [item EXCEPT ![job[j].cur].line = job[j].own]
  /\ job' = [job EXCEPT ![j].todo = @ \ {job[j].cur}, ![j].cur = None, ![j].pc = "po_push"]
  /\ UNCHANGED <<report, supplier, vend, session, faults, unsent, mixed>>

AllPushed(j) ==
  /\ job[j].pc = "po_push" /\ job[j].todo = {}
  /\ Goto(j, "po_mark")
  /\ UNCHANGED <<report, supplier, item, vend, session, faults, unsent, mixed>>

\* Vend does not take a received consignment back to sent.
MarkAsSent(j) ==
  /\ job[j].pc = "po_mark"
  /\ IF vend[job[j].own].status = "received"
     THEN Goto(j, "po_error") /\ UNCHANGED vend
     ELSE /\ vend' = [vend EXCEPT ![job[j].own].status = "sent"]
          /\ Goto(j, "po_state")
  /\ UNCHANGED <<report, supplier, item, session, faults, unsent, mixed>>

\* Mutant: a state that REPORT_STATES does not know.
SetFulfillmentPending(j) ==
  /\ job[j].pc = "po_state"
  /\ report' = [state |-> "FULFILLMENT_PENDING", vendConsignmentId |-> job[j].own]
  /\ EndPurchaseOrder(j)
  /\ UNCHANGED <<supplier, item, vend, session, faults, unsent, mixed>>

\* The order is with the supplier, under the consignment this worker created.
SetFulfilmentPending(j) ==
  /\ job[j].pc = "po_state"
  /\ report' = [state |-> "FULFILMENT_PENDING", vendConsignmentId |-> job[j].own]
  /\ EndPurchaseOrder(j)
  /\ UNCHANGED <<supplier, item, vend, session, faults, unsent, mixed>>

\* A call up to markStockOrderAsSent failed without effect ...
PurchaseOrderFails(j) ==
  /\ job[j].pc \in {"po_create", "po_save", "po_lines", "po_push", "po_link", "po_mark"}
  /\ Fault
  /\ Goto(j, "po_error")
  /\ UNCHANGED <<report, supplier, item, vend, session, unsent, mixed>>

\* ... or took effect in Vend and its answer was lost: the create call is then
\* either retried (502, 503, 504) or given up.
PurchaseOrderUnanswered(j) ==
  /\ \/ /\ job[j].pc = "po_create"
        /\ \E c \in Consignments : NewConsignment(c)
        /\ \E pc \in {"po_create", "po_error"} : Goto(j, pc)
     \/ /\ job[j].pc = "po_push"
        /\ \E i \in job[j].todo :
             vend' = [vend EXCEPT ![job[j].own].lines = @ \union {i}]
        /\ Goto(j, "po_error")
     \/ /\ job[j].pc = "po_mark"
        /\ vend[job[j].own].status # "received"
        /\ vend' = [vend EXCEPT ![job[j].own].status = "sent"]
        /\ Goto(j, "po_error")
  /\ Fault
  /\ mixed' = [mixed EXCEPT !.lostReply = TRUE]
  /\ UNCHANGED <<report, supplier, item, session, unsent>>

\* Mutant: the error is written only for an order that has a consignment.
SetErrorSendingIfCreated(j) ==
  /\ job[j].pc = "po_error"
  /\ IF report.vendConsignmentId = None THEN UNCHANGED report
                                        ELSE SetState("ERROR_SENDING_TO_SUPPLIER")
  /\ EndPurchaseOrder(j)
  /\ UNCHANGED <<supplier, item, vend, session, faults, unsent, mixed>>

SetErrorSending(j) ==
  /\ job[j].pc = "po_error"
  /\ SetState("ERROR_SENDING_TO_SUPPLIER")
  /\ EndPurchaseOrder(j)
  /\ UNCHANGED <<supplier, item, vend, session, faults, unsent, mixed>>

-----------------------------------------------------------------------------
(* receive-consignment-vend.js *)

FindReport(j) ==
  /\ job[j].pc = "rc_read"
  /\ job' = [job EXCEPT ![j].own = report.vendConsignmentId, ![j].pc = "rc_lines"]
  /\ UNCHANGED <<report, supplier, item, vend, session, faults, unsent, mixed>>

\* Mutant: unreceived items are left in the consignment.
PlanForReceived(i) ==
  IF item[i].receivedQuantity THEN [act |-> "update", line |-> item[i].line] ELSE NoPlan

\* The line items are read once: a received one is to be updated in Vend, an
\* unreceived one that Vend has a line for is to be deleted there.
PlanFor(i) ==
  IF item[i].receivedQuantity THEN [act |-> "update", line |-> item[i].line]
  ELSE IF item[i].line # None /\ ~item[i].vendDeletedAt
       THEN [act |-> "delete", line |-> item[i].line] ELSE NoPlan

FindItems(j) ==
  /\ job[j].pc = "rc_lines"
  /\ job' = [job EXCEPT ![j].pc = "rc_flag",
                        ![j].plan = [i \in Items |-> PlanFor(i)],
                        ![j].todo = {i \in Items : PlanFor(i).act # "skip"}]
  /\ UNCHANGED <<report, supplier, item, vend, session, faults, unsent, mixed>>

FlagReceived(j) ==
  /\ job[j].pc = "rc_flag"
  /\ item' = [i \in Items |->
       IF item[i].receivedQuantity THEN [item[i] EXCEPT !.received = TRUE] ELSE item[i]]
  /\ Goto(j, "rc_state")
  /\ UNCHANGED <<report, supplier, vend, session, faults, unsent, mixed>>

SetSubmitting(j) ==
  /\ job[j].pc = "rc_state"
  /\ SetState("SUBMITTING_RECEIVALS")
  /\ Goto(j, "rc_items")
  /\ UNCHANGED <<supplier, item, vend, session, faults, unsent, mixed>>

LineExists(j, i) == LET c == job[j].plan[i].line
                    IN  c # None /\ i \in vend[c].lines

\* updateStockOrderLineitemForVend and deleteStockOrderLineitemForVend in Vend.
CallVend(j, i) ==
  LET c == job[j].plan[i].line
  IN  vend' = IF job[j].plan[i].act = "update"
              THEN [vend EXCEPT ![c].counted = @ \union {i}]
              ELSE [vend EXCEPT ![c].lines = @ \ {i}, ![c].counted = @ \ {i}]

\* One line item; the deletion in Vend is saved before the next one.
ReceiveLineItem(j) ==
  /\ job[j].pc = "rc_items"
  /\ \E i \in job[j].todo :
       /\ LineExists(j, i)
       /\ CallVend(j, i)
       /\ job' = IF job[j].plan[i].act = "update"
                 THEN [job EXCEPT ![j].todo = @ \ {i}]
                 ELSE [job EXCEPT ![j].cur = i, ![j].pc = "rc_unlink"]
  /\ UNCHANGED <<report, supplier, item, session, faults, unsent, mixed>>

\* Mutant: the worker returns where it should fail.
NoSuchLineIgnored(j) ==
  /\ job[j].pc = "rc_items"
  /\ \E i \in job[j].todo : ~LineExists(j, i)
  /\ Finish(j, "done")
  /\ UNCHANGED <<report, supplier, item, vend, session, faults, unsent, mixed>>

\* The item to update or to delete has no line in Vend: the worker fails.
NoSuchLine(j) ==
  /\ job[j].pc = "rc_items"
  /\ \E i \in job[j].todo : ~LineExists(j, i)
  /\ Goto(j, "rc_error")
  /\ UNCHANGED <<report, supplier, item, vend, session, faults, unsent, mixed>>

SaveVendDeleted(j) ==
  /\ job[j].pc = "rc_unlink"
  /\ item' = [item EXCEPT ![job[j].cur].vendDeletedAt = TRUE]
  /\ job' = [job EXCEPT ![j].todo = @ \ {job[j].cur}, ![j].cur = None, ![j].pc = "rc_items"]
  /\ UNCHANGED <<report, supplier, vend, session, faults, unsent, mixed>>

\* Mutant: the worker does not wait for its calls to Vend.
AllReceivedAtOnce(j) ==
  /\ job[j].pc = "rc_items"
  /\ Goto(j, "rc_mark")
  /\ UNCHANGED <<report, supplier, item, vend, session, faults, unsent, mixed>>

AllReceived(j) ==
  /\ job[j].pc = "rc_items" /\ job[j].todo = {}
  /\ Goto(j, "rc_mark")
  /\ UNCHANGED <<report, supplier, item, vend, session, faults, unsent, mixed>>

\* Mutant: an order without a consignment has nothing to mark.
MarkAsReceivedIfAny(j) ==
  /\ job[j].pc = "rc_mark"
  /\ vend' = IF job[j].own = None THEN vend
             ELSE [vend EXCEPT ![job[j].own].status = "received"]
  /\ Goto(j, "rc_settle")
  /\ UNCHANGED <<report, supplier, item, session, faults, unsent, mixed>>

\* markStockOrderAsReceived fails for an order that never had a consignment.
MarkAsReceived(j) ==
  /\ job[j].pc = "rc_mark"
  /\ IF job[j].own = None
     THEN Goto(j, "rc_error") /\ UNCHANGED vend
     ELSE /\ vend' = [vend EXCEPT ![job[j].own].status = "received"]
          /\ Goto(j, "rc_settle")
  /\ UNCHANGED <<report, supplier, item, session, faults, unsent, mixed>>

\* Mutant: a failure is logged and the worker goes on.
ReceiveFailsAndSettles(j) ==
  /\ job[j].pc \in RcPcs \ {"rc_settle", "rc_error"}
  /\ Fault
  /\ Goto(j, "rc_settle")
  /\ UNCHANGED <<report, supplier, item, vend, session, unsent, mixed>>

ReceiveFails(j) ==
  /\ job[j].pc \in RcPcs \ {"rc_settle", "rc_error"}
  /\ Fault
  /\ Goto(j, "rc_error")
  /\ UNCHANGED <<report, supplier, item, vend, session, unsent, mixed>>

ReceiveUnanswered(j) ==
  /\ \/ /\ job[j].pc = "rc_items"
        /\ \E i \in job[j].todo :
             LineExists(j, i) /\ CallVend(j, i)
     \/ /\ job[j].pc = "rc_mark" /\ job[j].own # None
        /\ vend' = [vend EXCEPT ![job[j].own].status = "received"]
  /\ Fault
  /\ Goto(j, "rc_error")
  /\ mixed' = [mixed EXCEPT !.lostReply = TRUE]
  /\ UNCHANGED <<report, supplier, item, session, unsent>>

SetComplete(j) ==
  /\ job[j].pc = "rc_settle"
  /\ SetState("COMPLETE")
  /\ Finish(j, "done")
  /\ UNCHANGED <<supplier, item, vend, session, faults, unsent, mixed>>

SetReceivingFailure(j) ==
  /\ job[j].pc = "rc_error"
  /\ SetState("RECEIVING_FAILURE")
  /\ Finish(j, "done")
  /\ UNCHANGED <<supplier, item, vend, session, faults, unsent, mixed>>

-----------------------------------------------------------------------------
SessionCall(s) ==
  \/ CallGenerate(s) \/ CallCreatePurchaseOrder(s)
  \/ CallSendDelivery(s) \/ CallReceiveConsignment(s)
  \/ \E p \in Pages : OpenPage(s, p)
  \/ \E i \in Items : EditItem(s, i)

\* What a handler that has started still does.
SessionStep(s) ==
  \/ PutOpenedState(s) \/ WriteSendingToSupplier(s)
  \/ WriteReceivingPending(s) \/ FlagFulfilled(s)
  \/ SendPayLoad(s) \/ SendPayLoadFails(s)

GenerateStep(j) == GenerateRows(j) \/ GenerateFails(j) \/ SetDefaultState(j)
                     \/ FulfillAndReceive(j)

PurchaseStep(j) ==
  \/ CreateStockOrder(j) \/ SaveConsignment(j) \/ FindApprovedItems(j)
  \/ PushLineItem(j) \/ SaveVendLine(j) \/ AllPushed(j) \/ MarkAsSent(j)
  \/ SetFulfilmentPending(j) \/ PurchaseOrderFails(j)
  \/ PurchaseOrderUnanswered(j) \/ SetErrorSending(j)

ReceiveStep(j) ==
  \/ FindReport(j) \/ FindItems(j) \/ FlagReceived(j) \/ SetSubmitting(j)
  \/ ReceiveLineItem(j) \/ NoSuchLine(j) \/ SaveVendDeleted(j) \/ AllReceived(j)
  \/ MarkAsReceived(j) \/ ReceiveFails(j) \/ ReceiveUnanswered(j)
  \/ SetComplete(j) \/ SetReceivingFailure(j)

WorkerStep(j) == ReceiveMessage(j) \/ GiveUp(j) \/ Crash(j)
                   \/ GenerateStep(j) \/ PurchaseStep(j) \/ ReceiveStep(j)

Next == \/ \E s \in Sessions : SessionCall(s) \/ SessionStep(s)
        \/ \E j \in Jobs : WorkerStep(j)

Spec == Init /\ [][Next]_vars

\* A handler that has started and a worker that has a message run on: the event
\* loop, the queue and the worker daemon serve everyone.  Nobody has to call.
Fairness == /\ \A s \in Sessions : WF_vars(SessionStep(s))
            /\ \A j \in Jobs : WF_vars(WorkerStep(j))

FairSpec == Spec /\ Fairness
-----------------------------------------------------------------------------
(* Properties *)

\* Some accepted request of this kind was lost: the queue refused its message, its
\* worker died and left it in the dead letter queue, or its worker gave up.
Lost(op) == \/ op \in unsent
            \/ \E j \in Jobs : job[j].op = op /\ job[j].pc \in {"dead", "gave_up"}

\* A request of this kind is still to be served, by a handler that is to send its
\* message, by the queue, or by a worker in the given steps.
Pending(op, pcs) ==
  \/ \E s \in Sessions : session[s].pc = "send" /\ session[s].op = op
  \/ \E j \in Jobs : job[j].op = op /\ job[j].pc \in {"queued"} \union pcs

\* A generation has gone on to the receipt of its order.
ReceivedInline == \E j \in Jobs : job[j].op = "generate" /\ job[j].pc \in RcPcs

ProcessingIsServed ==
  report.state = "PROCESSING" /\ supplier # "PROCESSING" =>
    Pending("generate", GenPcs \union PoPcs \union RcPcs \union {"gen_fulfil"})
      \/ Lost("generate")

SendingIsServed ==
  report.state = "SENDING_TO_SUPPLIER" => Pending("purchase", PoPcs) \/ Lost("purchase")

SubmittingIsServed ==
  report.state = "SUBMITTING_RECEIVALS" =>
    \/ Pending("receive", RcPcs) \/ Lost("receive")
    \/ ReceivedInline \/ Lost("generate")

\* An order shown as being processed, sent or submitted is really being worked
\* upon; if it is not, a message or a worker of that very kind was lost.  The page
\* offers no way out of these states, so an order left in one for any other
\* reason (an early return, a handler that writes the state and sends nothing, a
\* worker that overwrites another's state) would hang for ever.
BusyIsServed == ProcessingIsServed /\ SendingIsServed /\ SubmittingIsServed

\* The supplier gets one purchase order: at most one consignment of the order is
\* ever marked as sent (or received) in Vend, through retries after an error,
\* crashes and states put back by stale pages, unless Vend's answer was lost or
\* two requests overlapped.
OnePurchaseOrder ==
  ~mixed.overlap /\ ~mixed.lostReply =>
    \A c, d \in Consignments :
      vend[c].status \in {"sent", "received"} /\ vend[d].status \in {"sent", "received"}
        => c = d

\* A consignment that Vend has as sent or received is the one the order names, at every
\* step: a worker that dies or fails after sending it, and a retry that makes another,
\* leave none behind that the receipt of the order would not find.  (Unless Vend's
\* answer was lost or two requests overlapped.)
SentOrderIsKnown ==
  ~mixed.overlap /\ ~mixed.lostReply =>
    \A c \in Consignments :
      vend[c].status \in {"sent", "received"} => c = report.vendConsignmentId

\* When the order waits for fulfilment, its consignment is sent in Vend and has a
\* line, known to the line item, for every approved item.
SentOrderHasItsLines ==
  report.state = "FULFILMENT_PENDING" /\ ~mixed.overlap /\ ~mixed.lateEdit =>
    LET c == report.vendConsignmentId
    IN  /\ c # None
        /\ vend[c].status \in {"sent", "received"}
        /\ \A i \in Items : item[i].approved = "true" =>
              item[i].line = c /\ i \in vend[c].lines

\* An order is never shown as complete before Vend was told that a consignment of
\* it was received, however many requests overlap and whatever fails.
CompleteIsReceived ==
  report.state = "COMPLETE" => \E c \in Consignments : vend[c].status = "received"

\* When a receipt completes the order, its consignment is received and Vend counts
\* exactly the items the order counts as received, each in the line the order has
\* for it; a line of an item that was not received is gone.  (The line may be one of
\* an earlier purchase order, which failed after pushing it: the receive worker
\* uses the line item's own vendConsignmentProductId.)
CompleteOrderAgreesWithVend ==
  report.state = "COMPLETE" /\ ~mixed.overlap /\ ~mixed.lateEdit =>
    /\ report.vendConsignmentId # None
    /\ vend[report.vendConsignmentId].status = "received"
    /\ \A i \in Items : item[i].receivedQuantity =>
         item[i].line # None /\ i \in vend[item[i].line].counted
    /\ \A i \in Items, c \in Consignments :
         /\ i \in vend[c].counted => item[i].receivedQuantity
         /\ item[i].line = c /\ ~item[i].receivedQuantity => i \notin vend[c].lines

\* An order that is being processed, sent or submitted leaves that state in the
\* end, unless a request of that kind was lost.
BusySettles ==
  /\ (report.state = "PROCESSING" /\ supplier # "PROCESSING")
        ~> (report.state # "PROCESSING" \/ Lost("generate"))
  /\ (report.state = "SENDING_TO_SUPPLIER")
        ~> (report.state # "SENDING_TO_SUPPLIER" \/ Lost("purchase"))
  /\ (report.state = "SUBMITTING_RECEIVALS")
        ~> (report.state # "SUBMITTING_RECEIVALS" \/ Lost("receive") \/ Lost("generate"))

\* What createPurchaseOrderVend refuses with "Purchase order creation in progress"
\* (report-model.js:678): a second purchase order while one is being created.
OneCreationInProgress ==
  \A j, k \in Jobs :
    /\ job[j].op = "purchase" /\ job[j].pc \in {"queued"} \union PoPcs
    /\ job[k].op = "purchase" /\ job[k].pc \in {"queued"} \union PoPcs
    => j = k
=============================================================================

-------------------------- MODULE VendOrderProofs --------------------------
(***************************************************************************)
(* What holds of VendOrder however its requests overlap, for every number  *)
(* of line items, sessions, messages, consignments and faults, and every   *)
(* set of default states: its types, that a busy order is served unless a  *)
(* request was lost, and that a complete order was received in Vend.       *)
(***************************************************************************)
EXTENDS VendOrder, TLAPS

-----------------------------------------------------------------------------
(* What the helpers leave well typed *)

LEMMA NewJobType ==
  ASSUME NEW op \in Ops, NEW pc \in JobPcs
  PROVE  NewJob(op, pc) \in Job
  BY DEF NewJob, Job, NoPlan, Plan

LEMMA SetStateType ==
  ASSUME TypeOK, NEW st \in REPORT_STATES, SetState(st)
  PROVE  report' \in Report
  BY DEF TypeOK, SetState, Report

LEMMA JobFieldType ==
  ASSUME TypeOK, NEW j \in Jobs
  PROVE  /\ job[j] \in Job
         /\ job[j].op \in Ops
         /\ job[j].pc \in JobPcs
         /\ job[j].own \in Consignments \union {None}
         /\ job[j].todo \subseteq Items
         /\ job[j].cur \in Items \union {None}
         /\ job[j].plan \in [Items -> Plan]
  BY DEF TypeOK, Job

\* Every step of a worker replaces its own job by another one.
LEMMA JobType ==
  ASSUME TypeOK, NEW j \in Jobs, NEW x \in Job, job' = [job EXCEPT ![j] = x]
  PROVE  job' \in [Jobs -> Job]
  BY DEF TypeOK

LEMMA GotoType ==
  ASSUME TypeOK, NEW j \in Jobs, NEW pc \in JobPcs, Goto(j, pc)
  PROVE  job' \in [Jobs -> Job]
<1>1. [job[j] EXCEPT !.pc = pc] \in Job
  BY JobFieldType DEF Job
<1> QED
  BY <1>1 DEF TypeOK, Goto

LEMMA FinishType ==
  ASSUME TypeOK, NEW j \in Jobs, NEW pc \in JobPcs, Finish(j, pc)
  PROVE  job' \in [Jobs -> Job]
  BY JobFieldType, NewJobType DEF TypeOK, Finish

LEMMA ReturnType ==
  ASSUME TypeOK, NEW s \in Sessions, Return(s)
  PROVE  session' \in [Sessions -> Session]
  BY DEF TypeOK, Return, Session, SessionPcs

LEMMA FaultType ==
  ASSUME TypeOK, Fault PROVE faults' \in 0 .. MaxFaults
  BY ConstantsAssumption DEF TypeOK, Fault

-----------------------------------------------------------------------------
(* Type correctness *)

LEMMA InitType == Init => TypeOK
<1> SUFFICES ASSUME Init PROVE TypeOK
  OBVIOUS
<1> USE ConstantsAssumption DEF Init
<1>1. report \in Report
  BY DEF Report
<1>2. item \in [Items -> Item]
  BY DEF NewItem, Item
<1>3. vend \in [Consignments -> Consignment]
  BY DEF Consignment
<1>4. session \in [Sessions -> Session]
  BY DEF SessionPcs, Ops, Session
<1>5. job \in [Jobs -> Job]
  BY NewJobType DEF Ops, JobPcs
<1> QED
  BY <1>1, <1>2, <1>3, <1>4, <1>5 DEF TypeOK

LEMMA SessionType == TypeOK /\ (\E s \in Sessions : SessionCall(s) \/ SessionStep(s)) => TypeOK'
<1> SUFFICES ASSUME TypeOK, NEW s \in Sessions, SessionCall(s) \/ SessionStep(s)
             PROVE  TypeOK'
  OBVIOUS
<1> USE DEF TypeOK
<1>0. /\ {"PROCESSING", "APPROVAL_IN_PROCESS", "FULFILMENT_IN_PROCESS", "RECEIVING_IN_PROCESS",
          "SENDING_TO_SUPPLIER", "RECEIVING_PENDING", "SUBMITTING_RECEIVALS"}
            \subseteq REPORT_STATES
      /\ {"idle", "put", "po_write", "send", "del_state", "del_items"} \subseteq SessionPcs
      /\ {"generate", "purchase", "receive"} \subseteq Ops
  BY DEF REPORT_STATES, SessionPcs, Ops
<1>1. CASE CallGenerate(s)
  <2>1. report' \in Report
    BY <1>0, <1>1, SetStateType DEF CallGenerate
  <2>2. session' \in [Sessions -> Session]
    BY <1>0, <1>1 DEF CallGenerate, Session
  <2> QED
    BY <1>1, <2>1, <2>2 DEF CallGenerate
<1>2. CASE CallCreatePurchaseOrder(s)
  BY <1>0, <1>2 DEF CallCreatePurchaseOrder, Session
<1>3. CASE CallSendDelivery(s)
  BY <1>0, <1>3 DEF CallSendDelivery, Session
<1>4. CASE CallReceiveConsignment(s)
  <2>1. report' \in Report
    BY <1>0, <1>4, SetStateType DEF CallReceiveConsignment
  <2>2. session' \in [Sessions -> Session]
    BY <1>0, <1>4 DEF CallReceiveConsignment, Session
  <2> QED
    BY <1>4, <2>1, <2>2 DEF CallReceiveConsignment
<1>5. ASSUME NEW p \in Pages, OpenPage(s, p) PROVE TypeOK'
  BY <1>0, <1>5 DEF OpenPage, Session
<1>6. ASSUME NEW i \in Items, EditItem(s, i) PROVE TypeOK'
  <2>1. item' \in [Items -> Item]
    <3>1. ASSUME NEW a \in {"true", "false", "null"}, item' = [item EXCEPT ![i].approved = a]
          PROVE  item' \in [Items -> Item]
      BY <3>1 DEF Item
    <3>2. ASSUME NEW f \in {"true", "false", "null"}, NEW q \in BOOLEAN,
                 item' = [item EXCEPT ![i].fulfilled = f, ![i].fulfilledQuantity = q]
          PROVE  item' \in [Items -> Item]
      <4>1. item[i] \in Item
        OBVIOUS
      <4>2. [item[i] EXCEPT !.fulfilled = f, !.fulfilledQuantity = q] \in Item
        BY <4>1 DEF Item
      <4> QED
        BY <3>2, <4>2
    <3>3. CASE item' = [item EXCEPT ![i].received = TRUE, ![i].receivedQuantity = TRUE]
      <4>1. item[i] \in Item
        OBVIOUS
      <4>2. [item[i] EXCEPT !.received = TRUE, !.receivedQuantity = TRUE] \in Item
        BY <4>1 DEF Item
      <4> QED
        BY <3>3, <4>2
    <3>4. CASE item' = [item EXCEPT ![i].received = FALSE, ![i].receivedQuantity = FALSE]
      <4>1. item[i] \in Item
        OBVIOUS
      <4>2. [item[i] EXCEPT !.received = FALSE, !.receivedQuantity = FALSE] \in Item
        BY <4>1 DEF Item
      <4> QED
        BY <3>4, <4>2
    <3> QED
      BY <1>6, <3>1, <3>2, <3>3, <3>4 DEF EditItem
  <2> QED
    BY <1>6, <2>1 DEF EditItem
<1>7. CASE PutOpenedState(s)
  <2>1. Opened(session[s].page) \in REPORT_STATES
    BY <1>0 DEF Opened
  <2> QED
    BY <1>7, <2>1, SetStateType, ReturnType DEF PutOpenedState
<1>8. CASE WriteSendingToSupplier(s)
  <2>1. report' \in Report
    BY <1>0, <1>8, SetStateType DEF WriteSendingToSupplier
  <2>2. session' \in [Sessions -> Session]
    BY <1>0, <1>8 DEF WriteSendingToSupplier, Session
  <2> QED
    BY <1>8, <2>1, <2>2 DEF WriteSendingToSupplier
<1>9. CASE WriteReceivingPending(s)
  <2>1. report' \in Report
    BY <1>0, <1>9, SetStateType DEF WriteReceivingPending
  <2>2. session' \in [Sessions -> Session]
    BY <1>0, <1>9 DEF WriteReceivingPending, Session
  <2> QED
    BY <1>9, <2>1, <2>2 DEF WriteReceivingPending
<1>10. CASE FlagFulfilled(s)
  <2>1. item' \in [Items -> Item]
    <3>1. ASSUME NEW i \in Items PROVE [item[i] EXCEPT !.fulfilled = "true"] \in Item
      <4>1. item[i] \in Item
        OBVIOUS
      <4> QED
        BY <4>1 DEF Item
    <3> QED
      BY <1>10, <3>1 DEF FlagFulfilled
  <2> QED
    BY <1>10, <2>1, ReturnType DEF FlagFulfilled
<1>11. CASE SendPayLoad(s)
  <2>1. session[s].op \in Ops
    BY DEF Session
  <2>2. NewJob(session[s].op, "queued") \in Job
    BY <2>1, NewJobType DEF JobPcs
  <2> QED
    BY <1>11, <2>2, ReturnType DEF SendPayLoad
<1>12. CASE SendPayLoadFails(s)
  <2>1. session[s].op \in Ops
    BY DEF Session
  <2> QED
    BY <1>12, <2>1, ReturnType, FaultType DEF SendPayLoadFails
<1> QED
  BY <1>1, <1>2, <1>3, <1>4, <1>5, <1>6, <1>7, <1>8, <1>9, <1>10, <1>11, <1>12
  DEF SessionCall, SessionStep

LEMMA GenerateType ==
  ASSUME TypeOK, NEW j \in Jobs, ReceiveMessage(j) \/ GiveUp(j) \/ Crash(j) \/ GenerateStep(j)
  PROVE  TypeOK'
<1> USE DEF TypeOK
<1>0. /\ {"gen_rows", "gen_state", "gen_fulfil", "po_create", "rc_read", "dead", "gave_up", "done"}
           \subseteq JobPcs
      /\ {"PROCESSING_FAILURE", "GENERATED", "RECEIVING_PENDING"} \subseteq REPORT_STATES
  BY DEF JobPcs, GenPcs, PoPcs, RcPcs, REPORT_STATES
<1>1. CASE ReceiveMessage(j)
  <2>1. PICK pc \in JobPcs : Goto(j, pc)
    BY <1>0, <1>1 DEF ReceiveMessage
  <2> QED
    BY <1>1, <2>1, GotoType DEF ReceiveMessage
<1>2. CASE GiveUp(j)
  <2>1. PICK pc \in JobPcs : Finish(j, pc)
    BY <1>0, <1>2 DEF GiveUp
  <2> QED
    BY <1>2, <2>1, FinishType, FaultType DEF GiveUp
<1>3. CASE Crash(j)
  BY <1>0, <1>3, FinishType, FaultType DEF Crash
<1>4. CASE GenerateRows(j)
  <2>1. item' \in [Items -> Item]
    <3> DEFINE approved == IF supplier \in approvedStates THEN "true" ELSE "null"
               fulfilled == IF supplier \in fulfilledStates THEN "true" ELSE "null"
               hasFulfilled == supplier \in fulfilledStates
               hasReceived == supplier \in receivedStates
               row == [NewItem EXCEPT !.approved = approved, !.fulfilled = fulfilled,
                         !.fulfilledQuantity = hasFulfilled, !.received = hasReceived,
                         !.receivedQuantity = hasReceived]
    <3>1. approved \in {"true", "null"} /\ fulfilled \in {"true", "null"}
      OBVIOUS
    <3>2. hasFulfilled \in BOOLEAN /\ hasReceived \in BOOLEAN
      OBVIOUS
    <3>3. row \in Item
      <4> HIDE DEF approved, fulfilled, hasFulfilled, hasReceived
      <4> QED
        BY <3>1, <3>2 DEF NewItem, Item
    <3>4. item' = [i \in Items |-> row]
      BY <1>4 DEF GenerateRows
    <3> QED
      BY <3>3, <3>4
  <2> QED
    BY <1>0, <1>4, <2>1, GotoType DEF GenerateRows
<1>5. CASE GenerateFails(j)
  BY <1>0, <1>5, SetStateType, FinishType, FaultType DEF GenerateFails
<1>6. CASE SetDefaultState(j)
  <2>1. CASE supplier \in {"unset"} \union notApprovedStates \union notReceivedStates
    <3>1. (IF supplier = "unset" THEN "GENERATED" ELSE supplier) \in REPORT_STATES
      BY <2>1, <1>0 DEF notApprovedStates, notReceivedStates, REPORT_STATES
    <3> QED
      BY <1>0, <1>6, <2>1, <3>1, SetStateType, FinishType DEF SetDefaultState
  <2>2. CASE supplier \notin {"unset"} \union notApprovedStates \union notReceivedStates
    BY <1>0, <1>6, <2>2, GotoType DEF SetDefaultState
  <2> QED
    BY <2>1, <2>2
<1>7. CASE FulfillAndReceive(j)
  BY <1>0, <1>7, SetStateType, GotoType DEF FulfillAndReceive
<1> QED
  BY <1>1, <1>2, <1>3, <1>4, <1>5, <1>6, <1>7 DEF GenerateStep

\* What the workers do to the consignments keeps them well typed; an id that is
\* not of a consignment changes none.
LEMMA LinesType ==
  ASSUME TypeOK, NEW c, NEW i \in Items
  PROVE  [vend EXCEPT ![c].lines = @ \union {i}] \in [Consignments -> Consignment]
<1>1. CASE c \in Consignments
  BY <1>1 DEF TypeOK, Consignment
<1>2. CASE c \notin Consignments
  BY <1>2 DEF TypeOK
<1> QED
  BY <1>1, <1>2

LEMMA CountedType ==
  ASSUME TypeOK, NEW c, NEW i \in Items
  PROVE  [vend EXCEPT ![c].counted = @ \union {i}] \in [Consignments -> Consignment]
<1>1. CASE c \in Consignments
  BY <1>1 DEF TypeOK, Consignment
<1>2. CASE c \notin Consignments
  BY <1>2 DEF TypeOK
<1> QED
  BY <1>1, <1>2

LEMMA DeletedType ==
  ASSUME TypeOK, NEW c, NEW i \in Items
  PROVE  [vend EXCEPT ![c].lines = @ \ {i}, ![c].counted = @ \ {i}]
           \in [Consignments -> Consignment]
<1>1. CASE c \in Consignments
  BY <1>1 DEF TypeOK, Consignment
<1>2. CASE c \notin Consignments
  BY <1>2 DEF TypeOK
<1> QED
  BY <1>1, <1>2

LEMMA StatusType ==
  ASSUME TypeOK, NEW c, NEW st \in {"absent", "open", "sent", "received"}
  PROVE  [vend EXCEPT ![c].status = st] \in [Consignments -> Consignment]
<1>1. CASE c \in Consignments
  BY <1>1 DEF TypeOK, Consignment
<1>2. CASE c \notin Consignments
  BY <1>2 DEF TypeOK
<1> QED
  BY <1>1, <1>2

\* What the workers save to a line item.
LEMMA LineType ==
  ASSUME TypeOK, NEW i, NEW c \in Consignments \union {None}
  PROVE  [item EXCEPT ![i].line = c] \in [Items -> Item]
<1>1. CASE i \in Items
  BY <1>1 DEF TypeOK, Item
<1>2. CASE i \notin Items
  BY <1>2 DEF TypeOK
<1> QED
  BY <1>1, <1>2

LEMMA VendDeletedType ==
  ASSUME TypeOK, NEW i
  PROVE  [item EXCEPT ![i].vendDeletedAt = TRUE] \in [Items -> Item]
<1>1. CASE i \in Items
  <2>1. item[i] \in Item
    BY <1>1 DEF TypeOK
  <2>2. [item[i] EXCEPT !.vendDeletedAt = TRUE] \in Item
    BY <2>1 DEF Item
  <2> QED
    BY <1>1, <2>2 DEF TypeOK
<1>2. CASE i \notin Items
  BY <1>2 DEF TypeOK
<1> QED
  BY <1>1, <1>2


LEMMA PurchaseType == ASSUME TypeOK, NEW j \in Jobs, PurchaseStep(j) PROVE TypeOK'
<1> USE DEF TypeOK
<1>0. /\ {"po_create", "po_save", "po_lines", "po_push", "po_link", "po_mark", "po_state",
          "po_error", "gen_fulfil", "done"} \subseteq JobPcs
      /\ {"FULFILMENT_PENDING", "ERROR_SENDING_TO_SUPPLIER"} \subseteq REPORT_STATES
  BY DEF JobPcs, GenPcs, PoPcs, RcPcs, REPORT_STATES
<1>0a. EndPurchaseOrder(j) => job' \in [Jobs -> Job]
  BY <1>0, FinishType DEF EndPurchaseOrder
<1>1. CASE CreateStockOrder(j)
  <2>1. PICK c \in Consignments :
          /\ vend' = [vend EXCEPT ![c].status = "open"]
          /\ job' = [job EXCEPT ![j].own = c, ![j].pc = "po_save"]
    BY <1>1 DEF CreateStockOrder, NewConsignment
  <2>2. [job[j] EXCEPT !.own = c, !.pc = "po_save"] \in Job
    BY <1>0, JobFieldType DEF Job
  <2>3. job' \in [Jobs -> Job]
    BY <2>1, <2>2
  <2> QED
    BY <1>1, <2>1, <2>3, StatusType DEF CreateStockOrder
<1>2. CASE SaveConsignment(j)
  <2>1. report' \in Report
    BY <1>2, JobFieldType DEF SaveConsignment, Report
  <2> QED
    BY <1>0, <1>2, <2>1, GotoType DEF SaveConsignment
<1>3. CASE FindApprovedItems(j)
  <2> DEFINE x == [job[j] EXCEPT !.todo = {i \in Items : item[i].approved = "true"},
                                 !.pc = "po_push"]
  <2>1. x \in Job
    BY <1>0, JobFieldType DEF Job
  <2>2. job' = [job EXCEPT ![j] = x]
    BY <1>3 DEF FindApprovedItems
  <2> QED
    BY <1>3, <2>1, <2>2, JobType DEF FindApprovedItems
<1>4. CASE PushLineItem(j)
  <2>1. PICK i \in job[j].todo :
          /\ vend' = [vend EXCEPT ![job[j].own].lines = @ \union {i}]
          /\ job' = [job EXCEPT ![j].cur = i, ![j].pc = "po_link"]
    BY <1>4 DEF PushLineItem
  <2>2. i \in Items
    BY JobFieldType
  <2>3. [job[j] EXCEPT !.cur = i, !.pc = "po_link"] \in Job
    BY <1>0, <2>2, JobFieldType DEF Job
  <2>4. job' \in [Jobs -> Job]
    BY <2>1, <2>3
  <2>5. vend' \in [Consignments -> Consignment]
    BY <2>1, <2>2, LinesType
  <2> QED
    BY <1>4, <2>4, <2>5 DEF PushLineItem
<1>5. CASE SaveVendLine(j)
  <2> DEFINE x == [job[j] EXCEPT !.todo = @ \ {job[j].cur}, !.cur = None, !.pc = "po_push"]
  <2>1. x \in Job
    BY <1>0, JobFieldType DEF Job
  <2>2. job' = [job EXCEPT ![j] = x]
    BY <1>5 DEF SaveVendLine
  <2>3. item' \in [Items -> Item]
    <3>1. job[j].own \in Consignments \union {None}
      BY JobFieldType
    <3>2. [item EXCEPT ![job[j].cur].line = job[j].own] \in [Items -> Item]
      BY <3>1, LineType
    <3> QED
      BY <1>5, <3>2 DEF SaveVendLine
  <2> QED
    BY <1>5, <2>1, <2>2, <2>3, JobType DEF SaveVendLine
<1>6. CASE AllPushed(j)
  BY <1>0, <1>6, GotoType DEF AllPushed
<1>7. CASE MarkAsSent(j)
  <2>1. job' \in [Jobs -> Job]
    BY <1>0, <1>7, GotoType DEF MarkAsSent
  <2>2. vend' \in [Consignments -> Consignment]
    <3>1. [vend EXCEPT ![job[j].own].status = "sent"] \in [Consignments -> Consignment]
      BY StatusType
    <3> QED
      BY <1>7, <3>1 DEF MarkAsSent
  <2> QED
    BY <1>7, <2>1, <2>2 DEF MarkAsSent
<1>8. CASE SetFulfilmentPending(j)
  <2>1. report' \in Report
    BY <1>0, <1>8, JobFieldType DEF SetFulfilmentPending, Report
  <2> QED
    BY <1>0a, <1>8, <2>1 DEF SetFulfilmentPending
<1>9. CASE PurchaseOrderFails(j)
  BY <1>0, <1>9, GotoType, FaultType DEF PurchaseOrderFails
<1>10. CASE PurchaseOrderUnanswered(j)
  <2>1. PICK pc \in JobPcs : Goto(j, pc)
    BY <1>0, <1>10 DEF PurchaseOrderUnanswered
  <2>2. vend' \in [Consignments -> Consignment]
    <3>1. ASSUME NEW c \in Consignments, vend' = [vend EXCEPT ![c].status = "open"]
          PROVE  vend' \in [Consignments -> Consignment]
      BY <3>1, StatusType
    <3>2. ASSUME NEW i \in job[j].todo,
                 vend' = [vend EXCEPT ![job[j].own].lines = @ \union {i}]
          PROVE  vend' \in [Consignments -> Consignment]
      BY <3>2, JobFieldType, LinesType
    <3>3. ASSUME vend' = [vend EXCEPT ![job[j].own].status = "sent"]
          PROVE  vend' \in [Consignments -> Consignment]
      BY <3>3, StatusType
    <3> QED
      BY <1>10, <3>1, <3>2, <3>3 DEF PurchaseOrderUnanswered, NewConsignment
  <2> QED
    BY <1>10, <2>1, <2>2, GotoType, FaultType DEF PurchaseOrderUnanswered
<1>11. CASE SetErrorSending(j)
  BY <1>0, <1>0a, <1>11, SetStateType DEF SetErrorSending
<1> QED
  BY <1>1, <1>2, <1>3, <1>4, <1>5, <1>6, <1>7, <1>8, <1>9, <1>10, <1>11 DEF PurchaseStep

LEMMA PlanType ==
  ASSUME TypeOK, NEW i \in Items PROVE PlanFor(i) \in Plan
  BY DEF TypeOK, PlanFor, NoPlan, Plan, Item

\* The two calls of the receive worker to Vend.
LEMMA CallVendType ==
  ASSUME TypeOK, NEW j \in Jobs, NEW i \in Items, CallVend(j, i)
  PROVE  vend' \in [Consignments -> Consignment]
<1> DEFINE c == job[j].plan[i].line
<1>1. CASE vend' = [vend EXCEPT ![c].counted = @ \union {i}]
  BY <1>1, CountedType
<1>2. CASE vend' = [vend EXCEPT ![c].lines = @ \ {i}, ![c].counted = @ \ {i}]
  BY <1>2, DeletedType
<1> QED
  BY <1>1, <1>2 DEF CallVend

LEMMA ReceiveType == ASSUME TypeOK, NEW j \in Jobs, ReceiveStep(j) PROVE TypeOK'
<1> USE DEF TypeOK
<1>0. /\ {"rc_lines", "rc_flag", "rc_state", "rc_items", "rc_unlink", "rc_mark",
          "rc_settle", "rc_error", "done"} \subseteq JobPcs
      /\ {"SUBMITTING_RECEIVALS", "COMPLETE", "RECEIVING_FAILURE"} \subseteq REPORT_STATES
  BY DEF JobPcs, GenPcs, PoPcs, RcPcs, REPORT_STATES
<1>1. CASE FindReport(j)
  <2> DEFINE x == [job[j] EXCEPT !.own = report.vendConsignmentId, !.pc = "rc_lines"]
  <2>1. x \in Job
    BY <1>0, JobFieldType DEF Job, Report
  <2>2. job' = [job EXCEPT ![j] = x]
    BY <1>1 DEF FindReport
  <2> QED
    BY <1>1, <2>1, <2>2, JobType DEF FindReport
<1>2. CASE FindItems(j)
  <2> DEFINE x == [job[j] EXCEPT !.pc = "rc_flag",
                     !.plan = [i \in Items |-> PlanFor(i)],
                     !.todo = {i \in Items : PlanFor(i).act # "skip"}]
  <2>1. x \in Job
    BY <1>0, JobFieldType, PlanType DEF Job
  <2>2. job' = [job EXCEPT ![j] = x]
    BY <1>2 DEF FindItems
  <2> QED
    BY <1>2, <2>1, <2>2, JobType DEF FindItems
<1>3. CASE FlagReceived(j)
  <2>1. item' \in [Items -> Item]
    <3>1. ASSUME NEW i \in Items PROVE [item[i] EXCEPT !.received = TRUE] \in Item
      <4>1. item[i] \in Item
        OBVIOUS
      <4> QED
        BY <4>1 DEF Item
    <3> QED
      BY <1>3, <3>1 DEF FlagReceived
  <2> QED
    BY <1>0, <1>3, <2>1, GotoType DEF FlagReceived
<1>4. CASE SetSubmitting(j)
  BY <1>0, <1>4, SetStateType, GotoType DEF SetSubmitting
<1>5. CASE ReceiveLineItem(j)
  <2>1. PICK i \in job[j].todo :
          /\ CallVend(j, i)
          /\ job' = IF job[j].plan[i].act = "update"
                    THEN [job EXCEPT ![j].todo = @ \ {i}]
                    ELSE [job EXCEPT ![j].cur = i, ![j].pc = "rc_unlink"]
    BY <1>5 DEF ReceiveLineItem
  <2>2. i \in Items
    BY JobFieldType
  <2>3. /\ [job[j] EXCEPT !.todo = @ \ {i}] \in Job
        /\ [job[j] EXCEPT !.cur = i, !.pc = "rc_unlink"] \in Job
    BY <1>0, <2>2, JobFieldType DEF Job
  <2>4. job' \in [Jobs -> Job]
    BY <2>1, <2>3
  <2> QED
    BY <1>5, <2>1, <2>2, <2>4, CallVendType DEF ReceiveLineItem
<1>6. CASE NoSuchLine(j)
  BY <1>0, <1>6, GotoType DEF NoSuchLine
<1>7. CASE SaveVendDeleted(j)
  <2> DEFINE x == [job[j] EXCEPT !.todo = @ \ {job[j].cur}, !.cur = None, !.pc = "rc_items"]
  <2>1. x \in Job
    BY <1>0, JobFieldType DEF Job
  <2>2. job' = [job EXCEPT ![j] = x]
    BY <1>7 DEF SaveVendDeleted
  <2>3. item' \in [Items -> Item]
    BY <1>7, VendDeletedType DEF SaveVendDeleted
  <2> QED
    BY <1>7, <2>1, <2>2, <2>3, JobType DEF SaveVendDeleted
<1>8. CASE AllReceived(j)
  BY <1>0, <1>8, GotoType DEF AllReceived
<1>9. CASE MarkAsReceived(j)
  <2>1. job' \in [Jobs -> Job]
    BY <1>0, <1>9, GotoType DEF MarkAsReceived
  <2>2. vend' \in [Consignments -> Consignment]
    <3>1. [vend EXCEPT ![job[j].own].status = "received"] \in [Consignments -> Consignment]
      BY StatusType
    <3> QED
      BY <1>9, <3>1 DEF MarkAsReceived
  <2> QED
    BY <1>9, <2>1, <2>2 DEF MarkAsReceived
<1>10. CASE ReceiveFails(j)
  BY <1>0, <1>10, GotoType, FaultType DEF ReceiveFails
<1>11. CASE ReceiveUnanswered(j)
  <2>1. vend' \in [Consignments -> Consignment]
    <3>1. ASSUME NEW i \in job[j].todo, CallVend(j, i)
          PROVE  vend' \in [Consignments -> Consignment]
      BY <3>1, JobFieldType, CallVendType
    <3>2. ASSUME vend' = [vend EXCEPT ![job[j].own].status = "received"]
          PROVE  vend' \in [Consignments -> Consignment]
      BY <3>2, StatusType
    <3> QED
      BY <1>11, <3>1, <3>2 DEF ReceiveUnanswered
  <2> QED
    BY <1>0, <1>11, <2>1, GotoType, FaultType DEF ReceiveUnanswered
<1>12. CASE SetComplete(j)
  BY <1>0, <1>12, SetStateType, FinishType DEF SetComplete
<1>13. CASE SetReceivingFailure(j)
  BY <1>0, <1>13, SetStateType, FinishType DEF SetReceivingFailure
<1> QED
  BY <1>1, <1>2, <1>3, <1>4, <1>5, <1>6, <1>7, <1>8, <1>9, <1>10, <1>11, <1>12, <1>13
  DEF ReceiveStep

LEMMA NextType == TypeOK /\ [Next]_vars => TypeOK'
<1> SUFFICES ASSUME TypeOK, [Next]_vars PROVE TypeOK'
  OBVIOUS
<1>1. CASE UNCHANGED vars
  BY <1>1 DEF vars, TypeOK
<1>2. CASE \E s \in Sessions : SessionCall(s) \/ SessionStep(s)
  BY <1>2, SessionType
<1>3. ASSUME NEW j \in Jobs, WorkerStep(j) PROVE TypeOK'
  BY <1>3, GenerateType, PurchaseType, ReceiveType DEF WorkerStep
<1> QED
  BY <1>1, <1>2, <1>3 DEF Next

\* In every reachable state the order, its line items, Vend's consignments, the
\* sessions and the workers hold values of their types: no handler or worker writes
\* a state outside REPORT_STATES, whatever the supplier's default state is.
THEOREM TypeCorrect == Spec => []TypeOK
<1>1. Init => TypeOK
  BY InitType
<1>2. TypeOK /\ [Next]_vars => TypeOK'
  BY NextType
<1> QED
  BY <1>1, <1>2, PTL DEF Spec

-----------------------------------------------------------------------------
(* An order is never left PROCESSING, SENDING_TO_SUPPLIER or               *)
(* SUBMITTING_RECEIVALS by anything but a lost request.                    *)
(*                                                                         *)
(* BusyIsServed is inductive but for one step: the receive worker itself   *)
(* writes SUBMITTING_RECEIVALS, so one has to know which messages reach    *)
(* it: that of a user, or a generation for a supplier whose orders are     *)
(* received at once.  InlineReceiptIsForComplete says so; by itself it is  *)
(* only what ReceivesAtOnce tests.                                         *)
(*                                                                         *)
(* The proof goes through a table of what a step of a worker can do to its *)
(* own job and to the order's state: Advance and Outcome.                  *)

LostPcs == {"dead", "gave_up"}
BusyStates == {"PROCESSING", "SENDING_TO_SUPPLIER", "SUBMITTING_RECEIVALS"}

\* A step of worker j: nobody else's job changes, and no job changes its operation.
Frame(j) ==
  /\ supplier' = supplier /\ session' = session /\ unsent' = unsent
  /\ \A k \in Jobs : job'[k].op = job[k].op
  /\ \A k \in Jobs \ {j} : job'[k] = job[k]

\* Where the step takes job j, unless it ends well.
Advance(j) ==
  \/ job'[j].pc \in LostPcs
  \/ job[j].pc = "queued" /\ job[j].op = "generate" /\ job'[j].pc \in GenPcs
  \/ job[j].pc = "queued" /\ job[j].op = "purchase" /\ job'[j].pc \in PoPcs
  \/ job[j].pc = "queued" /\ job[j].op = "receive" /\ job'[j].pc \in RcPcs
  \/ job[j].pc \in GenPcs /\ job'[j].pc \in GenPcs \union PoPcs
  \/ job[j].pc \in PoPcs /\ job'[j].pc \in PoPcs
  \/ job[j].pc \in PoPcs /\ ReceivesAtOnce(j) /\ job'[j].pc = "gen_fulfil"
  \/ job[j].pc = "gen_fulfil" /\ job'[j].pc \in RcPcs
  \/ job[j].pc \in RcPcs /\ job'[j].pc \in RcPcs

\* What the step does to the order's state.
Outcome(j) ==
  \/ report'.state = report.state /\ Advance(j)
  \/ report'.state \notin BusyStates /\ (Advance(j) \/ job'[j].pc = "done")
  \/ report'.state = "PROCESSING" /\ supplier = "PROCESSING" /\ job'[j].pc = "done"
  \/ report'.state = "SUBMITTING_RECEIVALS" /\ job[j].pc \in RcPcs /\ job'[j].pc \in RcPcs

-----------------------------------------------------------------------------
(* The table holds of every step *)

LEMMA GotoJob ==
  ASSUME TypeOK, NEW j \in Jobs, NEW pc, Goto(j, pc)
  PROVE  /\ \A k \in Jobs : job'[k].op = job[k].op
         /\ \A k \in Jobs \ {j} : job'[k] = job[k]
         /\ job'[j].pc = pc
  BY DEF TypeOK, Job, Goto

LEMMA FinishJob ==
  ASSUME TypeOK, NEW j \in Jobs, NEW pc, Finish(j, pc)
  PROVE  /\ \A k \in Jobs : job'[k].op = job[k].op
         /\ \A k \in Jobs \ {j} : job'[k] = job[k]
         /\ job'[j].pc = pc
  BY DEF TypeOK, Job, Finish, NewJob

LEMMA SetStateIs ==
  ASSUME TypeOK, NEW st, SetState(st) PROVE report'.state = st
  BY DEF TypeOK, Report, SetState

LEMMA GenerateOutcome ==
  ASSUME TypeOK, NEW j \in Jobs, ReceiveMessage(j) \/ GiveUp(j) \/ Crash(j) \/ GenerateStep(j)
  PROVE  Frame(j) /\ Outcome(j)
<1>1. CASE ReceiveMessage(j)
  <2>1. Frame(j)
    BY <1>1, GotoJob DEF ReceiveMessage, Frame
  <2>2. job[j].op \in Ops
    BY JobFieldType
  <2>3. Advance(j)
    BY <1>1, <2>2, GotoJob DEF ReceiveMessage, Advance, Ops, GenPcs, PoPcs, RcPcs
  <2> QED
    BY <1>1, <2>1, <2>3 DEF ReceiveMessage, Outcome
<1>2. CASE GiveUp(j)
  <2>1. Frame(j)
    BY <1>2, FinishJob DEF GiveUp, Frame
  <2>2. Advance(j)
    BY <1>2, FinishJob DEF GiveUp, Advance, LostPcs
  <2> QED
    BY <1>2, <2>1, <2>2 DEF GiveUp, Outcome
<1>3. CASE Crash(j)
  BY <1>3, FinishJob DEF Crash, Frame, Advance, Outcome, LostPcs
<1>4. CASE GenerateRows(j)
  BY <1>4, GotoJob DEF GenerateRows, Frame, Advance, Outcome, GenPcs
<1>5. CASE GenerateFails(j)
  BY <1>5, FinishJob, SetStateIs DEF GenerateFails, Frame, Outcome, BusyStates
<1>6. CASE SetDefaultState(j)
  <2>1. CASE supplier \in {"unset"} \union notApprovedStates \union notReceivedStates
    <3>1. /\ SetState(IF supplier = "unset" THEN "GENERATED" ELSE supplier)
          /\ Finish(j, "done")
      BY <1>6, <2>1 DEF SetDefaultState
    <3>2. Frame(j) /\ job'[j].pc = "done"
      BY <1>6, <3>1, FinishJob DEF SetDefaultState, Frame
    <3>3. report'.state \notin BusyStates \/ (report'.state = "PROCESSING" /\ supplier = "PROCESSING")
      BY <2>1, <3>1, SetStateIs DEF notApprovedStates, notReceivedStates, BusyStates
    <3> QED
      BY <3>2, <3>3 DEF Outcome
  <2>2. CASE supplier \notin {"unset"} \union notApprovedStates \union notReceivedStates
    <3>1. Goto(j, "po_create") /\ UNCHANGED report
      BY <1>6, <2>2 DEF SetDefaultState
    <3> QED
      BY <1>6, <3>1, GotoJob DEF SetDefaultState, Frame, Advance, Outcome, GenPcs, PoPcs
  <2> QED
    BY <2>1, <2>2
<1>7. CASE FulfillAndReceive(j)
  <2>1. Frame(j)
    BY <1>7, GotoJob DEF FulfillAndReceive, Frame
  <2>2. Advance(j)
    BY <1>7, GotoJob DEF FulfillAndReceive, Advance, RcPcs
  <2>3. report'.state = report.state \/ report'.state \notin BusyStates
    BY <1>7, SetStateIs DEF FulfillAndReceive, BusyStates
  <2> QED
    BY <2>1, <2>2, <2>3 DEF Outcome
<1> QED
  BY <1>1, <1>2, <1>3, <1>4, <1>5, <1>6, <1>7 DEF GenerateStep

LEMMA EndPurchaseOrderJob ==
  ASSUME TypeOK, NEW j \in Jobs, job[j].pc \in PoPcs, EndPurchaseOrder(j)
  PROVE  /\ \A k \in Jobs : job'[k].op = job[k].op
         /\ \A k \in Jobs \ {j} : job'[k] = job[k]
         /\ Advance(j) \/ job'[j].pc = "done"
  BY FinishJob DEF EndPurchaseOrder, Advance

\* A step of the purchase order or of the receive worker that stays within it.
LEMMA StepWithin ==
  ASSUME TypeOK, NEW j \in Jobs, NEW pc,
         \/ job[j].pc \in PoPcs /\ pc \in PoPcs
         \/ job[j].pc \in RcPcs /\ pc \in RcPcs,
         Goto(j, pc), UNCHANGED <<supplier, session, unsent>>, report'.state = report.state
  PROVE  Frame(j) /\ Outcome(j)
  BY GotoJob DEF Frame, Advance, Outcome

LEMMA PurchaseOutcome ==
  ASSUME TypeOK, NEW j \in Jobs, PurchaseStep(j)
  PROVE  Frame(j) /\ Outcome(j)
<1>1. CASE CreateStockOrder(j)
  <2>1. /\ \A k \in Jobs : job'[k].op = job[k].op
        /\ \A k \in Jobs \ {j} : job'[k] = job[k]
        /\ job'[j].pc = "po_save"
    BY <1>1 DEF CreateStockOrder, TypeOK, Job
  <2> QED
    BY <1>1, <2>1 DEF CreateStockOrder, Frame, Advance, Outcome, PoPcs
<1>2. CASE SaveConsignment(j)
  <2>1. report'.state = report.state
    BY <1>2 DEF SaveConsignment, TypeOK, Report
  <2> QED
    BY <1>2, <2>1, StepWithin DEF SaveConsignment, PoPcs
<1>3. CASE FindApprovedItems(j)
  <2>1. /\ \A k \in Jobs : job'[k].op = job[k].op
        /\ \A k \in Jobs \ {j} : job'[k] = job[k]
        /\ job'[j].pc = "po_push"
    BY <1>3 DEF FindApprovedItems, TypeOK, Job
  <2> QED
    BY <1>3, <2>1 DEF FindApprovedItems, Frame, Advance, Outcome, PoPcs
<1>4. CASE PushLineItem(j)
  <2>1. /\ \A k \in Jobs : job'[k].op = job[k].op
        /\ \A k \in Jobs \ {j} : job'[k] = job[k]
        /\ job'[j].pc = "po_link"
    BY <1>4 DEF PushLineItem, TypeOK, Job
  <2> QED
    BY <1>4, <2>1 DEF PushLineItem, Frame, Advance, Outcome, PoPcs
<1>5. CASE SaveVendLine(j)
  <2>1. /\ \A k \in Jobs : job'[k].op = job[k].op
        /\ \A k \in Jobs \ {j} : job'[k] = job[k]
        /\ job'[j].pc = "po_push"
    BY <1>5 DEF SaveVendLine, TypeOK, Job
  <2> QED
    BY <1>5, <2>1 DEF SaveVendLine, Frame, Advance, Outcome, PoPcs
<1>6. CASE AllPushed(j)
  BY <1>6, StepWithin DEF AllPushed, PoPcs
<1>7. CASE MarkAsSent(j)
  BY <1>7, StepWithin DEF MarkAsSent, PoPcs
<1>8. CASE SetFulfilmentPending(j)
  <2>1. report'.state = "FULFILMENT_PENDING"
    BY <1>8 DEF SetFulfilmentPending
  <2> QED
    BY <1>8, <2>1, EndPurchaseOrderJob DEF SetFulfilmentPending, Frame, Outcome, PoPcs, BusyStates
<1>9. CASE PurchaseOrderFails(j)
  BY <1>9, StepWithin DEF PurchaseOrderFails, PoPcs
<1>10. CASE PurchaseOrderUnanswered(j)
  BY <1>10, StepWithin DEF PurchaseOrderUnanswered, PoPcs
<1>11. CASE SetErrorSending(j)
  <2>1. report'.state = "ERROR_SENDING_TO_SUPPLIER"
    BY <1>11, SetStateIs DEF SetErrorSending
  <2> QED
    BY <1>11, <2>1, EndPurchaseOrderJob DEF SetErrorSending, Frame, Outcome, PoPcs, BusyStates
<1> QED
  BY <1>1, <1>2, <1>3, <1>4, <1>5, <1>6, <1>7, <1>8, <1>9, <1>10, <1>11 DEF PurchaseStep

LEMMA ReceiveOutcome ==
  ASSUME TypeOK, NEW j \in Jobs, ReceiveStep(j)
  PROVE  Frame(j) /\ Outcome(j)
<1>1. CASE FindReport(j)
  <2>1. /\ \A k \in Jobs : job'[k].op = job[k].op
        /\ \A k \in Jobs \ {j} : job'[k] = job[k]
        /\ job'[j].pc = "rc_lines"
    BY <1>1 DEF FindReport, TypeOK, Job
  <2> QED
    BY <1>1, <2>1 DEF FindReport, Frame, Advance, Outcome, RcPcs
<1>2. CASE FindItems(j)
  <2>1. /\ \A k \in Jobs : job'[k].op = job[k].op
        /\ \A k \in Jobs \ {j} : job'[k] = job[k]
        /\ job'[j].pc = "rc_flag"
    BY <1>2 DEF FindItems, TypeOK, Job
  <2> QED
    BY <1>2, <2>1 DEF FindItems, Frame, Advance, Outcome, RcPcs
<1>3. CASE FlagReceived(j)
  BY <1>3, StepWithin DEF FlagReceived, RcPcs
<1>4. CASE SetSubmitting(j)
  <2>1. report'.state = "SUBMITTING_RECEIVALS"
    BY <1>4, SetStateIs DEF SetSubmitting
  <2> QED
    BY <1>4, <2>1, GotoJob DEF SetSubmitting, Frame, Outcome, RcPcs
<1>5. CASE ReceiveLineItem(j)
  <2>1. PICK i \in job[j].todo :
          job' = IF job[j].plan[i].act = "update"
                 THEN [job EXCEPT ![j].todo = @ \ {i}]
                 ELSE [job EXCEPT ![j].cur = i, ![j].pc = "rc_unlink"]
    BY <1>5 DEF ReceiveLineItem
  <2>2. /\ \A k \in Jobs : job'[k].op = job[k].op
        /\ \A k \in Jobs \ {j} : job'[k] = job[k]
        /\ job'[j].pc \in {"rc_items", "rc_unlink"}
    BY <1>5, <2>1 DEF ReceiveLineItem, TypeOK, Job
  <2> QED
    BY <1>5, <2>2 DEF ReceiveLineItem, Frame, Advance, Outcome, RcPcs
<1>6. CASE NoSuchLine(j)
  BY <1>6, StepWithin DEF NoSuchLine, RcPcs
<1>7. CASE SaveVendDeleted(j)
  <2>1. /\ \A k \in Jobs : job'[k].op = job[k].op
        /\ \A k \in Jobs \ {j} : job'[k] = job[k]
        /\ job'[j].pc = "rc_items"
    BY <1>7 DEF SaveVendDeleted, TypeOK, Job
  <2> QED
    BY <1>7, <2>1 DEF SaveVendDeleted, Frame, Advance, Outcome, RcPcs
<1>8. CASE AllReceived(j)
  BY <1>8, StepWithin DEF AllReceived, RcPcs
<1>9. CASE MarkAsReceived(j)
  BY <1>9, StepWithin DEF MarkAsReceived, RcPcs
<1>10. CASE ReceiveFails(j)
  BY <1>10, StepWithin DEF ReceiveFails, RcPcs
<1>11. CASE ReceiveUnanswered(j)
  BY <1>11, StepWithin DEF ReceiveUnanswered, RcPcs
<1>12. CASE SetComplete(j)
  BY <1>12, FinishJob, SetStateIs DEF SetComplete, Frame, Outcome, BusyStates
<1>13. CASE SetReceivingFailure(j)
  BY <1>13, FinishJob, SetStateIs DEF SetReceivingFailure, Frame, Outcome, BusyStates
<1> QED
  BY <1>1, <1>2, <1>3, <1>4, <1>5, <1>6, <1>7, <1>8, <1>9, <1>10, <1>11, <1>12, <1>13
  DEF ReceiveStep

LEMMA WorkerOutcome ==
  ASSUME TypeOK, NEW j \in Jobs, WorkerStep(j) PROVE Frame(j) /\ Outcome(j)
  BY GenerateOutcome, PurchaseOutcome, ReceiveOutcome DEF WorkerStep

-----------------------------------------------------------------------------
(* Which messages reach the receive worker *)

LEMMA SessionFrame ==
  ASSUME TypeOK, NEW s \in Sessions, SessionCall(s) \/ SessionStep(s)
  PROVE  /\ supplier' = supplier
         /\ \A k \in Jobs : job'[k] = job[k] \/ (job[k].pc = "free" /\ job'[k].pc = "queued")
<1>1. CASE SendPayLoad(s)
  BY <1>1 DEF SendPayLoad, NewJob, TypeOK
<1>2. CASE ~SendPayLoad(s)
  BY <1>2 DEF SessionCall, SessionStep, CallGenerate, CallCreatePurchaseOrder,
       CallSendDelivery, CallReceiveConsignment, OpenPage, EditItem, PutOpenedState,
       WriteSendingToSupplier, WriteReceivingPending, FlagFulfilled, SendPayLoadFails
<1> QED
  BY <1>1, <1>2

InlineReceiptIsForComplete ==
  \A j \in Jobs :
    /\ job[j].pc = "gen_fulfil" => job[j].op = "generate" /\ supplier = "COMPLETE"
    /\ job[j].pc \in RcPcs =>
         job[j].op = "receive" \/ (job[j].op = "generate" /\ supplier = "COMPLETE")

LEMMA InlineNext ==
  TypeOK /\ InlineReceiptIsForComplete /\ [Next]_vars => InlineReceiptIsForComplete'
<1> SUFFICES ASSUME TypeOK, InlineReceiptIsForComplete, [Next]_vars,
                    NEW k \in Jobs
             PROVE  /\ job'[k].pc = "gen_fulfil" =>
                         job'[k].op = "generate" /\ supplier' = "COMPLETE"
                    /\ job'[k].pc \in RcPcs =>
                         \/ job'[k].op = "receive"
                         \/ job'[k].op = "generate" /\ supplier' = "COMPLETE"
  BY DEF InlineReceiptIsForComplete
<1>0. /\ job[k].pc = "gen_fulfil" => job[k].op = "generate" /\ supplier = "COMPLETE"
      /\ job[k].pc \in RcPcs =>
           job[k].op = "receive" \/ (job[k].op = "generate" /\ supplier = "COMPLETE")
  BY DEF InlineReceiptIsForComplete
<1>1. CASE UNCHANGED vars
  BY <1>0, <1>1 DEF vars
<1>2. ASSUME NEW s \in Sessions, SessionCall(s) \/ SessionStep(s)
      PROVE  /\ job'[k].pc = "gen_fulfil" =>
                  job'[k].op = "generate" /\ supplier' = "COMPLETE"
             /\ job'[k].pc \in RcPcs =>
                  \/ job'[k].op = "receive"
                  \/ job'[k].op = "generate" /\ supplier' = "COMPLETE"
  BY <1>0, <1>2, SessionFrame DEF RcPcs
<1>3. ASSUME NEW j \in Jobs, WorkerStep(j)
      PROVE  /\ job'[k].pc = "gen_fulfil" =>
                  job'[k].op = "generate" /\ supplier' = "COMPLETE"
             /\ job'[k].pc \in RcPcs =>
                  \/ job'[k].op = "receive"
                  \/ job'[k].op = "generate" /\ supplier' = "COMPLETE"
  <2>1. Frame(j) /\ Outcome(j)
    BY <1>3, WorkerOutcome
  <2>2. CASE k # j
    BY <1>0, <2>1, <2>2 DEF Frame
  <2>3. CASE k = j
    <3>1. job'[k].op = job[k].op /\ supplier' = supplier
      BY <2>1 DEF Frame
    <3>2. CASE Advance(j)
      BY <1>0, <2>3, <3>1, <3>2 DEF Advance, ReceivesAtOnce, LostPcs, GenPcs, PoPcs, RcPcs
    <3>3. CASE job'[j].pc = "done"
      BY <2>3, <3>3 DEF RcPcs
    <3>4. CASE job[j].pc \in RcPcs /\ job'[j].pc \in RcPcs
      BY <1>0, <2>3, <3>1, <3>4 DEF RcPcs
    <3> QED
      BY <2>1, <3>2, <3>3, <3>4 DEF Outcome
  <2> QED
    BY <2>2, <2>3
<1> QED
  BY <1>1, <1>2, <1>3 DEF Next

LEMMA InlineReceipt == Spec => []InlineReceiptIsForComplete
<1>1. Init => InlineReceiptIsForComplete
  BY DEF Init, NewJob, InlineReceiptIsForComplete, RcPcs
<1>2. TypeOK /\ InlineReceiptIsForComplete /\ [Next]_vars => InlineReceiptIsForComplete'
  BY InlineNext
<1> QED
  BY <1>1, <1>2, TypeCorrect, PTL DEF Spec

-----------------------------------------------------------------------------
(* Busy orders are served *)

LEMMA NotBusyIsServed ==
  ASSUME \/ report'.state \notin BusyStates
         \/ report'.state = "PROCESSING" /\ supplier' = "PROCESSING"
  PROVE  BusyIsServed'
  BY DEF BusyIsServed, ProcessingIsServed, SendingIsServed, SubmittingIsServed, BusyStates

\* Requests on their way stay so, or are lost: in a step of worker j that advances
\* it, ...
LEMMA PendingAdvances ==
  ASSUME TypeOK, NEW j \in Jobs, Frame(j), Advance(j), BusyIsServed,
         report'.state = report.state
  PROVE  BusyIsServed'
<1>0. /\ supplier' = supplier /\ session' = session /\ unsent' = unsent
      /\ \A k \in Jobs : job'[k].op = job[k].op
      /\ \A k \in Jobs \ {j} : job'[k] = job[k]
  BY DEF Frame
<1>1. ASSUME NEW op PROVE Lost(op) => Lost(op)'
  <2>1. SUFFICES ASSUME NEW k \in Jobs, job[k].op = op, job[k].pc \in {"dead", "gave_up"}
                 PROVE  job'[k].op = op /\ job'[k].pc \in {"dead", "gave_up"}
    BY <1>0 DEF Lost
  <2> QED
    BY <1>0, <2>1 DEF Advance, LostPcs, GenPcs, PoPcs, RcPcs
<1>2. ProcessingIsServed'
  <2> DEFINE S == {"queued"} \union (GenPcs \union PoPcs \union RcPcs \union {"gen_fulfil"})
  <2>1. ASSUME NEW k \in Jobs, job[k].op = "generate", job[k].pc \in S
        PROVE  job'[k].op = "generate" /\ job'[k].pc \in S \union LostPcs
    BY <1>0, <2>1 DEF Advance, LostPcs
  <2> HIDE DEF S
  <2>2. Pending("generate", GenPcs \union PoPcs \union RcPcs \union {"gen_fulfil"}) =>
          \/ Pending("generate", GenPcs \union PoPcs \union RcPcs \union {"gen_fulfil"})'
          \/ Lost("generate")'
    BY <1>0, <2>1 DEF Pending, Lost, S, LostPcs
  <2> QED
    BY <1>0, <1>1, <2>2 DEF BusyIsServed, ProcessingIsServed
<1>3. SendingIsServed'
  <2>1. ASSUME NEW k \in Jobs, job[k].op = "purchase", job[k].pc \in {"queued"} \union PoPcs
        PROVE  job'[k].op = "purchase" /\ job'[k].pc \in {"queued"} \union PoPcs \union LostPcs
    BY <1>0, <2>1 DEF Advance, LostPcs, ReceivesAtOnce, PoPcs, GenPcs, RcPcs
  <2>2. Pending("purchase", PoPcs) => Pending("purchase", PoPcs)' \/ Lost("purchase")'
    BY <1>0, <2>1 DEF Pending, Lost, LostPcs
  <2> QED
    BY <1>0, <1>1, <2>2 DEF BusyIsServed, SendingIsServed
<1>4. SubmittingIsServed'
  <2>1. ASSUME NEW k \in Jobs, job[k].op = "receive", job[k].pc \in {"queued"} \union RcPcs
        PROVE  job'[k].op = "receive" /\ job'[k].pc \in {"queued"} \union RcPcs \union LostPcs
    BY <1>0, <2>1 DEF Advance, LostPcs, ReceivesAtOnce, PoPcs, GenPcs, RcPcs
  <2>2. Pending("receive", RcPcs) => Pending("receive", RcPcs)' \/ Lost("receive")'
    BY <1>0, <2>1 DEF Pending, Lost, LostPcs
  <2>3. ASSUME NEW k \in Jobs, job[k].op = "generate", job[k].pc \in RcPcs
        PROVE  job'[k].op = "generate" /\ job'[k].pc \in RcPcs \union LostPcs
    BY <1>0, <2>3 DEF Advance, LostPcs, ReceivesAtOnce, PoPcs, GenPcs, RcPcs
  <2>4. ReceivedInline => ReceivedInline' \/ Lost("generate")'
    BY <1>0, <2>3 DEF ReceivedInline, Lost, LostPcs
  <2> QED
    BY <1>0, <1>1, <2>2, <2>4 DEF BusyIsServed, SubmittingIsServed
<1> QED
  BY <1>2, <1>3, <1>4 DEF BusyIsServed

\* ... and in a step of a session that leaves the state alone: it sends its message,
\* loses it, or keeps it.
LEMMA PendingIsSent ==
  ASSUME TypeOK, BusyIsServed, NEW s \in Sessions,
         report'.state = report.state, supplier' = supplier, unsent \subseteq unsent',
         \A k \in Jobs : job'[k] = job[k] \/ job[k].pc = "free",
         \A r \in Sessions \ {s} : session'[r] = session[r],
         session[s].pc = "send" =>
           \/ session[s].op \in unsent'
           \/ \E k \in Jobs : job'[k].op = session[s].op /\ job'[k].pc = "queued"
  PROVE  BusyIsServed'
<1>1. ASSUME NEW op PROVE Lost(op) => Lost(op)'
  BY DEF Lost
<1>2. ASSUME NEW op, NEW pcs, "free" \notin pcs
      PROVE  Pending(op, pcs) => Pending(op, pcs)' \/ Lost(op)'
  <2>1. ASSUME NEW k \in Jobs, job[k].op = op, job[k].pc \in {"queued"} \union pcs
        PROVE  job'[k].op = op /\ job'[k].pc \in {"queued"} \union pcs
    BY <1>2, <2>1
  <2>2. ASSUME NEW r \in Sessions, session[r].pc = "send", session[r].op = op
        PROVE  Pending(op, pcs)' \/ Lost(op)'
    <3>1. CASE r = s
      BY <2>2, <3>1 DEF Pending, Lost
    <3>2. CASE r # s
      BY <2>2, <3>2 DEF Pending
    <3> QED
      BY <3>1, <3>2
  <2> QED
    BY <2>1, <2>2 DEF Pending
<1>3. "free" \notin GenPcs \union PoPcs \union RcPcs \union {"gen_fulfil"}
  BY DEF GenPcs, PoPcs, RcPcs
<1>4. ProcessingIsServed'
  BY <1>1, <1>2, <1>3 DEF BusyIsServed, ProcessingIsServed
<1>5. SendingIsServed'
  BY <1>1, <1>2, <1>3 DEF BusyIsServed, SendingIsServed
<1>6. ReceivedInline => ReceivedInline'
  BY <1>3 DEF ReceivedInline
<1>7. SubmittingIsServed'
  BY <1>1, <1>2, <1>3, <1>6 DEF BusyIsServed, SubmittingIsServed
<1> QED
  BY <1>4, <1>5, <1>7 DEF BusyIsServed

LEMMA ServedBySession ==
  ASSUME TypeOK, BusyIsServed, NEW s \in Sessions, SessionCall(s) \/ SessionStep(s)
  PROVE  BusyIsServed'
<1>1. CASE CallGenerate(s)
  <2>1. report'.state = "PROCESSING" /\ session'[s].pc = "send" /\ session'[s].op = "generate"
    BY <1>1, SetStateIs DEF CallGenerate, TypeOK, Session
  <2> QED
    BY <2>1 DEF BusyIsServed, ProcessingIsServed, SendingIsServed, SubmittingIsServed, Pending
<1>2. CASE WriteSendingToSupplier(s)
  <2>1. /\ report'.state = "SENDING_TO_SUPPLIER"
        /\ session'[s].pc = "send" /\ session'[s].op = "purchase"
    BY <1>2, SetStateIs DEF WriteSendingToSupplier, TypeOK, Session
  <2> QED
    BY <2>1 DEF BusyIsServed, ProcessingIsServed, SendingIsServed, SubmittingIsServed, Pending
<1>3. CASE CallReceiveConsignment(s)
  <2>1. /\ report'.state = "SUBMITTING_RECEIVALS"
        /\ session'[s].pc = "send" /\ session'[s].op = "receive"
    BY <1>3, SetStateIs DEF CallReceiveConsignment, TypeOK, Session
  <2> QED
    BY <2>1 DEF BusyIsServed, ProcessingIsServed, SendingIsServed, SubmittingIsServed, Pending
<1>4. CASE PutOpenedState(s)
  <2>1. report'.state \notin BusyStates
    BY <1>4, SetStateIs DEF PutOpenedState, Opened, BusyStates
  <2> QED
    BY <2>1, NotBusyIsServed
<1>5. CASE WriteReceivingPending(s)
  <2>1. report'.state \notin BusyStates
    BY <1>5, SetStateIs DEF WriteReceivingPending, BusyStates
  <2> QED
    BY <2>1, NotBusyIsServed
<1>6. CASE SendPayLoad(s)
  <2>1. PICK k \in Jobs :
          job[k].pc = "free" /\ job' = [job EXCEPT ![k] = NewJob(session[s].op, "queued")]
    BY <1>6 DEF SendPayLoad
  <2>2. job'[k].op = session[s].op /\ job'[k].pc = "queued"
    BY <2>1 DEF NewJob, TypeOK
  <2>3. \A l \in Jobs : job'[l] = job[l] \/ job[l].pc = "free"
    BY <2>1 DEF TypeOK
  <2>4. \A r \in Sessions \ {s} : session'[r] = session[r]
    BY <1>6 DEF SendPayLoad, Return, TypeOK
  <2> QED
    BY <1>6, <2>2, <2>3, <2>4, PendingIsSent DEF SendPayLoad
<1>7. CASE SendPayLoadFails(s)
  <2>1. \A r \in Sessions \ {s} : session'[r] = session[r]
    BY <1>7 DEF SendPayLoadFails, Return, TypeOK
  <2> QED
    BY <1>7, <2>1, PendingIsSent DEF SendPayLoadFails
<1>8. CASE \/ CallCreatePurchaseOrder(s) \/ CallSendDelivery(s) \/ FlagFulfilled(s)
           \/ \E p \in Pages : OpenPage(s, p)
           \/ \E i \in Items : EditItem(s, i)
  <2>1. session[s].pc # "send" /\ UNCHANGED <<report, supplier, job, unsent>>
    BY <1>8 DEF CallCreatePurchaseOrder, CallSendDelivery, FlagFulfilled, OpenPage, EditItem
  <2>2. \A r \in Sessions \ {s} : session'[r] = session[r]
    BY <1>8 DEF CallCreatePurchaseOrder, CallSendDelivery, FlagFulfilled, OpenPage, EditItem,
         Return, TypeOK
  <2> QED
    BY <2>1, <2>2, PendingIsSent
<1> QED
  BY <1>1, <1>2, <1>3, <1>4, <1>5, <1>6, <1>7, <1>8 DEF SessionCall, SessionStep

LEMMA ServedByWorker ==
  ASSUME TypeOK, InlineReceiptIsForComplete, BusyIsServed, NEW j \in Jobs, WorkerStep(j)
  PROVE  BusyIsServed'
<1>1. Frame(j) /\ Outcome(j)
  BY WorkerOutcome
<1>2. CASE report'.state = report.state /\ Advance(j)
  BY <1>1, <1>2, PendingAdvances
<1>3. CASE \/ report'.state \notin BusyStates
           \/ report'.state = "PROCESSING" /\ supplier = "PROCESSING"
  BY <1>1, <1>3, NotBusyIsServed DEF Frame
<1>4. CASE report'.state = "SUBMITTING_RECEIVALS" /\ job[j].pc \in RcPcs /\ job'[j].pc \in RcPcs
  <2>1. job'[j].op = "receive" \/ job'[j].op = "generate"
    BY <1>1, <1>4 DEF Frame, InlineReceiptIsForComplete
  <2> QED
    BY <1>4, <2>1 DEF BusyIsServed, ProcessingIsServed, SendingIsServed, SubmittingIsServed,
                      Pending, ReceivedInline
<1> QED
  BY <1>1, <1>2, <1>3, <1>4 DEF Outcome

\* An order that is being processed, sent or submitted is being worked upon, or a
\* request of that kind was lost: whatever the sessions and the workers do, in
\* whatever order, and however many calls fail.
THEOREM OrdersAreServed == Spec => []BusyIsServed
<1>1. Init => BusyIsServed
  BY DEF Init, BusyIsServed, ProcessingIsServed, SendingIsServed, SubmittingIsServed
<1>2. TypeOK /\ InlineReceiptIsForComplete /\ BusyIsServed /\ [Next]_vars => BusyIsServed'
  <2>1. ASSUME BusyIsServed, UNCHANGED vars PROVE BusyIsServed'
    BY <2>1 DEF vars, BusyIsServed, ProcessingIsServed, SendingIsServed, SubmittingIsServed,
                Pending, Lost, ReceivedInline
  <2> QED
    BY <2>1, ServedBySession, ServedByWorker DEF Next
<1> QED
  BY <1>1, <1>2, TypeCorrect, InlineReceipt, PTL DEF Spec

-----------------------------------------------------------------------------
(* An order is complete only after Vend was told that a consignment of it  *)
(* was received.                                                           *)
(*                                                                         *)
(* CompleteIsReceived is not inductive: the worker that completes the      *)
(* order must have been answered by Vend before (SettledIsReceived), and   *)
(* nothing may take a consignment out of "received" in the meantime        *)
(* (ReceivedStays).                                                        *)

SomeReceived == \E c \in Consignments : vend[c].status = "received"

SettledIsReceived == (\E j \in Jobs : job[j].pc = "rc_settle") => SomeReceived

-----------------------------------------------------------------------------
(* A received consignment stays received *)

StaysReceived == \A c \in Consignments : vend[c].status = "received"
                                            => vend'[c].status = "received"

LEMMA OtherStatusKept ==
  ASSUME TypeOK, NEW d, NEW st \in {"open", "sent", "received"},
         vend[d].status # "received", vend' = [vend EXCEPT ![d].status = st]
  PROVE  StaysReceived
  BY DEF TypeOK, Consignment, StaysReceived

LEMMA LinesKeepStatus ==
  ASSUME TypeOK, NEW d, NEW ls, vend' = [vend EXCEPT ![d].lines = ls]
  PROVE  StaysReceived
  BY DEF TypeOK, Consignment, StaysReceived

LEMMA CallVendKeepsStatus ==
  ASSUME TypeOK, NEW j \in Jobs, NEW i \in Items, CallVend(j, i)
  PROVE  StaysReceived
<1> DEFINE d == job[j].plan[i].line
<1>1. CASE vend' = [vend EXCEPT ![d].counted = @ \union {i}]
  BY <1>1 DEF TypeOK, Consignment, StaysReceived
<1>2. CASE vend' = [vend EXCEPT ![d].lines = @ \ {i}, ![d].counted = @ \ {i}]
  BY <1>2 DEF TypeOK, Consignment, StaysReceived
<1> QED
  BY <1>1, <1>2 DEF CallVend

LEMMA PurchaseKeepsReceived ==
  ASSUME TypeOK, NEW j \in Jobs, PurchaseStep(j) PROVE StaysReceived
<1>1. ASSUME NEW c \in Consignments, NewConsignment(c) PROVE StaysReceived
  BY <1>1, OtherStatusKept DEF NewConsignment
<1>2. CASE CreateStockOrder(j)
  BY <1>1, <1>2 DEF CreateStockOrder
<1>3. CASE PushLineItem(j)
  BY <1>3, LinesKeepStatus DEF PushLineItem
<1>4. CASE MarkAsSent(j)
  BY <1>4, OtherStatusKept DEF MarkAsSent, StaysReceived
<1>5. CASE PurchaseOrderUnanswered(j)
  BY <1>1, <1>5, OtherStatusKept, LinesKeepStatus DEF PurchaseOrderUnanswered
<1>6. CASE UNCHANGED vend
  BY <1>6 DEF StaysReceived
<1>7. \/ CreateStockOrder(j) \/ PushLineItem(j) \/ MarkAsSent(j)
      \/ PurchaseOrderUnanswered(j) \/ UNCHANGED vend
  BY DEF PurchaseStep, SaveConsignment, FindApprovedItems, SaveVendLine, AllPushed,
         SetFulfilmentPending, PurchaseOrderFails, SetErrorSending
<1> QED
  BY <1>2, <1>3, <1>4, <1>5, <1>6, <1>7

LEMMA ReceiveKeepsReceived ==
  ASSUME TypeOK, NEW j \in Jobs, ReceiveStep(j) PROVE StaysReceived
<1>1. ASSUME NEW i \in job[j].todo, CallVend(j, i) PROVE StaysReceived
  BY <1>1, JobFieldType, CallVendKeepsStatus
<1>2. ASSUME NEW d, vend' = [vend EXCEPT ![d].status = "received"] PROVE StaysReceived
  BY <1>2 DEF TypeOK, Consignment, StaysReceived
<1>3. CASE ReceiveLineItem(j)
  BY <1>1, <1>3 DEF ReceiveLineItem
<1>4. CASE MarkAsReceived(j)
  BY <1>2, <1>4 DEF MarkAsReceived, StaysReceived
<1>5. CASE ReceiveUnanswered(j)
  BY <1>1, <1>2, <1>5 DEF ReceiveUnanswered
<1>6. CASE UNCHANGED vend
  BY <1>6 DEF StaysReceived
<1>7. ReceiveLineItem(j) \/ MarkAsReceived(j) \/ ReceiveUnanswered(j) \/ UNCHANGED vend
  BY DEF ReceiveStep, FindReport, FindItems, FlagReceived, SetSubmitting, NoSuchLine,
         SaveVendDeleted, AllReceived, ReceiveFails, SetComplete, SetReceivingFailure
<1> QED
  BY <1>3, <1>4, <1>5, <1>6, <1>7

LEMMA ReceivedStays == TypeOK /\ [Next]_vars => StaysReceived
<1> SUFFICES ASSUME TypeOK, [Next]_vars PROVE StaysReceived
  OBVIOUS
<1>1. CASE UNCHANGED vend
  BY <1>1 DEF StaysReceived
<1>2. ASSUME NEW s \in Sessions, SessionCall(s) \/ SessionStep(s) PROVE UNCHANGED vend
  BY <1>2 DEF SessionCall, SessionStep, CallGenerate, CallCreatePurchaseOrder,
       CallSendDelivery, CallReceiveConsignment, OpenPage, EditItem, PutOpenedState,
       WriteSendingToSupplier, WriteReceivingPending, FlagFulfilled, SendPayLoad,
       SendPayLoadFails
<1>3. ASSUME NEW j \in Jobs, ReceiveMessage(j) \/ GiveUp(j) \/ Crash(j) \/ GenerateStep(j)
      PROVE  UNCHANGED vend
  BY <1>3 DEF ReceiveMessage, GiveUp, Crash, GenerateStep, GenerateRows, GenerateFails,
       SetDefaultState, FulfillAndReceive
<1>4. UNCHANGED vars => UNCHANGED vend
  BY DEF vars
<1> QED
  BY <1>1, <1>2, <1>3, <1>4, PurchaseKeepsReceived, ReceiveKeepsReceived DEF Next, WorkerStep

-----------------------------------------------------------------------------
(* A complete order was received *)

\* Only the worker that Vend has answered completes the order.
LEMMA CompletedBy ==
  ASSUME TypeOK, NEW j \in Jobs, WorkerStep(j),
         report'.state = "COMPLETE", report.state # "COMPLETE"
  PROVE  job[j].pc = "rc_settle"
<1>1. CASE SetComplete(j)
  BY <1>1 DEF SetComplete
<1>2. CASE ReceiveMessage(j) \/ GiveUp(j) \/ Crash(j) \/ GenerateStep(j)
  <2>1. ASSUME NEW st, SetState(st), st # "COMPLETE" PROVE FALSE
    BY <2>1, SetStateIs
  <2>2. CASE SetDefaultState(j)
    <3>1. CASE supplier \in {"unset"} \union notApprovedStates \union notReceivedStates
      BY <2>1, <2>2, <3>1 DEF SetDefaultState, notApprovedStates, notReceivedStates
    <3>2. CASE supplier \notin {"unset"} \union notApprovedStates \union notReceivedStates
      BY <2>2, <3>2 DEF SetDefaultState
    <3> QED
      BY <3>1, <3>2
  <2>3. CASE GenerateFails(j) \/ FulfillAndReceive(j)
    BY <2>1, <2>3 DEF GenerateFails, FulfillAndReceive
  <2>4. CASE ReceiveMessage(j) \/ GiveUp(j) \/ Crash(j) \/ GenerateRows(j)
    BY <2>4 DEF ReceiveMessage, GiveUp, Crash, GenerateRows
  <2> QED
    BY <1>2, <2>2, <2>3, <2>4 DEF GenerateStep
<1>3. CASE PurchaseStep(j)
  <2>1. CASE SaveConsignment(j)
    BY <2>1 DEF SaveConsignment, TypeOK, Report
  <2>2. CASE SetFulfilmentPending(j)
    BY <2>2 DEF SetFulfilmentPending
  <2>3. CASE SetErrorSending(j)
    BY <2>3, SetStateIs DEF SetErrorSending
  <2>4. SaveConsignment(j) \/ SetFulfilmentPending(j) \/ SetErrorSending(j) \/ UNCHANGED report
    BY <1>3 DEF PurchaseStep, CreateStockOrder, FindApprovedItems, PushLineItem,
         SaveVendLine, AllPushed, MarkAsSent, PurchaseOrderFails, PurchaseOrderUnanswered
  <2> QED
    BY <2>1, <2>2, <2>3, <2>4
<1>4. CASE ReceiveStep(j) /\ ~SetComplete(j)
  <2>1. CASE SetSubmitting(j) \/ SetReceivingFailure(j)
    BY <2>1, SetStateIs DEF SetSubmitting, SetReceivingFailure
  <2>2. SetSubmitting(j) \/ SetReceivingFailure(j) \/ UNCHANGED report
    BY <1>4 DEF ReceiveStep, FindReport, FindItems, FlagReceived, ReceiveLineItem, NoSuchLine,
         SaveVendDeleted, AllReceived, MarkAsReceived, ReceiveFails, ReceiveUnanswered
  <2> QED
    BY <2>1, <2>2
<1> QED
  BY <1>1, <1>2, <1>3, <1>4 DEF WorkerStep

\* Only Vend's answer brings a worker there.
LEMMA SettledBy ==
  ASSUME TypeOK, NEW j \in Jobs, WorkerStep(j), job'[j].pc = "rc_settle"
  PROVE  SomeReceived'
<1>1. CASE MarkAsReceived(j)
  <2>1. job[j].own # None
    BY <1>1, GotoJob DEF MarkAsReceived
  <2>2. job[j].own \in Consignments /\ vend' = [vend EXCEPT ![job[j].own].status = "received"]
    BY <1>1, <2>1, JobFieldType DEF MarkAsReceived
  <2> QED
    BY <2>2 DEF SomeReceived, TypeOK, Consignment
<1>2. CASE ReceiveMessage(j) \/ GiveUp(j) \/ Crash(j) \/ GenerateStep(j)
  BY <1>2, GotoJob, FinishJob DEF ReceiveMessage, GiveUp, Crash, GenerateStep, GenerateRows,
     GenerateFails, SetDefaultState, FulfillAndReceive
<1>3. CASE PurchaseStep(j)
  <2>1. CASE CreateStockOrder(j) \/ FindApprovedItems(j) \/ PushLineItem(j) \/ SaveVendLine(j)
    <3>1. CASE CreateStockOrder(j)
      BY <3>1 DEF CreateStockOrder, TypeOK, Job
    <3>2. CASE FindApprovedItems(j)
      BY <3>2 DEF FindApprovedItems, TypeOK, Job
    <3>3. CASE PushLineItem(j)
      BY <3>3 DEF PushLineItem, TypeOK, Job
    <3>4. CASE SaveVendLine(j)
      BY <3>4 DEF SaveVendLine, TypeOK, Job
    <3> QED
      BY <2>1, <3>1, <3>2, <3>3, <3>4
  <2>2. CASE \/ SaveConsignment(j) \/ AllPushed(j) \/ MarkAsSent(j) \/ PurchaseOrderFails(j)
             \/ PurchaseOrderUnanswered(j)
    BY <2>2, GotoJob DEF SaveConsignment, AllPushed, MarkAsSent, PurchaseOrderFails,
       PurchaseOrderUnanswered
  <2>3. CASE SetFulfilmentPending(j) \/ SetErrorSending(j)
    BY <2>3, FinishJob DEF SetFulfilmentPending, SetErrorSending, EndPurchaseOrder
  <2> QED
    BY <1>3, <2>1, <2>2, <2>3 DEF PurchaseStep
<1>4. CASE ReceiveStep(j) /\ ~MarkAsReceived(j)
  <2>1. CASE FindReport(j) \/ FindItems(j) \/ ReceiveLineItem(j) \/ SaveVendDeleted(j)
    <3>1. CASE FindReport(j)
      BY <3>1 DEF FindReport, TypeOK, Job
    <3>2. CASE FindItems(j)
      BY <3>2 DEF FindItems, TypeOK, Job
    <3>3. CASE SaveVendDeleted(j)
      BY <3>3 DEF SaveVendDeleted, TypeOK, Job
    <3>4. CASE ReceiveLineItem(j)
      <4>1. PICK i \in job[j].todo :
              job' = IF job[j].plan[i].act = "update"
                     THEN [job EXCEPT ![j].todo = @ \ {i}]
                     ELSE [job EXCEPT ![j].cur = i, ![j].pc = "rc_unlink"]
        BY <3>4 DEF ReceiveLineItem
      <4>2. job'[j].pc \in {"rc_items", "rc_unlink"}
        BY <3>4, <4>1 DEF ReceiveLineItem, TypeOK, Job
      <4> QED
        BY <4>2
    <3> QED
      BY <2>1, <3>1, <3>2, <3>3, <3>4
  <2>2. CASE ~(FindReport(j) \/ FindItems(j) \/ ReceiveLineItem(j) \/ SaveVendDeleted(j))
    BY <1>4, <2>2, GotoJob, FinishJob DEF ReceiveStep, FlagReceived, SetSubmitting, NoSuchLine,
       AllReceived, ReceiveFails, ReceiveUnanswered, SetComplete, SetReceivingFailure
  <2> QED
    BY <2>1, <2>2
<1> QED
  BY <1>1, <1>2, <1>3, <1>4 DEF WorkerStep

LEMMA SessionsDoNotComplete ==
  ASSUME TypeOK, NEW s \in Sessions, SessionCall(s) \/ SessionStep(s)
  PROVE  report'.state = "COMPLETE" => report.state = "COMPLETE"
<1>1. ASSUME NEW st, SetState(st), st # "COMPLETE" PROVE report'.state # "COMPLETE"
  BY <1>1, SetStateIs
<1>2. CASE \/ CallGenerate(s) \/ CallReceiveConsignment(s) \/ PutOpenedState(s)
           \/ WriteSendingToSupplier(s) \/ WriteReceivingPending(s)
  BY <1>1, <1>2 DEF CallGenerate, CallReceiveConsignment, PutOpenedState, Opened,
     WriteSendingToSupplier, WriteReceivingPending
<1>3. CASE UNCHANGED report
  BY <1>3
<1>4. \/ CallGenerate(s) \/ CallReceiveConsignment(s) \/ PutOpenedState(s)
      \/ WriteSendingToSupplier(s) \/ WriteReceivingPending(s) \/ UNCHANGED report
  BY DEF SessionCall, SessionStep, CallCreatePurchaseOrder, CallSendDelivery, OpenPage,
     EditItem, FlagFulfilled, SendPayLoad, SendPayLoadFails
<1> QED
  BY <1>2, <1>3, <1>4

LEMMA CompleteNext ==
  TypeOK /\ SettledIsReceived /\ CompleteIsReceived /\ [Next]_vars
    => SettledIsReceived' /\ CompleteIsReceived'
<1> SUFFICES ASSUME TypeOK, SettledIsReceived, CompleteIsReceived, [Next]_vars
             PROVE  SettledIsReceived' /\ CompleteIsReceived'
  OBVIOUS
<1>1. CompleteIsReceived <=> (report.state = "COMPLETE" => SomeReceived)
  BY DEF CompleteIsReceived, SomeReceived
<1>2. CompleteIsReceived' <=> (report'.state = "COMPLETE" => SomeReceived')
  BY DEF CompleteIsReceived, SomeReceived
<1>3. SomeReceived => SomeReceived'
  BY ReceivedStays DEF SomeReceived, StaysReceived
<1>4. CASE UNCHANGED vars
  BY <1>1, <1>2, <1>3, <1>4 DEF vars, SettledIsReceived
<1>5. ASSUME NEW s \in Sessions, SessionCall(s) \/ SessionStep(s)
      PROVE  SettledIsReceived' /\ CompleteIsReceived'
  <2>1. \A k \in Jobs : job'[k].pc = "rc_settle" => job[k].pc = "rc_settle"
    BY <1>5, SessionFrame
  <2> QED
    BY <1>1, <1>2, <1>3, <1>5, <2>1, SessionsDoNotComplete DEF SettledIsReceived
<1>6. ASSUME NEW j \in Jobs, WorkerStep(j)
      PROVE  SettledIsReceived' /\ CompleteIsReceived'
  <2>1. SettledIsReceived'
    <3>1. \A k \in Jobs \ {j} : job'[k] = job[k]
      BY <1>6, WorkerOutcome DEF Frame
    <3>2. job'[j].pc = "rc_settle" => SomeReceived'
      BY <1>6, SettledBy
    <3> QED
      BY <1>3, <3>1, <3>2 DEF SettledIsReceived
  <2>2. CompleteIsReceived'
    BY <1>1, <1>2, <1>3, <1>6, CompletedBy DEF SettledIsReceived
  <2> QED
    BY <2>1, <2>2
<1> QED
  BY <1>4, <1>5, <1>6 DEF Next

\* An order shown as complete was received in Vend: however the sessions and the
\* workers interleave, whatever fails, and whatever the supplier's default state is.
THEOREM CompleteOrdersAreReceived == Spec => []CompleteIsReceived
<1>1. Init => SettledIsReceived /\ CompleteIsReceived
  BY DEF Init, NewJob, SettledIsReceived, CompleteIsReceived
<1>2. TypeOK /\ SettledIsReceived /\ CompleteIsReceived /\ [Next]_vars
        => SettledIsReceived' /\ CompleteIsReceived'
  BY CompleteNext
<1> QED
  BY <1>1, <1>2, TypeCorrect, PTL DEF Spec
=============================================================================

------------------------------ MODULE MsdOrder ------------------------------
(***************************************************************************)
(* A stock order of a Dynamics organisation, from its generation to the    *)
(* transfer order in Dynamics.                                             *)
(*                                                                         *)
(* As in VendOrder, sessions of the admin UI call the API, the API puts    *)
(* messages into the work queue, and each message is delivered once to a   *)
(* worker process of its own.  The worker that generates the order         *)
(* recalculates the reorder points and saves the lines; the one that       *)
(* transfers it posts a header and then the approved lines, in batches     *)
(* that run at the same time.                                              *)
(***************************************************************************)
EXTENDS MsdQuantities, ReportStates

CONSTANTS
  Sessions,       \* concurrent sessions of the admin UI
  Jobs,           \* queue messages, each with the worker process it starts
  TransferOrders, \* the numbers that Dynamics may hand out
  None,           \* no transfer order
  Stocks,         \* the inventory to start from
  Reviewed,       \* bound: the inventory whose order is opened on a page
  Typed,          \* bound: the quantities a user may type in
  BatchSize,      \* ODATA_MAX_BATCH_COUNT
  Hundred,        \* 100 %, in a unit that makes the share of a batch a whole number
  MaxFaults       \* bound on failed calls, lost answers and crashes

ASSUME MsdOrderAssumption ==
  /\ None \notin TransferOrders
  /\ Stocks \subseteq Stock /\ Typed \subseteq Nat \ {0}
  /\ BatchSize \in Nat \ {0} /\ MaxFaults \in Nat
  /\ Hundred \in Nat \ {0} /\ \A n \in 1 .. Cardinality(Products) : Hundred % n = 0

VARIABLES
  stock,   \* what the order depends on; it is the same all along
  point,   \* stockUpReorderPoint of the products in the store
  report,  \* the ReportModel
  item,    \* its StockOrderLineitemModels
  msd,     \* the transfer orders in Dynamics
  session, \* the page each session shows and the call it is in
  job,     \* the queue messages and their workers
  faults,  \* calls failed, answers lost and processes crashed so far
  seen     \* history: what happened besides

vars == <<stock, point, report, item, msd, session, job, faults, seen>>

Ops == {"generate", "transfer"}
GenPcs == {"gen_store", "gen_points", "gen_lines", "gen_state", "gen_error"}
ToPcs == {"to_find", "to_state", "to_header", "to_lines", "to_push", "to_save", "to_error"}
Ended == {"done", "failed", "gave_up", "dead"}

Report == [state : REPORT_STATES \union {"absent"},
           transferOrderNumber : TransferOrders \union {None},
           percentagePushedToMSD : Nat]

\* originalOrderQuantity is 0 as long as there is no such line.
Item == [originalOrderQuantity : Nat, orderQuantity : Nat, approved : {"null", "true", "false"}]

TransferOrder == [posted : BOOLEAN, lines : [Products -> Nat]]

\* page: an editable page of the order is shown.
Session == [page : BOOLEAN, pc : {"idle", "put", "write", "send"}, op : Ops]

Job == [op       : Ops,
        pc       : {"free", "queued"} \union GenPcs \union ToPcs \union Ended,
        number   : TransferOrders \union {None},  \* createdTransferOrder
        quantity : [Products -> Nat],             \* TransferQuantity of the lines to push
        todo     : SUBSET SUBSET Products,        \* batches to send
        answered : SUBSET SUBSET Products,        \* batches to add to the percentage
        batches  : Nat]                           \* totalBatches

Nothing == [p \in Products |-> 0]
NoItem == [originalOrderQuantity |-> 0, orderQuantity |-> 0, approved |-> "null"]
NewJob(op, pc) == [op |-> op, pc |-> pc, number |-> None, quantity |-> Nothing, todo |-> {},
                   answered |-> {}, batches |-> 0]

TypeOK ==
  /\ stock \in Stock
  /\ point \in [Products -> Int]
  /\ report \in Report
  /\ item \in [Products -> Item]
  /\ msd \in [TransferOrders -> TransferOrder]
  /\ session \in [Sessions -> Session]
  /\ job \in [Jobs -> Job]
  /\ faults \in 0 .. MaxFaults
  /\ seen \in [unsent : SUBSET Ops, overlap : BOOLEAN, lateEdit : BOOLEAN, lostBatch : BOOLEAN,
               retry : BOOLEAN, unanswered : SUBSET TransferOrders]

Init ==
  /\ stock \in Stocks
  /\ point = stock.saved
  /\ report = [state |-> "absent", transferOrderNumber |-> None, percentagePushedToMSD |-> 0]
  /\ item = [p \in Products |-> NoItem]
  /\ msd = [n \in TransferOrders |-> [posted |-> FALSE, lines |-> Nothing]]
  /\ session = [s \in Sessions |-> [page |-> FALSE, pc |-> "idle", op |-> "generate"]]
  /\ job = [j \in Jobs |-> NewJob("generate", "free")]
  /\ faults = 0
  /\ seen = [unsent |-> {}, overlap |-> FALSE, lateEdit |-> FALSE, lostBatch |-> FALSE,
             retry |-> FALSE, unanswered |-> {}]

-----------------------------------------------------------------------------
(* Helpers *)

SetState(st) == report' = [report EXCEPT !.state = st]
Goto(j, pc) == job' = [job EXCEPT ![j].pc = pc]
Finish(j, pc) == job' = [job EXCEPT ![j] = [NewJob(job[j].op, pc) EXCEPT !.number = job[j].number]]
Return(s) == session' = [session EXCEPT ![s].pc = "idle"]
Fault == faults < MaxFaults /\ faults' = faults + 1

Running(j) == job[j].pc \notin {"free", "queued"} \union Ended

\* A transfer has been accepted and has not ended yet.
Transferring ==
  \/ \E s \in Sessions : session[s].pc \in {"write", "send"} /\ session[s].op = "transfer"
  \/ \E j \in Jobs : job[j].op = "transfer" /\ (job[j].pc = "queued" \/ Running(j))

\* Bound of the model: a call that ends in a message starts only while one is left for it.
MessageLeft == Cardinality({s \in Sessions : session[s].pc \in {"write", "send"}})
                 < Cardinality({j \in Jobs : job[j].pc = "free"})

Editable == {"GENERATED", "APPROVAL_IN_PROCESS", "ERROR_SENDING_TO_SUPPLIER", "PROCESSING_FAILURE"}

-----------------------------------------------------------------------------
(* The admin UI and the API *)

\* The order of the store is created; there is one in the model.
CallGenerate(s) ==
  /\ report.state = "absent" /\ MessageLeft
  /\ session[s].pc = "idle"
  /\ SetState("PROCESSING")
  /\ session' = [session EXCEPT ![s].pc = "send", ![s].op = "generate"]
  /\ UNCHANGED <<stock, point, item, msd, job, faults, seen>>

\* Only an editable page can do anything.
OpenPage(s) ==
  /\ session[s].pc = "idle" /\ ~session[s].page
  /\ report.state \in Editable /\ stock \in Reviewed
  /\ session' = [session EXCEPT ![s].page = TRUE,
                                ![s].pc = IF report.state = "GENERATED" THEN "put" ELSE "idle"]
  /\ UNCHANGED <<stock, point, report, item, msd, job, faults, seen>>

PutOpenedState(s) ==
  /\ session[s].pc = "put"
  /\ SetState("APPROVAL_IN_PROCESS")
  /\ Return(s)
  /\ UNCHANGED <<stock, point, item, msd, job, faults, seen>>

\* updateLineItems: approveItem, with the quantity that was typed in, or removeItem.
EditItem(s, p) ==
  /\ session[s].page /\ session[s].pc \in {"idle", "put"}
  /\ item[p].orderQuantity > 0
  /\ \/ \E q \in Typed : item' = [item EXCEPT ![p].approved = "true", ![p].orderQuantity = q]
     \/ item' = [item EXCEPT ![p].approved = "false"]
  /\ seen' = [seen EXCEPT !.lateEdit = @ \/ Transferring \/ report.transferOrderNumber # None]
  /\ UNCHANGED <<stock, point, report, msd, session, job, faults>>

\* Mutant: the number is not looked at.
MayCreateTransferOrderAgain == report.state \in {"APPROVAL_IN_PROCESS", "ERROR_PUSHING_TO_MSD"}

MayCreateTransferOrder ==
  /\ report.transferOrderNumber = None
  /\ report.state \in {"APPROVAL_IN_PROCESS", "ERROR_PUSHING_TO_MSD"}

\* The button, and createTransferOrderMSD up to the answer of findById.  The items that the
\* page shows as approved are those that are.
CallCreateTransferOrder(s) ==
  /\ session[s].page /\ session[s].pc \in {"idle", "put"}
  /\ \E p \in Products : item[p].approved = "true"
  /\ MayCreateTransferOrder /\ MessageLeft
  /\ session' = [session EXCEPT ![s].pc = "write", ![s].op = "transfer"]
  /\ seen' = [seen EXCEPT !.overlap = @ \/ Transferring,
                          !.retry = @ \/ \E j \in Jobs : job[j].op = "transfer" /\ job[j].pc \in Ended]
  /\ UNCHANGED <<stock, point, report, item, msd, job, faults>>

\* The answer is sent before the message; the page then goes back to the list of orders.
WritePushingToMSD(s) ==
  /\ session[s].pc = "write"
  /\ SetState("PUSHING_TO_MSD")
  /\ session' = [session EXCEPT ![s].pc = "send", ![s].page = FALSE]
  /\ UNCHANGED <<stock, point, item, msd, job, faults, seen>>

SendPayLoad(s) ==
  /\ session[s].pc = "send"
  /\ \E j \in Jobs : job[j].pc = "free" /\ job' = [job EXCEPT ![j] = NewJob(session[s].op, "queued")]
  /\ Return(s)
  /\ UNCHANGED <<stock, point, report, item, msd, faults, seen>>

SendPayLoadFails(s) ==
  /\ session[s].pc = "send"
  /\ Fault
  /\ seen' = [seen EXCEPT !.unsent = @ \union {session[s].op}]
  /\ Return(s)
  /\ UNCHANGED <<stock, point, report, item, msd, job>>

-----------------------------------------------------------------------------
(* The queue *)

ReceiveMessage(j) ==
  /\ job[j].pc = "queued"
  /\ Goto(j, IF job[j].op = "generate" THEN "gen_store" ELSE "to_find")
  /\ UNCHANGED <<stock, point, report, item, msd, session, faults, seen>>

Crash(j) ==
  /\ Running(j)
  /\ Fault
  /\ Finish(j, "dead")
  /\ UNCHANGED <<stock, point, report, item, msd, session, seen>>

\* The database cannot be reached, or a write of the order's state fails: the worker sends
\* a notification and the state stays.
GiveUp(j) ==
  /\ job[j].pc \in {"gen_store", "gen_state", "gen_error", "to_find", "to_save", "to_error"}
  /\ Fault
  /\ Finish(j, "gave_up")
  /\ UNCHANGED <<stock, point, report, item, msd, session, seen>>

-----------------------------------------------------------------------------
(* generate-stock-order-msd.js *)

FindStore(j) ==
  /\ job[j].pc = "gen_store"
  /\ Goto(j, "gen_points")
  /\ UNCHANGED <<stock, point, report, item, msd, session, faults, seen>>

\* generate-reorder-points.js.  The points that are due are updated in batches, one after the
\* other; an error leaves the rest as it was and is swallowed.  The dates and ranges that are
\* saved with them matter to a later order only, and there is one in the model.
GenerateReorderPoints(j) ==
  /\ job[j].pc = "gen_points"
  /\ \E updated \in SUBSET ToCalculate(stock) :
       /\ point' = [p \in Products |-> IF p \in updated THEN ReorderPoint(stock, p) ELSE point[p]]
       /\ IF updated = ToCalculate(stock) THEN UNCHANGED faults ELSE Fault
  /\ Goto(j, "gen_lines")
  /\ UNCHANGED <<stock, report, item, msd, session, seen>>

\* saveLineItems: a line without a quantity is not inserted.
SaveLineItems(S) ==
  item' = [p \in Products |->
             IF p \in S THEN LET q == OrderQuantity(stock, point, p)
                             IN [NoItem EXCEPT !.originalOrderQuantity = q, !.orderQuantity = q]
             ELSE item[p]]

\* The inventories are read and the lines inserted.  The other orders of the day are looked
\* for among those that have no transferOrderNumber at all, and every order is created with
\* one that is null, so none is ever found.
GenerateStockOrder(j) ==
  /\ job[j].pc = "gen_lines"
  /\ LET toOrder == LineItemsToOrder(stock, point)
         \* An empty bulk operation is an error.
         empty   == \A p \in toOrder : OrderQuantity(stock, point, p) = 0
     IN /\ SaveLineItems(toOrder)
        /\ Goto(j, IF toOrder # {} /\ empty THEN "gen_error" ELSE "gen_state")
  /\ UNCHANGED <<stock, point, report, msd, session, faults, seen>>

\* A read fails, or some of the lines cannot be inserted.
GenerateFails(j) ==
  /\ job[j].pc = "gen_lines"
  /\ Fault
  /\ \E saved \in SUBSET LineItemsToOrder(stock, point) : SaveLineItems(saved)
  /\ Goto(j, "gen_error")
  /\ UNCHANGED <<stock, point, report, msd, session, seen>>

SetGenerated(j) ==
  /\ job[j].pc = "gen_state"
  /\ SetState("GENERATED")
  /\ Finish(j, "done")
  /\ UNCHANGED <<stock, point, item, msd, session, faults, seen>>

SetProcessingFailure(j) ==
  /\ job[j].pc = "gen_error"
  /\ SetState("PROCESSING_FAILURE")
  /\ Finish(j, "failed")
  /\ UNCHANGED <<stock, point, item, msd, session, faults, seen>>

-----------------------------------------------------------------------------
(* generate-transfer-order-msd.js *)

\* The state of the order that is found is not looked at.
FindReport(j) ==
  /\ job[j].pc = "to_find"
  /\ Goto(j, "to_state")
  /\ UNCHANGED <<stock, point, report, item, msd, session, faults, seen>>

SetPushingToMSD(j) ==
  /\ job[j].pc = "to_state"
  /\ SetState("PUSHING_TO_MSD")
  /\ Goto(j, "to_header")
  /\ UNCHANGED <<stock, point, item, msd, session, faults, seen>>

NewTransferOrder(n) ==
  /\ ~msd[n].posted
  /\ msd' = [msd EXCEPT ![n].posted = TRUE]

PostHeader(j) ==
  /\ job[j].pc = "to_header"
  /\ \E n \in TransferOrders :
       NewTransferOrder(n) /\ job' = [job EXCEPT ![j].pc = "to_lines", ![j].number = n]
  /\ UNCHANGED <<stock, point, report, item, session, faults, seen>>

\* The header was created and the answer is lost.
PostHeaderUnanswered(j) ==
  /\ job[j].pc = "to_header"
  /\ Fault
  /\ \E n \in TransferOrders :
       NewTransferOrder(n) /\ seen' = [seen EXCEPT !.unanswered = @ \union {n}]
  /\ Goto(j, "to_error")
  /\ UNCHANGED <<stock, point, report, item, session>>

\* Mutant: every line that has not been removed is pushed.
LinesNotRemoved == {p \in Products : item[p].orderQuantity > 0 /\ item[p].approved # "false"}

LinesToPush == {p \in Products : item[p].approved = "true"}

\* pushMSDDataInBatches: all batches but one are full, and there is at least one.  (The code
\* skips a line whose product is gone; nothing deletes a ProductModel.)
FindApprovedItems(j) ==
  /\ job[j].pc = "to_lines"
  /\ IF LinesToPush = {}
       THEN Goto(j, "to_error")
       ELSE \E batches \in SUBSET ((SUBSET LinesToPush) \ {{}}) :
              /\ UNION batches = LinesToPush
              /\ \A b, c \in batches : b # c => b \intersect c = {}
              /\ \A b \in batches : Cardinality(b) <= BatchSize
              /\ Cardinality({b \in batches : Cardinality(b) < BatchSize}) <= 1
              /\ job' = [job EXCEPT ![j].pc = "to_push", ![j].todo = batches,
                                    ![j].batches = Cardinality(batches),
                                    ![j].quantity = [p \in Products |-> IF p \in LinesToPush
                                                       THEN item[p].orderQuantity ELSE 0]]
  /\ UNCHANGED <<stock, point, report, item, msd, session, faults, seen>>

\* A changeset is taken as a whole.
Send(j, b, taken, answered) ==
  /\ b \in job[j].todo
  /\ msd' = IF taken THEN [msd EXCEPT ![job[j].number].lines =
                             [p \in Products |-> IF p \in b THEN job[j].quantity[p] ELSE @[p]]]
            ELSE msd
  /\ job' = [job EXCEPT ![j].todo = @ \ {b}, ![j].answered = IF answered THEN @ \union {b} ELSE @]

SendBatchRequest(j) ==
  /\ job[j].pc = "to_push"
  /\ \E b \in job[j].todo : Send(j, b, TRUE, TRUE)
  /\ UNCHANGED <<stock, point, report, item, session, faults, seen>>

\* Dynamics refuses the changeset: the status of the answer is a good one all the same, and
\* its body is not read.  Or the call fails, its answer is lost or cannot be counted, and
\* the worker moves on.
BatchIsLost(j) ==
  /\ job[j].pc = "to_push"
  /\ Fault
  /\ \E b \in job[j].todo, taken, answered \in BOOLEAN : ~(taken /\ answered) /\ Send(j, b, taken, answered)
  /\ seen' = [seen EXCEPT !.lostBatch = TRUE]
  /\ UNCHANGED <<stock, point, report, item, session>>

\* $inc, by (1 / totalBatches) * 100.
UpdatePercentage(j) ==
  /\ job[j].pc = "to_push"
  /\ \E b \in job[j].answered : job' = [job EXCEPT ![j].answered = @ \ {b}]
  /\ report' = [report EXCEPT !.percentagePushedToMSD = @ + Hundred \div job[j].batches]
  /\ UNCHANGED <<stock, point, item, msd, session, faults, seen>>

\* Mutant: the first batch that is answered ends the push.
BatchesAnsweredOne(j) ==
  /\ job[j].pc = "to_push"
  /\ Cardinality(job[j].todo) < job[j].batches /\ job[j].answered = {}
  /\ Goto(j, "to_save")
  /\ UNCHANGED <<stock, point, report, item, msd, session, faults, seen>>

BatchesAnswered(j) ==
  /\ job[j].pc = "to_push"
  /\ job[j].todo = {} /\ job[j].answered = {}
  /\ Goto(j, "to_save")
  /\ UNCHANGED <<stock, point, report, item, msd, session, faults, seen>>

SaveTransferOrderNumber(j) ==
  /\ job[j].pc = "to_save"
  /\ report' = [report EXCEPT !.state = "FULFILMENT_PENDING", !.transferOrderNumber = job[j].number]
  /\ Finish(j, "done")
  /\ UNCHANGED <<stock, point, item, msd, session, faults, seen>>

\* Mutant: only what fails after the header has been posted is written to the order.
TransferFailsSilently(j) ==
  /\ job[j].pc \in {"to_state", "to_header", "to_lines", "to_push"}
  /\ Fault
  /\ IF job[j].pc \in {"to_state", "to_header"} THEN Finish(j, "failed") ELSE Goto(j, "to_error")
  /\ UNCHANGED <<stock, point, report, item, msd, session, seen>>

\* A call before the batches fails, the token of Dynamics among them.
TransferFails(j) ==
  /\ job[j].pc \in {"to_state", "to_header", "to_lines"}
  /\ Fault
  /\ Goto(j, "to_error")
  /\ UNCHANGED <<stock, point, report, item, msd, session, seen>>

SetErrorPushing(j) ==
  /\ job[j].pc = "to_error"
  /\ SetState("ERROR_PUSHING_TO_MSD")
  /\ Finish(j, "failed")
  /\ UNCHANGED <<stock, point, item, msd, session, faults, seen>>

-----------------------------------------------------------------------------

SessionCall(s) ==
  CallGenerate(s) \/ OpenPage(s) \/ CallCreateTransferOrder(s) \/ \E p \in Products : EditItem(s, p)
SessionStep(s) ==
  PutOpenedState(s) \/ WritePushingToMSD(s) \/ SendPayLoad(s) \/ SendPayLoadFails(s)
GenerateStep(j) ==
  \/ FindStore(j) \/ GenerateReorderPoints(j) \/ GenerateStockOrder(j) \/ GenerateFails(j)
  \/ SetGenerated(j) \/ SetProcessingFailure(j)
TransferStep(j) ==
  \/ FindReport(j) \/ SetPushingToMSD(j) \/ PostHeader(j) \/ PostHeaderUnanswered(j)
  \/ FindApprovedItems(j) \/ SendBatchRequest(j) \/ BatchIsLost(j) \/ UpdatePercentage(j)
  \/ BatchesAnswered(j) \/ SaveTransferOrderNumber(j) \/ TransferFails(j) \/ SetErrorPushing(j)

Next == \/ \E s \in Sessions : SessionCall(s) \/ SessionStep(s)
        \/ \E j \in Jobs : ReceiveMessage(j) \/ Crash(j) \/ GiveUp(j) \/ GenerateStep(j) \/ TransferStep(j)

Spec == Init /\ [][Next]_vars

-----------------------------------------------------------------------------
(* Properties *)

\* The reorder points an order is meant to be made from: one that was calculated today, from
\* the range of sales that the organisation looks at, is kept; any other is calculated.  (One
\* that was never calculated is kept too while the organisation has no range.)
MeantPoints ==
  LET kept(p) == /\ ~stock.everyTime
                 /\ \/ stock.calculated[p] = "today" /\ stock.calculatedFor[p] = stock.range
                    \/ stock.calculated[p] = "never" /\ stock.range = Unset
  IN [p \in Products |-> IF kept(p) THEN stock.saved[p] ELSE ReorderPoint(stock, p)]

\* An order that was generated without a failure, from reorder points of which some were kept:
\* an option below its minimum that the warehouse has enough of is filled up to its maximum,
\* and goes beyond it by no more than the rounding of its lines unless returns make a reorder
\* point negative; no other option gets anything, and no product more than the warehouse has.
\* (A multiplier is there to change what fills an option, so options without one.)
OrderFillsOptions ==
  LET points     == MeantPoints
      goal(o)    == MaxOf(stock, points, o) - Max({0, SumOf(stock.level, In(o))})
      got(o)     == SumOf([p \in Products |-> item[p].originalOrderQuantity], In(o))
      lacks(o)   == ToReplenish(stock, points, o) /\ goal(o) > 0
      plain(o)   == \A p \in In(o) : stock.multiplier[p] = Unset
      returns(o) == \E p \in In(o) : points[p] < 0
      enough(o)  == InWarehouse(stock, o) /\ \A p \in In(o) : stock.warehouse[p] >= goal(o)
  IN (faults = 0 /\ report.state \notin {"absent", "PROCESSING", "PROCESSING_FAILURE"}) =>
       /\ \A p \in Products : item[p].originalOrderQuantity <= Max({0, stock.warehouse[p]})
       /\ \A o \in Options :
            /\ ~lacks(o) => got(o) = 0
            /\ lacks(o) /\ plain(o) =>
                 /\ ~returns(o) => 2 * got(o) <= 2 * goal(o) + Cardinality(In(o))
                 /\ enough(o) => 2 * got(o) >= 2 * goal(o) - Cardinality(In(o))

\* An order in PROCESSING or PUSHING_TO_MSD, which neither a page nor the API will touch
\* again, has a request, a message or a worker that will move it on; unless the queue
\* refused the message, or the worker died or could not write the state.
BusyIsServed ==
  LET served(op) == \/ \E s \in Sessions : session[s].pc = "send" /\ session[s].op = op
                    \/ \E j \in Jobs : job[j].op = op /\ (job[j].pc = "queued" \/ Running(j))
                    \/ op \in seen.unsent
                    \/ \E j \in Jobs : job[j].op = op /\ job[j].pc \in {"gave_up", "dead"}
  IN /\ report.state = "PROCESSING" => served("generate")
     /\ report.state = "PUSHING_TO_MSD" => served("transfer")

\* The transfer order of an order has the lines that are approved and no others, with
\* their quantities, and all of them were counted as pushed; unless a batch was lost, an
\* item was changed on a page opened before, or two requests were accepted at once.  The
\* percentage also counts what an earlier attempt pushed.
TransferOrderHasTheLines ==
  LET n == report.transferOrderNumber
  IN (n # None /\ ~seen.lostBatch /\ ~seen.lateEdit /\ ~seen.overlap) =>
       /\ \A p \in Products :
            msd[n].lines[p] = IF item[p].approved = "true" THEN item[p].orderQuantity ELSE 0
       /\ \/ report.percentagePushedToMSD = Hundred
          \/ seen.retry /\ report.percentagePushedToMSD > Hundred

\* Dynamics has no transfer order besides the one whose number the order has, those that a
\* worker is making and those of attempts that failed; unless two requests were accepted at
\* once.  In particular a transferred order is not transferred again.
OneTransferOrder ==
  seen.overlap \/
    \A n \in TransferOrders : msd[n].posted =>
      \/ n = report.transferOrderNumber
      \/ n \in seen.unanswered
      \/ \E j \in Jobs : job[j].number = n /\ job[j].pc # "done"
=============================================================================

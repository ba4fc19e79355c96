----------------------------- MODULE OrderLines -----------------------------
(***************************************************************************)
(* The line items of one Vend order while files are imported into it and   *)
(* users add products, fulfil and receive it.                              *)
(*                                                                         *)
(* The line items live in two places: in the database, and as products of  *)
(* the consignment in Vend, to which vendConsignmentProductId links them.  *)
(* Three kinds of programs add line items after the purchase order was     *)
(* sent, and each has to push what it adds:                                *)
(*   - the file worker creates an order, or fulfils the one that matches;  *)
(*   - addProductToStockOrder, called from any page of the order;          *)
(*   - the pages themselves, which edit the quantities of what is there.   *)
(*                                                                         *)
(* The purchase order worker and the receive worker, which VendOrder       *)
(* models call by call, are one step each here.                            *)
(***************************************************************************)
EXTENDS Naturals, Sequences, FiniteSets, Functions, ReportStates

CONSTANTS
  Products,    \* the products of the order's supplier
  Users,       \* concurrent sessions of the admin UI
  Imports,     \* queue messages, each with a file and its worker process
  Files,       \* the files there are: orderStatus and rows
  Ordered,     \* the products of the order that was sent, a sequence
  Others,      \* approved products of the other open orders of store and supplier
  MaxLines,    \* bound on the line items of the order
  MaxQuantity, \* bound on a quantity
  MaxFaults,   \* bound on failed calls and lost answers
  None         \* no line item

Quantity == 0 .. MaxQuantity
NullBool == {"null", "true", "false"}
Row == [nr : Nat, product : Products, orderQuantity : Quantity, fulfilledQuantity : Quantity]

ASSUME LinesAssumption ==
  /\ Ordered \in Seq(Products) /\ Len(Ordered) <= MaxLines /\ IsInjective(Ordered)
  /\ MaxLines \in Nat /\ MaxQuantity \in Nat \ {0} /\ MaxFaults \in Nat
  /\ None \notin 1 .. MaxLines
  /\ Files # {}
  /\ \A f \in Files : /\ f.orderStatus \in REPORT_STATES
                       /\ f.rows \subseteq Row /\ IsFiniteSet(f.rows)
                       /\ Cardinality(f.rows) <= MaxLines
  /\ \A o \in Others : o \subseteq Products /\ IsFiniteSet(o)

VARIABLES
  report, \* the ReportModel, and its consignment in Vend
  line,   \* its line items, in the order they were created
  vend,   \* how many products the program created in the consignment, by product
  user,   \* the page each session shows and the call it is in
  import, \* the messages and their workers
  faults, \* calls failed and answers lost so far
  mixed   \* history: what the properties make exceptions of

vars == <<report, line, vend, user, import, faults, mixed>>

-----------------------------------------------------------------------------
(* Types *)

Report == [state         : REPORT_STATES \union {"absent", ""},
           consignment   : {"none", "open", "deleted"},
           deletedAt     : BOOLEAN,
           receiving     : BOOLEAN,  \* the receive worker has a message
           discrepancies : 0 .. MaxLines]

\* counted: receivedQuantity is set, which a file does not do.  linked:
\* vendConsignmentProductId is set.
Line == [product           : Products,
         approved          : NullBool,
         orderQuantity     : Quantity,
         fulfilled         : NullBool,
         fulfilledQuantity : Quantity,
         receivedQuantity  : Quantity,
         counted           : BOOLEAN,
         linked            : BOOLEAN]

Pages == {"generated", "fulfill", "receive"}

User == [page    : Pages \union {"none"},
         opening : BOOLEAN,       \* the PUT of the opened state is on its way
         loaded  : BOOLEAN,       \* isDiscrepancyLoaded
         pc      : {"idle", "find", "create", "save", "push", "link", "all", "send", "flag",
                    "count", "delete"},
         product : Products \union {None},
         state   : REPORT_STATES, \* of the order, as the call read it
         id      : 1 .. MaxLines \union {None},
         found   : Line \union {None},
         all     : SUBSET (1 .. MaxLines),
         count   : 0 .. MaxLines]

Import == [pc     : {"free", "map", "create", "lines", "purchase", "status", "match", "find",
                     "write", "select", "push", "link", "done", "failed"},
           file   : Files,
           find   : SUBSET Row,    \* rows whose line item is still to be found
           new    : SUBSET Row,    \* rows that have none
           toVend : BOOLEAN,       \* pushToVend
           todo   : SUBSET (1 .. MaxLines)] \* line items still to push

\* overlap: two calls ran at once.  unlinked: Vend created a product whose id was not saved.
\* unpushed: a line item joined the order and nothing is to push it: it was added in a
\* state in which the API does not push, or by a row of a file that delivers none; or a
\* delivery that a file worker was to push was taken back first.
\* partial: the discrepancies were loaded for one category only, or line items changed
\* after they were loaded, other than by an edit of the session that loaded them.
Mixed == [overlap : BOOLEAN, unlinked : BOOLEAN, unpushed : BOOLEAN, partial : BOOLEAN]

TypeOK ==
  /\ report \in Report
  /\ line \in Seq(Line) /\ Len(line) <= MaxLines
  /\ vend \in [Products -> Nat]
  /\ user \in [Users -> User]
  /\ import \in [Imports -> Import]
  /\ faults \in 0 .. MaxFaults
  /\ mixed \in Mixed

NewLine(p) == [product |-> p, approved |-> "null", orderQuantity |-> 0,
               fulfilled |-> "null", fulfilledQuantity |-> 0, receivedQuantity |-> 0,
               counted |-> TRUE, linked |-> FALSE]
IdleUser == [page |-> "none", opening |-> FALSE, loaded |-> FALSE, pc |-> "idle",
             product |-> None, state |-> "FULFILMENT_PENDING", id |-> None,
             found |-> None, all |-> {}, count |-> 0]
NewImport(f, pc) == [pc |-> pc, file |-> f, find |-> {}, new |-> {}, toVend |-> FALSE,
                     todo |-> {}]

\* Either there is no order yet, or one was sent: a line item per product, approved
\* and in Vend, or left out in the review.
Sent(approved) ==
  /\ report = [state |-> "FULFILMENT_PENDING", consignment |-> "open", deletedAt |-> FALSE,
               receiving |-> FALSE, discrepancies |-> 0]
  /\ line = [l \in DOMAIN Ordered |->
       IF Ordered[l] \in approved
       THEN [NewLine(Ordered[l]) EXCEPT !.approved = "true", !.orderQuantity = 1, !.linked = TRUE]
       ELSE [NewLine(Ordered[l]) EXCEPT !.approved = "false"]]
  /\ vend = [p \in Products |-> IF p \in approved THEN 1 ELSE 0]

Absent ==
  /\ report = [state |-> "absent", consignment |-> "none", deletedAt |-> FALSE,
               receiving |-> FALSE, discrepancies |-> 0]
  /\ line = <<>>
  /\ vend = [p \in Products |-> 0]

Init ==
  /\ Absent \/ \E approved \in SUBSET Range(Ordered) \ {{}} : Sent(approved)
  /\ user = [u \in Users |-> IdleUser]
  /\ import = [m \in Imports |-> NewImport(CHOOSE f \in Files : TRUE, "free")]
  /\ faults = 0
  /\ mixed = [overlap |-> FALSE, unlinked |-> FALSE, unpushed |-> FALSE, partial |-> FALSE]

-----------------------------------------------------------------------------
(* Helpers *)

Ids == DOMAIN line
\* Mutant: only the approved line items are looked for.
ApprovedLinesOf(p) == {l \in Ids : line[l].product = p /\ line[l].approved = "true"}

LinesOf(p) == {l \in Ids : line[l].product = p}
First(ids) == CHOOSE l \in ids : \A k \in ids : l <= k

SetState(st) == report' = [report EXCEPT !.state = st]
Fault == faults < MaxFaults /\ faults' = faults + 1

Calling(u) == user[u].pc # "idle"
Running(m) == import[m].pc \notin {"free", "done", "failed"}
Busy == (\E u \in Users : Calling(u)) \/ (\E m \in Imports : Running(m))
NoteOverlap == mixed' = [mixed EXCEPT !.overlap = @ \/ Busy]

\* The discrepancies that some session has loaded, or submitted.
Shown(users) == \/ \E v \in users : user[v].loaded
                \/ report.receiving \/ report.state = "COMPLETE"

NoteStale(users) == mixed' = [mixed EXCEPT !.partial = @ \/ Shown(users)]

Call(u, pc) == user' = [user EXCEPT ![u].pc = pc]
Return(u) == user' = [user EXCEPT ![u] = [IdleUser EXCEPT !.page = user[u].page,
                                           !.opening = user[u].opening,
                                           !.loaded = user[u].loaded]]
Leave(u) == user' = [user EXCEPT ![u] = IdleUser]

Goto(m, pc) == import' = [import EXCEPT ![m].pc = pc]
Finish(m, pc) == import' = [import EXCEPT ![m] = NewImport(import[m].file, pc)]

Rejects == report.consignment # "open" \* Vend knows no such consignment

BeingPushed(l) == \/ \E u \in Users : user[u].id = l
                  \/ \E m \in Imports : import[m].toVend

\* A product of the consignment is created in Vend.
CreateInVend(l) == vend' = [vend EXCEPT ![line[l].product] = @ + 1]
Link(l) == line' = [line EXCEPT ![l].linked = TRUE]

-----------------------------------------------------------------------------
(* The pages of the order *)

OpensIn(page) == CASE page = "generated" -> {"GENERATED", "APPROVAL_IN_PROCESS"}
                   [] page = "fulfill"   -> {"FULFILMENT_PENDING", "FULFILMENT_IN_PROCESS"}
                   [] OTHER              -> {"RECEIVING_PENDING", "RECEIVING_IN_PROCESS",
                                             "RECEIVING_FAILURE"}

OpenedState(page) == CASE page = "generated" -> "APPROVAL_IN_PROCESS"
                       [] page = "fulfill"   -> "FULFILMENT_IN_PROCESS"
                       [] OTHER              -> "RECEIVING_IN_PROCESS"

OpenPage(u, page) ==
  /\ ~Calling(u) /\ user[u].page # page
  /\ report.state \in OpensIn(page) /\ ~report.deletedAt
  /\ user' = [user EXCEPT ![u] = [IdleUser EXCEPT !.page = page,
       !.opening = report.state \in {"GENERATED", "FULFILMENT_PENDING", "RECEIVING_PENDING"}]]
  /\ UNCHANGED <<report, line, vend, import, faults, mixed>>

\* The page's PUT arrives whatever the order's state is by then.
PutOpenedState(u) ==
  /\ user[u].opening
  /\ SetState(OpenedState(user[u].page))
  /\ user' = [user EXCEPT ![u].opening = FALSE]
  /\ UNCHANGED <<line, vend, import, faults, mixed>>

\* fulfillItem and removeItem of the fulfil page, on an approved line item.
EditFulfilled(u, l, q) ==
  /\ ~Calling(u) /\ user[u].page = "fulfill"
  /\ line[l].approved = "true"
  /\ line' = [line EXCEPT ![l].fulfilledQuantity = q,
                          ![l].fulfilled = IF q > 0 THEN "true" ELSE "false"]
  /\ mixed' = [mixed EXCEPT !.overlap = @ \/ Busy, !.partial = @ \/ Shown(Users),
       !.unpushed = @ \/ (q = 0 /\ \E m \in Imports : import[m].pc = "select")]
  /\ UNCHANGED <<report, vend, user, import, faults>>

\* fulfillAllLineItems: the approved line items are read,
FulfillAll(u) ==
  /\ ~Calling(u) /\ user[u].page = "fulfill"
  /\ user' = [user EXCEPT ![u].pc = "all",
                          ![u].all = {l \in Ids : line[l].approved = "true"}]
  /\ NoteOverlap
  /\ UNCHANGED <<report, line, vend, import, faults>>

\* ... then written with the quantity that was read; no call changes orderQuantity of
\* an approved line item.
ExecuteFulfillAll(u) ==
  /\ user[u].pc = "all"
  /\ line' = [l \in Ids |->
       IF l \in user[u].all
       THEN [line[l] EXCEPT !.fulfilledQuantity = line[l].orderQuantity, !.fulfilled = "true"]
       ELSE line[l]]
  /\ Return(u)
  /\ NoteStale(Users)
  /\ UNCHANGED <<report, vend, import, faults>>

\* sendConsignmentDelivery: some line item is fulfilled; the state of the order is not
\* looked at.
SendDelivery(u) ==
  /\ ~Calling(u) /\ user[u].page = "fulfill"
  /\ \E l \in Ids : line[l].fulfilledQuantity > 0
  /\ Call(u, "send")
  /\ NoteOverlap
  /\ UNCHANGED <<report, line, vend, import, faults>>

WriteReceivingPending(u) ==
  /\ user[u].pc = "send"
  /\ SetState("RECEIVING_PENDING")
  /\ Call(u, "flag")
  /\ UNCHANGED <<line, vend, import, faults, mixed>>

FlagFulfilled(u) ==
  /\ user[u].pc = "flag"
  /\ line' = [l \in Ids |->
       IF line[l].fulfilledQuantity > 0 THEN [line[l] EXCEPT !.fulfilled = "true"] ELSE line[l]]
  /\ Leave(u)
  /\ NoteStale(Users)
  /\ UNCHANGED <<report, vend, import, faults>>

\* Mutant: the discrepancies that were loaded still count after an edit.
EditReceivedKeepsLoaded(u, l, q) ==
  /\ ~Calling(u) /\ user[u].page = "receive"
  /\ line[l].fulfilled = "true"
  /\ line' = [line EXCEPT ![l].receivedQuantity = q, ![l].counted = TRUE]
  /\ mixed' = [mixed EXCEPT !.overlap = @ \/ Busy]
  /\ UNCHANGED <<report, vend, user, import, faults>>

\* receiveItem and removeItem of the receive page: the discrepancies are to be loaded
\* again before the order can be submitted.
EditReceived(u, l, q) ==
  /\ ~Calling(u) /\ user[u].page = "receive"
  /\ line[l].fulfilled = "true"
  /\ line' = [line EXCEPT ![l].receivedQuantity = q, ![l].counted = TRUE]
  /\ user' = [user EXCEPT ![u].loaded = FALSE]
  /\ mixed' = [mixed EXCEPT !.overlap = @ \/ Busy,
                            !.partial = @ \/ Shown(Users \ {u})]
  /\ UNCHANGED <<report, vend, import, faults>>

\* A barcode scan does not make the page load them again.
ScanReceived(u, l) ==
  /\ ~Calling(u) /\ user[u].page = "receive"
  /\ line[l].fulfilled = "true" /\ line[l].receivedQuantity < MaxQuantity
  /\ line' = [line EXCEPT ![l].receivedQuantity = @ + 1, ![l].counted = TRUE]
  /\ mixed' = [mixed EXCEPT !.overlap = @ \/ Busy,
                            !.partial = @ \/ Shown(Users)]
  /\ UNCHANGED <<report, vend, user, import, faults>>

-----------------------------------------------------------------------------
(* Discrepancies and the receipt *)

\* $ne also holds for a quantity that is not set.
IsDiscrepancy(l) ==
  /\ line[l].approved = "true"
  /\ line[l].counted => line[l].fulfilledQuantity # line[l].receivedQuantity

Discrepancies == Cardinality({l \in Ids : IsDiscrepancy(l)})

\* Mutant: what was damaged is also missing.
DamagedIsMissing(fulfilled, received, damaged) ==
  [over    |-> IF received > fulfilled THEN received - fulfilled ELSE 0,
   missing |-> IF fulfilled > received THEN fulfilled - received ELSE 0,
   damaged |-> damaged]

\* getDiscrepancyReason: what the page shows as over delivered, missing and damaged.
DiscrepancyReason(fulfilled, received, damaged) ==
  [over    |-> IF received > fulfilled THEN received - fulfilled ELSE 0,
   missing |-> IF fulfilled - received > damaged THEN fulfilled - received - damaged ELSE 0,
   damaged |-> damaged]

\* getDiscrepancyOrBackOrderedLineItems counts the line items.  Only a load without a
\* filter writes the count to the order.
LoadDiscrepancies(u, filtered) ==
  /\ ~Calling(u) /\ user[u].page = "receive"
  /\ IF filtered
     THEN /\ user' = [user EXCEPT ![u].loaded = TRUE]
          /\ mixed' = [mixed EXCEPT !.partial = TRUE]
     ELSE /\ user' = [user EXCEPT ![u].pc = "count", ![u].count = Discrepancies]
          /\ NoteOverlap
  /\ UNCHANGED <<report, line, vend, import, faults>>

SaveDiscrepancies(u) ==
  /\ user[u].pc = "count"
  /\ report' = IF report.state = "COMPLETE" THEN report
               ELSE [report EXCEPT !.discrepancies = user[u].count]
  /\ user' = [user EXCEPT ![u] = [IdleUser EXCEPT !.page = user[u].page,
                                    !.opening = user[u].opening, !.loaded = TRUE]]
  /\ UNCHANGED <<line, vend, import, faults, mixed>>

\* submitButton and receiveConsignment; the user is taken off the page.
SubmitReceivals(u) ==
  /\ ~Calling(u) /\ user[u].page = "receive" /\ user[u].loaded
  /\ \E l \in Ids : line[l].receivedQuantity > 0
  /\ report' = [report EXCEPT !.state = "SUBMITTING_RECEIVALS", !.receiving = TRUE]
  /\ Leave(u)
  /\ NoteOverlap
  /\ UNCHANGED <<line, vend, import, faults>>

\* The worker takes no notice of what the state has become.
Received(st) == report' = [report EXCEPT !.state = st, !.receiving = FALSE]

\* The receive worker updates every received line item in Vend, and fails when one, or
\* the whole consignment, is not there.  What a failed receipt leaves in Vend is the
\* matter of VendOrder.
ReceiveConsignment ==
  /\ report.receiving
  /\ IF ~Rejects /\ \A l \in Ids : line[l].receivedQuantity > 0 => line[l].linked
     THEN Received("COMPLETE") ELSE Received("RECEIVING_FAILURE")
  /\ mixed' = [mixed EXCEPT !.overlap = @ \/ Busy,
       !.unpushed = @ \/ \E l \in Ids : line[l].receivedQuantity > 0 /\ ~line[l].linked
                                         /\ BeingPushed(l)]
  /\ UNCHANGED <<line, vend, user, import, faults>>

ReceiptFails ==
  /\ report.receiving
  /\ Fault
  /\ Received("RECEIVING_FAILURE")
  /\ UNCHANGED <<line, vend, user, import, mixed>>

-----------------------------------------------------------------------------
(* addProductToStockOrder *)

Pushing == {"FULFILMENT_IN_PROCESS", "RECEIVING_IN_PROCESS"}

\* The order is read,
AddProduct(u, p) ==
  /\ ~Calling(u) /\ user[u].page # "none"
  /\ user' = [user EXCEPT ![u].pc = "find", ![u].product = p, ![u].state = report.state]
  /\ NoteOverlap
  /\ UNCHANGED <<report, line, vend, import, faults>>

Refused(st, l) == \/ st = "APPROVAL_IN_PROCESS"
                  \/ st = "FULFILMENT_IN_PROCESS" /\ line[l].approved = "true"
                  \/ st = "RECEIVING_IN_PROCESS" /\ line[l].fulfilled = "true"

\* ... then its line items of the product: there is none,
FindNoLine(u) ==
  /\ user[u].pc = "find"
  /\ LinesOf(user[u].product) = {}
  /\ Call(u, "create")
  /\ mixed' = [mixed EXCEPT !.unpushed = @ \/ user[u].state \notin Pushing]
  /\ UNCHANGED <<report, line, vend, import, faults>>

\* ... or one that cannot be added again, or not in this state,
FindRefused(u) ==
  /\ user[u].pc = "find"
  /\ LET found == LinesOf(user[u].product)
     IN  found # {} /\ (user[u].state \notin Pushing \/ Refused(user[u].state, First(found)))
  /\ Return(u)
  /\ UNCHANGED <<report, line, vend, import, faults, mixed>>

Approve(ln) == [ln EXCEPT !.approved = "true", !.orderQuantity = 0]
Fulfil(ln) == [ln EXCEPT !.fulfilled = "true"]

\* ... or one that the review or the delivery had left out.
FindLeftOut(u) ==
  /\ user[u].pc = "find" /\ user[u].state \in Pushing
  /\ LET found == LinesOf(user[u].product)
     IN  /\ found # {} /\ ~Refused(user[u].state, First(found))
         /\ user' = [user EXCEPT ![u].pc = "save", ![u].id = First(found),
              ![u].found = IF user[u].state = "FULFILMENT_IN_PROCESS"
                           THEN Approve(line[First(found)]) ELSE Fulfil(line[First(found)])]
  /\ UNCHANGED <<report, line, vend, import, faults, mixed>>

\* createLineItemForStockOrder, with the quantity the page took: it is the one of the
\* page's kind.
AddedLine(u, q) ==
  [NewLine(user[u].product) EXCEPT
     !.orderQuantity = IF user[u].page = "generated" THEN q ELSE 0,
     !.fulfilledQuantity = IF user[u].page = "fulfill" THEN q ELSE 0,
     !.receivedQuantity = IF user[u].page = "receive" THEN q ELSE 0,
     !.approved = IF user[u].state = "FULFILMENT_IN_PROCESS" THEN "true" ELSE "null",
     !.fulfilled = IF user[u].state = "RECEIVING_IN_PROCESS" THEN "true" ELSE "null"]

CreateLine(u, q) ==
  /\ user[u].pc = "create" /\ Len(line) < MaxLines
  /\ line' = Append(line, AddedLine(u, q))
  /\ IF user[u].state \in Pushing
     THEN user' = [user EXCEPT ![u].pc = "push", ![u].id = Len(line) + 1,
                               ![u].found = AddedLine(u, q)]
     ELSE Return(u)
  /\ NoteStale(Users)
  /\ UNCHANGED <<report, vend, import, faults>>

\* Mutant: a line item added to a delivery that is received is not pushed.
SaveLineUnpushed(u) ==
  /\ user[u].pc = "save"
  /\ line' = [line EXCEPT ![user[u].id] = user[u].found]
  /\ IF user[u].state = "RECEIVING_IN_PROCESS" THEN Return(u) ELSE Call(u, "push")
  /\ NoteStale(Users)
  /\ UNCHANGED <<report, vend, import, faults>>

\* save() writes the whole line item, as it was read.
SaveLine(u) ==
  /\ user[u].pc = "save"
  /\ line' = [line EXCEPT ![user[u].id] = user[u].found]
  /\ IF user[u].state = "RECEIVING_IN_PROCESS" /\ user[u].found.linked
     THEN Return(u) ELSE Call(u, "push")
  /\ NoteStale(Users)
  /\ UNCHANGED <<report, vend, import, faults>>

PushAdded(u) ==
  /\ user[u].pc = "push" /\ ~user[u].found.linked /\ ~Rejects
  /\ CreateInVend(user[u].id)
  /\ Call(u, "link")
  /\ UNCHANGED <<report, line, import, faults, mixed>>

\* createStockOrderLineitemForVend refuses what has a line in Vend, and Vend what
\* belongs to no consignment.
PushRejected(u) ==
  /\ user[u].pc = "push" /\ (user[u].found.linked \/ Rejects)
  /\ Return(u)
  /\ UNCHANGED <<report, line, vend, import, faults, mixed>>

LinkAdded(u) ==
  /\ user[u].pc = "link"
  /\ Link(user[u].id)
  /\ Return(u)
  /\ UNCHANGED <<report, vend, import, faults, mixed>>

PushUnanswered(u) ==
  /\ user[u].pc = "push" /\ ~user[u].found.linked /\ ~Rejects
  /\ CreateInVend(user[u].id)
  /\ Fault
  /\ Return(u)
  /\ mixed' = [mixed EXCEPT !.unlinked = TRUE]
  /\ UNCHANGED <<report, line, import>>

\* Any await of a handler rejects; the user may call again.
CallFails(u) ==
  /\ Calling(u)
  /\ Fault
  /\ Return(u)
  /\ mixed' = [mixed EXCEPT !.unlinked = @ \/ user[u].pc = "link"]
  /\ UNCHANGED <<report, line, vend, import>>

-----------------------------------------------------------------------------
(* deleteStockOrderVend: first in Vend, then in the database *)

DeleteInVend(u) ==
  /\ ~Calling(u) /\ user[u].page # "none"
  /\ report' = IF report.consignment = "open"
               THEN [report EXCEPT !.consignment = "deleted"] ELSE report
  /\ Call(u, "delete")
  /\ NoteOverlap
  /\ UNCHANGED <<line, vend, import, faults>>

SetDeleted(u) ==
  /\ user[u].pc = "delete"
  /\ report' = [report EXCEPT !.deletedAt = TRUE]
  /\ Leave(u)
  /\ UNCHANGED <<line, vend, import, faults, mixed>>

-----------------------------------------------------------------------------
(* The file worker, import-stock-order-vend.js: new orders *)

approvedInFile  == {"FULFILMENT_PENDING", "FULFILMENT_IN_PROCESS", "RECEIVING_PENDING",
                    "RECEIVING_IN_PROCESS", "COMPLETE"}
fulfilledInFile == {"RECEIVING_PENDING", "RECEIVING_IN_PROCESS", "COMPLETE"}
ToBool(b) == IF b THEN "true" ELSE "null"

\* importVendOrderFromFile stores the file and sends the message.
UploadFile(m, f) ==
  /\ import[m].pc = "free"
  /\ import' = [import EXCEPT ![m] = NewImport(f, "map")]
  /\ NoteOverlap
  /\ UNCHANGED <<report, line, vend, user, faults>>

\* mapSpreadSheetDataToOrders: rows of no quantity are left out; what is left makes the
\* one order of the model.
Rows(m) == {r \in import[m].file.rows : r.orderQuantity # 0}

MapRows(m) ==
  /\ import[m].pc = "map"
  /\ IF Rows(m) = {} THEN Finish(m, "done")
     ELSE Goto(m, IF import[m].file.orderStatus = "FULFILMENT_PENDING"
                  THEN "match" ELSE "create")
  /\ UNCHANGED <<report, line, vend, user, faults, mixed>>

\* createOrders.  When there is an order, the file makes another one, which is not in
\* the model.
CreateOrder(m) ==
  /\ import[m].pc = "create"
  /\ IF report.state = "absent" THEN SetState("") /\ Goto(m, "lines")
     ELSE Finish(m, "done") /\ UNCHANGED report
  /\ UNCHANGED <<line, vend, user, faults, mixed>>

LineOfRow(r, st) ==
  [NewLine(r.product) EXCEPT
     !.orderQuantity = r.orderQuantity, !.fulfilledQuantity = r.fulfilledQuantity,
     !.approved = ToBool(st \in approvedInFile), !.fulfilled = ToBool(st \in fulfilledInFile),
     !.counted = FALSE]

Unpushed(m) == IF import[m].file.orderStatus \in notApprovedStates THEN "status" ELSE "purchase"

\* The rows in the order of the file.
InOrder(rows) == {order \in [1 .. Cardinality(rows) -> rows] :
                    \A j, k \in DOMAIN order : j < k => order[j].nr < order[k].nr}

InsertLines(m) ==
  /\ import[m].pc = "lines"
  /\ \E order \in InOrder(Rows(m)) :
       line' = [l \in DOMAIN order |-> LineOfRow(order[l], import[m].file.orderStatus)]
  /\ Goto(m, Unpushed(m))
  /\ UNCHANGED <<report, vend, user, faults, mixed>>

\* A failure is logged, and the order goes on with the line items that were inserted.
InsertLinesFails(m) ==
  /\ import[m].pc = "lines"
  /\ Fault
  /\ \E order \in InOrder(Rows(m)), n \in 0 .. Cardinality(Rows(m)) :
       line' = [l \in 1 .. n |-> LineOfRow(order[l], import[m].file.orderStatus)]
  /\ Goto(m, Unpushed(m))
  /\ UNCHANGED <<report, vend, user, mixed>>

\* The purchase order worker, run by this one: no page shows the order before it has
\* set the state.
PushOrder(m) ==
  /\ import[m].pc = "purchase"
  /\ report' = [report EXCEPT !.state = import[m].file.orderStatus, !.consignment = "open"]
  /\ line' = [l \in Ids |-> [line[l] EXCEPT !.linked = line[l].approved = "true"]]
  /\ vend' = [p \in Products |-> Cardinality({l \in LinesOf(p) : line[l].approved = "true"})]
  /\ Goto(m, "status")
  /\ UNCHANGED <<user, faults, mixed>>

PushOrderFails(m) ==
  /\ import[m].pc = "purchase"
  /\ Fault
  /\ SetState("ERROR_SENDING_TO_SUPPLIER")
  /\ Goto(m, "status")
  /\ UNCHANGED <<line, vend, user, mixed>>

\* The state is written again, although the order may have been opened.
SetOrderStatus(m) ==
  /\ import[m].pc = "status"
  /\ IF report.state = "ERROR_SENDING_TO_SUPPLIER" THEN UNCHANGED report
     ELSE SetState(import[m].file.orderStatus)
  /\ Finish(m, "done")
  /\ UNCHANGED <<line, vend, user, faults, mixed>>

-----------------------------------------------------------------------------
(* The file worker, fulfill-order-from-file-vend.js: the delivery of an open order *)

ProductsOf(rows) == {r.product : r \in rows}

\* Of several open orders of the store and supplier, the one that shares more than 80%
\* of its products with the file and more than the others.
Closer(a, b, rows) ==
  LET shared(s) == Cardinality(s \intersect rows)
      all(s) == Cardinality(s \union rows)
  IN  shared(a) * all(b) > shared(b) * all(a)

Confident(a, rows) == 5 * Cardinality(a \intersect rows) > 4 * Cardinality(a \union rows)

IsOpen == /\ report.state \in {"FULFILMENT_PENDING", "FULFILMENT_IN_PROCESS",
                               "FULFILMENT_FAILURE"}
          /\ ~report.deletedAt

\* Two that are equally close compete: the answers come in any order.
FindReports(m) ==
  /\ import[m].pc = "match"
  /\ LET mine == {line[l].product : l \in {k \in Ids : line[k].approved = "true"}}
         rows == ProductsOf(Rows(m))
     IN  \/ /\ IsOpen
            /\ Others # {} => Confident(mine, rows)
            /\ \A o \in Others : ~Closer(o, mine, rows)
            /\ import' = [import EXCEPT ![m].pc = "find", ![m].find = Rows(m)]
         \/ /\ IsOpen => \E o \in Others : ~Closer(mine, o, rows) \/ ~Confident(mine, rows)
            /\ Finish(m, "done")
  /\ UNCHANGED <<report, line, vend, user, faults, mixed>>

\* Mutant: a line item that the review had left out does not make the worker push.
FindRowKeepsUnpushed(m, r) ==
  /\ import[m].pc = "find" /\ r \in import[m].find
  /\ import' = [import EXCEPT
       ![m].find = @ \ {r},
       ![m].new = IF LinesOf(r.product) = {} THEN @ \union {r} ELSE @,
       ![m].toVend = @ \/ LinesOf(r.product) = {},
       ![m].pc = IF import[m].find = {r} THEN "write" ELSE @]
  /\ UNCHANGED <<report, line, vend, user, faults, mixed>>

\* Is there a line item for the row?  A row without one, or with one that the review
\* had left out, makes the worker push.
FindRow(m, r) ==
  /\ import[m].pc = "find" /\ r \in import[m].find
  /\ LET found == LinesOf(r.product)
     IN  import' = [import EXCEPT
           ![m].find = @ \ {r},
           ![m].new = IF found = {} THEN @ \union {r} ELSE @,
           ![m].toVend = @ \/ found = {} \/ line[First(found)].approved # "true",
           ![m].pc = IF import[m].find = {r} THEN "write" ELSE @]
  /\ UNCHANGED <<report, line, vend, user, faults, mixed>>

\* Mutant: the quantity of the file is added to what was fulfilled before.
FulfilledByAdds(ln, r) ==
  [ln EXCEPT !.approved = "true", !.fulfilledQuantity = @ + r.fulfilledQuantity,
             !.fulfilled = IF r.fulfilledQuantity > 0 THEN "true" ELSE "false"]

FulfilledBy(ln, r) ==
  [ln EXCEPT !.approved = "true", !.fulfilledQuantity = r.fulfilledQuantity,
             !.fulfilled = IF r.fulfilledQuantity > 0 THEN "true" ELSE "false"]

InsertedBy(r) == [FulfilledBy(NewLine(r.product), r) EXCEPT !.counted = FALSE]

\* The batch: the rows that have a line item update the first one, the line items that
\* nobody decided on are not fulfilled, the other rows are inserted.  Of two rows of a
\* product the batch may apply either last.
Updated(rows, last, clear) ==
  [l \in Ids |->
     LET ln == line[l]
     IN  IF \E r \in rows : r = last[r.product] /\ l = First(LinesOf(r.product))
         THEN FulfilledBy(ln, last[ln.product])
         ELSE IF clear /\ ln.fulfilled = "null"
         THEN [ln EXCEPT !.fulfilled = "false", !.fulfilledQuantity = 0] ELSE ln]

Inserted(rows) == {[k \in DOMAIN order |-> InsertedBy(order[k])] : order \in InOrder(rows)}

LastRows(rows) == {f \in [ProductsOf(rows) -> rows] : \A p \in DOMAIN f : f[p].product = p}

\* A row of quantity 0 approves a line item that nothing pushes, or takes one back that
\* another worker was to push.
JoinsUnpushed(m, r) ==
  /\ r.fulfilledQuantity = 0
  /\ \/ r \in import[m].new
     \/ line[First(LinesOf(r.product))].approved # "true"
     \/ \E n \in Imports : import[n].pc = "select"

ExecuteBatch(m) ==
  /\ import[m].pc = "write"
  /\ Len(line) + Cardinality(import[m].new) <= MaxLines
  /\ LET old == Rows(m) \ import[m].new
     IN  \E last \in LastRows(old), ins \in Inserted(import[m].new) :
           line' = Updated(old, last, TRUE) \o ins
  /\ IF import[m].toVend THEN Goto(m, "select") ELSE Finish(m, "done")
  /\ mixed' = [mixed EXCEPT !.partial = @ \/ Shown(Users),
       !.unpushed = @ \/ \E r \in Rows(m) : JoinsUnpushed(m, r)]
  /\ UNCHANGED <<report, vend, user, faults>>

\* An unordered batch may be partly applied.
ExecuteSome(m) ==
  /\ import[m].pc = "write"
  /\ Fault
  /\ \E some \in SUBSET Rows(m), clear \in BOOLEAN :
       LET old == some \ import[m].new
       IN  \E last \in LastRows(old), ins \in Inserted(some \intersect import[m].new) :
             /\ Len(line) + Len(ins) <= MaxLines
             /\ line' = Updated(old, last, clear) \o ins
  /\ Finish(m, "failed")
  /\ NoteStale(Users)
  /\ UNCHANGED <<report, vend, user>>

\* Mutant: all the fulfilled line items are selected.
SelectFulfilled(m) ==
  /\ import[m].pc = "select"
  /\ import' = [import EXCEPT ![m].pc = "push",
                              ![m].todo = {l \in Ids : line[l].fulfilled = "true"}]
  /\ UNCHANGED <<report, line, vend, user, faults, mixed>>

\* pushItemsToVend: the fulfilled line items that have no line in Vend,
SelectUnpushed(m) ==
  /\ import[m].pc = "select"
  /\ import' = [import EXCEPT ![m].pc = "push",
       ![m].todo = {l \in Ids : line[l].fulfilled = "true" /\ ~line[l].linked}]
  /\ UNCHANGED <<report, line, vend, user, faults, mixed>>

\* ... one after the other.
PushRow(m) ==
  /\ import[m].pc = "push" /\ import[m].todo # {} /\ ~Rejects
  /\ CreateInVend(First(import[m].todo))
  /\ Goto(m, "link")
  /\ UNCHANGED <<report, line, user, faults, mixed>>

LinkRow(m) ==
  /\ import[m].pc = "link"
  /\ Link(First(import[m].todo))
  /\ import' = [import EXCEPT ![m].pc = "push", ![m].todo = @ \ {First(@)}]
  /\ UNCHANGED <<report, vend, user, faults, mixed>>

RowsPushed(m) ==
  /\ import[m].pc = "push" /\ import[m].todo = {}
  /\ Finish(m, "done")
  /\ UNCHANGED <<report, line, vend, user, faults, mixed>>

RowRejected(m) ==
  /\ import[m].pc = "push" /\ import[m].todo # {} /\ Rejects
  /\ Finish(m, "failed")
  /\ UNCHANGED <<report, line, vend, user, faults, mixed>>

PushRowUnanswered(m) ==
  /\ import[m].pc = "push" /\ import[m].todo # {} /\ ~Rejects
  /\ CreateInVend(First(import[m].todo))
  /\ Fault
  /\ Finish(m, "failed")
  /\ mixed' = [mixed EXCEPT !.unlinked = TRUE]
  /\ UNCHANGED <<report, line, user>>

\* The worker gives up.  Its cleanup of the line items has no effect: the database
\* takes no update without an operator.
ImportFails(m) ==
  /\ import[m].pc \in {"map", "create", "status", "match", "find", "select", "push", "link"}
  /\ Fault
  /\ Finish(m, "failed")
  /\ mixed' = [mixed EXCEPT !.unlinked = @ \/ import[m].pc = "link"]
  /\ UNCHANGED <<report, line, vend, user>>

-----------------------------------------------------------------------------
PageStep(u) ==
  \/ \E p \in Pages : OpenPage(u, p)
  \/ PutOpenedState(u)
  \/ \E l \in Ids, q \in Quantity : EditFulfilled(u, l, q) \/ EditReceived(u, l, q)
  \/ \E l \in Ids : ScanReceived(u, l)
  \/ FulfillAll(u) \/ ExecuteFulfillAll(u)
  \/ SendDelivery(u) \/ WriteReceivingPending(u) \/ FlagFulfilled(u)
  \/ \E filtered \in BOOLEAN : LoadDiscrepancies(u, filtered)
  \/ SaveDiscrepancies(u) \/ SubmitReceivals(u)
  \/ DeleteInVend(u) \/ SetDeleted(u) \/ CallFails(u)

AddStep(u) ==
  \/ \E p \in Products : AddProduct(u, p)
  \/ FindNoLine(u) \/ FindRefused(u) \/ FindLeftOut(u)
  \/ \E q \in Quantity \ {0} : CreateLine(u, q)
  \/ SaveLine(u) \/ PushAdded(u) \/ PushRejected(u) \/ LinkAdded(u) \/ PushUnanswered(u)

CreateStep(m) ==
  \/ \E f \in Files : UploadFile(m, f)
  \/ MapRows(m) \/ CreateOrder(m) \/ InsertLines(m) \/ InsertLinesFails(m)
  \/ PushOrder(m) \/ PushOrderFails(m) \/ SetOrderStatus(m)

FulfilStep(m) ==
  \/ FindReports(m) \/ \E r \in import[m].find : FindRow(m, r)
  \/ ExecuteBatch(m) \/ ExecuteSome(m) \/ SelectUnpushed(m) \/ PushRow(m) \/ LinkRow(m)
  \/ RowsPushed(m) \/ RowRejected(m) \/ PushRowUnanswered(m) \/ ImportFails(m)

Next == \/ \E u \in Users : PageStep(u) \/ AddStep(u)
        \/ \E m \in Imports : CreateStep(m) \/ FulfilStep(m)
        \/ ReceiveConsignment \/ ReceiptFails

Spec == Init /\ [][Next]_vars
-----------------------------------------------------------------------------
(* Properties *)

IsSent == report.consignment = "open"

\* A file may ask for any state, also for one that only a receipt leads to.
GivenByFile(st) == \E m \in Imports : import[m].pc # "free" /\ import[m].file.orderStatus = st

\* No file has two rows of one product.
OneRowEach ==
  \A m \in Imports : \A r, s \in import[m].file.rows : r.product = s.product => r = s

\* While no call fails, every fulfilled line item of an order that was sent is a product
\* of the consignment in Vend, or a call that is still running is to push it: whoever
\* adds a line item or fulfils one that the review had left out (addProductToStockOrder,
\* the batch of the file worker) also has to push it.  Except for the line items that
\* mixed.unpushed tells of.
FulfilledIsInVend ==
  ~mixed.unpushed /\ faults = 0 /\ IsSent =>
    \A l \in Ids : line[l].fulfilled = "true" => line[l].linked \/ BeingPushed(l)

\* The receive worker rejects an order only when a call failed or was not answered, when
\* the order was deleted in Vend, or for one of the line items of mixed.unpushed: no
\* sequence of edits, additions, files and scans makes an order that cannot be received.
ReceiptFailsForAReason ==
  report.state = "RECEIVING_FAILURE" /\ ~GivenByFile("RECEIVING_FAILURE") =>
    faults > 0 \/ mixed.unpushed \/ report.consignment = "deleted"

\* An order has one line item per product, whatever sequence of pages and files adds
\* to it: unless two calls overlap (nothing in the database keeps two line items of a
\* product apart) or a file itself has two rows of one product.
OneLinePerProduct ==
  ~mixed.overlap /\ OneRowEach => \A l, k \in Ids : line[l].product = line[k].product => l = k

\* A product is created in the consignment at most once, by all the programs together:
\* the file worker and addProductToStockOrder each leave alone what the other, or the
\* purchase order worker, has linked.  Unless calls overlap or an answer of Vend is lost.
OneVendLine ==
  ~mixed.overlap /\ ~mixed.unlinked /\ OneRowEach => \A p \in Products : vend[p] <= 1

\* The number of discrepancies that a complete order shows is the one its line items
\* have: submitting needs the discrepancies to be loaded, and an edit of a received
\* quantity makes the page load them again.  Unless calls overlap, or the page could be
\* submitted on less (mixed.partial: a filter, a scan).
CompleteOrderShowsDiscrepancies ==
  report.state = "COMPLETE" /\ ~GivenByFile("COMPLETE") /\ ~mixed.overlap /\ ~mixed.partial =>
    report.discrepancies = Discrepancies

\* Whatever is entered for a line item, the reasons the page shows explain the
\* discrepancy from what was delivered by then: there is one whenever the
\* quantities differ, over and missing exclude each other, and of a short delivery no
\* product is told of twice, as missing and as damaged.
ReasonsExplainDiscrepancy ==
  \A fulfilled \in {line[l].fulfilledQuantity : l \in Ids},
     received, damaged \in 0 .. MaxQuantity + 1 :
    LET reason == DiscrepancyReason(fulfilled, received, damaged)
    IN  /\ fulfilled # received => reason.over + reason.missing + reason.damaged > 0
        /\ reason.over > 0 => reason.missing = 0
        /\ fulfilled >= received + damaged
             => reason.missing + reason.damaged = fulfilled - received
        /\ received + reason.missing <= fulfilled + reason.over
=============================================================================

---------------------------- MODULE BarcodeScan ----------------------------
(***************************************************************************)
(* Scanning barcodes against one approved line item of a stock order       *)
(* (scanBarcodeStockOrder), by several users at once, next to the manual   *)
(* edits of the same pages.                                                *)
(*                                                                         *)
(* A scan first reads the line item and decides on what it read: to ask    *)
(* the user, or to add one and perhaps to flag the item.  The write is a   *)
(* second database call, and the answer needs a third.                     *)
(***************************************************************************)
EXTENDS Naturals, FiniteSets

CONSTANTS
  Scanners,       \* users with a fulfil or receive page open
  OrderQuantity,  \* line item's orderQuantity
  MaxQuantity,    \* bound on the quantities of the model
  MaxFaults,      \* bound on the answers lost
  MaxEdits        \* bound on the manual edits

ASSUME ScanAssumption ==
  /\ IsFiniteSet(Scanners)
  /\ OrderQuantity \in Nat \ {0}
  /\ MaxQuantity \in Nat /\ MaxFaults \in Nat /\ MaxEdits \in Nat

Types == {"fulfill", "receive"}

VARIABLES
  quantity, \* fulfilledQuantity and receivedQuantity
  flag,     \* fulfilled and received
  scan,     \* the scan each user is in
  reported, \* scans the page reported as counted
  lost,     \* scans counted whose answer was an error
  edits,    \* manual edits so far
  raced     \* history: two scans of the item overlapped

vars == <<quantity, flag, scan, reported, lost, edits, raced>>

Scan == [pc    : {"idle", "alert", "update", "answer"},
         type  : Types,
         flags : BOOLEAN]   \* the write will also set the flag

TypeOK ==
  /\ quantity \in [Types -> 0 .. MaxQuantity]
  /\ flag \in [Types -> BOOLEAN]
  /\ scan \in [Scanners -> Scan]
  /\ reported \in [Types -> Nat]
  /\ lost \in [Types -> 0 .. MaxFaults]
  /\ edits \in 0 .. MaxEdits
  /\ raced \in BOOLEAN

Init ==
  /\ quantity = [t \in Types |-> 0]
  /\ flag = [t \in Types |-> FALSE]
  /\ scan = [s \in Scanners |-> [pc |-> "idle", type |-> "fulfill", flags |-> FALSE]]
  /\ reported = [t \in Types |-> 0]
  /\ lost = [t \in Types |-> 0]
  /\ edits = 0
  /\ raced = FALSE

-----------------------------------------------------------------------------
Target(t) == IF t = "fulfill" THEN OrderQuantity ELSE quantity["fulfill"]

\* An item is received only once it is fulfilled.
Scannable(t) == t = "receive" => flag["fulfill"]

\* Mutants: the flag comes one scan early, or one scan late.
ReachesEarly(t) == quantity[t] + 2 >= Target(t)
ReachesLate(t) == quantity[t] + 1 > Target(t)

\* The count this scan would bring, from what it read, reaches the target.
Reaches(t) == IF t = "fulfill" THEN quantity[t] + 1 >= Target(t)
                               ELSE quantity[t] + 1 = Target(t)

\* Bound of the model: the scans on their way and one more fit on top of q.
Room(q) == q + Cardinality({s \in Scanners : scan[s].pc = "update"}) < MaxQuantity

Busy(s) == scan[s].pc \in {"update", "answer"}

Begin(s, t, pc) ==
  /\ scan' = [scan EXCEPT ![s] = [pc |-> pc, type |-> t, flags |-> Reaches(t)]]
  /\ raced' = (raced \/ (pc = "update" /\ \E o \in Scanners \ {s} : Busy(o)))

\* The line item is found: the user is asked when the target is met already.
FindLineItem(s, t) ==
  /\ scan[s].pc = "idle"
  /\ Scannable(t) /\ Room(quantity[t])
  /\ Begin(s, t, IF quantity[t] = Target(t) THEN "alert" ELSE "update")
  /\ UNCHANGED <<quantity, flag, reported, lost, edits>>

\* The user goes on: the scan is repeated with force.
ForceScan(s) ==
  /\ scan[s].pc = "alert"
  /\ Scannable(scan[s].type) /\ Room(quantity[scan[s].type])
  /\ Begin(s, scan[s].type, "update")
  /\ UNCHANGED <<quantity, flag, reported, lost, edits>>

DismissAlert(s) ==
  /\ scan[s].pc = "alert"
  /\ scan' = [scan EXCEPT ![s].pc = "idle"]
  /\ UNCHANGED <<quantity, flag, reported, lost, edits, raced>>

\* Mutant: the scan that reaches the target writes it instead of adding one.
SetQuantity(s) ==
  /\ scan[s].pc = "update"
  /\ LET t == scan[s].type
     IN  /\ quantity' = [quantity EXCEPT ![t] = IF scan[s].flags THEN Target(t) ELSE @ + 1]
         /\ flag' = [flag EXCEPT ![t] = @ \/ scan[s].flags]
  /\ scan' = [scan EXCEPT ![s].pc = "answer"]
  /\ UNCHANGED <<reported, lost, edits, raced>>

\* Mutant: both the page and the server add one.
IncrementTwice(s) ==
  /\ scan[s].pc = "update"
  /\ LET t == scan[s].type
     IN  /\ quantity' = [quantity EXCEPT ![t] = @ + 2]
         /\ flag' = [flag EXCEPT ![t] = @ \/ scan[s].flags]
  /\ scan' = [scan EXCEPT ![s].pc = "answer"]
  /\ UNCHANGED <<reported, lost, edits, raced>>

\* updateAll with $inc, and $set when the count read said so.
IncrementQuantity(s) ==
  /\ scan[s].pc = "update"
  /\ LET t == scan[s].type
     IN  /\ quantity' = [quantity EXCEPT ![t] = @ + 1]
         /\ flag' = [flag EXCEPT ![t] = @ \/ scan[s].flags]
  /\ scan' = [scan EXCEPT ![s].pc = "answer"]
  /\ UNCHANGED <<reported, lost, edits, raced>>

\* The line item is read again and returned.
Answer(s) ==
  /\ scan[s].pc = "answer"
  /\ reported' = [reported EXCEPT ![scan[s].type] = @ + 1]
  /\ scan' = [scan EXCEPT ![s].pc = "idle"]
  /\ UNCHANGED <<quantity, flag, lost, edits, raced>>

\* The update or the second read fails: the page shows an error either way.
ScanFails(s) ==
  /\ lost["fulfill"] + lost["receive"] < MaxFaults
  /\ \/ scan[s].pc = "update" /\ UNCHANGED lost
     \/ scan[s].pc = "answer" /\ lost' = [lost EXCEPT ![scan[s].type] = @ + 1]
  /\ scan' = [scan EXCEPT ![s].pc = "idle"]
  /\ UNCHANGED <<quantity, flag, reported, edits, raced>>

\* Mutant: removing an item leaves its flag.
EditQuantityKeepsFlag(s, t, q) ==
  /\ edits < MaxEdits
  /\ scan[s].pc = "idle"
  /\ Scannable(t) /\ Room(q)
  /\ quantity' = [quantity EXCEPT ![t] = q]
  /\ flag' = [flag EXCEPT ![t] = @ \/ q > 0]
  /\ edits' = edits + 1
  /\ UNCHANGED <<scan, reported, lost, raced>>

\* fulfillItem and receiveItem put the quantity of the page, which may be any by
\* now; removeItem puts zero.
EditQuantity(s, t, q) ==
  /\ edits < MaxEdits
  /\ scan[s].pc = "idle"
  /\ Scannable(t) /\ Room(q)
  /\ quantity' = [quantity EXCEPT ![t] = q]
  /\ flag' = [flag EXCEPT ![t] = q > 0]
  /\ edits' = edits + 1
  /\ UNCHANGED <<scan, reported, lost, raced>>

Next ==
  \E s \in Scanners :
    \/ ForceScan(s) \/ DismissAlert(s) \/ IncrementQuantity(s) \/ Answer(s) \/ ScanFails(s)
    \/ \E t \in Types : FindLineItem(s, t)
    \/ \E t \in Types, q \in 0 .. OrderQuantity : EditQuantity(s, t, q)

Spec == Init /\ [][Next]_vars
-----------------------------------------------------------------------------
(* Properties *)

\* While nobody edits by hand, the order counts every scan exactly once: the scans
\* reported as counted, those whose answer failed, and those still to be answered.
NoScanIsLost ==
  edits = 0 =>
    \A t \in Types :
      quantity[t] = reported[t] + lost[t]
        + Cardinality({s \in Scanners : scan[s].pc = "answer" /\ scan[s].type = t})

\* An item that scans alone flagged as fulfilled has the quantity ordered, however
\* the scans interleave: the flag may come late, never early.
ScannedFlagIsEarned ==
  edits = 0 /\ flag["fulfill"] => quantity["fulfill"] >= OrderQuantity

\* An item flagged as fulfilled or received has a positive quantity, also when a
\* scan and a manual removal cross.
FlagHasQuantity == \A t \in Types : flag[t] => quantity[t] > 0

\* Scans that do not overlap flag the item as soon as the ordered quantity is in.
SequentialScansFlag ==
  edits = 0 /\ ~raced /\ quantity["fulfill"] >= OrderQuantity => flag["fulfill"]

\* "Set fulfilled true when fulfilled quantity will be equal to ordered Quantity"
\* (stock-order-lineitem-model.js:192): once every scan is answered, an item whose
\* fulfilled quantity is the ordered one is flagged.
OrderedQuantityIsFlagged ==
  /\ edits = 0
  /\ \A s \in Scanners : scan[s].pc = "idle"
  /\ quantity["fulfill"] = OrderQuantity
  => flag["fulfill"]
=============================================================================

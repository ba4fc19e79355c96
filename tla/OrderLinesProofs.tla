-------------------------- MODULE OrderLinesProofs --------------------------
(***************************************************************************)
(* Proofs about OrderLines, for every set of products, sessions, messages  *)
(* and files.                                                              *)
(***************************************************************************)
EXTENDS OrderLines, TLAPS, FiniteSetTheorems, WellFoundedInduction

-----------------------------------------------------------------------------
(* The first of some line items *)

LEMMA LeastNumber ==
  ASSUME NEW T \in SUBSET Nat, T # {}
  PROVE  \E m \in T : \A n \in T : m <= n
<1> DEFINE Less == {p \in Nat \X Nat : p[1] < p[2]}
<1>1. IsWellFoundedOn(Less, Nat)
  BY NatLessThanWellFounded DEF OpToRel
<1>2. PICK m \in T : \A n \in T : ~ (<<n, m>> \in Less)
  BY <1>1, WFMin
<1>3. \A n \in T : ~(n < m)
  BY <1>2
<1> HIDE DEF Less
<1>4. m \in Nat /\ \A n \in T : n \in Nat
  OBVIOUS
<1>5. \A n \in T : m <= n
  BY <1>3, <1>4
<1> QED
  BY <1>5

LEMMA FirstIsLeast ==
  ASSUME NEW T \in SUBSET Nat, T # {}
  PROVE  First(T) \in T /\ \A k \in T : First(T) <= k
BY LeastNumber DEF First

\* Line items that are added are no first ones.
LEMMA FirstStays ==
  ASSUME NEW S \in SUBSET Nat, S # {}, NEW T \in SUBSET Nat, S \subseteq T,
         \A k \in T \ S : \A l \in S : l < k
  PROVE  First(T) = First(S)
<1>1. /\ First(S) \in S /\ \A k \in S : First(S) <= k
      /\ First(T) \in T /\ \A k \in T : First(T) <= k
  BY FirstIsLeast
<1>2. First(S) \in Nat /\ First(T) \in Nat /\ First(T) <= First(S)
  BY <1>1
<1>3. First(T) \in S
  <2> SUFFICES ASSUME First(T) \in T \ S PROVE FALSE
    BY <1>1
  <2>1. First(S) < First(T)
    BY <1>1
  <2> QED
    BY <1>2, <2>1
<1>4. First(S) <= First(T)
  BY <1>1, <1>3
<1> QED
  BY <1>2, <1>4

-----------------------------------------------------------------------------
(* The line items *)

LEMMA IdsType ==
  ASSUME line \in Seq(Line)
  PROVE  /\ Len(line) \in Nat /\ Ids = 1 .. Len(line) /\ Ids \in SUBSET Nat
         /\ line \in [Ids -> Line]
BY DEF Ids

LEMMA LinesAre ==
  ASSUME NEW n \in Nat, NEW f \in [1 .. n -> Line]
  PROVE  f \in Seq(Line) /\ Len(f) = n /\ DOMAIN f = 1 .. n
OBVIOUS

LEMMA LinesOfType ==
  ASSUME line \in Seq(Line), NEW p
  PROVE  /\ LinesOf(p) \in SUBSET Nat /\ LinesOf(p) \subseteq Ids
         /\ LinesOf(p) # {} => First(LinesOf(p)) \in LinesOf(p)
BY IdsType, FirstIsLeast DEF LinesOf

-----------------------------------------------------------------------------
(* The invariant of the types *)

\* The line item is approved or fulfilled.
InDelivery(l) == line[l].approved = "true" \/ line[l].fulfilled = "true"

\* What a call of a session has read by now.
CallHasRead(u) ==
  /\ user[u].pc \in {"find", "create"} => user[u].product \in Products
  /\ user[u].pc \in {"save", "push", "link"} => user[u].id \in Ids /\ user[u].found \in Line
  /\ user[u].pc = "save" =>
       /\ user[u].found.product = line[user[u].id].product
       /\ user[u].found.approved = "true" \/ user[u].found.fulfilled = "true"
  /\ user[u].pc = "all" => \A l \in user[u].all : l \in Ids /\ InDelivery(l)

\* What a file worker has found by now.
WorkerHasFound(m) ==
  /\ import[m].find \subseteq Rows(m) /\ import[m].new \subseteq Rows(m)
  /\ import[m].find \intersect import[m].new = {}
  /\ import[m].pc \in {"map", "create", "lines", "purchase", "status", "match"} =>
       import[m].find = {} /\ import[m].new = {} /\ ~import[m].toVend
  /\ import[m].pc = "write" => import[m].find = {}
  /\ import[m].pc \in {"find", "write"} =>
       \A r \in Rows(m) \ import[m].find :
         IF r \in import[m].new THEN import[m].toVend
         ELSE /\ LinesOf(r.product) # {}
              /\ import[m].toVend \/ InDelivery(First(LinesOf(r.product)))
  /\ import[m].pc \in {"select", "push", "link"} => import[m].toVend
  /\ import[m].pc \in {"push", "link"} => import[m].todo \subseteq Ids
  /\ import[m].pc = "link" => import[m].todo # {}

Starting(m) == import[m].pc \in {"lines", "purchase", "status"}
Delivering(m) == import[m].pc \in {"find", "write", "select", "push", "link"}

\* Only one file makes the order, and nobody sees the order before it has a state.
NewOrder ==
  /\ \A m, n \in Imports : Starting(m) /\ Starting(n) => m = n
  /\ \A m \in Imports : Starting(m) => report.state # "absent"
  /\ \A m \in Imports : import[m].pc \in {"lines", "purchase"} => report.state = ""
  /\ \A m \in Imports : import[m].pc = "lines" => line = <<>>
  /\ report.state = "absent" => line = <<>>
  /\ report.state \in {"absent", ""} =>
       /\ report.consignment = "none" /\ ~report.receiving
       /\ \A u \in Users : user[u] = IdleUser
       /\ \A m \in Imports : ~Delivering(m)

TypeInv == /\ TypeOK /\ NewOrder
           /\ \A u \in Users : CallHasRead(u)
           /\ \A m \in Imports : WorkerHasFound(m)

-----------------------------------------------------------------------------
(* What a step does to the line items *)

\* No line item goes, changes its product, or leaves the delivery.
Grows == /\ Ids \subseteq Ids'
         /\ \A l \in Ids : /\ line'[l].product = line[l].product
                           /\ InDelivery(l) => InDelivery(l)'

LinesKeepType == line' \in Seq(Line) /\ Len(line') <= MaxLines /\ Grows

LEMMA Unchanged ==
  ASSUME TypeInv, UNCHANGED line
  PROVE  LinesKeepType
BY DEF TypeInv, TypeOK, LinesKeepType, Grows, Ids, InDelivery

LEMMA Edited ==
  ASSUME TypeInv, line' \in [Ids -> Line],
         \A l \in Ids : /\ line'[l].product = line[l].product
                        /\ InDelivery(l) => line'[l].approved = "true" \/ line'[l].fulfilled = "true"
  PROVE  LinesKeepType /\ Ids' = Ids
<1>1. line \in Seq(Line) /\ Len(line) <= MaxLines
  BY DEF TypeInv, TypeOK
<1>2. Len(line) \in Nat /\ Ids = 1 .. Len(line)
  BY <1>1, IdsType
<1>3. line' \in Seq(Line) /\ Len(line') = Len(line) /\ DOMAIN line' = Ids
  BY <1>2, LinesAre
<1> QED
  BY <1>1, <1>3 DEF LinesKeepType, Grows, Ids, InDelivery

LEMMA Extended ==
  ASSUME TypeInv, NEW f \in [Ids -> Line], NEW ins \in Seq(Line), line' = f \o ins,
         Len(line) + Len(ins) <= MaxLines,
         \A l \in Ids : /\ f[l].product = line[l].product
                        /\ InDelivery(l) => f[l].approved = "true" \/ f[l].fulfilled = "true"
  PROVE  /\ LinesKeepType /\ Ids' = 1 .. Len(line) + Len(ins)
         /\ \A l \in Ids : line'[l] = f[l]
         /\ \A k \in DOMAIN ins : line'[Len(line) + k] = ins[k]
<1>1. line \in Seq(Line) /\ Len(line) <= MaxLines /\ Len(line) \in Nat /\ Ids = 1 .. Len(line)
  BY IdsType DEF TypeInv, TypeOK
<1>2. f \in Seq(Line) /\ Len(f) = Len(line)
  BY <1>1, LinesAre
<1>3. /\ line' \in Seq(Line) /\ Len(line') = Len(line) + Len(ins)
      /\ \A l \in 1 .. Len(line) : line'[l] = f[l]
      /\ \A k \in DOMAIN ins : line'[Len(line) + k] = ins[k]
  BY <1>2
<1>4. Len(ins) \in Nat /\ Ids' = 1 .. Len(line) + Len(ins)
  BY <1>3 DEF Ids
<1> QED
  BY <1>1, <1>3, <1>4 DEF LinesKeepType, Grows, InDelivery

LEMMA UserType ==
  ASSUME TypeInv, NEW u \in Users
  PROVE  user[u] \in User /\ CallHasRead(u)
BY DEF TypeInv, TypeOK

LEMMA ImportType ==
  ASSUME TypeInv, NEW m \in Imports
  PROVE  /\ import[m] \in Import /\ WorkerHasFound(m)
         /\ import[m].file \in Files /\ import[m].file.orderStatus \in REPORT_STATES
         /\ Rows(m) \subseteq Row /\ IsFiniteSet(Rows(m)) /\ Cardinality(Rows(m)) \in 0 .. MaxLines
<1>1. import[m] \in Import /\ WorkerHasFound(m)
  BY DEF TypeInv, TypeOK
<1>2. import[m].file \in Files
  BY <1>1 DEF Import
<1>3. /\ import[m].file.orderStatus \in REPORT_STATES /\ import[m].file.rows \subseteq Row
      /\ IsFiniteSet(import[m].file.rows) /\ Cardinality(import[m].file.rows) <= MaxLines
  BY <1>2, LinesAssumption
<1>4. Rows(m) \subseteq import[m].file.rows
  BY DEF Rows
<1>5. /\ IsFiniteSet(Rows(m)) /\ Cardinality(Rows(m)) <= Cardinality(import[m].file.rows)
      /\ Cardinality(Rows(m)) \in Nat /\ Cardinality(import[m].file.rows) \in Nat
  BY <1>3, <1>4, FS_Subset, FS_CardinalityType
<1> QED
  BY <1>1, <1>2, <1>3, <1>4, <1>5, LinesAssumption

LEMMA LineAt ==
  ASSUME TypeInv
  PROVE  /\ line \in [Ids -> Line] /\ Ids = 1 .. Len(line) /\ Len(line) \in Nat
         /\ \A l \in Ids : line[l] \in Line
BY IdsType DEF TypeInv, TypeOK

LEMMA PageEditsLines ==
  ASSUME TypeInv, NEW u \in Users,
         \/ \E l \in Ids, q \in Quantity : EditFulfilled(u, l, q) \/ EditReceived(u, l, q)
         \/ \E l \in Ids : ScanReceived(u, l)
         \/ ExecuteFulfillAll(u) \/ FlagFulfilled(u)
  PROVE  LinesKeepType /\ Ids' = Ids
<1>0. \A l \in Ids : line[l] \in Line
  BY LineAt
<1>1. ASSUME NEW l \in Ids, NEW q \in Quantity, EditFulfilled(u, l, q) PROVE LinesKeepType /\ Ids' = Ids
  <2>1. line' \in [Ids -> Line]
    <3> DEFINE v == IF q > 0 THEN "true" ELSE "false"
    <3>1. v \in NullBool
      BY DEF NullBool
    <3>2. line' = [line EXCEPT ![l] = [line[l] EXCEPT !.fulfilledQuantity = q, !.fulfilled = v]]
      BY <1>0, <1>1, LineAt DEF EditFulfilled
    <3> HIDE DEF v
    <3>3. [line[l] EXCEPT !.fulfilledQuantity = q, !.fulfilled = v] \in Line
      BY <1>0, <3>1 DEF Line
    <3> QED
      BY <3>2, <3>3, LineAt
  <2>2. \A k \in Ids : /\ line'[k].product = line[k].product
                       /\ InDelivery(k) => line'[k].approved = "true" \/ line'[k].fulfilled = "true"
    BY <1>0, <1>1, LineAt DEF EditFulfilled, Line, InDelivery
  <2> QED
    BY <2>1, <2>2, Edited
<1>2. ASSUME NEW l \in Ids, NEW q \in Quantity, EditReceived(u, l, q) PROVE LinesKeepType /\ Ids' = Ids
  <2>1. line' \in [Ids -> Line]
    BY <1>0, <1>2, LineAt DEF EditReceived, Line
  <2>2. \A k \in Ids : /\ line'[k].product = line[k].product
                       /\ InDelivery(k) => line'[k].approved = "true" \/ line'[k].fulfilled = "true"
    BY <1>0, <1>2, LineAt DEF EditReceived, Line, InDelivery
  <2> QED
    BY <2>1, <2>2, Edited
<1>3. ASSUME NEW l \in Ids, ScanReceived(u, l) PROVE LinesKeepType /\ Ids' = Ids
  <2>0. line[l].receivedQuantity + 1 \in Quantity
    BY <1>0, <1>3, LinesAssumption DEF ScanReceived, Line, Quantity
  <2>1. line' \in [Ids -> Line]
    BY <1>0, <1>3, <2>0, LineAt DEF ScanReceived, Line
  <2>2. \A k \in Ids : /\ line'[k].product = line[k].product
                       /\ InDelivery(k) => line'[k].approved = "true" \/ line'[k].fulfilled = "true"
    BY <1>0, <1>3, LineAt DEF ScanReceived, Line, InDelivery
  <2> QED
    BY <2>1, <2>2, Edited
<1>4. CASE ExecuteFulfillAll(u)
  <2>1. line' \in [Ids -> Line]
    BY <1>0, <1>4, LineAt DEF ExecuteFulfillAll, Line, NullBool
  <2>2. \A k \in Ids : /\ line'[k].product = line[k].product
                       /\ InDelivery(k) => line'[k].approved = "true" \/ line'[k].fulfilled = "true"
    BY <1>0, <1>4, LineAt DEF ExecuteFulfillAll, Line, InDelivery
  <2> QED
    BY <2>1, <2>2, Edited
<1>5. CASE FlagFulfilled(u)
  <2>1. line' \in [Ids -> Line]
    BY <1>0, <1>5, LineAt DEF FlagFulfilled, Line, NullBool
  <2>2. \A k \in Ids : /\ line'[k].product = line[k].product
                       /\ InDelivery(k) => line'[k].approved = "true" \/ line'[k].fulfilled = "true"
    BY <1>0, <1>5, LineAt DEF FlagFulfilled, Line, InDelivery
  <2> QED
    BY <2>1, <2>2, Edited
<1> QED
  BY <1>1, <1>2, <1>3, <1>4, <1>5

LEMMA AddedLineType ==
  ASSUME TypeInv, NEW u \in Users, user[u].pc = "create", NEW q \in Quantity
  PROVE  /\ AddedLine(u, q) \in Line /\ AddedLine(u, q).product = user[u].product
         /\ ~AddedLine(u, q).linked /\ AddedLine(u, q).counted
<1> DEFINE ordered == IF user[u].page = "generated" THEN q ELSE 0
           delivered == IF user[u].page = "fulfill" THEN q ELSE 0
           received == IF user[u].page = "receive" THEN q ELSE 0
           approved == IF user[u].state = "FULFILMENT_IN_PROCESS" THEN "true" ELSE "null"
           fulfilled == IF user[u].state = "RECEIVING_IN_PROCESS" THEN "true" ELSE "null"
<1>1. user[u].product \in Products
  BY UserType DEF CallHasRead
<1>2. 0 \in Quantity /\ "null" \in NullBool /\ "true" \in NullBool
  BY LinesAssumption DEF Quantity, NullBool
<1>3. /\ ordered \in Quantity /\ delivered \in Quantity /\ received \in Quantity
      /\ approved \in NullBool /\ fulfilled \in NullBool
  BY <1>2
<1>4. AddedLine(u, q) =
        [NewLine(user[u].product) EXCEPT
           !.orderQuantity = ordered, !.fulfilledQuantity = delivered, !.receivedQuantity = received,
           !.approved = approved, !.fulfilled = fulfilled]
  BY Zenon DEF AddedLine
<1> HIDE DEF ordered, delivered, received, approved, fulfilled
<1>5. AddedLine(u, q) =
        [product |-> user[u].product, approved |-> approved, orderQuantity |-> ordered,
         fulfilled |-> fulfilled, fulfilledQuantity |-> delivered,
         receivedQuantity |-> received, counted |-> TRUE, linked |-> FALSE]
  BY <1>4 DEF NewLine
<1> QED
  BY <1>1, <1>3, <1>5 DEF Line

LEMMA AddEditsLines ==
  ASSUME TypeInv, NEW u \in Users, SaveLine(u) \/ LinkAdded(u)
  PROVE  LinesKeepType /\ Ids' = Ids
<1>0. /\ \A l \in Ids : line[l] \in Line
      /\ user[u] \in User /\ user[u].id \in Ids /\ user[u].found \in Line
  BY LineAt, UserType DEF CallHasRead, SaveLine, LinkAdded
<1>1. CASE SaveLine(u)
  <2>1. line' \in [Ids -> Line]
    BY <1>0, <1>1, LineAt DEF SaveLine
  <2>2. \A k \in Ids : /\ line'[k].product = line[k].product
                       /\ InDelivery(k) => line'[k].approved = "true" \/ line'[k].fulfilled = "true"
    BY <1>0, <1>1, LineAt, UserType DEF SaveLine, CallHasRead, InDelivery
  <2> QED
    BY <2>1, <2>2, Edited
<1>2. CASE LinkAdded(u)
  <2>1. line' \in [Ids -> Line]
    BY <1>0, <1>2, LineAt DEF LinkAdded, Link, Line
  <2>2. \A k \in Ids : /\ line'[k].product = line[k].product
                       /\ InDelivery(k) => line'[k].approved = "true" \/ line'[k].fulfilled = "true"
    BY <1>0, <1>2, LineAt DEF LinkAdded, Link, Line, InDelivery
  <2> QED
    BY <2>1, <2>2, Edited
<1> QED
  BY <1>1, <1>2

LEMMA CreateAddsLine ==
  ASSUME TypeInv, NEW u \in Users, NEW q \in Quantity, CreateLine(u, q)
  PROVE  /\ LinesKeepType /\ Ids' = Ids \union {Len(line) + 1} /\ Len(line) + 1 \in Ids'
         /\ \A l \in Ids : line'[l] = line[l]
         /\ line'[Len(line) + 1] = AddedLine(u, q)
<1>1. AddedLine(u, q) \in Line /\ Len(line) < MaxLines /\ line' = Append(line, AddedLine(u, q))
  BY AddedLineType DEF CreateLine
<1>2. line' = line \o <<AddedLine(u, q)>>
  BY <1>1 DEF TypeInv, TypeOK
<1>3. <<AddedLine(u, q)>> \in Seq(Line) /\ Len(<<AddedLine(u, q)>>) = 1
  BY <1>1
<1>4. /\ LinesKeepType /\ Ids' = 1 .. Len(line) + 1
      /\ \A l \in Ids : line'[l] = line[l]
      /\ \A k \in 1 .. 1 : line'[Len(line) + k] = <<AddedLine(u, q)>>[k]
  <2>1. Len(line) + 1 <= MaxLines
    BY <1>1, LineAt, LinesAssumption
  <2>2. \A l \in Ids : /\ line[l].product = line[l].product
                       /\ InDelivery(l) => line[l].approved = "true" \/ line[l].fulfilled = "true"
    BY DEF InDelivery
  <2> QED
    <3> DEFINE ins == <<AddedLine(u, q)>>
    <3>1. ins \in Seq(Line) /\ Len(ins) = 1 /\ DOMAIN ins = 1 .. 1
      BY <1>3
    <3>2. line' = line \o ins /\ line \in [Ids -> Line] /\ Len(line) + Len(ins) <= MaxLines
      BY <1>2, <2>1, <3>1, LineAt
    <3> HIDE DEF ins
    <3>3. /\ LinesKeepType /\ Ids' = 1 .. Len(line) + Len(ins)
          /\ \A l \in Ids : line'[l] = line[l]
          /\ \A k \in DOMAIN ins : line'[Len(line) + k] = ins[k]
      BY <2>2, <3>1, <3>2, Extended
    <3> QED
      BY <3>1, <3>3 DEF ins
<1> QED
  BY <1>4, LineAt

LEMMA FulfilledByType ==
  ASSUME NEW ln \in Line, NEW r \in Row
  PROVE  /\ FulfilledBy(ln, r) \in Line
         /\ FulfilledBy(ln, r).approved = "true"
         /\ FulfilledBy(ln, r).fulfilledQuantity = r.fulfilledQuantity
         /\ r.fulfilledQuantity > 0 <=> FulfilledBy(ln, r).fulfilled = "true"
         /\ FulfilledBy(ln, r).product = ln.product /\ FulfilledBy(ln, r).linked = ln.linked
         /\ FulfilledBy(ln, r).receivedQuantity = ln.receivedQuantity
<1> DEFINE v == IF r.fulfilledQuantity > 0 THEN "true" ELSE "false"
<1>1. v \in NullBool /\ r.fulfilledQuantity \in Quantity /\ "true" \in NullBool
  BY DEF NullBool, Row
<1>2. r.fulfilledQuantity > 0 <=> v = "true"
  OBVIOUS
<1>3. FulfilledBy(ln, r) = [ln EXCEPT !.approved = "true", !.fulfilledQuantity = r.fulfilledQuantity,
                                      !.fulfilled = v]
  BY Zenon DEF FulfilledBy
<1> HIDE DEF v
<1> QED
  BY <1>1, <1>2, <1>3 DEF Line

LEMMA NewLineType ==
  ASSUME NEW p \in Products
  PROVE  /\ NewLine(p) \in Line /\ NewLine(p).product = p /\ ~NewLine(p).linked
         /\ NewLine(p).receivedQuantity = 0 /\ NewLine(p).fulfilledQuantity = 0
         /\ NewLine(p).approved = "null" /\ NewLine(p).fulfilled = "null"
BY LinesAssumption DEF NewLine, Line, NullBool, Quantity

LEMMA InsertedByType ==
  ASSUME NEW r \in Row
  PROVE  /\ InsertedBy(r) \in Line
         /\ InsertedBy(r).approved = "true"
         /\ InsertedBy(r).fulfilledQuantity = r.fulfilledQuantity
         /\ r.fulfilledQuantity > 0 <=> InsertedBy(r).fulfilled = "true"
         /\ InsertedBy(r).product = r.product /\ ~InsertedBy(r).linked
         /\ InsertedBy(r).receivedQuantity = 0
<1> DEFINE ln == FulfilledBy(NewLine(r.product), r)
<1>1. r.product \in Products
  BY DEF Row
<1>2. /\ ln \in Line /\ ln.approved = "true" /\ ln.fulfilledQuantity = r.fulfilledQuantity
      /\ r.fulfilledQuantity > 0 <=> ln.fulfilled = "true"
      /\ ln.product = r.product /\ ~ln.linked /\ ln.receivedQuantity = 0
  BY <1>1, NewLineType, FulfilledByType
<1>3. InsertedBy(r) = [ln EXCEPT !.counted = FALSE]
  BY DEF InsertedBy
<1> HIDE DEF ln
<1> QED
  BY <1>2, <1>3 DEF Line

LEMMA InOrderType ==
  ASSUME TypeInv, NEW m \in Imports, NEW rows \in SUBSET Rows(m), NEW order \in InOrder(rows)
  PROVE  /\ IsFiniteSet(rows) /\ Cardinality(rows) \in 0 .. MaxLines
         /\ order \in [1 .. Cardinality(rows) -> rows] /\ rows \subseteq Row
         /\ \A j, k \in 1 .. Cardinality(rows) : order[j] = order[k] => j = k
<1>1. /\ IsFiniteSet(rows) /\ Cardinality(rows) \in Nat /\ Cardinality(rows) <= Cardinality(Rows(m))
      /\ Cardinality(Rows(m)) \in 0 .. MaxLines /\ rows \subseteq Row
  BY ImportType, FS_Subset, FS_CardinalityType
<1>2. /\ order \in [1 .. Cardinality(rows) -> rows]
      /\ \A j, k \in 1 .. Cardinality(rows) : j < k => order[j].nr < order[k].nr
  BY DEF InOrder
<1>3. ASSUME NEW j \in 1 .. Cardinality(rows), NEW k \in 1 .. Cardinality(rows),
             order[j] = order[k], j # k
      PROVE  FALSE
  <2>1. order[j].nr \in Nat
    BY <1>1, <1>2 DEF Row
  <2>2. order[j].nr < order[k].nr \/ order[k].nr < order[j].nr
    BY <1>1, <1>2, <1>3
  <2> QED
    BY <1>3, <2>1, <2>2
<1>4. Cardinality(rows) \in 0 .. MaxLines
  BY <1>1, LinesAssumption
<1> QED
  BY <1>1, <1>2, <1>3, <1>4

\* A line item that nobody decided on is not fulfilled.
Cleared(ln) == [ln EXCEPT !.fulfilled = "false", !.fulfilledQuantity = 0]

\* The sets of rows that have a line item.
FoundRows(m) == SUBSET (Rows(m) \ import[m].new)

\* The row that a line item gets.
GetsRow(l, rows, last) ==
  /\ last[line[l].product] \in rows /\ last[line[l].product].product = line[l].product
  /\ l = First(LinesOf(line[l].product)) /\ line[l].product \in ProductsOf(rows)

LEMMA UpdatedType ==
  ASSUME TypeInv, NEW m \in Imports, import[m].pc = "write",
         NEW rows \in FoundRows(m), NEW last \in LastRows(rows),
         NEW clear
  PROVE  /\ Updated(rows, last, clear) \in [Ids -> Line]
         /\ \A l \in Ids :
              \/ /\ GetsRow(l, rows, last) /\ last[line[l].product] \in Row
                 /\ Updated(rows, last, clear)[l] = FulfilledBy(line[l], last[line[l].product])
              \/ /\ ~GetsRow(l, rows, last) /\ clear /\ line[l].fulfilled = "null"
                 /\ Updated(rows, last, clear)[l] = Cleared(line[l])
              \/ /\ ~GetsRow(l, rows, last)
                 /\ Updated(rows, last, clear)[l] = line[l]
<1>0. /\ \A l \in Ids : line[l] \in Line
      /\ rows \subseteq Row
      /\ \A r \in rows : LinesOf(r.product) # {}
  BY LineAt, ImportType DEF WorkerHasFound, FoundRows
<1>1. /\ last \in [ProductsOf(rows) -> rows]
      /\ \A p \in ProductsOf(rows) : last[p] \in rows /\ last[p].product = p
  BY DEF LastRows
<1>2. \A r \in rows : /\ r.product \in ProductsOf(rows)
                      /\ First(LinesOf(r.product)) \in Ids
                      /\ line[First(LinesOf(r.product))].product = r.product
  BY <1>0, LinesOfType DEF ProductsOf, LinesOf, TypeInv, TypeOK
<1>3. \A l \in Ids : (\E r \in rows : r = last[r.product] /\ l = First(LinesOf(r.product)))
                       <=> GetsRow(l, rows, last)
  BY <1>1, <1>2 DEF GetsRow
<1>4. \A l \in Ids : Updated(rows, last, clear)[l] =
        IF GetsRow(l, rows, last) THEN FulfilledBy(line[l], last[line[l].product])
        ELSE IF clear /\ line[l].fulfilled = "null"
        THEN Cleared(line[l]) ELSE line[l]
  BY <1>3 DEF Updated, Cleared
<1>5. \A l \in Ids : GetsRow(l, rows, last) => /\ last[line[l].product] \in Row
                                               /\ FulfilledBy(line[l], last[line[l].product]) \in Line
  BY <1>0, FulfilledByType DEF GetsRow
<1>6. \A l \in Ids : Cleared(line[l]) \in Line
  <2>1. 0 \in Quantity /\ "false" \in NullBool
    BY LinesAssumption DEF NullBool, Quantity
  <2> QED
    BY <1>0, <2>1 DEF Line, Cleared
<1>7. \A l \in Ids : Updated(rows, last, clear)[l] \in Line
  BY <1>0, <1>4, <1>5, <1>6
<1>8. Updated(rows, last, clear) \in [Ids -> Line]
  BY <1>7 DEF Updated
<1> QED
  BY <1>4, <1>5, <1>8

LEMMA UpdatedKeeps ==
  ASSUME TypeInv, NEW m \in Imports, import[m].pc = "write",
         NEW rows \in FoundRows(m), NEW last \in LastRows(rows),
         NEW clear, NEW l \in Ids
  PROVE  LET new == Updated(rows, last, clear)[l]
         IN  /\ new.product = line[l].product /\ new.linked = line[l].linked
             /\ new.receivedQuantity = line[l].receivedQuantity
             /\ InDelivery(l) => new.approved = "true" \/ new.fulfilled = "true"
<1> DEFINE new == Updated(rows, last, clear)[l]
           row == last[line[l].product]
<1>0. line[l] \in Line
  BY LineAt
<1>1. \/ row \in Row /\ new = FulfilledBy(line[l], row)
      \/ line[l].fulfilled = "null" /\ new = Cleared(line[l])
      \/ new = line[l]
  BY UpdatedType
<1> HIDE DEF new, row
<1>2. CASE row \in Row /\ new = FulfilledBy(line[l], row)
  BY <1>0, <1>2, FulfilledByType DEF new
<1>3. CASE line[l].fulfilled = "null" /\ new = Cleared(line[l])
  BY <1>0, <1>3 DEF Line, InDelivery, new, Cleared
<1>4. CASE new = line[l]
  BY <1>4 DEF InDelivery, new
<1> QED
  BY <1>1, <1>2, <1>3, <1>4

LEMMA InsertedType ==
  ASSUME TypeInv, NEW m \in Imports, NEW rows \in SUBSET Rows(m), NEW ins \in Inserted(rows)
  PROVE  /\ ins \in Seq(Line) /\ Len(ins) = Cardinality(rows) /\ Cardinality(rows) \in Nat
         /\ \E order \in InOrder(rows) :
              \A k \in 1 .. Cardinality(rows) :
                order[k] \in rows /\ order[k] \in Row /\ ins[k] = InsertedBy(order[k])
<1>1. PICK order \in InOrder(rows) : ins = [k \in DOMAIN order |-> InsertedBy(order[k])]
  BY DEF Inserted
<1>2. /\ Cardinality(rows) \in Nat /\ DOMAIN order = 1 .. Cardinality(rows)
      /\ \A k \in 1 .. Cardinality(rows) : order[k] \in rows /\ order[k] \in Row
  BY InOrderType
<1>3. \A k \in 1 .. Cardinality(rows) : InsertedBy(order[k]) \in Line
  BY <1>2, InsertedByType
<1>4. ins \in [1 .. Cardinality(rows) -> Line]
  BY <1>1, <1>2, <1>3
<1>5. ins \in Seq(Line) /\ Len(ins) = Cardinality(rows)
  BY <1>2, <1>4, LinesAre
<1> QED
  BY <1>1, <1>2, <1>5

\* What a batch, or a part of it, makes of the line items.
BatchOf(m, old, new, clear) ==
  \E last \in LastRows(old), ins \in Inserted(new) :
    line' = Updated(old, last, clear) \o ins /\ Len(line) + Len(ins) <= MaxLines

\* The line items that there are, after a batch.
BatchUpdates(old, clear) ==
  \E last \in LastRows(old) : \A l \in Ids : line'[l] = Updated(old, last, clear)[l]

LEMMA BatchEditsLines ==
  ASSUME TypeInv, NEW m \in Imports, import[m].pc = "write",
         NEW old \in FoundRows(m), NEW new \in SUBSET import[m].new,
         NEW clear, BatchOf(m, old, new, clear)
  PROVE  /\ LinesKeepType
         /\ BatchUpdates(old, clear)
         /\ \E order \in InOrder(new) :
              /\ Ids' = 1 .. Len(line) + Cardinality(new)
              /\ \A k \in 1 .. Cardinality(new) :
                   order[k] \in new /\ order[k] \in Row /\ line'[Len(line) + k] = InsertedBy(order[k])
<1>0. new \in SUBSET Rows(m)
  BY ImportType DEF WorkerHasFound
<1>1. PICK last \in LastRows(old), ins \in Inserted(new) :
        line' = Updated(old, last, clear) \o ins /\ Len(line) + Len(ins) <= MaxLines
  BY DEF BatchOf
<1> DEFINE f == Updated(old, last, clear)
<1>2. f \in [Ids -> Line]
  BY UpdatedType
<1>3. \A l \in Ids : /\ f[l].product = line[l].product
                     /\ InDelivery(l) => f[l].approved = "true" \/ f[l].fulfilled = "true"
  BY UpdatedKeeps
<1>4. ins \in Seq(Line) /\ Len(ins) = Cardinality(new)
  BY <1>0, InsertedType
<1>5. PICK order \in InOrder(new) :
        \A k \in 1 .. Cardinality(new) :
          order[k] \in new /\ order[k] \in Row /\ ins[k] = InsertedBy(order[k])
  BY <1>0, InsertedType
<1> HIDE DEF f
<1>6. /\ LinesKeepType /\ Ids' = 1 .. Len(line) + Len(ins)
      /\ \A l \in Ids : line'[l] = f[l]
      /\ \A k \in DOMAIN ins : line'[Len(line) + k] = ins[k]
  BY <1>1, <1>2, <1>3, <1>4, Extended DEF f
<1>7. DOMAIN ins = 1 .. Cardinality(new)
  BY <1>4
<1>8. BatchUpdates(old, clear)
  BY <1>6 DEF BatchUpdates, f
<1> QED
  BY <1>4, <1>5, <1>6, <1>7, <1>8

LEMMA SomeIsBatch ==
  ASSUME TypeInv, NEW m \in Imports, ExecuteSome(m)
  PROVE  \E some \in SUBSET Rows(m), clear \in BOOLEAN :
           BatchOf(m, some \ import[m].new, some \intersect import[m].new, clear)
BY DEF ExecuteSome, BatchOf

LEMMA AllIsBatch ==
  ASSUME TypeInv, NEW m \in Imports, ExecuteBatch(m)
  PROVE  BatchOf(m, Rows(m) \ import[m].new, import[m].new, TRUE)
<1>0. import[m].new \in SUBSET Rows(m)
  BY ImportType DEF WorkerHasFound
<1>1. PICK last \in LastRows(Rows(m) \ import[m].new), ins \in Inserted(import[m].new) :
        line' = Updated(Rows(m) \ import[m].new, last, TRUE) \o ins
  BY DEF ExecuteBatch
<1>2. Len(ins) = Cardinality(import[m].new)
  BY <1>0, InsertedType
<1> QED
  BY <1>1, <1>2 DEF ExecuteBatch, BatchOf

LEMMA BatchGrows ==
  ASSUME TypeInv, NEW m \in Imports, ExecuteBatch(m) \/ ExecuteSome(m)
  PROVE  LinesKeepType
<1>0. import[m].pc = "write" /\ import[m].new \in SUBSET Rows(m)
  BY ImportType DEF WorkerHasFound, ExecuteBatch, ExecuteSome
<1>1. CASE ExecuteBatch(m)
  <2>1. Rows(m) \ import[m].new \in FoundRows(m)
    BY DEF FoundRows
  <2> QED
    BY <1>0, <1>1, <2>1, AllIsBatch, BatchEditsLines
<1>2. CASE ExecuteSome(m)
  <2>1. PICK some \in SUBSET Rows(m), clear \in BOOLEAN :
           BatchOf(m, some \ import[m].new, some \intersect import[m].new, clear)
    BY <1>2, SomeIsBatch
  <2>2. some \ import[m].new \in FoundRows(m)
    BY DEF FoundRows
  <2> QED
    BY <1>0, <2>1, <2>2, BatchEditsLines
<1> QED
  BY <1>1, <1>2

LEMMA LineOfRowType ==
  ASSUME NEW r \in Row, NEW st
  PROVE  /\ LineOfRow(r, st) \in Line /\ LineOfRow(r, st).product = r.product
         /\ ~LineOfRow(r, st).linked /\ LineOfRow(r, st).receivedQuantity = 0
         /\ LineOfRow(r, st).approved = "true" <=> st \in approvedInFile
         /\ LineOfRow(r, st).fulfilled = "true" <=> st \in fulfilledInFile
<1> DEFINE a == ToBool(st \in approvedInFile)
           f == ToBool(st \in fulfilledInFile)
<1>1. /\ a \in NullBool /\ (a = "true" <=> st \in approvedInFile)
      /\ f \in NullBool /\ (f = "true" <=> st \in fulfilledInFile)
  BY DEF ToBool, NullBool
<1>2. r.product \in Products /\ r.orderQuantity \in Quantity /\ r.fulfilledQuantity \in Quantity
  BY DEF Row
<1>3. LineOfRow(r, st) =
        [NewLine(r.product) EXCEPT
           !.orderQuantity = r.orderQuantity, !.fulfilledQuantity = r.fulfilledQuantity,
           !.approved = a, !.fulfilled = f, !.counted = FALSE]
  BY Zenon DEF LineOfRow
<1> HIDE DEF a, f
<1>4. LineOfRow(r, st) =
        [product |-> r.product, approved |-> a, orderQuantity |-> r.orderQuantity,
         fulfilled |-> f, fulfilledQuantity |-> r.fulfilledQuantity,
         receivedQuantity |-> 0, counted |-> FALSE, linked |-> FALSE]
  BY <1>3 DEF NewLine
<1>5. 0 \in Quantity
  BY LinesAssumption DEF Quantity
<1> QED
  BY <1>1, <1>2, <1>4, <1>5 DEF Line

\* A new order has a line item for each of some rows of its file.
LEMMA LinesInserted ==
  ASSUME TypeInv, NEW m \in Imports, InsertLines(m) \/ InsertLinesFails(m)
  PROVE  /\ LinesKeepType /\ line = <<>> /\ Ids = {}
         /\ \E order \in InOrder(Rows(m)) :
              /\ Ids' \subseteq 1 .. Cardinality(Rows(m))
              /\ \A l \in Ids' : /\ order[l] \in Rows(m) /\ order[l] \in Row
                                 /\ line'[l] = LineOfRow(order[l], import[m].file.orderStatus)
<1>0. line = <<>> /\ Ids = {}
  <2>1. line = <<>>
    BY DEF TypeInv, NewOrder, InsertLines, InsertLinesFails
  <2> QED
    BY <2>1 DEF Ids
<1>1. Cardinality(Rows(m)) \in 0 .. MaxLines
  BY ImportType
<1>2. \E order \in InOrder(Rows(m)), n \in 0 .. Cardinality(Rows(m)) :
        line' = [l \in 1 .. n |-> LineOfRow(order[l], import[m].file.orderStatus)]
  <2>1. CASE InsertLines(m)
    <3>1. PICK order \in InOrder(Rows(m)) :
            line' = [l \in DOMAIN order |-> LineOfRow(order[l], import[m].file.orderStatus)]
      BY <2>1 DEF InsertLines
    <3>2. DOMAIN order = 1 .. Cardinality(Rows(m)) /\ Cardinality(Rows(m)) \in 0 .. Cardinality(Rows(m))
      BY <1>1, InOrderType, LinesAssumption
    <3> QED
      BY <3>1, <3>2
  <2>2. CASE InsertLinesFails(m)
    BY <2>2 DEF InsertLinesFails
  <2> QED
    BY <2>1, <2>2
<1>3. PICK order \in InOrder(Rows(m)), n \in 0 .. Cardinality(Rows(m)) :
        line' = [l \in 1 .. n |-> LineOfRow(order[l], import[m].file.orderStatus)]
  BY <1>2
<1>4. \A l \in 1 .. Cardinality(Rows(m)) : order[l] \in Rows(m) /\ order[l] \in Row
  BY InOrderType
<1>5. n \in Nat /\ n <= MaxLines /\ 1 .. n \subseteq 1 .. Cardinality(Rows(m))
  BY <1>1, <1>3, LinesAssumption
<1>6. line' \in [1 .. n -> Line]
  BY <1>3, <1>4, <1>5, LineOfRowType
<1>7. line' \in Seq(Line) /\ Len(line') = n /\ Ids' = 1 .. n
  BY <1>5, <1>6, LinesAre DEF Ids
<1> QED
  BY <1>0, <1>3, <1>4, <1>5, <1>7 DEF LinesKeepType, Grows

LEMMA ImportEditsLines ==
  ASSUME TypeInv, NEW m \in Imports, PushOrder(m) \/ LinkRow(m)
  PROVE  LinesKeepType /\ Ids' = Ids
<1>0. \A l \in Ids : line[l] \in Line
  BY LineAt
<1>1. CASE PushOrder(m)
  <2>1. line' \in [Ids -> Line]
    BY <1>0, <1>1, LineAt DEF PushOrder, Line
  <2>2. \A k \in Ids : /\ line'[k].product = line[k].product
                       /\ InDelivery(k) => line'[k].approved = "true" \/ line'[k].fulfilled = "true"
    BY <1>0, <1>1, LineAt DEF PushOrder, Line, InDelivery
  <2> QED
    BY <2>1, <2>2, Edited
<1>2. CASE LinkRow(m)
  <2>0. First(import[m].todo) \in Ids
    BY <1>2, ImportType, IdsType, FirstIsLeast DEF LinkRow, WorkerHasFound, TypeInv, TypeOK
  <2>1. line' \in [Ids -> Line]
    BY <1>0, <1>2, <2>0, LineAt DEF LinkRow, Link, Line
  <2>2. \A k \in Ids : /\ line'[k].product = line[k].product
                       /\ InDelivery(k) => line'[k].approved = "true" \/ line'[k].fulfilled = "true"
    BY <1>0, <1>2, <2>0, LineAt DEF LinkRow, Link, Line, InDelivery
  <2> QED
    BY <2>1, <2>2, Edited
<1> QED
  BY <1>1, <1>2

\* The steps that change a line item.
EditsLines(u) == \/ \E l \in Ids, q \in Quantity : EditFulfilled(u, l, q) \/ EditReceived(u, l, q)
                 \/ \E l \in Ids : ScanReceived(u, l)
                 \/ ExecuteFulfillAll(u) \/ FlagFulfilled(u)

LEMMA PageKeepsLines ==
  ASSUME NEW u \in Users, PageStep(u)
  PROVE  EditsLines(u) \/ UNCHANGED line
BY DEF PageStep, EditsLines, OpenPage, PutOpenedState, FulfillAll, SendDelivery, WriteReceivingPending,
       LoadDiscrepancies, SaveDiscrepancies, SubmitReceivals, DeleteInVend, SetDeleted, CallFails

LEMMA AddKeepsLines ==
  ASSUME NEW u \in Users, AddStep(u)
  PROVE  SaveLine(u) \/ LinkAdded(u) \/ (\E q \in Quantity : CreateLine(u, q)) \/ UNCHANGED line
BY DEF AddStep, AddProduct, FindNoLine, FindRefused, FindLeftOut, PushAdded, PushRejected,
       PushUnanswered

LEMMA ImportKeepsLines ==
  ASSUME NEW m \in Imports, CreateStep(m) \/ FulfilStep(m)
  PROVE  \/ InsertLines(m) \/ InsertLinesFails(m) \/ PushOrder(m) \/ LinkRow(m)
         \/ ExecuteBatch(m) \/ ExecuteSome(m) \/ UNCHANGED line
BY DEF CreateStep, FulfilStep, UploadFile, MapRows, CreateOrder, PushOrderFails, SetOrderStatus,
       FindReports, FindRow, SelectUnpushed, PushRow, RowsPushed, RowRejected, PushRowUnanswered,
       ImportFails

LEMMA LinesNext ==
  ASSUME TypeInv, [Next]_vars
  PROVE  LinesKeepType
<1>1. CASE UNCHANGED vars \/ ReceiveConsignment \/ ReceiptFails
  BY <1>1, Unchanged DEF vars, ReceiveConsignment, ReceiptFails
<1>2. ASSUME NEW u \in Users, PageStep(u) PROVE LinesKeepType
  BY <1>2, PageKeepsLines, PageEditsLines, Unchanged DEF EditsLines
<1>3. ASSUME NEW u \in Users, AddStep(u) PROVE LinesKeepType
  BY <1>3, AddKeepsLines, AddEditsLines, CreateAddsLine, Unchanged
<1>4. ASSUME NEW m \in Imports, CreateStep(m) \/ FulfilStep(m) PROVE LinesKeepType
  BY <1>4, ImportKeepsLines, LinesInserted, ImportEditsLines, BatchGrows, Unchanged
<1> QED
  BY <1>1, <1>2, <1>3, <1>4 DEF Next

\* What grows keeps its first line items.
LEMMA FirstsStay ==
  ASSUME TypeInv, LinesKeepType, NEW p
  PROVE  /\ LinesOf(p) \subseteq LinesOf(p)'
         /\ LinesOf(p) # {} => First(LinesOf(p)') = First(LinesOf(p)) /\ First(LinesOf(p)) \in Ids
         /\ LinesOf(p) # {} /\ InDelivery(First(LinesOf(p))) => InDelivery(First(LinesOf(p)))'
<1>1. /\ Ids = 1 .. Len(line) /\ Len(line) \in Nat
      /\ Ids' = 1 .. Len(line') /\ Len(line') \in Nat
      /\ Ids \subseteq Ids' /\ \A l \in Ids : line'[l].product = line[l].product
  BY LineAt DEF LinesKeepType, Grows, Ids
<1>2. /\ LinesOf(p) \in SUBSET Nat /\ LinesOf(p)' \in SUBSET Nat
      /\ LinesOf(p) = {l \in Ids : line[l].product = p}
      /\ LinesOf(p)' = {l \in Ids' : line'[l].product = p}
  BY <1>1 DEF LinesOf
<1>3. LinesOf(p) \subseteq LinesOf(p)'
  BY <1>1, <1>2
<1>4. ASSUME LinesOf(p) # {}
      PROVE  /\ First(LinesOf(p)') = First(LinesOf(p)) /\ First(LinesOf(p)) \in Ids
  <2>1. \A k \in LinesOf(p)' \ LinesOf(p) : \A l \in LinesOf(p) : l < k
    BY <1>1, <1>2
  <2>2. First(LinesOf(p)') = First(LinesOf(p))
    BY <1>2, <1>3, <1>4, <2>1, FirstStays
  <2> QED
    BY <1>2, <1>4, <2>2, FirstIsLeast
<1>5. ASSUME LinesOf(p) # {}, InDelivery(First(LinesOf(p))) PROVE InDelivery(First(LinesOf(p)))'
  <2>1. PICK l \in Ids : l = First(LinesOf(p)) /\ l = First(LinesOf(p))'
    BY <1>4, <1>5
  <2>2. InDelivery(l) => InDelivery(l)'
    BY DEF LinesKeepType, Grows
  <2> QED
    BY <1>5, <2>1, <2>2 DEF InDelivery
<1> QED
  BY <1>3, <1>4, <1>5

-----------------------------------------------------------------------------
(* What a step does to the calls of the sessions *)

\* The sessions but u are where they were.
OnlyCalls(u) == user' \in [Users -> User] /\ \A v \in Users : v # u => user'[v] = user[v]

LEMMA IdleUserType == IdleUser \in User
BY LinesAssumption DEF IdleUser, User, Pages, REPORT_STATES

LEMMA UsersType ==
  ASSUME TypeInv
  PROVE  user \in [Users -> User]
BY DEF TypeInv, TypeOK

LEMMA UserMoves ==
  ASSUME TypeInv, NEW u \in Users, NEW x \in User, user' = [user EXCEPT ![u] = x]
  PROVE  OnlyCalls(u) /\ user'[u] = x
BY UsersType DEF OnlyCalls

Calls == {"find", "create", "save", "push", "link", "all", "send", "flag", "count", "delete"}

LEMMA Called ==
  ASSUME TypeInv, NEW u \in Users, NEW pc \in Calls, Call(u, pc)
  PROVE  /\ OnlyCalls(u) /\ user'[u].pc = pc /\ user'[u].product = user[u].product
         /\ user'[u].state = user[u].state /\ user'[u].id = user[u].id
         /\ user'[u].found = user[u].found /\ user'[u].page = user[u].page
         /\ user'[u].loaded = user[u].loaded /\ user'[u].opening = user[u].opening
<1>1. [user[u] EXCEPT !.pc = pc] \in User
  BY UserType DEF User, Calls
<1>2. user' = [user EXCEPT ![u] = [user[u] EXCEPT !.pc = pc]]
  BY UsersType DEF Call
<1>3. OnlyCalls(u) /\ user'[u] = [user[u] EXCEPT !.pc = pc]
  BY <1>1, <1>2, UserMoves
<1> QED
  BY <1>3, UserType DEF User

LEMMA Returned ==
  ASSUME TypeInv, NEW u \in Users, Return(u)
  PROVE  /\ OnlyCalls(u) /\ user'[u].pc = "idle" /\ user'[u].id = None
         /\ user'[u].page = user[u].page /\ user'[u].loaded = user[u].loaded
         /\ user'[u].opening = user[u].opening
<1> DEFINE x == [IdleUser EXCEPT !.page = user[u].page, !.opening = user[u].opening,
                                 !.loaded = user[u].loaded]
<1>1. /\ x \in User /\ x.pc = "idle" /\ x.id = None /\ x.page = user[u].page
      /\ x.loaded = user[u].loaded /\ x.opening = user[u].opening
  BY UserType, IdleUserType DEF User, IdleUser
<1>2. user' = [user EXCEPT ![u] = x]
  BY DEF Return
<1> HIDE DEF x
<1> QED
  BY <1>1, <1>2, UserMoves

LEMMA Left ==
  ASSUME TypeInv, NEW u \in Users, Leave(u)
  PROVE  OnlyCalls(u) /\ user'[u] = IdleUser
BY IdleUserType, UserMoves DEF Leave

\* A session in a call that has read nothing, or in none.
LEMMA NothingRead ==
  ASSUME NEW u \in Users, user'[u].pc \in {"idle", "send", "flag", "count", "delete"}
  PROVE  CallHasRead(u)'
BY DEF CallHasRead

LEMMA ReadStays ==
  ASSUME LinesKeepType, NEW u \in Users, CallHasRead(u), user'[u] = user[u]
  PROVE  CallHasRead(u)'
BY DEF CallHasRead, LinesKeepType, Grows

LEMMA PageType ==
  ASSUME TypeInv, NEW u \in Users, user[u].page # "none"
  PROVE  report.state \in REPORT_STATES
<1>1. user[u] # IdleUser
  BY DEF IdleUser
<1>2. report.state \notin {"absent", ""}
  BY <1>1 DEF TypeInv, NewOrder
<1> QED
  BY <1>2 DEF TypeInv, TypeOK, Report

\* There are no more discrepancies than line items.
LEMMA CountType ==
  ASSUME TypeInv
  PROVE  Discrepancies \in 0 .. MaxLines
<1> DEFINE D == {l \in Ids : IsDiscrepancy(l)}
<1>1. Len(line) \in Nat /\ Len(line) <= MaxLines /\ Ids = 1 .. Len(line)
  BY LineAt DEF TypeInv, TypeOK
<1>2. IsFiniteSet(Ids) /\ Cardinality(Ids) = Len(line)
  <2>1. IsFiniteSet(1 .. Len(line)) /\ Cardinality(1 .. Len(line)) = Len(line)
    <3>1. Cardinality(1 .. Len(line)) = IF 1 > Len(line) THEN 0 ELSE Len(line) - 1 + 1
      BY <1>1, FS_Interval
    <3>2. (IF 1 > Len(line) THEN 0 ELSE Len(line) - 1 + 1) = Len(line)
      BY <1>1
    <3> QED
      BY <1>1, <3>1, <3>2, FS_Interval
  <2> QED
    BY <1>1, <2>1
<1>3. IsFiniteSet(D) /\ Cardinality(D) <= Cardinality(Ids)
  BY <1>2, FS_Subset
<1>4. Cardinality(D) \in Nat
  BY <1>3, FS_CardinalityType
<1> QED
  BY <1>1, <1>2, <1>3, <1>4, LinesAssumption DEF Discrepancies

LEMMA PageCalls ==
  ASSUME TypeInv, LinesKeepType, NEW u \in Users, PageStep(u)
  PROVE  OnlyCalls(u) /\ CallHasRead(u)'
<1>0. user[u] \in User /\ CallHasRead(u)
  BY UserType
<1>1. ASSUME NEW page \in Pages, OpenPage(u, page) PROVE OnlyCalls(u) /\ CallHasRead(u)'
  <2> DEFINE opening == report.state \in {"GENERATED", "FULFILMENT_PENDING", "RECEIVING_PENDING"}
             x == [IdleUser EXCEPT !.page = page, !.opening = opening]
  <2>1. opening \in BOOLEAN
    OBVIOUS
  <2>2. user' = [user EXCEPT ![u] = x]
    BY <1>1 DEF OpenPage
  <2> HIDE DEF opening
  <2>3. x \in User /\ x.pc = "idle"
    BY <2>1, IdleUserType DEF User, IdleUser
  <2> QED
    BY <2>2, <2>3, UserMoves, NothingRead
<1>2. CASE PutOpenedState(u)
  <2>1. [user[u] EXCEPT !.opening = FALSE] \in User
    BY <1>0 DEF User
  <2>2. user' = [user EXCEPT ![u] = [user[u] EXCEPT !.opening = FALSE]]
    BY <1>2, UsersType DEF PutOpenedState
  <2>3. OnlyCalls(u) /\ user'[u] = [user[u] EXCEPT !.opening = FALSE]
    BY <2>1, <2>2, UserMoves
  <2>4. /\ user'[u].pc = user[u].pc /\ user'[u].product = user[u].product
        /\ user'[u].id = user[u].id /\ user'[u].found = user[u].found /\ user'[u].all = user[u].all
    BY <1>0, <2>3 DEF User
  <2>5. CallHasRead(u)'
    BY <1>0, <2>4 DEF CallHasRead, LinesKeepType, Grows
  <2> QED
    BY <2>3, <2>5
<1>3. ASSUME NEW l \in Ids, NEW q \in Quantity, EditFulfilled(u, l, q) \/ ScanReceived(u, l)
      PROVE  OnlyCalls(u) /\ CallHasRead(u)'
  BY <1>0, <1>3, UsersType, ReadStays DEF EditFulfilled, ScanReceived, OnlyCalls
<1>4. ASSUME NEW l \in Ids, NEW q \in Quantity, EditReceived(u, l, q)
      PROVE  OnlyCalls(u) /\ CallHasRead(u)'
  <2>1. [user[u] EXCEPT !.loaded = FALSE] \in User /\ user[u].pc = "idle"
    BY <1>0, <1>4 DEF User, EditReceived, Calling
  <2>2. user' = [user EXCEPT ![u] = [user[u] EXCEPT !.loaded = FALSE]]
    BY <1>4, UsersType DEF EditReceived
  <2>3. OnlyCalls(u) /\ user'[u].pc = "idle"
    BY <1>0, <2>1, <2>2, UserMoves DEF User
  <2> QED
    BY <2>3, NothingRead
<1>5. CASE FulfillAll(u)
  <2> DEFINE approved == {l \in Ids : line[l].approved = "true"}
             x == [user[u] EXCEPT !.pc = "all", !.all = approved]
  <2>1. Ids \subseteq 1 .. MaxLines
    BY LineAt, LinesAssumption DEF TypeInv, TypeOK
  <2>2. x \in User /\ x.pc = "all" /\ x.all = approved
    BY <1>0, <2>1 DEF User
  <2>3. user' = [user EXCEPT ![u] = x] /\ UNCHANGED line
    BY <1>5, UsersType DEF FulfillAll
  <2> HIDE DEF x
  <2>4. OnlyCalls(u) /\ user'[u] = x
    BY <2>2, <2>3, UserMoves
  <2>5. \A l \in approved : l \in Ids' /\ InDelivery(l)'
    BY <2>3 DEF InDelivery, Ids
  <2> QED
    BY <2>2, <2>4, <2>5 DEF CallHasRead
<1>6. CASE ExecuteFulfillAll(u)
  BY <1>6, Returned, NothingRead DEF ExecuteFulfillAll
<1>7. CASE SendDelivery(u)
  <2>1. OnlyCalls(u) /\ user'[u].pc = "send"
    BY <1>7, Called DEF SendDelivery, Calls
  <2> QED
    BY <2>1, NothingRead
<1>8. CASE WriteReceivingPending(u)
  <2>1. OnlyCalls(u) /\ user'[u].pc = "flag"
    BY <1>8, Called DEF WriteReceivingPending, Calls
  <2> QED
    BY <2>1, NothingRead
<1>9. CASE FlagFulfilled(u) \/ SubmitReceivals(u) \/ SetDeleted(u)
  <2>1. OnlyCalls(u) /\ user'[u].pc = "idle"
    BY <1>9, Left DEF FlagFulfilled, SubmitReceivals, SetDeleted, IdleUser
  <2> QED
    BY <2>1, NothingRead
<1>10. ASSUME NEW filtered \in BOOLEAN, LoadDiscrepancies(u, filtered) PROVE OnlyCalls(u) /\ CallHasRead(u)'
  <2>0. user[u].pc = "idle"
    BY <1>10 DEF LoadDiscrepancies, Calling
  <2>1. CASE user' = [user EXCEPT ![u].loaded = TRUE]
    <3>1. [user[u] EXCEPT !.loaded = TRUE] \in User /\ [user[u] EXCEPT !.loaded = TRUE].pc = "idle"
      BY <1>0, <2>0 DEF User
    <3>2. user' = [user EXCEPT ![u] = [user[u] EXCEPT !.loaded = TRUE]]
      BY <2>1, UsersType
    <3>3. OnlyCalls(u) /\ user'[u].pc = "idle"
      BY <3>1, <3>2, UserMoves
    <3> QED
      BY <3>3, NothingRead
  <2>2. CASE user' = [user EXCEPT ![u].pc = "count", ![u].count = Discrepancies]
    <3> DEFINE x == [user[u] EXCEPT !.pc = "count", !.count = Discrepancies]
    <3>1. x \in User /\ x.pc = "count"
      BY <1>0, CountType DEF User
    <3>2. user' = [user EXCEPT ![u] = x]
      BY <2>2, UsersType
    <3> HIDE DEF x
    <3>3. OnlyCalls(u) /\ user'[u].pc = "count"
      BY <3>1, <3>2, UserMoves
    <3> QED
      BY <3>3, NothingRead
  <2> QED
    BY <1>10, <2>1, <2>2 DEF LoadDiscrepancies
<1>11. CASE SaveDiscrepancies(u)
  <2> DEFINE x == [IdleUser EXCEPT !.page = user[u].page, !.opening = user[u].opening, !.loaded = TRUE]
  <2>1. x \in User /\ x.pc = "idle"
    BY <1>0, IdleUserType DEF User, IdleUser
  <2>2. user' = [user EXCEPT ![u] = x]
    BY <1>11 DEF SaveDiscrepancies
  <2> HIDE DEF x
  <2> QED
    BY <2>1, <2>2, UserMoves, NothingRead
<1>12. CASE DeleteInVend(u)
  <2>1. OnlyCalls(u) /\ user'[u].pc = "delete"
    BY <1>12, Called DEF DeleteInVend, Calls
  <2> QED
    BY <2>1, NothingRead
<1>13. CASE CallFails(u)
  BY <1>13, Returned, NothingRead DEF CallFails
<1> QED
  BY <1>1, <1>2, <1>3, <1>4, <1>5, <1>6, <1>7, <1>8, <1>9, <1>10, <1>11, <1>12, <1>13,
     LinesAssumption DEF PageStep, Quantity

LEMMA AddCalls ==
  ASSUME TypeInv, LinesKeepType, NEW u \in Users, AddStep(u)
  PROVE  OnlyCalls(u) /\ CallHasRead(u)'
<1>0. user[u] \in User /\ CallHasRead(u)
  BY UserType
<1>1. ASSUME NEW p \in Products, AddProduct(u, p) PROVE OnlyCalls(u) /\ CallHasRead(u)'
  <2> DEFINE x == [user[u] EXCEPT !.pc = "find", !.product = p, !.state = report.state]
  <2>1. report.state \in REPORT_STATES
    BY <1>1, PageType DEF AddProduct
  <2>2. x \in User /\ x.pc = "find" /\ x.product = p
    BY <1>0, <2>1 DEF User
  <2>3. user' = [user EXCEPT ![u] = x]
    BY <1>1, UsersType DEF AddProduct
  <2> HIDE DEF x
  <2>4. OnlyCalls(u) /\ user'[u] = x
    BY <2>2, <2>3, UserMoves
  <2> QED
    BY <2>2, <2>4 DEF CallHasRead
<1>2. CASE FindNoLine(u)
  <2>1. OnlyCalls(u) /\ user'[u].pc = "create" /\ user'[u].product = user[u].product
    BY <1>2, Called DEF FindNoLine, Calls
  <2> QED
    BY <1>0, <1>2, <2>1 DEF CallHasRead, FindNoLine
<1>3. CASE FindRefused(u) \/ PushRejected(u) \/ LinkAdded(u) \/ PushUnanswered(u)
  BY <1>3, Returned, NothingRead DEF FindRefused, PushRejected, LinkAdded, PushUnanswered
<1>4. CASE FindLeftOut(u)
  <2> DEFINE first == First(LinesOf(user[u].product))
             ln == IF user[u].state = "FULFILMENT_IN_PROCESS" THEN Approve(line[first]) ELSE Fulfil(line[first])
             x == [user[u] EXCEPT !.pc = "save", !.id = first, !.found = ln]
  <2>1. first \in Ids /\ line[first] \in Line /\ first \in 1 .. MaxLines
    BY <1>4, LinesOfType, LineAt, LinesAssumption DEF FindLeftOut, TypeInv, TypeOK
  <2> HIDE DEF first
  <2>2. /\ Approve(line[first]) \in Line /\ Approve(line[first]).approved = "true"
        /\ Approve(line[first]).product = line[first].product
    <3>1. 0 \in Quantity /\ "true" \in NullBool
      BY LinesAssumption DEF NullBool, Quantity
    <3> QED
      BY <2>1, <3>1 DEF Approve, Line
  <2>3. /\ Fulfil(line[first]) \in Line /\ Fulfil(line[first]).fulfilled = "true"
        /\ Fulfil(line[first]).product = line[first].product
    BY <2>1 DEF Fulfil, Line, NullBool
  <2>4. /\ ln \in Line /\ ln.product = line[first].product
        /\ ln.approved = "true" \/ ln.fulfilled = "true"
    BY <2>2, <2>3
  <2>5. user' = [user EXCEPT ![u] = x] /\ UNCHANGED line
    BY <1>4, UsersType DEF FindLeftOut, first
  <2> HIDE DEF ln
  <2>6. x \in User /\ x.pc = "save" /\ x.id = first /\ x.found = ln
    BY <1>0, <2>1, <2>4 DEF User
  <2> HIDE DEF x
  <2>7. OnlyCalls(u) /\ user'[u] = x
    BY <2>5, <2>6, UserMoves
  <2> QED
    BY <2>1, <2>4, <2>5, <2>6, <2>7 DEF CallHasRead, Ids
<1>5. ASSUME NEW q \in Quantity, CreateLine(u, q) PROVE OnlyCalls(u) /\ CallHasRead(u)'
  <2>1. CASE user[u].state \in Pushing
    <3> DEFINE x == [user[u] EXCEPT !.pc = "push", !.id = Len(line) + 1, !.found = AddedLine(u, q)]
    <3>1. AddedLine(u, q) \in Line /\ Len(line) + 1 \in 1 .. MaxLines /\ Len(line) + 1 \in Ids'
      <4>1. AddedLine(u, q) \in Line /\ Len(line) + 1 \in Ids'
        BY <1>5, AddedLineType, CreateAddsLine DEF CreateLine
      <4>2. Len(line) \in Nat /\ MaxLines \in Nat /\ Len(line) < MaxLines
        BY <1>5, LineAt, LinesAssumption DEF CreateLine
      <4> QED
        BY <4>1, <4>2
    <3>2. user' = [user EXCEPT ![u] = x]
      BY <1>5, <2>1, UsersType DEF CreateLine
    <3>3. x \in User /\ x.pc = "push" /\ x.id = Len(line) + 1 /\ x.found = AddedLine(u, q)
      BY <1>0, <3>1 DEF User
    <3> HIDE DEF x
    <3>4. OnlyCalls(u) /\ user'[u] = x
      BY <3>2, <3>3, UserMoves
    <3> QED
      BY <3>1, <3>3, <3>4 DEF CallHasRead
  <2>2. CASE user[u].state \notin Pushing
    BY <1>5, <2>2, Returned, NothingRead DEF CreateLine
  <2> QED
    BY <2>1, <2>2
<1>6. CASE SaveLine(u)
  <2>1. CASE Return(u)
    BY <2>1, Returned, NothingRead
  <2>2. CASE Call(u, "push")
    <3>1. /\ OnlyCalls(u) /\ user'[u].pc = "push" /\ user'[u].id = user[u].id
          /\ user'[u].found = user[u].found
      BY <2>2, Called DEF Calls
    <3> QED
      BY <1>0, <1>6, <3>1 DEF CallHasRead, SaveLine, LinesKeepType, Grows
  <2> QED
    BY <1>6, <2>1, <2>2 DEF SaveLine
<1>7. CASE PushAdded(u)
  <2>1. /\ OnlyCalls(u) /\ user'[u].pc = "link" /\ user'[u].id = user[u].id
        /\ user'[u].found = user[u].found
    BY <1>7, Called DEF PushAdded, Calls
  <2> QED
    BY <1>0, <1>7, <2>1 DEF CallHasRead, PushAdded, LinesKeepType, Grows
<1> QED
  BY <1>1, <1>2, <1>3, <1>4, <1>5, <1>6, <1>7 DEF AddStep

\* A step of a session changes no message, and a step of a worker no session.
LEMMA SessionFrame ==
  ASSUME NEW u \in Users, PageStep(u) \/ AddStep(u)
  PROVE  UNCHANGED import
BY DEF PageStep, OpenPage, PutOpenedState, EditFulfilled, EditReceived, ScanReceived, FulfillAll,
       ExecuteFulfillAll, SendDelivery, WriteReceivingPending, FlagFulfilled, LoadDiscrepancies,
       SaveDiscrepancies, SubmitReceivals, DeleteInVend, SetDeleted, CallFails,
       AddStep, AddProduct, FindNoLine, FindRefused, FindLeftOut, CreateLine, SaveLine, PushAdded,
       PushRejected, LinkAdded, PushUnanswered

LEMMA WorkerFrame ==
  ASSUME NEW m \in Imports, CreateStep(m) \/ FulfilStep(m)
  PROVE  UNCHANGED user
BY DEF CreateStep, UploadFile, MapRows, CreateOrder, InsertLines, InsertLinesFails, PushOrder,
       PushOrderFails, SetOrderStatus, FulfilStep, FindReports, FindRow, ExecuteBatch, ExecuteSome,
       SelectUnpushed, PushRow, LinkRow, RowsPushed, RowRejected, PushRowUnanswered, ImportFails

LEMMA CallsNext ==
  ASSUME TypeInv, LinesKeepType, [Next]_vars
  PROVE  user' \in [Users -> User] /\ \A u \in Users : CallHasRead(u)'
<1>1. CASE UNCHANGED user
  BY <1>1, UsersType, UserType, ReadStays
<1>2. ASSUME NEW u \in Users, PageStep(u) \/ AddStep(u)
      PROVE  user' \in [Users -> User] /\ \A v \in Users : CallHasRead(v)'
  <2>1. OnlyCalls(u) /\ CallHasRead(u)'
    BY <1>2, PageCalls, AddCalls
  <2>2. ASSUME NEW v \in Users, v # u PROVE CallHasRead(v)'
    BY <2>1, <2>2, UserType, ReadStays DEF OnlyCalls
  <2> QED
    BY <2>1, <2>2 DEF OnlyCalls
<1> QED
  BY <1>1, <1>2, WorkerFrame DEF Next, vars, ReceiveConsignment, ReceiptFails

-----------------------------------------------------------------------------
(* What a step does to the messages *)

OnlyWorks(m) == import' \in [Imports -> Import] /\ \A n \in Imports : n # m => import'[n] = import[n]

LEMMA ImportsType ==
  ASSUME TypeInv
  PROVE  import \in [Imports -> Import]
BY DEF TypeInv, TypeOK

LEMMA ImportMoves ==
  ASSUME TypeInv, NEW m \in Imports, NEW x \in Import, import' = [import EXCEPT ![m] = x]
  PROVE  OnlyWorks(m) /\ import'[m] = x
BY ImportsType DEF OnlyWorks

Works == {"map", "create", "lines", "purchase", "status", "match", "find", "write", "select",
          "push", "link"}

LEMMA Went ==
  ASSUME TypeInv, NEW m \in Imports, NEW pc \in Works, Goto(m, pc)
  PROVE  /\ OnlyWorks(m) /\ import'[m].pc = pc /\ import'[m].file = import[m].file
         /\ import'[m].find = import[m].find /\ import'[m].new = import[m].new
         /\ import'[m].toVend = import[m].toVend /\ import'[m].todo = import[m].todo
<1>1. [import[m] EXCEPT !.pc = pc] \in Import
  BY ImportType DEF Import, Works
<1>2. import' = [import EXCEPT ![m] = [import[m] EXCEPT !.pc = pc]]
  BY ImportsType DEF Goto
<1>3. OnlyWorks(m) /\ import'[m] = [import[m] EXCEPT !.pc = pc]
  BY <1>1, <1>2, ImportMoves
<1> QED
  BY <1>3, ImportType DEF Import

LEMMA Finished ==
  ASSUME TypeInv, NEW m \in Imports, NEW pc \in {"done", "failed"}, Finish(m, pc)
  PROVE  OnlyWorks(m) /\ import'[m].pc = pc /\ import'[m].file = import[m].file /\ WorkerHasFound(m)'
<1>1. /\ NewImport(import[m].file, pc) \in Import
      /\ NewImport(import[m].file, pc).pc = pc /\ NewImport(import[m].file, pc).file = import[m].file
      /\ NewImport(import[m].file, pc).find = {} /\ NewImport(import[m].file, pc).new = {}
  BY ImportType DEF Import, NewImport
<1>2. OnlyWorks(m) /\ import'[m] = NewImport(import[m].file, pc)
  BY <1>1, ImportMoves DEF Finish
<1>3. WorkerHasFound(m)'
  BY <1>1, <1>2 DEF WorkerHasFound
<1> QED
  BY <1>1, <1>2, <1>3

LEMMA FoundStays ==
  ASSUME TypeInv, LinesKeepType, NEW m \in Imports, import'[m] = import[m]
  PROVE  WorkerHasFound(m)'
<1>0. WorkerHasFound(m) /\ import[m].file = import'[m].file
  BY ImportType
<1>1. Rows(m)' = Rows(m)
  BY <1>0 DEF Rows
<1>2. \A r \in Rows(m) :
        /\ LinesOf(r.product) # {} => LinesOf(r.product)' # {}
        /\ LinesOf(r.product) # {} /\ InDelivery(First(LinesOf(r.product)))
             => InDelivery(First(LinesOf(r.product)))'
  BY FirstsStay
<1>3. Ids \subseteq Ids'
  BY DEF LinesKeepType, Grows
<1> QED
  BY <1>0, <1>1, <1>2, <1>3 DEF WorkerHasFound

\* A worker that has not looked at its rows yet.
LEMMA NothingFound ==
  ASSUME NEW m \in Imports, import'[m].find = {}, import'[m].new = {}, ~import'[m].toVend,
         import'[m].pc \in {"free", "map", "create", "lines", "purchase", "status", "match"}
  PROVE  WorkerHasFound(m)'
BY DEF WorkerHasFound

LEMMA NoneFoundYet ==
  ASSUME TypeInv, NEW m \in Imports,
         import[m].pc \in {"map", "create", "lines", "purchase", "status", "match"}
  PROVE  import[m].find = {} /\ import[m].new = {} /\ ~import[m].toVend
BY ImportType DEF WorkerHasFound

LEMMA CreateWorks ==
  ASSUME TypeInv, LinesKeepType, NEW m \in Imports, CreateStep(m)
  PROVE  OnlyWorks(m) /\ WorkerHasFound(m)'
<1>1. ASSUME NEW f \in Files, UploadFile(m, f) PROVE OnlyWorks(m) /\ WorkerHasFound(m)'
  <2>1. /\ NewImport(f, "map") \in Import /\ NewImport(f, "map").pc = "map"
        /\ NewImport(f, "map").find = {} /\ NewImport(f, "map").new = {}
        /\ ~NewImport(f, "map").toVend
    BY DEF Import, NewImport
  <2>2. OnlyWorks(m) /\ import'[m] = NewImport(f, "map")
    BY <1>1, <2>1, ImportMoves DEF UploadFile
  <2> QED
    BY <2>1, <2>2, NothingFound
<1>2. ASSUME NEW pc \in {"done", "failed"}, Finish(m, pc) PROVE OnlyWorks(m) /\ WorkerHasFound(m)'
  BY <1>2, Finished
<1>3. ASSUME NEW pc \in {"create", "lines", "purchase", "status", "match"}, Goto(m, pc),
             import[m].pc \in {"map", "create", "lines", "purchase", "status"}
      PROVE  OnlyWorks(m) /\ WorkerHasFound(m)'
  BY <1>3, Went, NoneFoundYet, NothingFound DEF Works
<1>4. CASE MapRows(m)
  BY <1>2, <1>3, <1>4 DEF MapRows
<1>5. CASE CreateOrder(m)
  BY <1>2, <1>3, <1>5 DEF CreateOrder
<1>6. CASE InsertLines(m) \/ InsertLinesFails(m)
  BY <1>3, <1>6 DEF InsertLines, InsertLinesFails, Unpushed
<1>7. CASE PushOrder(m) \/ PushOrderFails(m)
  BY <1>3, <1>7 DEF PushOrder, PushOrderFails
<1>8. CASE SetOrderStatus(m)
  BY <1>2, <1>8 DEF SetOrderStatus
<1> QED
  BY <1>1, <1>4, <1>5, <1>6, <1>7, <1>8 DEF CreateStep

LEMMA TodoType ==
  ASSUME TypeInv, NEW m \in Imports, import[m].pc \in {"push", "link"}, import[m].todo # {}
  PROVE  /\ import[m].todo \subseteq Ids /\ import[m].todo \in SUBSET Nat
         /\ First(import[m].todo) \in import[m].todo /\ First(import[m].todo) \in Ids
<1>1. import[m].todo \subseteq Ids /\ Ids \in SUBSET Nat
  BY ImportType, LineAt DEF WorkerHasFound
<1>2. import[m].todo \in SUBSET Nat
  BY <1>1
<1> QED
  BY <1>1, <1>2, FirstIsLeast

LEMMA FindsRow ==
  ASSUME TypeInv, NEW m \in Imports, NEW r \in import[m].find, FindRow(m, r)
  PROVE  OnlyWorks(m) /\ WorkerHasFound(m)'
<1>0. /\ import[m] \in Import /\ WorkerHasFound(m) /\ import[m].pc = "find" /\ r \in Rows(m)
      /\ UNCHANGED line
  BY ImportType DEF FindRow, WorkerHasFound
<1> DEFINE found == LinesOf(r.product)
           new == IF found = {} THEN import[m].new \union {r} ELSE import[m].new
           toVend == import[m].toVend \/ found = {} \/ line[First(found)].approved # "true"
           pc == IF import[m].find = {r} THEN "write" ELSE "find"
           x == [import[m] EXCEPT !.find = @ \ {r}, !.new = new, !.toVend = toVend, !.pc = pc]
<1>1. new \in SUBSET Row /\ new \subseteq Rows(m) /\ toVend \in BOOLEAN /\ pc \in {"find", "write"}
  BY <1>0, ImportType DEF Import, WorkerHasFound
<1>2. import' = [import EXCEPT ![m] = x]
  BY <1>0, ImportsType DEF FindRow
<1>3. /\ pc = "write" => import[m].find \ {r} = {}
      /\ r \in new => toVend
      /\ r \notin new => found # {} /\ (toVend \/ InDelivery(First(found)))
  <2>1. r \in import[m].find /\ r \notin import[m].new
    BY <1>0 DEF WorkerHasFound
  <2>2. pc = "write" => import[m].find = {r}
    OBVIOUS
  <2>3. r \in new => found = {}
    BY <2>1
  <2>4. r \notin new => found # {}
    OBVIOUS
  <2>5. toVend \/ line[First(found)].approved = "true"
    OBVIOUS
  <2> QED
    BY <2>2, <2>3, <2>4, <2>5 DEF InDelivery
<1>4. /\ import[m].new \subseteq new /\ new \subseteq import[m].new \union {r}
      /\ import[m].toVend => toVend
  OBVIOUS
<1> HIDE DEF new, toVend, pc, found
<1>5. /\ x \in Import /\ x.pc = pc /\ x.find = import[m].find \ {r} /\ x.new = new
      /\ x.toVend = toVend /\ x.file = import[m].file
  BY <1>0, <1>1 DEF Import
<1> HIDE DEF x
<1>6. OnlyWorks(m) /\ import'[m] = x
  BY <1>2, <1>5, ImportMoves
<1>7. Rows(m)' = Rows(m) /\ \A p : LinesOf(p)' = LinesOf(p)
  BY <1>0, <1>5, <1>6 DEF Rows, LinesOf, Ids
<1>8. \A s \in Rows(m) \ x.find :
        IF s \in new THEN toVend
        ELSE LinesOf(s.product) # {} /\ (toVend \/ InDelivery(First(LinesOf(s.product))))
  <2> TAKE s \in Rows(m) \ x.find
  <2>1. CASE s = r
    BY <1>3, <2>1 DEF found
  <2>2. CASE s # r
    <3>1. s \in Rows(m) \ import[m].find
      BY <1>5, <2>2
    <3>2. IF s \in import[m].new THEN import[m].toVend
          ELSE LinesOf(s.product) # {} /\ (import[m].toVend \/ InDelivery(First(LinesOf(s.product))))
      BY <1>0, <3>1 DEF WorkerHasFound
    <3> QED
      BY <1>4, <2>2, <3>2
  <2> QED
    BY <2>1, <2>2
<1>9. \A l : InDelivery(l)' <=> InDelivery(l)
  BY <1>0 DEF InDelivery
<1>10. \A s \in Rows(m) \ x.find :
        IF s \in new THEN toVend
        ELSE LinesOf(s.product)' # {} /\ (toVend \/ InDelivery(First(LinesOf(s.product)))')
  <2>1. \A s : InDelivery(First(LinesOf(s.product)))' <=> InDelivery(First(LinesOf(s.product)))
    BY <1>0, <1>7 DEF InDelivery
  <2> QED
    BY <1>7, <1>8, <2>1
<1>11. import[m].find \subseteq Rows(m) /\ import[m].find \intersect import[m].new = {}
  BY <1>0 DEF WorkerHasFound
<1>12. x.find \subseteq Rows(m) /\ x.find \intersect x.new = {}
  BY <1>4, <1>5, <1>11
<1> QED
  BY <1>1, <1>3, <1>5, <1>6, <1>7, <1>10, <1>12 DEF WorkerHasFound

LEMMA FulfilWorks ==
  ASSUME TypeInv, LinesKeepType, NEW m \in Imports, FulfilStep(m)
  PROVE  OnlyWorks(m) /\ WorkerHasFound(m)'
<1>0. import[m] \in Import /\ WorkerHasFound(m)
  BY ImportType
<1>1. ASSUME NEW pc \in {"done", "failed"}, Finish(m, pc) PROVE OnlyWorks(m) /\ WorkerHasFound(m)'
  BY <1>1, Finished
<1>2. CASE FindReports(m)
  <2>1. CASE import' = [import EXCEPT ![m].pc = "find", ![m].find = Rows(m)]
    <3> DEFINE x == [import[m] EXCEPT !.pc = "find", !.find = Rows(m)]
    <3>1. /\ x \in Import /\ x.pc = "find" /\ x.find = Rows(m) /\ x.new = import[m].new
          /\ x.file = import[m].file
      BY <1>0, ImportType DEF Import
    <3>2. import' = [import EXCEPT ![m] = x]
      BY <2>1, ImportsType
    <3> HIDE DEF x
    <3>3. OnlyWorks(m) /\ import'[m] = x
      BY <3>1, <3>2, ImportMoves
    <3>4. Rows(m)' = Rows(m)
      BY <3>1, <3>3 DEF Rows
    <3>5. import[m].pc = "match"
      BY <1>2 DEF FindReports
    <3>6. import[m].new = {} /\ ~import[m].toVend
      BY <1>0, <3>5 DEF WorkerHasFound
    <3> QED
      BY <3>1, <3>3, <3>4, <3>6 DEF WorkerHasFound
  <2> QED
    BY <1>1, <1>2, <2>1 DEF FindReports
<1>3. ASSUME NEW r \in import[m].find, FindRow(m, r) PROVE OnlyWorks(m) /\ WorkerHasFound(m)'
  BY <1>3, FindsRow
<1>4. CASE ExecuteBatch(m)
  <2>1. CASE import[m].toVend
    <3>1. /\ OnlyWorks(m) /\ import'[m].pc = "select" /\ import'[m].file = import[m].file
          /\ import'[m].find = import[m].find /\ import'[m].new = import[m].new
          /\ import'[m].toVend = import[m].toVend
      BY <1>4, <2>1, Went DEF ExecuteBatch, Works
    <3>2. Rows(m)' = Rows(m)
      BY <3>1 DEF Rows
    <3> QED
      BY <1>0, <2>1, <3>1, <3>2 DEF WorkerHasFound
  <2> QED
    BY <1>1, <1>4, <2>1 DEF ExecuteBatch
<1>5. CASE SelectUnpushed(m)
  <2> DEFINE todo == {l \in Ids : line[l].fulfilled = "true" /\ ~line[l].linked}
             x == [import[m] EXCEPT !.pc = "push", !.todo = todo]
  <2>1. todo \subseteq Ids /\ Ids \subseteq 1 .. MaxLines /\ import[m].pc = "select"
    BY <1>5, LineAt, LinesAssumption DEF TypeInv, TypeOK, SelectUnpushed
  <2> HIDE DEF todo
  <2>2. /\ x \in Import /\ x.pc = "push" /\ x.todo = todo /\ x.find = import[m].find
        /\ x.new = import[m].new /\ x.file = import[m].file /\ x.toVend = import[m].toVend
    BY <1>0, <2>1 DEF Import
  <2>3. import' = [import EXCEPT ![m] = x] /\ UNCHANGED line
    BY <1>5, ImportsType DEF SelectUnpushed, todo
  <2> HIDE DEF x
  <2>4. OnlyWorks(m) /\ import'[m] = x
    BY <2>2, <2>3, ImportMoves
  <2>5. Rows(m)' = Rows(m) /\ Ids' = Ids
    BY <2>2, <2>3, <2>4 DEF Rows, Ids
  <2> QED
    BY <1>0, <2>1, <2>2, <2>4, <2>5 DEF WorkerHasFound
<1>6. CASE PushRow(m)
  <2>1. /\ OnlyWorks(m) /\ import'[m].pc = "link" /\ import'[m].file = import[m].file
        /\ import'[m].find = import[m].find /\ import'[m].new = import[m].new
        /\ import'[m].toVend = import[m].toVend /\ import'[m].todo = import[m].todo
    BY <1>6, Went DEF PushRow, Works
  <2>2. Rows(m)' = Rows(m) /\ Ids \subseteq Ids'
    BY <2>1 DEF Rows, LinesKeepType, Grows
  <2> QED
    BY <1>0, <1>6, <2>1, <2>2 DEF WorkerHasFound, PushRow
<1>7. CASE LinkRow(m)
  <2> DEFINE rest == import[m].todo \ {First(import[m].todo)}
             x == [import[m] EXCEPT !.pc = "push", !.todo = rest]
  <2>1. rest \subseteq Ids /\ rest \in SUBSET (1 .. MaxLines) /\ import[m].pc = "link" /\ Ids \subseteq Ids'
    BY <1>0, <1>7 DEF Import, WorkerHasFound, LinkRow, LinesKeepType, Grows
  <2>2. import' = [import EXCEPT ![m] = x]
    BY <1>7, ImportsType DEF LinkRow
  <2> HIDE DEF rest
  <2>3. /\ x \in Import /\ x.pc = "push" /\ x.todo = rest /\ x.find = import[m].find
        /\ x.new = import[m].new /\ x.file = import[m].file /\ x.toVend = import[m].toVend
    BY <1>0, <2>1 DEF Import
  <2> HIDE DEF x
  <2>4. OnlyWorks(m) /\ import'[m] = x
    BY <2>2, <2>3, ImportMoves
  <2>5. Rows(m)' = Rows(m)
    BY <2>3, <2>4 DEF Rows
  <2> QED
    BY <1>0, <2>1, <2>3, <2>4, <2>5 DEF WorkerHasFound
<1>8. CASE ExecuteSome(m) \/ RowsPushed(m) \/ RowRejected(m) \/ PushRowUnanswered(m) \/ ImportFails(m)
  BY <1>1, <1>8 DEF ExecuteSome, RowsPushed, RowRejected, PushRowUnanswered, ImportFails
<1> QED
  BY <1>2, <1>3, <1>4, <1>5, <1>6, <1>7, <1>8 DEF FulfilStep

LEMMA WorksNext ==
  ASSUME TypeInv, LinesKeepType, [Next]_vars
  PROVE  import' \in [Imports -> Import] /\ \A m \in Imports : WorkerHasFound(m)'
<1>1. CASE UNCHANGED import
  BY <1>1, ImportsType, FoundStays
<1>2. ASSUME NEW m \in Imports, CreateStep(m) \/ FulfilStep(m)
      PROVE  import' \in [Imports -> Import] /\ \A n \in Imports : WorkerHasFound(n)'
  <2>1. OnlyWorks(m) /\ WorkerHasFound(m)'
    BY <1>2, CreateWorks, FulfilWorks
  <2>2. ASSUME NEW n \in Imports, n # m PROVE WorkerHasFound(n)'
    BY <2>1, <2>2, FoundStays DEF OnlyWorks
  <2> QED
    BY <2>1, <2>2 DEF OnlyWorks
<1> QED
  BY <1>1, <1>2, SessionFrame DEF Next, vars, ReceiveConsignment, ReceiptFails

-----------------------------------------------------------------------------
(* What a step does to the order, to Vend and to the history *)

LEMMA ReportType ==
  ASSUME TypeInv
  PROVE  /\ report \in Report
         /\ \A st \in REPORT_STATES \union {""} :
              SetState(st) => /\ report' \in Report /\ report'.state = st
                              /\ report'.consignment = report.consignment
                              /\ report'.receiving = report.receiving
         /\ \A st \in REPORT_STATES :
              Received(st) => /\ report' \in Report /\ report'.state = st
                              /\ report'.consignment = report.consignment
<1>1. report \in Report
  BY DEF TypeInv, TypeOK
<1> QED
  BY <1>1 DEF SetState, Received, Report

LEMMA PageReports ==
  ASSUME TypeInv, NEW u \in Users, PageStep(u)
  PROVE  /\ report' \in Report
         /\ report'.state # report.state => report'.state \in REPORT_STATES
         /\ report.consignment = "none" => report'.consignment = "none"
<1>0. report \in Report /\ user[u] \in User
  BY ReportType, UserType
<1>1. CASE UNCHANGED report
  BY <1>0, <1>1
<1>2. CASE PutOpenedState(u)
  <2>1. OpenedState(user[u].page) \in REPORT_STATES
    BY DEF OpenedState, REPORT_STATES
  <2> QED
    BY <1>2, <2>1, ReportType DEF PutOpenedState
<1>3. CASE WriteReceivingPending(u)
  BY <1>3, ReportType DEF WriteReceivingPending, REPORT_STATES
<1>4. CASE SaveDiscrepancies(u)
  BY <1>0, <1>4 DEF SaveDiscrepancies, Report, User
<1>5. CASE SubmitReceivals(u)
  BY <1>0, <1>5 DEF SubmitReceivals, Report, REPORT_STATES
<1>6. CASE DeleteInVend(u)
  BY <1>0, <1>6 DEF DeleteInVend, Report
<1>7. CASE SetDeleted(u)
  BY <1>0, <1>7 DEF SetDeleted, Report
<1>8. CASE CallFails(u)
  BY <1>1, <1>8 DEF CallFails
<1> QED
  BY <1>1, <1>2, <1>3, <1>4, <1>5, <1>6, <1>7, <1>8
     DEF PageStep, OpenPage, EditFulfilled, EditReceived, ScanReceived, FulfillAll,
         ExecuteFulfillAll, SendDelivery, FlagFulfilled, LoadDiscrepancies

LEMMA AddReports ==
  ASSUME NEW u \in Users, AddStep(u)
  PROVE  UNCHANGED report
BY DEF AddStep, AddProduct, FindNoLine, FindRefused, FindLeftOut, CreateLine, SaveLine, PushAdded,
       PushRejected, LinkAdded, PushUnanswered

LEMMA FulfilReports ==
  ASSUME NEW m \in Imports, FulfilStep(m)
  PROVE  UNCHANGED report
BY DEF FulfilStep, FindReports, FindRow, ExecuteBatch, ExecuteSome, SelectUnpushed, PushRow,
       LinkRow, RowsPushed, RowRejected, PushRowUnanswered, ImportFails

LEMMA CreateReports ==
  ASSUME TypeInv, NEW m \in Imports, CreateStep(m)
  PROVE  /\ report' \in Report
         /\ report'.state # report.state => report'.state \in REPORT_STATES \union {""}
<1>0. report \in Report /\ import[m].file.orderStatus \in REPORT_STATES
  BY ReportType, ImportType
<1>1. CASE CreateOrder(m)
  BY <1>0, <1>1, ReportType DEF CreateOrder
<1>2. CASE PushOrder(m)
  BY <1>0, <1>2 DEF PushOrder, Report
<1>3. CASE PushOrderFails(m)
  BY <1>3, ReportType DEF PushOrderFails, REPORT_STATES
<1>4. CASE SetOrderStatus(m)
  BY <1>0, <1>4, ReportType DEF SetOrderStatus
<1> QED
  BY <1>0, <1>1, <1>2, <1>3, <1>4
     DEF CreateStep, UploadFile, MapRows, InsertLines, InsertLinesFails

LEMMA ReceiveReports ==
  ASSUME TypeInv, ReceiveConsignment \/ ReceiptFails
  PROVE  /\ report' \in Report /\ report'.state \in REPORT_STATES
         /\ report'.consignment = report.consignment
BY ReportType DEF ReceiveConsignment, ReceiptFails, REPORT_STATES

LEMMA ReportNext ==
  ASSUME TypeInv, [Next]_vars
  PROVE  report' \in Report
BY ReportType, PageReports, AddReports, CreateReports, FulfilReports, ReceiveReports DEF Next, vars

LEMMA CreatedInVend ==
  ASSUME TypeInv, NEW l \in Ids, CreateInVend(l)
  PROVE  vend' \in [Products -> Nat]
<1>1. vend \in [Products -> Nat]
  BY DEF TypeInv, TypeOK
<1>2. line[l].product \in Products
  BY LineAt DEF Line
<1> QED
  BY <1>1, <1>2 DEF CreateInVend

\* The steps that create products of the consignment.
PushesInVend == \/ \E u \in Users : PushAdded(u) \/ PushUnanswered(u)
                \/ \E m \in Imports : PushOrder(m) \/ PushRow(m) \/ PushRowUnanswered(m)

LEMMA VendFrame ==
  ASSUME [Next]_vars, ~PushesInVend
  PROVE  UNCHANGED vend
<1>1. ASSUME NEW u \in Users, PageStep(u) PROVE UNCHANGED vend
  BY <1>1 DEF PageStep, OpenPage, PutOpenedState, EditFulfilled, EditReceived, ScanReceived,
              FulfillAll, ExecuteFulfillAll, SendDelivery, WriteReceivingPending, FlagFulfilled,
              LoadDiscrepancies, SaveDiscrepancies, SubmitReceivals, DeleteInVend, SetDeleted,
              CallFails
<1>2. ASSUME NEW u \in Users, AddStep(u), ~PushesInVend PROVE UNCHANGED vend
  BY <1>2 DEF AddStep, AddProduct, FindNoLine, FindRefused, FindLeftOut, CreateLine, SaveLine,
              PushRejected, LinkAdded, PushesInVend
<1>3. ASSUME NEW m \in Imports, CreateStep(m), ~PushesInVend PROVE UNCHANGED vend
  BY <1>3 DEF CreateStep, UploadFile, MapRows, CreateOrder, InsertLines, InsertLinesFails,
              PushOrderFails, SetOrderStatus, PushesInVend
<1>4. ASSUME NEW m \in Imports, FulfilStep(m), ~PushesInVend
      PROVE  UNCHANGED vend
  BY <1>4 DEF FulfilStep, FindReports, FindRow, ExecuteBatch, ExecuteSome, SelectUnpushed,
              LinkRow, RowsPushed, RowRejected, ImportFails, PushesInVend
<1> QED
  BY <1>1, <1>2, <1>3, <1>4 DEF Next, vars, ReceiveConsignment, ReceiptFails

LEMMA VendNext ==
  ASSUME TypeInv, [Next]_vars
  PROVE  vend' \in [Products -> Nat]
<1>0. vend \in [Products -> Nat]
  BY DEF TypeInv, TypeOK
<1>1. CASE UNCHANGED vend
  BY <1>0, <1>1
<1>2. ASSUME NEW u \in Users, PushAdded(u) \/ PushUnanswered(u) PROVE vend' \in [Products -> Nat]
  <2>1. user[u].id \in Ids
    BY <1>2, UserType DEF PushAdded, PushUnanswered, CallHasRead
  <2> QED
    BY <1>2, <2>1, CreatedInVend DEF PushAdded, PushUnanswered
<1>3. ASSUME NEW m \in Imports, PushRow(m) \/ PushRowUnanswered(m) PROVE vend' \in [Products -> Nat]
  <2>1. First(import[m].todo) \in Ids
    BY <1>3, TodoType DEF PushRow, PushRowUnanswered
  <2> QED
    BY <1>3, <2>1, CreatedInVend DEF PushRow, PushRowUnanswered
<1>4. ASSUME NEW m \in Imports, PushOrder(m) PROVE vend' \in [Products -> Nat]
  <2>1. IsFiniteSet(Ids)
    BY LineAt, FS_Interval
  <2>2. ASSUME NEW p \in Products
        PROVE  Cardinality({l \in LinesOf(p) : line[l].approved = "true"}) \in Nat
    <3>1. {l \in LinesOf(p) : line[l].approved = "true"} \subseteq Ids
      BY DEF LinesOf
    <3> QED
      BY <2>1, <3>1, FS_Subset, FS_CardinalityType
  <2> QED
    BY <1>4, <2>2 DEF PushOrder
<1> QED
  BY <1>1, <1>2, <1>3, <1>4, VendFrame DEF PushesInVend

\* The history forgets nothing.
Remembers == /\ mixed.overlap => mixed'.overlap
             /\ mixed.unlinked => mixed'.unlinked
             /\ mixed.unpushed => mixed'.unpushed
             /\ mixed.partial => mixed'.partial

LEMMA HistoryType ==
  ASSUME TypeInv
  PROVE  /\ faults \in 0 .. MaxFaults /\ mixed \in Mixed
         /\ Fault => faults' \in 0 .. MaxFaults /\ faults' # 0
BY LinesAssumption DEF TypeInv, TypeOK, Fault

LEMMA OverlapNoted ==
  ASSUME TypeInv, NoteOverlap
  PROVE  mixed' \in Mixed /\ Remembers /\ (mixed'.overlap \/ ~Busy)
<1> DEFINE o == mixed.overlap \/ Busy
<1>1. o \in BOOLEAN /\ (mixed.overlap => o) /\ (o \/ ~Busy) /\ mixed' = [mixed EXCEPT !.overlap = o]
  BY DEF NoteOverlap
<1> HIDE DEF o
<1> QED
  BY <1>1, HistoryType DEF Mixed, Remembers

LEMMA StaleNoted ==
  ASSUME TypeInv, NEW users, NoteStale(users)
  PROVE  mixed' \in Mixed /\ Remembers /\ (mixed'.partial \/ ~Shown(users))
<1> DEFINE p == mixed.partial \/ Shown(users)
<1>1. p \in BOOLEAN /\ (mixed.partial => p) /\ (p \/ ~Shown(users)) /\ mixed' = [mixed EXCEPT !.partial = p]
  BY DEF NoteStale
<1> HIDE DEF p
<1> QED
  BY <1>1, HistoryType DEF Mixed, Remembers

LEMMA EditNoted ==
  ASSUME TypeInv, NEW u \in Users, NEW l, NEW q,
         EditFulfilled(u, l, q) \/ EditReceived(u, l, q) \/ ScanReceived(u, l)
  PROVE  /\ mixed' \in Mixed /\ Remembers
         /\ mixed'.overlap \/ ~Busy
         /\ mixed'.partial \/ ~Shown(Users) \/ (EditReceived(u, l, q) /\ ~Shown(Users \ {u}))
         /\ ScanReceived(u, l) => mixed'.partial \/ ~Shown(Users)
         /\ EditFulfilled(u, l, q) /\ q = 0 =>
              mixed'.unpushed \/ \A m \in Imports : import[m].pc # "select"
<1> DEFINE o == mixed.overlap \/ Busy
           p == mixed.partial \/ Shown(Users)
           other == mixed.partial \/ Shown(Users \ {u})
           n == mixed.unpushed \/ (q = 0 /\ \E m \in Imports : import[m].pc = "select")
<1>1. /\ o \in BOOLEAN /\ p \in BOOLEAN /\ n \in BOOLEAN /\ other \in BOOLEAN
      /\ mixed.overlap => o
      /\ mixed.partial => p /\ other
      /\ mixed.unpushed => n
      /\ o \/ ~Busy
      /\ p \/ ~Shown(Users)
      /\ other \/ ~Shown(Users \ {u})
      /\ n \/ q # 0 \/ \A m \in Imports : import[m].pc # "select"
  OBVIOUS
<1>2. \/ EditFulfilled(u, l, q) /\ mixed' = [mixed EXCEPT !.overlap = o, !.partial = p, !.unpushed = n]
      \/ EditReceived(u, l, q) /\ ~EditFulfilled(u, l, q) /\ mixed' = [mixed EXCEPT !.overlap = o, !.partial = other]
      \/ ScanReceived(u, l) /\ ~EditFulfilled(u, l, q) /\ mixed' = [mixed EXCEPT !.overlap = o, !.partial = p]
  BY DEF EditFulfilled, EditReceived, ScanReceived
<1>3. ScanReceived(u, l) => mixed' = [mixed EXCEPT !.overlap = o, !.partial = p]
  BY DEF ScanReceived
<1> HIDE DEF o, p, n, other
<1> QED
  BY <1>1, <1>2, <1>3, HistoryType DEF Mixed, Remembers

LEMMA AdditionNoted ==
  ASSUME TypeInv, NEW u \in Users, FindNoLine(u)
  PROVE  mixed' \in Mixed /\ Remembers /\ (mixed'.unpushed \/ user[u].state \in Pushing)
<1> DEFINE n == mixed.unpushed \/ user[u].state \notin Pushing
<1>1. /\ n \in BOOLEAN /\ (mixed.unpushed => n) /\ (n \/ user[u].state \in Pushing)
      /\ mixed' = [mixed EXCEPT !.unpushed = n]
  BY DEF FindNoLine
<1> HIDE DEF n
<1> QED
  BY <1>1, HistoryType DEF Mixed, Remembers

LEMMA BatchNoted ==
  ASSUME TypeInv, NEW m \in Imports, ExecuteBatch(m)
  PROVE  /\ mixed' \in Mixed /\ Remembers
         /\ mixed'.partial \/ ~Shown(Users)
         /\ mixed'.unpushed \/ \A r \in Rows(m) : ~JoinsUnpushed(m, r)
<1> DEFINE n == mixed.unpushed \/ \E r \in Rows(m) : JoinsUnpushed(m, r)
           p == mixed.partial \/ Shown(Users)
<1>1. /\ n \in BOOLEAN /\ p \in BOOLEAN /\ (mixed.unpushed => n) /\ (mixed.partial => p)
      /\ p \/ ~Shown(Users)
      /\ n \/ \A r \in Rows(m) : ~JoinsUnpushed(m, r)
      /\ mixed' = [mixed EXCEPT !.partial = p, !.unpushed = n]
  BY DEF ExecuteBatch
<1> HIDE DEF n, p
<1> QED
  BY <1>1, HistoryType DEF Mixed, Remembers

LEMMA ReceiptNoted ==
  ASSUME TypeInv, ReceiveConsignment
  PROVE  /\ mixed' \in Mixed /\ Remembers
         /\ mixed'.unpushed \/ \A l \in Ids : line[l].receivedQuantity > 0 =>
                                              line[l].linked \/ ~BeingPushed(l)
<1> DEFINE n == mixed.unpushed \/ \E l \in Ids : /\ line[l].receivedQuantity > 0
                                                 /\ ~line[l].linked /\ BeingPushed(l)
           o == mixed.overlap \/ Busy
<1>1. /\ n \in BOOLEAN /\ o \in BOOLEAN /\ (mixed.unpushed => n) /\ (mixed.overlap => o)
      /\ n \/ \A l \in Ids : line[l].receivedQuantity > 0 => line[l].linked \/ ~BeingPushed(l)
      /\ mixed' = [mixed EXCEPT !.overlap = o, !.unpushed = n]
  BY DEF ReceiveConsignment
<1> HIDE DEF n, o
<1> QED
  BY <1>1, HistoryType DEF Mixed, Remembers

LEMMA FailureNoted ==
  ASSUME TypeInv,
         \/ \E u \in Users : CallFails(u) \/ PushUnanswered(u)
         \/ \E m \in Imports : ImportFails(m) \/ PushRowUnanswered(m)
  PROVE  mixed' \in Mixed /\ Remembers
<1>1. ASSUME NEW u \in Users, CallFails(u) PROVE mixed' \in Mixed /\ Remembers
  <2> DEFINE n == mixed.unlinked \/ user[u].pc = "link"
  <2>1. n \in BOOLEAN /\ (mixed.unlinked => n) /\ mixed' = [mixed EXCEPT !.unlinked = n]
    BY <1>1 DEF CallFails
  <2> HIDE DEF n
  <2> QED
    BY <2>1, HistoryType DEF Mixed, Remembers
<1>2. ASSUME NEW m \in Imports, ImportFails(m) PROVE mixed' \in Mixed /\ Remembers
  <2> DEFINE n == mixed.unlinked \/ import[m].pc = "link"
  <2>1. n \in BOOLEAN /\ (mixed.unlinked => n) /\ mixed' = [mixed EXCEPT !.unlinked = n]
    BY <1>2 DEF ImportFails
  <2> HIDE DEF n
  <2> QED
    BY <2>1, HistoryType DEF Mixed, Remembers
<1>3. ASSUME mixed' = [mixed EXCEPT !.unlinked = TRUE] PROVE mixed' \in Mixed /\ Remembers
  BY <1>3, HistoryType DEF Mixed, Remembers
<1> QED
  BY <1>1, <1>2, <1>3 DEF PushUnanswered, PushRowUnanswered

LEMMA PageHistory ==
  ASSUME TypeInv, NEW u \in Users, PageStep(u)
  PROVE  faults' \in 0 .. MaxFaults /\ mixed' \in Mixed /\ Remembers /\ (faults' = 0 => faults = 0)
<1>1. CASE UNCHANGED mixed \/ NoteOverlap \/ NoteStale(Users)
  <2>1. mixed' \in Mixed /\ Remembers
    BY <1>1, HistoryType, OverlapNoted, StaleNoted DEF Remembers
  <2>2. UNCHANGED faults \/ Fault
    BY DEF PageStep, OpenPage, PutOpenedState, EditFulfilled, EditReceived, ScanReceived,
           FulfillAll, ExecuteFulfillAll, SendDelivery, WriteReceivingPending, FlagFulfilled,
           LoadDiscrepancies, SaveDiscrepancies, SubmitReceivals, DeleteInVend, SetDeleted, CallFails
  <2> QED
    BY <2>1, <2>2, HistoryType
<1>2. CASE \/ \E l \in Ids, q \in Quantity : EditFulfilled(u, l, q) \/ EditReceived(u, l, q)
           \/ \E l \in Ids : ScanReceived(u, l)
  BY <1>2, EditNoted, HistoryType DEF EditFulfilled, EditReceived, ScanReceived
<1>3. CASE CallFails(u)
  BY <1>3, FailureNoted, HistoryType DEF CallFails
<1>4. ASSUME NEW filtered \in BOOLEAN, LoadDiscrepancies(u, filtered)
      PROVE  faults' \in 0 .. MaxFaults /\ mixed' \in Mixed /\ Remembers /\ (faults' = 0 => faults = 0)
  <2>1. CASE mixed' = [mixed EXCEPT !.partial = TRUE]
    BY <1>4, <2>1, HistoryType DEF LoadDiscrepancies, Mixed, Remembers
  <2>2. CASE NoteOverlap
    BY <1>4, <2>2, OverlapNoted, HistoryType DEF LoadDiscrepancies
  <2> QED
    BY <1>4, <2>1, <2>2 DEF LoadDiscrepancies
<1> QED
  BY <1>1, <1>2, <1>3, <1>4
     DEF PageStep, OpenPage, PutOpenedState, FulfillAll, ExecuteFulfillAll, SendDelivery,
         WriteReceivingPending, FlagFulfilled, SaveDiscrepancies, SubmitReceivals, DeleteInVend,
         SetDeleted

LEMMA AddHistory ==
  ASSUME TypeInv, NEW u \in Users, AddStep(u)
  PROVE  faults' \in 0 .. MaxFaults /\ mixed' \in Mixed /\ Remembers /\ (faults' = 0 => faults = 0)
<1>1. mixed' \in Mixed /\ Remembers
  BY HistoryType, OverlapNoted, StaleNoted, AdditionNoted, FailureNoted
     DEF AddStep, AddProduct, FindRefused, FindLeftOut, CreateLine, SaveLine, PushAdded,
         PushRejected, LinkAdded, Remembers
<1>2. UNCHANGED faults \/ Fault
  BY DEF AddStep, AddProduct, FindNoLine, FindRefused, FindLeftOut, CreateLine, SaveLine,
         PushAdded, PushRejected, LinkAdded, PushUnanswered
<1> QED
  BY <1>1, <1>2, HistoryType

LEMMA WorkHistory ==
  ASSUME TypeInv, NEW m \in Imports, CreateStep(m) \/ FulfilStep(m)
  PROVE  faults' \in 0 .. MaxFaults /\ mixed' \in Mixed /\ Remembers /\ (faults' = 0 => faults = 0)
<1>1. mixed' \in Mixed /\ Remembers
  BY HistoryType, OverlapNoted, StaleNoted, BatchNoted, FailureNoted
     DEF CreateStep, UploadFile, MapRows, CreateOrder, InsertLines, InsertLinesFails, PushOrder,
         PushOrderFails, SetOrderStatus, FulfilStep, FindReports, FindRow, ExecuteSome,
         SelectUnpushed, PushRow, LinkRow, RowsPushed, RowRejected, Remembers
<1>2. UNCHANGED faults \/ Fault
  BY DEF CreateStep, UploadFile, MapRows, CreateOrder, InsertLines, InsertLinesFails, PushOrder,
         PushOrderFails, SetOrderStatus, FulfilStep, FindReports, FindRow, ExecuteBatch,
         ExecuteSome, SelectUnpushed, PushRow, LinkRow, RowsPushed, RowRejected,
         PushRowUnanswered, ImportFails
<1> QED
  BY <1>1, <1>2, HistoryType

LEMMA HistoryNext ==
  ASSUME TypeInv, [Next]_vars
  PROVE  faults' \in 0 .. MaxFaults /\ mixed' \in Mixed /\ Remembers /\ (faults' = 0 => faults = 0)
<1>1. CASE ReceiveConsignment
  BY <1>1, HistoryType, ReceiptNoted DEF ReceiveConsignment
<1>2. CASE ReceiptFails
  BY <1>2, HistoryType DEF ReceiptFails, Remembers
<1> QED
  BY <1>1, <1>2, HistoryType, PageHistory, AddHistory, WorkHistory DEF Next, vars, Remembers

-----------------------------------------------------------------------------
(* The types, and that a new order is its worker's own *)

LEMMA NoSession ==
  ASSUME TypeInv, report.state \in {"absent", ""}, NEW u \in Users
  PROVE  ~PageStep(u) /\ ~AddStep(u)
<1>0. user[u] = IdleUser
  BY DEF TypeInv, NewOrder
<1>1. user[u].page = "none" /\ ~user[u].opening /\ ~user[u].loaded /\ user[u].pc = "idle"
  <2>1. /\ IdleUser.page = "none" /\ IdleUser.opening = FALSE /\ IdleUser.loaded = FALSE
        /\ IdleUser.pc = "idle"
    BY DEF IdleUser
  <2> QED
    BY <1>0, <2>1
<1>2. \A p \in Pages : report.state \notin OpensIn(p)
  BY DEF OpensIn, Pages
<1>3. ~PageStep(u)
  BY <1>1, <1>2
     DEF PageStep, OpenPage, PutOpenedState, EditFulfilled, EditReceived, ScanReceived,
         FulfillAll, ExecuteFulfillAll, SendDelivery, WriteReceivingPending, FlagFulfilled,
         LoadDiscrepancies, SaveDiscrepancies, SubmitReceivals, DeleteInVend, SetDeleted,
         CallFails, Calling
<1>4. ~AddStep(u)
  BY <1>1 DEF AddStep, AddProduct, FindNoLine, FindRefused, FindLeftOut, CreateLine, SaveLine,
              PushAdded, PushRejected, LinkAdded, PushUnanswered
<1> QED
  BY <1>3, <1>4

LEMMA SessionKeepsNew ==
  ASSUME TypeInv, NEW u \in Users, PageStep(u) \/ AddStep(u)
  PROVE  NewOrder'
<1>1. report.state \notin {"absent", ""}
  BY NoSession
<1>2. report'.state \notin {"absent", ""}
  BY <1>1, PageReports, AddReports DEF REPORT_STATES
<1>3. UNCHANGED import
  BY SessionFrame
<1> QED
  BY <1>1, <1>2, <1>3 DEF TypeInv, NewOrder, Starting, Delivering

LEMMA CreateKeepsNew ==
  ASSUME TypeInv, NEW m \in Imports, CreateStep(m)
  PROVE  NewOrder'
<1>0. /\ NewOrder /\ import[m].file.orderStatus \in REPORT_STATES /\ UNCHANGED user
  BY ImportType, WorkerFrame DEF TypeInv
<1>1. ASSUME UNCHANGED <<report, line>>, OnlyWorks(m), import'[m].pc \in {"map", "create", "match", "done"}
      PROVE  NewOrder'
  BY <1>0, <1>1 DEF NewOrder, OnlyWorks, Starting, Delivering
<1>2. CASE \E f \in Files : UploadFile(m, f)
  <2>1. PICK f \in Files : import' = [import EXCEPT ![m] = NewImport(f, "map")]
    BY <1>2 DEF UploadFile
  <2>2. NewImport(f, "map") \in Import /\ NewImport(f, "map").pc = "map"
    BY DEF NewImport, Import
  <2>3. OnlyWorks(m) /\ import'[m].pc = "map"
    BY <2>1, <2>2, ImportMoves
  <2> QED
    BY <1>1, <1>2, <2>3 DEF UploadFile
<1>3. CASE MapRows(m)
  BY <1>1, <1>3, Went, Finished DEF MapRows, Works
<1>4. CASE CreateOrder(m)
  <2>1. CASE report.state = "absent"
    <3>1. OnlyWorks(m) /\ import'[m].pc = "lines" /\ UNCHANGED line
      BY <1>4, <2>1, Went DEF CreateOrder, Works
    <3>2. /\ report'.state = "" /\ report'.consignment = report.consignment
          /\ report'.receiving = report.receiving
      BY <1>4, <2>1, ReportType DEF CreateOrder
    <3> QED
      BY <1>0, <2>1, <3>1, <3>2 DEF NewOrder, OnlyWorks, Starting, Delivering
  <2>2. CASE report.state # "absent"
    BY <1>1, <1>4, <2>2, Finished DEF CreateOrder
  <2> QED
    BY <2>1, <2>2
<1>5. CASE InsertLines(m) \/ InsertLinesFails(m)
  <2>1. /\ OnlyWorks(m) /\ import[m].pc = "lines" /\ import'[m].pc \in {"purchase", "status"}
        /\ UNCHANGED report
    BY <1>5, Went DEF InsertLines, InsertLinesFails, Unpushed, Works
  <2> QED
    BY <1>0, <2>1 DEF NewOrder, OnlyWorks, Starting, Delivering
<1>6. CASE PushOrder(m) \/ PushOrderFails(m)
  <2>1. OnlyWorks(m) /\ import[m].pc = "purchase" /\ import'[m].pc = "status"
    BY <1>6, Went DEF PushOrder, PushOrderFails, Works
  <2>2. report'.state \notin {"absent", ""}
    <3>1. CASE PushOrder(m)
      <4>1. report'.state = import[m].file.orderStatus
        BY <3>1, ReportType DEF PushOrder, Report
      <4> QED
        BY <1>0, <4>1 DEF REPORT_STATES
    <3>2. CASE PushOrderFails(m)
      <4>1. report'.state = "ERROR_SENDING_TO_SUPPLIER"
        BY <3>2, ReportType DEF PushOrderFails, SetState, Report
      <4> QED
        BY <4>1
    <3> QED
      BY <1>6, <3>1, <3>2
  <2> QED
    BY <1>0, <2>1, <2>2 DEF NewOrder, OnlyWorks, Starting, Delivering
<1>7. CASE SetOrderStatus(m)
  <2>1. OnlyWorks(m) /\ import[m].pc = "status" /\ import'[m].pc = "done" /\ UNCHANGED line
    BY <1>7, Finished DEF SetOrderStatus
  <2>2. report'.state \notin {"absent", ""}
    BY <1>0, <1>7, ReportType DEF SetOrderStatus, REPORT_STATES
  <2> QED
    BY <1>0, <2>1, <2>2 DEF NewOrder, OnlyWorks, Starting, Delivering
<1> QED
  BY <1>2, <1>3, <1>4, <1>5, <1>6, <1>7 DEF CreateStep

LEMMA FulfilPlaces ==
  ASSUME TypeInv, NEW m \in Imports, FulfilStep(m)
  PROVE  /\ import'[m].pc \in {"find", "write", "select", "push", "link", "done", "failed"}
         /\ import[m].pc \in {"lines", "purchase"} => FALSE
         /\ Delivering(m) \/ report.state \notin {"absent", ""} \/ import'[m].pc \in {"done", "failed"}
         /\ Delivering(m) \/ UNCHANGED line
<1>0. import[m] \in Import /\ import \in [Imports -> Import]
  BY ImportsType, ImportType
<1>1. ASSUME NEW pc \in {"done", "failed"}, Finish(m, pc) PROVE import'[m].pc = pc
  BY <1>1, Finished
<1>2. ASSUME NEW pc \in Works, Goto(m, pc) PROVE import'[m].pc = pc
  BY <1>2, Went
<1>3. CASE FindReports(m)
  BY <1>0, <1>1, <1>3 DEF FindReports, IsOpen, Import
<1>4. ASSUME NEW r \in import[m].find, FindRow(m, r)
      PROVE  import'[m].pc \in {"find", "write"}
  BY <1>0, <1>4 DEF FindRow, Import
<1>5. CASE SelectUnpushed(m) \/ LinkRow(m)
  BY <1>0, <1>5 DEF SelectUnpushed, LinkRow, Delivering, Import
<1>6. CASE ExecuteBatch(m) \/ ExecuteSome(m) \/ PushRow(m) \/ RowsPushed(m) \/ RowRejected(m)
           \/ PushRowUnanswered(m) \/ ImportFails(m)
  BY <1>1, <1>2, <1>6 DEF ExecuteBatch, ExecuteSome, PushRow, RowsPushed, RowRejected,
                          PushRowUnanswered, ImportFails, Delivering, Works
<1> QED
  BY <1>3, <1>4, <1>5, <1>6 DEF FulfilStep, FindRow, Delivering

LEMMA FulfilKeepsNew ==
  ASSUME TypeInv, LinesKeepType, NEW m \in Imports, FulfilStep(m)
  PROVE  NewOrder'
<1>0. NewOrder /\ UNCHANGED <<report, user>> /\ OnlyWorks(m)
  BY WorkerFrame, FulfilReports, FulfilWorks DEF TypeInv
<1> QED
  BY <1>0, FulfilPlaces DEF NewOrder, OnlyWorks, Starting, Delivering

LEMMA NewOrderNext ==
  ASSUME TypeInv, LinesKeepType, [Next]_vars
  PROVE  NewOrder'
<1>1. CASE UNCHANGED vars
  BY <1>1 DEF vars, TypeInv, NewOrder, Starting, Delivering
<1>2. CASE ReceiveConsignment \/ ReceiptFails
  <2>1. report.state \notin {"absent", ""} /\ report'.state \notin {"absent", ""}
    BY <1>2, ReceiveReports DEF TypeInv, NewOrder, ReceiveConsignment, ReceiptFails, REPORT_STATES
  <2>2. UNCHANGED <<line, user, import>>
    BY <1>2 DEF ReceiveConsignment, ReceiptFails
  <2> QED
    BY <2>1, <2>2 DEF TypeInv, NewOrder, Starting, Delivering
<1> QED
  BY <1>1, <1>2, SessionKeepsNew, CreateKeepsNew, FulfilKeepsNew DEF Next

LEMMA TypeInit == Init => TypeInv
<1> SUFFICES ASSUME Init PROVE TypeInv
  OBVIOUS
<1>1. user = [u \in Users |-> IdleUser] /\ IdleUser \in User
  BY IdleUserType DEF Init
<1> DEFINE f0 == CHOOSE f \in Files : TRUE
<1>2. f0 \in Files
  BY LinesAssumption
<1> HIDE DEF f0
<1>3. NewImport(f0, "free") \in Import
  BY <1>2 DEF NewImport, Import
<1>4. import = [m \in Imports |-> NewImport(f0, "free")]
  BY DEF Init, f0
<1>5. /\ \A u \in Users : CallHasRead(u)
      /\ \A m \in Imports : WorkerHasFound(m)
      /\ \A m \in Imports : ~Starting(m) /\ ~Delivering(m)
  BY <1>1, <1>4 DEF IdleUser, NewImport, CallHasRead, WorkerHasFound, Starting, Delivering
<1>6. /\ report \in Report /\ line \in Seq(Line) /\ Len(line) <= MaxLines
      /\ vend \in [Products -> Nat]
      /\ report.state \in {"absent", ""} =>
           line = <<>> /\ report.consignment = "none" /\ ~report.receiving
  <2>1. CASE Absent
    BY <2>1, LinesAssumption DEF Absent, Report
  <2>2. ASSUME NEW approved \in SUBSET Range(Ordered), Sent(approved)
        PROVE  /\ report \in Report /\ line \in Seq(Line) /\ Len(line) <= MaxLines
               /\ vend \in [Products -> Nat] /\ report.state \notin {"absent", ""}
    <3>1. Len(Ordered) \in Nat /\ DOMAIN Ordered = 1 .. Len(Ordered) /\ Len(Ordered) <= MaxLines
          /\ \A l \in DOMAIN Ordered : Ordered[l] \in Products
      BY LinesAssumption
    <3>2. 0 \in Quantity /\ 1 \in Quantity
      BY LinesAssumption DEF Quantity
    <3>3. line \in [1 .. Len(Ordered) -> Line]
      BY <2>2, <3>1, <3>2 DEF Sent, NewLine, Line, NullBool
    <3>4. line \in Seq(Line) /\ Len(line) = Len(Ordered)
      BY <3>1, <3>3, LinesAre
    <3>5. report \in Report /\ report.state = "FULFILMENT_PENDING"
      <4>1. 0 \in 0 .. MaxLines
        BY LinesAssumption
      <4> QED
        BY <2>2, <4>1 DEF Sent, Report, REPORT_STATES
    <3> QED
      BY <2>2, <3>1, <3>4, <3>5 DEF Sent
  <2> QED
    BY <2>1, <2>2 DEF Init
<1>7. faults \in 0 .. MaxFaults /\ mixed \in Mixed
  BY LinesAssumption DEF Init, Mixed
<1>8. TypeOK
  BY <1>1, <1>3, <1>4, <1>6, <1>7 DEF TypeOK
<1>9. \A u \in Users : user[u] = IdleUser
  BY <1>1
<1>10. NewOrder
  BY <1>5, <1>6, <1>9 DEF NewOrder, Starting
<1> QED
  BY <1>5, <1>8, <1>10 DEF TypeInv

LEMMA TypeNext == TypeInv /\ [Next]_vars => TypeInv'
<1> SUFFICES ASSUME TypeInv, [Next]_vars PROVE TypeInv'
  OBVIOUS
<1>1. LinesKeepType
  BY LinesNext
<1>2. TypeOK'
  BY <1>1, CallsNext, WorksNext, ReportNext, VendNext, HistoryNext DEF TypeOK, LinesKeepType
<1> QED
  BY <1>1, <1>2, CallsNext, WorksNext, NewOrderNext DEF TypeInv

\* The order, its line items, the calls of the pages and the messages of the workers have
\* their types in every reachable state: in particular, a quantity, a count and the number
\* of line items stay within their bounds, and the line items a call or a worker goes on
\* with exist.
THEOREM LinesTypeCorrect == Spec => []TypeOK
<1>1. TypeInv => TypeOK
  BY DEF TypeInv
<1> QED
  BY <1>1, TypeInit, TypeNext, PTL DEF Spec

-----------------------------------------------------------------------------
(* The reasons of a discrepancy *)

LEMMA ReasonsExplain ==
  ASSUME NEW fulfilled \in Nat, NEW received \in Nat, NEW damaged \in Nat,
         NEW reason, reason = DiscrepancyReason(fulfilled, received, damaged)
  PROVE  /\ fulfilled # received => reason.over + reason.missing + reason.damaged > 0
         /\ reason.over > 0 => reason.missing = 0
         /\ fulfilled >= received + damaged
              => reason.missing + reason.damaged = fulfilled - received
         /\ received + reason.missing <= fulfilled + reason.over
<1>1. /\ reason.over = IF received > fulfilled THEN received - fulfilled ELSE 0
      /\ reason.missing = IF fulfilled - received > damaged THEN fulfilled - received - damaged ELSE 0
      /\ reason.damaged = damaged
  BY DEF DiscrepancyReason
<1> QED
  BY <1>1

\* Whatever is entered for a line item, the reasons the page shows explain its discrepancy
\* (getDiscrepancyReason), for every quantity that a reachable order can have.
THEOREM ReasonsAreExplained == Spec => []ReasonsExplainDiscrepancy
<1>1. TypeOK => ReasonsExplainDiscrepancy
  <2> SUFFICES ASSUME TypeOK, NEW l \in Ids, NEW received \in 0 .. MaxQuantity + 1,
                      NEW damaged \in 0 .. MaxQuantity + 1
               PROVE  LET fulfilled == line[l].fulfilledQuantity
                          reason == DiscrepancyReason(fulfilled, received, damaged)
                      IN  /\ fulfilled # received => reason.over + reason.missing + reason.damaged > 0
                          /\ reason.over > 0 => reason.missing = 0
                          /\ fulfilled >= received + damaged
                               => reason.missing + reason.damaged = fulfilled - received
                          /\ received + reason.missing <= fulfilled + reason.over
    BY DEF ReasonsExplainDiscrepancy
  <2>1. line[l] \in Line
    BY DEF TypeOK, Ids
  <2>2. line[l].fulfilledQuantity \in Nat /\ received \in Nat /\ damaged \in Nat
    BY <2>1, LinesAssumption DEF Line, Quantity
  <2> QED
    BY <2>2, ReasonsExplain
<1> QED
  BY <1>1, LinesTypeCorrect, PTL

-----------------------------------------------------------------------------
(* One line item per product *)

\* No two programs are in a call at once.
OneActor ==
  /\ \A u, v \in Users : Calling(u) /\ Calling(v) => u = v
  /\ \A m, n \in Imports : Running(m) /\ Running(n) => m = n
  /\ \A u \in Users, m \in Imports : ~(Calling(u) /\ Running(m))

\* No file that was uploaded has two rows of a product.
Clean == \A m \in Imports : import[m].pc # "free" =>
           \A r, s \in import[m].file.rows : r.product = s.product => r = s

Distinct == \A l, k \in Ids : line[l].product = line[k].product => l = k

\* What is about to be created or inserted has no line item.
NewIsNew ==
  /\ \A u \in Users : user[u].pc = "create" => LinesOf(user[u].product) = {}
  /\ \A m \in Imports : import[m].pc \in {"find", "write"} =>
       \A r \in import[m].new : LinesOf(r.product) = {}

ProductInv == ~mixed.overlap => OneActor /\ (Clean => Distinct /\ NewIsNew)

LEMMA CallStarts ==
  ASSUME TypeInv, NEW u \in Users, PageStep(u) \/ AddStep(u), ~mixed'.overlap, Calling(u)'
  PROVE  Calling(u) \/ ~Busy
<1> SUFFICES ASSUME ~Calling(u), Busy PROVE FALSE
  OBVIOUS
<1>0. user \in [Users -> User] /\ user[u] \in User /\ user[u].pc = "idle"
  BY UsersType, UserType DEF Calling
<1>1. ~NoteOverlap
  BY OverlapNoted
<1>2. ~AddStep(u)
  BY <1>0, <1>1 DEF AddStep, AddProduct, FindNoLine, FindRefused, FindLeftOut, CreateLine, SaveLine,
                    PushAdded, PushRejected, LinkAdded, PushUnanswered
<1>3. ASSUME Leave(u) PROVE FALSE
  <2>1. user'[u] = IdleUser /\ IdleUser.pc = "idle"
    BY <1>3, Left DEF IdleUser
  <2> QED
    BY <2>1 DEF Calling
<1>4. ASSUME NEW p, OpenPage(u, p) PROVE FALSE
  BY <1>0, <1>4 DEF OpenPage, Calling, IdleUser
<1>5. ASSUME NEW l, NEW q, EditFulfilled(u, l, q) \/ EditReceived(u, l, q) \/ ScanReceived(u, l)
      PROVE  FALSE
  BY <1>0, <1>5 DEF EditFulfilled, EditReceived, ScanReceived, Calling, User
<1>6. CASE PutOpenedState(u)
  BY <1>0, <1>6 DEF PutOpenedState, Calling, User
<1>7. ASSUME NEW filtered, LoadDiscrepancies(u, filtered) PROVE FALSE
  BY <1>0, <1>1, <1>7 DEF LoadDiscrepancies, Calling, User
<1> QED
  BY <1>0, <1>1, <1>2, <1>3, <1>4, <1>5, <1>6, <1>7
     DEF PageStep, FulfillAll, ExecuteFulfillAll, SendDelivery, WriteReceivingPending,
         FlagFulfilled, SaveDiscrepancies, SubmitReceivals, DeleteInVend, SetDeleted, CallFails, Calling

LEMMA WorkStarts ==
  ASSUME TypeInv, NEW m \in Imports, CreateStep(m) \/ FulfilStep(m), ~mixed'.overlap
  PROVE  Running(m) \/ ~Busy
<1>1. ASSUME NEW f \in Files, UploadFile(m, f) PROVE ~Busy
  BY <1>1, OverlapNoted DEF UploadFile
<1> QED
  BY <1>1 DEF CreateStep, FulfilStep, MapRows, CreateOrder, InsertLines, InsertLinesFails, PushOrder,
              PushOrderFails, SetOrderStatus, FindReports, FindRow, ExecuteBatch, ExecuteSome,
              SelectUnpushed, PushRow, LinkRow, RowsPushed, RowRejected, PushRowUnanswered,
              ImportFails, Running

\* Who moves, and what stays.
LEMMA OneMoves ==
  ASSUME TypeInv, [Next]_vars
  PROVE  \/ UNCHANGED <<user, import>>
         \/ \E u \in Users : (PageStep(u) \/ AddStep(u)) /\ OnlyCalls(u) /\ UNCHANGED import
         \/ \E m \in Imports : (CreateStep(m) \/ FulfilStep(m)) /\ OnlyWorks(m) /\ UNCHANGED user
<1>0. LinesKeepType
  BY LinesNext
<1> QED
  BY <1>0, PageCalls, AddCalls, CreateWorks, FulfilWorks, SessionFrame, WorkerFrame
     DEF Next, vars, ReceiveConsignment, ReceiptFails

LEMMA OneActorNext ==
  ASSUME TypeInv, [Next]_vars, OneActor, ~mixed'.overlap
  PROVE  OneActor'
<1>1. CASE UNCHANGED <<user, import>>
  BY <1>1 DEF OneActor, Calling, Running
<1>2. ASSUME NEW u \in Users, PageStep(u) \/ AddStep(u), OnlyCalls(u), UNCHANGED import
      PROVE  OneActor'
  <2>1. Calling(u)' => Calling(u) \/ ~Busy
    BY <1>2, CallStarts
  <2>2. \A v \in Users : v # u => (Calling(v)' <=> Calling(v))
    BY <1>2 DEF OnlyCalls, Calling
  <2>3. \A m \in Imports : Running(m)' <=> Running(m)
    BY <1>2 DEF Running
  <2> QED
    BY <2>1, <2>2, <2>3 DEF OneActor, Busy
<1>3. ASSUME NEW m \in Imports, CreateStep(m) \/ FulfilStep(m), OnlyWorks(m), UNCHANGED user
      PROVE  OneActor'
  <2>1. Running(m) \/ ~Busy
    BY <1>3, WorkStarts
  <2>2. \A n \in Imports : n # m => (Running(n)' <=> Running(n))
    BY <1>3 DEF OnlyWorks, Running
  <2>3. \A v \in Users : Calling(v)' <=> Calling(v)
    BY <1>3 DEF Calling
  <2> QED
    BY <2>1, <2>2, <2>3 DEF OneActor, Busy
<1> QED
  BY <1>1, <1>2, <1>3, OneMoves

LEMMA FileStays ==
  ASSUME TypeInv, NEW m \in Imports, CreateStep(m) \/ FulfilStep(m), import[m].pc # "free"
  PROVE  import'[m].pc # "free" /\ import'[m].file = import[m].file
<1>0. import[m] \in Import /\ import \in [Imports -> Import]
  BY ImportsType, ImportType
<1>1. ASSUME NEW pc \in {"done", "failed"}, Finish(m, pc)
      PROVE  import'[m].pc # "free" /\ import'[m].file = import[m].file
  BY <1>1, Finished
<1>2. ASSUME NEW pc \in Works, Goto(m, pc)
      PROVE  import'[m].pc # "free" /\ import'[m].file = import[m].file
  BY <1>2, Went DEF Works
<1>3. CASE CreateStep(m)
  BY <1>1, <1>2, <1>3 DEF CreateStep, UploadFile, MapRows, CreateOrder, InsertLines,
                          InsertLinesFails, PushOrder, PushOrderFails, SetOrderStatus, Unpushed, Works
<1>4. CASE FindReports(m) \/ SelectUnpushed(m) \/ LinkRow(m)
  BY <1>0, <1>1, <1>4 DEF FindReports, SelectUnpushed, LinkRow, Import
<1>5. ASSUME NEW r \in import[m].find, FindRow(m, r)
      PROVE  import'[m].pc # "free" /\ import'[m].file = import[m].file
  BY <1>0, <1>5 DEF FindRow, Import
<1>6. CASE ExecuteBatch(m) \/ ExecuteSome(m) \/ PushRow(m) \/ RowsPushed(m) \/ RowRejected(m)
           \/ PushRowUnanswered(m) \/ ImportFails(m)
  BY <1>1, <1>2, <1>6 DEF ExecuteBatch, ExecuteSome, PushRow, RowsPushed, RowRejected,
                          PushRowUnanswered, ImportFails, Works
<1> QED
  BY <1>3, <1>4, <1>5, <1>6 DEF FulfilStep

LEMMA CleanBefore ==
  ASSUME TypeInv, [Next]_vars, Clean'
  PROVE  Clean
<1>1. \A m \in Imports : import[m].pc # "free" => import'[m].pc # "free" /\ import'[m].file = import[m].file
  BY OneMoves, FileStays DEF OnlyWorks
<1> QED
  BY <1>1 DEF Clean

LEMMA LinesKinds ==
  ASSUME TypeInv, [Next]_vars
  PROVE  \/ Ids' = Ids
         \/ \E u \in Users, q \in Quantity : CreateLine(u, q)
         \/ \E m \in Imports : InsertLines(m) \/ InsertLinesFails(m)
         \/ \E m \in Imports : ExecuteBatch(m) \/ ExecuteSome(m)
<1>1. CASE UNCHANGED line
  BY <1>1 DEF Ids
<1>2. ASSUME NEW u \in Users, PageStep(u)
      PROVE  UNCHANGED line \/ Ids' = Ids
  BY <1>2, PageKeepsLines, PageEditsLines DEF EditsLines
<1>3. ASSUME NEW u \in Users, AddStep(u)
      PROVE  UNCHANGED line \/ Ids' = Ids \/ \E q \in Quantity : CreateLine(u, q)
  BY <1>3, AddKeepsLines, AddEditsLines
<1>4. ASSUME NEW m \in Imports, CreateStep(m) \/ FulfilStep(m)
      PROVE  \/ UNCHANGED line \/ Ids' = Ids
             \/ InsertLines(m) \/ InsertLinesFails(m) \/ ExecuteBatch(m) \/ ExecuteSome(m)
  BY <1>4, ImportKeepsLines, ImportEditsLines
<1> QED
  BY <1>1, <1>2, <1>3, <1>4 DEF Next, vars, ReceiveConsignment, ReceiptFails

LEMMA DistinctNext ==
  ASSUME TypeInv, [Next]_vars, Clean, Distinct, NewIsNew
  PROVE  Distinct'
<1>0. /\ LinesKeepType /\ \A l \in Ids : l \in Ids' /\ line'[l].product = line[l].product
      /\ Ids = 1 .. Len(line) /\ Len(line) \in Nat
  BY LinesNext, LineAt DEF LinesKeepType, Grows
<1>1. CASE Ids' = Ids
  BY <1>0, <1>1 DEF Distinct
<1>2. ASSUME NEW u \in Users, NEW q \in Quantity, CreateLine(u, q) PROVE Distinct'
  <2>1. /\ user[u].pc = "create" /\ LinesOf(user[u].product) = {}
    BY <1>2 DEF CreateLine, NewIsNew
  <2>2. /\ Ids' = Ids \union {Len(line) + 1}
        /\ line'[Len(line) + 1].product = user[u].product
    BY <1>2, <2>1, CreateAddsLine, AddedLineType
  <2>3. \A l \in Ids : line'[l].product # user[u].product
    BY <1>0, <2>1 DEF LinesOf
  <2> QED
    BY <1>0, <2>2, <2>3 DEF Distinct
<1>3. ASSUME NEW m \in Imports, InsertLines(m) \/ InsertLinesFails(m) PROVE Distinct'
  <2>1. PICK order \in InOrder(Rows(m)) :
          /\ Ids' \subseteq 1 .. Cardinality(Rows(m))
          /\ \A l \in Ids' : /\ order[l] \in Rows(m) /\ order[l] \in Row
                             /\ line'[l] = LineOfRow(order[l], import[m].file.orderStatus)
    BY <1>3, LinesInserted
  <2>2. \A l \in Ids' : order[l] \in import[m].file.rows /\ line'[l].product = order[l].product
    BY <2>1, LineOfRowType DEF Rows
  <2>3. import[m].pc # "free"
    BY <1>3 DEF InsertLines, InsertLinesFails
  <2>4. \A j, k \in 1 .. Cardinality(Rows(m)) : order[j] = order[k] => j = k
    BY InOrderType
  <2> QED
    BY <2>1, <2>2, <2>3, <2>4 DEF Distinct, Clean
<1>4. ASSUME NEW m \in Imports, NEW old \in FoundRows(m), NEW new \in SUBSET import[m].new, NEW clear,
             BatchOf(m, old, new, clear), import[m].pc = "write"
      PROVE  Distinct'
  <2>1. PICK order \in InOrder(new) :
          /\ Ids' = 1 .. Len(line) + Cardinality(new)
          /\ \A k \in 1 .. Cardinality(new) :
               order[k] \in new /\ order[k] \in Row /\ line'[Len(line) + k] = InsertedBy(order[k])
    BY <1>4, BatchEditsLines
  <2>2. new \in SUBSET Rows(m)
    BY ImportType DEF WorkerHasFound
  <2>3. /\ \A j, k \in 1 .. Cardinality(new) : order[j] = order[k] => j = k
        /\ Cardinality(new) \in Nat
    BY <2>2, InOrderType
  <2>4. \A k \in 1 .. Cardinality(new) : /\ order[k] \in import[m].file.rows
                                         /\ LinesOf(order[k].product) = {}
                                         /\ line'[Len(line) + k].product = order[k].product
    BY <1>4, <2>1, <2>2, InsertedByType DEF Rows, NewIsNew
  <2>5. \A l \in Ids' : l \in Ids \/ \E k \in 1 .. Cardinality(new) : l = Len(line) + k
    <3> TAKE l \in Ids'
    <3>1. CASE l > Len(line)
      <4>1. l - Len(line) \in 1 .. Cardinality(new) /\ l = Len(line) + (l - Len(line))
        BY <1>0, <2>1, <2>3, <3>1
      <4> QED
        BY <4>1
    <3>2. CASE ~(l > Len(line))
      BY <1>0, <2>1, <2>3, <3>2
    <3> QED
      BY <3>1, <3>2
  <2>6. \A l \in Ids, k \in 1 .. Cardinality(new) : line'[l].product # line'[Len(line) + k].product
    BY <1>0, <2>4 DEF LinesOf
  <2>7. \A j, k \in 1 .. Cardinality(new) :
          line'[Len(line) + j].product = line'[Len(line) + k].product => j = k
    BY <1>4, <2>3, <2>4 DEF Clean
  <2> SUFFICES ASSUME NEW i \in Ids', NEW j \in Ids', line'[i].product = line'[j].product
               PROVE  i = j
    BY DEF Distinct
  <2>8. CASE i \in Ids /\ j \in Ids
    BY <1>0, <2>8 DEF Distinct
  <2>9. CASE i \notin Ids /\ j \notin Ids
    BY <2>5, <2>7, <2>9
  <2> QED
    BY <2>5, <2>6, <2>8, <2>9
<1>5. ASSUME NEW m \in Imports, ExecuteBatch(m) \/ ExecuteSome(m) PROVE Distinct'
  <2>1. import[m].pc = "write"
    BY <1>5 DEF ExecuteBatch, ExecuteSome
  <2>2. CASE ExecuteBatch(m)
    <3>1. Rows(m) \ import[m].new \in FoundRows(m)
      BY DEF FoundRows
    <3> QED
      BY <1>4, <2>1, <2>2, <3>1, AllIsBatch
  <2>3. CASE ExecuteSome(m)
    <3>1. PICK some \in SUBSET Rows(m), clear \in BOOLEAN :
             BatchOf(m, some \ import[m].new, some \intersect import[m].new, clear)
      BY <2>3, SomeIsBatch
    <3>2. some \ import[m].new \in FoundRows(m)
      BY DEF FoundRows
    <3> QED
      BY <1>4, <2>1, <3>1, <3>2
  <2> QED
    BY <1>5, <2>2, <2>3
<1> QED
  BY <1>1, <1>2, <1>3, <1>5, LinesKinds

\* Where a step leaves the session that makes it.
LEMMA PagePlaces ==
  ASSUME TypeInv, NEW u \in Users, PageStep(u)
  PROVE  \/ user'[u].pc \in {"idle", "all", "send", "flag", "count", "delete"}
         \/ /\ PutOpenedState(u) /\ user'[u].pc = user[u].pc /\ user'[u].product = user[u].product
            /\ user'[u].state = user[u].state /\ user'[u].id = user[u].id
            /\ user'[u].found = user[u].found
<1>0. user \in [Users -> User] /\ user[u] \in User /\ IdleUser.pc = "idle"
  BY UsersType, UserType DEF IdleUser
<1>1. CASE PutOpenedState(u)
  BY <1>0, <1>1 DEF PutOpenedState, User
<1>2. CASE \/ \E l \in Ids, q \in Quantity : EditFulfilled(u, l, q) \/ EditReceived(u, l, q)
           \/ \E l \in Ids : ScanReceived(u, l)
  <2>1. user[u].pc = "idle" /\ (UNCHANGED user \/ user' = [user EXCEPT ![u].loaded = FALSE])
    BY <1>2 DEF EditFulfilled, EditReceived, ScanReceived, Calling
  <2> QED
    BY <1>0, <2>1 DEF User
<1>3. CASE \E p \in Pages : OpenPage(u, p)
  BY <1>0, <1>3 DEF OpenPage, IdleUser
<1>4. ASSUME NEW pc \in Calls, Call(u, pc) PROVE user'[u].pc = pc
  BY <1>4, Called
<1>5. Return(u) \/ Leave(u) => user'[u].pc = "idle"
  BY <1>0, Returned, Left
<1>6. ASSUME NEW filtered, LoadDiscrepancies(u, filtered) PROVE user'[u].pc \in {"idle", "count"}
  BY <1>0, <1>6 DEF LoadDiscrepancies, Calling, User
<1>7. CASE FulfillAll(u)
  <2> DEFINE all == {l \in Ids : line[l].approved = "true"}
  <2>1. user' = [user EXCEPT ![u].pc = "all", ![u].all = all]
    BY <1>7 DEF FulfillAll
  <2> HIDE DEF all
  <2> QED
    BY <1>0, <2>1 DEF User
<1>8. CASE SaveDiscrepancies(u)
  <2> DEFINE x == [IdleUser EXCEPT !.page = user[u].page, !.opening = user[u].opening, !.loaded = TRUE]
  <2>1. user' = [user EXCEPT ![u] = x]
    BY <1>8 DEF SaveDiscrepancies
  <2>2. x.pc = "idle"
    BY DEF IdleUser
  <2> HIDE DEF x
  <2> QED
    BY <1>0, <2>1, <2>2
<1> QED
  BY <1>1, <1>2, <1>3, <1>4, <1>5, <1>6, <1>7, <1>8
     DEF PageStep, ExecuteFulfillAll, SendDelivery, WriteReceivingPending, FlagFulfilled,
         SubmitReceivals, DeleteInVend, SetDeleted, CallFails, Calls

LEMMA AddPlaces ==
  ASSUME TypeInv, NEW u \in Users, AddStep(u)
  PROVE  LET next == user'[u]
         IN  /\ next.pc \in {"idle", "find", "create", "save", "push", "link"}
             /\ next.pc = "create" =>
                  FindNoLine(u) /\ next.product = user[u].product /\ next.state = user[u].state
             /\ next.pc = "save" =>
                  /\ FindLeftOut(u) /\ next.id = First(LinesOf(user[u].product))
                  /\ \/ next.found = Approve(line[First(LinesOf(user[u].product))])
                     \/ next.found = Fulfil(line[First(LinesOf(user[u].product))])
             /\ next.pc = "push" =>
                  \/ SaveLine(u) /\ next.id = user[u].id /\ next.found = user[u].found
                  \/ \E q \in Quantity \ {0} :
                       CreateLine(u, q) /\ next.id = Len(line) + 1 /\ next.found = AddedLine(u, q)
             /\ next.pc = "link" =>
                  PushAdded(u) /\ next.id = user[u].id /\ next.found = user[u].found
<1>0. user \in [Users -> User] /\ user[u] \in User
  BY UsersType, UserType
<1>1. ASSUME NEW pc \in Calls, Call(u, pc)
      PROVE  /\ user'[u].pc = pc /\ user'[u].product = user[u].product
             /\ user'[u].state = user[u].state /\ user'[u].id = user[u].id
             /\ user'[u].found = user[u].found
  BY <1>1, Called
<1>2. Return(u) => user'[u].pc = "idle"
  BY Returned
<1>3. ASSUME NEW p \in Products, AddProduct(u, p) PROVE user'[u].pc = "find"
  BY <1>0, <1>3 DEF AddProduct, User
<1>4. CASE FindLeftOut(u)
  BY <1>0, <1>4 DEF FindLeftOut, User
<1>5. ASSUME NEW q \in Quantity \ {0}, CreateLine(u, q)
      PROVE  \/ user'[u].pc = "idle"
             \/ /\ user'[u].pc = "push" /\ user'[u].id = Len(line) + 1
                /\ user'[u].found = AddedLine(u, q)
  BY <1>0, <1>2, <1>5 DEF CreateLine, User
<1>6. CASE FindNoLine(u) \/ PushAdded(u)
  BY <1>1, <1>6 DEF FindNoLine, PushAdded, Calls
<1>7. CASE SaveLine(u)
  BY <1>1, <1>2, <1>7 DEF SaveLine, Calls
<1>8. CASE FindRefused(u) \/ PushRejected(u) \/ LinkAdded(u) \/ PushUnanswered(u)
  BY <1>2, <1>8 DEF FindRefused, PushRejected, LinkAdded, PushUnanswered
<1> QED
  BY <1>3, <1>4, <1>5, <1>6, <1>7, <1>8 DEF AddStep

LEMMA CreatePlaces ==
  ASSUME TypeInv, NEW m \in Imports, CreateStep(m)
  PROVE  import'[m].pc \in {"map", "create", "lines", "purchase", "status", "match", "done"}
<1>1. ASSUME NEW pc \in {"done", "failed"}, Finish(m, pc) PROVE import'[m].pc = pc
  BY <1>1, Finished
<1>2. ASSUME NEW pc \in Works, Goto(m, pc) PROVE import'[m].pc = pc
  BY <1>2, Went
<1>3. ASSUME NEW f \in Files, UploadFile(m, f) PROVE import'[m].pc = "map"
  BY <1>3, ImportsType DEF UploadFile, NewImport
<1> QED
  BY <1>1, <1>2, <1>3 DEF CreateStep, MapRows, CreateOrder, InsertLines, InsertLinesFails, PushOrder,
                          PushOrderFails, SetOrderStatus, Unpushed, Works

LEMMA FulfilMoves ==
  ASSUME TypeInv, NEW m \in Imports, FulfilStep(m), import'[m].pc \in {"find", "write"}
  PROVE  FindReports(m) \/ \E r \in import[m].find : FindRow(m, r)
<1>1. ASSUME NEW pc \in {"done", "failed"}, Finish(m, pc) PROVE FALSE
  BY <1>1, Finished
<1>2. ASSUME NEW pc \in {"select", "link"}, Goto(m, pc) PROVE FALSE
  BY <1>2, Went DEF Works
<1>3. CASE SelectUnpushed(m) \/ LinkRow(m)
  BY <1>3, ImportsType, ImportType DEF SelectUnpushed, LinkRow, Import
<1> QED
  BY <1>1, <1>2, <1>3 DEF FulfilStep, ExecuteBatch, ExecuteSome, PushRow, RowsPushed, RowRejected,
                          PushRowUnanswered, ImportFails

LEMMA SameLinesOf ==
  ASSUME TypeInv, [Next]_vars, Ids' = Ids, NEW p
  PROVE  LinesOf(p)' = LinesOf(p)
BY LinesNext DEF LinesOf, LinesKeepType, Grows

\* While a call is at work, nobody else adds line items.
LEMMA NobodyAdds ==
  ASSUME TypeInv, [Next]_vars, OneActor
  PROVE  /\ \A u \in Users : Calling(u) /\ user'[u].pc = user[u].pc => Ids' = Ids
         /\ \A m \in Imports : Running(m) /\ import'[m].pc = import[m].pc => Ids' = Ids
<1>1. ASSUME NEW v \in Users, NEW q \in Quantity, CreateLine(v, q)
      PROVE  Calling(v) /\ user'[v].pc # user[v].pc
  BY <1>1, Returned, UserType, UsersType DEF CreateLine, Calling, User
<1>2. ASSUME NEW n \in Imports, InsertLines(n) \/ InsertLinesFails(n) \/ ExecuteBatch(n) \/ ExecuteSome(n)
      PROVE  Running(n) /\ import'[n].pc # import[n].pc
  BY <1>2, Went, Finished DEF InsertLines, InsertLinesFails, ExecuteBatch, ExecuteSome, Unpushed,
                              Running, Works
<1> QED
  BY <1>1, <1>2, LinesKinds DEF OneActor

LEMMA NewIsNewNext ==
  ASSUME TypeInv, [Next]_vars, OneActor, NewIsNew
  PROVE  NewIsNew'
<1>1. ASSUME NEW u \in Users, user'[u].pc = "create" PROVE LinesOf(user[u].product)' = {}
  <2>1. CASE user'[u].pc = user[u].pc /\ user'[u].product = user[u].product
    <3>1. Ids' = Ids /\ LinesOf(user[u].product) = {}
      BY <1>1, <2>1, NobodyAdds DEF Calling, NewIsNew
    <3> QED
      BY <2>1, <3>1, SameLinesOf
  <2>2. CASE FindNoLine(u) /\ user'[u].product = user[u].product
    <3>1. Ids' = Ids /\ LinesOf(user[u].product) = {}
      BY <2>2 DEF FindNoLine, Ids
    <3> QED
      BY <2>2, <3>1, SameLinesOf
  <2> QED
    BY <1>1, <2>1, <2>2, OneMoves, PagePlaces, AddPlaces DEF OnlyCalls
<1>2. ASSUME NEW m \in Imports, import'[m].pc \in {"find", "write"}, NEW r \in import'[m].new
      PROVE  LinesOf(r.product)' = {}
  <2>1. CASE import'[m].pc = import[m].pc /\ r \in import[m].new
    <3>1. Ids' = Ids /\ LinesOf(r.product) = {}
      BY <1>2, <2>1, NobodyAdds DEF Running, NewIsNew
    <3> QED
      BY <3>1, SameLinesOf
  <2>2. CASE FindReports(m)
    <3>1. import'[m].new = {}
      <4>1. import \in [Imports -> Import] /\ import[m] \in Import /\ import[m].new = {}
        BY <2>2, ImportsType, ImportType DEF FindReports, WorkerHasFound
      <4> QED
        BY <2>2, <4>1 DEF FindReports, Finish, NewImport, Import
    <3> QED
      BY <1>2, <3>1
  <2>3. ASSUME NEW s \in import[m].find, FindRow(m, s) PROVE LinesOf(r.product)' = {}
    <3> DEFINE new == IF LinesOf(s.product) = {} THEN import[m].new \union {s} ELSE import[m].new
    <3>0. import'[m].new = new /\ import[m].pc = "find"
      BY <2>3, ImportsType, ImportType DEF FindRow, Import
    <3>1. r \in import[m].new \/ (r = s /\ LinesOf(s.product) = {})
      <4>1. r \in new
        BY <1>2, <3>0
      <4> QED
        BY <4>1
    <3>2. Ids' = Ids
      BY <2>3 DEF FindRow, Ids
    <3>3. LinesOf(r.product) = {}
      BY <3>0, <3>1 DEF NewIsNew
    <3> QED
      BY <3>2, <3>3, SameLinesOf
  <2>4. \/ import'[m] = import[m]
        \/ FindReports(m) \/ \E s \in import[m].find : FindRow(m, s)
    <3>1. ASSUME NEW n \in Imports, n # m, OnlyWorks(n) PROVE import'[m] = import[m]
      BY <3>1 DEF OnlyWorks
    <3>2. ~CreateStep(m)
      BY <1>2, CreatePlaces
    <3>3. ASSUME FulfilStep(m) PROVE FindReports(m) \/ \E s \in import[m].find : FindRow(m, s)
      BY <1>2, <3>3, FulfilMoves
    <3> QED
      BY <3>1, <3>2, <3>3, OneMoves
  <2> QED
    BY <1>2, <2>1, <2>2, <2>3, <2>4
<1> QED
  <2>1. \A u \in Users : user'[u].pc = "create" => LinesOf(user[u].product)' = {}
    BY <1>1
  <2>2. \A m \in Imports : import'[m].pc \in {"find", "write"} =>
          \A r \in import'[m].new : LinesOf(r.product)' = {}
    BY <1>2
  <2> QED
    BY <2>1, <2>2 DEF NewIsNew

LEMMA ProductNext == TypeInv /\ ProductInv /\ [Next]_vars => ProductInv'
<1> SUFFICES ASSUME TypeInv, ProductInv, [Next]_vars, ~mixed'.overlap
             PROVE  OneActor' /\ (Clean' => Distinct' /\ NewIsNew')
  BY DEF ProductInv
<1>1. ~mixed.overlap
  BY HistoryNext DEF Remembers
<1>2. OneActor'
  BY <1>1, OneActorNext DEF ProductInv
<1>3. Clean' => Distinct' /\ NewIsNew'
  BY <1>1, CleanBefore, DistinctNext, NewIsNewNext DEF ProductInv
<1> QED
  BY <1>2, <1>3

LEMMA ProductInit == Init => ProductInv
<1> SUFFICES ASSUME Init PROVE ProductInv
  OBVIOUS
<1>1. /\ \A u \in Users : user[u].pc = "idle"
      /\ \A m \in Imports : import[m].pc = "free"
  BY DEF Init, IdleUser, NewImport
<1>2. Distinct
  <2>1. CASE Absent
    BY <2>1 DEF Absent, Distinct, Ids
  <2>2. ASSUME NEW approved \in SUBSET Range(Ordered), Sent(approved) PROVE Distinct
    <3>1. Ids = DOMAIN Ordered /\ \A l \in Ids : line[l].product = Ordered[l]
      BY <2>2 DEF Sent, Ids, NewLine
    <3>2. \A l, k \in DOMAIN Ordered : Ordered[l] = Ordered[k] => l = k
      BY LinesAssumption DEF IsInjective
    <3> QED
      BY <3>1, <3>2 DEF Distinct
  <2> QED
    BY <2>1, <2>2 DEF Init
<1> QED
  BY <1>1, <1>2 DEF ProductInv, OneActor, NewIsNew, Calling, Running

\* An order has one line item per product, whatever sequence of pages, additions and files
\* changes it: each of them looks for the line items of the product before it creates one.
\* Except when two calls overlap, or when a file itself has two rows of one product.
THEOREM LinesAreDistinct == Spec => []OneLinePerProduct
<1>1. ProductInv => OneLinePerProduct
  BY DEF ProductInv, OneLinePerProduct, Distinct, Clean, OneRowEach
<1> QED
  BY <1>1, TypeInit, TypeNext, ProductInit, ProductNext, PTL DEF Spec

-----------------------------------------------------------------------------
(* One product in Vend per product *)

\* Vend created the product of the line item, and its id is still to be saved.
LinkPending(l) == \/ \E u \in Users : user[u].pc = "link" /\ user[u].id = l
                  \/ \E m \in Imports : import[m].pc = "link" /\ First(import[m].todo) = l

\* What the calls know of the links is what the line items say.
LinksKnown ==
  /\ \A u \in Users : user[u].pc \in {"save", "push"} => user[u].found.linked = line[user[u].id].linked
  /\ \A u \in Users : user[u].pc = "link" => ~line[user[u].id].linked
  /\ \A m \in Imports : import[m].pc \in {"push", "link"} => \A l \in import[m].todo : ~line[l].linked

OneEach == \A p \in Products :
  \/ vend[p] = 0
  \/ vend[p] = 1 /\ \E l \in LinesOf(p) : line[l].linked \/ LinkPending(l)

VendInv == ~mixed.overlap /\ ~mixed.unlinked /\ Clean => LinksKnown /\ OneEach

LEMMA AnswerLost ==
  ASSUME TypeInv,
         \/ \E u \in Users : CallFails(u) /\ user[u].pc = "link"
         \/ \E m \in Imports : ImportFails(m) /\ import[m].pc = "link"
         \/ \E u \in Users : PushUnanswered(u)
         \/ \E m \in Imports : PushRowUnanswered(m)
  PROVE  mixed'.unlinked
<1>1. ASSUME NEW u \in Users, CallFails(u), user[u].pc = "link" PROVE mixed'.unlinked
  <2> DEFINE n == mixed.unlinked \/ user[u].pc = "link"
  <2>1. n /\ mixed' = [mixed EXCEPT !.unlinked = n]
    BY <1>1 DEF CallFails
  <2> HIDE DEF n
  <2> QED
    BY <2>1, HistoryType DEF Mixed
<1>2. ASSUME NEW m \in Imports, ImportFails(m), import[m].pc = "link" PROVE mixed'.unlinked
  <2> DEFINE n == mixed.unlinked \/ import[m].pc = "link"
  <2>1. n /\ mixed' = [mixed EXCEPT !.unlinked = n]
    BY <1>2 DEF ImportFails
  <2> HIDE DEF n
  <2> QED
    BY <2>1, HistoryType DEF Mixed
<1>3. ASSUME mixed' = [mixed EXCEPT !.unlinked = TRUE] PROVE mixed'.unlinked
  BY <1>3, HistoryType DEF Mixed
<1> QED
  BY <1>1, <1>2, <1>3 DEF PushUnanswered, PushRowUnanswered

\* An edit of a page keeps the links.
LEMMA EditsKeepLinks ==
  ASSUME TypeInv, NEW u \in Users, EditsLines(u), NEW k \in Ids
  PROVE  line'[k].linked = line[k].linked
<1>0. line \in [Ids -> Line] /\ \A l \in Ids : line[l] \in Line
  BY LineAt
<1>1. ASSUME NEW l \in Ids, NEW q \in Quantity, EditFulfilled(u, l, q)
      PROVE  line'[k].linked = line[k].linked
  BY <1>0, <1>1 DEF EditFulfilled, Line
<1>2. ASSUME NEW l \in Ids, NEW q \in Quantity, EditReceived(u, l, q)
      PROVE  line'[k].linked = line[k].linked
  BY <1>0, <1>2 DEF EditReceived, Line
<1>3. ASSUME NEW l \in Ids, ScanReceived(u, l) PROVE line'[k].linked = line[k].linked
  BY <1>0, <1>3 DEF ScanReceived, Line
<1>4. CASE ExecuteFulfillAll(u)
  BY <1>0, <1>4 DEF ExecuteFulfillAll, Line
<1>5. CASE FlagFulfilled(u)
  BY <1>0, <1>5 DEF FlagFulfilled, Line
<1> QED
  BY <1>1, <1>2, <1>3, <1>4, <1>5 DEF EditsLines

LEMMA BatchKeepsLinks ==
  ASSUME TypeInv, NEW m \in Imports, ExecuteBatch(m) \/ ExecuteSome(m), NEW k \in Ids
  PROVE  line'[k].linked = line[k].linked
<1>0. import[m].pc = "write"
  BY DEF ExecuteBatch, ExecuteSome
<1>1. ASSUME NEW old \in FoundRows(m), NEW new \in SUBSET import[m].new, NEW clear,
             BatchOf(m, old, new, clear)
      PROVE  line'[k].linked = line[k].linked
  <2>0. BatchUpdates(old, clear)
    BY <1>0, <1>1, BatchEditsLines
  <2>1. PICK last \in LastRows(old) : \A l \in Ids : line'[l] = Updated(old, last, clear)[l]
    BY <2>0 DEF BatchUpdates
  <2>2. Updated(old, last, clear)[k].linked = line[k].linked
    BY <1>0, UpdatedKeeps
  <2> QED
    BY <2>1, <2>2
<1>2. CASE ExecuteBatch(m)
  <2>1. Rows(m) \ import[m].new \in FoundRows(m)
    BY DEF FoundRows
  <2> QED
    BY <1>1, <1>2, <2>1, AllIsBatch
<1>3. CASE ExecuteSome(m)
  <2>1. PICK some \in SUBSET Rows(m), clear \in BOOLEAN :
           BatchOf(m, some \ import[m].new, some \intersect import[m].new, clear)
    BY <1>3, SomeIsBatch
  <2>2. some \ import[m].new \in FoundRows(m)
    BY DEF FoundRows
  <2> QED
    BY <1>1, <2>1, <2>2
<1> QED
  BY <1>2, <1>3

\* The steps that change a link.
ChangesLinks == \/ \E u \in Users : LinkAdded(u)
                \/ \E m \in Imports : LinkRow(m) \/ PushOrder(m)

LEMMA LinkedStays ==
  ASSUME TypeInv, [Next]_vars, LinksKnown, ~ChangesLinks, NEW l \in Ids
  PROVE  line'[l].linked = line[l].linked
<1>0. line \in [Ids -> Line]
  BY LineAt
<1>1. ASSUME NEW u \in Users, PageStep(u) PROVE line'[l].linked = line[l].linked
  BY <1>1, PageKeepsLines, EditsKeepLinks
<1>2. ASSUME NEW u \in Users, AddStep(u) PROVE line'[l].linked = line[l].linked
  <2>1. CASE SaveLine(u)
    BY <1>0, <2>1 DEF SaveLine, LinksKnown
  <2>2. ASSUME NEW q \in Quantity, CreateLine(u, q) PROVE line'[l].linked = line[l].linked
    BY <2>2, CreateAddsLine
  <2> QED
    BY <1>2, <2>1, <2>2, AddKeepsLines DEF ChangesLinks
<1>3. ASSUME NEW m \in Imports, CreateStep(m) \/ FulfilStep(m) PROVE line'[l].linked = line[l].linked
  <2>1. CASE InsertLines(m) \/ InsertLinesFails(m)
    BY <2>1, LinesInserted
  <2> QED
    BY <1>3, <2>1, ImportKeepsLines, BatchKeepsLinks DEF ChangesLinks
<1> QED
  BY <1>1, <1>2, <1>3 DEF Next, vars, ReceiveConsignment, ReceiptFails

LEMMA PendingStays ==
  ASSUME TypeInv, [Next]_vars, ~ChangesLinks, ~mixed'.unlinked, NEW l, LinkPending(l)
  PROVE  LinkPending(l)'
<1>1. ASSUME NEW u \in Users, user[u].pc = "link", user[u].id = l
      PROVE  user'[u].pc = "link" /\ user'[u].id = l
  <2>1. ASSUME PageStep(u) PROVE user'[u].pc = "link" /\ user'[u].id = l
    <3>1. CASE CallFails(u)
      BY <1>1, <3>1, AnswerLost
    <3>2. CASE ~CallFails(u)
      <4>1. PutOpenedState(u)
        BY <1>1, <2>1, <3>2
           DEF PageStep, OpenPage, EditFulfilled, EditReceived, ScanReceived, FulfillAll,
               ExecuteFulfillAll, SendDelivery, WriteReceivingPending, FlagFulfilled,
               LoadDiscrepancies, SaveDiscrepancies, SubmitReceivals, DeleteInVend, SetDeleted, Calling
      <4> QED
        BY <1>1, <4>1, UsersType, UserType DEF PutOpenedState, User
    <3> QED
      BY <3>1, <3>2
  <2>2. ASSUME AddStep(u) PROVE FALSE
    BY <1>1, <2>2 DEF AddStep, AddProduct, FindNoLine, FindRefused, FindLeftOut, CreateLine, SaveLine,
                      PushAdded, PushRejected, LinkAdded, PushUnanswered, ChangesLinks, Calling
  <2> QED
    BY <1>1, <2>1, <2>2, OneMoves DEF OnlyCalls
<1>2. ASSUME NEW m \in Imports, import[m].pc = "link", First(import[m].todo) = l
      PROVE  import'[m].pc = "link" /\ First(import'[m].todo) = l
  <2>1. ~ImportFails(m)
    BY <1>2, AnswerLost
  <2>2. ~CreateStep(m) /\ ~FulfilStep(m)
    BY <1>2, <2>1 DEF CreateStep, UploadFile, MapRows, CreateOrder, InsertLines, InsertLinesFails,
                      PushOrder, PushOrderFails, SetOrderStatus, FulfilStep, FindReports, FindRow,
                      ExecuteBatch, ExecuteSome, SelectUnpushed, PushRow, LinkRow, RowsPushed,
                      RowRejected, PushRowUnanswered, ChangesLinks
  <2> QED
    BY <1>2, <2>2, OneMoves DEF OnlyWorks
<1> QED
  BY <1>1, <1>2 DEF LinkPending

\* While a call is at work, nobody else links a line item.
LEMMA NobodyLinks ==
  ASSUME OneActor
  PROVE  /\ \A u \in Users : Calling(u) /\ user[u].pc # "link" => ~ChangesLinks
         /\ \A u \in Users : ChangesLinks /\ Calling(u) => LinkAdded(u)
         /\ \A m \in Imports : ChangesLinks /\ Running(m) => LinkRow(m) \/ PushOrder(m)
<1>1. \A u \in Users : LinkAdded(u) => Calling(u) /\ user[u].pc = "link"
  BY DEF LinkAdded, Calling
<1>2. \A m \in Imports : LinkRow(m) \/ PushOrder(m) => Running(m)
  BY DEF LinkRow, PushOrder, Running
<1> QED
  BY <1>1, <1>2 DEF OneActor, ChangesLinks

LEMMA CallsKnowLinks ==
  ASSUME TypeInv, [Next]_vars, OneActor, LinksKnown, NEW u \in Users
  PROVE  /\ user'[u].pc \in {"save", "push"} => user'[u].found.linked = line'[user'[u].id].linked
         /\ user'[u].pc = "link" => ~line'[user'[u].id].linked
<1>0. /\ \A l \in Ids : line[l] \in Line /\ (~ChangesLinks => line'[l].linked = line[l].linked)
      /\ CallHasRead(u)
  BY LineAt, UserType, LinkedStays
<1>1. ASSUME user'[u].pc = user[u].pc, user'[u].id = user[u].id, user'[u].found = user[u].found
      PROVE  /\ user'[u].pc \in {"save", "push"} => user'[u].found.linked = line'[user'[u].id].linked
             /\ user'[u].pc = "link" => ~line'[user'[u].id].linked
  <2>1. user[u].pc \in {"save", "push", "link"} => user[u].id \in Ids
    BY <1>0 DEF CallHasRead
  <2>2. user[u].pc \in {"save", "push"} => ~ChangesLinks
    BY NobodyLinks DEF Calling
  <2>3. user[u].pc = "link" => ~ChangesLinks
    <3>1. LinkAdded(u) => user'[u].pc = "idle"
      BY Returned DEF LinkAdded
    <3> QED
      BY <1>1, <3>1, NobodyLinks DEF Calling
  <2> QED
    BY <1>0, <1>1, <2>1, <2>2, <2>3 DEF LinksKnown
<1>2. ASSUME AddStep(u), user'[u].pc = "save" PROVE user'[u].found.linked = line'[user'[u].id].linked
  <2> DEFINE first == First(LinesOf(user[u].product))
  <2>1. /\ FindLeftOut(u) /\ user'[u].id = first
        /\ user'[u].found = Approve(line[first]) \/ user'[u].found = Fulfil(line[first])
    BY <1>2, AddPlaces
  <2>2. first \in Ids /\ UNCHANGED line
    BY <2>1, LinesOfType DEF FindLeftOut, TypeInv, TypeOK
  <2> HIDE DEF first
  <2>3. Approve(line[first]).linked = line[first].linked /\ Fulfil(line[first]).linked = line[first].linked
    BY <1>0, <2>2 DEF Approve, Fulfil, Line
  <2> QED
    BY <2>1, <2>2, <2>3
<1>3. ASSUME AddStep(u), user'[u].pc = "push" PROVE user'[u].found.linked = line'[user'[u].id].linked
  <2>1. CASE SaveLine(u) /\ user'[u].id = user[u].id /\ user'[u].found = user[u].found
    <3>1. user[u].pc = "save" /\ user[u].id \in Ids
      BY <1>0, <2>1 DEF SaveLine, CallHasRead
    <3>2. ~ChangesLinks
      BY <3>1, NobodyLinks DEF Calling
    <3> QED
      BY <1>0, <2>1, <3>1, <3>2 DEF LinksKnown
  <2>2. ASSUME NEW q \in Quantity \ {0}, CreateLine(u, q), user'[u].id = Len(line) + 1,
               user'[u].found = AddedLine(u, q)
        PROVE  user'[u].found.linked = line'[user'[u].id].linked
    BY <2>2, CreateAddsLine
  <2> QED
    BY <1>3, <2>1, <2>2, AddPlaces
<1>4. ASSUME AddStep(u), user'[u].pc = "link" PROVE ~line'[user'[u].id].linked
  <2>1. PushAdded(u) /\ user'[u].id = user[u].id
    BY <1>4, AddPlaces
  <2> QED
    BY <2>1 DEF PushAdded, LinksKnown
<1>5. CASE user'[u] = user[u]
  BY <1>1, <1>5
<1>6. CASE PageStep(u)
  BY <1>1, <1>6, PagePlaces
<1> QED
  BY <1>2, <1>3, <1>4, <1>5, <1>6, OneMoves DEF OnlyCalls

LEMMA WorkersKnowLinks ==
  ASSUME TypeInv, [Next]_vars, OneActor, LinksKnown, NEW m \in Imports,
         import'[m].pc \in {"push", "link"}, NEW l \in import'[m].todo
  PROVE  ~line'[l].linked
<1>0. /\ import \in [Imports -> Import] /\ import[m] \in Import /\ WorkerHasFound(m)
      /\ line \in [Ids -> Line]
  BY ImportsType, ImportType, LineAt
<1>1. CASE import'[m] = import[m]
  <2>1. l \in Ids /\ ~line[l].linked
    BY <1>0, <1>1 DEF WorkerHasFound, LinksKnown
  <2>2. LinkRow(m) => import'[m].pc = "push" /\ import[m].pc = "link"
    BY <1>0 DEF LinkRow, Import
  <2>3. ~ChangesLinks
    BY <1>1, <2>2, NobodyLinks DEF Running, PushOrder
  <2> QED
    BY <2>1, <2>3, LinkedStays
<1>2. CASE SelectUnpushed(m)
  <2> DEFINE todo == {k \in Ids : line[k].fulfilled = "true" /\ ~line[k].linked}
  <2>1. import'[m].todo = todo /\ UNCHANGED line
    BY <1>0, <1>2 DEF SelectUnpushed, Import
  <2> QED
    BY <2>1
<1>3. CASE PushRow(m)
  <2>1. import'[m].todo = import[m].todo /\ UNCHANGED line
    BY <1>3, Went DEF PushRow, Works
  <2> QED
    BY <1>3, <2>1 DEF PushRow, LinksKnown
<1>4. CASE LinkRow(m)
  <2> DEFINE rest == import[m].todo \ {First(import[m].todo)}
  <2>1. import'[m].todo = rest
    BY <1>0, <1>4 DEF LinkRow, Import
  <2>2. l \in import[m].todo /\ l # First(import[m].todo) /\ l \in Ids
    BY <1>0, <1>4, <2>1 DEF WorkerHasFound, LinkRow
  <2>3. line'[l] = line[l]
    BY <1>0, <1>4, <2>2 DEF LinkRow, Link
  <2> QED
    BY <1>4, <2>2, <2>3 DEF LinkRow, LinksKnown
<1>5. import'[m] = import[m] \/ SelectUnpushed(m) \/ PushRow(m) \/ LinkRow(m)
  <2>1. ASSUME NEW n \in Imports, n # m, OnlyWorks(n) PROVE import'[m] = import[m]
    BY <2>1 DEF OnlyWorks
  <2>2. ~CreateStep(m)
    BY CreatePlaces
  <2>3. FulfilStep(m) => SelectUnpushed(m) \/ PushRow(m) \/ LinkRow(m)
    <3>1. ASSUME NEW pc \in {"done", "failed"}, Finish(m, pc) PROVE FALSE
      BY <3>1, Finished
    <3>2. ~Goto(m, "select")
      BY Went DEF Works
    <3>3. ~FindReports(m)
      BY <1>0, <3>1 DEF FindReports, Import
    <3>4. ASSUME NEW r \in import[m].find, FindRow(m, r) PROVE FALSE
      BY <1>0, <3>4 DEF FindRow, Import
    <3> QED
      BY <3>1, <3>2, <3>3, <3>4
         DEF FulfilStep, ExecuteBatch, ExecuteSome, RowsPushed, RowRejected, PushRowUnanswered,
             ImportFails
  <2> QED
    BY <2>1, <2>2, <2>3, OneMoves
<1> QED
  BY <1>1, <1>2, <1>3, <1>4, <1>5

LEMMA LinksKnownNext ==
  ASSUME TypeInv, [Next]_vars, OneActor, LinksKnown
  PROVE  LinksKnown'
<1>1. \A m \in Imports : import'[m].pc \in {"push", "link"} =>
        \A l \in import'[m].todo : ~line'[l].linked
  BY WorkersKnowLinks
<1> QED
  BY <1>1, CallsKnowLinks DEF LinksKnown

\* A line item without a link gets a product in Vend: it is the first of its product.
LEMMA CreatesTheFirst ==
  ASSUME TypeInv, LinesKeepType, Distinct, OneEach, NEW l \in Ids, ~line[l].linked, UNCHANGED line,
         CreateInVend(l), LinkPending(l)', \A k \in Ids : ~LinkPending(k)
  PROVE  OneEach'
<1>0. /\ vend \in [Products -> Nat] /\ line[l].product \in Products
      /\ \A p : LinesOf(p) = {k \in Ids : line[k].product = p} /\ LinesOf(p)' = LinesOf(p)
  BY LineAt DEF TypeInv, TypeOK, LinesOf, Line, Ids
<1>1. vend[line[l].product] = 0
  BY <1>0 DEF OneEach, Distinct
<1>2. /\ vend'[line[l].product] = 1
      /\ \A p \in Products : p # line[l].product => vend'[p] = vend[p]
  BY <1>0, <1>1 DEF CreateInVend
<1>3. ASSUME NEW p \in Products
      PROVE  vend'[p] = 0 \/ (vend'[p] = 1 /\ \E k \in LinesOf(p) : line[k].linked \/ LinkPending(k)')
  <2>1. CASE p = line[l].product
    BY <1>0, <1>2, <2>1
  <2>2. CASE p # line[l].product
    BY <1>0, <1>2, <2>2 DEF OneEach
  <2> QED
    BY <2>1, <2>2
<1> QED
  BY <1>0, <1>3 DEF OneEach

\* The id of the product is saved.
LEMMA LinksTheFirst ==
  ASSUME TypeInv, LinesKeepType, OneEach, NEW l \in Ids, UNCHANGED vend, line'[l].linked,
         \A k \in Ids : /\ line[k].linked => line'[k].linked
                        /\ LinkPending(k) => k = l
  PROVE  OneEach'
<1>0. \A p : LinesOf(p) \subseteq Ids /\ LinesOf(p) \subseteq LinesOf(p)'
  BY FirstsStay DEF LinesOf
<1>1. ASSUME NEW p \in Products
      PROVE  \/ vend'[p] = 0
             \/ vend'[p] = 1 /\ \E k \in LinesOf(p)' : line'[k].linked
  BY <1>0 DEF OneEach
<1> QED
  BY <1>1 DEF OneEach

LEMMA OrderIsPushed ==
  ASSUME TypeInv, LinesKeepType, Distinct, NEW m \in Imports, PushOrder(m)
  PROVE  OneEach'
<1>0. /\ line \in [Ids -> Line] /\ Ids' = Ids
      /\ \A p : LinesOf(p) \subseteq Ids /\ LinesOf(p) \subseteq LinesOf(p)'
  BY LineAt, ImportEditsLines, FirstsStay DEF LinesOf
<1>1. \A l \in Ids : line'[l].linked <=> line[l].approved = "true"
  BY <1>0 DEF PushOrder, Line
<1>2. ASSUME NEW p \in Products
      PROVE  \/ vend'[p] = 0
             \/ vend'[p] = 1 /\ \E k \in LinesOf(p)' : line'[k].linked
  <2> DEFINE S == {l \in LinesOf(p) : line[l].approved = "true"}
  <2>1. vend'[p] = Cardinality(S)
    BY DEF PushOrder
  <2>2. CASE S = {}
    BY <2>1, <2>2, FS_EmptySet
  <2>3. ASSUME NEW l \in S PROVE vend'[p] = 1 /\ \E k \in LinesOf(p)' : line'[k].linked
    <3>1. S = {l}
      BY <1>0, <2>3 DEF Distinct, LinesOf
    <3>2. Cardinality(S) = 1
      BY <3>1, FS_Singleton
    <3> QED
      BY <1>0, <1>1, <2>1, <2>3, <3>2
  <2> QED
    BY <2>2, <2>3
<1> QED
  BY <1>2 DEF OneEach

LEMMA OneEachNext ==
  ASSUME TypeInv, [Next]_vars, OneActor, Distinct, LinksKnown, OneEach, ~mixed'.unlinked
  PROVE  OneEach'
<1>0. /\ LinesKeepType /\ line \in [Ids -> Line]
      /\ \A p : LinesOf(p) \subseteq Ids /\ LinesOf(p) \subseteq LinesOf(p)'
  BY LinesNext, LineAt, FirstsStay DEF LinesOf
<1>1. ASSUME NEW u \in Users, PushAdded(u) PROVE OneEach'
  <2>1. user[u].id \in Ids /\ ~line[user[u].id].linked /\ user[u].pc = "push"
    BY <1>1, UserType DEF PushAdded, CallHasRead, LinksKnown
  <2> PICK l \in Ids : l = user[u].id
    BY <2>1
  <2>2. \A k \in Ids : ~LinkPending(k)
    BY <2>1 DEF OneActor, Calling, Running, LinkPending
  <2>3. user'[u].pc = "link" /\ user'[u].id = user[u].id
    BY <1>1, Called DEF PushAdded, Calls
  <2>4. LinkPending(l)'
    BY <2>3 DEF LinkPending
  <2> QED
    BY <1>0, <1>1, <2>1, <2>2, <2>4, CreatesTheFirst DEF PushAdded
<1>2. ASSUME NEW m \in Imports, PushRow(m) PROVE OneEach'
  <2> PICK l \in Ids : l = First(import[m].todo)
    BY <1>2, TodoType DEF PushRow
  <2>1. l \in import[m].todo /\ import[m].pc = "push"
    BY <1>2, TodoType DEF PushRow
  <2>2. ~line[l].linked
    BY <2>1 DEF LinksKnown
  <2>3. \A k \in Ids : ~LinkPending(k)
    BY <2>1 DEF OneActor, Calling, Running, LinkPending
  <2>4. import'[m].pc = "link" /\ import'[m].todo = import[m].todo
    BY <1>2, Went DEF PushRow, Works
  <2>5. LinkPending(l)'
    BY <2>4 DEF LinkPending, First
  <2>6. CreateInVend(l) /\ UNCHANGED line
    BY <1>2 DEF PushRow
  <2> QED
    BY <1>0, <2>1, <2>2, <2>3, <2>5, <2>6, CreatesTheFirst
<1>3. ASSUME NEW u \in Users, LinkAdded(u) PROVE OneEach'
  <2>1. user[u].id \in Ids /\ user[u].pc = "link"
    BY <1>3, UserType DEF LinkAdded, CallHasRead
  <2>2. \A k \in Ids : LinkPending(k) => k = user[u].id
    BY <2>1 DEF OneActor, Calling, Running, LinkPending
  <2>3. line'[user[u].id].linked /\ \A k \in Ids : line[k].linked => line'[k].linked
    BY <1>0, <1>3, <2>1 DEF LinkAdded, Link, Line
  <2> QED
    BY <1>0, <1>3, <2>1, <2>2, <2>3, LinksTheFirst DEF LinkAdded
<1>4. ASSUME NEW m \in Imports, LinkRow(m) PROVE OneEach'
  <2> DEFINE l == First(import[m].todo)
  <2>1. l \in Ids /\ import[m].pc = "link"
    BY <1>4, ImportType, TodoType DEF LinkRow, WorkerHasFound
  <2>2. \A k \in Ids : LinkPending(k) => k = l
    BY <2>1 DEF OneActor, Calling, Running, LinkPending
  <2>3. Link(l) /\ UNCHANGED vend
    BY <1>4 DEF LinkRow
  <2> HIDE DEF l
  <2>4. line'[l].linked /\ \A k \in Ids : line[k].linked => line'[k].linked
    BY <1>0, <2>1, <2>3 DEF Link, Line
  <2> QED
    BY <1>0, <2>1, <2>2, <2>3, <2>4, LinksTheFirst
<1>5. ASSUME NEW m \in Imports, PushOrder(m) PROVE OneEach'
  BY <1>0, <1>5, OrderIsPushed
<1>6. CASE ~ChangesLinks /\ ~PushesInVend
  <2>1. UNCHANGED vend
    BY <1>6, VendFrame
  <2>2. \A k \in Ids : /\ line[k].linked => line'[k].linked
                       /\ LinkPending(k) => LinkPending(k)'
    BY <1>6, LinkedStays, PendingStays
  <2>3. ASSUME NEW p \in Products
        PROVE  \/ vend'[p] = 0
               \/ vend'[p] = 1 /\ \E k \in LinesOf(p)' : line'[k].linked \/ LinkPending(k)'
    BY <1>0, <2>1, <2>2 DEF OneEach
  <2> QED
    BY <2>3 DEF OneEach
<1> QED
  BY <1>1, <1>2, <1>3, <1>4, <1>5, <1>6, AnswerLost DEF ChangesLinks, PushesInVend

LEMMA VendNextInv == TypeInv /\ ProductInv /\ VendInv /\ [Next]_vars => VendInv'
<1> SUFFICES ASSUME TypeInv, ProductInv, VendInv, [Next]_vars, ~mixed'.overlap, ~mixed'.unlinked, Clean'
             PROVE  LinksKnown' /\ OneEach'
  BY DEF VendInv
<1>1. ~mixed.overlap /\ ~mixed.unlinked /\ Clean
  BY HistoryNext, CleanBefore DEF Remembers
<1>2. OneActor /\ Distinct /\ LinksKnown /\ OneEach
  BY <1>1 DEF ProductInv, VendInv
<1> QED
  BY <1>2, LinksKnownNext, OneEachNext

LEMMA VendInit == Init => VendInv
<1> SUFFICES ASSUME Init PROVE LinksKnown /\ OneEach
  BY DEF VendInv
<1>1. LinksKnown
  BY DEF Init, IdleUser, NewImport, LinksKnown
<1>2. CASE Absent
  <2>1. vend = [p \in Products |-> 0]
    BY <1>2 DEF Absent
  <2> QED
    BY <1>1, <2>1 DEF OneEach
<1>3. ASSUME NEW approved \in SUBSET Range(Ordered), Sent(approved) PROVE OneEach
  <2>1. Ids = DOMAIN Ordered
    BY <1>3 DEF Sent, Ids
  <2>2. \A l \in Ids : /\ line[l].product = Ordered[l]
                       /\ Ordered[l] \in approved => line[l].linked
    BY <1>3, <2>1 DEF Sent, NewLine
  <2>3. \A p \in approved : \E l \in LinesOf(p) : line[l].linked
    BY <2>1, <2>2 DEF LinesOf, Range
  <2> QED
    BY <1>3, <2>3 DEF Sent, OneEach
<1> QED
  BY <1>1, <1>2, <1>3 DEF Init

\* All the programs together (the purchase order worker that a file runs, the delivery of
\* another file, and addProductToStockOrder) create a product in the consignment at most
\* once: whoever pushes a line item knows whether it is linked.  Except when two calls
\* overlap, an answer of Vend is lost, or a file has two rows of one product.
THEOREM VendHasOneOfEach == Spec => []OneVendLine
<1>1. VendInv => OneVendLine
  <2>1. OneRowEach => Clean
    BY DEF OneRowEach, Clean
  <2> QED
    BY <2>1 DEF VendInv, OneVendLine, OneEach
<1> QED
  BY <1>1, TypeInit, TypeNext, ProductInit, ProductNext, VendInit, VendNextInv, PTL DEF Spec

-----------------------------------------------------------------------------
(* The number of discrepancies *)

\* While the discrepancies are shown, or on their way to the order, they are those of the
\* line items.
Counted == /\ Shown(Users) => report.discrepancies = Discrepancies
           /\ \A u \in Users : user[u].pc = "count" => user[u].count = Discrepancies

CountInv == ~mixed.overlap /\ ~mixed.partial /\ ~GivenByFile("COMPLETE") => Counted

\* What a step of a session does to the discrepancies that are shown.
ShowsAfter(u) ==
  /\ user'[u].loaded =>
       \/ user[u].loaded \/ SaveDiscrepancies(u)
       \/ LoadDiscrepancies(u, TRUE) /\ mixed'.partial
  /\ user'[u].pc = "count" =>
       \/ user[u].pc = "count" /\ user'[u].count = user[u].count
       \/ user'[u].count = Discrepancies
  /\ report'.receiving \/ report'.state = "COMPLETE" => Shown(Users)
  /\ SaveDiscrepancies(u) \/ report'.discrepancies = report.discrepancies

LEMMA PageShows ==
  ASSUME TypeInv, NEW u \in Users, PageStep(u)
  PROVE  ShowsAfter(u)
<1>0. /\ user \in [Users -> User] /\ user[u] \in User /\ report \in Report
      /\ IdleUser.pc = "idle" /\ IdleUser.loaded = FALSE
  BY UsersType, UserType, ReportType DEF IdleUser
<1>1. CASE UNCHANGED report /\ (user'[u].loaded => user[u].loaded) /\ user'[u].pc # "count"
  BY <1>0, <1>1 DEF ShowsAfter, Shown
<1>2. CASE PutOpenedState(u)
  <2>1. /\ user'[u].loaded = user[u].loaded /\ user'[u].pc = user[u].pc
        /\ user'[u].count = user[u].count
    BY <1>0, <1>2 DEF PutOpenedState, User
  <2>2. report' = [report EXCEPT !.state = OpenedState(user[u].page)] /\ OpenedState(user[u].page) # "COMPLETE"
    BY <1>2 DEF PutOpenedState, SetState, OpenedState
  <2>3. /\ report'.state # "COMPLETE" /\ report'.receiving = report.receiving
        /\ report'.discrepancies = report.discrepancies
    BY <1>0, <2>2 DEF Report
  <2> QED
    BY <2>1, <2>3 DEF ShowsAfter, Shown
<1>3. CASE \/ \E l \in Ids, q \in Quantity : EditFulfilled(u, l, q) \/ EditReceived(u, l, q)
           \/ \E l \in Ids : ScanReceived(u, l)
  <2>1. user[u].pc = "idle" /\ (UNCHANGED user \/ user' = [user EXCEPT ![u].loaded = FALSE])
    BY <1>3 DEF EditFulfilled, EditReceived, ScanReceived, Calling
  <2>2. user'[u].pc = "idle" /\ (user'[u].loaded => user[u].loaded)
    BY <1>0, <2>1 DEF User
  <2> QED
    BY <1>1, <1>3, <2>2 DEF EditFulfilled, EditReceived, ScanReceived
<1>4. CASE \E p \in Pages : OpenPage(u, p)
  BY <1>0, <1>1, <1>4 DEF OpenPage, IdleUser
<1>5. CASE FulfillAll(u)
  <2> DEFINE all == {l \in Ids : line[l].approved = "true"}
  <2>1. user' = [user EXCEPT ![u].pc = "all", ![u].all = all]
    BY <1>5 DEF FulfillAll
  <2> HIDE DEF all
  <2>2. user'[u].pc = "all" /\ user'[u].loaded = user[u].loaded
    BY <1>0, <2>1 DEF User
  <2> QED
    BY <1>1, <1>5, <2>2 DEF FulfillAll
<1>6. CASE ExecuteFulfillAll(u) \/ CallFails(u)
  BY <1>1, <1>6, Returned DEF ExecuteFulfillAll, CallFails
<1>7. CASE SendDelivery(u)
  BY <1>1, <1>7, Called DEF SendDelivery, Calls
<1>8. CASE WriteReceivingPending(u)
  <2>1. user'[u].pc = "flag" /\ user'[u].loaded = user[u].loaded
    BY <1>8, Called DEF WriteReceivingPending, Calls
  <2>2. /\ report'.state # "COMPLETE" /\ report'.receiving = report.receiving
        /\ report'.discrepancies = report.discrepancies
    BY <1>0, <1>8 DEF WriteReceivingPending, SetState, Report
  <2> QED
    BY <2>1, <2>2 DEF ShowsAfter, Shown
<1>9. CASE FlagFulfilled(u)
  BY <1>0, <1>1, <1>9, Left DEF FlagFulfilled
<1>10. CASE LoadDiscrepancies(u, TRUE)
  <2>1. user'[u].pc = user[u].pc /\ user[u].pc = "idle" /\ UNCHANGED report
    BY <1>0, <1>10 DEF LoadDiscrepancies, Calling, User
  <2>2. mixed'.partial
    BY <1>10, HistoryType DEF LoadDiscrepancies, Mixed
  <2> QED
    BY <1>10, <2>1, <2>2 DEF ShowsAfter, Shown
<1>11. CASE LoadDiscrepancies(u, FALSE)
  <2>1. user' = [user EXCEPT ![u].pc = "count", ![u].count = Discrepancies] /\ UNCHANGED report
    BY <1>11 DEF LoadDiscrepancies
  <2>2. user'[u].count = Discrepancies /\ user'[u].loaded = user[u].loaded
    BY <1>0, <2>1 DEF User
  <2> QED
    BY <2>1, <2>2 DEF ShowsAfter, Shown
<1>12. CASE SaveDiscrepancies(u)
  <2>1. user'[u].pc = "idle"
    <3> DEFINE x == [IdleUser EXCEPT !.page = user[u].page, !.opening = user[u].opening, !.loaded = TRUE]
    <3>1. user' = [user EXCEPT ![u] = x] /\ x.pc = "idle"
      BY <1>12 DEF SaveDiscrepancies, IdleUser
    <3> HIDE DEF x
    <3> QED
      BY <1>0, <3>1
  <2>2. report'.state = report.state /\ report'.receiving = report.receiving
    BY <1>0, <1>12 DEF SaveDiscrepancies, Report
  <2> QED
    BY <1>12, <2>1, <2>2 DEF ShowsAfter, Shown
<1>13. CASE SubmitReceivals(u)
  <2>1. ~user'[u].loaded /\ user'[u].pc = "idle" /\ user[u].loaded
    BY <1>0, <1>13, Left DEF SubmitReceivals
  <2>2. report'.discrepancies = report.discrepancies
    BY <1>0, <1>13 DEF SubmitReceivals, Report
  <2> QED
    BY <2>1, <2>2 DEF ShowsAfter, Shown
<1>14. CASE DeleteInVend(u)
  <2>1. user'[u].pc = "delete" /\ user'[u].loaded = user[u].loaded
    BY <1>14, Called DEF DeleteInVend, Calls
  <2>2. /\ report'.state = report.state /\ report'.receiving = report.receiving
        /\ report'.discrepancies = report.discrepancies
    BY <1>0, <1>14 DEF DeleteInVend, Report
  <2> QED
    BY <2>1, <2>2 DEF ShowsAfter, Shown
<1>15. CASE SetDeleted(u)
  <2>1. ~user'[u].loaded /\ user'[u].pc = "idle"
    BY <1>0, <1>15, Left DEF SetDeleted
  <2>2. /\ report'.state = report.state /\ report'.receiving = report.receiving
        /\ report'.discrepancies = report.discrepancies
    BY <1>0, <1>15 DEF SetDeleted, Report
  <2> QED
    BY <2>1, <2>2 DEF ShowsAfter, Shown
<1>16. ASSUME NEW filtered \in BOOLEAN, LoadDiscrepancies(u, filtered) PROVE ShowsAfter(u)
  <2>1. filtered = TRUE \/ filtered = FALSE
    OBVIOUS
  <2> QED
    BY <1>10, <1>11, <1>16, <2>1
<1> QED
  BY <1>2, <1>3, <1>4, <1>5, <1>6, <1>7, <1>8, <1>9, <1>12, <1>13, <1>14, <1>15, <1>16
     DEF PageStep

LEMMA AddShows ==
  ASSUME TypeInv, NEW u \in Users, AddStep(u)
  PROVE  UNCHANGED report /\ (user'[u].loaded => user[u].loaded) /\ user'[u].pc # "count"
<1>0. user \in [Users -> User] /\ user[u] \in User
  BY UsersType, UserType
<1>1. ASSUME NEW pc \in Calls, Call(u, pc) PROVE user'[u].loaded = user[u].loaded
  BY <1>1, Called
<1>2. Return(u) => user'[u].loaded = user[u].loaded
  BY Returned
<1>3. ASSUME NEW p \in Products, AddProduct(u, p) PROVE user'[u].loaded = user[u].loaded
  BY <1>0, <1>3 DEF AddProduct, User
<1>4. ASSUME FindLeftOut(u) PROVE user'[u].loaded = user[u].loaded
  BY <1>0, <1>4 DEF FindLeftOut, User
<1>5. ASSUME NEW q \in Quantity \ {0}, CreateLine(u, q) PROVE user'[u].loaded = user[u].loaded
  BY <1>0, <1>2, <1>5 DEF CreateLine, User
<1>6. ASSUME FindNoLine(u) \/ SaveLine(u) \/ PushAdded(u) PROVE user'[u].loaded = user[u].loaded
  BY <1>1, <1>2, <1>6 DEF FindNoLine, SaveLine, PushAdded, Calls
<1>7. ASSUME FindRefused(u) \/ PushRejected(u) \/ LinkAdded(u) \/ PushUnanswered(u)
      PROVE  user'[u].loaded = user[u].loaded
  BY <1>2, <1>7 DEF FindRefused, PushRejected, LinkAdded, PushUnanswered
<1>8. user'[u].loaded = user[u].loaded
  BY <1>3, <1>4, <1>5, <1>6, <1>7 DEF AddStep
<1> QED
  BY <1>8, AddPlaces, AddReports

\* Links are no matter of the discrepancies.
LEMMA LinksKeepDiscrepancies ==
  ASSUME TypeInv,
         \/ UNCHANGED line
         \/ \E u \in Users : LinkAdded(u)
         \/ \E m \in Imports : LinkRow(m)
  PROVE  Discrepancies' = Discrepancies
<1>0. line \in [Ids -> Line] /\ \A l \in Ids : line[l] \in Line
  BY LineAt
<1>1. ASSUME NEW k \in Ids, Link(k) PROVE Discrepancies' = Discrepancies
  <2>1. Ids' = Ids
    BY <1>0, <1>1 DEF Link, Ids
  <2>2. \A l \in Ids : IsDiscrepancy(l)' <=> IsDiscrepancy(l)
    BY <1>0, <1>1 DEF Link, IsDiscrepancy, Line
  <2>3. {l \in Ids : IsDiscrepancy(l)}' = {l \in Ids : IsDiscrepancy(l)}
    BY <2>1, <2>2
  <2> QED
    BY <2>3 DEF Discrepancies
<1>2. CASE UNCHANGED line
  <2>1. Ids' = Ids /\ \A l \in Ids : IsDiscrepancy(l)' <=> IsDiscrepancy(l)
    BY <1>2 DEF Ids, IsDiscrepancy
  <2>2. {l \in Ids : IsDiscrepancy(l)}' = {l \in Ids : IsDiscrepancy(l)}
    BY <2>1
  <2> QED
    BY <2>2 DEF Discrepancies
<1>3. ASSUME NEW u \in Users, LinkAdded(u) PROVE Discrepancies' = Discrepancies
  <2>1. PICK l \in Ids : l = user[u].id
    BY <1>3, UserType DEF LinkAdded, CallHasRead
  <2> QED
    BY <1>1, <1>3, <2>1 DEF LinkAdded
<1>4. ASSUME NEW m \in Imports, LinkRow(m) PROVE Discrepancies' = Discrepancies
  <2>1. PICK l \in Ids : l = First(import[m].todo)
    BY <1>4, ImportType, TodoType DEF LinkRow, WorkerHasFound
  <2> QED
    BY <1>1, <1>4, <2>1 DEF LinkRow
<1> QED
  BY <1>2, <1>3, <1>4

\* Nobody looks at the discrepancies.
Unseen == ~Shown(Users) /\ \A u \in Users : user[u].pc # "count"

\* Who else changes a line item finds that nobody looks at the discrepancies.
LEMMA PagesEditUnseen ==
  ASSUME TypeInv, [Next]_vars, OneActor, NEW u \in Users, PageStep(u), ~UNCHANGED line,
         ~mixed'.overlap, ~mixed'.partial
  PROVE  Unseen'
<1>0. user \in [Users -> User] /\ user[u] \in User
  BY UsersType, UserType
<1>1. EditsLines(u) /\ OnlyCalls(u)
  BY PageKeepsLines, PageCalls, LinesNext
<1>2. CASE \/ \E l \in Ids, q \in Quantity : EditFulfilled(u, l, q) \/ EditReceived(u, l, q)
           \/ \E l \in Ids : ScanReceived(u, l)
  <2>1. /\ ~Busy
        /\ ~Shown(Users) \/ (~Shown(Users \ {u}) /\ \E l \in Ids, q \in Quantity : EditReceived(u, l, q))
    <3>1. ASSUME NEW l \in Ids, NEW q \in Quantity, EditFulfilled(u, l, q) \/ EditReceived(u, l, q)
          PROVE  /\ ~Busy
                 /\ ~Shown(Users) \/ (EditReceived(u, l, q) /\ ~Shown(Users \ {u}))
      BY <3>1, EditNoted
    <3>2. ASSUME NEW l \in Ids, ScanReceived(u, l) PROVE ~Busy /\ ~Shown(Users)
      BY <3>2, EditNoted
    <3> QED
      BY <1>2, <3>1, <3>2
  <2>2. ~user'[u].loaded
    <3>1. CASE ~Shown(Users)
      <4>1. ~user[u].loaded /\ (UNCHANGED user \/ user' = [user EXCEPT ![u].loaded = FALSE])
        BY <1>2, <3>1 DEF EditFulfilled, EditReceived, ScanReceived, Shown
      <4> QED
        BY <1>0, <4>1 DEF User
    <3>2. CASE \E l \in Ids, q \in Quantity : EditReceived(u, l, q)
      BY <1>0, <3>2 DEF EditReceived, User
    <3> QED
      BY <2>1, <3>1, <3>2
  <2>3. UNCHANGED report /\ user'[u].pc = "idle"
    <3>1. /\ UNCHANGED report /\ user[u].pc = "idle"
          /\ UNCHANGED user \/ user' = [user EXCEPT ![u].loaded = FALSE]
      BY <1>2 DEF EditFulfilled, EditReceived, ScanReceived, Calling
    <3> QED
      BY <1>0, <3>1 DEF User
  <2>4. ~Shown(Users \ {u})
    BY <2>1 DEF Shown
  <2>5. \A v \in Users : v # u => ~user'[v].loaded /\ user'[v].pc # "count"
    BY <1>1, <2>1, <2>4 DEF Shown, Busy, OnlyCalls, Calling
  <2> QED
    BY <2>2, <2>3, <2>4, <2>5 DEF Unseen, Shown
<1>3. CASE ExecuteFulfillAll(u) \/ FlagFulfilled(u)
  <2>1. ~Shown(Users) /\ UNCHANGED report /\ Calling(u)
    BY <1>3, StaleNoted DEF ExecuteFulfillAll, FlagFulfilled, Calling
  <2>2. ~user'[u].loaded /\ user'[u].pc = "idle"
    <3>1. CASE Return(u)
      BY <2>1, <3>1, Returned DEF Shown
    <3>2. CASE Leave(u)
      <4>1. user'[u] = IdleUser
        BY <3>2, Left
      <4> QED
        BY <4>1 DEF IdleUser
    <3> QED
      BY <1>3, <3>1, <3>2 DEF ExecuteFulfillAll, FlagFulfilled
  <2>3. \A v \in Users : v # u => ~user'[v].loaded /\ user'[v].pc # "count"
    BY <1>1, <2>1 DEF Shown, OneActor, OnlyCalls, Calling
  <2> QED
    BY <2>1, <2>2, <2>3 DEF Unseen, Shown
<1> QED
  BY <1>1, <1>2, <1>3 DEF EditsLines

LEMMA AddsUnseen ==
  ASSUME TypeInv, [Next]_vars, OneActor, NEW u \in Users, AddStep(u), ~UNCHANGED line, ~LinkAdded(u),
         ~mixed'.partial
  PROVE  Unseen'
<1>1. SaveLine(u) \/ \E q \in Quantity : CreateLine(u, q)
  BY AddKeepsLines
<1>2. ~Shown(Users) /\ Calling(u)
  BY <1>1, StaleNoted DEF SaveLine, CreateLine, Calling
<1>3. OnlyCalls(u)
  BY LinesNext, AddCalls
<1>4. ~user'[u].loaded /\ user'[u].pc # "count" /\ UNCHANGED report
  BY <1>2, AddShows DEF Shown
<1>5. \A v \in Users : v # u => ~user'[v].loaded /\ user'[v].pc # "count"
  BY <1>2, <1>3 DEF Shown, OneActor, OnlyCalls, Calling
<1> QED
  BY <1>2, <1>4, <1>5 DEF Unseen, Shown

LEMMA FilesEditUnseen ==
  ASSUME TypeInv, [Next]_vars, OneActor, NEW m \in Imports, CreateStep(m) \/ FulfilStep(m),
         ~UNCHANGED line, ~LinkRow(m), ~mixed'.partial, ~GivenByFile("COMPLETE")'
  PROVE  Unseen'
<1>0. UNCHANGED user
  BY WorkerFrame
<1>1. CASE InsertLines(m) \/ InsertLinesFails(m)
  <2>1. report.state = "" /\ UNCHANGED report
    BY <1>1 DEF TypeInv, NewOrder, InsertLines, InsertLinesFails
  <2>2. ~report.receiving /\ \A v \in Users : user[v] = IdleUser
    BY <2>1 DEF TypeInv, NewOrder
  <2>3. ~IdleUser.loaded /\ IdleUser.pc = "idle"
    BY DEF IdleUser
  <2>4. \A v \in Users : ~user'[v].loaded /\ user'[v].pc # "count"
    BY <1>0, <2>2, <2>3
  <2> QED
    BY <2>1, <2>2, <2>4 DEF Unseen, Shown
<1>2. CASE PushOrder(m)
  <2>1. report.state = "" /\ report' = [report EXCEPT !.state = import[m].file.orderStatus, !.consignment = "open"]
    BY <1>2 DEF TypeInv, NewOrder, PushOrder
  <2>2. ~report.receiving /\ \A v \in Users : user[v] = IdleUser
    BY <2>1 DEF TypeInv, NewOrder
  <2>3. import'[m].pc = "status" /\ import'[m].file = import[m].file
    BY <1>2, Went DEF PushOrder, Works
  <2>4. ~report'.receiving /\ report'.state # "COMPLETE"
    BY <2>1, <2>2, <2>3, ReportType DEF Report, GivenByFile
  <2> QED
    BY <1>0, <2>2, <2>4 DEF Unseen, Shown, IdleUser
<1>3. CASE ExecuteBatch(m) \/ ExecuteSome(m)
  <2>1. ~Shown(Users) /\ Running(m) /\ UNCHANGED report
    BY <1>3, BatchNoted, StaleNoted DEF ExecuteBatch, ExecuteSome, Running
  <2>2. \A v \in Users : user[v].pc # "count"
    BY <2>1 DEF OneActor, Calling
  <2> QED
    BY <1>0, <2>1, <2>2 DEF Unseen, Shown
<1> QED
  BY <1>1, <1>2, <1>3, ImportKeepsLines

\* A worker gives the order a state that a file asks for, or the one of a failure.
LEMMA WorkShows ==
  ASSUME TypeInv, NEW m \in Imports, CreateStep(m) \/ FulfilStep(m), ~GivenByFile("COMPLETE")'
  PROVE  /\ report'.discrepancies = report.discrepancies /\ report'.receiving = report.receiving
         /\ report'.state = "COMPLETE" => report.state = "COMPLETE"
<1>0. report \in Report
  BY ReportType
<1>1. ASSUME NEW st, SetState(st), st # "COMPLETE"
      PROVE  /\ report'.discrepancies = report.discrepancies /\ report'.receiving = report.receiving
             /\ report'.state # "COMPLETE"
  BY <1>0, <1>1 DEF SetState, Report
<1>2. CASE CreateOrder(m) \/ PushOrderFails(m)
  BY <1>1, <1>2 DEF CreateOrder, PushOrderFails
<1>3. CASE PushOrder(m) \/ SetOrderStatus(m)
  <2>1. import'[m].pc # "free" /\ import'[m].file = import[m].file
    BY <1>3, FileStays DEF CreateStep, PushOrder, SetOrderStatus
  <2>2. import[m].file.orderStatus # "COMPLETE"
    BY <2>1 DEF GivenByFile
  <2>3. CASE PushOrder(m)
    BY <1>0, <2>2, <2>3 DEF PushOrder, Report
  <2>4. CASE SetOrderStatus(m)
    BY <1>1, <2>2, <2>4 DEF SetOrderStatus
  <2> QED
    BY <1>3, <2>3, <2>4
<1>4. CASE UNCHANGED report
  BY <1>4
<1> QED
  BY <1>2, <1>3, <1>4, FulfilReports
     DEF CreateStep, UploadFile, MapRows, InsertLines, InsertLinesFails

\* A receipt completes an order that was submitted.
LEMMA ReceiptShows ==
  ASSUME TypeInv, ReceiveConsignment \/ ReceiptFails
  PROVE  /\ UNCHANGED <<line, user>> /\ Shown(Users)
         /\ report'.discrepancies = report.discrepancies
<1>1. report \in Report
  BY ReportType
<1>2. ASSUME NEW st, Received(st) PROVE report'.discrepancies = report.discrepancies
  BY <1>1, <1>2 DEF Received, Report
<1> QED
  BY <1>2 DEF ReceiveConsignment, ReceiptFails, Shown

\* What a session shows while the line items, but for their links, stay what they are.
LEMMA SessionCounts ==
  ASSUME TypeInv, [Next]_vars, Counted, NEW u \in Users, OnlyCalls(u), ShowsAfter(u),
         ~mixed'.partial, Discrepancies' = Discrepancies
  PROVE  Counted'
<1>0. user \in [Users -> User] /\ user[u] \in User /\ report \in Report
  BY UsersType, UserType, ReportType
<1>1. ASSUME NEW v \in Users, user'[v].pc = "count" PROVE user'[v].count = Discrepancies
  BY <1>1 DEF OnlyCalls, ShowsAfter, Counted
<1>2. CASE SaveDiscrepancies(u)
  <2>1. user[u].pc = "count" /\ user[u].count = Discrepancies
    BY <1>2 DEF SaveDiscrepancies, Counted
  <2>2. report'.discrepancies = Discrepancies
    <3>1. CASE report.state = "COMPLETE"
      BY <1>2, <3>1 DEF SaveDiscrepancies, Counted, Shown
    <3>2. CASE report.state # "COMPLETE"
      BY <1>0, <1>2, <2>1, <3>2 DEF SaveDiscrepancies, Report
    <3> QED
      BY <3>1, <3>2
  <2> QED
    BY <1>1, <2>2 DEF Counted
<1>3. CASE ~SaveDiscrepancies(u)
  <2>1. Shown(Users)' => Shown(Users)
    BY <1>3 DEF Shown, OnlyCalls, ShowsAfter
  <2>2. report'.discrepancies = report.discrepancies
    BY <1>3 DEF ShowsAfter
  <2> QED
    BY <1>1, <2>1, <2>2 DEF Counted
<1> QED
  BY <1>2, <1>3

LEMMA CountNext == TypeInv /\ ProductInv /\ CountInv /\ [Next]_vars => CountInv'
<1> SUFFICES ASSUME TypeInv, ProductInv, CountInv, [Next]_vars,
                    ~mixed'.overlap, ~mixed'.partial, ~GivenByFile("COMPLETE")'
             PROVE  Counted'
  BY DEF CountInv
<1>1. ~mixed.overlap /\ ~mixed.partial
  BY HistoryNext DEF Remembers
<1>2. ~GivenByFile("COMPLETE")
  <2>1. \A m \in Imports : import[m].pc # "free" => import'[m].pc # "free" /\ import'[m].file = import[m].file
    BY OneMoves, FileStays DEF OnlyWorks
  <2> QED
    BY <2>1 DEF GivenByFile
<1>3. OneActor /\ Counted
  BY <1>1, <1>2 DEF ProductInv, CountInv
<1>4. Unseen' => Counted'
  BY DEF Unseen, Counted
<1>5. UNCHANGED line => Discrepancies' = Discrepancies
  BY LinksKeepDiscrepancies
<1>6. ASSUME NEW u \in Users, PageStep(u) PROVE Counted'
  <2>1. CASE UNCHANGED line
    <3>1. OnlyCalls(u)
      BY <1>6, LinesNext, PageCalls
    <3> QED
      BY <1>3, <1>5, <1>6, <2>1, <3>1, PageShows, SessionCounts
  <2>2. CASE ~UNCHANGED line
    BY <1>3, <1>4, <1>6, <2>2, PagesEditUnseen
  <2> QED
    BY <2>1, <2>2
<1>7. ASSUME NEW u \in Users, AddStep(u) PROVE Counted'
  <2>1. CASE UNCHANGED line \/ LinkAdded(u)
    <3>1. OnlyCalls(u)
      BY <1>7, LinesNext, AddCalls
    <3>2. Discrepancies' = Discrepancies
      BY <2>1, LinksKeepDiscrepancies
    <3>3. ShowsAfter(u)
      BY <1>7, AddShows DEF ShowsAfter, Shown
    <3> QED
      BY <1>3, <3>1, <3>2, <3>3, SessionCounts
  <2>2. CASE ~UNCHANGED line /\ ~LinkAdded(u)
    BY <1>3, <1>4, <1>7, <2>2, AddsUnseen
  <2> QED
    BY <2>1, <2>2
<1>8. ASSUME NEW m \in Imports, CreateStep(m) \/ FulfilStep(m) PROVE Counted'
  <2>1. CASE UNCHANGED line \/ LinkRow(m)
    <3>1. Discrepancies' = Discrepancies
      BY <2>1, LinksKeepDiscrepancies
    <3>2. UNCHANGED user
      BY <1>8, WorkerFrame
    <3>3. /\ report'.discrepancies = report.discrepancies /\ report'.receiving = report.receiving
          /\ report'.state = "COMPLETE" => report.state = "COMPLETE"
      BY <1>8, WorkShows
    <3> QED
      BY <1>3, <3>1, <3>2, <3>3 DEF Counted, Shown
  <2>2. CASE ~UNCHANGED line /\ ~LinkRow(m)
    BY <1>3, <1>4, <1>8, <2>2, FilesEditUnseen
  <2> QED
    BY <2>1, <2>2
<1>9. ASSUME ReceiveConsignment \/ ReceiptFails PROVE Counted'
  BY <1>3, <1>5, <1>9, ReceiptShows DEF Counted
<1>10. CASE UNCHANGED vars
  BY <1>3, <1>5, <1>10 DEF vars, Counted, Shown
<1> QED
  BY <1>6, <1>7, <1>8, <1>9, <1>10 DEF Next

LEMMA CountInit == Init => CountInv
<1> SUFFICES ASSUME Init PROVE Counted
  BY DEF CountInv
<1>1. ~IdleUser.loaded /\ IdleUser.pc = "idle"
  BY DEF IdleUser
<1>2. \A u \in Users : ~user[u].loaded /\ user[u].pc # "count"
  BY <1>1 DEF Init
<1>3. ~report.receiving /\ report.state # "COMPLETE"
  <2>1. CASE Absent
    BY <2>1 DEF Absent
  <2>2. ASSUME NEW approved, Sent(approved) PROVE ~report.receiving /\ report.state # "COMPLETE"
    BY <2>2 DEF Sent
  <2> QED
    BY <2>1, <2>2 DEF Init
<1> QED
  BY <1>2, <1>3 DEF Counted, Shown

\* An order that is complete shows as many discrepancies as its line items have: the page
\* submits what it has loaded, and who edits a line item makes it load the number again.
\* Except when calls overlap, when a filter, a scan, or a change by somebody else came
\* between, or when a file asked for the state.
THEOREM CompleteOrdersShowDiscrepancies == Spec => []CompleteOrderShowsDiscrepancies
<1>1. CountInv => CompleteOrderShowsDiscrepancies
  BY DEF CountInv, Counted, Shown, CompleteOrderShowsDiscrepancies
<1> QED
  BY <1>1, TypeInit, TypeNext, ProductInit, ProductNext, CountInit, CountNext, PTL DEF Spec

-----------------------------------------------------------------------------
(* The delivery: what is fulfilled is in Vend *)

\* A call or a worker is about to push the line item, or to save its link.
Covered(l) ==
  \/ \E u \in Users : user[u].pc \in {"push", "link"} /\ user[u].id = l /\ ~user[u].found.linked
  \/ \E m \in Imports : import[m].pc = "select" /\ line[l].fulfilled = "true"
  \/ \E m \in Imports : import[m].pc \in {"push", "link"} /\ l \in import[m].todo

\* A worker that is about to select the fulfilled line items still finds this one.
StaysSelected(l) ==
  (\E m \in Imports : import[m].pc = "select") /\ line[l].fulfilled = "true" => line'[l].fulfilled = "true"

LEMMA NoFault ==
  ASSUME TypeInv, faults' = 0
  PROVE  ~Fault
BY HistoryType DEF Fault

LEMMA SessionsPush ==
  ASSUME TypeInv, [Next]_vars, IsSent, faults' = 0, NEW l \in Ids, NEW u \in Users,
         user[u].pc \in {"push", "link"}, user[u].id = l, ~user[u].found.linked
  PROVE  line'[l].linked \/ Covered(l)'
<1>0. ~Fault /\ ~Rejects /\ line[l] \in Line /\ line \in [Ids -> Line]
  BY NoFault, LineAt DEF IsSent, Rejects
<1>1. ASSUME user'[u].pc \in {"push", "link"}, user'[u].id = user[u].id, user'[u].found = user[u].found
      PROVE  Covered(l)'
  BY <1>1 DEF Covered
<1>2. CASE AddStep(u)
  <2>1. PushAdded(u) \/ LinkAdded(u)
    BY <1>0, <1>2 DEF AddStep, AddProduct, FindNoLine, FindRefused, FindLeftOut, CreateLine, SaveLine,
                      PushRejected, PushUnanswered, Calling
  <2>2. CASE PushAdded(u)
    BY <1>1, <2>2, Called DEF PushAdded, Calls
  <2>3. CASE LinkAdded(u)
    BY <1>0, <2>3 DEF LinkAdded, Link, Line
  <2> QED
    BY <2>1, <2>2, <2>3
<1>3. CASE PageStep(u)
  <2>1. PutOpenedState(u)
    BY <1>0, <1>3
       DEF PageStep, OpenPage, EditFulfilled, EditReceived, ScanReceived, FulfillAll,
           ExecuteFulfillAll, SendDelivery, WriteReceivingPending, FlagFulfilled,
           LoadDiscrepancies, SaveDiscrepancies, SubmitReceivals, DeleteInVend, SetDeleted,
           CallFails, Calling
  <2> QED
    BY <1>1, <2>1, UsersType, UserType DEF PutOpenedState, User
<1>4. CASE user'[u] = user[u]
  BY <1>1, <1>4
<1> QED
  BY <1>2, <1>3, <1>4, OneMoves DEF OnlyCalls

LEMMA WorkersSelect ==
  ASSUME TypeInv, [Next]_vars, faults' = 0, NEW l \in Ids, NEW m \in Imports,
         import[m].pc = "select", line[l].fulfilled = "true", StaysSelected(l)
  PROVE  line'[l].linked \/ Covered(l)'
<1>0. /\ ~Fault /\ line[l] \in Line /\ import \in [Imports -> Import] /\ import[m] \in Import
  BY NoFault, LineAt, ImportsType, ImportType
<1>1. CASE import'[m] = import[m]
  BY <1>1 DEF Covered, StaysSelected
<1>2. CASE CreateStep(m) \/ FulfilStep(m)
  <2>1. SelectUnpushed(m)
    BY <1>0, <1>2 DEF CreateStep, UploadFile, MapRows, CreateOrder, InsertLines, InsertLinesFails,
                      PushOrder, PushOrderFails, SetOrderStatus, FulfilStep, FindReports, FindRow,
                      ExecuteBatch, ExecuteSome, PushRow, LinkRow, RowsPushed, RowRejected,
                      PushRowUnanswered, ImportFails
  <2> DEFINE todo == {k \in Ids : line[k].fulfilled = "true" /\ ~line[k].linked}
  <2>2. line' = line /\ import' = [import EXCEPT ![m].pc = "push", ![m].todo = todo]
    BY <2>1 DEF SelectUnpushed
  <2>3. line[l].linked \/ l \in todo
    OBVIOUS
  <2> HIDE DEF todo
  <2>4. import'[m].pc = "push" /\ import'[m].todo = todo
    BY <1>0, <2>2 DEF Import
  <2> QED
    BY <2>2, <2>3, <2>4 DEF Covered
<1> QED
  BY <1>1, <1>2, OneMoves DEF OnlyWorks

LEMMA WorkersPush ==
  ASSUME TypeInv, [Next]_vars, IsSent, faults' = 0, NEW l \in Ids, NEW m \in Imports,
         import[m].pc \in {"push", "link"}, l \in import[m].todo
  PROVE  line'[l].linked \/ Covered(l)'
<1>0. /\ ~Fault /\ ~Rejects /\ line[l] \in Line /\ line \in [Ids -> Line]
      /\ import \in [Imports -> Import] /\ import[m] \in Import
  BY NoFault, LineAt, ImportsType, ImportType DEF IsSent, Rejects
<1>1. ASSUME import'[m].pc \in {"push", "link"}, l \in import'[m].todo PROVE Covered(l)'
  BY <1>1 DEF Covered
<1>2. CASE CreateStep(m) \/ FulfilStep(m)
  <2>1. PushRow(m) \/ LinkRow(m)
    BY <1>0, <1>2 DEF CreateStep, UploadFile, MapRows, CreateOrder, InsertLines, InsertLinesFails,
                      PushOrder, PushOrderFails, SetOrderStatus, FulfilStep, FindReports, FindRow,
                      ExecuteBatch, ExecuteSome, SelectUnpushed, RowsPushed, RowRejected,
                      PushRowUnanswered, ImportFails
  <2>2. CASE PushRow(m)
    BY <1>1, <2>2, Went DEF PushRow, Works
  <2>3. CASE LinkRow(m)
    <3> DEFINE rest == import[m].todo \ {First(import[m].todo)}
    <3>1. import'[m].pc = "push" /\ import'[m].todo = rest
      BY <1>0, <2>3 DEF LinkRow, Import
    <3>2. CASE l = First(import[m].todo)
      BY <1>0, <2>3, <3>2 DEF LinkRow, Link, Line
    <3>3. CASE l # First(import[m].todo)
      BY <1>1, <3>1, <3>3
    <3> QED
      BY <3>2, <3>3
  <2> QED
    BY <2>1, <2>2, <2>3
<1>3. CASE import'[m] = import[m]
  BY <1>1, <1>3
<1> QED
  BY <1>2, <1>3, OneMoves DEF OnlyWorks

\* A line item stays linked, but for a call that saves what it read before: it goes on to
\* push it again.
LEMMA LinkedOrPushed ==
  ASSUME TypeInv, [Next]_vars, IsSent, NEW l \in Ids, line[l].linked
  PROVE  line'[l].linked \/ Covered(l)'
<1>0. line \in [Ids -> Line] /\ line[l] \in Line /\ report.state # ""
  BY LineAt DEF IsSent, TypeInv, NewOrder
<1>1. CASE UNCHANGED line
  BY <1>1
<1>2. ASSUME NEW u \in Users, PageStep(u) PROVE line'[l].linked
  BY <1>1, <1>2, PageKeepsLines, EditsKeepLinks
<1>3. ASSUME NEW u \in Users, AddStep(u) PROVE line'[l].linked \/ Covered(l)'
  <2>1. CASE LinkAdded(u)
    <3>1. user[u].id \in Ids
      BY <2>1, UserType DEF LinkAdded, CallHasRead
    <3> QED
      BY <1>0, <2>1, <3>1, LineAt DEF LinkAdded, Link, Line
  <2>2. ASSUME NEW q \in Quantity, CreateLine(u, q) PROVE line'[l].linked
    BY <2>2, CreateAddsLine
  <2>3. CASE SaveLine(u)
    <3>1. user[u].id \in Ids
      BY <2>3, UserType DEF SaveLine, CallHasRead
    <3>2. CASE l # user[u].id
      BY <1>0, <2>3, <3>2 DEF SaveLine
    <3>3. CASE l = user[u].id /\ user[u].found.linked
      BY <1>0, <2>3, <3>3 DEF SaveLine
    <3>4. CASE l = user[u].id /\ ~user[u].found.linked
      <4>1. user'[u].pc = "push" /\ user'[u].id = l /\ user'[u].found = user[u].found
        BY <2>3, <3>4, Called DEF SaveLine, Calls
      <4> QED
        BY <3>4, <4>1 DEF Covered
    <3> QED
      BY <3>2, <3>3, <3>4
  <2> QED
    BY <1>1, <1>3, <2>1, <2>2, <2>3, AddKeepsLines
<1>4. ASSUME NEW m \in Imports, CreateStep(m) \/ FulfilStep(m) PROVE line'[l].linked
  <2>1. ~InsertLines(m) /\ ~InsertLinesFails(m) /\ ~PushOrder(m)
    BY <1>0 DEF InsertLines, InsertLinesFails, PushOrder, TypeInv, NewOrder
  <2>2. CASE LinkRow(m)
    <3>1. First(import[m].todo) \in Ids
      BY <2>2, ImportType, TodoType DEF LinkRow, WorkerHasFound
    <3> QED
      BY <1>0, <2>2, <3>1, LineAt DEF LinkRow, Link, Line
  <2> QED
    BY <1>1, <1>4, <2>1, <2>2, ImportKeepsLines, BatchKeepsLinks
<1> QED
  BY <1>1, <1>2, <1>3, <1>4 DEF Next, vars, ReceiveConsignment, ReceiptFails

LEMMA PushedStays ==
  ASSUME TypeInv, [Next]_vars, IsSent, faults' = 0, NEW l \in Ids, StaysSelected(l),
         line[l].linked \/ Covered(l)
  PROVE  line'[l].linked \/ Covered(l)'
BY LinkedOrPushed, SessionsPush, WorkersSelect, WorkersPush DEF Covered

\* While no line item was left unpushed and no call failed.
Quiet == ~mixed.unpushed /\ faults = 0

\* The states and pages in which a fulfilled quantity becomes a fulfilled line item.
Fulfils(st) == st \in {"FULFILMENT_PENDING", "FULFILMENT_IN_PROCESS"}
MayFulfil == \/ Fulfils(report.state)
             \/ \E u \in Users : user[u].page = "fulfill"
             \/ \E m \in Imports : import[m].pc = "status" /\ Fulfils(import[m].file.orderStatus)

\* A call of the fulfil page has its session stay there until it returns, and a PUT that
\* is on its way has a page.
PagesAgree == \A u \in Users : /\ user[u].pc \in {"all", "send", "flag"} => user[u].page = "fulfill"
                               /\ user[u].opening => user[u].page # "none"

\* A line item that addProductToStockOrder will not push is noted before it is created.
AdditionsNoted == \A u \in Users : user[u].pc = "create" /\ user[u].state \notin Pushing => mixed.unpushed

QuantityIsInDelivery == Quiet /\ IsSent /\ MayFulfil => \A l \in Ids : line[l].fulfilledQuantity > 0 => InDelivery(l)

\* What the line item was in the delivery before the step, or somebody is to push it.
Joins(l) == InDelivery(l)' => \/ l \in Ids /\ InDelivery(l) /\ StaysSelected(l)
                              \/ line'[l].linked \/ Covered(l)'

\* A line item that stays out of the delivery gets no quantities.
StaysOut(l) == \/ InDelivery(l)'
               \/ /\ l \in Ids /\ line'[l].fulfilledQuantity <= line[l].fulfilledQuantity
                  /\ line'[l].receivedQuantity = line[l].receivedQuantity

LEMMA SameFlags ==
  ASSUME NEW l \in Ids, line'[l].approved = line[l].approved, line'[l].fulfilled = line[l].fulfilled
  PROVE  Joins(l)
BY DEF Joins, InDelivery, StaysSelected

LEMMA PageJoins ==
  ASSUME TypeInv, PagesAgree, QuantityIsInDelivery, Quiet', Quiet, IsSent,
         NEW u \in Users, PageStep(u), NEW l \in Ids'
  PROVE  Joins(l)
<1>0. line \in [Ids -> Line] /\ \A k \in Ids : line[k] \in Line
  BY LineAt
<1>1. Ids' = Ids
  BY PageKeepsLines, PageEditsLines DEF EditsLines, Ids
<1>2. ASSUME NEW k \in Ids, NEW q \in Quantity, EditFulfilled(u, k, q) PROVE Joins(l)
  <2>1. CASE l # k
    <3>1. line'[l] = line[l]
      BY <1>0, <1>1, <1>2, <2>1 DEF EditFulfilled
    <3> QED
      BY <1>1, <3>1, SameFlags
  <2>2. CASE l = k
    <3>1. InDelivery(l)
      BY <1>2, <2>2 DEF EditFulfilled, InDelivery
    <3>2. CASE q = 0
      <4>1. \A m \in Imports : import[m].pc # "select"
        BY <1>2, <3>2, EditNoted DEF Quiet
      <4> QED
        BY <1>1, <3>1, <4>1 DEF Joins, StaysSelected
    <3>3. CASE q # 0
      <4>1. q > 0
        BY <3>3, LinesAssumption DEF Quantity
      <4>2. line'[l].fulfilled = "true"
        BY <1>0, <1>2, <2>2, <4>1 DEF EditFulfilled, Line
      <4> QED
        BY <1>1, <3>1, <4>2 DEF Joins, StaysSelected
    <3> QED
      BY <3>2, <3>3
  <2> QED
    BY <2>1, <2>2
<1>3. ASSUME NEW k \in Ids, NEW q \in Quantity, EditReceived(u, k, q) PROVE Joins(l)
  <2>1. line'[l].approved = line[l].approved /\ line'[l].fulfilled = line[l].fulfilled
    BY <1>0, <1>1, <1>3 DEF EditReceived, Line
  <2> QED
    BY <1>1, <2>1, SameFlags
<1>4. ASSUME NEW k \in Ids, ScanReceived(u, k) PROVE Joins(l)
  <2>1. line'[l].approved = line[l].approved /\ line'[l].fulfilled = line[l].fulfilled
    BY <1>0, <1>1, <1>4 DEF ScanReceived, Line
  <2> QED
    BY <1>1, <2>1, SameFlags
<1>5. CASE ExecuteFulfillAll(u)
  <2>1. CASE l \in user[u].all
    <3>1. InDelivery(l)
      BY <1>5, <2>1, UserType DEF ExecuteFulfillAll, CallHasRead
    <3>2. line'[l].fulfilled = "true"
      BY <1>0, <1>1, <1>5, <2>1 DEF ExecuteFulfillAll, Line
    <3> QED
      BY <1>1, <3>1, <3>2 DEF Joins, StaysSelected
  <2>2. CASE l \notin user[u].all
    <3>1. line'[l] = line[l]
      BY <1>1, <1>5, <2>2 DEF ExecuteFulfillAll
    <3> QED
      BY <1>1, <3>1, SameFlags
  <2> QED
    BY <2>1, <2>2
<1>6. CASE FlagFulfilled(u)
  <2>1. CASE line[l].fulfilledQuantity > 0
    <3>1. user[u].page = "fulfill"
      BY <1>6 DEF FlagFulfilled, PagesAgree
    <3>2. InDelivery(l)
      BY <1>1, <2>1, <3>1 DEF QuantityIsInDelivery, MayFulfil
    <3>3. line'[l].fulfilled = "true"
      BY <1>0, <1>1, <1>6, <2>1 DEF FlagFulfilled, Line
    <3> QED
      BY <1>1, <3>2, <3>3 DEF Joins, StaysSelected
  <2>2. CASE ~(line[l].fulfilledQuantity > 0)
    <3>1. line'[l] = line[l]
      BY <1>1, <1>6, <2>2 DEF FlagFulfilled
    <3> QED
      BY <1>1, <3>1, SameFlags
  <2> QED
    BY <2>1, <2>2
<1>7. CASE UNCHANGED line
  BY <1>1, <1>7, SameFlags
<1> QED
  BY <1>2, <1>3, <1>4, <1>5, <1>6, <1>7, PageKeepsLines DEF EditsLines

LEMMA AddedInDelivery ==
  ASSUME TypeInv, NEW u \in Users, NEW q
  PROVE  AddedLine(u, q).approved = "true" \/ AddedLine(u, q).fulfilled = "true" <=> user[u].state \in Pushing
<1> DEFINE approved == IF user[u].state = "FULFILMENT_IN_PROCESS" THEN "true" ELSE "null"
           fulfilled == IF user[u].state = "RECEIVING_IN_PROCESS" THEN "true" ELSE "null"
<1>1. approved = "true" \/ fulfilled = "true" <=> user[u].state \in Pushing
  BY DEF Pushing
<1>2. AddedLine(u, q).approved = approved /\ AddedLine(u, q).fulfilled = fulfilled
  BY DEF AddedLine, NewLine
<1> QED
  BY <1>1, <1>2

LEMMA AddJoins ==
  ASSUME TypeInv, NEW u \in Users, AddStep(u), NEW l \in Ids'
  PROVE  Joins(l)
<1>0. line \in [Ids -> Line] /\ \A k \in Ids : line[k] \in Line
  BY LineAt
<1>1. CASE UNCHANGED line
  BY <1>1, SameFlags DEF Ids
<1>2. CASE LinkAdded(u)
  <2>1. l \in Ids /\ user[u].id \in Ids
    BY <1>2, AddEditsLines, UserType DEF LinkAdded, CallHasRead
  <2>2. line'[l].approved = line[l].approved /\ line'[l].fulfilled = line[l].fulfilled
    BY <1>0, <1>2, <2>1 DEF LinkAdded, Link, Line
  <2> QED
    BY <2>1, <2>2, SameFlags
<1>3. CASE SaveLine(u)
  <2>1. l \in Ids /\ user[u].id \in Ids
    BY <1>3, AddEditsLines, UserType DEF SaveLine, CallHasRead
  <2>2. CASE l # user[u].id
    <3>1. line'[l] = line[l]
      BY <1>0, <1>3, <2>1, <2>2 DEF SaveLine
    <3> QED
      BY <2>1, <3>1, SameFlags
  <2>3. CASE l = user[u].id /\ user[u].found.linked
    BY <1>0, <1>3, <2>1, <2>3 DEF SaveLine, Joins
  <2>4. CASE l = user[u].id /\ ~user[u].found.linked
    <3>1. user'[u].pc = "push" /\ user'[u].id = l /\ user'[u].found = user[u].found
      BY <1>3, <2>4, Called DEF SaveLine, Calls
    <3> QED
      BY <2>4, <3>1 DEF Covered, Joins
  <2> QED
    BY <2>2, <2>3, <2>4
<1>4. ASSUME NEW q \in Quantity, CreateLine(u, q) PROVE Joins(l)
  <2>1. CASE l \in Ids
    BY <1>4, <2>1, CreateAddsLine, SameFlags
  <2>2. CASE l \notin Ids
    <3>1. l = Len(line) + 1 /\ line'[l] = AddedLine(u, q)
      BY <1>4, <2>2, CreateAddsLine
    <3>2. CASE user[u].state \notin Pushing
      <4>1. ~InDelivery(l)'
        BY <3>1, <3>2, AddedInDelivery DEF InDelivery
      <4> QED
        BY <4>1 DEF Joins
    <3>3. CASE user[u].state \in Pushing
      <4> DEFINE x == AddedLine(u, q)
      <4>1. ~x.linked /\ user' = [user EXCEPT ![u].pc = "push", ![u].id = Len(line) + 1, ![u].found = x]
        BY <1>4, <3>3, AddedLineType DEF CreateLine
      <4> HIDE DEF x
      <4>2. user'[u].pc = "push" /\ user'[u].id = l /\ ~user'[u].found.linked
        BY <3>1, <4>1, UsersType, UserType DEF User
      <4> QED
        BY <4>2 DEF Covered, Joins
    <3> QED
      BY <3>2, <3>3
  <2> QED
    BY <2>1, <2>2
<1> QED
  BY <1>1, <1>2, <1>3, <1>4, AddKeepsLines

\* What a batch has read of its rows: a row that has no line item makes the worker push.
LEMMA RowsRead ==
  ASSUME TypeInv, NEW m \in Imports, import[m].pc = "write", NEW r \in Rows(m)
  PROVE  /\ r \in import[m].new => import[m].toVend
         /\ r \notin import[m].new => import[m].toVend \/ InDelivery(First(LinesOf(r.product)))
BY ImportType DEF WorkerHasFound

LEMMA BatchSelects ==
  ASSUME TypeInv, NEW m \in Imports, ExecuteBatch(m), import[m].toVend, NEW l, line'[l].fulfilled = "true"
  PROVE  Covered(l)'
<1>1. import'[m].pc = "select"
  BY Went DEF ExecuteBatch, Works
<1> QED
  BY <1>1 DEF Covered

LEMMA BatchJoins ==
  ASSUME TypeInv, NEW m \in Imports, ExecuteBatch(m), Quiet', NEW l \in Ids'
  PROVE  Joins(l)
<1>0. /\ line \in [Ids -> Line] /\ \A k \in Ids : line[k] \in Line
      /\ import[m].pc = "write" /\ Rows(m) \ import[m].new \in FoundRows(m)
      /\ import[m].new \in SUBSET import[m].new /\ import[m].new \subseteq Rows(m)
      /\ Ids = 1 .. Len(line) /\ Len(line) \in Nat
  BY LineAt, ImportType DEF ExecuteBatch, FoundRows, WorkerHasFound
<1>1. BatchOf(m, Rows(m) \ import[m].new, import[m].new, TRUE)
  BY AllIsBatch
<1>2. \A r \in Rows(m) : ~JoinsUnpushed(m, r)
  BY BatchNoted DEF Quiet
<1>3. CASE l \in Ids
  <2>0. BatchUpdates(Rows(m) \ import[m].new, TRUE)
    BY <1>0, <1>1, BatchEditsLines
  <2>1. PICK last \in LastRows(Rows(m) \ import[m].new) :
          \A k \in Ids : line'[k] = Updated(Rows(m) \ import[m].new, last, TRUE)[k]
    BY <2>0 DEF BatchUpdates
  <2> DEFINE r == last[line[l].product]
  <2>2. \/ /\ GetsRow(l, Rows(m) \ import[m].new, last) /\ r \in Row
           /\ line'[l] = FulfilledBy(line[l], r)
        \/ line[l].fulfilled = "null" /\ line'[l] = Cleared(line[l])
        \/ line'[l] = line[l]
    <3> DEFINE old == Rows(m) \ import[m].new
               next == Updated(old, last, TRUE)[l]
    <3>1. old \in FoundRows(m) /\ last \in LastRows(old) /\ line'[l] = next
      BY <1>0, <1>3, <2>1
    <3>2. \/ /\ GetsRow(l, old, last) /\ last[line[l].product] \in Row
             /\ next = FulfilledBy(line[l], last[line[l].product])
          \/ line[l].fulfilled = "null" /\ next = Cleared(line[l])
          \/ next = line[l]
      <4> HIDE DEF old
      <4> QED
        BY <1>0, <1>3, <3>1, UpdatedType
    <3> QED
      BY <3>1, <3>2
  <2>3. CASE line'[l] = line[l]
    BY <1>3, <2>3, SameFlags
  <2>4. CASE line[l].fulfilled = "null" /\ line'[l] = Cleared(line[l])
    <3>1. line'[l].approved = line[l].approved /\ line'[l].fulfilled = "false"
      BY <1>0, <1>3, <2>4 DEF Cleared, Line
    <3> QED
      BY <1>3, <2>4, <3>1 DEF Joins, InDelivery, StaysSelected
  <2>5. CASE GetsRow(l, Rows(m) \ import[m].new, last) /\ r \in Row /\ line'[l] = FulfilledBy(line[l], r)
    <3>1. r \in Rows(m) /\ r \notin import[m].new /\ First(LinesOf(r.product)) = l
      BY <2>5 DEF GetsRow
    <3> HIDE DEF r
    <3>2. import[m].toVend \/ InDelivery(l)
      BY <1>0, <3>1, RowsRead
    <3>3. CASE r.fulfilledQuantity > 0
      <4>1. line'[l].fulfilled = "true"
        BY <1>0, <1>3, <2>5, <3>3, FulfilledByType
      <4> QED
        BY <1>3, <3>2, <4>1, BatchSelects DEF Joins, StaysSelected
    <3>4. CASE r.fulfilledQuantity = 0
      <4>1. line[l].approved = "true" /\ \A n \in Imports : import[n].pc # "select"
        BY <1>2, <3>1, <3>4 DEF JoinsUnpushed
      <4> QED
        BY <1>3, <4>1 DEF Joins, InDelivery, StaysSelected
    <3>5. r.fulfilledQuantity > 0 \/ r.fulfilledQuantity = 0
      BY <2>5, LinesAssumption DEF Row, Quantity
    <3> QED
      BY <3>3, <3>4, <3>5
  <2> QED
    BY <2>2, <2>3, <2>4, <2>5
<1>4. CASE l \notin Ids
  <2>1. PICK order \in InOrder(import[m].new) :
          /\ Ids' = 1 .. Len(line) + Cardinality(import[m].new)
          /\ \A k \in 1 .. Cardinality(import[m].new) :
               /\ order[k] \in import[m].new /\ order[k] \in Row
               /\ line'[Len(line) + k] = InsertedBy(order[k])
    BY <1>0, <1>1, BatchEditsLines
  <2>2. Cardinality(import[m].new) \in Nat
    <3>1. PICK ins \in Inserted(import[m].new) : TRUE
      BY DEF ExecuteBatch
    <3> QED
      BY <1>0, <3>1, InsertedType
  <2>3. PICK k \in 1 .. Cardinality(import[m].new) : l = Len(line) + k
    <3>1. l - Len(line) \in 1 .. Cardinality(import[m].new) /\ l = Len(line) + (l - Len(line))
      BY <1>0, <1>4, <2>1, <2>2
    <3> QED
      BY <3>1
  <2> DEFINE r == order[k]
  <2>4. r \in import[m].new /\ r \in Rows(m) /\ r \in Row /\ line'[l] = InsertedBy(r)
    BY <1>0, <2>1, <2>3
  <2> HIDE DEF r
  <2>5. r.fulfilledQuantity > 0
    <3>1. r.fulfilledQuantity # 0
      BY <1>2, <2>4 DEF JoinsUnpushed
    <3> QED
      BY <2>4, <3>1, LinesAssumption DEF Row, Quantity
  <2>6. line'[l].fulfilled = "true" /\ import[m].toVend
    BY <1>0, <2>4, <2>5, InsertedByType, RowsRead
  <2> QED
    BY <2>6, BatchSelects DEF Joins
<1> QED
  BY <1>3, <1>4

LEMMA FileJoins ==
  ASSUME TypeInv, Quiet', IsSent, NEW m \in Imports, CreateStep(m) \/ FulfilStep(m), NEW l \in Ids'
  PROVE  Joins(l)
<1>0. line \in [Ids -> Line] /\ \A k \in Ids : line[k] \in Line
  BY LineAt
<1>1. ~InsertLines(m) /\ ~InsertLinesFails(m) /\ ~PushOrder(m)
  BY DEF InsertLines, InsertLinesFails, PushOrder, TypeInv, NewOrder, IsSent
<1>2. ~ExecuteSome(m)
  BY NoFault DEF ExecuteSome, Quiet
<1>3. CASE LinkRow(m)
  <2>1. l \in Ids /\ First(import[m].todo) \in Ids
    BY <1>3, ImportEditsLines, ImportType, TodoType DEF LinkRow, WorkerHasFound
  <2>2. line'[l].approved = line[l].approved /\ line'[l].fulfilled = line[l].fulfilled
    BY <1>0, <1>3, <2>1 DEF LinkRow, Link, Line
  <2> QED
    BY <2>1, <2>2, SameFlags
<1>4. CASE UNCHANGED line
  BY <1>4, SameFlags DEF Ids
<1> QED
  BY <1>1, <1>2, <1>3, <1>4, BatchJoins, ImportKeepsLines

\* Where the page of a session comes from.
PageFrom(u) ==
  /\ \/ user'[u].page \in {user[u].page, "none"}
     \/ \E p \in Pages : OpenPage(u, p) /\ user'[u].page = p
  /\ user'[u].pc \in {"all", "send", "flag"} => user'[u].page = "fulfill"
  /\ user'[u].opening => user'[u].page # "none"

LEMMA PageStaysOn ==
  ASSUME TypeInv, PagesAgree, NEW u \in Users, PageStep(u)
  PROVE  PageFrom(u)
<1>0. /\ user \in [Users -> User] /\ user[u] \in User
      /\ IdleUser.pc = "idle" /\ IdleUser.page = "none" /\ ~IdleUser.opening
  BY UsersType, UserType DEF IdleUser
<1>1. CASE PutOpenedState(u)
  <2>1. user'[u].page = user[u].page /\ user'[u].pc = user[u].pc /\ ~user'[u].opening
    BY <1>0, <1>1 DEF PutOpenedState, User
  <2> QED
    BY <2>1 DEF PageFrom, PagesAgree
<1>2. CASE \/ \E l \in Ids, q \in Quantity : EditFulfilled(u, l, q) \/ EditReceived(u, l, q)
           \/ \E l \in Ids : ScanReceived(u, l)
  <2>1. user[u].pc = "idle" /\ (UNCHANGED user \/ user' = [user EXCEPT ![u].loaded = FALSE])
    BY <1>2 DEF EditFulfilled, EditReceived, ScanReceived, Calling
  <2>2. user'[u].page = user[u].page /\ user'[u].pc = "idle" /\ user'[u].opening = user[u].opening
    BY <1>0, <2>1 DEF User
  <2> QED
    BY <2>2 DEF PageFrom, PagesAgree
<1>3. ASSUME NEW p \in Pages, OpenPage(u, p) PROVE PageFrom(u)
  <2> DEFINE x == [IdleUser EXCEPT !.page = p,
                     !.opening = report.state \in {"GENERATED", "FULFILMENT_PENDING", "RECEIVING_PENDING"}]
  <2>1. user' = [user EXCEPT ![u] = x] /\ x.page = p /\ x.pc = "idle"
    BY <1>3 DEF OpenPage, IdleUser
  <2> HIDE DEF x
  <2>2. user'[u].page = p /\ user'[u].pc = "idle"
    BY <1>0, <2>1
  <2> QED
    BY <1>3, <2>2 DEF PageFrom, Pages
<1>4. ASSUME NEW pc \in Calls, Call(u, pc), pc \notin {"all", "send", "flag"} \/ user[u].page = "fulfill"
      PROVE  PageFrom(u)
  BY <1>4, Called DEF PageFrom, PagesAgree
<1>5. CASE Return(u)
  BY <1>5, Returned DEF PageFrom, PagesAgree
<1>6. CASE Leave(u)
  <2>1. user'[u].page = "none" /\ user'[u].pc = "idle" /\ ~user'[u].opening
    BY <1>0, <1>6, Left
  <2> QED
    BY <2>1 DEF PageFrom
<1>7. CASE FulfillAll(u)
  <2> DEFINE all == {l \in Ids : line[l].approved = "true"}
  <2>1. user' = [user EXCEPT ![u].pc = "all", ![u].all = all] /\ user[u].page = "fulfill"
    BY <1>7 DEF FulfillAll
  <2> HIDE DEF all
  <2>2. user'[u].page = "fulfill"
    BY <1>0, <2>1 DEF User
  <2> QED
    BY <2>1, <2>2 DEF PageFrom
<1>8. ASSUME NEW filtered, LoadDiscrepancies(u, filtered) PROVE PageFrom(u)
  <2>1. /\ user'[u].page = user[u].page /\ user'[u].pc \in {"idle", "count"}
        /\ user'[u].opening = user[u].opening
    BY <1>0, <1>8 DEF LoadDiscrepancies, Calling, User
  <2> QED
    BY <2>1 DEF PageFrom, PagesAgree
<1>9. CASE SaveDiscrepancies(u)
  <2> DEFINE x == [IdleUser EXCEPT !.page = user[u].page, !.opening = user[u].opening, !.loaded = TRUE]
  <2>1. user' = [user EXCEPT ![u] = x] /\ x.page = user[u].page /\ x.pc = "idle"
        /\ x.opening = user[u].opening
    BY <1>9 DEF SaveDiscrepancies, IdleUser
  <2> HIDE DEF x
  <2>2. user'[u].page = user[u].page /\ user'[u].pc = "idle" /\ user'[u].opening = user[u].opening
    BY <1>0, <2>1
  <2> QED
    BY <2>2 DEF PageFrom, PagesAgree
<1>10. CASE WriteReceivingPending(u)
  <2>1. user[u].page = "fulfill"
    BY <1>10 DEF WriteReceivingPending, PagesAgree
  <2> QED
    BY <1>4, <1>10, <2>1 DEF WriteReceivingPending, Calls
<1>11. CASE SendDelivery(u)
  BY <1>4, <1>11 DEF SendDelivery, Calls
<1>12. CASE DeleteInVend(u)
  BY <1>4, <1>12 DEF DeleteInVend, Calls
<1> QED
  BY <1>1, <1>2, <1>3, <1>5, <1>6, <1>7, <1>8, <1>9, <1>10, <1>11, <1>12
     DEF PageStep, ExecuteFulfillAll, FlagFulfilled, SubmitReceivals, SetDeleted, CallFails

SamePage(u) == user'[u].page = user[u].page /\ user'[u].opening = user[u].opening

LEMMA AddStaysOn ==
  ASSUME TypeInv, PagesAgree, NEW u \in Users, AddStep(u)
  PROVE  PageFrom(u)
<1>0. user \in [Users -> User] /\ user[u] \in User
  BY UsersType, UserType
<1>1. ASSUME NEW pc \in Calls, Call(u, pc) PROVE SamePage(u)
  BY <1>1, Called DEF SamePage
<1>2. Return(u) => SamePage(u)
  BY Returned DEF SamePage
<1>3. ASSUME NEW p \in Products, AddProduct(u, p) PROVE SamePage(u)
  BY <1>0, <1>3 DEF AddProduct, User, SamePage
<1>4. CASE FindLeftOut(u)
  <2>1. SamePage(u)
    BY <1>0, <1>4 DEF FindLeftOut, User, SamePage
  <2> QED
    BY <1>4, <2>1, AddPlaces DEF PageFrom, PagesAgree, SamePage
<1>5. ASSUME NEW q \in Quantity \ {0}, CreateLine(u, q) PROVE SamePage(u)
  <2> DEFINE x == AddedLine(u, q)
  <2>1. Return(u) \/ user' = [user EXCEPT ![u].pc = "push", ![u].id = Len(line) + 1, ![u].found = x]
    BY <1>5 DEF CreateLine
  <2> HIDE DEF x
  <2> QED
    BY <1>0, <1>2, <2>1 DEF User, SamePage
<1>6. ASSUME FindNoLine(u) \/ SaveLine(u) \/ PushAdded(u) PROVE SamePage(u)
  BY <1>1, <1>2, <1>6 DEF FindNoLine, SaveLine, PushAdded, Calls
<1>7. ASSUME FindRefused(u) \/ PushRejected(u) \/ LinkAdded(u) \/ PushUnanswered(u)
      PROVE  SamePage(u)
  BY <1>2, <1>7 DEF FindRefused, PushRejected, LinkAdded, PushUnanswered
<1> QED
  BY <1>3, <1>4, <1>5, <1>6, <1>7, AddPlaces DEF AddStep, PageFrom, PagesAgree, SamePage

LEMMA PagesNext ==
  ASSUME TypeInv, [Next]_vars, PagesAgree
  PROVE  PagesAgree'
BY OneMoves, PageStaysOn, AddStaysOn DEF PagesAgree, PageFrom, OnlyCalls

\* FindNoLine notes the addition that is not to be pushed.
LEMMA AdditionsNotedNext ==
  ASSUME TypeInv, [Next]_vars, AdditionsNoted
  PROVE  AdditionsNoted'
<1>0. mixed.unpushed => mixed'.unpushed
  BY HistoryNext DEF Remembers
<1>1. ASSUME NEW u \in Users, user'[u].pc = "create", user'[u].state \notin Pushing, AddStep(u)
      PROVE  mixed'.unpushed
  <2>1. FindNoLine(u) /\ user'[u].state = user[u].state
    BY <1>1, AddPlaces
  <2> QED
    BY <1>1, <2>1, AdditionNoted
<1>2. ASSUME NEW u \in Users, user'[u].pc = "create", user'[u].state \notin Pushing, PageStep(u)
      PROVE  mixed'.unpushed
  <2>1. user[u].pc = "create" /\ user[u].state = user'[u].state
    BY <1>2, PagePlaces
  <2> QED
    BY <1>0, <1>2, <2>1 DEF AdditionsNoted
<1>3. ASSUME NEW u \in Users, user'[u].pc = "create", user'[u].state \notin Pushing, user'[u] = user[u]
      PROVE  mixed'.unpushed
  BY <1>0, <1>3 DEF AdditionsNoted
<1> QED
  BY <1>1, <1>2, <1>3, OneMoves DEF AdditionsNoted, OnlyCalls

\* What a session does to the order.
SetsOrder(u) ==
  /\ \/ report'.state = report.state
     \/ user[u].opening /\ report'.state = OpenedState(user[u].page)
     \/ user[u].pc = "send" /\ report'.state = "RECEIVING_PENDING"
     \/ user[u].page = "receive" /\ report'.state = "SUBMITTING_RECEIVALS"
  /\ report'.receiving => report.receiving \/ user[u].page = "receive"
  /\ report'.consignment = report.consignment \/ report'.consignment = "deleted"

LEMMA PageSetsOrder ==
  ASSUME TypeInv, NEW u \in Users, PageStep(u)
  PROVE  SetsOrder(u)
<1>0. report \in Report
  BY ReportType
<1>1. CASE UNCHANGED report
  BY <1>1 DEF SetsOrder
<1>2. CASE PutOpenedState(u)
  BY <1>0, <1>2 DEF PutOpenedState, SetState, SetsOrder, Report
<1>3. CASE WriteReceivingPending(u)
  BY <1>0, <1>3 DEF WriteReceivingPending, SetState, SetsOrder, Report
<1>4. CASE SaveDiscrepancies(u)
  BY <1>0, <1>4 DEF SaveDiscrepancies, SetsOrder, Report
<1>5. CASE SubmitReceivals(u)
  BY <1>0, <1>5 DEF SubmitReceivals, SetsOrder, Report
<1>6. CASE DeleteInVend(u)
  BY <1>0, <1>6 DEF DeleteInVend, SetsOrder, Report
<1>7. CASE SetDeleted(u)
  BY <1>0, <1>7 DEF SetDeleted, SetsOrder, Report
<1> QED
  BY <1>1, <1>2, <1>3, <1>4, <1>5, <1>6, <1>7
     DEF PageStep, OpenPage, EditFulfilled, EditReceived, ScanReceived, FulfillAll,
         ExecuteFulfillAll, SendDelivery, FlagFulfilled, LoadDiscrepancies, CallFails

\* What a worker that makes an order does to it.
LEMMA CreateSetsOrder ==
  ASSUME TypeInv, NEW m \in Imports, CreateStep(m)
  PROVE  /\ \/ report'.state = report.state
            \/ report'.state = ""
            \/ PushOrder(m) \/ PushOrderFails(m)
            \/ import[m].pc = "status" /\ report'.state = import[m].file.orderStatus
         /\ report'.receiving = report.receiving
         /\ PushOrder(m) \/ report'.consignment = report.consignment
<1>0. report \in Report
  BY ReportType
<1>1. CASE UNCHANGED report
  BY <1>1
<1>2. ASSUME NEW st, SetState(st)
      PROVE  /\ report'.state = st /\ report'.receiving = report.receiving
             /\ report'.consignment = report.consignment
  BY <1>0, <1>2 DEF SetState, Report
<1>3. CASE CreateOrder(m) \/ PushOrderFails(m) \/ SetOrderStatus(m)
  BY <1>1, <1>2, <1>3 DEF CreateOrder, PushOrderFails, SetOrderStatus
<1>4. CASE PushOrder(m)
  BY <1>0, <1>4 DEF PushOrder, Report
<1> QED
  BY <1>1, <1>3, <1>4 DEF CreateStep, UploadFile, MapRows, InsertLines, InsertLinesFails

\* How a message comes to the last step of making an order.
LEMMA StatusFrom ==
  ASSUME TypeInv, NEW m \in Imports, CreateStep(m) \/ FulfilStep(m), import'[m].pc = "status"
  PROVE  /\ import'[m].file = import[m].file
         /\ \/ PushOrder(m) \/ PushOrderFails(m)
            \/ InsertLines(m) /\ import[m].file.orderStatus \in notApprovedStates
            \/ InsertLinesFails(m) /\ import[m].file.orderStatus \in notApprovedStates
<1>1. ASSUME NEW pc \in {"done", "failed"}, Finish(m, pc) PROVE FALSE
  BY <1>1, Finished
<1>2. ASSUME NEW pc \in Works, Goto(m, pc) PROVE pc = "status"
  BY <1>2, Went
<1>3. ~FulfilStep(m)
  BY FulfilPlaces
<1>4. ASSUME NEW f \in Files, UploadFile(m, f) PROVE FALSE
  BY <1>4, ImportsType DEF UploadFile, NewImport
<1>5. \/ InsertLines(m) /\ import[m].file.orderStatus \in notApprovedStates
      \/ InsertLinesFails(m) /\ import[m].file.orderStatus \in notApprovedStates
      \/ PushOrder(m) \/ PushOrderFails(m)
  BY <1>1, <1>2, <1>3, <1>4
     DEF CreateStep, MapRows, CreateOrder, SetOrderStatus, InsertLines, InsertLinesFails, Unpushed, Works
<1> QED
  BY <1>5, FileStays DEF InsertLines, InsertLinesFails, PushOrder, PushOrderFails

\* An order that was sent becomes one that may be fulfilled in no other way.
LEMMA MayFulfilBefore ==
  ASSUME TypeInv, PagesAgree, [Next]_vars, IsSent, MayFulfil'
  PROVE  MayFulfil
<1>0. \A m \in Imports : ~InsertLines(m) /\ ~InsertLinesFails(m) /\ ~PushOrder(m) /\ ~PushOrderFails(m)
  BY DEF InsertLines, InsertLinesFails, PushOrder, PushOrderFails, TypeInv, NewOrder, IsSent
<1>1. ASSUME NEW u \in Users, PageStep(u) \/ AddStep(u), OnlyCalls(u), UNCHANGED import PROVE MayFulfil
  <2>1. PageFrom(u) /\ (SetsOrder(u) \/ UNCHANGED report)
    BY <1>1, PageStaysOn, AddStaysOn, PageSetsOrder, AddReports
  <2>2. Fulfils(report'.state) => Fulfils(report.state) \/ user[u].page = "fulfill"
    BY <2>1, <1>1 DEF SetsOrder, Fulfils, OpenedState
  <2>3. user'[u].page = "fulfill" => user[u].page = "fulfill" \/ Fulfils(report.state)
    <3>1. ASSUME NEW p \in Pages, OpenPage(u, p), user'[u].page = p, p = "fulfill" PROVE Fulfils(report.state)
      BY <3>1 DEF OpenPage, OpensIn, Fulfils
    <3> QED
      BY <2>1, <3>1 DEF PageFrom
  <2> QED
    BY <1>1, <2>2, <2>3 DEF MayFulfil, OnlyCalls
<1>2. ASSUME NEW m \in Imports, CreateStep(m) \/ FulfilStep(m), OnlyWorks(m), UNCHANGED user PROVE MayFulfil
  <2>1. import'[m].pc # "status"
    BY <1>0, <1>2, StatusFrom
  <2>2. Fulfils(report'.state) => MayFulfil
    BY <1>0, <1>2, CreateSetsOrder, FulfilReports DEF Fulfils, MayFulfil
  <2> QED
    BY <1>2, <2>1, <2>2 DEF MayFulfil, OnlyWorks
<1>3. ASSUME ReceiveConsignment \/ ReceiptFails PROVE MayFulfil
  <2>1. report'.state \in {"COMPLETE", "RECEIVING_FAILURE"}
    BY <1>3, ReportType DEF ReceiveConsignment, ReceiptFails, Received, Report
  <2>2. UNCHANGED <<user, import>>
    BY <1>3 DEF ReceiveConsignment, ReceiptFails
  <2> QED
    BY <2>1, <2>2 DEF MayFulfil, Fulfils
<1>4. CASE UNCHANGED vars
  BY <1>4 DEF vars, MayFulfil
<1>5. \/ UNCHANGED vars \/ ReceiveConsignment \/ ReceiptFails
      \/ \E u \in Users : (PageStep(u) \/ AddStep(u)) /\ OnlyCalls(u) /\ UNCHANGED import
      \/ \E m \in Imports : (CreateStep(m) \/ FulfilStep(m)) /\ OnlyWorks(m) /\ UNCHANGED user
  BY LinesNext, PageCalls, AddCalls, CreateWorks, FulfilWorks, SessionFrame, WorkerFrame DEF Next
<1> QED
  BY <1>1, <1>2, <1>3, <1>4, <1>5

LEMMA SameQuantities ==
  ASSUME TypeInv, NEW l \in Ids, line'[l].fulfilledQuantity = line[l].fulfilledQuantity,
         line'[l].receivedQuantity = line[l].receivedQuantity
  PROVE  StaysOut(l)
<1>1. line[l].fulfilledQuantity \in Nat
  BY LineAt, LinesAssumption DEF Line, Quantity
<1> QED
  BY <1>1 DEF StaysOut

\* A page edits the line items of the delivery.
LEMMA PageStaysOut ==
  ASSUME TypeInv, NEW u \in Users, PageStep(u), NEW l \in Ids'
  PROVE  StaysOut(l)
<1>0. line \in [Ids -> Line] /\ \A k \in Ids : line[k] \in Line
  BY LineAt
<1>1. Ids' = Ids
  BY PageKeepsLines, PageEditsLines DEF EditsLines, Ids
<1>2. CASE line'[l] = line[l]
  BY <1>1, <1>2, SameQuantities
<1>3. ASSUME NEW k \in Ids, NEW q \in Quantity, EditFulfilled(u, k, q), line'[l] # line[l] PROVE StaysOut(l)
  <2>1. l = k /\ line[l].approved = "true"
    BY <1>0, <1>1, <1>3 DEF EditFulfilled
  <2> QED
    BY <1>1, <2>1, <1>3, PageEditsLines DEF StaysOut, LinesKeepType, Grows, InDelivery
<1>4. ASSUME NEW k \in Ids, NEW q \in Quantity, EditReceived(u, k, q), line'[l] # line[l] PROVE StaysOut(l)
  <2>1. l = k /\ line[l].fulfilled = "true"
    BY <1>0, <1>1, <1>4 DEF EditReceived
  <2> QED
    BY <1>1, <2>1, <1>4, PageEditsLines DEF StaysOut, LinesKeepType, Grows, InDelivery
<1>5. ASSUME NEW k \in Ids, ScanReceived(u, k), line'[l] # line[l] PROVE StaysOut(l)
  <2>1. l = k /\ line[l].fulfilled = "true"
    BY <1>0, <1>1, <1>5 DEF ScanReceived
  <2> QED
    BY <1>1, <2>1, <1>5, PageEditsLines DEF StaysOut, LinesKeepType, Grows, InDelivery
<1>6. ASSUME ExecuteFulfillAll(u) \/ FlagFulfilled(u), line'[l] # line[l] PROVE StaysOut(l)
  <2>1. line'[l].fulfilled = "true"
    BY <1>0, <1>1, <1>6 DEF ExecuteFulfillAll, FlagFulfilled, Line
  <2> QED
    BY <2>1 DEF StaysOut, InDelivery
<1> QED
  BY <1>1, <1>2, <1>3, <1>4, <1>5, <1>6, PageKeepsLines DEF EditsLines

LEMMA AddStaysOut ==
  ASSUME TypeInv, AdditionsNoted, Quiet, NEW u \in Users, AddStep(u), NEW l \in Ids'
  PROVE  StaysOut(l)
<1>0. line \in [Ids -> Line] /\ \A k \in Ids : line[k] \in Line
  BY LineAt
<1>1. CASE l \in Ids /\ line'[l] = line[l]
  BY <1>1, SameQuantities
<1>2. ASSUME LinkAdded(u) PROVE StaysOut(l)
  <2>1. l \in Ids /\ user[u].id \in Ids
    BY <1>2, AddEditsLines, UserType DEF LinkAdded, CallHasRead
  <2>2. /\ line'[l].fulfilledQuantity = line[l].fulfilledQuantity
        /\ line'[l].receivedQuantity = line[l].receivedQuantity
    BY <1>0, <1>2, <2>1 DEF LinkAdded, Link, Line
  <2> QED
    BY <2>1, <2>2, SameQuantities
<1>3. ASSUME SaveLine(u), ~(l \in Ids /\ line'[l] = line[l]) PROVE StaysOut(l)
  <2>1. l \in Ids /\ user[u].id \in Ids
    BY <1>3, AddEditsLines, UserType DEF SaveLine, CallHasRead
  <2>2. l = user[u].id /\ line'[l] = user[u].found
    BY <1>0, <1>3, <2>1 DEF SaveLine
  <2>3. line'[l].approved = "true" \/ line'[l].fulfilled = "true"
    BY <1>3, <2>2, UserType DEF SaveLine, CallHasRead
  <2> QED
    BY <2>3 DEF StaysOut, InDelivery
<1>4. ASSUME NEW q \in Quantity, CreateLine(u, q), ~(l \in Ids /\ line'[l] = line[l]) PROVE StaysOut(l)
  <2>1. line'[l] = AddedLine(u, q)
    BY <1>4, CreateAddsLine
  <2>2. user[u].state \in Pushing
    BY <1>4 DEF CreateLine, AdditionsNoted, Quiet
  <2> QED
    BY <2>1, <2>2, AddedInDelivery DEF StaysOut, InDelivery
<1> QED
  BY <1>1, <1>2, <1>3, <1>4, AddKeepsLines DEF Ids

\* A batch delivers what it writes, but for what it clears.
LEMMA BatchStaysOut ==
  ASSUME TypeInv, NEW m \in Imports, ExecuteBatch(m), NEW l \in Ids'
  PROVE  StaysOut(l)
<1>0. /\ line \in [Ids -> Line] /\ \A k \in Ids : line[k] \in Line
      /\ import[m].pc = "write" /\ Rows(m) \ import[m].new \in FoundRows(m)
      /\ import[m].new \in SUBSET import[m].new /\ import[m].new \subseteq Rows(m)
      /\ Ids = 1 .. Len(line) /\ Len(line) \in Nat
  BY LineAt, ImportType DEF ExecuteBatch, FoundRows, WorkerHasFound
<1>1. BatchOf(m, Rows(m) \ import[m].new, import[m].new, TRUE)
  BY AllIsBatch
<1>2. CASE l \in Ids
  <2>0. BatchUpdates(Rows(m) \ import[m].new, TRUE)
    BY <1>0, <1>1, BatchEditsLines
  <2>1. PICK last \in LastRows(Rows(m) \ import[m].new) :
          \A k \in Ids : line'[k] = Updated(Rows(m) \ import[m].new, last, TRUE)[k]
    BY <2>0 DEF BatchUpdates
  <2> DEFINE r == last[line[l].product]
  <2>2. \/ r \in Row /\ line'[l] = FulfilledBy(line[l], r)
        \/ line'[l] = Cleared(line[l])
        \/ line'[l] = line[l]
    <3> DEFINE old == Rows(m) \ import[m].new
               next == Updated(old, last, TRUE)[l]
    <3>1. old \in FoundRows(m) /\ last \in LastRows(old) /\ line'[l] = next
      BY <1>0, <1>2, <2>1
    <3>2. \/ last[line[l].product] \in Row /\ next = FulfilledBy(line[l], last[line[l].product])
          \/ next = Cleared(line[l])
          \/ next = line[l]
      <4> HIDE DEF old
      <4> QED
        BY <1>0, <1>2, <3>1, UpdatedType
    <3> QED
      BY <3>1, <3>2
  <2> HIDE DEF r
  <2>3. CASE line'[l] = line[l]
    BY <1>2, <2>3, SameQuantities
  <2>4. CASE line'[l] = Cleared(line[l])
    <3>1. line'[l].receivedQuantity = line[l].receivedQuantity /\ line'[l].fulfilledQuantity = 0
          /\ line[l].fulfilledQuantity \in Nat
      BY <1>0, <1>2, <2>4, LinesAssumption DEF Cleared, Line, Quantity
    <3> QED
      BY <1>2, <3>1 DEF StaysOut
  <2>5. CASE r \in Row /\ line'[l] = FulfilledBy(line[l], r)
    BY <1>0, <1>2, <2>5, FulfilledByType DEF StaysOut, InDelivery
  <2> QED
    BY <2>2, <2>3, <2>4, <2>5
<1>3. CASE l \notin Ids
  <2>1. PICK order \in InOrder(import[m].new) :
          /\ Ids' = 1 .. Len(line) + Cardinality(import[m].new)
          /\ \A k \in 1 .. Cardinality(import[m].new) :
               /\ order[k] \in import[m].new /\ order[k] \in Row
               /\ line'[Len(line) + k] = InsertedBy(order[k])
    BY <1>0, <1>1, BatchEditsLines
  <2>2. Cardinality(import[m].new) \in Nat
    <3>1. PICK ins \in Inserted(import[m].new) : TRUE
      BY DEF ExecuteBatch
    <3> QED
      BY <1>0, <3>1, InsertedType
  <2>3. PICK k \in 1 .. Cardinality(import[m].new) : l = Len(line) + k
    <3>1. l - Len(line) \in 1 .. Cardinality(import[m].new) /\ l = Len(line) + (l - Len(line))
      BY <1>0, <1>3, <2>1, <2>2
    <3> QED
      BY <3>1
  <2>4. order[k] \in Row /\ line'[l] = InsertedBy(order[k])
    BY <2>1, <2>3
  <2> QED
    BY <2>4, InsertedByType DEF StaysOut, InDelivery
<1> QED
  BY <1>2, <1>3

LEMMA FileStaysOut ==
  ASSUME TypeInv, faults' = 0, NEW m \in Imports, CreateStep(m) \/ FulfilStep(m), NEW l \in Ids',
         ~InsertLines(m)
  PROVE  StaysOut(l)
<1>0. line \in [Ids -> Line] /\ \A k \in Ids : line[k] \in Line
  BY LineAt
<1>1. ~ExecuteSome(m) /\ ~InsertLinesFails(m)
  BY NoFault DEF ExecuteSome, InsertLinesFails
<1>2. CASE LinkRow(m) \/ PushOrder(m)
  <2>1. l \in Ids /\ (LinkRow(m) => First(import[m].todo) \in Ids)
    BY <1>2, ImportEditsLines, ImportType, TodoType DEF LinkRow, WorkerHasFound
  <2>2. /\ line'[l].fulfilledQuantity = line[l].fulfilledQuantity
        /\ line'[l].receivedQuantity = line[l].receivedQuantity
    <3>1. CASE LinkRow(m)
      BY <1>0, <2>1, <3>1 DEF LinkRow, Link, Line
    <3>2. CASE PushOrder(m)
      <4> DEFINE linked == line[l].approved = "true"
      <4>1. line'[l] = [line[l] EXCEPT !.linked = linked]
        BY <2>1, <3>2 DEF PushOrder
      <4> HIDE DEF linked
      <4> QED
        BY <1>0, <2>1, <4>1 DEF Line
    <3> QED
      BY <1>2, <3>1, <3>2
  <2> QED
    BY <2>1, <2>2, SameQuantities
<1>3. CASE UNCHANGED line
  BY <1>3, SameQuantities DEF Ids
<1> QED
  BY <1>1, <1>2, <1>3, BatchStaysOut, ImportKeepsLines

\* The line items of a new order are as the file wants them, until the purchase order
\* worker has run.
AsInFile(m) ==
  \A l \in Ids : /\ line[l].approved = "true" <=> import[m].file.orderStatus \in approvedInFile
                 /\ line[l].fulfilled = "true" <=> import[m].file.orderStatus \in fulfilledInFile

NewLines == \A m \in Imports : import[m].pc = "purchase" => AsInFile(m)

LEMMA PurchaseFrom ==
  ASSUME TypeInv, NEW m \in Imports, CreateStep(m) \/ FulfilStep(m), import'[m].pc = "purchase"
  PROVE  import'[m].file = import[m].file /\ (InsertLines(m) \/ InsertLinesFails(m))
<1>1. ASSUME NEW pc \in {"done", "failed"}, Finish(m, pc) PROVE FALSE
  BY <1>1, Finished
<1>2. ASSUME NEW pc \in Works, Goto(m, pc) PROVE pc = "purchase"
  BY <1>2, Went
<1>3. ~FulfilStep(m)
  BY FulfilPlaces
<1>4. ASSUME NEW f \in Files, UploadFile(m, f) PROVE FALSE
  BY <1>4, ImportsType DEF UploadFile, NewImport
<1>5. InsertLines(m) \/ InsertLinesFails(m)
  BY <1>1, <1>2, <1>3, <1>4
     DEF CreateStep, MapRows, CreateOrder, PushOrder, PushOrderFails, SetOrderStatus, Works
<1> QED
  BY <1>5, FileStays DEF InsertLines, InsertLinesFails

\* While a new order waits for the purchase order worker, its line items stay.
LEMMA NewLinesStay ==
  ASSUME TypeInv, [Next]_vars, NEW m \in Imports, import[m].pc = "purchase", import'[m] = import[m]
  PROVE  UNCHANGED line
<1>0. report.state = "" /\ ~report.receiving /\ Starting(m)
      /\ \A n \in Imports : (Starting(n) => n = m) /\ ~Delivering(n)
  BY DEF TypeInv, NewOrder, Starting
<1>1. ASSUME NEW n \in Imports, CreateStep(n) \/ FulfilStep(n) PROVE UNCHANGED line
  <2>1. n # m
    <3>1. ASSUME PushOrder(m) \/ PushOrderFails(m) PROVE FALSE
      BY <3>1, Went DEF PushOrder, PushOrderFails, Works
    <3>2. CASE FulfilStep(m)
      BY <3>2, FulfilPlaces
    <3>3. CASE CreateStep(m)
      BY <3>1, <3>3 DEF CreateStep, UploadFile, MapRows, CreateOrder, InsertLines, InsertLinesFails,
                        SetOrderStatus
    <3> QED
      BY <1>1, <3>2, <3>3
  <2>2. ~Starting(n) /\ ~Delivering(n)
    BY <1>0, <2>1
  <2> QED
    BY <1>1, <2>2, ImportKeepsLines
       DEF Starting, Delivering, InsertLines, InsertLinesFails, PushOrder, LinkRow, ExecuteBatch, ExecuteSome
<1> QED
  BY <1>0, <1>1, NoSession DEF Next, vars, ReceiveConsignment, ReceiptFails

LEMMA NewLinesNext ==
  ASSUME TypeInv, [Next]_vars, NewLines
  PROVE  NewLines'
<1> SUFFICES ASSUME NEW m \in Imports, import'[m].pc = "purchase" PROVE AsInFile(m)'
  BY DEF NewLines
<1>1. CASE import'[m] = import[m]
  <2>1. UNCHANGED line /\ AsInFile(m)
    BY <1>1, NewLinesStay DEF NewLines
  <2> QED
    BY <1>1, <2>1 DEF AsInFile, Ids
<1>2. CASE import'[m] # import[m]
  <2>1. CreateStep(m) \/ FulfilStep(m)
    BY <1>2, OneMoves DEF OnlyWorks
  <2>2. import'[m].file = import[m].file /\ (InsertLines(m) \/ InsertLinesFails(m))
    BY <2>1, PurchaseFrom
  <2>3. PICK order \in InOrder(Rows(m)) :
          \A l \in Ids' : /\ order[l] \in Rows(m) /\ order[l] \in Row
                          /\ line'[l] = LineOfRow(order[l], import[m].file.orderStatus)
    BY <2>2, LinesInserted
  <2> QED
    BY <2>2, <2>3, LineOfRowType DEF AsInFile
<1> QED
  BY <1>1, <1>2

\* Until it is in Vend, and no call has failed, an order stays with the states and the page
\* of the review.
InReview ==
  /\ report.state \in {"absent", ""} \union notApprovedStates
  /\ \A u \in Users : user[u].page \in {"none", "generated"}
  /\ \A m \in Imports : import[m].pc = "status" => import[m].file.orderStatus \in notApprovedStates
  /\ ~report.receiving

NoneIsNew == faults = 0 /\ report.consignment = "none" => InReview

\* Nothing but the purchase order worker opens a consignment.
LEMMA OnlyPushOpens ==
  ASSUME TypeInv, [Next]_vars, \A m \in Imports : ~PushOrder(m)
  PROVE  report'.consignment = report.consignment \/ report'.consignment = "deleted"
<1>1. ASSUME NEW u \in Users, PageStep(u) \/ AddStep(u)
      PROVE  report'.consignment = report.consignment \/ report'.consignment = "deleted"
  BY <1>1, PageSetsOrder, AddReports DEF SetsOrder
<1>2. ASSUME NEW m \in Imports, CreateStep(m) \/ FulfilStep(m) PROVE report'.consignment = report.consignment
  BY <1>2, CreateSetsOrder, FulfilReports
<1> QED
  BY <1>1, <1>2, ReceiveReports DEF Next, vars

LEMMA NoneIsNewNext ==
  ASSUME TypeInv, [Next]_vars, PagesAgree, NoneIsNew
  PROVE  NoneIsNew'
<1> SUFFICES ASSUME faults' = 0, report'.consignment = "none" PROVE InReview'
  BY DEF NoneIsNew
<1>0. ~Fault /\ faults = 0
  BY NoFault, HistoryNext
<1>1. \A m \in Imports : ~PushOrder(m) /\ ~PushOrderFails(m) /\ ~InsertLinesFails(m)
  BY <1>0, ReportType DEF PushOrder, PushOrderFails, InsertLinesFails, Report
<1>2. InReview
  BY <1>0, <1>1, OnlyPushOpens DEF NoneIsNew
<1>3. ASSUME NEW u \in Users, PageStep(u) \/ AddStep(u), OnlyCalls(u), UNCHANGED import PROVE InReview'
  <2>1. PageFrom(u) /\ (SetsOrder(u) \/ UNCHANGED report)
    BY <1>3, PageStaysOn, AddStaysOn, PageSetsOrder, AddReports
  <2>2. user[u].page \in {"none", "generated"} /\ (user[u].opening => user[u].page = "generated")
        /\ user[u].pc # "send"
    BY <1>2 DEF InReview, PagesAgree
  <2>3. report'.state \in {"absent", ""} \union notApprovedStates /\ ~report'.receiving
    BY <1>2, <2>1, <2>2 DEF InReview, SetsOrder, OpenedState, notApprovedStates
  <2>4. user'[u].page \in {"none", "generated"}
    <3>1. ASSUME NEW p \in Pages, OpenPage(u, p) PROVE p = "generated"
      BY <1>2, <3>1 DEF OpenPage, OpensIn, InReview, notApprovedStates, Pages
    <3> QED
      BY <2>1, <2>2, <3>1 DEF PageFrom
  <2> QED
    BY <1>2, <1>3, <2>3, <2>4 DEF InReview, OnlyCalls
<1>4. ASSUME NEW m \in Imports, CreateStep(m) \/ FulfilStep(m), OnlyWorks(m), UNCHANGED user PROVE InReview'
  <2>1. import'[m].pc = "status" => import'[m].file.orderStatus \in notApprovedStates
    BY <1>1, <1>4, StatusFrom
  <2>2. report'.state \in {"absent", ""} \union notApprovedStates /\ ~report'.receiving
    BY <1>1, <1>2, <1>4, CreateSetsOrder, FulfilReports DEF InReview
  <2> QED
    BY <1>2, <1>4, <2>1, <2>2 DEF InReview, OnlyWorks
<1>5. ~ReceiveConsignment /\ ~ReceiptFails
  BY <1>2 DEF InReview, ReceiveConsignment, ReceiptFails
<1>6. CASE UNCHANGED vars
  BY <1>2, <1>6 DEF vars, InReview
<1>7. \/ UNCHANGED vars \/ ReceiveConsignment \/ ReceiptFails
      \/ \E u \in Users : (PageStep(u) \/ AddStep(u)) /\ OnlyCalls(u) /\ UNCHANGED import
      \/ \E m \in Imports : (CreateStep(m) \/ FulfilStep(m)) /\ OnlyWorks(m) /\ UNCHANGED user
  BY LinesNext, PageCalls, AddCalls, CreateWorks, FulfilWorks, SessionFrame, WorkerFrame DEF Next
<1> QED
  BY <1>3, <1>4, <1>5, <1>6, <1>7

DeliveryIsPushed ==
  Quiet /\ IsSent => \A l \in Ids : InDelivery(l) => line[l].linked \/ Covered(l)

ReceivedIsInDelivery == Quiet => \A l \in Ids : line[l].receivedQuantity > 0 => InDelivery(l)

DeliveryInv == /\ PagesAgree /\ AdditionsNoted /\ NewLines /\ NoneIsNew
               /\ DeliveryIsPushed /\ QuantityIsInDelivery /\ ReceivedIsInDelivery

LEMMA QuietBefore ==
  ASSUME TypeInv, [Next]_vars, Quiet'
  PROVE  Quiet /\ faults' = 0
BY HistoryNext DEF Quiet, Remembers

LEMMA AllJoin ==
  ASSUME TypeInv, PagesAgree, QuantityIsInDelivery, [Next]_vars, Quiet', IsSent, NEW l \in Ids'
  PROVE  Joins(l)
<1>1. CASE UNCHANGED line
  BY <1>1, SameFlags DEF Ids
<1> QED
  BY <1>1, QuietBefore, PageJoins, AddJoins, FileJoins DEF Next, vars, ReceiveConsignment, ReceiptFails

LEMMA AllStayOut ==
  ASSUME TypeInv, AdditionsNoted, [Next]_vars, Quiet', \A m \in Imports : ~InsertLines(m), NEW l \in Ids'
  PROVE  StaysOut(l)
<1>1. CASE UNCHANGED line
  BY <1>1, SameQuantities DEF Ids
<1> QED
  BY <1>1, QuietBefore, PageStaysOut, AddStaysOut, FileStaysOut
     DEF Next, vars, ReceiveConsignment, ReceiptFails

\* What the purchase order worker has sent: the approved line items, the fulfilled ones
\* among them.
LEMMA OrderIsSent ==
  ASSUME TypeInv, NewLines, [Next]_vars, ~IsSent, IsSent'
  PROVE  \E m \in Imports :
           /\ PushOrder(m) /\ Ids' = Ids
           /\ \A l \in Ids : /\ line'[l].approved = "true" <=> import[m].file.orderStatus \in approvedInFile
                             /\ InDelivery(l)' => line'[l].linked
<1>1. PICK m \in Imports : PushOrder(m)
  BY OnlyPushOpens DEF IsSent
<1>2. /\ Ids' = Ids /\ AsInFile(m) /\ line \in [Ids -> Line]
      /\ \A l \in Ids : line[l] \in Line
  BY <1>1, ImportEditsLines, LineAt DEF NewLines, PushOrder
<1>3. ASSUME NEW l \in Ids
      PROVE  /\ line'[l].approved = "true" <=> import[m].file.orderStatus \in approvedInFile
             /\ InDelivery(l)' => line'[l].linked
  <2> DEFINE linked == line[l].approved = "true"
  <2>1. line'[l] = [line[l] EXCEPT !.linked = linked]
    BY <1>1, <1>2 DEF PushOrder
  <2>2. /\ line[l].approved = "true" <=> import[m].file.orderStatus \in approvedInFile
        /\ line[l].fulfilled = "true" => line[l].approved = "true"
    BY <1>2 DEF AsInFile, approvedInFile, fulfilledInFile
  <2>3. linked <=> line[l].approved = "true"
    OBVIOUS
  <2> HIDE DEF linked
  <2>4. /\ line'[l].linked = linked /\ line'[l].approved = line[l].approved
        /\ line'[l].fulfilled = line[l].fulfilled
    BY <1>2, <2>1 DEF Line
  <2> QED
    BY <2>2, <2>3, <2>4 DEF InDelivery
<1> QED
  BY <1>1, <1>2, <1>3

LEMMA DeliveryIsPushedNext ==
  ASSUME TypeInv, DeliveryInv, [Next]_vars
  PROVE  DeliveryIsPushed'
<1> SUFFICES ASSUME Quiet', IsSent', NEW l \in Ids', InDelivery(l)' PROVE line'[l].linked \/ Covered(l)'
  BY DEF DeliveryIsPushed
<1>1. Quiet /\ faults' = 0
  BY QuietBefore
<1>2. CASE IsSent
  <2>1. Joins(l)
    BY <1>2, AllJoin DEF DeliveryInv
  <2>2. ASSUME l \in Ids, InDelivery(l), StaysSelected(l) PROVE line'[l].linked \/ Covered(l)'
    <3>1. line[l].linked \/ Covered(l)
      BY <1>1, <1>2, <2>2 DEF DeliveryInv, DeliveryIsPushed
    <3> QED
      BY <1>1, <1>2, <2>2, <3>1, PushedStays
  <2> QED
    BY <2>1, <2>2 DEF Joins
<1>3. CASE ~IsSent
  BY <1>3, OrderIsSent DEF DeliveryInv
<1> QED
  BY <1>2, <1>3

LEMMA QuantityIsInDeliveryNext ==
  ASSUME TypeInv, DeliveryInv, [Next]_vars
  PROVE  QuantityIsInDelivery'
<1> SUFFICES ASSUME Quiet', IsSent', MayFulfil', NEW l \in Ids', line'[l].fulfilledQuantity > 0
             PROVE  InDelivery(l)'
  BY DEF QuantityIsInDelivery
<1>0. Quiet /\ faults' = 0 /\ Grows /\ \A k \in Ids : line[k] \in Line
  BY QuietBefore, LinesNext, LineAt DEF LinesKeepType
<1>1. CASE IsSent
  <2>1. \A m \in Imports : ~InsertLines(m)
    BY <1>1 DEF InsertLines, TypeInv, NewOrder, IsSent
  <2>2. StaysOut(l) /\ MayFulfil
    BY <1>1, <2>1, AllStayOut, MayFulfilBefore DEF DeliveryInv
  <2>3. ASSUME l \in Ids, line'[l].fulfilledQuantity <= line[l].fulfilledQuantity PROVE InDelivery(l)'
    <3>1. line'[l].fulfilledQuantity \in Nat /\ line[l].fulfilledQuantity \in Nat
      <4>1. TypeInv'
        BY TypeNext
      <4>2. \A k \in Ids' : line'[k] \in Line
        BY <4>1 DEF TypeInv, TypeOK, Ids
      <4> QED
        BY <1>0, <2>3, <4>2, LinesAssumption DEF Line, Quantity
    <3>2. line[l].fulfilledQuantity > 0
      BY <2>3, <3>1
    <3>3. InDelivery(l)
      BY <1>0, <1>1, <2>2, <2>3, <3>2 DEF DeliveryInv, QuantityIsInDelivery
    <3> QED
      BY <1>0, <2>3, <3>3 DEF Grows
  <2> QED
    BY <2>2, <2>3 DEF StaysOut
<1>2. CASE ~IsSent
  <2>1. PICK m \in Imports :
          /\ PushOrder(m) /\ Ids' = Ids
          /\ \A k \in Ids : line'[k].approved = "true" <=> import[m].file.orderStatus \in approvedInFile
    BY <1>2, OrderIsSent DEF DeliveryInv
  <2>2. /\ report.state = "" /\ UNCHANGED user /\ import'[m].file = import[m].file
        /\ OnlyWorks(m) /\ Starting(m) /\ report'.state = import[m].file.orderStatus
    BY <2>1, ReportType, Went DEF PushOrder, TypeInv, NewOrder, Starting, Report, Works
  <2>3. \A u \in Users : user'[u].page = "none"
    <3>1. IdleUser.page = "none"
      BY DEF IdleUser
    <3> QED
      BY <2>2, <3>1 DEF TypeInv, NewOrder
  <2>4. ASSUME NEW n \in Imports, import'[n].pc = "status" PROVE n = m
    BY <2>2, <2>4 DEF TypeInv, NewOrder, Starting, OnlyWorks
  <2>5. Fulfils(import[m].file.orderStatus)
    BY <2>2, <2>3, <2>4 DEF MayFulfil
  <2> QED
    BY <2>1, <2>5 DEF Fulfils, approvedInFile, InDelivery
<1> QED
  BY <1>1, <1>2

LEMMA ReceivedIsInDeliveryNext ==
  ASSUME TypeInv, DeliveryInv, [Next]_vars
  PROVE  ReceivedIsInDelivery'
<1> SUFFICES ASSUME Quiet', NEW l \in Ids', line'[l].receivedQuantity > 0
             PROVE  InDelivery(l)'
  BY DEF ReceivedIsInDelivery
<1>0. Quiet /\ Grows
  BY QuietBefore, LinesNext DEF LinesKeepType
<1>1. ASSUME NEW m \in Imports, InsertLines(m) PROVE FALSE
  <2>1. PICK order : order[l] \in Row /\ line'[l] = LineOfRow(order[l], import[m].file.orderStatus)
    BY <1>1, LinesInserted
  <2>2. line'[l].receivedQuantity = 0
    BY <2>1, LineOfRowType
  <2> QED
    BY <2>2
<1>2. StaysOut(l)
  BY <1>1, AllStayOut DEF DeliveryInv
<1>3. ASSUME l \in Ids, line'[l].receivedQuantity = line[l].receivedQuantity PROVE InDelivery(l)'
  <2>1. InDelivery(l)
    BY <1>0, <1>3 DEF DeliveryInv, ReceivedIsInDelivery
  <2> QED
    BY <1>0, <1>3, <2>1 DEF Grows
<1> QED
  BY <1>2, <1>3 DEF StaysOut

LEMMA DeliveryNext == TypeInv /\ DeliveryInv /\ [Next]_vars => DeliveryInv'
<1> SUFFICES ASSUME TypeInv, DeliveryInv, [Next]_vars PROVE DeliveryInv'
  OBVIOUS
<1>1. PagesAgree' /\ AdditionsNoted' /\ NewLines' /\ NoneIsNew'
  BY PagesNext, AdditionsNotedNext, NewLinesNext, NoneIsNewNext DEF DeliveryInv
<1> QED
  BY <1>1, DeliveryIsPushedNext, QuantityIsInDeliveryNext, ReceivedIsInDeliveryNext DEF DeliveryInv

LEMMA DeliveryInit == Init => DeliveryInv
<1> SUFFICES ASSUME Init PROVE DeliveryInv
  OBVIOUS
<1>1. /\ \A u \in Users : user[u].pc = "idle" /\ user[u].page = "none" /\ ~user[u].opening
      /\ \A m \in Imports : import[m].pc = "free"
  <2>1. IdleUser.pc = "idle" /\ IdleUser.page = "none" /\ ~IdleUser.opening
    BY DEF IdleUser
  <2>2. \A f : NewImport(f, "free").pc = "free"
    BY DEF NewImport
  <2> QED
    BY <2>1, <2>2 DEF Init
<1>2. PagesAgree /\ AdditionsNoted /\ NewLines
  BY <1>1 DEF PagesAgree, AdditionsNoted, NewLines
<1>3. /\ report.consignment = "none" => report.state = "absent" /\ ~report.receiving
      /\ \A l \in Ids : /\ line[l].fulfilledQuantity = 0 /\ line[l].receivedQuantity = 0
                        /\ InDelivery(l) => line[l].linked
  <2>1. CASE Absent
    BY <2>1 DEF Absent, Ids
  <2>2. ASSUME NEW approved, Sent(approved)
        PROVE  /\ report.consignment # "none"
               /\ \A l \in Ids : /\ line[l].fulfilledQuantity = 0 /\ line[l].receivedQuantity = 0
                                 /\ InDelivery(l) => line[l].linked
    BY <2>2 DEF Sent, NewLine, Ids, InDelivery
  <2> QED
    BY <2>1, <2>2 DEF Init
<1>4. NoneIsNew
  BY <1>1, <1>3 DEF NoneIsNew, InReview
<1>5. DeliveryIsPushed /\ QuantityIsInDelivery /\ ReceivedIsInDelivery
  BY <1>3 DEF DeliveryIsPushed, QuantityIsInDelivery, ReceivedIsInDelivery
<1> QED
  BY <1>2, <1>4, <1>5 DEF DeliveryInv

\* Who is to push a line item is known to whoever asks.
LEMMA CoveredIsBeingPushed ==
  ASSUME TypeInv, NEW l \in Ids, Covered(l)
  PROVE  BeingPushed(l)
BY ImportType DEF Covered, BeingPushed, WorkerHasFound

\* While no call fails, every fulfilled line item of an order that was sent is in Vend, or
\* somebody is still to push it: the pages, addProductToStockOrder and the file worker each
\* push what they bring into the delivery, whatever the others do meanwhile.  Except for
\* the line items that mixed.unpushed tells of, which no code pushes.
THEOREM FulfilledLinesAreInVend == Spec => []FulfilledIsInVend
<1>1. TypeInv /\ DeliveryInv => FulfilledIsInVend
  BY CoveredIsBeingPushed
     DEF DeliveryInv, DeliveryIsPushed, Quiet, InDelivery, FulfilledIsInVend
<1> QED
  BY <1>1, TypeInit, TypeNext, DeliveryInit, DeliveryNext, PTL DEF Spec

\* What the receive worker finds of an order when nothing went wrong: all it counts is in
\* Vend, unless the consignment was deleted.
LEMMA ReceiptFindsLines ==
  ASSUME TypeInv, DeliveryInv, ReceiveConsignment, Quiet, ~mixed'.unpushed, report'.state # "COMPLETE"
  PROVE  report'.consignment = "deleted"
<1>0. report \in Report /\ report.consignment \in {"none", "open", "deleted"}
  BY ReportType DEF Report
<1>1. report.consignment # "none"
  BY DEF ReceiveConsignment, DeliveryInv, NoneIsNew, InReview, Quiet
<1>2. report'.consignment = report.consignment
  BY ReceiveReports
<1>3. CASE IsSent
  <2>1. ASSUME NEW l \in Ids, line[l].receivedQuantity > 0 PROVE line[l].linked
    <3>1. line[l].linked \/ Covered(l)
      BY <1>3, <2>1 DEF DeliveryInv, ReceivedIsInDelivery, DeliveryIsPushed
    <3>2. line[l].linked \/ ~BeingPushed(l)
      BY <2>1, ReceiptNoted
    <3> QED
      BY <3>1, <3>2, CoveredIsBeingPushed
  <2>2. Received("COMPLETE")
    BY <1>3, <2>1 DEF ReceiveConsignment, Rejects, IsSent
  <2> QED
    BY <1>0, <2>2 DEF Received, Report
<1> QED
  BY <1>0, <1>1, <1>2, <1>3 DEF IsSent

LEMMA ReceiptNext ==
  TypeInv /\ DeliveryInv /\ ReceiptFailsForAReason /\ [Next]_vars => ReceiptFailsForAReason'
<1> SUFFICES ASSUME TypeInv, DeliveryInv, ReceiptFailsForAReason, [Next]_vars,
                    report'.state = "RECEIVING_FAILURE", ~GivenByFile("RECEIVING_FAILURE")',
                    faults' = 0, ~mixed'.unpushed
             PROVE  report'.consignment = "deleted"
  BY HistoryNext, LinesAssumption DEF ReceiptFailsForAReason
<1>0. Quiet /\ ~Fault
  BY QuietBefore, NoFault DEF Quiet
<1>1. \A m \in Imports : import[m].pc # "free" => import'[m].pc # "free" /\ import'[m].file = import[m].file
  BY OneMoves, FileStays DEF OnlyWorks
<1>2. /\ ~GivenByFile("RECEIVING_FAILURE")
      /\ \A m \in Imports : import[m].pc # "free" => import[m].file.orderStatus # "RECEIVING_FAILURE"
  BY <1>1 DEF GivenByFile
<1>3. CASE report.state = "RECEIVING_FAILURE"
  <2>1. report.consignment = "deleted"
    BY <1>0, <1>2, <1>3 DEF ReceiptFailsForAReason, Quiet
  <2>2. \A m \in Imports : ~PushOrder(m)
    BY <1>3 DEF PushOrder, TypeInv, NewOrder
  <2> QED
    BY <2>1, <2>2, OnlyPushOpens
<1>4. CASE report.state # "RECEIVING_FAILURE"
  <2>1. ASSUME NEW u \in Users, PageStep(u) \/ AddStep(u) PROVE FALSE
    BY <1>4, <2>1, PageSetsOrder, AddReports DEF SetsOrder, OpenedState
  <2>2. ASSUME NEW m \in Imports, CreateStep(m) \/ FulfilStep(m) PROVE FALSE
    <3>1. ~PushOrderFails(m)
      BY <1>0 DEF PushOrderFails
    <3>2. PushOrder(m) => report'.state = import[m].file.orderStatus /\ import[m].pc = "purchase"
      BY ReportType DEF PushOrder, Report
    <3> QED
      BY <1>2, <1>4, <2>2, <3>1, <3>2, CreateSetsOrder, FulfilReports
  <2>3. ASSUME ReceiveConsignment PROVE report'.consignment = "deleted"
    BY <1>0, <2>3, ReceiptFindsLines
  <2> QED
    BY <1>0, <1>4, <2>1, <2>2, <2>3 DEF Next, vars, ReceiptFails
<1> QED
  BY <1>3, <1>4

\* A receipt fails only when a call failed, when the order was deleted in Vend, or for a
\* line item that mixed.unpushed tells of: what the worker counts is part of the delivery,
\* the delivery is in Vend, and no page lets an order be received that never was there.
THEOREM ReceiptsFailForAReason == Spec => []ReceiptFailsForAReason
<1>1. Init => ReceiptFailsForAReason
  <2>1. Absent => report.state # "RECEIVING_FAILURE"
    BY DEF Absent
  <2>2. ASSUME NEW approved, Sent(approved) PROVE report.state # "RECEIVING_FAILURE"
    BY <2>2 DEF Sent
  <2> QED
    BY <2>1, <2>2 DEF Init, ReceiptFailsForAReason
<1> QED
  BY <1>1, TypeInit, TypeNext, DeliveryInit, DeliveryNext, ReceiptNext, PTL DEF Spec
=============================================================================

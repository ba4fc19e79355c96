---------------------------- MODULE MsdQuantities ----------------------------
(***************************************************************************)
(* How much a store of a Dynamics organisation orders from its warehouse.  *)
(*                                                                         *)
(* The products of a style are an "option".  An option whose inventory in  *)
(* the store is below the category's minimum is filled up to the           *)
(* category's maximum; its products share the quantity by their reorder    *)
(* points.  The code computes with fractions and rounds at the end: here a *)
(* quantity is a numerator over the reorder point of the option, and a     *)
(* reorder point is a whole number.  It may be below zero: a return is a   *)
(* sale of a negative quantity, and so may be the demand.                  *)
(***************************************************************************)
EXTENDS Integers, FiniteSetsExt

CONSTANTS
  Products, \* the products that the store has an inventory of
  Options,  \* the values of optionLevelKey
  OptionOf, \* the option of a product
  Unset     \* no minimum, no maximum, no multiplier

ASSUME QuantitiesAssumption ==
  /\ IsFiniteSet(Products) /\ OptionOf \in [Products -> Options]
  /\ Unset \notin Int

\* What a store's order depends on.  One multiplier at most is mapped to a product.
Inventory ==
  [level      : [Products -> Int],                \* in the store
   warehouse  : [Products -> Int],                \* in the warehouse, as inventory_level
   physical   : [Products -> Nat],                \* and as physical_inventory_level
   min        : [Options -> Int \union {Unset}],  \* of the category, for this store
   max        : [Options -> Int \union {Unset}],
   multiplier : [Products -> Nat \union {Unset}], \* if it is active
   demand     : [Products -> Int],                \* the reorder point that the sales give
   saved         : [Products -> Int],             \* stockUpReorderPoint
   calculated    : [Products -> {"never", "before", "today"}], \* standardDeviationCalculationDate
   calculatedFor : [Products -> Nat \union {Unset}], \* salesDateRangeInDays of the inventory
   range         : Nat \union {Unset},            \* and of the organisation
   everyTime     : BOOLEAN]                       \* recalculateReorderPointsEveryTime

\* createReorderPointBatches writes the date and the range together.
Stock == {s \in Inventory : \A p \in Products : s.calculated[p] = "never" => s.calculatedFor[p] = Unset}

In(o) == {p \in Products : OptionOf[p] = o}
SumOf(f, S) == MapThenSumSet(LAMBDA p : f[p], S)

\* createReorderPointBatches: a multiplier of zero is applied to the reorder point itself.
ReorderPoint(stock, p) == IF stock.multiplier[p] = 0 THEN 0 ELSE stock.demand[p]

\* calculateMinMax: a point of today is kept, unless the range of the sales has been changed.
\* A date that is missing is not before today, and a range that is missing is no other than
\* that of an organisation that has none.
ToCalculate(stock) ==
  {p \in Products : \/ stock.everyTime
                    \/ stock.calculated[p] = "before"
                    \/ stock.calculatedFor[p] # stock.range}

\* The reorder points once those that are due have been calculated.
Points(stock) ==
  [p \in Products |-> IF p \in ToCalculate(stock) THEN ReorderPoint(stock, p) ELSE stock.saved[p]]

\* to_replenish.  A minimum that is not set is not above any inventory.
ToReplenish(stock, point, o) ==
  /\ stock.min[o] # Unset /\ stock.min[o] > SumOf(stock.level, In(o))
  /\ SumOf(point, In(o)) > 0

InWarehouse(stock, o) == SumOf(stock.physical, In(o)) > 0

\* categoryMax || reorder_point
MaxOf(stock, point, o) == IF stock.max[o] \in {Unset, 0} THEN SumOf(point, In(o)) ELSE stock.max[o]

\* Mutant: an inventory below zero is made up for.
OptionOrderQuantityOwed(stock, point, o) == MaxOf(stock, point, o) - SumOf(stock.level, In(o))

OptionOrderQuantity(stock, point, o) ==
  LET onHand == SumOf(stock.level, In(o))
  IN MaxOf(stock, point, o) - IF onHand > 0 THEN onHand ELSE 0

\* Math.round of n / d, for n >= 0.
Round(n, d) == (2 * n + d) \div (2 * d)

\* The quantity of a product, over SumOf(point, In(OptionOf[p])), before the warehouse is
\* looked at.
Suggested(stock, point, p) ==
  point[p] * OptionOrderQuantity(stock, point, OptionOf[p])
    * IF stock.multiplier[p] = Unset THEN 1 ELSE stock.multiplier[p]

\* orderQuantity of a line: no more than the warehouse has.
OrderQuantity(stock, point, p) ==
  LET total     == SumOf(point, In(OptionOf[p]))
      suggested == Suggested(stock, point, p)
  IN IF stock.warehouse[p] * total > suggested THEN Round(suggested, total) ELSE stock.warehouse[p]

\* Mutant: what the warehouse has of the product is not tested.
LineItemsOfOptions(stock, point) ==
  {p \in Products : /\ ToReplenish(stock, point, OptionOf[p]) /\ InWarehouse(stock, OptionOf[p])
                    /\ OptionOrderQuantity(stock, point, OptionOf[p]) > 0
                    /\ Suggested(stock, point, p) > 0}

\* lineItemsToOrder: a positive quantity makes a line even if it is rounded to zero.
LineItemsToOrder(stock, point) ==
  {p \in Products : /\ ToReplenish(stock, point, OptionOf[p]) /\ InWarehouse(stock, OptionOf[p])
                    /\ OptionOrderQuantity(stock, point, OptionOf[p]) > 0
                    /\ Suggested(stock, point, p) > 0 /\ stock.warehouse[p] > 0}
=============================================================================

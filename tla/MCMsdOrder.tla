----------------------------- MODULE MCMsdOrder -----------------------------
(* One option of two products: an order that is transferred, every         *)
(* combination of the inventories that the quantities depend on, and the   *)
(* reorder points that may be saved when the order is made.                *)
EXTENDS MsdOrder, TLC

CONSTANTS p1, p2, option1

MCOptionOf == (p1 :> option1) @@ (p2 :> option1)
Both(f1, f2) == (p1 :> f1) @@ (p2 :> f2)

\* What p1 and the organisation may have when the order is made: p1 was calculated before
\* today; today; today, for another range, or recalculated all the same; or never, with a
\* range and without.
Due == [saved |-> 3, calculated |-> "before", for |-> 30, range |-> 30, everyTime |-> FALSE]
Saved == {Due,
          [Due EXCEPT !.calculated = "today"],
          [Due EXCEPT !.calculated = "today", !.for = 7],
          [Due EXCEPT !.calculated = "today", !.everyTime = TRUE],
          [Due EXCEPT !.calculated = "never", !.saved = 0, !.for = Unset],
          [Due EXCEPT !.calculated = "never", !.saved = 0, !.for = Unset, !.range = Unset]}

StockOf(s, level, w1, w2, physical, min, max, multiplier, demand) ==
  [level |-> Both(level, 0), warehouse |-> Both(w1, w2), physical |-> Both(physical, 0),
   min |-> option1 :> min, max |-> option1 :> max,
   multiplier |-> Both(multiplier, Unset), demand |-> Both(demand, 2),
   saved |-> Both(s.saved, 1), calculated |-> Both(s.calculated, "before"),
   calculatedFor |-> Both(s.for, s.range), range |-> s.range, everyTime |-> s.everyTime]

Plain == StockOf(Due, 1, 9, 9, 9, 2, 4, Unset, 1)

MCStocks ==
  {Plain}
  \union {StockOf(Due, level, w1, w2, physical, min, max, multiplier, demand) :
            level \in {-2, 0, 1}, w1 \in {-1, 1, 9}, w2 \in {0, 9}, physical \in {0, 9},
            min \in {Unset, 0, 2}, max \in {Unset, 0, 1, 4}, multiplier \in {Unset, 0, 2},
            demand \in {0, 1}}
  \union {StockOf(s, level, w1, 9, 9, 2, max, multiplier, demand) :
            s \in Saved, level \in {-2, 1}, w1 \in {1, 9}, max \in {Unset, 4},
            multiplier \in {Unset, 0}, demand \in {-1, 1}}
MCReviewed == {Plain}

Symmetry == Permutations(Sessions) \union Permutations(Jobs) \union Permutations(TransferOrders)
=============================================================================

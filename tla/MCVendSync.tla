----------------------------- MODULE MCVendSync -----------------------------
(* A catalogue for TLC: every product is of the one supplier, every        *)
(* inventory record of the first product.                                  *)
EXTENDS VendSync

CONSTANTS supplier1, product1, product2, inventory1, sale1

MCRef == [r \in Products \union Inventory |-> IF r \in Products THEN supplier1 ELSE product1]
=============================================================================

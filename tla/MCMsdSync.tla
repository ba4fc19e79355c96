----------------------------- MODULE MCMsdSync -----------------------------
(* Staging tables for TLC: one row each, and a second product.             *)
EXTENDS MsdSync

CONSTANTS product1, product2, category1, dim1, inventory1, sale1, line1

MCRef == [r \in Categories \union Inventory \union SalesLines |->
            CASE r \in Categories -> Master [] r \in Inventory -> product1 [] OTHER -> sale1]
MCProductOf == [r \in Categories |-> product1]
MCDimOf == [r \in Inventory |-> dim1]
=============================================================================

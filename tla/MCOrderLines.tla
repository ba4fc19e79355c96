---------------------------- MODULE MCOrderLines ----------------------------
EXTENDS OrderLines, TLC

CONSTANTS p1, p2

R(n, p, o, f) == [nr |-> n, product |-> p, orderQuantity |-> o, fulfilledQuantity |-> f]

MCFiles == {[orderStatus |-> "FULFILMENT_PENDING", rows |-> {R(1, p1, 1, 1), R(2, p2, 1, 0)}],
            [orderStatus |-> "RECEIVING_PENDING", rows |-> {R(1, p1, 1, 1)}],
            [orderStatus |-> "GENERATED", rows |-> {R(1, p1, 1, 0)}]}
MCOrdered == <<p1, p2>>
=============================================================================

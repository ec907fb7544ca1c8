------------------------------ MODULE MCOrders ------------------------------
(* The two orders NewOrderRepository starts with, their owners and an      *)
(* approver.  Ints reach from -4 to 3.                                     *)
EXTENDS Orders

MCStored ==
    [i \in {"1", "2"} |->
        IF i = "1" THEN [owner |-> "alice", total |-> 1, status |-> "pending"]
                   ELSE [owner |-> "bob", total |-> 2, status |-> "pending"]]

\* The approver's limit is 1; bob's covers every amount; alice has none.
MCLimit == [c \in Caller |-> CASE c = "approver" -> 2
                               [] c = "bob" -> 10
                               [] c = "alice" -> None]

\* 0, 0.5, 1, 2 and 4, which no int of this instance holds.
MCAmounts == {0, 1, 2, 4, 8}
MCWholeAmounts == {0, 2}

\* amd64 gives the smallest int for a value out of range (arm64: the largest).
MCSmallest == 0 - MaxTotal - 1
=============================================================================

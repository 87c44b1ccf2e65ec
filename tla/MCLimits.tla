----------------------------- MODULE MCLimits -----------------------------
(* Two attempts on a client with a slot ledger and a bucket, and the lists *)
(* an operator may publish: a renamed ledger, a renamed bucket, limits     *)
(* dropped, left unnamed, or doubled.                                      *)
EXTENDS LimitSet

Slot(n, m)  == [type |-> "concurrencyLimit", name |-> n, max |-> m]
Token(n, m) == [type |-> "requestLimit", name |-> n, max |-> m]
Free        == [type |-> "noLimit", name |-> "default", max |-> 0]

MCInitLimits == <<Slot("s", 1), Token("q", 2)>>

MCDeclared ==
    { <<Slot("t", 2), Token("r", 1)>>,
      <<Token(NoName, 1)>>,
      <<Token(NoName, 1), Token(NoName, 2)>>,
      <<Free>> }

MCCost == [a \in Attempts |->
    IF a = 1 THEN [each |-> FALSE, of |-> [n \in Names |-> 1]]
    ELSE [each |-> TRUE, of |-> [n \in Names |-> IF n \in {"s", "q"} THEN 1 ELSE 0]]]
===========================================================================

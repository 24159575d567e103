---------------------------- MODULE MCOrderDesk ----------------------------
(* OrderDesk on one order of two lines, from four stages of its fulfilment. *)
EXTENDS OrderDesk, TLC

CONSTANTS l1, l2, c1, c2, k1, k2

Two == l1 :> 1 @@ l2 :> 2

Stage(o, s1, s2, n, r1, r2) ==
    [order |-> o, loaded |-> o # "payment_failed", ret |-> k1 :> r1 @@ k2 :> r2,
     line |-> [l \in Lines |-> [status |-> IF l = l1 THEN s1 ELSE s2, returned |-> 0, pin |-> n]]]

Pending(l, n) == [status |-> "pending", line |-> l, units |-> n]

\* Two returns of the same line are pending: the second asks for a unit the first takes.
Stages == {Stage("ready", "ready", "ready", 1, None, None),
           Stage("delivered", "delivered", "delivered", 0, Pending(l2, 2), Pending(l2, 1)),
           Stage("processing", "allocated", "ready", 0, None, None),
           Stage("payment_failed", "open", "allocated", 0, None, None)}

Symmetric == Permutations(Calls)
=============================================================================

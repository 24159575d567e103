---------------------------- MODULE StockCounter ----------------------------
(***************************************************************************)
(* What the inventory service promises its callers: however calls overlap, *)
(* each of them is answered once, and a call that is told "ok" has had its *)
(* own operation applied once, to the values its row held at that moment.  *)
(* StockService.tla models how the code keeps this promise with optimistic *)
(* concurrency; it is shown to implement this specification.               *)
(***************************************************************************)
EXTENDS Integers

CONSTANTS
    Sku,        \* stock rows: (VariantId, WarehouseId)
    Call,       \* calls, each made once
    Command,    \* what calls may ask: records of op, sku and qty
    MaxInt      \* largest value of the INTEGER columns and of C# int

VARIABLES
    counter,    \* [Sku -> [exists, quantity, reserved]]
    cmd,        \* [Call -> Command]
    answer      \* [Call -> what its caller is told]

vars == <<counter, cmd, answer>>

Absent == [exists |-> FALSE, quantity |-> 0, reserved |-> 0]

\* No unit is reserved before the first call; a row may already be on hand.
Init ==
    /\ counter \in [Sku -> {Absent} \union [exists : {TRUE}, quantity : 0..MaxInt, reserved : {0}]]
    /\ cmd \in [Call -> Command]
    /\ answer = [c \in Call |-> "pending"]

Row(c) == counter[cmd[c].sku]

Asks(c, op) == answer[c] = "pending" /\ cmd[c].op = op

Answer(c, outcome) == answer' = [answer EXCEPT ![c] = outcome] /\ UNCHANGED cmd

Done(c, q, r) ==
    /\ counter' = [counter EXCEPT ![cmd[c].sku] = [exists |-> TRUE, quantity |-> q, reserved |-> r]]
    /\ Answer(c, "ok")

Reserve(c) ==
    /\ Asks(c, "reserve")
    /\ Row(c).exists
    /\ Row(c).reserved + cmd[c].qty <= Row(c).quantity
    /\ Done(c, Row(c).quantity, Row(c).reserved + cmd[c].qty)

\* A release gives back what is reserved, and never more than that.
Release(c) ==
    /\ Asks(c, "release")
    /\ Row(c).exists
    /\ Done(c, Row(c).quantity,
            IF cmd[c].qty > Row(c).reserved THEN 0 ELSE Row(c).reserved - cmd[c].qty)

\* The quantity never goes below what is reserved, or past the column's type.
Adjust(c) ==
    /\ Asks(c, "adjust")
    /\ Row(c).exists
    /\ Row(c).quantity + cmd[c].qty \in Row(c).reserved..MaxInt
    /\ Done(c, Row(c).quantity + cmd[c].qty, Row(c).reserved)

SetOnHand(c) ==
    /\ Asks(c, "set")
    /\ cmd[c].qty >= Row(c).reserved
    /\ Done(c, cmd[c].qty, Row(c).reserved)

\* A call may also be refused or fail; then it has changed nothing.
Fail(c) ==
    /\ answer[c] = "pending"
    /\ \E outcome \in {"out_of_stock", "invalid_stock", "not_found",
                       "conflict", "db_check", "duplicate"} : Answer(c, outcome)
    /\ UNCHANGED counter

Next == \E c \in Call : Reserve(c) \/ Release(c) \/ Adjust(c) \/ SetOnHand(c) \/ Fail(c)

Spec == Init /\ [][Next]_vars
=============================================================================

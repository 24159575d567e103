---------------------------- MODULE StockService ----------------------------
(***************************************************************************)
(* The inventory service's stock rows under concurrent calls.              *)
(*                                                                         *)
(* A call is one request or message line that reaches StockService         *)
(* (reserve, release, adjust) or SqlStockPersistence.SetOnHandQuantity.    *)
(* The first three read the row, run the domain operation in memory and    *)
(* commit with a compare-and-set on the row's Revision, retrying a lost    *)
(* race at most MaxRetries times.  Set-on-hand reads the row and then      *)
(* overwrites the quantity with no revision guard.  Each commit writes the *)
(* row, one StockMovements line and one StockUpdated.v1 outbox line in a   *)
(* single database transaction, and PostgreSQL's CHECK constraints are the *)
(* last word on the row.                                                   *)
(***************************************************************************)
EXTENDS Integers

CONSTANTS
    Sku,         \* stock rows: (VariantId, WarehouseId)
    Call,        \* calls in the system, each made once
    MaxInt,      \* int.MaxValue; arithmetic is modulo 2 * (MaxInt + 1)
    MaxRetries,  \* maxRetries of ExecuteWithRetryAsync (3 in the code)
    Opening,     \* quantities rows may have before the first call
    Units,       \* quantities that callers reserve or release
    Deltas,      \* deltas that callers adjust by
    OnHand       \* quantities that callers set on hand

ASSUME StockAssumption ==
    /\ MaxInt \in Nat \ {0}
    /\ MaxRetries \in Nat
    /\ Opening \subseteq 0..MaxInt
    /\ Units \subseteq 1..MaxInt
    /\ Deltas \subseteq (-(MaxInt + 1))..MaxInt
    /\ OnHand \subseteq 0..MaxInt

VARIABLES
    stock,      \* [Sku -> row]; a revision of 0 stands for "no such row"
    movements,  \* [Sku -> Int]: sum of the row's StockMovements.Delta
    event,      \* [Sku -> [quantity, reserved]]: its latest StockUpdated.v1
    cmd,        \* [Call -> command]: what the call asks for
    pc,         \* [Call -> "read" | "commit" | "done"]
    snap,       \* [Call -> row]: the row as the call last read it
    attempt,    \* [Call -> Nat]: lost races so far
    began,      \* [Call -> Nat]: the row's revision at the call's first read
    result,     \* [Call -> outcome]: what the caller is told
    writes      \* [Call -> Nat]: transactions the call has committed

vars == <<stock, movements, event, cmd, pc, snap, attempt, began, result, writes>>
-----------------------------------------------------------------------------
Row == [quantity : 0..MaxInt, reserved : 0..MaxInt, revision : Nat]

NoRow == [quantity |-> 0, reserved |-> 0, revision |-> 0]

Available(row) == row.quantity - row.reserved

Command == [op : {"reserve", "release"}, sku : Sku, qty : Units]
             \union [op : {"adjust"}, sku : Sku, qty : Deltas]
             \union [op : {"set"}, sku : Sku, qty : OnHand]

Refusals == {"out_of_stock", "invalid_stock"}

\* "db_check" and "duplicate" are PostgreSQL errors that no handler expects.
Results == {"pending", "ok", "not_found", "conflict", "db_check", "duplicate"}
             \union Refusals

\* C# int addition of a non-negative and any int: wraps past MaxInt.
Wrap(x) == IF x > MaxInt THEN x - 2 * (MaxInt + 1) ELSE x

\* Mutant of Refusal: a reserve looks at the units on hand, not the available.
RefusalOnHand(k, row) ==
    IF k.op = "reserve" /\ k.qty > row.quantity THEN "out_of_stock" ELSE "none"

\* VariantStock.Reserve / Adjust throw; "none" when the operation is accepted.
Refusal(k, row) ==
    LET adjusted == Wrap(row.quantity + k.qty)
    IN  IF \/ k.op = "reserve" /\ k.qty > Available(row)
           \/ k.op = "adjust" /\ adjusted < 0 /\ k.qty < 0
          THEN "out_of_stock"
          ELSE IF \/ k.op = "adjust" /\ adjusted < row.reserved
                  \/ k.op = "set" /\ k.qty < row.reserved
                 THEN "invalid_stock"
                 ELSE "none"

\* The row after an accepted operation, before the commit bumps its revision.
Apply(k, row) ==
    CASE k.op = "reserve" -> [row EXCEPT !.reserved = @ + k.qty]
      [] k.op = "release" -> [row EXCEPT !.reserved = IF k.qty > @ THEN 0 ELSE @ - k.qty]
      [] k.op = "adjust"  -> [row EXCEPT !.quantity = Wrap(@ + k.qty)]
      [] k.op = "set"     -> [row EXCEPT !.quantity = k.qty]

\* Mutant of MovementDelta: a reserve is booked with the wrong sign.
UnsignedDelta(k, row) == IF k.op = "set" THEN k.qty - row.quantity ELSE k.qty

\* What the call appends to StockMovements, computed from the row it read.
MovementDelta(k, row) ==
    CASE k.op = "reserve" -> -k.qty
      [] k.op \in {"release", "adjust"} -> k.qty
      [] k.op = "set" -> k.qty - row.quantity

\* CK_VariantStock_NonNegative and CK_VariantStock_ReservedLeQty.
CheckOk(row) == row.quantity >= 0 /\ row.reserved >= 0 /\ row.reserved <= row.quantity
-----------------------------------------------------------------------------
Init ==
    /\ stock \in [Sku -> {NoRow} \union [quantity : Opening, reserved : {0}, revision : {1}]]
    /\ movements = [s \in Sku |-> stock[s].quantity]
    /\ event = [s \in Sku |-> [quantity |-> stock[s].quantity, reserved |-> 0]]
    /\ cmd \in [Call -> Command]
    /\ pc = [c \in Call |-> "read"]
    /\ snap = [c \in Call |-> NoRow]
    /\ attempt = [c \in Call |-> 0]
    /\ began = [c \in Call |-> 0]
    /\ result = [c \in Call |-> "pending"]
    /\ writes = [c \in Call |-> 0]

Finish(c, outcome) ==
    /\ pc' = [pc EXCEPT ![c] = "done"]
    /\ result' = [result EXCEPT ![c] = outcome]

\* GetStockAsync (or set-on-hand's own SELECT), then the domain operation on
\* the row just read.  A missing row ends every call but set-on-hand.
Read(c) ==
    LET k == cmd[c]
        row == stock[k.sku]
    IN  /\ pc[c] = "read"
        /\ snap' = [snap EXCEPT ![c] = row]
        /\ began' = IF attempt[c] = 0 THEN [began EXCEPT ![c] = row.revision] ELSE began
        /\ IF row.revision = 0 /\ k.op # "set"
             THEN Finish(c, "not_found")
             ELSE IF Refusal(k, row) # "none"
                    THEN Finish(c, Refusal(k, row))
                    ELSE pc' = [pc EXCEPT ![c] = "commit"] /\ UNCHANGED result
        /\ UNCHANGED <<stock, movements, event, cmd, attempt, writes>>

\* Mutant of Write: the outbox line is built before the operation is applied.
WriteEarlyEvent(c, row, announced) ==
    /\ CheckOk(row)
    /\ stock' = [stock EXCEPT ![cmd[c].sku] = [row EXCEPT !.revision = stock[cmd[c].sku].revision + 1]]
    /\ movements' = [movements EXCEPT ![cmd[c].sku] = @ + MovementDelta(cmd[c], snap[c])]
    /\ event' = [event EXCEPT ![cmd[c].sku] = [quantity |-> snap[c].quantity,
                                               reserved |-> snap[c].reserved]]
    /\ writes' = [writes EXCEPT ![c] = @ + 1]
    /\ Finish(c, "ok")

\* One database transaction: row, movement, outbox line; or none of the three.
Write(c, row, announced) ==
    LET s == cmd[c].sku
    IN  IF CheckOk(row)
          THEN /\ stock' = [stock EXCEPT ![s] = [row EXCEPT !.revision = stock[s].revision + 1]]
               /\ movements' = [movements EXCEPT ![s] = @ + MovementDelta(cmd[c], snap[c])]
               /\ event' = [event EXCEPT ![s] = announced]
               /\ writes' = [writes EXCEPT ![c] = @ + 1]
               /\ Finish(c, "ok")
          ELSE /\ Finish(c, "db_check")
               /\ UNCHANGED <<stock, movements, event, writes>>

\* Mutant of Commit: the UPDATE has no "AND Revision = @expected".
CommitUnguarded(c) ==
    LET row == Apply(cmd[c], snap[c])
    IN  /\ pc[c] = "commit"
        /\ cmd[c].op # "set"
        /\ Write(c, row, [quantity |-> row.quantity, reserved |-> row.reserved])
        /\ UNCHANGED <<cmd, snap, attempt, began>>

\* CommitStockChangeAsync when the revision still is the one that was read.
Commit(c) ==
    LET row == Apply(cmd[c], snap[c])
    IN  /\ pc[c] = "commit"
        /\ cmd[c].op # "set"
        /\ stock[cmd[c].sku].revision = snap[c].revision
        /\ Write(c, row, [quantity |-> row.quantity, reserved |-> row.reserved])
        /\ UNCHANGED <<cmd, snap, attempt, began>>

LostRace(c) ==
    /\ pc[c] = "commit"
    /\ cmd[c].op # "set"
    /\ stock[cmd[c].sku].revision # snap[c].revision

RetryRead(c) ==
    /\ attempt' = [attempt EXCEPT ![c] = @ + 1]
    /\ pc' = [pc EXCEPT ![c] = "read"]
    /\ UNCHANGED result

\* Mutant of LoseRace: the retries are not bounded.
LoseRaceUnbounded(c) ==
    /\ LostRace(c)
    /\ RetryRead(c)
    /\ UNCHANGED <<stock, movements, event, cmd, snap, began, writes>>

\* Mutant of LoseRace: the bound on the retries is one too low.
LoseRaceOneShort(c) ==
    /\ LostRace(c)
    /\ IF attempt[c] >= MaxRetries - 1
         THEN Finish(c, "conflict") /\ UNCHANGED attempt
         ELSE RetryRead(c)
    /\ UNCHANGED <<stock, movements, event, cmd, snap, began, writes>>

\* Mutant of LoseRace: the movement was inserted outside the transaction.
LoseRaceKeepsMovement(c) ==
    /\ LostRace(c)
    /\ attempt[c] < MaxRetries
    /\ RetryRead(c)
    /\ movements' = [movements EXCEPT ![cmd[c].sku] = @ + MovementDelta(cmd[c], snap[c])]
    /\ writes' = [writes EXCEPT ![c] = @ + 1]
    /\ UNCHANGED <<stock, event, cmd, snap, began>>

\* Mutant of LoseRace: the retry commits again without reading again.
LoseRaceSameSnapshot(c) == LostRace(c) /\ UNCHANGED vars

\* CommitStockChangeAsync updated no row: StockConcurrencyException, then the
\* next attempt reads again, or the last one reports the conflict.
LoseRace(c) ==
    /\ LostRace(c)
    /\ IF attempt[c] >= MaxRetries
         THEN Finish(c, "conflict") /\ UNCHANGED attempt
         ELSE RetryRead(c)
    /\ UNCHANGED <<stock, movements, event, cmd, snap, began, writes>>

\* SetOnHandQuantityAsync saw no row: INSERT, unless another call was first.
InsertOnHand(c) ==
    /\ pc[c] = "commit"
    /\ cmd[c].op = "set"
    /\ snap[c].revision = 0
    /\ IF stock[cmd[c].sku].revision # 0
         THEN Finish(c, "duplicate") /\ UNCHANGED <<stock, movements, event, writes>>
         ELSE Write(c, Apply(cmd[c], NoRow), [quantity |-> cmd[c].qty, reserved |-> 0])
    /\ UNCHANGED <<cmd, snap, attempt, began>>

\* SetOnHandQuantityAsync saw a row: UPDATE the quantity, whatever happened
\* to the row since; movement and envelope still use the row that was read.
OverwriteOnHand(c) ==
    /\ pc[c] = "commit"
    /\ cmd[c].op = "set"
    /\ snap[c].revision # 0
    /\ Write(c, Apply(cmd[c], stock[cmd[c].sku]),
             [quantity |-> cmd[c].qty, reserved |-> snap[c].reserved])
    /\ UNCHANGED <<cmd, snap, attempt, began>>

Step(c) == Read(c) \/ Commit(c) \/ LoseRace(c) \/ InsertOnHand(c) \/ OverwriteOnHand(c)

Next == \E c \in Call : Step(c)

\* A thread that runs a call is never abandoned by the scheduler, and the
\* database answers every statement.
Fairness == \A c \in Call : WF_vars(Step(c))

Spec == Init /\ [][Next]_vars

FairSpec == Spec /\ Fairness
-----------------------------------------------------------------------------
TypeOK ==
    /\ stock \in [Sku -> Row]
    /\ movements \in [Sku -> Int]
    /\ event \in [Sku -> [quantity : 0..MaxInt, reserved : 0..MaxInt]]
    /\ cmd \in [Call -> Command]
    /\ pc \in [Call -> {"read", "commit", "done"}]
    /\ snap \in [Call -> Row]
    /\ attempt \in [Call -> 0..MaxRetries]
    /\ began \in [Call -> Nat]
    /\ result \in [Call -> Results]
    /\ writes \in [Call -> Nat]

\* The domain operations and the compare-and-set keep reserved <= quantity by
\* themselves: a reserve, release or adjust never runs into the CHECK
\* constraint (its caller would get an unexpected database error).
CasNeverTripsCheck ==
    \A c \in Call : cmd[c].op # "set" => result[c] # "db_check"

\* Retrying never applies an operation twice, and a caller that is told
\* anything but "ok" changed nothing.
WrittenOnceIffOk ==
    \A c \in Call : writes[c] = (IF result[c] = "ok" THEN 1 ELSE 0)

\* A caller is told "conflict" only after the row really changed under it
\* MaxRetries + 1 times (StockService's bound on the retries is neither
\* shorter nor longer).
ConflictMeansContention ==
    \A c \in Call : result[c] = "conflict"
        => stock[cmd[c].sku].revision > began[c] + MaxRetries

\* A set-on-hand that commits after the row moved on since its SELECT.
StaleSet(c) ==
    cmd[c].op = "set" /\ snap[c].revision # stock[cmd[c].sku].revision

OverRelease(c) ==
    cmd[c].op = "release" /\ cmd[c].qty > stock[cmd[c].sku].reserved

CommitsNow(c, s) == cmd[c].sku = s /\ writes'[c] # writes[c]

\* How far the movements ledger is from the units it should account for.
Drift(s) == movements[s] - Available(stock[s])

\* The ledger follows the available quantity exactly; the only steps that
\* make it drift are a release of more than is reserved (the code clamps the
\* row but records the full quantity) and a set-on-hand that overwrote a
\* concurrent change (SetOnHandQuantityAsync has no revision guard).
DriftOnlyFromClampOrStaleSet ==
    [][\A s \in Sku : Drift(s)' # Drift(s)
         => \E c \in Call : CommitsNow(c, s) /\ (OverRelease(c) \/ StaleSet(c))]_vars

\* The StockUpdated.v1 line appended with a change carries the row's new
\* quantity, and its new reserved quantity unless a stale set-on-hand wrote it.
EventsDescribeTheRow ==
    [][\A s \in Sku : stock'[s] # stock[s]
         => /\ event'[s].quantity = stock'[s].quantity
            /\ \/ event'[s].reserved = stock'[s].reserved
               \/ \E c \in Call : CommitsNow(c, s) /\ StaleSet(c)]_vars

\* The service implements the abstract counters: a call that is told "ok" has
\* had its own operation applied once, to the values of that moment; any other
\* answer changed nothing.  No update is lost, and none is applied twice.
AsCounter == [s \in Sku |-> [exists   |-> stock[s].revision # 0,
                             quantity |-> stock[s].quantity,
                             reserved |-> stock[s].reserved]]

Counter == INSTANCE StockCounter WITH counter <- AsCounter, answer <- result

RefinesCounter == Counter!Spec

\* Every call is answered: bounded retries, no lock to wait for.
EveryCallAnswered == \A c \in Call : <>(pc[c] = "done")
=============================================================================

------------------------- MODULE StockServiceProofs -------------------------
(***************************************************************************)
(* Theorems about StockService for every set of rows and calls, every      *)
(* int.MaxValue and every bound on the retries.                            *)
(***************************************************************************)
EXTENDS StockService, TLAPS

\* A row that does not exist holds nothing; a row that does satisfies the
\* CHECK constraints.
RowsInv ==
    \A s \in Sku : CheckOk(stock[s]) /\ (stock[s].revision = 0 => stock[s] = NoRow)

\* What a call that is about to commit knows of the row: it passed the domain
\* rules, the row has not gone back since, and an equal revision means that
\* the row is still the one that was read.
SnapInv ==
    \A c \in Call : pc[c] = "commit" =>
        /\ CheckOk(snap[c])
        /\ Refusal(cmd[c], snap[c]) = "none"
        /\ snap[c].revision <= stock[cmd[c].sku].revision
        /\ snap[c].revision = stock[cmd[c].sku].revision => snap[c] = stock[cmd[c].sku]
        /\ snap[c].revision = 0 => cmd[c].op = "set" /\ snap[c] = NoRow

\* Every lost race is a revision the row gained after the call first read it.
RaceInv ==
    \A c \in Call :
        /\ pc[c] = "read" => stock[cmd[c].sku].revision >= began[c] + attempt[c]
        /\ pc[c] = "commit" => snap[c].revision >= began[c] + attempt[c]
        /\ result[c] = "conflict" => stock[cmd[c].sku].revision > began[c] + MaxRetries

AnswerInv ==
    \A c \in Call :
        /\ pc[c] = "done" <=> result[c] # "pending"
        /\ writes[c] = (IF result[c] = "ok" THEN 1 ELSE 0)
        /\ result[c] = "db_check" => cmd[c].op = "set"

IInv == TypeOK /\ RowsInv /\ SnapInv /\ RaceInv /\ AnswerInv
-----------------------------------------------------------------------------
\* The domain rules of VariantStock are enough for the CHECK constraints and
\* for the INTEGER columns, a wrapped C# sum included.
LEMMA AcceptedRow ==
    ASSUME NEW k \in Command, NEW row \in Row, CheckOk(row), Refusal(k, row) = "none"
    PROVE  /\ Apply(k, row) \in Row
           /\ CheckOk(Apply(k, row))
           /\ Apply(k, row).revision = row.revision
  <1>1. CASE k.op = "reserve"
    BY <1>1, StockAssumption DEF Command, Row, CheckOk, Refusal, Apply, Available
  <1>2. CASE k.op = "release"
    BY <1>2, StockAssumption DEF Command, Row, CheckOk, Refusal, Apply
  <1>3. CASE k.op = "adjust"
    <2>1. k.qty \in (-(MaxInt + 1))..MaxInt
      BY <1>3, StockAssumption DEF Command
    <2>2. Wrap(row.quantity + k.qty) \in row.reserved..MaxInt
      BY <2>1, <1>3, StockAssumption DEF Row, CheckOk, Refusal, Wrap
    <2> QED
      BY <2>1, <2>2, <1>3, StockAssumption DEF Row, CheckOk, Apply
  <1>4. CASE k.op = "set"
    BY <1>4, StockAssumption DEF Command, Row, CheckOk, Refusal, Apply
  <1> QED
    BY <1>1, <1>2, <1>3, <1>4 DEF Command

\* A refused operation is answered with one of the two refusals.
LEMMA RefusalValues ==
    ASSUME NEW k, NEW row
    PROVE  Refusal(k, row) \in Refusals \union {"none"}
  BY DEF Refusal, Refusals
-----------------------------------------------------------------------------
\* No call has read anything yet, and no unit is reserved.
LEMMA InitIInv == Init => IInv
  <1> SUFFICES ASSUME Init PROVE IInv
    OBVIOUS
  <1> USE StockAssumption DEF Init
  <1>1. \A s \in Sku : /\ stock[s] \in Row
                       /\ CheckOk(stock[s])
                       /\ stock[s].revision = 0 => stock[s] = NoRow
    <2> TAKE s \in Sku
    <2>1. CASE stock[s] = NoRow
      BY <2>1 DEF Row, CheckOk, NoRow
    <2>2. CASE stock[s] \in [quantity : Opening, reserved : {0}, revision : {1}]
      <3>1. stock[s].quantity \in 0..MaxInt
        BY <2>2
      <3>2. stock[s] = [quantity |-> stock[s].quantity, reserved |-> 0, revision |-> 1]
        BY <2>2
      <3> QED
        BY <3>1, <3>2 DEF Row, CheckOk
    <2> QED
      BY <2>1, <2>2
  <1>2. RowsInv
    BY <1>1 DEF RowsInv
  <1>3. TypeOK
    <2>1. stock \in [Sku -> Row]
      BY <1>1
    <2>2. movements \in [Sku -> Int] /\ event \in [Sku -> [quantity : 0..MaxInt, reserved : 0..MaxInt]]
      BY <1>1 DEF Row
    <2>3. snap \in [Call -> Row]
      BY DEF Row, NoRow
    <2> QED
      BY <2>1, <2>2, <2>3 DEF TypeOK, Results
  <1>4. SnapInv
    BY DEF SnapInv
  <1>5. RaceInv
    <2>1. \A c \in Call : cmd[c].sku \in Sku
      BY DEF Command
    <2>2. \A c \in Call : stock[cmd[c].sku].revision >= 0
      BY <1>1, <2>1 DEF Row
    <2> QED
      BY <2>2 DEF RaceInv
  <1>6. AnswerInv
    BY DEF AnswerInv
  <1> QED
    BY <1>2, <1>3, <1>4, <1>5, <1>6 DEF IInv

\* Reading changes nothing but what the call knows.
LEMMA ReadIInv ==
    ASSUME IInv, NEW c \in Call, Read(c) PROVE IInv'
  <1> DEFINE k == cmd[c]
             row == stock[k.sku]
  <1> USE DEF IInv
  <1>1. /\ k \in Command
        /\ k.sku \in Sku
        /\ row \in Row
        /\ Refusal(k, row) \in Refusals \union {"none"}
    BY RefusalValues DEF TypeOK, Command
  <1>2. /\ pc[c] = "read"
        /\ result[c] = "pending"
        /\ snap' = [snap EXCEPT ![c] = row]
        /\ UNCHANGED <<stock, movements, event, cmd, attempt, writes>>
        /\ began' \in [Call -> Nat]
        /\ \A d \in Call \ {c} : began'[d] = began[d]
        /\ began'[c] = IF attempt[c] = 0 THEN row.revision ELSE began[c]
    BY <1>1 DEF Read, TypeOK, AnswerInv, Row
  <1>3. \/ /\ pc' = [pc EXCEPT ![c] = "commit"]
           /\ UNCHANGED result
           /\ Refusal(k, row) = "none"
           /\ row.revision = 0 => k.op = "set"
        \/ \E o \in Refusals \union {"not_found"} : Finish(c, o)
    BY <1>1 DEF Read
  <1>4. TypeOK'
    BY <1>1, <1>2, <1>3 DEF TypeOK, Finish, Results, Refusals
  <1>5. RowsInv'
    BY <1>2 DEF RowsInv, CheckOk
  <1>6. SnapInv'
    <2> SUFFICES ASSUME NEW d \in Call, pc'[d] = "commit"
                 PROVE  /\ CheckOk(snap'[d])
                        /\ Refusal(cmd[d], snap'[d]) = "none"
                        /\ snap'[d].revision <= stock[cmd[d].sku].revision
                        /\ snap'[d].revision = stock[cmd[d].sku].revision
                             => snap'[d] = stock[cmd[d].sku]
                        /\ snap'[d].revision = 0 => cmd[d].op = "set" /\ snap'[d] = NoRow
      BY SMTT(30), <1>2 DEF SnapInv, CheckOk, Refusal, Wrap, Available
    <2>1. CASE d = c
      BY <2>1, <1>1, <1>2, <1>3 DEF TypeOK, RowsInv, Finish, Row
    <2>2. CASE d # c
      BY <2>2, <1>2, <1>3 DEF TypeOK, SnapInv, Finish
    <2> QED
      BY <2>1, <2>2
  <1>7. RaceInv'
    <2> SUFFICES ASSUME NEW d \in Call
                 PROVE  /\ pc'[d] = "read" => stock[cmd[d].sku].revision >= began'[d] + attempt[d]
                        /\ pc'[d] = "commit" => snap'[d].revision >= began'[d] + attempt[d]
                        /\ result'[d] = "conflict"
                             => stock[cmd[d].sku].revision > began'[d] + MaxRetries
      BY <1>2 DEF RaceInv
    <2>1. CASE d = c
      <3>1. result'[c] # "conflict" /\ pc'[c] # "read"
        BY <1>2, <1>3 DEF TypeOK, Finish, Refusals
      <3>2. stock[cmd[c].sku].revision >= began'[c] + attempt[c]
        BY <1>1, <1>2 DEF RaceInv, TypeOK, Row
      <3> QED
        BY <2>1, <3>1, <3>2, <1>2 DEF TypeOK
    <2>2. CASE d # c
      BY <2>2, <1>2, <1>3 DEF TypeOK, RaceInv, Finish
    <2> QED
      BY <2>1, <2>2
  <1>8. AnswerInv'
    BY <1>2, <1>3 DEF AnswerInv, TypeOK, Finish, Refusals
  <1> QED
    BY <1>4, <1>5, <1>6, <1>7, <1>8

\* A lost race is charged to the call only when the revision really moved on.
LEMMA LoseRaceIInv ==
    ASSUME IInv, NEW c \in Call, LoseRace(c) PROVE IInv'
  <1> USE DEF IInv
  <1>1. /\ pc[c] = "commit"
        /\ result[c] = "pending"
        /\ cmd[c] \in Command
        /\ cmd[c].sku \in Sku
        /\ stock[cmd[c].sku].revision > snap[c].revision
        /\ snap[c].revision >= began[c] + attempt[c]
        /\ UNCHANGED <<stock, movements, event, cmd, snap, began, writes>>
    <2>1. /\ pc[c] = "commit"
          /\ stock[cmd[c].sku].revision # snap[c].revision
          /\ UNCHANGED <<stock, movements, event, cmd, snap, began, writes>>
      BY DEF LoseRace, LostRace, RetryRead
    <2>2. cmd[c] \in Command /\ cmd[c].sku \in Sku
      BY DEF TypeOK, Command
    <2>3. stock[cmd[c].sku] \in Row /\ snap[c] \in Row
      BY <2>2 DEF TypeOK
    <2>4. stock[cmd[c].sku].revision > snap[c].revision
      BY <2>1, <2>3 DEF SnapInv, Row
    <2> QED
      BY <2>1, <2>2, <2>4 DEF RaceInv, AnswerInv
  <1>2. \/ /\ attempt[c] >= MaxRetries
           /\ Finish(c, "conflict")
           /\ UNCHANGED attempt
        \/ /\ attempt[c] < MaxRetries
           /\ attempt' = [attempt EXCEPT ![c] = @ + 1]
           /\ pc' = [pc EXCEPT ![c] = "read"]
           /\ UNCHANGED result
    BY StockAssumption DEF LoseRace, LostRace, RetryRead, TypeOK
  <1>3. TypeOK'
    BY SMTT(30), <1>1, <1>2, StockAssumption DEF TypeOK, Finish, Results
  <1>4. RowsInv'
    BY <1>1 DEF RowsInv, CheckOk
  <1>5. SnapInv'
    BY <1>1, <1>2 DEF SnapInv, TypeOK, Finish, CheckOk, Refusal, Wrap, Available
  <1>6. RaceInv'
    BY SMTT(30), <1>1, <1>2, StockAssumption DEF RaceInv, TypeOK, Finish, Row
  <1>7. AnswerInv'
    BY <1>1, <1>2 DEF AnswerInv, TypeOK, Finish
  <1> QED
    BY <1>3, <1>4, <1>5, <1>6, <1>7

\* One database transaction that respects the CHECK constraints, or none:
\* the step of every call that changes a row.
LEMMA WriteIInv ==
    ASSUME IInv, NEW c \in Call, pc[c] = "commit", NEW row \in Row,
           NEW announced \in [quantity : 0..MaxInt, reserved : 0..MaxInt],
           CheckOk(row) \/ cmd[c].op = "set",
           Write(c, row, announced), UNCHANGED <<cmd, snap, attempt, began>>
    PROVE  IInv'
  <1> DEFINE s == cmd[c].sku
             written == [row EXCEPT !.revision = stock[s].revision + 1]
  <1> USE DEF IInv
  <1>1. /\ cmd[c] \in Command
        /\ s \in Sku
        /\ stock[s] \in Row
        /\ written \in Row
        /\ written.revision = stock[s].revision + 1
        /\ CheckOk(row) => CheckOk(written)
        /\ MovementDelta(cmd[c], snap[c]) \in Int
        /\ result[c] = "pending"
    <2>1. cmd[c] \in Command /\ s \in Sku /\ snap[c] \in Row
      BY DEF TypeOK, Command
    <2>2. stock[s] \in Row
      BY <2>1 DEF TypeOK
    <2>3. /\ written \in Row
          /\ written.revision = stock[s].revision + 1
          /\ CheckOk(row) => CheckOk(written)
      BY <2>2 DEF Row, CheckOk
    <2>4. cmd[c].qty \in Int
      <3>1. cmd[c].qty \in Units \union Deltas \union OnHand
        BY <2>1 DEF Command
      <3>2. Units \subseteq Int /\ Deltas \subseteq Int /\ OnHand \subseteq Int
        BY StockAssumption
      <3> QED
        BY <3>1, <3>2
    <2>5. MovementDelta(cmd[c], snap[c]) \in Int
      BY <2>1, <2>4 DEF MovementDelta, Row, Command
    <2> QED
      BY <2>1, <2>2, <2>3, <2>5 DEF AnswerInv
  <1>2. CASE CheckOk(row)
    <2>1. /\ stock' = [stock EXCEPT ![s] = written]
          /\ movements' = [movements EXCEPT ![s] = @ + MovementDelta(cmd[c], snap[c])]
          /\ event' = [event EXCEPT ![s] = announced]
          /\ writes' = [writes EXCEPT ![c] = @ + 1]
          /\ pc' = [pc EXCEPT ![c] = "done"]
          /\ result' = [result EXCEPT ![c] = "ok"]
          /\ UNCHANGED <<cmd, snap, attempt, began>>
      BY <1>2 DEF Write, Finish
    <2>2. TypeOK'
      BY <1>1, <2>1 DEF TypeOK, Results
    <2>3. RowsInv'
      BY <1>1, <1>2, <2>1 DEF RowsInv, TypeOK, CheckOk, Row
    <2>4. \A t \in Sku : /\ stock'[t].revision >= stock[t].revision
                         /\ stock'[t].revision = stock[t].revision => stock'[t] = stock[t]
      BY <1>1, <2>1 DEF TypeOK, Row
    <2>5. SnapInv'
      <3> SUFFICES ASSUME NEW d \in Call, pc'[d] = "commit"
                   PROVE  /\ CheckOk(snap[d])
                          /\ Refusal(cmd[d], snap[d]) = "none"
                          /\ snap[d].revision <= stock'[cmd[d].sku].revision
                          /\ snap[d].revision = stock'[cmd[d].sku].revision
                               => snap[d] = stock'[cmd[d].sku]
                          /\ snap[d].revision = 0 => cmd[d].op = "set" /\ snap[d] = NoRow
        BY <2>1 DEF SnapInv, CheckOk, Refusal, Wrap, Available
      <3>1. pc[d] = "commit"
        BY <2>1 DEF TypeOK
      <3>2. /\ cmd[d].sku \in Sku
            /\ stock[cmd[d].sku] \in Row
            /\ stock'[cmd[d].sku] \in Row
            /\ snap[d] \in Row
        BY <2>1, <2>2 DEF TypeOK, Command
      <3> QED
        BY <3>1, <3>2, <2>4 DEF SnapInv, Row
    <2>6. RaceInv'
      <3> SUFFICES ASSUME NEW d \in Call
                   PROVE  /\ pc'[d] = "read" => stock'[cmd[d].sku].revision >= began[d] + attempt[d]
                          /\ pc'[d] = "commit" => snap[d].revision >= began[d] + attempt[d]
                          /\ result'[d] = "conflict"
                               => stock'[cmd[d].sku].revision > began[d] + MaxRetries
        BY <2>1 DEF RaceInv
      <3>1. /\ cmd[d].sku \in Sku
            /\ stock[cmd[d].sku].revision \in Nat
            /\ stock'[cmd[d].sku].revision \in Nat
            /\ began[d] \in Nat
            /\ attempt[d] \in Nat
        BY <2>1, <2>2, StockAssumption DEF TypeOK, Command, Row
      <3>2. stock'[cmd[d].sku].revision >= stock[cmd[d].sku].revision
        BY <3>1, <2>4
      <3>3. /\ pc'[d] \in {"read", "commit"} => pc'[d] = pc[d]
            /\ result'[d] = "conflict" => result[d] = "conflict"
        BY <2>1 DEF TypeOK
      <3> QED
        BY <3>1, <3>2, <3>3, StockAssumption DEF RaceInv
    <2>7. AnswerInv'
      BY <1>1, <2>1 DEF AnswerInv, TypeOK
    <2> QED
      BY <2>2, <2>3, <2>5, <2>6, <2>7
  <1>3. CASE ~CheckOk(row)
    <2>1. /\ cmd[c].op = "set"
          /\ pc' = [pc EXCEPT ![c] = "done"]
          /\ result' = [result EXCEPT ![c] = "db_check"]
          /\ UNCHANGED <<stock, movements, event, cmd, snap, attempt, began, writes>>
      BY <1>3 DEF Write, Finish
    <2>2. TypeOK'
      BY <2>1 DEF TypeOK, Results
    <2>3. RowsInv'
      BY <2>1 DEF RowsInv, CheckOk
    <2>4. SnapInv'
      BY <2>1 DEF SnapInv, TypeOK, CheckOk, Refusal, Wrap, Available
    <2>5. RaceInv'
      BY <2>1 DEF RaceInv, TypeOK
    <2>6. AnswerInv'
      BY <1>1, <2>1 DEF AnswerInv, TypeOK
    <2> QED
      BY <2>2, <2>3, <2>4, <2>5, <2>6
  <1> QED
    BY <1>2, <1>3

\* A compare-and-set that finds the revision it read commits the operation on
\* the row's current values, so the domain rules still hold for them.
LEMMA CommitIInv ==
    ASSUME IInv, NEW c \in Call, Commit(c) PROVE IInv'
  <1> DEFINE row == Apply(cmd[c], snap[c])
  <1>1. pc[c] = "commit" /\ cmd[c] \in Command /\ snap[c] \in Row
    BY DEF Commit, IInv, TypeOK
  <1>2. row \in Row /\ CheckOk(row)
    BY <1>1, AcceptedRow DEF IInv, SnapInv
  <1>3. [quantity |-> row.quantity, reserved |-> row.reserved]
          \in [quantity : 0..MaxInt, reserved : 0..MaxInt]
    BY <1>2 DEF Row
  <1> QED
    BY <1>1, <1>2, <1>3, WriteIInv DEF Commit

\* The first set-on-hand of a row creates it.
LEMMA InsertOnHandIInv ==
    ASSUME IInv, NEW c \in Call, InsertOnHand(c) PROVE IInv'
  <1> DEFINE row == Apply(cmd[c], NoRow)
  <1>1. /\ pc[c] = "commit"
        /\ cmd[c].op = "set"
        /\ UNCHANGED <<cmd, snap, attempt, began>>
    BY DEF InsertOnHand
  <1>2. cmd[c].qty \in 0..MaxInt
    BY <1>1, StockAssumption DEF IInv, TypeOK, Command
  <1>3. CASE stock[cmd[c].sku].revision # 0
    <2>1. Finish(c, "duplicate") /\ UNCHANGED <<stock, movements, event, writes>>
      BY <1>3 DEF InsertOnHand
    <2>2. TypeOK'
      BY <1>1, <2>1 DEF IInv, TypeOK, Finish, Results
    <2>3. RowsInv'
      BY <1>1, <2>1 DEF IInv, RowsInv, CheckOk
    <2>4. SnapInv'
      BY <1>1, <2>1 DEF IInv, SnapInv, TypeOK, Finish, CheckOk, Refusal, Wrap, Available
    <2>5. RaceInv'
      BY <1>1, <2>1 DEF IInv, RaceInv, TypeOK, Finish
    <2>6. AnswerInv'
      BY <1>1, <2>1 DEF IInv, AnswerInv, TypeOK, Finish
    <2> QED
      BY <2>2, <2>3, <2>4, <2>5, <2>6 DEF IInv
  <1>4. CASE stock[cmd[c].sku].revision = 0
    <2>1. row \in Row
      <3>1. row = [NoRow EXCEPT !.quantity = cmd[c].qty]
        BY <1>1 DEF Apply
      <3> QED
        BY <3>1, <1>2, StockAssumption DEF NoRow, Row
    <2>2. [quantity |-> cmd[c].qty, reserved |-> 0] \in [quantity : 0..MaxInt, reserved : 0..MaxInt]
      BY <1>2, StockAssumption
    <2>3. Write(c, row, [quantity |-> cmd[c].qty, reserved |-> 0])
      BY <1>4 DEF InsertOnHand
    <2> QED
      BY <1>1, <2>1, <2>2, <2>3, WriteIInv
  <1> QED
    BY <1>3, <1>4

\* The unguarded overwrite is stopped by the CHECK constraints alone.
LEMMA OverwriteOnHandIInv ==
    ASSUME IInv, NEW c \in Call, OverwriteOnHand(c) PROVE IInv'
  <1> DEFINE row == Apply(cmd[c], stock[cmd[c].sku])
             announced == [quantity |-> cmd[c].qty, reserved |-> snap[c].reserved]
  <1>1. /\ pc[c] = "commit"
        /\ cmd[c].op = "set"
        /\ Write(c, row, announced)
        /\ UNCHANGED <<cmd, snap, attempt, began>>
    BY DEF OverwriteOnHand
  <1>2. /\ cmd[c].qty \in 0..MaxInt
        /\ snap[c] \in Row
        /\ stock[cmd[c].sku] \in Row
    BY <1>1, StockAssumption DEF IInv, TypeOK, Command
  <1>3. row \in Row /\ announced \in [quantity : 0..MaxInt, reserved : 0..MaxInt]
    BY <1>1, <1>2 DEF Apply, Row
  <1> QED
    BY <1>1, <1>3, WriteIInv
-----------------------------------------------------------------------------
\* IInv is inductive.
LEMMA NextIInv == IInv /\ [Next]_vars => IInv'
  <1> SUFFICES ASSUME IInv, [Next]_vars PROVE IInv'
    OBVIOUS
  <1>1. ASSUME NEW c \in Call, Step(c) PROVE IInv'
    BY <1>1, ReadIInv, CommitIInv, LoseRaceIInv, InsertOnHandIInv, OverwriteOnHandIInv DEF Step
  <1>2. CASE UNCHANGED vars
    BY <1>2 DEF vars, IInv, TypeOK, RowsInv, SnapInv, RaceInv, AnswerInv, CheckOk, Refusal,
                Wrap, Available
  <1> QED
    BY <1>1, <1>2 DEF Next

\* The state of every run is a state of IInv.
THEOREM Invariance == Spec => []IInv
  BY InitIInv, NextIInv, PTL DEF Spec

\* The rows, the ledger, the announcements and the calls keep their types: in
\* particular no quantity leaves 0..MaxInt and no call retries too often.
THEOREM TypeCorrect == Spec => []TypeOK
  BY Invariance, PTL DEF IInv

\* No reserve, release or adjust of StockService ever fails on a CHECK
\* constraint of the VariantStock table, whatever overlaps it.
THEOREM CasNeverFailsInDb == Spec => []CasNeverTripsCheck
  <1>1. IInv => CasNeverTripsCheck
    BY DEF IInv, AnswerInv, CasNeverTripsCheck
  <1> QED
    BY <1>1, Invariance, PTL

\* A call changes its row once if it is told "ok" and never otherwise.
THEOREM AppliedOnce == Spec => []WrittenOnceIffOk
  <1>1. IInv => WrittenOnceIffOk
    BY DEF IInv, AnswerInv, WrittenOnceIffOk
  <1> QED
    BY <1>1, Invariance, PTL

\* Only MaxRetries + 1 changes of the row since the first read make a call
\* give up.
THEOREM ConflictsAreReal == Spec => []ConflictMeansContention
  <1>1. IInv => ConflictMeansContention
    BY DEF IInv, RaceInv, ConflictMeansContention
  <1> QED
    BY <1>1, Invariance, PTL
-----------------------------------------------------------------------------
\* A call that ends without touching the row fails in the abstract too.
LEMMA FinishFails ==
    ASSUME IInv, NEW c \in Call, pc[c] # "done", NEW o \in Results \ {"pending", "ok"},
           Finish(c, o), UNCHANGED <<stock, cmd>>
    PROVE  Counter!Next
  <1>1. result[c] = "pending" /\ result' = [result EXCEPT ![c] = o]
    BY DEF IInv, AnswerInv, Finish
  <1>2. UNCHANGED AsCounter
    BY DEF AsCounter
  <1>3. o \in {"out_of_stock", "invalid_stock", "not_found", "conflict", "db_check", "duplicate"}
    BY DEF Results, Refusals
  <1>4. Counter!Fail(c)
    BY <1>1, <1>2, <1>3 DEF Counter!Fail, Counter!Answer
  <1> QED
    BY <1>4 DEF Counter!Next

\* A transaction either writes one counter and answers "ok", or fails.
LEMMA WriteRefines ==
    ASSUME IInv, NEW c \in Call, pc[c] # "done", NEW row \in Row, NEW announced,
           Write(c, row, announced), UNCHANGED cmd
    PROVE  (CheckOk(row) /\ Counter!Done(c, row.quantity, row.reserved)) \/ Counter!Next
  <1> DEFINE s == cmd[c].sku
             written == [row EXCEPT !.revision = stock[s].revision + 1]
  <1>1. s \in Sku /\ stock[s] \in Row /\ stock \in [Sku -> Row]
    BY DEF IInv, TypeOK, Command
  <1>2. CASE CheckOk(row)
    <2>1. stock' = [stock EXCEPT ![s] = written] /\ result' = [result EXCEPT ![c] = "ok"]
      BY <1>2 DEF Write, Finish
    <2>2. /\ written.revision # 0
          /\ written.quantity = row.quantity
          /\ written.reserved = row.reserved
      BY <1>1 DEF Row
    <2>3. AsCounter' = [AsCounter EXCEPT ![s] =
                          [exists |-> TRUE, quantity |-> row.quantity, reserved |-> row.reserved]]
      BY <1>1, <2>1, <2>2 DEF AsCounter
    <2> QED
      BY <1>2, <2>1, <2>3 DEF Counter!Done, Counter!Answer
  <1>3. CASE ~CheckOk(row)
    BY <1>3, FinishFails DEF Write, Results
  <1> QED
    BY <1>2, <1>3

\* Reading, being refused, and losing a race leave the counters alone.
LEMMA ReadRefines ==
    ASSUME IInv, NEW c \in Call, Read(c) \/ LoseRace(c)
    PROVE  [Counter!Next]_<<AsCounter, cmd, result>>
  <1>1. pc[c] # "done" /\ UNCHANGED <<stock, cmd>>
    BY DEF Read, LoseRace, LostRace, RetryRead
  <1>2. \/ UNCHANGED result
        \/ \E o \in Results \ {"pending", "ok"} : Finish(c, o)
    BY RefusalValues DEF Read, LoseRace, LostRace, RetryRead, Results, Refusals
  <1>3. CASE UNCHANGED result
    BY <1>1, <1>3 DEF AsCounter
  <1> QED
    BY <1>1, <1>2, <1>3, FinishFails

\* The compare-and-set: what it writes is computed from the current values.
LEMMA CommitRefines ==
    ASSUME IInv, NEW c \in Call, Commit(c) PROVE Counter!Next
  <1> DEFINE s == cmd[c].sku
             k == cmd[c]
             row == Apply(k, snap[c])
             now == AsCounter[s]
  <1>1. /\ pc[c] = "commit"
        /\ result[c] = "pending"
        /\ k \in Command
        /\ k.op # "set"
        /\ s \in Sku
        /\ snap[c] \in Row
        /\ snap[c] = stock[s]
        /\ snap[c].revision # 0
        /\ CheckOk(snap[c])
        /\ Refusal(k, snap[c]) = "none"
    BY DEF Commit, IInv, TypeOK, SnapInv, AnswerInv, Command
  <1>2. row \in Row /\ CheckOk(row)
    BY <1>1, AcceptedRow
  <1>3. now = [exists |-> TRUE, quantity |-> snap[c].quantity, reserved |-> snap[c].reserved]
    BY <1>1 DEF AsCounter
  <1>4. /\ now.exists
        /\ now.quantity = snap[c].quantity
        /\ now.reserved = snap[c].reserved
        /\ now = Counter!Row(c)
    BY <1>3 DEF Counter!Row
  <1>5. Counter!Done(c, row.quantity, row.reserved) \/ Counter!Next
    BY <1>1, <1>2, WriteRefines DEF Commit
  <1>6. k.qty \in Int
    <2>1. k.qty \in Units \union Deltas
      BY <1>1 DEF Command
    <2>2. Units \subseteq Int /\ Deltas \subseteq Int
      BY StockAssumption
    <2> QED
      BY <2>1, <2>2
  <1>7. CASE Counter!Done(c, row.quantity, row.reserved)
    <2>1. CASE k.op = "reserve"
      <3>1. k.qty <= snap[c].quantity - snap[c].reserved
        BY <1>1, <2>1, <1>6 DEF Refusal, Available, Row
      <3>2. row.quantity = snap[c].quantity /\ row.reserved = snap[c].reserved + k.qty
        BY <1>1, <2>1 DEF Apply, Row
      <3> HIDE DEF row, now
      <3>3. now.reserved + k.qty <= now.quantity
        BY <1>1, <1>4, <1>6, <3>1 DEF Row
      <3>4. Counter!Reserve(c)
        BY <1>1, <1>4, <1>7, <2>1, <3>2, <3>3 DEF Counter!Reserve, Counter!Asks
      <3> QED
        BY <3>4 DEF Counter!Next
    <2>2. CASE k.op = "release"
      <3>1. /\ row.quantity = snap[c].quantity
            /\ row.reserved = IF k.qty > snap[c].reserved THEN 0 ELSE snap[c].reserved - k.qty
        BY <1>1, <2>2 DEF Apply, Row
      <3> HIDE DEF row, now
      <3>2. Counter!Release(c)
        BY <1>1, <1>4, <1>7, <2>2, <3>1 DEF Counter!Release, Counter!Asks
      <3> QED
        BY <3>2 DEF Counter!Next
    <2>3. CASE k.op = "adjust"
      <3>1. k.qty \in Deltas
        BY <1>1, <2>3 DEF Command
      <3>2. row.quantity = snap[c].quantity + k.qty /\ row.reserved = snap[c].reserved
        BY <1>1, <1>6, <2>3, <3>1, StockAssumption DEF Apply, Refusal, Wrap, Row, CheckOk
      <3>3. row.quantity \in row.reserved..MaxInt
        BY <1>2 DEF Row, CheckOk
      <3> HIDE DEF row, now
      <3>4. Counter!Adjust(c)
        BY <1>1, <1>4, <1>7, <2>3, <3>2, <3>3 DEF Counter!Adjust, Counter!Asks
      <3> QED
        BY <3>4 DEF Counter!Next
    <2> QED
      BY <1>1, <2>1, <2>2, <2>3 DEF Command
  <1> QED
    BY <1>5, <1>7

\* A set-on-hand that the CHECK constraints let through sets the quantity and
\* keeps the reserved units of the row as it is at that moment.
LEMMA SetRefines ==
    ASSUME IInv, NEW c \in Call, InsertOnHand(c) \/ OverwriteOnHand(c)
    PROVE  Counter!Next
  <1> DEFINE s == cmd[c].sku
             row == [stock[s] EXCEPT !.quantity = cmd[c].qty]
  <1>1. /\ pc[c] = "commit"
        /\ cmd[c].op = "set"
        /\ result[c] = "pending"
        /\ UNCHANGED cmd
    BY DEF InsertOnHand, OverwriteOnHand, IInv, AnswerInv
  <1>2. /\ s \in Sku
        /\ stock[s] \in Row
        /\ cmd[c].qty \in 0..MaxInt
        /\ row \in Row
    BY <1>1, StockAssumption DEF IInv, TypeOK, Command, Row
  <1>3. Apply(cmd[c], stock[s]) = row
    BY <1>1 DEF Apply
  <1>4. \/ Finish(c, "duplicate") /\ UNCHANGED stock
        \/ \E announced : Write(c, row, announced)
    BY <1>2, <1>3 DEF InsertOnHand, OverwriteOnHand, IInv, RowsInv
  <1>5. CASE Finish(c, "duplicate") /\ UNCHANGED stock
    BY <1>1, <1>5, FinishFails DEF Results
  <1>6. CASE \E announced : Write(c, row, announced)
    <2>1. PICK announced : Write(c, row, announced)
      BY <1>6
    <2>2. (CheckOk(row) /\ Counter!Done(c, row.quantity, row.reserved)) \/ Counter!Next
      BY <1>1, <1>2, <2>1, WriteRefines
    <2>3. CASE CheckOk(row) /\ Counter!Done(c, row.quantity, row.reserved)
      <3>1. /\ row.quantity = cmd[c].qty
            /\ row.reserved = stock[s].reserved
            /\ cmd[c].qty >= stock[s].reserved
        BY <1>2, <2>3 DEF Row, CheckOk
      <3>2. Counter!Row(c).reserved = stock[s].reserved
        BY <1>2 DEF Counter!Row, AsCounter
      <3> HIDE DEF row
      <3>3. Counter!SetOnHand(c)
        BY <1>1, <2>3, <3>1, <3>2 DEF Counter!SetOnHand, Counter!Asks
      <3> QED
        BY <3>3 DEF Counter!Next
    <2> QED
      BY <2>2, <2>3
  <1> QED
    BY <1>4, <1>5, <1>6

\* The service implements the abstract counters: optimistic concurrency makes
\* every operation atomic on the current values.
THEOREM Refinement == Spec => RefinesCounter
  <1>1. Init => Counter!Init
    <2> SUFFICES ASSUME Init PROVE Counter!Init
      OBVIOUS
    <2>1. ASSUME NEW s \in Sku
          PROVE  AsCounter[s] \in {Counter!Absent}
                   \union [exists : {TRUE}, quantity : 0..MaxInt, reserved : {0}]
      <3>1. CASE stock[s] = NoRow
        <4>1. stock[s].revision = 0 /\ stock[s].quantity = 0 /\ stock[s].reserved = 0
          BY <3>1 DEF NoRow
        <4>2. AsCounter[s] = [exists |-> FALSE, quantity |-> 0, reserved |-> 0]
          BY <4>1 DEF AsCounter
        <4> QED
          BY <4>2 DEF Counter!Absent
      <3>2. CASE stock[s] \in [quantity : Opening, reserved : {0}, revision : {1}]
        <4>1. stock[s].quantity \in 0..MaxInt
          BY <3>2, StockAssumption
        <4>2. stock[s].revision # 0 /\ stock[s].reserved = 0
          BY <3>2
        <4>3. AsCounter[s] = [exists |-> TRUE, quantity |-> stock[s].quantity, reserved |-> 0]
          BY <4>2 DEF AsCounter
        <4> QED
          BY <4>1, <4>3
      <3> QED
        BY <3>1, <3>2 DEF Init
    <2> QED
      BY <2>1 DEF Init, Counter!Init, AsCounter
  <1>2. IInv /\ [Next]_vars => [Counter!Next]_<<AsCounter, cmd, result>>
    <2> SUFFICES ASSUME IInv, [Next]_vars PROVE [Counter!Next]_<<AsCounter, cmd, result>>
      OBVIOUS
    <2>1. CASE UNCHANGED vars
      BY <2>1 DEF vars, AsCounter
    <2> QED
      BY <2>1, ReadRefines, CommitRefines, SetRefines DEF Next, Step
  <1> QED
    BY <1>1, <1>2, Invariance, PTL DEF Spec, RefinesCounter, Counter!Spec, Counter!vars
-----------------------------------------------------------------------------
\* What one step may do to the ledger and to the announced values of a row.
Faithful(t) ==
    /\ Drift(t)' # Drift(t)
         => \E c \in Call : CommitsNow(c, t) /\ (OverRelease(c) \/ StaleSet(c))
    /\ stock'[t] # stock[t]
         => /\ event'[t].quantity = stock'[t].quantity
            /\ \/ event'[t].reserved = stock'[t].reserved
               \/ \E c \in Call : CommitsNow(c, t) /\ StaleSet(c)

\* A transaction that adds to the ledger what it adds to the available units,
\* or is one of the two that may not, and that announces the written values.
LEMMA WriteIsFaithful ==
    ASSUME IInv, NEW c \in Call, NEW row \in Row, NEW announced, Write(c, row, announced),
           \/ MovementDelta(cmd[c], snap[c]) = Available(row) - Available(stock[cmd[c].sku])
           \/ OverRelease(c) \/ StaleSet(c),
           announced.quantity = row.quantity,
           announced.reserved = row.reserved \/ StaleSet(c),
           MovementDelta(cmd[c], snap[c]) \in Int,
           NEW t \in Sku
    PROVE  Faithful(t)
  <1> DEFINE s == cmd[c].sku
             delta == MovementDelta(cmd[c], snap[c])
             written == [row EXCEPT !.revision = stock[s].revision + 1]
  <1>1. /\ s \in Sku
        /\ stock[s] \in Row
        /\ stock \in [Sku -> Row]
        /\ movements \in [Sku -> Int]
        /\ event \in [Sku -> [quantity : 0..MaxInt, reserved : 0..MaxInt]]
        /\ writes \in [Call -> Nat]
    BY DEF IInv, TypeOK, Command
  <1>2. CASE CheckOk(row)
    <2>1. /\ stock' = [stock EXCEPT ![s] = written]
          /\ movements' = [movements EXCEPT ![s] = @ + delta]
          /\ event' = [event EXCEPT ![s] = announced]
          /\ writes' = [writes EXCEPT ![c] = @ + 1]
      BY <1>2 DEF Write
    <2>2. CASE t # s
      BY <1>1, <2>1, <2>2 DEF Faithful, Drift
    <2>3. CASE t = s
      <3>1. CommitsNow(c, t)
        BY <1>1, <2>1, <2>3 DEF CommitsNow
      <3>2. /\ stock'[t].quantity = row.quantity
            /\ stock'[t].reserved = row.reserved
            /\ event'[t] = announced
            /\ movements'[t] = movements[t] + delta
        BY <1>1, <2>1, <2>3 DEF Row
      <3>3. /\ movements[t] \in Int
            /\ row.quantity \in Int
            /\ row.reserved \in Int
            /\ delta \in Int
            /\ Available(stock[t]) \in Int
        BY <1>1 DEF Row, Available
      <3>4. Drift(t)' = movements[t] + delta - Available(row)
        <4> HIDE DEF delta
        <4>1. Drift(t)' = movements'[t] - (stock'[t].quantity - stock'[t].reserved)
          BY DEF Drift, Available
        <4> QED
          BY <3>2, <3>3, <4>1 DEF Available
      <3>5. delta = Available(row) - Available(stock[t]) => Drift(t)' = Drift(t)
        <4> HIDE DEF delta
        <4> QED
          BY <3>3, <3>4 DEF Drift, Available
      <3> QED
        BY <2>3, <3>1, <3>2, <3>5 DEF Faithful
    <2> QED
      BY <2>2, <2>3
  <1>3. CASE ~CheckOk(row)
    BY <1>3 DEF Write, Faithful, Drift, Available
  <1> QED
    BY <1>2, <1>3

LEMMA CommitIsFaithful ==
    ASSUME IInv, NEW c \in Call, Commit(c), NEW t \in Sku PROVE Faithful(t)
  <1> DEFINE k == cmd[c]
             row == Apply(k, snap[c])
             announced == [quantity |-> row.quantity, reserved |-> row.reserved]
  <1>1. /\ k \in Command
        /\ k.op # "set"
        /\ k.sku \in Sku
        /\ snap[c] \in Row
        /\ snap[c] = stock[k.sku]
        /\ CheckOk(snap[c])
        /\ Refusal(k, snap[c]) = "none"
        /\ Write(c, row, announced)
    BY DEF Commit, IInv, TypeOK, SnapInv, Command
  <1>2. row \in Row
    BY <1>1, AcceptedRow
  <1>3. k.qty \in Int
    <2>1. k.qty \in Units \union Deltas
      BY <1>1 DEF Command
    <2>2. Units \subseteq Int /\ Deltas \subseteq Int
      BY StockAssumption
    <2> QED
      BY <2>1, <2>2
  <1>4. MovementDelta(k, snap[c]) = Available(row) - Available(stock[k.sku]) \/ OverRelease(c)
    <2>1. CASE k.op = "reserve"
      BY <2>1, <1>1, <1>3 DEF MovementDelta, Apply, Available, Row
    <2>2. CASE k.op = "release"
      <3>1. CASE k.qty > snap[c].reserved
        BY <2>2, <3>1, <1>1 DEF OverRelease
      <3>2. CASE ~(k.qty > snap[c].reserved)
        BY <2>2, <3>2, <1>1, <1>3 DEF MovementDelta, Apply, Available, Row
      <3> QED
        BY <3>1, <3>2
    <2>3. CASE k.op = "adjust"
      <3>1. k.qty \in Deltas
        BY <1>1, <2>3 DEF Command
      <3>2. Wrap(snap[c].quantity + k.qty) = snap[c].quantity + k.qty
        BY <1>1, <1>3, <2>3, <3>1, StockAssumption DEF Refusal, Wrap, Row, CheckOk
      <3> QED
        BY <2>3, <3>2, <1>1, <1>3 DEF MovementDelta, Apply, Available, Row
    <2> QED
      BY <1>1, <2>1, <2>2, <2>3 DEF Command
  <1>5. MovementDelta(k, snap[c]) \in Int
    BY <1>1, <1>3 DEF MovementDelta, Row, Command
  <1> QED
    BY <1>1, <1>2, <1>4, <1>5, WriteIsFaithful

LEMMA SetIsFaithful ==
    ASSUME IInv, NEW c \in Call, InsertOnHand(c) \/ OverwriteOnHand(c), NEW t \in Sku
    PROVE  Faithful(t)
  <1> DEFINE s == cmd[c].sku
             row == [stock[s] EXCEPT !.quantity = cmd[c].qty]
             announced == [quantity |-> cmd[c].qty, reserved |-> snap[c].reserved]
  <1>1. pc[c] = "commit" /\ cmd[c].op = "set"
    BY DEF InsertOnHand, OverwriteOnHand
  <1>2. /\ s \in Sku
        /\ stock[s] \in Row
        /\ snap[c] \in Row
        /\ cmd[c].qty \in 0..MaxInt
        /\ row \in Row
    <2>1. s \in Sku /\ stock[s] \in Row /\ snap[c] \in Row
      BY DEF IInv, TypeOK, Command
    <2>2. cmd[c] \in Command
      BY DEF IInv, TypeOK
    <2>3. cmd[c].qty \in OnHand
      BY <1>1, <2>2 DEF Command
    <2>4. cmd[c].qty \in 0..MaxInt
      BY <2>3, StockAssumption
    <2> QED
      BY <2>1, <2>4 DEF Row
  <1>3. \/ UNCHANGED <<stock, movements, event>>
        \/ Write(c, row, announced)
    BY <1>1, <1>2 DEF InsertOnHand, OverwriteOnHand, IInv, RowsInv, SnapInv, Apply, NoRow
  <1>4. StaleSet(c) \/ snap[c] = stock[s]
    BY <1>1 DEF StaleSet, IInv, SnapInv
  <1>5. CASE UNCHANGED <<stock, movements, event>>
    BY <1>5 DEF Faithful, Drift, Available
  <1>6. CASE Write(c, row, announced)
    <2>1. MovementDelta(cmd[c], snap[c]) = cmd[c].qty - snap[c].quantity
      BY <1>1 DEF MovementDelta
    <2>2. MovementDelta(cmd[c], snap[c]) \in Int
      BY <1>2, <2>1 DEF Row
    <2>3. /\ row.quantity = cmd[c].qty
          /\ row.reserved = stock[s].reserved
      BY <1>2 DEF Row
    <2>4. snap[c] = stock[s]
            => MovementDelta(cmd[c], snap[c]) = Available(row) - Available(stock[s])
      BY <1>2, <2>1, <2>3 DEF Available, Row
    <2> HIDE DEF row
    <2>5. /\ announced.quantity = row.quantity
          /\ announced.reserved = row.reserved \/ StaleSet(c)
      BY <1>4, <2>3
    <2> QED
      BY <1>2, <1>4, <1>6, <2>2, <2>4, <2>5, WriteIsFaithful
  <1> QED
    BY <1>3, <1>5, <1>6

LEMMA NextIsFaithful ==
    ASSUME IInv, [Next]_vars, NEW t \in Sku PROVE Faithful(t)
  <1>1. CASE UNCHANGED vars
    BY <1>1 DEF vars, Faithful, Drift, Available
  <1>2. ASSUME NEW c \in Call, Read(c) \/ LoseRace(c) PROVE Faithful(t)
    BY <1>2 DEF Read, LoseRace, LostRace, RetryRead, Faithful, Drift, Available
  <1> QED
    BY <1>1, <1>2, CommitIsFaithful, SetIsFaithful DEF Next, Step

\* The movements ledger accounts for every available unit, with exactly the
\* two exceptions that the code has.
THEOREM LedgerFollowsStock == Spec => DriftOnlyFromClampOrStaleSet
  <1>1. IInv /\ [Next]_vars
          => [\A s \in Sku : Drift(s)' # Drift(s)
                => \E c \in Call : CommitsNow(c, s) /\ (OverRelease(c) \/ StaleSet(c))]_vars
    BY NextIsFaithful DEF Faithful
  <1> QED
    BY <1>1, Invariance, PTL DEF Spec, DriftOnlyFromClampOrStaleSet

\* The announced values are the row's, with the same exception for a stale
\* set-on-hand.
THEOREM EventsFollowStock == Spec => EventsDescribeTheRow
  <1>1. IInv /\ [Next]_vars
          => [\A s \in Sku : stock'[s] # stock[s]
                => /\ event'[s].quantity = stock'[s].quantity
                   /\ \/ event'[s].reserved = stock'[s].reserved
                      \/ \E c \in Call : CommitsNow(c, s) /\ StaleSet(c)]_vars
    BY NextIsFaithful DEF Faithful
  <1> QED
    BY <1>1, Invariance, PTL DEF Spec, EventsDescribeTheRow
=============================================================================

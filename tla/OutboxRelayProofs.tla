------------------------- MODULE OutboxRelayProofs -------------------------
(***************************************************************************)
(* Theorems about OutboxRelay for every set of events and replicas, every  *)
(* batch size, every limit on the retries and every number of failures.    *)
(***************************************************************************)
EXTENDS OutboxRelay, SequenceTheorems, FiniteSetTheorems, TLAPS

Types ==
    /\ outbox \in Seq(Entry) /\ Len(outbox) <= MaxRows
    /\ batch \in [Replica -> SUBSET Row]
    /\ stage \in [Replica -> {"publish", "mark", "record"}]
    /\ copies \in [Row -> Nat]
    /\ wire \subseteq Copy /\ busy \subseteq wire
    /\ seen \subseteq Copy /\ parked \subseteq Copy
    /\ handled \in [Row -> Nat] /\ deaths \in [Row -> Nat]
    /\ failures \in 0..MaxFailures

\* Nothing refers to a row that has not been committed yet.
Known ==
    /\ \A r \in Replica : batch[r] \subseteq 1..Len(outbox)
    /\ \A c \in wire : c.row \in 1..Len(outbox)
    /\ \A i \in Row : i > Len(outbox) => copies[i] = 0 /\ handled[i] = 0

\* What a step may do to the table: rows keep their event, a closed row stays
\* closed, and a row that is new is open and has no dead letter.
Grows ==
    /\ Len(outbox) <= Len(outbox')
    /\ \A i \in 1..Len(outbox) :
         /\ outbox'[i].event = outbox[i].event
         /\ outbox[i].processed => outbox'[i].processed
    /\ \A i \in (Len(outbox) + 1)..Len(outbox') :
         /\ outbox'[i].processed = FALSE
         /\ outbox'[i].letters = 0
-----------------------------------------------------------------------------
\* The actions, as the steps of each invariance proof below take them.
Steps ==
    \/ \E e \in Event : Commit(e)
    \/ \E r \in Replica : Poll(r) \/ Abandon(r)
    \/ \E r \in Replica, i \in Row :
         \/ Drop(r, i) \/ Publish(r, i) \/ PublishRefused(r, i) \/ Mark(r, i)
         \/ RecordFailure(r, i) \/ PublishFails(r, i) \/ MarkFails(r, i)
    \/ \E i \in 1..Len(outbox) : RetryLetter(i) \/ DiscardLetter(i)
    \/ \E c \in wire : Skip(c) \/ Handle(c) \/ Record(c) \/ Die(c) \/ Park(c)

LEMMA NextIsSteps == ASSUME Types, Next PROVE Steps
  <1>1. DOMAIN outbox = 1..Len(outbox)
    BY DEF Types
  <1> QED
    BY <1>1 DEF Next, Steps, Relay, Settle, Consume

\* Replacing one row of the table by one that keeps the event and stays closed.
LEMMA Rewrite ==
    ASSUME Types, NEW i \in 1..Len(outbox), NEW e \in Entry,
           outbox' = [outbox EXCEPT ![i] = e],
           e.event = outbox[i].event, outbox[i].processed => e.processed
    PROVE  /\ outbox' \in Seq(Entry) /\ Len(outbox') = Len(outbox)
           /\ outbox'[i] = e
           /\ \A j \in 1..Len(outbox) : j # i => outbox'[j] = outbox[j]
           /\ Grows
  <1>1. /\ outbox' \in Seq(Entry) /\ Len(outbox') = Len(outbox)
        /\ \A j \in 1..Len(outbox) : outbox'[j] = IF j = i THEN e ELSE outbox[j]
    BY ExceptSeq DEF Types
  <1>2. Len(outbox) \in Nat
    BY DEF Types
  <1> QED
    BY <1>1, <1>2 DEF Grows

LEMMA Extend ==
    ASSUME Types, NEW s \in Seq(Entry), Len(s) = Len(outbox), NEW e \in Event,
           \A j \in 1..Len(outbox) : /\ s[j].event = outbox[j].event
                                     /\ s[j].processed = outbox[j].processed,
           outbox' = Append(s, NewEntry(e))
    PROVE  /\ outbox' \in Seq(Entry) /\ Len(outbox') = Len(outbox) + 1
           /\ \A j \in 1..Len(outbox) : outbox'[j] = s[j]
           /\ Grows
  <1>1. NewEntry(e) \in Entry
    BY DEF NewEntry, Entry
  <1>2. /\ outbox' \in Seq(Entry) /\ Len(outbox') = Len(s) + 1
        /\ \A j \in 1..Len(s) : outbox'[j] = s[j]
        /\ outbox'[Len(s) + 1] = NewEntry(e)
    BY <1>1, AppendProperties
  <1>3. Len(outbox) \in Nat
    BY DEF Types
  <1>4. \A i \in (Len(outbox) + 1)..Len(outbox') : i = Len(s) + 1
    BY <1>2, <1>3
  <1>5. NewEntry(e).processed = FALSE /\ NewEntry(e).letters = 0
    BY DEF NewEntry
  <1> QED
    BY <1>2, <1>3, <1>4, <1>5 DEF Grows

\* What the actions that touch the table make of it.
LEMMA CommitRows ==
    ASSUME Types, NEW e \in Event, Commit(e)
    PROVE  /\ outbox' \in Seq(Entry) /\ Len(outbox') = Len(outbox) + 1
           /\ Len(outbox') <= MaxRows
           /\ \A j \in 1..Len(outbox) : outbox'[j] = outbox[j]
           /\ Grows
  <1>1. outbox' = Append(outbox, NewEntry(e)) /\ Len(outbox) < MaxRows
    BY DEF Commit
  <1>2. outbox \in Seq(Entry) /\ Len(outbox) \in Nat
    BY DEF Types
  <1>3. /\ outbox' \in Seq(Entry) /\ Len(outbox') = Len(outbox) + 1
        /\ \A j \in 1..Len(outbox) : outbox'[j] = outbox[j]
        /\ Grows
    BY <1>1, <1>2, Extend
  <1> QED
    BY <1>1, <1>2, <1>3, OutboxAssumption

LEMMA CloseRow ==
    ASSUME Types, NEW i \in 1..Len(outbox),
           outbox' = [outbox EXCEPT ![i].processed = TRUE]
    PROVE  /\ outbox' \in Seq(Entry) /\ Len(outbox') = Len(outbox)
           /\ outbox'[i] = [outbox[i] EXCEPT !.processed = TRUE]
           /\ \A j \in 1..Len(outbox) : j # i => outbox'[j] = outbox[j]
           /\ Grows
  <1>1. outbox[i] \in Entry
    BY DEF Types
  <1> DEFINE e == [outbox[i] EXCEPT !.processed = TRUE]
  <1>2. e \in Entry /\ e.event = outbox[i].event /\ e.processed
    BY <1>1 DEF Entry
  <1>3. outbox' = [outbox EXCEPT ![i] = e]
    OBVIOUS
  <1> HIDE DEF e
  <1>4. /\ outbox' \in Seq(Entry) /\ Len(outbox') = Len(outbox)
        /\ outbox'[i] = e
        /\ \A j \in 1..Len(outbox) : j # i => outbox'[j] = outbox[j]
        /\ Grows
    BY <1>2, <1>3, Rewrite
  <1> QED
    BY <1>4 DEF e

LEMMA CountRow ==
    ASSUME Types, NEW r \in Replica, NEW i \in 1..Len(outbox), RecordFailure(r, i)
    PROVE  /\ outbox' \in Seq(Entry) /\ Len(outbox') = Len(outbox)
           /\ \A j \in 1..Len(outbox) : j # i => outbox'[j] = outbox[j]
           /\ outbox'[i].retries = outbox[i].retries + 1
           /\ \/ /\ outbox[i].retries + 1 < MaxRetries
                 /\ outbox'[i].processed = outbox[i].processed
                 /\ outbox'[i].letters = outbox[i].letters
              \/ /\ outbox[i].retries + 1 >= MaxRetries
                 /\ outbox'[i].processed
                 /\ outbox'[i].letters = outbox[i].letters + 1
           /\ Grows
  <1> DEFINE n == outbox[i].retries + 1
             low == [outbox[i] EXCEPT !.retries = n]
             high == GivenUp(i, n)
  <1>1. outbox[i] \in Entry
    BY DEF Types
  <1>2. /\ low \in Entry /\ low.event = outbox[i].event
        /\ low.processed = outbox[i].processed
        /\ low.retries = n /\ low.letters = outbox[i].letters
    BY <1>1 DEF Entry
  <1>4. n \in Nat
    BY <1>1 DEF Entry
  <1>3. /\ high \in Entry /\ high.event = outbox[i].event /\ high.processed
        /\ high.retries = n /\ high.letters = outbox[i].letters + 1
    BY <1>1, <1>4 DEF GivenUp, Kind, Entry
  <1>5. outbox' = IF n < MaxRetries THEN [outbox EXCEPT ![i] = low]
                                    ELSE [outbox EXCEPT ![i] = high]
    BY DEF RecordFailure
  <1> HIDE DEF low, high
  <1>6. CASE n < MaxRetries
    <2>1. outbox' = [outbox EXCEPT ![i] = low]
      BY <1>5, <1>6
    <2>2. /\ outbox' \in Seq(Entry) /\ Len(outbox') = Len(outbox)
          /\ outbox'[i] = low
          /\ \A j \in 1..Len(outbox) : j # i => outbox'[j] = outbox[j]
          /\ Grows
      BY <1>2, <2>1, Rewrite
    <2> QED
      BY <1>2, <1>6, <2>2
  <1>7. CASE n >= MaxRetries
    <2>1. outbox' = [outbox EXCEPT ![i] = high]
      BY <1>4, <1>5, <1>7, OutboxAssumption
    <2>2. /\ outbox' \in Seq(Entry) /\ Len(outbox') = Len(outbox)
          /\ outbox'[i] = high
          /\ \A j \in 1..Len(outbox) : j # i => outbox'[j] = outbox[j]
          /\ Grows
      BY <1>3, <2>1, Rewrite
    <2> QED
      BY <1>3, <1>7, <2>2
  <1> QED
    BY <1>4, <1>6, <1>7, OutboxAssumption

LEMMA LetterRows ==
    ASSUME Types, NEW i \in 1..Len(outbox), RetryLetter(i) \/ DiscardLetter(i)
    PROVE  /\ outbox' \in Seq(Entry) /\ Len(outbox') <= MaxRows
           /\ Len(outbox') \in {Len(outbox), Len(outbox) + 1}
           /\ \A j \in 1..Len(outbox) : /\ outbox'[j].processed = outbox[j].processed
                                        /\ outbox'[j].retries = outbox[j].retries
                                        /\ outbox'[j].letters = outbox[j].letters
           /\ Grows
  <1> DEFINE e == [outbox[i] EXCEPT !.open = @ - 1]
             s == [outbox EXCEPT ![i] = e]
  <1>1. outbox[i] \in Entry /\ Len(outbox) \in Nat /\ Len(outbox) <= MaxRows
    BY DEF Types
  <1>2. outbox[i].open > 0
    BY DEF RetryLetter, DiscardLetter
  <1>3. /\ e \in Entry /\ e.event = outbox[i].event /\ e.processed = outbox[i].processed
        /\ e.retries = outbox[i].retries /\ e.letters = outbox[i].letters
    BY <1>1, <1>2 DEF Entry
  <1>4. CASE DiscardLetter(i)
    <2>1. outbox' = s
      BY <1>4 DEF DiscardLetter
    <2> HIDE DEF e
    <2>2. /\ outbox' \in Seq(Entry) /\ Len(outbox') = Len(outbox) /\ outbox'[i] = e
          /\ \A j \in 1..Len(outbox) : j # i => outbox'[j] = outbox[j]
          /\ Grows
      BY <1>3, <2>1, Rewrite
    <2> QED
      BY <1>1, <1>3, <2>2
  <1>5. CASE RetryLetter(i)
    <2>1. outbox' = Append(s, NewEntry(Kind(i))) /\ Len(outbox) < MaxRows
      BY <1>5 DEF RetryLetter
    <2>2. Kind(i) \in Event
      BY <1>1 DEF Kind, Entry
    <2> HIDE DEF e
    <2>3. /\ s \in Seq(Entry) /\ Len(s) = Len(outbox)
          /\ \A j \in 1..Len(outbox) : s[j] = IF j = i THEN e ELSE outbox[j]
      BY <1>3, ExceptSeq DEF Types
    <2>4. \A j \in 1..Len(outbox) : /\ s[j].event = outbox[j].event
                                    /\ s[j].processed = outbox[j].processed
                                    /\ s[j].retries = outbox[j].retries
                                    /\ s[j].letters = outbox[j].letters
      BY <1>3, <2>3
    <2> HIDE DEF s
    <2>5. /\ outbox' \in Seq(Entry) /\ Len(outbox') = Len(outbox) + 1
          /\ \A j \in 1..Len(outbox) : outbox'[j] = s[j]
          /\ Grows
      BY <2>1, <2>2, <2>3, <2>4, Extend
    <2> QED
      BY <1>1, <2>1, <2>4, <2>5, OutboxAssumption
  <1> QED
    BY <1>4, <1>5
-----------------------------------------------------------------------------
LEMMA InitTypes == Init => Types /\ Known
  <1> SUFFICES ASSUME Init PROVE Types /\ Known
    OBVIOUS
  <1>1. outbox = << >> /\ outbox \in Seq(Entry) /\ Len(outbox) = 0
    BY DEF Init
  <1>2. Types
    BY <1>1, OutboxAssumption DEF Init, Types
  <1>3. Known
    BY <1>1 DEF Init, Known
  <1> QED
    BY <1>2, <1>3

LEMMA SameRows == ASSUME Types, UNCHANGED outbox PROVE Grows
  <1>1. Len(outbox) \in Nat
    BY DEF Types
  <1> QED
    BY <1>1 DEF Grows

\* The row a replica works on is a row of the table.
LEMMA AtRow ==
    ASSUME Types, Known, NEW r \in Replica, NEW i \in Row, NEW s, At(r, i, s)
    PROVE  i \in 1..Len(outbox) /\ outbox[i] \in Entry
  <1>1. i \in 1..Len(outbox)
    BY DEF At, Known
  <1> QED
    BY <1>1 DEF Types

\* What the relay's actions do to the batches.
LEMMA AdvanceTypes ==
    ASSUME Types, Known, NEW r \in Replica, NEW i \in Row, Advance(r, i)
    PROVE  /\ batch' \in [Replica -> SUBSET Row]
           /\ stage' \in [Replica -> {"publish", "mark", "record"}]
           /\ \A q \in Replica : batch'[q] \subseteq batch[q]
  BY DEF Types, Advance

LEMMA GoOnTypes ==
    ASSUME Types, NEW r \in Replica, NEW s \in {"publish", "mark", "record"}, GoOn(r, s)
    PROVE  batch' = batch /\ stage' \in [Replica -> {"publish", "mark", "record"}]
  BY DEF Types, GoOn

LEMMA PutOnWireTypes ==
    ASSUME Types, Known, NEW i \in 1..Len(outbox), PutOnWire(i)
    PROVE  /\ copies' \in [Row -> Nat] /\ wire' \subseteq Copy /\ wire \subseteq wire'
           /\ \A c \in wire' : c.row \in 1..Len(outbox)
           /\ \A j \in Row : j # i => copies'[j] = copies[j]
           /\ copies'[i] = copies[i] + 1
  <1>1. i \in Row
    BY OutboxAssumption DEF Types, Row
  <1>2. [row |-> i, n |-> copies[i] + 1] \in Copy
    BY <1>1 DEF Types, Copy
  <1> QED
    BY <1>1, <1>2 DEF Types, Known, PutOnWire

LEMMA IdType ==
    ASSUME NEW c \in Copy PROVE MessageId(c) \in Copy /\ MessageId(c).row = c.row
  BY DEF MessageId, Copy

LEMMA TypesStep ==
    ASSUME Types, Known, Steps
    PROVE  Types' /\ Known' /\ Grows
  <1> USE OutboxAssumption
  <1>0. Len(outbox) \in Nat
    BY DEF Types
  <1>1. ASSUME NEW e \in Event, Commit(e) PROVE Types' /\ Known' /\ Grows
    <2>1. UNCHANGED <<batch, stage, copies, wire, consumerVars, failures>>
      BY <1>1 DEF Commit
    <2>2. /\ outbox' \in Seq(Entry) /\ Len(outbox') = Len(outbox) + 1
          /\ Len(outbox') <= MaxRows /\ Grows
      BY <1>1, CommitRows
    <2>3. Types'
      BY <2>1, <2>2 DEF Types, consumerVars
    <2>4. 1..Len(outbox) \subseteq 1..Len(outbox')
      BY <1>0, <2>2
    <2>5. Known'
      BY <1>0, <2>1, <2>2, <2>4 DEF Known, consumerVars, Row
    <2> QED
      BY <2>2, <2>3, <2>5
  <1>2. ASSUME NEW r \in Replica, Poll(r) PROVE Types' /\ Known' /\ Grows
    <2>1. UNCHANGED <<outbox, stage, copies, wire, consumerVars, failures>>
      BY <1>2 DEF Poll
    <2>2. Pending \subseteq 1..Len(outbox) /\ Pending \subseteq Row
      <3>1. DOMAIN outbox = 1..Len(outbox) /\ Len(outbox) <= MaxRows
        BY DEF Types
      <3> QED
        BY <1>0, <3>1 DEF Pending, Row
    <2>3. batch' \in [Replica -> SUBSET Row] /\ \A q \in Replica : batch'[q] \subseteq 1..Len(outbox)
      BY <1>2, <2>2 DEF Poll, Types, Known
    <2> QED
      BY <2>1, <2>3, SameRows DEF Types, Known, consumerVars
  <1>3. ASSUME NEW r \in Replica, Abandon(r) PROVE Types' /\ Known' /\ Grows
    <2>1. UNCHANGED <<outbox, copies, wire, consumerVars>> /\ failures' \in 0..MaxFailures
      BY <1>3 DEF Abandon, Fail, Types
    <2>2. /\ batch' \in [Replica -> SUBSET Row]
          /\ stage' \in [Replica -> {"publish", "mark", "record"}]
          /\ \A q \in Replica : batch'[q] \subseteq 1..Len(outbox)
      BY <1>3 DEF Abandon, Types, Known
    <2> QED
      BY <2>1, <2>2, SameRows DEF Types, Known, consumerVars
  <1>4. ASSUME NEW r \in Replica, NEW i \in Row, Drop(r, i) \/ Mark(r, i)
        PROVE  Types' /\ Known' /\ Grows
    <2>1. i \in 1..Len(outbox)
      BY <1>4, AtRow DEF Drop, Mark
    <2>2. /\ outbox' = [outbox EXCEPT ![i].processed = TRUE] /\ Advance(r, i)
          /\ UNCHANGED <<copies, wire, consumerVars, failures>>
      BY <1>4 DEF Drop, Mark
    <2>3. outbox' \in Seq(Entry) /\ Len(outbox') = Len(outbox) /\ Grows
      BY <2>1, <2>2, CloseRow
    <2> QED
      BY <2>2, <2>3, AdvanceTypes DEF Types, Known, consumerVars
  <1>5. ASSUME NEW r \in Replica, NEW i \in Row, RecordFailure(r, i)
        PROVE  Types' /\ Known' /\ Grows
    <2>1. i \in 1..Len(outbox)
      BY <1>5, AtRow DEF RecordFailure
    <2>2. Advance(r, i) /\ UNCHANGED <<copies, wire, consumerVars, failures>>
      BY <1>5 DEF RecordFailure
    <2>3. outbox' \in Seq(Entry) /\ Len(outbox') = Len(outbox) /\ Grows
      BY <1>5, <2>1, CountRow
    <2> QED
      BY <2>2, <2>3, AdvanceTypes DEF Types, Known, consumerVars
  <1>6. ASSUME NEW r \in Replica, NEW i \in Row, Publish(r, i) \/ PublishFails(r, i)
        PROVE  Types' /\ Known' /\ Grows
    <2>1. i \in 1..Len(outbox)
      BY <1>6, AtRow DEF Publish, PublishFails
    <2>2. /\ PutOnWire(i) \/ UNCHANGED <<copies, wire>>
          /\ GoOn(r, "mark") \/ GoOn(r, "record")
          /\ UNCHANGED <<outbox, consumerVars>> /\ failures' \in 0..MaxFailures
      BY <1>6 DEF Publish, PublishFails, Fail, Types
    <2>3. /\ copies' \in [Row -> Nat] /\ wire' \subseteq Copy /\ wire \subseteq wire'
          /\ \A c \in wire' : c.row \in 1..Len(outbox)
          /\ \A j \in Row : j # i => copies'[j] = copies[j]
      BY <2>1, <2>2, PutOnWireTypes DEF Types, Known
    <2>4. batch' = batch /\ stage' \in [Replica -> {"publish", "mark", "record"}]
      BY <2>2, GoOnTypes
    <2>5. Types'
      BY <2>2, <2>3, <2>4 DEF Types, consumerVars
    <2>6. Known'
      BY <1>0, <2>1, <2>2, <2>3, <2>4 DEF Known, consumerVars
    <2> QED
      BY <2>2, <2>5, <2>6, SameRows
  <1>7. ASSUME NEW r \in Replica, NEW i \in Row, PublishRefused(r, i) \/ MarkFails(r, i)
        PROVE  Types' /\ Known' /\ Grows
    <2>1. /\ GoOn(r, "record") /\ failures' \in 0..MaxFailures
          /\ UNCHANGED <<outbox, copies, wire, consumerVars>>
      BY <1>7 DEF PublishRefused, MarkFails, Fail, Types
    <2> QED
      BY <2>1, GoOnTypes, SameRows DEF Types, Known, consumerVars
  <1>8. ASSUME NEW i \in 1..Len(outbox), RetryLetter(i) \/ DiscardLetter(i)
        PROVE  Types' /\ Known' /\ Grows
    <2>1. UNCHANGED <<batch, stage, copies, wire, consumerVars, failures>>
      BY <1>8 DEF RetryLetter, DiscardLetter
    <2>2. /\ outbox' \in Seq(Entry) /\ Len(outbox') <= MaxRows
          /\ Len(outbox') \in {Len(outbox), Len(outbox) + 1} /\ Grows
      BY <1>8, LetterRows
    <2>3. Types'
      BY <2>1, <2>2 DEF Types, consumerVars
    <2>4. 1..Len(outbox) \subseteq 1..Len(outbox')
      BY <1>0, <2>2
    <2>5. Known'
      BY <1>0, <2>1, <2>2, <2>4 DEF Known, consumerVars, Row
    <2> QED
      BY <2>2, <2>3, <2>5
  <1>9. ASSUME NEW c \in wire, Skip(c) \/ Handle(c) \/ Record(c) \/ Die(c) \/ Park(c)
        PROVE  Types' /\ Known' /\ Grows
    <2>1. UNCHANGED <<outbox, batch, stage, copies>>
      BY <1>9 DEF Skip, Handle, Record, Die, Park, relayVars
    <2>2. c \in Copy /\ c.row \in Row /\ c.row \in 1..Len(outbox)
      BY DEF Types, Copy, Known
    <2>3. MessageId(c) \in Copy
      BY <2>2, IdType
    <2>4. wire' \subseteq wire /\ busy' \subseteq wire' /\ seen' \subseteq Copy
            /\ parked' \subseteq Copy
      BY <1>9, <2>2, <2>3 DEF Skip, Handle, Record, Die, Park, Types, consumerVars, Waiting, Locked
    <2>5. /\ handled' \in [Row -> Nat] /\ deaths' \in [Row -> Nat]
          /\ failures' \in 0..MaxFailures
          /\ \A i \in Row : i # c.row => handled'[i] = handled[i]
      <3>1. handled' \in {handled, [handled EXCEPT ![c.row] = @ + 1]}
        BY <1>9 DEF Skip, Handle, Record, Die, Park, consumerVars
      <3>2. deaths' \in {deaths, [deaths EXCEPT ![c.row] = @ + 1]}
        BY <1>9 DEF Skip, Handle, Record, Die, Park, consumerVars
      <3>3. failures' = failures \/ Fail
        BY <1>9 DEF Skip, Handle, Record, Die, Park
      <3>4. handled \in [Row -> Nat] /\ deaths \in [Row -> Nat] /\ failures \in 0..MaxFailures
        BY DEF Types
      <3>5. failures' \in 0..MaxFailures
        BY <3>3, <3>4 DEF Fail
      <3>6. /\ handled' \in [Row -> Nat]
            /\ \A i \in Row : i # c.row => handled'[i] = handled[i]
        BY <2>2, <3>1, <3>4
      <3>7. deaths' \in [Row -> Nat]
        BY <2>2, <3>2, <3>4
      <3> QED
        BY <3>5, <3>6, <3>7
    <2>6. Types'
      BY <2>1, <2>4, <2>5 DEF Types
    <2>7. Known'
      BY <1>0, <2>1, <2>2, <2>4, <2>5 DEF Known
    <2> QED
      BY <2>1, <2>6, <2>7, SameRows
  <1> QED
    BY <1>1, <1>2, <1>3, <1>4, <1>5, <1>6, <1>7, <1>8, <1>9 DEF Steps
-----------------------------------------------------------------------------
(* Nothing is lost.                                                        *)

\* A replica that is about to mark a row has published it, and a recorded id
\* belongs to a row whose handler has run.
FlowInv ==
    /\ \A r \in Replica : batch[r] = {} => stage[r] = "publish"
    /\ \A r \in Replica, i \in Row : At(r, i, "mark") => Delivered(i)
    /\ \A k \in seen \union busy : handled[k.row] > 0

LEMMA DeliveredStays ==
    ASSUME Types, Known, FlowInv, Steps
    PROVE  /\ \A i \in Row : Delivered(i) => Delivered(i)'
           /\ \A k \in seen' \union busy' : handled'[k.row] > 0
  <1> DEFINE Goal == /\ \A i \in Row : Delivered(i) => Delivered(i)'
                     /\ \A k \in seen' \union busy' : handled'[k.row] > 0
  <1>1. CASE UNCHANGED consumerVars /\ wire \subseteq wire'
    BY <1>1 DEF consumerVars, Delivered, FlowInv
  <1>2. ASSUME NEW c \in wire, Skip(c) PROVE Goal
    <2>1. MessageId(c).row = c.row
      BY IdType DEF Types
    <2>2. handled[c.row] > 0
      BY <1>2, <2>1 DEF Skip, FlowInv
    <2> QED
      BY <1>2, <2>2 DEF Skip, Delivered, FlowInv, consumerVars
  <1>3. ASSUME NEW c \in wire, Handle(c) PROVE Goal
    <2>1. c.row \in Row /\ handled \in [Row -> Nat]
      BY DEF Types, Copy
    <2>2. /\ handled'[c.row] > 0 /\ \A i \in Row : handled[i] > 0 => handled'[i] > 0
          /\ UNCHANGED <<wire, parked, seen>> /\ busy' = busy \union {c}
      BY <1>3, <2>1 DEF Handle
    <2>3. \A k \in seen \union busy : k.row \in Row
      BY DEF Types, Copy
    <2> QED
      BY <2>2, <2>3 DEF Delivered, FlowInv
  <1>4. ASSUME NEW c \in wire, Record(c) PROVE Goal
    <2>1. MessageId(c).row = c.row
      BY IdType DEF Types
    <2>2. handled[c.row] > 0
      BY <1>4 DEF Record, FlowInv
    <2> QED
      BY <1>4, <2>1, <2>2 DEF Record, Delivered, FlowInv
  <1>5. ASSUME NEW c \in wire, Die(c) \/ Park(c) PROVE Goal
    BY <1>5 DEF Die, Park, Delivered, FlowInv
  <1>6. ASSUME NEW i \in 1..Len(outbox), PutOnWire(i) PROVE wire \subseteq wire'
    BY <1>6 DEF PutOnWire
  <1>7. \/ \E c \in wire : Skip(c) \/ Handle(c) \/ Record(c) \/ Die(c) \/ Park(c)
        \/ UNCHANGED consumerVars /\ wire \subseteq wire'
    BY ZenonT(30) DEF Steps, Commit, Poll, Abandon, Drop, Publish, PublishRefused, Mark, RecordFailure,
           PublishFails, MarkFails, PutOnWire, RetryLetter, DiscardLetter
  <1> QED
    BY <1>1, <1>2, <1>3, <1>4, <1>5, <1>7

\* Where a replica stands after a step of the relay.
LEMMA MarkStays ==
    ASSUME Types, Known, FlowInv, Steps
    PROVE  /\ \A r \in Replica : batch'[r] = {} => stage'[r] = "publish"
           /\ \A r \in Replica, i \in Row : At(r, i, "mark")' => Delivered(i)'
  <1> DEFINE Goal == /\ \A r \in Replica : batch'[r] = {} => stage'[r] = "publish"
                     /\ \A r \in Replica, i \in Row : At(r, i, "mark")' => Delivered(i)'
  <1>0. \A i \in Row : Delivered(i) => Delivered(i)'
    BY DeliveredStays
  <1>1. CASE UNCHANGED <<batch, stage>>
    BY <1>0, <1>1 DEF FlowInv, At
  <1>2. ASSUME NEW r \in Replica, Poll(r) PROVE Goal
    <2>1. stage[r] = "publish" /\ stage' = stage
      BY <1>2 DEF Poll, FlowInv
    <2>2. \A q \in Replica : q # r => batch'[q] = batch[q]
      BY <1>2 DEF Poll, Types
    <2> QED
      BY <1>0, <2>1, <2>2 DEF FlowInv, At
  <1>3. ASSUME NEW r \in Replica, stage'[r] = "publish",
               \A q \in Replica : q # r => batch'[q] = batch[q] /\ stage'[q] = stage[q]
        PROVE  Goal
    BY <1>0, <1>3 DEF FlowInv, At
  <1>4. ASSUME NEW r \in Replica, NEW i \in Row, Advance(r, i) PROVE Goal
    <2>1. /\ stage'[r] = "publish"
          /\ \A q \in Replica : q # r => batch'[q] = batch[q] /\ stage'[q] = stage[q]
      BY <1>4 DEF Advance, Types
    <2> QED
      BY <1>3, <2>1
  <1>5. ASSUME NEW r \in Replica, Abandon(r) PROVE Goal
    <2>1. /\ stage'[r] = "publish"
          /\ \A q \in Replica : q # r => batch'[q] = batch[q] /\ stage'[q] = stage[q]
      BY <1>5 DEF Abandon, Types
    <2> QED
      BY <1>3, <2>1
  <1>6. ASSUME NEW r \in Replica, NEW i \in Row, i \in batch[r], GoOn(r, "record") PROVE Goal
    <2>1. /\ batch' = batch /\ stage'[r] = "record"
          /\ \A q \in Replica : q # r => stage'[q] = stage[q]
      BY <1>6 DEF GoOn, Types
    <2> QED
      BY <1>0, <1>6, <2>1 DEF FlowInv, At
  <1>7. ASSUME NEW r \in Replica, NEW i \in Row, Publish(r, i) PROVE Goal
    <2>1. /\ batch' = batch /\ stage'[r] = "mark" /\ At(r, i, "publish")
          /\ \A q \in Replica : q # r => stage'[q] = stage[q]
      BY <1>7 DEF Publish, GoOn, Types
    <2>2. Delivered(i)'
      <3> DEFINE c == [row |-> i, n |-> copies[i] + 1]
      <3>1. c \in wire' /\ c.row = i
        BY <1>7 DEF Publish, PutOnWire
      <3> HIDE DEF c
      <3> QED
        BY <3>1 DEF Delivered
    <2>3. \A j \in Row : At(r, j, "mark")' => j = i
      <3>1. batch[r] \subseteq Int
        BY DEF Types, Row
      <3> QED
        BY <2>1, <3>1 DEF At, Types, Row
    <2> QED
      BY <1>0, <2>1, <2>2, <2>3 DEF FlowInv, At
  <1>8. \/ UNCHANGED <<batch, stage>>
        \/ \E r \in Replica : Poll(r) \/ Abandon(r)
        \/ \E r \in Replica, i \in Row :
             Advance(r, i) \/ Publish(r, i) \/ (i \in batch[r] /\ GoOn(r, "record"))
    BY ZenonT(30) DEF Steps, Commit, Drop, PublishRefused, Mark, RecordFailure, At,
           PublishFails, MarkFails, RetryLetter, DiscardLetter,
           Skip, Handle, Record, Die, Park, relayVars
  <1> QED
    BY <1>1, <1>2, <1>4, <1>5, <1>6, <1>7, <1>8

\* A row is closed for a reason.
LEMMA Closes ==
    ASSUME Types, Known, FlowInv, Steps, NEW j \in 1..Len(outbox)
    PROVE  /\ outbox'[j].letters >= outbox[j].letters
           /\ outbox'[j].processed => \/ outbox[j].processed \/ Kind(j) \in Silent
                                      \/ Delivered(j) \/ outbox'[j].letters > 0
  <1> DEFINE Goal == /\ outbox'[j].letters >= outbox[j].letters
                     /\ outbox'[j].processed => \/ outbox[j].processed \/ Kind(j) \in Silent
                                                \/ Delivered(j) \/ outbox'[j].letters > 0
  <1>0. outbox[j] \in Entry /\ outbox[j].letters \in Nat
    <2>1. outbox[j] \in Entry
      BY DEF Types
    <2> QED
      BY <2>1 DEF Entry
  <1>1. ASSUME NEW e \in Event, Commit(e) PROVE Goal
    BY <1>0, <1>1, CommitRows
  <1>2. ASSUME NEW i \in 1..Len(outbox), RetryLetter(i) \/ DiscardLetter(i) PROVE Goal
    BY <1>0, <1>2, LetterRows
  <1>3. ASSUME NEW r \in Replica, NEW i \in Row, Drop(r, i) \/ Mark(r, i) PROVE Goal
    <2>1. i \in 1..Len(outbox) /\ outbox[i] \in Entry
      BY <1>3, AtRow DEF Drop, Mark
    <2>2. outbox' = [outbox EXCEPT ![i].processed = TRUE]
      BY <1>3 DEF Drop, Mark
    <2>3. /\ outbox'[i] = [outbox[i] EXCEPT !.processed = TRUE]
          /\ j # i => outbox'[j] = outbox[j]
      BY <2>1, <2>2, CloseRow
    <2>4. outbox'[i].letters = outbox[i].letters
      BY <2>1, <2>3 DEF Entry
    <2>5. Kind(i) \in Silent \/ Delivered(i)
      <3>1. CASE Drop(r, i)
        BY <3>1 DEF Drop
      <3>2. CASE Mark(r, i)
        BY <3>2 DEF Mark, FlowInv
      <3> QED
        BY <1>3, <3>1, <3>2
    <2>6. CASE j = i
      BY <1>0, <2>4, <2>5, <2>6
    <2>7. CASE j # i
      <3>1. outbox'[j] = outbox[j]
        BY <2>3, <2>7
      <3> QED
        BY <1>0, <3>1
    <2> QED
      BY <2>6, <2>7
  <1>4. ASSUME NEW r \in Replica, NEW i \in Row, RecordFailure(r, i) PROVE Goal
    <2>1. i \in 1..Len(outbox) /\ outbox[i] \in Entry
      BY <1>4, AtRow DEF RecordFailure
    <2>2. outbox[i].letters \in Nat
      BY <2>1 DEF Entry
    <2>3. /\ j # i => outbox'[j] = outbox[j]
          /\ \/ /\ outbox'[i].processed = outbox[i].processed
                /\ outbox'[i].letters = outbox[i].letters
             \/ outbox'[i].letters = outbox[i].letters + 1
      BY <1>4, <2>1, CountRow
    <2> QED
      BY <1>0, <2>2, <2>3
  <1>5. CASE UNCHANGED outbox
    BY <1>0, <1>5
  <1>6. \/ UNCHANGED outbox
        \/ \E e \in Event : Commit(e)
        \/ \E i \in 1..Len(outbox) : RetryLetter(i) \/ DiscardLetter(i)
        \/ \E r \in Replica, i \in Row : Drop(r, i) \/ Mark(r, i) \/ RecordFailure(r, i)
    BY DEF Steps, Poll, Abandon, Publish, PublishRefused, PublishFails, MarkFails,
           Skip, Handle, Record, Die, Park, relayVars
  <1> QED
    BY <1>1, <1>2, <1>3, <1>4, <1>5, <1>6

LEMMA LostStep ==
    ASSUME Types, Known, FlowInv, NothingLost, Steps
    PROVE  FlowInv' /\ NothingLost'
  <1>1. FlowInv'
    BY DeliveredStays, MarkStays DEF FlowInv
  <1>2. Types' /\ Grows
    BY TypesStep
  <1>3. /\ DOMAIN outbox = 1..Len(outbox) /\ DOMAIN outbox' = 1..Len(outbox')
        /\ Len(outbox) \in Nat /\ Len(outbox') \in Nat /\ Len(outbox) <= MaxRows
    BY <1>2 DEF Types
  <1>4. ASSUME NEW j \in 1..Len(outbox'), outbox'[j].processed
        PROVE  outbox'[j].event \in Silent \/ Delivered(j)' \/ outbox'[j].letters > 0
    <2>1. j \in 1..Len(outbox)
      BY <1>2, <1>3, <1>4 DEF Grows
    <2>2. /\ outbox'[j].event = outbox[j].event
          /\ outbox[j].letters \in Nat /\ outbox'[j].letters \in Nat
      <3>1. outbox[j] \in Entry
        BY <2>1 DEF Types
      <3>2. outbox'[j] \in Entry
        BY <1>2, <1>4 DEF Types
      <3> QED
        BY <1>2, <2>1, <3>1, <3>2 DEF Grows, Entry
    <2>3. Delivered(j) => Delivered(j)'
      BY <1>3, <2>1, DeliveredStays, OutboxAssumption DEF Row
    <2>4. outbox[j].processed => Kind(j) \in Silent \/ Delivered(j) \/ outbox[j].letters > 0
      BY <1>3, <2>1 DEF NothingLost
    <2>5. /\ outbox'[j].letters >= outbox[j].letters
          /\ \/ outbox[j].processed \/ Kind(j) \in Silent
             \/ Delivered(j) \/ outbox'[j].letters > 0
      BY <1>4, <2>1, Closes
    <2> QED
      BY <2>2, <2>3, <2>4, <2>5 DEF Kind
  <1> QED
    BY <1>1, <1>3, <1>4 DEF NothingLost, Kind

LEMMA InitLost == Init => FlowInv /\ NothingLost
  <1> SUFFICES ASSUME Init PROVE FlowInv /\ NothingLost
    OBVIOUS
  <1>1. DOMAIN outbox = {} /\ seen = {} /\ busy = {}
    BY DEF Init
  <1>2. \A r \in Replica : batch[r] = {} /\ stage[r] = "publish"
    BY DEF Init
  <1> QED
    BY <1>1, <1>2 DEF FlowInv, NothingLost, At

Flow == Types /\ Known /\ FlowInv /\ NothingLost

LEMMA FlowStep == Flow /\ [Next]_vars => Flow'
  <1> SUFFICES ASSUME Flow, [Next]_vars PROVE Flow'
    OBVIOUS
  <1>1. CASE Next
    BY <1>1, NextIsSteps, TypesStep, LostStep DEF Flow
  <1>2. CASE UNCHANGED vars
    <2> USE DEF vars, relayVars, consumerVars
    <2>1. Types' /\ Known'
      BY <1>2 DEF Flow, Types, Known
    <2>2. FlowInv' /\ NothingLost'
      BY <1>2 DEF Flow, FlowInv, NothingLost, At, Delivered, Kind
    <2> QED
      BY <2>1, <2>2 DEF Flow
  <1> QED
    BY <1>1, <1>2

LEMMA FlowInvariance == Spec => []Flow
  <1>1. Init => Flow
    BY InitTypes, InitLost DEF Flow
  <1> QED
    BY <1>1, FlowStep, PTL DEF Spec

\* At least once: whatever fails and wherever a process dies, a row the relay
\* has closed was dropped on purpose, has reached its consumer's queue and
\* stays there until the handler has run, or is in DeadLetterEvents.
THEOREM ClosedRowsAreNotLost == Spec => []NothingLost
  BY FlowInvariance, PTL DEF Flow
-----------------------------------------------------------------------------
(* A handler runs once for a row with a stable MessageId.                  *)

\* The MessageId of row i, and what holds of it between the steps of the
\* filter: one handler at a time, none once the id is recorded, and every run
\* so far that is neither recorded nor under way is a death.
Key(i) == [row |-> i, n |-> 0]

Idle(i) == \A b \in busy : b.row # i

OnceAt(i) ==
    /\ \A b, c \in busy : b.row = i /\ c.row = i => b = c
    /\ Key(i) \in seen => Idle(i)
    /\ handled[i] <= 1 + deaths[i]
    /\ Key(i) \notin seen /\ Idle(i) => handled[i] <= deaths[i]

OnceInv == \A i \in 1..Len(outbox) : Kind(i) \in Stable => OnceAt(i)

\* A consumer's step leaves the account of every other row alone.
LEMMA OtherRow ==
    ASSUME Types, NEW c \in wire, NEW i \in Row, i # c.row, OnceAt(i),
           handled'[i] = handled[i], deaths'[i] = deaths[i],
           busy' \in {busy, busy \union {c}, busy \ {c}},
           seen' \in {seen, seen \union {MessageId(c)}}
    PROVE  OnceAt(i)'
  <1>1. c \in Copy /\ MessageId(c).row = c.row
    BY IdType DEF Types
  <1>2. Key(i) \in seen' <=> Key(i) \in seen
    BY <1>1 DEF Key
  <1>3. \A b : b.row = i => (b \in busy' <=> b \in busy)
    OBVIOUS
  <1>4. Idle(i)' <=> Idle(i)
    BY <1>3 DEF Idle
  <1>5. Key(i)' = Key(i)
    BY DEF Key
  <1> QED
    BY <1>2, <1>3, <1>4, <1>5 DEF OnceAt

LEMMA OnceStep ==
    ASSUME Types, Known, OnceInv, Steps, Types', Grows
    PROVE  OnceInv'
  <1> SUFFICES ASSUME NEW i \in 1..Len(outbox'), outbox'[i].event \in Stable
               PROVE  OnceAt(i)'
    BY DEF OnceInv, Kind
  <1>0. /\ Len(outbox) \in Nat /\ Len(outbox') \in Nat /\ Len(outbox') <= MaxRows
        /\ i \in Row /\ i \in Nat
    <2>1. Len(outbox) \in Nat /\ Len(outbox') \in Nat /\ Len(outbox') <= MaxRows
      BY DEF Types
    <2> QED
      BY <2>1, OutboxAssumption DEF Row
  <1>h. handled[i] \in Nat /\ deaths[i] \in Nat
    BY <1>0 DEF Types
  <1>1. CASE i \notin 1..Len(outbox)
    <2>1. i > Len(outbox)
      BY <1>0, <1>1
    <2>2. UNCHANGED <<busy, seen, handled, deaths>>
      <3>1. \/ \E e \in Event : Commit(e)
            \/ \E j \in 1..Len(outbox) : RetryLetter(j) \/ DiscardLetter(j)
            \/ Len(outbox') = Len(outbox)
        <4>1. ASSUME NEW r \in Replica, NEW j \in Row, Drop(r, j) \/ Mark(r, j)
              PROVE  Len(outbox') = Len(outbox)
          BY <4>1, AtRow, CloseRow DEF Drop, Mark
        <4>2. ASSUME NEW r \in Replica, NEW j \in Row, RecordFailure(r, j)
              PROVE  Len(outbox') = Len(outbox)
          BY <4>2, AtRow, CountRow DEF RecordFailure
        <4> QED
          BY <4>1, <4>2 DEF Steps, Poll, Abandon, Publish, PublishRefused, PublishFails,
                           MarkFails, Skip, Handle, Record, Die, Park, relayVars
      <3> QED
        BY <1>0, <1>1, <3>1 DEF Commit, RetryLetter, DiscardLetter, consumerVars
    <2>3. handled[i] = 0
      BY <1>0, <2>1 DEF Known
    <2>4. Idle(i)
      BY <1>1 DEF Idle, Known, Types
    <2> QED
      BY <1>h, <2>2, <2>3, <2>4 DEF OnceAt, Idle
  <1>2. CASE i \in 1..Len(outbox)
    <2>1. Kind(i) \in Stable /\ OnceAt(i)
      BY <1>2 DEF Grows, Kind, OnceInv
    <2>2. CASE UNCHANGED <<busy, seen, handled, deaths>>
      BY <2>1, <2>2 DEF OnceAt, Idle, Key
    <2>3. ASSUME NEW c \in wire, Handle(c) PROVE OnceAt(i)'
      <3>1. /\ busy' = busy \union {c} /\ handled' = [handled EXCEPT ![c.row] = @ + 1]
            /\ UNCHANGED <<seen, deaths>> /\ MessageId(c) \notin seen
            /\ \A b \in busy : MessageId(b) # MessageId(c)
        BY <2>3 DEF Handle, Waiting, Locked
      <3>2. CASE i # c.row
        <4>1. handled'[i] = handled[i]
          BY <3>1, <3>2 DEF Types
        <4> QED
          BY <1>0, <2>1, <3>1, <3>2, <4>1, OtherRow
      <3>3. CASE i = c.row
        <4>1. \A b \in busy \union {c} : b.row = i => MessageId(b) = Key(i)
          BY <2>1 DEF MessageId, Key
        <4>2. Idle(i) /\ Key(i) \notin seen
          BY <3>1, <3>3, <4>1 DEF Idle
        <4>3. handled[i] <= deaths[i]
          BY <2>1, <4>2 DEF OnceAt
        <4>4. handled'[i] = handled[i] + 1
          BY <1>0, <3>1, <3>3 DEF Types
        <4>5. \A b \in busy' : b.row = i => b = c
          BY <3>1, <4>2 DEF Idle
        <4>6. Key(i) \notin seen' /\ ~ Idle(i)'
          BY <3>1, <3>3, <4>2 DEF Idle
        <4> QED
          BY <1>h, <3>1, <4>3, <4>4, <4>5, <4>6 DEF OnceAt, Key
      <3> QED
        BY <3>2, <3>3
    <2>4. ASSUME NEW c \in wire, Record(c) PROVE OnceAt(i)'
      <3>1. /\ c \in busy /\ busy' = busy \ {c} /\ UNCHANGED <<handled, deaths>>
            /\ seen' = seen \union {MessageId(c)}
        BY <2>4 DEF Record
      <3>2. CASE i # c.row
        BY <1>0, <2>1, <3>1, <3>2, OtherRow
      <3>3. CASE i = c.row
        <4>1. Idle(i)'
          BY <2>1, <3>1, <3>3 DEF OnceAt, Idle
        <4>2. MessageId(c) = Key(i)
          BY <2>1, <3>3 DEF MessageId, Key
        <4> QED
          BY <2>1, <3>1, <4>1, <4>2 DEF OnceAt, Idle, Key
      <3> QED
        BY <3>2, <3>3
    <2>5. ASSUME NEW c \in wire, Die(c) PROVE OnceAt(i)'
      <3>1. /\ c \in busy /\ busy' = busy \ {c} /\ UNCHANGED <<handled, seen>>
            /\ deaths' = [deaths EXCEPT ![c.row] = @ + 1]
        BY <2>5 DEF Die
      <3>2. CASE i # c.row
        <4>1. deaths'[i] = deaths[i]
          BY <3>1, <3>2 DEF Types
        <4> QED
          BY <1>0, <2>1, <3>1, <3>2, <4>1, OtherRow
      <3>3. CASE i = c.row
        <4>1. Idle(i)'
          BY <2>1, <3>1, <3>3 DEF OnceAt, Idle
        <4>2. deaths'[i] = deaths[i] + 1 /\ handled[i] <= 1 + deaths[i]
          BY <1>0, <2>1, <3>1, <3>3 DEF Types, OnceAt
        <4>3. handled'[i] <= deaths'[i] /\ handled'[i] <= 1 + deaths'[i]
          BY <1>h, <3>1, <4>2
        <4> QED
          BY <4>1, <4>3 DEF OnceAt, Idle
      <3> QED
        BY <3>2, <3>3
    <2>6. \/ UNCHANGED <<busy, seen, handled, deaths>>
          \/ \E c \in wire : Handle(c) \/ Record(c) \/ Die(c)
      BY ZenonT(30) DEF Steps, Commit, Poll, Abandon, Drop, Publish, PublishRefused, Mark, RecordFailure,
             PublishFails, MarkFails, RetryLetter, DiscardLetter, Skip, Park, consumerVars
    <2> QED
      BY <2>2, <2>3, <2>4, <2>5, <2>6
  <1> QED
    BY <1>1, <1>2

\* However often a row with a stable MessageId is published, by whichever
\* replicas, its handler runs once, and once more only for a run that ended
\* before the id was recorded.
THEOREM StableRowsAreHandledOnce == Spec => []HandledOncePerRow
  <1>1. Init => OnceInv
    BY DEF Init, OnceInv
  <1>2. Flow /\ OnceInv /\ [Next]_vars => OnceInv'
    <2> SUFFICES ASSUME Flow, OnceInv, [Next]_vars PROVE OnceInv'
      OBVIOUS
    <2>1. CASE Next
      <3>1. Types' /\ Grows
        BY <2>1, NextIsSteps, TypesStep DEF Flow
      <3> QED
        BY <2>1, <3>1, NextIsSteps, OnceStep DEF Flow
    <2>2. CASE UNCHANGED vars
      BY <2>2 DEF vars, relayVars, consumerVars, OnceInv, OnceAt, Idle, Key, Kind
    <2> QED
      BY <2>1, <2>2
  <1>3. Flow /\ OnceInv => HandledOncePerRow
    <2>1. ASSUME Types PROVE DOMAIN outbox = 1..Len(outbox)
      BY <2>1 DEF Types
    <2> QED
      BY <2>1 DEF Flow, OnceInv, OnceAt, HandledOncePerRow
  <1> QED
    BY <1>1, <1>2, <1>3, FlowInvariance, PTL DEF Spec
-----------------------------------------------------------------------------
(* A row is given up for good, and at most once by every replica.          *)

\* The replicas that have row i in their batch: only these can still write a
\* dead letter for it once it is closed.
Holders(i) == {r \in Replica : i \in batch[r]}

BuryInv ==
    \A i \in 1..Len(outbox) : outbox[i].letters > 0
        => /\ outbox[i].processed
           /\ outbox[i].retries >= MaxRetries
           /\ outbox[i].letters + Cardinality(Holders(i)) <= Cardinality(Replica)

LEMMA HoldersCount ==
    /\ Cardinality(Replica) \in Nat
    /\ \A i : IsFiniteSet(Holders(i)) /\ Cardinality(Holders(i)) \in Nat
              /\ Cardinality(Holders(i)) <= Cardinality(Replica)
  <1>1. \A i : Holders(i) \subseteq Replica
    BY DEF Holders
  <1> QED
    BY <1>1, OutboxAssumption, FS_Subset, FS_CardinalityType

LEMMA FewerHolders ==
    ASSUME NEW i, Holders(i)' \subseteq Holders(i)
    PROVE  Cardinality(Holders(i)') <= Cardinality(Holders(i)) /\ Cardinality(Holders(i)') \in Nat
  <1>1. IsFiniteSet(Holders(i))
    BY HoldersCount
  <1> QED
    BY <1>1, FS_Subset, FS_CardinalityType

\* A row whose account does not change, under batches that do not grow by it.
LEMMA SameAccount ==
    ASSUME Types, NEW i \in 1..Len(outbox), BuryInv, outbox'[i].letters > 0,
           outbox'[i].letters = outbox[i].letters, outbox'[i].retries = outbox[i].retries,
           outbox[i].processed => outbox'[i].processed,
           Holders(i)' \subseteq Holders(i)
    PROVE  /\ outbox'[i].processed
           /\ outbox'[i].retries >= MaxRetries
           /\ outbox'[i].letters + Cardinality(Holders(i)') <= Cardinality(Replica)
  <1>1. outbox[i] \in Entry
    BY DEF Types
  <1>2. outbox[i].letters \in Nat
    BY <1>1 DEF Entry
  <1>3. /\ outbox[i].processed /\ outbox[i].retries >= MaxRetries
        /\ outbox[i].letters + Cardinality(Holders(i)) <= Cardinality(Replica)
    BY DEF BuryInv
  <1> QED
    BY <1>2, <1>3, FewerHolders, HoldersCount

LEMMA BuryStep ==
    ASSUME Types, Known, BuryInv, Steps, Types', Grows
    PROVE  BuryInv'
  <1> SUFFICES ASSUME NEW j \in 1..Len(outbox'), outbox'[j].letters > 0
               PROVE  /\ outbox'[j].processed
                      /\ outbox'[j].retries >= MaxRetries
                      /\ outbox'[j].letters + Cardinality(Holders(j)') <= Cardinality(Replica)
    BY DEF BuryInv
  <1> DEFINE Goal == /\ outbox'[j].processed
                     /\ outbox'[j].retries >= MaxRetries
                     /\ outbox'[j].letters + Cardinality(Holders(j)') <= Cardinality(Replica)
  <1>0. /\ Len(outbox) \in Nat /\ Len(outbox') \in Nat
        /\ j \in 1..Len(outbox) /\ outbox[j] \in Entry
    <2>1. Len(outbox) \in Nat /\ Len(outbox') \in Nat
      BY DEF Types
    <2>2. j \in 1..Len(outbox)
      BY <2>1 DEF Grows
    <2> QED
      BY <2>1, <2>2 DEF Types
  <1>1. ASSUME outbox'[j].letters = outbox[j].letters, outbox'[j].retries = outbox[j].retries,
               outbox[j].processed => outbox'[j].processed, Holders(j)' \subseteq Holders(j)
        PROVE  Goal
    BY <1>0, <1>1, SameAccount
  <1> HIDE DEF Goal
  <1>2. ASSUME NEW e \in Event, Commit(e) PROVE Goal
    BY <1>0, <1>1, <1>2, CommitRows DEF Commit, Holders
  <1>3. ASSUME NEW i \in 1..Len(outbox), RetryLetter(i) \/ DiscardLetter(i) PROVE Goal
    <2>1. UNCHANGED batch
      BY <1>3 DEF RetryLetter, DiscardLetter
    <2> QED
      BY <1>0, <1>1, <1>3, <2>1, LetterRows DEF Holders
  <1>4. ASSUME NEW r \in Replica, Poll(r) PROVE Goal
    <2>1. outbox' = outbox /\ batch[r] = {}
          /\ \A q \in Replica : q # r => batch'[q] = batch[q]
      BY <1>4 DEF Poll, Types
    <2>2. outbox[j].processed
      BY <1>0, <2>1 DEF BuryInv
    <2>3. j \notin batch'[r]
      BY <1>4, <2>2 DEF Poll, Pending, Types
    <2> QED
      BY <1>1, <2>1, <2>3 DEF Holders
  <1>5. ASSUME NEW r \in Replica, NEW i \in Row, Drop(r, i) \/ Mark(r, i) PROVE Goal
    <2>1. i \in 1..Len(outbox) /\ outbox[i] \in Entry
      BY <1>5, AtRow DEF Drop, Mark
    <2>2. outbox' = [outbox EXCEPT ![i].processed = TRUE] /\ Advance(r, i)
      BY <1>5 DEF Drop, Mark
    <2>3. /\ outbox'[i] = [outbox[i] EXCEPT !.processed = TRUE]
          /\ j # i => outbox'[j] = outbox[j]
      BY <1>0, <2>1, <2>2, CloseRow
    <2>4. /\ outbox'[i].letters = outbox[i].letters /\ outbox'[i].retries = outbox[i].retries
          /\ outbox'[i].processed
      BY <2>1, <2>3 DEF Entry
    <2>5. Holders(j)' \subseteq Holders(j)
      BY <2>2, AdvanceTypes DEF Holders
    <2>6. CASE j = i
      BY <1>1, <2>4, <2>5, <2>6
    <2>7. CASE j # i
      BY <1>1, <2>3, <2>5, <2>7
    <2> QED
      BY <2>6, <2>7
  <1>6. ASSUME NEW r \in Replica, NEW i \in Row, RecordFailure(r, i) PROVE Goal
    <2>1. i \in 1..Len(outbox) /\ outbox[i] \in Entry
      BY <1>6, AtRow DEF RecordFailure
    <2>2. Advance(r, i) /\ i \in batch[r]
      BY <1>6 DEF RecordFailure, At
    <2>3. Holders(j)' \subseteq Holders(j)
      BY <2>2, AdvanceTypes DEF Holders
    <2>4. CASE j # i
      BY <1>0, <1>1, <1>6, <2>1, <2>3, <2>4, CountRow
    <2>5. CASE j = i
      <3>1. /\ outbox'[j].retries = outbox[j].retries + 1
            /\ \/ /\ outbox[j].retries + 1 < MaxRetries
                  /\ outbox'[j].letters = outbox[j].letters
               \/ /\ outbox[j].retries + 1 >= MaxRetries
                  /\ outbox'[j].processed
                  /\ outbox'[j].letters = outbox[j].letters + 1
        BY <1>6, <2>1, <2>5, CountRow
      <3>2. outbox[j].letters \in Nat /\ outbox[j].retries \in Nat /\ MaxRetries \in Nat
        BY <1>0, OutboxAssumption DEF Entry
      <3>3. outbox[j].letters > 0 => /\ outbox[j].retries >= MaxRetries
                                     /\ outbox[j].letters + Cardinality(Holders(j))
                                          <= Cardinality(Replica)
        BY <1>0 DEF BuryInv
      <3>4. /\ outbox[j].retries + 1 >= MaxRetries /\ outbox'[j].processed
            /\ outbox'[j].letters = outbox[j].letters + 1
        BY <3>1, <3>2, <3>3
      <3>5. r \in Holders(j) /\ Holders(j)' = Holders(j) \ {r}
        BY <2>2, <2>5 DEF Holders, Advance, Types
      <3>6. Cardinality(Holders(j)') = Cardinality(Holders(j)) - 1
        BY <3>5, HoldersCount, FS_RemoveElement
      <3>7. outbox'[j].letters + Cardinality(Holders(j)') <= Cardinality(Replica)
        BY SMTT(30), <3>2, <3>3, <3>4, <3>6, HoldersCount
      <3> QED
        BY <3>1, <3>4, <3>7 DEF Goal
    <2> QED
      BY <2>4, <2>5
  <1>7. CASE outbox' = outbox /\ \A q \in Replica : batch'[q] \subseteq batch[q]
    <2>1. Holders(j)' \subseteq Holders(j)
      BY <1>7 DEF Holders
    <2>2. /\ outbox'[j].letters = outbox[j].letters
          /\ outbox'[j].retries = outbox[j].retries
          /\ outbox[j].processed => outbox'[j].processed
      BY <1>7
    <2> QED
      BY <1>1, <2>1, <2>2 DEF Goal
  <1>8. ASSUME NEW r \in Replica, Abandon(r) PROVE \A q \in Replica : batch'[q] \subseteq batch[q]
    BY <1>8 DEF Abandon, Types
  <1>9. \/ outbox' = outbox /\ \A q \in Replica : batch'[q] \subseteq batch[q]
        \/ \E e \in Event : Commit(e)
        \/ \E i \in 1..Len(outbox) : RetryLetter(i) \/ DiscardLetter(i)
        \/ \E r \in Replica : Poll(r)
        \/ \E r \in Replica, i \in Row : Drop(r, i) \/ Mark(r, i) \/ RecordFailure(r, i)
    BY <1>8 DEF Steps, Abandon, Publish, PublishRefused, PublishFails, MarkFails, GoOn,
                Skip, Handle, Record, Die, Park, relayVars
  <1> QED
    BY <1>2, <1>3, <1>4, <1>5, <1>6, <1>7, <1>9 DEF Goal

\* A row is given up only after MaxRetries failures, is then closed, and is put
\* into DeadLetterEvents at most once by each replica that had read it before.
THEOREM RowsAreGivenUpOncePerReplica == Spec => []GivenUpAtMostOncePerReplica
  <1>1. Init => BuryInv
    BY DEF Init, BuryInv
  <1>2. Flow /\ BuryInv /\ [Next]_vars => BuryInv'
    <2> SUFFICES ASSUME Flow, BuryInv, [Next]_vars PROVE BuryInv'
      OBVIOUS
    <2>1. CASE Next
      <3>1. Types' /\ Grows
        BY <2>1, NextIsSteps, TypesStep DEF Flow
      <3> QED
        BY <2>1, <3>1, NextIsSteps, BuryStep DEF Flow
    <2>2. CASE UNCHANGED vars
      BY <2>2 DEF vars, relayVars, BuryInv, Holders
    <2> QED
      BY <2>1, <2>2
  <1>3. Flow /\ BuryInv => GivenUpAtMostOncePerReplica
    <2> SUFFICES ASSUME Flow, BuryInv, NEW i \in DOMAIN outbox, outbox[i].letters > 0
                 PROVE  /\ outbox[i].processed
                        /\ outbox[i].retries >= MaxRetries
                        /\ outbox[i].letters <= Cardinality(Replica)
      BY DEF GivenUpAtMostOncePerReplica
    <2>1. i \in 1..Len(outbox) /\ outbox[i] \in Entry
      BY DEF Flow, Types
    <2>2. outbox[i].letters \in Nat
      BY <2>1 DEF Entry
    <2>3. /\ outbox[i].processed /\ outbox[i].retries >= MaxRetries
          /\ outbox[i].letters + Cardinality(Holders(i)) <= Cardinality(Replica)
      BY <2>1 DEF BuryInv
    <2> QED
      BY <2>2, <2>3, HoldersCount
  <1> QED
    BY <1>1, <1>2, <1>3, FlowInvariance, PTL DEF Spec
-----------------------------------------------------------------------------
(* How often a row is published.                                           *)

\* A replica without a batch has nothing half done.
RestInv == \A r \in Replica : batch[r] = {} => stage[r] = "publish"

\* The replicas that have published row i and not yet marked it, and those that
\* may still publish it from their batch.
Marking(i) == {r \in Replica : At(r, i, "mark")}
Reading(i) == Holders(i) \ Marking(i)

\* While a row is open, every publish but the failed ones is about to be marked;
\* once it is closed, only the batches read before can still publish it.
CopyAt(i) ==
    IF outbox[i].processed
    THEN copies[i] + Cardinality(Reading(i)) <= failures + Cardinality(Replica)
    ELSE copies[i] <= failures + Cardinality(Marking(i))

CopyInv == \A i \in 1..Len(outbox) : CopyAt(i)

\* Replacing a set of replicas by one that has at most one more.
LEMMA ReplicaSets ==
    ASSUME NEW S \in SUBSET Replica, NEW T \in SUBSET Replica
    PROVE  /\ Cardinality(S) \in Nat /\ Cardinality(T) \in Nat /\ Cardinality(Replica) \in Nat
           /\ S \subseteq T => Cardinality(S) <= Cardinality(T)
           /\ S \intersect T = {} => Cardinality(S) + Cardinality(T) <= Cardinality(Replica)
           /\ \A r \in Replica : S \subseteq T \union {r} => Cardinality(S) <= Cardinality(T) + 1
           /\ \A r \in T : S \subseteq T \ {r} => Cardinality(S) + 1 <= Cardinality(T)
  <1>1. /\ IsFiniteSet(Replica) /\ IsFiniteSet(S) /\ IsFiniteSet(T)
        /\ Cardinality(S) \in Nat /\ Cardinality(T) \in Nat /\ Cardinality(Replica) \in Nat
    BY OutboxAssumption, FS_Subset, FS_CardinalityType
  <1>2. S \subseteq T => Cardinality(S) <= Cardinality(T)
    BY <1>1, FS_Subset
  <1>3. ASSUME S \intersect T = {} PROVE Cardinality(S) + Cardinality(T) <= Cardinality(Replica)
    <2>1. S \union T \subseteq Replica
      OBVIOUS
    <2>2. Cardinality(S \union T) <= Cardinality(Replica)
      BY <1>1, <2>1, FS_Subset
    <2>3. Cardinality(S \union T) = Cardinality(S) + Cardinality(T)
      <3>1. Cardinality(S \intersect T) = 0
        BY <1>3, FS_EmptySet
      <3>2. Cardinality(S \union T) = Cardinality(S) + Cardinality(T) - Cardinality(S \intersect T)
        BY <1>1, FS_Union
      <3> QED
        BY <1>1, <3>1, <3>2
    <2> QED
      BY <2>2, <2>3
  <1>4. ASSUME NEW r \in Replica, S \subseteq T \union {r}
        PROVE  Cardinality(S) <= Cardinality(T) + 1
    <2>1. /\ IsFiniteSet(T \union {r})
          /\ Cardinality(T \union {r}) = IF r \in T THEN Cardinality(T) ELSE Cardinality(T) + 1
      BY <1>1, FS_AddElement
    <2>2. Cardinality(S) <= Cardinality(T \union {r})
      BY <1>4, <2>1, FS_Subset
    <2> QED
      BY <1>1, <2>1, <2>2
  <1>5. ASSUME NEW r \in T, S \subseteq T \ {r} PROVE Cardinality(S) + 1 <= Cardinality(T)
    <2>1. IsFiniteSet(T \ {r}) /\ Cardinality(T \ {r}) = Cardinality(T) - 1
      BY <1>1, FS_RemoveElement
    <2>2. Cardinality(S) <= Cardinality(T \ {r})
      BY <1>5, <2>1, FS_Subset
    <2> QED
      BY <1>1, <2>1, <2>2
  <1> QED
    BY <1>1, <1>2, <1>3, <1>4, <1>5

LEMMA CardsAreNumbers ==
    \A i : /\ Cardinality(Marking(i)) \in Nat /\ Cardinality(Reading(i)) \in Nat
           /\ Cardinality(Replica) \in Nat
           /\ Cardinality(Marking(i)) <= Cardinality(Replica)
  <1>1. \A i : Marking(i) \in SUBSET Replica /\ Reading(i) \in SUBSET Replica
    BY DEF Marking, Reading, Holders
  <1> QED
    BY <1>1, ReplicaSets

\* What the relay's actions do to these sets.
LEMMA AdvanceSets ==
    ASSUME Types, NEW r \in Replica, NEW i \in Row, NEW s, At(r, i, s), Advance(r, i), NEW j \in Row
    PROVE  /\ r \in Holders(i)
           /\ j # i => Marking(j)' = Marking(j) /\ Reading(j)' = Reading(j)
           /\ Marking(i)' = Marking(i) \ {r}
           /\ Reading(i)' = Reading(i) \ {r}
  <1>1. /\ batch' = [batch EXCEPT ![r] = @ \ {i}]
        /\ stage' = [stage EXCEPT ![r] = "publish"]
        /\ i \in batch[r] /\ \A k \in batch[r] : i <= k
    BY DEF At, Advance
  <1>2. /\ \A q \in Replica : q # r => batch'[q] = batch[q] /\ stage'[q] = stage[q]
        /\ batch'[r] = batch[r] \ {i} /\ stage'[r] = "publish"
    BY <1>1 DEF Types
  <1>3. \A k \in Row : r \notin Marking(k)'
    BY <1>2 DEF Marking, At
  <1>4. \A q \in Replica, k \in Row : q # r => (q \in Marking(k)' <=> q \in Marking(k))
    BY <1>2 DEF Marking, At
  <1>5. j # i => r \notin Marking(j)
    <2>1. j # i /\ j \in batch[r] => ~ (j <= i)
      BY <1>1, OutboxAssumption DEF Row
    <2> QED
      BY <1>1, <2>1 DEF Marking, At
  <1>6. Holders(i)' = Holders(i) \ {r} /\ (j # i => Holders(j)' = Holders(j)) /\ r \in Holders(i)
    BY <1>1, <1>2 DEF Holders
  <1>7. Marking(i)' = Marking(i) \ {r} /\ (j # i => Marking(j)' = Marking(j))
    <2>1. \A k \in Row : Marking(k) \subseteq Replica /\ Marking(k)' \subseteq Replica
      BY DEF Marking
    <2> QED
      BY <1>3, <1>4, <1>5, <2>1
  <1> QED
    BY <1>6, <1>7 DEF Reading

LEMMA GoOnSets ==
    ASSUME Types, NEW r \in Replica, NEW i \in Row, NEW s, At(r, i, s),
           NEW t \in {"publish", "mark", "record"}, GoOn(r, t), NEW j \in Row
    PROVE  /\ r \in Holders(i)
           /\ j # i => Marking(j)' = Marking(j) /\ Reading(j)' = Reading(j)
           /\ t = "mark" => Marking(i)' = Marking(i) \union {r} /\ Reading(i)' = Reading(i) \ {r}
           /\ t # "mark" => Marking(i)' = Marking(i) \ {r} /\ Reading(i)' \subseteq Reading(i) \union {r}
           /\ s # "mark" => r \in Reading(i)
  <1>1. /\ batch' = batch /\ stage' = [stage EXCEPT ![r] = t]
        /\ i \in batch[r] /\ \A k \in batch[r] : i <= k
        /\ stage[r] = s
    BY DEF At, GoOn
  <1>2. /\ \A q \in Replica : q # r => stage'[q] = stage[q]
        /\ stage'[r] = t
    BY <1>1 DEF Types
  <1>0. \A k \in batch[r] : k \in Row /\ ((\A l \in batch[r] : k <= l) <=> k = i)
    <2>1. batch[r] \subseteq Row
      BY DEF Types
    <2>2. \A k \in Row : k \in Nat
      BY OutboxAssumption DEF Row
    <2>3. ASSUME NEW k \in batch[r], \A l \in batch[r] : k <= l
          PROVE  k = i
      <3>1. k <= i /\ i <= k /\ k \in Nat /\ i \in Nat
        BY <1>1, <2>1, <2>2, <2>3
      <3> QED
        BY <3>1
    <2> QED
      BY <1>1, <2>1, <2>3
  <1>3. \A k \in Row : r \in Marking(k)' <=> k = i /\ t = "mark"
    BY <1>0, <1>1, <1>2 DEF Marking, At
  <1>4. \A k \in Row : r \in Marking(k) <=> k = i /\ s = "mark"
    BY <1>0, <1>1 DEF Marking, At
  <1>5. \A q \in Replica, k \in Row : q # r => (q \in Marking(k)' <=> q \in Marking(k))
    BY <1>1, <1>2 DEF Marking, At
  <1>6. Holders(i)' = Holders(i) /\ Holders(j)' = Holders(j) /\ r \in Holders(i)
    BY <1>1 DEF Holders
  <1>7. /\ j # i => Marking(j)' = Marking(j)
        /\ t = "mark" => Marking(i)' = Marking(i) \union {r}
        /\ t # "mark" => Marking(i)' = Marking(i) \ {r}
    <2>1. \A k \in Row : Marking(k) \subseteq Replica /\ Marking(k)' \subseteq Replica
      BY DEF Marking
    <2> QED
      BY <1>3, <1>4, <1>5, <2>1
  <1> QED
    BY <1>4, <1>6, <1>7 DEF Reading

\* A row that nothing is added to: published as often as before, and the sets
\* the bound counts have not become larger, or a failure pays for the difference.
LEMMA SameCopies ==
    ASSUME Types, Types', NEW j \in Row, CopyAt(j), copies'[j] = copies[j],
           outbox'[j].processed = outbox[j].processed,
           \/ /\ failures' \in {failures, failures + 1}
              /\ Marking(j) \subseteq Marking(j)' /\ Reading(j)' \subseteq Reading(j)
           \/ /\ failures' = failures + 1
              /\ \E r \in Replica : /\ Marking(j) \subseteq Marking(j)' \union {r}
                                    /\ Reading(j)' \subseteq Reading(j) \union {r}
    PROVE  CopyAt(j)'
  <1>1. /\ copies[j] \in Nat /\ copies'[j] \in Nat /\ failures \in Nat /\ failures' \in Nat
    BY OutboxAssumption DEF Types
  <1>2. /\ Marking(j) \in SUBSET Replica /\ Reading(j) \in SUBSET Replica
        /\ Marking(j)' \in SUBSET Replica /\ Reading(j)' \in SUBSET Replica
    BY DEF Marking, Reading, Holders
  <1>3. /\ failures + Cardinality(Marking(j)) <= failures' + Cardinality(Marking(j)')
        /\ failures + Cardinality(Reading(j)') <= failures' + Cardinality(Reading(j))
    BY <1>1, <1>2, ReplicaSets
  <1>4. /\ Cardinality(Marking(j)) \in Nat /\ Cardinality(Reading(j)) \in Nat
        /\ Cardinality(Marking(j)') \in Nat /\ Cardinality(Reading(j)') \in Nat
        /\ Cardinality(Replica) \in Nat
    BY <1>2, ReplicaSets
  <1>5. CASE outbox[j].processed
    <2>1. copies[j] + Cardinality(Reading(j)) <= failures + Cardinality(Replica)
      BY <1>5 DEF CopyAt
    <2>2. copies'[j] + Cardinality(Reading(j)') <= failures' + Cardinality(Replica)
      BY <1>1, <1>3, <1>4, <2>1
    <2> QED
      BY <1>5, <2>2 DEF CopyAt
  <1>6. CASE ~ outbox[j].processed
    <2>1. copies[j] <= failures + Cardinality(Marking(j))
      BY <1>6 DEF CopyAt
    <2>2. copies'[j] <= failures' + Cardinality(Marking(j)')
      BY <1>1, <1>3, <1>4, <2>1
    <2> QED
      BY <1>6, <2>2 DEF CopyAt
  <1> QED
    BY <1>5, <1>6

\* A row that is closed by a replica that lets it go.
LEMMA ClosedCopies ==
    ASSUME Types, Types', NEW j \in Row, CopyAt(j), copies'[j] = copies[j], failures' = failures,
           outbox[j].processed => outbox'[j].processed,
           outbox'[j].processed \/ Marking(j)' = Marking(j), Reading(j)' \subseteq Reading(j)
    PROVE  CopyAt(j)'
  <1>1. /\ copies[j] \in Nat /\ failures \in Nat
    BY OutboxAssumption DEF Types
  <1>2. /\ Marking(j) \in SUBSET Replica /\ Reading(j) \in SUBSET Replica
        /\ Reading(j)' \in SUBSET Replica /\ Marking(j) \intersect Reading(j)' = {}
    BY DEF Marking, Reading, Holders
  <1>3. /\ Cardinality(Marking(j)) \in Nat /\ Cardinality(Reading(j)) \in Nat
        /\ Cardinality(Reading(j)') \in Nat /\ Cardinality(Replica) \in Nat
        /\ Cardinality(Reading(j)') <= Cardinality(Reading(j))
        /\ Cardinality(Marking(j)) + Cardinality(Reading(j)') <= Cardinality(Replica)
    BY <1>2, ReplicaSets
  <1>4. CASE outbox'[j].processed
    <2>1. \/ copies[j] + Cardinality(Reading(j)) <= failures + Cardinality(Replica)
          \/ copies[j] <= failures + Cardinality(Marking(j))
      BY DEF CopyAt
    <2>2. copies[j] + Cardinality(Reading(j)') <= failures + Cardinality(Replica)
      BY <1>1, <1>3, <2>1
    <2> QED
      BY <1>4, <2>2 DEF CopyAt
  <1>5. CASE ~ outbox'[j].processed
    BY <1>5 DEF CopyAt
  <1> QED
    BY <1>4, <1>5

\* A row that is published once more.
LEMMA OneMoreCopy ==
    ASSUME Types, Types', NEW j \in Row, CopyAt(j), copies'[j] = copies[j] + 1,
           outbox'[j].processed = outbox[j].processed,
           \/ /\ failures' = failures + 1
              /\ Marking(j) \subseteq Marking(j)' /\ Reading(j)' \subseteq Reading(j)
           \/ /\ failures' = failures
              /\ \E r \in Reading(j) : /\ Marking(j)' = Marking(j) \union {r}
                                       /\ Reading(j)' = Reading(j) \ {r}
    PROVE  CopyAt(j)'
  <1>1. /\ copies[j] \in Nat /\ failures \in Nat /\ failures' \in Nat
    BY OutboxAssumption DEF Types
  <1>2. /\ Marking(j) \in SUBSET Replica /\ Reading(j) \in SUBSET Replica
        /\ Marking(j)' \in SUBSET Replica /\ Reading(j)' \in SUBSET Replica
        /\ Marking(j) \intersect Reading(j) = {}
    BY DEF Marking, Reading, Holders
  <1>3. /\ failures + Cardinality(Marking(j)) + 1 <= failures' + Cardinality(Marking(j)')
        /\ failures + Cardinality(Reading(j)') + 1 <= failures' + Cardinality(Reading(j))
    <2>1. CASE /\ failures' = failures + 1
               /\ Marking(j) \subseteq Marking(j)' /\ Reading(j)' \subseteq Reading(j)
      BY <1>1, <1>2, <2>1, ReplicaSets
    <2>2. ASSUME failures' = failures, NEW r \in Reading(j),
                 Marking(j)' = Marking(j) \union {r}, Reading(j)' = Reading(j) \ {r}
          PROVE  /\ failures + Cardinality(Marking(j)) + 1 <= failures' + Cardinality(Marking(j)')
                 /\ failures + Cardinality(Reading(j)') + 1 <= failures' + Cardinality(Reading(j))
      <3>1. r \in Marking(j)' /\ Marking(j) \subseteq Marking(j)' \ {r}
        BY <1>2, <2>2
      <3>2. Cardinality(Marking(j)) + 1 <= Cardinality(Marking(j)')
        BY <1>2, <3>1, ReplicaSets
      <3>3. Cardinality(Reading(j)') + 1 <= Cardinality(Reading(j))
        BY <1>2, <2>2, ReplicaSets
      <3>4. /\ Cardinality(Marking(j)) \in Nat /\ Cardinality(Reading(j)) \in Nat
            /\ Cardinality(Marking(j)') \in Nat /\ Cardinality(Reading(j)') \in Nat
        BY <1>2, ReplicaSets
      <3> QED
        BY <1>1, <2>2, <3>2, <3>3, <3>4
    <2> QED
      BY <2>1, <2>2
  <1>4. /\ Cardinality(Marking(j)) \in Nat /\ Cardinality(Reading(j)) \in Nat
        /\ Cardinality(Marking(j)') \in Nat /\ Cardinality(Reading(j)') \in Nat
        /\ Cardinality(Replica) \in Nat
    BY <1>2, ReplicaSets
  <1>5. CASE outbox[j].processed
    <2>1. copies[j] + Cardinality(Reading(j)) <= failures + Cardinality(Replica)
      BY <1>5 DEF CopyAt
    <2>2. copies'[j] + Cardinality(Reading(j)') <= failures' + Cardinality(Replica)
      BY <1>1, <1>3, <1>4, <2>1
    <2> QED
      BY <1>5, <2>2 DEF CopyAt
  <1>6. CASE ~ outbox[j].processed
    <2>1. copies[j] <= failures + Cardinality(Marking(j))
      BY <1>6 DEF CopyAt
    <2>2. copies'[j] <= failures' + Cardinality(Marking(j)')
      BY <1>1, <1>3, <1>4, <2>1
    <2> QED
      BY <1>6, <2>2 DEF CopyAt
  <1> QED
    BY <1>5, <1>6

LEMMA CopyStep ==
    ASSUME Types, Known, RestInv, CopyInv, Steps, Types', Grows
    PROVE  CopyInv'
  <1> SUFFICES ASSUME NEW j \in 1..Len(outbox') PROVE CopyAt(j)'
    BY DEF CopyInv
  <1>0. /\ Len(outbox) \in Nat /\ Len(outbox') \in Nat /\ j \in Row /\ j \in Nat
        /\ failures \in Nat
    <2>1. Len(outbox) \in Nat /\ Len(outbox') \in Nat /\ Len(outbox') <= MaxRows
      BY DEF Types
    <2> QED
      BY <2>1, OutboxAssumption DEF Row, Types
  <1>1. CASE j \notin 1..Len(outbox)
    <2>1. j > Len(outbox)
      BY <1>0, <1>1
    <2>2. ~ outbox'[j].processed /\ copies[j] = 0
      BY <1>0, <2>1 DEF Grows, Known
    <2>3. UNCHANGED <<copies, failures>>
      <3>1. \/ \E e \in Event : Commit(e)
            \/ \E i \in 1..Len(outbox) : RetryLetter(i) \/ DiscardLetter(i)
            \/ Len(outbox') = Len(outbox)
        <4>1. ASSUME NEW r \in Replica, NEW i \in Row, Drop(r, i) \/ Mark(r, i)
              PROVE  Len(outbox') = Len(outbox)
          BY <4>1, AtRow, CloseRow DEF Drop, Mark
        <4>2. ASSUME NEW r \in Replica, NEW i \in Row, RecordFailure(r, i)
              PROVE  Len(outbox') = Len(outbox)
          BY <4>2, AtRow, CountRow DEF RecordFailure
        <4> QED
          BY <4>1, <4>2 DEF Steps, Poll, Abandon, Publish, PublishRefused, PublishFails,
                           MarkFails, Skip, Handle, Record, Die, Park, relayVars
      <3> QED
        BY <1>0, <1>1, <3>1 DEF Commit, RetryLetter, DiscardLetter
    <2>4. Marking(j)' \in SUBSET Replica
      BY DEF Marking
    <2>5. Cardinality(Marking(j)') \in Nat
      BY <2>4, ReplicaSets
    <2> QED
      BY <1>0, <2>2, <2>3, <2>5 DEF CopyAt
  <1>2. CASE j \in 1..Len(outbox)
    <2>0. CopyAt(j) /\ outbox[j] \in Entry
      BY <1>2 DEF CopyInv, Types
    <2>1. ASSUME UNCHANGED <<batch, stage, copies, failures>>,
                 outbox'[j].processed = outbox[j].processed
          PROVE  CopyAt(j)'
      <3>1. Marking(j)' = Marking(j) /\ Reading(j)' = Reading(j)
        BY <2>1 DEF Marking, Reading, Holders, At
      <3> QED
        BY <1>0, <2>0, <2>1, <3>1, SameCopies
    <2>2. ASSUME NEW e \in Event, Commit(e) PROVE CopyAt(j)'
      BY <1>2, <2>1, <2>2, CommitRows DEF Commit
    <2>3. ASSUME NEW i \in 1..Len(outbox), RetryLetter(i) \/ DiscardLetter(i) PROVE CopyAt(j)'
      <3>1. UNCHANGED <<batch, stage, copies, failures>>
        BY <2>3 DEF RetryLetter, DiscardLetter
      <3> QED
        BY <1>2, <2>1, <2>3, <3>1, LetterRows
    <2>4. ASSUME NEW r \in Replica, Poll(r) PROVE CopyAt(j)'
      <3>1. /\ UNCHANGED <<outbox, stage, copies, failures>> /\ batch[r] = {}
            /\ \A q \in Replica : q # r => batch'[q] = batch[q]
            /\ batch'[r] \subseteq Pending
        BY <2>4 DEF Poll, Types
      <3>2. stage[r] = "publish"
        BY <3>1 DEF RestInv
      <3>3. Marking(j)' = Marking(j)
        BY <3>1, <3>2 DEF Marking, At
      <3>4. outbox[j].processed => Reading(j)' \subseteq Reading(j)
        BY <3>1, <3>3 DEF Reading, Holders, Pending
      <3>5. CASE outbox[j].processed
        BY <1>0, <2>0, <3>1, <3>3, <3>4, <3>5, SameCopies
      <3>6. CASE ~ outbox[j].processed
        BY <2>0, <3>1, <3>3, <3>6 DEF CopyAt
      <3> QED
        BY <3>5, <3>6
    <2>5. ASSUME NEW r \in Replica, Abandon(r) PROVE CopyAt(j)'
      <3>1. /\ UNCHANGED <<outbox, copies>> /\ failures' = failures + 1
            /\ \A q \in Replica : q # r => batch'[q] = batch[q] /\ stage'[q] = stage[q]
            /\ batch'[r] = {}
        BY <2>5 DEF Abandon, Fail, Types
      <3>2. /\ Marking(j) \subseteq Marking(j)' \union {r}
            /\ Reading(j)' \subseteq Reading(j) \union {r}
        BY <3>1 DEF Marking, Reading, Holders, At
      <3> QED
        BY <1>0, <2>0, <3>1, <3>2, SameCopies
    <2>6. ASSUME NEW r \in Replica, NEW i \in Row, Drop(r, i) \/ Mark(r, i) PROVE CopyAt(j)'
      <3>1. PICK s : At(r, i, s)
        BY <2>6 DEF Drop, Mark
      <3>2. i \in 1..Len(outbox) /\ outbox[i] \in Entry
        BY <3>1, AtRow
      <3>3. /\ outbox' = [outbox EXCEPT ![i].processed = TRUE] /\ Advance(r, i)
            /\ UNCHANGED <<copies, failures>>
        BY <2>6 DEF Drop, Mark
      <3>4. /\ outbox'[i] = [outbox[i] EXCEPT !.processed = TRUE]
            /\ j # i => outbox'[j] = outbox[j]
        BY <1>2, <3>2, <3>3, CloseRow
      <3>5. /\ j # i => Marking(j)' = Marking(j) /\ Reading(j)' = Reading(j)
            /\ Reading(i)' = Reading(i) \ {r}
        BY <1>0, <3>1, <3>3, AdvanceSets
      <3>6. CASE j # i
        BY <1>0, <2>0, <3>3, <3>4, <3>5, <3>6, SameCopies
      <3>7. CASE j = i
        <4>1. outbox'[j].processed
          BY <3>2, <3>4, <3>7 DEF Entry
        <4>2. Reading(j)' \subseteq Reading(j)
          BY <3>5, <3>7
        <4> QED
          BY <1>0, <2>0, <3>3, <4>1, <4>2, ClosedCopies
      <3> QED
        BY <3>6, <3>7
    <2>7. ASSUME NEW r \in Replica, NEW i \in Row, RecordFailure(r, i) PROVE CopyAt(j)'
      <3>1. At(r, i, "record") /\ Advance(r, i) /\ UNCHANGED <<copies, failures>>
        BY <2>7 DEF RecordFailure
      <3>2. i \in 1..Len(outbox)
        BY <3>1, AtRow
      <3>3. /\ j # i => Marking(j)' = Marking(j) /\ Reading(j)' = Reading(j)
            /\ Marking(i)' = Marking(i) \ {r} /\ Reading(i)' = Reading(i) \ {r}
        BY <1>0, <3>1, AdvanceSets
      <3>4. r \notin Marking(i)
        BY <3>1 DEF Marking, At
      <3>5. Marking(j)' = Marking(j) /\ Reading(j)' \subseteq Reading(j)
        BY <3>3, <3>4
      <3>6. outbox[j].processed => outbox'[j].processed
        BY <1>2 DEF Grows
      <3> QED
        BY <1>0, <2>0, <3>1, <3>5, <3>6, ClosedCopies
    <2>8. ASSUME NEW r \in Replica, NEW i \in Row, Publish(r, i) \/ PublishFails(r, i)
          PROVE  CopyAt(j)'
      <3>1. At(r, i, "publish") /\ UNCHANGED outbox
        BY <2>8 DEF Publish, PublishFails
      <3>2. i \in 1..Len(outbox)
        BY <3>1, AtRow
      <3>3. PutOnWire(i) => /\ copies'[i] = copies[i] + 1
                            /\ j # i => copies'[j] = copies[j]
        BY <1>0, <3>2, PutOnWireTypes
      <3>4. CASE Publish(r, i)
        <4>1. GoOn(r, "mark") /\ PutOnWire(i) /\ UNCHANGED failures
          BY <3>4 DEF Publish
        <4>2. /\ j # i => Marking(j)' = Marking(j) /\ Reading(j)' = Reading(j)
              /\ Marking(i)' = Marking(i) \union {r} /\ Reading(i)' = Reading(i) \ {r}
              /\ r \in Reading(i)
          BY <1>0, <3>1, <4>1, GoOnSets
        <4>3. CASE j # i
          BY <1>0, <2>0, <3>1, <3>3, <4>1, <4>2, <4>3, SameCopies
        <4>4. CASE j = i
          BY <1>0, <2>0, <3>1, <3>3, <4>1, <4>2, <4>4, OneMoreCopy
        <4> QED
          BY <4>3, <4>4
      <3>5. CASE PublishFails(r, i)
        <4>1. /\ GoOn(r, "record") /\ failures' = failures + 1
              /\ PutOnWire(i) \/ UNCHANGED copies
          BY <3>5 DEF PublishFails, Fail
        <4>2. /\ j # i => Marking(j)' = Marking(j) /\ Reading(j)' = Reading(j)
              /\ Marking(i)' = Marking(i) \ {r} /\ Reading(i)' \subseteq Reading(i) \union {r}
              /\ r \in Reading(i)
          BY <1>0, <3>1, <4>1, GoOnSets
        <4>3. Marking(j) \subseteq Marking(j)' /\ Reading(j)' \subseteq Reading(j)
          BY <4>2 DEF Reading
        <4>4. CASE copies'[j] = copies[j]
          BY <1>0, <2>0, <3>1, <4>1, <4>3, <4>4, SameCopies
        <4>5. CASE copies'[j] = copies[j] + 1
          BY <1>0, <2>0, <3>1, <4>1, <4>3, <4>5, OneMoreCopy
        <4> QED
          BY <3>3, <4>1, <4>4, <4>5
      <3> QED
        BY <2>8, <3>4, <3>5
    <2>9. ASSUME NEW r \in Replica, NEW i \in Row, PublishRefused(r, i) PROVE CopyAt(j)'
      <3>1. At(r, i, "publish") /\ GoOn(r, "record") /\ UNCHANGED <<outbox, copies, failures>>
        BY <2>9 DEF PublishRefused
      <3>2. /\ j # i => Marking(j)' = Marking(j) /\ Reading(j)' = Reading(j)
            /\ Marking(i)' = Marking(i) \ {r} /\ Reading(i)' \subseteq Reading(i) \union {r}
            /\ r \in Reading(i)
        BY <1>0, <3>1, GoOnSets
      <3>3. Marking(j) \subseteq Marking(j)' /\ Reading(j)' \subseteq Reading(j)
        BY <3>2 DEF Reading
      <3> QED
        BY <1>0, <2>0, <3>1, <3>3, SameCopies
    <2>10. ASSUME NEW r \in Replica, NEW i \in Row, MarkFails(r, i) PROVE CopyAt(j)'
      <3>1. /\ At(r, i, "mark") /\ GoOn(r, "record") /\ UNCHANGED <<outbox, copies>>
            /\ failures' = failures + 1
        BY <2>10 DEF MarkFails, Fail
      <3>2. /\ j # i => Marking(j)' = Marking(j) /\ Reading(j)' = Reading(j)
            /\ Marking(i)' = Marking(i) \ {r} /\ Reading(i)' \subseteq Reading(i) \union {r}
        BY <1>0, <3>1, GoOnSets
      <3>3. /\ Marking(j) \subseteq Marking(j)' \union {r}
            /\ Reading(j)' \subseteq Reading(j) \union {r}
        BY <3>2
      <3> QED
        BY <1>0, <2>0, <3>1, <3>3, SameCopies
    <2>11. ASSUME NEW c \in wire, Skip(c) \/ Handle(c) \/ Record(c) PROVE CopyAt(j)'
      BY <2>1, <2>11 DEF Skip, Handle, Record, relayVars
    <2>12. ASSUME NEW c \in wire, Die(c) \/ Park(c) PROVE CopyAt(j)'
      <3>1. UNCHANGED <<outbox, batch, stage, copies>> /\ failures' = failures + 1
        BY <2>12 DEF Die, Park, Fail, relayVars
      <3>2. Marking(j)' = Marking(j) /\ Reading(j)' = Reading(j)
        BY <3>1 DEF Marking, Reading, Holders, At
      <3> QED
        BY <1>0, <2>0, <3>1, <3>2, SameCopies
    <2> QED
      BY <2>2, <2>3, <2>4, <2>5, <2>6, <2>7, <2>8, <2>9, <2>10, <2>11, <2>12 DEF Steps
  <1> QED
    BY <1>1, <1>2

LEMMA RestStep ==
    ASSUME Types, RestInv, Steps
    PROVE  RestInv'
  <1> SUFFICES ASSUME NEW q \in Replica, batch'[q] = {} PROVE stage'[q] = "publish"
    BY DEF RestInv
  <1>1. ASSUME NEW r \in Replica, Poll(r) PROVE stage'[q] = "publish"
    BY <1>1 DEF Poll, Types, RestInv
  <1>2. ASSUME NEW r \in Replica, Abandon(r) PROVE stage'[q] = "publish"
    BY <1>2 DEF Abandon, Types, RestInv
  <1>3. ASSUME NEW r \in Replica, NEW i \in Row, Advance(r, i) PROVE stage'[q] = "publish"
    BY <1>3 DEF Advance, Types, RestInv
  <1>4. ASSUME NEW r \in Replica, NEW i \in Row, NEW s, NEW t, At(r, i, s), GoOn(r, t)
        PROVE  stage'[q] = "publish"
    BY <1>4 DEF At, GoOn, Types, RestInv
  <1>5. CASE UNCHANGED <<batch, stage>>
    BY <1>5 DEF RestInv
  <1> QED
    BY <1>1, <1>2, <1>3, <1>4, <1>5
       DEF Steps, Commit, RetryLetter, DiscardLetter, Drop, Publish, PublishRefused, Mark,
           RecordFailure, PublishFails, MarkFails, Skip, Handle, Record, Die, Park, relayVars

\* Types; and however the replicas overlap and fail, a row is published at most
\* once by every replica, plus once for every failure.
THEOREM PublishesAreBounded == Spec => []TypeOK
  <1>1. Init => RestInv /\ CopyInv
    BY DEF Init, RestInv, CopyInv
  <1>2. Flow /\ RestInv /\ CopyInv /\ [Next]_vars => RestInv' /\ CopyInv'
    <2> SUFFICES ASSUME Flow, RestInv, CopyInv, [Next]_vars PROVE RestInv' /\ CopyInv'
      OBVIOUS
    <2>1. CASE Next
      <3>1. Types' /\ Grows /\ Steps
        BY <2>1, NextIsSteps, TypesStep DEF Flow
      <3> QED
        BY <3>1, RestStep, CopyStep DEF Flow
    <2>2. CASE UNCHANGED vars
      BY <2>2 DEF vars, relayVars, RestInv, CopyInv, CopyAt, Marking, Reading, Holders, At
    <2> QED
      BY <2>1, <2>2
  <1>3. Flow /\ CopyInv => TypeOK
    <2> SUFFICES ASSUME Types, Known, CopyInv PROVE TypeOK
      BY DEF Flow
    <2>1. batch \in [Replica -> SUBSET (DOMAIN outbox)]
      BY DEF Types, Known
    <2>2. ASSUME NEW i \in Row PROVE copies[i] \in 0..(Cardinality(Replica) + MaxFailures)
      <3>1. /\ copies[i] \in Nat /\ failures \in Nat /\ failures <= MaxFailures /\ i \in Nat
            /\ Len(outbox) \in Nat
        BY OutboxAssumption DEF Types, Row
      <3>2. /\ Cardinality(Marking(i)) \in Nat /\ Cardinality(Reading(i)) \in Nat
            /\ Cardinality(Replica) \in Nat
            /\ Cardinality(Marking(i)) <= Cardinality(Replica)
        BY CardsAreNumbers
      <3>3. CASE i > Len(outbox)
        BY <3>1, <3>2, <3>3, OutboxAssumption DEF Known
      <3>4. CASE i \in 1..Len(outbox)
        <4>1. \/ copies[i] + Cardinality(Reading(i)) <= failures + Cardinality(Replica)
              \/ copies[i] <= failures + Cardinality(Marking(i))
          BY <3>4 DEF CopyInv, CopyAt
        <4>2. copies[i] <= failures + Cardinality(Replica)
          BY <3>1, <3>2, <4>1
        <4>3. copies[i] <= Cardinality(Replica) + MaxFailures
          BY <3>1, <3>2, <4>2, OutboxAssumption
        <4> QED
          BY <3>1, <4>3
      <3> QED
        BY <3>1, <3>3, <3>4 DEF Row
    <2>3. copies \in [Row -> 0..(Cardinality(Replica) + MaxFailures)]
      BY <2>2 DEF Types
    <2> QED
      BY <2>1, <2>3 DEF TypeOK, Types
  <1> QED
    BY <1>1, <1>2, <1>3, FlowInvariance, PTL DEF Spec
=============================================================================

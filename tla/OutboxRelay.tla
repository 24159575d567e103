---------------------------- MODULE OutboxRelay ----------------------------
(***************************************************************************)
(* From a committed OutboxEvents row to a handler that ran for it.         *)
(*                                                                         *)
(* Domain transactions append rows.  Every process of a service polls the  *)
(* table with SqlOutboxRelay: it reads a batch of unprocessed rows, takes  *)
(* no lock on them, and publishes and marks them one by one; a row that    *)
(* cannot be published is counted and in the end put into DeadLetterEvents,*)
(* from where an administrator may append it again as a new row.  At the   *)
(* other end a consumer endpoint filters out messages it has handled.      *)
(***************************************************************************)
EXTENDS Integers, Sequences, FiniteSets

CONSTANTS
    Event,        \* what domain transactions announce, each once
    Stable,       \* relayed with a MessageId made from the row's id
    Silent,       \* of a type OutboxMessageDeserializer has no contract for
    Poison,       \* refused by the broker whenever they are published
    Replica,      \* processes that run the service's relay
    BatchSize,    \* LIMIT of the poll (100 in the code)
    MaxRetries,   \* failures after which a row is dead-lettered (5)
    MaxRows,      \* bound: rows of OutboxEvents in one behaviour
    MaxFailures   \* bound: crashes and exceptions in one behaviour

ASSUME OutboxAssumption ==
    /\ Stable \subseteq Event /\ Silent \subseteq Event /\ Poison \subseteq Event
    /\ IsFiniteSet(Replica)
    /\ BatchSize \in Nat \ {0}
    /\ MaxRetries \in Nat \ {0}
    /\ MaxRows \in Nat
    /\ MaxFailures \in Nat

VARIABLES
    outbox,     \* Seq of OutboxEvents rows; a row's Id is its index
    batch,      \* [Replica -> SUBSET Row]: rows of its SELECT still to do
    stage,      \* [Replica -> stage]: where it is with the first of them
    copies,     \* [Row -> Nat]: how often the row has been published
    wire,       \* copies in the consumer's queue
    busy,       \* copies whose handler has run and is not yet recorded
    seen,       \* ProcessedMessages of the consumer's service
    parked,     \* copies in the consumer's _error queue
    handled,    \* [Row -> Nat]: how often the handler has run for the row
    deaths,     \* [Row -> Nat]: handler runs that ended before the record
    failures    \* crashes and exceptions so far

relayVars    == <<outbox, batch, stage>>
consumerVars == <<busy, seen, parked, handled, deaths>>
vars == <<relayVars, copies, wire, consumerVars, failures>>

Row == 1..MaxRows

\* The n-th message published for a row.
Copy == [row : Row, n : Nat]

\* letters counts the row's DeadLetterEvents, open those an administrator has
\* neither retried nor discarded (discarding a retried one changes nothing).
Entry == [event : Event, processed : BOOLEAN, retries : Nat, letters : Nat, open : Nat]

NewEntry(e) == [event |-> e, processed |-> FALSE, retries |-> 0, letters |-> 0, open |-> 0]

Kind(i) == outbox[i].event

\* OutboxPublishMessageId for the types the order relay lists; MassTransit
\* draws a new id for any other publish.
MessageId(c) == IF Kind(c.row) \in Stable THEN [row |-> c.row, n |-> 0] ELSE c
-----------------------------------------------------------------------------
Init ==
    /\ outbox = << >>
    /\ batch = [r \in Replica |-> {}]
    /\ stage = [r \in Replica |-> "publish"]
    /\ copies = [i \in Row |-> 0]
    /\ wire = {}
    /\ busy = {}
    /\ seen = {}
    /\ parked = {}
    /\ handled = [i \in Row |-> 0]
    /\ deaths = [i \in Row |-> 0]
    /\ failures = 0

Fail == failures < MaxFailures /\ failures' = failures + 1

\* A domain transaction commits with its event.
Commit(e) ==
    /\ Len(outbox) < MaxRows
    /\ \A i \in DOMAIN outbox : Kind(i) # e
    /\ outbox' = Append(outbox, NewEntry(e))
    /\ UNCHANGED <<batch, stage, copies, wire, consumerVars, failures>>
-----------------------------------------------------------------------------
(* SqlOutboxRelay.ProcessPendingAsync, replica r.                          *)

Pending == {i \in DOMAIN outbox : ~outbox[i].processed}

\* SELECT ... WHERE "ProcessedAt" IS NULL ORDER BY "Id" LIMIT 100.
Poll(r) ==
    /\ batch[r] = {}
    /\ Pending # {}
    /\ batch' = [batch EXCEPT ![r] =
                   {i \in Pending : Cardinality({j \in Pending : j < i}) < BatchSize}]
    /\ UNCHANGED <<outbox, stage, copies, wire, consumerVars, failures>>

\* Row i is the one r has come to.
At(r, i, s) == i \in batch[r] /\ (\A j \in batch[r] : i <= j) /\ stage[r] = s

Advance(r, i) ==
    /\ batch' = [batch EXCEPT ![r] = @ \ {i}]
    /\ stage' = [stage EXCEPT ![r] = "publish"]

GoOn(r, s) == stage' = [stage EXCEPT ![r] = s] /\ UNCHANGED batch

\* Marked as skipped_unknown_type.
Drop(r, i) ==
    /\ At(r, i, "publish")
    /\ Kind(i) \in Silent
    /\ outbox' = [outbox EXCEPT ![i].processed = TRUE]
    /\ Advance(r, i)
    /\ UNCHANGED <<copies, wire, consumerVars, failures>>

PutOnWire(i) ==
    /\ copies' = [copies EXCEPT ![i] = @ + 1]
    /\ wire' = wire \union {[row |-> i, n |-> copies[i] + 1]}

Publish(r, i) ==
    /\ At(r, i, "publish")
    /\ Kind(i) \notin Silent \union Poison
    /\ PutOnWire(i)
    /\ GoOn(r, "mark")
    /\ UNCHANGED <<outbox, consumerVars, failures>>

PublishRefused(r, i) ==
    /\ At(r, i, "publish")
    /\ Kind(i) \in Poison \ Silent
    /\ GoOn(r, "record")
    /\ UNCHANGED <<outbox, copies, wire, consumerVars, failures>>

\* The publish throws; the broker may have taken the message all the same.
PublishFails(r, i) ==
    /\ At(r, i, "publish")
    /\ Kind(i) \notin Silent \union Poison
    /\ Fail
    /\ PutOnWire(i) \/ UNCHANGED <<copies, wire>>
    /\ GoOn(r, "record")
    /\ UNCHANGED <<outbox, consumerVars>>

\* Mutant of Mark: the UPDATE misses the row.
MarkNothing(r, i) ==
    /\ At(r, i, "mark")
    /\ Advance(r, i)
    /\ UNCHANGED <<outbox, copies, wire, consumerVars, failures>>

Mark(r, i) ==
    /\ At(r, i, "mark")
    /\ outbox' = [outbox EXCEPT ![i].processed = TRUE]
    /\ Advance(r, i)
    /\ UNCHANGED <<copies, wire, consumerVars, failures>>

\* MarkProcessedAsync throws inside the same try as the publish.
MarkFails(r, i) ==
    /\ At(r, i, "mark")
    /\ Fail
    /\ GoOn(r, "record")
    /\ UNCHANGED <<outbox, copies, wire, consumerVars>>

\* The row after its n-th failure, when that is one too many.
GivenUp(i, n) == [event |-> Kind(i), processed |-> TRUE, retries |-> n,
                  letters |-> outbox[i].letters + 1, open |-> outbox[i].open + 1]

\* Mutant of RecordFailure: a failure is not counted.
RecordFailureUncounted(r, i) ==
    /\ At(r, i, "record")
    /\ Advance(r, i)
    /\ UNCHANGED <<outbox, copies, wire, consumerVars, failures>>

\* Mutant of RecordFailure: the row is closed one failure early, without its
\* dead letter.
RecordFailureCloses(r, i) ==
    /\ At(r, i, "record")
    /\ outbox' = [outbox EXCEPT ![i].retries = @ + 1, ![i].processed = TRUE]
    /\ Advance(r, i)
    /\ UNCHANGED <<copies, wire, consumerVars, failures>>

\* Mutant of RecordFailure: the dead-lettered row is not marked as processed.
RecordFailureReopens(r, i) ==
    LET n == outbox[i].retries + 1
    IN  /\ At(r, i, "record")
        /\ outbox' = IF n < MaxRetries
                       THEN [outbox EXCEPT ![i].retries = n]
                       ELSE [outbox EXCEPT ![i] = [GivenUp(i, n) EXCEPT !.processed = FALSE]]
        /\ Advance(r, i)
        /\ UNCHANGED <<copies, wire, consumerVars, failures>>

\* RecordFailureOrDeadLetterAsync, one transaction.  It looks at the counter
\* alone: a row another replica has marked meanwhile is counted as well.
RecordFailure(r, i) ==
    LET n == outbox[i].retries + 1
    IN  /\ At(r, i, "record")
        /\ outbox' = IF n < MaxRetries
                       THEN [outbox EXCEPT ![i].retries = n]
                       ELSE [outbox EXCEPT ![i] = GivenUp(i, n)]
        /\ Advance(r, i)
        /\ UNCHANGED <<copies, wire, consumerVars, failures>>

\* The process dies, or an exception leaves the loop: the batch is forgotten.
Abandon(r) ==
    /\ batch[r] # {}
    /\ Fail
    /\ batch' = [batch EXCEPT ![r] = {}]
    /\ stage' = [stage EXCEPT ![r] = "publish"]
    /\ UNCHANGED <<outbox, copies, wire, consumerVars>>

\* OrderDlqAdminRepository: the event becomes a new row, with a new Id.
RetryLetter(i) ==
    /\ outbox[i].open > 0
    /\ Len(outbox) < MaxRows
    /\ outbox' = Append([outbox EXCEPT ![i].open = @ - 1], NewEntry(Kind(i)))
    /\ UNCHANGED <<batch, stage, copies, wire, consumerVars, failures>>

DiscardLetter(i) ==
    /\ outbox[i].open > 0
    /\ outbox' = [outbox EXCEPT ![i].open = @ - 1]
    /\ UNCHANGED <<batch, stage, copies, wire, consumerVars, failures>>
-----------------------------------------------------------------------------
(* A consumer endpoint and its MessageIdempotencyConsumeFilter.            *)

\* Mutant of Locked: there is no advisory lock.
NeverLocked(c) == FALSE

\* The advisory lock on the MessageId is taken.
Locked(c) == \E b \in busy : MessageId(b) = MessageId(c)

Waiting(c) == c \in wire /\ c \notin busy /\ ~Locked(c)

Skip(c) ==
    /\ Waiting(c)
    /\ MessageId(c) \in seen
    /\ wire' = wire \ {c}
    /\ UNCHANGED <<relayVars, copies, consumerVars, failures>>

\* Lock, IsProcessedAsync, and the handler with its effects.
Handle(c) ==
    /\ Waiting(c)
    /\ MessageId(c) \notin seen
    /\ busy' = busy \union {c}
    /\ handled' = [handled EXCEPT ![c.row] = @ + 1]
    /\ UNCHANGED <<relayVars, copies, wire, seen, parked, deaths, failures>>

\* MarkProcessedAsync, unlock, acknowledge.
Record(c) ==
    /\ c \in busy
    /\ seen' = seen \union {MessageId(c)}
    /\ busy' = busy \ {c}
    /\ wire' = wire \ {c}
    /\ UNCHANGED <<relayVars, copies, parked, handled, deaths, failures>>

\* The handler throws late, or its process dies: the message comes again.
Die(c) ==
    /\ c \in busy
    /\ Fail
    /\ busy' = busy \ {c}
    /\ deaths' = [deaths EXCEPT ![c.row] = @ + 1]
    /\ UNCHANGED <<relayVars, copies, wire, seen, parked, handled>>

\* The retries are used up, or the exception is one that is not retried.
Park(c) ==
    /\ Waiting(c)
    /\ MessageId(c) \notin seen
    /\ Fail
    /\ wire' = wire \ {c}
    /\ parked' = parked \union {c}
    /\ UNCHANGED <<relayVars, copies, busy, seen, handled, deaths>>
-----------------------------------------------------------------------------
Settle(r, i) ==
    Drop(r, i) \/ Publish(r, i) \/ PublishRefused(r, i) \/ Mark(r, i) \/ RecordFailure(r, i)

Relay(r) == Poll(r) \/ \E i \in Row : Settle(r, i)

Consume == \E c \in wire : Skip(c) \/ Handle(c) \/ Record(c)

Next ==
    \/ \E e \in Event : Commit(e)
    \/ \E r \in Replica : Relay(r) \/ Abandon(r)
                            \/ \E i \in Row : PublishFails(r, i) \/ MarkFails(r, i)
    \/ \E i \in DOMAIN outbox : RetryLetter(i) \/ DiscardLetter(i)
    \/ Consume
    \/ \E c \in wire : Die(c) \/ Park(c)

Spec == Init /\ [][Next]_vars

\* The hosted services poll for as long as they run and RabbitMQ delivers what
\* it holds; nothing is asked of writers, administrators or failures.
Fairness == (\A r \in Replica : WF_vars(Relay(r))) /\ WF_vars(Consume)

FairSpec == Spec /\ Fairness
-----------------------------------------------------------------------------
(* Properties.                                                             *)

\* Types; and a row is published at most once by every replica, plus once for
\* every failure.
TypeOK ==
    /\ outbox \in Seq(Entry) /\ Len(outbox) <= MaxRows
    /\ batch \in [Replica -> SUBSET (DOMAIN outbox)]
    /\ stage \in [Replica -> {"publish", "mark", "record"}]
    /\ copies \in [Row -> 0..(Cardinality(Replica) + MaxFailures)]
    /\ wire \subseteq Copy /\ busy \subseteq wire
    /\ seen \subseteq Copy /\ parked \subseteq Copy
    /\ handled \in [Row -> Nat] /\ deaths \in [Row -> Nat]
    /\ failures \in 0..MaxFailures

Delivered(i) ==
    handled[i] > 0 \/ \E c \in wire \union parked : c.row = i

\* At least once (business rule BR-08): a row the relay has closed has reached
\* the consumer's queue and stays there until its handler has run, or is in
\* DeadLetterEvents, whichever process died where.
NothingLost ==
    \A i \in DOMAIN outbox : outbox[i].processed
        => Kind(i) \in Silent \/ Delivered(i) \/ outbox[i].letters > 0

\* Stable MessageId and the filter: however many replicas publish a row, and
\* however often, its handler runs once, and once more only for a run that
\* ended before its id was recorded.
HandledOncePerRow ==
    \A i \in DOMAIN outbox : Kind(i) \in Stable => handled[i] <= 1 + deaths[i]

\* A row is given up only after MaxRetries failures, is then closed, and is
\* put into DeadLetterEvents at most once by each replica that had read it.
GivenUpAtMostOncePerReplica ==
    \A i \in DOMAIN outbox : outbox[i].letters > 0
        => /\ outbox[i].processed
           /\ outbox[i].retries >= MaxRetries
           /\ outbox[i].letters <= Cardinality(Replica)

Settled(i) ==
    i \in DOMAIN outbox /\ (\/ Kind(i) \in Silent \/ handled[i] > 0
                            \/ outbox[i].letters > 0
                            \/ \E c \in parked : c.row = i)

\* Every row gets an answer, even behind rows the broker never accepts that
\* fill a whole batch: they are given up and make room.
EveryRowIsSettled == \A i \in Row : (i \in DOMAIN outbox) ~> Settled(i)
=============================================================================

----------------------------- MODULE OrderDesk -----------------------------
(***************************************************************************)
(* The lines of one order after checkout: the Order service's item         *)
(* statuses, pickup PINs, returns and shipment, its cached order detail,   *)
(* and the back-office page that works on the order while other clients    *)
(* call the same API.                                                      *)
(*                                                                         *)
(* A handler reads, opens a transaction, writes one row, recomputes the    *)
(* status of the order from all lines and commits.  The transactions run   *)
(* at READ COMMITTED: a read sees what is committed at that moment and the *)
(* own writes, and a write waits for the row's lock and then looks at the  *)
(* row again.  So `line', `order' and `ret' hold committed rows; the row a *)
(* transaction has written and not committed is in its call.               *)
(***************************************************************************)
EXTENDS Naturals, FiniteSets, FiniteSetsExt

CONSTANTS Lines,     \* lines of the order
          Pickup,    \* the lines whose variant is picked up in the store
          Bought,    \* Bought[l]: units of line l
          Calls,     \* requests that can be under way at the same time
          Keys,      \* idempotency keys of returns
          Starts,    \* rows from which the run starts
          None,
          ClientOps, \* what other clients ask for
          MaxPins,   \* bound: PINs issued for a line
          MaxCalls,  \* bound: requests and edits of the page, its reads apart
          MaxFails   \* bound: requests that fail by themselves

ASSUME OrderDeskAssumption ==
    /\ IsFiniteSet(Lines) /\ Lines # {}
    /\ Pickup \subseteq Lines
    /\ Bought \in [Lines -> Nat \ {0}]
    /\ None \notin Lines \cup Keys
    /\ {MaxPins, MaxCalls, MaxFails} \subseteq Nat

VARIABLES line,   \* OrderItems: status, units returned, number of the stored PIN
          order,  \* Orders.Status
          parcel, \* the shipment row
          ret,    \* Returns, by idempotency key
          cache,  \* the cached order detail
          call,   \* the requests under way
          page,   \* React state of the order detail page
          hist    \* history, for the properties and the bounds

vars == <<line, order, parcel, ret, cache, call, page, hist>>

(* ---- statuses ---- *)

ItemStatus ==
    {"open", "allocated", "ready", "shipped", "delivered", "picked_up", "returned", "cancelled"}

Transitions ==
    [open |-> {"allocated", "cancelled"}, allocated |-> {"ready", "cancelled"},
     ready |-> {"shipped", "picked_up", "cancelled"}, shipped |-> {"delivered"},
     delivered |-> {"returned"}, picked_up |-> {"returned"}, returned |-> {}, cancelled |-> {}]

\* One failure stands for the five: no handler of this module tells them apart.
Failure == {"payment_failed"}
PreFulfilment == {"payment_pending", "confirmed"} \cup Failure
OrderStatus == PreFulfilment \cup
    {"processing", "ready", "shipped", "delivered", "picked_up", "returned", "partial", "cancelled"}

Uniform == {"cancelled", "returned", "delivered", "picked_up", "shipped", "ready"}
Progress == {"delivered", "shipped", "picked_up", "returned", "cancelled"}

\* The order status that lines with the statuses s[l] stand for.
Derive(s) ==
    LET seen == {s[l] : l \in Lines}
    IN  CASE Cardinality(seen) = 1 /\ seen \subseteq Uniform -> CHOOSE x \in seen : TRUE
          [] Cardinality(seen) > 1 /\ seen \cap Progress # {} -> "partial"
          [] OTHER -> "processing"

Row == [status : ItemStatus, returned : Nat, pin : 0..MaxPins]
Return == [status : {"pending", "approved", "rejected", "completed"}, line : Lines, units : Nat]
Detail == [order : OrderStatus, status : [Lines -> ItemStatus], returned : [Lines -> Nat]]

StatusOf(rows) == [l \in Lines |-> rows[l].status]
ReturnedOf(rows) == [l \in Lines |-> rows[l].returned]
Current == [order |-> order, status |-> StatusOf(line), returned |-> ReturnedOf(line)]

\* None is no row; the lines of a start stand for its order status, none is returned yet,
\* and so no return is approved yet.
ASSUME StartsAssumption ==
    /\ None \notin Row \cup Return
    /\ \A s \in Starts :
         /\ s.line \in [Lines -> Row] /\ s.order \in OrderStatus /\ s.loaded \in BOOLEAN
         /\ s.ret \in [Keys -> Return \cup {None}]
         /\ \A l \in Lines : s.line[l].returned = 0
         /\ \A k \in Keys : s.ret[k] # None => s.ret[k].status \in {"pending", "rejected"}
         /\ s.order \in PreFulfilment \/ s.order = Derive(StatusOf(s.line))

Dialogs == {"pickup", "return", "ship", "cancel", "resolve", "pin"}

(* ---- requests ---- *)

Reads == {"load", "get"}
LineOps == {"move", "pin", "confirm"}
ReturnOps == {"approve", "reject", "complete"}
OrderOps == {"ship", "deliver", "cancel", "retry", "resolve"}

Idle == [by |-> "nobody", op |-> "none", at |-> None, to |-> "none", n |-> 0, key |-> None,
         pc |-> "idle", seen |-> "none", row |-> None, dto |-> None, crossed |-> FALSE]

Becomes(c, r) == call' = [call EXCEPT ![c] = r]
Goes(c, pc) == Becomes(c, [call[c] EXCEPT !.pc = pc])

\* What is left of a request when it is answered, or only has the cached detail to drop;
\* nobody waits for the answer to another client.
Rest(r, pc) == IF r.by = "client" /\ pc \in {"ok", "failed"} THEN Idle
               ELSE [Idle EXCEPT !.by = r.by, !.op = r.op, !.pc = pc, !.dto = r.dto]
Replies(c, pc) == Becomes(c, Rest(call[c], pc))

\* Reading the lines: the own row as this transaction wrote it.
Seen(r) ==
    [l \in Lines |-> IF l = r.at /\ r.row # None THEN r.row.status ELSE line[l].status]

\* Row locks: a written row stays locked until its transaction ends.
InTransaction(c) == call[c].pc \in {"status", "lines", "commit"}
Holds(c, l) == InTransaction(c) /\ call[c].at = l
HoldsReturn(c, k) == InTransaction(c) /\ call[c].op = "approve" /\ call[c].key = k
HoldsOrder(c) == InTransaction(c) /\ call[c].op = "move"
RowFree(c, l) == \A d \in Calls \ {c} : ~Holds(d, l)
ReturnFree(c, k) == \A d \in Calls \ {c} : ~HoldsReturn(d, k)
OrderFree(c) == \A d \in Calls \ {c} : ~HoldsOrder(d)

\* Whoever has begun to recompute the order's status may have missed this commit.
Crosses(c) == {d \in Calls \ {c} : call[d].pc \in {"lines", "commit"}}
Marked(c, cs) ==
    [d \in Calls |-> IF d \in Crosses(c) THEN [cs[d] EXCEPT !.crossed = TRUE] ELSE cs[d]]

(* ---- item status: PATCH .../fulfillment-status ---- *)

CheckMove(c) ==
    LET now == line[call[c].at].status
    IN  /\ call[c].pc = "check" /\ call[c].op = "move"
        /\ \/ now = call[c].to /\ Replies(c, "ok")
           \/ now # call[c].to /\ call[c].to \notin Transitions[now] /\ Replies(c, "failed")
           \/ /\ call[c].to \in Transitions[now]
              /\ Becomes(c, [call[c] EXCEPT !.pc = "write", !.seen = now])
        /\ UNCHANGED <<line, order, parcel, ret, cache, page, hist>>

\* Mutant of StillAsRead: the update does not look at the status again.
StillWhatever(c, l) == TRUE

StillAsRead(c, l) == line[l].status = call[c].seen

WriteMove(c) ==
    LET l == call[c].at
    IN  /\ call[c].pc = "write" /\ call[c].op = "move"
        /\ RowFree(c, l)
        /\ \/ ~StillAsRead(c, l) /\ Replies(c, "failed")
           \/ /\ StillAsRead(c, l) /\ OrderFree(c)
              /\ Becomes(c, [call[c] EXCEPT !.pc = "status",
                                            !.row = [line[l] EXCEPT !.status = call[c].to]])
        /\ UNCHANGED <<line, order, parcel, ret, cache, page, hist>>

(* ---- pickup PIN ---- *)

CheckPin(c) ==
    /\ call[c].pc = "check" /\ call[c].op = "pin"
    /\ IF line[call[c].at].status = "ready" THEN Goes(c, "write") ELSE Replies(c, "failed")
    /\ UNCHANGED <<line, order, parcel, ret, cache, page, hist>>

WritePin(c) ==
    LET l == call[c].at
        takes == line[l].status \in {"allocated", "ready"}
    IN  /\ call[c].pc = "write" /\ call[c].op = "pin"
        /\ RowFree(c, l) /\ line[l].pin < MaxPins
        /\ line' = IF takes THEN [line EXCEPT ![l].pin = @ + 1] ELSE line
        /\ Replies(c, IF takes THEN "forget" ELSE "failed")
        /\ UNCHANGED <<order, parcel, ret, cache, page, hist>>

\* The stored hash is read and compared in the transaction, without a lock.
CheckConfirm(c) ==
    LET row == line[call[c].at]
    IN  /\ call[c].pc = "check" /\ call[c].op = "confirm"
        /\ IF row.status = "ready" /\ row.pin # 0 /\ row.pin = call[c].n
           THEN Goes(c, "write") ELSE Replies(c, "failed")
        /\ UNCHANGED <<line, order, parcel, ret, cache, page, hist>>

WriteConfirm(c) ==
    LET l == call[c].at
    IN  /\ call[c].pc = "write" /\ call[c].op = "confirm"
        /\ RowFree(c, l)
        /\ \/ line[l].status # "ready" /\ Replies(c, "failed")
           \/ /\ line[l].status = "ready"
              /\ Becomes(c, [call[c] EXCEPT !.pc = "status",
                                            !.row = [line[l] EXCEPT !.status = "picked_up"]])
        /\ UNCHANGED <<line, order, parcel, ret, cache, page, hist>>

(* ---- returns ---- *)

Returnable(row) == row.status \in {"delivered", "picked_up"}

CheckOpen(c) ==
    LET l == call[c].at
    IN  /\ call[c].pc = "check" /\ call[c].op = "open"
        /\ IF Returnable(line[l]) /\ call[c].n <= Bought[l] - line[l].returned
           THEN Goes(c, "write") ELSE Replies(c, "failed")
        /\ UNCHANGED <<line, order, parcel, ret, cache, page, hist>>

\* A repeated key answers with the return that is already there.
WriteOpen(c) ==
    LET k == call[c].key
    IN  /\ call[c].pc = "write" /\ call[c].op = "open"
        /\ ret' = IF ret[k] # None THEN ret
                  ELSE [ret EXCEPT ![k] = [status |-> "pending", line |-> call[c].at,
                                           units |-> call[c].n]]
        /\ Replies(c, "ok")
        /\ UNCHANGED <<line, order, parcel, cache, page, hist>>

\* Mutant of Moves: any return that exists can be moved.
MovesAgain(k, from) == ret[k] # None

Moves(k, from) == ret[k] # None /\ ret[k].status = from

CheckApprove(c) ==
    LET k == call[c].key
    IN  /\ call[c].pc = "check" /\ call[c].op = "approve"
        /\ IF Moves(k, "pending")
           THEN Becomes(c, [call[c] EXCEPT !.pc = "write", !.at = ret[k].line, !.n = ret[k].units])
           ELSE Replies(c, "failed")
        /\ UNCHANGED <<line, order, parcel, ret, cache, page, hist>>

Applied(row, units, bought) ==
    [row EXCEPT !.returned = @ + units,
                !.status = IF row.returned + units >= bought THEN "returned" ELSE @]

WriteApprove(c) ==
    LET l == call[c].at
        k == call[c].key
        fits == /\ Returnable(line[l]) \/ line[l].status = "returned"
                /\ line[l].returned + call[c].n <= Bought[l]
    IN  /\ call[c].pc = "write" /\ call[c].op = "approve"
        /\ ReturnFree(c, k)
        /\ \/ ~Moves(k, "pending") /\ Replies(c, "failed")
           \/ Moves(k, "pending") /\ RowFree(c, l) /\ ~fits /\ Replies(c, "failed")
           \/ /\ Moves(k, "pending") /\ RowFree(c, l) /\ fits
              /\ Becomes(c, [call[c] EXCEPT !.pc = "status",
                                            !.row = Applied(line[l], call[c].n, Bought[l])])
        /\ UNCHANGED <<line, order, parcel, ret, cache, page, hist>>

\* Reject and complete are one guarded update each.
Decide(c, op, from, to) ==
    LET k == call[c].key
    IN  /\ call[c].pc = "check" /\ call[c].op = op
        /\ ReturnFree(c, k)
        /\ ret' = IF Moves(k, from) THEN [ret EXCEPT ![k].status = to] ELSE ret
        /\ Replies(c, IF Moves(k, from) THEN "ok" ELSE "failed")
        /\ UNCHANGED <<line, order, parcel, cache, page, hist>>

Reject(c) == Decide(c, "reject", "pending", "rejected")
Complete(c) == Decide(c, "complete", "approved", "completed")

(* ---- the order's status, recomputed in the same transaction ---- *)

ReadStatus(c) ==
    /\ call[c].pc = "status"
    /\ Becomes(c, [call[c] EXCEPT !.seen = order, !.to = order,
                                  !.pc = IF order \in PreFulfilment THEN "commit" ELSE "lines"])
    /\ UNCHANGED <<line, order, parcel, ret, cache, page, hist>>

\* Mutant of Recomputed: the transaction does not see its own line.
RecomputedBefore(r) == Derive(StatusOf(line))

Recomputed(r) == Derive(Seen(r))

ReadLines(c) ==
    /\ call[c].pc = "lines"
    /\ Becomes(c, [call[c] EXCEPT !.to = Recomputed(call[c]), !.pc = "commit"])
    /\ UNCHANGED <<line, order, parcel, ret, cache, page, hist>>

Commit(c) ==
    LET r == call[c]
        writes == r.to # r.seen
    IN  /\ r.pc = "commit"
        /\ writes => OrderFree(c)
        /\ line' = [line EXCEPT ![r.at] = r.row]
        /\ order' = IF writes THEN r.to ELSE order
        /\ ret' = IF r.op = "approve" THEN [ret EXCEPT ![r.key].status = "approved"] ELSE ret
        /\ hist' = [hist EXCEPT !.lag = r.crossed \/ (hist.lag /\ r.seen \in PreFulfilment),
                                !.restocked[r.at] = IF r.op = "approve" THEN @ + r.n ELSE @]
        /\ call' = Marked(c, [call EXCEPT ![c] = Rest(r, "forget")])
        /\ UNCHANGED <<parcel, cache, page>>

(* ---- the whole order ---- *)

\* A guarded update of the order's row; a status set this way comes from no line.
SetsOrder(c, to) ==
    /\ OrderFree(c)
    /\ order' = to
    /\ hist' = [hist EXCEPT !.lag = TRUE]
    /\ call' = Marked(c, [call EXCEPT ![c] = Rest(call[c], "forget")])

LeavesOrder(c, pc) ==
    /\ Replies(c, pc)
    /\ UNCHANGED <<order, hist>>

CheckShip(c) ==
    /\ call[c].pc = "check" /\ call[c].op = "ship"
    /\ IF order \in {"shipped", "delivered", "cancelled", "payment_pending"}
       THEN Replies(c, "failed") /\ cache' = None
       ELSE Goes(c, "write") /\ UNCHANGED cache
    /\ UNCHANGED <<line, order, parcel, ret, page, hist>>

\* The shipment row comes first; the order follows only from two statuses.  A refused
\* shipment drops the cached detail as well.
WriteShip(c) ==
    /\ call[c].pc = "write" /\ call[c].op = "ship"
    /\ \/ parcel # "none" /\ LeavesOrder(c, "failed") /\ cache' = None /\ UNCHANGED parcel
       \/ /\ parcel = "none" /\ parcel' = "pending" /\ UNCHANGED cache
          /\ \/ order \in {"confirmed", "processing"} /\ SetsOrder(c, "shipped")
             \/ order \notin {"confirmed", "processing"} /\ LeavesOrder(c, "forget")
    /\ UNCHANGED <<line, ret, page>>

CheckDeliver(c) ==
    /\ call[c].pc = "check" /\ call[c].op = "deliver"
    /\ IF order = "shipped" /\ parcel = "pending" THEN Goes(c, "write") ELSE Replies(c, "failed")
    /\ UNCHANGED <<line, order, parcel, ret, cache, page, hist>>

WriteDeliver(c) ==
    /\ call[c].pc = "write" /\ call[c].op = "deliver"
    /\ parcel' = "delivered"
    /\ \/ order = "shipped" /\ SetsOrder(c, "delivered")
       \/ order # "shipped" /\ LeavesOrder(c, "forget")
    /\ UNCHANGED <<line, ret, cache, page>>

CheckCancel(c) ==
    /\ call[c].pc = "check" /\ call[c].op = "cancel"
    /\ CASE order = "cancelled" -> Replies(c, "ok")
         [] order \in {"shipped", "delivered"} -> Replies(c, "failed")
         [] OTHER -> Goes(c, "write")
    /\ UNCHANGED <<line, order, parcel, ret, cache, page, hist>>

WriteCancel(c) ==
    /\ call[c].pc = "write" /\ call[c].op = "cancel"
    /\ \/ order \in {"payment_pending", "confirmed", "processing"} /\ SetsOrder(c, "cancelled")
       \/ order = "cancelled" /\ LeavesOrder(c, "ok")
       \/ /\ order \notin {"payment_pending", "confirmed", "processing", "cancelled"}
          /\ LeavesOrder(c, "failed")
    /\ UNCHANGED <<line, parcel, ret, cache, page>>

RecoveredTo(op) == IF op = "retry" THEN "payment_pending" ELSE "cancelled"

Recover(c, op) ==
    /\ call[c].pc = "check" /\ call[c].op = op
    /\ \/ order \in Failure /\ SetsOrder(c, RecoveredTo(op))
       \/ order \notin Failure /\ LeavesOrder(c, "failed")
    /\ UNCHANGED <<line, parcel, ret, cache, page>>

Retry(c) == Recover(c, "retry")
Resolve(c) == Recover(c, "resolve")

(* ---- the cached detail ---- *)

\* Mutant of Forgets: a confirmed pickup leaves the cached detail alone.
ForgetsNoPickup(op) == op # "confirm"

Forgets(op) == TRUE

Forget(c) ==
    /\ call[c].pc = "forget"
    /\ cache' = IF Forgets(call[c].op) THEN None ELSE cache
    /\ Replies(c, "ok")
    /\ UNCHANGED <<line, order, parcel, ret, page, hist>>

\* The cache does not answer: the work is committed, and the caller is told that it failed.
ForgetFails(c) ==
    /\ call[c].pc = "forget" /\ hist.fails < MaxFails
    /\ Replies(c, "failed")
    /\ hist' = [hist EXCEPT !.fails = @ + 1, !.late = cache # None]
    /\ UNCHANGED <<line, order, parcel, ret, cache, page>>

GetCached(c) ==
    /\ call[c].pc = "check" /\ call[c].op \in Reads
    /\ Becomes(c, IF cache = None THEN [call[c] EXCEPT !.pc = "rows"]
                  ELSE Rest([call[c] EXCEPT !.dto = cache], "ok"))
    /\ UNCHANGED <<line, order, parcel, ret, cache, page, hist>>

GetRows(c) ==
    /\ call[c].pc = "rows"
    /\ Becomes(c, [call[c] EXCEPT !.pc = "fill", !.dto = Current])
    /\ UNCHANGED <<line, order, parcel, ret, cache, page, hist>>

GetFill(c) ==
    /\ call[c].pc = "fill"
    /\ cache' = call[c].dto
    /\ hist' = [hist EXCEPT !.late = call[c].dto # Current]
    /\ Replies(c, "ok")
    /\ UNCHANGED <<line, order, parcel, ret, page>>

\* After 60 seconds the cached detail is gone.
Expire ==
    /\ cache # None
    /\ cache' = None
    /\ UNCHANGED <<line, order, parcel, ret, call, page, hist>>

\* A request fails by itself before its commit: the transaction is rolled back.
Fail(c) ==
    /\ call[c].pc \in {"check", "write", "status", "lines", "commit", "rows", "fill"}
    /\ hist.fails < MaxFails
    /\ Replies(c, "failed")
    /\ hist' = [hist EXCEPT !.fails = @ + 1]
    /\ UNCHANGED <<line, order, parcel, ret, cache, page>>

(* ---- other clients of the API ---- *)

Sends(c, by, r) ==
    /\ call[c].pc = "idle"
    /\ hist.calls < MaxCalls
    /\ Becomes(c, [r EXCEPT !.by = by, !.pc = "check"])
    /\ hist' = [hist EXCEPT !.calls = @ + 1]

Asked(op, l, to, n, k) == [Idle EXCEPT !.op = op, !.at = l, !.to = to, !.n = n, !.key = k]
Get == Asked("get", None, "none", 0, None)

Requests ==
    {Asked("move", l, to, 0, None) : l \in Lines, to \in ItemStatus}
    \cup {Asked("pin", l, "none", 0, None) : l \in Lines}
    \cup {Asked("confirm", l, "none", n, None) : l \in Lines, n \in 1..MaxPins}
    \cup (UNION {{Asked("open", l, "none", n, k) : n \in 1..Bought[l], k \in Keys} : l \in Lines})
    \cup {Asked(op, None, "none", 0, k) : op \in ReturnOps, k \in Keys}
    \cup {Asked(op, None, "none", 0, None) : op \in OrderOps}
    \cup {Get}

\* What another client may ask for, as far as it makes a difference now.
Sensible(r) ==
    /\ r.op \in ClientOps
    /\ r.op = "move" => r.to \in Transitions[line[r.at].status]
    /\ r.op \in ReturnOps => ret[r.key] # None
    /\ r.op = "open" => Returnable(line[r.at])
    /\ r.op \in {"pin", "confirm"} => line[r.at].status = "ready"

Client(c, r) ==
    /\ Sensible(r)
    /\ Sends(c, "client", r)
    /\ UNCHANGED <<line, order, parcel, ret, cache, page>>

(* ---- the order detail page ---- *)

Panels == {"customer", "delivery"}

\* The page reads the order when it is opened.  The return dialog is mounted with it and
\* takes its rows then, before any line is there: no row of it can ever be selected, so
\* it has no state here and the page sends no createReturn.
Opened == [detail |-> None, shown |-> "payment_pending", busy |-> FALSE, menus |-> {},
           dialogs |-> {}, at |-> None, editing |-> {}]

Covered == page.dialogs # {}
Listed(detail) == {l \in Lines : detail # None /\ detail.status[l] # "cancelled"}

\* What the menu of a line offers for the status the page shows.
MovesOffered(l) == Transitions[page.detail.status[l]] \ (IF l \in Pickup THEN {"picked_up"} ELSE {})
PinsOffered(l) == l \in Pickup /\ page.detail.status[l] = "ready"
ReturnOffered(l) == page.detail.status[l] \in {"delivered", "picked_up"}

\* The trigger of a menu is disabled while the page is busy; an open menu is not.
ToggleMenu(l) ==
    /\ l \in Listed(page.detail) /\ ~Covered /\ ~page.busy
    /\ MovesOffered(l) # {} \/ PinsOffered(l) \/ ReturnOffered(l)
    /\ page' = [page EXCEPT !.menus = IF l \in @ THEN @ \ {l} ELSE @ \cup {l}]
    /\ UNCHANGED <<line, order, parcel, ret, cache, call, hist>>

Picks(c, l, r) ==
    /\ l \in page.menus /\ ~Covered
    /\ Sends(c, "page", r)
    /\ page' = [page EXCEPT !.menus = @ \ {l}, !.busy = TRUE]
    /\ UNCHANGED <<line, order, parcel, ret, cache>>

PickMove(c, l) == \E to \in MovesOffered(l) : Picks(c, l, Asked("move", l, to, 0, None))
PickPin(c, l) == PinsOffered(l) /\ Picks(c, l, Asked("pin", l, "none", 0, None))

\* Opening a dialog runs through the same handler, which ends at once.
PickDialog(l) ==
    /\ l \in page.menus /\ ~Covered
    /\ \E d \in {"pickup", "return"} :
          /\ d = "pickup" => PinsOffered(l)
          /\ d = "return" => ReturnOffered(l)
          /\ page' = [page EXCEPT !.menus = @ \ {l}, !.busy = FALSE, !.dialogs = {d}, !.at = l]
    /\ UNCHANGED <<line, order, parcel, ret, cache, call, hist>>

\* The window with a PIN lies over every other dialog.
OnTop(d) == d \in page.dialogs /\ (d # "pin" => "pin" \notin page.dialogs)

SubmitPickup(c) ==
    /\ OnTop("pickup") /\ ~page.busy
    /\ \E n \in 1..MaxPins : Sends(c, "page", Asked("confirm", page.at, "none", n, None))
    /\ page' = [page EXCEPT !.busy = TRUE]
    /\ UNCHANGED <<line, order, parcel, ret, cache>>

CloseDialog(d) ==
    /\ OnTop(d) /\ (d = "pin" \/ ~page.busy)
    /\ page' = [page EXCEPT !.dialogs = @ \ {d}, !.at = IF d = "pin" THEN @ ELSE None]
    /\ UNCHANGED <<line, order, parcel, ret, cache, call, hist>>

\* Retry and Resolve are there for a failed order only, the other buttons always.
ButtonShown(op) ==
    op \in {"retry", "resolve"} => page.detail # None /\ page.detail.order \in Failure

AskFirst(op) ==
    /\ op \in {"cancel", "ship", "resolve"} /\ ButtonShown(op)
    /\ ~Covered /\ ~page.busy
    /\ page' = [page EXCEPT !.dialogs = {op}]
    /\ UNCHANGED <<line, order, parcel, ret, cache, call, hist>>

\* The ship dialog stays until the shipment is there.
RunOrder(c, op) ==
    /\ ~page.busy
    /\ \/ op \in {"deliver", "retry"} /\ ~Covered /\ ButtonShown(op)
       \/ op \in {"cancel", "ship", "resolve"} /\ OnTop(op)
    /\ Sends(c, "page", Asked(op, None, "none", 0, None))
    /\ page' = [page EXCEPT !.busy = TRUE, !.dialogs = IF op = "ship" THEN @ ELSE @ \ {op}]
    /\ UNCHANGED <<line, order, parcel, ret, cache>>

\* Group Actions ("Update All Items To") changes the status the page shows, until the next
\* read, and what can be edited with it; it asks the server for nothing.  One status that
\* locks the page and one that does not stand for all of them.
ShowStatus(s) ==
    /\ ~Covered /\ page.shown # s /\ hist.calls < MaxCalls
    /\ page' = [page EXCEPT !.shown = s]
    /\ hist' = [hist EXCEPT !.calls = @ + 1]
    /\ UNCHANGED <<line, order, parcel, ret, cache, call>>

CanEdit == page.shown \notin {"picked_up", "returned", "delivered"}

\* The customer and the delivery panel are edited in place and stored nowhere; a locked
\* status hides their buttons, those of a panel in edit too.
EditPanel(p) ==
    /\ CanEdit /\ ~Covered /\ hist.calls < MaxCalls
    /\ page' = [page EXCEPT !.editing = IF p \in @ THEN @ \ {p} ELSE @ \cup {p}]
    /\ hist' = [hist EXCEPT !.calls = @ + 1]
    /\ UNCHANGED <<line, order, parcel, ret, cache, call>>

\* Mutant of Ends: a refetch that fails leaves the page busy.
EndsIfOk(r) == r.op # "load" /\ (r.op \notin Reads => r.pc = "failed" \/ r.op = "pin")
               /\ ~(r.op = "get" /\ r.pc = "failed")

\* Does this answer end its handler?  Every handler but the PIN's reads the order again.
Ends(r) == r.op # "load" /\ (r.op \notin Reads => r.pc = "failed" \/ r.op = "pin")

After(r) ==
    LET ok == r.pc = "ok"
        new == IF ok /\ r.op \in Reads THEN r.dto ELSE page.detail
    IN  [page EXCEPT
            !.detail = new,
            !.shown = IF ok /\ r.op \in Reads THEN r.dto.order ELSE @,
            !.menus = @ \cap Listed(new),
            !.busy = @ /\ ~Ends(r),
            !.dialogs = CASE ok /\ r.op = "pin" -> @ \cup {"pin"}
                          [] ok /\ r.op = "confirm" -> @ \ {"pickup"}
                          [] ok /\ r.op = "ship" -> @ \ {"ship"}
                          [] OTHER -> @,
            !.at = IF ok /\ r.op = "confirm" THEN None ELSE @]

PageAnswered(c) ==
    LET r == call[c]
    IN  /\ r.by = "page" /\ r.pc \in {"ok", "failed"}
        /\ page' = After(r)
        /\ Becomes(c, IF r.op \in Reads \/ Ends(r) THEN Idle
                      ELSE [Get EXCEPT !.by = "page", !.pc = "check"])
        /\ UNCHANGED <<line, order, parcel, ret, cache, hist>>

(* ---- the specification ---- *)

Init ==
    \E s \in Starts :
        /\ line = s.line /\ order = s.order /\ ret = s.ret
        /\ parcel = "none"
        /\ cache = None
        /\ \/ /\ s.loaded /\ call = [d \in Calls |-> Idle]
              /\ page = [Opened EXCEPT !.detail = Current, !.shown = order]
           \/ /\ ~s.loaded /\ page = Opened
              /\ \E c \in Calls :
                    call = [[d \in Calls |-> Idle] EXCEPT
                               ![c] = [Idle EXCEPT !.by = "page", !.op = "load", !.pc = "check"]]
        /\ hist = [restocked |-> [l \in Lines |-> 0], lag |-> FALSE, late |-> FALSE,
                   calls |-> 0, fails |-> 0]

Serve(c) ==
    \/ CheckMove(c) \/ WriteMove(c) \/ CheckPin(c) \/ WritePin(c)
    \/ CheckConfirm(c) \/ WriteConfirm(c) \/ CheckOpen(c) \/ WriteOpen(c)
    \/ CheckApprove(c) \/ WriteApprove(c) \/ Reject(c) \/ Complete(c)
    \/ ReadStatus(c) \/ ReadLines(c) \/ Commit(c) \/ Forget(c) \/ ForgetFails(c)
    \/ CheckShip(c) \/ WriteShip(c) \/ CheckDeliver(c) \/ WriteDeliver(c)
    \/ CheckCancel(c) \/ WriteCancel(c) \/ Retry(c) \/ Resolve(c)
    \/ GetCached(c) \/ GetRows(c) \/ GetFill(c) \/ Fail(c)

Click(c) ==
    \/ \E l \in page.menus : PickMove(c, l) \/ PickPin(c, l)
    \/ SubmitPickup(c)
    \/ \E op \in OrderOps : RunOrder(c, op)

Local ==
    \/ \E l \in Lines : ToggleMenu(l) \/ PickDialog(l)
    \/ \E d \in Dialogs : CloseDialog(d)
    \/ \E op \in OrderOps : AskFirst(op)
    \/ \E s \in {"processing", "delivered"} : ShowStatus(s)
    \/ \E p \in Panels : EditPanel(p)

Next ==
    \/ \E c \in Calls : Serve(c) \/ Click(c) \/ PageAnswered(c)
    \/ \E c \in Calls, r \in Requests : Client(c, r)
    \/ Local
    \/ Expire

Spec == Init /\ [][Next]_vars

(* ---- properties ---- *)

\* However approvals of the same return and of several returns of a line interleave, fail
\* and are repeated, the units counted on a line, the units announced for restocking and
\* the units of its approved returns agree, and never exceed what was bought.
Taken(l) == {k \in Keys : ret[k] # None /\ ret[k].line = l /\ ret[k].status \in {"approved", "completed"}}

UnitsAgree ==
    \A l \in Lines :
        /\ line[l].returned = MapThenSumSet(LAMBDA k : ret[k].units, Taken(l))
        /\ line[l].returned = hist.restocked[l]
        /\ line[l].returned <= Bought[l]

\* A line moves only along the transition table, whatever two clients have read of it.
LinesFollowTable ==
    [][\A l \in Lines :
          line'[l].status # line[l].status =>
              line'[l].status \in Transitions[line[l].status]]_vars

\* The order's status is what its lines stand for, unless the saga still owns it, an
\* operation on the whole order set it last, or another commit crossed the recomputation
\* that wrote it.
StatusFollowsLines ==
    order \in PreFulfilment \/ hist.lag \/ order = Derive(StatusOf(line))

\* A cached detail that is not what is stored is about to be dropped, or was filled from a
\* read that a commit overtook, or outlived a drop that failed; nothing else makes it stale.
CacheOnlyStaleByRace ==
    cache \in {None, Current} \/ hist.late \/ \E c \in Calls : call[c].pc = "forget"

\* The page never stays disabled with nothing under way, in whatever order its handlers end.
BusyHasACause ==
    page.busy => \E c \in Calls : call[c].by = "page" /\ call[c].op # "load"
=============================================================================

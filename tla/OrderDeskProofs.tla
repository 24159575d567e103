--------------------------- MODULE OrderDeskProofs ---------------------------
(***************************************************************************)
(* Theorems about OrderDesk for every set of lines, requests and keys and  *)
(* for every start: what concurrent handlers do to the lines, to the       *)
(* order's status derived from them and to the cached detail, that the     *)
(* units of a line are those of its approved returns, and that the page    *)
(* never stays disabled.                                                   *)
(***************************************************************************)
EXTENDS OrderDesk, FiniteSetTheorems, WellFoundedInduction, TLAPS

(* ---- types ---- *)

\* The steps of a request that still has rows to read or write.
Works == {"check", "write", "status", "lines", "commit"}

By == {"nobody", "page", "client"}
Ops == {"none", "open"} \cup Reads \cup LineOps \cup ReturnOps \cup OrderOps
Statuses == ItemStatus \cup OrderStatus \cup {"none"}
Steps == {"idle", "forget", "rows", "fill", "ok", "failed"} \cup Works

\* The types of records are given field by field: sets of records are out of the provers'
\* reach once several fields change in a step.
TypedCall(r) ==
    /\ DOMAIN r = DOMAIN Idle
    /\ r.by \in By /\ r.op \in Ops /\ r.at \in Lines \cup {None} /\ r.to \in Statuses
    /\ r.n \in Nat /\ r.key \in Keys \cup {None} /\ r.pc \in Steps /\ r.seen \in Statuses
    /\ r.row \in Row \cup {None} /\ r.dto \in Detail \cup {None} /\ r.crossed \in BOOLEAN
    /\ r.pc = "idle" => r.by = "nobody"

TypedPage(p) ==
    /\ DOMAIN p = DOMAIN Opened
    /\ p.detail \in Detail \cup {None} /\ p.menus \subseteq Lines /\ p.dialogs \subseteq Dialogs
    /\ p.at \in Lines \cup {None} /\ p.busy \in BOOLEAN

TypedHist(h) ==
    /\ DOMAIN h = {"restocked", "lag", "late", "calls", "fails"}
    /\ h.restocked \in [Lines -> Nat] /\ h.lag \in BOOLEAN /\ h.late \in BOOLEAN

TypeOK ==
    /\ line \in [Lines -> Row] /\ order \in OrderStatus
    /\ ret \in [Keys -> Return \cup {None}]
    /\ cache \in Detail \cup {None}
    /\ DOMAIN call = Calls /\ \A c \in Calls : TypedCall(call[c])
    /\ TypedPage(page) /\ TypedHist(hist)

\* A menu is only open for a line the page shows; one dialog at a time lies under the
\* window with a PIN, and that of a pickup knows its line.
PageInv ==
    /\ page.menus \subseteq Listed(page.detail)
    /\ \A d, e \in page.dialogs \ {"pin"} : d = e
    /\ "pickup" \in page.dialogs => page.at \in Lines

(* ---- what a request knows ---- *)

\* A request about a line names it, one about a return names its key.
Targets(r) ==
    /\ r.pc \in Works /\ r.op \in LineOps \cup {"open"} => r.at \in Lines
    /\ r.pc \in Works /\ r.op \in ReturnOps \cup {"open"} => r.key \in Keys
    /\ r.pc \in Works \ {"check"} /\ r.op = "approve" => r.at \in Lines /\ ret[r.key] # None

\* A return is never taken away.
Kept == \A k \in Keys : ret[k] # None => ret'[k] # None

\* The row a transaction has written and not committed: one move along the table or none,
\* and the units of the return on top of those that are there.
Written(r) ==
    r.pc \in {"status", "lines", "commit"} =>
        /\ r.op \in {"move", "confirm", "approve"} /\ r.at \in Lines /\ r.row \in Row
        /\ r.row.status \in {line[r.at].status} \cup Transitions[line[r.at].status]
        /\ r.op # "approve" => r.row.returned = line[r.at].returned
        /\ r.op = "approve" => r.row.returned = line[r.at].returned + r.n
        /\ r.row.returned <= Bought[r.at]

\* A move that passed its check goes along the table from what it read; a recomputation
\* goes to a status of the order.
Checked(r) ==
    /\ r.pc = "write" /\ r.op = "move" => r.seen \in ItemStatus /\ r.to \in Transitions[r.seen]
    /\ r.pc \in {"lines", "commit"} => r.to \in OrderStatus

\* What a recomputation has read is still true, unless a commit crossed it.
Derived(r) ==
    ~r.crossed =>
        /\ r.pc \in {"lines", "commit"} => r.seen = order
        /\ r.pc = "lines" => r.seen \notin PreFulfilment
        /\ r.pc = "commit" /\ r.seen \in PreFulfilment => r.to = r.seen
        /\ r.pc = "commit" /\ r.seen \notin PreFulfilment => r.to = Recomputed(r)

Knows(r) == Targets(r) /\ Written(r) /\ Checked(r) /\ Derived(r)

CallInv == \A c \in Calls : Knows(call[c])

\* The row lock: two transactions have never written the same line.
Locks ==
    \A c, d \in Calls :
        InTransaction(c) /\ InTransaction(d) /\ call[c].at = call[d].at => c = d

UnitsInv == \A l \in Lines : line[l].returned = hist.restocked[l] /\ line[l].returned <= Bought[l]

IInv ==
    /\ TypeOK /\ PageInv /\ CallInv /\ Locks /\ UnitsInv
    /\ StatusFollowsLines /\ CacheOnlyStaleByRace /\ BusyHasACause
-----------------------------------------------------------------------------
(* ---- steps that leave the rows alone ---- *)

\* What an answer leaves of a request knows nothing that can turn false.
LEMMA Answers ==
    ASSUME NEW r, TypedCall(r), NEW pc \in {"forget", "ok", "failed"}
    PROVE  /\ TypedCall(Rest(r, pc))
           /\ Rest(r, pc).pc \in {"idle", pc} /\ (pc = "forget" => Rest(r, pc).pc = pc)
           /\ r.by = "page" => Rest(r, pc).by = "page" /\ Rest(r, pc).op = r.op
           /\ Knows(Rest(r, pc))
  <1>1. TypedCall(Idle) /\ Idle.pc = "idle"
    BY OrderDeskAssumption DEF Idle, TypedCall, By, Ops, Statuses, Steps
  <1>2. TypedCall([Idle EXCEPT !.by = r.by, !.op = r.op, !.pc = pc, !.dto = r.dto])
    BY <1>1 DEF TypedCall, Steps
  <1>3. TypedCall(Rest(r, pc))
    BY <1>1, <1>2 DEF Rest
  <1>4. /\ Rest(r, pc).pc \in {"idle", pc} /\ (pc = "forget" => Rest(r, pc).pc = pc)
        /\ r.by = "page" => Rest(r, pc).by = "page" /\ Rest(r, pc).op = r.op
    BY <1>1 DEF Rest, TypedCall
  <1>5. Knows(Rest(r, pc))
    BY <1>4 DEF Knows, Targets, Written, Checked, Derived, Works
  <1> QED
    BY <1>3, <1>4, <1>5

\* One request goes from call[c] to r, and no row changes but for a PIN.
LEMMA OneCall ==
    ASSUME IInv, NEW c \in Calls, NEW r, TypedCall(r),
           Becomes(c, r), order' = order, line' \in [Lines -> Row],
           \A l \in Lines : /\ line'[l].status = line[l].status
                            /\ line'[l].returned = line[l].returned,
           Knows(r),
           r.pc \in {"status", "lines", "commit"} => RowFree(c, r.at),
           ret' \in [Keys -> Return \cup {None}], Kept, cache' \in Detail \cup {None},
           TypedHist(hist)', hist'.restocked = hist.restocked, hist'.lag = hist.lag,
           TypedPage(page)', PageInv',
           page'.busy => \/ r.by = "page" /\ r.op # "load"
                         \/ page.busy /\ ~(call[c].by = "page" /\ call[c].op # "load"),
           \/ cache' \in {None, Current} \/ hist'.late \/ r.pc = "forget"
           \/ cache' = cache /\ hist'.late = hist.late /\ call[c].pc # "forget"
    PROVE  IInv'
  <1>1. /\ call'[c] = r /\ DOMAIN call' = Calls
        /\ \A d \in Calls \ {c} : call'[d] = call[d]
    BY DEF IInv, TypeOK, Becomes
  <1>2. TypeOK'
    BY <1>1 DEF IInv, TypeOK, TypedCall
  <1>3. \A q : Knows(q) => (Knows(q))'
    <2> TAKE q
    <2>1. Targets(q) => (Targets(q))'
      BY DEF Targets, Kept, Works, ReturnOps
    <2>2. (Written(q))' <=> Written(q)
      BY DEF Written
    <2>3. (Checked(q))' <=> Checked(q)
      BY DEF Checked
    <2>4. (Seen(q))' = Seen(q)
      BY DEF Seen
    <2>5. (Derived(q))' <=> Derived(q)
      BY <2>4 DEF Derived, Recomputed, Derive
    <2> QED
      BY <2>1, <2>2, <2>3, <2>5 DEF Knows
  <1>4. CallInv'
    BY <1>1, <1>3 DEF CallInv, IInv
  <1>5. Locks'
    <2> SUFFICES ASSUME NEW a \in Calls, NEW b \in Calls, InTransaction(a)', InTransaction(b)',
                        call'[a].at = call'[b].at, a # b
                 PROVE  FALSE
      BY DEF Locks
    <2>1. CASE a = c
      BY <2>1, <1>1 DEF InTransaction, RowFree, Holds
    <2>2. CASE b = c
      BY <2>2, <1>1 DEF InTransaction, RowFree, Holds
    <2>3. CASE a # c /\ b # c
      BY <2>3, <1>1 DEF InTransaction, Locks, IInv
    <2> QED
      BY <2>1, <2>2, <2>3
  <1>6. UnitsInv'
    BY DEF UnitsInv, IInv
  <1>7. StatusOf(line') = StatusOf(line) /\ Current' = Current
    BY DEF Current, StatusOf, ReturnedOf
  <1>8. StatusFollowsLines'
    BY <1>7 DEF StatusFollowsLines, IInv, Derive
  <1>9. CacheOnlyStaleByRace'
    BY <1>1, <1>7 DEF CacheOnlyStaleByRace, IInv
  <1>10. BusyHasACause'
    BY <1>1 DEF BusyHasACause, IInv
  <1> QED
    BY <1>2, <1>4, <1>5, <1>6, <1>8, <1>9, <1>10 DEF IInv
LEMMA Answering ==
    ASSUME IInv, NEW c \in Calls, NEW pc \in {"forget", "ok", "failed"}, Replies(c, pc),
           UNCHANGED <<order, page>>, line' \in [Lines -> Row],
           \A l \in Lines : /\ line'[l].status = line[l].status
                            /\ line'[l].returned = line[l].returned,
           ret' \in [Keys -> Return \cup {None}], Kept, cache' \in Detail \cup {None},
           TypedHist(hist)', hist'.restocked = hist.restocked, hist'.lag = hist.lag,
           \/ cache' \in {None, Current} \/ hist'.late \/ pc = "forget"
           \/ cache' = cache /\ hist'.late = hist.late /\ call[c].pc # "forget"
    PROVE  IInv'
  <1> DEFINE r == Rest(call[c], pc)
  <1>1. TypedCall(call[c]) /\ TypedPage(page)' /\ PageInv'
    BY DEF IInv, TypeOK, TypedPage, PageInv, Listed
  <1>2. /\ TypedCall(r) /\ Knows(r)
        /\ r.pc \in {"idle", pc} /\ (pc = "forget" => r.pc = pc)
        /\ call[c].by = "page" => r.by = "page" /\ r.op = call[c].op
    BY <1>1, Answers
  <1>3. Becomes(c, r)
    BY DEF Replies
  <1> HIDE DEF r
  <1> QED
    BY <1>1, <1>2, <1>3, OneCall

\* The same when nothing but the request changes.
LEMMA QuietAnswer ==
    ASSUME IInv, NEW c \in Calls, NEW pc \in {"forget", "ok", "failed"}, Replies(c, pc),
           UNCHANGED <<line, order, ret, cache, page, hist>>, call[c].pc # "forget"
    PROVE  IInv'
  <1>1. /\ ret' \in [Keys -> Return \cup {None}] /\ cache' \in Detail \cup {None}
        /\ TypedHist(hist)' /\ line' \in [Lines -> Row] /\ Kept
    BY DEF IInv, TypeOK, TypedHist, Kept
  <1> QED
    BY <1>1, Answering

LEMMA Quiet ==
    ASSUME IInv, NEW c \in Calls, NEW r, TypedCall(r), Becomes(c, r),
           UNCHANGED <<line, order, ret, cache, page, hist>>,
           Knows(r), r.pc \in {"status", "lines", "commit"} => RowFree(c, r.at),
           r.by = call[c].by, r.op = call[c].op, call[c].pc # "forget"
    PROVE  IInv'
  <1>1. /\ ret' \in [Keys -> Return \cup {None}] /\ cache' \in Detail \cup {None}
        /\ TypedHist(hist)' /\ TypedPage(page)' /\ PageInv' /\ line' \in [Lines -> Row]
        /\ Kept
    BY DEF IInv, TypeOK, TypedHist, TypedPage, PageInv, Listed, Kept
  <1> QED
    BY <1>1, OneCall

\* A check that only goes on to the write.
LEMMA GoesOn ==
    ASSUME IInv, NEW c \in Calls, Goes(c, "write"), call[c].pc = "check",
           call[c].op \notin {"move", "approve"},
           UNCHANGED <<line, order, ret, cache, page, hist>>
    PROVE  IInv'
  <1> DEFINE r == [call[c] EXCEPT !.pc = "write"]
  <1>1. TypedCall(call[c]) /\ Targets(call[c])
    BY DEF IInv, TypeOK, CallInv, Knows
  <1>2. /\ TypedCall(r) /\ r.pc = "write" /\ r.op = call[c].op /\ r.by = call[c].by
        /\ r.at = call[c].at /\ r.key = call[c].key
    BY <1>1 DEF TypedCall, Steps, Works
  <1>3. Becomes(c, r)
    BY DEF Goes
  <1> HIDE DEF r
  <1>4. Knows(r)
    BY <1>1, <1>2 DEF Knows, Targets, Written, Checked, Derived, Works
  <1> QED
    BY <1>2, <1>3, <1>4, Quiet
-----------------------------------------------------------------------------
(* ---- one lemma for each group of handlers ---- *)

LEMMA MoveKeeps ==
    ASSUME IInv, NEW c \in Calls, CheckMove(c) \/ WriteMove(c)
    PROVE  IInv'
  <1> DEFINE l == call[c].at
  <1>1. TypedCall(call[c]) /\ Targets(call[c]) /\ Checked(call[c]) /\ Written(call[c])
    BY DEF IInv, TypeOK, CallInv, Knows
  <1>2. CASE CheckMove(c)
    <2>1. call[c].pc = "check" /\ call[c].op = "move" /\ l \in Lines
      BY <1>1, <1>2 DEF CheckMove, Targets, Works, LineOps
    <2>2. line[l].status \in ItemStatus
      BY <2>1 DEF IInv, TypeOK, Row
    <2>3. CASE Replies(c, "ok") \/ Replies(c, "failed")
      BY <1>2, <2>1, <2>3, QuietAnswer DEF CheckMove
    <2>4. CASE /\ call[c].to \in Transitions[line[l].status]
               /\ Becomes(c, [call[c] EXCEPT !.pc = "write", !.seen = line[l].status])
      <3> DEFINE r == [call[c] EXCEPT !.pc = "write", !.seen = line[l].status]
      <3>1. TypedCall(r)
        BY <1>1, <2>2 DEF TypedCall, Steps, Statuses, Works
      <3>2. /\ r.pc = "write" /\ r.op = "move" /\ r.by = call[c].by /\ r.at = l
            /\ r.key = call[c].key /\ r.to = call[c].to /\ r.seen = line[l].status
        BY <1>1, <2>1 DEF TypedCall, Idle
      <3>3. Becomes(c, r)
        BY <2>4
      <3> HIDE DEF r
      <3>4. Knows(r)
        BY <2>1, <2>2, <2>4, <3>2 DEF Knows, Targets, Written, Checked, Derived, ReturnOps, Works
      <3> QED
        BY <1>2, <2>1, <3>1, <3>2, <3>3, <3>4, Quiet DEF CheckMove
    <2> QED
      BY <1>2, <2>3, <2>4 DEF CheckMove
  <1>3. CASE WriteMove(c)
    <2>1. /\ call[c].pc = "write" /\ call[c].op = "move" /\ l \in Lines
          /\ call[c].seen \in ItemStatus /\ call[c].to \in Transitions[call[c].seen]
      BY <1>1, <1>3 DEF WriteMove, Targets, Works, LineOps, Checked
    <2>2. line[l] \in Row /\ line[l].returned <= Bought[l]
      BY <2>1 DEF IInv, TypeOK, UnitsInv
    <2>3. CASE Replies(c, "failed")
      BY <1>3, <2>1, <2>3, QuietAnswer DEF WriteMove
    <2>4. CASE /\ StillAsRead(c, l) /\ RowFree(c, l)
               /\ Becomes(c, [call[c] EXCEPT !.pc = "status",
                                             !.row = [line[l] EXCEPT !.status = call[c].to]])
      <3> DEFINE row == [line[l] EXCEPT !.status = call[c].to]
                 r == [call[c] EXCEPT !.pc = "status", !.row = row]
      <3>1. call[c].to \in Transitions[line[l].status] /\ call[c].to \in ItemStatus
        BY <2>1, <2>4 DEF StillAsRead, Transitions, ItemStatus
      <3>2. row \in Row /\ row.status = call[c].to /\ row.returned = line[l].returned
        BY <2>2, <3>1 DEF Row
      <3> HIDE DEF row
      <3>3. TypedCall(r)
        BY <1>1, <3>2 DEF TypedCall, Steps, Works
      <3>4. /\ r.pc = "status" /\ r.op = "move" /\ r.by = call[c].by /\ r.at = l
            /\ r.key = call[c].key /\ r.row = row
        BY <1>1, <2>1 DEF TypedCall, Idle
      <3>5. Becomes(c, r)
        BY <2>4 DEF row
      <3> HIDE DEF r
      <3>6. Knows(r)
        BY <2>1, <2>2, <3>1, <3>2, <3>4
        DEF Knows, Targets, Written, Checked, Derived, ReturnOps, Works
      <3> QED
        BY <1>3, <2>1, <2>4, <3>3, <3>4, <3>5, <3>6, Quiet DEF WriteMove
    <2> QED
      BY <1>3, <2>3, <2>4 DEF WriteMove
  <1> QED
    BY <1>2, <1>3
LEMMA PinKeeps ==
    ASSUME IInv, NEW c \in Calls, CheckPin(c) \/ WritePin(c)
    PROVE  IInv'
  <1> DEFINE l == call[c].at
  <1>1. TypedCall(call[c]) /\ Targets(call[c]) /\ MaxPins \in Nat
    BY OrderDeskAssumption DEF IInv, TypeOK, CallInv, Knows
  <1>2. CASE CheckPin(c)
    BY <1>2, GoesOn, QuietAnswer DEF CheckPin
  <1>3. CASE WritePin(c)
    <2>1. call[c].pc = "write" /\ call[c].op = "pin" /\ l \in Lines
      BY <1>1, <1>3 DEF WritePin, Targets, Works, LineOps
    <2>2. line \in [Lines -> Row] /\ line[l].pin \in 0..MaxPins /\ line[l].pin < MaxPins
      BY <1>3, <2>1 DEF IInv, TypeOK, Row, WritePin
    <2>3. CASE line' = line
      <3>1. /\ ret' \in [Keys -> Return \cup {None}] /\ cache' \in Detail \cup {None}
            /\ TypedHist(hist)' /\ line' \in [Lines -> Row] /\ Kept
        BY <1>3, <2>3 DEF IInv, TypeOK, TypedHist, WritePin, Kept
      <3>2. Replies(c, "forget") \/ Replies(c, "failed")
        BY <1>3 DEF WritePin
      <3>3. order' = order /\ page' = page /\ hist' = hist /\ cache' = cache
        BY <1>3 DEF WritePin
      <3> QED
        BY <2>1, <2>3, <3>1, <3>2, <3>3, Answering
    <2>4. CASE line' = [line EXCEPT ![l].pin = @ + 1] /\ Replies(c, "forget")
      <3> DEFINE row == [line[l] EXCEPT !.pin = @ + 1]
      <3>1. line[l] \in Row
        BY <2>1, <2>2
      <3>2. line[l].pin + 1 \in 0..MaxPins
        BY <1>1, <2>2
      <3>3. row \in Row
        BY <3>1, <3>2 DEF Row
      <3>4. line' = [line EXCEPT ![l] = row]
        BY <2>4
      <3>5. line' \in [Lines -> Row]
        BY <2>1, <2>2, <3>3, <3>4
      <3>6. \A k \in Lines : /\ line'[k].status = line[k].status
                             /\ line'[k].returned = line[k].returned
        BY <2>2, <2>4 DEF Row
      <3>7. /\ ret' \in [Keys -> Return \cup {None}] /\ cache' \in Detail \cup {None}
            /\ TypedHist(hist)' /\ Kept
        BY <1>3 DEF IInv, TypeOK, TypedHist, WritePin, Kept
      <3> QED
        BY <1>3, <2>4, <3>5, <3>6, <3>7, Answering DEF WritePin
    <2> QED
      BY <1>3, <2>3, <2>4 DEF WritePin
  <1> QED
    BY <1>2, <1>3

LEMMA ConfirmKeeps ==
    ASSUME IInv, NEW c \in Calls, CheckConfirm(c) \/ WriteConfirm(c)
    PROVE  IInv'
  <1> DEFINE l == call[c].at
  <1>1. TypedCall(call[c]) /\ Targets(call[c])
    BY DEF IInv, TypeOK, CallInv, Knows
  <1>2. CASE CheckConfirm(c)
    BY <1>2, GoesOn, QuietAnswer DEF CheckConfirm
  <1>3. CASE WriteConfirm(c)
    <2>1. call[c].pc = "write" /\ call[c].op = "confirm" /\ l \in Lines
      BY <1>1, <1>3 DEF WriteConfirm, Targets, Works, LineOps
    <2>2. line[l] \in Row /\ line[l].returned <= Bought[l]
      BY <2>1 DEF IInv, TypeOK, UnitsInv
    <2>3. CASE Replies(c, "failed")
      BY <1>3, <2>1, <2>3, QuietAnswer DEF WriteConfirm
    <2>4. CASE /\ line[l].status = "ready" /\ RowFree(c, l)
               /\ Becomes(c, [call[c] EXCEPT !.pc = "status",
                                             !.row = [line[l] EXCEPT !.status = "picked_up"]])
      <3> DEFINE row == [line[l] EXCEPT !.status = "picked_up"]
                 r == [call[c] EXCEPT !.pc = "status", !.row = row]
      <3>1. "picked_up" \in Transitions[line[l].status] /\ "picked_up" \in ItemStatus
        BY <2>4 DEF Transitions, ItemStatus
      <3>2. row \in Row /\ row.status = "picked_up" /\ row.returned = line[l].returned
        BY <2>2, <3>1 DEF Row
      <3> HIDE DEF row
      <3>3. TypedCall(r)
        BY <1>1, <3>2 DEF TypedCall, Steps, Works
      <3>4. /\ r.pc = "status" /\ r.op = "confirm" /\ r.by = call[c].by /\ r.at = l
            /\ r.key = call[c].key /\ r.row = row
        BY <1>1, <2>1 DEF TypedCall, Idle
      <3>5. Becomes(c, r)
        BY <2>4 DEF row
      <3> HIDE DEF r
      <3>6. Knows(r)
        BY <2>1, <2>2, <3>1, <3>2, <3>4
        DEF Knows, Targets, Written, Checked, Derived, ReturnOps, Works
      <3> QED
        BY <1>3, <2>1, <2>4, <3>3, <3>4, <3>5, <3>6, Quiet DEF WriteConfirm
    <2> QED
      BY <1>3, <2>3, <2>4 DEF WriteConfirm
  <1> QED
    BY <1>2, <1>3

LEMMA OpenKeeps ==
    ASSUME IInv, NEW c \in Calls, CheckOpen(c) \/ WriteOpen(c)
    PROVE  IInv'
  <1>1. TypedCall(call[c]) /\ Targets(call[c])
    BY DEF IInv, TypeOK, CallInv, Knows
  <1>2. CASE CheckOpen(c)
    BY <1>2, GoesOn, QuietAnswer DEF CheckOpen
  <1>3. CASE WriteOpen(c)
    <2>1. /\ call[c].pc = "write" /\ call[c].key \in Keys /\ call[c].at \in Lines
          /\ call[c].n \in Nat
      BY <1>1, <1>3 DEF WriteOpen, Targets, Works, TypedCall
    <2>2. ret' \in [Keys -> Return \cup {None}] /\ Kept
      <3>1. [status |-> "pending", line |-> call[c].at, units |-> call[c].n] \in Return
        BY <2>1 DEF Return
      <3> QED
        BY <1>3, <2>1, <3>1, StartsAssumption DEF IInv, TypeOK, WriteOpen, Kept
    <2>3. cache' \in Detail \cup {None} /\ TypedHist(hist)' /\ line' \in [Lines -> Row]
      BY <1>3 DEF IInv, TypeOK, TypedHist, WriteOpen
    <2> QED
      BY <1>3, <2>1, <2>2, <2>3, Answering DEF WriteOpen
  <1> QED
    BY <1>2, <1>3
LEMMA ApproveKeeps ==
    ASSUME IInv, NEW c \in Calls, CheckApprove(c) \/ WriteApprove(c)
    PROVE  IInv'
  <1> DEFINE k == call[c].key
  <1>1. TypedCall(call[c]) /\ Targets(call[c])
    BY DEF IInv, TypeOK, CallInv, Knows
  <1>2. CASE CheckApprove(c)
    <2>1. call[c].pc = "check" /\ call[c].op = "approve" /\ k \in Keys
      BY <1>1, <1>2 DEF CheckApprove, Targets, Works, ReturnOps
    <2>2. CASE Replies(c, "failed")
      BY <1>2, <2>1, <2>2, QuietAnswer DEF CheckApprove
    <2>3. CASE /\ Moves(k, "pending")
               /\ Becomes(c, [call[c] EXCEPT !.pc = "write", !.at = ret[k].line, !.n = ret[k].units])
      <3> DEFINE r == [call[c] EXCEPT !.pc = "write", !.at = ret[k].line, !.n = ret[k].units]
      <3>1. ret[k].line \in Lines /\ ret[k].units \in Nat
        BY <2>1, <2>3 DEF IInv, TypeOK, Moves, Return
      <3>2. TypedCall(r)
        BY <1>1, <3>1 DEF TypedCall, Steps, Works
      <3>3. /\ r.pc = "write" /\ r.op = "approve" /\ r.by = call[c].by /\ r.at \in Lines
            /\ r.key = k
        BY <1>1, <2>1, <3>1 DEF TypedCall, Idle
      <3>4. Becomes(c, r)
        BY <2>3
      <3> HIDE DEF r
      <3>5. Knows(r)
        BY <2>1, <2>3, <3>3 DEF Moves, Knows, Targets, Written, Checked, Derived, ReturnOps, Works
      <3> QED
        BY <1>2, <2>1, <3>2, <3>3, <3>4, <3>5, Quiet DEF CheckApprove
    <2> QED
      BY <1>2, <2>2, <2>3 DEF CheckApprove
  <1>3. CASE WriteApprove(c)
    <2> DEFINE l == call[c].at
               fits == /\ Returnable(line[l]) \/ line[l].status = "returned"
                       /\ line[l].returned + call[c].n <= Bought[l]
    <2>1. /\ call[c].pc = "write" /\ call[c].op = "approve" /\ l \in Lines /\ k \in Keys
          /\ call[c].n \in Nat
      BY <1>1, <1>3 DEF WriteApprove, Targets, Works, ReturnOps, TypedCall
    <2>2. line[l] \in Row /\ Bought[l] \in Nat
      BY <2>1, OrderDeskAssumption DEF IInv, TypeOK
    <2>3. CASE Replies(c, "failed")
      BY <1>3, <2>1, <2>3, QuietAnswer DEF WriteApprove
    <2>4. CASE /\ Moves(k, "pending") /\ RowFree(c, l) /\ fits
               /\ Becomes(c, [call[c] EXCEPT !.pc = "status",
                                             !.row = Applied(line[l], call[c].n, Bought[l])])
      <3> DEFINE row == Applied(line[l], call[c].n, Bought[l])
                 r == [call[c] EXCEPT !.pc = "status", !.row = row]
      <3>1. "returned" \in ItemStatus
        BY DEF ItemStatus
      <3>2. row \in Row /\ row.returned = line[l].returned + call[c].n
        <4> DEFINE units == line[l].returned + call[c].n
                   now == IF units >= Bought[l] THEN "returned" ELSE line[l].status
        <4>1. units \in Nat /\ now \in ItemStatus
          BY <2>1, <2>2, <3>1 DEF Row
        <4>2. row = [line[l] EXCEPT !.returned = units, !.status = now]
          BY <2>2 DEF Applied, Row
        <4> HIDE DEF row, units, now
        <4>3. row \in Row /\ row.returned = units
          BY <2>2, <4>1, <4>2 DEF Row
        <4> QED
          BY <4>3 DEF units
      <3>3. row.status \in {line[l].status} \cup Transitions[line[l].status]
        <4>1. row.status \in {line[l].status, "returned"}
          BY <2>2 DEF Applied, Row
        <4>2. line[l].status \in {"delivered", "picked_up", "returned"}
          BY <2>4 DEF Returnable
        <4> QED
          BY <4>1, <4>2 DEF Transitions
      <3>4. row.returned <= Bought[l]
        BY <2>4, <3>2
      <3> HIDE DEF row
      <3>5. TypedCall(r)
        BY <1>1, <3>2 DEF TypedCall, Steps, Works
      <3>6. /\ r.pc = "status" /\ r.op = "approve" /\ r.by = call[c].by /\ r.at = l
            /\ r.key = call[c].key /\ r.row = row /\ r.n = call[c].n
        BY <1>1, <2>1 DEF TypedCall, Idle
      <3>7. Becomes(c, r)
        BY <2>4 DEF row
      <3> HIDE DEF r
      <3>8. Knows(r)
        BY <2>1, <2>2, <2>4, <3>2, <3>3, <3>4, <3>6
        DEF Moves, Knows, Targets, Written, Checked, Derived, ReturnOps, Works
      <3> QED
        BY <1>3, <2>1, <2>4, <3>5, <3>6, <3>7, <3>8, Quiet DEF WriteApprove
    <2> QED
      BY <1>3, <2>3, <2>4 DEF WriteApprove
  <1> QED
    BY <1>2, <1>3

LEMMA DecideKeeps ==
    ASSUME IInv, NEW c \in Calls, Reject(c) \/ Complete(c)
    PROVE  IInv'
  <1>1. TypedCall(call[c]) /\ Targets(call[c])
    BY DEF IInv, TypeOK, CallInv, Knows
  <1> DEFINE k == call[c].key
  <1>2. PICK from, to \in {"pending", "approved", "rejected", "completed"} :
            /\ ret' = IF Moves(k, from) THEN [ret EXCEPT ![k].status = to] ELSE ret
            /\ Replies(c, "ok") \/ Replies(c, "failed")
            /\ call[c].pc = "check" /\ call[c].op \in ReturnOps
            /\ UNCHANGED <<line, order, cache, page, hist>>
    BY DEF Reject, Complete, Decide, ReturnOps
  <1>3. k \in Keys
    BY <1>1, <1>2 DEF Targets, Works
  <1>4. ret' \in [Keys -> Return \cup {None}] /\ Kept
    <2>1. ret \in [Keys -> Return \cup {None}]
      BY DEF IInv, TypeOK
    <2>2. CASE Moves(k, from)
      <3>1. ret[k] \in Return
        BY <1>3, <2>1, <2>2 DEF Moves
      <3>2. [ret[k] EXCEPT !.status = to] \in Return
        BY <1>2, <3>1 DEF Return
      <3>3. ret' = [ret EXCEPT ![k] = [ret[k] EXCEPT !.status = to]]
        BY <1>2, <2>2
      <3> QED
        BY <1>3, <2>1, <3>2, <3>3, StartsAssumption DEF Kept
    <2> QED
      BY <1>2, <2>1, <2>2 DEF Kept
  <1>5. cache' \in Detail \cup {None} /\ TypedHist(hist)' /\ line' \in [Lines -> Row]
    BY <1>2 DEF IInv, TypeOK, TypedHist
  <1>6. \A l \in Lines : line'[l].status = line[l].status /\ line'[l].returned = line[l].returned
    BY <1>2
  <1> QED
    BY <1>2, <1>4, <1>5, <1>6, Answering

LEMMA RecomputeKeeps ==
    ASSUME IInv, NEW c \in Calls, ReadStatus(c) \/ ReadLines(c)
    PROVE  IInv'
  <1> DEFINE q == call[c]
  <1>1. TypedCall(q) /\ Knows(q) /\ order \in OrderStatus
    BY DEF IInv, TypeOK, CallInv
  <1>2. q.pc \in {"status", "lines"}
    BY DEF ReadStatus, ReadLines
  <1>3. RowFree(c, q.at)
    BY <1>2 DEF IInv, Locks, RowFree, Holds, InTransaction
  <1>4. CASE ReadStatus(c)
    <2> DEFINE step == IF order \in PreFulfilment THEN "commit" ELSE "lines"
               r == [q EXCEPT !.seen = order, !.to = order, !.pc = step]
    <2>1. TypedCall(r)
      BY <1>1 DEF TypedCall, Steps, Works, Statuses
    <2>2. /\ r.pc = step /\ r.seen = order /\ r.to = order /\ r.op = q.op /\ r.by = q.by
          /\ r.at = q.at /\ r.key = q.key /\ r.row = q.row /\ r.n = q.n
      BY <1>1 DEF TypedCall, Idle
    <2>3. Becomes(c, r)
      BY <1>4 DEF ReadStatus
    <2> HIDE DEF r
    <2>4. q.pc = "status" /\ r.pc \in {"lines", "commit"}
      BY <1>4, <2>2 DEF ReadStatus
    <2>5. Targets(r)
      BY <1>1, <2>2, <2>4 DEF Knows, Targets, Works
    <2>6. Written(r)
      BY <1>1, <2>2, <2>4 DEF Knows, Written
    <2>7. Checked(r)
      BY <1>1, <2>2, <2>4 DEF Checked
    <2>8. Derived(r)
      BY <1>1, <2>2, <2>4 DEF Derived
    <2> QED
      BY <1>2, <1>3, <1>4, <2>1, <2>2, <2>3, <2>5, <2>6, <2>7, <2>8, Quiet DEF ReadStatus, Knows
  <1>5. CASE ReadLines(c)
    <2> DEFINE r == [q EXCEPT !.to = Recomputed(q), !.pc = "commit"]
    <2>1. Recomputed(q) \in OrderStatus
      BY DEF Recomputed, Derive, OrderStatus, Uniform
    <2>2. TypedCall(r)
      BY <1>1, <2>1 DEF TypedCall, Steps, Works, Statuses
    <2>3. /\ r.pc = "commit" /\ r.seen = q.seen /\ r.to = Recomputed(q) /\ r.op = q.op
          /\ r.by = q.by /\ r.at = q.at /\ r.key = q.key /\ r.row = q.row /\ r.n = q.n
          /\ r.crossed = q.crossed
      BY <1>1 DEF TypedCall, Idle
    <2>4. Becomes(c, r)
      BY <1>5 DEF ReadLines
    <2>5. q.pc = "lines"
      BY <1>5 DEF ReadLines
    <2> HIDE DEF r
    <2>6. Recomputed(r) = Recomputed(q)
      BY <2>3 DEF Recomputed, Seen
    <2>7. Targets(r) /\ Written(r) /\ Checked(r) /\ Derived(r)
      BY <1>1, <2>1, <2>3, <2>5, <2>6 DEF Knows, Targets, Written, Checked, Derived, Works
    <2> QED
      BY <1>2, <1>3, <1>5, <2>2, <2>3, <2>4, <2>7, Quiet DEF ReadLines, Knows
  <1> QED
    BY <1>4, <1>5
LEMMA CacheKeeps ==
    ASSUME IInv, NEW c \in Calls,
           Forget(c) \/ ForgetFails(c) \/ GetCached(c) \/ GetRows(c) \/ GetFill(c) \/ Fail(c)
    PROVE  IInv'
  <1> DEFINE q == call[c]
  <1>1. TypedCall(q) /\ TypedHist(hist) /\ cache \in Detail \cup {None}
    BY DEF IInv, TypeOK
  <1>2. Current \in Detail
    BY DEF IInv, TypeOK, Current, Detail, StatusOf, ReturnedOf, Row
  <1>3. ret' = ret /\ line' = line /\ order' = order /\ page' = page
    BY DEF Forget, ForgetFails, GetCached, GetRows, GetFill, Fail
  <1>4. /\ ret' \in [Keys -> Return \cup {None}] /\ line' \in [Lines -> Row] /\ Kept
        /\ \A l \in Lines : /\ line'[l].status = line[l].status
                            /\ line'[l].returned = line[l].returned
    BY <1>3 DEF IInv, TypeOK, Kept
  <1>5. CASE Forget(c)
    <2>1. cache' \in Detail \cup {None} /\ cache' = None /\ hist' = hist /\ TypedHist(hist)'
      BY <1>1, <1>5 DEF Forget, Forgets, TypedHist
    <2> QED
      BY <1>3, <1>4, <1>5, <2>1, Answering DEF Forget
  <1>6. CASE ForgetFails(c)
    <2>1. hist' = [hist EXCEPT !.fails = @ + 1, !.late = cache # None]
      BY <1>6 DEF ForgetFails
    <2>2. TypedHist(hist')
      BY <1>1, <2>1 DEF TypedHist
    <2>3. hist'.restocked = hist.restocked /\ hist'.lag = hist.lag /\ hist'.late = (cache # None)
      BY <1>1, <2>1 DEF TypedHist
    <2>4. TypedHist(hist)' /\ cache' = cache
      BY <1>6, <2>2 DEF TypedHist, ForgetFails
    <2>5. cache' \in Detail \cup {None} /\ (cache' = None \/ hist'.late)
      BY <1>1, <2>3, <2>4
    <2> QED
      BY <1>3, <1>4, <1>6, <2>3, <2>4, <2>5, Answering DEF ForgetFails
  <1>7. CASE GetCached(c)
    <2>1. q.pc = "check" /\ q.op \in Reads
      BY <1>7 DEF GetCached
    <2>2. CASE cache = None
      <3> DEFINE r == [q EXCEPT !.pc = "rows"]
      <3>1. TypedCall(r) /\ r.pc = "rows" /\ r.op = q.op /\ r.by = q.by
        BY <1>1 DEF TypedCall, Steps, Idle
      <3>2. Becomes(c, r)
        BY <1>7, <2>2 DEF GetCached
      <3> HIDE DEF r
      <3>3. Knows(r)
        BY <3>1 DEF Knows, Targets, Written, Checked, Derived, Works
      <3> QED
        BY <1>7, <2>1, <3>1, <3>2, <3>3, Quiet DEF GetCached
    <2>3. CASE cache # None
      <3> DEFINE a == [q EXCEPT !.dto = cache]
                 r == Rest(a, "ok")
      <3>1. TypedCall(a) /\ a.by = q.by /\ a.op = q.op
        BY <1>1 DEF TypedCall, Idle
      <3>2. Becomes(c, r)
        BY <1>7, <2>3 DEF GetCached
      <3> HIDE DEF a
      <3>3. /\ TypedCall(r) /\ Knows(r) /\ r.pc \in {"idle", "ok"}
            /\ q.by = "page" => r.by = "page" /\ r.op = q.op
        BY <3>1, Answers
      <3>4. hist' = hist /\ cache' = cache
        BY <1>7 DEF GetCached
      <3>5. TypedHist(hist)' /\ TypedPage(page)' /\ PageInv' /\ cache' \in Detail \cup {None}
        BY <1>1, <1>3, <3>4 DEF IInv, TypeOK, TypedHist, TypedPage, PageInv, Listed
      <3> HIDE DEF r
      <3> QED
        BY <1>3, <1>4, <2>1, <3>2, <3>3, <3>4, <3>5, OneCall
    <2> QED
      BY <2>2, <2>3
  <1>8. CASE GetRows(c)
    <2> DEFINE r == [q EXCEPT !.pc = "fill", !.dto = Current]
    <2>1. TypedCall(r) /\ r.pc = "fill" /\ r.op = q.op /\ r.by = q.by
      BY <1>1, <1>2 DEF TypedCall, Steps, Idle
    <2>2. Becomes(c, r)
      BY <1>8 DEF GetRows
    <2> HIDE DEF r
    <2>3. Knows(r)
      BY <2>1 DEF Knows, Targets, Written, Checked, Derived, Works
    <2> QED
      BY <1>8, <2>1, <2>2, <2>3, Quiet DEF GetRows
  <1>9. CASE GetFill(c)
    <2>1. hist' = [hist EXCEPT !.late = q.dto # Current] /\ cache' = q.dto
      BY <1>9 DEF GetFill
    <2>2. TypedHist(hist')
      BY <1>1, <2>1 DEF TypedHist
    <2>3. /\ hist'.restocked = hist.restocked /\ hist'.lag = hist.lag
          /\ hist'.late = (q.dto # Current)
      BY <1>1, <2>1 DEF TypedHist
    <2>4. /\ TypedHist(hist)' /\ cache' \in Detail \cup {None}
          /\ cache' = Current \/ hist'.late
      BY <1>1, <2>1, <2>2, <2>3 DEF TypedHist, TypedCall
    <2> QED
      BY <1>3, <1>4, <1>9, <2>3, <2>4, Answering DEF GetFill
  <1>10. CASE Fail(c)
    <2>1. hist' = [hist EXCEPT !.fails = @ + 1] /\ cache' = cache
      BY <1>10 DEF Fail
    <2>2. TypedHist(hist')
      BY <1>1, <2>1 DEF TypedHist
    <2>3. hist'.restocked = hist.restocked /\ hist'.lag = hist.lag /\ hist'.late = hist.late
      BY <1>1, <2>1 DEF TypedHist
    <2>4. TypedHist(hist)' /\ q.pc # "forget"
      BY <1>10, <2>2 DEF TypedHist, Fail
    <2> QED
      BY <1>1, <1>3, <1>4, <1>10, <2>1, <2>3, <2>4, Answering DEF Fail
  <1> QED
    BY <1>5, <1>6, <1>7, <1>8, <1>9, <1>10
-----------------------------------------------------------------------------
(* ---- steps that change the order or a line ---- *)

\* What a commit leaves of the requests: its own is answered but for the cache, and every
\* recomputation that has begun is marked as crossed.
Aside(d, e) ==
    /\ e.by = d.by /\ e.op = d.op /\ e.at = d.at /\ e.to = d.to /\ e.n = d.n /\ e.key = d.key
    /\ e.pc = d.pc /\ e.seen = d.seen /\ e.row = d.row
    /\ d.pc \in {"lines", "commit"} => e.crossed

LEMMA Crossing ==
    ASSUME IInv, NEW c \in Calls,
           call' = Marked(c, [call EXCEPT ![c] = Rest(call[c], "forget")])
    PROVE  /\ DOMAIN call' = Calls
           /\ TypedCall(call'[c]) /\ call'[c].pc = "forget"
           /\ call[c].by = "page" => call'[c].by = "page" /\ call'[c].op = call[c].op
           /\ \A d \in Calls \ {c} : TypedCall(call'[d]) /\ Aside(call[d], call'[d])
  <1> DEFINE r == Rest(call[c], "forget")
             cs == [call EXCEPT ![c] = r]
  <1>1. DOMAIN call = Calls /\ \A d \in Calls : TypedCall(call[d])
    BY DEF IInv, TypeOK
  <1>2. /\ TypedCall(r) /\ r.pc = "forget"
        /\ call[c].by = "page" => r.by = "page" /\ r.op = call[c].op
    BY <1>1, Answers
  <1> HIDE DEF r
  <1>3. cs[c] = r /\ \A d \in Calls \ {c} : cs[d] = call[d]
    BY <1>1
  <1>4. call' = Marked(c, cs)
    BY DEF r
  <1> HIDE DEF cs
  <1>5. DOMAIN call' = Calls
    BY <1>4 DEF Marked
  <1>6. call'[c] = r
    BY <1>3, <1>4 DEF Marked, Crosses
  <1>7. ASSUME NEW d \in Calls \ {c}
        PROVE  TypedCall(call'[d]) /\ Aside(call[d], call'[d])
    <2>1. CASE call[d].pc \in {"lines", "commit"}
      <3>1. call'[d] = [call[d] EXCEPT !.crossed = TRUE]
        BY <1>3, <1>4, <2>1 DEF Marked, Crosses
      <3> QED
        BY ZenonT(30), <1>1, <3>1 DEF TypedCall, Aside, Idle
    <2>2. CASE call[d].pc \notin {"lines", "commit"}
      <3>1. call'[d] = call[d]
        BY <1>3, <1>4, <2>2 DEF Marked, Crosses
      <3> QED
        BY <1>1, <2>2, <3>1 DEF Aside
    <2> QED
      BY <2>1, <2>2
  <1> QED
    BY <1>2, <1>5, <1>6, <1>7

\* What a commit leaves of the invariants about the requests, if the line that changed is
\* held by no other transaction.
LEMMA AfterCommit ==
    ASSUME IInv, NEW c \in Calls,
           call' = Marked(c, [call EXCEPT ![c] = Rest(call[c], "forget")]),
           page' = page, Kept,
           \A d \in Calls \ {c} : InTransaction(d) => line'[call[d].at] = line[call[d].at]
    PROVE  /\ DOMAIN call' = Calls /\ \A d \in Calls : TypedCall(call'[d])
           /\ CallInv' /\ Locks' /\ BusyHasACause' /\ CacheOnlyStaleByRace' /\ PageInv'
           /\ TypedPage(page)'
  <1>1. /\ DOMAIN call' = Calls
        /\ TypedCall(call'[c]) /\ call'[c].pc = "forget"
        /\ call[c].by = "page" => call'[c].by = "page" /\ call'[c].op = call[c].op
        /\ \A d \in Calls \ {c} : TypedCall(call'[d]) /\ Aside(call[d], call'[d])
    BY Crossing
  <1>2. \A d \in Calls : TypedCall(call'[d])
    BY <1>1
  <1>3. CallInv'
    <2> SUFFICES ASSUME NEW d \in Calls PROVE Knows(call[d])'
      BY DEF CallInv
    <2>1. CASE d = c
      BY <1>1, <2>1 DEF Knows, Targets, Written, Checked, Derived, Works
    <2>2. CASE d # c
      <3> DEFINE q == call[d]
                 e == call'[d]
      <3>1. Targets(q) /\ Written(q) /\ Checked(q)
        BY DEF IInv, CallInv, Knows
      <3>2. Aside(q, e)
        BY <1>1, <2>2
      <3>3. q.pc \in {"status", "lines", "commit"} => line'[q.at] = line[q.at]
        BY <2>2 DEF InTransaction
      <3>4. Targets(call[d])' /\ Checked(call[d])'
        BY <3>1, <3>2 DEF Targets, Checked, Aside, Kept, Works, ReturnOps
      <3>5. Written(call[d])'
        <4> SUFFICES ASSUME e.pc \in {"status", "lines", "commit"}
                     PROVE  Written(call[d])'
          BY DEF Written
        <4>1. /\ e.op = q.op /\ e.at = q.at /\ e.n = q.n /\ e.row = q.row
              /\ q.pc \in {"status", "lines", "commit"}
          BY <3>2 DEF Aside
        <4>2. line'[e.at] = line[q.at]
          BY <3>3, <4>1
        <4> HIDE DEF q, e
        <4>3. /\ e.op \in {"move", "confirm", "approve"} /\ e.at \in Lines /\ e.row \in Row
              /\ e.row.status \in {line'[e.at].status} \cup Transitions[line'[e.at].status]
              /\ e.op # "approve" => e.row.returned = line'[e.at].returned
              /\ e.op = "approve" => e.row.returned = line'[e.at].returned + e.n
              /\ e.row.returned <= Bought[e.at]
          BY <3>1, <4>1, <4>2 DEF Written
        <4> QED
          BY <4>3 DEF Written, e
      <3>6. Derived(call[d])'
        BY <3>2 DEF Derived, Aside
      <3> QED
        BY <3>4, <3>5, <3>6 DEF Knows
    <2> QED
      BY <2>1, <2>2
  <1>4. Locks'
    <2> SUFFICES ASSUME NEW a \in Calls, NEW b \in Calls, InTransaction(a)', InTransaction(b)',
                        call'[a].at = call'[b].at
                 PROVE  a = b
      BY DEF Locks
    <2>1. a # c /\ b # c
      BY <1>1 DEF InTransaction
    <2>2. Aside(call[a], call'[a]) /\ Aside(call[b], call'[b])
      BY <1>1, <2>1
    <2>3. InTransaction(a) /\ InTransaction(b) /\ call[a].at = call[b].at
      BY <2>2 DEF InTransaction, Aside
    <2> QED
      BY <2>3 DEF IInv, Locks
  <1>5. BusyHasACause'
    <2> SUFFICES ASSUME page.busy
                 PROVE  \E d \in Calls : call'[d].by = "page" /\ call'[d].op # "load"
      BY DEF BusyHasACause
    <2>1. PICK d \in Calls : call[d].by = "page" /\ call[d].op # "load"
      BY DEF IInv, BusyHasACause
    <2>2. CASE d = c
      BY <1>1, <2>1, <2>2
    <2>3. CASE d # c
      <3>1. Aside(call[d], call'[d])
        BY <1>1, <2>3
      <3> QED
        BY <2>1, <3>1 DEF Aside
    <2> QED
      BY <2>2, <2>3
  <1>6. CacheOnlyStaleByRace'
    BY <1>1 DEF CacheOnlyStaleByRace
  <1>7. PageInv' /\ TypedPage(page)'
    BY DEF IInv, TypeOK, TypedPage, PageInv, Listed
  <1> QED
    BY <1>1, <1>2, <1>3, <1>4, <1>5, <1>6, <1>7

LEMMA SetsOrderKeeps ==
    ASSUME IInv, NEW c \in Calls, NEW to \in OrderStatus, SetsOrder(c, to),
           UNCHANGED <<line, ret, cache, page>>
    PROVE  IInv'
  <1>1. /\ DOMAIN call' = Calls /\ \A d \in Calls : TypedCall(call'[d])
        /\ CallInv' /\ Locks' /\ BusyHasACause' /\ CacheOnlyStaleByRace' /\ PageInv'
        /\ TypedPage(page)'
    BY AfterCommit DEF SetsOrder, Kept
  <1>2. TypedHist(hist) /\ hist' = [hist EXCEPT !.lag = TRUE] /\ order' = to
    BY DEF IInv, TypeOK, SetsOrder
  <1>3. TypedHist(hist') /\ hist'.lag /\ hist'.restocked = hist.restocked
    BY <1>2 DEF TypedHist
  <1>4. TypedHist(hist)'
    BY <1>3 DEF TypedHist
  <1>5. TypeOK'
    BY <1>1, <1>2, <1>4 DEF IInv, TypeOK, TypedCall
  <1>6. UnitsInv' /\ StatusFollowsLines'
    BY <1>3 DEF IInv, UnitsInv, StatusFollowsLines
  <1> QED
    BY <1>1, <1>5, <1>6 DEF IInv
LEMMA LeavesOrderKeeps ==
    ASSUME IInv, NEW c \in Calls, NEW pc \in {"forget", "ok", "failed"}, LeavesOrder(c, pc),
           UNCHANGED <<line, ret, page>>, cache' \in {None, cache}, call[c].pc # "forget"
    PROVE  IInv'
  <1>1. /\ ret' \in [Keys -> Return \cup {None}] /\ cache' \in Detail \cup {None}
        /\ TypedHist(hist)' /\ line' \in [Lines -> Row] /\ hist' = hist /\ order' = order
        /\ Replies(c, pc) /\ Kept
    BY DEF IInv, TypeOK, TypedHist, LeavesOrder, Kept
  <1>2. \A l \in Lines : line'[l].status = line[l].status /\ line'[l].returned = line[l].returned
    OBVIOUS
  <1> QED
    BY <1>1, <1>2, Answering

LEMMA OrderKeeps ==
    ASSUME IInv, NEW c \in Calls,
           \/ CheckShip(c) \/ WriteShip(c) \/ CheckDeliver(c) \/ WriteDeliver(c)
           \/ CheckCancel(c) \/ WriteCancel(c) \/ Retry(c) \/ Resolve(c)
    PROVE  IInv'
  <1>1. {"shipped", "delivered", "cancelled", "payment_pending"} \subseteq OrderStatus
    BY DEF OrderStatus, PreFulfilment
  <1>2. CASE CheckShip(c)
    <2>1. CASE Replies(c, "failed") /\ cache' = None
      BY <1>2, <2>1, LeavesOrderKeeps DEF CheckShip, LeavesOrder
    <2>2. CASE Goes(c, "write") /\ UNCHANGED cache
      BY <1>2, <2>2, GoesOn DEF CheckShip
    <2> QED
      BY <1>2, <2>1, <2>2 DEF CheckShip
  <1>3. CASE WriteShip(c)
    <2>1. CASE LeavesOrder(c, "failed") /\ cache' = None
      BY <1>3, <2>1, LeavesOrderKeeps DEF WriteShip
    <2>2. CASE SetsOrder(c, "shipped") /\ UNCHANGED cache
      BY <1>1, <1>3, <2>2, SetsOrderKeeps DEF WriteShip
    <2>3. CASE LeavesOrder(c, "forget") /\ UNCHANGED cache
      BY <1>3, <2>3, LeavesOrderKeeps DEF WriteShip
    <2> QED
      BY <1>3, <2>1, <2>2, <2>3 DEF WriteShip
  <1>4. CASE CheckDeliver(c)
    BY <1>4, GoesOn, QuietAnswer DEF CheckDeliver
  <1>5. CASE WriteDeliver(c)
    <2>1. CASE SetsOrder(c, "delivered")
      BY <1>1, <1>5, <2>1, SetsOrderKeeps DEF WriteDeliver
    <2>2. CASE LeavesOrder(c, "forget")
      BY <1>5, <2>2, LeavesOrderKeeps DEF WriteDeliver
    <2> QED
      BY <1>5, <2>1, <2>2 DEF WriteDeliver
  <1>6. CASE CheckCancel(c)
    <2>1. Replies(c, "ok") \/ Replies(c, "failed") \/ Goes(c, "write")
      BY <1>6 DEF CheckCancel
    <2> QED
      BY <1>6, <2>1, GoesOn, QuietAnswer DEF CheckCancel
  <1>7. CASE WriteCancel(c)
    <2>1. CASE SetsOrder(c, "cancelled")
      BY <1>1, <1>7, <2>1, SetsOrderKeeps DEF WriteCancel
    <2>2. CASE LeavesOrder(c, "ok") \/ LeavesOrder(c, "failed")
      BY <1>7, <2>2, LeavesOrderKeeps DEF WriteCancel
    <2> QED
      BY <1>7, <2>1, <2>2 DEF WriteCancel
  <1>8. CASE Retry(c) \/ Resolve(c)
    <2>1. PICK op \in {"retry", "resolve"} : Recover(c, op)
      BY <1>8 DEF Retry, Resolve
    <2>2. RecoveredTo(op) \in OrderStatus
      BY <1>1 DEF RecoveredTo
    <2>3. CASE SetsOrder(c, RecoveredTo(op))
      BY <2>1, <2>2, <2>3, SetsOrderKeeps DEF Recover
    <2>4. CASE LeavesOrder(c, "failed")
      BY <2>1, <2>4, LeavesOrderKeeps DEF Recover
    <2> QED
      BY <2>1, <2>3, <2>4 DEF Recover
  <1> QED
    BY <1>2, <1>3, <1>4, <1>5, <1>6, <1>7, <1>8

\* The commit of a move, a pickup or an approved return: the line changes while no other
\* transaction holds it, and the status written is that of the lines as they are then,
\* unless another commit crossed.
LEMMA CommitKeeps ==
    ASSUME IInv, NEW c \in Calls, Commit(c)
    PROVE  IInv'
  <1> DEFINE q == call[c]
             l == q.at
             writes == q.to # q.seen
  <1>1. /\ TypedCall(q) /\ Targets(q) /\ Written(q) /\ Derived(q) /\ TypedHist(hist)
        /\ line \in [Lines -> Row] /\ order \in OrderStatus
    BY DEF IInv, TypeOK, CallInv, Knows
  <1>2. /\ q.pc = "commit" /\ page' = page /\ cache' = cache
        /\ line' = [line EXCEPT ![l] = q.row]
        /\ order' = IF writes THEN q.to ELSE order
        /\ ret' = IF q.op = "approve" THEN [ret EXCEPT ![q.key].status = "approved"] ELSE ret
        /\ hist' = [hist EXCEPT !.lag = q.crossed \/ (hist.lag /\ q.seen \in PreFulfilment),
                                !.restocked[l] = IF q.op = "approve" THEN @ + q.n ELSE @]
        /\ call' = Marked(c, [call EXCEPT ![c] = Rest(q, "forget")])
    BY DEF Commit
  <1>3. /\ l \in Lines /\ q.row \in Row /\ q.row # None /\ q.n \in Nat
        /\ q.op \in {"move", "confirm", "approve"}
    BY <1>1, <1>2, StartsAssumption DEF Written, TypedCall
  <1>4. \A d \in Calls \ {c} : InTransaction(d) => line'[call[d].at] = line[call[d].at]
    BY <1>1, <1>2, <1>3 DEF IInv, Locks, InTransaction
  <1>8. ret' \in [Keys -> Return \cup {None}] /\ Kept
    <2>1. ret \in [Keys -> Return \cup {None}]
      BY DEF IInv, TypeOK
    <2>2. CASE q.op = "approve"
      <3>1. q.key \in Keys /\ ret[q.key] # None
        BY <1>1, <1>2, <2>2 DEF Targets, Works, ReturnOps
      <3>2. [ret[q.key] EXCEPT !.status = "approved"] \in Return
        BY <2>1, <2>2, <3>1 DEF Return
      <3>3. ret' = [ret EXCEPT ![q.key] = [ret[q.key] EXCEPT !.status = "approved"]]
        BY <1>2, <2>2
      <3> QED
        BY <2>1, <3>1, <3>2, <3>3, StartsAssumption DEF Kept
    <2>3. CASE q.op # "approve"
      BY <1>2, <2>1, <2>3 DEF Kept
    <2> QED
      BY <2>2, <2>3
  <1>5. /\ DOMAIN call' = Calls /\ \A d \in Calls : TypedCall(call'[d])
        /\ CallInv' /\ Locks' /\ BusyHasACause' /\ CacheOnlyStaleByRace' /\ PageInv'
        /\ TypedPage(page)'
    BY <1>2, <1>4, <1>8, AfterCommit
  <1>6. line' \in [Lines -> Row]
    BY <1>1, <1>2, <1>3
  <1>7. order' \in OrderStatus
    BY <1>1, <1>2 DEF IInv, CallInv, Knows, Checked
  <1>9. hist'.lag = (q.crossed \/ (hist.lag /\ q.seen \in PreFulfilment))
        /\ hist'.restocked = [hist.restocked EXCEPT ![l] = IF q.op = "approve" THEN @ + q.n ELSE @]
        /\ TypedHist(hist')
    BY <1>1, <1>2, <1>3 DEF TypedHist, TypedCall
  <1>10. TypedHist(hist)'
    BY <1>9 DEF TypedHist
  <1>11. TypeOK'
    BY <1>1, <1>2, <1>5, <1>6, <1>7, <1>8, <1>10 DEF IInv, TypeOK, TypedCall
  <1>12. UnitsInv'
    <2> SUFFICES ASSUME NEW k \in Lines
                 PROVE  line'[k].returned = hist'.restocked[k] /\ line'[k].returned <= Bought[k]
      BY DEF UnitsInv
    <2>1. line[k].returned = hist.restocked[k] /\ line[k].returned <= Bought[k]
      BY DEF IInv, UnitsInv
    <2>2. CASE k # l
      BY <1>1, <1>2, <1>3, <1>9, <2>1, <2>2 DEF TypedHist
    <2>3. CASE k = l
      <3>1. line'[k] = q.row /\ q.row.returned <= Bought[k]
        BY <1>1, <1>2, <1>3, <2>3 DEF Written
      <3>2. q.row.returned = IF q.op = "approve" THEN line[k].returned + q.n ELSE line[k].returned
        BY <1>1, <1>2, <2>3 DEF Written
      <3>3. hist'.restocked[k] = IF q.op = "approve" THEN hist.restocked[k] + q.n
                                 ELSE hist.restocked[k]
        BY <1>1, <1>9, <2>3 DEF TypedHist
      <3> QED
        BY <2>1, <3>1, <3>2, <3>3
    <2> QED
      BY <2>2, <2>3
  <1>13. StatusFollowsLines'
    <2>1. CASE q.crossed
      BY <1>9, <2>1 DEF StatusFollowsLines
    <2>2. CASE ~q.crossed /\ q.seen \in PreFulfilment
      <3>1. q.to = q.seen /\ q.seen = order
        BY <1>1, <1>2, <2>2 DEF Derived
      <3> QED
        BY <1>2, <2>2, <3>1 DEF StatusFollowsLines
    <2>3. CASE ~q.crossed /\ q.seen \notin PreFulfilment
      <3>1. q.to = Recomputed(q) /\ q.seen = order
        BY <1>1, <1>2, <2>3 DEF Derived
      <3>2. order' = Recomputed(q)
        BY <1>2, <3>1
      <3>3. Seen(q) = StatusOf(line')
        BY <1>1, <1>2, <1>3 DEF Seen, StatusOf
      <3> QED
        BY <3>2, <3>3 DEF StatusFollowsLines, Recomputed, Derive
    <2> QED
      BY <2>1, <2>2, <2>3
  <1> QED
    BY <1>5, <1>11, <1>12, <1>13 DEF IInv
-----------------------------------------------------------------------------
(* ---- other clients and the page ---- *)

\* Every request that can be asked for is typed and names what it is about.
Aims(r) ==
    /\ TypedCall(r) /\ r.op # "load"
    /\ r.op \in LineOps \cup {"open"} => r.at \in Lines
    /\ r.op \in ReturnOps \cup {"open"} => r.key \in Keys

LEMMA AskedTyped ==
    ASSUME NEW op \in Ops, NEW l \in Lines \cup {None}, NEW to \in Statuses, NEW n \in Nat,
           NEW k \in Keys \cup {None}
    PROVE  /\ TypedCall(Asked(op, l, to, n, k))
           /\ Asked(op, l, to, n, k).op = op /\ Asked(op, l, to, n, k).at = l
           /\ Asked(op, l, to, n, k).key = k
  BY OrderDeskAssumption DEF Asked, TypedCall, Idle, By, Statuses, Steps

LEMMA RequestsAim ==
    ASSUME NEW r \in Requests
    PROVE  Aims(r)
  <1>1. /\ LineOps \subseteq Ops /\ ReturnOps \subseteq Ops /\ OrderOps \subseteq Ops
        /\ "open" \in Ops /\ "get" \in Ops /\ "none" \in Statuses /\ 0 \in Nat
        /\ "move" \in Ops /\ "pin" \in Ops /\ "confirm" \in Ops /\ ItemStatus \subseteq Statuses
    BY DEF Ops, LineOps, Statuses, Reads
  <1>2. MaxPins \in Nat /\ \A l \in Lines : Bought[l] \in Nat
    BY OrderDeskAssumption
  <1>3. CASE r \in {Asked("move", l, to, 0, None) : l \in Lines, to \in ItemStatus}
    <2>1. PICK l \in Lines, to \in ItemStatus : r = Asked("move", l, to, 0, None)
      BY <1>3
    <2>2. to \in Statuses
      BY <1>1
    <2> QED
      BY <1>1, <2>1, <2>2, AskedTyped DEF Aims, LineOps, ReturnOps
  <1>4. CASE r \in {Asked("pin", l, "none", 0, None) : l \in Lines}
    <2>1. PICK l \in Lines : r = Asked("pin", l, "none", 0, None)
      BY <1>4
    <2> QED
      BY <1>1, <2>1, AskedTyped DEF Aims, LineOps, ReturnOps
  <1>5. CASE r \in {Asked("confirm", l, "none", n, None) : l \in Lines, n \in 1..MaxPins}
    <2>1. PICK l \in Lines, n \in 1..MaxPins : r = Asked("confirm", l, "none", n, None)
      BY <1>5
    <2>2. n \in Nat
      BY <1>2
    <2> QED
      BY <1>1, <2>1, <2>2, AskedTyped DEF Aims, LineOps, ReturnOps
  <1>6. CASE r \in UNION {{Asked("open", l, "none", n, k) : n \in 1..Bought[l], k \in Keys}
                             : l \in Lines}
    <2>1. PICK l \in Lines : r \in {Asked("open", l, "none", n, k) : n \in 1..Bought[l], k \in Keys}
      BY <1>6
    <2>2. PICK n \in 1..Bought[l], k \in Keys : r = Asked("open", l, "none", n, k)
      BY <2>1
    <2>3. n \in Nat
      BY <1>2
    <2> QED
      BY <1>1, <2>2, <2>3, AskedTyped DEF Aims, LineOps, ReturnOps
  <1>7. CASE r \in {Asked(op, None, "none", 0, k) : op \in ReturnOps, k \in Keys}
    <2>1. PICK op \in ReturnOps, k \in Keys : r = Asked(op, None, "none", 0, k)
      BY <1>7
    <2>2. op \in Ops
      BY <1>1
    <2>3. None \in Lines \cup {None} /\ k \in Keys \cup {None}
      OBVIOUS
    <2>4. LET q == Asked(op, None, "none", 0, k)
          IN  TypedCall(q) /\ q.op = op /\ q.key = k
      BY <1>1, <2>2, <2>3, AskedTyped
    <2>5. TypedCall(r) /\ r.op = op /\ r.key = k
      BY <2>1, <2>4
    <2> QED
      BY <2>5 DEF Aims, LineOps, ReturnOps
  <1>8. CASE r \in {Asked(op, None, "none", 0, None) : op \in OrderOps}
    <2>1. PICK op \in OrderOps : r = Asked(op, None, "none", 0, None)
      BY <1>8
    <2>2. op \in Ops
      BY <1>1
    <2> QED
      BY <1>1, <2>1, <2>2, AskedTyped DEF Aims, LineOps, ReturnOps, OrderOps
  <1>9. CASE r = Get
    BY <1>1, <1>9, AskedTyped DEF Aims, Get, LineOps, ReturnOps
  <1> QED
    BY <1>3, <1>4, <1>5, <1>6, <1>7, <1>8, <1>9 DEF Requests

\* A request is sent: nothing else changes but the page.
LEMMA SendingKeeps ==
    ASSUME IInv, NEW c \in Calls, NEW by \in {"page", "client"}, NEW r, Aims(r),
           Sends(c, by, r), UNCHANGED <<line, order, ret, cache>>,
           TypedPage(page)', PageInv', page'.busy => page.busy \/ by = "page"
    PROVE  IInv'
  <1> DEFINE q == [r EXCEPT !.by = by, !.pc = "check"]
  <1>1. call[c].pc = "idle" /\ call[c].by = "nobody" /\ TypedCall(r)
    BY DEF Sends, IInv, TypeOK, TypedCall, Aims
  <1>2. /\ TypedCall(q) /\ q.by = by /\ q.pc = "check" /\ q.op = r.op /\ q.at = r.at
        /\ q.key = r.key
    BY <1>1 DEF TypedCall, By, Steps, Works, Idle
  <1>3. Becomes(c, q) /\ hist' = [hist EXCEPT !.calls = @ + 1]
    BY DEF Sends
  <1> HIDE DEF q
  <1>4. Knows(q)
    BY <1>2 DEF Aims, Knows, Targets, Written, Checked, Derived, Works
  <1>5. /\ TypedHist(hist') /\ hist'.restocked = hist.restocked /\ hist'.lag = hist.lag
        /\ hist'.late = hist.late
    BY <1>3 DEF IInv, TypeOK, TypedHist
  <1>6. TypedHist(hist)'
    BY <1>5 DEF TypedHist
  <1>7. /\ ret' \in [Keys -> Return \cup {None}] /\ cache' \in Detail \cup {None}
        /\ line' \in [Lines -> Row] /\ Kept
    BY DEF IInv, TypeOK, Kept
  <1>8. page'.busy => \/ q.by = "page" /\ q.op # "load"
                      \/ page.busy /\ ~(call[c].by = "page" /\ call[c].op # "load")
    BY <1>1, <1>2 DEF Aims
  <1> QED
    BY <1>1, <1>2, <1>3, <1>4, <1>5, <1>6, <1>7, <1>8, OneCall

LEMMA ClientKeeps ==
    ASSUME IInv, NEW c \in Calls, NEW r \in Requests, Client(c, r)
    PROVE  IInv'
  <1>1. Aims(r)
    BY RequestsAim
  <1>2. TypedPage(page)' /\ PageInv' /\ page' = page
    BY DEF IInv, TypeOK, TypedPage, PageInv, Listed, Client
  <1> QED
    BY <1>1, <1>2, SendingKeeps DEF Client

LEMMA ClickKeeps ==
    ASSUME IInv, NEW c \in Calls, Click(c)
    PROVE  IInv'
  <1>1. /\ TypedPage(page) /\ PageInv
        /\ DOMAIN page = {"detail", "shown", "busy", "menus", "dialogs", "at", "editing"}
    BY DEF IInv, TypeOK, TypedPage, Opened
  <1>2. "none" \in Statuses /\ 0 \in Nat /\ MaxPins \in Nat
    BY OrderDeskAssumption DEF Statuses
  <1>3. ASSUME NEW l \in page.menus, PickMove(c, l) \/ PickPin(c, l)
        PROVE  IInv'
    <2>1. l \in Lines /\ page.detail \in Detail
      BY <1>1 DEF TypedPage, PageInv, Listed
    <2>2. page.detail.status[l] \in ItemStatus
      BY <2>1 DEF Detail
    <2>3. PICK r : Aims(r) /\ Picks(c, l, r)
      <3>1. CASE PickMove(c, l)
        <4>1. PICK to \in MovesOffered(l) : Picks(c, l, Asked("move", l, to, 0, None))
          BY <3>1 DEF PickMove
        <4>2. to \in Statuses
          BY <2>2, <4>1 DEF MovesOffered, Transitions, ItemStatus, Statuses
        <4>3. Aims(Asked("move", l, to, 0, None))
          BY <1>2, <2>1, <4>2, AskedTyped DEF Aims, Ops, LineOps, ReturnOps
        <4> QED
          BY <4>1, <4>3
      <3>2. CASE PickPin(c, l)
        <4>1. Aims(Asked("pin", l, "none", 0, None))
          BY <1>2, <2>1, AskedTyped DEF Aims, Ops, LineOps, ReturnOps
        <4> QED
          BY <3>2, <4>1 DEF PickPin
      <3> QED
        BY <1>3, <3>1, <3>2
    <2>4. page' = [page EXCEPT !.menus = @ \ {l}, !.busy = TRUE]
      BY <2>3 DEF Picks
    <2>5. TypedPage(page)' /\ PageInv'
      BY <1>1, <2>4 DEF TypedPage, PageInv, Listed, Opened
    <2> QED
      BY <2>3, <2>5, SendingKeeps DEF Picks
  <1>4. ASSUME SubmitPickup(c)
        PROVE  IInv'
    <2>1. page' = [page EXCEPT !.busy = TRUE] /\ page.at \in Lines
      BY <1>1, <1>4 DEF SubmitPickup, OnTop, PageInv
    <2>2. PICK l \in Lines, n \in 1..MaxPins : Sends(c, "page", Asked("confirm", l, "none", n, None))
      BY <1>4, <2>1 DEF SubmitPickup
    <2>3. n \in Nat
      BY <1>2
    <2>4. Aims(Asked("confirm", l, "none", n, None))
      BY <1>2, <2>3, AskedTyped DEF Aims, Ops, LineOps, ReturnOps
    <2>5. TypedPage(page)' /\ PageInv'
      BY <1>1, <2>1 DEF TypedPage, PageInv, Listed, Opened
    <2> QED
      BY <1>4, <2>2, <2>4, <2>5, SendingKeeps DEF SubmitPickup
  <1>5. ASSUME NEW op \in OrderOps, RunOrder(c, op)
        PROVE  IInv'
    <2>1. page' = [page EXCEPT !.busy = TRUE, !.dialogs = IF op = "ship" THEN @ ELSE @ \ {op}]
      BY <1>5 DEF RunOrder
    <2>2. Aims(Asked(op, None, "none", 0, None))
      BY <1>2, AskedTyped DEF Aims, Ops, LineOps, ReturnOps, OrderOps
    <2>3. TypedPage(page)' /\ PageInv'
      BY <1>1, <2>1 DEF TypedPage, PageInv, Listed, Opened
    <2> QED
      BY <1>5, <2>2, <2>3, SendingKeeps DEF RunOrder
  <1> QED
    BY <1>3, <1>4, <1>5 DEF Click

\* A step of the page alone, or of the cache.
LEMMA AloneKeeps ==
    ASSUME IInv, UNCHANGED <<line, order, ret, call>>, cache' \in {None, cache},
           TypedPage(page)', PageInv', page'.busy => page.busy,
           hist' = hist \/ hist' = [hist EXCEPT !.calls = @ + 1]
    PROVE  IInv'
  <1>1. /\ TypedHist(hist') /\ hist'.restocked = hist.restocked /\ hist'.lag = hist.lag
        /\ hist'.late = hist.late
    BY DEF IInv, TypeOK, TypedHist
  <1>2. TypedHist(hist)'
    BY <1>1 DEF TypedHist
  <1>3. TypeOK'
    BY <1>2 DEF IInv, TypeOK, TypedCall
  <1>4. CallInv' /\ Locks'
    <2>1. \A q : (Targets(q) <=> Targets(q)') /\ (Written(q) <=> Written(q)')
                 /\ (Checked(q) <=> Checked(q)') /\ (Derived(q) <=> Derived(q)')
      <3>1. \A q : Seen(q)' = Seen(q)
        BY DEF Seen
      <3>2. \A q : Recomputed(q)' = Recomputed(q)
        BY ZenonT(30), <3>1 DEF Recomputed, Derive
      <3>3. ASSUME NEW q PROVE (Derived(q) <=> Derived(q)')
        BY <3>2 DEF Derived
      <3>4. ASSUME NEW q PROVE (Targets(q) <=> Targets(q)')
        BY DEF Targets
      <3>5. ASSUME NEW q PROVE (Written(q) <=> Written(q)') /\ (Checked(q) <=> Checked(q)')
        BY DEF Written, Checked
      <3> QED
        BY <3>3, <3>4, <3>5
    <2> QED
      BY <2>1 DEF IInv, CallInv, Locks, InTransaction, Knows
  <1>5. UnitsInv' /\ StatusFollowsLines'
    BY <1>1 DEF IInv, UnitsInv, StatusFollowsLines, Derive, StatusOf
  <1>6. CacheOnlyStaleByRace' /\ BusyHasACause'
    BY <1>1 DEF IInv, CacheOnlyStaleByRace, BusyHasACause, Current, StatusOf, ReturnedOf
  <1> QED
    BY <1>3, <1>4, <1>5, <1>6 DEF IInv

LEMMA LocalKeeps ==
    ASSUME IInv, Local
    PROVE  IInv'
  <1>1. /\ TypedPage(page) /\ PageInv
        /\ DOMAIN page = {"detail", "shown", "busy", "menus", "dialogs", "at", "editing"}
    BY DEF IInv, TypeOK, TypedPage, Opened
  <1>2. ASSUME NEW l \in Lines, ToggleMenu(l)
        PROVE  IInv'
    <2>1. /\ l \in Listed(page.detail)
          /\ page' = [page EXCEPT !.menus = IF l \in @ THEN @ \ {l} ELSE @ \cup {l}]
      BY <1>2 DEF ToggleMenu
    <2>2. TypedPage(page)' /\ PageInv' /\ page'.busy = page.busy
      BY <1>1, <2>1 DEF TypedPage, PageInv, Listed, Opened
    <2> QED
      BY <1>2, <2>2, AloneKeeps DEF ToggleMenu
  <1>3. ASSUME NEW l \in Lines, PickDialog(l)
        PROVE  IInv'
    <2>1. PICK d \in {"pickup", "return"} :
              page' = [page EXCEPT !.menus = @ \ {l}, !.busy = FALSE, !.dialogs = {d}, !.at = l]
      BY <1>3 DEF PickDialog
    <2>2. TypedPage(page)' /\ PageInv' /\ page'.busy = FALSE
      BY <1>1, <2>1 DEF TypedPage, PageInv, Listed, Opened, Dialogs
    <2> QED
      BY <1>3, <2>2, AloneKeeps DEF PickDialog
  <1>4. ASSUME NEW d \in Dialogs, CloseDialog(d)
        PROVE  IInv'
    <2>1. /\ d \in page.dialogs
          /\ page' = [page EXCEPT !.dialogs = @ \ {d}, !.at = IF d = "pin" THEN @ ELSE None]
      BY <1>4 DEF CloseDialog, OnTop
    <2>2. TypedPage(page)' /\ PageInv' /\ page'.busy = page.busy
      BY <1>1, <2>1 DEF TypedPage, PageInv, Listed, Opened
    <2> QED
      BY <1>4, <2>2, AloneKeeps DEF CloseDialog
  <1>5. ASSUME NEW op \in OrderOps, AskFirst(op)
        PROVE  IInv'
    <2>1. op \in {"cancel", "ship", "resolve"} /\ page' = [page EXCEPT !.dialogs = {op}]
      BY <1>5 DEF AskFirst
    <2>2. TypedPage(page)' /\ PageInv' /\ page'.busy = page.busy
      BY <1>1, <2>1 DEF TypedPage, PageInv, Listed, Opened, Dialogs
    <2> QED
      BY <1>5, <2>2, AloneKeeps DEF AskFirst
  <1>6. ASSUME NEW s \in {"processing", "delivered"}, ShowStatus(s)
        PROVE  IInv'
    <2>1. page' = [page EXCEPT !.shown = s]
      BY <1>6 DEF ShowStatus
    <2>2. TypedPage(page)' /\ PageInv' /\ page'.busy = page.busy
      BY <1>1, <2>1 DEF TypedPage, PageInv, Listed, Opened
    <2> QED
      BY <1>6, <2>2, AloneKeeps DEF ShowStatus
  <1>7. ASSUME NEW p \in Panels, EditPanel(p)
        PROVE  IInv'
    <2>1. page' = [page EXCEPT !.editing = IF p \in @ THEN @ \ {p} ELSE @ \cup {p}]
      BY <1>7 DEF EditPanel
    <2>2. TypedPage(page)' /\ PageInv' /\ page'.busy = page.busy
      BY <1>1, <2>1 DEF TypedPage, PageInv, Listed, Opened
    <2> QED
      BY <1>7, <2>2, AloneKeeps DEF EditPanel
  <1> QED
    BY <1>2, <1>3, <1>4, <1>5, <1>6, <1>7 DEF Local

\* The page takes the answer: it stays busy only if its handler reads the order again.
LEMMA AnsweredKeeps ==
    ASSUME IInv, NEW c \in Calls, PageAnswered(c)
    PROVE  IInv'
  <1> DEFINE q == call[c]
             again == [Get EXCEPT !.by = "page", !.pc = "check"]
             r == IF q.op \in Reads \/ Ends(q) THEN Idle ELSE again
             new == IF q.pc = "ok" /\ q.op \in Reads THEN q.dto ELSE page.detail
  <1>1. /\ TypedPage(page) /\ PageInv /\ TypedCall(q) /\ TypedHist(hist)
        /\ DOMAIN page = {"detail", "shown", "busy", "menus", "dialogs", "at", "editing"}
    BY DEF IInv, TypeOK, TypedPage, Opened
  <1>2. q.by = "page" /\ q.pc \in {"ok", "failed"} /\ page' = After(q) /\ Becomes(c, r)
    BY DEF PageAnswered
  <1>3. TypedCall(Idle) /\ Idle.pc = "idle"
    BY OrderDeskAssumption DEF Idle, TypedCall, By, Ops, Statuses, Steps
  <1>4. TypedCall(again) /\ again.by = "page" /\ again.op = "get" /\ again.pc = "check"
    BY OrderDeskAssumption
    DEF Get, Asked, Idle, TypedCall, By, Ops, Reads, Statuses, Steps, Works
  <1>5. TypedCall(r) /\ r.pc \in {"idle", "check"} /\ (r.pc = "check" => r.op = "get")
    BY <1>3, <1>4
  <1>6. Knows(r)
    <2> HIDE DEF r
    <2> QED
      BY <1>5 DEF Knows, Targets, Written, Checked, Derived, LineOps, ReturnOps, Works
  <1>7. new \in Detail \cup {None}
    BY <1>1 DEF TypedPage, TypedCall
  <1>8. /\ DOMAIN page' = DOMAIN page /\ page'.detail = new
        /\ page'.menus = page.menus \cap Listed(new)
        /\ page'.busy = (page.busy /\ ~Ends(q))
        /\ page'.dialogs \in {page.dialogs, page.dialogs \cup {"pin"}, page.dialogs \ {"pickup"},
                              page.dialogs \ {"ship"}}
        /\ q.pc = "ok" /\ q.op = "confirm" =>
              page'.dialogs = page.dialogs \ {"pickup"} /\ page'.at = None
        /\ ~(q.pc = "ok" /\ q.op = "confirm") => page'.at = page.at
    BY <1>1, <1>2 DEF After
  <1> HIDE DEF new
  <1>9. TypedPage(page') /\ page'.menus \subseteq Listed(page'.detail)
    BY <1>1, <1>7, <1>8, OrderDeskAssumption DEF TypedPage, Dialogs
  <1>10. PageInv' /\ TypedPage(page)'
    BY <1>1, <1>8, <1>9 DEF PageInv, TypedPage, Listed
  <1>11. page'.busy => \/ r.by = "page" /\ r.op # "load"
                       \/ page.busy /\ ~(q.by = "page" /\ q.op # "load")
    BY <1>4, <1>8 DEF Ends, Reads
  <1>12. /\ ret' \in [Keys -> Return \cup {None}] /\ cache' \in Detail \cup {None}
         /\ TypedHist(hist)' /\ line' \in [Lines -> Row] /\ Kept
    BY DEF IInv, TypeOK, TypedHist, Kept, PageAnswered
  <1>13. UNCHANGED <<line, order, ret, cache, hist>>
    BY DEF PageAnswered
  <1> HIDE DEF r
  <1> QED
    BY <1>2, <1>5, <1>6, <1>10, <1>11, <1>12, <1>13, OneCall
-----------------------------------------------------------------------------
(* ---- the invariant ---- *)

LEMMA InitHolds == Init => IInv
  <1> SUFFICES ASSUME Init PROVE IInv
    OBVIOUS
  <1>1. PICK s \in Starts :
            /\ line = s.line /\ order = s.order /\ ret = s.ret /\ cache = None
            /\ \/ /\ call = [d \in Calls |-> Idle]
                  /\ page = [Opened EXCEPT !.detail = Current, !.shown = order]
               \/ /\ page = Opened
                  /\ \E c \in Calls :
                        call = [[d \in Calls |-> Idle] EXCEPT
                                   ![c] = [Idle EXCEPT !.by = "page", !.op = "load", !.pc = "check"]]
            /\ hist = [restocked |-> [l \in Lines |-> 0], lag |-> FALSE, late |-> FALSE,
                       calls |-> 0, fails |-> 0]
    BY DEF Init
  <1>2. /\ line \in [Lines -> Row] /\ order \in OrderStatus
        /\ ret \in [Keys -> Return \cup {None}] /\ \A l \in Lines : line[l].returned = 0
        /\ order \in PreFulfilment \/ order = Derive(StatusOf(line))
    <2>1. /\ s.line \in [Lines -> Row] /\ s.order \in OrderStatus
          /\ s.ret \in [Keys -> Return \cup {None}] /\ \A l \in Lines : s.line[l].returned = 0
          /\ s.order \in PreFulfilment \/ s.order = Derive(StatusOf(s.line))
      BY StartsAssumption
    <2>2. line = s.line /\ order = s.order /\ ret = s.ret
      BY <1>1
    <2> QED
      BY <2>1, <2>2
  <1>3. Current \in Detail
    BY <1>2 DEF Current, Detail, StatusOf, ReturnedOf, Row
  <1>4. TypedHist(hist) /\ hist.restocked = [l \in Lines |-> 0]
    BY <1>1 DEF TypedHist
  <1>5. TypedPage(page) /\ PageInv /\ page.busy = FALSE
    <2>1. CASE page = Opened
      BY <2>1 DEF TypedPage, PageInv, Opened, Listed
    <2>2. CASE page = [Opened EXCEPT !.detail = Current, !.shown = order]
      <3>1. DOMAIN page = DOMAIN Opened
        BY <2>2
      <3>2. page.detail = Current /\ page.menus = {} /\ page.busy = FALSE
        BY <2>2 DEF Opened
      <3>3. page.dialogs = {} /\ page.at = None
        BY <2>2 DEF Opened
      <3> QED
        BY <1>3, <3>1, <3>2, <3>3 DEF TypedPage, PageInv
    <2> QED
      BY <1>1, <2>1, <2>2
  <1>6. DOMAIN call = Calls /\ \A d \in Calls : TypedCall(call[d]) /\ Knows(call[d])
                                                  /\ call[d].pc \in {"idle", "check"}
    <2>1. TypedCall(Idle) /\ Idle.pc = "idle"
      BY OrderDeskAssumption DEF Idle, TypedCall, By, Ops, Statuses, Steps
    <2> DEFINE load == [Idle EXCEPT !.by = "page", !.op = "load", !.pc = "check"]
    <2>2. TypedCall(load) /\ load.pc = "check" /\ load.op = "load"
      BY <2>1 DEF Idle, TypedCall, By, Ops, Reads, Steps, Works
    <2>3. Knows(Idle)
      BY <2>1 DEF Knows, Targets, Written, Checked, Derived, Works
    <2>4. DOMAIN call = Calls /\ \A d \in Calls : call[d] \in {Idle, load}
      <3>1. \/ call = [d \in Calls |-> Idle]
            \/ \E c \in Calls : call = [[d \in Calls |-> Idle] EXCEPT ![c] = load]
        BY <1>1
      <3> QED
        BY <3>1
    <2> HIDE DEF load
    <2>5. Knows(load)
      BY <2>2 DEF Knows, Targets, Written, Checked, Derived, Works, LineOps, ReturnOps
    <2> QED
      BY <2>1, <2>2, <2>3, <2>4, <2>5
  <1>7. TypeOK
    BY <1>1, <1>2, <1>4, <1>5, <1>6 DEF TypeOK
  <1>8. CallInv /\ Locks
    BY <1>6 DEF CallInv, Locks, InTransaction
  <1>9. UnitsInv
    BY <1>2, <1>4, OrderDeskAssumption DEF UnitsInv
  <1>10. StatusFollowsLines /\ CacheOnlyStaleByRace /\ BusyHasACause
    BY <1>1, <1>2, <1>5 DEF StatusFollowsLines, CacheOnlyStaleByRace, BusyHasACause
  <1> QED
    BY <1>5, <1>7, <1>8, <1>9, <1>10 DEF IInv

LEMMA StepKeeps == IInv /\ [Next]_vars => IInv'
  <1> SUFFICES ASSUME IInv, [Next]_vars PROVE IInv'
    OBVIOUS
  <1>1. TypedPage(page) /\ PageInv /\ cache \in Detail \cup {None}
    BY DEF IInv, TypeOK
  <1>2. ASSUME NEW c \in Calls, Serve(c)
        PROVE  IInv'
    BY <1>2, MoveKeeps, PinKeeps, ConfirmKeeps, OpenKeeps, ApproveKeeps, DecideKeeps,
       RecomputeKeeps, CommitKeeps, CacheKeeps, OrderKeeps DEF Serve
  <1>3. CASE Expire
    <2>1. TypedPage(page)' /\ PageInv'
      BY <1>1, <1>3 DEF Expire, TypedPage, PageInv, Listed
    <2> QED
      BY <1>3, <2>1, AloneKeeps DEF Expire
  <1>4. CASE UNCHANGED vars
    <2>1. TypedPage(page)' /\ PageInv'
      BY <1>1, <1>4 DEF vars, TypedPage, PageInv, Listed
    <2> QED
      BY <1>4, <2>1, AloneKeeps DEF vars
  <1> QED
    BY <1>2, <1>3, <1>4, ClickKeeps, AnsweredKeeps, ClientKeeps, LocalKeeps DEF Next

\* What every request and the page know holds of every state.
THEOREM Invariance == Spec => []IInv
  <1> QED
    BY InitHolds, StepKeeps, PTL DEF Spec
-----------------------------------------------------------------------------
(* ---- theorems ---- *)

\* Every variable keeps its type, the requests under way included, whatever the handlers,
\* the other clients and the page do.
THEOREM TypeCorrect == Spec => []TypeOK
  BY Invariance, PTL DEF IInv

\* Two transactions have never both written the same line: what a handler wrote and has
\* not committed is not overwritten by another one.
THEOREM LinesAreLocked == Spec => []Locks
  BY Invariance, PTL DEF IInv

\* The units counted as returned on a line are those announced for restocking and at most
\* those bought, however approvals of its returns interleave, fail and are repeated.
THEOREM UnitsAreBounded == Spec => []UnitsInv
  BY Invariance, PTL DEF IInv

\* The order's status is the one its lines stand for, but for the exceptions that
\* StatusFollowsLines names.
THEOREM StatusIsDerived == Spec => []StatusFollowsLines
  BY Invariance, PTL DEF IInv

\* A cached detail differs from what is stored only if a drop is still to come or has
\* failed, or a read was overtaken before it filled the cache.
THEOREM CacheIsCurrent == Spec => []CacheOnlyStaleByRace
  BY Invariance, PTL DEF IInv

\* The page is never disabled without a request of one of its handlers under way.
THEOREM PageIsFreed == Spec => []BusyHasACause
  BY Invariance, PTL DEF IInv

\* Only a commit moves a line, and it moves it along the table from the status the line has
\* when it commits, not from the one its handler read.
THEOREM LinesMoveAlongTable == Spec => LinesFollowTable
  <1> DEFINE Along == \A l \in Lines : line'[l].status # line[l].status =>
                                          line'[l].status \in Transitions[line[l].status]
  <1>1. IInv /\ [Next]_vars => Along
    <2> SUFFICES ASSUME IInv, [Next]_vars PROVE Along
      OBVIOUS
    <2>1. line \in [Lines -> Row]
      BY DEF IInv, TypeOK
    <2>2. ASSUME NEW c \in Calls, Commit(c)
          PROVE  Along
      <3>1. Written(call[c]) /\ call[c].pc = "commit"
        BY <2>2 DEF IInv, CallInv, Knows, Commit
      <3>2. line' = [line EXCEPT ![call[c].at] = call[c].row]
        BY <2>2 DEF Commit
      <3> QED
        BY <2>1, <3>1, <3>2 DEF Written
    <2>3. ASSUME NEW c \in Calls, WritePin(c)
          PROVE  Along
      <3>1. line' \in {line, [line EXCEPT ![call[c].at].pin = @ + 1]}
        BY <2>3 DEF WritePin
      <3> QED
        BY <2>1, <3>1 DEF Row
    <2>4. CASE line' = line
      BY <2>4
    <2>5. \/ line' = line
          \/ \E c \in Calls : Commit(c) \/ WritePin(c)
      <3>1. ASSUME NEW c \in Calls, Serve(c), ~Commit(c), ~WritePin(c)
            PROVE  line' = line
        BY <3>1
        DEF Serve, CheckMove, WriteMove, CheckPin, CheckConfirm, WriteConfirm, CheckOpen,
            WriteOpen, CheckApprove, WriteApprove, Reject, Complete, Decide, ReadStatus,
            ReadLines, Forget, ForgetFails, CheckShip, WriteShip, CheckDeliver, WriteDeliver,
            CheckCancel, WriteCancel, Retry, Resolve, Recover, GetCached, GetRows, GetFill, Fail
      <3>2. ASSUME NEW c \in Calls, Click(c) \/ PageAnswered(c)
            PROVE  line' = line
        BY <3>2 DEF Click, PickMove, PickPin, Picks, SubmitPickup, RunOrder, PageAnswered
      <3>3. ASSUME NEW c \in Calls, NEW r \in Requests, Client(c, r)
            PROVE  line' = line
        BY <3>3 DEF Client
      <3>4. Local \/ Expire => line' = line
        BY DEF Local, ToggleMenu, PickDialog, CloseDialog, AskFirst, ShowStatus, EditPanel, Expire
      <3> QED
        BY <3>1, <3>2, <3>3, <3>4 DEF Next, vars
    <2> QED
      BY <2>2, <2>3, <2>4, <2>5
  <1> QED
    BY <1>1, Invariance, PTL DEF Spec, LinesFollowTable
-----------------------------------------------------------------------------
(* ---- the sum of units that UnitsAgree takes ---- *)

\* The element a sum takes first.
First(T) == CHOOSE x \in T : TRUE

\* g is the sum of the units of every subset of S.
Sums(g, r, S) ==
    g = [T \in SUBSET S |-> IF T = {} THEN 0 ELSE r[First(T)].units + g[T \ {First(T)}]]

Total(r, S) == MapThenSumSet(LAMBDA k : r[k].units, S)

LEMMA TotalIs ==
    ASSUME NEW r, NEW S
    PROVE  Total(r, S) = (CHOOSE g : Sums(g, r, S))[S]
  BY DEF Total, MapThenSumSet, MapThenFoldSet, Sums, First

\* Of the subsets of a finite set, some of them, one has none of the others below it.
LEMMA LeastSubset ==
    ASSUME NEW S, IsFiniteSet(S), NEW T \in SUBSET SUBSET S, T # {}
    PROVE  \E x \in T : \A y \in SUBSET x : y # x => y \notin T
  <1>1. IsWellFoundedOn(StrictSubsetOrdering(S), SUBSET S)
    BY FS_StrictSubsetOrderingWellFounded, FS_FiniteSubsetsOfFinite
  <1>2. PICK x \in T : \A y \in T : ~(<<y, x>> \in StrictSubsetOrdering(S))
    BY <1>1, WFMin
  <1>3. \A y \in SUBSET x : y # x => y \notin T
    BY <1>2 DEF StrictSubsetOrdering
  <1> QED
    BY <1>3

LEMMA SumsStep ==
    ASSUME NEW r, NEW S, NEW g, Sums(g, r, S)
    PROVE  /\ g[{}] = 0
           /\ \A T \in SUBSET S : T # {} =>
                /\ First(T) \in T
                /\ g[T] = r[First(T)].units + g[T \ {First(T)}]
  <1>1. \A T \in SUBSET S :
          g[T] = IF T = {} THEN 0 ELSE r[First(T)].units + g[T \ {First(T)}]
    BY Zenon DEF Sums
  <1>2. \A T : T # {} => First(T) \in T
    BY DEF First
  <1> QED
    BY <1>1, <1>2

\* Sums over the same units agree, whatever else they sum.
LEMMA SumsAgree ==
    ASSUME NEW r, NEW q, NEW S, NEW R, NEW g, NEW h, Sums(g, r, S), Sums(h, q, R),
           NEW V, IsFiniteSet(V), V \subseteq S, V \subseteq R,
           \A x \in V : r[x].units = q[x].units
    PROVE  g[V] = h[V]
  <1>0. \A U \in SUBSET V : U # {} =>
          /\ First(U) \in U
          /\ g[U] = r[First(U)].units + g[U \ {First(U)}]
          /\ h[U] = q[First(U)].units + h[U \ {First(U)}]
    <2>1. \A U \in SUBSET V : U \in SUBSET S /\ U \in SUBSET R
      OBVIOUS
    <2> QED
      BY <2>1, SumsStep
  <1> DEFINE Bad == {T \in SUBSET V : g[T] # h[T]}
  <1> SUFFICES ASSUME Bad # {} PROVE FALSE
    OBVIOUS
  <1>1. PICK T \in Bad : \A y \in SUBSET T : y # T => y \notin Bad
    <2>1. Bad \in SUBSET SUBSET V
      OBVIOUS
    <2> HIDE DEF Bad
    <2> QED
      BY <2>1, LeastSubset
  <1>2. T \in SUBSET S /\ T \in SUBSET R /\ T \subseteq V /\ g[T] # h[T]
    OBVIOUS
  <1>3. T # {}
    BY <1>2, SumsStep
  <1> DEFINE x == First(T)
  <1>4. /\ x \in T /\ g[T] = r[x].units + g[T \ {x}]
        /\ h[T] = q[x].units + h[T \ {x}]
    BY <1>0, <1>2, <1>3
  <1> HIDE DEF x
  <1>5. g[T \ {x}] = h[T \ {x}]
    BY <1>1, <1>2, <1>4
  <1> QED
    BY <1>2, <1>4, <1>5

LEMMA SumsExist ==
    ASSUME NEW r, NEW S, IsFiniteSet(S)
    PROVE  \E g : Sums(g, r, S)
  <1> DEFINE Bad == {T \in SUBSET S : ~\E g : Sums(g, r, T)}
  <1> SUFFICES ASSUME Bad # {} PROVE FALSE
    OBVIOUS
  <1>1. PICK T \in Bad : \A y \in SUBSET T : y # T => y \notin Bad
    <2>1. Bad \in SUBSET SUBSET S
      OBVIOUS
    <2> HIDE DEF Bad
    <2> QED
      BY <2>1, LeastSubset
  <1>2. T \in SUBSET S /\ ~\E g : Sums(g, r, T)
    OBVIOUS
  <1> DEFINE h(U) == CHOOSE g : Sums(g, r, U)
  <1>3. \A U \in SUBSET T : U # T => Sums(h(U), r, U)
    <2> SUFFICES ASSUME NEW U \in SUBSET T, U # T
                 PROVE  \E g : Sums(g, r, U)
      OBVIOUS
    <2>1. U \in SUBSET S /\ U \notin Bad
      BY <1>1, <1>2
    <2> QED
      BY <2>1
  <1> DEFINE top == IF T = {} THEN 0
                    ELSE r[First(T)].units + h(T \ {First(T)})[T \ {First(T)}]
             f == [U \in SUBSET T |-> IF U = T THEN top ELSE h(U)[U]]
  <1> HIDE DEF Bad, h
  <1>4. ASSUME NEW U \in SUBSET T
        PROVE  f[U] = IF U = {} THEN 0 ELSE r[First(U)].units + f[U \ {First(U)}]
    <2>1. CASE U = {}
      <3>1. CASE T = {}
        BY <2>1, <3>1
      <3>2. CASE T # {}
        <4>1. Sums(h({}), r, {})
          BY <1>3, <2>1, <3>2
        <4>2. h({})[{}] = 0
          BY <4>1, SumsStep
        <4> QED
          BY <2>1, <3>2, <4>2
      <3> QED
        BY <3>1, <3>2
    <2>2. CASE U # {}
      <3> DEFINE x == First(U)
      <3>1. x \in U
        BY <2>2 DEF First
      <3> DEFINE W == U \ {x}
      <3>2. W \in SUBSET T /\ W # T /\ W \subseteq U
        BY <3>1
      <3>3. f[W] = h(W)[W] /\ Sums(h(W), r, W)
        <4> HIDE DEF W
        <4> QED
          BY <1>3, <3>2
      <3>4. CASE U = T
        <4>1. f[U] = r[x].units + h(W)[W]
          BY <2>2, <3>4
        <4> HIDE DEF f
        <4> QED
          BY <2>2, <3>3, <4>1
      <3>5. CASE U # T
        <4>1. Sums(h(U), r, U) /\ f[U] = h(U)[U]
          BY <1>3, <3>5
        <4>2. h(U)[U] = r[x].units + h(U)[W]
          BY <2>2, <4>1, SumsStep
        <4>3. IsFiniteSet(W)
          BY <1>2, <3>2, FS_Subset
        <4> HIDE DEF W, x, f
        <4>4. h(U)[W] = h(W)[W]
          BY <3>2, <3>3, <4>1, <4>3, SumsAgree
        <4> QED
          BY <2>2, <3>3, <4>1, <4>2, <4>4 DEF W, x
      <3> QED
        BY <3>4, <3>5
    <2> QED
      BY <2>1, <2>2
  <1>5. f = [U \in SUBSET T |-> f[U]]
    OBVIOUS
  <1> HIDE DEF f
  <1>6. Sums(f, r, T)
    BY <1>4, <1>5 DEF Sums
  <1> QED
    BY <1>2, <1>6

LEMMA SumsNat ==
    ASSUME NEW r, NEW S, IsFiniteSet(S), NEW g, Sums(g, r, S), \A x \in S : r[x].units \in Nat
    PROVE  \A T \in SUBSET S : g[T] \in Nat
  <1>0. /\ g[{}] = 0
        /\ \A T \in SUBSET S : T # {} =>
             /\ First(T) \in T
             /\ g[T] = r[First(T)].units + g[T \ {First(T)}]
    BY SumsStep
  <1> DEFINE Bad == {T \in SUBSET S : g[T] \notin Nat}
  <1> SUFFICES ASSUME Bad # {} PROVE FALSE
    OBVIOUS
  <1>1. PICK T \in Bad : \A y \in SUBSET T : y # T => y \notin Bad
    <2>1. Bad \in SUBSET SUBSET S
      OBVIOUS
    <2> HIDE DEF Bad
    <2> QED
      BY <2>1, LeastSubset
  <1>2. T \in SUBSET S /\ g[T] \notin Nat
    OBVIOUS
  <1>3. T # {}
    <2> SUFFICES ASSUME T = {} PROVE FALSE
      OBVIOUS
    <2>1. g[T] = 0
      BY <1>0
    <2> QED
      BY <1>2, <2>1
  <1> DEFINE x == First(T)
  <1>4. x \in T /\ g[T] = r[x].units + g[T \ {x}]
    BY <1>0, <1>2, <1>3
  <1> HIDE DEF x
  <1>5. g[T \ {x}] \in Nat /\ r[x].units \in Nat
    BY <1>1, <1>2, <1>4
  <1> QED
    BY <1>2, <1>4, <1>5

\* The order in which a sum takes its elements makes no difference.
LEMMA SumsAny ==
    ASSUME NEW r, NEW S, IsFiniteSet(S), NEW g, Sums(g, r, S), \A x \in S : r[x].units \in Nat
    PROVE  \A T \in SUBSET S : \A y \in T : g[T] = r[y].units + g[T \ {y}]
  <1>0. /\ g[{}] = 0
        /\ \A T \in SUBSET S : T # {} =>
             /\ First(T) \in T
             /\ g[T] = r[First(T)].units + g[T \ {First(T)}]
    BY SumsStep
  <1> DEFINE Bad == {T \in SUBSET S : \E y \in T : g[T] # r[y].units + g[T \ {y}]}
  <1> SUFFICES ASSUME Bad # {} PROVE FALSE
    OBVIOUS
  <1>1. PICK T \in Bad : \A y \in SUBSET T : y # T => y \notin Bad
    <2>1. Bad \in SUBSET SUBSET S
      OBVIOUS
    <2> HIDE DEF Bad
    <2> QED
      BY <2>1, LeastSubset
  <1>2. PICK y \in T : T \in SUBSET S /\ g[T] # r[y].units + g[T \ {y}]
    OBVIOUS
  <1> DEFINE x == First(T)
  <1>3. x \in T /\ g[T] = r[x].units + g[T \ {x}]
    BY <1>0, <1>2
  <1> HIDE DEF x
  <1>4. x # y
    BY <1>2, <1>3
  <1>5. \A U \in SUBSET T : U # T => \A z \in U : g[U] = r[z].units + g[U \ {z}]
    BY <1>1, <1>2
  <1> HIDE DEF Bad
  <1>6. g[T \ {x}] = r[y].units + g[(T \ {x}) \ {y}]
    <2>1. T \ {x} \in SUBSET T /\ T \ {x} # T /\ y \in T \ {x}
      BY <1>2, <1>3, <1>4
    <2> QED
      BY <1>5, <2>1
  <1>7. g[T \ {y}] = r[x].units + g[(T \ {y}) \ {x}]
    <2>1. T \ {y} \in SUBSET T /\ T \ {y} # T /\ x \in T \ {y}
      BY <1>2, <1>3, <1>4
    <2> QED
      BY <1>5, <2>1
  <1>8. (T \ {x}) \ {y} = (T \ {y}) \ {x}
    OBVIOUS
  <1>9. r[x].units \in Nat /\ r[y].units \in Nat /\ g[(T \ {y}) \ {x}] \in Nat
    <2>1. (T \ {y}) \ {x} \in SUBSET S
      BY <1>2
    <2> QED
      BY <1>2, <1>3, <2>1, SumsNat
  <1>10. \A a, b, c \in Nat : a + (b + c) = b + (a + c)
    OBVIOUS
  <1>11. g[T] = r[x].units + (r[y].units + g[(T \ {y}) \ {x}])
    BY <1>3, <1>6, <1>8
  <1>12. r[y].units + g[T \ {y}] = r[y].units + (r[x].units + g[(T \ {y}) \ {x}])
    BY <1>7
  <1> QED
    BY <1>2, <1>9, <1>10, <1>11, <1>12

\* What the proofs use of sums.
LEMMA TotalOf ==
    ASSUME NEW r, NEW S, IsFiniteSet(S), NEW g, Sums(g, r, S), NEW V \in SUBSET S
    PROVE  Total(r, V) = g[V]
  <1>1. IsFiniteSet(V)
    BY FS_Subset
  <1>2. Sums(CHOOSE h : Sums(h, r, V), r, V)
    BY <1>1, SumsExist
  <1>3. (CHOOSE h : Sums(h, r, V))[V] = g[V]
    BY <1>1, <1>2, SumsAgree
  <1> QED
    BY <1>3, TotalIs

LEMMA TotalEmpty == ASSUME NEW r PROVE Total(r, {}) = 0
  <1>1. IsFiniteSet({})
    BY FS_EmptySet
  <1>2. PICK g : Sums(g, r, {})
    BY <1>1, SumsExist
  <1> QED
    BY <1>1, <1>2, TotalOf, SumsStep

LEMMA TotalSame ==
    ASSUME NEW r, NEW q, NEW S, IsFiniteSet(S), \A x \in S : r[x].units = q[x].units
    PROVE  Total(r, S) = Total(q, S)
  <1>1. PICK g : Sums(g, r, S)
    BY SumsExist
  <1>2. PICK h : Sums(h, q, S)
    BY SumsExist
  <1>3. g[S] = h[S]
    BY <1>1, <1>2, SumsAgree
  <1>4. Total(r, S) = g[S] /\ Total(q, S) = h[S]
    BY <1>1, <1>2, TotalOf
  <1> QED
    BY <1>3, <1>4

LEMMA TotalAdd ==
    ASSUME NEW r, NEW S, IsFiniteSet(S), NEW k, k \notin S,
           \A x \in S \cup {k} : r[x].units \in Nat
    PROVE  /\ IsFiniteSet(S \cup {k}) /\ Total(r, S) \in Nat
           /\ Total(r, S \cup {k}) = Total(r, S) + r[k].units
  <1> DEFINE T == S \cup {k}
  <1>1. IsFiniteSet(T)
    BY FS_AddElement
  <1>2. T \ {k} = S /\ S \in SUBSET T /\ T \in SUBSET T /\ k \in T
    OBVIOUS
  <1>3. \A x \in T : r[x].units \in Nat
    OBVIOUS
  <1> HIDE DEF T
  <1>4. PICK g : Sums(g, r, T)
    BY <1>1, SumsExist
  <1>5. g[T] = r[k].units + g[S]
    BY <1>1, <1>2, <1>3, <1>4, SumsAny
  <1>6. g[S] \in Nat /\ r[k].units \in Nat
    BY <1>1, <1>2, <1>3, <1>4, SumsNat
  <1>7. Total(r, T) = g[T] /\ Total(r, S) = g[S]
    BY <1>1, <1>2, <1>4, TotalOf
  <1> QED
    BY <1>1, <1>5, <1>6, <1>7 DEF T
-----------------------------------------------------------------------------
(* ---- the units of the approved returns ---- *)

\* The returns that count on a line: Taken, for any value of ret.
TakenIn(r, l) ==
    {k \in Keys : r[k] # None /\ r[k].line = l /\ r[k].status \in {"approved", "completed"}}

Writing == {"status", "lines", "commit"}

\* An approval past its check has the line and the units of its return, and once it has
\* written, the return is still pending: nobody else can decide it before the commit.
Approves(q, r) ==
    q.op = "approve" =>
        /\ q.pc \in Works \ {"check"} => q.at = r[q.key].line /\ q.n = r[q.key].units
        /\ q.pc \in Writing => r[q.key].status = "pending"

Counts(rows, r) ==
    \A l \in Lines : IsFiniteSet(TakenIn(r, l)) /\ rows[l].returned = Total(r, TakenIn(r, l))

ReturnsInv == (\A c \in Calls : Approves(call[c], ret)) /\ Counts(line, ret)

\* The same request, but for what a recomputation has read.
Alike(q, e) ==
    e.op = q.op /\ e.at = q.at /\ e.n = q.n /\ e.key = q.key /\ e.pc = q.pc

\* A request that is no approval at work, or one that only goes on with its transaction.
Onward(q, e) ==
    \/ e.op # "approve" \/ e.pc \notin Works \ {"check"}
    \/ /\ e.op = q.op /\ e.at = q.at /\ e.n = q.n /\ e.key = q.key
       /\ q.pc \in Writing /\ e.pc \in Writing

LEMMA OthersStay ==
    ASSUME IInv, NEW c \in Calls,
           \/ \E e : Becomes(c, e)
           \/ call' = Marked(c, [call EXCEPT ![c] = Rest(call[c], "forget")])
    PROVE  \A d \in Calls \ {c} : Alike(call[d], call'[d])
  <1>1. CASE \E e : Becomes(c, e)
    <2>1. PICK e : call' = [call EXCEPT ![c] = e]
      BY <1>1 DEF Becomes
    <2>2. \A d \in Calls \ {c} : call'[d] = call[d]
      BY <2>1 DEF IInv, TypeOK
    <2> QED
      BY <2>2 DEF Alike
  <1>2. CASE call' = Marked(c, [call EXCEPT ![c] = Rest(call[c], "forget")])
    BY <1>2, Crossing DEF Aside, Alike
  <1> QED
    BY <1>1, <1>2

\* An answered request is no approval at work.
LEMMA AnswerIsOnward ==
    ASSUME IInv, NEW c \in Calls, NEW pc \in {"forget", "ok", "failed"}, Replies(c, pc)
    PROVE  /\ \A d \in Calls \ {c} : Alike(call[d], call'[d])
           /\ Onward(call[c], call'[c])
  <1> DEFINE e == Rest(call[c], pc)
  <1>1. DOMAIN call = Calls /\ TypedCall(call[c])
    BY DEF IInv, TypeOK
  <1>2. e.pc \in {"idle", pc}
    BY <1>1, Answers
  <1>3. call' = [call EXCEPT ![c] = e] /\ \E x : Becomes(c, x)
    BY DEF Replies, Becomes
  <1> HIDE DEF e
  <1>4. call'[c] = e
    BY <1>1, <1>3
  <1> QED
    BY <1>2, <1>3, <1>4, OthersStay DEF Onward, Works

LEMMA CommitIsOnward ==
    ASSUME IInv, NEW c \in Calls,
           call' = Marked(c, [call EXCEPT ![c] = Rest(call[c], "forget")])
    PROVE  /\ \A d \in Calls \ {c} : Alike(call[d], call'[d])
           /\ Onward(call[c], call'[c])
  <1>1. call'[c].pc = "forget"
    BY Crossing
  <1> QED
    BY <1>1, OthersStay DEF Onward, Works

\* A request that goes on with the operation it has, which is no approval.
LEMMA StepIsOnward ==
    ASSUME IInv, NEW c \in Calls, NEW e, Becomes(c, e), Onward(call[c], e)
    PROVE  /\ \A d \in Calls \ {c} : Alike(call[d], call'[d])
           /\ Onward(call[c], call'[c])
  <1>1. DOMAIN call = Calls
    BY DEF IInv, TypeOK
  <1>2. call'[c] = e
    BY <1>1 DEF Becomes
  <1> QED
    BY <1>2, OthersStay

LEMMA GoingIsOnward ==
    ASSUME IInv, NEW c \in Calls, NEW pc, Goes(c, pc), call[c].op # "approve"
    PROVE  /\ \A d \in Calls \ {c} : Alike(call[d], call'[d])
           /\ Onward(call[c], call'[c])
  <1> DEFINE e == [call[c] EXCEPT !.pc = pc]
  <1>1. TypedCall(call[c])
    BY DEF IInv, TypeOK
  <1>2. e.op = call[c].op /\ Becomes(c, e)
    BY <1>1 DEF TypedCall, Idle, Goes
  <1> HIDE DEF e
  <1>3. Onward(call[c], e)
    BY <1>2 DEF Onward
  <1> QED
    BY <1>2, <1>3, StepIsOnward

\* Every handler but the two steps of an approval goes on like this.
LEMMA ServeIsOnward ==
    ASSUME IInv, NEW c \in Calls, Serve(c), ~CheckApprove(c), ~WriteApprove(c)
    PROVE  /\ \A d \in Calls \ {c} : Alike(call[d], call'[d])
           /\ Onward(call[c], call'[c])
  <1> DEFINE q == call[c]
             Answered == Replies(c, "forget") \/ Replies(c, "ok") \/ Replies(c, "failed")
             Committed == call' = Marked(c, [call EXCEPT ![c] = Rest(call[c], "forget")])
  <1>1. TypedCall(q)
    BY DEF IInv, TypeOK
  <1>2. CASE Answered
    BY <1>2, AnswerIsOnward
  <1>3. CASE Committed
    BY <1>3, CommitIsOnward
  <1>4. CASE \E pc : Goes(c, pc) /\ q.op # "approve"
    BY <1>4, GoingIsOnward
  <1>5. CASE \E e : Becomes(c, e) /\ Onward(q, e)
    BY <1>5, StepIsOnward
  <1>6. CASE CheckMove(c) \/ WriteMove(c)
    <2> DEFINE e == [q EXCEPT !.pc = "write", !.seen = line[q.at].status]
               f == [q EXCEPT !.pc = "status", !.row = [line[q.at] EXCEPT !.status = q.to]]
    <2>1. e.op = q.op /\ f.op = q.op
      BY <1>1 DEF TypedCall, Idle
    <2>2. CheckMove(c) => (Answered \/ Becomes(c, e)) /\ q.op = "move"
      BY DEF CheckMove
    <2>3. WriteMove(c) => (Answered \/ Becomes(c, f)) /\ q.op = "move"
      BY DEF WriteMove
    <2> HIDE DEF e, f, Answered
    <2>4. q.op = "move" => Onward(q, e) /\ Onward(q, f)
      BY <2>1 DEF Onward
    <2> QED
      BY <1>2, <1>5, <1>6, <2>2, <2>3, <2>4
  <1>7. CASE WriteConfirm(c)
    <2>1. CASE Replies(c, "failed")
      BY <1>2, <2>1
    <2>2. CASE /\ Becomes(c, [q EXCEPT !.pc = "status",
                                       !.row = [line[q.at] EXCEPT !.status = "picked_up"]])
               /\ q.op = "confirm"
      <3> DEFINE e == [q EXCEPT !.pc = "status", !.row = [line[q.at] EXCEPT !.status = "picked_up"]]
      <3>1. e.op = "confirm" /\ Becomes(c, e)
        BY <1>1, <2>2 DEF TypedCall, Idle
      <3> HIDE DEF e
      <3> QED
        BY <1>5, <3>1 DEF Onward
    <2> QED
      BY <1>7, <2>1, <2>2 DEF WriteConfirm
  <1>8. CASE ReadStatus(c)
    <2> DEFINE step == IF order \in PreFulfilment THEN "commit" ELSE "lines"
               e == [q EXCEPT !.seen = order, !.to = order, !.pc = step]
    <2>1. /\ e.op = q.op /\ e.at = q.at /\ e.n = q.n /\ e.key = q.key /\ e.pc = step
          /\ q.pc = "status" /\ Becomes(c, e)
      BY <1>1, <1>8 DEF TypedCall, Idle, ReadStatus
    <2> HIDE DEF e
    <2> QED
      BY <1>5, <2>1 DEF Onward, Writing
  <1>9. CASE ReadLines(c)
    <2> DEFINE e == [q EXCEPT !.to = Recomputed(q), !.pc = "commit"]
    <2>1. /\ e.op = q.op /\ e.at = q.at /\ e.n = q.n /\ e.key = q.key /\ e.pc = "commit"
          /\ q.pc = "lines" /\ Becomes(c, e)
      BY <1>1, <1>9 DEF TypedCall, Idle, ReadLines
    <2> HIDE DEF e
    <2> QED
      BY <1>5, <2>1 DEF Onward, Writing
  <1>10. CASE GetCached(c)
    <2> DEFINE e == [q EXCEPT !.pc = "rows"]
               a == [q EXCEPT !.dto = cache]
               f == Rest(a, "ok")
    <2>1. e.op = q.op /\ q.op \in Reads /\ (Becomes(c, e) \/ Becomes(c, f))
      BY <1>1, <1>10 DEF TypedCall, Idle, GetCached
    <2>2. TypedCall(a)
      BY <1>1 DEF TypedCall, IInv, TypeOK
    <2>3. f.pc \in {"idle", "ok"}
      <3> HIDE DEF a
      <3> QED
        BY <2>2, Answers
    <2> HIDE DEF e, f
    <2>4. Onward(q, e) /\ Onward(q, f)
      BY <2>1, <2>3 DEF Onward, Works, Reads
    <2> QED
      BY <1>5, <2>1, <2>4
  <1>11. CASE GetRows(c)
    <2> DEFINE e == [q EXCEPT !.pc = "fill", !.dto = Current]
    <2>1. e.pc = "fill" /\ Becomes(c, e)
      BY <1>1, <1>11 DEF TypedCall, Idle, GetRows
    <2> HIDE DEF e
    <2> QED
      BY <1>5, <2>1 DEF Onward, Works
  <1>12. CASE Commit(c)
    BY <1>3, <1>12 DEF Commit
  <1>13. CASE \/ CheckShip(c) \/ WriteShip(c) \/ CheckDeliver(c) \/ WriteDeliver(c)
              \/ CheckCancel(c) \/ WriteCancel(c) \/ Retry(c) \/ Resolve(c)
    <2>1. Answered \/ Committed \/ (Goes(c, "write") /\ q.op # "approve")
      <3> HIDE DEF Committed
      <3> USE DEF LeavesOrder
      <3>1. \A to : SetsOrder(c, to) => Committed
        BY DEF SetsOrder, Committed
      <3>2. CASE CheckShip(c) \/ CheckDeliver(c) \/ CheckCancel(c)
        BY <3>2 DEF CheckShip, CheckDeliver, CheckCancel
      <3>3. CASE WriteShip(c) \/ WriteDeliver(c) \/ WriteCancel(c)
        BY <3>1, <3>3 DEF WriteShip, WriteDeliver, WriteCancel
      <3>4. CASE Retry(c) \/ Resolve(c)
        BY <3>1, <3>4 DEF Retry, Resolve, Recover
      <3> QED
        BY <1>13, <3>2, <3>3, <3>4
    <2> QED
      BY <1>2, <1>3, <1>4, <2>1
  <1>14. CASE \/ CheckPin(c) \/ WritePin(c) \/ CheckConfirm(c) \/ CheckOpen(c) \/ WriteOpen(c)
              \/ Reject(c) \/ Complete(c) \/ Forget(c) \/ ForgetFails(c) \/ GetFill(c) \/ Fail(c)
    <2>1. Answered \/ (Goes(c, "write") /\ q.op # "approve")
      BY <1>14 DEF CheckPin, WritePin, CheckConfirm, CheckOpen, WriteOpen, Reject, Complete,
                   Decide, Forget, ForgetFails, GetFill, Fail
    <2> QED
      BY <1>2, <1>4, <2>1
  <1> QED
    BY <1>6, <1>7, <1>8, <1>9, <1>10, <1>11, <1>12, <1>13, <1>14 DEF Serve
-----------------------------------------------------------------------------
(* ---- what each step does to the returns ---- *)

LEMMA ApproveLasts ==
    ASSUME NEW q, NEW e, NEW r, NEW s, Alike(q, e) \/ Onward(q, e), Approves(q, r),
           q.op = "approve" /\ q.pc \in Works \ {"check"} =>
               s[q.key].line = r[q.key].line /\ s[q.key].units = r[q.key].units,
           q.op = "approve" /\ q.pc \in Writing => s[q.key].status = r[q.key].status
    PROVE  Approves(e, s)
  BY DEF Alike, Onward, Approves, Works, Writing

LEMMA CountsSame ==
    ASSUME NEW rows, NEW new, NEW r, NEW s, Counts(rows, r),
           \A l \in Lines : /\ TakenIn(s, l) = TakenIn(r, l)
                            /\ \A k \in TakenIn(r, l) : s[k].units = r[k].units
                            /\ new[l].returned = rows[l].returned
    PROVE  Counts(new, s)
  <1> SUFFICES ASSUME NEW l \in Lines
               PROVE  /\ IsFiniteSet(TakenIn(s, l))
                      /\ new[l].returned = Total(s, TakenIn(s, l))
    BY DEF Counts
  <1> DEFINE T == TakenIn(r, l)
  <1>1. IsFiniteSet(T) /\ rows[l].returned = Total(r, T) /\ TakenIn(s, l) = T
    BY DEF Counts
  <1>2. \A k \in T : s[k].units = r[k].units
    OBVIOUS
  <1> HIDE DEF T
  <1>3. Total(s, T) = Total(r, T)
    BY <1>1, <1>2, TotalSame
  <1> QED
    BY <1>1, <1>3

\* The invariant after a step, by its two parts.
LEMMA ReturnsAfter ==
    ASSUME \A d \in Calls : Approves(call'[d], ret'), Counts(line', ret')
    PROVE  ReturnsInv'
  BY DEF ReturnsInv

\* A step that leaves the returns and the counts alone.
LEMMA ReturnsRest ==
    ASSUME ReturnsInv, ret' = ret, \A l \in Lines : line'[l].returned = line[l].returned,
           \A d \in Calls : Approves(call'[d], ret)
    PROVE  ReturnsInv'
  <1>1. Counts(line', ret)
    BY CountsSame DEF ReturnsInv
  <1> QED
    BY <1>1, ReturnsAfter

LEMMA OnwardRests ==
    ASSUME ReturnsInv, ret' = ret, \A l \in Lines : line'[l].returned = line[l].returned,
           NEW c \in Calls, \A d \in Calls \ {c} : Alike(call[d], call'[d]),
           Onward(call[c], call'[c])
    PROVE  ReturnsInv'
  <1>1. ASSUME NEW d \in Calls PROVE Approves(call'[d], ret)
    <2>1. Alike(call[d], call'[d]) \/ Onward(call[d], call'[d])
      OBVIOUS
    <2>2. Approves(call[d], ret)
      BY DEF ReturnsInv
    <2> QED
      BY <2>1, <2>2, ApproveLasts
  <1> QED
    BY <1>1, ReturnsRest

LEMMA ApproveCounts ==
    ASSUME IInv, ReturnsInv, NEW c \in Calls, CheckApprove(c) \/ WriteApprove(c)
    PROVE  ReturnsInv'
  <1> DEFINE q == call[c]
             k == q.key
             e == [q EXCEPT !.pc = "write", !.at = ret[k].line, !.n = ret[k].units]
             f == [q EXCEPT !.pc = "status", !.row = Applied(line[q.at], q.n, Bought[q.at])]
  <1>1. TypedCall(q) /\ DOMAIN call = Calls /\ Approves(q, ret)
    BY DEF IInv, TypeOK, ReturnsInv
  <1>2. ret' = ret /\ line' = line
    BY DEF CheckApprove, WriteApprove
  <1>3. CASE Replies(c, "failed")
    BY <1>2, <1>3, AnswerIsOnward, OnwardRests
  <1>4. e.pc = "write" /\ e.key = k /\ e.at = ret[k].line /\ e.n = ret[k].units
    BY <1>1 DEF TypedCall, Idle
  <1>5. f.pc = "status" /\ f.key = k /\ f.at = q.at /\ f.n = q.n
    BY <1>1 DEF TypedCall, Idle
  <1>6. CheckApprove(c) => Replies(c, "failed") \/ Becomes(c, e)
    BY DEF CheckApprove
  <1>7. WriteApprove(c) => \/ Replies(c, "failed")
                           \/ /\ Becomes(c, f) /\ ret[k].status = "pending"
                              /\ q.pc = "write" /\ q.op = "approve"
    BY DEF WriteApprove, Moves
  <1> HIDE DEF e, f
  <1>8. Approves(e, ret)
    BY <1>4 DEF Approves, Writing
  <1>9. ret[k].status = "pending" /\ q.pc = "write" /\ q.op = "approve" => Approves(f, ret)
    BY <1>1, <1>5 DEF Approves, Writing, Works
  <1>10. ASSUME NEW g, Becomes(c, g), Approves(g, ret)
         PROVE  ReturnsInv'
    <2>1. call'[c] = g /\ \A d \in Calls \ {c} : call'[d] = call[d]
      BY <1>1, <1>10 DEF Becomes
    <2>2. \A d \in Calls : Approves(call'[d], ret)
      BY <1>10, <2>1 DEF ReturnsInv
    <2> QED
      BY <1>2, <2>2, ReturnsRest
  <1> QED
    BY <1>3, <1>6, <1>7, <1>8, <1>9, <1>10

LEMMA OpenCounts ==
    ASSUME IInv, ReturnsInv, NEW c \in Calls, WriteOpen(c)
    PROVE  ReturnsInv'
  <1> DEFINE k == call[c].key
             new == [status |-> "pending", line |-> call[c].at, units |-> call[c].n]
  <1>1. /\ ret \in [Keys -> Return \cup {None}] /\ call[c].op = "open" /\ line' = line
        /\ ret' = IF ret[k] # None THEN ret ELSE [ret EXCEPT ![k] = new]
        /\ Replies(c, "ok")
    BY DEF IInv, TypeOK, WriteOpen
  <1>2. /\ \A d \in Calls \ {c} : Alike(call[d], call'[d])
        /\ Onward(call[c], call'[c])
    BY <1>1, AnswerIsOnward
  <1>3. new.status = "pending"
    OBVIOUS
  <1> HIDE DEF new
  <1>4. \A x \in Keys : ret[x] # None => ret'[x] = ret[x]
    BY <1>1
  <1>5. \A x \in Keys : ret'[x] = ret[x] \/ (ret[x] = None /\ ret'[x].status = "pending")
    BY <1>1, <1>3
  <1>6. ASSUME NEW l \in Lines
        PROVE  /\ TakenIn(ret', l) = TakenIn(ret, l)
               /\ \A x \in TakenIn(ret, l) : ret'[x].units = ret[x].units
    BY <1>4, <1>5 DEF TakenIn
  <1>7. ASSUME NEW d \in Calls PROVE Approves(call'[d], ret')
    <2>1. Alike(call[d], call'[d]) \/ Onward(call[d], call'[d])
      BY <1>2
    <2>2. Approves(call[d], ret) /\ Targets(call[d])
      BY DEF ReturnsInv, IInv, CallInv, Knows
    <2>3. call[d].op = "approve" /\ call[d].pc \in Works \ {"check"} =>
              ret'[call[d].key] = ret[call[d].key]
      BY <1>4, <2>2 DEF Targets, ReturnOps, Works
    <2>4. Writing \subseteq Works \ {"check"}
      BY DEF Writing, Works
    <2> QED
      BY <2>1, <2>2, <2>3, <2>4, ApproveLasts
  <1>8. Counts(line, ret) /\ \A l \in Lines : line'[l].returned = line[l].returned
    BY <1>1 DEF ReturnsInv
  <1>9. Counts(line', ret')
    BY <1>6, <1>8, CountsSame
  <1> QED
    BY <1>7, <1>9, ReturnsAfter

\* What the update of a return's status leaves of the returns.
LEMMA StatusChanges ==
    ASSUME NEW r \in [Keys -> Return \cup {None}], NEW k \in Keys, r[k] # None,
           NEW to \in {"pending", "approved", "rejected", "completed"},
           NEW s, s = [r EXCEPT ![k].status = to]
    PROVE  /\ \A x \in Keys \ {k} : s[x] = r[x]
           /\ s[k].line = r[k].line /\ s[k].units = r[k].units /\ s[k].status = to
           /\ s[k] # None
  <1> DEFINE new == [r[k] EXCEPT !.status = to]
  <1>1. r[k] \in Return
    OBVIOUS
  <1>2. new \in Return /\ new.line = r[k].line /\ new.units = r[k].units /\ new.status = to
    BY <1>1 DEF Return
  <1>3. s = [r EXCEPT ![k] = new]
    OBVIOUS
  <1> HIDE DEF new
  <1>4. s[k] = new /\ \A x \in Keys \ {k} : s[x] = r[x]
    BY <1>3
  <1> QED
    BY <1>2, <1>4, StartsAssumption

LEMMA DecideCounts ==
    ASSUME IInv, ReturnsInv, NEW c \in Calls, Reject(c) \/ Complete(c)
    PROVE  ReturnsInv'
  <1> DEFINE k == call[c].key
  <1>1. /\ ret \in [Keys -> Return \cup {None}] /\ TypedCall(call[c]) /\ Targets(call[c])
        /\ ret' \in [Keys -> Return \cup {None}]
    <2>1. IInv'
      BY DecideKeeps
    <2> QED
      BY <2>1 DEF IInv, TypeOK, CallInv, Knows
  <1>2. PICK from, to \in {"pending", "approved", "rejected", "completed"} :
            /\ <<from, to>> \in {<<"pending", "rejected">>, <<"approved", "completed">>}
            /\ ret' = IF Moves(k, from) THEN [ret EXCEPT ![k].status = to] ELSE ret
            /\ Replies(c, "ok") \/ Replies(c, "failed")
            /\ call[c].pc = "check" /\ call[c].op \in {"reject", "complete"}
            /\ ReturnFree(c, k) /\ line' = line
    BY DEF Reject, Complete, Decide
  <1>3. /\ \A d \in Calls \ {c} : Alike(call[d], call'[d])
        /\ Onward(call[c], call'[c])
    BY <1>2, AnswerIsOnward
  <1>4. k \in Keys
    BY <1>1, <1>2 DEF Targets, Works, ReturnOps
  <1>5. CASE ~Moves(k, from)
    BY <1>2, <1>3, <1>5, OnwardRests
  <1>6. CASE Moves(k, from)
    <2>1. ret[k] # None /\ ret[k].status = from
      BY <1>6 DEF Moves
    <2>2. /\ \A x \in Keys \ {k} : ret'[x] = ret[x]
          /\ ret'[k].line = ret[k].line /\ ret'[k].units = ret[k].units /\ ret'[k].status = to
          /\ ret'[k] # None
      <3>1. ret' = [ret EXCEPT ![k].status = to]
        BY <1>2, <1>6
      <3> QED
        BY <1>1, <1>4, <2>1, <3>1, StatusChanges
    <2>3. ASSUME NEW l \in Lines
          PROVE  /\ TakenIn(ret', l) = TakenIn(ret, l)
                 /\ \A x \in TakenIn(ret, l) : ret'[x].units = ret[x].units
      <3>1. ASSUME NEW x \in Keys PROVE x \in TakenIn(ret', l) <=> x \in TakenIn(ret, l)
        BY <1>2, <2>1, <2>2 DEF TakenIn
      <3> QED
        BY <2>2, <3>1 DEF TakenIn
    <2>4. ASSUME NEW d \in Calls PROVE Approves(call'[d], ret')
      <3>1. Alike(call[d], call'[d]) \/ Onward(call[d], call'[d])
        BY <1>3
      <3>2. Approves(call[d], ret) /\ Targets(call[d])
        BY DEF ReturnsInv, IInv, CallInv, Knows
      <3>3. call[d].op = "approve" /\ call[d].pc \in Works \ {"check"} =>
                /\ ret'[call[d].key].line = ret[call[d].key].line
                /\ ret'[call[d].key].units = ret[call[d].key].units
        BY <2>2, <3>2 DEF Targets, ReturnOps, Works
      <3>4. call[d].op = "approve" /\ call[d].pc \in Writing =>
                ret'[call[d].key].status = ret[call[d].key].status
        <4> SUFFICES ASSUME call[d].op = "approve", call[d].pc \in Writing
                     PROVE  ret'[call[d].key].status = ret[call[d].key].status
          OBVIOUS
        <4>1. d # c /\ call[d].key \in Keys
          BY <1>2, <3>2 DEF Targets, ReturnOps, Works, Writing
        <4>2. call[d].key # k
          BY <1>2, <4>1 DEF ReturnFree, HoldsReturn, InTransaction, Writing
        <4> QED
          BY <2>2, <4>1, <4>2
      <3> QED
        BY <3>1, <3>2, <3>3, <3>4, ApproveLasts
    <2>5. Counts(line, ret) /\ \A l \in Lines : line'[l].returned = line[l].returned
      BY <1>2 DEF ReturnsInv
    <2>6. Counts(line', ret')
      BY <2>3, <2>5, CountsSame
    <2> QED
      BY <2>4, <2>6, ReturnsAfter
  <1> QED
    BY <1>5, <1>6

\* The commit of an approval is the one step that adds to the units of a line: those of
\* the return it approves, which was pending and is counted from now on.
LEMMA CommitCounts ==
    ASSUME IInv, ReturnsInv, NEW c \in Calls, Commit(c)
    PROVE  ReturnsInv'
  <1> DEFINE q == call[c]
             k == q.key
             l == q.at
  <1>1. /\ line \in [Lines -> Row] /\ ret \in [Keys -> Return \cup {None}]
        /\ TypedCall(q) /\ Targets(q) /\ Written(q) /\ Approves(q, ret)
    BY DEF IInv, TypeOK, CallInv, Knows, ReturnsInv
  <1>2. /\ q.pc = "commit" /\ line' = [line EXCEPT ![l] = q.row]
        /\ ret' = IF q.op = "approve" THEN [ret EXCEPT ![k].status = "approved"] ELSE ret
        /\ call' = Marked(c, [call EXCEPT ![c] = Rest(q, "forget")])
    BY DEF Commit
  <1>3. /\ \A d \in Calls \ {c} : Alike(call[d], call'[d])
        /\ Onward(call[c], call'[c]) /\ call'[c].pc = "forget"
    BY <1>2, CommitIsOnward, Crossing
  <1>4. /\ l \in Lines /\ line'[l] = q.row /\ \A m \in Lines \ {l} : line'[m] = line[m]
        /\ q.op # "approve" => q.row.returned = line[l].returned
        /\ q.op = "approve" => q.row.returned = line[l].returned + q.n
    BY <1>1, <1>2 DEF Written
  <1>5. CASE q.op # "approve"
    <2>1. ret' = ret /\ \A m \in Lines : line'[m].returned = line[m].returned
      BY <1>2, <1>4, <1>5
    <2> QED
      BY <1>3, <2>1, OnwardRests
  <1>6. CASE q.op = "approve"
    <2>1. /\ k \in Keys /\ ret[k] # None /\ ret[k].status = "pending"
          /\ l = ret[k].line /\ q.n = ret[k].units
      BY <1>1, <1>2, <1>6 DEF Targets, Approves, Works, Writing, ReturnOps
    <2>2. /\ \A x \in Keys \ {k} : ret'[x] = ret[x]
          /\ ret'[k].line = ret[k].line /\ ret'[k].units = ret[k].units
          /\ ret'[k].status = "approved" /\ ret'[k] # None
      <3>1. ret' = [ret EXCEPT ![k].status = "approved"]
        BY <1>2, <1>6
      <3> QED
        BY <1>1, <2>1, <3>1, StatusChanges
    <2>3. ASSUME NEW d \in Calls PROVE Approves(call'[d], ret')
      <3>1. CASE d = c
        BY <1>3, <3>1 DEF Approves, Works, Writing
      <3>2. CASE d # c
        <4>1. Alike(call[d], call'[d])
          BY <1>3, <3>2
        <4>2. Approves(call[d], ret) /\ Targets(call[d])
          BY DEF ReturnsInv, IInv, CallInv, Knows
        <4>3. call[d].op = "approve" /\ call[d].pc \in Works \ {"check"} =>
                  /\ ret'[call[d].key].line = ret[call[d].key].line
                  /\ ret'[call[d].key].units = ret[call[d].key].units
          BY <2>2, <4>2 DEF Targets, ReturnOps, Works
        <4>4. call[d].op = "approve" /\ call[d].pc \in Writing =>
                  ret'[call[d].key].status = ret[call[d].key].status
          <5> SUFFICES ASSUME call[d].op = "approve", call[d].pc \in Writing
                       PROVE  ret'[call[d].key].status = ret[call[d].key].status
            OBVIOUS
          <5>1. call[d].key \in Keys /\ call[d].at = ret[call[d].key].line
            BY <4>2 DEF Targets, Approves, ReturnOps, Works, Writing
          <5>2. InTransaction(d) /\ InTransaction(c)
            BY <1>2 DEF InTransaction, Writing
          <5>3. call[d].key # k
            BY <2>1, <3>2, <5>1, <5>2 DEF IInv, Locks
          <5> QED
            BY <2>2, <5>1, <5>3
        <4> QED
          BY <4>1, <4>2, <4>3, <4>4, ApproveLasts
      <3> QED
        BY <3>1, <3>2
    <2>4. ASSUME NEW m \in Lines
          PROVE  /\ IsFiniteSet(TakenIn(ret', m))
                 /\ line'[m].returned = Total(ret', TakenIn(ret', m))
      <3> DEFINE T == TakenIn(ret, m)
      <3>1. IsFiniteSet(T) /\ line[m].returned = Total(ret, T)
        BY DEF ReturnsInv, Counts
      <3>2. \A x \in T : x \in Keys /\ x # k /\ ret'[x].units = ret[x].units
        BY <2>1, <2>2 DEF TakenIn
      <3>3. CASE m = l
        <4>1. TakenIn(ret', m) = T \cup {k}
          <5>1. ASSUME NEW x \in Keys PROVE x \in TakenIn(ret', m) <=> x \in T \cup {k}
            BY <2>1, <2>2, <3>3 DEF TakenIn
          <5> QED
            BY <2>1, <5>1 DEF TakenIn
        <4>2. \A x \in T \cup {k} : ret[x].units \in Nat /\ ret'[x].units = ret[x].units
          <5>1. \A x \in T \cup {k} : x \in Keys /\ ret[x] # None
            BY <2>1 DEF TakenIn
          <5>2. \A x \in Keys : ret[x] # None => ret[x].units \in Nat
            BY <1>1 DEF Return
          <5> QED
            BY <2>2, <3>2, <5>1, <5>2
        <4>3. k \notin T
          BY <3>2
        <4>4. line'[m].returned = line[m].returned + ret[k].units
          BY <1>4, <1>6, <2>1, <3>3
        <4> HIDE DEF T
        <4>5. /\ IsFiniteSet(T \cup {k})
              /\ Total(ret, T \cup {k}) = Total(ret, T) + ret[k].units
          BY <3>1, <4>2, <4>3, TotalAdd
        <4>6. Total(ret', T \cup {k}) = Total(ret, T \cup {k})
          BY <4>2, <4>5, TotalSame
        <4> QED
          BY <3>1, <4>1, <4>4, <4>5, <4>6
      <3>4. CASE m # l
        <4>1. TakenIn(ret', m) = T
          <5>1. ASSUME NEW x \in Keys PROVE x \in TakenIn(ret', m) <=> x \in T
            BY <2>1, <2>2, <3>4 DEF TakenIn
          <5> QED
            BY <5>1 DEF TakenIn
        <4>2. line'[m].returned = line[m].returned
          BY <1>4, <3>4
        <4> HIDE DEF T
        <4>3. Total(ret', T) = Total(ret, T)
          BY <3>1, <3>2, TotalSame
        <4> QED
          BY <3>1, <4>1, <4>2, <4>3
      <3> QED
        BY <3>3, <3>4
    <2>5. Counts(line', ret')
      BY <2>4 DEF Counts
    <2> QED
      BY <2>3, <2>5, ReturnsAfter
  <1> QED
    BY <1>5, <1>6

\* The handlers that leave the returns and the units of the lines alone.
LEMMA RestCounts ==
    ASSUME IInv, ReturnsInv, NEW c \in Calls, Serve(c), ~CheckApprove(c), ~WriteApprove(c),
           ~WriteOpen(c), ~Reject(c), ~Complete(c), ~Commit(c)
    PROVE  ReturnsInv'
  <1>1. CASE WritePin(c)
    <2>1. /\ line \in [Lines -> Row] /\ ret' = ret
          /\ line' \in {line, [line EXCEPT ![call[c].at].pin = @ + 1]}
      BY <1>1 DEF IInv, TypeOK, WritePin
    <2>2. \A l \in Lines : line'[l].returned = line[l].returned
      BY <2>1 DEF Row
    <2> QED
      BY <2>1, <2>2, ServeIsOnward, OnwardRests
  <1>2. CASE ~WritePin(c)
    <2>1. ret' = ret /\ line' = line
      BY <1>2
      DEF Serve, CheckMove, WriteMove, CheckPin, CheckConfirm, WriteConfirm, CheckOpen,
          ReadStatus, ReadLines, Forget, ForgetFails, CheckShip, WriteShip, CheckDeliver,
          WriteDeliver, CheckCancel, WriteCancel, Retry, Resolve, Recover, GetCached, GetRows,
          GetFill, Fail
    <2> QED
      BY <2>1, ServeIsOnward, OnwardRests
  <1> QED
    BY <1>1, <1>2

\* What other clients and the page ask for begins with a check.
LEMMA SentIsOnward ==
    ASSUME IInv, NEW c \in Calls, NEW by, NEW r, Sends(c, by, r), DOMAIN r = DOMAIN Idle
    PROVE  /\ \A d \in Calls \ {c} : Alike(call[d], call'[d])
           /\ Onward(call[c], call'[c])
  <1> DEFINE e == [r EXCEPT !.by = by, !.pc = "check"]
  <1>1. e.pc = "check" /\ Becomes(c, e)
    BY DEF Sends, Idle
  <1> HIDE DEF e
  <1> QED
    BY <1>1, StepIsOnward DEF Onward

LEMMA ClientCounts ==
    ASSUME IInv, ReturnsInv, NEW c \in Calls,
           \/ \E r \in Requests : Client(c, r)
           \/ Click(c) \/ PageAnswered(c)
    PROVE  ReturnsInv'
  <1>1. \A op, l, to, n, k : DOMAIN Asked(op, l, to, n, k) = DOMAIN Idle
    BY DEF Asked, Idle
  <1>2. \A r \in Requests : DOMAIN r = DOMAIN Idle
    BY <1>1 DEF Requests, Get
  <1>3. CASE \E r \in Requests : Client(c, r)
    BY <1>2, <1>3, SentIsOnward, OnwardRests DEF Client
  <1>4. CASE Click(c)
    <2>1. \E op, l, to, n, k : Sends(c, "page", Asked(op, l, to, n, k))
      BY <1>4 DEF Click, PickMove, PickPin, Picks, SubmitPickup, RunOrder
    <2>2. ret' = ret /\ line' = line
      BY <1>4 DEF Click, PickMove, PickPin, Picks, SubmitPickup, RunOrder
    <2> QED
      BY <1>1, <2>1, <2>2, SentIsOnward, OnwardRests
  <1>5. CASE PageAnswered(c)
    <2> DEFINE e == [Get EXCEPT !.by = "page", !.pc = "check"]
    <2>1. e.pc = "check" /\ (Becomes(c, e) \/ Becomes(c, Idle)) /\ ret' = ret /\ line' = line
      BY <1>5 DEF PageAnswered, Get, Asked, Idle
    <2>2. Idle.pc = "idle"
      BY DEF Idle
    <2> HIDE DEF e
    <2>3. Onward(call[c], e) /\ Onward(call[c], Idle)
      BY <2>1, <2>2 DEF Onward, Works
    <2> QED
      BY <2>1, <2>3, StepIsOnward, OnwardRests
  <1> QED
    BY <1>3, <1>4, <1>5

LEMMA ReturnsInit == Init => ReturnsInv
  <1> SUFFICES ASSUME Init PROVE ReturnsInv
    OBVIOUS
  <1>1. PICK s \in Starts : line = s.line /\ ret = s.ret
    BY DEF Init
  <1>2. /\ \A l \in Lines : line[l].returned = 0
        /\ \A k \in Keys : ret[k] # None => ret[k].status \in {"pending", "rejected"}
    <2>1. /\ \A l \in Lines : s.line[l].returned = 0
          /\ \A k \in Keys : s.ret[k] # None => s.ret[k].status \in {"pending", "rejected"}
      BY StartsAssumption
    <2> QED
      BY <1>1, <2>1
  <1>3. \A l \in Lines : TakenIn(ret, l) = {}
    BY <1>2 DEF TakenIn
  <1>4. Counts(line, ret)
    BY <1>2, <1>3, TotalEmpty, FS_EmptySet DEF Counts
  <1>5. \A c \in Calls : call[c].op \in {"none", "load"}
    <2>1. Idle.op = "none" /\ [Idle EXCEPT !.by = "page", !.op = "load", !.pc = "check"].op = "load"
      BY DEF Idle
    <2>2. \/ call = [d \in Calls |-> Idle]
          \/ \E c \in Calls :
                call = [[d \in Calls |-> Idle] EXCEPT
                           ![c] = [Idle EXCEPT !.by = "page", !.op = "load", !.pc = "check"]]
      BY DEF Init
    <2> QED
      BY <2>1, <2>2
  <1>6. \A c \in Calls : Approves(call[c], ret)
    BY <1>5 DEF Approves
  <1> QED
    BY <1>4, <1>6 DEF ReturnsInv

LEMMA ReturnsStep == IInv /\ ReturnsInv /\ [Next]_vars => ReturnsInv'
  <1> SUFFICES ASSUME IInv, ReturnsInv, [Next]_vars PROVE ReturnsInv'
    OBVIOUS
  <1>1. ASSUME NEW c \in Calls, Serve(c)
        PROVE  ReturnsInv'
    BY <1>1, ApproveCounts, OpenCounts, DecideCounts, CommitCounts, RestCounts
  <1>2. CASE Local \/ Expire \/ UNCHANGED vars
    <2>1. ret' = ret /\ line' = line /\ call' = call
      BY <1>2 DEF Local, ToggleMenu, PickDialog, CloseDialog, AskFirst, ShowStatus, EditPanel,
                  Expire, vars
    <2> QED
      BY <2>1, ReturnsRest DEF ReturnsInv
  <1> QED
    BY <1>1, <1>2, ClientCounts DEF Next

\* An approval knows its return, and every line counts exactly its approved returns.
THEOREM ReturnsInvariance == Spec => []ReturnsInv
  <1> QED
    BY Invariance, ReturnsInit, ReturnsStep, PTL DEF Spec

\* The units counted on a line are the sum of the units of its approved returns, those
\* announced for restocking, and never more than were bought, however approvals of one
\* return and of several returns of a line interleave, fail and are repeated.
THEOREM UnitsAreAccounted == Spec => []UnitsAgree
  <1>1. IInv /\ ReturnsInv => UnitsAgree
    <2> SUFFICES ASSUME IInv, ReturnsInv, NEW l \in Lines
                 PROVE  /\ line[l].returned = MapThenSumSet(LAMBDA k : ret[k].units, Taken(l))
                        /\ line[l].returned = hist.restocked[l]
                        /\ line[l].returned <= Bought[l]
      BY DEF UnitsAgree
    <2>1. line[l].returned = Total(ret, TakenIn(ret, l))
      BY DEF ReturnsInv, Counts
    <2>2. TakenIn(ret, l) = Taken(l)
      BY DEF TakenIn, Taken
    <2>3. line[l].returned = MapThenSumSet(LAMBDA k : ret[k].units, Taken(l))
      BY <2>1, <2>2 DEF Total
    <2> QED
      BY <2>3 DEF IInv, UnitsInv
  <1> QED
    BY <1>1, Invariance, ReturnsInvariance, PTL
=============================================================================

----------------------------- MODULE ListScreens ------------------------------
(***************************************************************************)
(* The pages that show a list and let rows be closed from it: approved,    *)
(* rejected, archived, deleted, cancelled, resolved.  Each page reads the  *)
(* list, filters or pages through it, and writes row by row or in bulk;    *)
(* the pages differ in what they do with a late answer, a failed one or a  *)
(* part of one, and these differences are the record of each page below.   *)
(*                                                                         *)
(* Calls are served in any order and answered in any order; another        *)
(* administrator closes rows of the same list.  The products are listed    *)
(* from the search index, which the outbox and the worker fill after the   *)
(* write, and through caches of the service and of the browser: a row that *)
(* is closed may be listed as it was for a while.                          *)
(***************************************************************************)
EXTENDS Naturals, FiniteSets

CONSTANTS RowCount,  \* the rows are 1..RowCount, in the order of the list
          MaxActs,   \* bound: what the user starts
          MaxOthers,  \* bound: rows another administrator closes
          MaxFailed   \* bound: reads that fail

ASSUME ListAssumption ==
    /\ RowCount \in Nat \ {0}
    /\ MaxActs \in Nat /\ MaxOthers \in Nat /\ MaxFailed \in Nat

VARIABLES screen,  \* which page it is
          svc,     \* the status of each row at the service
          late,    \* closed rows the search index, or a cached answer, still has as open
          app,     \* the state of the page
          reqs,    \* calls under way
          past     \* history, for the properties

listVars == <<screen, svc, late, app, reqs, past>>

Rows == 1..RowCount
Status == {"open", "done"}
Query == {"all", "some"}

\* A list is a set of items; those of a page are in the order of their ids.  0 is the id of a
\* demonstration row, which is not stored.  A row shown as late is open to the user: it is closed,
\* and was listed from an index or a cache that did not have that yet.
Shown == Status \cup {"late"}
Item == [id : 0..RowCount, st : Shown]
Demo == {[id |-> 0, st |-> "open"]}
None == 0

(***************************************************************************)
(* How the pages read.  Plain reads its list once when it is mounted,      *)
(* whole, and empties it when the read fails.                              *)
(***************************************************************************)
Plain ==
    [lists  |-> "all",    \* rows listed: all; open ones; status: some = the open ones; one row
     first  |-> "all",    \* the filter at first
     filter |-> FALSE,    \* another filter reads again
     button |-> FALSE,    \* there is a button that reads again
     auto   |-> TRUE,     \* reads when mounted
     guard  |-> FALSE,    \* an answer to an older read is dropped
     veil   |-> FALSE,    \* no row can be reached during a read
     keeps  |-> FALSE,    \* a failed read leaves the rows there are
     demo   |-> FALSE,    \* shows demonstration rows before the first answer
     index  |-> FALSE,    \* lists from the search index, through caches
     paging |-> "none"]   \* more: a cursor; cursor, offset: page after page; page: one page

CampaignList == [Plain EXCEPT !.guard = TRUE, !.veil = TRUE, !.keeps = TRUE, !.demo = TRUE]
PromotionList == [Plain EXCEPT !.veil = TRUE]
AttributeList == CampaignList
BrandList == [Plain EXCEPT !.veil = TRUE, !.demo = TRUE]
UserList == [Plain EXCEPT !.veil = TRUE, !.keeps = TRUE]
RoleList == [Plain EXCEPT !.veil = TRUE]
TenantList == [Plain EXCEPT !.veil = TRUE]
PendingProducts == [Plain EXCEPT !.lists = "open", !.veil = TRUE, !.paging = "cursor"]
PendingCampaigns == [PendingProducts EXCEPT !.paging = "offset"]
PendingPromoCodes == [PendingProducts EXCEPT !.paging = "offset"]
ReturnList == [Plain EXCEPT !.lists = "status", !.first = "some", !.filter = TRUE]
FailedOrderList == [Plain EXCEPT !.lists = "open", !.filter = TRUE, !.paging = "more"]
FailedOrderDetail == [Plain EXCEPT !.lists = "one", !.guard = TRUE, !.keeps = TRUE]
RefundCaseList == [Plain EXCEPT !.paging = "more"]
OrderList ==
    [Plain EXCEPT !.lists = "status", !.filter = TRUE, !.guard = TRUE, !.paging = "more"]
ProductList ==
    [Plain EXCEPT !.filter = TRUE, !.button = TRUE, !.guard = TRUE, !.paging = "page",
                  !.index = TRUE]
ReportView == [Plain EXCEPT !.filter = TRUE, !.button = TRUE, !.keeps = TRUE]
SalesReport == ReportView
PaymentsReport == ReportView
DeliverySlotReport == ReportView
AbandonCartReport == [ReportView EXCEPT !.filter = FALSE]
TransactionReport == [Plain EXCEPT !.button = TRUE, !.auto = FALSE]
MyOrders == [Plain EXCEPT !.filter = TRUE, !.guard = TRUE, !.keeps = TRUE]
MyOrder == [MyOrders EXCEPT !.lists = "one"]
Catalogue ==
    [Plain EXCEPT !.filter = TRUE, !.paging = "more", !.keeps = TRUE, !.index = TRUE]

(***************************************************************************)
(* How they write.  CloseOne closes one row from a dialog, which is open   *)
(* until that is done, and then reads the list again.                      *)
(***************************************************************************)
CloseOne ==
    [writes |-> "one",    \* one row; each in turn; all at once; settled: all, waits for all
     drops  |-> FALSE,    \* takes the rows off the list before the calls
     after  |-> "read",   \* then: read again; patch the rows; read the row; put a snapshot back
     again  |-> "ok",     \* reads again: when all is done; when any is; ever
     closes |-> "late",   \* the dialog closes: when confirmed (early); when all is done; ever
     blocks |-> "no",     \* its buttons: disabled during the write; until all is read again
     select |-> FALSE,    \* rows are selected
     clears |-> "asked"]  \* the selection ends when confirmed; when all is done; when any is

NoWrite == [CloseOne EXCEPT !.writes = "none"]
ArchivePromo == CloseOne
DeleteAttribute == [CloseOne EXCEPT !.after = "patch", !.closes = "ever"]
DeleteBrand == [CloseOne EXCEPT !.after = "snapshot", !.closes = "early"]
DeleteUser == [CloseOne EXCEPT !.closes = "early"]
DeleteRole == [CloseOne EXCEPT !.blocks = "write"]
DeactivateTenant == CloseOne
ApproveProducts ==
    [CloseOne EXCEPT !.writes = "all", !.drops = TRUE, !.again = "ever", !.closes = "early",
                     !.select = TRUE]
ApproveCampaigns == ApproveProducts
ApprovePromoCodes == ApproveProducts
AnswerReturn == [CloseOne EXCEPT !.blocks = "all"]
RetryOrders ==
    [CloseOne EXCEPT !.writes = "each", !.again = "ever", !.blocks = "write",
                     !.select = TRUE, !.clears = "all"]
ResolveOrder == [CloseOne EXCEPT !.closes = "early", !.blocks = "all"]
UpdateRefund == [CloseOne EXCEPT !.after = "patch"]
AdvanceOrder == [CloseOne EXCEPT !.after = "row", !.blocks = "all"]
OperateProducts ==
    [CloseOne EXCEPT !.writes = "settled", !.blocks = "write", !.select = TRUE,
                     !.clears = "all"]
MoveProducts ==
    [OperateProducts EXCEPT !.again = "any", !.closes = "early", !.clears = "any"]

SendProducts == [MoveProducts EXCEPT !.blocks = "no"]

Screen(list, close) ==
    [lists  |-> list.lists, first |-> list.first, filter |-> list.filter,
     button |-> list.button, auto |-> list.auto, guard |-> list.guard, veil |-> list.veil,
     keeps  |-> list.keeps, demo |-> list.demo, index |-> list.index, paging |-> list.paging,
     writes |-> close.writes, drops |-> close.drops, after |-> close.after,
     again  |-> close.again, closes |-> close.closes, blocks |-> close.blocks,
     select |-> close.select, clears |-> close.clears]

Screens ==
    {Screen(l, NoWrite) : l \in {CampaignList, ReportView, SalesReport, PaymentsReport,
                                 DeliverySlotReport, AbandonCartReport, TransactionReport,
                                 MyOrders, MyOrder, Catalogue}}
    \cup {Screen(PromotionList, ArchivePromo), Screen(AttributeList, DeleteAttribute),
          Screen(BrandList, DeleteBrand), Screen(UserList, DeleteUser),
          Screen(RoleList, DeleteRole), Screen(TenantList, DeactivateTenant),
          Screen(PendingProducts, ApproveProducts), Screen(PendingCampaigns, ApproveCampaigns),
          Screen(PendingPromoCodes, ApprovePromoCodes), Screen(ReturnList, AnswerReturn),
          Screen(FailedOrderList, RetryOrders), Screen(FailedOrderDetail, ResolveOrder),
          Screen(RefundCaseList, UpdateRefund), Screen(OrderList, AdvanceOrder),
          Screen(ProductList, OperateProducts), Screen(ProductList, MoveProducts),
          Screen(ProductList, SendProducts)}

(***************************************************************************)
(* Calls.  A read has got what it has so far; a write has done the rows of *)
(* done and been refused those of bad.                                     *)
(***************************************************************************)
NoCall ==
    [n |-> 0, kind |-> "read", q |-> "all", page |-> 0, got |-> {}, total |-> 0,
     next |-> None, st |-> "asked", shifted |-> FALSE,
     ids |-> {}, done |-> {}, bad |-> {}, early |-> FALSE, old |-> {}]

NewRead(kind, q, p) ==
    [NoCall EXCEPT !.n = past.n + 1, !.kind = kind, !.q = q, !.page = p]

Calls(kind) == {c \in reqs : c.kind = kind}
Loading == Calls("read") # {}
AtRest == reqs = {}

\* The rows a filter lists.
Lists(q, r) ==
    CASE screen.lists = "one" -> r = 1
      [] screen.lists = "open" -> svc[r] = "open" /\ (q = "some" => r % 2 = 1)
      [] screen.lists = "status" -> q = "some" => svc[r] = "open"
      [] OTHER -> q = "some" => r % 2 = 1
Listed(q) == {[id |-> r, st |-> svc[r]] : r \in {s \in Rows : Lists(q, s)}}

\* List L as it is served while the rows of B are behind.
Behind(L, B) == {IF x.id \in B THEN [x EXCEPT !.st = "late"] ELSE x : x \in L}

IdsOf(L) == {x.id : x \in L} \ {0}
LastId(L) == CHOOSE n \in 0..RowCount : n \in IdsOf(L) \cup {0} /\ \A m \in IdsOf(L) : m <= n

\* The place of x in L, and the page p of L: a page holds one row.
Place(L, x) == Cardinality({y \in L : y.id <= x.id})
PageOf(L, p) == {x \in L : Place(L, x) = p}

\* Mutant of AfterCursor: rows are counted.
CountedRows(L, n) == {x \in L : Place(L, x) > n}

\* What is left of list L after the row of a cursor ...
AfterCursor(L, n) == {x \in L : x.id > n}

\* ... or after as many rows as there are in got.
AtOffset(L, got) == {x \in L : Place(L, x) > Cardinality(got)}

(***************************************************************************)
(* The page when it is mounted.                                            *)
(***************************************************************************)
ListInit ==
    /\ screen \in Screens
    /\ svc = [r \in Rows |-> "open"]
    /\ late = {}
    /\ app = [rows |-> IF screen.demo THEN Demo ELSE {}, query |-> screen.first,
              page |-> 1, total |-> 0, next |-> None, newest |-> 1, failed |-> FALSE,
              selected |-> {}, dialog |-> {}, busy |-> 0]
    /\ reqs = IF screen.auto THEN {[NoCall EXCEPT !.n = 1, !.q = screen.first, !.page = 1]}
               ELSE {}
    /\ past = [n |-> 1, acts |-> 0, others |-> 0, fails |-> 0, crossed |-> {}, lost |-> {},
               mine |-> {}]

(***************************************************************************)
(* What the user does.                                                     *)
(***************************************************************************)
Acts == past.acts < MaxActs
Acted == [past EXCEPT !.acts = @ + 1]

\* A call of a kind is made while the others are under way.
Crosses(h, kind, others) ==
    [h EXCEPT !.n = @ + 1, !.crossed = @ \cup {{kind, c.kind} : c \in others}]

\* The page read: the one turned to, or the last there is.
SafePage(a) ==
    CASE a.page <= a.total -> a.page
      [] a.total = 0 -> 1
      [] OTHER -> a.total

\* The list is read.
ReadList(a, others, h) ==
    /\ reqs' = others \cup {NewRead("read", a.query, SafePage(a))}
    /\ app' = [a EXCEPT !.newest = past.n + 1]
    /\ past' = Crosses(h, "read", others)

ChangeFilter(q) ==
    /\ screen.filter /\ Acts /\ q # app.query
    /\ ReadList([app EXCEPT !.query = q, !.page = 1], reqs, Acted)
    /\ UNCHANGED <<screen, svc, late>>

Search ==
    /\ screen.button /\ Acts /\ ~Loading
    /\ ReadList(app, reqs, Acted)
    /\ UNCHANGED <<screen, svc, late>>

TurnPage(p) ==
    /\ screen.paging = "page" /\ Acts
    /\ p # SafePage(app) /\ p <= app.total
    /\ ReadList([app EXCEPT !.page = p], reqs, Acted)
    /\ UNCHANGED <<screen, svc, late>>

LoadMore ==
    /\ app.next # None /\ Acts
    /\ ~Loading /\ Calls("more") = {}
    /\ reqs' = reqs \cup {NewRead("more", app.query, app.next)}
    /\ past' = Crosses(Acted, "more", reqs)
    /\ UNCHANGED <<screen, svc, late, app>>

\* Rows can be reached unless the page hides them while it reads.
OnScreen == IF screen.veil /\ Loading THEN {} ELSE IdsOf(app.rows)

Select(r) ==
    /\ screen.select /\ r \in OnScreen \ app.selected
    /\ app' = [app EXCEPT !.selected = @ \cup {r}]
    /\ UNCHANGED <<screen, svc, late, reqs, past>>

\* A row the page shows as open, or the rows selected, shown or not.
Ask(R) ==
    /\ screen.writes # "none" /\ app.dialog = {} /\ R # {}
    /\ \/ screen.select /\ R = app.selected
       \/ \E x \in app.rows : x.st # "done" /\ R = {x.id} \cap OnScreen
    /\ app' = [app EXCEPT !.dialog = R]
    /\ UNCHANGED <<screen, svc, late, reqs, past>>

CancelDialog ==
    /\ app.dialog # {} /\ app.busy = 0
    /\ app' = [app EXCEPT !.dialog = {}]
    /\ UNCHANGED <<screen, svc, late, reqs, past>>

WithoutIds(L, R) == {x \in L : x.id \notin R}

Confirm ==
    /\ app.dialog # {} /\ Acts
    /\ screen.blocks # "no" => app.busy = 0
    /\ reqs' = reqs \cup {[NoCall EXCEPT !.n = past.n + 1, !.kind = "write",
                                          !.ids = app.dialog, !.old = app.rows]}
    /\ app' = [app EXCEPT
                 !.rows = IF screen.drops THEN WithoutIds(@, app.dialog) ELSE @,
                 !.selected = IF screen.clears = "asked" THEN @ \ app.dialog ELSE @,
                 !.dialog = IF screen.closes = "early" THEN {} ELSE @,
                 !.busy = IF screen.blocks = "no" THEN 0 ELSE past.n + 1]
    /\ past' = Crosses(Acted, "write", reqs)
    /\ UNCHANGED <<screen, svc, late>>

(***************************************************************************)
(* The service.                                                            *)
(***************************************************************************)
Instead(c, d) == reqs' = (reqs \ {c}) \cup {d}

\* A read is served, whole, a page of it, or page after page until none is left, while the rows
\* of B are behind.
ServeListAs(c, B) ==
    /\ c.kind \in {"read", "more"} /\ c.st = "asked"
    /\ LET L == Behind(Listed(c.q), B)
           rest == CASE screen.paging = "offset" -> AtOffset(L, c.got)
                     [] c.kind = "more" -> AfterCursor(L, c.page)
                     [] OTHER -> AfterCursor(L, LastId(c.got))
           one == PageOf(rest, 1)
       IN  Instead(c,
             CASE screen.paging = "none" -> [c EXCEPT !.got = L, !.st = "ok"]
               [] screen.paging = "page" ->
                    [c EXCEPT !.got = PageOf(L, c.page), !.total = Cardinality(L), !.st = "ok"]
               [] screen.paging = "more" ->
                    [c EXCEPT !.got = one, !.st = "ok",
                              !.next = IF rest = one THEN None ELSE LastId(one)]
               [] OTHER ->
                    [c EXCEPT !.got = @ \cup one, !.st = IF rest = {} THEN "ok" ELSE "asked"])
    /\ UNCHANGED <<screen, svc, late, app, past>>

\* The index or a cache may not have closed some of the rows yet.
ServeList(c) == \E B \in SUBSET late : ServeListAs(c, B)

RefuseRead(c) ==
    /\ c.kind # "write" /\ c.st = "asked" /\ past.fails < MaxFailed
    /\ Instead(c, [c EXCEPT !.st = "failed"])
    /\ past' = [past EXCEPT !.fails = @ + 1]
    /\ UNCHANGED <<screen, svc, late, app>>

Left(c) == c.ids \ (c.done \cup c.bad)

\* The rows of a write are closed one after another, or in any order.
Turn(c, r) ==
    /\ c.kind = "write" /\ r \in Left(c)
    /\ screen.writes = "each" => \A s \in Left(c) : r <= s

\* What is written reaches the index later, and an answer kept by a cache is used until it is
\* dropped.
LagsBehind(r) == late' = IF screen.index THEN late \cup {r} ELSE late

\* The index has the row as it is, and no cache has another answer.
CatchUp(r) ==
    /\ r \in late
    /\ late' = late \ {r}
    /\ UNCHANGED <<screen, svc, app, reqs, past>>

\* Reads under way of which a page was served before a row is closed.
Shift(cs) == {[c EXCEPT !.shifted = @ \/ (c.st = "asked" /\ c.got # {})] : c \in cs}

CloseRow(c, r) ==
    /\ Turn(c, r) /\ svc[r] = "open"
    /\ svc' = [svc EXCEPT ![r] = "done"]
    /\ reqs' = Shift((reqs \ {c}) \cup {[c EXCEPT !.done = @ \cup {r}]})
    /\ past' = [past EXCEPT !.mine = @ \cup {r}]
    /\ LagsBehind(r)
    /\ UNCHANGED <<screen, app>>

\* A closed row is refused; an open one may be.
RefuseRow(c, r) ==
    /\ Turn(c, r)
    /\ Instead(c, [c EXCEPT !.bad = @ \cup {r}])
    /\ UNCHANGED <<screen, svc, late, app, past>>

OtherCloses(r) ==
    /\ svc[r] = "open" /\ past.others < MaxOthers
    /\ svc' = [svc EXCEPT ![r] = "done"]
    /\ reqs' = Shift(reqs)
    /\ past' = [past EXCEPT !.others = @ + 1]
    /\ LagsBehind(r)
    /\ UNCHANGED <<screen, app>>

(***************************************************************************)
(* What the page does with an answer.                                      *)
(***************************************************************************)
\* Mutant of Free: the buttons stay disabled after a failure.
FreeIfOk(a, c) == [a EXCEPT !.busy = IF @ = c.n /\ c.st # "failed" THEN 0 ELSE @]

\* The call a page is busy with is over.
Free(a, c) == [a EXCEPT !.busy = IF @ = c.n THEN 0 ELSE @]

\* An answer to a read that is not the last one is dropped by the pages that look.
Stale(c) == screen.guard /\ c.n # app.newest

StaleAnswer(c) ==
    /\ c.kind = "read" /\ c.st # "asked" /\ Stale(c)
    /\ reqs' = reqs \ {c} /\ app' = Free(app, c)
    /\ UNCHANGED <<screen, svc, late, past>>

Answered(c) ==
    [Free(app, c) EXCEPT !.rows = c.got, !.total = c.total, !.next = c.next, !.failed = FALSE]

\* The last page there is changes with the number of rows: then another page is read at once.
\* After a failure no row is left, so the first page is.
ReadIfTurned(c, a, h) ==
    IF SafePage(a) # SafePage(app) THEN ReadList(a, reqs \ {c}, h)
    ELSE reqs' = reqs \ {c} /\ app' = a /\ past' = h

ListAnswered(c) ==
    /\ c.kind = "read" /\ c.st = "ok" /\ ~Stale(c)
    /\ ReadIfTurned(c, Answered(c), [past EXCEPT !.lost = {k \in @ : k >= c.n}])
    /\ UNCHANGED <<screen, svc, late>>

Failed(c) ==
    LET a == [Free(app, c) EXCEPT !.failed = TRUE]
    IN  IF screen.keeps THEN a ELSE [a EXCEPT !.rows = {}, !.next = None, !.total = 0]

ListFails(c) ==
    /\ c.kind = "read" /\ c.st = "failed" /\ ~Stale(c)
    /\ ReadIfTurned(c, Failed(c), past)
    /\ UNCHANGED <<screen, svc, late>>

\* Appended to what there is, whatever has been read since.
MoreAnswered(c) ==
    /\ c.kind = "more" /\ c.st # "asked"
    /\ reqs' = reqs \ {c}
    /\ app' = IF c.st = "ok" THEN [app EXCEPT !.rows = @ \cup c.got, !.next = c.next] ELSE app
    /\ UNCHANGED <<screen, svc, late, past>>

\* The rows of L that are in N as N has them.
Patched(L, N) == WithoutIds(L, IdsOf(N)) \cup {y \in N : y.id \in IdsOf(L)}

\* The row alone was read back; when that fails the page says nothing.
RowAnswered(c) ==
    /\ c.kind = "row" /\ c.st # "asked"
    /\ reqs' = reqs \ {c}
    /\ app' = [Free(app, c) EXCEPT !.rows = IF c.st = "ok" THEN Patched(@, c.got) ELSE @]
    /\ past' = IF c.st = "ok" THEN past ELSE [past EXCEPT !.lost = @ \cup {past.n}]
    /\ UNCHANGED <<screen, svc, late>>

ServeRow(c) ==
    /\ c.kind = "row" /\ c.st = "asked"
    /\ Instead(c, [c EXCEPT !.st = "ok", !.got = {[id |-> c.page, st |-> svc[c.page]]}])
    /\ UNCHANGED <<screen, svc, late, app, past>>

AllDone(c) == c.bad = {}

\* Mutant of ReadsBack: never after a failure.
ReadsBackIfAllDone(c) == screen.after = "read" /\ AllDone(c)

\* The list is read back once a write is answered.
ReadsBack(c) ==
    /\ screen.after = "read"
    /\ \/ AllDone(c) \/ screen.again = "ever"
       \/ screen.again = "any" /\ c.done # {}

\* The page once the write is answered, before it reads anything back.
Written(c) ==
    LET ends == \/ screen.clears = "any" /\ c.done # {}
                \/ screen.clears = "all" /\ AllDone(c)
        closed == {[id |-> r, st |-> "done"] : r \in c.done}
    IN  [Free(app, c) EXCEPT
           !.rows = CASE screen.drops /\ ~AllDone(c) -> c.old
                      [] screen.after = "patch" -> Patched(app.rows, closed)
                      [] screen.after = "snapshot" /\ AllDone(c) -> WithoutIds(c.old, c.ids)
                      [] OTHER -> @,
           !.selected = IF ends THEN {} ELSE @,
           !.dialog = IF screen.closes # "early" /\ (AllDone(c) \/ screen.closes = "ever")
                      THEN {} ELSE @]

\* All calls of a write are answered.  One that is given up at the first failure is over then,
\* with its other calls still under way.
WriteAnswered(c) ==
    /\ c.kind = "write" /\ ~c.early
    /\ Left(c) = {} \/ (screen.writes = "all" /\ c.bad # {})
    /\ LET others == (reqs \ {c}) \cup
                     (IF Left(c) = {} THEN {} ELSE {[c EXCEPT !.early = TRUE]})
           h == [past EXCEPT !.lost = @ \cup
                    (IF c.done # {} /\ ~AllDone(c) /\ screen.again = "ok" THEN {past.n} ELSE {})]
           busy(a) == IF screen.blocks = "all" THEN [a EXCEPT !.busy = past.n + 1] ELSE a
       IN  CASE ReadsBack(c) -> ReadList(busy(Written(c)), others, h)
             [] screen.after = "row" /\ AllDone(c) ->
                  /\ reqs' = others \cup {NewRead("row", "all", CHOOSE r \in c.ids : TRUE)}
                  /\ app' = busy(Written(c)) /\ past' = Crosses(h, "row", others)
             [] OTHER -> reqs' = others /\ app' = Written(c) /\ past' = h
    /\ UNCHANGED <<screen, svc, late>>

\* The calls that were still under way are over.
LateEnds(c) ==
    /\ c.kind = "write" /\ c.early /\ Left(c) = {}
    /\ reqs' = reqs \ {c}
    /\ UNCHANGED <<screen, svc, late, app, past>>

ListNext ==
    \/ \E q \in Query : ChangeFilter(q)
    \/ Search
    \/ \E p \in Rows : TurnPage(p)
    \/ LoadMore
    \/ \E r \in Rows : Select(r)
    \/ \E R \in SUBSET Rows : Ask(R)
    \/ CancelDialog
    \/ Confirm
    \/ \E r \in Rows : OtherCloses(r)
    \/ \E r \in Rows : CatchUp(r)
    \/ \E c \in reqs : ServeList(c)
    \/ \E c \in reqs : RefuseRead(c)
    \/ \E c \in reqs, r \in Rows : CloseRow(c, r)
    \/ \E c \in reqs, r \in Rows : RefuseRow(c, r)
    \/ \E c \in reqs : ServeRow(c)
    \/ \E c \in reqs : StaleAnswer(c)
    \/ \E c \in reqs : ListAnswered(c)
    \/ \E c \in reqs : ListFails(c)
    \/ \E c \in reqs : MoreAnswered(c)
    \/ \E c \in reqs : RowAnswered(c)
    \/ \E c \in reqs : WriteAnswered(c)
    \/ \E c \in reqs : LateEnds(c)

Serve ==
    \E c \in reqs : \/ ServeList(c) \/ ServeRow(c) \/ LateEnds(c)
                     \/ \E r \in Rows : CloseRow(c, r) \/ RefuseRow(c, r)

Answer ==
    \E c \in reqs : \/ StaleAnswer(c) \/ ListAnswered(c) \/ ListFails(c) \/ MoreAnswered(c)
                     \/ RowAnswered(c) \/ WriteAnswered(c)

\* The service answers every call, and the page handles every answer.
ListSpec == ListInit /\ [][ListNext]_listVars /\ WF_listVars(Serve) /\ WF_listVars(Answer)

(***************************************************************************)
(* Properties.                                                             *)
(***************************************************************************)
\* A read that goes page after page misses no row that stays open throughout, unless it counts
\* rows and one was closed between its pages (the approval lists).
ReadsMissNothing ==
    \A c \in Calls("read") :
        c.st = "ok" /\ screen.paging \in {"none", "cursor", "offset"}
        /\ (screen.paging = "offset" => ~c.shifted)
        => \A x \in Listed(c.q) : x.st = "open" => x.id \in IdsOf(c.got)

\* A call was under way together with a write, on a page that does not drop older answers or
\* does not read the whole list back.
WritesCrossed ==
    /\ screen.guard => screen.after # "read"
    /\ \E k \in past.crossed : "write" \in k

\* A page at rest does not show a row it has closed as open, unless calls crossed, the row could
\* not be read back, the page reads nothing back after a failure in part, or the list came from
\* an index or a cache that did not have the row closed yet (it is shown as late then, and only
\* the product list reads so).
OwnWritesShow ==
    AtRest /\ ~app.failed /\ past.lost = {} /\ ~WritesCrossed
    => \A x \in app.rows : x.st = "open" => x.id \notin past.mine

\* The buttons a page disables for a write are enabled again.
BusyEnds == (app.busy # 0) ~> (app.busy = 0)
=============================================================================

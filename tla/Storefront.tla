----------------------------- MODULE Storefront -----------------------------
(***************************************************************************)
(* One browser tab of the storefront (React application): which branch it  *)
(* works for, the cart it shows, the product it sells from, its checkout   *)
(* and the page that waits for the payment.                                *)
(*                                                                         *)
(* The branch and the carts are kept in localStorage and shared with every *)
(* other tab of the browser; a second tab is an environment that writes    *)
(* there.  The services behind the gateway answer late, out of order, with *)
(* an error, or after they did the work.  A cart is a set of units, each   *)
(* with the branch whose product and whose variant were put in the cart.   *)
(***************************************************************************)
EXTENDS Naturals, Sequences, FiniteSets

CONSTANTS Branches,   \* tenants with a store front
          Default,    \* the branch the list marks as default
          Retired,    \* a tenant id that is no longer in the list
          None,
          MaxUnits,   \* bound: units put into carts
          MaxSubmits, \* bound: orders submitted
          MaxPolls,   \* POLL_MS rounds within MAX_POLL_MS
          MaxSelects  \* bound: uses of the branch picker

ASSUME BranchAssumption ==
    /\ Default \in Branches
    /\ Retired \notin Branches
    /\ None \notin Branches \cup {Retired}
    /\ {MaxUnits, MaxSubmits, MaxPolls, MaxSelects} \subseteq Nat

VARIABLES local,    \* localStorage: the tenant, and one cart per branch
          tab,      \* the React state of the tab
          subs,     \* submitted orders, by number
          pay,      \* the payment page's poll
          hist      \* history, for the properties

vars == <<local, tab, subs, pay, hist>>

Unit == [id : 1..MaxUnits, product : Branches, variant : Branches, instock : BOOLEAN]

Open == {"shop", "product", "cart", "login"}
Protected == {"checkout", "pay", "return"}
Page == Open \cup Protected \cup {"blank"}

Resolving == {"list", "locate", "nearest"}
Polling == {"asking", "waiting"}
Final == {"confirmed", "payment_failed"}
Status == Final \cup {"payment_pending", "processing", "cancelled"}

SubState == {"sent", "ordered", "refused", "answered", "failed", "lost"}
Sub == [branch : Branches, units : SUBSET Unit, state : SubState,
        mounted : BOOLEAN, status : Status]
InFlight(s) == subs[s].state \in {"sent", "ordered", "refused"}
PollOff == [sub |-> 0, state |-> "off", rounds |-> 0, shown |-> "payment_pending"]

\* A tab that has just been loaded at page p: no branch yet, bootstrap under way.
Loaded(p, session) ==
    [active |-> None, listed |-> FALSE, boot |-> "list", session |-> session, page |-> p,
     want |-> "checkout", lines |-> {}, product |-> None, instock |-> FALSE,
     selected |-> None, asks |-> {}, busy |-> FALSE]

Init ==
    /\ \E t \in Branches \cup {Retired, None} :
           local = [tenant |-> t, cart |-> [b \in Branches |-> {}]]
    /\ tab = Loaded("shop", FALSE)
    /\ subs = <<>>
    /\ pay = PollOff
    /\ hist = [made |-> 0, selects |-> 0]

(***************************************************************************)
(* The branch.  A change of branch re-reads the cart, reloads the product  *)
(* that is open (the answer to the earlier request is ignored) and starts  *)
(* the payment poll again.                                                 *)
(***************************************************************************)
\* Mutant of Cancel: the effect has no cleanup.
CancelNothing(asks) == asks

Cancel(asks) == {[r EXCEPT !.live = FALSE] : r \in asks}

EnterProduct(t, b) ==
    [t EXCEPT !.product = None, !.asks = Cancel(@) \cup {[branch |-> b, live |-> TRUE]}]

InScope(t, b) ==
    LET s == [t EXCEPT !.active = b, !.lines = local.cart[b]]
    IN  IF t.page = "product" THEN EnterProduct(s, b) ELSE s

RestartPoll ==
    IF tab.page = "pay"
    THEN [pay EXCEPT !.state = "asking", !.rounds = 0] ELSE pay

Adopt(t, b) ==
    /\ local' = [local EXCEPT !.tenant = b]
    /\ IF t.active = b
       THEN tab' = t /\ UNCHANGED pay
       ELSE tab' = InScope(t, b) /\ pay' = RestartPoll
    /\ UNCHANGED <<subs, hist>>

\* The list of branches arrives: a stored branch that is still in it is kept,
\* otherwise the browser is asked for its position.
BranchesListed ==
    /\ tab.boot = "list" /\ tab.page # "blank"
    /\ IF local.tenant \in Branches
       THEN Adopt([tab EXCEPT !.listed = TRUE, !.boot = "ready"], local.tenant)
       ELSE /\ tab' = [tab EXCEPT !.listed = TRUE, !.boot = "locate"]
            /\ UNCHANGED <<local, subs, pay, hist>>

BranchesFail ==
    /\ tab.boot = "list" /\ tab.page # "blank"
    /\ tab' = [tab EXCEPT !.boot = "error"]
    /\ UNCHANGED <<local, subs, pay, hist>>

Located ==
    /\ tab.boot = "locate" /\ tab.page # "blank"
    /\ tab' = [tab EXCEPT !.boot = "nearest"]
    /\ UNCHANGED <<local, subs, pay, hist>>

\* The position, then the nearest branch; either may fail, then the default is
\* taken.  A branch picked in the meantime is overridden.
Resolved ==
    /\ tab.page # "blank"
    /\ \/ tab.boot = "nearest" /\ \E b \in Branches : Adopt([tab EXCEPT !.boot = "ready"], b)
       \/ tab.boot \in {"locate", "nearest"} /\ Adopt([tab EXCEPT !.boot = "ready"], Default)

SelectBranch(b) ==
    /\ tab.listed /\ tab.page # "blank"
    /\ hist.selects < MaxSelects
    /\ local' = [local EXCEPT !.tenant = b]
    /\ hist' = [hist EXCEPT !.selects = @ + 1]
    /\ IF tab.active = b
       THEN UNCHANGED <<tab, pay>>
       ELSE tab' = InScope(tab, b) /\ pay' = RestartPoll
    /\ UNCHANGED subs

(***************************************************************************)
(* Navigation.  A protected page sends a visitor without a session to the  *)
(* sign-in page; with a session it asks for the branch at once, and when   *)
(* there is none yet it throws and React removes the whole application.    *)
(***************************************************************************)
Mount(t, p) ==
    LET left == [t EXCEPT !.product = None, !.instock = FALSE, !.selected = None,
                          !.asks = {}, !.busy = FALSE]
    IN  IF p \in Protected /\ ~t.session THEN [left EXCEPT !.page = "login", !.want = p]
        ELSE IF p \in Protected /\ t.active = None THEN [left EXCEPT !.page = "blank"]
        ELSE IF p = "product" /\ t.active # None
        THEN [EnterProduct(left, t.active) EXCEPT !.page = p]
        ELSE [left EXCEPT !.page = p]

Leave == [s \in DOMAIN subs |-> [subs[s] EXCEPT !.mounted = FALSE]]

Visit(p) ==
    /\ tab.page \notin {"blank", p}
    /\ tab' = Mount(tab, p)
    /\ subs' = Leave
    /\ pay' = PollOff
    /\ UNCHANGED <<local, hist>>

\* A full load of page p, by the address bar or by the payment provider coming
\* back: whatever was in flight is answered to nobody.  The session is read again,
\* and is gone when its token has run out (in memory it does not run out).
Reload(p) ==
    /\ \E keeps \in {tab.session, FALSE} : tab' = Mount(Loaded("shop", keeps), p)
    /\ subs' = [s \in DOMAIN subs |->
                  [subs[s] EXCEPT !.mounted = FALSE,
                                  !.state = IF @ = "ordered" THEN "lost"
                                            ELSE IF InFlight(s) THEN "failed" ELSE @]]
    /\ pay' = PollOff
    /\ UNCHANGED <<local, hist>>

Login ==
    /\ tab.page = "login"
    /\ LET t == [tab EXCEPT !.session = TRUE]
       IN  tab' = [Mount(t, t.want) EXCEPT !.want = "checkout"]
    /\ UNCHANGED <<local, subs, pay, hist>>

(***************************************************************************)
(* The product and the cart.                                               *)
(***************************************************************************)
\* The product arrives.  Its first variant in stock is selected; when there is
\* none, the variant selected before stays selected.
ProductAnswered(r, instock) ==
    /\ r \in tab.asks
    /\ LET t == [tab EXCEPT !.asks = @ \ {r}]
       IN  tab' = IF ~r.live THEN t
                  ELSE [t EXCEPT !.product = r.branch, !.instock = instock,
                                 !.selected = IF instock THEN r.branch ELSE @]
    /\ UNCHANGED <<local, subs, pay, hist>>

ProductFails(r) ==
    /\ r \in tab.asks
    /\ tab' = [tab EXCEPT !.asks = @ \ {r}]
    /\ UNCHANGED <<local, subs, pay, hist>>

\* Every change of the cart reads the stored cart, changes it, stores it, and
\* shows the result.
Store(b, cart) ==
    /\ local' = [local EXCEPT !.cart[b] = cart]
    /\ tab' = [tab EXCEPT !.lines = cart]

NewUnit(product, variant, instock) ==
    [id |-> hist.made + 1, product |-> product, variant |-> variant, instock |-> instock]

AddToCart ==
    /\ tab.page = "product" /\ tab.boot \notin Resolving
    /\ tab.active # None /\ tab.product # None /\ tab.selected # None
    /\ hist.made < MaxUnits
    /\ Store(tab.active, local.cart[tab.active]
                 \cup {NewUnit(tab.product, tab.selected, tab.instock)})
    /\ hist' = [hist EXCEPT !.made = @ + 1]
    /\ UNCHANGED <<subs, pay>>

\* The units of the cart's line for a variant.
LineOf(cart, u) == {w \in cart : w.variant = u.variant}

\* The line shown is taken off, or given another quantity: the stored line is written, however
\* many units it had.  A line another tab took off meanwhile does not come back.
SetQuantity(u) ==
    /\ tab.page = "cart" /\ tab.active # None
    /\ u \in tab.lines
    /\ LET cart == local.cart[tab.active]
       IN  \/ \E W \in SUBSET LineOf(cart, u) :
                Store(tab.active, cart \ W) /\ UNCHANGED hist
           \/ \E w \in LineOf(cart, u) :
                /\ hist.made < MaxUnits
                /\ Store(tab.active, cart \cup {NewUnit(w.product, w.variant, w.instock)})
                /\ hist' = [hist EXCEPT !.made = @ + 1]
    /\ UNCHANGED <<subs, pay>>

\* Another tab of the browser: it adds to a cart, orders it away, or picks a branch.
OtherTabCart(b) ==
    /\ \/ /\ hist.made < MaxUnits
          /\ local' = [local EXCEPT !.cart[b] = @ \cup {NewUnit(b, b, TRUE)}]
          /\ hist' = [hist EXCEPT !.made = @ + 1]
       \/ /\ local.cart[b] # {}
          /\ local' = [local EXCEPT !.cart[b] = {}]
          /\ UNCHANGED hist
    /\ UNCHANGED <<tab, subs, pay>>

OtherTabBranch(b) ==
    /\ hist.selects < MaxSelects
    /\ local' = [local EXCEPT !.tenant = b]
    /\ hist' = [hist EXCEPT !.selects = @ + 1]
    /\ UNCHANGED <<tab, subs, pay>>

(***************************************************************************)
(* The checkout.  The lines and the branch are those of the moment of the  *)
(* click; a fresh idempotency key goes with every click, so the service    *)
(* takes each one for a new order.                                         *)
(***************************************************************************)
Submit ==
    /\ tab.page = "checkout" /\ tab.session /\ ~tab.busy
    /\ tab.lines # {}
    /\ Len(subs) < MaxSubmits
    /\ subs' = Append(subs, [branch |-> tab.active, units |-> tab.lines, state |-> "sent",
                             mounted |-> TRUE, status |-> "payment_pending"])
    /\ tab' = [tab EXCEPT !.busy = TRUE]
    /\ UNCHANGED <<local, pay, hist>>

OrderAccepted(s) ==
    /\ subs[s].state = "sent"
    /\ subs' = [subs EXCEPT ![s].state = "ordered"]
    /\ UNCHANGED <<local, tab, pay, hist>>

\* Validation, stock, or a token that has run out.
OrderRefused(s) ==
    /\ subs[s].state = "sent"
    /\ subs' = [subs EXCEPT ![s].state = "refused"]
    /\ UNCHANGED <<local, tab, pay, hist>>

\* Mutant of Empty: the cart of the branch that is active when the answer comes.
EmptyActive(b) == [local.cart EXCEPT ![tab.active] = {}]

Empty(b) == [local.cart EXCEPT ![b] = {}]

\* The answer reaches the page: the cart of the branch it was submitted for is
\* emptied, and the customer is taken to the payment page, wherever they are.
SubmitAnswered(s) ==
    /\ subs[s].state = "ordered"
    /\ subs' = [n \in DOMAIN subs |->
                  [subs[n] EXCEPT !.mounted = FALSE,
                                  !.state = IF n = s THEN "answered" ELSE @]]
    /\ local' = [local EXCEPT !.cart = Empty(subs[s].branch)]
    /\ LET t == [tab EXCEPT !.lines = {}]
       IN  tab' = IF tab.page = "blank" THEN tab ELSE Mount(t, "pay")
    /\ pay' = IF tab.page = "blank" THEN pay
              ELSE [PollOff EXCEPT !.sub = s, !.state = "asking"]
    /\ UNCHANGED hist

\* A refusal, or a connection that breaks after the order was taken: the page
\* shows the error and the button works again.
SubmitFails(s) ==
    /\ subs[s].state \in {"sent", "ordered", "refused"}
    /\ subs' = [subs EXCEPT ![s].state = IF @ = "ordered" THEN "lost" ELSE "failed"]
    /\ tab' = [tab EXCEPT !.busy = @ /\ ~subs[s].mounted]
    /\ UNCHANGED <<local, pay, hist>>

(***************************************************************************)
(* The payment page asks for the order until it is confirmed or its        *)
(* payment failed, for at most MAX_POLL_MS; the first error ends it.  It   *)
(* asks in the name of the branch that is active now.                      *)
(***************************************************************************)
PollAnswered ==
    /\ tab.page = "pay" /\ pay.state = "asking"
    /\ pay' = IF tab.active # subs[pay.sub].branch THEN [pay EXCEPT !.state = "error"]
              ELSE [pay EXCEPT !.shown = subs[pay.sub].status,
                               !.state = IF subs[pay.sub].status \in Final THEN "stopped"
                                         ELSE IF pay.rounds >= MaxPolls THEN "timeout"
                                         ELSE "waiting"]
    /\ UNCHANGED <<local, tab, subs, hist>>

PollFails ==
    /\ tab.page = "pay" /\ pay.state = "asking"
    /\ pay' = [pay EXCEPT !.state = "error"]
    /\ UNCHANGED <<local, tab, subs, hist>>

PollAgain ==
    /\ tab.page = "pay" /\ pay.state = "waiting"
    /\ pay' = [pay EXCEPT !.state = "asking", !.rounds = @ + 1]
    /\ UNCHANGED <<local, tab, subs, hist>>

\* The order goes on behind the tab's back.
OrderGoesOn(s) ==
    /\ subs[s].state \in {"ordered", "answered", "lost"}
    /\ \E next \in CASE subs[s].status = "payment_pending" -> Final \cup {"cancelled"}
                     [] subs[s].status = "confirmed" -> {"processing"}
                     [] OTHER -> {} :
          subs' = [subs EXCEPT ![s].status = next]
    /\ UNCHANGED <<local, tab, pay, hist>>

Answers == \/ BranchesListed \/ BranchesFail \/ Located \/ Resolved
           \/ \E r \in tab.asks : ProductFails(r) \/ \E i \in BOOLEAN : ProductAnswered(r, i)

Orders == \E s \in DOMAIN subs :
              \/ OrderAccepted(s) \/ OrderRefused(s)
              \/ SubmitAnswered(s) \/ SubmitFails(s)

Polls == PollAnswered \/ PollFails \/ PollAgain

Customer ==
    \/ \E b \in Branches : SelectBranch(b)
    \/ \E p \in (Open \cup Protected) \ {"pay", "return"} : Visit(p)
    \/ \E p \in {"shop", "checkout", "return"} : Reload(p)
    \/ Login \/ AddToCart \/ Submit
    \/ \E u \in tab.lines : SetQuantity(u)

Environment ==
    \/ \E b \in Branches : OtherTabCart(b) \/ OtherTabBranch(b)
    \/ \E s \in DOMAIN subs : OrderGoesOn(s)

Next == Answers \/ Orders \/ Polls \/ Customer \/ Environment

Spec == Init /\ [][Next]_vars

-----------------------------------------------------------------------------
\* A cart only holds products of its own branch, and their own variants, although
\* the branch can change while a product is loading: only a product with nothing in
\* stock can be put in the cart with the variant that was selected before it
\* (ProductDetailPage keeps `selected` when it finds no variant in stock).
CartSellsOwnBranch ==
    \A b \in Branches : \A u \in local.cart[b] :
        u.product = b /\ (u.variant = b \/ ~u.instock)

\* What an answered order took is in no cart any more and cannot be ordered from this
\* tab again, whichever branch was active when the answer came.
AnsweredUnitsStayOut ==
    \A s \in DOMAIN subs : subs[s].state = "answered" =>
        subs[s].units \cap (local.cart[subs[s].branch] \cup tab.lines) = {}
=============================================================================

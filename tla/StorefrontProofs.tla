-------------------------- MODULE StorefrontProofs --------------------------
(***************************************************************************)
(* Theorems about Storefront for every set of branches and every bound on  *)
(* units, orders and changes of branch: a cart sells its own branch, and   *)
(* what was ordered stays out of the cart.                                 *)
(***************************************************************************)
EXTENDS Storefront, TLAPS

(* ---- types, as far as the properties need them ---- *)

TabFields == {"active", "listed", "boot", "session", "page", "want", "lines", "product",
              "instock", "selected", "asks", "busy"}
Ask == [branch : Branches, live : BOOLEAN]

TypedTab(t) ==
    /\ DOMAIN t = TabFields
    /\ {t.active, t.selected} \subseteq Branches \cup {None} /\ t.instock \in BOOLEAN
    /\ t.page \in Page /\ t.want \in Protected
    /\ t.lines \subseteq Unit /\ t.asks \subseteq Ask

TypedLocal(l) == DOMAIN l = {"tenant", "cart"} /\ l.cart \in [Branches -> SUBSET Unit]
TypedHist(h) == DOMAIN h = {"made", "selects"} /\ h.made \in 0..MaxUnits

TypeOK == TypedTab(tab) /\ TypedLocal(local) /\ TypedHist(hist) /\ subs \in Seq(Sub)

(* ---- the invariant ---- *)

\* The tab shows lines, a product and requests of the branch it works for; only the
\* checkout is sure of a branch, and only a tab without one is blank.
OwnBranch(t) ==
    /\ \A u \in t.lines : u.product = t.active
    /\ t.product # None => t.product = t.active /\ (t.instock => t.selected = t.product)
    /\ \A r \in t.asks : r.live => r.branch = t.active
    /\ t.page # "product" => t.product = None /\ t.asks = {}
    /\ t.page = "checkout" => t.active # None
    /\ t.page = "blank" => t.active = None

\* An order is of one branch; without a branch nothing is under way.
OwnOrders ==
    /\ \A s \in DOMAIN subs : \A u \in subs[s].units : u.product = subs[s].branch
    /\ tab.active = None => \A s \in DOMAIN subs : ~InFlight(s)

\* A unit is in no place before it is made.
MadeInv ==
    /\ \A b \in Branches : \A u \in local.cart[b] : u.id <= hist.made
    /\ \A u \in tab.lines : u.id <= hist.made
    /\ \A s \in DOMAIN subs : \A u \in subs[s].units : u.id <= hist.made

IInv ==
    /\ TypeOK /\ OwnBranch(tab) /\ OwnOrders /\ MadeInv
    /\ CartSellsOwnBranch /\ AnsweredUnitsStayOut
-----------------------------------------------------------------------------
(* ---- the tab ---- *)

\* A page is mounted: the product and the requests of the page before are gone, and the
\* page that is shown is blank only without a branch.
LEMMA Mounting ==
    ASSUME NEW t, DOMAIN t = TabFields, t.active \in Branches \cup {None},
           t.lines \subseteq Unit, t.want \in Protected, \A u \in t.lines : u.product = t.active,
           NEW p \in Open \cup Protected
    PROVE  LET m == Mount(t, p)
           IN  TypedTab(m) /\ OwnBranch(m) /\ m.active = t.active /\ m.lines = t.lines
  <1> DEFINE left == [t EXCEPT !.product = None, !.instock = FALSE, !.selected = None,
                               !.asks = {}, !.busy = FALSE]
             m == Mount(t, p)
  <1>1. /\ DOMAIN left = TabFields /\ left.active = t.active /\ left.lines = t.lines
        /\ left.product = None /\ left.selected = None /\ left.instock = FALSE /\ left.asks = {} /\ left.want = t.want
    BY DEF TabFields
  <1> HIDE DEF left
  <1>2. CASE p \in Protected /\ ~t.session
    <2>1. m = [left EXCEPT !.page = "login", !.want = p]
      BY <1>2 DEF Mount, left
    <2>2. /\ DOMAIN m = TabFields /\ m.active = t.active /\ m.lines = t.lines
          /\ m.product = None /\ m.selected = None /\ m.instock = FALSE /\ m.asks = {}
          /\ m.page = "login" /\ m.want = p
      BY <1>1, <2>1 DEF TabFields
    <2> QED
      BY <1>2, <2>2 DEF TypedTab, OwnBranch, Page, Open
  <1>3. CASE ~(p \in Protected /\ ~t.session) /\ p \in Protected /\ t.active = None
    <2>1. m = [left EXCEPT !.page = "blank"]
      BY <1>3 DEF Mount, left
    <2>2. /\ DOMAIN m = TabFields /\ m.active = t.active /\ m.lines = t.lines
          /\ m.product = None /\ m.selected = None /\ m.instock = FALSE /\ m.asks = {}
          /\ m.page = "blank" /\ m.want = t.want
      BY <1>1, <2>1 DEF TabFields
    <2> QED
      BY <1>3, <2>2 DEF TypedTab, OwnBranch, Page
  <1>4. CASE p = "product" /\ t.active # None
    <2> DEFINE a == [branch |-> t.active, live |-> TRUE]
               e == EnterProduct(left, t.active)
    <2>1. m = [e EXCEPT !.page = p]
      BY <1>4 DEF Mount, left, Protected
    <2>2. e = [left EXCEPT !.product = None, !.asks = Cancel({}) \cup {a}]
      BY <1>1 DEF EnterProduct
    <2>3. a \in Ask /\ Cancel({}) = {} /\ a.branch = t.active
      BY <1>4 DEF Ask, Cancel
    <2> HIDE DEF a
    <2>4. /\ DOMAIN e = TabFields /\ e.active = t.active /\ e.lines = t.lines
          /\ e.product = None /\ e.selected = None /\ e.instock = FALSE /\ e.asks = {a} /\ e.want = t.want
      BY <1>1, <2>2, <2>3 DEF TabFields
    <2> HIDE DEF e
    <2>5. /\ DOMAIN m = TabFields /\ m.active = t.active /\ m.lines = t.lines
          /\ m.product = None /\ m.selected = None /\ m.instock = FALSE /\ m.asks = {a}
          /\ m.page = "product" /\ m.want = t.want
      BY <1>4, <2>1, <2>4 DEF TabFields
    <2> QED
      BY <1>4, <2>3, <2>5 DEF TypedTab, OwnBranch, Page, Open
  <1>5. CASE /\ ~(p \in Protected /\ ~t.session) /\ ~(p \in Protected /\ t.active = None)
             /\ ~(p = "product" /\ t.active # None)
    <2>1. m = [left EXCEPT !.page = p]
      BY <1>5 DEF Mount, left
    <2>2. /\ DOMAIN m = TabFields /\ m.active = t.active /\ m.lines = t.lines
          /\ m.product = None /\ m.selected = None /\ m.instock = FALSE /\ m.asks = {}
          /\ m.page = p /\ m.want = t.want
      BY <1>1, <2>1 DEF TabFields
    <2> QED
      BY <1>5, <2>2 DEF TypedTab, OwnBranch, Page, Open, Protected
  <1> QED
    BY <1>2, <1>3, <1>4, <1>5

\* The tab comes to work for branch b: it shows the stored cart of b, and a product page
\* asks again and drops what it has asked before.
LEMMA Scoping ==
    ASSUME IInv, NEW t, TypedTab(t), OwnBranch(t), t.page # "blank", NEW b \in Branches
    PROVE  LET m == InScope(t, b)
           IN  TypedTab(m) /\ OwnBranch(m) /\ m.active = b /\ m.lines = local.cart[b]
  <1> DEFINE s == [t EXCEPT !.active = b, !.lines = local.cart[b]]
             m == InScope(t, b)
  <1>1. local.cart[b] \subseteq Unit /\ \A u \in local.cart[b] : u.product = b
    BY DEF IInv, TypeOK, TypedLocal, CartSellsOwnBranch
  <1>2. b # None
    BY BranchAssumption
  <1>3. /\ DOMAIN s = TabFields /\ s.active = b /\ s.lines = local.cart[b]
        /\ s.page = t.page /\ s.want = t.want /\ s.instock = t.instock
        /\ s.product = t.product /\ s.asks = t.asks /\ s.selected = t.selected
    BY DEF TypedTab, TabFields
  <1> HIDE DEF s
  <1>4. CASE t.page # "product"
    <2>1. m = s
      BY <1>4 DEF InScope, s
    <2>2. t.product = None /\ t.asks = {}
      BY <1>4 DEF OwnBranch
    <2>3. TypedTab(m)
      BY <1>1, <1>3, <2>1 DEF TypedTab
    <2>4. OwnBranch(m)
      BY <1>1, <1>2, <1>3, <1>4, <2>1, <2>2 DEF OwnBranch
    <2> QED
      BY <1>3, <2>1, <2>3, <2>4
  <1>5. CASE t.page = "product"
    <2> DEFINE a == [branch |-> b, live |-> TRUE]
               asks == Cancel(t.asks) \cup {a}
    <2>1. m = [s EXCEPT !.product = None, !.asks = asks]
      BY <1>3, <1>5 DEF InScope, EnterProduct, s
    <2>2. asks \subseteq Ask /\ \A r \in asks : r.live => r.branch = b
      <3>1. a \in Ask /\ a.branch = b
        BY DEF Ask
      <3>2. ASSUME NEW r \in Cancel(t.asks) PROVE r \in Ask /\ r.live = FALSE
        <4>1. PICK q \in t.asks : r = [q EXCEPT !.live = FALSE]
          BY DEF Cancel
        <4>2. q \in Ask
          BY DEF TypedTab
        <4> QED
          BY <4>1, <4>2 DEF Ask
      <3> HIDE DEF a
      <3> QED
        BY <3>1, <3>2
    <2> HIDE DEF asks
    <2>3. /\ DOMAIN m = TabFields /\ m.active = b /\ m.lines = local.cart[b]
          /\ m.page = t.page /\ m.want = t.want /\ m.instock = t.instock
          /\ m.product = None /\ m.asks = asks /\ m.selected = t.selected
      BY <1>3, <2>1 DEF TabFields
    <2> QED
      BY <1>1, <1>2, <1>5, <2>2, <2>3 DEF TypedTab, OwnBranch
  <1> QED
    BY <1>4, <1>5
-----------------------------------------------------------------------------
(* ---- steps that neither make nor order anything ---- *)

\* Orders that are not answered by the step.
Later ==
    /\ subs' \in Seq(Sub) /\ DOMAIN subs' = DOMAIN subs
    /\ \A s \in DOMAIN subs :
         /\ subs'[s].branch = subs[s].branch /\ subs'[s].units = subs[s].units
         /\ subs'[s].state = "answered" => subs[s].state = "answered"

\* The tab keeps its lines, or shows the stored cart of its branch, or none.
Shows ==
    \/ tab'.lines = tab.lines
    \/ tab'.active \in Branches /\ tab'.lines = local.cart[tab'.active]
    \/ tab'.lines = {}

LEMMA Quiet ==
    ASSUME IInv, TypedTab(tab'), OwnBranch(tab'), Shows, Later,
           TypedLocal(local'), local'.cart = local.cart,
           TypedHist(hist'), hist'.made = hist.made,
           tab'.active = None => \A s \in DOMAIN subs :
               subs'[s].state \notin {"sent", "ordered", "refused"}
    PROVE  IInv'
  <1>1. TypeOK'
    BY DEF TypeOK, Later
  <1>2. OwnOrders'
    BY DEF IInv, OwnOrders, Later, InFlight
  <1>3. CartSellsOwnBranch'
    BY DEF IInv, CartSellsOwnBranch
  <1>4. MadeInv'
    BY DEF IInv, MadeInv, Later, Shows
  <1>5. AnsweredUnitsStayOut'
    <2> SUFFICES ASSUME NEW s \in DOMAIN subs, subs'[s].state = "answered",
                        NEW u \in subs[s].units, u \in local.cart[subs[s].branch] \/ u \in tab'.lines
                 PROVE  FALSE
      BY DEF AnsweredUnitsStayOut, Later
    <2>1. subs[s].state = "answered"
      BY DEF Later
    <2>2. u \notin local.cart[subs[s].branch] /\ u \notin tab.lines
      BY <2>1 DEF IInv, AnsweredUnitsStayOut
    <2>3. CASE tab'.active \in Branches /\ tab'.lines = local.cart[tab'.active]
      <3>1. u.product = subs[s].branch
        BY DEF IInv, OwnOrders
      <3>2. u \in local.cart[tab'.active] /\ u.product = tab'.active
        BY <2>2, <2>3 DEF IInv, CartSellsOwnBranch
      <3> QED
        BY <2>2, <3>1, <3>2
    <2> QED
      BY <2>2, <2>3 DEF Shows
  <1> QED
    BY <1>1, <1>2, <1>3, <1>4, <1>5 DEF IInv
-----------------------------------------------------------------------------
(* ---- the branch and the pages ---- *)

\* Only the tab changes.
LEMMA TabStep ==
    ASSUME IInv, UNCHANGED <<local, subs, hist>>, TypedTab(tab'), OwnBranch(tab'),
           tab'.lines = tab.lines, tab'.active = tab.active
    PROVE  IInv'
  <1>1. Later /\ Shows
    BY DEF IInv, TypeOK, Later, Shows
  <1>2. tab'.active = None => \A s \in DOMAIN subs :
            subs'[s].state \notin {"sent", "ordered", "refused"}
    BY DEF IInv, OwnOrders, InFlight
  <1> QED
    BY <1>1, <1>2, Quiet DEF IInv, TypeOK

\* Fields that no invariant is about.
LEMMA Kept ==
    ASSUME IInv, NEW t, DOMAIN t = TabFields, t.active = tab.active, t.lines = tab.lines,
           t.page = tab.page, t.want = tab.want, t.product = tab.product,
           t.instock = tab.instock, t.selected = tab.selected, t.asks = tab.asks
    PROVE  TypedTab(t) /\ OwnBranch(t)
  BY DEF IInv, TypeOK, TypedTab, OwnBranch

LEMMA BootFields ==
    ASSUME IInv, NEW x, NEW y
    PROVE  LET t == [tab EXCEPT !.listed = x, !.boot = y]
               u == [tab EXCEPT !.boot = y]
           IN  /\ TypedTab(t) /\ OwnBranch(t) /\ TypedTab(u) /\ OwnBranch(u)
               /\ t.active = tab.active /\ t.lines = tab.lines /\ t.page = tab.page
               /\ u.active = tab.active /\ u.lines = tab.lines /\ u.page = tab.page
  <1> DEFINE t == [tab EXCEPT !.listed = x, !.boot = y]
             u == [tab EXCEPT !.boot = y]
  <1>1. DOMAIN tab = TabFields
    BY DEF IInv, TypeOK, TypedTab
  <1>2. /\ DOMAIN t = TabFields /\ t.active = tab.active /\ t.lines = tab.lines
        /\ t.page = tab.page /\ t.want = tab.want /\ t.product = tab.product
        /\ t.instock = tab.instock /\ t.selected = tab.selected /\ t.asks = tab.asks
    BY <1>1 DEF TabFields
  <1>3. /\ DOMAIN u = TabFields /\ u.active = tab.active /\ u.lines = tab.lines
        /\ u.page = tab.page /\ u.want = tab.want /\ u.product = tab.product
        /\ u.instock = tab.instock /\ u.selected = tab.selected /\ u.asks = tab.asks
    BY <1>1 DEF TabFields
  <1> HIDE DEF t, u
  <1>4. TypedTab(t) /\ OwnBranch(t) /\ TypedTab(u) /\ OwnBranch(u)
    BY <1>2, <1>3, Kept
  <1> QED
    BY <1>2, <1>3, <1>4 DEF t, u

\* A change of branch, from whatever tab t the step makes of the present one.
LEMMA Scoped ==
    ASSUME IInv, NEW t, TypedTab(t), OwnBranch(t), t.page # "blank", NEW b \in Branches,
           tab' = InScope(t, b), local' = [local EXCEPT !.tenant = b],
           UNCHANGED subs, TypedHist(hist'), hist'.made = hist.made
    PROVE  IInv'
  <1>1. /\ TypedTab(tab') /\ OwnBranch(tab') /\ tab'.active = b
        /\ tab'.lines = local.cart[b]
    BY Scoping
  <1>2. TypedLocal(local') /\ local'.cart = local.cart
    BY DEF IInv, TypeOK, TypedLocal
  <1>3. Later /\ Shows
    BY <1>1 DEF IInv, TypeOK, Later, Shows
  <1>4. tab'.active # None
    BY <1>1, BranchAssumption
  <1> QED
    BY <1>1, <1>2, <1>3, <1>4, Quiet

LEMMA Adopting ==
    ASSUME IInv, NEW t, TypedTab(t), OwnBranch(t), t.page # "blank", NEW b \in Branches,
           t.active = tab.active, t.lines = tab.lines, Adopt(t, b)
    PROVE  IInv'
  <1>1. UNCHANGED <<subs, hist>> /\ local' = [local EXCEPT !.tenant = b]
    BY DEF Adopt
  <1>2. TypedHist(hist') /\ hist'.made = hist.made
    BY <1>1 DEF IInv, TypeOK
  <1>3. CASE t.active = b
    <2>1. tab' = t
      BY <1>3 DEF Adopt
    <2>2. TypedLocal(local') /\ local'.cart = local.cart
      BY <1>1 DEF IInv, TypeOK, TypedLocal
    <2>3. Later /\ Shows
      BY <1>1, <2>1 DEF IInv, TypeOK, Later, Shows
    <2>4. tab'.active # None
      BY <1>3, <2>1, BranchAssumption
    <2> QED
      BY <1>2, <2>1, <2>2, <2>3, <2>4, Quiet
  <1>4. CASE t.active # b
    <2>1. tab' = InScope(t, b)
      BY <1>4 DEF Adopt
    <2> QED
      BY <1>1, <1>2, <2>1, Scoped
  <1> QED
    BY <1>3, <1>4

LEMMA Booting ==
    ASSUME IInv, BranchesListed \/ BranchesFail \/ Located \/ Resolved
    PROVE  IInv'
  <1>1. CASE BranchesListed
    <2>1. CASE local.tenant \in Branches
      <3> DEFINE t == [tab EXCEPT !.listed = TRUE, !.boot = "ready"]
      <3>1. Adopt(t, local.tenant) /\ tab.page # "blank"
        BY <1>1, <2>1 DEF BranchesListed
      <3>2. /\ TypedTab(t) /\ OwnBranch(t) /\ t.active = tab.active /\ t.lines = tab.lines
            /\ t.page = tab.page
        BY ZenonT(30), BootFields
      <3> HIDE DEF t
      <3> QED
        BY <2>1, <3>1, <3>2, Adopting
    <2>2. CASE local.tenant \notin Branches
      <3> DEFINE t == [tab EXCEPT !.listed = TRUE, !.boot = "locate"]
      <3>1. tab' = t /\ UNCHANGED <<local, subs, hist>>
        BY <1>1, <2>2 DEF BranchesListed
      <3>2. TypedTab(t) /\ OwnBranch(t) /\ t.active = tab.active /\ t.lines = tab.lines
        BY BootFields
      <3> HIDE DEF t
      <3> QED
        BY <3>1, <3>2, TabStep
    <2> QED
      BY <2>1, <2>2
  <1>2. CASE BranchesFail \/ Located
    <2>1. /\ UNCHANGED <<local, subs, hist>>
          /\ tab' = [tab EXCEPT !.boot = "error"] \/ tab' = [tab EXCEPT !.boot = "nearest"]
      BY <1>2 DEF BranchesFail, Located
    <2> QED
      BY ZenonT(30), <2>1, BootFields, TabStep
  <1>3. CASE Resolved
    <2>1. PICK b \in Branches : Adopt([tab EXCEPT !.boot = "ready"], b)
      BY <1>3, BranchAssumption DEF Resolved
    <2>2. tab.page # "blank"
      BY <1>3 DEF Resolved
    <2> QED
      BY <2>1, <2>2, BootFields, Adopting
  <1> QED
    BY <1>1, <1>2, <1>3

LEMMA Selecting ==
    ASSUME IInv, NEW b \in Branches, SelectBranch(b)
    PROVE  IInv'
  <1>1. /\ local' = [local EXCEPT !.tenant = b] /\ UNCHANGED subs
        /\ hist' = [hist EXCEPT !.selects = @ + 1] /\ tab.page # "blank"
    BY DEF SelectBranch
  <1>2. TypedHist(hist') /\ hist'.made = hist.made
    BY <1>1 DEF IInv, TypeOK, TypedHist
  <1>3. CASE tab.active = b
    <2>1. tab' = tab
      BY <1>3 DEF SelectBranch
    <2>2. TypedLocal(local') /\ local'.cart = local.cart
      BY <1>1 DEF IInv, TypeOK, TypedLocal
    <2>3. Later /\ Shows /\ TypedTab(tab') /\ OwnBranch(tab')
      BY <1>1, <2>1 DEF IInv, TypeOK, Later, Shows
    <2>4. tab'.active # None
      BY <1>3, <2>1, BranchAssumption
    <2> QED
      BY <1>2, <2>2, <2>3, <2>4, Quiet
  <1>4. CASE tab.active # b
    <2>1. tab' = InScope(tab, b)
      BY <1>4 DEF SelectBranch
    <2>2. TypedTab(tab) /\ OwnBranch(tab)
      BY DEF IInv, TypeOK
    <2> QED
      BY <1>1, <1>2, <2>1, <2>2, Scoped
  <1> QED
    BY <1>3, <1>4
-----------------------------------------------------------------------------
(* ---- orders ---- *)

LEMMA SubsTyped ==
    ASSUME IInv
    PROVE  /\ Len(subs) \in Nat /\ DOMAIN subs = 1..Len(subs)
           /\ \A s \in DOMAIN subs : subs[s] \in Sub
  BY DEF IInv, TypeOK

\* A sequence of orders, given by what becomes of each.
LEMMA Rewritten ==
    ASSUME IInv, NEW f, subs' = [s \in DOMAIN subs |-> f[s]],
           \A s \in DOMAIN subs : f[s] \in Sub
    PROVE  subs' \in Seq(Sub) /\ DOMAIN subs' = DOMAIN subs /\ \A s \in DOMAIN subs : subs'[s] = f[s]
  <1>1. Len(subs) \in Nat /\ DOMAIN subs = 1..Len(subs)
    BY SubsTyped
  <1>2. subs' = [s \in 1..Len(subs) |-> f[s]] /\ \A s \in 1..Len(subs) : f[s] \in Sub
    BY <1>1
  <1>3. subs' \in [1..Len(subs) -> Sub]
    BY <1>2
  <1>4. subs' \in Seq(Sub)
    BY <1>1, <1>3
  <1> QED
    BY <1>1, <1>2, <1>4

\* One order changes.
LEMMA OneSub ==
    ASSUME IInv, NEW s \in DOMAIN subs, NEW r \in Sub, subs' = [subs EXCEPT ![s] = r]
    PROVE  /\ subs' \in Seq(Sub) /\ DOMAIN subs' = DOMAIN subs
           /\ subs'[s] = r /\ \A n \in DOMAIN subs \ {s} : subs'[n] = subs[n]
  <1> DEFINE f == [n \in DOMAIN subs |-> IF n = s THEN r ELSE subs[n]]
  <1>1. \A n \in DOMAIN subs : f[n] \in Sub
    BY SubsTyped
  <1>2. subs' = [n \in DOMAIN subs |-> f[n]]
    BY SubsTyped
  <1> HIDE DEF f
  <1>3. /\ subs' \in Seq(Sub) /\ DOMAIN subs' = DOMAIN subs
        /\ \A n \in DOMAIN subs : subs'[n] = f[n]
    BY <1>1, <1>2, Rewritten
  <1> QED
    BY <1>3 DEF f

\* An order's own fields change, and nothing of the tab but whether its button works.
LEMMA SubStep ==
    ASSUME IInv, NEW s \in DOMAIN subs, NEW r \in Sub, subs' = [subs EXCEPT ![s] = r],
           r.branch = subs[s].branch, r.units = subs[s].units,
           r.state = "answered" => subs[s].state = "answered",
           r.state \in {"sent", "ordered", "refused"} => InFlight(s),
           UNCHANGED <<local, hist>>, TypedTab(tab'), OwnBranch(tab'),
           tab'.lines = tab.lines, tab'.active = tab.active
    PROVE  IInv'
  <1>1. /\ subs' \in Seq(Sub) /\ DOMAIN subs' = DOMAIN subs
        /\ subs'[s] = r /\ \A n \in DOMAIN subs \ {s} : subs'[n] = subs[n]
    BY OneSub
  <1>2. Later /\ Shows
    BY <1>1 DEF Later, Shows
  <1>3. tab'.active = None => \A n \in DOMAIN subs :
            subs'[n].state \notin {"sent", "ordered", "refused"}
    BY <1>1 DEF IInv, OwnOrders, InFlight
  <1> QED
    BY <1>2, <1>3, Quiet DEF IInv, TypeOK

LEMMA Serving ==
    ASSUME IInv, NEW s \in DOMAIN subs, OrderAccepted(s) \/ OrderRefused(s)
    PROVE  IInv'
  <1>1. PICK st \in {"ordered", "refused"} : subs' = [subs EXCEPT ![s].state = st]
    BY DEF OrderAccepted, OrderRefused
  <1>2. subs[s].state = "sent" /\ UNCHANGED <<local, tab, hist>>
    BY DEF OrderAccepted, OrderRefused
  <1> DEFINE r == [subs[s] EXCEPT !.state = st]
  <1>3. subs' = [subs EXCEPT ![s] = r]
    BY <1>1
  <1>4. r \in Sub /\ r.branch = subs[s].branch /\ r.units = subs[s].units /\ r.state = st
    <2>1. subs[s] \in Sub /\ st \in SubState
      BY SubsTyped DEF SubState
    <2> QED
      BY <2>1 DEF Sub
  <1> HIDE DEF r
  <1>5. InFlight(s)
    BY <1>2 DEF InFlight
  <1> QED
    BY <1>2, <1>3, <1>4, <1>5, SubStep DEF IInv, TypeOK

LEMMA Failing ==
    ASSUME IInv, NEW s \in DOMAIN subs, SubmitFails(s)
    PROVE  IInv'
  <1> DEFINE st == IF subs[s].state = "ordered" THEN "lost" ELSE "failed"
             r == [subs[s] EXCEPT !.state = st]
             t == [tab EXCEPT !.busy = @ /\ ~subs[s].mounted]
  <1>1. subs' = [subs EXCEPT ![s] = r]
    BY DEF SubmitFails
  <1>2. r \in Sub /\ r.branch = subs[s].branch /\ r.units = subs[s].units /\ r.state = st
    <2>1. subs[s] \in Sub /\ st \in SubState
      BY SubsTyped DEF SubState
    <2> HIDE DEF st
    <2> QED
      BY <2>1 DEF Sub
  <1>3. TypedTab(t) /\ OwnBranch(t) /\ t.lines = tab.lines /\ t.active = tab.active
    <2>1. DOMAIN tab = TabFields
      BY DEF IInv, TypeOK, TypedTab
    <2>2. /\ DOMAIN t = TabFields /\ t.active = tab.active /\ t.lines = tab.lines
          /\ t.page = tab.page /\ t.want = tab.want /\ t.product = tab.product
          /\ t.instock = tab.instock /\ t.selected = tab.selected /\ t.asks = tab.asks
      BY <2>1 DEF TabFields
    <2> HIDE DEF t
    <2> QED
      BY <2>2, Kept
  <1>4. tab' = t /\ UNCHANGED <<local, hist>> /\ st \in {"lost", "failed"}
    BY DEF SubmitFails
  <1> HIDE DEF r, t, st
  <1> QED
    BY <1>1, <1>2, <1>3, <1>4, SubStep

LEMMA GoingOn ==
    ASSUME IInv, NEW s \in DOMAIN subs, OrderGoesOn(s)
    PROVE  IInv'
  <1>1. PICK su \in Status : subs' = [subs EXCEPT ![s].status = su]
    BY DEF OrderGoesOn, Status, Final
  <1> DEFINE r == [subs[s] EXCEPT !.status = su]
  <1>2. subs' = [subs EXCEPT ![s] = r] /\ UNCHANGED <<local, tab, hist>>
    BY <1>1 DEF OrderGoesOn
  <1>3. /\ r \in Sub /\ r.branch = subs[s].branch /\ r.units = subs[s].units
        /\ r.state = subs[s].state
    BY SubsTyped DEF Sub
  <1> HIDE DEF r
  <1> QED
    BY <1>2, <1>3, SubStep DEF IInv, TypeOK, InFlight
-----------------------------------------------------------------------------
(* ---- pages ---- *)

LEMMA TabType ==
    ASSUME IInv
    PROVE  /\ DOMAIN tab = TabFields /\ tab.active \in Branches \cup {None}
           /\ tab.lines \subseteq Unit /\ tab.want \in Protected
           /\ \A u \in tab.lines : u.product = tab.active
  BY DEF IInv, TypeOK, TypedTab, OwnBranch

\* The page that submitted is gone.
LEMMA Leaving ==
    ASSUME IInv, subs' = Leave
    PROVE  Later /\ \A s \in DOMAIN subs : subs'[s].state = subs[s].state
  <1> DEFINE f == [s \in DOMAIN subs |-> [subs[s] EXCEPT !.mounted = FALSE]]
  <1>1. subs' = [s \in DOMAIN subs |-> f[s]]
    BY DEF Leave
  <1>2. ASSUME NEW s \in DOMAIN subs
        PROVE  /\ f[s] \in Sub /\ f[s].branch = subs[s].branch /\ f[s].units = subs[s].units
               /\ f[s].state = subs[s].state
    BY SubsTyped DEF Sub
  <1> HIDE DEF f
  <1>3. /\ subs' \in Seq(Sub) /\ DOMAIN subs' = DOMAIN subs
        /\ \A s \in DOMAIN subs : subs'[s] = f[s]
    BY <1>1, <1>2, Rewritten
  <1> QED
    BY <1>2, <1>3 DEF Later

LEMMA Visiting ==
    ASSUME IInv, NEW p \in Open \cup Protected, Visit(p)
    PROVE  IInv'
  <1>1. tab' = Mount(tab, p) /\ subs' = Leave /\ UNCHANGED <<local, hist>>
    BY DEF Visit
  <1>2. /\ TypedTab(tab') /\ OwnBranch(tab') /\ tab'.active = tab.active
        /\ tab'.lines = tab.lines
    BY <1>1, TabType, Mounting
  <1>3. Later /\ \A s \in DOMAIN subs : subs'[s].state = subs[s].state
    BY <1>1, Leaving
  <1>4. tab'.active = None => \A s \in DOMAIN subs :
            subs'[s].state \notin {"sent", "ordered", "refused"}
    BY <1>2, <1>3 DEF IInv, OwnOrders, InFlight
  <1>5. Shows
    BY <1>2 DEF Shows
  <1> QED
    BY <1>1, <1>2, <1>3, <1>4, <1>5, Quiet DEF IInv, TypeOK

LEMMA Reloading ==
    ASSUME IInv, NEW p \in Open \cup Protected, Reload(p)
    PROVE  IInv'
  <1> DEFINE f == [s \in DOMAIN subs |->
                     [subs[s] EXCEPT !.mounted = FALSE,
                                     !.state = IF @ = "ordered" THEN "lost"
                                               ELSE IF InFlight(s) THEN "failed" ELSE @]]
  <1>1. PICK keeps \in {tab.session, FALSE} : tab' = Mount(Loaded("shop", keeps), p)
    BY DEF Reload
  <1>2. subs' = [s \in DOMAIN subs |-> f[s]] /\ UNCHANGED <<local, hist>>
    BY DEF Reload
  <1>3. ASSUME NEW s \in DOMAIN subs
        PROVE  /\ f[s] \in Sub /\ f[s].branch = subs[s].branch /\ f[s].units = subs[s].units
               /\ f[s].state \notin {"sent", "ordered", "refused"}
               /\ f[s].state = "answered" => subs[s].state = "answered"
    <2> DEFINE st == IF subs[s].state = "ordered" THEN "lost"
                     ELSE IF InFlight(s) THEN "failed" ELSE subs[s].state
    <2>1. subs[s] \in Sub
      BY SubsTyped
    <2>2. /\ st \in SubState /\ st \notin {"sent", "ordered", "refused"}
          /\ st = "answered" => subs[s].state = "answered"
      BY <2>1 DEF InFlight, Sub, SubState
    <2>3. f[s] = [subs[s] EXCEPT !.mounted = FALSE, !.state = st]
      OBVIOUS
    <2> HIDE DEF st, f
    <2>4. /\ f[s] \in Sub /\ f[s].branch = subs[s].branch /\ f[s].units = subs[s].units
          /\ f[s].state = st
      BY <2>1, <2>2, <2>3 DEF Sub
    <2> QED
      BY <2>2, <2>4
  <1> HIDE DEF f
  <1>4. /\ subs' \in Seq(Sub) /\ DOMAIN subs' = DOMAIN subs
        /\ \A s \in DOMAIN subs : subs'[s] = f[s]
    BY <1>2, <1>3, Rewritten
  <1>5. Later /\ \A s \in DOMAIN subs : subs'[s].state \notin {"sent", "ordered", "refused"}
    BY <1>3, <1>4 DEF Later
  <1>6. TypedTab(tab') /\ OwnBranch(tab') /\ tab'.lines = {}
    <2> DEFINE t == Loaded("shop", keeps)
    <2>1. /\ DOMAIN t = TabFields /\ t.active = None /\ t.lines = {} /\ t.want = "checkout"
      BY DEF Loaded, TabFields
    <2> HIDE DEF t
    <2>2. t.want \in Protected
      BY <2>1 DEF Protected
    <2> QED
      BY <1>1, <2>1, <2>2, Mounting DEF t
  <1>7. Shows
    BY <1>6 DEF Shows
  <1> QED
    BY <1>2, <1>5, <1>6, <1>7, Quiet DEF IInv, TypeOK

LEMMA SigningIn ==
    ASSUME IInv, Login
    PROVE  IInv'
  <1> DEFINE t == [tab EXCEPT !.session = TRUE]
             m == Mount(t, t.want)
  <1>1. tab' = [m EXCEPT !.want = "checkout"] /\ UNCHANGED <<local, subs, hist>>
    BY DEF Login
  <1>2. /\ DOMAIN t = TabFields /\ t.active = tab.active /\ t.lines = tab.lines
        /\ t.want = tab.want
    BY TabType DEF TabFields
  <1> HIDE DEF t
  <1>3. TypedTab(m) /\ OwnBranch(m) /\ m.active = tab.active /\ m.lines = tab.lines
    BY <1>2, TabType, Mounting
  <1> HIDE DEF m
  <1>4. /\ DOMAIN tab' = TabFields /\ tab'.active = m.active /\ tab'.lines = m.lines
        /\ tab'.page = m.page /\ tab'.want = "checkout" /\ tab'.product = m.product
        /\ tab'.instock = m.instock /\ tab'.selected = m.selected /\ tab'.asks = m.asks
    BY <1>1, <1>3 DEF TypedTab, TabFields
  <1>5. TypedTab(tab') /\ OwnBranch(tab')
    BY <1>3, <1>4 DEF TypedTab, OwnBranch, Protected
  <1> QED
    BY <1>1, <1>3, <1>4, <1>5, TabStep
-----------------------------------------------------------------------------
(* ---- the product ---- *)

LEMMA Answering ==
    ASSUME IInv, NEW r \in tab.asks, NEW i \in BOOLEAN, ProductFails(r) \/ ProductAnswered(r, i)
    PROVE  IInv'
  <1> DEFINE t == [tab EXCEPT !.asks = @ \ {r}]
  <1>1. UNCHANGED <<local, subs, hist>>
    BY DEF ProductFails, ProductAnswered
  <1>2. /\ DOMAIN t = TabFields /\ t.active = tab.active /\ t.lines = tab.lines
        /\ t.page = tab.page /\ t.want = tab.want /\ t.product = tab.product
        /\ t.instock = tab.instock /\ t.selected = tab.selected /\ t.asks = tab.asks \ {r}
    BY TabType DEF TabFields
  <1>3. \/ tab' = t
        \/ r.live /\ tab' = [t EXCEPT !.product = r.branch, !.instock = i,
                                      !.selected = IF i THEN r.branch ELSE @]
    BY DEF ProductFails, ProductAnswered
  <1> HIDE DEF t
  <1>4. TypedTab(t) /\ OwnBranch(t)
    BY <1>2 DEF IInv, TypeOK, TypedTab, OwnBranch
  <1>5. CASE tab' = t
    BY <1>1, <1>2, <1>4, <1>5, TabStep
  <1>6. CASE r.live /\ tab' = [t EXCEPT !.product = r.branch, !.instock = i,
                                        !.selected = IF i THEN r.branch ELSE @]
    <2>1. /\ DOMAIN tab' = TabFields /\ tab'.active = t.active /\ tab'.lines = t.lines
          /\ tab'.page = t.page /\ tab'.want = t.want /\ tab'.product = r.branch
          /\ tab'.instock = i /\ (i => tab'.selected = r.branch) /\ tab'.asks = t.asks
          /\ tab'.selected \in {t.selected, r.branch}
      BY <1>2, <1>6 DEF TabFields
    <2>2. r.branch = tab.active /\ tab.page = "product"
      BY <1>6 DEF IInv, OwnBranch
    <2>3. TypedTab(tab')
      BY <1>4, <2>1, <2>2, TabType DEF TypedTab
    <2>4. OwnBranch(tab')
      BY <1>2, <1>4, <2>1, <2>2 DEF OwnBranch
    <2> QED
      BY <1>1, <1>2, <2>1, <2>3, <2>4, TabStep
  <1> QED
    BY <1>3, <1>5, <1>6
-----------------------------------------------------------------------------
(* ---- the cart ---- *)

LEMMA CartType ==
    ASSUME IInv
    PROVE  /\ DOMAIN local = {"tenant", "cart"} /\ local.cart \in [Branches -> SUBSET Unit]
           /\ hist.made \in 0..MaxUnits /\ MaxUnits \in Nat
           /\ DOMAIN hist = {"made", "selects"}
  BY BranchAssumption DEF IInv, TypeOK, TypedLocal, TypedHist

\* The cart of branch b loses units, or gets one that has just been made.
LEMMA CartStep ==
    ASSUME IInv, NEW b \in Branches, NEW c \in SUBSET Unit, local' = [local EXCEPT !.cart[b] = c],
           \A u \in c : /\ u.product = b /\ (u.variant = b \/ ~u.instock)
                        /\ \/ u \in local.cart[b]
                           \/ u.id = hist.made + 1 /\ hist'.made = hist.made + 1,
           TypedHist(hist'), hist'.made >= hist.made, UNCHANGED subs,
           TypedTab(tab'), OwnBranch(tab'), tab'.active = tab.active,
           tab'.lines = tab.lines \/ (tab.active = b /\ tab'.lines = c)
    PROVE  IInv'
  <1>1. /\ DOMAIN local' = {"tenant", "cart"} /\ local'.cart = [local.cart EXCEPT ![b] = c]
    BY CartType
  <1>2. /\ local'.cart \in [Branches -> SUBSET Unit] /\ local'.cart[b] = c
        /\ \A d \in Branches \ {b} : local'.cart[d] = local.cart[d]
    BY <1>1, CartType
  <1>3. TypeOK'
    BY <1>1, <1>2 DEF IInv, TypeOK, TypedLocal
  <1>4. OwnOrders'
    BY DEF IInv, OwnOrders, InFlight
  <1>5. CartSellsOwnBranch'
    BY <1>2 DEF IInv, CartSellsOwnBranch
  <1>6. MadeInv'
    <2>1. hist.made \in Nat /\ hist'.made \in Nat
      BY CartType, BranchAssumption DEF TypedHist
    <2>2. \A u \in c : u.id <= hist'.made
      <3> SUFFICES ASSUME NEW u \in c PROVE u.id <= hist'.made
        OBVIOUS
      <3>1. u.id \in Nat
        BY DEF Unit
      <3>2. CASE u \in local.cart[b]
        BY <2>1, <3>1, <3>2 DEF IInv, MadeInv
      <3>3. CASE u.id = hist.made + 1 /\ hist'.made = hist.made + 1
        BY <2>1, <3>1, <3>3
      <3> QED
        BY <3>2, <3>3
    <2>3. \A d \in Branches : \A u \in local'.cart[d] : u.id <= hist'.made
      <3> SUFFICES ASSUME NEW d \in Branches \ {b}, NEW u \in local'.cart[d] PROVE u.id <= hist'.made
        BY <1>2, <2>2
      <3>1. u \in Unit /\ u.id <= hist.made
        BY <1>2, CartType DEF IInv, MadeInv
      <3> QED
        BY <2>1, <3>1 DEF Unit
    <2>4. \A u \in tab'.lines : u.id <= hist'.made
      <3> SUFFICES ASSUME NEW u \in tab'.lines, u \in tab.lines PROVE u.id <= hist'.made
        BY <2>2
      <3>1. u \in Unit /\ u.id <= hist.made
        BY TabType DEF IInv, MadeInv
      <3> QED
        BY <2>1, <3>1 DEF Unit
    <2>5. \A s \in DOMAIN subs : \A u \in subs[s].units : u.id <= hist'.made
      <3> SUFFICES ASSUME NEW s \in DOMAIN subs, NEW u \in subs[s].units PROVE u.id <= hist'.made
        OBVIOUS
      <3>1. u \in Unit /\ u.id <= hist.made
        BY SubsTyped DEF IInv, MadeInv, Sub
      <3> QED
        BY <2>1, <3>1 DEF Unit
    <2> QED
      BY <2>3, <2>4, <2>5 DEF MadeInv
  <1>7. AnsweredUnitsStayOut'
    <2> SUFFICES ASSUME NEW s \in DOMAIN subs, subs[s].state = "answered",
                        NEW u \in subs[s].units, u \in local'.cart[subs[s].branch] \/ u \in tab'.lines
                 PROVE  FALSE
      BY DEF AnsweredUnitsStayOut
    <2>1. u \notin local.cart[subs[s].branch] /\ u \notin tab.lines
      BY DEF IInv, AnsweredUnitsStayOut
    <2>2. u.product = subs[s].branch /\ u.id <= hist.made /\ u.id \in Nat
      BY SubsTyped DEF IInv, OwnOrders, MadeInv, Sub, Unit
    <2>3. u \notin c \/ subs[s].branch # b
      BY <2>1, <2>2, CartType
    <2>4. subs[s].branch \in Branches
      BY SubsTyped DEF Sub
    <2>5. CASE subs[s].branch = b
      BY <1>2, <2>1, <2>3, <2>5
    <2>6. CASE subs[s].branch # b
      BY <1>2, <2>1, <2>2, <2>4, <2>6
    <2> QED
      BY <2>5, <2>6
  <1> QED
    BY <1>3, <1>4, <1>5, <1>6, <1>7 DEF IInv

LEMMA LinesField ==
    ASSUME IInv, NEW c \in SUBSET Unit, \A u \in c : u.product = tab.active
    PROVE  LET t == [tab EXCEPT !.lines = c]
           IN  TypedTab(t) /\ OwnBranch(t) /\ t.active = tab.active /\ t.lines = c
                 /\ t.want = tab.want /\ DOMAIN t = TabFields
  <1> DEFINE t == [tab EXCEPT !.lines = c]
  <1>1. /\ DOMAIN t = TabFields /\ t.active = tab.active /\ t.lines = c
        /\ t.page = tab.page /\ t.want = tab.want /\ t.product = tab.product
        /\ t.instock = tab.instock /\ t.selected = tab.selected /\ t.asks = tab.asks
    BY TabType DEF TabFields
  <1> HIDE DEF t
  <1>2. TypedTab(t) /\ OwnBranch(t)
    BY <1>1 DEF IInv, TypeOK, TypedTab, OwnBranch
  <1> QED
    BY <1>1, <1>2 DEF t

LEMMA Adding ==
    ASSUME IInv, AddToCart
    PROVE  IInv'
  <1> DEFINE b == tab.active
             n == NewUnit(tab.product, tab.selected, tab.instock)
             c == local.cart[b] \cup {n}
  <1>1. /\ b \in Branches /\ tab.product = b /\ tab.selected \in Branches
        /\ tab.instock \in BOOLEAN /\ (tab.instock => tab.selected = b)
    BY DEF AddToCart, IInv, TypeOK, TypedTab, OwnBranch
  <1>2. hist.made + 1 \in 1..MaxUnits
    BY CartType DEF AddToCart
  <1>3. /\ n \in Unit /\ n.id = hist.made + 1 /\ n.product = b
        /\ (n.variant = b \/ ~n.instock)
    BY <1>1, <1>2 DEF NewUnit, Unit
  <1>4. /\ local' = [local EXCEPT !.cart[b] = c] /\ tab' = [tab EXCEPT !.lines = c]
        /\ hist' = [hist EXCEPT !.made = @ + 1] /\ UNCHANGED subs
    BY DEF AddToCart, Store
  <1>5. hist'.made = hist.made + 1 /\ TypedHist(hist')
    BY <1>2, <1>4, CartType DEF TypedHist
  <1> HIDE DEF n
  <1>6. c \in SUBSET Unit /\ \A u \in c : u.product = b /\ (u.variant = b \/ ~u.instock)
    BY <1>1, <1>3, CartType DEF IInv, CartSellsOwnBranch
  <1>7. \A u \in c : u \in local.cart[b] \/ u.id = hist.made + 1
    BY <1>3
  <1>8. hist'.made >= hist.made
    BY <1>5, CartType
  <1> HIDE DEF c
  <1>9. TypedTab(tab') /\ OwnBranch(tab') /\ tab'.active = b /\ tab'.lines = c
    BY <1>4, <1>6, LinesField
  <1> QED
    BY <1>1, <1>4, <1>5, <1>6, <1>7, <1>8, <1>9, CartStep

LEMMA SettingQuantity ==
    ASSUME IInv, NEW u \in tab.lines, SetQuantity(u)
    PROVE  IInv'
  <1> DEFINE b == tab.active
             cart == local.cart[b]
  <1>1. b \in Branches /\ UNCHANGED subs
    BY TabType DEF SetQuantity
  <1>2. CASE \E W \in SUBSET LineOf(cart, u) : Store(b, cart \ W) /\ UNCHANGED hist
    <2>1. PICK W \in SUBSET LineOf(cart, u) : Store(b, cart \ W) /\ UNCHANGED hist
      BY <1>2
    <2> DEFINE c == cart \ W
    <2>2. local' = [local EXCEPT !.cart[b] = c] /\ tab' = [tab EXCEPT !.lines = c]
      BY <2>1 DEF Store
    <2>3. /\ c \in SUBSET Unit
          /\ \A v \in c : v \in cart /\ v.product = b /\ (v.variant = b \/ ~v.instock)
      BY <1>1, CartType DEF IInv, CartSellsOwnBranch
    <2> HIDE DEF c
    <2>4. TypedTab(tab') /\ OwnBranch(tab') /\ tab'.active = b /\ tab'.lines = c
      BY <2>2, <2>3, LinesField
    <2>5. TypedHist(hist') /\ hist'.made >= hist.made
      BY <2>1, CartType DEF IInv, TypeOK
    <2> QED
      BY <1>1, <2>2, <2>3, <2>4, <2>5, CartStep
  <1>3. CASE \E w \in LineOf(cart, u) :
               /\ hist.made < MaxUnits
               /\ Store(b, cart \cup {NewUnit(w.product, w.variant, w.instock)})
               /\ hist' = [hist EXCEPT !.made = @ + 1]
    <2>1. PICK w \in cart :
               /\ hist.made < MaxUnits
               /\ Store(b, cart \cup {NewUnit(w.product, w.variant, w.instock)})
               /\ hist' = [hist EXCEPT !.made = @ + 1]
      BY <1>3 DEF LineOf
    <2> DEFINE n == NewUnit(w.product, w.variant, w.instock)
               c == cart \cup {n}
    <2>2. local' = [local EXCEPT !.cart[b] = c] /\ tab' = [tab EXCEPT !.lines = c]
      BY <2>1 DEF Store
    <2>3. hist.made + 1 \in 1..MaxUnits
      BY <2>1, CartType
    <2>4. w \in Unit /\ w.product = b /\ (w.variant = b \/ ~w.instock)
      BY <1>1, CartType DEF IInv, CartSellsOwnBranch
    <2>5. n \in Unit /\ n.id = hist.made + 1 /\ n.product = b /\ (n.variant = b \/ ~n.instock)
      BY <2>3, <2>4 DEF NewUnit, Unit
    <2>6. hist'.made = hist.made + 1 /\ TypedHist(hist') /\ hist'.made >= hist.made
      BY <2>1, <2>3, CartType DEF TypedHist
    <2> HIDE DEF n
    <2>7. /\ c \in SUBSET Unit /\ \A v \in c : v.product = b /\ (v.variant = b \/ ~v.instock)
          /\ \A v \in c : v \in cart \/ v.id = hist.made + 1
      BY <1>1, <2>5, CartType DEF IInv, CartSellsOwnBranch
    <2> HIDE DEF c
    <2>8. TypedTab(tab') /\ OwnBranch(tab') /\ tab'.active = b /\ tab'.lines = c
      BY <2>2, <2>7, LinesField
    <2> QED
      BY <1>1, <2>2, <2>6, <2>7, <2>8, CartStep
  <1> QED
    BY <1>2, <1>3 DEF SetQuantity

LEMMA OtherTab ==
    ASSUME IInv, NEW b \in Branches, OtherTabCart(b)
    PROVE  IInv'
  <1>1. TypedTab(tab') /\ OwnBranch(tab') /\ tab' = tab /\ UNCHANGED subs
    BY DEF OtherTabCart, IInv, TypeOK
  <1>2. CASE /\ hist.made < MaxUnits
             /\ local' = [local EXCEPT !.cart[b] = @ \cup {NewUnit(b, b, TRUE)}]
             /\ hist' = [hist EXCEPT !.made = @ + 1]
    <2> DEFINE n == NewUnit(b, b, TRUE)
               c == local.cart[b] \cup {n}
    <2>1. hist.made + 1 \in 1..MaxUnits
      BY <1>2, CartType
    <2>2. n \in Unit /\ n.id = hist.made + 1 /\ n.product = b /\ n.variant = b
      BY <2>1 DEF NewUnit, Unit
    <2>3. local' = [local EXCEPT !.cart[b] = c]
      BY <1>2, CartType
    <2>4. /\ hist'.made = hist.made + 1 /\ TypedHist(hist') /\ hist'.made >= hist.made
      BY <1>2, <2>1, CartType DEF TypedHist
    <2> HIDE DEF n
    <2>5. /\ c \in SUBSET Unit /\ \A u \in c : u.product = b /\ (u.variant = b \/ ~u.instock)
          /\ \A u \in c : u \in local.cart[b] \/ u.id = hist.made + 1
      BY <2>2, CartType DEF IInv, CartSellsOwnBranch
    <2> HIDE DEF c
    <2> QED
      BY <1>1, <2>3, <2>4, <2>5, CartStep
  <1>3. CASE local' = [local EXCEPT !.cart[b] = {}] /\ UNCHANGED hist
    <2> DEFINE c == {}
    <2>1. TypedHist(hist') /\ hist'.made >= hist.made
      BY <1>3, CartType DEF IInv, TypeOK
    <2>2. c \in SUBSET Unit /\ (\A u \in c : FALSE) /\ local' = [local EXCEPT !.cart[b] = c]
      BY <1>3
    <2>3. tab'.active = tab.active /\ tab'.lines = tab.lines
      BY <1>1
    <2> HIDE DEF c
    <2> QED
      BY <1>1, <2>1, <2>2, <2>3, CartStep
  <1> QED
    BY <1>2, <1>3 DEF OtherTabCart

LEMMA OtherBranch ==
    ASSUME IInv, NEW b \in Branches, OtherTabBranch(b)
    PROVE  IInv'
  <1>1. /\ local' = [local EXCEPT !.tenant = b] /\ hist' = [hist EXCEPT !.selects = @ + 1]
        /\ UNCHANGED <<tab, subs>>
    BY DEF OtherTabBranch
  <1>2. TypedHist(hist') /\ hist'.made = hist.made
    BY <1>1 DEF IInv, TypeOK, TypedHist
  <1>3. TypedLocal(local') /\ local'.cart = local.cart
    BY <1>1 DEF IInv, TypeOK, TypedLocal
  <1>4. Later /\ Shows /\ TypedTab(tab') /\ OwnBranch(tab')
    BY <1>1 DEF IInv, TypeOK, Later, Shows
  <1>5. tab'.active = None => \A s \in DOMAIN subs :
            subs'[s].state \notin {"sent", "ordered", "refused"}
    BY <1>1 DEF IInv, OwnOrders, InFlight
  <1> QED
    BY <1>2, <1>3, <1>4, <1>5, Quiet
-----------------------------------------------------------------------------
(* ---- the checkout ---- *)

\* The new order takes the lines that are shown, of the branch that is active.
LEMMA Submitting ==
    ASSUME IInv, Submit
    PROVE  IInv'
  <1> DEFINE q == [branch |-> tab.active, units |-> tab.lines, state |-> "sent",
                   mounted |-> TRUE, status |-> "payment_pending"]
             k == Len(subs) + 1
             t == [tab EXCEPT !.busy = TRUE]
  <1>1. subs' = Append(subs, q) /\ tab' = t /\ UNCHANGED <<local, hist>>
    BY DEF Submit
  <1>2. tab.active \in Branches
    BY TabType DEF Submit, IInv, OwnBranch
  <1>3. /\ q \in Sub /\ q.branch = tab.active /\ q.units = tab.lines /\ q.state = "sent"
    BY <1>2, TabType DEF Sub, SubState, Status
  <1> HIDE DEF q
  <1>4. /\ subs' \in Seq(Sub) /\ DOMAIN subs' = DOMAIN subs \cup {k} /\ k \notin DOMAIN subs
        /\ subs'[k] = q /\ \A s \in DOMAIN subs : subs'[s] = subs[s]
    <2>1. subs \in Seq(Sub)
      BY DEF IInv, TypeOK
    <2>2. Len(subs') = k /\ subs' \in Seq(Sub) /\ Len(subs) \in Nat
      BY <1>1, <1>3, <2>1
    <2>3. DOMAIN subs' = 1..k /\ DOMAIN subs = 1..Len(subs)
      BY <2>1, <2>2
    <2>4. subs'[k] = q /\ \A s \in DOMAIN subs : subs'[s] = subs[s]
      BY <1>1, <1>3, <2>1
    <2> QED
      BY <2>2, <2>3, <2>4
  <1> HIDE DEF k
  <1>5. TypedTab(tab') /\ OwnBranch(tab') /\ tab'.lines = tab.lines /\ tab'.active = tab.active
    <2>1. /\ DOMAIN t = TabFields /\ t.active = tab.active /\ t.lines = tab.lines
          /\ t.page = tab.page /\ t.want = tab.want /\ t.product = tab.product
          /\ t.instock = tab.instock /\ t.selected = tab.selected /\ t.asks = tab.asks
      BY TabType DEF TabFields
    <2> HIDE DEF t
    <2> QED
      BY <1>1, <2>1, Kept
  <1>6. TypeOK'
    BY <1>1, <1>4, <1>5 DEF IInv, TypeOK
  <1>7. OwnOrders'
    <2>1. \A s \in DOMAIN subs' : \A u \in subs'[s].units : u.product = subs'[s].branch
      BY <1>3, <1>4, TabType DEF IInv, OwnOrders
    <2>2. tab'.active # None
      BY <1>2, <1>5, BranchAssumption
    <2> QED
      BY <2>1, <2>2 DEF OwnOrders
  <1>8. MadeInv'
    BY <1>1, <1>3, <1>4, <1>5 DEF IInv, MadeInv
  <1>9. CartSellsOwnBranch'
    BY <1>1 DEF IInv, CartSellsOwnBranch
  <1>10. AnsweredUnitsStayOut'
    BY <1>1, <1>3, <1>4, <1>5 DEF IInv, AnsweredUnitsStayOut
  <1> QED
    BY <1>5, <1>6, <1>7, <1>8, <1>9, <1>10 DEF IInv

\* The cart the answer empties is the one the order was taken from; a unit of another
\* answered order cannot come back with it.
LEMMA Accepting ==
    ASSUME IInv, NEW s \in DOMAIN subs, SubmitAnswered(s)
    PROVE  IInv'
  <1> DEFINE b == subs[s].branch
             f == [n \in DOMAIN subs |->
                     [subs[n] EXCEPT !.mounted = FALSE,
                                     !.state = IF n = s THEN "answered" ELSE @]]
             t == [tab EXCEPT !.lines = {}]
             c == [local.cart EXCEPT ![b] = {}]
  <1>1. /\ subs' = [n \in DOMAIN subs |-> f[n]] /\ local' = [local EXCEPT !.cart = c]
        /\ subs[s].state = "ordered" /\ UNCHANGED hist
    BY DEF SubmitAnswered, Empty
  <1>2. b \in Branches /\ tab.active # None /\ tab.page # "blank"
    BY <1>1, SubsTyped DEF IInv, OwnOrders, InFlight, OwnBranch, Sub
  <1>3. tab' = Mount(t, "pay")
    BY <1>2 DEF SubmitAnswered
  <1>4. ASSUME NEW n \in DOMAIN subs
        PROVE  /\ f[n] \in Sub /\ f[n].branch = subs[n].branch /\ f[n].units = subs[n].units
               /\ f[n].state = IF n = s THEN "answered" ELSE subs[n].state
    <2> DEFINE st == IF n = s THEN "answered" ELSE subs[n].state
    <2>1. subs[n] \in Sub
      BY SubsTyped
    <2>2. st \in SubState
      BY <2>1 DEF Sub, SubState
    <2>3. f[n] = [subs[n] EXCEPT !.mounted = FALSE, !.state = st]
      OBVIOUS
    <2> HIDE DEF st, f
    <2>4. /\ f[n] \in Sub /\ f[n].branch = subs[n].branch /\ f[n].units = subs[n].units
          /\ f[n].state = st
      BY <2>1, <2>2, <2>3 DEF Sub
    <2> QED
      BY <2>4 DEF st
  <1> HIDE DEF f
  <1>5. /\ subs' \in Seq(Sub) /\ DOMAIN subs' = DOMAIN subs
        /\ \A n \in DOMAIN subs : subs'[n] = f[n]
    BY <1>1, <1>4, Rewritten
  <1>6. \A n \in DOMAIN subs :
           /\ subs'[n].branch = subs[n].branch /\ subs'[n].units = subs[n].units
           /\ subs'[n].state = IF n = s THEN "answered" ELSE subs[n].state
    BY <1>4, <1>5
  <1>7. /\ TypedLocal(local') /\ local'.cart = c /\ c[b] = {}
        /\ \A d \in Branches : c[d] \subseteq local.cart[d]
    <2>1. c \in [Branches -> SUBSET Unit] /\ c[b] = {} /\ \A d \in Branches : c[d] \subseteq local.cart[d]
      BY <1>2, CartType
    <2> HIDE DEF c
    <2> QED
      BY <1>1, <2>1, CartType DEF TypedLocal
  <1> HIDE DEF c
  <1>8. TypedTab(tab') /\ OwnBranch(tab') /\ tab'.active = tab.active /\ tab'.lines = {}
    <2>1. /\ DOMAIN t = TabFields /\ t.active = tab.active /\ t.lines = {} /\ t.want = tab.want
      BY TabType DEF TabFields
    <2> HIDE DEF t
    <2>2. "pay" \in Open \cup Protected
      BY DEF Protected
    <2> QED
      BY <1>3, <2>1, <2>2, TabType, Mounting
  <1>9. TypeOK'
    BY <1>1, <1>5, <1>7, <1>8 DEF IInv, TypeOK
  <1>10. OwnOrders'
    BY <1>2, <1>5, <1>6, <1>8 DEF IInv, OwnOrders
  <1>11. MadeInv'
    BY <1>1, <1>5, <1>6, <1>7, <1>8 DEF IInv, MadeInv
  <1>12. CartSellsOwnBranch'
    BY <1>7 DEF IInv, CartSellsOwnBranch
  <1>13. AnsweredUnitsStayOut'
    <2> SUFFICES ASSUME NEW n \in DOMAIN subs, n = s \/ subs[n].state = "answered"
                 PROVE  subs[n].units \cap c[subs[n].branch] = {}
      BY <1>5, <1>6, <1>7, <1>8 DEF AnsweredUnitsStayOut
    <2>1. subs[n].branch \in Branches
      BY SubsTyped DEF Sub
    <2> QED
      BY <1>7, <2>1 DEF IInv, AnsweredUnitsStayOut
  <1> QED
    BY <1>8, <1>9, <1>10, <1>11, <1>12, <1>13 DEF IInv
-----------------------------------------------------------------------------
(* ---- the specification ---- *)

LEMMA Unchanged ==
    ASSUME IInv, UNCHANGED <<local, tab, subs, hist>>
    PROVE  IInv'
  <1>1. TypedTab(tab') /\ OwnBranch(tab')
    BY DEF IInv, TypeOK
  <1> QED
    BY <1>1, TabStep

LEMMA Starting ==
    ASSUME Init
    PROVE  IInv
  <1>1. PICK x : local = [tenant |-> x, cart |-> [b \in Branches |-> {}]]
    BY DEF Init
  <1>2. /\ tab = Loaded("shop", FALSE) /\ subs = <<>> /\ hist = [made |-> 0, selects |-> 0]
    BY DEF Init
  <1>3. TypedTab(tab) /\ OwnBranch(tab) /\ tab.lines = {}
    <2>1. /\ DOMAIN tab = TabFields /\ tab.active = None /\ tab.selected = None
          /\ tab.instock = FALSE /\ tab.page = "shop" /\ tab.want = "checkout"
          /\ tab.lines = {} /\ tab.asks = {} /\ tab.product = None
      BY <1>2 DEF Loaded, TabFields
    <2> QED
      BY <2>1 DEF TypedTab, OwnBranch, Page, Open, Protected
  <1>4. TypedLocal(local) /\ \A b \in Branches : local.cart[b] = {}
    BY <1>1 DEF TypedLocal
  <1>5. TypedHist(hist) /\ subs \in Seq(Sub) /\ DOMAIN subs = {}
    BY <1>2, BranchAssumption DEF TypedHist
  <1> QED
    BY <1>3, <1>4, <1>5 DEF IInv, TypeOK, OwnOrders, MadeInv, CartSellsOwnBranch, AnsweredUnitsStayOut

LEMMA Stepping ==
    ASSUME IInv, [Next]_vars
    PROVE  IInv'
  <1>1. CASE UNCHANGED vars
    BY <1>1, Unchanged DEF vars
  <1>2. CASE Answers
    BY <1>2, Booting, Answering DEF Answers
  <1>3. CASE Orders
    BY <1>3, Serving, Accepting, Failing DEF Orders
  <1>4. CASE Polls
    BY <1>4, Unchanged DEF Polls, PollAnswered, PollFails, PollAgain
  <1>5. CASE Customer
    BY <1>5, Selecting, Visiting, Reloading, SigningIn, Adding, Submitting, SettingQuantity
    DEF Customer, Open, Protected
  <1>6. CASE Environment
    BY <1>6, OtherTab, OtherBranch, GoingOn DEF Environment
  <1> QED
    BY <1>1, <1>2, <1>3, <1>4, <1>5, <1>6 DEF Next

\* The tab, the carts and the orders keep to the branch they are of, however many
\* branches there are and whatever is changed while requests are under way.
THEOREM Invariance == Spec => []IInv
  <1>1. Init => IInv
    BY Starting
  <1>2. IInv /\ [Next]_vars => IInv'
    BY Stepping
  <1> QED
    BY <1>1, <1>2, PTL DEF Spec

\* A cart only holds products of its own branch: a late answer for a product of the
\* branch before never gets into the cart of the branch that is active.
THEOREM OwnBranchIsSold == Spec => []CartSellsOwnBranch
  <1>1. IInv => CartSellsOwnBranch
    BY DEF IInv
  <1> QED
    BY <1>1, Invariance, PTL

\* What an answered order took is in no cart any more, whatever was added, removed or
\* ordered in the meantime by this tab or another.
THEOREM OrderedUnitsStayOut == Spec => []AnsweredUnitsStayOut
  <1>1. IInv => AnsweredUnitsStayOut
    BY DEF IInv
  <1> QED
    BY <1>1, Invariance, PTL
=============================================================================

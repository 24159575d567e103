---------------------------- MODULE CategoryTree ----------------------------
(***************************************************************************)
(* The category tree of a tenant: the rows the catalog service keeps, and  *)
(* one administrator's page, which loads the tree once and from then on    *)
(* changes its own copy after every call it makes.  Other administrators   *)
(* move, create and delete through the same service.                       *)
(*                                                                         *)
(* A call first reads what it needs without a lock and then writes; a move *)
(* writes the row and the depths of its descendants in one transaction,    *)
(* and only locks the rows it writes.  There is no foreign key on the      *)
(* parent.                                                                 *)
(***************************************************************************)
EXTENDS Integers, Sequences, FiniteSets

CONSTANTS Nodes,     \* category ids
          Fresh,     \* those that do not exist at first
          Top,       \* no parent
          New,       \* the form of a category that is not saved yet
          Demo,      \* the picture the page fills in by itself
          MaxCalls,  \* bound: calls to the service
          MaxOther,  \* bound: calls of other administrators
          MaxEdits   \* bound: fields changed in the form, before the first call

ASSUME TreeAssumption ==
    /\ IsFiniteSet(Nodes) /\ Fresh \subseteq Nodes
    /\ Top \notin Nodes /\ New \notin Nodes \cup {Top}
    /\ Demo \notin Nat
    /\ {MaxCalls, MaxOther, MaxEdits} \subseteq Nat

VARIABLES rows,   \* the Categories table
          page,   \* the page: its copy of the tree and its form
          calls,  \* calls of the service, by number
          hist    \* history, for the properties

vars == <<rows, page, calls, hist>>

Fields == {"name", "extra", "image"}
Data == [Fields -> Nat \cup {Demo}]
NoData == [f \in Fields |-> 0]

(***************************************************************************)
(* Forests: a parent for each node of a domain.                            *)
(***************************************************************************)
Children(t, S) == {n \in DOMAIN t : t[n].parent \in S}

\* The nodes below n, n excluded unless n is on a cycle: the least set that holds n's
\* children and its own.
Closed(t, n, S) == Children(t, {n} \cup S) \subseteq S

Below(t, n) == {m \in DOMAIN t : \A S \in SUBSET DOMAIN t : Closed(t, n, S) => m \in S}

OnCycle(t, n) == n \in Below(t, n)

\* buildTree: a node whose parent is not in the list is shown as a root, and what
\* hangs on a cycle is under no root and is not shown.
Shown(t) ==
    LET up(n) == IF t[n].parent \in DOMAIN t THEN t[n].parent ELSE Top
        roots == {n \in DOMAIN t : up(n) = Top}
    IN  [n \in roots \cup UNION {Below(t, r) : r \in roots} |->
            [parent |-> up(n), data |-> t[n].data]]

Without(t, n) == [m \in DOMAIN t \ ({n} \cup Below(t, n)) |-> t[m]]

Insert(t, sub, n, p) ==
    IF p # Top /\ p \notin DOMAIN t THEN t
    ELSE [m \in DOMAIN t \cup DOMAIN sub |->
            IF m = n THEN [sub[n] EXCEPT !.parent = p]
            ELSE IF m \in DOMAIN sub THEN sub[m] ELSE t[m]]

\* Mutant of Moved: the children are not taken along.
MovedAlone(t, n, p) ==
    IF n \notin DOMAIN t THEN t ELSE Insert(Without(t, n), [m \in {n} |-> t[m]], n, p)

\* removeNode, then insertNode of what was removed, its children with it.
Moved(t, n, p) ==
    LET sub == [m \in {n} \cup Below(t, n) |-> t[m]]
    IN  IF n \notin DOMAIN t THEN t ELSE Insert(Without(t, n), sub, n, p)

\* The parents a forest shows.
Shape(t) == [n \in DOMAIN t |-> t[n].parent]

Init ==
    /\ \E up \in [Nodes \ Fresh -> (Nodes \ Fresh) \cup {Top}] :
         LET t == [n \in Nodes \ Fresh |-> [parent |-> up[n]]]
         IN  /\ \A n \in Nodes \ Fresh : ~OnCycle(t, n)
             /\ rows = [n \in Nodes \ Fresh |->
                         [parent |-> up[n], data |-> NoData,
                          depth |-> Cardinality({m \in Nodes \ Fresh : n \in Below(t, m)})]]
    /\ page = [loaded |-> FALSE, tree |-> <<>>, node |-> New, parent |-> Top, orig |-> Top,
               data |-> NoData, edits |-> 0]
    /\ calls = <<>>
    /\ hist = [crossed |-> FALSE, overlap |-> FALSE, drift |-> FALSE]

(***************************************************************************)
(* The service.  st: "sent", then "parent" and "looked" when the call has  *)
(* read its parent and its node, "writing" while a move's transaction is   *)
(* open, and "done" or "failed".                                           *)
(***************************************************************************)
Set(c, st) == calls' = [calls EXCEPT ![c].st = st]

Over(c) == [own |-> calls[c].own, kind |-> "over", st |-> "over",
            node |-> IF calls[c].kind = "create" THEN calls[c].node ELSE Top]

\* The service's answer; what another administrator does with it is not followed.
Done(c, st) ==
    calls' = [calls EXCEPT ![c] = IF @.own THEN [@ EXCEPT !.st = st] ELSE Over(c)]

\* Another call is between its first read and the end of its transaction.
Midway(c) == \E d \in DOMAIN calls \ {c} : calls[d].st \in {"parent", "looked", "writing"}

Wrote(c) ==
    hist' = [hist EXCEPT !.overlap = @ \/ Midway(c), !.drift = @ \/ ~calls[c].own]

Sent(c, kind) == calls[c].st = "sent" /\ calls[c].kind = kind

\* GetCategoryByIdAsync of the parent, for a create and for a move.
ReadParent(c) ==
    /\ calls[c].st = "sent" /\ calls[c].kind \in {"create", "move"}
    /\ LET p == calls[c].parent
           refused == \/ p # Top /\ p \notin DOMAIN rows
                      \/ calls[c].kind = "move" /\ p = calls[c].node
       IN  IF refused THEN Done(c, "failed")
           ELSE calls' = [calls EXCEPT ![c].st = "parent",
                                       ![c].pdepth = IF p = Top THEN -1 ELSE rows[p].depth]
    /\ UNCHANGED <<rows, page, hist>>

ReadNode(c) ==
    /\ calls[c].st = "parent" /\ calls[c].kind = "move"
    /\ IF calls[c].node \notin DOMAIN rows THEN Done(c, "failed")
       ELSE calls' = [calls EXCEPT ![c].st = "looked", ![c].ndepth = rows[calls[c].node].depth]
    /\ UNCHANGED <<rows, page, hist>>

InsertRow(c) ==
    /\ calls[c].st = "parent" /\ calls[c].kind = "create"
    /\ rows' = [n \in DOMAIN rows \cup {calls[c].node} |->
                  IF n = calls[c].node
                  THEN [parent |-> calls[c].parent, data |-> calls[c].data,
                        depth |-> calls[c].pdepth + 1]
                  ELSE rows[n]]
    /\ Done(c, "done")
    /\ Wrote(c)
    /\ UNCHANGED page

Reparented(c) ==
    [rows EXCEPT ![calls[c].node].parent = calls[c].parent]

Locked(n) == \E d \in DOMAIN calls : calls[d].st = "writing" /\ n \in calls[d].locked

\* Mutant of Ends: the query stops at a row it has seen.
EndsAlways(t, n) == TRUE

\* Whether the recursive query for what is below n ends.
Ends(t, n) == \A m \in {n} \cup Below(t, n) : ~OnCycle(t, m)

\* The two UPDATEs of a move: the row itself, then what the recursive query finds below
\* it.  On a cycle the query has no end and the statement is given up.
WriteMove(c) ==
    /\ calls[c].st = "looked"
    /\ LET n == calls[c].node
       IN  IF n \notin DOMAIN rows
           THEN calls' = [calls EXCEPT ![c].st = "writing", ![c].locked = {}]
           ELSE LET below == Below(Reparented(c), n)
                IN  /\ \A m \in {n} \cup below : ~Locked(m)
                    /\ IF ~Ends(Reparented(c), n) THEN Done(c, "failed")
                       ELSE calls' = [calls EXCEPT ![c].st = "writing",
                                                   ![c].locked = {n} \cup below]
    /\ hist' = [hist EXCEPT !.crossed = @ \/ \E d \in DOMAIN calls : calls[d].st = "writing"]
    /\ UNCHANGED <<rows, page>>

\* Mutant of Shifted: the depths of the descendants are left as they were.
ShiftedAlone(c) ==
    [m \in DOMAIN rows |->
        IF m = calls[c].node /\ m \in calls[c].locked
        THEN [rows[m] EXCEPT !.parent = calls[c].parent, !.depth = calls[c].pdepth + 1]
        ELSE rows[m]]

\* What the UPDATEs make of the rows they have locked.
Shifted(c) ==
    LET diff == calls[c].pdepth + 1 - calls[c].ndepth
    IN  [m \in DOMAIN rows |->
           IF m \notin calls[c].locked THEN rows[m]
           ELSE IF m = calls[c].node
                THEN [rows[m] EXCEPT !.parent = calls[c].parent, !.depth = calls[c].ndepth + diff]
                ELSE [rows[m] EXCEPT !.depth = @ + diff]]

CommitMove(c) ==
    /\ calls[c].st = "writing"
    /\ rows' = Shifted(c)
    /\ Done(c, "done")
    /\ Wrote(c)
    /\ UNCHANGED page

\* A change of the fields; an update never touches the parent.
UpdateRow(c) ==
    /\ Sent(c, "update")
    /\ LET n == calls[c].node
       IN  IF n \notin DOMAIN rows THEN Done(c, "failed") /\ UNCHANGED rows
           ELSE /\ ~Locked(n)
                /\ rows' = [rows EXCEPT ![n].data = calls[c].data]
                /\ Done(c, "done")
    /\ UNCHANGED <<page, hist>>

DeleteRows(c) ==
    /\ Sent(c, "delete")
    /\ LET n == calls[c].node
       IN  IF n \notin DOMAIN rows THEN Done(c, "failed") /\ UNCHANGED <<rows, hist>>
           ELSE /\ \A m \in {n} \cup Below(rows, n) : ~Locked(m)
                /\ Ends(rows, n)
                /\ rows' = Without(rows, n)
                /\ Done(c, "done")
                /\ Wrote(c)
    /\ UNCHANGED page

\* The order of siblings: the rows keep their parents.
SortRows(c) ==
    /\ Sent(c, "sort")
    /\ Done(c, "done")
    /\ UNCHANGED <<rows, page, hist>>

\* Validation, a foreign key of the products, or a broken connection.
Refuse(c) ==
    /\ calls[c].st = "sent"
    /\ Done(c, "failed")
    /\ UNCHANGED <<rows, page, hist>>

(***************************************************************************)
(* The page.                                                               *)
(***************************************************************************)
\* Selecting a node fills the form from the copy.  When it is another node than before,
\* a second effect then clears the pictures and puts the demo picture in.
Filled(p, n, data) ==
    [p EXCEPT !.node = n,
              !.data = IF n = p.node THEN data ELSE [data EXCEPT !["image"] = Demo]]

Opened(p, n) ==
    IF n \in DOMAIN p.tree
    THEN [Filled(p, n, p.tree[n].data) EXCEPT !.parent = p.tree[n].parent,
                                              !.orig = p.tree[n].parent]
    ELSE [Filled(p, n, NoData) EXCEPT !.parent = Top, !.orig = Top]

Blank(p, up) ==
    [p EXCEPT !.node = New, !.parent = up, !.orig = up, !.data = NoData]

\* The first root of the copy, or a blank form.
First(p) ==
    IF DOMAIN p.tree = {} THEN {Blank(p, Top)}
    ELSE {Opened(p, n) : n \in Children(p.tree, {Top})}

Load ==
    /\ ~page.loaded
    /\ page' \in First([page EXCEPT !.loaded = TRUE, !.tree = Shown(rows)])
    /\ UNCHANGED <<rows, calls, hist>>

Select(n) ==
    /\ page.loaded /\ n \in DOMAIN page.tree
    /\ page' = Opened(page, n)
    /\ UNCHANGED <<rows, calls, hist>>

AddUnder(p) ==
    /\ page.loaded /\ p \in DOMAIN page.tree \cup {Top}
    /\ page' = Blank(page, p)
    /\ UNCHANGED <<rows, calls, hist>>

Type(f) ==
    /\ page.loaded /\ page.edits < MaxEdits /\ calls = <<>>
    /\ page' = [page EXCEPT !.data[f] = page.edits + 1, !.edits = @ + 1]
    /\ UNCHANGED <<rows, calls, hist>>

\* The picker does not offer the node itself nor what is below it in the copy.
Offered == (DOMAIN page.tree \ ({page.node} \cup Below(page.tree, page.node))) \cup {Top}

PickParent(p) ==
    /\ page.loaded /\ p \in Offered
    /\ page' = [page EXCEPT !.parent = p]
    /\ UNCHANGED <<rows, calls, hist>>

\* tree and cur: what the handler holds of the copy and of the form while it waits.
Ask(own, kind, n, p) ==
    Append(calls, [own |-> own, kind |-> kind, node |-> n, parent |-> p,
                   data |-> IF own /\ kind \in {"create", "update"} THEN page.data ELSE NoData,
                   tree |-> IF own /\ kind \in {"move", "delete", "sort"} THEN page.tree ELSE <<>>,
                   cur |-> IF own /\ kind = "delete" THEN page.node ELSE New,
                   pdepth |-> -1, ndepth |-> 0, locked |-> {}, st |-> "sent"])

Pending == \E c \in DOMAIN calls : calls[c].own /\ calls[c].st # "over"

Click(kind, n, p) ==
    /\ page.loaded /\ Len(calls) < MaxCalls
    /\ calls' = Ask(TRUE, kind, n, p)
    /\ hist' = [hist EXCEPT !.drift = @ \/ Pending]
    /\ UNCHANGED <<rows, page>>

\* One button: it moves the node when the parent was changed, and then nothing else is
\* saved; otherwise it creates or updates.  It is not disabled while a call is under way.
Save ==
    \/ /\ page.node # New /\ page.parent # page.orig
       /\ Click("move", page.node, page.parent)
    \/ /\ page.node # New /\ page.parent = page.orig
       /\ Click("update", page.node, Top)
    \/ /\ page.node = New
       /\ \E n \in Fresh \ (DOMAIN rows \cup {calls[c].node : c \in DOMAIN calls}) :
             Click("create", n, page.parent)

Delete(n) == n \in DOMAIN page.tree /\ Click("delete", n, Top)

Sort == Children(page.tree, {Top}) # {} /\ Click("sort", Top, Top)

Discard ==
    /\ page.loaded
    /\ page' \in IF page.node = New THEN First(page) ELSE {[page EXCEPT !.parent = page.orig]}
    /\ UNCHANGED <<rows, calls, hist>>

\* The answers.  A move, a delete and a sort start from the copy as it was at the click;
\* of an update only the name gets into the copy.
Answer(c) ==
    /\ calls[c].own /\ calls[c].st = "done"
    /\ LET n == calls[c].node
           was == calls[c].tree
       IN  page' \in CASE calls[c].kind = "move" ->
                          IF n \in DOMAIN was
                          THEN {[page EXCEPT !.tree = Moved(was, n, calls[c].parent),
                                             !.orig = calls[c].parent]}
                          ELSE {page}
                     [] calls[c].kind = "create" ->
                          LET leaf == [m \in {n} |-> [parent |-> Top, data |-> calls[c].data]]
                              tree == Insert(page.tree, leaf, n, calls[c].parent)
                          IN  {Opened([page EXCEPT !.tree = tree], n)}
                     [] calls[c].kind = "update" ->
                          IF n \in DOMAIN page.tree
                          THEN {[page EXCEPT !.tree[n].data["name"] = calls[c].data["name"]]}
                          ELSE {page}
                     [] calls[c].kind = "delete" ->
                          LET p == [page EXCEPT !.tree = Without(was, n)]
                          IN  IF calls[c].cur = n THEN First(p) ELSE {p}
                     [] calls[c].kind = "sort" -> {[page EXCEPT !.tree = was]}
    /\ calls' = [calls EXCEPT ![c] = Over(c)]
    /\ UNCHANGED <<rows, hist>>

\* An error, or an answer that got lost: the copy stays as it is.
AnswerFails(c) ==
    /\ calls[c].own /\ calls[c].st \in {"failed", "done"}
    /\ calls' = [calls EXCEPT ![c] = Over(c)]
    /\ hist' = [hist EXCEPT !.drift = @ \/ calls[c].st = "done"]
    /\ UNCHANGED <<rows, page>>

\* Another administrator, whose copy is up to date at the click, moves or deletes.
OtherCall ==
    /\ Len(calls) < MaxCalls
    /\ Cardinality({c \in DOMAIN calls : ~calls[c].own}) < MaxOther
    /\ \/ \E n \in DOMAIN rows : \E p \in (DOMAIN rows \ ({n} \cup Below(rows, n))) \cup {Top} :
             calls' = Ask(FALSE, "move", n, p)
       \/ \E n \in DOMAIN rows : calls' = Ask(FALSE, "delete", n, Top)
    /\ UNCHANGED <<rows, page, hist>>

Serve(c) ==
    \/ ReadParent(c) \/ ReadNode(c) \/ InsertRow(c) \/ WriteMove(c) \/ CommitMove(c)
    \/ UpdateRow(c) \/ DeleteRows(c) \/ SortRows(c) \/ Refuse(c)

Admin ==
    \/ Load \/ Save \/ Discard \/ Sort
    \/ \E n \in Nodes : Select(n) \/ Delete(n)
    \/ \E p \in Nodes \cup {Top} : AddUnder(p) \/ PickParent(p)
    \/ \E f \in Fields : Type(f)

Next ==
    \/ \E c \in DOMAIN calls : Serve(c) \/ Answer(c) \/ AnswerFails(c)
    \/ Admin \/ OtherCall

Spec == Init /\ [][Next]_vars

-----------------------------------------------------------------------------
\* No category is below itself, and the tree keeps all of its rows, unless two moves were
\* in their transactions at the same time: the service checks nothing else, and a move
\* under a descendant ends in a query without end.
CycleNeedsCrossedMoves ==
    hist.crossed \/ (\A n \in DOMAIN rows : ~OnCycle(rows, n))

\* Depth is one more than the parent's, for descendants that were carried along too, as
\* long as no call wrote between another one's first read and the end of its transaction.
DepthFollowsParent ==
    hist.overlap \/
      \A n \in DOMAIN rows :
          rows[n].depth = IF rows[n].parent = Top THEN 0
                          ELSE IF rows[n].parent \in DOMAIN rows
                               THEN rows[rows[n].parent].depth + 1 ELSE -1

\* The page repeats each call on a copy it never loads again.  With none of its calls pending,
\* the parents the copy shows are those of the rows, as long as its calls did not overlap, no
\* answer was lost and nobody else wrote.  (Depths and the order of siblings are not in the copy.)
CopyHasTheShape ==
    page.loaded /\ ~Pending /\ ~hist.drift => Shape(page.tree) = Shape(Shown(rows))
=============================================================================

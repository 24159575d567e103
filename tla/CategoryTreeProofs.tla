-------------------------- MODULE CategoryTreeProofs --------------------------
(***************************************************************************)
(* Proofs about CategoryTree, for every set of categories, any number of   *)
(* calls and of other administrators.  First come facts about forests:     *)
(* Below is a least set, so what is below a node is shown by giving a set  *)
(* that is closed under children.  Then three invariants: which ids can be *)
(* mentioned anywhere (an id that is created hangs below nothing and has   *)
(* no children), what a call knows of the rows while nobody else writes,   *)
(* and how the page's copy compares to the rows.                           *)
(***************************************************************************)
EXTENDS CategoryTree, FiniteSetTheorems, WellFoundedInduction, SequenceTheorems, TLAPS

(* ---- forests ---- *)

Acyclic(t) == \A n \in DOMAIN t : ~OnCycle(t, n)

\* Every parent is there.
Rooted(t) == \A n \in DOMAIN t : t[n].parent \in DOMAIN t \cup {Top}

\* The same nodes with the same parents.
SameShape(t, u) ==
    DOMAIN t = DOMAIN u /\ \A n \in DOMAIN t : t[n].parent = u[n].parent

\* u is t with node n under p.
Hung(t, u, n, p) ==
    /\ DOMAIN t = DOMAIN u
    /\ \A m \in DOMAIN t : u[m].parent = IF m = n THEN p ELSE t[m].parent

\* What is below a node is there and closed, and is in every closed set.
LEMMA BelowClosed ==
    ASSUME NEW t, NEW n
    PROVE  /\ Below(t, n) \subseteq DOMAIN t
           /\ \A m \in DOMAIN t : t[m].parent \in {n} \cup Below(t, n) => m \in Below(t, n)
  <1>1. ASSUME NEW m \in DOMAIN t, t[m].parent \in {n} \cup Below(t, n)
        PROVE  m \in Below(t, n)
    <2>1. ASSUME NEW S \in SUBSET DOMAIN t, Closed(t, n, S)
          PROVE  m \in S
      <3>1. t[m].parent \in {n} \cup S
        BY <1>1, <2>1 DEF Below
      <3> QED
        BY <2>1, <3>1 DEF Closed, Children
    <2> QED
      BY <2>1 DEF Below
  <1> QED
    BY <1>1 DEF Below

LEMMA BelowLeast ==
    ASSUME NEW t, NEW n, NEW S, 
           \A m \in DOMAIN t : t[m].parent \in {n} \cup S => m \in S
    PROVE  Below(t, n) \subseteq S
  <1> DEFINE U == S \cap DOMAIN t
  <1>1. Closed(t, n, U)
    BY DEF Closed, Children
  <1> QED
    BY <1>1 DEF Below

\* A node is below n exactly if its parent is n or below n.
LEMMA BelowParent ==
    ASSUME NEW t, NEW n, NEW m \in Below(t, n)
    PROVE  m \in DOMAIN t /\ t[m].parent \in {n} \cup Below(t, n)
  <1> DEFINE S == {x \in Below(t, n) : t[x].parent \in {n} \cup Below(t, n)}
  <1>1. \A x \in DOMAIN t : t[x].parent \in {n} \cup S => x \in S
    BY BelowClosed
  <1> QED
    BY <1>1, BelowLeast, BelowClosed

LEMMA BelowTransitive ==
    ASSUME NEW t, NEW x, NEW y, NEW z, x \in Below(t, y), y \in Below(t, z)
    PROVE  x \in Below(t, z)
  <1>1. \A m \in DOMAIN t : t[m].parent \in {y} \cup Below(t, z) => m \in Below(t, z)
    BY BelowClosed
  <1> QED
    BY <1>1, BelowLeast

\* Fewer nodes with the parents they had have no more below them.
LEMMA BelowSmaller ==
    ASSUME NEW t, NEW u, NEW n,
           DOMAIN u \subseteq DOMAIN t, \A m \in DOMAIN u : u[m].parent = t[m].parent
    PROVE  Below(u, n) \subseteq Below(t, n)
  <1>1. \A m \in DOMAIN u : u[m].parent \in {n} \cup Below(t, n) => m \in Below(t, n)
    BY BelowClosed
  <1> QED
    BY <1>1, BelowLeast

LEMMA BelowSameShape ==
    ASSUME NEW t, NEW u, NEW n, SameShape(t, u)
    PROVE  Below(t, n) = Below(u, n)
  <1>1. Below(t, n) \subseteq Below(u, n)
    BY BelowSmaller DEF SameShape
  <1>2. Below(u, n) \subseteq Below(t, n)
    BY BelowSmaller DEF SameShape
  <1> QED
    BY <1>1, <1>2

LEMMA AcyclicSmaller ==
    ASSUME NEW t, NEW u, Acyclic(t),
           DOMAIN u \subseteq DOMAIN t, \A m \in DOMAIN u : u[m].parent = t[m].parent
    PROVE  Acyclic(u)
  BY BelowSmaller DEF Acyclic, OnCycle

LEMMA AcyclicSameShape ==
    ASSUME NEW t, NEW u, Acyclic(t), SameShape(t, u)
    PROVE  Acyclic(u)
  BY AcyclicSmaller DEF SameShape

\* A node without children can be added anywhere.
LEMMA AcyclicLeaf ==
    ASSUME NEW t, NEW u, NEW n, Acyclic(t), n \notin DOMAIN t,
           DOMAIN u = DOMAIN t \cup {n}, \A m \in DOMAIN t : u[m].parent = t[m].parent,
           \A m \in DOMAIN u : u[m].parent # n
    PROVE  Acyclic(u)
  <1>1. Below(u, n) \subseteq {}
    <2> DEFINE E == {}
    <2>1. \A m \in DOMAIN u : u[m].parent \in {n} \cup E => m \in E
      OBVIOUS
    <2> HIDE DEF E
    <2>2. Below(u, n) \subseteq E
      BY <2>1, BelowLeast
    <2> QED
      BY <2>2 DEF E
  <1>2. ASSUME NEW m \in DOMAIN t, m \in Below(u, m)
        PROVE  FALSE
    <2> DEFINE S == Below(t, m) \cup {n}
    <2>1. \A x \in DOMAIN u : u[x].parent \in {m} \cup S => x \in S
      BY BelowClosed
    <2> HIDE DEF S
    <2>2. Below(u, m) \subseteq S
      BY <2>1, BelowLeast
    <2> QED
      BY <1>2, <2>2 DEF Acyclic, OnCycle, S
  <1> QED
    BY <1>1, <1>2 DEF Acyclic, OnCycle

\* A cycle that a new parent closes goes through the node that was given it.
LEMMA AcyclicHung ==
    ASSUME NEW t, NEW u, NEW n, NEW p, Acyclic(t), Hung(t, u, n, p), ~OnCycle(u, n)
    PROVE  Acyclic(u)
  <1> SUFFICES ASSUME NEW m \in DOMAIN u, m \in Below(u, m)
               PROVE  FALSE
    BY DEF Acyclic, OnCycle
  <1> DEFINE B == Below(t, m) \cap Below(u, m)
             C == {n} \cup Below(u, n)
  <1>1. m # n
    BY DEF OnCycle
  <1>2. n \in Below(u, m) => m \notin Below(u, n)
    BY BelowTransitive DEF OnCycle
  <1>3. CASE n \in Below(u, m)
    <2>1. ASSUME NEW x \in DOMAIN u, u[x].parent \in {m} \cup (B \cup C)
          PROVE  x \in B \cup C
      <3>1. CASE u[x].parent \in C
        BY <3>1, BelowClosed
      <3>2. CASE u[x].parent \in {m} \cup B /\ x # n
        <4>1. t[x].parent \in {m} \cup Below(t, m) /\ x \in DOMAIN t
          BY <3>2 DEF Hung
        <4>2. x \in Below(t, m)
          BY <4>1, BelowClosed
        <4>3. x \in Below(u, m)
          BY <3>2, BelowClosed
        <4> QED
          BY <4>2, <4>3
      <3>3. CASE x = n
        BY <3>3
      <3> QED
        BY <2>1, <3>1, <3>2, <3>3
    <2> DEFINE S == B \cup C
    <2>2. \A x \in DOMAIN u : u[x].parent \in {m} \cup S => x \in S
      BY <2>1
    <2> HIDE DEF S
    <2>3. Below(u, m) \subseteq S
      BY <2>2, BelowLeast
    <2> QED
      BY <1>1, <1>2, <1>3, <2>3 DEF Acyclic, OnCycle, Hung, S
  <1>4. CASE n \notin Below(u, m)
    <2>1. ASSUME NEW x \in DOMAIN u, u[x].parent \in {m} \cup B
          PROVE  x \in B
      <3>1. x \in Below(u, m) /\ x # n
        BY <1>4, <2>1, BelowClosed
      <3>2. t[x].parent \in {m} \cup Below(t, m) /\ x \in DOMAIN t
        BY <2>1, <3>1 DEF Hung
      <3>3. x \in Below(t, m)
        BY <3>2, BelowClosed
      <3> QED
        BY <3>1, <3>3
    <2> DEFINE S == B
    <2>2. \A x \in DOMAIN u : u[x].parent \in {m} \cup S => x \in S
      BY <2>1
    <2> HIDE DEF S
    <2>3. Below(u, m) \subseteq S
      BY <2>2, BelowLeast
    <2> QED
      BY <1>1, <2>3 DEF Acyclic, OnCycle, Hung, S
  <1> QED
    BY <1>3, <1>4

\* What is below a node that is hung elsewhere was below it before and, when no cycle is
\* closed, is below it still.
LEMMA BelowHung ==
    ASSUME NEW t, NEW u, NEW n, NEW p, Hung(t, u, n, p), ~OnCycle(t, n), ~OnCycle(u, n)
    PROVE  Below(t, n) = Below(u, n)
  <1>1. ASSUME NEW x \in DOMAIN t, t[x].parent \in {n} \cup (Below(t, n) \cap Below(u, n))
        PROVE  x \in Below(t, n) \cap Below(u, n)
    <2>1. x \in Below(t, n) /\ x # n
      BY <1>1, BelowClosed DEF OnCycle
    <2> QED
      BY <1>1, <2>1, BelowClosed DEF Hung
  <1>2. ASSUME NEW x \in DOMAIN u, u[x].parent \in {n} \cup (Below(t, n) \cap Below(u, n))
        PROVE  x \in Below(t, n) \cap Below(u, n)
    <2>1. x \in Below(u, n) /\ x # n
      BY <1>2, BelowClosed DEF OnCycle
    <2> QED
      BY <1>2, <2>1, BelowClosed DEF Hung
  <1> DEFINE S == Below(t, n) \cap Below(u, n)
  <1>3. \A x \in DOMAIN t : t[x].parent \in {n} \cup S => x \in S
    BY <1>1
  <1>4. \A x \in DOMAIN u : u[x].parent \in {n} \cup S => x \in S
    BY <1>2
  <1> HIDE DEF S
  <1>5. Below(t, n) \subseteq S /\ Below(u, n) \subseteq S
    BY <1>3, <1>4, BelowLeast
  <1> QED
    BY <1>5 DEF S

-----------------------------------------------------------------------------
(* Types.                                                                  *)

Place == Nodes \cup {Top}
Row == [parent : Place, data : Data, depth : Int]
Rows == UNION {[D -> Row] : D \in SUBSET Nodes}

\* Copies of the tree, and pages, that mention no ids but those of K.
Trees(K) == UNION {[D -> [parent : K, data : Data]] : D \in SUBSET (K \ {Top})}
PageIn(K) ==
    [loaded : BOOLEAN, tree : Trees(K), node : (K \ {Top}) \cup {New}, parent : K,
     orig : K, data : Data, edits : Nat]

Kind == {"create", "move", "update", "delete", "sort"}
Stage == {"sent", "parent", "looked", "writing", "done", "failed"}
Live == [own : BOOLEAN, kind : Kind, node : Place, parent : Place, data : Data,
         tree : Trees(Place), cur : Nodes \cup {New}, pdepth : Int, ndepth : Int,
         locked : SUBSET Nodes, st : Stage]
Ended == [own : BOOLEAN, kind : {"over"}, st : {"over"}, node : Place]
\* What the stage of a call says about it.
StageOf(r) ==
    /\ r.kind # "sort" => r.node \in Nodes
    /\ r.st = "parent" => r.kind \in {"create", "move"}
    /\ r.st \in {"looked", "writing"} => r.kind = "move"
    /\ r.kind = "move" /\ r.st \notin {"sent", "failed"} => r.node # r.parent
    /\ r.st = "writing" => r.locked = {} \/ r.node \in r.locked

TypeOK ==
    /\ rows \in Rows
    /\ page \in PageIn(Place)
    /\ calls \in Seq(Live \cup Ended)
    /\ \A c \in DOMAIN calls : calls[c] \in Live => StageOf(calls[c])
    /\ hist \in [crossed : BOOLEAN, overlap : BOOLEAN, drift : BOOLEAN]

LEMMA RowsAre ==
    ASSUME NEW t
    PROVE  t \in Rows <=> DOMAIN t \in SUBSET Nodes /\ t \in [DOMAIN t -> Row]
  BY DEF Rows

LEMMA TreesAre ==
    ASSUME NEW K, NEW t
    PROVE  t \in Trees(K) <=> /\ DOMAIN t \in SUBSET (K \ {Top})
                              /\ t \in [DOMAIN t -> [parent : K, data : Data]]
  BY DEF Trees

LEMMA EmptyTree == \A K : <<>> \in Trees(K)
  <1> SUFFICES ASSUME NEW K
               PROVE  <<>> \in Trees(K)
    OBVIOUS
  <1>1. DOMAIN <<>> = {}
    OBVIOUS
  <1>2. <<>> \in [{} -> [parent : K, data : Data]]
    OBVIOUS
  <1> QED
    BY <1>1, <1>2 DEF Trees

\* The smaller the set of ids, the fewer the trees.
LEMMA TreesGrow ==
    ASSUME NEW K, NEW L, K \subseteq L
    PROVE  Trees(K) \subseteq Trees(L) /\ PageIn(K) \subseteq PageIn(L)
  <1>1. Trees(K) \subseteq Trees(L)
    <2>1. [parent : K, data : Data] \subseteq [parent : L, data : Data]
      OBVIOUS
    <2> QED
      BY <2>1, TreesAre
  <1> QED
    BY <1>1 DEF PageIn

LEMMA LiveOrEnded == \A r \in Live : r \notin Ended /\ r.kind \in Kind /\ r.kind # "over"
  BY DEF Live, Ended, Kind

\* What is left of a call's record when it makes a step: it ends, keeping the id of a
\* category it created, or it goes on with what it was asked.
Advance(r, s) ==
    \/ /\ s \in Ended /\ s.own = r.own
       /\ s.node = IF r.kind = "create" THEN r.node ELSE Top
    \/ /\ s \in Live
       /\ s.own = r.own /\ s.kind = r.kind /\ s.node = r.node /\ s.parent = r.parent
       /\ s.data = r.data /\ s.tree = r.tree /\ s.cur = r.cur
       /\ s.st \in {"sent", "parent"} => r.st \in {"sent", "parent"}

\* A step of call c.
Steps(c) ==
    /\ calls[c] \in Live
    /\ calls' \in Seq(Live \cup Ended)
    /\ DOMAIN calls' = DOMAIN calls
    /\ \A d \in DOMAIN calls \ {c} : calls'[d] = calls[d]
    /\ Advance(calls[c], calls'[c])
    /\ calls'[c] \in Live => StageOf(calls'[c])

\* Replacing one call.
LEMMA Replacing ==
    ASSUME TypeOK, NEW c \in DOMAIN calls, calls[c] \in Live, NEW s \in Live \cup Ended,
           calls' = [calls EXCEPT ![c] = s], Advance(calls[c], s),
           s \in Live => StageOf(s)
    PROVE  Steps(c) /\ calls'[c] = s
  <1>1. calls' \in Seq(Live \cup Ended) /\ DOMAIN calls' = DOMAIN calls
    BY ExceptSeq DEF TypeOK
  <1>2. calls'[c] = s /\ \A d \in DOMAIN calls \ {c} : calls'[d] = calls[d]
    BY DEF TypeOK
  <1> QED
    BY <1>1, <1>2 DEF Steps

LEMMA DoneReplaces ==
    ASSUME TypeOK, NEW c \in DOMAIN calls, calls[c] \in Live, calls[c].st \notin {"done", "failed"},
           NEW st \in {"done", "failed"}, Done(c, st),
           st = "done" /\ calls[c].kind = "move" => calls[c].st # "sent"
    PROVE  /\ Steps(c)
           /\ calls[c].own => calls'[c] = [calls[c] EXCEPT !.st = st]
           /\ ~calls[c].own => calls'[c] \in Ended
  <1>1. CASE calls[c].own
    <2> DEFINE s == [calls[c] EXCEPT !.st = st]
    <2>1. calls' = [calls EXCEPT ![c] = s]
      BY <1>1 DEF Done, TypeOK
    <2>2. s \in Live /\ Advance(calls[c], s)
      BY DEF Live, Advance, Stage
    <2>3. StageOf(s)
      BY DEF Live, StageOf, TypeOK, Stage
    <2> QED
      BY <1>1, <2>1, <2>2, <2>3, Replacing
  <1>2. CASE ~calls[c].own
    <2> DEFINE s == Over(c)
    <2>1. calls' = [calls EXCEPT ![c] = s]
      BY <1>2 DEF Done, TypeOK
    <2>2. s \in Ended /\ Advance(calls[c], s) /\ s \notin Live
      BY LiveOrEnded DEF Live, Advance, Ended, Over, Place
    <2> QED
      BY <1>2, <2>1, <2>2, Replacing
  <1> QED
    BY <1>1, <1>2

(* ---- what the page makes of its copy ---- *)

LEMMA WithoutIs ==
    ASSUME NEW t, NEW n
    PROVE  /\ DOMAIN Without(t, n) = DOMAIN t \ ({n} \cup Below(t, n))
           /\ \A m \in DOMAIN Without(t, n) : Without(t, n)[m] = t[m]
  BY DEF Without

LEMMA WithoutTree ==
    ASSUME NEW K, NEW t \in Trees(K), NEW n
    PROVE  Without(t, n) \in Trees(K)
  BY TreesAre DEF Without

LEMMA InsertTree ==
    ASSUME NEW K, NEW t \in Trees(K), NEW sub \in Trees(K), NEW n \in DOMAIN sub, NEW p \in K
    PROVE  Insert(t, sub, n, p) \in Trees(K)
  <1>1. [sub[n] EXCEPT !.parent = p] \in [parent : K, data : Data]
    BY TreesAre
  <1> QED
    BY <1>1, TreesAre DEF Insert

LEMMA MovedTree ==
    ASSUME NEW K, NEW t \in Trees(K), NEW n, NEW p \in K
    PROVE  Moved(t, n, p) \in Trees(K)
  <1> DEFINE sub == [m \in {n} \cup Below(t, n) |-> t[m]]
  <1>1. CASE n \notin DOMAIN t
    BY <1>1 DEF Moved
  <1>2. CASE n \in DOMAIN t
    <2>1. sub \in Trees(K) /\ n \in DOMAIN sub
      BY <1>2, TreesAre, BelowClosed
    <2>2. Insert(Without(t, n), sub, n, p) \in Trees(K)
      BY <2>1, WithoutTree, InsertTree
    <2> QED
      BY <1>2, <2>2 DEF Moved
  <1> QED
    BY <1>1, <1>2

LEMMA ShownTree ==
    ASSUME TreeAssumption, NEW K \in SUBSET Place, Top \in K, NEW t \in Rows, DOMAIN t \subseteq K
    PROVE  Shown(t) \in Trees(K)
  <1> DEFINE up(n) == IF t[n].parent \in DOMAIN t THEN t[n].parent ELSE Top
             roots == {n \in DOMAIN t : up(n) = Top}
             D == roots \cup UNION {Below(t, r) : r \in roots}
  <1>1. D \subseteq DOMAIN t /\ D \subseteq K \ {Top}
    BY BelowClosed, RowsAre DEF TreeAssumption
  <1>2. \A n \in D : [parent |-> up(n), data |-> t[n].data] \in [parent : K, data : Data]
    BY <1>1, RowsAre DEF Row
  <1>3. Shown(t) = [n \in D |-> [parent |-> up(n), data |-> t[n].data]]
    BY DEF Shown
  <1> HIDE DEF D, up
  <1> QED
    BY <1>1, <1>2, <1>3, TreesAre

LEMMA DataIs ==
    ASSUME NEW d \in Data
    PROVE  /\ NoData \in Data
           /\ \A f \in Fields, v \in Nat \cup {Demo} : [d EXCEPT ![f] = v] \in Data
  BY DEF Data, NoData

LEMMA OpenedPage ==
    ASSUME NEW K, Top \in K, NEW q \in PageIn(K), NEW n \in (K \ {Top}) \cup {New}
    PROVE  Opened(q, n) \in PageIn(K) /\ Opened(q, n).tree = q.tree
                                      /\ Opened(q, n).loaded = q.loaded
  <1>1. q.tree \in Trees(K) /\ q.data \in Data
    BY DEF PageIn
  <1>2. ASSUME NEW data \in Data
        PROVE  Filled(q, n, data) \in PageIn(K) /\ Filled(q, n, data).tree = q.tree
                                               /\ Filled(q, n, data).loaded = q.loaded
    <2>1. (IF n = q.node THEN data ELSE [data EXCEPT !["image"] = Demo]) \in Data
      BY DataIs DEF Fields
    <2> QED
      BY <2>1 DEF Filled, PageIn
  <1>3. CASE n \in DOMAIN q.tree
    <2>1. q.tree[n].data \in Data /\ q.tree[n].parent \in K
      BY <1>1, <1>3, TreesAre
    <2> QED
      BY <1>2, <1>3, <2>1 DEF Opened, PageIn
  <1>4. CASE n \notin DOMAIN q.tree
    <2>1. NoData \in Data
      BY <1>1, DataIs
    <2> QED
      BY <1>2, <1>4, <2>1 DEF Opened, PageIn
  <1> QED
    BY <1>3, <1>4

LEMMA BlankPage ==
    ASSUME NEW K, NEW q \in PageIn(K), NEW p \in K
    PROVE  Blank(q, p) \in PageIn(K) /\ Blank(q, p).tree = q.tree
                                     /\ Blank(q, p).loaded = q.loaded
  <1>1. NoData \in Data
    BY DataIs DEF PageIn
  <1> QED
    BY <1>1 DEF Blank, PageIn

LEMMA FirstPage ==
    ASSUME NEW K, Top \in K, NEW q \in PageIn(K), NEW r \in First(q)
    PROVE  r \in PageIn(K) /\ r.tree = q.tree /\ r.loaded = q.loaded
  <1>1. CASE DOMAIN q.tree = {}
    BY <1>1, BlankPage DEF First
  <1>2. CASE DOMAIN q.tree # {}
    <2>1. PICK n \in Children(q.tree, {Top}) : r = Opened(q, n)
      BY <1>2 DEF First
    <2>2. n \in K \ {Top}
      BY <2>1, TreesAre DEF Children, PageIn
    <2> QED
      BY <2>1, <2>2, OpenedPage
  <1> QED
    BY <1>1, <1>2

-----------------------------------------------------------------------------
(* Every step keeps the types, and mentions no id before it is created.    *)

\* Calls that have created a row, or whose id will not be used any more.
Made == {c \in DOMAIN calls : calls[c].kind \in {"create", "over"}
                              /\ calls[c].st \notin {"sent", "parent"}}

\* The ids there can be in rows and pages.
Known == {Top} \cup (Nodes \ Fresh) \cup {calls[c].node : c \in Made}

\* The calls mention known ids; an id about to be created is not known, and is the id of
\* no other call.
CallsKnown ==
    /\ \A c \in DOMAIN calls :
         calls[c] \in Live =>
            /\ calls[c].parent \in Known /\ calls[c].tree \in Trees(Known)
            /\ calls[c].kind # "create" => calls[c].node \in Known
            /\ calls[c].kind = "create" => calls[c].node \in Fresh
            /\ calls[c].kind = "create" /\ calls[c].st \in {"sent", "parent"} =>
                   calls[c].node \notin Known
    /\ \A c, d \in DOMAIN calls :
         c # d /\ {calls[c].kind, calls[d].kind} \subseteq {"create", "over"}
               /\ calls[c].node = calls[d].node => calls[c].node = Top

RowsKnown == DOMAIN rows \subseteq Known /\ \A n \in DOMAIN rows : rows[n].parent \in Known

KnownInv == CallsKnown /\ RowsKnown /\ page \in PageIn(Known)

LEMMA KnownPlaces ==
    ASSUME TreeAssumption, TypeOK
    PROVE  Top \in Known /\ Known \in SUBSET Place
  BY DEF Known, Made, TypeOK, Place, Live, Ended

\* A call in one of the stages of the service has a full record.
LEMMA StagesAreLive ==
    ASSUME TypeOK, NEW c \in DOMAIN calls, calls[c].st # "over"
    PROVE  calls[c] \in Live /\ StageOf(calls[c]) /\ calls[c].kind \in Kind
  BY LiveOrEnded DEF TypeOK, Ended

\* The rows as a move would have them.
LEMMA ReparentedIs ==
    ASSUME TypeOK, NEW c \in DOMAIN calls
    PROVE  /\ DOMAIN Reparented(c) = DOMAIN rows
           /\ Hung(rows, Reparented(c), calls[c].node, calls[c].parent)
  BY RowsAre DEF TypeOK, Reparented, Hung, Row

\* Setting the stage of a call, and what it has read.
LEMMA SetReplaces ==
    ASSUME TypeOK, NEW c \in DOMAIN calls, calls[c] \in Live,
           NEW s \in Live, calls' = [calls EXCEPT ![c] = s], StageOf(s),
           s.own = calls[c].own, s.kind = calls[c].kind, s.node = calls[c].node,
           s.parent = calls[c].parent, s.data = calls[c].data, s.tree = calls[c].tree,
           s.cur = calls[c].cur, s.st \in {"sent", "parent"} => calls[c].st \in {"sent", "parent"}
    PROVE  Steps(c) /\ calls'[c] = s
  <1>1. Advance(calls[c], s)
    BY DEF Advance
  <1> QED
    BY <1>1, Replacing

\* What the service does to a call.
LEMMA ServeSteps ==
    ASSUME TypeOK, NEW c \in DOMAIN calls, Serve(c)
    PROVE  Steps(c)
  <1> USE StagesAreLive
  <1>1. CASE ReadParent(c)
    <2>0. calls[c] \in Live /\ StageOf(calls[c]) /\ calls[c].st = "sent"
          /\ calls[c].kind \in {"create", "move"}
      BY <1>1 DEF ReadParent
    <2>1. CASE Done(c, "failed")
      BY <2>0, <2>1, DoneReplaces
    <2>2. CASE ~Done(c, "failed")
      <3> DEFINE p == calls[c].parent
                 s == [calls[c] EXCEPT !.st = "parent",
                                       !.pdepth = IF p = Top THEN -1 ELSE rows[p].depth]
      <3>1. /\ p = Top \/ p \in DOMAIN rows
            /\ calls[c].kind = "move" => p # calls[c].node
            /\ calls' = [calls EXCEPT ![c].st = "parent",
                                      ![c].pdepth = IF p = Top THEN -1 ELSE rows[p].depth]
        BY <1>1, <2>2 DEF ReadParent
      <3>2. (IF p = Top THEN -1 ELSE rows[p].depth) \in Int
        BY <3>1, RowsAre DEF TypeOK, Row
      <3>3. calls' = [calls EXCEPT ![c] = s]
        BY <3>1 DEF TypeOK
      <3>4. s \in Live /\ StageOf(s)
        BY <2>0, <3>1, <3>2 DEF Live, StageOf, Stage
      <3> QED
        BY <2>0, <3>3, <3>4, SetReplaces DEF Live
    <2> QED
      BY <2>1, <2>2
  <1>2. CASE ReadNode(c)
    <2>0. calls[c] \in Live /\ StageOf(calls[c]) /\ calls[c].st = "parent"
          /\ calls[c].kind = "move"
      BY <1>2 DEF ReadNode
    <2>1. CASE Done(c, "failed")
      BY <2>0, <2>1, DoneReplaces
    <2>2. CASE ~Done(c, "failed")
      <3> DEFINE d == rows[calls[c].node].depth
                 s == [calls[c] EXCEPT !.st = "looked", !.ndepth = d]
      <3>1. calls[c].node \in DOMAIN rows
            /\ calls' = [calls EXCEPT ![c].st = "looked", ![c].ndepth = d]
        BY <1>2, <2>2 DEF ReadNode
      <3>2. d \in Int
        BY <3>1, RowsAre DEF TypeOK, Row
      <3>3. calls' = [calls EXCEPT ![c] = s]
        BY <3>1 DEF TypeOK
      <3> HIDE DEF d
      <3>4. s \in Live /\ StageOf(s)
        BY <2>0, <3>2 DEF Live, StageOf, Stage
      <3> QED
        BY <2>0, <3>3, <3>4, SetReplaces DEF Live
    <2> QED
      BY <2>1, <2>2
  <1>3. CASE InsertRow(c)
    BY <1>3, DoneReplaces DEF InsertRow
  <1>4. CASE WriteMove(c)
    <2>0. calls[c] \in Live /\ StageOf(calls[c]) /\ calls[c].st = "looked"
          /\ calls[c].kind = "move"
      BY <1>4 DEF WriteMove, StageOf
    <2>1. CASE Done(c, "failed")
      BY <2>0, <2>1, DoneReplaces
    <2>2. CASE ~Done(c, "failed")
      <3> DEFINE n == calls[c].node
                 S == IF n \in DOMAIN rows THEN {n} \cup Below(Reparented(c), n) ELSE {}
                 s == [calls[c] EXCEPT !.st = "writing", !.locked = S]
      <3>1. calls' = [calls EXCEPT ![c].st = "writing", ![c].locked = S]
        BY <1>4, <2>2 DEF WriteMove
      <3>2. S \in SUBSET Nodes /\ (S = {} \/ n \in S)
        <4>1. Below(Reparented(c), n) \subseteq DOMAIN rows
          BY BelowClosed, ReparentedIs
        <4> QED
          BY <4>1, RowsAre DEF TypeOK
      <3>3. calls' = [calls EXCEPT ![c] = s]
        BY <3>1 DEF TypeOK
      <3> HIDE DEF S
      <3>4. s \in Live /\ StageOf(s)
        BY <2>0, <3>2 DEF Live, StageOf, Stage
      <3> QED
        BY <2>0, <3>3, <3>4, SetReplaces DEF Live
    <2> QED
      BY <2>1, <2>2
  <1>5. CASE CommitMove(c)
    BY <1>5, DoneReplaces DEF CommitMove
  <1>6. CASE UpdateRow(c)
    <2>1. Done(c, "failed") \/ Done(c, "done")
      BY <1>6 DEF UpdateRow
    <2> QED
      BY <1>6, <2>1, DoneReplaces DEF UpdateRow, Sent
  <1>7. CASE DeleteRows(c)
    <2>1. Done(c, "failed") \/ Done(c, "done")
      BY <1>7 DEF DeleteRows
    <2> QED
      BY <1>7, <2>1, DoneReplaces DEF DeleteRows, Sent
  <1>8. CASE SortRows(c)
    BY <1>8, DoneReplaces DEF SortRows, Sent
  <1>9. CASE Refuse(c)
    BY <1>9, DoneReplaces DEF Refuse
  <1> QED
    BY <1>1, <1>2, <1>3, <1>4, <1>5, <1>6, <1>7, <1>8, <1>9 DEF Serve

LEMMA AnswerSteps ==
    ASSUME TypeOK, NEW c \in DOMAIN calls, Answer(c) \/ AnswerFails(c)
    PROVE  Steps(c) /\ calls'[c] \in Ended
  <1> DEFINE s == Over(c)
  <1>1. calls[c] \in Live /\ calls' = [calls EXCEPT ![c] = s]
    BY StagesAreLive DEF Answer, AnswerFails
  <1>2. s \in Ended /\ Advance(calls[c], s) /\ s \notin Live
    BY <1>1, LiveOrEnded DEF Live, Advance, Ended, Over, Place
  <1> QED
    BY <1>1, <1>2, Replacing

LEMMA StepsKnown ==
    ASSUME TreeAssumption, TypeOK, CallsKnown, NEW c \in DOMAIN calls, Steps(c)
    PROVE  /\ Known \subseteq Known' /\ CallsKnown'
           /\ calls[c].kind = "create" /\ calls'[c].st \notin {"sent", "parent"} =>
                 calls[c].node \in Known'
           /\ \A d \in DOMAIN calls' : calls'[d] \in Live => StageOf(calls'[d])
  <1>0. calls[c] \in Live /\ DOMAIN calls' = DOMAIN calls /\ calls[c].kind # "over"
        /\ \A d \in DOMAIN calls \ {c} : calls'[d] = calls[d]
    BY LiveOrEnded DEF Steps
  <1>1. CASE calls'[c] \in Ended
    <2>1. calls'[c] \notin Live /\ calls'[c].kind = "over" /\ calls'[c].st = "over"
          /\ calls'[c].node = IF calls[c].kind = "create" THEN calls[c].node ELSE Top
      BY <1>1, LiveOrEnded DEF Steps, Advance, Ended
    <2>2. Made' = Made \cup {c}
      BY <1>0, <2>1 DEF Made
    <2>3. Known' = Known \cup {calls'[c].node}
      <3>1. c \in Made => calls[c].node = calls'[c].node
        BY <1>0, <2>1 DEF Made
      <3> QED
        BY <1>0, <2>2, <3>1 DEF Known, Made
    <2>4. \A d \in DOMAIN calls \ {c} :
             calls[d] \in Live /\ calls[d].kind = "create" /\ calls[d].st \in {"sent", "parent"}
                => calls[d].node # calls'[c].node
      BY <1>0, <2>1 DEF CallsKnown, TreeAssumption
    <2>5. Trees(Known) \subseteq Trees(Known')
      BY <2>3, TreesGrow
    <2>6. \A d \in DOMAIN calls' :
             calls'[d] \in Live =>
                /\ calls'[d].parent \in Known' /\ calls'[d].tree \in Trees(Known')
                /\ calls'[d].kind # "create" => calls'[d].node \in Known'
                /\ calls'[d].kind = "create" => calls'[d].node \in Fresh
                /\ calls'[d].kind = "create" /\ calls'[d].st \in {"sent", "parent"} =>
                       calls'[d].node \notin Known'
      <3> SUFFICES ASSUME NEW d \in DOMAIN calls \ {c}, calls[d] \in Live
                   PROVE  /\ calls[d].parent \in Known' /\ calls[d].tree \in Trees(Known')
                          /\ calls[d].kind # "create" => calls[d].node \in Known'
                          /\ calls[d].kind = "create" => calls[d].node \in Fresh
                          /\ calls[d].kind = "create" /\ calls[d].st \in {"sent", "parent"} =>
                                 calls[d].node \notin Known'
        BY <1>0, <2>1
      <3>1. /\ calls[d].parent \in Known /\ calls[d].tree \in Trees(Known)
            /\ calls[d].kind # "create" => calls[d].node \in Known
            /\ calls[d].kind = "create" => calls[d].node \in Fresh
            /\ calls[d].kind = "create" /\ calls[d].st \in {"sent", "parent"} =>
                   calls[d].node \notin Known
        BY DEF CallsKnown
      <3> QED
        BY <2>3, <2>4, <2>5, <3>1
    <2>7. \A d, e \in DOMAIN calls' :
             d # e /\ {calls'[d].kind, calls'[e].kind} \subseteq {"create", "over"}
                   /\ calls'[d].node = calls'[e].node => calls'[d].node = Top
      BY <1>0, <2>1 DEF CallsKnown
    <2>8. \A d \in DOMAIN calls' : calls'[d] \in Live => StageOf(calls'[d])
      BY <1>0 DEF Steps, TypeOK
    <2> QED
      BY <2>1, <2>3, <2>6, <2>7, <2>8 DEF CallsKnown
  <1>2. CASE calls'[c] \in Live
    <2>1. /\ calls'[c].kind = calls[c].kind /\ calls'[c].node = calls[c].node
          /\ calls'[c].parent = calls[c].parent /\ calls'[c].tree = calls[c].tree
          /\ calls'[c].st \in {"sent", "parent"} => calls[c].st \in {"sent", "parent"}
      BY <1>2, LiveOrEnded DEF Steps, Advance
    <2> DEFINE new == IF calls[c].kind = "create" /\ calls'[c].st \notin {"sent", "parent"}
                      THEN {c} ELSE {}
    <2>2. Made' = Made \cup new
      BY <1>0, <2>1 DEF Made
    <2>3. Known' = Known \cup (IF new = {} THEN {} ELSE {calls[c].node})
      <3>1. \A d \in Made' : calls'[d].node = calls[d].node
        BY <1>0, <2>1 DEF Made
      <3> QED
        BY <2>2, <3>1 DEF Known
    <2>4. new # {} => \A d \in DOMAIN calls \ {c} :
             calls[d] \in Live /\ calls[d].kind = "create" => calls[d].node # calls[c].node
      BY <1>0, <2>1 DEF CallsKnown, TreeAssumption
    <2>5. Trees(Known) \subseteq Trees(Known')
      BY <2>3, TreesGrow
    <2>6. \A d \in DOMAIN calls' :
             calls'[d] \in Live =>
                /\ calls'[d].parent \in Known' /\ calls'[d].tree \in Trees(Known')
                /\ calls'[d].kind # "create" => calls'[d].node \in Known'
                /\ calls'[d].kind = "create" => calls'[d].node \in Fresh
                /\ calls'[d].kind = "create" /\ calls'[d].st \in {"sent", "parent"} =>
                       calls'[d].node \notin Known'
      <3> SUFFICES ASSUME NEW d \in DOMAIN calls, calls'[d] \in Live
                   PROVE  /\ calls'[d].parent \in Known' /\ calls'[d].tree \in Trees(Known')
                          /\ calls'[d].kind # "create" => calls'[d].node \in Known'
                          /\ calls'[d].kind = "create" => calls'[d].node \in Fresh
                          /\ calls'[d].kind = "create" /\ calls'[d].st \in {"sent", "parent"} =>
                                 calls'[d].node \notin Known'
        BY <1>0
      <3>1. calls[d] \in Live
        BY <1>0
      <3>2. /\ calls[d].parent \in Known /\ calls[d].tree \in Trees(Known)
            /\ calls[d].kind # "create" => calls[d].node \in Known
            /\ calls[d].kind = "create" => calls[d].node \in Fresh
            /\ calls[d].kind = "create" /\ calls[d].st \in {"sent", "parent"} =>
                   calls[d].node \notin Known
        BY <3>1 DEF CallsKnown
      <3>3. CASE d = c
        BY <2>1, <2>3, <2>5, <3>2, <3>3
      <3>4. CASE d # c
        BY <1>0, <2>3, <2>4, <2>5, <3>1, <3>2, <3>4
      <3> QED
        BY <3>3, <3>4
    <2>7. \A d, e \in DOMAIN calls' :
             d # e /\ {calls'[d].kind, calls'[e].kind} \subseteq {"create", "over"}
                   /\ calls'[d].node = calls'[e].node => calls'[d].node = Top
      <3>1. \A d \in DOMAIN calls : calls'[d].kind = calls[d].kind /\ calls'[d].node = calls[d].node
        BY <1>0, <2>1
      <3> QED
        BY <1>0, <3>1 DEF CallsKnown
    <2>8. \A d \in DOMAIN calls' : calls'[d] \in Live => StageOf(calls'[d])
      BY <1>0 DEF Steps, TypeOK
    <2> QED
      BY <2>1, <2>3, <2>6, <2>7, <2>8 DEF CallsKnown
  <1> QED
    BY <1>1, <1>2 DEF Steps, Advance

\* A new call.
LEMMA AskKnown ==
    ASSUME TreeAssumption, TypeOK, KnownInv, NEW own \in BOOLEAN, NEW kind \in Kind,
           NEW n \in Place, NEW p \in Known, calls' = Ask(own, kind, n, p),
           kind # "sort" => n \in Nodes,
           kind # "create" => n \in Known,
           kind = "create" => n \in Fresh /\ \A c \in DOMAIN calls : calls[c].node # n
    PROVE  /\ Known' = Known /\ CallsKnown'
           /\ calls' \in Seq(Live \cup Ended)
           /\ DOMAIN calls' = DOMAIN calls \cup {Len(calls) + 1}
           /\ Len(calls) + 1 \notin DOMAIN calls
           /\ \A c \in DOMAIN calls : calls'[c] = calls[c]
           /\ calls'[Len(calls) + 1] \in Live
           /\ calls' = Append(calls, calls'[Len(calls) + 1])
           /\ \A c \in DOMAIN calls' : calls'[c] \in Live => StageOf(calls'[c])
  <1> DEFINE d == IF own /\ kind \in {"create", "update"} THEN page.data ELSE NoData
             t == IF own /\ kind \in {"move", "delete", "sort"} THEN page.tree ELSE <<>>
             u == IF own /\ kind = "delete" THEN page.node ELSE New
             r == [own |-> own, kind |-> kind, node |-> n, parent |-> p, data |-> d,
                   tree |-> t, cur |-> u, pdepth |-> -1, ndepth |-> 0, locked |-> {},
                   st |-> "sent"]
             L == Len(calls) + 1
  <1>1. calls' = Append(calls, r)
    BY DEF Ask
  <1>2. d \in Data /\ t \in Trees(Known) /\ u \in Nodes \cup {New}
    <2>1. page \in PageIn(Known) /\ page \in PageIn(Place) /\ Place \ {Top} = Nodes
      BY DEF KnownInv, TypeOK, Place, TreeAssumption
    <2>2. <<>> \in Trees(Known)
      BY EmptyTree
    <2>3. NoData \in Data
      BY <2>1, DataIs DEF PageIn
    <2> QED
      BY <2>1, <2>2, <2>3 DEF PageIn
  <1>3. r \in Live /\ StageOf(r) /\ r \notin Ended
    <2>1. t \in Trees(Place) /\ p \in Place
      BY <1>2, KnownPlaces, TreesGrow
    <2> HIDE DEF d, t, u
    <2>2. r \in Live
      BY <1>2, <2>1 DEF Live, Stage, Kind
    <2> QED
      BY <2>2, LiveOrEnded DEF StageOf
  <1> HIDE DEF r
  <1>4. /\ calls' \in Seq(Live \cup Ended)
        /\ DOMAIN calls' = DOMAIN calls \cup {L} /\ L \notin DOMAIN calls
        /\ \A c \in DOMAIN calls : calls'[c] = calls[c]
        /\ calls'[L] = r
    BY <1>1, <1>3, AppendProperties DEF TypeOK
  <1>5. Made' = Made
    BY <1>4 DEF Made, r
  <1>6. Known' = Known
    BY <1>4, <1>5 DEF Known, Made
  <1>7. \A c \in DOMAIN calls' :
           calls'[c] \in Live =>
              /\ calls'[c].parent \in Known /\ calls'[c].tree \in Trees(Known)
              /\ calls'[c].kind # "create" => calls'[c].node \in Known
              /\ calls'[c].kind = "create" => calls'[c].node \in Fresh
              /\ calls'[c].kind = "create" /\ calls'[c].st \in {"sent", "parent"} =>
                     calls'[c].node \notin Known
    <2> SUFFICES ASSUME NEW c \in DOMAIN calls', calls'[c] \in Live
                 PROVE  /\ calls'[c].parent \in Known /\ calls'[c].tree \in Trees(Known)
                        /\ calls'[c].kind # "create" => calls'[c].node \in Known
                        /\ calls'[c].kind = "create" => calls'[c].node \in Fresh
                        /\ calls'[c].kind = "create" /\ calls'[c].st \in {"sent", "parent"} =>
                               calls'[c].node \notin Known
      OBVIOUS
    <2>1. CASE c \in DOMAIN calls
      BY <1>4, <2>1 DEF KnownInv, CallsKnown
    <2>2. CASE c = L
      <3>1. r.parent = p /\ r.tree = t /\ r.kind = kind /\ r.node = n
        BY DEF r
      <3>2. kind = "create" => n \notin Known
        BY DEF Known, Made, TreeAssumption
      <3> QED
        BY <1>2, <1>4, <2>2, <3>1, <3>2
    <2> QED
      BY <1>4, <2>1, <2>2
  <1>8. \A c, e \in DOMAIN calls' :
           c # e /\ {calls'[c].kind, calls'[e].kind} \subseteq {"create", "over"}
                 /\ calls'[c].node = calls'[e].node => calls'[c].node = Top
    <2>1. r.kind = kind /\ r.node = n /\ (kind = "create" \/ kind \notin {"create", "over"})
      BY DEF r, Kind
    <2> QED
      BY <1>4, <2>1 DEF KnownInv, CallsKnown
  <1>9. CallsKnown'
    BY <1>6, <1>7, <1>8 DEF CallsKnown
  <1>10. \A c \in DOMAIN calls' : calls'[c] \in Live => StageOf(calls'[c])
    BY <1>3, <1>4 DEF TypeOK
  <1> QED
    BY <1>1, <1>3, <1>4, <1>6, <1>9, <1>10

\* What the service makes of the rows keeps its types and mentions known ids.
LEMMA ServedRows ==
    ASSUME TreeAssumption, TypeOK, KnownInv, NEW c \in DOMAIN calls, Serve(c), Steps(c),
           Known \subseteq Known',
           calls[c].kind = "create" /\ calls'[c].st \notin {"sent", "parent"} =>
               calls[c].node \in Known'
    PROVE  rows' \in Rows /\ RowsKnown'
  <1>0. rows \in Rows /\ DOMAIN rows \subseteq Known
        /\ \A n \in DOMAIN rows : rows[n].parent \in Known
    BY DEF TypeOK, KnownInv, RowsKnown
  <1>1. CASE rows' = rows
    BY <1>0, <1>1 DEF RowsKnown
  <1>2. CASE InsertRow(c)
    <2> DEFINE n == calls[c].node
               r == [parent |-> calls[c].parent, data |-> calls[c].data,
                     depth |-> calls[c].pdepth + 1]
    <2>1. calls[c] \in Live /\ calls[c].kind = "create" /\ n \in Nodes
      BY <1>2, StagesAreLive DEF InsertRow, StageOf
    <2>2. r \in Row /\ r.parent \in Known
      BY <2>1 DEF Live, Row, KnownInv, CallsKnown
    <2>3. rows' = [m \in DOMAIN rows \cup {n} |-> IF m = n THEN r ELSE rows[m]]
      BY <1>2 DEF InsertRow
    <2> HIDE DEF r
    <2>4. rows' \in Rows
      BY <1>0, <2>1, <2>2, <2>3, RowsAre
    <2>5. n \in Known'
      <3>1. /\ calls[c].own => calls'[c] = [calls[c] EXCEPT !.st = "done"]
            /\ ~calls[c].own => calls'[c] \in Ended
        BY <1>2, <2>1, DoneReplaces DEF InsertRow
      <3>2. calls'[c].st \notin {"sent", "parent"}
        BY <2>1, <3>1 DEF Ended, Live
      <3> QED
        BY <2>1, <3>2
    <2> QED
      BY <1>0, <2>2, <2>3, <2>4, <2>5 DEF RowsKnown
  <1>3. CASE CommitMove(c)
    <2>1. calls[c] \in Live /\ calls[c].parent \in Known
      BY <1>3, StagesAreLive DEF CommitMove, KnownInv, CallsKnown
    <2>2. ASSUME NEW m \in DOMAIN rows
          PROVE  Shifted(c)[m] \in Row /\ Shifted(c)[m].parent \in Known
      <3>1. rows[m] \in Row
        BY <1>0, RowsAre
      <3>2. calls[c].pdepth \in Int /\ calls[c].ndepth \in Int /\ calls[c].parent \in Place
        BY <2>1 DEF Live
      <3> DEFINE diff == calls[c].pdepth + 1 - calls[c].ndepth
      <3>3. rows[m].depth + diff \in Int /\ calls[c].ndepth + diff \in Int
        BY <3>1, <3>2 DEF Row
      <3> HIDE DEF diff
      <3>4. Shifted(c)[m] \in {rows[m],
                              [rows[m] EXCEPT !.parent = calls[c].parent,
                                              !.depth = calls[c].ndepth + diff],
                              [rows[m] EXCEPT !.depth = rows[m].depth + diff]}
        BY DEF Shifted, diff
      <3> QED
        BY <1>0, <2>1, <3>1, <3>2, <3>3, <3>4 DEF Row
    <2>3. DOMAIN Shifted(c) = DOMAIN rows /\ Shifted(c) = [m \in DOMAIN rows |-> Shifted(c)[m]]
      BY DEF Shifted
    <2>4. rows' = Shifted(c)
      BY <1>3 DEF CommitMove
    <2> QED
      BY <1>0, <2>2, <2>3, <2>4, RowsAre DEF RowsKnown
  <1>4. CASE UpdateRow(c)
    <2>1. calls[c].data \in Data
      BY <1>4, StagesAreLive DEF UpdateRow, Sent, Live
    <2>2. CASE calls[c].node \in DOMAIN rows
      <3>1. rows' = [rows EXCEPT ![calls[c].node].data = calls[c].data]
        BY <1>4, <2>2 DEF UpdateRow
      <3>2. rows' \in Rows
        <4> DEFINE r == [rows[calls[c].node] EXCEPT !.data = calls[c].data]
        <4>1. rows \in [DOMAIN rows -> Row] /\ DOMAIN rows \in SUBSET Nodes
          BY <1>0, RowsAre
        <4>2. r \in Row
          BY <2>1, <2>2, <4>1 DEF Row
        <4>3. rows' = [rows EXCEPT ![calls[c].node] = r]
          BY <3>1
        <4> HIDE DEF r
        <4>4. rows' \in [DOMAIN rows -> Row]
          BY <4>1, <4>2, <4>3
        <4> QED
          BY <4>1, <4>4, RowsAre
      <3>3. \A n \in DOMAIN rows : rows'[n].parent = rows[n].parent
        BY <1>0, <3>1, RowsAre DEF Row
      <3> QED
        BY <1>0, <3>1, <3>2, <3>3 DEF RowsKnown
    <2> QED
      BY <1>1, <1>4, <2>2 DEF UpdateRow
  <1>5. CASE DeleteRows(c)
    <2>1. CASE rows' = Without(rows, calls[c].node)
      BY <1>0, <2>1, RowsAre, WithoutIs DEF RowsKnown, Without
    <2> QED
      BY <1>1, <1>5, <2>1 DEF DeleteRows
  <1> QED
    BY <1>1, <1>2, <1>3, <1>4, <1>5
       DEF Serve, ReadParent, ReadNode, WriteMove, SortRows, Refuse

\* What the page makes of an answer mentions known ids.
LEMMA AnsweredPage ==
    ASSUME TreeAssumption, TypeOK, KnownInv, NEW c \in DOMAIN calls, Answer(c),
           Known \subseteq Known', Known' \in SUBSET Place,
           calls[c].kind = "create" => calls[c].node \in Known'
    PROVE  page' \in PageIn(Known')
  <1> DEFINE n == calls[c].node
             was == calls[c].tree
  <1>0. calls[c] \in Live /\ calls[c].parent \in Known' /\ was \in Trees(Known')
        /\ page \in PageIn(Known') /\ page.tree \in Trees(Known') /\ calls[c].data \in Data
        /\ Top \in Known' /\ (calls[c].kind # "sort" => n \in Nodes) /\ calls[c].kind \in Kind
    <2>1. calls[c] \in Live /\ StageOf(calls[c]) /\ calls[c].kind \in Kind
      BY StagesAreLive DEF Answer
    <2>2. Trees(Known) \subseteq Trees(Known') /\ PageIn(Known) \subseteq PageIn(Known')
      BY TreesGrow
    <2>3. page \in PageIn(Known')
      BY <2>2 DEF KnownInv
    <2>4. page.tree \in Trees(Known') 
      BY <2>3 DEF PageIn
    <2> QED
      BY <2>1, <2>2, <2>3, <2>4, KnownPlaces DEF KnownInv, CallsKnown, StageOf, Live
  <1>1. CASE calls[c].kind = "move"
    <2>1. Moved(was, n, calls[c].parent) \in Trees(Known')
      BY <1>0, MovedTree
    <2>2. page' \in {page, [page EXCEPT !.tree = Moved(was, n, calls[c].parent),
                                        !.orig = calls[c].parent]}
      BY <1>1 DEF Answer
    <2> QED
      BY <1>0, <2>1, <2>2 DEF PageIn
  <1>2. CASE calls[c].kind = "create"
    <2> DEFINE leaf == [m \in {n} |-> [parent |-> Top, data |-> calls[c].data]]
               tree == Insert(page.tree, leaf, n, calls[c].parent)
    <2>1. n \in Known' \ {Top}
      BY <1>0, <1>2 DEF TreeAssumption
    <2>2. leaf \in Trees(Known') /\ n \in DOMAIN leaf
      BY <1>0, <2>1, TreesAre
    <2>3. tree \in Trees(Known')
      BY <1>0, <2>2, InsertTree
    <2>4. page' = Opened([page EXCEPT !.tree = tree], n)
      BY <1>2 DEF Answer
    <2> HIDE DEF tree
    <2>5. [page EXCEPT !.tree = tree] \in PageIn(Known')
      BY <1>0, <2>3 DEF PageIn
    <2> QED
      BY <1>0, <2>1, <2>4, <2>5, OpenedPage
  <1>3. CASE calls[c].kind = "update"
    <2>1. CASE page' = page
      BY <1>0, <2>1
    <2>2. CASE n \in DOMAIN page.tree
               /\ page' = [page EXCEPT !.tree[n].data["name"] = calls[c].data["name"]]
      <3> DEFINE d == [page.tree[n].data EXCEPT !["name"] = calls[c].data["name"]]
                 t == [page.tree EXCEPT ![n].data = d]
      <3>1. d \in Data
        <4>1. page.tree[n].data \in Data /\ calls[c].data["name"] \in Nat \cup {Demo}
          BY <1>0, <2>2, TreesAre DEF Data, Fields
        <4> QED
          BY <4>1, DataIs DEF Fields
      <3>2. page' = [page EXCEPT !.tree = t]
        BY <1>0, <2>2 DEF PageIn
      <3> HIDE DEF d
      <3>3. t \in Trees(Known')
        BY <1>0, <3>1, TreesAre
      <3> QED
        BY <1>0, <3>2, <3>3 DEF PageIn
    <2> QED
      BY <1>3, <2>1, <2>2 DEF Answer
  <1>4. CASE calls[c].kind = "delete"
    <2> DEFINE p == [page EXCEPT !.tree = Without(was, n)]
    <2>1. Without(was, n) \in Trees(Known')
      BY <1>0, WithoutTree
    <2>2. p \in PageIn(Known')
      BY <1>0, <2>1 DEF PageIn
    <2>3. page' \in First(p) \/ page' = p
      BY <1>4 DEF Answer
    <2> HIDE DEF p
    <2> QED
      BY <1>0, <2>2, <2>3, FirstPage
  <1>5. CASE calls[c].kind = "sort"
    BY <1>0, <1>5 DEF Answer, PageIn
  <1> QED
    BY <1>0, <1>1, <1>2, <1>3, <1>4, <1>5 DEF Kind

\* The page's clicks.
LEMMA ClickKnown ==
    ASSUME TreeAssumption, TypeOK, KnownInv, NEW kind \in Kind, NEW n \in Place,
           NEW p \in Known, Click(kind, n, p),
           kind # "sort" => n \in Nodes,
           kind # "create" => n \in Known,
           kind = "create" => n \in Fresh /\ \A c \in DOMAIN calls : calls[c].node # n
    PROVE  TypeOK' /\ KnownInv'
  <1>1. calls' = Ask(TRUE, kind, n, p) /\ rows' = rows /\ page' = page
        /\ hist' = [hist EXCEPT !.drift = @ \/ Pending]
    BY DEF Click
  <1>2. /\ Known' = Known /\ CallsKnown'
        /\ calls' \in Seq(Live \cup Ended)
        /\ \A c \in DOMAIN calls' : calls'[c] \in Live => StageOf(calls'[c])
    BY <1>1, AskKnown
  <1>3. hist' \in [crossed : BOOLEAN, overlap : BOOLEAN, drift : BOOLEAN]
    BY <1>1 DEF TypeOK, Pending
  <1>4. TypeOK'
    BY <1>1, <1>2, <1>3 DEF TypeOK
  <1>5. RowsKnown' /\ page' \in PageIn(Known')
    BY <1>1, <1>2 DEF KnownInv, RowsKnown
  <1> QED
    BY <1>2, <1>4, <1>5 DEF KnownInv

\* A step that only touches the page.
LEMMA PageStep ==
    ASSUME TreeAssumption, TypeOK, KnownInv, UNCHANGED <<rows, calls, hist>>,
           page' \in PageIn(Known)
    PROVE  TypeOK' /\ KnownInv'
  <1>1. Known' = Known
    BY DEF Known, Made
  <1>2. page' \in PageIn(Place)
    BY KnownPlaces, TreesGrow
  <1>3. TypeOK'
    BY <1>2 DEF TypeOK
  <1>4. CallsKnown' /\ RowsKnown'
    BY <1>1 DEF KnownInv, CallsKnown, RowsKnown
  <1> QED
    BY <1>1, <1>3, <1>4 DEF KnownInv

\* A step of a call.
LEMMA CallStep ==
    ASSUME TreeAssumption, TypeOK, KnownInv, NEW c \in DOMAIN calls,
           Serve(c) \/ Answer(c) \/ AnswerFails(c)
    PROVE  TypeOK' /\ KnownInv'
  <1>1. Steps(c)
    BY ServeSteps, AnswerSteps
  <1>2. /\ Known \subseteq Known' /\ CallsKnown'
        /\ calls[c].kind = "create" /\ calls'[c].st \notin {"sent", "parent"} =>
              calls[c].node \in Known'
        /\ \A d \in DOMAIN calls' : calls'[d] \in Live => StageOf(calls'[d])
    BY <1>1, StepsKnown DEF KnownInv
  <1>3. calls' \in Seq(Live \cup Ended) /\ DOMAIN calls' = DOMAIN calls
    BY <1>1 DEF Steps
  <1>4. Top \in Known' /\ Known' \in SUBSET Place
    <2>1. \A d \in DOMAIN calls' :
             calls'[d].kind \in {"create", "over"} => calls'[d].node \in Place
      <3> TAKE d \in DOMAIN calls'
      <3>1. calls'[d] \in Live \cup Ended
        BY <1>3
      <3> QED
        BY <3>1 DEF Live, Ended
    <2> QED
      BY <2>1 DEF Known, Made, Place
  <1>5. hist' \in [crossed : BOOLEAN, overlap : BOOLEAN, drift : BOOLEAN]
    <2>1. hist \in [crossed : BOOLEAN, overlap : BOOLEAN, drift : BOOLEAN]
      BY DEF TypeOK
    <2>2. CASE hist' = hist
      BY <2>1, <2>2
    <2>3. CASE Wrote(c)
      BY <1>1, <2>1, <2>3 DEF Wrote, Midway, Steps, Live
    <2>4. CASE WriteMove(c)
      BY <2>1, <2>4 DEF WriteMove
    <2>5. CASE AnswerFails(c)
      BY <2>1, <2>5 DEF AnswerFails
    <2> QED
      BY <2>2, <2>3, <2>4, <2>5
         DEF Serve, ReadParent, ReadNode, InsertRow, CommitMove, UpdateRow, DeleteRows, SortRows,
             Refuse, Answer
  <1>6. rows' \in Rows /\ RowsKnown'
    <2>1. CASE Serve(c)
      BY <1>1, <1>2, <2>1, ServedRows
    <2>2. CASE rows' = rows
      BY <1>2, <2>2 DEF TypeOK, KnownInv, RowsKnown
    <2> QED
      BY <2>1, <2>2 DEF Answer, AnswerFails
  <1>7. page' \in PageIn(Known')
    <2>1. CASE Answer(c)
      <3>1. calls'[c].st = "over"
        BY <2>1, AnswerSteps DEF Ended
      <3> QED
        BY <1>2, <1>4, <2>1, <3>1, AnsweredPage
    <2>2. CASE page' = page
      BY <1>2, <2>2, TreesGrow DEF KnownInv
    <2> QED
      BY <2>1, <2>2
         DEF Serve, ReadParent, ReadNode, InsertRow, WriteMove, CommitMove, UpdateRow, DeleteRows,
             SortRows, Refuse, AnswerFails
  <1>8. page' \in PageIn(Place)
    BY <1>4, <1>7, TreesGrow
  <1>9. TypeOK'
    BY <1>2, <1>3, <1>5, <1>6, <1>8 DEF TypeOK
  <1> QED
    BY <1>2, <1>6, <1>7, <1>9 DEF KnownInv

LEMMA InitKnown == TreeAssumption /\ Init => TypeOK /\ KnownInv
  <1> SUFFICES ASSUME TreeAssumption, Init
               PROVE  TypeOK /\ KnownInv
    OBVIOUS
  <1> DEFINE D == Nodes \ Fresh
  <1>1. PICK up \in [D -> D \cup {Top}] :
           rows = [n \in D |->
                     [parent |-> up[n], data |-> NoData,
                      depth |-> Cardinality({m \in D : n \in
                          Below([k \in D |-> [parent |-> up[k]]], m)})]]
    BY DEF Init
  <1>2. ASSUME NEW S \in SUBSET D
        PROVE  Cardinality(S) \in Int
    <2>1. IsFiniteSet(S)
      BY FS_Subset DEF TreeAssumption
    <2> QED
      BY <2>1, FS_CardinalityType
  <1>3. NoData \in Data
    BY DEF NoData, Data
  <1>4. \A n \in D : rows[n] \in Row /\ rows[n].parent \in D \cup {Top}
    <2> TAKE n \in D
    <2> DEFINE S == {m \in D : n \in Below([k \in D |-> [parent |-> up[k]]], m)}
    <2>1. Cardinality(S) \in Int
      BY <1>2
    <2>2. rows[n] = [parent |-> up[n], data |-> NoData, depth |-> Cardinality(S)]
      BY <1>1
    <2> HIDE DEF S
    <2> QED
      BY <1>3, <2>1, <2>2 DEF Row, Place
  <1>5. DOMAIN rows = D /\ rows = [n \in D |-> rows[n]]
    BY <1>1
  <1>6. rows \in Rows
    BY <1>4, <1>5, RowsAre
  <1>7. calls = <<>> /\ DOMAIN calls = {} /\ calls \in Seq(Live \cup Ended)
    BY DEF Init
  <1>8. Known = {Top} \cup D
    BY <1>7 DEF Known, Made
  <1>9. <<>> \in Trees(Known)
    BY EmptyTree
  <1>10. page \in PageIn(Known)
    BY <1>3, <1>8, <1>9 DEF Init, PageIn
  <1>11. page \in PageIn(Place)
    BY <1>8, <1>10, TreesGrow DEF Place
  <1>12. hist \in [crossed : BOOLEAN, overlap : BOOLEAN, drift : BOOLEAN]
    BY DEF Init
  <1>13. TypeOK
    BY <1>6, <1>7, <1>11, <1>12 DEF TypeOK
  <1>14. CallsKnown /\ RowsKnown
    BY <1>4, <1>5, <1>7, <1>8 DEF CallsKnown, RowsKnown
  <1> QED
    BY <1>10, <1>13, <1>14 DEF KnownInv

LEMMA AdminKnown ==
    ASSUME TreeAssumption, TypeOK, KnownInv, Admin
    PROVE  TypeOK' /\ KnownInv'
  <1>0. /\ Top \in Known /\ Known \in SUBSET Place /\ page \in PageIn(Known)
        /\ rows \in Rows /\ DOMAIN rows \subseteq Known /\ New \notin Known
        /\ page.tree \in Trees(Known) /\ DOMAIN page.tree \subseteq Known \ {Top}
    <2>1. page.tree \in Trees(Known)
      BY DEF KnownInv, PageIn
    <2> QED
      BY <2>1, KnownPlaces, TreesAre DEF KnownInv, TypeOK, RowsKnown, Place, TreeAssumption
  <1>1. CASE Load
    <2> DEFINE t == Shown(rows)
               q == [page EXCEPT !.loaded = TRUE, !.tree = t]
    <2>1. t \in Trees(Known)
      BY <1>0, ShownTree
    <2> HIDE DEF t
    <2>2. q \in PageIn(Known)
      BY <1>0, <2>1 DEF PageIn
    <2>3. page' \in First(q)
      BY <1>1 DEF Load, t
    <2> HIDE DEF q
    <2>4. page' \in PageIn(Known)
      BY <1>0, <2>2, <2>3, FirstPage
    <2> QED
      BY <1>1, <2>4, PageStep DEF Load
  <1>2. CASE \E n \in Nodes : Select(n)
    <2>1. PICK n \in Nodes : Select(n)
      BY <1>2
    <2>2. page' \in PageIn(Known)
      BY <1>0, <2>1, OpenedPage DEF Select
    <2> QED
      BY <2>1, <2>2, PageStep DEF Select
  <1>3. CASE \E p \in Nodes \cup {Top} : AddUnder(p)
    <2>1. PICK p \in Nodes \cup {Top} : AddUnder(p)
      BY <1>3
    <2>2. page' \in PageIn(Known)
      BY <1>0, <2>1, BlankPage DEF AddUnder
    <2> QED
      BY <2>1, <2>2, PageStep DEF AddUnder
  <1>4. CASE \E f \in Fields : Type(f)
    <2>1. PICK f \in Fields : Type(f)
      BY <1>4
    <2> DEFINE d == [page.data EXCEPT ![f] = page.edits + 1]
    <2>2. d \in Data /\ page.edits + 1 \in Nat
      BY <1>0, DataIs DEF PageIn
    <2>3. page' = [page EXCEPT !.data = d, !.edits = page.edits + 1]
      BY <1>0, <2>1 DEF Type, PageIn
    <2> HIDE DEF d
    <2>4. page' \in PageIn(Known)
      BY <1>0, <2>2, <2>3 DEF PageIn
    <2> QED
      BY <2>1, <2>4, PageStep DEF Type
  <1>5. CASE \E p \in Nodes \cup {Top} : PickParent(p)
    <2>1. PICK p \in Nodes \cup {Top} : PickParent(p)
      BY <1>5
    <2>2. p \in Known
      BY <1>0, <2>1 DEF PickParent, Offered
    <2>3. page' \in PageIn(Known)
      BY <1>0, <2>1, <2>2 DEF PickParent, PageIn
    <2> QED
      BY <2>1, <2>3, PageStep DEF PickParent
  <1>6. CASE Discard
    <2>1. page' \in First(page) \/ page' = [page EXCEPT !.parent = page.orig]
      BY <1>6 DEF Discard
    <2>2. page' \in PageIn(Known)
      <3>1. CASE page' \in First(page)
        BY <1>0, <3>1, FirstPage
      <3>2. CASE page' = [page EXCEPT !.parent = page.orig]
        BY <1>0, <3>2 DEF PageIn
      <3> QED
        BY <2>1, <3>1, <3>2
    <2> QED
      BY <1>6, <2>2, PageStep DEF Discard
  <1>7. CASE Save
    <2>1. /\ page.node \in (Known \ {Top}) \cup {New} /\ page.parent \in Known
      BY <1>0 DEF PageIn
    <2>2. Nodes \subseteq Place /\ Known \ {Top} \subseteq Nodes
      BY <1>0 DEF Place
    <2>3. CASE page.node # New /\ Click("move", page.node, page.parent)
      BY <1>0, <2>1, <2>2, <2>3, ClickKnown DEF Kind
    <2>4. CASE page.node # New /\ Click("update", page.node, Top)
      BY <1>0, <2>1, <2>2, <2>4, ClickKnown DEF Kind
    <2>5. CASE \E n \in Fresh \ (DOMAIN rows \cup {calls[c].node : c \in DOMAIN calls}) :
                  Click("create", n, page.parent)
      <3>1. PICK n \in Fresh \ (DOMAIN rows \cup {calls[c].node : c \in DOMAIN calls}) :
                  Click("create", n, page.parent)
        BY <2>5
      <3>2. n \in Place /\ n \in Nodes
        BY <2>2 DEF TreeAssumption
      <3> QED
        BY <2>1, <3>1, <3>2, ClickKnown DEF Kind
    <2> QED
      BY <1>7, <2>3, <2>4, <2>5 DEF Save
  <1>8. CASE \E n \in Nodes : Delete(n)
    <2>1. PICK n \in Nodes : Delete(n)
      BY <1>8
    <2> QED
      BY <1>0, <2>1, ClickKnown DEF Delete, Kind, Place
  <1>9. CASE Sort
    BY <1>0, <1>9, ClickKnown DEF Sort, Kind, Place
  <1> QED
    BY <1>1, <1>2, <1>3, <1>4, <1>5, <1>6, <1>7, <1>8, <1>9 DEF Admin

LEMMA OtherKnown ==
    ASSUME TreeAssumption, TypeOK, KnownInv, OtherCall
    PROVE  TypeOK' /\ KnownInv'
  <1>1. PICK kind \in {"move", "delete"}, n \in DOMAIN rows, p \in DOMAIN rows \cup {Top} :
           calls' = Ask(FALSE, kind, n, p)
    BY DEF OtherCall
  <1>2. n \in Place /\ n \in Nodes /\ n \in Known /\ p \in Known
    BY KnownPlaces, RowsAre DEF TypeOK, KnownInv, RowsKnown, Place
  <1>3. /\ Known' = Known /\ CallsKnown'
        /\ calls' \in Seq(Live \cup Ended)
        /\ \A c \in DOMAIN calls' : calls'[c] \in Live => StageOf(calls'[c])
    BY <1>1, <1>2, AskKnown DEF Kind
  <1>4. rows' = rows /\ page' = page /\ hist' = hist
    BY DEF OtherCall
  <1>5. TypeOK'
    BY <1>3, <1>4 DEF TypeOK
  <1> QED
    BY <1>3, <1>4, <1>5 DEF KnownInv, RowsKnown

\* The types, and that an id is mentioned only after it was created.
THEOREM IdsAreKnown == Spec => [](TypeOK /\ KnownInv)
  <1>1. Init => TypeOK /\ KnownInv
    BY TreeAssumption, InitKnown
  <1>2. TypeOK /\ KnownInv /\ [Next]_vars => (TypeOK /\ KnownInv)'
    <2> SUFFICES ASSUME TypeOK, KnownInv, [Next]_vars
                 PROVE  (TypeOK /\ KnownInv)'
      OBVIOUS
    <2> USE TreeAssumption
    <2>1. ASSUME NEW c \in DOMAIN calls, Serve(c) \/ Answer(c) \/ AnswerFails(c)
          PROVE  (TypeOK /\ KnownInv)'
      BY <2>1, CallStep
    <2>2. CASE Admin
      BY <2>2, AdminKnown
    <2>3. CASE OtherCall
      BY <2>3, OtherKnown
    <2>4. CASE UNCHANGED vars
      BY <2>4, PageStep DEF vars, KnownInv
    <2> QED
      BY <2>1, <2>2, <2>3, <2>4 DEF Next
  <1> QED
    BY <1>1, <1>2, PTL DEF Spec

-----------------------------------------------------------------------------
(* No cycle without two moves in their transactions at the same time.      *)

\* The rows have no cycle; a move that is writing is the only one, what it has locked is
\* there, and with its new parent the rows have no cycle either.
CycleInv ==
    hist.crossed \/
      /\ Acyclic(rows)
      /\ \A c, d \in DOMAIN calls :
            calls[c].st = "writing" /\ calls[d].st = "writing" => c = d
      /\ \A c \in DOMAIN calls :
            calls[c].st = "writing" =>
               /\ calls[c].locked \subseteq DOMAIN rows
               /\ calls[c].locked # {} => Acyclic(Reparented(c))

\* What a change of one parent makes of a table.
LEMMA HungIs ==
    ASSUME NEW t \in Rows, NEW n, NEW p
    PROVE  /\ DOMAIN [t EXCEPT ![n].parent = p] = DOMAIN t
           /\ Hung(t, [t EXCEPT ![n].parent = p], n, p)
  <1>1. t \in [DOMAIN t -> Row]
    BY RowsAre
  <1> DEFINE u == [t EXCEPT ![n].parent = p]
  <1>2. DOMAIN u = DOMAIN t
    OBVIOUS
  <1>3. \A m \in DOMAIN t : u[m] = IF m = n THEN [t[m] EXCEPT !.parent = p] ELSE t[m]
    OBVIOUS
  <1>4. \A m \in DOMAIN t : u[m].parent = IF m = n THEN p ELSE t[m].parent
    BY <1>1, <1>3 DEF Row
  <1> HIDE DEF u
  <1> QED
    BY <1>2, <1>4 DEF Hung, u

\* What each step of the service does to the parents in the rows.
LEMMA RowSteps ==
    ASSUME TreeAssumption, TypeOK, KnownInv, NEW c \in DOMAIN calls, Serve(c)
    PROVE  \/ SameShape(rows, rows') /\ ~InsertRow(c) /\ ~CommitMove(c) /\ ~DeleteRows(c)
              /\ hist'.overlap = hist.overlap /\ hist'.drift = hist.drift
           \/ DeleteRows(c) /\ rows' = rows /\ hist' = hist /\ Done(c, "failed")
           \/ /\ InsertRow(c) /\ Wrote(c) /\ calls[c].node \notin Known
              /\ calls[c].node \in Nodes
              /\ calls[c] \in Live /\ calls[c].parent \in Known
              /\ DOMAIN rows' = DOMAIN rows \cup {calls[c].node}
              /\ \A m \in DOMAIN rows : rows'[m] = rows[m]
              /\ rows'[calls[c].node].parent = calls[c].parent
              /\ rows'[calls[c].node].depth = calls[c].pdepth + 1
           \/ CommitMove(c) /\ Wrote(c) /\ calls[c] \in Live /\ rows' = Shifted(c)
           \/ /\ DeleteRows(c) /\ Wrote(c) /\ calls[c] \in Live /\ Done(c, "done")
              /\ calls[c].node \in DOMAIN rows /\ rows' = Without(rows, calls[c].node)
              /\ \A m \in {calls[c].node} \cup Below(rows, calls[c].node) : ~Locked(m)
  <1>1. CASE InsertRow(c)
    <2>1. calls[c] \in Live /\ calls[c].kind = "create" /\ calls[c].node \in Nodes
          /\ calls[c].st = "parent"
      BY <1>1, StagesAreLive DEF InsertRow, StageOf
    <2>2. calls[c].node \notin Known /\ calls[c].parent \in Known
      BY <2>1 DEF KnownInv, CallsKnown
    <2>3. calls[c].node \notin DOMAIN rows
      BY <2>2 DEF KnownInv, RowsKnown
    <2> QED
      BY <1>1, <2>1, <2>2, <2>3 DEF InsertRow
  <1>2. CASE CommitMove(c)
    BY <1>2, StagesAreLive DEF CommitMove
  <1>3. CASE DeleteRows(c)
    BY <1>3, StagesAreLive DEF DeleteRows, Sent
  <1>4. CASE ~InsertRow(c) /\ ~CommitMove(c) /\ ~DeleteRows(c)
    <2>1. hist'.overlap = hist.overlap /\ hist'.drift = hist.drift
      BY <1>4 DEF Serve, ReadParent, ReadNode, WriteMove, UpdateRow, SortRows, Refuse, TypeOK
    <2>2. CASE UpdateRow(c)
      <3>1. CASE rows' = rows
        BY <1>4, <2>1, <3>1 DEF SameShape
      <3>2. CASE rows' = [rows EXCEPT ![calls[c].node].data = calls[c].data]
        <4>1. rows \in [DOMAIN rows -> Row]
          BY RowsAre DEF TypeOK
        <4>2. \A m \in DOMAIN rows : rows'[m].parent = rows[m].parent
          BY <3>2, <4>1 DEF Row
        <4>3. DOMAIN rows' = DOMAIN rows
          BY <3>2
        <4> QED
          BY <1>4, <2>1, <4>2, <4>3 DEF SameShape
      <3> QED
        BY <2>2, <3>1, <3>2 DEF UpdateRow
    <2>3. CASE ~UpdateRow(c)
      <3>1. rows' = rows
        BY <1>4, <2>3 DEF Serve, ReadParent, ReadNode, WriteMove, SortRows, Refuse
      <3> QED
        BY <1>4, <2>1, <3>1 DEF SameShape
    <2> QED
      BY <2>2, <2>3
  <1> QED
    BY <1>1, <1>2, <1>3, <1>4

\* Where the UPDATEs of a move leave the parents.
LEMMA ShiftedIs ==
    ASSUME TypeOK, NEW c \in DOMAIN calls, calls[c].locked = {} \/ calls[c].node \in calls[c].locked
    PROVE  /\ DOMAIN Shifted(c) = DOMAIN rows
           /\ calls[c].locked = {} => SameShape(rows, Shifted(c))
           /\ calls[c].locked # {} => SameShape(Reparented(c), Shifted(c))
  <1>0. rows \in Rows /\ rows \in [DOMAIN rows -> Row]
    BY RowsAre DEF TypeOK
  <1>1. DOMAIN Shifted(c) = DOMAIN rows
    BY DEF Shifted
  <1>2. CASE calls[c].locked = {}
    BY <1>1, <1>2 DEF Shifted, SameShape
  <1>3. CASE calls[c].locked # {}
    <2>1. Hung(rows, Reparented(c), calls[c].node, calls[c].parent)
      BY ReparentedIs
    <2>2. \A m \in DOMAIN rows :
             Shifted(c)[m].parent = IF m = calls[c].node THEN calls[c].parent ELSE rows[m].parent
      <3> TAKE m \in DOMAIN rows
      <3>1. rows[m] \in Row
        BY <1>0
      <3> DEFINE diff == calls[c].pdepth + 1 - calls[c].ndepth
      <3>2. CASE m = calls[c].node
        <4>1. Shifted(c)[m] = [rows[m] EXCEPT !.parent = calls[c].parent,
                                              !.depth = calls[c].ndepth + diff]
          BY <1>3, <3>2 DEF Shifted
        <4> QED
          BY <3>1, <3>2, <4>1 DEF Row
      <3>3. CASE m # calls[c].node
        <4>1. Shifted(c)[m] \in {rows[m], [rows[m] EXCEPT !.depth = rows[m].depth + diff]}
          BY <3>3 DEF Shifted
        <4> QED
          BY <3>1, <3>3, <4>1 DEF Row
      <3> QED
        BY <3>2, <3>3
    <2> QED
      BY <1>1, <1>3, <2>1, <2>2 DEF SameShape, Hung
  <1> QED
    BY <1>1, <1>2, <1>3

\* A step of a call leaves the stage "writing" or enters it with what it has locked.
LEMMA StaysWriting ==
    ASSUME TypeOK, NEW c \in DOMAIN calls, Serve(c) \/ Answer(c) \/ AnswerFails(c)
    PROVE  /\ DOMAIN calls' = DOMAIN calls
           /\ \A d \in DOMAIN calls \ {c} : calls'[d] = calls[d]
           /\ calls'[c].st = "writing" => WriteMove(c) /\ calls[c].st = "looked"
                                          /\ calls'[c].node = calls[c].node
                                          /\ calls'[c].parent = calls[c].parent
  <1>1. Steps(c)
    BY ServeSteps, AnswerSteps
  <1>2. CASE calls'[c].st = "writing"
    <2>1. calls'[c] \in Live /\ calls'[c].node = calls[c].node
          /\ calls'[c].parent = calls[c].parent
      BY <1>1, <1>2 DEF Steps, Advance, Ended
    <2>2. \A st \in {"done", "failed"} : Done(c, st) => calls'[c].st # "writing"
      <3> SUFFICES ASSUME NEW st \in {"done", "failed"}, Done(c, st)
                   PROVE  calls'[c].st # "writing"
        OBVIOUS
      <3>1. calls[c] \in Live /\ calls \in Seq(Live \cup Ended)
        BY <1>1 DEF Steps, TypeOK
      <3>2. calls'[c] \in {[calls[c] EXCEPT !.st = st], Over(c)}
        BY <3>1 DEF Done
      <3> QED
        BY <3>1, <3>2 DEF Live, Over
    <2>3. ~Answer(c) /\ ~AnswerFails(c)
      BY <1>2, AnswerSteps DEF Ended
    <2>4. ~ReadParent(c)
      <3>1. calls \in Seq(Live \cup Ended) /\ calls[c] \in Live
        BY <1>1 DEF Steps, TypeOK
      <3> QED
        BY <1>2, <2>2, <3>1 DEF ReadParent, Live
    <2>5. ~ReadNode(c)
      <3>1. calls \in Seq(Live \cup Ended) /\ calls[c] \in Live
        BY <1>1 DEF Steps, TypeOK
      <3> QED
        BY <1>2, <2>2, <3>1 DEF ReadNode, Live
    <2>6. WriteMove(c)
      BY <1>2, <2>2, <2>3, <2>4, <2>5
         DEF Serve, InsertRow, CommitMove, UpdateRow, DeleteRows, SortRows, Refuse
    <2> QED
      BY <1>1, <1>2, <2>1, <2>6 DEF Steps, WriteMove
  <1> QED
    BY <1>1, <1>2 DEF Steps

\* A call that is in its transaction and stays in it: what it has locked stays there.
LEMMA LockedStays ==
    ASSUME TreeAssumption, TypeOK, KnownInv, NEW c \in DOMAIN calls, Serve(c),
           NEW d \in DOMAIN calls, d # c, calls[d].st = "writing", ~CommitMove(c),
           calls[d].locked \subseteq DOMAIN rows
    PROVE  /\ calls[d].locked \subseteq DOMAIN rows'
           /\ calls[d].locked # {} /\ Acyclic(Reparented(d)) => Acyclic(Reparented(d)')
  <1>0. /\ calls[d] \in Live /\ StageOf(calls[d]) /\ calls[d].parent \in Known
        /\ rows \in Rows /\ rows' \in Rows /\ calls'[d] = calls[d]
        /\ DOMAIN rows \subseteq Known /\ \A m \in DOMAIN rows : rows[m].parent \in Known
    <2>1. rows' \in Rows
      BY CallStep DEF TypeOK
    <2>2. calls[d] \in Live /\ StageOf(calls[d])
      BY StagesAreLive
    <2>3. calls'[d] = calls[d]
      BY StaysWriting
    <2> QED
      BY <2>1, <2>2, <2>3 DEF TypeOK, KnownInv, CallsKnown, RowsKnown
  <1> DEFINE n == calls[d].node
             p == calls[d].parent
             u == [rows EXCEPT ![n].parent = p]
             w == [rows' EXCEPT ![n].parent = p]
  <1>1. Reparented(d) = u /\ Reparented(d)' = w
    BY <1>0 DEF Reparented
  <1>2. /\ DOMAIN u = DOMAIN rows /\ DOMAIN w = DOMAIN rows'
        /\ \A m \in DOMAIN rows : u[m].parent = IF m = n THEN p ELSE rows[m].parent
        /\ \A m \in DOMAIN rows' : w[m].parent = IF m = n THEN p ELSE rows'[m].parent
    BY <1>0, HungIs DEF Hung
  <1>3. calls[d].locked # {} => n \in DOMAIN rows
    BY <1>0 DEF StageOf
  <1> HIDE DEF u, w, n, p
  <1>4. CASE SameShape(rows, rows')
    BY <1>1, <1>2, <1>4, AcyclicSmaller DEF SameShape
  <1>5. CASE /\ DOMAIN rows' = DOMAIN rows \cup {calls[c].node}
             /\ \A m \in DOMAIN rows : rows'[m] = rows[m]
             /\ rows'[calls[c].node].parent = calls[c].parent
             /\ calls[c].node \notin Known /\ calls[c].parent \in Known
    <2>1. calls[c].node \notin DOMAIN rows
      BY <1>0, <1>5
    <2>2. ASSUME calls[d].locked # {}
          PROVE  \A m \in DOMAIN w : w[m].parent # calls[c].node
      BY <1>0, <1>2, <1>5, <2>1 DEF p
    <2>3. ASSUME calls[d].locked # {}
          PROVE  \A m \in DOMAIN u : w[m].parent = u[m].parent
      BY <1>2, <1>5
    <2>4. DOMAIN w = DOMAIN u \cup {calls[c].node}
      BY <1>2, <1>5
    <2>5. calls[d].locked # {} /\ Acyclic(u) => Acyclic(w)
      BY <1>2, <2>1, <2>2, <2>3, <2>4, AcyclicLeaf
    <2> QED
      BY <1>1, <1>5, <2>5
  <1>6. CASE rows' = Without(rows, calls[c].node)
             /\ \A m \in {calls[c].node} \cup Below(rows, calls[c].node) : ~Locked(m)
    <2>1. \A m \in calls[d].locked : Locked(m)
      BY DEF Locked
    <2>0. DOMAIN rows' = DOMAIN rows \ ({calls[c].node} \cup Below(rows, calls[c].node))
          /\ \A m \in DOMAIN rows' : rows'[m] = rows[m]
      BY <1>6 DEF Without
    <2>2. calls[d].locked \subseteq DOMAIN rows'
      BY <1>6, <2>0, <2>1
    <2>3. DOMAIN w \subseteq DOMAIN u /\ \A m \in DOMAIN w : w[m].parent = u[m].parent
      BY <1>2, <2>0
    <2>4. Acyclic(u) => Acyclic(w)
      BY <2>3, AcyclicSmaller
    <2> QED
      BY <1>1, <2>2, <2>4
  <1>7. CASE rows' = rows
    BY <1>4, <1>7 DEF SameShape
  <1>8. \/ SameShape(rows, rows') \/ rows' = rows
        \/ /\ DOMAIN rows' = DOMAIN rows \cup {calls[c].node}
           /\ \A m \in DOMAIN rows : rows'[m] = rows[m]
           /\ rows'[calls[c].node].parent = calls[c].parent
           /\ calls[c].node \notin Known /\ calls[c].parent \in Known
        \/ /\ rows' = Without(rows, calls[c].node)
           /\ \A m \in {calls[c].node} \cup Below(rows, calls[c].node) : ~Locked(m)
    BY RowSteps
  <1> QED
    BY <1>4, <1>5, <1>6, <1>7, <1>8

\* The rows stay without a cycle.
LEMMA RowsStayAcyclic ==
    ASSUME TreeAssumption, TypeOK, KnownInv, NEW c \in DOMAIN calls, Serve(c), Acyclic(rows),
           calls[c].st = "writing" /\ calls[c].locked # {} => Acyclic(Reparented(c))
    PROVE  Acyclic(rows')
  <1>1. CASE SameShape(rows, rows') \/ rows' = rows
    BY <1>1, AcyclicSameShape
  <1>2. CASE /\ DOMAIN rows' = DOMAIN rows \cup {calls[c].node}
             /\ \A m \in DOMAIN rows : rows'[m] = rows[m]
             /\ rows'[calls[c].node].parent = calls[c].parent
             /\ calls[c].node \notin Known /\ calls[c].parent \in Known
    <2>1. calls[c].node \notin DOMAIN rows
          /\ \A m \in DOMAIN rows' : rows'[m].parent # calls[c].node
      BY <1>2 DEF KnownInv, RowsKnown
    <2> QED
      BY <1>2, <2>1, AcyclicLeaf
  <1>3. CASE CommitMove(c) /\ rows' = Shifted(c)
    <2>1. calls[c].st = "writing" /\ StageOf(calls[c])
      BY <1>3, StagesAreLive DEF CommitMove
    <2>2. calls[c].locked = {} \/ calls[c].node \in calls[c].locked
      BY <2>1 DEF StageOf
    <2> QED
      BY <1>3, <2>1, <2>2, ShiftedIs, AcyclicSameShape
  <1>4. CASE rows' = Without(rows, calls[c].node)
    <2>1. DOMAIN rows' \subseteq DOMAIN rows /\ \A m \in DOMAIN rows' : rows'[m] = rows[m]
      BY <1>4 DEF Without
    <2> QED
      BY <2>1, AcyclicSmaller
  <1>5. \/ SameShape(rows, rows') \/ rows' = rows
        \/ /\ DOMAIN rows' = DOMAIN rows \cup {calls[c].node}
           /\ \A m \in DOMAIN rows : rows'[m] = rows[m]
           /\ rows'[calls[c].node].parent = calls[c].parent
           /\ calls[c].node \notin Known /\ calls[c].parent \in Known
        \/ CommitMove(c) /\ rows' = Shifted(c)
        \/ rows' = Without(rows, calls[c].node)
    BY RowSteps
  <1> QED
    BY <1>1, <1>2, <1>3, <1>4, <1>5

\* A move that begins to write has made sure that it closes no cycle.
LEMMA WritesNoCycle ==
    ASSUME TypeOK, NEW c \in DOMAIN calls, WriteMove(c), calls'[c].st = "writing",
           Acyclic(rows)
    PROVE  /\ calls'[c].locked \subseteq DOMAIN rows
           /\ calls'[c].locked # {} =>
                 /\ Acyclic(Reparented(c)) /\ calls[c].node \in DOMAIN rows
                 /\ calls'[c].locked = {calls[c].node} \cup Below(Reparented(c), calls[c].node)
  <1> DEFINE n == calls[c].node
  <1>1. calls[c] \in Live /\ calls \in Seq(Live \cup Ended) /\ calls[c].st = "looked"
    BY StagesAreLive DEF WriteMove, TypeOK
  <1>2. CASE n \notin DOMAIN rows
    <2>1. calls'[c] = [calls[c] EXCEPT !.st = "writing", !.locked = {}]
      BY <1>1, <1>2 DEF WriteMove
    <2>2. calls'[c].locked = {}
      BY <1>1, <2>1 DEF Live
    <2> QED
      BY <2>2
  <1>3. CASE n \in DOMAIN rows
    <2>1. ~Done(c, "failed")
      <3>1. Done(c, "failed") => calls'[c] \in {[calls[c] EXCEPT !.st = "failed"], Over(c)}
        BY <1>1 DEF Done
      <3> QED
        BY <1>1, <3>1 DEF Live, Over
    <2> DEFINE B == {n} \cup Below(Reparented(c), n)
    <2>2. Ends(Reparented(c), n) /\ calls'[c] = [calls[c] EXCEPT !.st = "writing", !.locked = B]
      BY <1>1, <1>3, <2>1 DEF WriteMove
    <2> HIDE DEF B
    <2>3. calls'[c].locked = B
      BY <1>1, <2>2 DEF Live
    <2>4. ~OnCycle(Reparented(c), n)
      BY <2>2 DEF Ends
    <2>5. Acyclic(Reparented(c)) /\ DOMAIN Reparented(c) = DOMAIN rows
      BY <2>4, ReparentedIs, AcyclicHung
    <2>6. B \subseteq DOMAIN rows
      BY <1>3, <2>5, BelowClosed DEF B
    <2> QED
      BY <1>3, <2>3, <2>5, <2>6 DEF B
  <1> QED
    BY <1>2, <1>3

LEMMA ServeCycle ==
    ASSUME TreeAssumption, TypeOK, KnownInv, CycleInv, NEW c \in DOMAIN calls, Serve(c)
    PROVE  CycleInv'
  <1> SUFFICES ASSUME ~hist'.crossed
               PROVE  CycleInv'
    BY DEF CycleInv
  <1>1. ~hist.crossed /\ (WriteMove(c) => \A d \in DOMAIN calls : calls[d].st # "writing")
    BY DEF Serve, ReadParent, ReadNode, InsertRow, WriteMove, CommitMove, UpdateRow, DeleteRows,
           SortRows, Refuse, Wrote, TypeOK
  <1>2. /\ Acyclic(rows)
        /\ \A d, e \in DOMAIN calls :
              calls[d].st = "writing" /\ calls[e].st = "writing" => d = e
        /\ \A d \in DOMAIN calls :
              calls[d].st = "writing" =>
                 /\ calls[d].locked \subseteq DOMAIN rows
                 /\ calls[d].locked # {} => Acyclic(Reparented(d))
    BY <1>1 DEF CycleInv
  <1>3. /\ DOMAIN calls' = DOMAIN calls
        /\ \A d \in DOMAIN calls \ {c} : calls'[d] = calls[d]
        /\ calls'[c].st = "writing" => WriteMove(c) /\ calls'[c].node = calls[c].node
                                       /\ calls'[c].parent = calls[c].parent
    BY StaysWriting
  <1>4. Acyclic(rows')
    BY <1>2, RowsStayAcyclic
  <1>5. \A d, e \in DOMAIN calls' :
           calls'[d].st = "writing" /\ calls'[e].st = "writing" => d = e
    BY <1>1, <1>2, <1>3
  <1>6. ASSUME NEW d \in DOMAIN calls', calls'[d].st = "writing"
        PROVE  /\ calls'[d].locked \subseteq DOMAIN rows'
               /\ calls'[d].locked # {} => Acyclic(Reparented(d)')
    <2>1. CASE d = c
      <3>1. WriteMove(c) /\ rows' = rows /\ Reparented(c)' = Reparented(c)
        BY <1>3, <1>6, <2>1 DEF WriteMove, Reparented
      <3> QED
        BY <1>2, <1>3, <1>6, <2>1, <3>1, WritesNoCycle
    <2>2. CASE d # c
      <3>1. calls[d].st = "writing" /\ calls'[d] = calls[d] /\ ~CommitMove(c)
        BY <1>2, <1>3, <1>6, <2>2 DEF CommitMove
      <3> QED
        BY <1>2, <1>3, <2>2, <3>1, LockedStays
    <2> QED
      BY <2>1, <2>2
  <1> QED
    BY <1>4, <1>5, <1>6 DEF CycleInv

\* A new call is in no transaction, and the rest has nothing to do with the rows.
LEMMA AsideCycle ==
    ASSUME CycleInv, rows' = rows, hist'.crossed = hist.crossed,
           \A c \in DOMAIN calls' :
              calls'[c].st = "writing" => c \in DOMAIN calls /\ calls'[c] = calls[c]
    PROVE  CycleInv'
  <1>1. \A c \in DOMAIN calls' : calls'[c].st = "writing" =>
           c \in DOMAIN calls /\ calls'[c] = calls[c] /\ Reparented(c)' = Reparented(c)
    BY DEF Reparented
  <1> QED
    BY <1>1 DEF CycleInv

\* A request as it is sent.
LEMMA AskIs ==
    ASSUME TypeOK, NEW own, NEW kind, NEW n, NEW p, calls' = Ask(own, kind, n, p)
    PROVE  LET L == Len(calls) + 1
           IN  /\ DOMAIN calls' = DOMAIN calls \cup {L} /\ L \notin DOMAIN calls
               /\ \A c \in DOMAIN calls : calls'[c] = calls[c]
               /\ calls'[L].own = own /\ calls'[L].kind = kind /\ calls'[L].st = "sent"
               /\ calls'[L].node = n /\ calls'[L].parent = p
               /\ own /\ kind \in {"move", "delete", "sort"} => calls'[L].tree = page.tree
  <1>1. calls \in Seq(Live \cup Ended) /\ Len(calls) \in Nat /\ DOMAIN calls = 1 .. Len(calls)
    BY DEF TypeOK
  <1> QED
    BY <1>1 DEF Ask

\* What the administrators do at their pages.
LEMMA PagesOnly ==
    ASSUME TreeAssumption, TypeOK, Admin \/ OtherCall
    PROVE  \/ UNCHANGED <<rows, calls, hist>>
           \/ \E own \in BOOLEAN, kind \in Kind, n, p \in Place : calls' = Ask(own, kind, n, p)
                 /\ rows' = rows /\ hist'.crossed = hist.crossed
                 /\ hist'.overlap = hist.overlap
                 /\ page' = page
                 /\ IF own THEN hist'.drift = (hist.drift \/ Pending) /\ page.loaded
                           ELSE hist'.drift = hist.drift
  <1>1. ASSUME NEW kind \in Kind, NEW n \in Place, NEW p \in Place, Click(kind, n, p)
        PROVE  \E own \in BOOLEAN, k \in Kind, m, q \in Place : calls' = Ask(own, k, m, q)
                 /\ rows' = rows /\ hist'.crossed = hist.crossed
                 /\ hist'.overlap = hist.overlap
                 /\ page' = page
                 /\ IF own THEN hist'.drift = (hist.drift \/ Pending) /\ page.loaded
                           ELSE hist'.drift = hist.drift
    <2>1. /\ calls' = Ask(TRUE, kind, n, p) /\ rows' = rows /\ page' = page /\ page.loaded
          /\ hist'.crossed = hist.crossed /\ hist'.overlap = hist.overlap
          /\ hist'.drift = (hist.drift \/ Pending)
      BY <1>1 DEF Click, TypeOK
    <2> QED
      BY <2>1
  <1>2. CASE OtherCall
    <2>1. PICK kind \in {"move", "delete"}, n \in DOMAIN rows, p \in DOMAIN rows \cup {Top} : calls' = Ask(FALSE, kind, n, p)
      BY <1>2 DEF OtherCall
    <2>2. rows' = rows /\ page' = page /\ hist' = hist
      BY <1>2 DEF OtherCall
    <2>3. n \in Place /\ p \in Place
      BY <2>1, RowsAre DEF TypeOK, Place
    <2> QED
      BY <2>1, <2>2, <2>3 DEF Kind
  <1>3. CASE Admin
    <2>0. Nodes \subseteq Place /\ Top \in Place /\ Fresh \subseteq Place
          /\ page.node \in Place \cup {New} /\ page.parent \in Place
      BY DEF TypeOK, PageIn, Place, TreeAssumption
    <2>1. CASE Save
      BY <1>1, <2>0, <2>1 DEF Save, Kind
    <2>2. CASE Sort
      BY <1>1, <2>0, <2>2 DEF Sort, Kind
    <2>3. CASE \E n \in Nodes : Delete(n)
      BY <1>1, <2>0, <2>3 DEF Delete, Kind
    <2> QED
      BY <1>3, <2>1, <2>2, <2>3 DEF Admin, Load, Discard, Select, AddUnder, PickParent, Type
  <1> QED
    BY <1>2, <1>3

\* No category is below itself as long as no two moves were in their transactions
\* at the same time (CategoryService.MoveAsync and CategoryRepository, which check nothing
\* but that a category is not moved under itself).
THEOREM CyclesNeedCrossing == Spec => []CycleNeedsCrossedMoves
  <1>1. Init => CycleInv
    <2> SUFFICES ASSUME Init
                 PROVE  CycleInv
      OBVIOUS
    <2> DEFINE D == Nodes \ Fresh
    <2>1. PICK up \in [D -> D \cup {Top}] :
             LET t == [n \in D |-> [parent |-> up[n]]]
             IN  /\ \A n \in D : ~OnCycle(t, n)
                 /\ rows = [n \in D |->
                             [parent |-> up[n], data |-> NoData,
                              depth |-> Cardinality({m \in D : n \in Below(t, m)})]]
      BY DEF Init
    <2> DEFINE t == [n \in D |-> [parent |-> up[n]]]
    <2>2. Acyclic(t)
      BY <2>1 DEF Acyclic
    <2>3. SameShape(t, rows)
      BY <2>1 DEF SameShape
    <2> HIDE DEF t
    <2>4. Acyclic(rows)
      BY <2>2, <2>3, AcyclicSameShape
    <2>5. DOMAIN calls = {}
      BY DEF Init
    <2> QED
      BY <2>4, <2>5 DEF CycleInv
  <1>2. TypeOK /\ KnownInv /\ CycleInv /\ [Next]_vars => CycleInv'
    <2> SUFFICES ASSUME TypeOK, KnownInv, CycleInv, [Next]_vars
                 PROVE  CycleInv'
      OBVIOUS
    <2> USE TreeAssumption
    <2>1. ASSUME NEW c \in DOMAIN calls, Serve(c)
          PROVE  CycleInv'
      BY <2>1, ServeCycle
    <2>2. ASSUME NEW c \in DOMAIN calls, Answer(c) \/ AnswerFails(c)
          PROVE  CycleInv'
      <3>1. rows' = rows /\ hist'.crossed = hist.crossed
        BY <2>2 DEF Answer, AnswerFails, TypeOK
      <3>2. DOMAIN calls' = DOMAIN calls /\ calls'[c].st # "writing"
            /\ \A d \in DOMAIN calls \ {c} : calls'[d] = calls[d]
        BY <2>2, AnswerSteps DEF Steps, Ended
      <3> QED
        BY <3>1, <3>2, AsideCycle
    <2>3. CASE UNCHANGED <<rows, calls, hist>>
      BY <2>3, AsideCycle
    <2>4. CASE Admin \/ OtherCall
      <3>1. ASSUME NEW own \in BOOLEAN, NEW kind \in Kind, NEW n \in Place, NEW p \in Place,
                   calls' = Ask(own, kind, n, p), rows' = rows, hist'.crossed = hist.crossed
            PROVE  CycleInv'
        <4> DEFINE L == Len(calls) + 1
        <4>1. DOMAIN calls' = DOMAIN calls \cup {L} /\ calls'[L].st = "sent"
              /\ \A c \in DOMAIN calls : calls'[c] = calls[c]
          BY <3>1, AskIs
        <4> QED
          BY <3>1, <4>1, AsideCycle
      <3> QED
        BY <2>3, <2>4, <3>1, PagesOnly
    <2> QED
      BY <2>1, <2>2, <2>3, <2>4 DEF Next, vars
  <1>3. CycleInv => CycleNeedsCrossedMoves
    BY DEF CycleInv, CycleNeedsCrossedMoves, Acyclic
  <1> QED
    BY <1>1, <1>2, <1>3, IdsAreKnown, PTL DEF Spec

-----------------------------------------------------------------------------
(* Depths.                                                                 *)

DepthOf(t, p) == IF p = Top THEN -1 ELSE t[p].depth

DepthsFollow(t) ==
    Rooted(t) /\ \A n \in DOMAIN t : t[n].depth = DepthOf(t, t[n].parent) + 1

\* What a call has read of the rows is what they hold, and a move has locked what hangs
\* below its node.
StillTrue(c) ==
    LET n == calls[c].node
        p == calls[c].parent
    IN  /\ calls[c].st \in {"parent", "looked", "writing"} =>
              p \in DOMAIN rows \cup {Top} /\ calls[c].pdepth = DepthOf(rows, p)
        /\ calls[c].st \in {"looked", "writing"} =>
              n \in DOMAIN rows /\ calls[c].ndepth = rows[n].depth
        /\ calls[c].st = "writing" =>
              /\ calls[c].locked = {n} \cup Below(Reparented(c), n)
              /\ ~OnCycle(Reparented(c), n)

DepthInv == hist.overlap \/ (DepthsFollow(rows) /\ \A c \in DOMAIN calls : StillTrue(c))

LEMMA InsertDepths ==
    ASSUME TreeAssumption, TypeOK, KnownInv, NEW c \in DOMAIN calls, DepthsFollow(rows), StillTrue(c),
           InsertRow(c)
    PROVE  DepthsFollow(rows')
  <1> DEFINE n == calls[c].node
             p == calls[c].parent
  <1>1. /\ n \notin DOMAIN rows /\ n # Top
        /\ DOMAIN rows' = DOMAIN rows \cup {n} /\ \A m \in DOMAIN rows : rows'[m] = rows[m]
        /\ rows'[n].parent = p /\ rows'[n].depth = calls[c].pdepth + 1
    <2>1. calls[c] \in Live /\ calls[c].kind = "create" /\ n \in Nodes /\ calls[c].st = "parent"
      BY StagesAreLive DEF InsertRow, StageOf
    <2>2. n \notin DOMAIN rows
      BY <2>1 DEF KnownInv, CallsKnown, RowsKnown
    <2> QED
      BY <2>1, <2>2 DEF InsertRow, TreeAssumption
  <1>2. p \in DOMAIN rows \cup {Top} /\ calls[c].pdepth = DepthOf(rows, p)
    BY DEF InsertRow, StillTrue
  <1>3. \A q \in DOMAIN rows \cup {Top} : DepthOf(rows', q) = DepthOf(rows, q)
    BY <1>1 DEF DepthOf
  <1>4. Rooted(rows')
    BY <1>1, <1>2 DEF DepthsFollow, Rooted
  <1>5. ASSUME NEW m \in DOMAIN rows'
        PROVE  rows'[m].depth = DepthOf(rows', rows'[m].parent) + 1
    <2>1. CASE m = n
      <3>1. DepthOf(rows', rows'[n].parent) = DepthOf(rows, p)
        BY <1>1, <1>2, <1>3
      <3> QED
        BY <1>1, <1>2, <2>1, <3>1
    <2>2. CASE m \in DOMAIN rows
      <3>1. rows[m].parent \in DOMAIN rows \cup {Top}
        BY <2>2 DEF DepthsFollow, Rooted
      <3>2. DepthOf(rows', rows'[m].parent) = DepthOf(rows, rows[m].parent)
        BY <1>1, <1>3, <2>2, <3>1
      <3> QED
        BY <1>1, <2>2, <3>2 DEF DepthsFollow
    <2> QED
      BY <1>1, <2>1, <2>2
  <1> QED
    BY <1>4, <1>5 DEF DepthsFollow

LEMMA DeleteDepths ==
    ASSUME DepthsFollow(rows), TreeAssumption, NEW n, rows' = Without(rows, n)
    PROVE  DepthsFollow(rows')
  <1>1. DOMAIN rows' = DOMAIN rows \ ({n} \cup Below(rows, n))
        /\ \A m \in DOMAIN rows' : rows'[m] = rows[m]
    BY DEF Without
  <1>2. ASSUME NEW m \in DOMAIN rows'
        PROVE  rows[m].parent \in DOMAIN rows' \cup {Top}
    <2>1. rows[m].parent \notin {n} \cup Below(rows, n)
      BY <1>1, BelowClosed
    <2> QED
      BY <1>1, <2>1 DEF DepthsFollow, Rooted
  <1>3. \A q \in DOMAIN rows' \cup {Top} : DepthOf(rows', q) = DepthOf(rows, q)
    BY <1>1 DEF DepthOf
  <1>4. Rooted(rows')
    BY <1>1, <1>2 DEF Rooted
  <1>5. ASSUME NEW m \in DOMAIN rows'
        PROVE  rows'[m].depth = DepthOf(rows', rows'[m].parent) + 1
    <2>1. DepthOf(rows', rows'[m].parent) = DepthOf(rows, rows[m].parent)
      BY <1>1, <1>2, <1>3
    <2> QED
      BY <1>1, <2>1 DEF DepthsFollow
  <1> QED
    BY <1>4, <1>5 DEF DepthsFollow

\* A move carries the depths of all that hangs below its node along.
LEMMA MoveDepths ==
    ASSUME TreeAssumption, TypeOK, KnownInv, NEW c \in DOMAIN calls, DepthsFollow(rows), StillTrue(c),
           CommitMove(c)
    PROVE  DepthsFollow(rows')
  <1> DEFINE n == calls[c].node
             p == calls[c].parent
             u == Reparented(c)
             L == calls[c].locked
             diff == calls[c].pdepth + 1 - calls[c].ndepth
  <1>1. /\ calls[c] \in Live /\ StageOf(calls[c]) /\ calls[c].st = "writing" /\ n # p
        /\ rows \in [DOMAIN rows -> Row]
        /\ calls[c].kind = "move" /\ n \in Nodes
    <2>1. calls[c] \in Live /\ StageOf(calls[c]) /\ calls[c].st = "writing"
      BY StagesAreLive DEF CommitMove
    <2>2. rows \in [DOMAIN rows -> Row]
      BY RowsAre DEF TypeOK
    <2> QED
      BY <2>1, <2>2 DEF StageOf
  <1>2. /\ p \in DOMAIN rows \cup {Top} /\ calls[c].pdepth = DepthOf(rows, p)
        /\ n \in DOMAIN rows /\ calls[c].ndepth = rows[n].depth
        /\ L = {n} \cup Below(u, n) /\ n \notin Below(u, n)
    BY <1>1 DEF StillTrue, OnCycle
  <1>3. DOMAIN u = DOMAIN rows
        /\ \A m \in DOMAIN rows : u[m].parent = IF m = n THEN p ELSE rows[m].parent
    BY ReparentedIs DEF Hung
  <1>4. L \subseteq DOMAIN rows /\ p \notin L
    <2>1. Below(u, n) \subseteq DOMAIN rows
      BY <1>3, BelowClosed
    <2>2. p \notin Below(u, n)
      BY <1>2, <1>3, BelowClosed
    <2> QED
      BY <1>1, <1>2, <2>1, <2>2
  <1>5. \A m \in DOMAIN rows : m # n /\ rows[m].parent \in L => m \in L
    BY <1>2, <1>3, BelowClosed
  <1>6. \A m \in L \ {n} : rows[m].parent \in L
    BY <1>2, <1>3, <1>4, BelowParent
  <1>7. \A m \in DOMAIN rows : rows[m].depth \in Int
    BY <1>1 DEF Row
  <1>8. calls[c].pdepth \in Int /\ calls[c].ndepth \in Int
    BY <1>1 DEF Live
  <1>9. DOMAIN rows' = DOMAIN rows
        /\ \A m \in DOMAIN rows :
             /\ rows'[m].parent = IF m = n THEN p ELSE rows[m].parent
             /\ rows'[m].depth = IF m \in L THEN rows[m].depth + diff ELSE rows[m].depth
    <2>1. rows' = Shifted(c)
      BY DEF CommitMove
    <2>2. DOMAIN rows' = DOMAIN rows
      BY <2>1 DEF Shifted
    <2>3. ASSUME NEW m \in DOMAIN rows
          PROVE  /\ rows'[m].parent = IF m = n THEN p ELSE rows[m].parent
                 /\ rows'[m].depth = IF m \in L THEN rows[m].depth + diff ELSE rows[m].depth
      <3>0. rows[m] \in Row
        BY <1>1
      <3>1. CASE m \notin L
        <4>1. rows'[m] = rows[m] /\ m # n
          BY <1>2, <2>1, <3>1 DEF Shifted
        <4> QED
          BY <3>1, <4>1
      <3>2. CASE m = n
        <4>1. rows'[m] = [rows[m] EXCEPT !.parent = p, !.depth = calls[c].ndepth + diff]
          BY <1>2, <2>1, <3>2 DEF Shifted
        <4> QED
          BY <1>2, <3>0, <3>2, <4>1 DEF Row
      <3>3. CASE m \in L /\ m # n
        <4>1. rows'[m] = [rows[m] EXCEPT !.depth = rows[m].depth + diff]
          BY <2>1, <3>3 DEF Shifted
        <4> QED
          BY <3>0, <3>3, <4>1 DEF Row
      <3> QED
        BY <3>1, <3>2, <3>3
    <2> QED
      BY <2>2, <2>3
  <1>10. Rooted(rows')
    BY <1>2, <1>9 DEF DepthsFollow, Rooted
  <1> HIDE DEF L, u, n, p
  <1>11. ASSUME NEW m \in DOMAIN rows'
         PROVE  rows'[m].depth = DepthOf(rows', rows'[m].parent) + 1
    <2>0. /\ rows[m].depth = DepthOf(rows, rows[m].parent) + 1 /\ m \in DOMAIN rows
          /\ rows[m].parent \in DOMAIN rows \cup {Top} /\ Top \notin DOMAIN rows
      BY <1>9, RowsAre DEF DepthsFollow, Rooted, TreeAssumption, TypeOK
    <2>1. CASE m = n
      <3>1. DepthOf(rows', p) = DepthOf(rows, p)
        BY <1>2, <1>4, <1>9 DEF DepthOf, p
      <3>2. rows'[m].parent = p /\ rows'[m].depth = calls[c].ndepth + diff
        BY <1>2, <1>9, <2>1
      <3>3. DepthOf(rows', rows'[m].parent) = DepthOf(rows, p)
        BY <3>1, <3>2
      <3> QED
        BY <1>2, <1>8, <3>2, <3>3
    <2>2. CASE m \in L /\ m # n
      <3>1. rows'[m].parent = rows[m].parent /\ rows'[m].depth = rows[m].depth + diff
        BY <1>9, <2>0, <2>2
      <3>2. rows[m].parent \in L /\ rows[m].parent \in DOMAIN rows /\ rows[m].parent # Top
        BY <1>4, <1>6, <2>0, <2>2
      <3>3. DepthOf(rows', rows'[m].parent) = DepthOf(rows, rows[m].parent) + diff
        BY <1>9, <3>1, <3>2 DEF DepthOf
      <3>4. DepthOf(rows, rows[m].parent) \in Int
        BY <1>7, <3>2 DEF DepthOf
      <3> QED
        BY <1>8, <2>0, <3>1, <3>3, <3>4
    <2>3. CASE m \notin L /\ m # n
      <3>1. rows'[m].parent = rows[m].parent /\ rows'[m].depth = rows[m].depth
        BY <1>9, <2>0, <2>3
      <3>2. rows[m].parent \notin L
        BY <1>5, <2>0, <2>3
      <3>3. DepthOf(rows', rows'[m].parent) = DepthOf(rows, rows[m].parent)
        BY <1>9, <2>0, <3>1, <3>2 DEF DepthOf
      <3> QED
        BY <2>0, <3>1, <3>3
    <2> QED
      BY <2>1, <2>2, <2>3
  <1> QED
    BY <1>10, <1>11 DEF DepthsFollow

\* At first a row's depth is the number of rows above it.
LEMMA InitDepths == TreeAssumption /\ Init => DepthsFollow(rows) /\ Acyclic(rows)
  <1> SUFFICES ASSUME TreeAssumption, Init
               PROVE  DepthsFollow(rows) /\ Acyclic(rows)
    OBVIOUS
  <1> DEFINE D == Nodes \ Fresh
  <1>1. PICK up \in [D -> D \cup {Top}] :
           LET t == [n \in D |-> [parent |-> up[n]]]
           IN  /\ \A n \in D : ~OnCycle(t, n)
               /\ rows = [n \in D |->
                           [parent |-> up[n], data |-> NoData,
                            depth |-> Cardinality({m \in D : n \in Below(t, m)})]]
    BY DEF Init
  <1> DEFINE t == [n \in D |-> [parent |-> up[n]]]
             Above(n) == {m \in D : n \in Below(t, m)}
  <1>2. Acyclic(t) /\ DOMAIN t = D /\ \A n \in D : t[n].parent = up[n]
    BY <1>1 DEF Acyclic
  <1>3. DOMAIN rows = D
        /\ \A n \in D : rows[n].parent = up[n] /\ rows[n].depth = Cardinality(Above(n))
    BY <1>1
  <1>4. SameShape(t, rows)
    BY <1>2, <1>3 DEF SameShape
  <1> HIDE DEF t
  <1>5. Rooted(rows)
    BY <1>3 DEF Rooted
  <1>6. ASSUME NEW n \in D
        PROVE  Cardinality(Above(n)) = DepthOf(rows, up[n]) + 1
    <2>1. CASE up[n] = Top
      <3>0. Top \notin D
        BY DEF TreeAssumption
      <3>1. ASSUME NEW m \in D, n \in Below(t, m)
            PROVE  FALSE
        <4>1. t[n].parent \in {m} \cup Below(t, m) /\ Below(t, m) \subseteq D
          BY <1>2, <3>1, BelowParent, BelowClosed
        <4> QED
          BY <1>2, <2>1, <3>0, <4>1
      <3>2. Above(n) = {}
        BY <3>1
      <3>3. Cardinality({}) = 0
        BY FS_EmptySet
      <3>4. DepthOf(rows, up[n]) = -1
        BY <2>1 DEF DepthOf
      <3>5. Cardinality(Above(n)) = 0
        BY <3>2, <3>3
      <3> HIDE DEF Above
      <3> QED
        BY <3>4, <3>5
    <2>2. CASE up[n] # Top
      <3> DEFINE q == up[n]
      <3>1. q \in D
        BY <2>2
      <3>2. q \notin Above(q)
        BY <1>2, <3>1 DEF Acyclic, OnCycle
      <3>3. ASSUME NEW m \in D
            PROVE  m \in Above(n) <=> m = q \/ m \in Above(q)
        BY <1>2, <3>1, BelowParent, BelowClosed
      <3>4. Above(n) = Above(q) \cup {q}
        BY <3>1, <3>3
      <3>5. IsFiniteSet(Above(q))
        BY FS_Subset DEF TreeAssumption
      <3>6. Cardinality(Above(q) \cup {q}) = Cardinality(Above(q)) + 1
        BY <3>2, <3>5, FS_AddElement
      <3> QED
        BY <1>3, <2>2, <3>1, <3>4, <3>6 DEF DepthOf
    <2> QED
      BY <2>1, <2>2
  <1>7. Acyclic(rows)
    BY <1>2, <1>4, AcyclicSameShape
  <1> QED
    BY <1>3, <1>5, <1>6, <1>7 DEF DepthsFollow

\* What each step of the service does to the record of its call.
LEMMA ReadsTrue ==
    ASSUME TreeAssumption, TypeOK, KnownInv, NEW c \in DOMAIN calls, StillTrue(c), Serve(c),
           calls'[c].st \in {"parent", "looked", "writing"}
    PROVE  StillTrue(c)' /\ rows' = rows
  <1>0. calls \in Seq(Live \cup Ended)
    BY DEF TypeOK
  <1>1. \A st \in {"done", "failed"} : ~Done(c, st)
    <2>1. \A st \in {"done", "failed"} :
             Done(c, st) => calls'[c] \in {[calls[c] EXCEPT !.st = st], Over(c)}
      BY <1>0 DEF Done
    <2>2. \A st \in {"done", "failed"} :
             calls[c] \in Live => [calls[c] EXCEPT !.st = st].st = st
      BY DEF Live
    <2>3. Over(c).st = "over"
      BY DEF Over
    <2>4. calls[c] \in Live
      BY ServeSteps DEF Steps
    <2> QED
      BY <2>1, <2>2, <2>3, <2>4
  <1>2. ReadParent(c) \/ ReadNode(c) \/ WriteMove(c)
    BY <1>1 DEF Serve, InsertRow, CommitMove, UpdateRow, DeleteRows, SortRows, Refuse
  <1>3. rows' = rows /\ calls[c] \in Live
    BY <1>2, ServeSteps DEF ReadParent, ReadNode, WriteMove, Steps
  <1>4. CASE ReadParent(c)
    <2> DEFINE p == calls[c].parent
               d == IF p = Top THEN -1 ELSE rows[p].depth
    <2>1. p \in DOMAIN rows \cup {Top}
          /\ calls' = [calls EXCEPT ![c].st = "parent", ![c].pdepth = d]
      BY <1>1, <1>4 DEF ReadParent
    <2>2. calls'[c].st = "parent" /\ calls'[c].parent = p /\ calls'[c].pdepth = d
      BY <1>0, <1>3, <2>1 DEF Live
    <2> QED
      BY <1>3, <2>1, <2>2 DEF StillTrue, DepthOf
  <1>5. CASE ReadNode(c)
    <2> DEFINE n == calls[c].node
               d == rows[n].depth
    <2>1. n \in DOMAIN rows
          /\ calls' = [calls EXCEPT ![c].st = "looked", ![c].ndepth = d]
      BY <1>1, <1>5 DEF ReadNode
    <2>2. calls'[c].st = "looked" /\ calls'[c].parent = calls[c].parent /\ calls'[c].node = n
          /\ calls'[c].pdepth = calls[c].pdepth /\ calls'[c].ndepth = d
      BY <1>0, <1>3, <2>1 DEF Live
    <2>3. calls[c].st = "parent"
      BY <1>5 DEF ReadNode
    <2> QED
      BY <1>3, <2>1, <2>2, <2>3 DEF StillTrue, DepthOf
  <1>6. CASE WriteMove(c)
    <2> DEFINE n == calls[c].node
               B == {n} \cup Below(Reparented(c), n)
    <2>1. calls[c].st = "looked" /\ n \in DOMAIN rows
      BY <1>6 DEF WriteMove, StillTrue
    <2>2. Ends(Reparented(c), n)
          /\ calls' = [calls EXCEPT ![c].st = "writing", ![c].locked = B]
      BY <1>1, <1>6, <2>1 DEF WriteMove
    <2> HIDE DEF B
    <2>3. calls'[c].st = "writing" /\ calls'[c].parent = calls[c].parent /\ calls'[c].node = n
          /\ calls'[c].pdepth = calls[c].pdepth /\ calls'[c].ndepth = calls[c].ndepth
          /\ calls'[c].locked = B
      BY <1>0, <1>3, <2>2 DEF Live
    <2>4. Reparented(c)' = Reparented(c)
      BY <1>3, <2>3 DEF Reparented
    <2>5. ~OnCycle(Reparented(c), n)
      BY <2>2 DEF Ends
    <2> QED
      BY <1>3, <2>1, <2>3, <2>4, <2>5 DEF StillTrue, DepthOf, B
  <1> QED
    BY <1>2, <1>3, <1>4, <1>5, <1>6

\* What a call knows stays true while the rows keep their parents and depths.
LEMMA StaysTrue ==
    ASSUME TypeOK, rows' \in Rows, NEW d \in DOMAIN calls, StillTrue(d), calls'[d] = calls[d],
           SameShape(rows, rows'), \A m \in DOMAIN rows : rows'[m].depth = rows[m].depth
    PROVE  StillTrue(d)'
  <1> DEFINE n == calls[d].node
             p == calls[d].parent
             u == [rows EXCEPT ![n].parent = p]
             w == [rows' EXCEPT ![n].parent = p]
  <1>1. Reparented(d) = u /\ Reparented(d)' = w
    BY DEF Reparented
  <1>2. SameShape(u, w)
    BY HungIs DEF SameShape, Hung, TypeOK
  <1>3. Below(u, n) = Below(w, n)
    BY <1>2, BelowSameShape
  <1> HIDE DEF u, w
  <1> QED
    BY <1>1, <1>3 DEF StillTrue, OnCycle, SameShape, DepthOf

\* Rows that change only in their data keep what is said of the depths.
LEMMA DepthsStay ==
    ASSUME DepthsFollow(rows), SameShape(rows, rows'), Top \notin DOMAIN rows,
           \A m \in DOMAIN rows : rows'[m].depth = rows[m].depth
    PROVE  DepthsFollow(rows')
  <1>1. Rooted(rows')
    BY DEF DepthsFollow, Rooted, SameShape
  <1>2. ASSUME NEW m \in DOMAIN rows'
        PROVE  rows'[m].depth = DepthOf(rows', rows'[m].parent) + 1
    <2>1. m \in DOMAIN rows /\ rows'[m].parent = rows[m].parent
          /\ rows[m].parent \in DOMAIN rows \cup {Top}
      BY DEF DepthsFollow, Rooted, SameShape
    <2> QED
      BY <2>1 DEF DepthsFollow, DepthOf
  <1> QED
    BY <1>1, <1>2 DEF DepthsFollow

\* A call that writes while no other is midway leaves none that knows anything.
LEMMA WroteAlone ==
    ASSUME TypeOK, NEW c \in DOMAIN calls, Wrote(c), ~hist'.overlap, Serve(c),
           calls'[c].st \notin {"parent", "looked", "writing"}
    PROVE  ~hist.overlap /\ \A d \in DOMAIN calls' : StillTrue(d)'
  <1>1. ~hist.overlap /\ ~Midway(c)
    BY DEF Wrote, TypeOK
  <1>2. DOMAIN calls' = DOMAIN calls /\ \A d \in DOMAIN calls \ {c} : calls'[d] = calls[d]
    BY StaysWriting
  <1>3. \A d \in DOMAIN calls' : calls'[d].st \notin {"parent", "looked", "writing"}
    BY <1>1, <1>2 DEF Midway
  <1> QED
    BY <1>1, <1>3 DEF StillTrue

\* The rows as an update leaves them.
LEMMA UpdateKeeps ==
    ASSUME TypeOK, NEW c, UpdateRow(c) \/ rows' = rows
    PROVE  SameShape(rows, rows') /\ \A m \in DOMAIN rows : rows'[m].depth = rows[m].depth
  <1>1. CASE rows' = rows
    BY <1>1 DEF SameShape
  <1>2. CASE rows' = [rows EXCEPT ![calls[c].node].data = calls[c].data]
    <2>1. rows \in [DOMAIN rows -> Row] /\ DOMAIN rows' = DOMAIN rows
      BY <1>2, RowsAre DEF TypeOK
    <2>2. \A m \in DOMAIN rows : rows'[m].parent = rows[m].parent /\ rows'[m].depth = rows[m].depth
      BY <1>2, <2>1 DEF Row
    <2> QED
      BY <2>1, <2>2 DEF SameShape
  <1> QED
    BY <1>1, <1>2 DEF UpdateRow

LEMMA ServeDepths ==
    ASSUME TreeAssumption, TypeOK, KnownInv, DepthInv, NEW c \in DOMAIN calls, Serve(c)
    PROVE  DepthInv'
  <1> SUFFICES ASSUME ~hist'.overlap
               PROVE  DepthsFollow(rows') /\ \A d \in DOMAIN calls' : StillTrue(d)'
    BY DEF DepthInv
  <1>0. /\ DOMAIN calls' = DOMAIN calls
        /\ \A d \in DOMAIN calls \ {c} : calls'[d] = calls[d]
        /\ rows' \in Rows /\ Top \notin DOMAIN rows
    <2>1. rows' \in Rows
      BY CallStep DEF TypeOK
    <2>2. Top \notin DOMAIN rows
      BY RowsAre DEF TypeOK, TreeAssumption
    <2> QED
      BY <2>1, <2>2, StaysWriting
  <1>1. ASSUME Done(c, "done") \/ Done(c, "failed")
        PROVE  calls'[c].st \notin {"parent", "looked", "writing"}
    <2>1. calls \in Seq(Live \cup Ended) /\ calls[c] \in Live
      BY ServeSteps DEF TypeOK, Steps
    <2>2. PICK st \in {"done", "failed"} : calls'[c] \in {[calls[c] EXCEPT !.st = st], Over(c)}
      BY <1>1, <2>1 DEF Done
    <2> QED
      BY <2>1, <2>2 DEF Live, Over
  <1>2. CASE Wrote(c) /\ (InsertRow(c) \/ CommitMove(c)
                            \/ (Done(c, "done") /\ rows' = Without(rows, calls[c].node)))
    <2>1. ~hist.overlap /\ \A d \in DOMAIN calls' : StillTrue(d)'
      BY <1>1, <1>2, WroteAlone DEF InsertRow, CommitMove
    <2>2. DepthsFollow(rows) /\ StillTrue(c)
      BY <2>1 DEF DepthInv
    <2> QED
      BY <1>2, <2>1, <2>2, InsertDepths, MoveDepths, DeleteDepths
  <1>3. CASE (UpdateRow(c) \/ rows' = rows) /\ hist'.overlap = hist.overlap
    <2>1. DepthsFollow(rows) /\ \A d \in DOMAIN calls : StillTrue(d)
      BY <1>3 DEF DepthInv
    <2>2. SameShape(rows, rows') /\ \A m \in DOMAIN rows : rows'[m].depth = rows[m].depth
      BY <1>3, UpdateKeeps
    <2>3. DepthsFollow(rows')
      BY <1>0, <2>1, <2>2, DepthsStay
    <2>4. \A d \in DOMAIN calls \ {c} : StillTrue(d)'
      BY <1>0, <2>1, <2>2, StaysTrue
    <2>5. StillTrue(c)'
      <3>1. CASE calls'[c].st \in {"parent", "looked", "writing"}
        BY <2>1, <3>1, ReadsTrue
      <3>2. CASE calls'[c].st \notin {"parent", "looked", "writing"}
        BY <3>2 DEF StillTrue
      <3> QED
        BY <3>1, <3>2
    <2> QED
      BY <1>0, <2>3, <2>4, <2>5
  <1>4. \/ Wrote(c) /\ (InsertRow(c) \/ CommitMove(c)
                            \/ (Done(c, "done") /\ rows' = Without(rows, calls[c].node)))
        \/ (UpdateRow(c) \/ rows' = rows) /\ hist'.overlap = hist.overlap
    BY DEF Serve, ReadParent, ReadNode, InsertRow, WriteMove, CommitMove, UpdateRow, DeleteRows,
           SortRows, Refuse, TypeOK
  <1> QED
    BY <1>2, <1>3, <1>4

\* A step beside the rows.
LEMMA AsideDepths ==
    ASSUME DepthInv, rows' = rows, hist'.overlap = hist.overlap,
           \A c \in DOMAIN calls' :
              calls'[c].st \in {"parent", "looked", "writing"} =>
                 c \in DOMAIN calls /\ calls'[c] = calls[c]
    PROVE  DepthInv'
  <1>1. ASSUME ~hist'.overlap, NEW c \in DOMAIN calls'
        PROVE  StillTrue(c)'
    <2>1. CASE calls'[c].st \in {"parent", "looked", "writing"}
      <3>1. c \in DOMAIN calls /\ calls'[c] = calls[c] /\ StillTrue(c)
        BY <1>1, <2>1 DEF DepthInv
      <3>2. Reparented(c)' = Reparented(c)
        BY <3>1 DEF Reparented
      <3> QED
        BY <3>1, <3>2 DEF StillTrue, DepthOf, OnCycle
    <2>2. CASE calls'[c].st \notin {"parent", "looked", "writing"}
      BY <2>2 DEF StillTrue
    <2> QED
      BY <2>1, <2>2
  <1> QED
    BY <1>1 DEF DepthInv

\* A row's depth is one more than its parent's, also for what was carried along by
\* a move, as long as no call wrote between another one's first read and the end of its
\* transaction (the depths CategoryRepository.ReclassifyCategoryAsync computes).
THEOREM DepthsAreRight == Spec => []DepthFollowsParent
  <1>1. Init => DepthInv
    <2> SUFFICES ASSUME Init
                 PROVE  DepthInv
      OBVIOUS
    <2>1. DOMAIN calls = {}
      BY DEF Init
    <2> QED
      BY <2>1, TreeAssumption, InitDepths DEF DepthInv
  <1>2. TypeOK /\ KnownInv /\ DepthInv /\ [Next]_vars => DepthInv'
    <2> SUFFICES ASSUME TypeOK, KnownInv, DepthInv, [Next]_vars
                 PROVE  DepthInv'
      OBVIOUS
    <2> USE TreeAssumption
    <2>1. ASSUME NEW c \in DOMAIN calls, Serve(c)
          PROVE  DepthInv'
      BY <2>1, ServeDepths
    <2>2. ASSUME NEW c \in DOMAIN calls, Answer(c) \/ AnswerFails(c)
          PROVE  DepthInv'
      <3>1. rows' = rows /\ hist'.overlap = hist.overlap
        BY <2>2 DEF Answer, AnswerFails, TypeOK
      <3>2. DOMAIN calls' = DOMAIN calls /\ calls'[c].st = "over"
            /\ \A d \in DOMAIN calls \ {c} : calls'[d] = calls[d]
        BY <2>2, AnswerSteps DEF Steps, Ended
      <3> QED
        BY <3>1, <3>2, AsideDepths
    <2>3. CASE UNCHANGED <<rows, calls, hist>>
      BY <2>3, AsideDepths
    <2>4. CASE Admin \/ OtherCall
      <3>1. ASSUME NEW own \in BOOLEAN, NEW kind \in Kind, NEW n \in Place, NEW p \in Place,
                   calls' = Ask(own, kind, n, p), rows' = rows, hist'.overlap = hist.overlap
            PROVE  DepthInv'
        <4> DEFINE L == Len(calls) + 1
        <4>1. DOMAIN calls' = DOMAIN calls \cup {L} /\ calls'[L].st = "sent"
              /\ \A c \in DOMAIN calls : calls'[c] = calls[c]
          BY <3>1, AskIs
        <4> QED
          BY <3>1, <4>1, AsideDepths
      <3> QED
        BY <2>3, <2>4, <3>1, PagesOnly
    <2> QED
      BY <2>1, <2>2, <2>3, <2>4 DEF Next, vars
  <1>3. TypeOK /\ DepthInv => DepthFollowsParent
    <2> SUFFICES ASSUME TypeOK, DepthsFollow(rows), NEW n \in DOMAIN rows
                 PROVE  rows[n].depth = IF rows[n].parent = Top THEN 0
                                        ELSE IF rows[n].parent \in DOMAIN rows
                                             THEN rows[rows[n].parent].depth + 1 ELSE -1
      BY DEF DepthInv, DepthFollowsParent
    <2> QED
      BY DEF DepthsFollow, Rooted, DepthOf
  <1> QED
    BY <1>1, <1>2, <1>3, IdsAreKnown, PTL DEF Spec

-----------------------------------------------------------------------------
(* The page's copy.                                                        *)

\* Of finitely many subsets of a finite set, one has none of the others below it.
LEMMA Minimal ==
    ASSUME NEW S, IsFiniteSet(S), NEW T \in SUBSET SUBSET S, T # {}
    PROVE  \E x \in T : \A y \in T : y \subseteq x => y = x
  <1>1. IsWellFoundedOn(StrictSubsetOrdering(S), SUBSET S)
    BY FS_StrictSubsetOrderingWellFounded, FS_FiniteSubsetsOfFinite
  <1>2. PICK x \in T : \A y \in T : ~(<<y, x>> \in StrictSubsetOrdering(S))
    BY <1>1, WFMin
  <1>3. \A y \in T : y \subseteq x => y = x
    BY <1>2 DEF StrictSubsetOrdering
  <1> QED
    BY <1>3

\* In a forest every node hangs below a root, so the page shows all of it.
LEMMA ShownShape ==
    ASSUME NEW t, Acyclic(t), Rooted(t), IsFiniteSet(DOMAIN t), Top \notin DOMAIN t
    PROVE  SameShape(Shown(t), t)
  <1> DEFINE up(n) == IF t[n].parent \in DOMAIN t THEN t[n].parent ELSE Top
             roots == {n \in DOMAIN t : up(n) = Top}
             D == roots \cup UNION {Below(t, r) : r \in roots}
             X == DOMAIN t \ D
             T == {DOMAIN t \ Below(t, x) : x \in X}
  <1>1. \A n \in DOMAIN t : up(n) = t[n].parent
    BY DEF Rooted
  <1>2. D \subseteq DOMAIN t
    BY BelowClosed
  <1>3. \A x \in X : t[x].parent \in X
    <2> SUFFICES ASSUME NEW x \in X
                 PROVE  t[x].parent \in X
      OBVIOUS
    <2>1. t[x].parent \in DOMAIN t
      BY <1>1 DEF Rooted
    <2>2. t[x].parent \in roots => x \in D
      BY BelowClosed
    <2>3. \A r \in roots : t[x].parent \in Below(t, r) => x \in D
      BY BelowClosed
    <2> QED
      BY <2>1, <2>2, <2>3
  <1>4. X = {}
    <2> SUFFICES ASSUME X # {}
                 PROVE  FALSE
      OBVIOUS
    <2>1. T # {} /\ T \in SUBSET SUBSET DOMAIN t
      OBVIOUS
    <2> HIDE DEF T, X, D
    <2>2. PICK s \in T : \A y \in T : y \subseteq s => y = s
      BY <2>1, Minimal
    <2>3. PICK x \in X : s = DOMAIN t \ Below(t, x)
      BY <2>2 DEF T
    <2> DEFINE q == t[x].parent
    <2>4. q \in X /\ x \in DOMAIN t
      BY <1>3, <2>3 DEF X
    <2>5. x \in Below(t, q) /\ x \notin Below(t, x)
      BY <2>4, BelowClosed DEF Acyclic, OnCycle
    <2>6. Below(t, x) \subseteq Below(t, q)
      BY <2>5, BelowTransitive
    <2>7. DOMAIN t \ Below(t, q) \in T
      BY <2>4 DEF T
    <2>8. (DOMAIN t \ Below(t, q)) \subseteq s /\ x \in s /\ x \notin DOMAIN t \ Below(t, q)
      BY <2>3, <2>4, <2>5, <2>6
    <2> QED
      BY <2>2, <2>7, <2>8
  <1>5. DOMAIN t = D
    BY <1>2, <1>4
  <1>6. Shown(t) = [n \in D |-> [parent |-> up(n), data |-> t[n].data]]
    BY DEF Shown
  <1> HIDE DEF D, up
  <1> QED
    BY <1>1, <1>5, <1>6 DEF SameShape

LEMMA WithoutShape ==
    ASSUME NEW t, NEW u, NEW n, SameShape(t, u)
    PROVE  SameShape(Without(t, n), Without(u, n))
  <1>1. Below(t, n) = Below(u, n)
    BY BelowSameShape
  <1> QED
    BY <1>1 DEF SameShape, Without

\* Moving a node in the copy is hanging it elsewhere.
LEMMA MovedShape ==
    ASSUME NEW K, NEW t \in Trees(K), NEW u, NEW n \in DOMAIN t, NEW p \in DOMAIN t \cup {Top},
           n # p, Hung(t, u, n, p), ~OnCycle(t, n), ~OnCycle(u, n)
    PROVE  SameShape(Moved(t, n, p), u)
  <1> DEFINE B == Below(t, n)
             sub == [m \in {n} \cup B |-> t[m]]
             w == Without(t, n)
             v == Insert(w, sub, n, p)
  <1>1. p \notin {n} \cup B
    <2>1. Below(t, n) = Below(u, n)
      BY BelowHung
    <2>2. p \notin Below(u, n)
      BY BelowClosed DEF Hung, OnCycle
    <2> QED
      BY <2>1, <2>2
  <1>2. DOMAIN w = DOMAIN t \ ({n} \cup B) /\ \A m \in DOMAIN w : w[m] = t[m]
    BY WithoutIs
  <1>3. B \subseteq DOMAIN t
    BY BelowClosed
  <1>4. v = [m \in DOMAIN w \cup DOMAIN sub |->
               IF m = n THEN [sub[n] EXCEPT !.parent = p]
               ELSE IF m \in DOMAIN sub THEN sub[m] ELSE w[m]]
    BY <1>1, <1>2 DEF Insert
  <1>5. DOMAIN v = DOMAIN t
    BY <1>2, <1>3, <1>4
  <1>6. ASSUME NEW m \in DOMAIN t
        PROVE  v[m].parent = IF m = n THEN p ELSE t[m].parent
    <2>1. CASE m = n
      <3>1. v[m] = [t[n] EXCEPT !.parent = p]
        BY <1>2, <1>3, <1>4, <2>1
      <3>2. t[n] \in [parent : K, data : Data]
        BY TreesAre
      <3> QED
        BY <2>1, <3>1, <3>2
    <2>2. CASE m # n
      <3>1. v[m] = t[m]
        BY <1>2, <1>3, <1>4, <2>2
      <3> QED
        BY <2>2, <3>1
    <2> QED
      BY <2>1, <2>2
  <1>7. Moved(t, n, p) = v
    BY DEF Moved
  <1> HIDE DEF v
  <1> QED
    BY <1>5, <1>6, <1>7 DEF SameShape, Hung

\* The answer of c will leave a copy of the rows' shape.
Ready(c) ==
    LET n == calls[c].node
        was == calls[c].tree
    IN  /\ calls[c].kind = "move" =>
              n \in DOMAIN was /\ SameShape(Moved(was, n, calls[c].parent), rows)
        /\ calls[c].kind = "create" =>
              SameShape(Insert(page.tree, [m \in {n} |-> [parent |-> Top, data |-> calls[c].data]],
                               n, calls[c].parent),
                        rows)
        /\ calls[c].kind = "update" => SameShape(page.tree, rows)
        /\ calls[c].kind = "delete" => SameShape(Without(was, n), rows)
        /\ calls[c].kind = "sort" => SameShape(was, rows)

\* c has changed nothing yet, and what it has read of the rows is what they hold.
Underway(c) ==
    LET n == calls[c].node
        p == calls[c].parent
    IN  /\ SameShape(page.tree, rows)
        /\ calls[c].kind \in {"move", "delete", "sort"} => SameShape(calls[c].tree, rows)
        /\ calls[c].st \in {"parent", "looked", "writing"} => p \in DOMAIN rows \cup {Top}
        /\ calls[c].st \in {"looked", "writing"} => n \in DOMAIN rows
        /\ calls[c].st = "writing" =>
              /\ calls[c].locked = {n} \cup Below(Reparented(c), n)
              /\ ~OnCycle(Reparented(c), n)

Own(c) == calls[c].own /\ calls[c].st # "over"

CopyInv ==
    hist.drift \/
      /\ Acyclic(rows) /\ Rooted(rows)
      /\ \A c \in DOMAIN calls :
            Own(c) => /\ page.loaded /\ \A d \in DOMAIN calls : Own(d) => c = d
                      /\ IF calls[c].st = "done" THEN Ready(c) ELSE Underway(c)
      /\ page.loaded /\ (\A c \in DOMAIN calls : Own(c) => calls[c].st # "done") =>
            SameShape(page.tree, rows)

\* Both stay true while the rows keep their parents.
LEMMA ReadyStays ==
    ASSUME NEW d \in DOMAIN calls, Ready(d), calls'[d] = calls[d], page'.tree = page.tree,
           SameShape(rows, rows')
    PROVE  Ready(d)'
  <1>1. \A t : SameShape(t, rows) => SameShape(t, rows')
    BY DEF SameShape
  <1> QED
    BY <1>1 DEF Ready

LEMMA UnderwayStays ==
    ASSUME TypeOK, rows' \in Rows, NEW d \in DOMAIN calls, Underway(d), calls'[d] = calls[d],
           page'.tree = page.tree, SameShape(rows, rows')
    PROVE  Underway(d)'
  <1> DEFINE n == calls[d].node
             p == calls[d].parent
             u == [rows EXCEPT ![n].parent = p]
             w == [rows' EXCEPT ![n].parent = p]
  <1>1. Reparented(d) = u /\ Reparented(d)' = w
    BY DEF Reparented
  <1>2. SameShape(u, w)
    BY HungIs DEF SameShape, Hung, TypeOK
  <1>3. Below(u, n) = Below(w, n)
    BY <1>2, BelowSameShape
  <1>4. \A t : SameShape(t, rows) => SameShape(t, rows')
    BY DEF SameShape
  <1> HIDE DEF u, w
  <1>5. DOMAIN rows' = DOMAIN rows
    BY DEF SameShape
  <1> QED
    BY <1>1, <1>3, <1>4, <1>5 DEF Underway, OnCycle

\* An own create leaves what its answer will make of the copy.
LEMMA InsertReady ==
    ASSUME TreeAssumption, TypeOK, KnownInv, NEW c \in DOMAIN calls, InsertRow(c), calls[c].own,
           Acyclic(rows), Rooted(rows), Underway(c), calls'[c] = [calls[c] EXCEPT !.st = "done"]
    PROVE  Acyclic(rows') /\ Rooted(rows') /\ Ready(c)'
  <1> DEFINE n == calls[c].node
             p == calls[c].parent
             v == Insert(page.tree, [m \in {n} |-> [parent |-> Top, data |-> calls[c].data]], n, p)
  <1>1. calls[c] \in Live /\ calls[c].kind = "create" /\ calls[c].st = "parent" /\ n \in Nodes
    BY StagesAreLive DEF InsertRow, StageOf
  <1>2. /\ n \notin DOMAIN rows /\ DOMAIN rows' = DOMAIN rows \cup {n}
        /\ \A m \in DOMAIN rows : rows'[m] = rows[m]
        /\ rows'[n].parent = p /\ page' = page
        /\ \A m \in DOMAIN rows : rows[m].parent # n
        /\ p # n
    BY <1>1 DEF InsertRow, KnownInv, CallsKnown, RowsKnown
  <1>3. p \in DOMAIN rows \cup {Top} /\ SameShape(page.tree, rows)
    BY <1>1 DEF Underway
  <1>4. Acyclic(rows')
    <2>1. \A m \in DOMAIN rows' : rows'[m].parent # n
      BY <1>2
    <2> QED
      BY <1>2, <2>1, AcyclicLeaf
  <1>5. Rooted(rows')
    BY <1>2, <1>3 DEF Rooted
  <1>6. n \notin DOMAIN page.tree /\ p \in DOMAIN page.tree \cup {Top}
    BY <1>2, <1>3 DEF SameShape
  <1>7. /\ DOMAIN v = DOMAIN page.tree \cup {n} /\ v[n].parent = p
        /\ \A m \in DOMAIN page.tree : v[m] = page.tree[m]
    BY <1>6 DEF Insert
  <1> HIDE DEF v
  <1>8. SameShape(v, rows')
    BY <1>2, <1>3, <1>7 DEF SameShape
  <1>9. calls'[c].kind = "create" /\ calls'[c].node = n /\ calls'[c].parent = p
        /\ calls'[c].data = calls[c].data
    BY <1>1 DEF Live
  <1> QED
    BY <1>2, <1>4, <1>5, <1>8, <1>9 DEF Ready, v

\* So does an own move.
LEMMA MoveReady ==
    ASSUME TreeAssumption, TypeOK, KnownInv, NEW c \in DOMAIN calls, CommitMove(c),
           Acyclic(rows), Rooted(rows), Underway(c), calls'[c] = [calls[c] EXCEPT !.st = "done"]
    PROVE  Acyclic(rows') /\ Rooted(rows') /\ Ready(c)'
  <1> DEFINE n == calls[c].node
             p == calls[c].parent
             was == calls[c].tree
             u == Reparented(c)
  <1>1. calls[c] \in Live /\ StageOf(calls[c]) /\ calls[c].st = "writing" /\ calls[c].kind = "move"
        /\ n # p /\ was \in Trees(Place)
    <2>1. calls[c] \in Live /\ StageOf(calls[c]) /\ calls[c].st = "writing"
      BY StagesAreLive DEF CommitMove
    <2> QED
      BY <2>1 DEF StageOf, Live
  <1>2. /\ SameShape(was, rows) /\ p \in DOMAIN rows \cup {Top} /\ n \in DOMAIN rows
        /\ n \in calls[c].locked /\ ~OnCycle(u, n)
    BY <1>1 DEF Underway
  <1>3. DOMAIN u = DOMAIN rows /\ Hung(rows, u, n, p)
    BY ReparentedIs
  <1>4. SameShape(u, rows')
    BY <1>2, ShiftedIs DEF CommitMove
  <1>5. Acyclic(u)
    BY <1>2, <1>3, AcyclicHung
  <1>6. Acyclic(rows')
    BY <1>4, <1>5, AcyclicSameShape
  <1>7. Rooted(rows')
    BY <1>2, <1>3, <1>4 DEF Rooted, SameShape, Hung
  <1>8. Hung(was, u, n, p) /\ ~OnCycle(was, n)
    <2>1. Below(was, n) = Below(rows, n)
      BY <1>2, BelowSameShape
    <2> QED
      BY <1>2, <1>3, <2>1 DEF Hung, SameShape, Acyclic, OnCycle
  <1>9. n \in DOMAIN was /\ p \in DOMAIN was \cup {Top}
    BY <1>2 DEF SameShape
  <1>10. SameShape(Moved(was, n, p), u)
    BY <1>1, <1>2, <1>8, <1>9, MovedShape
  <1>11. SameShape(Moved(was, n, p), rows')
    BY <1>4, <1>10 DEF SameShape
  <1>12. calls'[c].kind = "move" /\ calls'[c].node = n /\ calls'[c].parent = p
         /\ calls'[c].tree = was
    BY <1>1 DEF Live
  <1> QED
    BY <1>6, <1>7, <1>9, <1>11, <1>12 DEF Ready

\* And an own delete.
LEMMA DeleteReady ==
    ASSUME TreeAssumption, TypeOK, NEW c \in DOMAIN calls, calls[c] \in Live,
           rows' = Without(rows, calls[c].node), calls[c].kind = "delete",
           Acyclic(rows), Rooted(rows), Underway(c), calls'[c] = [calls[c] EXCEPT !.st = "done"]
    PROVE  Acyclic(rows') /\ Rooted(rows') /\ Ready(c)'
  <1> DEFINE n == calls[c].node
  <1>1. DOMAIN rows' = DOMAIN rows \ ({n} \cup Below(rows, n))
        /\ \A m \in DOMAIN rows' : rows'[m] = rows[m]
    BY DEF Without
  <1>2. Acyclic(rows')
    BY <1>1, AcyclicSmaller
  <1>3. Rooted(rows')
    BY <1>1, BelowClosed DEF Rooted
  <1>4. SameShape(calls[c].tree, rows)
    BY DEF Underway
  <1>5. SameShape(Without(calls[c].tree, n), rows')
    BY <1>4, WithoutShape
  <1>6. calls'[c].kind = "delete" /\ calls'[c].node = n /\ calls'[c].tree = calls[c].tree
    BY DEF Live
  <1> QED
    BY <1>2, <1>3, <1>5, <1>6 DEF Ready

\* A step of an own call that leaves the parents as they are.
LEMMA OwnGoesOn ==
    ASSUME TreeAssumption, TypeOK, KnownInv, NEW c \in DOMAIN calls, Serve(c), calls[c].own,
           SameShape(rows, rows'), ~InsertRow(c), ~CommitMove(c), Underway(c),
           DeleteRows(c) => Done(c, "failed")
    PROVE  IF calls'[c].st = "done" THEN Ready(c)' ELSE Underway(c)'
  <1>0. calls[c] \in Live /\ calls \in Seq(Live \cup Ended) /\ page' = page /\ rows' \in Rows
        /\ Steps(c)
    <2>1. rows' \in Rows
      BY CallStep DEF TypeOK
    <2>2. page' = page
      BY DEF Serve, ReadParent, ReadNode, InsertRow, WriteMove, CommitMove, UpdateRow, DeleteRows,
             SortRows, Refuse
    <2> QED
      BY <2>1, <2>2, ServeSteps DEF TypeOK, Steps
  <1>1. \A t : SameShape(t, rows) => SameShape(t, rows')
    BY DEF SameShape
  <1>2. ASSUME Done(c, "failed")
        PROVE  calls'[c].st = "failed" /\ Underway(c)'
    <2>1. calls'[c] = [calls[c] EXCEPT !.st = "failed"]
      BY <1>0, <1>2 DEF Done
    <2>2. calls'[c].st = "failed" /\ calls'[c].kind = calls[c].kind /\ calls'[c].tree = calls[c].tree
      BY <1>0, <2>1 DEF Live
    <2> QED
      BY <1>0, <1>1, <2>2 DEF Underway
  <1>3. CASE UpdateRow(c) /\ Done(c, "done")
    <2>1. calls'[c] = [calls[c] EXCEPT !.st = "done"] /\ calls[c].kind = "update"
      BY <1>0, <1>3 DEF Done, UpdateRow, Sent
    <2>2. calls'[c].st = "done" /\ calls'[c].kind = "update"
      BY <1>0, <2>1 DEF Live
    <2> QED
      BY <1>0, <1>1, <2>2 DEF Underway, Ready
  <1>4. CASE SortRows(c)
    <2>1. calls'[c] = [calls[c] EXCEPT !.st = "done"] /\ calls[c].kind = "sort"
      BY <1>0, <1>4 DEF Done, SortRows, Sent
    <2>2. calls'[c].st = "done" /\ calls'[c].kind = "sort" /\ calls'[c].tree = calls[c].tree
      BY <1>0, <2>1 DEF Live
    <2> QED
      BY <1>0, <1>1, <2>1, <2>2 DEF Underway, Ready
  <1>5. CASE ReadParent(c) /\ ~Done(c, "failed")
    <2> DEFINE p == calls[c].parent
               d == IF p = Top THEN -1 ELSE rows[p].depth
    <2>1. p \in DOMAIN rows \cup {Top} /\ rows' = rows
          /\ calls' = [calls EXCEPT ![c].st = "parent", ![c].pdepth = d]
      BY <1>5 DEF ReadParent
    <2>2. calls'[c].st = "parent" /\ calls'[c].parent = p /\ calls'[c].kind = calls[c].kind
          /\ calls'[c].tree = calls[c].tree
      BY <1>0, <2>1 DEF Live
    <2> QED
      BY <1>0, <2>1, <2>2 DEF Underway
  <1>6. CASE ReadNode(c) /\ ~Done(c, "failed")
    <2> DEFINE n == calls[c].node
               d == rows[n].depth
    <2>1. n \in DOMAIN rows /\ rows' = rows /\ calls[c].st = "parent"
          /\ calls' = [calls EXCEPT ![c].st = "looked", ![c].ndepth = d]
      BY <1>6 DEF ReadNode
    <2>2. calls'[c].st = "looked" /\ calls'[c].parent = calls[c].parent
          /\ calls'[c].kind = calls[c].kind /\ calls'[c].node = n
          /\ calls'[c].tree = calls[c].tree
      BY <1>0, <2>1 DEF Live
    <2> QED
      BY <1>0, <2>1, <2>2 DEF Underway
  <1>7. CASE WriteMove(c) /\ ~Done(c, "failed")
    <2> DEFINE n == calls[c].node
               B == {n} \cup Below(Reparented(c), n)
    <2>1. calls[c].st = "looked" /\ n \in DOMAIN rows /\ rows' = rows
      BY <1>7 DEF WriteMove, Underway
    <2>2. Ends(Reparented(c), n)
          /\ calls' = [calls EXCEPT ![c].st = "writing", ![c].locked = B]
      BY <1>7, <2>1 DEF WriteMove
    <2> HIDE DEF B
    <2>3. calls'[c].st = "writing" /\ calls'[c].parent = calls[c].parent /\ calls'[c].node = n
          /\ calls'[c].kind = calls[c].kind /\ calls'[c].tree = calls[c].tree
          /\ calls'[c].locked = B
      BY <1>0, <2>2 DEF Live
    <2>4. Reparented(c)' = Reparented(c)
      BY <2>1, <2>3 DEF Reparented
    <2>5. ~OnCycle(Reparented(c), n)
      BY <2>2 DEF Ends
    <2> QED
      BY <1>0, <2>1, <2>3, <2>4, <2>5 DEF Underway, B
  <1>8. \/ Done(c, "failed") \/ SortRows(c)
        \/ UpdateRow(c) /\ Done(c, "done")
        \/ ReadParent(c) \/ ReadNode(c) \/ WriteMove(c)
    <2>1. UpdateRow(c) => Done(c, "failed") \/ Done(c, "done")
      BY DEF UpdateRow
    <2>2. Refuse(c) => Done(c, "failed")
      BY DEF Refuse
    <2> QED
      BY <2>1, <2>2 DEF Serve
  <1> QED
    BY <1>2, <1>3, <1>4, <1>5, <1>6, <1>7, <1>8

\* The service does not make the page's own call over.
LEMMA OwnStays ==
    ASSUME TypeOK, NEW c \in DOMAIN calls, Serve(c)
    PROVE  /\ calls[c] \in Live /\ calls[c].st \notin {"over", "done", "failed"}
           /\ calls'[c].own = calls[c].own
           /\ calls[c].own => calls'[c].st # "over"
  <1>1. calls[c] \in Live /\ calls \in Seq(Live \cup Ended) /\ Steps(c)
    BY ServeSteps DEF Steps, TypeOK
  <1>2. calls[c].st \notin {"done", "failed"}
    BY DEF Serve, Sent, ReadParent, ReadNode, InsertRow, WriteMove, CommitMove, UpdateRow,
           DeleteRows, SortRows, Refuse
  <1>3. calls[c].st # "over" /\ calls'[c].own = calls[c].own
    BY <1>1 DEF Steps, Advance, Live, Stage
  <1>4. ASSUME calls[c].own, NEW st \in {"done", "failed"}, Done(c, st)
        PROVE  calls'[c].st # "over"
    <2>1. calls'[c] = [calls[c] EXCEPT !.st = st]
      BY <1>1, <1>4 DEF Done
    <2>2. calls'[c].st = st
      BY <1>1, <2>1 DEF Live
    <2> QED
      BY <2>2
  <1>5. ASSUME ReadParent(c) \/ ReadNode(c) \/ WriteMove(c), ~Done(c, "failed")
        PROVE  calls'[c].st # "over"
    BY <1>1, <1>5 DEF ReadParent, ReadNode, WriteMove, Live
  <1>6. \/ Done(c, "done") \/ Done(c, "failed")
        \/ ReadParent(c) \/ ReadNode(c) \/ WriteMove(c)
    BY DEF Serve, InsertRow, CommitMove, UpdateRow, DeleteRows, SortRows, Refuse
  <1> QED
    BY <1>1, <1>2, <1>3, <1>4, <1>5, <1>6

LEMMA ServeCopy ==
    ASSUME TreeAssumption, TypeOK, KnownInv, CopyInv, NEW c \in DOMAIN calls, Serve(c)
    PROVE  CopyInv'
  <1> SUFFICES ASSUME ~hist'.drift
               PROVE  CopyInv'
    BY DEF CopyInv
  <1>0. /\ DOMAIN calls' = DOMAIN calls /\ page' = page /\ rows' \in Rows
        /\ \A d \in DOMAIN calls \ {c} : calls'[d] = calls[d]
        /\ calls[c] \in Live /\ calls[c].st \notin {"over", "done", "failed"}
        /\ Own(c)' = Own(c) /\ Own(c) = calls[c].own
    <2>1. rows' \in Rows
      BY CallStep DEF TypeOK
    <2>2. page' = page
      BY DEF Serve, ReadParent, ReadNode, InsertRow, WriteMove, CommitMove, UpdateRow, DeleteRows,
             SortRows, Refuse
    <2>3. calls[c].own \in BOOLEAN
      BY OwnStays DEF Live
    <2> QED
      BY <2>1, <2>2, <2>3, OwnStays, ServeSteps DEF Steps, Own
  <1>1. ~hist.drift /\ (Wrote(c) => calls[c].own)
    BY <1>0 DEF Serve, ReadParent, ReadNode, InsertRow, WriteMove, CommitMove, UpdateRow, DeleteRows,
           SortRows, Refuse, Wrote, TypeOK
  <1>2. /\ Acyclic(rows) /\ Rooted(rows)
        /\ \A d \in DOMAIN calls :
              Own(d) => /\ page.loaded /\ \A e \in DOMAIN calls : Own(e) => d = e
                        /\ IF calls[d].st = "done" THEN Ready(d) ELSE Underway(d)
        /\ page.loaded /\ (\A d \in DOMAIN calls : Own(d) => calls[d].st # "done") =>
              SameShape(page.tree, rows)
    BY <1>1 DEF CopyInv
  <1>3. /\ \A d \in DOMAIN calls' : Own(d)' = Own(d)
        /\ \A d \in DOMAIN calls' :
              Own(d)' => page'.loaded /\ \A e \in DOMAIN calls' : Own(e)' => d = e
    <2>1. \A d \in DOMAIN calls' : Own(d)' = Own(d)
      BY <1>0 DEF Own
    <2> QED
      BY <1>0, <1>2, <2>1
  <1>4. ASSUME SameShape(rows, rows'), ~InsertRow(c), ~CommitMove(c),
               DeleteRows(c) => Done(c, "failed")
        PROVE  CopyInv'
    <2>1. Acyclic(rows') /\ Rooted(rows')
      BY <1>2, <1>4, AcyclicSameShape DEF Rooted, SameShape
    <2>2. ASSUME NEW d \in DOMAIN calls', Own(d)'
          PROVE  IF calls'[d].st = "done" THEN Ready(d)' ELSE Underway(d)'
      <3>1. CASE d = c
        <4>1. calls[c].own /\ Underway(c)
          BY <1>0, <1>2, <2>2, <3>1
        <4> QED
          BY <1>4, <3>1, <4>1, OwnGoesOn
      <3>2. CASE d # c
        <4>1. Own(d) /\ calls'[d] = calls[d]
          BY <1>0, <1>3, <2>2, <3>2
        <4>2. CASE calls[d].st = "done"
          BY <1>0, <1>2, <1>4, <4>1, <4>2, ReadyStays
        <4>3. CASE calls[d].st # "done"
          BY <1>0, <1>2, <1>4, <4>1, <4>3, UnderwayStays
        <4> QED
          BY <4>1, <4>2, <4>3
      <3> QED
        BY <3>1, <3>2
    <2>3. page'.loaded /\ (\A d \in DOMAIN calls' : Own(d)' => calls'[d].st # "done") =>
              SameShape(page'.tree, rows')
      <3> SUFFICES ASSUME page.loaded, \A d \in DOMAIN calls' : Own(d)' => calls'[d].st # "done"
                   PROVE  SameShape(page.tree, rows')
        BY <1>0
      <3>1. \A d \in DOMAIN calls : Own(d) => calls[d].st # "done"
        BY <1>0, <1>3
      <3> QED
        BY <1>2, <1>4, <3>1 DEF SameShape
    <2> QED
      BY <1>3, <2>1, <2>2, <2>3 DEF CopyInv
  <1>5. ASSUME calls[c].own, calls'[c] = [calls[c] EXCEPT !.st = "done"],
               Acyclic(rows'), Rooted(rows'), Ready(c)'
        PROVE  CopyInv'
    <2>1. calls'[c].st = "done" /\ Own(c)'
      BY <1>0, <1>5 DEF Live
    <2>2. \A d \in DOMAIN calls' : Own(d)' => d = c
      BY <1>0, <1>3, <2>1
    <2> QED
      BY <1>0, <1>3, <1>5, <2>1, <2>2 DEF CopyInv
  <1>6. calls[c].own => Underway(c)
    BY <1>0, <1>2
  <1>7. ASSUME calls[c].own, Done(c, "done")
        PROVE  calls'[c] = [calls[c] EXCEPT !.st = "done"]
    BY <1>7 DEF Done, TypeOK
  <1>8. CASE InsertRow(c) /\ calls[c].own
    BY <1>2, <1>5, <1>6, <1>7, <1>8, InsertReady DEF InsertRow
  <1>9. CASE CommitMove(c) /\ calls[c].own
    BY <1>2, <1>5, <1>6, <1>7, <1>9, MoveReady DEF CommitMove
  <1>10. CASE /\ DeleteRows(c) /\ calls[c].own /\ Done(c, "done")
              /\ rows' = Without(rows, calls[c].node)
    <2>1. calls[c].kind = "delete"
      BY <1>10 DEF DeleteRows, Sent
    <2> QED
      BY <1>0, <1>2, <1>5, <1>6, <1>7, <1>10, <2>1, DeleteReady
  <1>11. CASE rows' = rows /\ DeleteRows(c) /\ Done(c, "failed")
    <2>1. ~InsertRow(c) /\ ~CommitMove(c)
      BY <1>11 DEF DeleteRows, Sent, InsertRow, CommitMove
    <2> QED
      BY <1>4, <1>11, <2>1 DEF SameShape
  <1> QED
    BY <1>1, <1>4, <1>8, <1>9, <1>10, <1>11, RowSteps

\* An answer leaves a copy with the rows' shape.
LEMMA AnswerShape ==
    ASSUME TreeAssumption, TypeOK, NEW c \in DOMAIN calls, Answer(c), Ready(c)
    PROVE  SameShape(page'.tree, rows)
  <1> DEFINE n == calls[c].node
             was == calls[c].tree
  <1>0. calls[c] \in Live /\ calls[c].kind \in Kind /\ page \in PageIn(Place)
        /\ page.tree \in Trees(Place) /\ was \in Trees(Place) /\ calls[c].parent \in Place
        /\ calls[c].data \in Data /\ (calls[c].kind # "sort" => n \in Nodes) /\ Top \in Place
        /\ Nodes \subseteq Place \ {Top}
    <2>1. calls[c] \in Live /\ calls[c].kind \in Kind /\ StageOf(calls[c])
      BY StagesAreLive DEF Answer
    <2> QED
      BY <2>1 DEF TypeOK, PageIn, Live, StageOf, Place, TreeAssumption
  <1>1. CASE calls[c].kind = "move"
    <2>1. page' = [page EXCEPT !.tree = Moved(was, n, calls[c].parent), !.orig = calls[c].parent]
      BY <1>1 DEF Answer, Ready
    <2> QED
      BY <1>0, <1>1, <2>1 DEF Ready, PageIn
  <1>2. CASE calls[c].kind = "create"
    <2> DEFINE leaf == [m \in {n} |-> [parent |-> Top, data |-> calls[c].data]]
               tree == Insert(page.tree, leaf, n, calls[c].parent)
               q == [page EXCEPT !.tree = tree]
    <2>1. leaf \in Trees(Place) /\ n \in DOMAIN leaf
      BY <1>0, <1>2, TreesAre
    <2>2. tree \in Trees(Place)
      BY <1>0, <2>1, InsertTree
    <2>3. SameShape(tree, rows)
      BY <1>2 DEF Ready
    <2>4. page' = Opened(q, n)
      BY <1>2 DEF Answer
    <2> HIDE DEF tree
    <2>5. q \in PageIn(Place) /\ q.tree = tree
      BY <1>0, <2>2 DEF PageIn
    <2>6. n \in (Place \ {Top}) \cup {New}
      BY <1>0, <1>2
    <2> HIDE DEF q
    <2> QED
      BY <1>0, <2>3, <2>4, <2>5, <2>6, OpenedPage
  <1>3. CASE calls[c].kind = "update"
    <2>1. CASE page' = page
      BY <1>3, <2>1 DEF Ready
    <2>2. CASE n \in DOMAIN page.tree
               /\ page' = [page EXCEPT !.tree[n].data["name"] = calls[c].data["name"]]
      <3> DEFINE d == [page.tree[n].data EXCEPT !["name"] = calls[c].data["name"]]
                 t == [page.tree EXCEPT ![n].data = d]
      <3>1. page' = [page EXCEPT !.tree = t]
        BY <1>0, <2>2 DEF PageIn
      <3> HIDE DEF d
      <3>2. SameShape(t, page.tree)
        <4>1. page.tree \in [DOMAIN page.tree -> [parent : Place, data : Data]]
          BY <1>0, TreesAre
        <4> QED
          BY <2>2, <4>1 DEF SameShape
      <3> HIDE DEF t
      <3>3. page'.tree = t
        BY <1>0, <3>1 DEF PageIn
      <3> QED
        BY <1>3, <3>2, <3>3 DEF Ready, SameShape
    <2> QED
      BY <1>3, <2>1, <2>2 DEF Answer
  <1>4. CASE calls[c].kind = "delete"
    <2> DEFINE w == Without(was, n)
               q == [page EXCEPT !.tree = w]
    <2>1. w \in Trees(Place) /\ SameShape(w, rows)
      BY <1>0, <1>4, WithoutTree DEF Ready
    <2>2. page' \in First(q) \/ page' = q
      BY <1>4 DEF Answer
    <2> HIDE DEF w
    <2>3. q \in PageIn(Place) /\ q.tree = w
      BY <1>0, <2>1 DEF PageIn
    <2> HIDE DEF q
    <2>4. page'.tree = w
      BY <1>0, <2>2, <2>3, FirstPage
    <2> QED
      BY <2>1, <2>4
  <1>5. CASE calls[c].kind = "sort"
    <2>1. page' = [page EXCEPT !.tree = was]
      BY <1>5 DEF Answer
    <2> QED
      BY <1>0, <1>5, <2>1 DEF Ready, PageIn
  <1> QED
    BY <1>0, <1>1, <1>2, <1>3, <1>4, <1>5 DEF Kind

LEMMA AnswerCopy ==
    ASSUME TreeAssumption, TypeOK, CopyInv, NEW c \in DOMAIN calls, Answer(c) \/ AnswerFails(c)
    PROVE  CopyInv'
  <1> SUFFICES ASSUME ~hist'.drift
               PROVE  CopyInv'
    BY DEF CopyInv
  <1>1. ~hist.drift /\ (AnswerFails(c) => calls[c].st = "failed")
    BY DEF Answer, AnswerFails, TypeOK
  <1>2. Own(c) /\ rows' = rows
    BY DEF Own, Answer, AnswerFails
  <1>3. /\ Acyclic(rows) /\ Rooted(rows)
        /\ \A d \in DOMAIN calls : Own(d) => c = d
        /\ IF calls[c].st = "done" THEN Ready(c) ELSE Underway(c)
    BY <1>1, <1>2 DEF CopyInv
  <1>4. /\ DOMAIN calls' = DOMAIN calls /\ calls'[c].st = "over"
        /\ \A d \in DOMAIN calls \ {c} : calls'[d] = calls[d]
    BY AnswerSteps DEF Steps, Ended
  <1>5. \A d \in DOMAIN calls' : ~Own(d)'
    BY <1>3, <1>4 DEF Own
  <1>6. SameShape(page'.tree, rows')
    <2>1. CASE Answer(c)
      <3>1. Ready(c)
        BY <1>3, <2>1 DEF Answer
      <3> QED
        BY <1>2, <2>1, <3>1, AnswerShape
    <2>2. CASE AnswerFails(c)
      <3>1. page' = page /\ Underway(c)
        BY <1>1, <1>3, <2>2 DEF AnswerFails
      <3> QED
        BY <1>2, <3>1 DEF Underway
    <2> QED
      BY <2>1, <2>2
  <1> QED
    BY <1>2, <1>3, <1>5, <1>6 DEF CopyInv

\* What the page does without a call leaves its copy, or loads it.
LEMMA PageTree ==
    ASSUME TreeAssumption, TypeOK, Admin, UNCHANGED <<rows, calls, hist>>
    PROVE  \/ page'.tree = page.tree /\ page'.loaded = page.loaded
           \/ ~page.loaded /\ page'.tree = Shown(rows)
  <1>0. page \in PageIn(Place) /\ Top \in Place /\ rows \in Rows
        /\ DOMAIN page.tree \subseteq Place \ {Top}
    <2>1. page.tree \in Trees(Place)
      BY DEF TypeOK, PageIn
    <2> QED
      BY <2>1, TreesAre DEF TypeOK, Place
  <1>1. CASE Load
    <2> DEFINE t == Shown(rows)
               q == [page EXCEPT !.loaded = TRUE, !.tree = t]
    <2>1. t \in Trees(Place)
      BY <1>0, ShownTree, RowsAre DEF Place
    <2> HIDE DEF t
    <2>2. q \in PageIn(Place) /\ q.tree = t
      BY <1>0, <2>1 DEF PageIn
    <2>3. page' \in First(q) /\ ~page.loaded
      BY <1>1 DEF Load, t
    <2> HIDE DEF q
    <2>4. page'.tree = t
      BY <1>0, <2>2, <2>3, FirstPage
    <2> QED
      BY <2>3, <2>4 DEF t
  <1>2. CASE \E n \in Nodes : Select(n)
    <2>1. PICK n \in DOMAIN page.tree : page' = Opened(page, n)
      BY <1>2 DEF Select
    <2> QED
      BY <1>0, <2>1, OpenedPage
  <1>3. CASE \E p \in Nodes \cup {Top} : AddUnder(p)
    <2>1. PICK p \in Nodes \cup {Top} : page' = Blank(page, p)
      BY <1>3 DEF AddUnder
    <2>2. p \in Place
      BY DEF Place
    <2> QED
      BY <1>0, <2>1, <2>2, BlankPage
  <1>4. CASE \E f \in Fields : Type(f)
    <2>1. PICK f \in Fields : page' = [page EXCEPT !.data[f] = page.edits + 1,
                                                   !.edits = page.edits + 1]
      BY <1>4 DEF Type
    <2> QED
      BY <1>0, <2>1 DEF PageIn
  <1>5. CASE \E p \in Nodes \cup {Top} : PickParent(p)
    BY <1>0, <1>5 DEF PickParent, PageIn
  <1>6. CASE Discard
    <2>1. page' \in First(page) \/ page' = [page EXCEPT !.parent = page.orig]
      BY <1>6 DEF Discard
    <2>2. CASE page' \in First(page)
      BY <1>0, <2>2, FirstPage
    <2>3. CASE page' = [page EXCEPT !.parent = page.orig]
      BY <1>0, <2>3 DEF PageIn
    <2> QED
      BY <2>1, <2>2, <2>3
  <1>7. \A own, kind, n, p : calls' # Ask(own, kind, n, p)
    <2> SUFFICES ASSUME NEW own, NEW kind, NEW n, NEW p, calls' = Ask(own, kind, n, p)
                 PROVE  FALSE
      OBVIOUS
    <2> QED
      BY AskIs
  <1>8. ~Save /\ ~Sort /\ \A n \in Nodes : ~Delete(n)
    <2>1. \A kind, n, p : ~Click(kind, n, p)
      BY <1>7 DEF Click
    <2> QED
      BY <2>1 DEF Save, Sort, Delete
  <1> QED
    BY <1>1, <1>2, <1>3, <1>4, <1>5, <1>6, <1>8 DEF Admin

\* A step beside the service that leaves the copy's parents, or loads it.
LEMMA AsideCopy ==
    ASSUME TreeAssumption, TypeOK, CopyInv, UNCHANGED <<rows, calls, hist>>,
           \/ page'.tree = page.tree /\ page'.loaded = page.loaded
           \/ ~page.loaded /\ page'.tree = Shown(rows)
    PROVE  CopyInv'
  <1> SUFFICES ASSUME ~hist.drift
               PROVE  CopyInv'
    BY DEF CopyInv
  <1>0. rows' \in Rows /\ SameShape(rows, rows')
    BY DEF TypeOK, SameShape
  <1>1. \A d \in DOMAIN calls : Own(d)' = Own(d)
    BY DEF Own
  <1>2. CASE page'.tree = page.tree /\ page'.loaded = page.loaded
    <2>1. \A d \in DOMAIN calls : Ready(d) => Ready(d)'
      BY <1>0, <1>2, ReadyStays
    <2>2. \A d \in DOMAIN calls : Underway(d) => Underway(d)'
      BY <1>0, <1>2, UnderwayStays
    <2> QED
      BY <1>1, <1>2, <2>1, <2>2 DEF CopyInv
  <1>3. CASE ~page.loaded /\ page'.tree = Shown(rows)
    <2>1. Acyclic(rows) /\ Rooted(rows) /\ \A d \in DOMAIN calls : ~Own(d)
      BY <1>3 DEF CopyInv
    <2>2. IsFiniteSet(DOMAIN rows) /\ Top \notin DOMAIN rows
      BY RowsAre, FS_Subset DEF TypeOK, TreeAssumption
    <2>3. SameShape(Shown(rows), rows)
      BY <2>1, <2>2, ShownShape
    <2> QED
      BY <1>1, <1>3, <2>1, <2>3 DEF CopyInv
  <1> QED
    BY <1>2, <1>3

\* A new call, of the page or of another administrator.
LEMMA AskCopy ==
    ASSUME TreeAssumption, TypeOK, CopyInv, NEW own \in BOOLEAN, NEW kind \in Kind,
           NEW n \in Place, NEW p \in Place, calls' = Ask(own, kind, n, p),
           rows' = rows, page' = page,
           own => page.loaded, ~hist'.drift => ~hist.drift /\ (own => ~Pending)
    PROVE  CopyInv'
  <1> SUFFICES ASSUME ~hist'.drift
               PROVE  CopyInv'
    BY DEF CopyInv
  <1>0. ~hist.drift /\ (own => \A d \in DOMAIN calls : ~Own(d))
    BY DEF Pending, Own
  <1>1. PICK L :
           /\ DOMAIN calls' = DOMAIN calls \cup {L} /\ L \notin DOMAIN calls
           /\ \A c \in DOMAIN calls : calls'[c] = calls[c]
           /\ calls'[L].own = own /\ calls'[L].kind = kind /\ calls'[L].st = "sent"
           /\ own /\ kind \in {"move", "delete", "sort"} => calls'[L].tree = page.tree
    BY AskIs
  <1>2. /\ Acyclic(rows) /\ Rooted(rows)
        /\ \A d \in DOMAIN calls :
              Own(d) => /\ page.loaded /\ \A e \in DOMAIN calls : Own(e) => d = e
                        /\ IF calls[d].st = "done" THEN Ready(d) ELSE Underway(d)
        /\ page.loaded /\ (\A d \in DOMAIN calls : Own(d) => calls[d].st # "done") =>
              SameShape(page.tree, rows)
    BY <1>0 DEF CopyInv
  <1>3. Own(L)' = own /\ \A d \in DOMAIN calls : Own(d)' = Own(d)
    BY <1>1 DEF Own
  <1>4. \A d, e \in DOMAIN calls' : Own(d)' /\ Own(e)' => d = e
    BY <1>0, <1>1, <1>2, <1>3
  <1>5. ASSUME NEW d \in DOMAIN calls, Own(d)
        PROVE  IF calls'[d].st = "done" THEN Ready(d)' ELSE Underway(d)'
    <2>1. calls'[d] = calls[d] /\ rows' \in Rows /\ SameShape(rows, rows')
      BY <1>1 DEF TypeOK, SameShape
    <2>2. Ready(d) => Ready(d)'
      BY <2>1, ReadyStays
    <2>3. Underway(d) => Underway(d)'
      BY <2>1, UnderwayStays
    <2> QED
      BY <1>2, <1>5, <2>1, <2>2, <2>3
  <1>6. own => Underway(L)'
    <2> SUFFICES ASSUME own
                 PROVE  Underway(L)'
      OBVIOUS
    <2>1. SameShape(page.tree, rows)
      BY <1>0, <1>2
    <2> QED
      BY <1>1, <2>1 DEF Underway
  <1>7. (\A d \in DOMAIN calls' : Own(d)' => calls'[d].st # "done") =>
           \A d \in DOMAIN calls : Own(d) => calls[d].st # "done"
    BY <1>1, <1>3
  <1>8. \A d \in DOMAIN calls' : Own(d)' => page'.loaded
    BY <1>1, <1>2, <1>3
  <1>9. \A d \in DOMAIN calls' :
           Own(d)' => IF calls'[d].st = "done" THEN Ready(d)' ELSE Underway(d)'
    BY <1>1, <1>3, <1>5, <1>6
  <1> QED
    BY <1>2, <1>4, <1>7, <1>8, <1>9 DEF CopyInv

\* With one call at a time, no answer lost and nobody else writing, the parents in the copy
\* that the page changes by itself after every answer are those of the rows
\* (CategoriesPage.tsx, which loads the tree once).
THEOREM CopyStaysRight == Spec => []CopyHasTheShape
  <1>1. Init => CopyInv
    <2> SUFFICES ASSUME Init
                 PROVE  CopyInv
      OBVIOUS
    <2>1. DOMAIN calls = {} /\ ~page.loaded
      BY DEF Init
    <2>2. Acyclic(rows) /\ Rooted(rows)
      BY TreeAssumption, InitDepths DEF DepthsFollow
    <2> QED
      BY <2>1, <2>2 DEF CopyInv
  <1>2. TypeOK /\ KnownInv /\ CopyInv /\ [Next]_vars => CopyInv'
    <2> SUFFICES ASSUME TypeOK, KnownInv, CopyInv, [Next]_vars
                 PROVE  CopyInv'
      OBVIOUS
    <2> USE TreeAssumption
    <2>1. ASSUME NEW c \in DOMAIN calls, Serve(c)
          PROVE  CopyInv'
      BY <2>1, ServeCopy
    <2>2. ASSUME NEW c \in DOMAIN calls, Answer(c) \/ AnswerFails(c)
          PROVE  CopyInv'
      BY <2>2, AnswerCopy
    <2>3. CASE UNCHANGED vars
      BY <2>3, AsideCopy DEF vars
    <2>4. CASE Admin \/ OtherCall
      <3>1. CASE UNCHANGED <<rows, calls, hist>>
        <4>1. CASE Admin
          BY <3>1, <4>1, PageTree, AsideCopy
        <4>2. CASE OtherCall
          BY <3>1, <4>2, AsideCopy DEF OtherCall
        <4> QED
          BY <2>4, <4>1, <4>2
      <3> DEFINE Asked ==
                   \E own \in BOOLEAN, kind \in Kind, n, p \in Place : calls' = Ask(own, kind, n, p)
                     /\ rows' = rows /\ hist'.crossed = hist.crossed
                     /\ hist'.overlap = hist.overlap
                     /\ page' = page
                     /\ IF own THEN hist'.drift = (hist.drift \/ Pending) /\ page.loaded
                               ELSE hist'.drift = hist.drift
      <3>4. UNCHANGED <<rows, calls, hist>> \/ Asked
        BY <2>4, PagesOnly
      <3>5. ASSUME Asked
            PROVE  CopyInv'
        <4>1. PICK own \in BOOLEAN, kind \in Kind, n \in Place, p \in Place :
                 /\ calls' = Ask(own, kind, n, p) /\ rows' = rows /\ page' = page
                 /\ IF own THEN hist'.drift = (hist.drift \/ Pending) /\ page.loaded
                           ELSE hist'.drift = hist.drift
          BY <3>5
        <4>2. /\ own => page.loaded
              /\ ~hist'.drift => ~hist.drift /\ (own => ~Pending)
          BY <4>1
        <4> QED
          BY <4>1, <4>2, AskCopy
      <3> HIDE DEF Asked
      <3> QED
        BY <3>1, <3>4, <3>5
    <2> QED
      BY <2>1, <2>2, <2>3, <2>4 DEF Next
  <1>3. TypeOK /\ CopyInv => CopyHasTheShape
    <2> SUFFICES ASSUME TypeOK, CopyInv, page.loaded, ~Pending, ~hist.drift
                 PROVE  Shape(page.tree) = Shape(Shown(rows))
      BY DEF CopyHasTheShape
    <2>1. \A c \in DOMAIN calls : ~Own(c)
      BY DEF Pending, Own
    <2>2. Acyclic(rows) /\ Rooted(rows) /\ SameShape(page.tree, rows)
      BY <2>1 DEF CopyInv
    <2>3. IsFiniteSet(DOMAIN rows) /\ Top \notin DOMAIN rows
      BY TreeAssumption, RowsAre, FS_Subset DEF TypeOK, TreeAssumption
    <2>4. SameShape(Shown(rows), rows)
      BY <2>2, <2>3, ShownShape
    <2> QED
      BY <2>2, <2>4 DEF SameShape, Shape
  <1> QED
    BY <1>1, <1>2, <1>3, IdsAreKnown, PTL DEF Spec
===============================================================================

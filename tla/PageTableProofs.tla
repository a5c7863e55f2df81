--------------------------- MODULE PageTableProofs ---------------------------
(***************************************************************************)
(* What map_page, unmap_page and pmm_get do to a tree of page tables, for  *)
(* every width of the tables and any free pages.  The lemmas are about one *)
(* step of a walk at a time: which tables of which level there are is a    *)
(* function S, and a walk goes from S[0] to S[3].                          *)
(***************************************************************************)
EXTENDS PageTables, FiniteSetTheorems, FunctionTheorems, TLAPS

\* A set of numbers has a least one: the lemma LeastOf.
Lists == INSTANCE TaskQueueProofs

-----------------------------------------------------------------------------
(* Page numbers and their four digits, the entries of a walk.              *)

LEMMA DivDiv ==
    ASSUME NEW a \in Nat, NEW w \in Nat \ {0}, NEW u \in Nat \ {0}
    PROVE  (a \div w) \div u = a \div (w*u)
  BY SMTT(30)

LEMMA DivMod ==
    ASSUME NEW a \in Nat, NEW w \in Nat \ {0}
    PROVE  /\ a = w * (a \div w) + (a % w)
           /\ a \div w \in Nat
           /\ a % w \in 0..w-1
  BY SMTT(30)

LEMMA DivLess ==
    ASSUME NEW a \in Nat, NEW w \in Nat \ {0}, NEW u \in Nat \ {0}, a < w*u
    PROVE  a \div w < u
  BY SMTT(30)

LEMMA SmallMod ==
    ASSUME NEW a \in Nat, NEW w \in Nat \ {0}, a < w
    PROVE  a % w = a
  BY SMTT(30)

\* Two numbers with the same last digit and the same other digits are equal.
LEMMA SameDigits ==
    ASSUME NEW a \in Nat, NEW b \in Nat, NEW w \in Nat \ {0},
           a \div w = b \div w, a % w = b % w
    PROVE  a = b
  <1>1. a = w * (a \div w) + (a % w)
    BY DivMod
  <1>2. b = w * (b \div w) + (b % w)
    BY DivMod
  <1> QED BY <1>1, <1>2

LEMMA IndexType ==
    ASSUME NEW v \in Page
    PROVE  \A k \in 1..4 : Index(v)[k] \in Entry
  <1> DEFINE W == Width
  <1>w. W \in Nat \ {0} /\ W*W \in Nat \ {0} /\ W*W*W \in Nat \ {0}
    BY PageTableAssumption
  <1>v. v \in Nat
    BY DEF Page
  <1>1. v \div (W*W*W) \in Nat /\ v \div (W*W) \in Nat /\ v \div W \in Nat
    BY <1>w, <1>v, DivMod
  <1>2. /\ (v \div (W*W*W)) % W \in Entry
        /\ (v \div (W*W)) % W \in Entry
        /\ (v \div W) % W \in Entry
        /\ v % W \in Entry
    <2> HIDE DEF W
    <2> DEFINE p == v \div (W*W*W)
               q == v \div (W*W)
               r == v \div W
    <2> HIDE DEF p, q, r
    <2>1. p % W \in 0..W-1 /\ q % W \in 0..W-1 /\ r % W \in 0..W-1 /\ v % W \in 0..W-1
      BY <1>1, <1>w, <1>v, DivMod DEF p, q, r
    <2> QED BY <2>1 DEF p, q, r, Entry, W
  <1>3. 1..4 = {1, 2, 3, 4}
    OBVIOUS
  <1> QED BY <1>2, <1>3 DEF Index

LEMMA IndexInjective ==
    ASSUME NEW u \in Page, NEW v \in Page,
           \A k \in 1..4 : Index(u)[k] = Index(v)[k]
    PROVE  u = v
  <1> DEFINE W == Width
             D1(x) == x \div W
             D2(x) == x \div (W*W)
             D3(x) == x \div (W*W*W)
  <1>w. W \in Nat \ {0} /\ W*W \in Nat \ {0} /\ W*W*W \in Nat \ {0}
    BY PageTableAssumption
  <1>i. /\ D3(u) % W = D3(v) % W
        /\ D2(u) % W = D2(v) % W
        /\ D1(u) % W = D1(v) % W
        /\ u % W = v % W
    BY DEF Index
  <1>1. ASSUME NEW x \in Page
        PROVE  /\ x \in Nat /\ D1(x) \in Nat /\ D2(x) \in Nat /\ D3(x) \in Nat
               /\ D2(x) = D1(x) \div W
               /\ D3(x) = D2(x) \div W
               /\ D3(x) % W = D3(x)
    <2>1. x \in Nat /\ x < (W*W*W)*W
      BY <1>w DEF Page
    <2>2. D1(x) \in Nat /\ D2(x) \in Nat /\ D3(x) \in Nat
      BY <1>w, <2>1, DivMod
    <2>3. D2(x) = D1(x) \div W /\ D3(x) = D2(x) \div W
      BY <1>w, <2>1, DivDiv
    <2>4. D3(x) < W
      BY <1>w, <2>1, DivLess
    <2> HIDE DEF D3, W
    <2>5. D3(x) % W = D3(x)
      BY <2>2, <2>4, <1>w, SmallMod
    <2> QED BY <2>1, <2>2, <2>3, <2>5
  <1> HIDE DEF W, D1, D2, D3
  <1>2. D3(u) = D3(v)
    BY <1>1, <1>i
  <1>3. D2(u) = D2(v)
    BY <1>1, <1>i, <1>2, <1>w, SameDigits
  <1>4. D1(u) = D1(v)
    BY <1>1, <1>i, <1>3, <1>w, SameDigits
  <1>5. u \div W = v \div W
    BY <1>4 DEF D1
  <1> QED BY <1>1, <1>i, <1>5, <1>w, SameDigits
-----------------------------------------------------------------------------
(* The tree: S[l] is the set of the tables of level l, S[0] the root.  Only *)
(* the tables of E may be empty.                                            *)

TableType == [Frame -> [Entry -> Nat \cup {NULL}]]
LevelType == [0..3 -> SUBSET Frame]

Below(tb, S)  == \A l \in 0..2 : \A t \in S[l] : \A e \in Entry :
                     tb[t][e] # NULL => tb[t][e] \in S[l+1]
Hung(tb, S)   == \A l \in 0..2 : \A x \in S[l+1] :
                     \E t \in S[l] : \E e \in Entry : tb[t][e] = x
Once(tb, S)   == \A l \in 0..2 : \A t, u \in S[l] : \A d, e \in Entry :
                     tb[t][d] = tb[u][e] /\ tb[t][d] # NULL => t = u /\ d = e
Levels(S)     == S[0] = {PML4} /\ \A k, l \in 0..3 : k # l => S[k] \cap S[l] = {}
Taken(fr, S)  == \A l \in 0..3 : S[l] \cap fr = {}
Filled(tb, S, E) == \A l \in 1..3 : \A t \in S[l] :
                     t \in E \/ \E e \in Entry : tb[t][e] # NULL

Shape(tb, fr, S, E) ==
    /\ tb \in TableType
    /\ fr \in SUBSET Frame
    /\ S \in LevelType
    /\ Below(tb, S)
    /\ Hung(tb, S)
    /\ Once(tb, S)
    /\ Levels(S)
    /\ Taken(fr, S)
    /\ Filled(tb, S, E)

\* tb2 is tb with p in entry e of t.
Wrote(tb, tb2, t, e, p) ==
    /\ tb2 \in TableType
    /\ tb2[t][e] = p
    /\ \A x \in Frame : \A d \in Entry : x # t \/ d # e => tb2[x][d] = tb[x][d]

\* tb2 is tb with a new table f in entry e of t.
Added(tb, tb2, t, e, f) ==
    /\ tb2 \in TableType
    /\ tb2[t][e] = f
    /\ \A d \in Entry : tb2[f][d] = NULL
    /\ \A x \in Frame : \A d \in Entry :
          x # f /\ (x # t \/ d # e) => tb2[x][d] = tb[x][d]

WithLevel(S, S2, l, T) ==
    /\ S2 \in LevelType
    /\ S2[l] = T
    /\ \A k \in 0..3 : k # l => S2[k] = S[k]

LEMMA AddTable ==
    ASSUME NEW tb, NEW fr, NEW S, NEW E, Shape(tb, fr, S, E),
           NEW l \in 0..2, NEW t \in S[l], NEW e \in Entry, tb[t][e] = NULL,
           E \subseteq {t}, NEW f \in fr,
           NEW tb2, Added(tb, tb2, t, e, f),
           NEW S2, WithLevel(S, S2, l+1, S[l+1] \cup {f})
    PROVE  Shape(tb2, fr \ {f}, S2, {f})
  <1>0. /\ tb \in TableType /\ fr \in SUBSET Frame /\ S \in LevelType
        /\ Below(tb, S) /\ Hung(tb, S) /\ Once(tb, S) /\ Levels(S)
        /\ Taken(fr, S) /\ Filled(tb, S, E)
    BY DEF Shape
  <1>1. /\ f \in Frame /\ t \in Frame /\ f # NULL
        /\ \A k \in 0..3 : f \notin S[k] /\ S[k] \subseteq Frame
    BY <1>0, PageTableAssumption DEF Taken, LevelType
  <1>2. /\ tb2 \in TableType /\ tb2[t][e] = f
        /\ \A d \in Entry : tb2[f][d] = NULL
        /\ \A k \in 0..3 : \A x \in S[k] : \A d \in Entry :
              x # t \/ d # e => tb2[x][d] = tb[x][d]
    BY <1>1 DEF Added
  <1>3. /\ S2 \in LevelType
        /\ S2[l+1] = S[l+1] \cup {f}
        /\ \A k \in 0..3 : k # l+1 => S2[k] = S[k]
    BY DEF WithLevel
  <1>4. \A k \in 0..3 : \A x \in S2[k] : x \in S[k] \/ (x = f /\ k = l+1)
    BY <1>3
  <1>5. Below(tb2, S2)
    <2> SUFFICES ASSUME NEW k \in 0..2, NEW x \in S2[k], NEW d \in Entry, tb2[x][d] # NULL
                 PROVE  tb2[x][d] \in S2[k+1]
      BY DEF Below
    <2>1. x # f /\ x \in S[k]
      BY <1>4, <1>2
    <2>2. CASE x = t /\ d = e
      <3>1. k = l
        BY <2>1, <2>2, <1>0 DEF Levels
      <3> QED BY <3>1, <2>2, <1>2, <1>3
    <2>3. CASE x # t \/ d # e
      <3>1. tb2[x][d] = tb[x][d]
        BY <2>1, <2>3, <1>2
      <3>2. tb[x][d] \in S[k+1]
        BY <3>1, <2>1, <1>0 DEF Below
      <3> QED BY <3>1, <3>2, <1>3
    <2> QED BY <2>2, <2>3
  <1>6. Hung(tb2, S2)
    <2> SUFFICES ASSUME NEW k \in 0..2, NEW x \in S2[k+1]
                 PROVE  \E u \in S2[k] : \E d \in Entry : tb2[u][d] = x
      BY DEF Hung
    <2>1. CASE x = f /\ k = l
      BY <2>1, <1>2, <1>3
    <2>2. CASE x \in S[k+1]
      <3>1. PICK u \in S[k], d \in Entry : tb[u][d] = x
        BY <2>2, <1>0 DEF Hung
      <3>2. x # NULL
        BY <2>2, <1>1, PageTableAssumption
      <3>3. u # t \/ d # e
        BY <3>1, <3>2
      <3>4. tb2[u][d] = x /\ u \in S2[k]
        BY <3>1, <3>3, <1>2, <1>3
      <3> QED BY <3>4
    <2> QED BY <2>1, <2>2, <1>4
  <1>7. Once(tb2, S2)
    <2> SUFFICES ASSUME NEW k \in 0..2, NEW u \in S2[k], NEW w \in S2[k],
                        NEW c \in Entry, NEW d \in Entry,
                        tb2[u][c] = tb2[w][d], tb2[u][c] # NULL
                 PROVE  u = w /\ c = d
      BY DEF Once
    <2>1. u # f /\ w # f /\ u \in S[k] /\ w \in S[k]
      BY <1>4, <1>2
    <2>2. \A x \in S[k] : \A g \in Entry : tb[x][g] # f
      BY <1>0, <1>1 DEF Below
    <2>3. CASE u = t /\ c = e
      <3>1. tb2[w][d] = f
        BY <2>3, <1>2
      <3>2. w = t /\ d = e
        BY <3>1, <2>1, <2>2, <1>2
      <3> QED BY <3>2, <2>3
    <2>4. CASE w = t /\ d = e
      <3>1. tb2[u][c] = f
        BY <2>4, <1>2
      <3>2. u = t /\ c = e
        BY <3>1, <2>1, <2>2, <1>2
      <3> QED BY <3>2, <2>4
    <2>5. CASE (u # t \/ c # e) /\ (w # t \/ d # e)
      <3>1. tb2[u][c] = tb[u][c] /\ tb2[w][d] = tb[w][d]
        BY <2>5, <2>1, <1>2
      <3>2. tb[u][c] = tb[w][d] /\ tb[u][c] # NULL
        BY <3>1
      <3>3. Once(tb, S)
        BY <1>0
      <3> QED BY <3>2, <3>3, <2>1 DEF Once
    <2> QED BY <2>3, <2>4, <2>5
  <1>8. Levels(S2)
    BY <1>0, <1>1, <1>3 DEF Levels
  <1>9. Taken(fr \ {f}, S2)
    BY <1>0, <1>3 DEF Taken
  <1>10. Filled(tb2, S2, {f})
    <2> SUFFICES ASSUME NEW k \in 1..3, NEW x \in S2[k], x # f
                 PROVE  \E d \in Entry : tb2[x][d] # NULL
      BY DEF Filled
    <2>1. x \in S[k]
      BY <1>4
    <2>2. CASE x = t
      BY <2>2, <1>2, <1>1
    <2>3. CASE x # t
      <3>1. PICK d \in Entry : tb[x][d] # NULL
        BY <2>1, <2>3, <1>0 DEF Filled
      <3> QED BY <3>1, <2>1, <2>3, <1>2
    <2> QED BY <2>2, <2>3
  <1> QED BY <1>0, <1>2, <1>3, <1>5, <1>6, <1>7, <1>8, <1>9, <1>10 DEF Shape

\* A page is entered in a table of the last level, or taken out: then the
\* table may have become empty.
LEMMA WriteLeaf ==
    ASSUME NEW tb, NEW fr, NEW S, NEW E, Shape(tb, fr, S, E),
           NEW t \in S[3], NEW e \in Entry, NEW p \in Nat \cup {NULL},
           E \subseteq {t}, NEW tb2, Wrote(tb, tb2, t, e, p)
    PROVE  Shape(tb2, fr, S, IF p = NULL THEN {t} ELSE {})
  <1>0. /\ tb \in TableType /\ fr \in SUBSET Frame /\ S \in LevelType
        /\ Below(tb, S) /\ Hung(tb, S) /\ Once(tb, S) /\ Levels(S)
        /\ Taken(fr, S) /\ Filled(tb, S, E)
    BY DEF Shape
  <1>1. /\ tb2 \in TableType /\ tb2[t][e] = p
        /\ \A k \in 0..3 : \A x \in S[k] : \A d \in Entry :
              x # t \/ d # e => tb2[x][d] = tb[x][d]
    BY <1>0 DEF Wrote, LevelType
  <1>2. \A k \in 0..2 : \A x \in S[k] : x # t
    BY <1>0 DEF Levels
  <1>3. \A k \in 0..2 : \A x \in S[k] : \A d \in Entry : tb2[x][d] = tb[x][d]
    BY <1>1, <1>2
  <1>4. Below(tb2, S)
    BY <1>0, <1>3 DEF Below
  <1>5. Hung(tb2, S)
    BY <1>0, <1>3 DEF Hung
  <1>6. Once(tb2, S)
    BY <1>0, <1>3 DEF Once
  <1>7. Filled(tb2, S, IF p = NULL THEN {t} ELSE {})
    <2> SUFFICES ASSUME NEW k \in 1..3, NEW x \in S[k], x = t => p # NULL
                 PROVE  \E d \in Entry : tb2[x][d] # NULL
      BY DEF Filled
    <2>2. CASE x = t
      BY <2>2, <1>1
    <2>3. CASE x # t
      <3>1. PICK d \in Entry : tb[x][d] # NULL
        BY <2>3, <1>0 DEF Filled
      <3> QED BY <3>1, <2>3, <1>1
    <2> QED BY <2>2, <2>3
  <1> QED BY <1>0, <1>1, <1>4, <1>5, <1>6, <1>7 DEF Shape

\* An empty table is taken out of the tree: then the one above it may have
\* become empty.
LEMMA RemoveTable ==
    ASSUME NEW tb, NEW fr, NEW S, NEW l \in 0..2, NEW t \in S[l], NEW e \in Entry,
           NEW c \in S[l+1], tb[t][e] = c, Shape(tb, fr, S, {c}),
           \A d \in Entry : tb[c][d] = NULL,
           NEW tb2, Wrote(tb, tb2, t, e, NULL),
           NEW S2, WithLevel(S, S2, l+1, S[l+1] \ {c})
    PROVE  Shape(tb2, fr \cup {c}, S2, {t})
  <1>0. /\ tb \in TableType /\ fr \in SUBSET Frame /\ S \in LevelType
        /\ Below(tb, S) /\ Hung(tb, S) /\ Once(tb, S) /\ Levels(S)
        /\ Taken(fr, S) /\ Filled(tb, S, {c})
    BY DEF Shape
  <1>1. /\ tb2 \in TableType /\ tb2[t][e] = NULL
        /\ \A k \in 0..3 : \A x \in S[k] : \A d \in Entry :
              x # t \/ d # e => tb2[x][d] = tb[x][d]
    BY <1>0 DEF Wrote, LevelType
  <1>2. /\ S2 \in LevelType
        /\ S2[l+1] = S[l+1] \ {c}
        /\ \A k \in 0..3 : k # l+1 => S2[k] = S[k]
    BY DEF WithLevel
  <1>3. \A k \in 0..3 : S2[k] \subseteq S[k] /\ c \notin S2[k]
    BY <1>0, <1>2 DEF Levels
  <1>4. c \in Frame /\ c # NULL
    BY <1>0, PageTableAssumption DEF LevelType
  <1>5. Below(tb2, S2)
    <2> SUFFICES ASSUME NEW k \in 0..2, NEW x \in S2[k], NEW d \in Entry, tb2[x][d] # NULL
                 PROVE  tb2[x][d] \in S2[k+1]
      BY DEF Below
    <2>1. x \in S[k] /\ (x # t \/ d # e)
      BY <1>1, <1>3
    <2>2. tb2[x][d] = tb[x][d] /\ tb[x][d] \in S[k+1]
      BY <2>1, <1>1, <1>0 DEF Below
    <2>3. CASE k # l
      BY <2>2, <2>3, <1>2
    <2>4. CASE k = l
      <3>1. tb[x][d] # c
        BY <2>1, <2>4, <1>0, <1>4 DEF Once
      <3> QED BY <3>1, <2>2, <2>4, <1>2
    <2> QED BY <2>3, <2>4
  <1>6. Hung(tb2, S2)
    <2> SUFFICES ASSUME NEW k \in 0..2, NEW x \in S2[k+1]
                 PROVE  \E u \in S2[k] : \E d \in Entry : tb2[u][d] = x
      BY DEF Hung
    <2>1. k+1 \in 0..3 /\ x \in S[k+1] /\ x # c
      BY <1>3
    <2>6. S[k+1] \subseteq Frame
      BY <2>1, <1>0 DEF LevelType
    <2>7. x # NULL
      BY <2>1, <2>6, PageTableAssumption
    <2>2. PICK u \in S[k], d \in Entry : tb[u][d] = x
      BY <2>1, <1>0 DEF Hung
    <2>3. u # c
      BY <2>2, <2>7
    <2>4. u # t \/ d # e
      BY <2>1, <2>2
    <2>5. u \in S2[k]
      BY <2>2, <2>3, <1>2
    <2> QED BY <2>2, <2>4, <2>5, <1>1
  <1>7. Once(tb2, S2)
    <2> SUFFICES ASSUME NEW k \in 0..2, NEW u \in S2[k], NEW w \in S2[k],
                        NEW b \in Entry, NEW d \in Entry,
                        tb2[u][b] = tb2[w][d], tb2[u][b] # NULL
                 PROVE  u = w /\ b = d
      BY DEF Once
    <2>1. u \in S[k] /\ w \in S[k]
      BY <1>3
    <2>2. tb2[u][b] = tb[u][b] /\ tb2[w][d] = tb[w][d]
      BY <2>1, <1>1
    <2>3. tb[u][b] = tb[w][d] /\ tb[u][b] # NULL
      BY <2>2
    <2>4. Once(tb, S)
      BY <1>0
    <2> QED BY <2>1, <2>3, <2>4 DEF Once
  <1>8. Levels(S2)
    BY <1>0, <1>2, <1>3 DEF Levels
  <1>9. Taken(fr \cup {c}, S2)
    BY <1>0, <1>3 DEF Taken
  <1>10. Filled(tb2, S2, {t})
    <2> SUFFICES ASSUME NEW k \in 1..3, NEW x \in S2[k], x # t
                 PROVE  \E d \in Entry : tb2[x][d] # NULL
      BY DEF Filled
    <2>1. x \in S[k] /\ x # c
      BY <1>3
    <2>2. PICK d \in Entry : tb[x][d] # NULL
      BY <2>1, <1>0 DEF Filled
    <2> QED BY <2>1, <2>2, <1>1
  <1>11. fr \cup {c} \in SUBSET Frame
    BY <1>0, <1>4
  <1> QED BY <1>1, <1>2, <1>5, <1>6, <1>7, <1>8, <1>9, <1>10, <1>11 DEF Shape

-----------------------------------------------------------------------------
(* Walks.                                                                  *)

\* The table a walk for v meets at a level, the root at 0 and the page at 4.
Node(m, v, k) == IF k = 0 THEN PML4 ELSE Walk(m, v)[k]

\* m2 differs from m at level j at most.
SameBut(m, m2, j) == \A u \in Page : \A k \in 0..4 : k # j => Node(m2, u, k) = Node(m, u, k)
SameTables(m, m2) == \A u \in Page : \A k \in 0..3 : Node(m2, u, k) = Node(m, u, k)

\* m2 translates v to p and the others as m does.
OnlyMaps(m, m2, v, p) == \A u \in Page : Translate(m2, u) = IF u = v THEN p ELSE Translate(m, u)

LEMMA NodeStep ==
    ASSUME NEW m, NEW v, NEW k \in 0..3
    PROVE  Node(m, v, k+1) = Step(m, Node(m, v, k), Index(v)[k+1])
  <1>1. PML4 # NULL
    BY PageTableAssumption
  <1>2. k = 0 \/ k = 1 \/ k = 2 \/ k = 3
    OBVIOUS
  <1>3. CASE k = 0
    <2>1. Node(m, v, k) = PML4 /\ Node(m, v, k+1) = Walk(m, v)[1]
      BY <1>3 DEF Node
    <2>2. Walk(m, v)[1] = m.table[PML4][Index(v)[1]]
      BY DEF Walk
    <2> QED BY <1>1, <1>3, <2>1, <2>2 DEF Step
  <1>4. CASE k = 1
    BY <1>4 DEF Node, Walk
  <1>5. CASE k = 2
    BY <1>5 DEF Node, Walk
  <1>6. CASE k = 3
    BY <1>6 DEF Node, Walk
  <1> QED BY <1>2, <1>3, <1>4, <1>5, <1>6

LEMMA TranslateNode ==
    ASSUME NEW m, NEW v
    PROVE  Translate(m, v) = Node(m, v, 4)
  BY DEF Translate, Node

LEMMA NodeLevel ==
    ASSUME NEW m, NEW S, m.table \in TableType, S \in LevelType,
           Below(m.table, S), Levels(S), NEW v \in Page
    PROVE  /\ \A k \in 0..3 : Node(m, v, k) # NULL => Node(m, v, k) \in S[k]
           /\ Node(m, v, 4) \in Nat \cup {NULL}
  <1> DEFINE P(k) == Node(m, v, k) # NULL => Node(m, v, k) \in S[k]
  <1>1. P(0)
    BY DEF Levels, Node
  <1>2. ASSUME NEW k \in 0..2, P(k)
        PROVE  P(k+1)
    <2>1. Index(v)[k+1] \in Entry
      BY IndexType
    <2>2. Node(m, v, k+1) = Step(m, Node(m, v, k), Index(v)[k+1])
      BY NodeStep
    <2> QED BY <1>2, <2>1, <2>2 DEF Step, Below
  <1>3. P(1) /\ P(2) /\ P(3)
    <2>1. P(0+1)
      BY <1>1, <1>2
    <2>2. P(1+1)
      BY <2>1, <1>2
    <2>3. P(2+1)
      BY <2>2, <1>2
    <2> QED BY <2>1, <2>2, <2>3
  <1>4. Node(m, v, 4) \in Nat \cup {NULL}
    <2>1. Index(v)[4] \in Entry
      BY IndexType
    <2>2. Node(m, v, 3+1) = Step(m, Node(m, v, 3), Index(v)[3+1])
      BY NodeStep
    <2>3. Node(m, v, 3) # NULL => Node(m, v, 3) \in Frame
      BY <1>3 DEF LevelType
    <2> QED BY <2>1, <2>2, <2>3 DEF Step, TableType
  <1> QED BY <1>1, <1>3, <1>4

\* A new table is empty: what is mapped stays the same.
LEMMA AddedWalk ==
    ASSUME NEW m, NEW S, m.table \in TableType, S \in LevelType,
           Below(m.table, S), Levels(S), NEW v \in Page,
           NEW l \in 0..2, NEW t \in S[l], NEW e \in Entry, m.table[t][e] = NULL,
           NEW f \in Frame, \A k \in 0..3 : f \notin S[k],
           NEW m2, Added(m.table, m2.table, t, e, f)
    PROVE  \A k \in 0..4 : \/ Node(m2, v, k) = Node(m, v, k)
                           \/ k = l+1 /\ Node(m, v, k) = NULL /\ Node(m2, v, k) = f
  <1> DEFINE R(k) == \/ Node(m2, v, k) = Node(m, v, k)
                     \/ k = l+1 /\ Node(m, v, k) = NULL /\ Node(m2, v, k) = f
  <1>1. R(0)
    BY DEF Node
  <1>2. ASSUME NEW k \in 0..3, R(k)
        PROVE  R(k+1)
    <2>1. Index(v)[k+1] \in Entry
      BY IndexType
    <2>2. /\ Node(m, v, k+1) = Step(m, Node(m, v, k), Index(v)[k+1])
          /\ Node(m2, v, k+1) = Step(m2, Node(m2, v, k), Index(v)[k+1])
      BY NodeStep
    <2>3. f # NULL
      BY PageTableAssumption
    <2>4. Node(m, v, k) # NULL => Node(m, v, k) \in S[k]
      BY NodeLevel
    <2>5. CASE Node(m2, v, k) = Node(m, v, k) /\ Node(m, v, k) = NULL
      BY <2>2, <2>5 DEF Step
    <2>6. CASE Node(m2, v, k) = Node(m, v, k) /\ Node(m, v, k) # NULL
      <3> DEFINE n == Node(m, v, k)
                 i == Index(v)[k+1]
      <3>1. n \in S[k] /\ n \in Frame /\ n # f
        BY <2>4, <2>6 DEF LevelType
      <3>2. Node(m, v, k+1) = m.table[n][i] /\ Node(m2, v, k+1) = m2.table[n][i]
        BY <2>2, <2>6 DEF Step
      <3>3. CASE n = t /\ i = e
        <4>1. k = l
          BY <3>1, <3>3 DEF Levels
        <4> QED BY <4>1, <3>2, <3>3 DEF Added
      <3>4. CASE n # t \/ i # e
        BY <3>1, <3>2, <3>4, <2>1 DEF Added
      <3> QED BY <3>3, <3>4
    <2>7. CASE k = l+1 /\ Node(m, v, k) = NULL /\ Node(m2, v, k) = f
      BY <2>1, <2>2, <2>3, <2>7 DEF Step, Added
    <2> QED BY <1>2, <2>5, <2>6, <2>7
  <1> HIDE DEF R
  <1>3. R(1) /\ R(2) /\ R(3) /\ R(4)
    <2>1. R(0+1)
      BY <1>1, <1>2
    <2>2. R(1+1)
      BY <2>1, <1>2
    <2>3. R(2+1)
      BY <2>2, <1>2
    <2>4. R(3+1)
      BY <2>3, <1>2
    <2> QED BY <2>1, <2>2, <2>3, <2>4
  <1>4. \A k \in 0..4 : R(k)
    <2>1. 0..4 = {0, 1, 2, 3, 4}
      OBVIOUS
    <2> QED BY <1>1, <1>3, <2>1
  <1> QED BY <1>4 DEF R

\* A table that is removed was empty: what is mapped stays the same.
LEMMA RemovedWalk ==
    ASSUME NEW m, NEW S, m.table \in TableType, S \in LevelType,
           Below(m.table, S), Levels(S), NEW v \in Page,
           NEW l \in 0..2, NEW t \in S[l], NEW e \in Entry,
           NEW c \in S[l+1], m.table[t][e] = c,
           \A d \in Entry : m.table[c][d] = NULL,
           NEW m2, Wrote(m.table, m2.table, t, e, NULL)
    PROVE  \A k \in 0..4 : \/ Node(m2, v, k) = Node(m, v, k)
                           \/ k = l+1 /\ Node(m, v, k) = c /\ Node(m2, v, k) = NULL
  <1> DEFINE R(k) == \/ Node(m2, v, k) = Node(m, v, k)
                     \/ k = l+1 /\ Node(m, v, k) = c /\ Node(m2, v, k) = NULL
  <1>1. R(0)
    BY DEF Node
  <1>2. ASSUME NEW k \in 0..3, R(k)
        PROVE  R(k+1)
    <2>1. Index(v)[k+1] \in Entry
      BY IndexType
    <2>2. /\ Node(m, v, k+1) = Step(m, Node(m, v, k), Index(v)[k+1])
          /\ Node(m2, v, k+1) = Step(m2, Node(m2, v, k), Index(v)[k+1])
      BY NodeStep
    <2>4. Node(m, v, k) # NULL => Node(m, v, k) \in S[k]
      BY NodeLevel
    <2>5. CASE Node(m2, v, k) = Node(m, v, k) /\ Node(m, v, k) = NULL
      BY <2>2, <2>5 DEF Step
    <2>6. CASE Node(m2, v, k) = Node(m, v, k) /\ Node(m, v, k) # NULL
      <3> DEFINE n == Node(m, v, k)
                 i == Index(v)[k+1]
      <3>1. n \in S[k] /\ n \in Frame
        BY <2>4, <2>6 DEF LevelType
      <3>2. Node(m, v, k+1) = m.table[n][i] /\ Node(m2, v, k+1) = m2.table[n][i]
        BY <2>2, <2>6 DEF Step
      <3>3. CASE n = t /\ i = e
        <4>1. k = l
          BY <3>1, <3>3 DEF Levels
        <4> QED BY <4>1, <3>2, <3>3 DEF Wrote
      <3>4. CASE n # t \/ i # e
        BY <3>1, <3>2, <3>4, <2>1 DEF Wrote
      <3> QED BY <3>3, <3>4
    <2>7. CASE k = l+1 /\ Node(m, v, k) = c /\ Node(m2, v, k) = NULL
      BY <2>1, <2>2, <2>7 DEF Step
    <2> QED BY <1>2, <2>5, <2>6, <2>7
  <1> HIDE DEF R
  <1>3. R(1) /\ R(2) /\ R(3) /\ R(4)
    <2>1. R(0+1)
      BY <1>1, <1>2
    <2>2. R(1+1)
      BY <2>1, <1>2
    <2>3. R(2+1)
      BY <2>2, <1>2
    <2>4. R(3+1)
      BY <2>3, <1>2
    <2> QED BY <2>1, <2>2, <2>3, <2>4
  <1>4. \A k \in 0..4 : R(k)
    <2>1. 0..4 = {0, 1, 2, 3, 4}
      OBVIOUS
    <2> QED BY <1>1, <1>3, <2>1
  <1> QED BY <1>4 DEF R

\* Walks that meet the same table of the last level are for the same page or
\* use different entries of it.
LEMMA SameLeaf ==
    ASSUME NEW m, NEW S, m.table \in TableType, S \in LevelType,
           Below(m.table, S), Once(m.table, S), Levels(S), NEW u \in Page, NEW v \in Page,
           Node(m, v, 3) # NULL, Node(m, u, 3) = Node(m, v, 3),
           Index(u)[4] = Index(v)[4]
    PROVE  u = v
  <1>1. ASSUME NEW k \in 0..2, Node(m, v, k+1) # NULL, Node(m, u, k+1) = Node(m, v, k+1)
        PROVE  /\ Node(m, v, k) # NULL
               /\ Node(m, u, k) = Node(m, v, k)
               /\ Index(u)[k+1] = Index(v)[k+1]
    <2>1. Index(v)[k+1] \in Entry /\ Index(u)[k+1] \in Entry
      BY IndexType
    <2>2. /\ Node(m, v, k+1) = Step(m, Node(m, v, k), Index(v)[k+1])
          /\ Node(m, u, k+1) = Step(m, Node(m, u, k), Index(u)[k+1])
      BY NodeStep
    <2>3. Node(m, v, k) # NULL /\ Node(m, u, k) # NULL
      BY <1>1, <2>2 DEF Step
    <2>4. Node(m, v, k) \in S[k] /\ Node(m, u, k) \in S[k]
      BY <2>3, NodeLevel
    <2>5. /\ m.table[Node(m, u, k)][Index(u)[k+1]] = m.table[Node(m, v, k)][Index(v)[k+1]]
          /\ m.table[Node(m, u, k)][Index(u)[k+1]] # NULL
      BY <1>1, <2>2, <2>3 DEF Step
    <2> QED BY <2>1, <2>3, <2>4, <2>5 DEF Once
  <1>2. /\ Node(m, v, 2) # NULL /\ Node(m, u, 2) = Node(m, v, 2)
        /\ Index(u)[3] = Index(v)[3]
    <2>1. Node(m, v, 2+1) # NULL /\ Node(m, u, 2+1) = Node(m, v, 2+1)
      OBVIOUS
    <2> QED BY <2>1, <1>1
  <1>3. /\ Node(m, v, 1) # NULL /\ Node(m, u, 1) = Node(m, v, 1)
        /\ Index(u)[2] = Index(v)[2]
    <2>1. Node(m, v, 1+1) # NULL /\ Node(m, u, 1+1) = Node(m, v, 1+1)
      BY <1>2
    <2> QED BY <2>1, <1>1
  <1>4. Index(u)[1] = Index(v)[1]
    <2>1. Node(m, v, 0+1) # NULL /\ Node(m, u, 0+1) = Node(m, v, 0+1)
      BY <1>3
    <2> QED BY <2>1, <1>1
  <1>5. \A k \in 1..4 : Index(u)[k] = Index(v)[k]
    <2>1. 1..4 = {1, 2, 3, 4}
      OBVIOUS
    <2> QED BY <2>1, <1>2, <1>3, <1>4
  <1> QED BY <1>5, IndexInjective

LEMMA WrittenWalk ==
    ASSUME NEW m, NEW S, m.table \in TableType, S \in LevelType,
           Below(m.table, S), Once(m.table, S), Levels(S), NEW v \in Page,
           Node(m, v, 3) # NULL, NEW p,
           NEW m2, Wrote(m.table, m2.table, Node(m, v, 3), Index(v)[4], p)
    PROVE  SameTables(m, m2) /\ OnlyMaps(m, m2, v, p)
  <1> SUFFICES ASSUME NEW u \in Page
               PROVE  /\ \A k \in 0..3 : Node(m2, u, k) = Node(m, u, k)
                      /\ Translate(m2, u) = IF u = v THEN p ELSE Translate(m, u)
    BY DEF SameTables, OnlyMaps
  <1> DEFINE t == Node(m, v, 3)
             R(k) == Node(m2, u, k) = Node(m, u, k)
  <1>0. t \in S[3]
    BY NodeLevel
  <1>1. R(0)
    BY DEF Node
  <1>2. ASSUME NEW k \in 0..2, R(k)
        PROVE  R(k+1)
    <2>1. Index(u)[k+1] \in Entry
      BY IndexType
    <2>2. /\ Node(m, u, k+1) = Step(m, Node(m, u, k), Index(u)[k+1])
          /\ Node(m2, u, k+1) = Step(m2, Node(m2, u, k), Index(u)[k+1])
      BY NodeStep
    <2>3. CASE Node(m, u, k) = NULL
      BY <1>2, <2>2, <2>3 DEF Step
    <2>4. CASE Node(m, u, k) # NULL
      <3>1. Node(m, u, k) \in S[k]
        BY <2>4, NodeLevel
      <3>2. Node(m, u, k) # t /\ Node(m, u, k) \in Frame
        BY <3>1, <1>0 DEF Levels, LevelType
      <3>3. m2.table[Node(m, u, k)][Index(u)[k+1]] = m.table[Node(m, u, k)][Index(u)[k+1]]
        BY <3>2, <2>1 DEF Wrote
      <3> QED BY <1>2, <2>2, <2>4, <3>3 DEF Step
    <2> QED BY <2>3, <2>4
  <1> HIDE DEF R
  <1>3. R(1) /\ R(2) /\ R(3)
    <2>1. R(0+1)
      BY <1>1, <1>2
    <2>2. R(1+1)
      BY <2>1, <1>2
    <2>3. R(2+1)
      BY <2>2, <1>2
    <2> QED BY <2>1, <2>2, <2>3
  <1>4. \A k \in 0..3 : Node(m2, u, k) = Node(m, u, k)
    <2>1. 0..3 = {0, 1, 2, 3}
      OBVIOUS
    <2> QED BY <1>1, <1>3, <2>1 DEF R
  <1>5. Translate(m2, u) = IF u = v THEN p ELSE Translate(m, u)
    <2> DEFINE n == Node(m, u, 3)
    <2>1. Index(u)[4] \in Entry
      BY IndexType
    <2>2. /\ Translate(m, u) = Step(m, n, Index(u)[4])
          /\ Translate(m2, u) = Step(m2, n, Index(u)[4])
      <3>1. /\ Node(m, u, 3+1) = Step(m, n, Index(u)[3+1])
            /\ Node(m2, u, 3+1) = Step(m2, Node(m2, u, 3), Index(u)[3+1])
        BY NodeStep
      <3>2. Node(m2, u, 3) = n
        BY <1>4
      <3> QED BY <3>1, <3>2, TranslateNode
    <2>3. CASE u = v
      BY <2>2, <2>3 DEF Step, Wrote
    <2>4. CASE u # v /\ n = NULL
      BY <2>2, <2>4 DEF Step
    <2>5. CASE u # v /\ n # NULL
      <3>1. n \in S[3] /\ n \in Frame
        BY <2>5, NodeLevel DEF LevelType
      <3>2. n # t \/ Index(u)[4] # Index(v)[4]
        BY <2>5, SameLeaf
      <3> QED BY <2>1, <2>2, <2>5, <3>1, <3>2 DEF Step, Wrote
    <2> QED BY <2>3, <2>4, <2>5
  <1> QED BY <1>4, <1>5

-----------------------------------------------------------------------------
(* pmm_get and kmalloc.                                                    *)

LEMMA GetsRun ==
    ASSUME NEW free \in SUBSET Nat, NEW n \in Nat, HasRun(free, n)
    PROVE  /\ pmm_get(free, n) \in free
           /\ pmm_get(free, n)..pmm_get(free, n)+n-1 \subseteq free
           /\ \A g \in free : g..g+n-1 \subseteq free => pmm_get(free, n) <= g
  <1> DEFINE D == {f \in free : f..f+n-1 \subseteq free}
  <1>1. PICK f \in D : TRUE
    BY DEF HasRun
  <1>0. D \in SUBSET Nat
    OBVIOUS
  <1>3. ASSUME NEW g \in D, \A h \in D : g <= h
        PROVE  \E i \in free : /\ i..i+n-1 \subseteq free
                               /\ \A h \in free : h..h+n-1 \subseteq free => i <= h
    BY <1>3
  <1> HIDE DEF D
  <1>2. \E g \in D : \A h \in D : g <= h
    <2> DEFINE L == {h \in D : h <= f}
    <2>0. f \in D /\ f \in Nat
      BY <1>0, <1>1
    <2>4. ASSUME NEW h \in L
          PROVE  h \in 0..f
      <3>1. h \in D /\ h <= f
        OBVIOUS
      <3>2. h \in Nat
        BY <1>0, <3>1
      <3> QED BY <2>0, <3>1, <3>2
    <2>5. f \in L
      BY <2>0
    <2>1. L \subseteq 0..f /\ f \in L
      BY <2>4, <2>5
    <2> HIDE DEF L
    <2>2. PICK g \in L : \A h \in L : g <= h
      BY <2>0, <2>1, Lists!LeastOf
    <2>3. \A h \in D : g <= h
      BY <2>2, <2>0, <1>0 DEF L
    <2> QED BY <2>2, <2>3 DEF L
  <1>4. \E i \in free : /\ i..i+n-1 \subseteq free
                        /\ \A h \in free : h..h+n-1 \subseteq free => i <= h
    BY <1>2, <1>3
  <1> QED BY <1>4 DEF pmm_get

LEMMA GetsBlock ==
    ASSUME NEW free \in SUBSET Nat, HasRun(free, 2)
    PROVE  /\ kmalloc(free) \in Nat \ {0}
           /\ Block(kmalloc(free)) \subseteq free
  <1> DEFINE f == pmm_get(free, 2)
  <1>1. f \in free /\ f..f+2-1 \subseteq free
    BY GetsRun
  <1> HIDE DEF f
  <1>2. f \in Nat /\ {f, f+1} \subseteq free
    BY <1>1
  <1>3. kmalloc(free) = f + 1
    BY DEF kmalloc, f
  <1> QED BY <1>2, <1>3 DEF Block

LEMMA GetsPage ==
    ASSUME NEW free \in SUBSET Nat, free # {}
    PROVE  pmm_get(free, 1) \in free
  <1>1. HasRun(free, 1)
    <2>1. PICK f \in free : TRUE
      OBVIOUS
    <2>2. f \in Nat /\ f..f+1-1 \subseteq free
      BY <2>1
    <2> QED BY <2>1, <2>2 DEF HasRun
  <1> QED BY <1>1, GetsRun

-----------------------------------------------------------------------------
(* map_page and unmap_page.                                                *)

MemType == [table : TableType, free : SUBSET Frame]
Proper(m, S, E) == m \in MemType /\ Shape(m.table, m.free, S, E)

\* The free pages and the tables are the same pages together.
SameStock(m, S, m2, S2) ==
    m.free \cup S[1] \cup S[2] \cup S[3] = m2.free \cup S2[1] \cup S2[2] \cup S2[3]

\* What a walk for v still lacks from level l on is there.
Enough(m, v, l) ==
    \A k \in 1..3 : k > l /\ Node(m, v, k) = NULL => Cardinality(m.free) >= 4 - k

SomeShape(m, S, m2, E) == \E S2 : Proper(m2, S2, E) /\ SameStock(m, S, m2, S2)

LEMMA FreeFinite ==
    ASSUME NEW m \in MemType
    PROVE  IsFiniteSet(m.free) /\ Cardinality(m.free) \in Nat
  <1>1. m.free \in SUBSET Frame /\ IsFiniteSet(Frame)
    BY PageTableAssumption DEF MemType
  <1> QED BY <1>1, FS_Subset, FS_CardinalityType

LEMMA WithTableWalks ==
    ASSUME NEW m, NEW S, NEW E, Proper(m, S, E), NEW v \in Page, NEW l \in 0..2,
           Node(m, v, l) # NULL, E \subseteq {Node(m, v, l)}, Enough(m, v, l),
           NEW m2, m2 = WithTable(m, Node(m, v, l), Index(v)[l+1])
    PROVE  /\ Node(m2, v, l+1) # NULL
           /\ Node(m2, v, l+1) = m2.table[Node(m, v, l)][Index(v)[l+1]]
           /\ SomeShape(m, S, m2, {Node(m2, v, l+1)})
           /\ SameBut(m, m2, l+1)
           /\ Enough(m2, v, l+1)
  <1> DEFINE t == Node(m, v, l)
             e == Index(v)[l+1]
             f == pmm_get(m.free, 1)
  <1>1. /\ m \in MemType /\ m.table \in TableType /\ m.free \in SUBSET Frame
        /\ S \in LevelType /\ Below(m.table, S) /\ Levels(S)
    BY DEF Proper, Shape
  <1>2. t \in S[l] /\ t \in Frame /\ e \in Entry
    <2>1. t \in S[l]
      BY <1>1, NodeLevel
    <2>2. e \in Entry
      BY IndexType
    <2> QED BY <2>1, <2>2, <1>1 DEF LevelType
  <1>3. Node(m, v, l+1) = m.table[t][e]
    BY NodeStep DEF Step
  <1>4. l+1 \in 1..3 /\ l+1 > l
    OBVIOUS
  <1>5. CASE m.table[t][e] # NULL
    <2>1. m2 = m
      BY <1>5 DEF WithTable
    <2>2. Node(m, v, l+1) \in S[l+1]
      BY <1>1, <1>3, <1>5, NodeLevel
    <2>3. Proper(m, S, {Node(m, v, l+1)})
      <3>1. Filled(m.table, S, E)
        BY DEF Proper, Shape
      <3>2. Filled(m.table, S, {Node(m, v, l+1)})
        BY <3>1, <1>2, <1>5 DEF Filled
      <3> QED BY <3>2 DEF Proper, Shape
    <2>4. SomeShape(m, S, m, {Node(m, v, l+1)})
      BY <2>3 DEF SomeShape, SameStock
    <2>5. Enough(m, v, l+1)
      BY DEF Enough
    <2> QED BY <2>1, <2>4, <2>5, <1>3, <1>5 DEF SameBut
  <1>6. CASE m.table[t][e] = NULL
    <2>1. m.free # {}
      <3>1. Cardinality(m.free) >= 4 - (l+1)
        BY <1>3, <1>4, <1>6 DEF Enough
      <3>2. Cardinality(m.free) # 0
        BY <3>1
      <3> QED BY <3>2, FS_EmptySet
    <2>2. f \in m.free /\ f \in Frame /\ f # NULL
      <3>1. m.free \in SUBSET Nat
        BY <1>1, PageTableAssumption
      <3> HIDE DEF f
      <3>2. f \in m.free
        BY <3>1, <2>1, GetsPage DEF f
      <3> QED BY <3>1, <3>2, <1>1, PageTableAssumption
    <2>3. \A k \in 0..3 : f \notin S[k]
      BY <2>2 DEF Proper, Shape, Taken
    <2>4. /\ m2.table = [m.table EXCEPT ![f] = Zeroed, ![t][e] = f]
          /\ m2.free = m.free \ {f}
      BY <1>6 DEF WithTable
    <2> HIDE DEF f, t, e
    <2>5. Added(m.table, m2.table, t, e, f) /\ m2 \in MemType
      <3>1. f # t
        BY <1>2, <2>3
      <3>2. f \in Nat
        BY <2>2, PageTableAssumption
      <3>3. Zeroed \in [Entry -> Nat \cup {NULL}] /\ \A d \in Entry : Zeroed[d] = NULL
        BY DEF Zeroed
      <3> DEFINE g == [m.table EXCEPT ![f] = Zeroed]
      <3>4. /\ g \in TableType /\ g[f] = Zeroed
            /\ \A x \in Frame : x # f => g[x] = m.table[x]
        BY <1>1, <2>2, <3>3 DEF TableType
      <3>5. m2.table = [g EXCEPT ![t][e] = f]
        BY <2>4
      <3> HIDE DEF g
      <3>6. /\ m2.table \in TableType
            /\ m2.table[t][e] = f
            /\ \A x \in Frame : \A d \in Entry : x # t \/ d # e => m2.table[x][d] = g[x][d]
        BY <3>4, <3>5, <1>2, <3>2 DEF TableType
      <3>7. Added(m.table, m2.table, t, e, f)
        BY <3>1, <3>3, <3>4, <3>6, <2>2 DEF Added
      <3>8. m2 \in MemType
        <4>1. m2 = [ table |-> [m.table EXCEPT ![f] = Zeroed, ![t][e] = f], free |-> m.free \ {f} ]
          BY <1>6 DEF WithTable, f, t, e
        <4> QED BY <4>1, <2>4, <3>6, <1>1 DEF MemType
      <3> QED BY <3>7, <3>8
    <2>6. PICK S2 : S2 = [S EXCEPT ![l+1] = @ \cup {f}]
      OBVIOUS
    <2>7. WithLevel(S, S2, l+1, S[l+1] \cup {f})
      BY <2>6, <1>1, <1>4, <2>2 DEF WithLevel, LevelType
    <2>8. Proper(m2, S2, {f})
      <3>1. Shape(m.table, m.free, S, E) /\ E \subseteq {t}
        BY DEF Proper, t
      <3>2. Shape(m2.table, m.free \ {f}, S2, {f})
        BY <3>1, <1>2, <1>6, <2>2, <2>5, <2>7, AddTable
      <3> QED BY <3>2, <2>4, <2>5 DEF Proper
    <2>9. \A u \in Page : \A k \in 0..4 :
              \/ Node(m2, u, k) = Node(m, u, k)
              \/ k = l+1 /\ Node(m, u, k) = NULL /\ Node(m2, u, k) = f
      BY <1>1, <1>2, <1>6, <2>2, <2>3, <2>5, AddedWalk
    <2>10. Node(m2, v, l) = t
      BY <2>9 DEF t
    <2>11. Node(m2, v, l+1) = f /\ Node(m2, v, l+1) = m2.table[t][e]
      <3>1. Node(m2, v, l+1) = Step(m2, Node(m2, v, l), Index(v)[l+1])
        BY NodeStep
      <3>2. t # NULL
        BY DEF t
      <3> QED BY <3>1, <3>2, <2>10, <2>5 DEF Step, Added, e
    <2>12. SameStock(m, S, m2, S2)
      <3>1. l+1 = 1 \/ l+1 = 2 \/ l+1 = 3
        OBVIOUS
      <3> QED BY <3>1, <2>2, <2>4, <2>7 DEF SameStock, WithLevel
    <2>13. Enough(m2, v, l+1)
      <3> SUFFICES ASSUME NEW k \in 1..3, k > l+1, Node(m2, v, k) = NULL
                   PROVE  Cardinality(m2.free) >= 4 - k
        BY DEF Enough
      <3>1. Cardinality(m.free) >= 4 - (l+1)
        BY <1>3, <1>4, <1>6 DEF Enough, t, e
      <3>2. Cardinality(m2.free) = Cardinality(m.free) - 1 /\ Cardinality(m.free) \in Nat
        <4>1. IsFiniteSet(m.free) /\ Cardinality(m.free) \in Nat
          BY <1>1, FreeFinite
        <4> QED BY <4>1, <2>2, <2>4, FS_RemoveElement
      <3> QED BY <3>1, <3>2
    <2>14. SomeShape(m, S, m2, {Node(m2, v, l+1)})
      BY <2>8, <2>11, <2>12 DEF SomeShape
    <2> QED BY <2>2, <2>9, <2>11, <2>13, <2>14 DEF t, e, SameBut
  <1> QED BY <1>5, <1>6

WithLeaf(m, t, e, p) == [m EXCEPT !.table[t][e] = p]
WithoutTable(m, t, e, c) ==
    [table |-> [m.table EXCEPT ![t][e] = NULL], free |-> m.free \cup {c}]

LEMMA WriteEntry ==
    ASSUME NEW tb \in TableType, NEW t \in Frame, NEW e \in Entry, NEW p \in Nat \cup {NULL}
    PROVE  /\ [tb EXCEPT ![t][e] = p] \in TableType
           /\ Wrote(tb, [tb EXCEPT ![t][e] = p], t, e, p)
  BY DEF Wrote, TableType

LEMMA LeafFields ==
    ASSUME NEW m \in MemType, NEW t \in Frame, NEW e \in Entry, NEW p \in Nat \cup {NULL}
    PROVE  /\ WithLeaf(m, t, e, p) \in MemType
           /\ WithLeaf(m, t, e, p).free = m.free
           /\ Wrote(m.table, WithLeaf(m, t, e, p).table, t, e, p)
  <1>1. m.table \in TableType /\ m.free \in SUBSET Frame
    BY DEF MemType
  <1>2. WithLeaf(m, t, e, p) = [table |-> [m.table EXCEPT ![t][e] = p], free |-> m.free]
    BY DEF WithLeaf, MemType
  <1> HIDE DEF WithLeaf
  <1> QED BY <1>1, <1>2, WriteEntry DEF MemType

LEMMA WithoutFields ==
    ASSUME NEW m \in MemType, NEW t \in Frame, NEW e \in Entry, NEW c \in Frame
    PROVE  /\ WithoutTable(m, t, e, c) \in MemType
           /\ WithoutTable(m, t, e, c).free = m.free \cup {c}
           /\ Wrote(m.table, WithoutTable(m, t, e, c).table, t, e, NULL)
  <1>1. m.table \in TableType /\ m.free \cup {c} \in SUBSET Frame
    BY DEF MemType
  <1> QED BY <1>1, WriteEntry DEF MemType, WithoutTable

LEMMA LeafWritten ==
    ASSUME NEW m, NEW S, NEW E, Proper(m, S, E), NEW v \in Page,
           Node(m, v, 3) # NULL, E \subseteq {Node(m, v, 3)}, NEW p \in Nat \cup {NULL},
           NEW m2, m2 = WithLeaf(m, Node(m, v, 3), Index(v)[4], p)
    PROVE  /\ Proper(m2, S, IF p = NULL THEN {Node(m, v, 3)} ELSE {})
           /\ m2.free = m.free
           /\ SameTables(m, m2)
           /\ OnlyMaps(m, m2, v, p)
  <1> DEFINE t == Node(m, v, 3)
             e == Index(v)[4]
  <1>1. /\ m \in MemType /\ m.table \in TableType /\ m.free \in SUBSET Frame
        /\ S \in LevelType /\ Below(m.table, S) /\ Once(m.table, S) /\ Levels(S)
    BY DEF Proper, Shape
  <1>2. t \in S[3] /\ t \in Frame /\ e \in Entry
    <2>1. t \in S[3]
      BY <1>1, NodeLevel
    <2>2. e \in Entry
      BY IndexType
    <2> QED BY <2>1, <2>2, <1>1 DEF LevelType
  <1> HIDE DEF t, e
  <1>3. m2 = WithLeaf(m, t, e, p)
    BY DEF t, e
  <1>4. m2 \in MemType /\ m2.free = m.free /\ Wrote(m.table, m2.table, t, e, p)
    BY <1>1, <1>2, <1>3, LeafFields
  <1>5. Shape(m2.table, m2.free, S, IF p = NULL THEN {t} ELSE {})
    <2>1. Shape(m.table, m.free, S, E) /\ E \subseteq {t}
      BY DEF Proper, t
    <2>2. Shape(m2.table, m.free, S, IF p = NULL THEN {t} ELSE {})
      BY <2>1, <1>2, <1>4, WriteLeaf
    <2> QED BY <2>2, <1>4
  <1>6. SameTables(m, m2) /\ OnlyMaps(m, m2, v, p)
    <2>1. Wrote(m.table, m2.table, Node(m, v, 3), Index(v)[4], p)
      BY <1>4 DEF t, e
    <2> QED BY <1>1, <2>1, WrittenWalk
  <1> QED BY <1>4, <1>5, <1>6 DEF Proper, t

LEMMA PrunedWalks ==
    ASSUME NEW m, NEW S, NEW v \in Page, NEW l \in 0..2, NEW j, j = l+1,
           Node(m, v, l) # NULL, Node(m, v, j) # NULL,
           Proper(m, S, {Node(m, v, j)}),
           NEW m2, m2 = Pruned(m, Node(m, v, l), Index(v)[j])
    PROVE  /\ SomeShape(m, S, m2, {Node(m, v, l)})
           /\ SameBut(m, m2, j)
  <1> DEFINE t == Node(m, v, l)
             e == Index(v)[j]
             c == Node(m, v, j)
  <1>1. /\ m \in MemType /\ m.table \in TableType /\ m.free \in SUBSET Frame
        /\ S \in LevelType /\ Below(m.table, S) /\ Levels(S)
        /\ Filled(m.table, S, {c})
    BY DEF Proper, Shape
  <1>2. t \in S[l] /\ t \in Frame /\ e \in Entry
    <2>1. t \in S[l]
      BY <1>1, NodeLevel
    <2>2. e \in Entry
      BY IndexType
    <2> QED BY <2>1, <2>2, <1>1 DEF LevelType
  <1>3. c = m.table[t][e]
    BY NodeStep DEF Step
  <1>4. l+1 \in 1..3 /\ c \in S[l+1] /\ c \in Frame
    <2>1. l+1 \in 1..3 /\ c \in S[l+1]
      BY <1>1, NodeLevel
    <2> QED BY <2>1, <1>1 DEF LevelType
  <1>5. m.table[c] = Zeroed <=> \A d \in Entry : m.table[c][d] = NULL
    BY <1>1, <1>4 DEF TableType, Zeroed
  <1>6. CASE m.table[c] # Zeroed
    <2>1. m2 = m
      <3>1. m.table[m.table[t][e]] # Zeroed
        BY <1>3, <1>6
      <3> QED BY <3>1 DEF Pruned
    <2>2. Filled(m.table, S, {t})
      BY <1>1, <1>4, <1>5, <1>6 DEF Filled
    <2>3. Proper(m, S, {t})
      BY <2>2 DEF Proper, Shape
    <2>4. SomeShape(m, S, m, {t})
      BY <2>3 DEF SomeShape, SameStock
    <2> QED BY <2>1, <2>4 DEF SameBut
  <1>7. CASE m.table[c] = Zeroed
    <2> HIDE DEF t, e, c
    <2>1. m2 = WithoutTable(m, t, e, c)
      <3>1. m.table[m.table[t][e]] = Zeroed
        BY <1>3, <1>7
      <3> QED BY <3>1, <1>3 DEF Pruned, WithoutTable, t, e
    <2>2. /\ m2 \in MemType
          /\ m2.free = m.free \cup {c}
          /\ Wrote(m.table, m2.table, t, e, NULL)
      BY <2>1, <1>1, <1>2, <1>4, WithoutFields
    <2>6. PICK S2 : S2 = [S EXCEPT ![l+1] = @ \ {c}]
      OBVIOUS
    <2>7. WithLevel(S, S2, l+1, S[l+1] \ {c})
      BY <2>6, <1>1, <1>4 DEF WithLevel, LevelType
    <2>8. Proper(m2, S2, {t})
      <3>1. Shape(m.table, m.free, S, {c})
        BY DEF Proper, c
      <3>2. \A d \in Entry : m.table[c][d] = NULL
        BY <1>5, <1>7
      <3>3. m.table[t][e] = c
        BY <1>3
      <3>4. Shape(m2.table, m.free \cup {c}, S2, {t})
        BY <3>1, <3>2, <3>3, <1>2, <1>4, <2>2, <2>7, RemoveTable
      <3> QED BY <3>4, <2>2 DEF Proper
    <2>9. \A u \in Page : \A k \in 0..4 :
              \/ Node(m2, u, k) = Node(m, u, k)
              \/ k = l+1 /\ Node(m, u, k) = c /\ Node(m2, u, k) = NULL
      <3>2. \A d \in Entry : m.table[c][d] = NULL
        BY <1>5, <1>7
      <3>3. m.table[t][e] = c
        BY <1>3
      <3> QED BY <3>2, <3>3, <1>1, <1>2, <1>4, <2>2, RemovedWalk
    <2>10. SameStock(m, S, m2, S2)
      <3>1. l+1 = 1 \/ l+1 = 2 \/ l+1 = 3
        OBVIOUS
      <3> QED BY <3>1, <2>2, <2>7, <1>4 DEF SameStock, WithLevel
    <2>11. SomeShape(m, S, m2, {t})
      BY <2>8, <2>10 DEF SomeShape
    <2> QED BY <2>9, <2>11 DEF t, SameBut
  <1> QED BY <1>6, <1>7

LEMMA SomeShapeAgain ==
    ASSUME NEW m, NEW S, NEW m1, NEW m2, NEW E, NEW S1,
           SameStock(m, S, m1, S1), SomeShape(m1, S1, m2, E)
    PROVE  SomeShape(m, S, m2, E)
  BY DEF SomeShape, SameStock

\* map_page maps the page, leaves the others as they were, and keeps the
\* tree; the tables it makes were free.
LEMMA MapPage ==
    ASSUME NEW m, NEW S, Proper(m, S, {}), NEW v \in Page, NEW p \in Nat,
           HasTables(m, v), NEW m4, m4 = map_page(m, v, p)
    PROVE  /\ SomeShape(m, S, m4, {})
           /\ OnlyMaps(m, m4, v, p)
  <1> DEFINE i == Index(v)
             m1 == WithTable(m, PML4, i[1])
             t1 == m1.table[PML4][i[1]]
             m2 == WithTable(m1, t1, i[2])
             t2 == m2.table[t1][i[2]]
             m3 == WithTable(m2, t2, i[3])
             t3 == m3.table[t2][i[3]]
  <1>0. m4 = WithLeaf(m3, t3, i[4], p)
    BY DEF map_page, WithLeaf
  <1>1. Enough(m, v, 0)
    BY DEF HasTables, Enough, Node
  <1>2. Node(m, v, 0) = PML4 /\ PML4 # NULL
    BY PageTableAssumption DEF Node
  <1> HIDE DEF m3, t3
  <1>3. /\ t1 # NULL /\ Node(m1, v, 1) = t1
        /\ SomeShape(m, S, m1, {t1})
        /\ SameBut(m, m1, 1)
        /\ Enough(m1, v, 1)
    <2> HIDE DEF m2, t2
    <2>1. m1 = WithTable(m, Node(m, v, 0), Index(v)[0+1])
      BY <1>2
    <2>2. 0 \in 0..2 /\ Node(m, v, 0) # NULL /\ {} \subseteq {Node(m, v, 0)}
      BY <1>2
    <2> HIDE DEF m1
    <2>3. /\ Node(m1, v, 0+1) # NULL
          /\ Node(m1, v, 0+1) = m1.table[Node(m, v, 0)][Index(v)[0+1]]
          /\ SomeShape(m, S, m1, {Node(m1, v, 0+1)})
          /\ SameBut(m, m1, 0+1)
          /\ Enough(m1, v, 0+1)
      BY <2>1, <2>2, <1>1, WithTableWalks
    <2> QED BY <2>3, <1>2
  <1>4. PICK S1 : Proper(m1, S1, {t1}) /\ SameStock(m, S, m1, S1)
    BY <1>3 DEF SomeShape
  <1>5. /\ t2 # NULL /\ Node(m2, v, 2) = t2
        /\ SomeShape(m1, S1, m2, {t2})
        /\ SameBut(m1, m2, 2)
        /\ Enough(m2, v, 2)
    <2>1. m2 = WithTable(m1, Node(m1, v, 1), Index(v)[1+1])
      BY <1>3
    <2>2. 1 \in 0..2 /\ Node(m1, v, 1) # NULL /\ {t1} \subseteq {Node(m1, v, 1)}
      BY <1>3
    <2> HIDE DEF m1, t1, m2
    <2>3. /\ Node(m2, v, 1+1) # NULL
          /\ Node(m2, v, 1+1) = m2.table[Node(m1, v, 1)][Index(v)[1+1]]
          /\ SomeShape(m1, S1, m2, {Node(m2, v, 1+1)})
          /\ SameBut(m1, m2, 1+1)
          /\ Enough(m2, v, 1+1)
      BY <2>1, <2>2, <1>3, <1>4, WithTableWalks
    <2> QED BY <2>3, <1>3
  <1>6. PICK S2 : Proper(m2, S2, {t2}) /\ SameStock(m1, S1, m2, S2)
    BY <1>5 DEF SomeShape
  <1>7. /\ t3 # NULL /\ Node(m3, v, 3) = t3
        /\ SomeShape(m2, S2, m3, {t3})
        /\ SameBut(m2, m3, 3)
    <2> HIDE DEF m1, t1, m2, t2
    <2>1. m3 = WithTable(m2, Node(m2, v, 2), Index(v)[2+1])
      BY <1>5 DEF m3
    <2>2. 2 \in 0..2 /\ Node(m2, v, 2) # NULL /\ {t2} \subseteq {Node(m2, v, 2)}
      BY <1>5
    <2>3. /\ Node(m3, v, 2+1) # NULL
          /\ Node(m3, v, 2+1) = m3.table[Node(m2, v, 2)][Index(v)[2+1]]
          /\ SomeShape(m2, S2, m3, {Node(m3, v, 2+1)})
          /\ SameBut(m2, m3, 2+1)
      BY <2>1, <2>2, <1>5, <1>6, WithTableWalks
    <2>4. t3 = m3.table[Node(m2, v, 2)][Index(v)[3]]
      BY <1>5 DEF t3
    <2> QED BY <2>3, <2>4
  <1>8. PICK S3 : Proper(m3, S3, {t3}) /\ SameStock(m2, S2, m3, S3)
    BY <1>7 DEF SomeShape
  <1> HIDE DEF m1, t1, m2, t2
  <1>9. /\ Proper(m4, S3, {})
        /\ m4.free = m3.free
        /\ OnlyMaps(m3, m4, v, p)
    <2>1. m4 = WithLeaf(m3, Node(m3, v, 3), Index(v)[4], p)
      BY <1>0, <1>7
    <2>2. /\ p # NULL /\ p \in Nat \cup {NULL}
          /\ {t3} \subseteq {Node(m3, v, 3)} /\ Node(m3, v, 3) # NULL
      BY <1>7, PageTableAssumption
    <2>3. Proper(m3, S3, {t3})
      BY <1>8
    <2> HIDE DEF i
    <2>4. /\ Proper(m4, S3, IF p = NULL THEN {Node(m3, v, 3)} ELSE {})
          /\ m4.free = m3.free
          /\ OnlyMaps(m3, m4, v, p)
      BY ONLY v \in Page, <2>1, <2>2, <2>3, LeafWritten
    <2> QED BY <2>2, <2>4
  <1>10. \A u \in Page : Translate(m3, u) = Translate(m, u)
    BY <1>3, <1>5, <1>7, TranslateNode DEF SameBut
  <1>11. SomeShape(m, S, m4, {})
    <2>1. SameStock(m, S, m4, S3)
      BY <1>4, <1>6, <1>8, <1>9 DEF SameStock
    <2> QED BY <2>1, <1>9 DEF SomeShape
  <1> QED BY <1>9, <1>10, <1>11 DEF OnlyMaps

\* unmap_page takes the page out, leaves the others as they were, and keeps
\* the tree; the tables it frees are free.
LEMMA UnmapPage ==
    ASSUME NEW m, NEW S, Proper(m, S, {}), NEW v \in Page,
           NEW m4, m4 = unmap_page(m, v)
    PROVE  /\ SomeShape(m, S, m4, {})
           /\ OnlyMaps(m, m4, v, NULL)
  <1> DEFINE i == Index(v)
             w == Walk(m, v)
             m1 == WithLeaf(m, w[3], i[4], NULL)
             m2 == Pruned(m1, w[2], i[3])
             m3 == Pruned(m2, w[1], i[2])
  <1>1. CASE w[4] = NULL
    <2>1. m4 = m
      BY <1>1 DEF unmap_page
    <2>2. SomeShape(m, S, m, {})
      BY DEF SomeShape, SameStock
    <2> QED BY <2>1, <2>2, <1>1 DEF Translate, OnlyMaps
  <1>2. CASE w[4] # NULL
    <2>0. m4 = Pruned(m3, PML4, i[1])
      BY <1>2 DEF unmap_page, WithLeaf
    <2>1. /\ Node(m, v, 0) = PML4 /\ Node(m, v, 1) = w[1] /\ Node(m, v, 2) = w[2]
          /\ Node(m, v, 3) = w[3] /\ Node(m, v, 4) = w[4]
      BY DEF Node
    <2>2. PML4 # NULL /\ w[1] # NULL /\ w[2] # NULL /\ w[3] # NULL
      <3>1. PML4 # NULL
        BY PageTableAssumption
      <3>2. Node(m, v, 3+1) = Step(m, Node(m, v, 3), Index(v)[3+1])
        BY NodeStep
      <3>3. Node(m, v, 2+1) = Step(m, Node(m, v, 2), Index(v)[2+1])
        BY NodeStep
      <3>4. Node(m, v, 1+1) = Step(m, Node(m, v, 1), Index(v)[1+1])
        BY NodeStep
      <3>5. w[3] # NULL
        BY <3>2, <2>1, <1>2 DEF Step
      <3>6. w[2] # NULL
        BY <3>3, <3>5, <2>1 DEF Step
      <3> QED BY <3>1, <3>4, <3>5, <3>6, <2>1 DEF Step
    <2> HIDE DEF w
    <2>3. /\ Proper(m1, S, {w[3]})
          /\ m1.free = m.free
          /\ SameTables(m, m1)
          /\ OnlyMaps(m, m1, v, NULL)
      <3>1. m1 = WithLeaf(m, Node(m, v, 3), Index(v)[4], NULL)
        BY <2>1
      <3>2. {} \subseteq {Node(m, v, 3)} /\ Node(m, v, 3) # NULL /\ NULL \in Nat \cup {NULL}
        BY <2>1, <2>2
      <3> DEFINE E == {}
                 p == NULL
      <3>3. /\ Proper(m, S, E) /\ E \subseteq {Node(m, v, 3)} /\ p \in Nat \cup {NULL}
            /\ m1 = WithLeaf(m, Node(m, v, 3), Index(v)[4], p)
        BY <3>1
      <3> HIDE DEF m1, m2, m3, i, E, p
      <3>4. /\ Proper(m1, S, IF p = NULL THEN {Node(m, v, 3)} ELSE {})
            /\ m1.free = m.free
            /\ SameTables(m, m1)
            /\ OnlyMaps(m, m1, v, p)
        BY <3>2, <3>3, LeafWritten
      <3> QED BY <3>4, <2>1 DEF p
    <2>4. /\ SomeShape(m1, S, m2, {w[2]})
          /\ SameBut(m1, m2, 3)
      <3>0. Node(m1, v, 2) = w[2] /\ Node(m1, v, 3) = w[3]
        BY <2>1, <2>3 DEF SameTables
      <3>1. m2 = Pruned(m1, Node(m1, v, 2), Index(v)[3])
        BY <3>0
      <3>2. 2 \in 0..2 /\ 3 = 2+1 /\ Node(m1, v, 2) # NULL /\ Node(m1, v, 3) # NULL
        BY <3>0, <2>2
      <3>3. Proper(m1, S, {Node(m1, v, 3)})
        BY <3>0, <2>3
      <3> HIDE DEF m1, m2, m3, i
      <3>4. /\ SomeShape(m1, S, m2, {Node(m1, v, 2)})
            /\ SameBut(m1, m2, 3)
        BY <3>1, <3>2, <3>3, PrunedWalks
      <3> QED BY <3>4, <3>0
    <2> HIDE DEF m1
    <2>5. PICK S2 : Proper(m2, S2, {w[2]}) /\ SameStock(m1, S, m2, S2)
      BY <2>4 DEF SomeShape
    <2>6. /\ SomeShape(m2, S2, m3, {w[1]})
          /\ SameBut(m2, m3, 2)
      <3>0. Node(m2, v, 1) = w[1] /\ Node(m2, v, 2) = w[2]
        BY <2>1, <2>3, <2>4 DEF SameBut, SameTables
      <3>1. m3 = Pruned(m2, Node(m2, v, 1), Index(v)[2])
        BY <3>0
      <3>2. 1 \in 0..2 /\ 2 = 1+1 /\ Node(m2, v, 1) # NULL /\ Node(m2, v, 2) # NULL
        BY <3>0, <2>2
      <3>3. Proper(m2, S2, {Node(m2, v, 2)})
        BY <3>0, <2>5
      <3> HIDE DEF m2, m3, i
      <3>4. /\ SomeShape(m2, S2, m3, {Node(m2, v, 1)})
            /\ SameBut(m2, m3, 2)
        BY <3>1, <3>2, <3>3, PrunedWalks
      <3> QED BY <3>4, <3>0
    <2> HIDE DEF m2
    <2>7. PICK S3 : Proper(m3, S3, {w[1]}) /\ SameStock(m2, S2, m3, S3)
      BY <2>6 DEF SomeShape
    <2>8. /\ SomeShape(m3, S3, m4, {PML4})
          /\ SameBut(m3, m4, 1)
      <3>0. Node(m3, v, 0) = PML4 /\ Node(m3, v, 1) = w[1]
        BY <2>1, <2>3, <2>4, <2>6 DEF SameBut, SameTables
      <3>1. m4 = Pruned(m3, Node(m3, v, 0), Index(v)[1])
        BY <3>0, <2>0
      <3>2. 0 \in 0..2 /\ 1 = 0+1 /\ Node(m3, v, 0) # NULL /\ Node(m3, v, 1) # NULL
        BY <3>0, <2>2
      <3>3. Proper(m3, S3, {Node(m3, v, 1)})
        BY <3>0, <2>7
      <3> HIDE DEF m3, i
      <3>4. /\ SomeShape(m3, S3, m4, {Node(m3, v, 0)})
            /\ SameBut(m3, m4, 1)
        BY <3>1, <3>2, <3>3, PrunedWalks
      <3> QED BY <3>4, <3>0
    <2> HIDE DEF m3, i
    <2>9. PICK S4 : Proper(m4, S4, {PML4}) /\ SameStock(m3, S3, m4, S4)
      BY <2>8 DEF SomeShape
    <2>10. Proper(m4, S4, {})
      <3>1. Filled(m4.table, S4, {PML4}) /\ Levels(S4)
        BY <2>9 DEF Proper, Shape
      <3>2. Filled(m4.table, S4, {})
        BY <3>1 DEF Filled, Levels
      <3> QED BY <2>9, <3>2 DEF Proper, Shape
    <2>11. SameStock(m, S, m4, S4)
      BY <2>3, <2>5, <2>7, <2>9 DEF SameStock
    <2>12. OnlyMaps(m, m4, v, NULL)
      <3>1. \A u \in Page : Translate(m4, u) = Translate(m1, u)
        BY <2>4, <2>6, <2>8, TranslateNode DEF SameBut
      <3> QED BY <3>1, <2>3 DEF OnlyMaps
    <2> QED BY <2>10, <2>11, <2>12 DEF SomeShape
  <1> QED BY <1>1, <1>2

-----------------------------------------------------------------------------
(* The sets of tables that PageTables defines.                             *)

LEMMA LevelBelow ==
    ASSUME NEW m, NEW S, Proper(m, S, {}), NEW l \in 0..2
    PROVE  TablesBelow(m, S[l]) = S[l+1]
  <1>1. /\ S \in LevelType /\ Below(m.table, S) /\ Hung(m.table, S)
    BY DEF Proper, Shape
  <1>2. ASSUME NEW x \in TablesBelow(m, S[l])
        PROVE  x \in S[l+1]
    BY <1>1, <1>2 DEF TablesBelow, Below
  <1>3. ASSUME NEW x \in S[l+1]
        PROVE  x \in TablesBelow(m, S[l])
    <2>1. PICK t \in S[l], e \in Entry : m.table[t][e] = x
      BY <1>1 DEF Hung
    <2>2. l+1 \in 0..3
      OBVIOUS
    <2>3. S[l+1] \subseteq Frame
      BY <1>1, <2>2 DEF LevelType
    <2>4. x # NULL
      BY <2>3, PageTableAssumption
    <2> QED BY <2>1, <2>4 DEF TablesBelow
  <1> QED BY <1>2, <1>3

LEMMA TablesOfTree ==
    ASSUME NEW m, NEW S, Proper(m, S, {})
    PROVE  /\ UpperTables(m) = S[0] \cup S[1] \cup S[2]
           /\ Tables(m) = S[1] \cup S[2] \cup S[3]
  <1>0. S[0] = {PML4}
    BY DEF Proper, Shape, Levels
  <1>1. /\ TablesBelow(m, S[0]) = S[1]
        /\ TablesBelow(m, S[1]) = S[2]
        /\ TablesBelow(m, S[2]) = S[3]
    <2>1. /\ TablesBelow(m, S[0]) = S[0+1]
          /\ TablesBelow(m, S[1]) = S[1+1]
          /\ TablesBelow(m, S[2]) = S[2+1]
      BY LevelBelow
    <2> QED BY <2>1
  <1>2. UpperTables(m) = S[0] \cup S[1] \cup S[2]
    BY <1>0, <1>1 DEF UpperTables
  <1>3. TablesBelow(m, S[0] \cup S[1] \cup S[2])
          = TablesBelow(m, S[0]) \cup TablesBelow(m, S[1]) \cup TablesBelow(m, S[2])
    BY DEF TablesBelow
  <1> QED BY <1>1, <1>2, <1>3 DEF Tables

LEMMA TreeIsProper ==
    ASSUME NEW m, NEW S, Proper(m, S, {})
    PROVE  ProperTables(m)
  <1> DEFINE U == UpperTables(m)
             T == Tables(m)
             H == {h \in U \X Entry : m.table[h[1]][h[2]] # NULL}
             f == [h \in H |-> m.table[h[1]][h[2]]]
  <1>0. /\ S \in LevelType /\ Below(m.table, S) /\ Hung(m.table, S) /\ Once(m.table, S)
        /\ Levels(S) /\ Taken(m.free, S) /\ Filled(m.table, S, {}) /\ m.table \in TableType
    BY DEF Proper, Shape
  <1>1. U = S[0] \cup S[1] \cup S[2] /\ T = S[1] \cup S[2] \cup S[3]
    BY TablesOfTree
  <1>2. IsFiniteSet(H)
    <2>1. IsFiniteSet(U)
      <3>1. U \in SUBSET Frame
        BY <1>0, <1>1 DEF LevelType
      <3> QED BY <3>1, FS_Subset, PageTableAssumption
    <2>2. IsFiniteSet(Entry)
      <3>1. 0 \in Int /\ Width-1 \in Int
        BY PageTableAssumption
      <3> QED BY <3>1, FS_Interval DEF Entry
    <2>3. IsFiniteSet(U \X Entry)
      BY <2>1, <2>2, FS_Product
    <2>4. H \in SUBSET (U \X Entry)
      OBVIOUS
    <2> HIDE DEF H
    <2> QED BY <2>3, <2>4, FS_Subset
  <1>3. \A t \in U : \E l \in 0..2 : t \in S[l]
    BY <1>1
  <1>4. ASSUME NEW t \in U, NEW e \in Entry, m.table[t][e] # NULL
        PROVE  m.table[t][e] \in T
    <2>1. PICK l \in 0..2 : t \in S[l]
      BY <1>3
    <2>2. m.table[t][e] \in S[l+1]
      BY <1>0, <1>4, <2>1 DEF Below
    <2>3. l+1 = 1 \/ l+1 = 2 \/ l+1 = 3
      OBVIOUS
    <2> QED BY <1>1, <2>2, <2>3
  <1>5. ASSUME NEW x \in T
        PROVE  \E t \in U : \E e \in Entry : m.table[t][e] = x /\ x # NULL
    <2>1. PICK l \in 0..2 : x \in S[l+1]
      <3>1. x \in S[0+1] \/ x \in S[1+1] \/ x \in S[2+1]
        BY <1>1
      <3> QED BY <3>1
    <2>2. PICK t \in S[l], e \in Entry : m.table[t][e] = x
      BY <1>0, <2>1 DEF Hung
    <2>3. l+1 \in 0..3
      OBVIOUS
    <2>4. S[l+1] \subseteq Frame
      BY <1>0, <2>3 DEF LevelType
    <2>5. x # NULL
      BY <2>1, <2>4, PageTableAssumption
    <2>6. t \in U
      BY <1>1, <2>2
    <2> QED BY <2>2, <2>5, <2>6
  <1>6. ASSUME NEW t \in U, NEW u \in U, NEW d \in Entry, NEW e \in Entry,
               m.table[t][d] = m.table[u][e], m.table[t][d] # NULL
        PROVE  t = u /\ d = e
    <2>1. PICK k \in 0..2 : t \in S[k]
      BY <1>3
    <2>2. PICK l \in 0..2 : u \in S[l]
      BY <1>3
    <2>3. m.table[t][d] \in S[k+1] /\ m.table[t][d] \in S[l+1]
      BY <1>0, <1>6, <2>1, <2>2 DEF Below
    <2>4. k+1 \in 0..3 /\ l+1 \in 0..3
      OBVIOUS
    <2>5. k+1 = l+1
      BY <1>0, <2>3, <2>4 DEF Levels
    <2>6. k = l
      BY <2>5
    <2>7. Once(m.table, S)
      BY <1>0
    <2> QED BY <1>6, <2>1, <2>2, <2>6, <2>7 DEF Once
  <1>7. f \in Bijection(H, T)
    <2> HIDE DEF U, T
    <2>1. f \in [H -> T]
      BY <1>4
    <2>2. \A g, h \in H : f[g] = f[h] => g = h
      <3> SUFFICES ASSUME NEW g \in H, NEW h \in H, f[g] = f[h]
                   PROVE  g = h
        OBVIOUS
      <3>1. /\ g = <<g[1], g[2]>> /\ g[1] \in U /\ g[2] \in Entry
            /\ h = <<h[1], h[2]>> /\ h[1] \in U /\ h[2] \in Entry
        OBVIOUS
      <3>2. m.table[g[1]][g[2]] = m.table[h[1]][h[2]] /\ m.table[g[1]][g[2]] # NULL
        OBVIOUS
      <3>3. g[1] = h[1] /\ g[2] = h[2]
        BY <3>1, <3>2, <1>6
      <3> QED BY <3>1, <3>3
    <2>3. \A x \in T : \E h \in H : f[h] = x
      <3> SUFFICES ASSUME NEW x \in T
                   PROVE  \E h \in H : f[h] = x
        OBVIOUS
      <3>1. PICK t \in U, e \in Entry : m.table[t][e] = x /\ x # NULL
        BY <1>5
      <3>2. <<t, e>> \in H /\ f[<<t, e>>] = x
        BY <3>1
      <3> HIDE DEF H, f
      <3> QED BY <3>2
    <2> HIDE DEF f, H
    <2> QED BY <2>1, <2>2, <2>3, Fun_IsBij
  <1>8. Cardinality(H) = Cardinality(T)
    <2> HIDE DEF H, T, f
    <2>1. ExistsBijection(H, T)
      BY <1>7 DEF ExistsBijection
    <2> QED BY <1>2, <2>1, FS_Bijection
  <1>9. m.free \cap (T \cup {PML4}) = {}
    BY <1>0, <1>1 DEF Taken, Levels
  <1>10. ASSUME NEW t \in T
         PROVE  m.table[t] # Zeroed
    <2>1. PICK l \in 1..3 : t \in S[l]
      BY <1>1
    <2>2. PICK e \in Entry : m.table[t][e] # NULL
      BY <1>0, <2>1 DEF Filled
    <2> QED BY <2>2 DEF Zeroed
  <1> QED BY <1>8, <1>9, <1>10 DEF ProperTables

-----------------------------------------------------------------------------
(* A tree of page tables, whatever its levels are.                         *)

IsTree(m) == \E S : Proper(m, S, {})
Stock(m) == m.free \cup Tables(m)

LEMMA TreeFacts ==
    ASSUME NEW m, IsTree(m)
    PROVE  /\ m \in MemType
           /\ m.free \subseteq Frame
           /\ ProperTables(m)
           /\ Tables(m) \subseteq Frame
           /\ m.free \cap (Tables(m) \cup {PML4}) = {}
           /\ PML4 \notin Tables(m)
  <1>1. PICK S : Proper(m, S, {})
    BY DEF IsTree
  <1>2. Tables(m) = S[1] \cup S[2] \cup S[3]
    BY <1>1, TablesOfTree
  <1>3. ProperTables(m)
    BY <1>1, TreeIsProper
  <1>4. m \in MemType /\ S \in LevelType /\ Levels(S) /\ Taken(m.free, S) /\ m.free \subseteq Frame
    BY <1>1 DEF Proper, Shape
  <1>5. Tables(m) \subseteq Frame
    BY <1>2, <1>4 DEF LevelType
  <1>6. PML4 \notin Tables(m)
    BY <1>2, <1>4 DEF Levels
  <1>7. m.free \cap (Tables(m) \cup {PML4}) = {}
    BY <1>2, <1>4 DEF Levels, Taken
  <1> QED BY <1>3, <1>4, <1>5, <1>6, <1>7

LEMMA ShapeOfTree ==
    ASSUME NEW m, NEW S, Proper(m, S, {}), NEW m2, SomeShape(m, S, m2, {})
    PROVE  IsTree(m2) /\ Stock(m2) = Stock(m)
  <1>1. PICK S2 : Proper(m2, S2, {}) /\ SameStock(m, S, m2, S2)
    BY DEF SomeShape
  <1>2. Tables(m) = S[1] \cup S[2] \cup S[3] /\ Tables(m2) = S2[1] \cup S2[2] \cup S2[3]
    BY <1>1, TablesOfTree
  <1> QED BY <1>1, <1>2 DEF IsTree, Stock, SameStock

LEMMA MapTree ==
    ASSUME NEW m, IsTree(m), NEW v \in Page, NEW p \in Nat, HasTables(m, v)
    PROVE  /\ IsTree(map_page(m, v, p))
           /\ Stock(map_page(m, v, p)) = Stock(m)
           /\ OnlyMaps(m, map_page(m, v, p), v, p)
  <1>1. PICK S : Proper(m, S, {})
    BY DEF IsTree
  <1> DEFINE m2 == map_page(m, v, p)
  <1>0. m2 = map_page(m, v, p)
    OBVIOUS
  <1> HIDE DEF m2
  <1>2. SomeShape(m, S, m2, {}) /\ \A u \in Page : Translate(m2, u) = IF u = v THEN p ELSE Translate(m, u)
    BY <1>0, <1>1, MapPage DEF OnlyMaps
  <1>3. IsTree(m2) /\ Stock(m2) = Stock(m)
    BY <1>1, <1>2, ShapeOfTree
  <1> QED BY <1>2, <1>3 DEF OnlyMaps, m2

LEMMA UnmapTree ==
    ASSUME NEW m, IsTree(m), NEW v \in Page
    PROVE  /\ IsTree(unmap_page(m, v))
           /\ Stock(unmap_page(m, v)) = Stock(m)
           /\ OnlyMaps(m, unmap_page(m, v), v, NULL)
  <1>1. PICK S : Proper(m, S, {})
    BY DEF IsTree
  <1> DEFINE m2 == unmap_page(m, v)
  <1>0. m2 = unmap_page(m, v)
    OBVIOUS
  <1> HIDE DEF m2
  <1>2. SomeShape(m, S, m2, {}) /\ \A u \in Page : Translate(m2, u) = IF u = v THEN NULL ELSE Translate(m, u)
    BY <1>0, <1>1, UnmapPage DEF OnlyMaps
  <1>3. IsTree(m2) /\ Stock(m2) = Stock(m)
    BY <1>1, <1>2, ShapeOfTree
  <1> QED BY <1>2, <1>3 DEF OnlyMaps, m2

WithFreePages(m, free) == [m EXCEPT !.free = free]

\* Pages are taken or given back: no table changes.
LEMMA FreeTree ==
    ASSUME NEW m, IsTree(m), NEW free \in SUBSET Frame, free \cap (Tables(m) \cup {PML4}) = {}
    PROVE  /\ IsTree(WithFreePages(m, free))
           /\ WithFreePages(m, free).table = m.table
           /\ WithFreePages(m, free).free = free
           /\ Tables(WithFreePages(m, free)) = Tables(m)
           /\ \A u \in Page : Translate(WithFreePages(m, free), u) = Translate(m, u)
  <1> DEFINE m2 == WithFreePages(m, free)
  <1>1. PICK S : Proper(m, S, {})
    BY DEF IsTree
  <1>2. m \in MemType
    BY <1>1 DEF Proper
  <1>3. m2.table = m.table /\ m2.free = free /\ m2 \in MemType
    BY <1>2 DEF WithFreePages, MemType
  <1> HIDE DEF m2
  <1>4. Tables(m2) = Tables(m)
    BY <1>3 DEF Tables, UpperTables, TablesBelow
  <1>5. \A u \in Page : Translate(m2, u) = Translate(m, u)
    BY <1>3 DEF Translate, Walk, Step
  <1>6. Tables(m) = S[1] \cup S[2] \cup S[3]
    BY <1>1, TablesOfTree
  <1>7. Shape(m.table, m.free, S, {})
    BY <1>1 DEF Proper
  <1>8. Taken(free, S)
    <2>1. S[0] = {PML4}
      BY <1>7 DEF Shape, Levels
    <2>2. \A l \in 0..3 : l = 0 \/ l = 1 \/ l = 2 \/ l = 3
      OBVIOUS
    <2> QED BY <2>1, <2>2, <1>6 DEF Taken
  <1>9. Shape(m2.table, m2.free, S, {})
    BY <1>3, <1>7, <1>8 DEF Shape
  <1>10. IsTree(m2)
    BY <1>3, <1>9 DEF IsTree, Proper
  <1> QED BY <1>3, <1>4, <1>5, <1>10 DEF m2

\* vmm_init begins with an empty root.
LEMMA EmptyTree ==
    ASSUME NEW free \in SUBSET Frame, PML4 \notin free,
           NEW m, m = [table |-> [f \in Frame |-> Zeroed], free |-> free]
    PROVE  /\ IsTree(m)
           /\ Tables(m) = {}
           /\ \A u \in Page : Translate(m, u) = NULL
  <1> DEFINE S == [l \in 0..3 |-> IF l = 0 THEN {PML4} ELSE {}]
  <1>1. m.table = [f \in Frame |-> Zeroed] /\ m.free = free
    OBVIOUS
  <1>2. m.table \in TableType /\ \A f \in Frame : \A e \in Entry : m.table[f][e] = NULL
    BY <1>1 DEF TableType, Zeroed
  <1>3. m \in MemType
    BY <1>1, <1>2 DEF MemType
  <1>4. S \in LevelType /\ Levels(S)
    BY PageTableAssumption DEF LevelType, Levels
  <1>5. S[0] = {PML4} /\ PML4 \in Frame /\ \A l \in 0..3 : l # 0 => S[l] = {}
    BY PageTableAssumption
  <1> HIDE DEF S
  <1>6. Below(m.table, S)
    BY <1>2, <1>5 DEF Below
  <1>7. Hung(m.table, S)
    BY <1>5 DEF Hung
  <1>8. Once(m.table, S)
    BY <1>2, <1>5 DEF Once
  <1>9. Taken(m.free, S)
    BY <1>1, <1>5 DEF Taken
  <1>10. Filled(m.table, S, {})
    BY <1>5 DEF Filled
  <1>11. Proper(m, S, {})
    BY <1>1, <1>2, <1>3, <1>4, <1>6, <1>7, <1>8, <1>9, <1>10 DEF Proper, Shape
  <1>12. Tables(m) = {}
    BY <1>5, <1>11, TablesOfTree
  <1>13. ASSUME NEW u \in Page
         PROVE  Translate(m, u) = NULL
    <2>1. Node(m, u, 3) # NULL => Node(m, u, 3) \in S[3]
      BY <1>2, <1>4, <1>6, NodeLevel
    <2>2. Node(m, u, 3) = NULL
      BY <2>1, <1>5
    <2>3. Node(m, u, 3+1) = Step(m, Node(m, u, 3), Index(u)[3+1])
      BY NodeStep
    <2> QED BY <2>2, <2>3, TranslateNode DEF Step
  <1> QED BY <1>11, <1>12, <1>13 DEF IsTree
=============================================================================

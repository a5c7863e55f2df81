------------------------------ MODULE PageTables -----------------------------
(***************************************************************************)
(* mm/vmm.c: four levels of page tables, built on demand from pmm_get and  *)
(* given back when they become empty.  An operator takes and returns the   *)
(* record                                                                  *)
(*                                                                         *)
(*     [table: frame -> entry number -> what the entry points at or NULL,  *)
(*      free:  the physical pages pmm_get may give out]                    *)
(*                                                                         *)
(* A virtual address is the number of its page, Width^4 of them; Width is  *)
(* 512.  Flags are left out: every entry the kernel writes is present or   *)
(* zero.  Addresses are translated as the tables are now; what a cpu may   *)
(* still have in its TLB matters to the aps only, and is in SmpBoot.       *)
(***************************************************************************)
EXTENDS Null, Naturals, FiniteSets, Sequences

CONSTANTS Frame,    \* physical pages, by number
          PML4,     \* kaddrspace.PML4
          Width     \* entries in a table

ASSUME PageTableAssumption ==
    /\ Frame \subseteq Nat
    /\ IsFiniteSet(Frame)
    /\ PML4 \in Frame
    /\ Width \in Nat \ {0}
    /\ NULL \notin Nat

Entry == 0..Width-1
Page == 0..Width*Width*Width*Width-1
Zeroed == [e \in Entry |-> NULL]

\* The entry a walk for v uses in the table of each level, root first.
Index(v) == <<(v \div (Width*Width*Width)) % Width, (v \div (Width*Width)) % Width,
              (v \div Width) % Width, v % Width>>

-----------------------------------------------------------------------------
\* Mutant: the highest run.
pmm_get_Highest(free, n) ==
    CHOOSE f \in free :
        /\ f..f+n-1 \subseteq free
        /\ \A g \in free : g..g+n-1 \subseteq free => f >= g

\* Where no n free pages follow each other pmm_get panics.
HasRun(free, n) == {f \in free : f..f+n-1 \subseteq free} # {}

\* The first page of the lowest run of n free ones.
pmm_get(free, n) ==
    CHOOSE f \in free :
        /\ f..f+n-1 \subseteq free
        /\ \A g \in free : g..g+n-1 \subseteq free => f <= g

\* A block of one page: kmalloc puts its header in the page before it.
kmalloc(free) == pmm_get(free, 2) + 1
Block(f) == {f-1, f}

\* Mutant: a table that is there already is replaced.
WithTable_Always(m, t, e) ==
    LET f == pmm_get(m.free, 1) IN
    [ table |-> [m.table EXCEPT ![f] = Zeroed, ![t][e] = f],
      free  |-> m.free \ {f} ]

\* Entry e of table t, with a new empty table where it was not present.
WithTable(m, t, e) ==
    LET f == pmm_get(m.free, 1) IN
    IF m.table[t][e] # NULL THEN m
    ELSE [ table |-> [m.table EXCEPT ![f] = Zeroed, ![t][e] = f],
           free  |-> m.free \ {f} ]

map_page(m, v, p) ==
    LET i    == Index(v)
        m1   == WithTable(m, PML4, i[1])
        pdpt == m1.table[PML4][i[1]]
        m2   == WithTable(m1, pdpt, i[2])
        pd   == m2.table[pdpt][i[2]]
        m3   == WithTable(m2, pd, i[3])
    IN  [m3 EXCEPT !.table[m3.table[pd][i[3]]][i[4]] = p]

\* The tables a walk for v meets, and then the page: NULL from the first
\* entry that is not present on.
Step(m, t, e) == IF t = NULL THEN NULL ELSE m.table[t][e]

Walk(m, v) ==
    LET i    == Index(v)
        pdpt == m.table[PML4][i[1]]
        pd   == Step(m, pdpt, i[2])
        pt   == Step(m, pd, i[3])
    IN  <<pdpt, pd, pt, Step(m, pt, i[4])>>

Translate(m, v) == Walk(m, v)[4]

\* There is a page for each table map_page needs: where the walk ends at a
\* level, one for that level and those below it.
HasTables(m, v) ==
    \A level \in 1..3 :
        Walk(m, v)[level] = NULL => Cardinality(m.free) >= 4 - level

\* The table that entry e of t points at is freed when it is empty.  (Where
\* it is kept, t is not empty either: the gotos to "done".)
Pruned(m, t, e) ==
    LET f == m.table[t][e] IN
    IF m.table[f] = Zeroed
    THEN [ table |-> [m.table EXCEPT ![t][e] = NULL],
           free  |-> m.free \cup {f} ]
    ELSE m

unmap_page(m, v) ==
    LET i  == Index(v)
        w  == Walk(m, v)
        m1 == Pruned([m EXCEPT !.table[w[3]][i[4]] = NULL], w[2], i[3])
        m2 == Pruned(m1, w[1], i[2])
    IN  IF w[4] = NULL THEN m ELSE Pruned(m2, PML4, i[1])

-----------------------------------------------------------------------------
(* What the tables stand for.                                              *)

Translation(m) == [v \in Page |-> Translate(m, v)]

TablesBelow(m, T) == {m.table[t][e] : t \in T, e \in Entry} \ {NULL}

\* The tables whose entries are tables.
UpperTables(m) == LET pdpt == TablesBelow(m, {PML4})
                  IN  {PML4} \cup pdpt \cup TablesBelow(m, pdpt)

\* All tables but the root.
Tables(m) == TablesBelow(m, UpperTables(m))

\* Every table hangs in one place; none is free, and none is empty.
ProperTables(m) ==
    /\ Cardinality({h \in UpperTables(m) \X Entry : m.table[h[1]][h[2]] # NULL})
          = Cardinality(Tables(m))
    /\ m.free \cap (Tables(m) \cup {PML4}) = {}
    /\ \A t \in Tables(m) : m.table[t] # Zeroed
=============================================================================

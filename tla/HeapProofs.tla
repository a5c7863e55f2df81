------------------------------ MODULE HeapProofs ------------------------------
(***************************************************************************)
(* Proofs about Heap for one process, for any memory map, bitmap and       *)
(* sizes: that is how the allocators are used until the other cpus are up, *)
(* and what they get wrong with more than one is a finding.                *)
(*                                                                         *)
(* There are three inductive invariants, each on top of the one before:    *)
(* the search of pmm_get (SearchInv), whose page is whose (ShareInv), and  *)
(* the accounts (AccountInv).                                              *)
(***************************************************************************)
EXTENDS Heap, FiniteSetTheorems, TLAPS

\* Only one process allocates and frees.
OneProc == \E p : Proc = {p}

\* The memset of pmm_init reaches the whole bitmap.
LastByteFull == phys_limit = PagesPerByte * (phys_limit \div PagesPerByte)

\* The page of the bitmap's last bit is no memory.
TopIsNoMemory == phys_limit - 1 \notin Usable \cup Pages(Reclaimable)

BlockType == [first: 0..phys_limit-1, pages: 1..MaxSize+1]

Getting == {"get", "panic"}
Marking == {"mark", "clear_bit", "take", "got"}
Freeing == {"free", "give_load", "give", "load_bit", "set_bit"}

TypeOK ==
    /\ bitmap \subseteq Page
    /\ free_mem \in Int
    /\ header \in [Page -> 0..MaxSize]
    /\ live \subseteq BlockType
    /\ reclaimed \in BOOLEAN
    /\ pc \in [Proc -> {"idle"} \cup Getting \cup Marking \cup Freeing]
    /\ cand \in [Proc -> Nat]
    /\ done \in [Proc -> Nat]
    /\ want \in [Proc -> Nat]
    /\ reg = [p \in Proc |-> reg[p]]
    /\ old \in [Proc -> BlockType \cup {Nothing}]

\* The run tried is free as far as it was looked at, and no lower one is.
GetInv(p) ==
    pc[p] \in Getting =>
        /\ cand[p] <= phys_limit
        /\ want[p] \in 1..MaxSize+1
        /\ done[p] <= want[p]
        /\ Run(cand[p], done[p]) \subseteq bitmap
        /\ \A i \in 0..cand[p]-1 : ~(Run(i, want[p]) \subseteq bitmap)
        /\ pc[p] = "panic" => cand[p] >= phys_limit

\* The run that was found begins below the end of memory and the one that is
\* freed has bits in the bitmap.
RangeInv(p) ==
    /\ pc[p] \in Marking => /\ cand[p] < phys_limit
                            /\ want[p] \in 1..MaxSize+1
    /\ pc[p] \in Freeing => Run(cand[p], want[p]) \subseteq Page
    /\ pc[p] \in Marking \cup Freeing => done[p] <= want[p]
    /\ pc[p] \in {"clear_bit"} \cup (Freeing \ {"free"}) => done[p] < want[p]
    /\ pc[p] \in {"take", "got"} => done[p] = want[p]
    /\ pc[p] \in {"clear_bit", "set_bit"} => reg[p] = bitmap \cap ByteOf(At(p))
    /\ pc[p] \in {"take", "give"} => reg[p] = free_mem

SearchInv == TypeOK /\ \A p \in Proc : GetInv(p) /\ RangeInv(p)

\* Blocks keep their size in their header, and none of their pages is free.
BlocksKept ==
    \A b \in Blocks : header[b.first] = b.pages - 1 /\ Pages(b) \cap bitmap = {}

\* No page of S is in a block.
Apart(S) == \A b \in Blocks : Pages(b) \cap S = {}

\* The run that was found or is freed is in no block.  Of one that was found,
\* the pages marked are not free and the others are.
HandInv(p) ==
    /\ pc[p] \in Marking \cup Freeing => Apart(Run(cand[p], want[p]))
    /\ pc[p] \in Marking => /\ Run(cand[p], done[p]) \cap bitmap = {}
                            /\ Run(At(p), want[p] - done[p]) \subseteq bitmap

OldInv(p) ==
    /\ pc[p] \in {"idle"} \cup Freeing => old[p] = Nothing
    /\ old[p] \notin live

\* Nobody has the bootloader's memory before it is reclaimed.
ReclaimInv(p) ==
    ~reclaimed =>
        /\ Pages(Reclaimable) \cap bitmap = {}
        /\ Apart(Pages(Reclaimable))
        /\ pc[p] \in Marking \cup Freeing =>
               Run(cand[p], want[p]) \cap Pages(Reclaimable) = {}

ShareInv ==
    /\ BlocksKept
    /\ NoSharing
    /\ \A p \in Proc : HandInv(p) /\ OldInv(p) /\ ReclaimInv(p)

\* The pages in no block that are not free.
Taken(p) == CASE pc[p] \in Marking -> Run(cand[p], done[p])
              [] pc[p] \in Freeing -> Run(At(p), want[p] - done[p])
              [] OTHER -> {}

\* The pages in no block that free_mem does not count.
Missing(p) == CASE pc[p] = "got" -> Run(cand[p], want[p])
                [] pc[p] \in {"free", "give_load", "give"} -> Run(At(p), want[p] - done[p])
                [] pc[p] \in {"load_bit", "set_bit"} -> Run(At(p) + 1, want[p] - done[p] - 1)
                [] OTHER -> {}

Accounts(p) ==
    /\ bitmap = (Memory \ (InUse \cup Taken(p))) \cup Garbage
    /\ free_mem = Cardinality(Memory \ (InUse \cup Missing(p)))
    /\ pc[p] \in Marking \cup Freeing => Run(cand[p], want[p]) \subseteq Memory

AccountInv == BlocksAreMemory /\ \A p \in Proc : Accounts(p)

-----------------------------------------------------------------------------
(* About the operators                                                     *)

LEMMA Numbers ==
    /\ phys_limit \in Nat \ {0}
    /\ MaxSize \in Nat
    /\ PagesPerByte \in Nat \ {0}
    /\ Page = 0..phys_limit+MaxSize
    /\ Nothing \notin BlockType
BY HeapAssumption DEF Page, BlockType

LEMMA RunIs ==
    ASSUME NEW i \in Int, NEW n \in Int
    PROVE  \A j : j \in Run(i, n) <=> j \in Int /\ i <= j /\ j < i + n
BY DEF Run

\* The pages of a block have bits in the bitmap.
LEMMA BlockPages ==
    ASSUME NEW b \in BlockType
    PROVE  /\ b.first \in Nat /\ b.pages \in Nat /\ b.first \in Page
           /\ b.first \in Pages(b)
           /\ Pages(b) = Run(b.first, b.pages) /\ Pages(b) \subseteq Page
BY Numbers DEF BlockType, Pages, Run

\* A read-modify-write of a byte changes one bit.
LEMMA ByteIs ==
    ASSUME NEW j \in Page, NEW B, B \subseteq Page
    PROVE  /\ (B \ ByteOf(j)) \cup ((B \cap ByteOf(j)) \ {j}) = B \ {j}
           /\ (B \ ByteOf(j)) \cup (B \cap ByteOf(j)) \cup {j} = B \cup {j}
<1>1. j \in ByteOf(j)
  BY DEF ByteOf
<1> QED BY <1>1

LEMMA AtInPage ==
    ASSUME SearchInv, NEW p \in Proc, pc[p] \in {"clear_bit"} \cup (Freeing \ {"free"})
    PROVE  At(p) \in Page /\ At(p) \in Run(cand[p], want[p])
<1>1. cand[p] \in Nat /\ done[p] \in Nat /\ want[p] \in Nat
  BY DEF SearchInv, TypeOK
<1>2. done[p] < want[p]
  BY DEF SearchInv, RangeInv
<1>3. At(p) \in Run(cand[p], want[p])
  BY <1>1, <1>2 DEF At, Run
<1>4. CASE pc[p] = "clear_bit"
  <2>1. cand[p] < phys_limit /\ want[p] \in 1..MaxSize+1
    BY <1>4 DEF SearchInv, RangeInv, Marking
  <2>2. At(p) \in 0..phys_limit+MaxSize
    BY <2>1, <1>1, <1>2, Numbers DEF At
  <2> QED BY <2>2, <1>3 DEF Page
<1>5. CASE pc[p] \in Freeing
  BY <1>3, <1>5 DEF SearchInv, RangeInv
<1> QED BY <1>3, <1>4, <1>5

\* What is stored is the bitmap with one bit changed.
LEMMA StoreIs ==
    ASSUME SearchInv, NEW p \in Proc, MarkStore(p) \/ FreeStore(p)
    PROVE  /\ At(p) \in Page /\ At(p) \in Run(cand[p], want[p])
           /\ MarkStore(p) => bitmap' = bitmap \ {At(p)}
           /\ FreeStore(p) => bitmap' = bitmap \cup {At(p)}
<1>1. pc[p] \in {"clear_bit", "set_bit"}
  BY DEF MarkStore, FreeStore, Goto
<1>2. At(p) \in Page /\ At(p) \in Run(cand[p], want[p])
  BY <1>1, AtInPage DEF Freeing
<1>3. reg[p] = bitmap \cap ByteOf(At(p)) /\ bitmap \subseteq Page
  BY <1>1 DEF SearchInv, RangeInv, TypeOK
<1> QED BY <1>2, <1>3, ByteIs DEF MarkStore, FreeStore, Cleared

-----------------------------------------------------------------------------
(* The search of pmm_get                                                   *)

LEMMA SearchInit == Init => SearchInv
<1> SUFFICES ASSUME Init PROVE SearchInv
  OBVIOUS
<1>1. bitmap \subseteq Page
  BY HeapAssumption DEF Init, Page
<1>2. free_mem \in Int
  <2>1. IsFiniteSet(0..phys_limit-1)
    BY Numbers, FS_Interval
  <2>2. IsFiniteSet(Usable \ Garbage) /\ IsFiniteSet(Bitmap)
    BY <2>1, FS_Subset, HeapAssumption
  <2>3. Cardinality(Usable \ Garbage) \in Nat /\ Cardinality(Bitmap) \in Nat
    BY <2>2, FS_CardinalityType
  <2> QED BY <2>3 DEF Init
<1>3. header \in [Page -> 0..MaxSize] /\ live \subseteq BlockType /\ reclaimed \in BOOLEAN
  <2>1. 0 \in 0..MaxSize
    BY Numbers
  <2> QED BY <2>1 DEF Init
<1>4. TypeOK
  BY <1>1, <1>2, <1>3 DEF Init, TypeOK
<1> QED BY <1>4 DEF Init, SearchInv, GetInv, RangeInv, Getting, Marking, Freeing

LEMMA SearchStep ==
    ASSUME OneProc, SearchInv, Next
    PROVE  SearchInv'
<1> PICK p : Proc = {p}
  BY DEF OneProc
<1>t. TypeOK
  BY DEF SearchInv
<1>n. cand[p] \in Nat /\ done[p] \in Nat /\ want[p] \in Nat /\ pc \in [Proc -> {"idle"} \cup Getting \cup Marking \cup Freeing]
  BY <1>t DEF TypeOK
<1>i. GetInv(p) /\ RangeInv(p)
  BY DEF SearchInv
<1> SUFFICES TypeOK' /\ GetInv(p)' /\ RangeInv(p)'
  BY DEF SearchInv
<1>1. CASE Check(p)
  <2>1. TypeOK'
    BY <1>1, <1>t, <1>n DEF Check, TypeOK, Goto, shared, NextCandidate
  <2>2. pc'[p] = "get" /\ pc[p] = "get" /\ want' = want /\ bitmap' = bitmap
    BY <1>1, <1>n DEF Check, Goto, shared
  <2>3. /\ cand[p] < phys_limit /\ done[p] < want[p] /\ want[p] \in 1..MaxSize+1
        /\ Run(cand[p], done[p]) \subseteq bitmap
        /\ \A i \in 0..cand[p]-1 : ~(Run(i, want[p]) \subseteq bitmap)
    BY <1>1, <1>i, <2>2 DEF Check, GetInv, Getting
  <2>4. CASE At(p) \in bitmap
    <3>1. cand' = cand /\ done'[p] = done[p] + 1
      BY <1>1, <1>t, <2>4 DEF Check, TypeOK
    <3>2. Run(cand[p], done[p] + 1) \subseteq bitmap
      BY <2>3, <2>4, <1>n, RunIs DEF At
    <3>5. GetInv(p)'
      BY <3>1, <3>2, <2>2, <2>3, <1>n, Numbers DEF GetInv
    <3>6. RangeInv(p)'
      BY <2>2 DEF RangeInv, Marking, Freeing
    <3> QED BY <2>1, <3>5, <3>6
  <2>5. CASE At(p) \notin bitmap
    <3>1. cand'[p] = cand[p] + 1 /\ done'[p] = 0
      BY <1>1, <1>t, <2>5 DEF Check, TypeOK, NextCandidate
    <3>2. ~(Run(cand[p], want[p]) \subseteq bitmap)
      BY <2>3, <2>5, <1>n, RunIs DEF At
    <3>3. \A i \in 0..cand'[p]-1 : ~(Run(i, want[p]) \subseteq bitmap)
      BY <3>1, <3>2, <2>3, <1>n
    <3>4. Run(cand'[p], 0) \subseteq bitmap
      BY <3>1, <1>n, RunIs
    <3>5. GetInv(p)'
      BY <3>1, <3>3, <3>4, <2>2, <2>3, <1>n, Numbers DEF GetInv
    <3>6. RangeInv(p)'
      BY <2>2 DEF RangeInv, Marking, Freeing
    <3> QED BY <2>1, <3>5, <3>6
  <2> QED BY <2>1, <2>4, <2>5
<1>2. CASE Found(p)
  <2>1. TypeOK'
    BY <1>2, <1>t, <1>n DEF Found, TypeOK, Goto, shared, Marking
  <2>2. pc'[p] = "mark" /\ pc[p] = "get" /\ want' = want /\ done'[p] = 0 /\ cand' = cand
    BY <1>2, <1>t, <1>n DEF Found, Goto, TypeOK
  <2>3. cand[p] < phys_limit /\ want[p] \in 1..MaxSize+1
    BY <1>2, <1>i, <2>2 DEF Found, GetInv, Getting
  <2> QED BY <2>1, <2>2, <2>3 DEF GetInv, RangeInv, Getting, Marking, Freeing
<1>3. CASE OutOfMemory(p)
  <2>1. TypeOK'
    BY <1>3, <1>t, <1>n DEF OutOfMemory, TypeOK, Goto, shared, Getting
  <2>2. pc'[p] = "panic" /\ pc[p] = "get" /\ UNCHANGED <<bitmap, want, done, cand>> /\ cand[p] >= phys_limit
    BY <1>3, <1>n DEF OutOfMemory, Goto, shared
  <2> QED BY <1>i, <2>1, <2>2 DEF GetInv, RangeInv, Getting, Marking, Freeing
<1>4. CASE MarkLoad(p)
  <2>1. TypeOK'
    BY <1>4, <1>t, <1>n DEF MarkLoad, TypeOK, Goto, shared, Marking
  <2>2. /\ pc'[p] = "clear_bit" /\ pc[p] = "mark" /\ UNCHANGED <<bitmap, want, done, cand>>
        /\ done[p] < want[p] /\ reg'[p] = bitmap \cap ByteOf(At(p)) /\ At(p)' = At(p)
    BY <1>4, <1>t, <1>n DEF MarkLoad, Goto, shared, TypeOK, At
  <2> QED BY <1>i, <2>1, <2>2 DEF GetInv, RangeInv, Getting, Marking, Freeing
<1>5. CASE MarkStore(p)
  <2>1. bitmap' = bitmap \ {At(p)}
    BY <1>5, StoreIs
  <2>2. TypeOK'
    <3>1. /\ pc' = [pc EXCEPT ![p] = "mark"] /\ done' = [done EXCEPT ![p] = @ + 1]
          /\ UNCHANGED <<free_mem, header, live, reclaimed, cand, want, reg, old>>
      BY <1>5 DEF MarkStore, Goto
    <3>2. done' \in [Proc -> Nat] /\ bitmap' \subseteq Page
      BY <3>1, <2>1, <1>n, <1>t DEF TypeOK
    <3> QED BY <1>t, <3>1, <3>2 DEF TypeOK, Marking
  <2>3. /\ pc'[p] = "mark" /\ pc[p] = "clear_bit" /\ UNCHANGED <<want, cand>>
        /\ done'[p] = done[p] + 1
    BY <1>5, <1>t, <1>n DEF MarkStore, Goto, TypeOK
  <2>4. done[p] < want[p]
    BY <1>i, <2>3 DEF RangeInv, Freeing
  <2>5. done'[p] <= want'[p]
    BY <2>3, <2>4, <1>n
  <2> QED BY <1>i, <2>2, <2>3, <2>5 DEF GetInv, RangeInv, Getting, Marking, Freeing
<1>6. CASE TakeLoad(p)
  <2>1. TypeOK'
    BY <1>6, <1>t, <1>n DEF TakeLoad, TypeOK, Goto, shared, Marking
  <2>2. /\ pc'[p] = "take" /\ pc[p] = "mark" /\ UNCHANGED <<free_mem, want, done, cand>>
        /\ done[p] = want[p] /\ reg'[p] = free_mem
    BY <1>6, <1>t, <1>n DEF TakeLoad, Goto, shared, TypeOK
  <2> QED BY <1>i, <2>1, <2>2 DEF GetInv, RangeInv, Getting, Marking, Freeing
<1>7. CASE TakeStore(p)
  <2>1. pc'[p] = "got" /\ pc[p] = "take" /\ UNCHANGED <<want, done, cand>>
    BY <1>7, <1>n DEF TakeStore, Goto
  <2>2. free_mem' \in Int
    BY <1>7, <1>t, <1>n, <1>i, <2>1 DEF TakeStore, RangeInv, TypeOK
  <2>3. TypeOK'
    BY <1>7, <1>t, <1>n, <2>2 DEF TakeStore, TypeOK, Goto, Marking
  <2> QED BY <1>i, <2>3, <2>1 DEF GetInv, RangeInv, Getting, Marking, Freeing
<1>8. CASE FreeTest(p)
  <2>1. TypeOK'
    BY <1>8, <1>t, <1>n DEF FreeTest, TypeOK, Goto, shared, Freeing
  <2>2. /\ pc'[p] \in {"load_bit", "give_load"} /\ pc[p] = "free" /\ UNCHANGED <<want, done, cand>>
        /\ done[p] < want[p]
    BY <1>8, <1>n DEF FreeTest, Goto
  <2> QED BY <1>i, <2>1, <2>2 DEF GetInv, RangeInv, Getting, Marking, Freeing
<1>9. CASE GiveLoad(p)
  <2>1. TypeOK'
    BY <1>9, <1>t, <1>n DEF GiveLoad, TypeOK, Goto, shared, Freeing
  <2>2. /\ pc'[p] = "give" /\ pc[p] = "give_load" /\ UNCHANGED <<free_mem, want, done, cand>>
        /\ reg'[p] = free_mem
    BY <1>9, <1>t, <1>n DEF GiveLoad, Goto, shared, TypeOK
  <2> QED BY <1>i, <2>1, <2>2 DEF GetInv, RangeInv, Getting, Marking, Freeing
<1>10. CASE GiveStore(p)
  <2>1. pc'[p] = "load_bit" /\ pc[p] = "give" /\ UNCHANGED <<want, done, cand>>
    BY <1>10, <1>n DEF GiveStore, Goto
  <2>2. free_mem' \in Int
    <3>1. reg[p] = free_mem /\ free_mem' = reg[p] + 1
      BY <1>10, <1>i, <2>1 DEF GiveStore, RangeInv
    <3> QED BY <1>t, <3>1 DEF TypeOK
  <2>3. TypeOK'
    BY <1>10, <1>t, <1>n, <2>2 DEF GiveStore, TypeOK, Goto, Freeing
  <2> QED BY <1>i, <2>3, <2>1 DEF GetInv, RangeInv, Getting, Marking, Freeing
<1>11. CASE FreeLoad(p)
  <2>1. TypeOK'
    BY <1>11, <1>t, <1>n DEF FreeLoad, TypeOK, Goto, shared, Freeing
  <2>2. /\ pc'[p] = "set_bit" /\ pc[p] = "load_bit" /\ UNCHANGED <<bitmap, want, done, cand>>
        /\ reg'[p] = bitmap \cap ByteOf(At(p)) /\ At(p)' = At(p)
    BY <1>11, <1>t, <1>n DEF FreeLoad, Goto, shared, TypeOK, At
  <2> QED BY <1>i, <2>1, <2>2 DEF GetInv, RangeInv, Getting, Marking, Freeing
<1>12. CASE FreeStore(p)
  <2>1. bitmap' = bitmap \cup {At(p)} /\ At(p) \in Page
    BY <1>12, StoreIs
  <2>2. TypeOK'
    <3>1. /\ pc' = [pc EXCEPT ![p] = "free"] /\ done' = [done EXCEPT ![p] = @ + 1]
          /\ UNCHANGED <<free_mem, header, live, reclaimed, cand, want, reg, old>>
      BY <1>12 DEF FreeStore, Goto
    <3>2. done' \in [Proc -> Nat] /\ bitmap' \subseteq Page
      BY <3>1, <2>1, <1>n, <1>t DEF TypeOK
    <3> QED BY <1>t, <3>1, <3>2 DEF TypeOK, Freeing
  <2>3. /\ pc'[p] = "free" /\ pc[p] = "set_bit" /\ UNCHANGED <<want, cand>>
        /\ done'[p] = done[p] + 1
    BY <1>12, <1>t, <1>n DEF FreeStore, Goto, TypeOK
  <2>4. done[p] < want[p]
    BY <1>i, <2>3 DEF RangeInv, Freeing
  <2>5. done'[p] <= want'[p]
    BY <2>3, <2>4, <1>n
  <2> QED BY <1>i, <2>2, <2>3, <2>5 DEF GetInv, RangeInv, Getting, Marking, Freeing
<1>13. CASE FreeDone(p)
  <2>1. TypeOK'
    BY <1>13, <1>t, <1>n DEF FreeDone, Leave, TypeOK, Goto, shared
  <2>2. pc'[p] = "idle"
    BY <1>13, <1>n DEF FreeDone, Goto
  <2> QED BY <2>1, <2>2 DEF GetInv, RangeInv, Getting, Marking, Freeing
<1>14. ASSUME NEW size \in Sizes,
              kmalloc(p, size) \/ \E b \in live : kmrealloc(p, b, size)
       PROVE  TypeOK' /\ GetInv(p)' /\ RangeInv(p)'
  <2>1. size \in Nat /\ size + 1 \in 1..MaxSize+1
    BY Numbers DEF Sizes
  <2>2. /\ pc' = [pc EXCEPT ![p] = "get"] /\ Start(p, 0, size + 1)
        /\ UNCHANGED <<bitmap, free_mem, header, reclaimed, reg>>
        /\ live' \subseteq BlockType
        /\ old' \in [Proc -> BlockType \cup {Nothing}]
    BY <1>14, <1>t DEF kmalloc, kmrealloc, shared, Goto, TypeOK
  <2>3. TypeOK'
    BY <2>1, <2>2, <1>t, <1>n DEF Start, TypeOK, Getting
  <2>4. pc'[p] = "get" /\ cand'[p] = 0 /\ done'[p] = 0 /\ want'[p] = size + 1
    BY <2>2, <1>t DEF Start, TypeOK
  <2> QED BY <2>1, <2>3, <2>4, Numbers, RunIs DEF GetInv, RangeInv, Getting, Marking, Freeing
<1>15. ASSUME NEW b \in live, kmfree(p, b)
       PROVE  TypeOK' /\ GetInv(p)' /\ RangeInv(p)'
  <2>1. b \in BlockType /\ header \in [Page -> 0..MaxSize]
    BY <1>t DEF TypeOK
  <2>2. b.first \in 0..phys_limit-1 /\ Freed(b) \in 1..MaxSize+1
    BY SMTT(30), <2>1, BlockPages, Numbers DEF Freed, BlockType
  <2>3. TypeOK'
    <3>1. b.first \in Nat /\ Freed(b) \in Nat
      BY <2>2, Numbers
    <3> QED BY <1>15, <3>1, <1>t, <1>n DEF kmfree, Start, Goto, TypeOK, Freeing
  <2>4. pc'[p] = "free" /\ cand'[p] = b.first /\ done'[p] = 0 /\ want'[p] = Freed(b)
    BY <1>15, <1>t DEF kmfree, Start, Goto, TypeOK
  <2>5. Run(b.first, Freed(b)) \subseteq Page
    BY <2>2, RunIs, Numbers
  <2> QED BY <2>2, <2>3, <2>4, <2>5 DEF GetInv, RangeInv, Getting, Marking, Freeing
<1>16. CASE Got(p)
  <2> DEFINE b == [first |-> cand[p], pages |-> want[p]]
  <2>1. pc[p] = "got" /\ cand[p] < phys_limit /\ want[p] \in 1..MaxSize+1
    BY <1>16, <1>i DEF Got, Goto, RangeInv, Marking
  <2>2. b \in BlockType /\ b.pages - 1 \in 0..MaxSize
    BY <2>1, <1>n, Numbers DEF BlockType
  <2>3. live' \subseteq BlockType /\ header' \in [Page -> 0..MaxSize]
    BY <1>16, <2>2, <1>t DEF Got, TypeOK
  <2>4. CASE old[p] = Nothing
    <3>1. pc' = [pc EXCEPT ![p] = "idle"] /\ Leave(p)
      BY <1>16, <2>4 DEF Got, Goto
    <3>2. TypeOK'
      BY <1>16, <1>t, <1>n, <2>3, <3>1 DEF Got, Leave, TypeOK
    <3> QED BY <1>n, <3>1, <3>2 DEF GetInv, RangeInv, Getting, Marking, Freeing
  <2>5. CASE old[p] # Nothing
    <3>1. pc' = [pc EXCEPT ![p] = "free"] /\ Start(p, old[p].first, Freed(old[p])) /\ reg' = reg
      BY <1>16, <2>5 DEF Got, Goto
    <3>2. old[p] \in BlockType /\ header \in [Page -> 0..MaxSize]
      BY <2>5, <1>t DEF TypeOK
    <3>3. old[p].first \in 0..phys_limit-1 /\ Freed(old[p]) \in 1..MaxSize+1
      BY <3>2, BlockPages, Numbers DEF Freed, BlockType
    <3>4. TypeOK'
      <4>1. old[p].first \in Nat /\ Freed(old[p]) \in Nat
        BY <3>3, Numbers
      <4>2. old' = [old EXCEPT ![p] = Nothing] /\ UNCHANGED <<bitmap, free_mem, reclaimed>>
        BY <1>16 DEF Got
      <4> QED BY <1>t, <1>n, <2>3, <3>1, <4>1, <4>2 DEF Start, TypeOK, Freeing
    <3>5. pc'[p] = "free" /\ cand'[p] = old[p].first /\ done'[p] = 0 /\ want'[p] = Freed(old[p])
      BY <3>1, <1>t DEF Start, TypeOK
    <3>6. Run(old[p].first, Freed(old[p])) \subseteq Page
      BY <3>3, RunIs, Numbers
    <3> QED BY <3>3, <3>4, <3>5, <3>6 DEF GetInv, RangeInv, Getting, Marking, Freeing
  <2> QED BY <2>4, <2>5
<1>17. CASE pmm_reclaim_bootloader_mem(p)
  <2>1. Reclaimable.first \in Nat /\ Reclaimable.pages \in Nat
    BY HeapAssumption
  <2>2. TypeOK'
    BY <1>17, <2>1, <1>t, <1>n DEF pmm_reclaim_bootloader_mem, Start, Goto, TypeOK, Freeing
  <2>3. /\ pc'[p] = "free" /\ cand'[p] = Reclaimable.first /\ done'[p] = 0
        /\ want'[p] = Reclaimable.pages
    BY <1>17, <1>t DEF pmm_reclaim_bootloader_mem, Start, Goto, TypeOK
  <2>4. Run(Reclaimable.first, Reclaimable.pages) \subseteq Page
    BY HeapAssumption DEF Pages, Page
  <2> QED BY <2>1, <2>2, <2>3, <2>4 DEF GetInv, RangeInv, Getting, Marking, Freeing
<1> QED BY <1>1, <1>2, <1>3, <1>4, <1>5, <1>6, <1>7, <1>8, <1>9, <1>10, <1>11, <1>12, <1>13,
           <1>14, <1>15, <1>16, <1>17 DEF Next, pmm_get, pmm_alloc, pmm_free

-----------------------------------------------------------------------------
(* Whose page is whose                                                     *)

LEMMA BlocksAre ==
    ASSUME NEW p, Proc = {p}
    PROVE  Blocks = live \cup ({old[p]} \ {Nothing})
BY DEF Blocks

LEMMA NoGarbageInMemory == LastByteFull => Garbage \cap (0..phys_limit-1) = {}
BY HeapAssumption DEF LastByteFull, Zeroed

LEMMA ShareInit == LastByteFull /\ Init => ShareInv
<1> SUFFICES ASSUME LastByteFull, Init PROVE ShareInv
  OBVIOUS
<1>1. Blocks = {}
  BY DEF Init, Blocks
<1>2. Pages(Reclaimable) \cap bitmap = {}
  BY HeapAssumption, NoGarbageInMemory DEF Init
<1> QED BY <1>1, <1>2 DEF Init, ShareInv, BlocksKept, NoSharing, HandInv, OldInv, ReclaimInv,
           Apart, Marking, Freeing

LEMMA ShareStep ==
    ASSUME OneProc, SearchInv, ShareInv, Next
    PROVE  ShareInv'
<1> PICK p : Proc = {p}
  BY DEF OneProc
<1>t. TypeOK
  BY DEF SearchInv
<1>b. Blocks \subseteq BlockType /\ live \subseteq Blocks /\ live \subseteq BlockType
  BY <1>t, BlocksAre DEF TypeOK
<1>o. Blocks = live \cup ({old[p]} \ {Nothing}) /\ Blocks' = live' \cup ({old'[p]} \ {Nothing})
  BY BlocksAre DEF Blocks
<1>n. cand[p] \in Nat /\ done[p] \in Nat /\ want[p] \in Nat
  BY <1>t DEF TypeOK
<1>f. pc \in [Proc -> {"idle"} \cup Getting \cup Marking \cup Freeing]
  BY <1>t DEF TypeOK
<1>r. GetInv(p) /\ RangeInv(p)
  BY DEF SearchInv
<1>i. BlocksKept /\ NoSharing /\ HandInv(p) /\ OldInv(p) /\ ReclaimInv(p)
  BY DEF ShareInv
<1> SUFFICES BlocksKept' /\ NoSharing' /\ HandInv(p)' /\ OldInv(p)' /\ ReclaimInv(p)'
  BY DEF ShareInv
\* Most steps leave the blocks and the bitmap as they are.
<1>u. ASSUME UNCHANGED <<bitmap, header, live, old>>
      PROVE  Blocks' = Blocks /\ BlocksKept' /\ NoSharing'
  BY <1>u, <1>o, <1>i DEF BlocksKept, NoSharing
<1>1. ASSUME UNCHANGED <<bitmap, header, live, reclaimed, old, cand, done, want>>,
             \/ pc[p] \in Getting /\ pc'[p] \in Getting
             \/ pc[p] \in Marking /\ pc'[p] \in Marking
             \/ pc[p] \in Freeing /\ pc'[p] \in Freeing
      PROVE  BlocksKept' /\ NoSharing' /\ HandInv(p)' /\ OldInv(p)' /\ ReclaimInv(p)'
  BY <1>1, <1>u, <1>i DEF HandInv, OldInv, ReclaimInv, Apart, At, Getting, Marking, Freeing
<1>2. CASE OutOfMemory(p)
  BY <1>2, <1>1, <1>f DEF OutOfMemory, Goto, shared, Getting
<1>3. CASE MarkLoad(p) \/ TakeLoad(p)
  BY <1>3, <1>1, <1>f DEF MarkLoad, TakeLoad, Goto, shared, Marking
<1>4. CASE TakeStore(p)
  BY <1>4, <1>1, <1>f DEF TakeStore, Goto, Marking
<1>5. CASE FreeTest(p)
  BY <1>5, <1>1, <1>f DEF FreeTest, Goto, shared, Freeing
<1>6. CASE GiveLoad(p) \/ FreeLoad(p)
  BY <1>6, <1>1, <1>f DEF GiveLoad, FreeLoad, Goto, shared, Freeing
<1>7. CASE GiveStore(p)
  BY <1>7, <1>1, <1>f DEF GiveStore, Goto, Freeing
<1>8. CASE Check(p)
  <2>1. /\ pc[p] = "get" /\ pc'[p] = "get"
        /\ UNCHANGED <<bitmap, header, live, reclaimed, old>>
    BY <1>8, <1>f DEF Check, Goto, shared
  <2> QED BY <2>1, <1>u, <1>i DEF HandInv, OldInv, ReclaimInv, Apart, Marking, Freeing
<1>9. CASE FreeDone(p)
  <2>1. /\ pc[p] = "free" /\ pc'[p] = "idle"
        /\ UNCHANGED <<bitmap, header, live, reclaimed, old>>
    BY <1>9, <1>f DEF FreeDone, Goto, shared
  <2> QED BY <2>1, <1>u, <1>i DEF HandInv, OldInv, ReclaimInv, Apart, Marking, Freeing
<1>10. CASE Found(p)
  <2>1. /\ pc[p] = "get" /\ pc'[p] = "mark" /\ done[p] = want[p] /\ done'[p] = 0
        /\ UNCHANGED <<bitmap, header, live, reclaimed, old, cand, want>>
    BY <1>10, <1>t, <1>f DEF Found, Goto, shared, TypeOK
  <2>2. Run(cand[p], want[p]) \subseteq bitmap
    BY <2>1, <1>r DEF GetInv, Getting
  <2>3. Apart(Run(cand[p], want[p]))
    BY <2>2, <1>i DEF BlocksKept, Apart
  <2>4. HandInv(p)'
    <3>1. Run(cand'[p], done'[p]) = {}
      BY <2>1, <1>n, RunIs
    <3>2. Run(cand'[p] + done'[p], want'[p] - done'[p]) \subseteq bitmap'
      BY <2>1, <2>2, <1>n
    <3> QED BY <2>1, <2>3, <3>1, <3>2, <1>u DEF HandInv, Apart, At, Marking, Freeing
  <2> QED BY <2>1, <2>2, <2>4, <1>u, <1>i DEF OldInv, ReclaimInv, Apart, Marking, Freeing
<1>11. CASE MarkStore(p)
  <2>1. bitmap' = bitmap \ {At(p)} /\ At(p) \in Run(cand[p], want[p])
    BY <1>11, StoreIs
  <2>2. /\ pc[p] = "clear_bit" /\ pc'[p] = "mark" /\ done'[p] = done[p] + 1
        /\ UNCHANGED <<header, live, reclaimed, old, cand, want>>
    BY <1>11, <1>t, <1>f DEF MarkStore, Goto, TypeOK
  <2>3. Blocks' = Blocks /\ BlocksKept' /\ NoSharing'
    BY <2>1, <2>2, <1>o, <1>i DEF BlocksKept, NoSharing
  <2>4. /\ Apart(Run(cand[p], want[p])) /\ Run(cand[p], done[p]) \cap bitmap = {}
        /\ Run(cand[p] + done[p], want[p] - done[p]) \subseteq bitmap
    BY <2>2, <1>i DEF HandInv, Marking, At
  <2>5. Run(cand[p], done[p] + 1) \cap bitmap' = {}
    BY <2>1, <2>4, <1>n DEF At, Run
  <2>6. Run(cand[p] + (done[p] + 1), want[p] - (done[p] + 1)) \subseteq bitmap'
    BY SMTT(30), <2>1, <2>4, <1>n DEF At, Run
  <2>7. HandInv(p)'
    BY <2>2, <2>3, <2>4, <2>5, <2>6 DEF HandInv, Apart, At, Marking, Freeing
  <2> QED BY <2>1, <2>2, <2>3, <2>7, <1>i DEF OldInv, ReclaimInv, Apart, Marking, Freeing
<1>12. CASE FreeStore(p)
  <2>1. bitmap' = bitmap \cup {At(p)} /\ At(p) \in Run(cand[p], want[p])
    BY <1>12, StoreIs
  <2>2. /\ pc[p] = "set_bit" /\ pc'[p] = "free"
        /\ UNCHANGED <<header, live, reclaimed, old, cand, want>>
    BY <1>12, <1>f DEF FreeStore, Goto
  <2>3. Apart(Run(cand[p], want[p]))
    BY <2>2, <1>i DEF HandInv, Marking, Freeing
  <2>4. Blocks' = Blocks /\ BlocksKept' /\ NoSharing'
    BY <2>1, <2>2, <2>3, <1>o, <1>i DEF BlocksKept, NoSharing, Apart
  <2>5. ~reclaimed => Run(cand[p], want[p]) \cap Pages(Reclaimable) = {}
    BY <2>2, <1>i DEF ReclaimInv, Marking, Freeing
  <2> QED BY <2>1, <2>2, <2>3, <2>4, <2>5, <1>i
       DEF HandInv, OldInv, ReclaimInv, Apart, Marking, Freeing
<1>13. ASSUME NEW size \in Sizes, kmalloc(p, size)
       PROVE  BlocksKept' /\ NoSharing' /\ HandInv(p)' /\ OldInv(p)' /\ ReclaimInv(p)'
  <2>1. /\ pc[p] = "idle" /\ pc'[p] = "get" /\ UNCHANGED <<bitmap, header, live, reclaimed>>
        /\ old'[p] = Nothing /\ old' \in [Proc -> BlockType \cup {Nothing}]
    BY <1>13, <1>t, <1>f DEF kmalloc, Goto, shared, TypeOK
  <2>2. old[p] = Nothing /\ old[p] \notin live
    BY <2>1, <1>i DEF OldInv
  <2>3. Blocks' = Blocks /\ BlocksKept' /\ NoSharing'
    BY <2>1, <2>2, <1>o, <1>i DEF BlocksKept, NoSharing
  <2> QED BY <2>1, <2>2, <2>3, <1>i DEF HandInv, OldInv, ReclaimInv, Apart, Marking, Freeing
<1>14. ASSUME NEW b \in live, NEW size \in Sizes, kmrealloc(p, b, size)
       PROVE  BlocksKept' /\ NoSharing' /\ HandInv(p)' /\ OldInv(p)' /\ ReclaimInv(p)'
  <2>1. /\ pc[p] = "idle" /\ pc'[p] = "get" /\ UNCHANGED <<bitmap, header, reclaimed>>
        /\ live' = live \ {b} /\ old'[p] = b
    BY <1>14, <1>t, <1>f DEF kmrealloc, Goto, TypeOK
  <2>2. old[p] = Nothing /\ b # Nothing
    BY <2>1, <1>i, <1>b, Numbers DEF OldInv
  <2>3. Blocks' = Blocks
    BY <2>1, <2>2, <1>o
  <2>4. BlocksKept' /\ NoSharing'
    BY <2>1, <2>3, <1>i DEF BlocksKept, NoSharing
  <2> QED BY <2>1, <2>3, <2>4, <1>i DEF HandInv, OldInv, ReclaimInv, Apart, Marking, Freeing
<1>15. ASSUME NEW b \in live, kmfree(p, b)
       PROVE  BlocksKept' /\ NoSharing' /\ HandInv(p)' /\ OldInv(p)' /\ ReclaimInv(p)'
  <2>1. /\ pc[p] = "idle" /\ pc'[p] = "free" /\ UNCHANGED <<bitmap, header, reclaimed, old>>
        /\ live' = live \ {b} /\ cand'[p] = b.first /\ want'[p] = Freed(b)
    BY <1>15, <1>t, <1>f DEF kmfree, Start, Goto, TypeOK
  <2>2. old[p] = Nothing /\ Blocks = live /\ Blocks' = live \ {b}
    BY <2>1, <1>o, <1>i DEF OldInv
  <2>3. BlocksKept' /\ NoSharing'
    BY <2>1, <2>2, <1>i DEF BlocksKept, NoSharing
  <2>4. Freed(b) = b.pages
    BY <2>2, <1>i, <1>b, BlockPages DEF BlocksKept, Freed
  <2>5. Run(cand'[p], want'[p]) = Pages(b)
    BY <2>1, <2>4 DEF Pages
  <2>6. \A a \in Blocks' : Pages(a) \cap Run(cand'[p], want'[p]) = {}
    BY <2>2, <2>5, <1>i DEF NoSharing
  <2>7. HandInv(p)'
    BY <2>1, <2>6 DEF HandInv, Apart, Marking, Freeing
  <2>8. OldInv(p)'
    BY <2>1, <2>2, <1>i DEF OldInv
  <2>9. ReclaimInv(p)'
    BY <2>1, <2>2, <2>5, <1>i DEF ReclaimInv, Apart
  <2> QED BY <2>3, <2>7, <2>8, <2>9
<1>16. CASE Got(p)
  <2> DEFINE b == [first |-> cand[p], pages |-> want[p]]
  <2>1. /\ pc[p] = "got" /\ UNCHANGED <<bitmap, reclaimed>> /\ old'[p] = Nothing
        /\ live' = live \cup {b} /\ header' = [header EXCEPT ![b.first] = b.pages - 1]
    BY <1>16, <1>t DEF Got, Goto, TypeOK
  <2>2. cand[p] < phys_limit /\ want[p] \in 1..MaxSize+1 /\ done[p] = want[p]
    BY <2>1, <1>r DEF RangeInv, Marking
  <2>3. b \in BlockType /\ Pages(b) = Run(cand[p], want[p])
    BY <2>2, <1>n, Numbers DEF BlockType, Pages
  <2>4. Apart(Pages(b)) /\ Pages(b) \cap bitmap = {}
    BY <2>1, <2>2, <2>3, <1>i DEF HandInv, Marking
  <2>5. Blocks' = live \cup {b} /\ live \subseteq Blocks
    BY <2>1, <1>o
  <2>6. \A a \in Blocks : a.first # b.first /\ a # b
    BY <2>3, <2>4, <1>b, BlockPages DEF Apart
  <2>7. BlocksKept'
    <3>1. header'[b.first] = b.pages - 1
      BY <2>1, <2>3, <1>t, BlockPages DEF TypeOK
    <3>2. \A a \in live : header'[a.first] = header[a.first]
      BY <2>1, <2>5, <2>6, <1>t, <1>b, BlockPages DEF TypeOK
    <3> QED BY <2>1, <2>4, <2>5, <3>1, <3>2, <1>i DEF BlocksKept
  <2>8. NoSharing'
    BY <2>4, <2>5, <1>i DEF NoSharing, Apart
  <2>9. OldInv(p)'
    <3>1. live' \subseteq BlockType
      BY <2>1, <2>3, <1>b
    <3> QED BY <2>1, <3>1, Numbers DEF OldInv
  <2>10. ~reclaimed => /\ Pages(Reclaimable) \cap bitmap' = {}
                       /\ \A a \in Blocks' : Pages(a) \cap Pages(Reclaimable) = {}
    BY <2>1, <2>3, <2>5, <1>i DEF ReclaimInv, Apart, Marking
  <2>11. CASE old[p] = Nothing
    <3>1. pc'[p] = "idle"
      BY <1>16, <2>11, <1>f DEF Got, Goto
    <3> QED BY <2>1, <2>7, <2>8, <2>9, <2>10, <3>1
         DEF HandInv, ReclaimInv, Apart, Marking, Freeing
  <2>12. CASE old[p] # Nothing
    <3>1. pc'[p] = "free" /\ cand'[p] = old[p].first /\ want'[p] = Freed(old[p])
      BY <1>16, <2>12, <1>t, <1>f DEF Got, Goto, Start, TypeOK
    <3>2. old[p] \in Blocks /\ old[p] \notin live /\ old[p] \in BlockType
      BY <2>12, <1>o, <1>b, <1>i DEF OldInv
    <3>3. Freed(old[p]) = old[p].pages
      BY <3>2, <1>i, BlockPages DEF BlocksKept, Freed
    <3>4. Run(cand'[p], want'[p]) = Pages(old[p])
      BY <3>1, <3>3 DEF Pages
    <3>5. \A a \in Blocks' : Pages(a) \cap Pages(old[p]) = {}
      BY <2>4, <2>5, <3>2, <1>i DEF NoSharing, Apart
    <3>6. ~reclaimed => Pages(old[p]) \cap Pages(Reclaimable) = {}
      BY <3>2, <1>i DEF ReclaimInv, Apart
    <3> QED BY <2>1, <2>7, <2>8, <2>9, <2>10, <3>1, <3>4, <3>5, <3>6
         DEF HandInv, ReclaimInv, Apart, Marking, Freeing
  <2> QED BY <2>11, <2>12
<1>17. CASE pmm_reclaim_bootloader_mem(p)
  <2>1. /\ ~reclaimed /\ reclaimed' /\ UNCHANGED <<bitmap, header, live, old>>
        /\ pc[p] = "idle" /\ pc'[p] = "free" /\ cand'[p] = Reclaimable.first
        /\ want'[p] = Reclaimable.pages
    BY <1>17, <1>t, <1>f DEF pmm_reclaim_bootloader_mem, Start, Goto, TypeOK
  <2>2. Run(cand'[p], want'[p]) = Pages(Reclaimable) /\ Apart(Pages(Reclaimable))
    BY <2>1, <1>i DEF Pages, ReclaimInv
  <2>3. HandInv(p)'
    BY <2>1, <2>2, <1>u DEF HandInv, Apart, Marking, Freeing
  <2> QED BY <2>1, <2>3, <1>u, <1>i DEF OldInv, ReclaimInv
<1> QED BY <1>2, <1>3, <1>4, <1>5, <1>6, <1>7, <1>8, <1>9, <1>10, <1>11, <1>12, <1>13,
           <1>14, <1>15, <1>16, <1>17 DEF Next, pmm_get, pmm_alloc, pmm_free

-----------------------------------------------------------------------------
(* The accounts                                                            *)

LEMMA InUseIs == \A j : j \in InUse <=> \E b \in Blocks : j \in Pages(b)
BY DEF InUse

\* Where memory lies, and that none of it is Garbage.
LEMMA MemoryIs ==
    ASSUME LastByteFull, TopIsNoMemory
    PROVE  /\ Memory \subseteq 0..phys_limit-2
           /\ Memory \cap Garbage = {}
           /\ IsFiniteSet(Memory)
<1>1. Usable \cup Pages(Reclaimable) \subseteq 0..phys_limit-1
  BY HeapAssumption
<1>2. Usable \cup Pages(Reclaimable) \subseteq 0..phys_limit-2
  BY <1>1, Numbers DEF TopIsNoMemory
<1>3. Memory \subseteq Usable \cup Pages(Reclaimable)
  BY DEF Memory
<1>4. IsFiniteSet(0..phys_limit-2)
  BY FS_Interval, Numbers
<1>5. IsFiniteSet(Memory)
  BY <1>2, <1>3, <1>4, FS_Subset
<1> QED BY <1>1, <1>2, <1>3, <1>5, NoGarbageInMemory

LEMMA AccountInit == LastByteFull /\ Init => AccountInv
<1> SUFFICES ASSUME LastByteFull, Init PROVE AccountInv
  OBVIOUS
<1>1. Blocks = {} /\ InUse = {}
  BY DEF Init, Blocks, InUse
<1>2. Memory = Usable \ Bitmap /\ Usable \cap Garbage = {} /\ Bitmap \subseteq Usable
  BY HeapAssumption, NoGarbageInMemory DEF Init, Memory
<1>3. free_mem = Cardinality(Memory)
  <2>1. IsFiniteSet(0..phys_limit-1)
    BY Numbers, FS_Interval
  <2>2. IsFiniteSet(Usable)
    BY <2>1, FS_Subset, HeapAssumption
  <2>3. Cardinality(Usable \ Bitmap) = Cardinality(Usable) - Cardinality(Usable \cap Bitmap)
    BY <2>2, FS_Difference
  <2>4. Usable \cap Bitmap = Bitmap /\ Usable \ Garbage = Usable
    BY <1>2
  <2> QED BY <1>2, <2>3, <2>4 DEF Init
<1>4. ASSUME NEW p \in Proc PROVE Taken(p) = {} /\ Missing(p) = {}
  BY DEF Init, Taken, Missing, Marking, Freeing
<1>5. BlocksAreMemory
  BY <1>1 DEF BlocksAreMemory
<1>6. bitmap = Memory \cup Garbage
  BY <1>2 DEF Init
<1>7. ASSUME NEW p \in Proc PROVE Accounts(p)
  BY <1>1, <1>3, <1>4, <1>6 DEF Init, Accounts, Marking, Freeing
<1> QED BY <1>5, <1>7 DEF AccountInv

\* A run of free pages below the end of memory is memory.
LEMMA FoundIsMemory ==
    ASSUME LastByteFull, TopIsNoMemory, NEW p \in Proc, SearchInv, AccountInv,
           NEW i \in Nat, NEW n \in Nat, i < phys_limit, Run(i, n) \subseteq bitmap
    PROVE  Run(i, n) \subseteq Memory
<1>1. bitmap \subseteq Memory \cup Garbage
  BY DEF AccountInv, Accounts
<1>2. Memory \subseteq 0..phys_limit-2 /\ Garbage \cap (0..phys_limit-1) = {}
  BY MemoryIs, NoGarbageInMemory
<1>3. phys_limit - 1 \notin Run(i, n)
  BY <1>1, <1>2, Numbers
<1>4. Run(i, n) \subseteq 0..phys_limit-1
  BY <1>3, Numbers, RunIs
<1> QED BY <1>1, <1>2, <1>4

LEMMA AccountStep ==
    ASSUME OneProc, LastByteFull, TopIsNoMemory,
           SearchInv, ShareInv, AccountInv, Next
    PROVE  AccountInv'
<1> PICK p : Proc = {p}
  BY DEF OneProc
<1>t. TypeOK
  BY DEF SearchInv
<1>o. Blocks = live \cup ({old[p]} \ {Nothing}) /\ Blocks' = live' \cup ({old'[p]} \ {Nothing})
  BY BlocksAre DEF Blocks
<1>b. Blocks \subseteq BlockType /\ live \subseteq BlockType
  BY <1>t, <1>o DEF TypeOK
<1>n. cand[p] \in Nat /\ done[p] \in Nat /\ want[p] \in Nat
  BY <1>t DEF TypeOK
<1>f. pc \in [Proc -> {"idle"} \cup Getting \cup Marking \cup Freeing]
  BY <1>t DEF TypeOK
<1>r. GetInv(p) /\ RangeInv(p)
  BY DEF SearchInv
<1>i. BlocksKept /\ NoSharing /\ HandInv(p) /\ OldInv(p) /\ ReclaimInv(p)
  BY DEF ShareInv
<1>a. InUse \subseteq Memory /\ Accounts(p)
  BY DEF AccountInv, BlocksAreMemory
<1>m. Memory \cap Garbage = {} /\ IsFiniteSet(Memory)
  BY MemoryIs
<1>v. \A j : j \in InUse' <=> \E b \in Blocks' : j \in Pages(b)
  BY DEF InUse
<1> SUFFICES InUse' \subseteq Memory' /\ Accounts(p)'
  BY DEF AccountInv, BlocksAreMemory
\* Most steps move pages between the blocks and the hands of p at most.
<1>u. ASSUME UNCHANGED <<bitmap, free_mem>>, InUse' \subseteq Memory',
             Memory' \ (InUse' \cup Taken(p)') = Memory \ (InUse \cup Taken(p)),
             Memory' \ (InUse' \cup Missing(p)') = Memory \ (InUse \cup Missing(p)),
             pc'[p] \in Marking \cup Freeing => Run(cand'[p], want'[p]) \subseteq Memory'
      PROVE  InUse' \subseteq Memory' /\ Accounts(p)'
  BY <1>u, <1>a DEF Accounts
<1>w. ASSUME UNCHANGED <<bitmap, free_mem, live, reclaimed, old>>,
             Taken(p)' = Taken(p), Missing(p)' = Missing(p),
             pc'[p] \in Marking \cup Freeing => Run(cand'[p], want'[p]) \subseteq Memory
      PROVE  InUse' \subseteq Memory' /\ Accounts(p)'
  <2>1. Blocks' = Blocks /\ InUse' = InUse /\ Memory' = Memory
    BY <1>w, <1>o DEF InUse, Memory
  <2> QED BY <2>1, <1>w, <1>a, <1>u
<1>1. CASE Check(p) \/ OutOfMemory(p)
  <2>1. pc[p] \in Getting /\ pc'[p] \in Getting /\ UNCHANGED <<bitmap, free_mem, live, reclaimed, old>>
    BY <1>1, <1>f DEF Check, OutOfMemory, Goto, shared, Getting
  <2>2. Taken(p) = {} /\ Missing(p) = {} /\ Taken(p)' = {} /\ Missing(p)' = {}
    BY <2>1 DEF Taken, Missing, Getting, Marking, Freeing
  <2> QED BY <2>1, <2>2, <1>w DEF Getting, Marking, Freeing
<1>2. CASE Found(p)
  <2>1. /\ pc[p] = "get" /\ pc'[p] = "mark" /\ done[p] = want[p] /\ done'[p] = 0
        /\ cand[p] < phys_limit
        /\ UNCHANGED <<bitmap, free_mem, live, reclaimed, old, cand, want>>
    BY <1>2, <1>t, <1>f DEF Found, Goto, shared, TypeOK
  <2>2. Run(cand[p], want[p]) \subseteq bitmap
    BY <2>1, <1>r DEF GetInv, Getting
  <2>3. Run(cand[p], want[p]) \subseteq Memory
    BY <2>1, <2>2, <1>n, FoundIsMemory
  <2>4. Taken(p) = {} /\ Missing(p) = {} /\ Missing(p)' = {} /\ Taken(p)' = Run(cand'[p], done'[p])
    BY <2>1 DEF Taken, Missing, Marking, Freeing
  <2>5. Run(cand'[p], done'[p]) = {}
    BY <2>1, <1>n, RunIs
  <2> QED BY <2>1, <2>3, <2>4, <2>5, <1>w
<1>3. CASE MarkLoad(p) \/ TakeLoad(p)
  <2>1. /\ pc[p] \in {"mark"} /\ pc'[p] \in {"clear_bit", "take"}
        /\ UNCHANGED <<bitmap, free_mem, live, reclaimed, old, cand, done, want>>
    BY <1>3, <1>f DEF MarkLoad, TakeLoad, Goto, shared
  <2>2. Taken(p)' = Taken(p) /\ Missing(p)' = Missing(p)
    BY <2>1 DEF Taken, Missing, Marking, Freeing
  <2> QED BY <2>1, <2>2, <1>w, <1>a DEF Accounts, Marking
<1>4. CASE GiveLoad(p) \/ FreeLoad(p)
  <2>1. /\ \/ pc[p] = "give_load" /\ pc'[p] = "give"
           \/ pc[p] = "load_bit" /\ pc'[p] = "set_bit"
        /\ UNCHANGED <<bitmap, free_mem, live, reclaimed, old, cand, done, want>>
    BY <1>4, <1>f DEF GiveLoad, FreeLoad, Goto, shared
  <2>2. Taken(p)' = Taken(p) /\ Missing(p)' = Missing(p)
    BY <2>1 DEF Taken, Missing, At, Marking, Freeing
  <2> QED BY <2>1, <2>2, <1>w, <1>a DEF Accounts, Freeing
<1>5. CASE FreeTest(p)
  <2>1. /\ pc[p] = "free" /\ done[p] < want[p]
        /\ pc'[p] = IF At(p) \in bitmap THEN "load_bit" ELSE "give_load"
        /\ UNCHANGED <<bitmap, free_mem, live, reclaimed, old, cand, done, want>>
    BY <1>5, <1>f DEF FreeTest, Goto, shared
  <2>2. At(p) \in Run(At(p), want[p] - done[p]) /\ At(p) \in Run(cand[p], want[p])
    BY <2>1, <1>n DEF At, Run
  <2>3. At(p) \in Taken(p) /\ At(p) \in Memory
    BY <2>1, <2>2, <1>a DEF Taken, Accounts, Marking, Freeing
  <2>4. pc'[p] = "give_load"
    BY <2>1, <2>3, <1>a, <1>m DEF Accounts
  <2>5. Taken(p)' = Taken(p) /\ Missing(p)' = Missing(p)
    BY <2>1, <2>4 DEF Taken, Missing, At, Marking, Freeing
  <2> QED BY <2>1, <2>4, <2>5, <1>w, <1>a DEF Accounts, Freeing
<1>6. CASE FreeDone(p)
  <2>1. /\ pc[p] = "free" /\ done[p] = want[p] /\ pc'[p] = "idle"
        /\ UNCHANGED <<bitmap, free_mem, live, reclaimed, old>>
    BY <1>6, <1>f DEF FreeDone, Goto, shared
  <2>2. Run(At(p), want[p] - done[p]) = {}
    BY <2>1, <1>n DEF At, Run
  <2>3. Taken(p) = {} /\ Missing(p) = {} /\ Taken(p)' = {} /\ Missing(p)' = {}
    BY <2>1, <2>2 DEF Taken, Missing, Marking, Freeing
  <2> QED BY <2>1, <2>3, <1>w DEF Marking, Freeing
<1>7. ASSUME NEW size \in Sizes,
             kmalloc(p, size) \/ \E b \in live : kmrealloc(p, b, size)
      PROVE  InUse' \subseteq Memory' /\ Accounts(p)'
  <2>1. /\ pc[p] = "idle" /\ pc'[p] = "get" /\ UNCHANGED <<bitmap, free_mem, reclaimed>>
    BY <1>7, <1>f DEF kmalloc, kmrealloc, Goto, shared
  <2>2. old[p] = Nothing /\ Blocks = live
    BY <2>1, <1>i, <1>o DEF OldInv
  <2>3. Blocks' = Blocks => InUse' \subseteq Memory' /\ Accounts(p)'
    <3>1. Taken(p) = {} /\ Missing(p) = {} /\ Taken(p)' = {} /\ Missing(p)' = {}
      BY <2>1 DEF Taken, Missing, Marking, Freeing
    <3>2. Memory' = Memory
      BY <2>1 DEF Memory
    <3>3. Blocks' = Blocks => InUse' = InUse
      BY DEF InUse
    <3> QED BY <2>1, <3>1, <3>2, <3>3, <1>a, <1>u DEF Marking, Freeing
  <2>4. CASE kmalloc(p, size)
    <3>1. live' = live /\ old'[p] = Nothing
      BY <2>4, <1>t DEF kmalloc, shared, TypeOK
    <3> QED BY <3>1, <2>2, <1>o, <2>3
  <2>5. ASSUME NEW b \in live, kmrealloc(p, b, size) PROVE Blocks' = Blocks
    <3>1. live' = live \ {b} /\ old'[p] = b /\ b # Nothing
      BY <2>5, <1>t, <1>b, Numbers DEF kmrealloc, TypeOK
    <3> QED BY <3>1, <2>2, <1>o
  <2> QED BY <1>7, <2>3, <2>4, <2>5
<1>8. CASE MarkStore(p)
  <2>1. bitmap' = bitmap \ {At(p)} /\ At(p) \in Run(cand[p], want[p])
    BY <1>8, StoreIs
  <2>2. /\ pc[p] = "clear_bit" /\ pc'[p] = "mark" /\ done'[p] = done[p] + 1
        /\ UNCHANGED <<free_mem, live, reclaimed, old, cand, want>>
    BY <1>8, <1>t, <1>f DEF MarkStore, Goto, TypeOK
  <2>3. Blocks' = Blocks /\ InUse' = InUse /\ Memory' = Memory
    BY <2>2, <1>o DEF InUse, Memory
  <2>4. /\ Taken(p) = Run(cand[p], done[p]) /\ Missing(p) = {} /\ Missing(p)' = {}
        /\ Taken(p)' = Run(cand[p], done[p] + 1)
    BY <2>2 DEF Taken, Missing, Marking, Freeing
  <2>5. Taken(p)' = Taken(p) \cup {At(p)}
    BY <2>4, <1>n DEF At, Run
  <2>6. Run(cand[p], want[p]) \subseteq Memory
    BY <2>2, <1>a DEF Accounts, Marking
  <2>7. bitmap' = (Memory' \ (InUse' \cup Taken(p)')) \cup Garbage
    BY <2>1, <2>3, <2>5, <2>6, <1>a, <1>m DEF Accounts
  <2> QED BY <2>2, <2>3, <2>4, <2>6, <2>7, <1>a DEF Accounts
<1>9. CASE FreeStore(p)
  <2>1. bitmap' = bitmap \cup {At(p)} /\ At(p) \in Run(cand[p], want[p])
    BY <1>9, StoreIs
  <2>2. /\ pc[p] = "set_bit" /\ pc'[p] = "free" /\ done'[p] = done[p] + 1
        /\ UNCHANGED <<free_mem, live, reclaimed, old, cand, want>>
    BY <1>9, <1>t, <1>f DEF FreeStore, Goto, TypeOK
  <2>3. Blocks' = Blocks /\ InUse' = InUse /\ Memory' = Memory
    BY <2>2, <1>o DEF InUse, Memory
  <2>4. /\ Taken(p) = Run(cand[p] + done[p], want[p] - done[p])
        /\ Missing(p) = Run(cand[p] + done[p] + 1, want[p] - done[p] - 1)
        /\ Taken(p)' = Run(cand[p] + (done[p] + 1), want[p] - (done[p] + 1))
        /\ Missing(p)' = Run(cand[p] + (done[p] + 1), want[p] - (done[p] + 1))
    BY <2>2 DEF Taken, Missing, Marking, Freeing, At
  <2>5. Missing(p)' = Missing(p)
    BY <2>4, <1>n
  <2>6. done[p] < want[p]
    BY <2>2, <1>r DEF RangeInv, Freeing
  <2>7. Taken(p)' = Taken(p) \ {At(p)} /\ At(p) \in Taken(p)
    BY SMTT(30), <2>4, <2>6, <1>n DEF At, Run
  <2>8. Run(cand[p], want[p]) \subseteq Memory /\ Apart(Run(cand[p], want[p]))
    BY <2>2, <1>a, <1>i DEF Accounts, HandInv, Freeing
  <2>9. At(p) \notin InUse
    BY <2>1, <2>8, InUseIs DEF Apart
  <2>10. bitmap' = (Memory' \ (InUse' \cup Taken(p)')) \cup Garbage
    BY <2>1, <2>3, <2>7, <2>8, <2>9, <1>a, <1>m DEF Accounts
  <2> QED BY <2>2, <2>3, <2>5, <2>8, <2>10, <1>a DEF Accounts
<1>10. CASE TakeStore(p)
  <2>1. /\ pc[p] = "take" /\ pc'[p] = "got" /\ free_mem' = reg[p] - want[p]
        /\ UNCHANGED <<bitmap, live, reclaimed, old, cand, done, want>>
    BY <1>10, <1>f DEF TakeStore, Goto
  <2>2. Blocks' = Blocks /\ InUse' = InUse /\ Memory' = Memory
    BY <2>1, <1>o DEF InUse, Memory
  <2> DEFINE R == Run(cand[p], want[p])
  <2>3. Taken(p)' = Taken(p) /\ Missing(p) = {} /\ Missing(p)' = R
    BY <2>1 DEF Taken, Missing, Marking, Freeing
  <2>4. R \subseteq Memory /\ Apart(R)
    BY <2>1, <1>a, <1>i DEF Accounts, HandInv, Marking
  <2>5. R \subseteq Memory \ InUse
    BY <2>4, InUseIs DEF Apart
  <2>6. IsFiniteSet(Memory \ InUse)
    BY <1>m, FS_Difference
  <2>7. Cardinality((Memory \ InUse) \ R) = Cardinality(Memory \ InUse) - Cardinality(R)
    <3>1. (Memory \ InUse) \cap R = R
      BY <2>5
    <3> QED BY <3>1, <2>6, FS_Difference
  <2>8. Cardinality(R) = want[p]
    <3> DEFINE z == cand[p] + want[p] - 1
    <3>1. z \in Int /\ cand[p] \in Int /\ R = cand[p]..z
      BY <1>n DEF Run
    <3>2. Cardinality(cand[p]..z) = IF cand[p] > z THEN 0 ELSE z - cand[p] + 1
      BY <3>1, FS_Interval
    <3>3. (IF cand[p] > z THEN 0 ELSE z - cand[p] + 1) = want[p]
      BY <1>n
    <3> QED BY <3>1, <3>2, <3>3
  <2>9. free_mem = Cardinality(Memory \ InUse) /\ reg[p] = free_mem
    <3>1. InUse \cup {} = InUse
      OBVIOUS
    <3> QED BY <3>1, <2>1, <2>3, <1>a, <1>r DEF Accounts, RangeInv
  <2>10. Memory \ (InUse \cup R) = (Memory \ InUse) \ R
    OBVIOUS
  <2>11. free_mem' = Cardinality(Memory' \ (InUse' \cup Missing(p)'))
    BY <2>1, <2>2, <2>3, <2>7, <2>8, <2>9, <2>10
  <2> QED BY <2>1, <2>2, <2>3, <2>4, <2>11, <1>a DEF Accounts
<1>11. CASE GiveStore(p)
  <2>1. /\ pc[p] = "give" /\ pc'[p] = "load_bit" /\ free_mem' = reg[p] + 1
        /\ UNCHANGED <<bitmap, live, reclaimed, old, cand, done, want>>
    BY <1>11, <1>f DEF GiveStore, Goto
  <2>2. Blocks' = Blocks /\ InUse' = InUse /\ Memory' = Memory
    BY <2>1, <1>o DEF InUse, Memory
  <2>3. done[p] < want[p]
    BY <2>1, <1>r DEF RangeInv, Freeing
  <2>4. /\ Taken(p)' = Taken(p) /\ Missing(p) = Run(cand[p] + done[p], want[p] - done[p])
        /\ Missing(p)' = Run(cand[p] + done[p] + 1, want[p] - done[p] - 1)
    BY <2>1 DEF Taken, Missing, Marking, Freeing, At
  <2>5. Missing(p) = Missing(p)' \cup {At(p)} /\ At(p) \notin Missing(p)'
    BY <2>3, <2>4, <1>n DEF At, Run
  <2>6. At(p) \in Run(cand[p], want[p])
    BY <2>3, <1>n DEF At, Run
  <2>7. Run(cand[p], want[p]) \subseteq Memory /\ Apart(Run(cand[p], want[p]))
    BY <2>1, <1>a, <1>i DEF Accounts, HandInv, Freeing
  <2>8. At(p) \in Memory /\ At(p) \notin InUse
    BY <2>6, <2>7, InUseIs DEF Apart
  <2> DEFINE S == Memory \ (InUse \cup Missing(p))
  <2>9. Memory \ (InUse \cup Missing(p)') = S \cup {At(p)} /\ At(p) \notin S
    BY <2>5, <2>8
  <2>10. IsFiniteSet(S)
    BY <1>m, FS_Difference
  <2>11. Cardinality(S \cup {At(p)}) = Cardinality(S) + 1
    BY <2>9, <2>10, FS_AddElement
  <2>12. free_mem = Cardinality(S) /\ reg[p] = free_mem
    BY <2>1, <1>a, <1>r DEF Accounts, RangeInv
  <2>13. free_mem' = Cardinality(Memory' \ (InUse' \cup Missing(p)'))
    BY <2>1, <2>2, <2>9, <2>11, <2>12
  <2> QED BY <2>1, <2>2, <2>4, <2>7, <2>13, <1>a DEF Accounts
<1>12. ASSUME NEW b \in live, kmfree(p, b)
       PROVE  InUse' \subseteq Memory' /\ Accounts(p)'
  <2>1. /\ pc[p] = "idle" /\ pc'[p] = "free"
        /\ UNCHANGED <<bitmap, free_mem, header, reclaimed, old>>
        /\ live' = live \ {b} /\ cand'[p] = b.first /\ done'[p] = 0 /\ want'[p] = Freed(b)
    BY <1>12, <1>t, <1>f DEF kmfree, Start, Goto, TypeOK
  <2>2. old[p] = Nothing /\ Blocks = live /\ Blocks' = live \ {b}
    BY <2>1, <1>o, <1>i DEF OldInv
  <2>3. b.first \in Nat /\ b.pages \in Nat /\ Freed(b) = b.pages
    BY <2>2, <1>i, <1>b, BlockPages DEF BlocksKept, Freed
  <2>4. Run(cand'[p], want'[p]) = Pages(b) /\ Run(cand'[p] + done'[p], want'[p] - done'[p]) = Pages(b)
    BY <2>1, <2>3 DEF Pages
  <2>5. Taken(p) = {} /\ Missing(p) = {} /\ Taken(p)' = Pages(b) /\ Missing(p)' = Pages(b)
    BY <2>1, <2>4 DEF Taken, Missing, At, Marking, Freeing
  <2>6. InUse' \cup Pages(b) = InUse /\ Memory' = Memory
    BY <2>1, <2>2, <1>v, InUseIs DEF Memory
  <2> QED BY <2>1, <2>4, <2>5, <2>6, <1>a, <1>u
<1>13. CASE Got(p)
  <2> DEFINE b == [first |-> cand[p], pages |-> want[p]]
  <2>1. /\ pc[p] = "got" /\ UNCHANGED <<bitmap, free_mem, reclaimed>> /\ old'[p] = Nothing
        /\ live' = live \cup {b}
    BY <1>13, <1>t DEF Got, Goto, TypeOK
  <2>2. done[p] = want[p] /\ Pages(b) = Run(cand[p], want[p])
    BY <2>1, <1>r DEF RangeInv, Pages
  <2>3. Blocks' = live \cup {b} /\ Memory' = Memory
    BY <2>1, <1>o DEF Memory
  <2>4. Taken(p) = Pages(b) /\ Missing(p) = Pages(b) /\ Pages(b) \subseteq Memory
    BY <2>1, <2>2, <1>a DEF Taken, Missing, Accounts, Marking, Freeing
  <2>5. CASE old[p] = Nothing
    <3>1. pc'[p] = "idle"
      BY <1>13, <2>5, <1>f DEF Got, Goto
    <3>2. Taken(p)' = {} /\ Missing(p)' = {}
      BY <3>1 DEF Taken, Missing, Marking, Freeing
    <3>3. InUse' = InUse \cup Pages(b)
      BY <2>3, <2>5, <1>o, <1>v, InUseIs
    <3> QED BY <2>1, <2>3, <2>4, <3>1, <3>2, <3>3, <1>a, <1>u DEF Marking, Freeing
  <2>6. CASE old[p] # Nothing
    <3>1. /\ pc'[p] = "free" /\ cand'[p] = old[p].first /\ want'[p] = Freed(old[p])
          /\ done'[p] = 0
      BY <1>13, <2>6, <1>t, <1>f DEF Got, Goto, Start, TypeOK
    <3>2. old[p] \in Blocks /\ old[p] \in BlockType /\ Blocks = live \cup {old[p]}
      BY <2>6, <1>o, <1>b
    <3>3. Freed(old[p]) = old[p].pages /\ old[p].first \in Nat /\ old[p].pages \in Nat
      BY <3>2, <1>i, BlockPages DEF BlocksKept, Freed
    <3>4. /\ Run(cand'[p], want'[p]) = Pages(old[p])
          /\ Run(cand'[p] + done'[p], want'[p] - done'[p]) = Pages(old[p])
      BY <3>1, <3>3 DEF Pages
    <3>5. Taken(p)' = Pages(old[p]) /\ Missing(p)' = Pages(old[p])
      BY <3>1, <3>4 DEF Taken, Missing, At, Marking, Freeing
    <3>6. InUse' \cup Pages(old[p]) = InUse \cup Pages(b)
      BY <2>3, <3>2, <1>v, InUseIs
    <3> QED BY <2>1, <2>3, <2>4, <3>4, <3>5, <3>6, <1>a, <1>u
  <2> QED BY <2>5, <2>6
<1>14. CASE pmm_reclaim_bootloader_mem(p)
  <2>1. /\ ~reclaimed /\ reclaimed' /\ UNCHANGED <<bitmap, free_mem, live, old>>
        /\ pc[p] = "idle" /\ pc'[p] = "free" /\ cand'[p] = Reclaimable.first
        /\ done'[p] = 0 /\ want'[p] = Reclaimable.pages
    BY <1>14, <1>t, <1>f DEF pmm_reclaim_bootloader_mem, Start, Goto, TypeOK
  <2> DEFINE R == Pages(Reclaimable)
  <2>2. Reclaimable.first \in Nat /\ Reclaimable.pages \in Nat
    BY HeapAssumption
  <2>3. Run(cand'[p], want'[p]) = R /\ Run(cand'[p] + done'[p], want'[p] - done'[p]) = R
    BY <2>1, <2>2 DEF Pages
  <2>4. Taken(p) = {} /\ Missing(p) = {} /\ Taken(p)' = R /\ Missing(p)' = R
    BY <2>1, <2>3 DEF Taken, Missing, At, Marking, Freeing
  <2>5. Memory = Usable \ Bitmap /\ Memory' = Memory \cup R /\ R \cap Usable = {}
    BY <2>1, HeapAssumption DEF Memory
  <2>6. InUse' = InUse
    BY <2>1, <1>o DEF InUse
  <2> QED BY <2>1, <2>3, <2>4, <2>5, <2>6, <1>a, <1>u
<1> QED BY <1>1, <1>2, <1>3, <1>4, <1>5, <1>6, <1>7, <1>8, <1>9, <1>10, <1>11, <1>12, <1>13,
           <1>14 DEF Next, pmm_get, pmm_alloc, pmm_free

-----------------------------------------------------------------------------
(* The theorems                                                            *)

LEMMA Stutter ==
    ASSUME UNCHANGED vars
    PROVE  /\ SearchInv => SearchInv'
           /\ ShareInv => ShareInv'
           /\ AccountInv => AccountInv'
<1>1. SearchInv => SearchInv'
  BY DEF vars, SearchInv, TypeOK, GetInv, RangeInv, At
<1>2. ShareInv => ShareInv'
  BY DEF vars, ShareInv, BlocksKept, NoSharing, HandInv, OldInv, ReclaimInv, Apart, Blocks, At
<1>3. AccountInv => AccountInv'
  <2>1. Blocks' = Blocks /\ Memory' = Memory
    BY DEF vars, Blocks, Memory
  <2>2. InUse' = InUse
    BY <2>1 DEF InUse
  <2>3. ASSUME NEW p \in Proc PROVE Taken(p)' = Taken(p) /\ Missing(p)' = Missing(p)
    BY DEF vars, Taken, Missing, At
  <2>4. ASSUME NEW p \in Proc, Accounts(p) PROVE Accounts(p)'
    BY <2>1, <2>2, <2>3, <2>4 DEF vars, Accounts
  <2> QED BY <2>1, <2>2, <2>4 DEF AccountInv, BlocksAreMemory
<1> QED BY <1>1, <1>2, <1>3

LEMMA SearchAlways == OneProc => (Spec => []SearchInv)
<1> SUFFICES ASSUME OneProc PROVE Spec => []SearchInv
  OBVIOUS
<1>1. SearchInv /\ [Next]_vars => SearchInv'
  BY SearchStep, Stutter
<1> QED BY <1>1, SearchInit, PTL DEF Spec

LEMMA ShareAlways == OneProc /\ LastByteFull => (Spec => [](SearchInv /\ ShareInv))
<1> SUFFICES ASSUME OneProc, LastByteFull PROVE Spec => [](SearchInv /\ ShareInv)
  OBVIOUS
<1>1. Init => ShareInv
  BY ShareInit
<1>2. SearchInv /\ ShareInv /\ [Next]_vars => ShareInv'
  BY ShareStep, Stutter
<1> QED BY <1>1, <1>2, SearchAlways, PTL DEF Spec

LEMMA AccountAlways ==
    OneProc /\ LastByteFull /\ TopIsNoMemory => (Spec => []AccountInv)
<1> SUFFICES ASSUME OneProc, LastByteFull, TopIsNoMemory PROVE Spec => []AccountInv
  OBVIOUS
<1>1. Init => AccountInv
  BY AccountInit
<1>2. SearchInv /\ ShareInv /\ AccountInv /\ [Next]_vars => AccountInv'
  BY AccountStep, Stutter
<1> QED BY <1>1, <1>2, ShareAlways, PTL DEF Spec

(* The kernel panics for want of memory only when no run of pages of the   *)
(* wanted length is free: the search of pmm_get misses none.               *)
THEOREM PanicMeansFull == OneProc => (Spec => []PanicIsTrue)
<1> SUFFICES ASSUME OneProc PROVE Spec => []PanicIsTrue
  OBVIOUS
<1>1. SearchInv => PanicIsTrue
  <2> SUFFICES ASSUME SearchInv, NEW p \in Proc, pc[p] = "panic", NEW i \in 0..phys_limit-1
               PROVE  ~(Run(i, want[p]) \subseteq bitmap)
    BY DEF PanicIsTrue
  <2>1. /\ cand[p] >= phys_limit /\ cand[p] \in Nat
        /\ \A k \in 0..cand[p]-1 : ~(Run(k, want[p]) \subseteq bitmap)
    BY DEF SearchInv, GetInv, TypeOK, Getting
  <2> QED BY <2>1, Numbers
<1> QED BY <1>1, SearchAlways, PTL

(* No page belongs to two blocks: pmm_alloc hands out pages of no block,   *)
(* and kmfree and kmrealloc give back those of one.                        *)
THEOREM NoPageTwice == OneProc /\ LastByteFull => (Spec => []NoSharing)
<1>1. ShareInv => NoSharing
  BY DEF ShareInv
<1> QED BY <1>1, ShareAlways, PTL

(* Blocks lie in memory, although pmm_get tries runs that reach past the   *)
(* end of the bitmap.                                                      *)
THEOREM BlocksInMemory ==
    OneProc /\ LastByteFull /\ TopIsNoMemory => (Spec => []BlocksAreMemory)
<1>1. AccountInv => BlocksAreMemory
  BY DEF AccountInv
<1> QED BY <1>1, AccountAlways, PTL

(* Between two calls the free pages are those of no block and free_mem     *)
(* counts them: nothing is leaked and nothing counted twice.               *)
THEOREM NoLeak ==
    OneProc /\ LastByteFull /\ TopIsNoMemory => (Spec => []NothingLeaks)
<1> SUFFICES ASSUME OneProc, LastByteFull, TopIsNoMemory PROVE Spec => []NothingLeaks
  OBVIOUS
<1>1. AccountInv => NothingLeaks
  <2> SUFFICES ASSUME AccountInv, Quiet
               PROVE  /\ bitmap = (Memory \ InUse) \cup Garbage
                      /\ free_mem = Cardinality(Memory \ InUse)
    BY DEF NothingLeaks
  <2> PICK p : Proc = {p}
    BY DEF OneProc
  <2>1. Taken(p) = {} /\ Missing(p) = {}
    BY DEF Quiet, Taken, Missing, Marking, Freeing
  <2>2. InUse \cup {} = InUse
    OBVIOUS
  <2> QED BY <2>1, <2>2 DEF AccountInv, Accounts
<1> QED BY <1>1, AccountAlways, PTL
==============================================================================

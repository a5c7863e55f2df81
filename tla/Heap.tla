-------------------------------- MODULE Heap ---------------------------------
(***************************************************************************)
(* The page allocator mm/pmm.c and the heap lib/kmalloc.c on top of it.    *)
(* Neither takes a lock; every access to the bitmap and to free_mem is a   *)
(* step, a read-modify-write is two.                                       *)
(*                                                                         *)
(* Addresses and sizes are counted in pages, free_mem too.  A block is the *)
(* page of its header and the pages behind it.  What is stored in the      *)
(* blocks, kmrealloc's copy of it included, is left out.                   *)
(***************************************************************************)
EXTENDS Integers, FiniteSets

CONSTANTS
    Proc,           \* those that allocate and free
    phys_limit,     \* the pages below the end of the last memory map entry
    PagesPerByte,   \* BMP_PAGES_PER_BYTE
    Usable,         \* the pages pmm_init gives to the allocator
    Bitmap,         \* the pages of Usable the bitmap is stored in
    Reclaimable,    \* [first, pages], the bootloader's memory
    Garbage,        \* the pages behind those of Zeroed that happen to look free
    MaxSize,        \* the largest size that is asked for
    Nothing         \* the null pointer

Sizes == 0..MaxSize
Page == 0..phys_limit+MaxSize
Run(i, n) == i .. i+n-1
Pages(b) == Run(b.first, b.pages)
\* The memset of pmm_init leaves out the last byte if it is not full.
Zeroed == 0 .. PagesPerByte * (phys_limit \div PagesPerByte) - 1
ByteOf(j) == {k \in Page : k \div PagesPerByte = j \div PagesPerByte}

ASSUME HeapAssumption ==
    /\ phys_limit \in Nat \ {0} /\ PagesPerByte \in Nat \ {0}
    /\ MaxSize \in Nat
    /\ Usable \subseteq 0..phys_limit-1
    /\ Bitmap \subseteq Usable
    /\ Reclaimable \in [first: Nat, pages: Nat]
    /\ Pages(Reclaimable) \subseteq (0..phys_limit-1) \ Usable
    /\ Garbage \subseteq Page \ Zeroed
    /\ Nothing \notin [first: Nat, pages: Nat]

VARIABLES
    bitmap,         \* the pages whose bit is set: the free ones
    free_mem,       \* memstats.free_mem
    header,         \* the numpages a block's first page holds
    live,           \* the blocks in use
    reclaimed,      \* pmm_reclaim_bootloader_mem was called
    pc, cand, done, want,   \* of each process: where it is, the first page it
                            \* tries or frees, the pages done, the pages wanted
    reg,            \* the byte or the count it read and will write back
    old             \* the block kmrealloc will free

shared == <<bitmap, free_mem, header, live, reclaimed>>
vars == <<bitmap, free_mem, header, live, reclaimed, pc, cand, done, want, reg, old>>

\* pmm_init has run.
Init ==
    /\ bitmap = (Usable \cup Garbage) \ Bitmap
    /\ free_mem = Cardinality(Usable \ Garbage) - Cardinality(Bitmap)
    /\ header = [j \in Page |-> 0]
    /\ live = {}
    /\ reclaimed = FALSE
    /\ pc = [p \in Proc |-> "idle"]
    /\ cand = [p \in Proc |-> 0]
    /\ done = [p \in Proc |-> 0]
    /\ want = [p \in Proc |-> 0]
    /\ reg = [p \in Proc |-> 0]
    /\ old = [p \in Proc |-> Nothing]

Goto(p, here, there) == /\ pc[p] = here
                        /\ pc' = [pc EXCEPT ![p] = there]

\* p has returned: its local variables are no more.
Leave(p) == /\ cand' = [cand EXCEPT ![p] = 0]
            /\ done' = [done EXCEPT ![p] = 0]
            /\ want' = [want EXCEPT ![p] = 0]
            /\ reg' = [reg EXCEPT ![p] = 0]

\* The page process p is at.
At(p) == cand[p] + done[p]

\* p goes to the loop over the n pages from i.
Start(p, i, n) == /\ cand' = [cand EXCEPT ![p] = i]
                  /\ done' = [done EXCEPT ![p] = 0]
                  /\ want' = [want EXCEPT ![p] = n]

-----------------------------------------------------------------------------
(* pmm_get: lastusedpage stays 0, so the scan begins at page 0 and the     *)
(* second one is empty.                                                    *)

\* Mutant: the next run tried does not overlap this one.
NextCandidate_Stride(p) == cand[p] + want[p]
NextCandidate(p) == cand[p] + 1

\* One bit of bmp_isfree.
Check(p) ==
    /\ cand[p] < phys_limit
    /\ done[p] < want[p]
    /\ Goto(p, "get", "get")
    /\ IF At(p) \in bitmap
       THEN done' = [done EXCEPT ![p] = @ + 1] /\ UNCHANGED cand
       ELSE done' = [done EXCEPT ![p] = 0] /\ cand' = [cand EXCEPT ![p] = NextCandidate(p)]
    /\ UNCHANGED <<shared, want, reg, old>>

Found(p) ==
    /\ cand[p] < phys_limit
    /\ done[p] = want[p]
    /\ Goto(p, "get", "mark")
    /\ done' = [done EXCEPT ![p] = 0]
    /\ UNCHANGED <<shared, cand, want, reg, old>>

\* kernel_panic("Out of Physical Memory").
OutOfMemory(p) ==
    /\ cand[p] >= phys_limit
    /\ Goto(p, "get", "panic")
    /\ UNCHANGED <<shared, cand, done, want, reg, old>>

\* bmp_markused, a page at a time.
MarkLoad(p) ==
    /\ done[p] < want[p]
    /\ Goto(p, "mark", "clear_bit")
    /\ reg' = [reg EXCEPT ![p] = bitmap \cap ByteOf(At(p))]
    /\ UNCHANGED <<shared, cand, done, want, old>>

Cleared(p) == reg[p] \ {At(p)}

MarkStore(p) ==
    /\ Goto(p, "clear_bit", "mark")
    /\ bitmap' = (bitmap \ ByteOf(At(p))) \cup Cleared(p)
    /\ done' = [done EXCEPT ![p] = @ + 1]
    /\ UNCHANGED <<free_mem, header, live, reclaimed, cand, want, reg, old>>

TakeLoad(p) ==
    /\ done[p] = want[p]
    /\ Goto(p, "mark", "take")
    /\ reg' = [reg EXCEPT ![p] = free_mem]
    /\ UNCHANGED <<shared, cand, done, want, old>>

TakeStore(p) ==
    /\ Goto(p, "take", "got")
    /\ free_mem' = reg[p] - want[p]
    /\ UNCHANGED <<bitmap, header, live, reclaimed, cand, done, want, reg, old>>

-----------------------------------------------------------------------------
(* pmm_free                                                                *)

\* A page that was free already is not counted again.
FreeTest(p) ==
    /\ done[p] < want[p]
    /\ Goto(p, "free", IF At(p) \in bitmap THEN "load_bit" ELSE "give_load")
    /\ UNCHANGED <<shared, cand, done, want, reg, old>>

GiveLoad(p) ==
    /\ Goto(p, "give_load", "give")
    /\ reg' = [reg EXCEPT ![p] = free_mem]
    /\ UNCHANGED <<shared, cand, done, want, old>>

GiveStore(p) ==
    /\ Goto(p, "give", "load_bit")
    /\ free_mem' = reg[p] + 1
    /\ UNCHANGED <<bitmap, header, live, reclaimed, cand, done, want, reg, old>>

FreeLoad(p) ==
    /\ Goto(p, "load_bit", "set_bit")
    /\ reg' = [reg EXCEPT ![p] = bitmap \cap ByteOf(At(p))]
    /\ UNCHANGED <<shared, cand, done, want, old>>

FreeStore(p) ==
    /\ Goto(p, "set_bit", "free")
    /\ bitmap' = (bitmap \ ByteOf(At(p))) \cup reg[p] \cup {At(p)}
    /\ done' = [done EXCEPT ![p] = @ + 1]
    /\ UNCHANGED <<free_mem, header, live, reclaimed, cand, want, reg, old>>

FreeDone(p) ==
    /\ done[p] = want[p]
    /\ Goto(p, "free", "idle")
    /\ Leave(p)
    /\ UNCHANGED <<shared, old>>

-----------------------------------------------------------------------------
(* The heap                                                                *)

\* A size needs that many pages, and one for the header.
kmalloc(p, size) ==
    /\ Goto(p, "idle", "get")
    /\ Start(p, 0, size + 1)
    /\ old' = [old EXCEPT ![p] = Nothing]
    /\ UNCHANGED <<shared, reg>>

\* Mutant: the header page is forgotten.
Freed_NoHeader(b) == header[b.first]
\* Mutant: the header page is counted twice.
Freed_Twice(b) == header[b.first] + 2
\* The pages kmfree frees: it believes the header.
Freed(b) == header[b.first] + 1

kmfree(p, b) ==
    /\ Goto(p, "idle", "free")
    /\ Start(p, b.first, Freed(b))
    /\ live' = live \ {b}
    /\ UNCHANGED <<bitmap, free_mem, header, reclaimed, reg, old>>

\* For a size with as many pages as before only d->size changes.
kmrealloc(p, b, size) ==
    /\ header[b.first] # size
    /\ Goto(p, "idle", "get")
    /\ Start(p, 0, size + 1)
    /\ live' = live \ {b}
    /\ old' = [old EXCEPT ![p] = b]
    /\ UNCHANGED <<bitmap, free_mem, header, reclaimed, reg>>

\* pmm_get returned to kmalloc, and kmrealloc goes on to kmfree.
Got(p) ==
    LET b == [first |-> cand[p], pages |-> want[p]] IN
    /\ header' = [header EXCEPT ![b.first] = b.pages - 1]
    /\ live' = live \cup {b}
    /\ \/ /\ old[p] = Nothing
          /\ Goto(p, "got", "idle")
          /\ Leave(p)
       \/ /\ old[p] # Nothing
          /\ Goto(p, "got", "free")
          /\ Start(p, old[p].first, Freed(old[p]))
          /\ UNCHANGED reg
    /\ old' = [old EXCEPT ![p] = Nothing]
    /\ UNCHANGED <<bitmap, free_mem, reclaimed>>

pmm_reclaim_bootloader_mem(p) ==
    /\ ~reclaimed
    /\ Goto(p, "idle", "free")
    /\ reclaimed' = TRUE
    /\ Start(p, Reclaimable.first, Reclaimable.pages)
    /\ UNCHANGED <<bitmap, free_mem, header, live, reg, old>>

pmm_get(p) == Check(p) \/ Found(p) \/ OutOfMemory(p)
pmm_alloc(p) == MarkLoad(p) \/ MarkStore(p) \/ TakeLoad(p) \/ TakeStore(p)
pmm_free(p) == FreeTest(p) \/ GiveLoad(p) \/ GiveStore(p) \/ FreeLoad(p) \/ FreeStore(p)
               \/ FreeDone(p)

Next == \E p \in Proc :
            \/ pmm_get(p) \/ pmm_alloc(p) \/ pmm_free(p) \/ Got(p)
            \/ \E size \in Sizes : kmalloc(p, size)
            \/ \E b \in live : kmfree(p, b)
            \/ \E b \in live, size \in Sizes : kmrealloc(p, b, size)
            \/ pmm_reclaim_bootloader_mem(p)

Spec == Init /\ [][Next]_vars

-----------------------------------------------------------------------------
Blocks == live \cup ({old[p] : p \in Proc} \ {Nothing})
Memory == (Usable \ Bitmap) \cup (IF reclaimed THEN Pages(Reclaimable) ELSE {})
InUse == UNION {Pages(b) : b \in Blocks}
Quiet == \A p \in Proc : pc[p] \in {"idle", "panic"}

(* No page belongs to two blocks.                                          *)
NoSharing ==
    \A a, b \in Blocks : a # b => Pages(a) \cap Pages(b) = {}

(* Blocks lie in memory the allocator was given, although pmm_get tries    *)
(* runs of pages that reach past the end of the bitmap.  Needs the last    *)
(* byte of the bitmap full and the page of its last bit no memory.         *)
BlocksAreMemory == InUse \subseteq Memory

(* Between two calls the free pages are exactly those of no block, and     *)
(* free_mem counts them: no sequence of kmalloc, kmrealloc and kmfree      *)
(* leaks a page or loses count.                                            *)
NothingLeaks ==
    Quiet => /\ bitmap = (Memory \ InUse) \cup Garbage
             /\ free_mem = Cardinality(Memory \ InUse)

(* The kernel panics for want of memory only when no run of pages of the   *)
(* wanted length is free.                                                  *)
PanicIsTrue ==
    \A p \in Proc : pc[p] = "panic" =>
        \A i \in 0..phys_limit-1 : ~(Run(i, want[p]) \subseteq bitmap)
=============================================================================

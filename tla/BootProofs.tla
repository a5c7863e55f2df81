------------------------------ MODULE BootProofs -----------------------------
(***************************************************************************)
(* Proofs about the boot of the cpus and the memory of the kernel in       *)
(* Kmain, for every MADT, any number of cpus, any layout of the memory and *)
(* any width of the page tables.                                           *)
(***************************************************************************)
EXTENDS Kmain, PageTableProofs

-----------------------------------------------------------------------------
(* The invariant.  What it says of the aps' arguments and of the blocks of *)
(* memory it says while no ap is late; the rest holds whatever the aps do. *)

LapicRec == [type : {"lapic"}, apic_id : Nat, usable : BOOLEAN]
EarlyPc  == {"window", "memory", "madt", "map"}
LoopPc   == {"next", "stack", "init", "sipi", "poll"}
BspPc    == EarlyPc \cup LoopPc \cup {"unmap", "done"}
Waiting  == {"start", "rsp", "cpuinfo", "count"}
Called   == {"call", "task_t", "kstack", "add", "up", "lost"}
ApPc     == {"off", "reset", "fault"} \cup Waiting \cup Called
MaybeNat == Nat \cup {NULL}
Place    == [pc : BspPc, i : Nat \ {0}, k : Nat]
ApState  == [pc : ApPc, rsp : MaybeNat, cpuinfo : MaybeNat]
Cpu      == [lapic_id : MaybeNat, is_bsp : BOOLEAN]
Info     == [num_cpus : Nat, cpus : [0..CPU_MAX-1 -> Cpu]]

BootTypes ==
    /\ madt \in Firmware
    /\ lapics \in Seq(LapicRec)
    /\ bsp \in Place
    /\ counter_prev \in Nat
    /\ ap_boot_counter \in Nat
    /\ stack \in MaybeNat
    /\ arg_rsp \in MaybeNat
    /\ arg_cpuinfo \in MaybeNat
    /\ info \in Info
    /\ ap \in [ids -> ApState]
    /\ failed \in SUBSET ids
    /\ tasks_all \in BOOLEAN
    /\ heap \subseteq Nat \ {0}

\* The lapics of the table are different processors of the MADT.
LapicsListed ==
    /\ Len(lapics) <= CPU_MAX
    /\ \A j \in 1..Len(lapics) : lapics[j].apic_id \in ids \cup {Bsp}
    /\ \A j, k \in 1..Len(lapics) : lapics[j].apic_id = lapics[k].apic_id => j = k
    /\ bsp.pc \in {"window", "memory"} => lapics = <<>> /\ bsp.i = 1
    /\ At("madt") => \A j \in 1..Len(lapics) :
                         \E n \in 1..Len(madt) : n < bsp.i /\ lapics[j] = madt[n]

\* No more pages are mapped than the map has, and no more entries of the
\* cpu table are used than lapics are done with.
BspPlace ==
    /\ At("window") => bsp.k <= Window
    /\ At("memory") => bsp.k <= PhysLimit
    /\ bsp.pc \in {"map", "unmap"} => bsp.k <= LowPages
    /\ bsp.pc \in {"madt", "next"} => bsp.k = 0
    /\ At("map") => bsp.i = 1
    /\ bsp.pc \in EarlyPc => info.num_cpus = 0
    /\ bsp.pc \in LoopPc => bsp.i <= Len(lapics) + 1 /\ info.num_cpus < bsp.i
    /\ bsp.pc \in LoopPc \ {"next"} =>
           /\ bsp.i <= Len(lapics)
           /\ lapic.apic_id \in ids
           /\ info.cpus[info.num_cpus].lapic_id = lapic.apic_id

\* The lapics that the loop comes to, and whose turn has not come.
Untouched(j) == \/ j > bsp.i
                \/ j = bsp.i /\ bsp.pc \in {"next", "stack", "init"}

ApsWait ==
    /\ bsp.pc \in EarlyPc => failed = {} /\ \A id \in ids : ap[id].pc = "off"
    /\ bsp.pc \in LoopPc =>
           \A j \in 1..Len(lapics) :
               /\ j >= bsp.i => lapics[j].apic_id \notin failed
               /\ Untouched(j) /\ lapics[j].apic_id \in ids
                      => ap[lapics[j].apic_id].pc = "off"

\* The pages that are mapped while the bsp is at its place.
WindowMapped == IF At("window") THEN bsp.k ELSE Window
OffsetMapped == IF At("window") THEN 0 ELSE IF At("memory") THEN bsp.k ELSE PhysLimit
LowMap == IF bsp.pc \in {"window", "memory", "madt", "done"} THEN {}
          ELSE IF At("map") THEN 0..bsp.k-1
          ELSE IF At("unmap") THEN bsp.k..LowPages-1
          ELSE 0..LowPages-1

Expected(v) ==
    IF v \in Kernel..Kernel+WindowMapped-1 THEN v - Kernel
    ELSE IF v \in Offset..Offset+OffsetMapped-1 THEN v - Offset
    ELSE IF v \in LowMap THEN v
    ELSE NULL

Translations == \A v \in Page : Translate(mem, v) = Expected(v)

HoldsStack == bsp.pc \in {"init", "sipi", "poll"}

\* The tables are a tree in pages of Memory, apart from the new stack and
\* the blocks of the heap, which is empty while they grow.
MemSound ==
    /\ IsTree(mem)
    /\ Tables(mem) \subseteq Memory
    /\ kmain = "boot" => mem.free \subseteq Memory
    /\ kmain # "boot" => At("done")
    /\ bsp.pc \in EarlyPc => heap = {}
    /\ \A b \in heap : Block(b) \subseteq Frame \ (Tables(mem) \cup {PML4})
    /\ HoldsStack =>
           /\ stack \in Nat \ {0}
           /\ Block(stack) \subseteq Memory
           /\ Block(stack) \cap (Tables(mem) \cup {PML4}) = {}

\* Kinit runs when the bootloader's memory has been reclaimed, and gives
\* back a block it was given.
KinitSound ==
    /\ kmain \in {"boot", "sched_init"}
    /\ kinit \in {"klog_show", "find", "initrd_init", "run"}
    /\ taken \in [kmain : 0..6, kinit : Nat]
    /\ unpack \in [at : Nat, pc : {"create", "open", "write", "close", "done"}]
    /\ kmain = "boot" => kinit = "klog_show" /\ taken.kmain = 0
    /\ kinit \in {"klog_show", "find"} => unpack.pc = "create"
    /\ unpack.pc \in {"write", "close"} \/ (unpack.pc = "open" /\ taken.kinit # 0)
           => desc \in heap

\* Only the ap that the bsp starts is between the startup IPI and the call.
Starting == bsp.pc \in {"sipi", "poll"}
Current(id) == Starting /\ id = lapic.apic_id

OnlyCurrentReads ==
    \A id \in ids : /\ ap[id].pc \in Waiting => Current(id)
                    /\ ap[id].pc # "fault"

CounterTells ==
    /\ bsp.pc \in {"stack", "init"} => ap_boot_counter = counter_prev
    /\ Starting => /\ ap[lapic.apic_id].pc # "off"
                   /\ ap_boot_counter = IF ap[lapic.apic_id].pc \in Called
                                        THEN counter_prev + 1 ELSE counter_prev

\* The arguments are those of the ap that the bsp starts, and the others
\* have read their own.
ArgsPassed ==
    /\ At("init") => arg_rsp = stack
    /\ Starting => /\ arg_rsp = stack
                   /\ arg_cpuinfo = info.num_cpus
                   /\ ap[lapic.apic_id].pc \in {"cpuinfo", "count"} \cup Called
                         => ap[lapic.apic_id].rsp = stack
                   /\ ap[lapic.apic_id].pc \in {"count"} \cup Called
                         => ap[lapic.apic_id].cpuinfo = info.num_cpus
    /\ \A id \in HasArgs : ~Current(id) =>
           /\ ap[id].cpuinfo \in 0..info.num_cpus-1
           /\ info.cpus[ap[id].cpuinfo].lapic_id = id

\* Who holds which block.
Stacks == {<<"stack", id, ap[id].rsp>> : id \in HasArgs}
NewStack == IF HoldsStack THEN {<<"stack", lapic.apic_id, stack>>} ELSE {}
HeapBlocks == {<<"heap", b, b>> : b \in heap}
Held == {<<"root", 0, PML4>>} \cup Stacks \cup NewStack \cup HeapBlocks

\* The pages the kernel has been given so far.
Given == Memory \cup (IF kmain = "boot" THEN {} ELSE Reclaimable)
                \cup (IF kinit = "run" THEN Initrd ELSE {})

\* The blocks of the holders H do not overlap, and with the tables and the
\* free pages of m they are the pages P.
Apart(H, m, P) ==
    /\ \A x \in H : /\ x[3] \in Nat \ {0}
                    /\ Block(x[3]) \cap Stock(m) = {}
    /\ \A x, y \in H : x # y => Block(x[3]) \cap Block(y[3]) = {}
    /\ Stock(m) \cup UNION {Block(x[3]) : x \in H} = P

OnTime == /\ OnlyCurrentReads
          /\ CounterTells
          /\ ArgsPassed
          /\ Apart(Held, mem, Given)

BootInv == /\ BootTypes
           /\ LapicsListed
           /\ BspPlace
           /\ ApsWait
           /\ Translations
           /\ MemSound
           /\ KinitSound
           /\ Late = {} => OnTime

-----------------------------------------------------------------------------
(* What the constants are.                                                 *)

LEMMA Layout ==
    /\ Kernel \in Nat /\ Window \in Nat /\ Offset \in Nat /\ PhysLimit \in Nat
    /\ LowPages \in Nat /\ Trampoline \in 0..LowPages-1
    /\ LowPages <= Offset
    /\ Offset + PhysLimit <= Kernel
  BY LayoutAssumption

LEMMA PageRange ==
    ASSUME NEW v \in Nat, v < Kernel + Window
    PROVE  v \in Page
  <1> DEFINE W4 == Width*Width*Width*Width
  <1>1. Kernel + Window <= W4 /\ Page = 0..W4-1
    BY LayoutAssumption DEF Page
  <1>2. W4 \in Nat
    BY PageTableAssumption
  <1> HIDE DEF W4
  <1> QED BY <1>1, <1>2, Layout

LEMMA Frames ==
    /\ Frame \subseteq Nat
    /\ Memory \subseteq Frame /\ Reclaimable \subseteq Frame /\ Initrd \subseteq Frame
    /\ PML4 \in Nat \ {0}
    /\ PML4 \in Memory /\ Block(PML4) \subseteq Memory
    /\ NULL \notin Nat
  BY PageTableAssumption, RootAssumption, KmainAssumption DEF Block

LEMMA MadtRecords ==
    ASSUME NEW records \in Firmware
    PROVE  /\ Len(records) \in Nat
           /\ \A n \in 1..Len(records) :
                 /\ records[n] \in [type : {"lapic", "ioapic"}, apic_id : Nat, usable : BOOLEAN]
                 /\ records[n].type = "lapic" => /\ records[n] \in LapicRec
                                                 /\ records[n].apic_id \in ids \cup {Bsp}
           /\ \A m, n \in 1..Len(records) :
                 /\ records[m].type = "lapic" /\ records[n].type = "lapic"
                 /\ records[m].apic_id = records[n].apic_id
                 => m = n
  <1> DEFINE R == [type : {"lapic", "ioapic"}, apic_id : Nat, usable : BOOLEAN]
  <1>1. records \in Seq(R)
    BY FirmwareAssumption
  <1>2. ASSUME NEW n \in 1..Len(records), records[n].type = "lapic"
        PROVE  records[n].apic_id \in ids \cup {Bsp}
    <2>1. records[n] \in Range(records)
      BY <1>1 DEF Range
    <2>2. records[n] \in Records
      BY <2>1 DEF Records
    <2> QED BY <2>2, <1>2 DEF ids
  <1>4. \A r \in R : r.type = "lapic" => r \in LapicRec
    BY DEF LapicRec
  <1>3. Len(records) \in Nat /\ \A n \in 1..Len(records) : records[n] \in R
    <2> HIDE DEF R
    <2> QED BY <1>1
  <1>5. \A m, n \in 1..Len(records) :
            /\ records[m].type = "lapic" /\ records[n].type = "lapic"
            /\ records[m].apic_id = records[n].apic_id
            => m = n
    BY FirmwareAssumption
  <1> QED BY <1>1, <1>2, <1>3, <1>4, <1>5

-----------------------------------------------------------------------------
(* The beginning.                                                          *)

LEMMA BootInitially == KmainInit => BootInv
<1> SUFFICES ASSUME KmainInit PROVE BootInv
  OBVIOUS
<1> USE DEF KmainInit, SmpInit, At
<1>1. BootTypes
  <2>1. bsp \in Place
    BY DEF Place, BspPc, EarlyPc
  <2>2. info \in Info
    BY DEF Info, Cpu, MaybeNat
  <2>3. ap \in [ids -> ApState]
    BY DEF ApState, ApPc, MaybeNat
  <2>4. tasks_all \in BOOLEAN
    OBVIOUS
  <2> HIDE DEF KmainInit
  <2> QED BY <2>1, <2>2, <2>3, <2>4 DEF KmainInit, BootTypes, MaybeNat
<1>2. LapicsListed
  BY SmpAssumption DEF LapicsListed
<1>3. BspPlace
  BY Layout DEF BspPlace, LoopPc
<1>4. ApsWait
  BY DEF ApsWait, LoopPc
<1> DEFINE free == Memory \ Block(PML4)
<1>m. free \in SUBSET Frame /\ PML4 \notin free
  BY Frames DEF Block
<1>5. /\ IsTree(mem)
      /\ Tables(mem) = {}
      /\ \A u \in Page : Translate(mem, u) = NULL
  BY <1>m, EmptyTree
<1>6. Translations
  <2>1. ASSUME NEW v \in Page PROVE Expected(v) = NULL
    BY Layout DEF Expected, WindowMapped, OffsetMapped, LowMap
  <2> QED BY <2>1, <1>5 DEF Translations
<1>7. MemSound
  BY <1>5 DEF MemSound, HoldsStack
<1>k. KinitSound
  BY DEF KinitSound, VfsInit
<1>8. HasArgs = {}
  BY DEF HasArgs
<1>9. Held = {<<"root", 0, PML4>>}
  BY <1>8 DEF Held, Stacks, NewStack, HoldsStack, HeapBlocks
<1>10. Apart(Held, mem, Given)
  <2>1. Stock(mem) = free /\ Given = Memory
    BY <1>5 DEF Stock, Given
  <2>2. UNION {Block(x[3]) : x \in Held} = Block(PML4)
    BY <1>9
  <2> HIDE DEF KmainInit, SmpInit
  <2>3. \A x \in Held : x[3] = PML4
    BY <1>9
  <2>4. \A x, y \in Held : x = y
    BY <1>9
  <2>5. Block(PML4) \cup free = Memory /\ Block(PML4) \cap free = {}
    BY Frames
  <2> HIDE DEF free
  <2> QED BY <2>1, <2>2, <2>3, <2>4, <2>5, Frames DEF Apart
<1>11. OnTime
  BY <1>8, <1>10 DEF OnTime, OnlyCurrentReads, CounterTells, ArgsPassed, Starting, Waiting
<1> QED BY <1>1, <1>2, <1>3, <1>4, <1>6, <1>7, <1>k, <1>11 DEF BootInv

-----------------------------------------------------------------------------
(* Types.                                                                  *)

LEMMA NewBlock ==
    ASSUME IsTree(mem), HasRun(mem.free, 2)
    PROVE  /\ kmalloc(mem.free) \in Nat \ {0}
           /\ Block(kmalloc(mem.free)) \subseteq mem.free
  <1>1. mem.free \in SUBSET Nat
    BY TreeFacts, Frames
  <1> QED BY <1>1, GetsBlock

\* The record the loop is at.
LEMMA CurrentRecord ==
    ASSUME BootTypes, LapicsListed, bsp.i <= Len(lapics)
    PROVE  /\ bsp.i \in 1..Len(lapics) /\ Len(lapics) \in Nat
           /\ lapic = lapics[bsp.i] /\ lapic \in LapicRec
           /\ lapic.apic_id \in Nat /\ lapic.usable \in BOOLEAN
           /\ lapic.apic_id \in ids \cup {Bsp}
  <1>1. bsp.i \in Nat \ {0} /\ Len(lapics) \in Nat /\ lapics \in Seq(LapicRec)
    BY DEF BootTypes, Place
  <1>2. bsp.i \in 1..Len(lapics)
    BY <1>1
  <1>3. lapics[bsp.i] \in LapicRec
    BY <1>1, <1>2
  <1> QED BY <1>1, <1>2, <1>3 DEF lapic, LapicRec, LapicsListed

\* The entry of the cpu table that the loop is at.
LEMMA CurrentEntry ==
    ASSUME BootTypes, LapicsListed, BspPlace, bsp.pc \in LoopPc, bsp.i <= Len(lapics)
    PROVE  info.num_cpus \in 0..CPU_MAX-1
  <1>1. /\ bsp.i \in Nat /\ Len(lapics) \in Nat /\ info.num_cpus \in Nat /\ CPU_MAX \in Nat
    BY SmpAssumption DEF BootTypes, Place, Info
  <1>2. Len(lapics) <= CPU_MAX /\ info.num_cpus < bsp.i
    BY DEF LapicsListed, BspPlace
  <1> QED BY <1>1, <1>2

\* The bsp goes to pc, with the record i and the page or attempt k.
Moved(pc, i, k) == bsp' \in Place /\ bsp'.pc = pc /\ bsp'.i = i /\ bsp'.k = k

LEMMA BspMoves ==
    ASSUME BootTypes
    PROVE  /\ \A pc \in BspPc : Goto(pc) => Moved(pc, bsp.i, bsp.k)
           /\ NextRecord => Moved("next", bsp.i + 1, 0)
           /\ bsp' = [bsp EXCEPT !.k = @ + 1] => Moved(bsp.pc, bsp.i, bsp.k + 1)
           /\ bsp' = [bsp EXCEPT !.i = @ + 1] => Moved(bsp.pc, bsp.i + 1, bsp.k)
           /\ \A pc \in BspPc : bsp' = [bsp EXCEPT !.pc = pc, !.k = @ + 1] => Moved(pc, bsp.i, bsp.k + 1)
           /\ \A pc \in BspPc : bsp' = [bsp EXCEPT !.pc = pc, !.i = 1] => Moved(pc, 1, bsp.k)
           /\ \A pc \in BspPc : bsp' = [bsp EXCEPT !.pc = pc, !.k = 0] => Moved(pc, bsp.i, 0)
  <1>0. bsp \in Place
    BY DEF BootTypes
  <1>p. "next" \in BspPc /\ "poll" \in BspPc /\ "map" \in BspPc
    BY DEF BspPc, LoopPc, EarlyPc
  <1>1. ASSUME NEW pc \in BspPc, Goto(pc)
        PROVE  Moved(pc, bsp.i, bsp.k)
    BY <1>0, <1>1 DEF Goto, Moved, Place
  <1>2. ASSUME NEW pc \in BspPc, bsp' = [bsp EXCEPT !.pc = pc, !.i = @ + 1, !.k = 0]
        PROVE  Moved(pc, bsp.i + 1, 0)
    <2> DEFINE j == bsp.i + 1
    <2>1. j \in Nat \ {0} /\ bsp' = [bsp EXCEPT !.pc = pc, !.i = j, !.k = 0]
      BY <1>0, <1>2 DEF Place
    <2> HIDE DEF j
    <2>2. Moved(pc, j, 0)
      BY <1>0, <2>1 DEF Moved, Place
    <2> QED BY <2>2 DEF j
  <1>3. ASSUME bsp' = [bsp EXCEPT !.k = @ + 1]
        PROVE  Moved(bsp.pc, bsp.i, bsp.k + 1)
    BY <1>0, <1>3 DEF Moved, Place
  <1>4. ASSUME bsp' = [bsp EXCEPT !.i = @ + 1]
        PROVE  Moved(bsp.pc, bsp.i + 1, bsp.k)
    BY <1>0, <1>4 DEF Moved, Place
  <1>5. ASSUME NEW pc \in BspPc, bsp' = [bsp EXCEPT !.pc = pc, !.k = @ + 1]
        PROVE  Moved(pc, bsp.i, bsp.k + 1)
    <2> DEFINE j == bsp.k + 1
    <2>1. j \in Nat /\ bsp' = [bsp EXCEPT !.pc = pc, !.k = j]
      BY <1>0, <1>5 DEF Place
    <2> HIDE DEF j
    <2>2. Moved(pc, bsp.i, j)
      BY <1>0, <2>1 DEF Moved, Place
    <2> QED BY <2>2 DEF j
  <1>6. ASSUME NEW pc \in BspPc, bsp' = [bsp EXCEPT !.pc = pc, !.i = 1]
        PROVE  Moved(pc, 1, bsp.k)
    <2>1. 1 \in Nat \ {0}
      OBVIOUS
    <2> DEFINE j == 1
    <2>3. j \in Nat \ {0} /\ bsp' = [bsp EXCEPT !.pc = pc, !.i = j]
      BY <1>6
    <2> HIDE DEF j
    <2>2. Moved(pc, j, bsp.k)
      BY <1>0, <2>3 DEF Moved, Place
    <2> QED BY <2>2 DEF j
  <1>7. ASSUME NEW pc \in BspPc, bsp' = [bsp EXCEPT !.pc = pc, !.k = 0]
        PROVE  Moved(pc, bsp.i, 0)
    BY <1>0, <1>7 DEF Moved, Place
  <1> QED BY <1>p, <1>1, <1>2, <1>3, <1>4, <1>5, <1>6, <1>7 DEF NextRecord

\* The ap id goes to pc, the others stay where they are.
ApMoved(id, pc, rsp, cpuinfo) ==
    /\ ap' \in [ids -> ApState]
    /\ \A other \in ids \ {id} : ap'[other] = ap[other]
    /\ ap'[id].pc = pc /\ ap'[id].rsp = rsp /\ ap'[id].cpuinfo = cpuinfo

LEMMA ApMoves ==
    ASSUME BootTypes, NEW id \in ids, NEW pc \in ApPc
    PROVE  /\ ApAt(id, pc) => ApMoved(id, pc, ap[id].rsp, ap[id].cpuinfo)
           /\ ap' = [ap EXCEPT ![id].pc = pc, ![id].rsp = arg_rsp]
                  => ApMoved(id, pc, arg_rsp, ap[id].cpuinfo)
           /\ ap' = [ap EXCEPT ![id].pc = pc, ![id].cpuinfo = arg_cpuinfo]
                  => ApMoved(id, pc, ap[id].rsp, arg_cpuinfo)
  <1>0. /\ ap \in [ids -> ApState] /\ ap[id] \in ApState
        /\ arg_rsp \in MaybeNat /\ arg_cpuinfo \in MaybeNat
    BY DEF BootTypes
  <1>1. ASSUME ApAt(id, pc)
        PROVE  ApMoved(id, pc, ap[id].rsp, ap[id].cpuinfo)
    BY <1>0, <1>1 DEF ApAt, ApMoved, ApState
  <1>2. ASSUME ap' = [ap EXCEPT ![id].pc = pc, ![id].rsp = arg_rsp]
        PROVE  ApMoved(id, pc, arg_rsp, ap[id].cpuinfo)
    BY <1>0, <1>2 DEF ApMoved, ApState
  <1>3. ASSUME ap' = [ap EXCEPT ![id].pc = pc, ![id].cpuinfo = arg_cpuinfo]
        PROVE  ApMoved(id, pc, ap[id].rsp, arg_cpuinfo)
    BY <1>0, <1>3 DEF ApMoved, ApState
  <1> QED BY <1>1, <1>2, <1>3

\* Entry n of the cpu table gets the id, and m entries are used.
Entered(n, id, m) ==
    /\ info' \in Info
    /\ info'.num_cpus = m
    /\ info'.cpus[n].lapic_id = id
    /\ \A c \in (0..CPU_MAX-1) \ {n} : info'.cpus[c] = info.cpus[c]

LEMMA InfoMoves ==
    ASSUME BootTypes, NEW n, n = info.num_cpus, n \in 0..CPU_MAX-1, NEW id \in Nat
    PROVE  /\ \A flag \in BOOLEAN, m \in Nat :
                info' = [info EXCEPT !.cpus[n].lapic_id = id, !.cpus[n].is_bsp = @ \/ flag,
                                     !.num_cpus = m]
                  => Entered(n, id, m)
           /\ info' = [info EXCEPT !.cpus[n].is_bsp = FALSE, !.num_cpus = @ + 1]
                  => Entered(n, info.cpus[n].lapic_id, n + 1)
  <1>0. /\ info \in Info /\ info.cpus \in [0..CPU_MAX-1 -> Cpu] /\ info.cpus[n] \in Cpu
        /\ info.num_cpus \in Nat
    BY DEF BootTypes, Info
  <1>1. ASSUME NEW flag \in BOOLEAN, NEW m \in Nat,
               info' = [info EXCEPT !.cpus[n].lapic_id = id, !.cpus[n].is_bsp = @ \/ flag,
                                    !.num_cpus = m]
        PROVE  Entered(n, id, m)
    <2> DEFINE cpu == [info.cpus[n] EXCEPT !.lapic_id = id, !.is_bsp = @ \/ flag]
    <2>1. cpu \in Cpu /\ cpu.lapic_id = id
      <3>1. info.cpus[n].is_bsp \/ flag \in BOOLEAN
        OBVIOUS
      <3> QED BY <1>0, <3>1 DEF Cpu, MaybeNat
    <2>2. info' = [info EXCEPT !.cpus[n] = cpu, !.num_cpus = m]
      BY <1>0, <1>1 DEF Info
    <2> HIDE DEF cpu
    <2> QED BY <1>0, <2>1, <2>2 DEF Entered, Info
  <1>2. ASSUME info' = [info EXCEPT !.cpus[n].is_bsp = FALSE, !.num_cpus = @ + 1]
        PROVE  Entered(n, info.cpus[n].lapic_id, n + 1)
    <2> DEFINE cpu == [info.cpus[n] EXCEPT !.is_bsp = FALSE]
               m   == n + 1
    <2>1. cpu \in Cpu /\ cpu.lapic_id = info.cpus[n].lapic_id
      BY <1>0 DEF Cpu
    <2>3. m \in Nat /\ m = n + 1
      BY <1>0
    <2>2. info' = [info EXCEPT !.cpus[n] = cpu, !.num_cpus = m]
      BY <1>0, <1>2 DEF Info
    <2> HIDE DEF m
    <2> HIDE DEF cpu
    <2> QED BY <1>0, <2>1, <2>2, <2>3 DEF Entered, Info
  <1> QED BY <1>1, <1>2

\* Where an ap's steps lead.
ApGoes(id, pc) == ApMoved(id, pc, ap[id].rsp, ap[id].cpuinfo)

LEMMA ApSteps ==
    ASSUME BootTypes, NEW id \in ids
    PROVE  /\ EnterLongMode(id) => ApGoes(id, "rsp")
           /\ ReadRsp(id) => ApMoved(id, "cpuinfo", arg_rsp, ap[id].cpuinfo)
           /\ ReadCpuinfo(id) => ApMoved(id, "count", ap[id].rsp, arg_cpuinfo)
           /\ CountUp(id) => ApGoes(id, "call")
           /\ TrampolineFault(id) => \/ ap[id].pc \in Waiting /\ ApGoes(id, "fault")
                                     \/ ap[id].pc = "call" /\ ApGoes(id, "lost")
           /\ smp_ap_entrypoint(id) => ap[id].pc = "call" /\ ApGoes(id, "task_t")
           /\ task_make(id) => \/ ap[id].pc = "task_t" /\ ApGoes(id, "kstack")
                               \/ ap[id].pc = "kstack" /\ ApGoes(id, "add")
           /\ sched_add(id) => ap[id].pc = "add" /\ ApGoes(id, "up")
  <1>1. /\ "rsp" \in ApPc /\ "cpuinfo" \in ApPc /\ "count" \in ApPc
        /\ "call" \in ApPc /\ "fault" \in ApPc /\ "up" \in ApPc
        /\ "task_t" \in ApPc /\ "kstack" \in ApPc /\ "add" \in ApPc /\ "lost" \in ApPc
    BY DEF ApPc, Waiting, Called
  <1>2. EnterLongMode(id) => ApGoes(id, "rsp")
    BY <1>1, ApMoves DEF EnterLongMode, ApGoes
  <1>3. ReadRsp(id) => ApMoved(id, "cpuinfo", arg_rsp, ap[id].cpuinfo)
    BY <1>1, ApMoves DEF ReadRsp
  <1>4. ReadCpuinfo(id) => ApMoved(id, "count", ap[id].rsp, arg_cpuinfo)
    BY <1>1, ApMoves DEF ReadCpuinfo
  <1>5. CountUp(id) => ApGoes(id, "call")
    BY <1>1, ApMoves DEF CountUp, ApGoes
  <1>6. TrampolineFault(id) => \/ ap[id].pc \in Waiting /\ ApGoes(id, "fault")
                               \/ ap[id].pc = "call" /\ ApGoes(id, "lost")
    BY <1>1, ApMoves DEF TrampolineFault, ApGoes, Waiting
  <1>7. smp_ap_entrypoint(id) => ap[id].pc = "call" /\ ApGoes(id, "task_t")
    BY <1>1, ApMoves DEF smp_ap_entrypoint, ApTakes, ApGoes
  <1>8. task_make(id) => \/ ap[id].pc = "task_t" /\ ApGoes(id, "kstack")
                         \/ ap[id].pc = "kstack" /\ ApGoes(id, "add")
    BY <1>1, ApMoves DEF task_make, ApTakes, ApGoes
  <1>9. sched_add(id) => ap[id].pc = "add" /\ ApGoes(id, "up")
    BY <1>1, ApMoves DEF sched_add, ApGoes
  <1> QED BY <1>2, <1>3, <1>4, <1>5, <1>6, <1>7, <1>8, <1>9

\* The steps of an ap in the kernel, one of which may take a block.
InKernel(id) == smp_ap_entrypoint(id) \/ task_make(id) \/ sched_add(id)

LEMMA KernelSteps ==
    ASSUME NEW id \in ids, InKernel(id)
    PROVE  /\ ApUnchanged /\ UNCHANGED ap_boot_counter
           /\ Take \/ UNCHANGED <<mem, heap>>
  BY DEF InKernel, smp_ap_entrypoint, task_make, ApTakes, sched_add

\* Where the bsp's steps lead.
LEMMA BspSteps ==
    ASSUME BootTypes
    PROVE  /\ \A v, n : vmm_map(v, n) => Moved(bsp.pc, bsp.i, bsp.k + 1)
           /\ \A n : \A pc \in BspPc : Mapped(n, pc) => Moved(pc, bsp.i, 0)
           /\ madt_init => Moved("madt", bsp.i + 1, bsp.k) \/ Moved("map", 1, bsp.k)
           /\ NextLapic => Moved("next", bsp.i + 1, 0) \/ Moved("stack", bsp.i, bsp.k)
           /\ PassStack => Moved("init", bsp.i, bsp.k)
           /\ SendInit => Moved("sipi", bsp.i, bsp.k)
           /\ SendStartup => Moved("poll", bsp.i, bsp.k + 1)
           /\ PollAnswered => Moved("next", bsp.i + 1, 0)
           /\ PollTimeout => Moved("sipi", bsp.i, bsp.k) \/ Moved("next", bsp.i + 1, 0)
           /\ UnmapLow => Moved("unmap", bsp.i, bsp.k + 1)
           /\ EndLoop => Moved("unmap", bsp.i, bsp.k) \/ Moved("done", bsp.i, bsp.k)
  <1>p. /\ "map" \in BspPc /\ "stack" \in BspPc /\ "init" \in BspPc /\ "sipi" \in BspPc
        /\ "poll" \in BspPc /\ "unmap" \in BspPc /\ "done" \in BspPc
    BY DEF BspPc, EarlyPc, LoopPc
  <1>1. \A v, n : vmm_map(v, n) => Moved(bsp.pc, bsp.i, bsp.k + 1)
    BY BspMoves DEF vmm_map
  <1>2. \A n : \A pc \in BspPc : Mapped(n, pc) => Moved(pc, bsp.i, 0)
    BY BspMoves DEF Mapped
  <1>3. madt_init => Moved("madt", bsp.i + 1, bsp.k) \/ Moved("map", 1, bsp.k)
    BY <1>p, BspMoves DEF madt_init, At
  <1>4. NextLapic => Moved("next", bsp.i + 1, 0) \/ Moved("stack", bsp.i, bsp.k)
    BY <1>p, BspMoves DEF NextLapic
  <1>5. PassStack => Moved("init", bsp.i, bsp.k)
    BY <1>p, BspMoves DEF PassStack
  <1>6. SendInit => Moved("sipi", bsp.i, bsp.k)
    BY <1>p, BspMoves DEF SendInit
  <1>7. SendStartup => Moved("poll", bsp.i, bsp.k + 1)
    BY <1>p, BspMoves DEF SendStartup
  <1>8. PollAnswered => Moved("next", bsp.i + 1, 0)
    BY BspMoves DEF PollAnswered
  <1>9. PollTimeout => Moved("sipi", bsp.i, bsp.k) \/ Moved("next", bsp.i + 1, 0)
    BY <1>p, BspMoves DEF PollTimeout
  <1>10. UnmapLow => Moved("unmap", bsp.i, bsp.k + 1)
    BY BspMoves DEF UnmapLow, At
  <1>11. EndLoop => Moved("unmap", bsp.i, bsp.k) \/ Moved("done", bsp.i, bsp.k)
    BY <1>p, BspMoves DEF EndLoop
  <1> QED BY <1>1, <1>2, <1>3, <1>4, <1>5, <1>6, <1>7, <1>8, <1>9, <1>10, <1>11

\* The file that kinit closes: its block is freed.
Closes == /\ unpack.pc = "close"
          /\ mem' = [mem EXCEPT !.free = @ \cup Block(desc)]
          /\ heap' = heap \ {desc}

\* The initrd is freed.
Ends == /\ mem' = [mem EXCEPT !.free = @ \cup Initrd]
        /\ kinit' = "run"

\* An ap's step changes nothing of the bsp's and of the other aps.
LEMMA ApBoots ==
    ASSUME BootTypes, NEW id \in ids, ap_boot(id)
    PROVE  /\ UNCHANGED <<madt, lapics, bsp, counter_prev, stack, arg_rsp, arg_cpuinfo, info, failed>>
           /\ ap' \in [ids -> ApState]
           /\ \A other \in ids \ {id} : ap'[other] = ap[other]
           /\ ap[id].pc \in Waiting \cup {"call", "task_t", "kstack", "add"}
           /\ ap'[id].pc \in (Waiting \cup Called \cup {"fault"}) \ {"start"}
  <1> USE DEF ApUnchanged, acpi, locals, args, ApMoved, ApGoes, Waiting, Called
  <1>1. CASE EnterLongMode(id) \/ ReadRsp(id) \/ ReadCpuinfo(id) \/ CountUp(id)
    BY <1>1, ApSteps DEF EnterLongMode, ReadRsp, ReadCpuinfo, CountUp
  <1>2. CASE TrampolineFault(id)
    BY <1>2, ApSteps DEF TrampolineFault
  <1>3. CASE InKernel(id)
    BY <1>3, ApSteps, KernelSteps DEF InKernel
  <1> QED BY <1>1, <1>2, <1>3 DEF ap_boot, InKernel

\* What a step that is not one of smp_init's and of the aps' leaves alone.
LEMMA LaterSteps ==
    ASSUME [KmainNext]_bootVars
    PROVE  \/ bsp_boot /\ UNCHANGED <<kmain, kinit>>
           \/ (\E id \in ids : ap_boot(id)) /\ UNCHANGED <<kmain, kinit>>
           \/ UNCHANGED <<smpIdle, kept, kinit>> /\ pmm_reclaim_bootloader_mem
           \/ /\ UNCHANGED <<smpIdle, kmain, kinit>> /\ Take /\ tasks_all' \in {tasks_all, TRUE}
              /\ kmain = "sched_init" \/ kinit = "initrd_init" \/ Runs
           \/ UNCHANGED <<smpIdle, tasks_all, kmain, kinit>> /\ kinit = "initrd_init" /\ Closes
           \/ UNCHANGED <<smpIdle, kept, kmain>> /\ kinit = "initrd_init" /\ Ends
           \/ /\ UNCHANGED <<smpIdle, mem, kept, kmain>>
              /\ UNCHANGED kinit \/ (kinit # "run" /\ kinit' # "run")
  <1>1. CASE SmpNext /\ UNCHANGED <<vfsVars, kmain, kinit, taken, desc>>
    BY <1>1 DEF SmpNext
  <1>2. CASE pmm_reclaim_bootloader_mem
    BY <1>2 DEF pmm_reclaim_bootloader_mem
  <1>3. CASE sched_init
    BY <1>3 DEF sched_init
  <1>4. CASE klog_show
    BY <1>4 DEF klog_show, Takes, Took, kept
  <1>5. CASE FindModules
    BY <1>5 DEF FindModules, smpVars, smpIdle, kept
  <1>6. CASE initrd_init
    <2>1. CASE UNCHANGED <<smpIdle, kmain, kinit>> /\ Take /\ UNCHANGED tasks_all
      BY <2>1, <1>6 DEF initrd_init
    <2>2. CASE /\ UNCHANGED <<smpIdle, tasks_all, kmain, kinit>>
               /\ UNCHANGED <<mem, heap>> \/ Closes
      BY <2>2, <1>6 DEF kept, initrd_init
    <2>3. CASE UNCHANGED <<smpIdle, kept, kmain>> /\ Ends
      BY <2>3, <1>6 DEF initrd_init
    <2> QED BY <1>6, <2>1, <2>2, <2>3 DEF initrd_init, Takes, Took, Closes, Ends
  <1>7. CASE TasksCall
    BY <1>7 DEF TasksCall, smpVars, smpIdle, kept
  <1>8. CASE UNCHANGED bootVars
    BY <1>8 DEF bootVars, smpVars, smpIdle, kept
  <1> QED BY <1>1, <1>2, <1>3, <1>4, <1>5, <1>6, <1>7, <1>8 DEF KmainNext

\* All of them come after the memory of the bootloader was reclaimed.
LEMMA Reclaimed ==
    ASSUME KinitSound, kmain = "sched_init" \/ kinit = "initrd_init" \/ Runs
    PROVE  kmain # "boot"
  BY DEF KinitSound, Runs

LEMMA TakeKeeps ==
    ASSUME BootTypes, IsTree(mem), Take
    PROVE  heap' \subseteq Nat \ {0}
  BY NewBlock DEF BootTypes, Take

LEMMA TypesNext ==
    ASSUME BootTypes, LapicsListed, BspPlace, IsTree(mem), [KmainNext]_bootVars
    PROVE  BootTypes'
  <1>0. /\ bsp \in Place /\ info \in Info /\ ap \in [ids -> ApState] /\ failed \in SUBSET ids
        /\ stack \in MaybeNat /\ arg_rsp \in MaybeNat /\ arg_cpuinfo \in MaybeNat
        /\ counter_prev \in Nat /\ ap_boot_counter \in Nat /\ info.num_cpus \in Nat
        /\ lapics \in Seq(LapicRec)
    BY DEF BootTypes, Info
  <1>p. /\ "memory" \in BspPc /\ "madt" \in BspPc /\ "map" \in BspPc /\ "next" \in BspPc
        /\ "stack" \in BspPc /\ "init" \in BspPc /\ "sipi" \in BspPc /\ "poll" \in BspPc
        /\ "unmap" \in BspPc /\ "done" \in BspPc
    BY DEF BspPc, EarlyPc, LoopPc
  <1>q. /\ "reset" \in ApPc /\ "start" \in ApPc /\ "rsp" \in ApPc /\ "cpuinfo" \in ApPc
        /\ "count" \in ApPc
    BY DEF ApPc, Waiting
  <1>m. /\ \A pc, i, k : Moved(pc, i, k) => bsp' \in Place
        /\ \A id, pc, rsp, cpuinfo : ApMoved(id, pc, rsp, cpuinfo) => ap' \in [ids -> ApState]
        /\ \A n, id, m : Entered(n, id, m) => info' \in Info
    BY DEF Moved, ApMoved, Entered
  <1> USE DEF acpi, smpLocals, locals, args, memory, kept
  <1>1. CASE (vmm_init \/ MapLow \/ PrepareTrampoline \/ EndLoop) /\ UNCHANGED <<kmain, kinit>>
    <2>1. bsp' \in Place
      BY <1>1, <1>p, <1>m, BspMoves
         DEF vmm_init, MapLow, PrepareTrampoline, EndLoop, vmm_map, Mapped
    <2> QED BY <1>1, <2>1 DEF vmm_init, MapLow, PrepareTrampoline, EndLoop, BootTypes
  <1>2. CASE madt_init /\ UNCHANGED <<kmain, kinit>>
    <2>1. bsp' \in Place
      BY <1>2, <1>p, <1>m, BspMoves DEF madt_init
    <2>2. lapics' \in Seq(LapicRec)
      <3>1. CASE UNCHANGED lapics
        BY <1>0, <3>1
      <3>2. CASE /\ bsp.i <= Len(madt)
                 /\ madt[bsp.i].type = "lapic"
                 /\ lapics' = Append(lapics, madt[bsp.i])
        <4>1. madt \in Firmware /\ bsp.i \in Nat \ {0}
          BY <1>0 DEF BootTypes, Place
        <4>2. madt[bsp.i] \in LapicRec
          BY <3>2, <4>1, MadtRecords
        <4> QED BY <1>0, <3>2, <4>2
      <3> QED BY <1>2, <3>1, <3>2 DEF madt_init
    <2> QED BY <1>2, <2>1, <2>2 DEF madt_init, BootTypes
  <1>3. CASE NextLapic /\ UNCHANGED <<kmain, kinit>>
    <2>1. bsp' \in Place
      BY <1>3, <1>p, <1>m, BspMoves DEF NextLapic
    <2>2. info' \in Info
      <3>1. CASE UNCHANGED info
        BY <1>0, <3>1
      <3>2. CASE lapic.usable
        <4> DEFINE n == info.num_cpus
                   isBsp == lapic.apic_id = ApicIdReg
                   m == IF isBsp THEN n+1 ELSE n
        <4>1. n \in 0..CPU_MAX-1 /\ lapic.apic_id \in Nat /\ isBsp \in BOOLEAN /\ m \in Nat
          BY <1>3, <1>0, CurrentEntry, CurrentRecord DEF NextLapic, At, LoopPc
        <4>2. info' = [info EXCEPT !.cpus[n].lapic_id = lapic.apic_id,
                                   !.cpus[n].is_bsp = @ \/ isBsp,
                                   !.num_cpus = m]
          BY <1>3, <3>2 DEF NextLapic
        <4>3. n = info.num_cpus
          OBVIOUS
        <4> HIDE DEF n, isBsp, m
        <4> QED BY <4>1, <4>2, <4>3, <1>m, InfoMoves
      <3> QED BY <1>3, <3>1, <3>2 DEF NextLapic
    <2> QED BY <1>0, <1>3, <2>1, <2>2 DEF NextLapic, BootTypes
  <1>4. CASE PassStack /\ UNCHANGED <<kmain, kinit>>
    <2>1. bsp' \in Place
      BY <1>4, <1>p, <1>m, BspMoves DEF PassStack
    <2>2. stack' \in MaybeNat /\ arg_rsp' \in MaybeNat
      BY <1>4, NewBlock DEF PassStack, MaybeNat
    <2> QED BY <1>4, <2>1, <2>2 DEF PassStack, BootTypes
  <1>5. CASE SendInit /\ UNCHANGED <<kmain, kinit>>
    <2>1. bsp' \in Place
      BY <1>5, <1>p, <1>m, BspMoves DEF SendInit
    <2>2. lapic.apic_id \in ids
      BY <1>5 DEF SendInit, At, BspPlace, LoopPc
    <2>3. ap' \in [ids -> ApState]
      BY <1>5, <1>q, <1>m, <2>2, ApMoves DEF SendInit
    <2> QED BY <1>0, <1>5, <2>1, <2>3 DEF SendInit, BootTypes, MaybeNat
  <1>6. CASE SendStartup /\ UNCHANGED <<kmain, kinit>>
    <2>1. bsp' \in Place
      BY <1>6, <1>p, <1>m, BspMoves DEF SendStartup
    <2>2. lapic.apic_id \in ids
      BY <1>6 DEF SendStartup, At, BspPlace, LoopPc
    <2>5. UNCHANGED ap \/ ApAt(lapic.apic_id, "start")
      BY <1>6 DEF SendStartup
    <2>3. ap' \in [ids -> ApState]
      BY <1>0, <1>q, <1>m, <2>2, <2>5, ApMoves
    <2>4. UNCHANGED <<madt, lapics, counter_prev, stack, arg_rsp, arg_cpuinfo,
                      ap_boot_counter, info, failed, tasks_all, heap>>
      BY <1>6 DEF SendStartup
    <2> QED BY <1>0, <2>1, <2>3, <2>4 DEF BootTypes
  <1>7. CASE PollAnswered /\ UNCHANGED <<kmain, kinit>>
    <2>1. bsp' \in Place
      BY <1>7, <1>p, <1>m, BspMoves DEF PollAnswered
    <2>2. info' \in Info
      <3> DEFINE n == info.num_cpus
      <3>1. n \in 0..CPU_MAX-1 /\ 0 \in Nat
        BY <1>7, CurrentEntry DEF PollAnswered, At, BspPlace, LoopPc
      <3>2. info' = [info EXCEPT !.cpus[n].is_bsp = FALSE, !.num_cpus = @ + 1]
        BY <1>7 DEF PollAnswered
      <3>3. n = info.num_cpus
        OBVIOUS
      <3> HIDE DEF n
      <3> QED BY <3>1, <3>2, <3>3, <1>m, InfoMoves
    <2> QED BY <1>0, <1>7, <2>1, <2>2 DEF PollAnswered, BootTypes
  <1>8. CASE PollTimeout /\ UNCHANGED <<kmain, kinit>>
    <2>1. bsp' \in Place
      BY <1>8, <1>p, <1>m, BspMoves DEF PollTimeout
    <2>2. lapic.apic_id \in ids
      BY <1>8 DEF PollTimeout, At, BspPlace, LoopPc
    <2>3. failed' \in SUBSET ids
      BY <1>0, <1>8, <2>2 DEF PollTimeout
    <2> QED BY <1>0, <1>8, <2>1, <2>3 DEF PollTimeout, BootTypes
  <1>9. CASE UnmapLow /\ UNCHANGED <<kmain, kinit>>
    <2>1. bsp' \in Place
      BY <1>9, <1>p, <1>m, BspMoves DEF UnmapLow
    <2> QED BY <1>0, <1>9, <2>1 DEF UnmapLow, BootTypes
  <1>10. CASE (\E id \in ids : ap_boot(id)) /\ UNCHANGED <<kmain, kinit>>
    <2>1. PICK id \in ids : ap_boot(id)
      BY <1>10
    <2> USE DEF ApUnchanged
    <2>2. CASE EnterLongMode(id) \/ ReadRsp(id) \/ ReadCpuinfo(id) \/ TrampolineFault(id)
      <3>1. ap' \in [ids -> ApState]
        BY <2>2, ApSteps, <1>m DEF ApGoes
      <3> QED BY <1>0, <1>10, <2>2, <3>1
              DEF EnterLongMode, ReadRsp, ReadCpuinfo, TrampolineFault, BootTypes
    <2>3. CASE CountUp(id)
      <3>1. ap' \in [ids -> ApState]
        BY <2>3, ApSteps, <1>m DEF ApGoes
      <3> QED BY <1>0, <1>10, <2>3, <3>1 DEF CountUp, BootTypes
    <2>4. CASE InKernel(id)
      <3>1. ap' \in [ids -> ApState]
        BY <2>4, ApSteps, <1>m DEF InKernel, ApGoes
      <3>2. heap' \subseteq Nat \ {0}
        BY <2>4, KernelSteps, TakeKeeps DEF BootTypes
      <3>3. tasks_all' \in BOOLEAN
        BY <2>4 DEF InKernel, smp_ap_entrypoint, task_make, ApTakes, sched_add, BootTypes
      <3> QED BY <1>0, <2>4, <3>1, <3>2, <3>3, KernelSteps DEF BootTypes
    <2> QED BY <2>1, <2>2, <2>3, <2>4 DEF ap_boot, InKernel
  <1>11. CASE UNCHANGED smpIdle /\ UNCHANGED kept
    BY <1>11 DEF BootTypes, smpIdle
  <1>12. CASE UNCHANGED smpIdle /\ Take /\ tasks_all' \in {tasks_all, TRUE}
    BY <1>12, TakeKeeps DEF BootTypes, smpIdle
  <1>13. CASE UNCHANGED smpIdle /\ UNCHANGED tasks_all /\ Closes
    BY <1>13 DEF BootTypes, smpIdle, Closes
  <1> QED BY <1>1, <1>2, <1>3, <1>4, <1>5, <1>6, <1>7, <1>8, <1>9, <1>10, <1>11, <1>12, <1>13,
             LaterSteps DEF bsp_boot, smp_init

-----------------------------------------------------------------------------
(* The table of the lapics, and the place of the bsp.                      *)

\* The bsp and the tables it reads stay as they are.
LEMMA BspWaits ==
    ASSUME [KmainNext]_bootVars
    PROVE  bsp_boot \/ UNCHANGED <<madt, lapics, bsp, counter_prev, stack, arg_rsp, arg_cpuinfo,
                                   info, failed>>
  BY LaterSteps, KernelSteps
     DEF ap_boot, EnterLongMode, ReadRsp, ReadCpuinfo, CountUp, TrampolineFault,
         InKernel, ApUnchanged, acpi, locals, args, smpIdle

LEMMA ListedNext ==
    ASSUME BootTypes, LapicsListed, [KmainNext]_bootVars
    PROVE  LapicsListed'
  <1>0. /\ bsp.i \in Nat \ {0} /\ bsp.k \in Nat /\ lapics \in Seq(LapicRec) /\ Len(lapics) \in Nat
        /\ madt \in Firmware
    BY DEF BootTypes, Place
  <1>1. CASE madt_init
    <2>0. /\ madt' = madt /\ At("madt")
          /\ Moved("madt", bsp.i + 1, bsp.k) \/ Moved("map", 1, bsp.k)
      BY <1>1, BspSteps DEF madt_init
    <2>1. Len(madt) \in Nat
      BY <1>0, MadtRecords
    <2>2. CASE bsp.i > Len(madt)
      <3>1. Moved("map", 1, bsp.k) /\ UNCHANGED lapics
        <4>1. ~(bsp.i <= Len(madt)) /\ "map" \in BspPc
          BY <2>1, <2>2, <1>0 DEF BspPc, EarlyPc
        <4> QED BY <1>1, <4>1, BspMoves DEF madt_init
      <3> QED BY <3>1 DEF LapicsListed, Moved, At
    <2>3. CASE bsp.i <= Len(madt)
      <3>1. Moved("madt", bsp.i + 1, bsp.k)
        BY <1>1, <2>0, <2>3, BspMoves DEF madt_init, At
      <3>2. bsp.i \in 1..Len(madt)
        BY <1>0, <2>1, <2>3
      <3>3. CASE UNCHANGED lapics
        <4>1. At("madt")' /\ bsp'.i = bsp.i + 1 /\ At("madt")
          BY <2>0, <3>1 DEF Moved, At
        <4> QED BY <4>1, <1>0, <2>0, <2>1, <3>3 DEF LapicsListed, At
      <3>4. CASE /\ madt[bsp.i].type = "lapic" /\ Len(lapics) < CPU_MAX
                 /\ lapics' = Append(lapics, madt[bsp.i])
        <4>1. At("madt")' /\ bsp'.i = bsp.i + 1 /\ At("madt")
          BY <2>0, <3>1 DEF Moved, At
        <4>2. /\ madt[bsp.i] \in LapicRec /\ madt[bsp.i].apic_id \in ids \cup {Bsp}
              /\ \A m, n \in 1..Len(madt) :
                    /\ madt[m].type = "lapic" /\ madt[n].type = "lapic"
                    /\ madt[m].apic_id = madt[n].apic_id
                    => m = n
          BY <1>0, <3>2, <3>4, MadtRecords
        <4> DEFINE L == Len(lapics)
        <4>3. /\ L \in Nat /\ Len(lapics') = L + 1
              /\ \A j \in 1..L : lapics'[j] = lapics[j] /\ lapics[j] \in LapicRec
              /\ lapics'[L+1] = madt[bsp.i]
          BY <1>0, <3>4, <4>2
        <4>4. \A j \in 1..Len(lapics') : j \in 1..L \/ j = L+1
          BY <4>3
        <4>5. \A j \in 1..L : \E n \in 1..Len(madt) : n < bsp.i /\ lapics[j] = madt[n]
          BY <4>1 DEF LapicsListed
        <4>6. Len(lapics') <= CPU_MAX
          BY <4>3, <3>4, SmpAssumption
        <4>7. \A j \in 1..Len(lapics') : lapics'[j].apic_id \in ids \cup {Bsp}
          BY <4>2, <4>3, <4>4 DEF LapicsListed
        <4>8. ASSUME NEW j \in 1..L
              PROVE  lapics'[j].apic_id # lapics'[L+1].apic_id
          <5>1. PICK n \in 1..Len(madt) : n < bsp.i /\ lapics[j] = madt[n]
            BY <4>5
          <5>2. madt[n].type = "lapic"
            BY <5>1, <4>3 DEF LapicRec
          <5> QED BY <5>1, <5>2, <4>2, <4>3, <3>2, <3>4, <1>0
        <4>9. \A j, k \in 1..Len(lapics') : lapics'[j].apic_id = lapics'[k].apic_id => j = k
          <5> SUFFICES ASSUME NEW j \in 1..Len(lapics'), NEW k \in 1..Len(lapics'),
                              lapics'[j].apic_id = lapics'[k].apic_id
                       PROVE  j = k
            OBVIOUS
          <5>1. CASE j \in 1..L /\ k \in 1..L
            BY <5>1, <4>3 DEF LapicsListed
          <5> QED BY <5>1, <4>4, <4>8
        <4>10. \A j \in 1..Len(lapics') : \E n \in 1..Len(madt) :
                  n < bsp.i + 1 /\ lapics'[j] = madt[n]
          <5>1. ASSUME NEW j \in 1..L
                PROVE  \E n \in 1..Len(madt) : n < bsp.i + 1 /\ lapics'[j] = madt[n]
            <6>1. PICK n \in 1..Len(madt) : n < bsp.i /\ lapics[j] = madt[n]
              BY <4>5
            <6>2. n < bsp.i + 1
              BY <6>1, <1>0
            <6> QED BY <6>1, <6>2, <4>3
          <5>2. bsp.i < bsp.i + 1
            BY <1>0
          <5> QED BY <5>1, <5>2, <4>3, <4>4, <3>2
        <4> QED BY <4>1, <4>6, <4>7, <4>9, <4>10, <2>0 DEF LapicsListed, At
      <3> QED BY <1>1, <2>3, <3>3, <3>4 DEF madt_init
    <2> QED BY <1>0, <2>1, <2>2, <2>3
  <1>2. CASE vmm_init
    <2>1. UNCHANGED <<madt, lapics>> /\ bsp.pc \in {"window", "memory"}
      BY <1>2 DEF vmm_init, acpi, At
    <2>2. bsp'.i = bsp.i /\ bsp'.pc \in {"window", "memory", "madt"}
      <3>1. \/ Moved(bsp.pc, bsp.i, bsp.k + 1) \/ Moved("memory", bsp.i, 0)
            \/ Moved("madt", bsp.i, 0)
        BY <1>2, BspSteps DEF vmm_init, BspPc, EarlyPc
      <3> QED BY <3>1, <2>1 DEF Moved
    <2>3. lapics = <<>> /\ bsp.i = 1 /\ Len(lapics) = 0
      BY <2>1 DEF LapicsListed
    <2> QED BY <2>1, <2>2, <2>3, SmpAssumption DEF LapicsListed, At
  <1>3. CASE smp_init
    <2>1. UNCHANGED <<madt, lapics>>
      BY <1>3 DEF smp_init, MapLow, PrepareTrampoline, NextLapic, PassStack, SendInit, SendStartup,
            PollAnswered, PollTimeout, UnmapLow, EndLoop, acpi
    <2>2. bsp'.pc \notin {"window", "memory", "madt"}
      <3>1. CASE MapLow
        BY <3>1, BspSteps DEF MapLow, At, Moved
      <3>2. CASE PrepareTrampoline
        BY <3>2, BspSteps DEF PrepareTrampoline, Moved, BspPc, LoopPc
      <3> QED BY <1>3, <3>1, <3>2, BspSteps DEF smp_init, Moved
    <2> QED BY <2>1, <2>2 DEF LapicsListed, At
  <1>4. CASE UNCHANGED <<madt, lapics, bsp>>
    BY <1>4 DEF LapicsListed, At
  <1> QED BY <1>1, <1>2, <1>3, <1>4, BspWaits DEF bsp_boot

LEMMA PlaceNext ==
    ASSUME BootTypes, LapicsListed, BspPlace, [KmainNext]_bootVars
    PROVE  BspPlace'
  <1>0. /\ bsp.i \in Nat \ {0} /\ bsp.k \in Nat /\ Len(lapics) \in Nat /\ info.num_cpus \in Nat
    BY DEF BootTypes, Place, Info
  <1>1. CASE vmm_init \/ MapLow \/ PrepareTrampoline
    <2>0. UNCHANGED <<lapics, info>> \/ UNCHANGED info
      BY <1>1 DEF vmm_init, MapLow, PrepareTrampoline, smpLocals
    <2>1. CASE At("window") /\ vmm_map(Kernel, Window)
      <3>1. Moved("window", bsp.i, bsp.k + 1) /\ bsp.k < Window
        BY <2>1, BspSteps DEF vmm_map, At
      <3> QED BY <1>0, <2>0, <2>1, <3>1, Layout DEF BspPlace, Moved, At, LoopPc, EarlyPc
    <2>2. CASE At("memory") /\ vmm_map(Offset, PhysLimit)
      <3>1. Moved("memory", bsp.i, bsp.k + 1) /\ bsp.k < PhysLimit
        BY <2>2, BspSteps DEF vmm_map, At
      <3> QED BY <1>0, <2>0, <2>2, <3>1, Layout DEF BspPlace, Moved, At, LoopPc, EarlyPc
    <2>3. CASE At("window") /\ Mapped(Window, "memory")
      <3>1. Moved("memory", bsp.i, 0)
        BY <2>3, BspSteps DEF BspPc, EarlyPc
      <3> QED BY <1>0, <2>0, <2>3, <3>1, Layout DEF BspPlace, Moved, At, LoopPc, EarlyPc
    <2>4. CASE At("memory") /\ Mapped(PhysLimit, "madt")
      <3>1. Moved("madt", bsp.i, 0)
        BY <2>4, BspSteps DEF BspPc, EarlyPc
      <3> QED BY <1>0, <2>0, <2>4, <3>1, Layout DEF BspPlace, Moved, At, LoopPc, EarlyPc
    <2>5. CASE MapLow
      <3>1. Moved("map", bsp.i, bsp.k + 1) /\ bsp.k < LowPages /\ At("map")
        BY <2>5, BspSteps DEF vmm_map, MapLow, At
      <3> QED BY <1>0, <2>0, <3>1, Layout DEF BspPlace, Moved, At, LoopPc, EarlyPc
    <2>6. CASE PrepareTrampoline
      <3>1. Moved("next", bsp.i, 0) /\ UNCHANGED lapics /\ At("map")
        BY <2>6, BspSteps DEF BspPc, LoopPc, PrepareTrampoline, acpi
      <3> QED BY <1>0, <2>0, <3>1, Layout DEF BspPlace, Moved, At, LoopPc, EarlyPc
    <2> QED BY <1>1, <2>1, <2>2, <2>3, <2>4, <2>5, <2>6 DEF vmm_init
  <1>2. CASE madt_init
    <2>1. UNCHANGED info /\ At("madt") /\ (bsp'.pc = "madt" \/ (bsp'.pc = "map" /\ bsp'.i = 1))
      BY <1>2, BspSteps DEF madt_init, smpLocals, Moved
    <2>2. bsp'.k = bsp.k
      BY <1>2, BspSteps DEF Moved
    <2> QED BY <1>0, <2>1, <2>2, Layout DEF BspPlace, At, LoopPc, EarlyPc
  <1>3. CASE NextLapic
    <2>1. At("next") /\ bsp.i <= Len(lapics) /\ UNCHANGED lapics /\ bsp.k = 0
      BY <1>3 DEF NextLapic, acpi, BspPlace, At
    <2>2. /\ info.num_cpus \in 0..CPU_MAX-1 /\ lapic.apic_id \in Nat
          /\ lapic = lapics[bsp.i] /\ lapic.apic_id \in ids \cup {Bsp}
      BY <2>1, CurrentEntry, CurrentRecord DEF At, LoopPc
    <2>3. CASE ~lapic.usable
      <3>1. Moved("next", bsp.i + 1, 0) /\ UNCHANGED info
        BY <1>3, <2>3, BspMoves DEF NextLapic
      <3> QED BY <1>0, <2>1, <3>1 DEF BspPlace, At, Moved, LoopPc, EarlyPc
    <2> DEFINE n == info.num_cpus
               isBsp == lapic.apic_id = ApicIdReg
               m == IF isBsp THEN n+1 ELSE n
    <2>4. ASSUME lapic.usable
          PROVE  Entered(n, lapic.apic_id, m)
      <3>1. n \in 0..CPU_MAX-1 /\ isBsp \in BOOLEAN /\ m \in Nat /\ n = info.num_cpus
        BY <2>2
      <3>2. info' = [info EXCEPT !.cpus[n].lapic_id = lapic.apic_id,
                                 !.cpus[n].is_bsp = @ \/ isBsp,
                                 !.num_cpus = m]
        BY <1>3, <2>4 DEF NextLapic
      <3> HIDE DEF n, isBsp, m
      <3> QED BY <2>2, <3>1, <3>2, InfoMoves
    <2>5. CASE lapic.usable /\ isBsp
      <3>1. Moved("next", bsp.i + 1, 0) /\ info'.num_cpus = info.num_cpus + 1
        BY <1>3, <2>4, <2>5, BspMoves DEF NextLapic, Entered
      <3> QED BY <1>0, <2>1, <3>1 DEF BspPlace, At, Moved, LoopPc, EarlyPc
    <2>6. CASE lapic.usable /\ ~isBsp
      <3>1. /\ Moved("stack", bsp.i, bsp.k) /\ info'.num_cpus = info.num_cpus
            /\ info'.cpus[info.num_cpus].lapic_id = lapic.apic_id
        BY <1>3, <2>4, <2>6, BspMoves DEF NextLapic, Entered, BspPc, LoopPc
      <3>2. lapic.apic_id \in ids
        BY <2>2, <2>6, SmpAssumption
      <3>3. lapic' = lapics[bsp.i]
        BY <2>1, <3>1 DEF lapic, Moved
      <3> QED BY <1>0, <2>1, <2>2, <3>1, <3>2, <3>3 DEF BspPlace, At, Moved, LoopPc, EarlyPc
    <2> QED BY <2>3, <2>5, <2>6
  <1>4. CASE PassStack \/ SendInit \/ SendStartup
    <2>1. /\ UNCHANGED <<lapics, info>> /\ bsp.pc \in {"stack", "init", "sipi"}
          /\ bsp'.pc \in {"init", "sipi", "poll"} /\ bsp'.i = bsp.i
      BY <1>4, BspSteps DEF PassStack, SendInit, SendStartup, acpi, At, Moved
    <2>2. lapic' = lapic
      BY <2>1 DEF lapic
    <2> QED BY <2>1, <2>2 DEF BspPlace, At, LoopPc, EarlyPc
  <1>5. CASE PollAnswered
    <2>1. UNCHANGED lapics /\ At("poll") /\ Moved("next", bsp.i + 1, 0) /\ bsp.i <= Len(lapics)
      BY <1>5, BspSteps DEF PollAnswered, acpi, BspPlace, At, LoopPc
    <2>2. info'.num_cpus = info.num_cpus + 1
      BY <1>5, <1>0 DEF PollAnswered, BootTypes, Info
    <2> QED BY <1>0, <2>1, <2>2 DEF BspPlace, At, Moved, LoopPc, EarlyPc
  <1>6. CASE PollTimeout
    <2>1. UNCHANGED <<lapics, info>> /\ At("poll") /\ bsp.i <= Len(lapics)
      BY <1>6 DEF PollTimeout, acpi, BspPlace, At, LoopPc
    <2>2. CASE Moved("sipi", bsp.i, bsp.k)
      <3>1. lapic' = lapic
        BY <2>1, <2>2 DEF lapic, Moved
      <3> QED BY <2>1, <2>2, <3>1 DEF BspPlace, At, Moved, LoopPc, EarlyPc
    <2>3. CASE Moved("next", bsp.i + 1, 0)
      <3>1. info.num_cpus < bsp.i
        BY <2>1 DEF BspPlace, At, LoopPc
      <3> QED BY <1>0, <2>1, <2>3, <3>1 DEF BspPlace, At, Moved, LoopPc, EarlyPc
    <2> QED BY <1>6, <2>2, <2>3, BspSteps
  <1>7. CASE UnmapLow
    <2>1. Moved("unmap", bsp.i, bsp.k + 1) /\ bsp.k < LowPages /\ At("unmap")
      BY <1>7, BspSteps DEF UnmapLow
    <2> QED BY <1>0, <2>1, Layout DEF BspPlace, At, Moved, LoopPc, EarlyPc
  <1>8. CASE EndLoop
    <2>1. CASE At("next") /\ Goto("unmap")
      <3>1. Moved("unmap", bsp.i, bsp.k)
        BY <2>1, BspMoves DEF BspPc
      <3> QED BY <2>1, <3>1, Layout DEF BspPlace, At, Moved, LoopPc, EarlyPc
    <2>2. CASE Goto("done")
      <3>1. Moved("done", bsp.i, bsp.k)
        BY <2>2, BspMoves DEF BspPc
      <3> QED BY <3>1 DEF BspPlace, At, Moved, LoopPc, EarlyPc
    <2> QED BY <1>8, <2>1, <2>2 DEF EndLoop
  <1>9. CASE UNCHANGED <<lapics, bsp, info>>
    BY <1>9 DEF BspPlace, At, lapic
  <1> QED BY <1>1, <1>2, <1>3, <1>4, <1>5, <1>6, <1>7, <1>8, <1>9, BspWaits
          DEF bsp_boot, smp_init

-----------------------------------------------------------------------------
(* The aps whose turn has not come, and those given up.                    *)

LEMMA WaitNext ==
    ASSUME BootTypes, LapicsListed, BspPlace, ApsWait, [KmainNext]_bootVars
    PROVE  ApsWait'
  <1>0. /\ bsp.i \in Nat \ {0} /\ lapics \in Seq(LapicRec) /\ Len(lapics) \in Nat
        /\ ap \in [ids -> ApState] /\ failed \in SUBSET ids
        /\ \A j \in 1..Len(lapics) : lapics[j].apic_id \in ids \cup {Bsp}
        /\ \A j, k \in 1..Len(lapics) : lapics[j].apic_id = lapics[k].apic_id => j = k
    BY DEF BootTypes, Place, LapicsListed
  <1>1. CASE vmm_init \/ madt_init \/ MapLow
    <2>1. UNCHANGED <<ap, failed>> /\ bsp.pc \in EarlyPc
      BY <1>1 DEF vmm_init, madt_init, MapLow, smpLocals, At, EarlyPc
    <2>2. bsp'.pc \in EarlyPc
      <3>1. CASE vmm_init
        <4>1. "memory" \in BspPc /\ "madt" \in BspPc
          BY DEF BspPc, EarlyPc
        <4> QED BY <2>1, <3>1, <4>1, BspSteps DEF vmm_init, Moved, EarlyPc
      <3>2. CASE madt_init \/ MapLow
        BY <2>1, <3>2, BspSteps DEF MapLow, Moved, EarlyPc
      <3> QED BY <1>1, <3>1, <3>2
    <2> QED BY <2>1, <2>2 DEF ApsWait, EarlyPc, LoopPc
  <1>2. CASE PrepareTrampoline
    <2>1. UNCHANGED <<ap, failed, lapics>> /\ bsp.pc \in EarlyPc /\ bsp'.pc = "next"
      BY <1>2, BspSteps DEF PrepareTrampoline, smpLocals, acpi, At, EarlyPc, BspPc, LoopPc, Moved
    <2> QED BY <2>1 DEF ApsWait, EarlyPc, LoopPc
  <1>3. CASE NextLapic \/ PollAnswered
    <2>1. /\ UNCHANGED <<ap, failed, lapics>> /\ bsp.pc \in {"next", "poll"}
          /\ \/ bsp'.pc = "next" /\ bsp'.i = bsp.i + 1
             \/ bsp.pc = "next" /\ bsp'.pc = "stack" /\ bsp'.i = bsp.i
      BY <1>3, BspSteps, BspMoves DEF NextLapic, PollAnswered, acpi, At, Moved
    <2> QED BY <1>0, <2>1 DEF ApsWait, EarlyPc, LoopPc, Untouched
  <1>4. CASE PassStack
    <2>1. /\ UNCHANGED <<ap, failed, lapics>> /\ bsp.pc = "stack"
          /\ bsp'.pc = "init" /\ bsp'.i = bsp.i
      BY <1>4, BspSteps DEF PassStack, acpi, At, Moved
    <2> QED BY <1>0, <2>1 DEF ApsWait, EarlyPc, LoopPc, Untouched
  <1>5. CASE SendInit \/ SendStartup
    <2>1. /\ UNCHANGED <<failed, lapics>> /\ bsp.pc \in {"init", "sipi"}
          /\ bsp'.pc \in {"sipi", "poll"} /\ bsp'.i = bsp.i
      BY <1>5, BspSteps DEF SendInit, SendStartup, acpi, At, Moved
    <2>2. bsp.i \in 1..Len(lapics) /\ lapic = lapics[bsp.i] /\ lapic.apic_id \in ids
      BY <1>0, <2>1 DEF BspPlace, LoopPc, lapic
    <2>3. \A id \in ids \ {lapic.apic_id} : ap'[id] = ap[id]
      BY <1>0, <1>5 DEF SendInit, SendStartup, ApAt
    <2> QED BY <1>0, <2>1, <2>2, <2>3 DEF ApsWait, EarlyPc, LoopPc, Untouched
  <1>6. CASE PollTimeout
    <2>1. UNCHANGED <<ap, lapics>> /\ bsp.pc = "poll"
      BY <1>6 DEF PollTimeout, acpi, At
    <2>2. CASE bsp'.pc = "sipi" /\ bsp'.i = bsp.i /\ UNCHANGED failed
      BY <1>0, <2>1, <2>2 DEF ApsWait, EarlyPc, LoopPc, Untouched
    <2>3. CASE bsp'.pc = "next" /\ bsp'.i = bsp.i + 1 /\ failed' = failed \cup {lapic.apic_id}
      <3>1. bsp.i \in 1..Len(lapics) /\ lapic = lapics[bsp.i]
        BY <1>0, <2>1 DEF BspPlace, LoopPc, lapic
      <3>2. \A j \in 1..Len(lapics) : j >= bsp.i + 1 => lapics[j].apic_id # lapic.apic_id
        BY <1>0, <3>1
      <3> QED BY <1>0, <2>1, <2>3, <3>2 DEF ApsWait, EarlyPc, LoopPc, Untouched
    <2> QED BY <1>6, <2>2, <2>3, BspMoves DEF PollTimeout, Moved, BspPc, LoopPc
  <1>7. CASE UnmapLow \/ EndLoop
    <2>1. bsp'.pc \in {"unmap", "done"}
      BY <1>7, BspSteps DEF Moved
    <2> QED BY <2>1 DEF ApsWait, EarlyPc, LoopPc
  <1>8. CASE \E id \in ids : ap_boot(id)
    <2>1. PICK id \in ids : ap_boot(id)
      BY <1>8
    <2>2. UNCHANGED <<bsp, lapics, failed>> /\ ap[id].pc # "off"
      BY <2>1, ApBoots DEF Waiting
    <2>3. \A other \in ids \ {id} : ap'[other] = ap[other]
      BY <2>1, ApBoots
    <2> QED BY <1>0, <2>2, <2>3 DEF ApsWait, EarlyPc, LoopPc, Untouched
  <1>9. CASE UNCHANGED smpIdle
    BY <1>9 DEF smpIdle, ApsWait, Untouched
  <1> QED BY <1>1, <1>2, <1>3, <1>4, <1>5, <1>6, <1>7, <1>8, <1>9, LaterSteps
          DEF bsp_boot, smp_init

\* No ap stops being late.
LEMMA LateStays ==
    ASSUME BootTypes, LapicsListed, BspPlace, ApsWait, [KmainNext]_bootVars
    PROVE  Late \subseteq Late'
  <1>0. /\ bsp.i \in Nat \ {0} /\ Len(lapics) \in Nat
        /\ ap \in [ids -> ApState] /\ failed \in SUBSET ids
    BY DEF BootTypes, Place
  <1> SUFFICES ASSUME NEW id \in failed, ap[id].pc # "reset"
               PROVE  id \in failed' /\ ap'[id].pc # "reset"
    BY DEF Late
  <1>1. CASE SendInit
    <2>1. UNCHANGED failed /\ bsp.pc = "init"
      BY <1>1 DEF SendInit, At
    <2>2. bsp.i \in 1..Len(lapics) /\ lapic = lapics[bsp.i] /\ lapic.apic_id \in ids
      BY <1>0, <2>1 DEF BspPlace, LoopPc, lapic
    <2>3. lapic.apic_id \notin failed
      BY <1>0, <2>1, <2>2 DEF ApsWait, LoopPc
    <2> QED BY <1>0, <1>1, <2>1, <2>2, <2>3 DEF SendInit, ApAt
  <1>2. CASE SendStartup
    <2>1. ap'[id].pc = ap[id].pc \/ ap'[id].pc = "start"
      BY <1>0, <1>2 DEF SendStartup, ApAt, ApState
    <2> QED BY <1>2, <2>1 DEF SendStartup
  <1>3. CASE vmm_init \/ madt_init \/ (smp_init /\ ~SendInit /\ ~SendStartup)
    BY <1>3 DEF vmm_init, madt_init, smp_init, MapLow, PrepareTrampoline, NextLapic, PassStack,
          PollAnswered, PollTimeout, UnmapLow, EndLoop, smpLocals
  <1>4. CASE \E i \in ids : ap_boot(i)
    <2>1. PICK i \in ids : ap_boot(i)
      BY <1>4
    <2>2. UNCHANGED failed /\ (ap'[id] = ap[id] \/ ap'[id].pc # "reset")
      BY <1>0, <2>1, ApBoots DEF Waiting, Called
    <2> QED BY <2>2
  <1>5. CASE UNCHANGED smpIdle
    BY <1>5 DEF smpIdle
  <1> QED BY <1>1, <1>2, <1>3, <1>4, <1>5, LaterSteps DEF bsp_boot

-----------------------------------------------------------------------------
(* The page tables and the free pages.                                     *)

SameMap(m, m2) == \A u \in Page : Translate(m2, u) = Translate(m, u)

LEMMA MapStep ==
    ASSUME BootTypes, IsTree(mem), NEW v \in Nat, NEW n \in Nat, vmm_map(v, n),
           v + n <= Kernel + Window
    PROVE  /\ IsTree(mem') /\ Stock(mem') = Stock(mem)
           /\ v + bsp.k \in Page
           /\ OnlyMaps(mem, mem', v + bsp.k, bsp.k)
  <1>1. bsp.k \in Nat /\ bsp.k < n /\ v + bsp.k \in Nat /\ v + bsp.k < Kernel + Window
    <2>1. bsp.k \in Nat
      BY DEF BootTypes, Place
    <2>2. bsp.k < n
      BY DEF vmm_map
    <2> QED BY <2>1, <2>2, Layout
  <1>2. v + bsp.k \in Page
    BY <1>1, PageRange
  <1>3. HasTables(mem, v + bsp.k) /\ mem' = map_page(mem, v + bsp.k, bsp.k)
    BY DEF vmm_map
  <1> QED BY <1>1, <1>2, <1>3, MapTree

\* Pages are taken or given back.
LEMMA FreeStep ==
    ASSUME IsTree(mem), NEW free \in SUBSET Frame, free \cap (Tables(mem) \cup {PML4}) = {},
           mem' = [mem EXCEPT !.free = free]
    PROVE  /\ IsTree(mem') /\ mem'.free = free /\ mem'.table = mem.table
           /\ Tables(mem') = Tables(mem)
           /\ SameMap(mem, mem')
  <1>1. mem' = WithFreePages(mem, free)
    BY DEF WithFreePages
  <1> QED BY <1>1, FreeTree DEF SameMap

LEMMA TakeBlock ==
    ASSUME IsTree(mem), NEW b, mem' = [mem EXCEPT !.free = @ \ Block(b)]
    PROVE  /\ IsTree(mem') /\ mem'.free = mem.free \ Block(b)
           /\ Tables(mem') = Tables(mem)
           /\ SameMap(mem, mem')
  <1> DEFINE free == mem.free \ Block(b)
  <1>1. free \in SUBSET Frame /\ free \cap (Tables(mem) \cup {PML4}) = {}
    BY TreeFacts
  <1>2. mem' = [mem EXCEPT !.free = free]
    OBVIOUS
  <1> HIDE DEF free
  <1>3. /\ IsTree(mem') /\ mem'.free = free
        /\ Tables(mem') = Tables(mem)
        /\ SameMap(mem, mem')
    BY <1>1, <1>2, FreeStep
  <1> QED BY <1>3 DEF free

LEMMA MapsAsExpected ==
    ASSUME BootTypes, LapicsListed, BspPlace, Translations, IsTree(mem),
           vmm_init \/ MapLow \/ PrepareTrampoline \/ UnmapLow
    PROVE  /\ Translations' /\ IsTree(mem') /\ Stock(mem') = Stock(mem)
           /\ bsp'.pc \in {"window", "memory", "madt", "map", "next", "unmap"}
  <1>0. bsp.k \in Nat
    BY DEF BootTypes, Place
  <1>1. ASSUME At("window"), vmm_map(Kernel, Window)
        PROVE  /\ Translations' /\ IsTree(mem') /\ Stock(mem') = Stock(mem)
               /\ bsp'.pc = "window"
    <2>1. bsp'.pc = "window" /\ bsp'.k = bsp.k + 1 /\ bsp.k < Window /\ bsp.pc = "window"
      BY <1>1, BspSteps DEF Moved, At, vmm_map
    <2>2. /\ IsTree(mem') /\ Stock(mem') = Stock(mem)
          /\ OnlyMaps(mem, mem', Kernel + bsp.k, bsp.k)
      BY <1>1, MapStep, Layout
    <2>3. ASSUME NEW u \in Page
          PROVE  Expected(u)' = IF u = Kernel + bsp.k THEN bsp.k ELSE Expected(u)
      BY <1>0, <2>1, Layout DEF Page, Expected, WindowMapped, OffsetMapped, LowMap, At
    <2> QED BY <2>1, <2>2, <2>3 DEF Translations, OnlyMaps
  <1>2. ASSUME At("memory"), vmm_map(Offset, PhysLimit)
        PROVE  /\ Translations' /\ IsTree(mem') /\ Stock(mem') = Stock(mem)
               /\ bsp'.pc = "memory"
    <2>1. bsp'.pc = "memory" /\ bsp'.k = bsp.k + 1 /\ bsp.k < PhysLimit /\ bsp.pc = "memory"
      BY <1>2, BspSteps DEF Moved, At, vmm_map
    <2>2. /\ IsTree(mem') /\ Stock(mem') = Stock(mem)
          /\ OnlyMaps(mem, mem', Offset + bsp.k, bsp.k)
      BY <1>2, MapStep, Layout
    <2>3. ASSUME NEW u \in Page
          PROVE  Expected(u)' = IF u = Offset + bsp.k THEN bsp.k ELSE Expected(u)
      BY <1>0, <2>1, Layout DEF Page, Expected, WindowMapped, OffsetMapped, LowMap, At
    <2> QED BY <2>1, <2>2, <2>3 DEF Translations, OnlyMaps
  <1>3. ASSUME MapLow
        PROVE  /\ Translations' /\ IsTree(mem') /\ Stock(mem') = Stock(mem)
               /\ bsp'.pc = "map"
    <2>0. At("map") /\ vmm_map(0, LowPages)
      BY <1>3 DEF MapLow
    <2>1. bsp'.pc = "map" /\ bsp'.k = bsp.k + 1 /\ bsp.k < LowPages /\ bsp.pc = "map"
      BY <2>0, BspSteps DEF Moved, At, vmm_map
    <2>2. /\ IsTree(mem') /\ Stock(mem') = Stock(mem)
          /\ OnlyMaps(mem, mem', bsp.k, bsp.k)
      <3>1. 0 \in Nat /\ 0 + LowPages <= Kernel + Window /\ 0 + bsp.k = bsp.k
        BY <1>0, Layout
      <3>2. OnlyMaps(mem, mem', 0 + bsp.k, bsp.k) /\ IsTree(mem') /\ Stock(mem') = Stock(mem)
        BY <2>0, <3>1, MapStep, Layout
      <3> QED BY <3>1, <3>2
    <2>3. ASSUME NEW u \in Page
          PROVE  Expected(u)' = IF u = bsp.k THEN bsp.k ELSE Expected(u)
      BY <1>0, <2>1, Layout DEF Page, Expected, WindowMapped, OffsetMapped, LowMap, At
    <2> QED BY <2>1, <2>2, <2>3 DEF Translations, OnlyMaps
  <1>4. ASSUME UnmapLow
        PROVE  /\ Translations' /\ IsTree(mem') /\ Stock(mem') = Stock(mem)
               /\ bsp'.pc = "unmap"
    <2>1. /\ bsp'.pc = "unmap" /\ bsp'.k = bsp.k + 1 /\ bsp.k < LowPages /\ bsp.pc = "unmap"
          /\ mem' = unmap_page(mem, bsp.k)
      BY <1>4, BspSteps DEF Moved, At, UnmapLow
    <2>2. bsp.k \in Page
      BY <1>0, <2>1, Layout, PageRange
    <2>3. /\ IsTree(mem') /\ Stock(mem') = Stock(mem)
          /\ OnlyMaps(mem, mem', bsp.k, NULL)
      BY <2>1, <2>2, UnmapTree
    <2>4. ASSUME NEW u \in Page
          PROVE  Expected(u)' = IF u = bsp.k THEN NULL ELSE Expected(u)
      BY <1>0, <2>1, Layout DEF Page, Expected, WindowMapped, OffsetMapped, LowMap, At
    <2> QED BY <2>1, <2>3, <2>4 DEF Translations, OnlyMaps
  <1>5. ASSUME \/ At("window") /\ Mapped(Window, "memory")
               \/ At("memory") /\ Mapped(PhysLimit, "madt")
               \/ At("map") /\ Mapped(LowPages, "next")
        PROVE  Translations' /\ UNCHANGED mem /\ bsp'.pc \in {"memory", "madt", "next"}
    <2>1. /\ UNCHANGED mem
          /\ \/ bsp.pc = "window" /\ bsp.k = Window /\ bsp'.pc = "memory" /\ bsp'.k = 0
             \/ bsp.pc = "memory" /\ bsp.k = PhysLimit /\ bsp'.pc = "madt"
             \/ bsp.pc = "map" /\ bsp.k = LowPages /\ bsp'.pc = "next"
      BY <1>5, BspSteps DEF Mapped, At, Moved, BspPc, EarlyPc, LoopPc
    <2>2. ASSUME NEW u \in Page
          PROVE  Expected(u)' = Expected(u)
      BY <1>0, <2>1, Layout DEF Page, Expected, WindowMapped, OffsetMapped, LowMap, At
    <2> QED BY <2>1, <2>2 DEF Translations
  <1> QED BY <1>1, <1>2, <1>3, <1>4, <1>5 DEF vmm_init, PrepareTrampoline

\* Taking a page out of the map frees pages, and takes none.
LEMMA UnmapFrees ==
    ASSUME IsTree(mem), NEW v
    PROVE  mem.free \subseteq unmap_page(mem, v).free
  <1>1. ASSUME NEW m, NEW t, NEW e
        PROVE  m.free \subseteq Pruned(m, t, e).free
    BY DEF Pruned
  <1>2. mem \in MemType
    BY TreeFacts
  <1>3. ASSUME NEW t, NEW e
        PROVE  [mem EXCEPT !.table[t][e] = NULL].free = mem.free
    BY <1>2 DEF MemType
  <1> DEFINE i  == Index(v)
             w  == Walk(mem, v)
             m0 == [mem EXCEPT !.table[w[3]][i[4]] = NULL]
             m1 == Pruned(m0, w[2], i[3])
             m2 == Pruned(m1, w[1], i[2])
             m3 == Pruned(m2, PML4, i[1])
  <1>4. mem.free \subseteq m0.free /\ m0.free \subseteq m1.free
    BY <1>1, <1>3
  <1>5. m1.free \subseteq m2.free /\ m2.free \subseteq m3.free
    BY <1>1
  <1>6. unmap_page(mem, v) = IF w[4] = NULL THEN mem ELSE m3
    BY DEF unmap_page
  <1> HIDE DEF m0, m1, m2, m3, w
  <1> QED BY <1>4, <1>5, <1>6

LEMMA MemNext ==
    ASSUME BootTypes, LapicsListed, BspPlace, ApsWait, Translations, MemSound, KinitSound,
           [KmainNext]_bootVars
    PROVE  Translations' /\ MemSound'
  <1>0. /\ IsTree(mem) /\ Tables(mem) \subseteq Memory /\ mem.free \subseteq Frame
        /\ mem.free \cap (Tables(mem) \cup {PML4}) = {} /\ PML4 \notin Tables(mem)
    BY TreeFacts DEF MemSound
  <1>k. /\ bsp.pc # "done" => kmain = "boot" /\ mem.free \subseteq Memory
        /\ bsp.pc \in EarlyPc => heap = {}
        /\ \A b \in heap : Block(b) \subseteq Frame \ (Tables(mem) \cup {PML4})
    BY DEF MemSound, At
  <1> USE DEF At
  <1>1. CASE (vmm_init \/ MapLow \/ PrepareTrampoline \/ UnmapLow) /\ UNCHANGED <<kmain, kinit>>
    <2>1. /\ Translations' /\ IsTree(mem') /\ Stock(mem') = Stock(mem)
          /\ bsp'.pc \in {"window", "memory", "madt", "map", "next", "unmap"}
      BY <1>0, <1>1, MapsAsExpected
    <2>2. bsp.pc # "done"
      BY <1>1 DEF vmm_init, MapLow, PrepareTrampoline, UnmapLow
    <2>3. Stock(mem) \subseteq Memory
      BY <1>0, <1>k, <2>2 DEF Stock
    <2>4. Tables(mem') \subseteq Memory /\ mem'.free \subseteq Memory
      BY <2>1, <2>3 DEF Stock
    <2>5. heap' = heap /\ (bsp'.pc \in EarlyPc => bsp.pc \in EarlyPc)
      BY <1>1, BspSteps DEF vmm_init, MapLow, PrepareTrampoline, UnmapLow, smpLocals, kept, Moved,
            EarlyPc
    <2>6. CASE heap = {}
      BY <1>1, <1>k, <2>1, <2>2, <2>4, <2>5, <2>6 DEF MemSound, HoldsStack
    <2>7. CASE UnmapLow
      <3>1. Tables(mem') \subseteq Tables(mem)
        <4>1. mem.free \subseteq mem'.free
          BY <1>0, <2>7, UnmapFrees DEF UnmapLow
        <4>2. mem'.free \cap Tables(mem') = {}
          BY <2>1, TreeFacts
        <4> QED BY <2>1, <4>1, <4>2 DEF Stock
      <3>2. \A b \in heap' : Block(b) \subseteq Frame \ (Tables(mem') \cup {PML4})
        BY <1>k, <2>5, <3>1
      <3>3. bsp.pc \notin EarlyPc
        BY <2>7 DEF UnmapLow, EarlyPc
      <3> QED BY <1>1, <1>k, <2>1, <2>2, <2>4, <2>5, <3>2, <3>3 DEF MemSound, HoldsStack
    <2> QED BY <1>1, <1>k, <2>6, <2>7 DEF vmm_init, MapLow, PrepareTrampoline, EarlyPc
  <1>2. CASE PassStack /\ UNCHANGED <<kmain, kinit>>
    <2>1. /\ bsp.pc = "stack" /\ bsp'.pc = "init"
          /\ stack' \in Nat \ {0} /\ Block(stack') \subseteq mem.free
          /\ mem' = [mem EXCEPT !.free = @ \ Block(stack')]
      BY <1>0, <1>2, NewBlock, BspSteps DEF PassStack, Moved
    <2>2. /\ IsTree(mem') /\ mem'.free = mem.free \ Block(stack')
          /\ Tables(mem') = Tables(mem)
          /\ SameMap(mem, mem')
      BY <1>0, <2>1, TakeBlock
    <2>3. \A u \in Page : Expected(u)' = Expected(u)
      BY <2>1 DEF Expected, WindowMapped, OffsetMapped, LowMap
    <2>4. Translations'
      BY <2>2, <2>3 DEF Translations, SameMap
    <2>5. /\ Block(stack') \subseteq Memory
          /\ Block(stack') \cap (Tables(mem) \cup {PML4}) = {}
      BY <1>0, <1>k, <2>1
    <2>6. heap' = heap
      BY <1>2 DEF PassStack, kept
    <2> QED BY <1>0, <1>2, <1>k, <2>1, <2>2, <2>4, <2>5, <2>6 DEF MemSound, HoldsStack, EarlyPc
  <1>3. CASE PollTimeout /\ ~UNCHANGED mem /\ UNCHANGED <<kmain, kinit>>
    <2>1. /\ bsp.pc = "poll" /\ bsp'.pc = "next" /\ stack' = stack
          /\ mem' = [mem EXCEPT !.free = @ \cup Block(stack)]
      BY <1>3, BspMoves DEF PollTimeout, Moved, locals
    <2> DEFINE free == mem.free \cup Block(stack)
    <2>2. free \in SUBSET Frame /\ free \cap (Tables(mem) \cup {PML4}) = {} /\ free \subseteq Memory
      BY <1>0, <1>k, <2>1, Frames DEF MemSound, HoldsStack
    <2>3. mem' = [mem EXCEPT !.free = free]
      BY <2>1
    <2> HIDE DEF free
    <2>4. /\ IsTree(mem') /\ mem'.free = free
          /\ Tables(mem') = Tables(mem)
          /\ SameMap(mem, mem')
      BY <1>0, <2>2, <2>3, FreeStep
    <2>5. \A u \in Page : Expected(u)' = Expected(u)
      BY <2>1 DEF Expected, WindowMapped, OffsetMapped, LowMap
    <2>6. Translations'
      BY <2>4, <2>5 DEF Translations, SameMap
    <2>7. heap' = heap
      BY <1>3 DEF PollTimeout, kept
    <2> QED BY <1>0, <1>3, <1>k, <2>1, <2>2, <2>4, <2>6, <2>7 DEF MemSound, HoldsStack, EarlyPc
  <1>4. CASE /\ \/ madt_init \/ NextLapic \/ SendInit \/ SendStartup \/ PollAnswered
                \/ PollTimeout \/ EndLoop
             /\ UNCHANGED <<mem, kmain, kinit>>
    <2>1. stack' = stack /\ heap' = heap
      BY <1>4 DEF madt_init, NextLapic, SendInit, SendStartup, PollAnswered, PollTimeout, EndLoop,
            smpLocals, locals, kept, memory
    <2>2. /\ \/ bsp.pc = "madt" /\ bsp'.pc = "madt"
             \/ bsp.pc = "madt" /\ bsp'.pc = "map" /\ bsp'.k = 0
             \/ bsp.pc \in LoopPc /\ bsp'.pc \in LoopPc
             \/ bsp.pc = "next" /\ bsp'.pc = "unmap" /\ bsp'.k = 0
             \/ bsp.pc = "unmap" /\ bsp'.pc = "done" /\ bsp.k = LowPages
      <3>1. CASE madt_init
        BY <3>1, BspSteps DEF madt_init, Moved, BspPlace
      <3>2. CASE EndLoop
        <4>1. "unmap" \in BspPc /\ "done" \in BspPc
          BY DEF BspPc
        <4> QED BY <3>2, <4>1, BspMoves DEF EndLoop, Moved, BspPlace
      <3>3. CASE NextLapic \/ SendInit \/ SendStartup \/ PollAnswered \/ PollTimeout
        BY <3>3, BspSteps DEF NextLapic, SendInit, SendStartup, PollAnswered, PollTimeout, Moved,
              LoopPc
      <3> QED BY <1>4, <3>1, <3>2, <3>3
    <2>3. \A u \in Page : Expected(u)' = Expected(u)
      <3>1. ASSUME LowMap' = LowMap, bsp.pc \notin {"window", "memory"},
                   bsp'.pc \notin {"window", "memory"}
            PROVE  \A u \in Page : Expected(u)' = Expected(u)
        BY <3>1 DEF Expected, WindowMapped, OffsetMapped
      <3>2. CASE bsp.pc = "madt" /\ bsp'.pc = "madt"
        BY <3>1, <3>2 DEF LowMap
      <3>3. CASE bsp.pc = "madt" /\ bsp'.pc = "map" /\ bsp'.k = 0
        <4>1. 0..0-1 = {}
          OBVIOUS
        <4> QED BY <3>1, <3>3, <4>1 DEF LowMap
      <3>4. CASE bsp.pc \in LoopPc /\ bsp'.pc \in LoopPc
        BY <3>1, <3>4 DEF LowMap, LoopPc
      <3>5. CASE bsp.pc = "next" /\ bsp'.pc = "unmap" /\ bsp'.k = 0
        BY <3>1, <3>5 DEF LowMap
      <3>6. CASE bsp.pc = "unmap" /\ bsp'.pc = "done" /\ bsp.k = LowPages
        <4>1. LowPages..LowPages-1 = {}
          BY Layout
        <4> QED BY <3>1, <3>6, <4>1 DEF LowMap
      <3> QED BY <2>2, <3>2, <3>3, <3>4, <3>5, <3>6
    <2>4. Translations'
      BY <1>4, <2>3 DEF Translations
    <2>5. HoldsStack' => HoldsStack
      BY <1>4, BspSteps DEF HoldsStack, madt_init, NextLapic, SendInit, SendStartup, PollAnswered,
            PollTimeout, EndLoop, Moved
    <2>6. bsp.pc # "done"
      BY <2>2 DEF LoopPc
    <2>7. bsp'.pc \in EarlyPc => bsp.pc \in EarlyPc
      BY <2>2 DEF LoopPc, EarlyPc
    <2> QED BY <1>4, <2>1, <2>4, <2>5, <2>6, <2>7 DEF MemSound
  <1>5. CASE UNCHANGED <<bsp, stack, kmain>> /\ (UNCHANGED <<mem, heap>> \/ (Take /\ bsp.pc \notin EarlyPc))
    <2>1. /\ IsTree(mem') /\ mem'.free \subseteq mem.free
          /\ Tables(mem') = Tables(mem)
          /\ SameMap(mem, mem')
          /\ \A b \in heap' : Block(b) \subseteq Frame \ (Tables(mem) \cup {PML4})
          /\ bsp.pc \in EarlyPc => heap' = {}
      <3>1. CASE UNCHANGED <<mem, heap>>
        BY <1>0, <1>k, <3>1 DEF SameMap
      <3>2. CASE Take /\ bsp.pc \notin EarlyPc
        <4> DEFINE new == kmalloc(mem.free)
        <4>1. mem' = [mem EXCEPT !.free = @ \ Block(new)] /\ heap' = heap \cup {new}
          BY <3>2 DEF Take
        <4>2. Block(new) \subseteq mem.free
          BY <1>0, <3>2, NewBlock DEF Take
        <4> HIDE DEF new
        <4>3. /\ IsTree(mem') /\ mem'.free = mem.free \ Block(new)
              /\ Tables(mem') = Tables(mem)
              /\ SameMap(mem, mem')
          BY <1>0, <4>1, TakeBlock
        <4>4. \A b \in heap' : Block(b) \subseteq Frame \ (Tables(mem) \cup {PML4})
          BY <1>0, <1>k, <4>1, <4>2
        <4> QED BY <3>2, <4>3, <4>4
      <3> QED BY <1>5, <3>1, <3>2
    <2>2. \A u \in Page : Expected(u)' = Expected(u)
      BY <1>5 DEF Expected, WindowMapped, OffsetMapped, LowMap
    <2>3. Translations'
      BY <2>1, <2>2 DEF Translations, SameMap
    <2> QED BY <1>5, <2>1, <2>3 DEF MemSound, HoldsStack
  <1>6. CASE /\ UNCHANGED <<bsp, stack>> /\ heap' \subseteq heap
             /\ kmain' # "boot" /\ bsp.pc = "done"
             /\ \E free \in SUBSET Frame :
                    free \cap (Tables(mem) \cup {PML4}) = {} /\ mem' = [mem EXCEPT !.free = free]
    <2>1. PICK free \in SUBSET Frame :
              free \cap (Tables(mem) \cup {PML4}) = {} /\ mem' = [mem EXCEPT !.free = free]
      BY <1>6
    <2>2. /\ IsTree(mem') /\ mem'.free = free
          /\ Tables(mem') = Tables(mem)
          /\ SameMap(mem, mem')
      BY <1>0, <2>1, FreeStep
    <2>3. \A u \in Page : Expected(u)' = Expected(u)
      BY <1>6 DEF Expected, WindowMapped, OffsetMapped, LowMap
    <2>4. Translations'
      BY <2>2, <2>3 DEF Translations, SameMap
    <2>5. bsp'.pc = "done" /\ "done" \notin EarlyPc
      BY <1>6 DEF EarlyPc
    <2> QED BY <1>0, <1>6, <1>k, <2>2, <2>4, <2>5 DEF MemSound, HoldsStack
  <1>8. CASE UNCHANGED <<smpIdle, kept, kinit>> /\ pmm_reclaim_bootloader_mem
    <2> DEFINE free == mem.free \cup Reclaimable
    <2>1. free \in SUBSET Frame /\ free \cap (Tables(mem) \cup {PML4}) = {}
      BY <1>0, Frames, KmainAssumption
    <2>2. mem' = [mem EXCEPT !.free = free] /\ kmain' # "boot" /\ bsp.pc = "done"
      BY <1>8 DEF pmm_reclaim_bootloader_mem
    <2> HIDE DEF free
    <2> QED BY <1>6, <1>8, <2>1, <2>2 DEF smpIdle, kept
  <1>9. CASE /\ UNCHANGED <<smpIdle, kmain, kinit>> /\ Take
             /\ kmain = "sched_init" \/ kinit = "initrd_init" \/ Runs
    <2>1. bsp.pc = "done" /\ "done" \notin EarlyPc
      BY <1>9, Reclaimed DEF MemSound, EarlyPc
    <2> QED BY <1>5, <1>9, <2>1 DEF smpIdle
  <1>10. CASE UNCHANGED <<smpIdle, tasks_all, kmain, kinit>> /\ kinit = "initrd_init" /\ Closes
    <2> DEFINE free == mem.free \cup Block(desc)
    <2>1. desc \in heap
      BY <1>10 DEF KinitSound, Closes
    <2>2. free \in SUBSET Frame /\ free \cap (Tables(mem) \cup {PML4}) = {}
      BY <1>0, <1>k, <2>1
    <2>3. mem' = [mem EXCEPT !.free = free] /\ kmain' # "boot" /\ bsp.pc = "done"
      BY <1>10, Reclaimed DEF Closes, MemSound
    <2> HIDE DEF free
    <2> QED BY <1>6, <1>10, <2>2, <2>3 DEF smpIdle, Closes
  <1>7. CASE UNCHANGED <<smpIdle, kept, kmain>> /\ kinit = "initrd_init" /\ Ends
    <2> DEFINE free == mem.free \cup Initrd
    <2>1. free \in SUBSET Frame /\ free \cap (Tables(mem) \cup {PML4}) = {}
      BY <1>0, Frames, KmainAssumption
    <2>2. mem' = [mem EXCEPT !.free = free] /\ kmain' # "boot" /\ bsp.pc = "done"
      BY <1>7, Reclaimed DEF Ends, MemSound
    <2> HIDE DEF free
    <2> QED BY <1>6, <1>7, <2>1, <2>2 DEF smpIdle, kept
  <1>13. CASE UNCHANGED <<smpIdle, mem, kept, kmain>>
    BY <1>5, <1>13 DEF smpIdle, kept
  <1>11. CASE (\E id \in ids : ap_boot(id)) /\ UNCHANGED <<kmain, kinit>>
    <2>1. PICK id \in ids : ap_boot(id)
      BY <1>11
    <2>2. UNCHANGED <<bsp, stack>> /\ bsp.pc \notin EarlyPc
      BY <2>1, ApBoots DEF ApsWait, Waiting
    <2>3. UNCHANGED <<mem, heap>> \/ Take
      BY <2>1, KernelSteps DEF ap_boot, EnterLongMode, ReadRsp, ReadCpuinfo, CountUp,
            TrampolineFault, InKernel, memory
    <2> QED BY <1>5, <1>11, <2>2, <2>3
  <1>12. CASE bsp_boot /\ UNCHANGED <<kmain, kinit>>
    <2>1. madt_init \/ NextLapic \/ SendInit \/ SendStartup \/ PollAnswered \/ EndLoop => UNCHANGED mem
      BY DEF memory, madt_init, NextLapic, SendInit, SendStartup, PollAnswered, EndLoop
    <2> QED BY <1>1, <1>2, <1>3, <1>4, <1>12, <2>1 DEF bsp_boot, smp_init
  <1> QED BY <1>7, <1>8, <1>9, <1>10, <1>11, <1>12, <1>13, LaterSteps

-----------------------------------------------------------------------------
(* The arguments and the counter, while no ap is late.                     *)

Protocol == OnlyCurrentReads /\ CounterTells /\ ArgsPassed

LEMMA LowIsMapped ==
    ASSUME Translations, bsp.pc \in LoopPc
    PROVE  LowMapped
  <1>1. 0 \in 0..LowPages-1 /\ Trampoline \in 0..LowPages-1 /\ LowPages >= 1
    BY Layout
  <1>2. ASSUME NEW v \in 0..LowPages-1 PROVE Translate(mem, v) = v
    <2>1. v \in Page
      BY PageRange, Layout
    <2>2. Expected(v) = v
      BY Layout DEF Expected, WindowMapped, OffsetMapped, LowMap, LoopPc, At
    <2> QED BY <2>1, <2>2 DEF Translations
  <1> QED BY <1>1, <1>2 DEF LowMapped

\* The ap that the bsp starts.
LEMMA StartedAp ==
    ASSUME BootTypes, BspPlace, bsp.pc \in LoopPc \ {"next"}
    PROVE  /\ bsp.i \in 1..Len(lapics) /\ Len(lapics) \in Nat /\ lapic = lapics[bsp.i]
           /\ lapic.apic_id \in ids
           /\ info.cpus[info.num_cpus].lapic_id = lapic.apic_id
  BY DEF BootTypes, Place, BspPlace, lapic

\* Where nothing of theirs changes while the bsp starts nobody.
LEMMA ProtocolRests ==
    ASSUME Protocol, UNCHANGED <<ap, info>>,
           bsp.pc \notin {"sipi", "poll"}, bsp'.pc \notin {"stack", "init", "sipi", "poll"}
    PROVE  Protocol'
  BY DEF Protocol, OnlyCurrentReads, CounterTells, ArgsPassed, Starting, Current, HasArgs, At

LEMMA ProtocolOfBsp ==
    ASSUME BootTypes, LapicsListed, BspPlace, ApsWait, Protocol,
           bsp_boot, Late' = {}
    PROVE  Protocol'
  <1>0. /\ bsp.i \in Nat \ {0} /\ Len(lapics) \in Nat /\ ap \in [ids -> ApState]
        /\ info.num_cpus \in Nat /\ info \in Info /\ counter_prev \in Nat
    BY DEF BootTypes, Place, Info
  <1> USE DEF Protocol, At, Called, memory
  <1>1. CASE vmm_init \/ madt_init \/ MapLow \/ PrepareTrampoline \/ UnmapLow \/ EndLoop
    <2>1. UNCHANGED <<ap, info>> /\ bsp.pc \notin {"sipi", "poll"}
      BY <1>1 DEF vmm_init, madt_init, MapLow, PrepareTrampoline, UnmapLow, EndLoop, smpLocals
    <2>2. bsp'.pc \notin {"stack", "init", "sipi", "poll"}
      <3>1. "memory" \in BspPc /\ "madt" \in BspPc /\ "next" \in BspPc
        BY DEF BspPc, EarlyPc, LoopPc
      <3>2. CASE vmm_init
        BY <3>1, <3>2, BspSteps DEF vmm_init, Moved
      <3>3. CASE MapLow \/ PrepareTrampoline
        BY <3>1, <3>3, BspSteps DEF MapLow, PrepareTrampoline, Moved
      <3> QED BY <1>1, <3>2, <3>3, BspSteps DEF Moved
    <2> QED BY <2>1, <2>2, ProtocolRests
  <1>2. CASE NextLapic
    <2>1. /\ bsp.pc = "next" /\ bsp'.pc \in {"next", "stack"}
          /\ UNCHANGED <<ap, ap_boot_counter>> /\ counter_prev' = ap_boot_counter
      BY <1>2, BspSteps DEF NextLapic, Moved
    <2>2. /\ info'.num_cpus \in Nat /\ info'.num_cpus >= info.num_cpus
          /\ \A c \in 0..info.num_cpus-1 : info'.cpus[c].lapic_id = info.cpus[c].lapic_id
      <3>1. CASE UNCHANGED info
        BY <1>0, <3>1
      <3>2. CASE lapic.usable
        <4> DEFINE n == info.num_cpus
                   isBsp == lapic.apic_id = ApicIdReg
                   m == IF isBsp THEN n+1 ELSE n
        <4>1. n \in 0..CPU_MAX-1 /\ lapic.apic_id \in Nat /\ isBsp \in BOOLEAN /\ m \in Nat /\ m >= n
          BY <1>2, <1>0, CurrentEntry, CurrentRecord DEF NextLapic, LoopPc
        <4>2. info' = [info EXCEPT !.cpus[n].lapic_id = lapic.apic_id,
                                   !.cpus[n].is_bsp = @ \/ isBsp,
                                   !.num_cpus = m]
          BY <1>2, <3>2 DEF NextLapic
        <4>3. n = info.num_cpus /\ CPU_MAX \in Nat
          BY SmpAssumption
        <4> HIDE DEF n, isBsp, m
        <4>4. Entered(n, lapic.apic_id, m)
          BY <4>1, <4>2, <4>3, InfoMoves
        <4>5. \A c \in 0..n-1 : c \in (0..CPU_MAX-1) \ {n}
          BY <4>1, <4>3
        <4> QED BY <4>1, <4>3, <4>4, <4>5 DEF Entered
      <3> QED BY <1>2, <3>1, <3>2 DEF NextLapic
    <2>3. HasArgs' = HasArgs
      BY <2>1 DEF HasArgs
    <2>4. OnlyCurrentReads' /\ CounterTells'
      BY <2>1 DEF OnlyCurrentReads, CounterTells, Current, Starting
    <2>5. ASSUME NEW id \in HasArgs
          PROVE  ap[id].cpuinfo \in 0..info.num_cpus-1 /\ info.cpus[ap[id].cpuinfo].lapic_id = id
      BY <2>1 DEF ArgsPassed, Current, Starting
    <2>6. \A c \in 0..info.num_cpus-1 : c \in 0..info'.num_cpus-1
      BY <1>0, <2>2
    <2>7. ArgsPassed'
      BY <2>1, <2>2, <2>3, <2>5, <2>6 DEF ArgsPassed, Starting
    <2> QED BY <2>4, <2>7
  <1>3. CASE PassStack
    <2>1. /\ bsp.pc = "stack" /\ bsp'.pc = "init"
          /\ UNCHANGED <<ap, ap_boot_counter, info, counter_prev>> /\ arg_rsp' = stack'
      BY <1>3, BspSteps DEF PassStack, Moved
    <2> QED BY <2>1 DEF OnlyCurrentReads, CounterTells, ArgsPassed, Starting, Current, HasArgs
  <1>4. CASE SendInit
    <2>0. /\ bsp.pc = "init" /\ bsp'.pc = "sipi" /\ bsp'.i = bsp.i
          /\ UNCHANGED <<lapics, ap_boot_counter, info, counter_prev, stack, arg_rsp>>
          /\ arg_cpuinfo' = info.num_cpus
      BY <1>4, BspSteps DEF SendInit, Moved, acpi, locals
    <2> DEFINE l == lapic.apic_id
    <2>1. l \in ids /\ lapic' = lapic /\ bsp.i \in 1..Len(lapics) /\ lapic = lapics[bsp.i]
      BY <2>0, StartedAp DEF lapic, LoopPc
    <2>2. ap[l].pc = "off"
      BY <1>0, <2>0, <2>1 DEF ApsWait, Untouched, LoopPc
    <2>3. ApMoved(l, "reset", ap[l].rsp, ap[l].cpuinfo)
      BY <1>4, <2>1, ApMoves DEF SendInit, ApPc
    <2>4. lapic'.apic_id = l
      BY <2>1
    <2> HIDE DEF l
    <2>5. ap'[l].pc = "reset" /\ \A id \in ids \ {l} : ap'[id] = ap[id]
      BY <2>3 DEF ApMoved
    <2>6. HasArgs' = HasArgs /\ l \notin HasArgs
      BY <2>1, <2>2, <2>5 DEF HasArgs
    <2>7. \A id \in ids : ap[id].pc \notin Waiting /\ ap[id].pc # "fault"
      BY <2>0 DEF OnlyCurrentReads, Current, Starting
    <2>8. OnlyCurrentReads'
      BY <2>5, <2>7 DEF OnlyCurrentReads, Waiting
    <2>9. CounterTells'
      BY <2>0, <2>4, <2>5 DEF CounterTells, Starting
    <2>10. \A id \in HasArgs : /\ ap[id].cpuinfo \in 0..info.num_cpus-1
                               /\ info.cpus[ap[id].cpuinfo].lapic_id = id
                               /\ ap'[id] = ap[id]
      BY <2>0, <2>5, <2>6 DEF ArgsPassed, Current, Starting, HasArgs
    <2>11. ArgsPassed'
      BY <2>0, <2>4, <2>5, <2>6, <2>10 DEF ArgsPassed, Starting
    <2> QED BY <2>8, <2>9, <2>11
  <1>5. CASE SendStartup
    <2>0. /\ bsp.pc = "sipi" /\ bsp'.pc = "poll" /\ bsp'.i = bsp.i
          /\ UNCHANGED <<lapics, ap_boot_counter, info, counter_prev, stack, arg_rsp, arg_cpuinfo>>
      BY <1>5, BspSteps DEF SendStartup, Moved, acpi, locals, args
    <2> DEFINE l == lapic.apic_id
    <2>1. l \in ids /\ lapic' = lapic
      BY <2>0, StartedAp DEF lapic, LoopPc
    <2>2. UNCHANGED ap \/ (ap[l].pc = "reset" /\ ApMoved(l, "start", ap[l].rsp, ap[l].cpuinfo))
      BY <1>5, <2>1, ApMoves DEF SendStartup, ApPc, Waiting
    <2>3. CASE UNCHANGED ap
      BY <2>0, <2>1, <2>3 DEF OnlyCurrentReads, CounterTells, ArgsPassed, Starting, Current, HasArgs
    <2>4. CASE ap[l].pc = "reset" /\ ApMoved(l, "start", ap[l].rsp, ap[l].cpuinfo)
      <3>1. lapic'.apic_id = l /\ lapic.apic_id = l
        BY <2>1
      <3> HIDE DEF l
      <3>2. ap'[l].pc = "start" /\ \A id \in ids \ {l} : ap'[id] = ap[id]
        BY <2>4 DEF ApMoved
      <3>3. HasArgs' = HasArgs /\ l \notin HasArgs
        BY <2>1, <2>4, <3>2 DEF HasArgs
      <3>4. OnlyCurrentReads'
        BY <2>0, <3>1, <3>2 DEF OnlyCurrentReads, Current, Starting
      <3>5. CounterTells'
        BY <2>0, <2>4, <3>1, <3>2 DEF CounterTells, Starting
      <3>6. \A id \in HasArgs : /\ ap[id].cpuinfo \in 0..info.num_cpus-1
                                /\ info.cpus[ap[id].cpuinfo].lapic_id = id
                                /\ ap'[id] = ap[id]
        BY <2>0, <3>1, <3>2, <3>3 DEF ArgsPassed, Current, Starting, HasArgs
      <3>7. ArgsPassed'
        BY <2>0, <3>1, <3>2, <3>3, <3>6 DEF ArgsPassed, Starting
      <3> QED BY <3>4, <3>5, <3>7
    <2> QED BY <2>2, <2>3, <2>4
  <1>6. CASE PollAnswered
    <2>0. /\ bsp.pc = "poll" /\ bsp'.pc = "next" /\ ap_boot_counter # counter_prev
          /\ UNCHANGED <<ap, ap_boot_counter, counter_prev>>
      BY <1>6, BspSteps DEF PollAnswered, Moved, locals, Answered
    <2> DEFINE l == lapic.apic_id
               n == info.num_cpus
    <2>1. l \in ids /\ info.cpus[n].lapic_id = l
      BY <2>0, StartedAp DEF LoopPc
    <2>2. ap[l].pc \in Called /\ ap[l].cpuinfo = n
      BY <2>0 DEF CounterTells, ArgsPassed, Starting
    <2>3. /\ n \in 0..CPU_MAX-1 /\ n = info.num_cpus /\ CPU_MAX \in Nat /\ 0 \in Nat
      BY <2>0, CurrentEntry, SmpAssumption DEF BspPlace, LoopPc
    <2>4. info' = [info EXCEPT !.cpus[n].is_bsp = FALSE, !.num_cpus = @ + 1]
      BY <1>6 DEF PollAnswered
    <2>c. \A id \in ids : Current(id) => id = l
      BY DEF Current
    <2>s. \A id \in ids : ap[id].pc \in Waiting => id = l
      BY <2>c DEF OnlyCurrentReads
    <2>a. \A id \in HasArgs : id # l => /\ ap[id].cpuinfo \in 0..n-1
                                        /\ info.cpus[ap[id].cpuinfo].lapic_id = id
      BY <2>c DEF ArgsPassed, HasArgs
    <2> HIDE DEF n, l
    <2>5. Entered(n, l, n + 1)
      BY <2>1, <2>3, <2>4, InfoMoves
    <2>6. \A c \in 0..n-1 : c \in (0..CPU_MAX-1) \ {n} /\ c \in 0..(n+1)-1
      BY <2>3
    <2>7. \A c \in 0..n-1 : info'.cpus[c].lapic_id = info.cpus[c].lapic_id
      BY <2>5, <2>6 DEF Entered
    <2>8. info'.num_cpus = n + 1 /\ info'.cpus[n].lapic_id = l /\ n \in 0..(n+1)-1
      BY <2>3, <2>5 DEF Entered
    <2>9. OnlyCurrentReads'
      BY <2>0, <2>2, <2>s DEF OnlyCurrentReads, Waiting
    <2>10. CounterTells'
      BY <2>0 DEF CounterTells, Starting
    <2>11. ArgsPassed'
      <3>1. HasArgs' = HasArgs /\ ~Starting'
        BY <2>0 DEF HasArgs, Starting
      <3>2. ASSUME NEW id \in HasArgs
            PROVE  ap[id].cpuinfo \in 0..info'.num_cpus-1 /\ info'.cpus[ap[id].cpuinfo].lapic_id = id
        <4>1. CASE id = l
          BY <4>1, <2>2, <2>8
        <4>2. CASE id # l
          BY <4>2, <2>6, <2>7, <2>8, <2>a
        <4> QED BY <4>1, <4>2
      <3> QED BY <2>0, <3>1, <3>2 DEF ArgsPassed
    <2> QED BY <2>9, <2>10, <2>11
  <1>7. CASE PollTimeout
    <2>0. /\ bsp.pc = "poll"
          /\ UNCHANGED <<ap, lapics, ap_boot_counter, info, counter_prev, stack, arg_rsp, arg_cpuinfo>>
      BY <1>7 DEF PollTimeout, acpi, locals, args
    <2>1. CASE Moved("sipi", bsp.i, bsp.k)
      <3>1. lapic' = lapic /\ bsp'.pc = "sipi"
        BY <2>0, <2>1 DEF lapic, Moved
      <3> QED BY <2>0, <3>1
              DEF OnlyCurrentReads, CounterTells, ArgsPassed, Starting, Current, HasArgs
    <2>2. CASE Moved("next", bsp.i + 1, 0) /\ failed' = failed \cup {lapic.apic_id}
      <3> DEFINE l == lapic.apic_id
      <3>1. ap[l].pc = "reset"
        BY <2>0, <2>2 DEF Late
      <3>2. \A id \in ids : Current(id) => id = l
        BY DEF Current
      <3> HIDE DEF l
      <3>3. bsp'.pc = "next"
        BY <2>2 DEF Moved
      <3>4. OnlyCurrentReads'
        BY <2>0, <3>1, <3>2, <3>3 DEF OnlyCurrentReads, Waiting
      <3>5. CounterTells'
        BY <3>3 DEF CounterTells, Starting
      <3>6. ArgsPassed'
        BY <2>0, <3>1, <3>2, <3>3 DEF ArgsPassed, Starting, HasArgs
      <3> QED BY <3>4, <3>5, <3>6
    <2> QED BY <1>7, <2>1, <2>2, BspMoves DEF PollTimeout, BspPc, LoopPc
  <1> QED BY <1>1, <1>2, <1>3, <1>4, <1>5, <1>6, <1>7 DEF bsp_boot, smp_init

LEMMA ProtocolOfAp ==
    ASSUME BootTypes, LapicsListed, BspPlace, Translations, IsTree(mem), Protocol,
           NEW id \in ids, ap_boot(id)
    PROVE  Protocol'
  <1> USE DEF Protocol, Called, ApGoes, memory
  <1>1. /\ UNCHANGED <<lapics, bsp, counter_prev, stack, arg_rsp, arg_cpuinfo, info, failed>>
        /\ lapic' = lapic
    BY ApBoots DEF lapic
  <1>3. TrampolineFault(id) => ap[id].pc \notin Waiting
    <2> SUFFICES ASSUME TrampolineFault(id), ap[id].pc \in Waiting PROVE FALSE
      OBVIOUS
    <2>1. ap[id].pc \in Waiting /\ ~LowMapped
      BY DEF TrampolineFault
    <2>2. bsp.pc \in LoopPc
      BY <2>1 DEF OnlyCurrentReads, Current, Starting, LoopPc
    <2> QED BY <2>1, <2>2, LowIsMapped
  <1>4. ap[id].pc \in Waiting => Current(id)
    BY DEF OnlyCurrentReads
  <1>n. counter_prev \in Nat /\ info.num_cpus \in Nat /\ ap \in [ids -> ApState]
    BY DEF BootTypes, Info
  <1>5. CASE EnterLongMode(id) \/ ReadRsp(id)
    <2>1. /\ ap[id].pc \in {"start", "rsp"} /\ UNCHANGED ap_boot_counter
          /\ ap'[id].pc \in {"rsp", "cpuinfo"}
          /\ ap'[id].pc = "cpuinfo" => ap'[id].rsp = arg_rsp
          /\ \A o \in ids \ {id} : ap'[o] = ap[o]
      BY <1>5, ApSteps DEF EnterLongMode, ReadRsp, ApMoved
    <2>2. Current(id)
      BY <2>1, <1>4 DEF Waiting
    <2>3. OnlyCurrentReads'
      BY <1>1, <2>1, <2>2 DEF OnlyCurrentReads, Current, Starting
    <2>4. CounterTells'
      BY <1>1, <2>1, <2>2 DEF CounterTells, Current, Starting
    <2>5. HasArgs' = HasArgs /\ id \notin HasArgs
      BY <2>1 DEF HasArgs
    <2>6. \A o \in HasArgs : ~Current(o) =>
              /\ ap'[o].cpuinfo \in 0..info.num_cpus-1
              /\ info.cpus[ap'[o].cpuinfo].lapic_id = o
      BY <2>1, <2>5 DEF ArgsPassed, HasArgs
    <2>7. Starting /\ id = lapic.apic_id /\ arg_rsp = stack /\ arg_cpuinfo = info.num_cpus
      BY <2>2 DEF Current, ArgsPassed
    <2>8. \A o : Current(o)' <=> Current(o)
      BY <1>1 DEF Current, Starting
    <2>9. ArgsPassed'
      BY <1>1, <2>1, <2>5, <2>6, <2>7, <2>8 DEF ArgsPassed, Starting, At
    <2> QED BY <2>3, <2>4, <2>9
  <1>6. CASE ReadCpuinfo(id) \/ CountUp(id)
    <2>1. /\ ap[id].pc \in {"cpuinfo", "count"}
          /\ ap'[id].pc \in {"count", "call"} /\ ap'[id].rsp = ap[id].rsp
          /\ ap[id].pc = "cpuinfo" => ap'[id].cpuinfo = arg_cpuinfo
          /\ ap[id].pc = "count" => ap'[id].cpuinfo = ap[id].cpuinfo
          /\ ap_boot_counter' = IF ap'[id].pc = "call" THEN ap_boot_counter + 1 ELSE ap_boot_counter
          /\ \A o \in ids \ {id} : ap'[o] = ap[o]
      BY <1>6, ApSteps DEF ReadCpuinfo, CountUp, ApMoved
    <2>2. Current(id)
      BY <2>1, <1>4 DEF Waiting
    <2>3. OnlyCurrentReads'
      BY <1>1, <2>1, <2>2 DEF OnlyCurrentReads, Current, Starting
    <2>7. Starting /\ id = lapic.apic_id /\ arg_rsp = stack /\ arg_cpuinfo = info.num_cpus
      BY <2>2 DEF Current, ArgsPassed
    <2>4. CounterTells'
      <3>1. ap_boot_counter = counter_prev
        BY <2>1, <2>7 DEF CounterTells
      <3> QED BY <1>1, <2>1, <2>7, <3>1 DEF CounterTells, Starting
    <2>5. HasArgs' = HasArgs \cup {id}
      BY <2>1 DEF HasArgs
    <2>6. \A o \in HasArgs' : ~Current(o) =>
              /\ ap'[o].cpuinfo \in 0..info.num_cpus-1
              /\ info.cpus[ap'[o].cpuinfo].lapic_id = o
      BY <2>1, <2>2, <2>5 DEF ArgsPassed, HasArgs
    <2>8. \A o : Current(o)' <=> Current(o)
      BY <1>1 DEF Current, Starting
    <2>10. ap'[id].rsp = stack /\ ap'[id].cpuinfo = info.num_cpus
      BY <2>1, <2>7 DEF ArgsPassed
    <2>9. ArgsPassed'
      BY <1>1, <2>1, <2>6, <2>7, <2>8, <2>10 DEF ArgsPassed, Starting, At
    <2> QED BY <2>3, <2>4, <2>9
  <1>7. CASE InKernel(id) \/ TrampolineFault(id)
    <2>1. /\ ap[id].pc \in Called /\ UNCHANGED ap_boot_counter
          /\ ap'[id].pc \in Called /\ ap'[id].rsp = ap[id].rsp /\ ap'[id].cpuinfo = ap[id].cpuinfo
          /\ \A o \in ids \ {id} : ap'[o] = ap[o]
      <3>1. CASE InKernel(id)
        BY <3>1, ApSteps, KernelSteps DEF InKernel, ApMoved
      <3>2. CASE TrampolineFault(id)
        BY <1>3, <3>2, ApSteps DEF TrampolineFault, ApMoved
      <3> QED BY <1>7, <3>1, <3>2
    <2>2. OnlyCurrentReads'
      BY <1>1, <2>1 DEF OnlyCurrentReads, Current, Starting, Waiting
    <2>3. \A o \in ids : /\ ap'[o].rsp = ap[o].rsp /\ ap'[o].cpuinfo = ap[o].cpuinfo
                         /\ ap'[o].pc \in Called <=> ap[o].pc \in Called
                         /\ ap'[o].pc = "count" <=> ap[o].pc = "count"
                         /\ ap'[o].pc = "cpuinfo" <=> ap[o].pc = "cpuinfo"
                         /\ ap'[o].pc = "off" <=> ap[o].pc = "off"
      BY <2>1
    <2>4. HasArgs' = HasArgs
      BY <2>3 DEF HasArgs
    <2>5. Starting => lapic.apic_id \in ids
      BY StartedAp DEF Starting, LoopPc
    <2>6. CounterTells'
      BY <1>1, <2>1, <2>3, <2>5 DEF CounterTells, Starting
    <2>8. \A o : Current(o)' <=> Current(o)
      BY <1>1 DEF Current, Starting
    <2>9. \A o \in HasArgs : ~Current(o) =>
              /\ ap'[o].cpuinfo \in 0..info.num_cpus-1
              /\ info.cpus[ap'[o].cpuinfo].lapic_id = o
      BY <2>3 DEF ArgsPassed, HasArgs
    <2>10. Starting => /\ arg_rsp = stack
                       /\ arg_cpuinfo = info.num_cpus
                       /\ ap'[lapic.apic_id].pc \in {"cpuinfo", "count"} \cup Called
                             => ap'[lapic.apic_id].rsp = stack
                       /\ ap'[lapic.apic_id].pc \in {"count"} \cup Called
                             => ap'[lapic.apic_id].cpuinfo = info.num_cpus
      BY <2>3, <2>5 DEF ArgsPassed
    <2>11. ArgsPassed'
      BY <1>1, <2>4, <2>8, <2>9, <2>10 DEF ArgsPassed, Starting, At
    <2> QED BY <2>2, <2>6, <2>11
  <1> QED BY <1>5, <1>6, <1>7 DEF ap_boot, InKernel

LEMMA ProtocolNext ==
    ASSUME BootTypes, LapicsListed, BspPlace, ApsWait, Translations, MemSound, Protocol,
           [KmainNext]_bootVars, Late' = {}
    PROVE  Protocol'
  <1>1. CASE bsp_boot
    BY <1>1, ProtocolOfBsp
  <1>2. CASE \E id \in ids : ap_boot(id)
    BY <1>2, ProtocolOfAp DEF MemSound
  <1>3. CASE UNCHANGED smpIdle
    BY <1>3 DEF smpIdle, Protocol, OnlyCurrentReads, CounterTells, ArgsPassed, Starting, Current,
          HasArgs, lapic, At
  <1> QED BY <1>1, <1>2, <1>3, LaterSteps

-----------------------------------------------------------------------------
(* The blocks of memory.                                                   *)

\* A free block is taken by x.
LEMMA ApartTakes ==
    ASSUME NEW H, NEW m, NEW m2, NEW P, Apart(H, m, P), NEW x,
           x[3] \in Nat \ {0}, Block(x[3]) \subseteq m.free,
           m.free \cap Tables(m) = {}, Tables(m2) = Tables(m), m2.free = m.free \ Block(x[3])
    PROVE  Apart(H \cup {x}, m2, P)
  <1> DEFINE B(y) == Block(y[3])
             H2 == H \cup {x}
  <1>0. /\ \A y \in H : y[3] \in Nat \ {0} /\ B(y) \cap Stock(m) = {}
        /\ \A y, z \in H : y # z => B(y) \cap B(z) = {}
        /\ Stock(m) \cup UNION {B(y) : y \in H} = P
    BY DEF Apart
  <1>1. B(x) \subseteq Stock(m) /\ Stock(m2) = Stock(m) \ B(x)
    BY DEF Stock
  <1>2. UNION {B(y) : y \in H2} = B(x) \cup UNION {B(y) : y \in H}
    OBVIOUS
  <1>3. \A y \in H2 : y[3] \in Nat \ {0} /\ (y = x \/ y \in H)
    BY <1>0
  <1> HIDE DEF B
  <1>4. \A y \in H2 : B(y) \cap Stock(m2) = {}
    BY <1>0, <1>1
  <1>5. \A y, z \in H2 : y # z => B(y) \cap B(z) = {}
    BY <1>0, <1>1
  <1>6. Stock(m2) \cup UNION {B(y) : y \in H2} = P
    BY <1>0, <1>1, <1>2
  <1> QED BY <1>3, <1>4, <1>5, <1>6 DEF Apart, B

\* The block of x is given back.
LEMMA ApartGives ==
    ASSUME NEW H, NEW m, NEW m2, NEW P, Apart(H, m, P), NEW x \in H,
           Tables(m2) = Tables(m), m2.free = m.free \cup Block(x[3])
    PROVE  Apart(H \ {x}, m2, P)
  <1> DEFINE B(y) == Block(y[3])
             H2 == H \ {x}
  <1>0. /\ \A y \in H : y[3] \in Nat \ {0} /\ B(y) \cap Stock(m) = {}
        /\ \A y, z \in H : y # z => B(y) \cap B(z) = {}
        /\ Stock(m) \cup UNION {B(y) : y \in H} = P
    BY DEF Apart
  <1>1. Stock(m2) = Stock(m) \cup B(x)
    BY DEF Stock
  <1>2. UNION {B(y) : y \in H} = B(x) \cup UNION {B(y) : y \in H2}
    OBVIOUS
  <1>3. \A y \in H2 : y[3] \in Nat \ {0} /\ y # x /\ y \in H
    BY <1>0
  <1> HIDE DEF B
  <1>4. \A y \in H2 : B(y) \cap Stock(m2) = {}
    BY <1>0, <1>1
  <1>5. \A y, z \in H2 : y # z => B(y) \cap B(z) = {}
    BY <1>0
  <1>6. Stock(m2) \cup UNION {B(y) : y \in H2} = P
    BY <1>0, <1>1, <1>2
  <1> QED BY <1>3, <1>4, <1>5, <1>6 DEF Apart, B

\* More pages are given to the kernel.
LEMMA ApartGrows ==
    ASSUME NEW H, NEW m, NEW m2, NEW P, Apart(H, m, P), NEW Q, P \cap Q = {},
           Tables(m2) = Tables(m), m2.free = m.free \cup Q
    PROVE  Apart(H, m2, P \cup Q)
  <1>1. Stock(m2) = Stock(m) \cup Q
    BY DEF Stock
  <1>2. \A x \in H : Block(x[3]) \subseteq P
    BY DEF Apart
  <1> QED BY <1>1, <1>2 DEF Apart

LEMMA ApartSame ==
    ASSUME NEW H, NEW m, NEW m2, NEW P, Apart(H, m, P), Stock(m2) = Stock(m)
    PROVE  Apart(H, m2, P)
  BY DEF Apart

\* The stacks of the aps that are past their arguments.
LEMMA SameStacks ==
    ASSUME HasArgs' = HasArgs, \A id \in HasArgs : ap'[id].rsp = ap[id].rsp
    PROVE  Stacks' = Stacks
  BY DEF Stacks

\* A block for good.
LEMMA HeapTakes ==
    ASSUME BootTypes, IsTree(mem), Apart(Held, mem, Given),
           Take, Stacks' = Stacks, NewStack' = NewStack
    PROVE  Apart(Held', mem', Given)
  <1> DEFINE b == kmalloc(mem.free)
             x == <<"heap", b, b>>
  <1>0. mem.free \cap Tables(mem) = {}
    BY TreeFacts
  <1>1. /\ b \in Nat \ {0} /\ Block(b) \subseteq mem.free
        /\ mem' = [mem EXCEPT !.free = @ \ Block(b)]
        /\ heap' = heap \cup {b}
    BY NewBlock DEF Take
  <1>x. x[3] = b /\ HeapBlocks' = HeapBlocks \cup {x}
    BY <1>1 DEF HeapBlocks
  <1> HIDE DEF b, x
  <1>2. mem'.free = mem.free \ Block(b) /\ Tables(mem') = Tables(mem)
    BY <1>1, TakeBlock
  <1>3. Held' = Held \cup {x}
    BY <1>x DEF Held
  <1>4. Apart(Held \cup {x}, mem', Given)
    BY <1>0, <1>1, <1>2, <1>x, ApartTakes
  <1> QED BY <1>3, <1>4

LEMMA ApartOfBsp ==
    ASSUME BootTypes, LapicsListed, BspPlace, ApsWait, Translations, MemSound, Protocol,
           Apart(Held, mem, Given),
           bsp_boot, UNCHANGED <<kmain, kinit>>, Late' = {}
    PROVE  Apart(Held, mem, Given)'
  <1>0. /\ IsTree(mem) /\ mem.free \cap Tables(mem) = {} /\ ap \in [ids -> ApState]
    BY TreeFacts DEF MemSound, BootTypes
  <1> USE DEF At, memory, kept
  <1>g. Given' = Given /\ HeapBlocks' = HeapBlocks
    <2>1. UNCHANGED heap
      BY DEF bsp_boot, vmm_init, madt_init, smp_init, MapLow, PrepareTrampoline, NextLapic,
             PassStack, SendInit, SendStartup, PollAnswered, PollTimeout, UnmapLow, EndLoop, smpLocals
    <2> QED BY <2>1 DEF Given, HeapBlocks
  <1>u. ASSUME UNCHANGED ap
        PROVE  Stacks' = Stacks
    BY <1>u DEF Stacks, HasArgs
  <1>1. CASE vmm_init \/ madt_init \/ MapLow \/ PrepareTrampoline \/ UnmapLow \/ NextLapic \/ EndLoop
    <2>1. /\ UNCHANGED ap /\ bsp.pc \notin {"init", "sipi", "poll"}
          /\ bsp'.pc \notin {"init", "sipi", "poll"}
      <3>1. "memory" \in BspPc /\ "madt" \in BspPc /\ "next" \in BspPc
        BY DEF BspPc, EarlyPc, LoopPc
      <3>2. CASE vmm_init
        BY <3>1, <3>2, BspSteps DEF vmm_init, Moved, smpLocals
      <3>3. CASE MapLow \/ PrepareTrampoline
        BY <3>1, <3>3, BspSteps DEF MapLow, PrepareTrampoline, Moved, smpLocals
      <3>4. CASE madt_init \/ UnmapLow \/ NextLapic \/ EndLoop
        BY <3>4, BspSteps DEF madt_init, UnmapLow, NextLapic, EndLoop, Moved, smpLocals
      <3> QED BY <1>1, <3>2, <3>3, <3>4
    <2>2. NewStack' = NewStack
      BY <2>1 DEF NewStack, HoldsStack
    <2>3. Held' = Held
      BY <1>g, <1>u, <2>1, <2>2 DEF Held
    <2>4. Stock(mem') = Stock(mem)
      <3>1. CASE vmm_init \/ MapLow \/ PrepareTrampoline \/ UnmapLow
        BY <1>0, <3>1, MapsAsExpected
      <3> QED BY <1>1, <3>1 DEF madt_init, NextLapic, EndLoop
    <2> QED BY <1>g, <2>3, <2>4, ApartSame
  <1>2. CASE PassStack
    <2>1. /\ bsp.pc = "stack" /\ bsp'.pc = "init" /\ bsp'.i = bsp.i /\ UNCHANGED <<ap, lapics>>
          /\ stack' \in Nat \ {0} /\ Block(stack') \subseteq mem.free
          /\ mem' = [mem EXCEPT !.free = @ \ Block(stack')]
      BY <1>0, <1>2, NewBlock, BspSteps DEF PassStack, Moved, acpi
    <2>2. /\ mem'.free = mem.free \ Block(stack')
          /\ Tables(mem') = Tables(mem)
      BY <1>0, <2>1, TakeBlock
    <2> DEFINE x == <<"stack", lapic.apic_id, stack'>>
    <2>3. NewStack = {} /\ NewStack' = {x}
      BY <2>1 DEF NewStack, HoldsStack, lapic
    <2>4. Held' = Held \cup {x}
      BY <1>g, <1>u, <2>1, <2>3 DEF Held
    <2>5. x[3] = stack'
      OBVIOUS
    <2> HIDE DEF x
    <2>6. Apart(Held \cup {x}, mem', Given)
      BY <1>0, <2>1, <2>2, <2>5, ApartTakes
    <2> QED BY <1>g, <2>4, <2>6
  <1>3. CASE SendInit \/ SendStartup
    <2>1. /\ bsp.pc \in {"init", "sipi"} /\ bsp'.pc \in {"sipi", "poll"} /\ bsp'.i = bsp.i
          /\ UNCHANGED <<lapics, mem, stack>>
      BY <1>3, BspSteps DEF SendInit, SendStartup, Moved, acpi, locals
    <2>2. NewStack' = NewStack
      BY <2>1 DEF NewStack, HoldsStack, lapic
    <2> DEFINE l == lapic.apic_id
    <2>3. l \in ids /\ bsp.i \in 1..Len(lapics) /\ lapic = lapics[bsp.i] /\ Len(lapics) \in Nat
      BY <2>1, StartedAp DEF LoopPc
    <2>4. /\ UNCHANGED ap \/ (ap[l].pc \in {"off", "reset"} /\ ap'[l].pc \in {"reset", "start"})
          /\ \A id \in ids \ {l} : ap'[id] = ap[id]
      <3>1. CASE SendInit
        <4>1. ap[l].pc = "off"
          BY <2>3, <3>1 DEF SendInit, ApsWait, Untouched, LoopPc
        <4>2. ApMoved(l, "reset", ap[l].rsp, ap[l].cpuinfo)
          BY <3>1, <2>3, ApMoves DEF SendInit, ApPc
        <4> HIDE DEF l
        <4> QED BY <4>1, <4>2 DEF ApMoved
      <3>2. CASE SendStartup
        <4>1. \/ UNCHANGED ap
              \/ ap[l].pc = "reset" /\ ApMoved(l, "start", ap[l].rsp, ap[l].cpuinfo)
          BY <3>2, <2>3, ApMoves DEF SendStartup, ApPc, Waiting
        <4> HIDE DEF l
        <4> QED BY <4>1 DEF ApMoved
      <3> QED BY <1>3, <3>1, <3>2
    <2> HIDE DEF l
    <2>5. /\ HasArgs' = HasArgs
          /\ \A id \in HasArgs : ap'[id].rsp = ap[id].rsp
      <3>1. CASE UNCHANGED ap
        BY <3>1 DEF HasArgs
      <3>2. CASE ap[l].pc \in {"off", "reset"} /\ ap'[l].pc \in {"reset", "start"}
        <4>1. \A id \in ids : id \in HasArgs' <=> id \in HasArgs
          BY <2>3, <2>4, <3>2 DEF HasArgs
        <4>2. HasArgs' = HasArgs
          BY <4>1 DEF HasArgs
        <4> QED BY <2>4, <3>2, <4>2 DEF HasArgs
      <3> QED BY <2>4, <3>1, <3>2
    <2>6. Held' = Held
      BY <1>g, <2>2, <2>5, SameStacks DEF Held
    <2> QED BY <1>g, <2>1, <2>6
  <1>4. CASE PollAnswered
    <2>1. /\ bsp.pc = "poll" /\ bsp'.pc = "next" /\ ap_boot_counter # counter_prev
          /\ UNCHANGED <<ap, mem>>
      BY <1>4, BspSteps DEF PollAnswered, Moved, Answered
    <2> DEFINE l == lapic.apic_id
    <2>2. l \in ids
      BY <2>1, StartedAp DEF LoopPc
    <2>3. ap[l].pc \in Called /\ ap[l].rsp = stack
      BY <2>1 DEF Protocol, CounterTells, ArgsPassed, Starting
    <2>4. NewStack' = {} /\ NewStack = {<<"stack", l, ap[l].rsp>>}
      BY <2>1, <2>3 DEF NewStack, HoldsStack
    <2>5. l \in HasArgs
      BY <2>2, <2>3 DEF HasArgs, Called
    <2>6. NewStack \subseteq Stacks
      BY <2>4, <2>5 DEF Stacks
    <2>7. Held' = Held
      BY <1>g, <1>u, <2>1, <2>4, <2>6 DEF Held
    <2> QED BY <1>g, <2>1, <2>7
  <1>5. CASE PollTimeout
    <2>1. bsp.pc = "poll" /\ UNCHANGED <<ap, stack, lapics>>
      BY <1>5 DEF PollTimeout, locals, acpi
    <2>2. CASE Moved("sipi", bsp.i, bsp.k) /\ UNCHANGED mem
      <3>1. NewStack' = NewStack
        BY <2>1, <2>2 DEF NewStack, HoldsStack, Moved, lapic
      <3>2. Held' = Held
        BY <1>g, <1>u, <2>1, <3>1 DEF Held
      <3> QED BY <1>g, <2>2, <3>2
    <2>3. CASE /\ Moved("next", bsp.i + 1, 0)
               /\ mem' = [mem EXCEPT !.free = @ \cup Block(stack)]
               /\ failed' = failed \cup {lapic.apic_id}
      <3> DEFINE l == lapic.apic_id
                 x == <<"stack", l, stack>>
                 free == mem.free \cup Block(stack)
      <3>1. ap[l].pc = "reset"
        BY <2>1, <2>3 DEF Late
      <3>2. NewStack = {x} /\ NewStack' = {}
        BY <2>1, <2>3 DEF NewStack, HoldsStack, Moved
      <3>3. l \notin HasArgs
        BY <3>1 DEF HasArgs
      <3>4. x \notin Stacks
        BY <3>3 DEF Stacks
      <3>5. x \notin HeapBlocks /\ x # <<"root", 0, PML4>>
        BY DEF HeapBlocks
      <3>6. x[3] = stack
        OBVIOUS
      <3> HIDE DEF x, l
      <3>7. Held' = Held \ {x} /\ x \in Held
        BY <1>g, <1>u, <2>1, <3>2, <3>4, <3>5 DEF Held
      <3>8. free \in SUBSET Frame /\ free \cap (Tables(mem) \cup {PML4}) = {}
        BY <1>0, <2>1, Frames, TreeFacts DEF MemSound, HoldsStack
      <3>9. mem' = [mem EXCEPT !.free = free]
        BY <2>3
      <3> HIDE DEF free
      <3>10. mem'.free = free /\ Tables(mem') = Tables(mem)
        BY <1>0, <3>8, <3>9, FreeStep
      <3>11. mem'.free = mem.free \cup Block(x[3])
        BY <3>6, <3>10 DEF free
      <3>12. Apart(Held \ {x}, mem', Given)
        BY <3>7, <3>10, <3>11, ApartGives
      <3> QED BY <1>g, <3>7, <3>12
    <2> QED BY <1>5, <2>2, <2>3, BspMoves DEF PollTimeout, BspPc, LoopPc
  <1> QED BY <1>1, <1>2, <1>3, <1>4, <1>5 DEF bsp_boot, smp_init

LEMMA ApartOfAp ==
    ASSUME BootTypes, LapicsListed, BspPlace, Translations, MemSound, Protocol,
           Apart(Held, mem, Given),
           NEW id \in ids, ap_boot(id), UNCHANGED <<kmain, kinit>>
    PROVE  Apart(Held, mem, Given)'
  <1>0. IsTree(mem) /\ mem.free \cap Tables(mem) = {}
    BY TreeFacts DEF MemSound
  <1>g. Given' = Given /\ UNCHANGED <<lapics, bsp, stack>>
    BY ApBoots DEF Given
  <1>n. NewStack' = NewStack
    BY <1>g DEF NewStack, HoldsStack, lapic
  <1>1. ap'[id].pc # "fault"
    BY <1>0, ProtocolOfAp DEF Protocol, OnlyCurrentReads
  <1> USE DEF ApGoes, memory
  <1>s. ASSUME ap'[id].rsp = ap[id].rsp \/ ap[id].pc \notin {"count"} \cup Called,
               ap[id].pc \in {"count"} \cup Called <=> ap'[id].pc \in {"count"} \cup Called
        PROVE  Stacks' = Stacks
    <2>1. \A o \in ids \ {id} : ap'[o] = ap[o]
      BY ApBoots
    <2>2. HasArgs' = HasArgs
      BY <2>1, <1>s DEF HasArgs, Called
    <2>3. \A o \in HasArgs : ap'[o].rsp = ap[o].rsp
      BY <2>1, <1>s DEF HasArgs, Called
    <2> QED BY <2>2, <2>3, SameStacks
  <1>2. CASE EnterLongMode(id) \/ ReadRsp(id) \/ CountUp(id) \/ TrampolineFault(id)
    <2>1. /\ UNCHANGED <<mem, heap>>
          /\ \/ ap[id].pc \in {"start", "rsp"} /\ ap'[id].pc \in {"rsp", "cpuinfo"}
             \/ ap[id].pc = "count" /\ ap'[id].pc = "call" /\ ap'[id].rsp = ap[id].rsp
             \/ ap[id].pc = "call" /\ ap'[id].pc = "lost" /\ ap'[id].rsp = ap[id].rsp
      BY <1>1, <1>2, ApSteps DEF EnterLongMode, ReadRsp, CountUp, TrampolineFault, ApMoved
    <2>2. Stacks' = Stacks
      BY <1>s, <2>1 DEF Called
    <2>3. Held' = Held
      BY <1>n, <2>1, <2>2 DEF Held, HeapBlocks
    <2> QED BY <1>g, <2>1, <2>3
  <1>3. CASE ReadCpuinfo(id)
    <2>1. /\ UNCHANGED <<mem, heap>> /\ \A o \in ids \ {id} : ap'[o] = ap[o]
          /\ ap[id].pc = "cpuinfo" /\ ap'[id].pc = "count" /\ ap'[id].rsp = ap[id].rsp
      BY <1>3, ApSteps DEF ReadCpuinfo, ApMoved
    <2>2. Current(id) /\ ap[id].rsp = stack
      BY <2>1 DEF Protocol, OnlyCurrentReads, ArgsPassed, Waiting, Current
    <2>3. HasArgs' = HasArgs \cup {id}
      BY <2>1 DEF HasArgs
    <2>4. \A o \in ids : ap'[o].rsp = ap[o].rsp
      BY <2>1
    <2>7. Stacks' = Stacks \cup {<<"stack", id, stack>>}
      <3>1. \A o \in HasArgs' : ap'[o].rsp = ap[o].rsp
        BY <2>4 DEF HasArgs
      <3>2. Stacks' = {<<"stack", o, ap[o].rsp>> : o \in HasArgs'}
        BY <3>1 DEF Stacks
      <3> QED BY <2>2, <2>3, <3>2 DEF Stacks
    <2>8. NewStack = {<<"stack", id, stack>>}
      BY <2>2 DEF NewStack, HoldsStack, Current, Starting
    <2>9. Held' = Held
      BY <1>n, <2>1, <2>7, <2>8 DEF Held, HeapBlocks
    <2> QED BY <1>g, <2>1, <2>9
  <1>4. CASE InKernel(id)
    <2>1. ap[id].pc \in Called /\ ap'[id].pc \in Called /\ ap'[id].rsp = ap[id].rsp
      BY <1>4, ApSteps DEF InKernel, ApMoved, Called
    <2>2. Stacks' = Stacks
      BY <1>s, <2>1
    <2>3. CASE Take
      BY <1>0, <1>g, <1>n, <2>2, <2>3, HeapTakes
    <2>4. CASE UNCHANGED <<mem, heap>>
      BY <1>g, <1>n, <2>2, <2>4 DEF Held, HeapBlocks
    <2> QED BY <1>4, <2>3, <2>4, KernelSteps
  <1> QED BY <1>2, <1>3, <1>4 DEF ap_boot, InKernel

LEMMA ApartNext ==
    ASSUME BootTypes, LapicsListed, BspPlace, ApsWait, Translations, MemSound, KinitSound, Protocol,
           Apart(Held, mem, Given), [KmainNext]_bootVars, Late' = {}
    PROVE  Apart(Held, mem, Given)'
  <1>0. /\ IsTree(mem) /\ mem.free \cap Tables(mem) = {} /\ mem.free \cap (Tables(mem) \cup {PML4}) = {}
        /\ mem.free \subseteq Frame /\ Tables(mem) \subseteq Memory
    BY TreeFacts DEF MemSound
  <1>1. CASE bsp_boot /\ UNCHANGED <<kmain, kinit>>
    BY <1>1, ApartOfBsp
  <1>2. CASE (\E id \in ids : ap_boot(id)) /\ UNCHANGED <<kmain, kinit>>
    BY <1>2, ApartOfAp
  <1>3. ASSUME UNCHANGED smpIdle
        PROVE  Stacks' = Stacks /\ NewStack' = NewStack
    BY <1>3 DEF smpIdle, Stacks, NewStack, HasArgs, HoldsStack, lapic
  <1>4. ASSUME UNCHANGED smpIdle, UNCHANGED heap
        PROVE  Held' = Held
    BY <1>3, <1>4 DEF Held, HeapBlocks
  \* More pages.
  <1>m. ASSUME NEW Q \in SUBSET Frame, Q \cap (Memory \cup {PML4}) = {},
               mem' = [mem EXCEPT !.free = @ \cup Q], Given \cap Q = {}, Given' = Given \cup Q,
               UNCHANGED smpIdle, UNCHANGED heap
        PROVE  Apart(Held, mem, Given)'
    <2> DEFINE free == mem.free \cup Q
    <2>1. free \in SUBSET Frame /\ free \cap (Tables(mem) \cup {PML4}) = {}
      BY <1>0, <1>m
    <2>2. mem' = [mem EXCEPT !.free = free]
      BY <1>m
    <2>3. free = mem.free \cup Q
      OBVIOUS
    <2> HIDE DEF free
    <2>4. mem'.free = mem.free \cup Q /\ Tables(mem') = Tables(mem)
      BY <1>0, <2>1, <2>2, <2>3, FreeStep
    <2>5. Apart(Held, mem', Given \cup Q)
      BY <1>m, <2>4, ApartGrows
    <2> QED BY <1>4, <1>m, <2>5
  <1>5. CASE UNCHANGED <<smpIdle, kept, kinit>> /\ pmm_reclaim_bootloader_mem
    <2>1. kmain = "boot" /\ kmain' = "sched_init" /\ kinit = "klog_show" /\ UNCHANGED heap
      BY <1>5 DEF pmm_reclaim_bootloader_mem, KinitSound, kept
    <2>2. Given = Memory /\ Given' = Given \cup Reclaimable /\ Given \cap Reclaimable = {}
      BY <1>5, <2>1, KmainAssumption DEF Given
    <2>3. Reclaimable \in SUBSET Frame /\ Reclaimable \cap (Memory \cup {PML4}) = {}
      BY Frames, KmainAssumption
    <2> QED BY <1>5, <1>m, <2>1, <2>2, <2>3 DEF pmm_reclaim_bootloader_mem
  <1>6. CASE UNCHANGED <<smpIdle, kmain, kinit>> /\ Take
    <2>1. Given' = Given
      BY <1>6 DEF Given
    <2> QED BY <1>0, <1>3, <1>6, <2>1, HeapTakes
  <1>7. CASE UNCHANGED <<smpIdle, tasks_all, kmain, kinit>> /\ kinit = "initrd_init" /\ Closes
    <2> DEFINE x == <<"heap", desc, desc>>
               free == mem.free \cup Block(desc)
    <2>1. desc \in heap
      BY <1>7 DEF Closes, KinitSound
    <2>2. x[3] = desc /\ x \in Held
      BY <2>1 DEF Held, HeapBlocks
    <2>3. free \in SUBSET Frame /\ free \cap (Tables(mem) \cup {PML4}) = {}
      BY <1>0, <2>1 DEF MemSound
    <2>4. mem' = [mem EXCEPT !.free = free] /\ heap' = heap \ {desc}
      BY <1>7 DEF Closes
    <2>5. HeapBlocks' = HeapBlocks \ {x}
      BY <2>4 DEF HeapBlocks
    <2>6. x \notin Stacks /\ x \notin NewStack /\ x # <<"root", 0, PML4>>
      BY DEF Stacks, NewStack
    <2> HIDE DEF x
    <2>7. Held' = Held \ {x}
      BY <1>3, <1>7, <2>5, <2>6 DEF Held
    <2>8. free = mem.free \cup Block(x[3])
      BY <2>2
    <2> HIDE DEF free
    <2>9. mem'.free = mem.free \cup Block(x[3]) /\ Tables(mem') = Tables(mem)
      BY <1>0, <2>3, <2>4, <2>8, FreeStep
    <2>10. Apart(Held \ {x}, mem', Given)
      BY <2>2, <2>9, ApartGives
    <2>11. Given' = Given
      BY <1>7 DEF Given
    <2> QED BY <2>7, <2>10, <2>11
  <1>8. CASE UNCHANGED <<smpIdle, kept, kmain>> /\ kinit = "initrd_init" /\ Ends
    <2>1. Given' = Given \cup Initrd /\ Given \cap Initrd = {}
      BY <1>8, KmainAssumption DEF Given, Ends
    <2>2. Initrd \in SUBSET Frame /\ Initrd \cap (Memory \cup {PML4}) = {}
      BY Frames, KmainAssumption
    <2> QED BY <1>8, <1>m, <2>1, <2>2 DEF Ends, kept
  <1>9. CASE /\ UNCHANGED <<smpIdle, mem, kept, kmain>>
             /\ UNCHANGED kinit \/ (kinit # "run" /\ kinit' # "run")
    <2>1. Given' = Given
      BY <1>9 DEF Given
    <2> QED BY <1>4, <1>9, <2>1 DEF kept
  <1> QED BY <1>1, <1>2, <1>5, <1>6, <1>7, <1>8, <1>9, LaterSteps

\* What kinit does.
LEMMA KinitNext ==
    ASSUME BootTypes, KinitSound, [KmainNext]_bootVars
    PROVE  KinitSound'
  <1> USE DEF KinitSound
  <1>1. CASE SmpNext /\ UNCHANGED <<vfsVars, kmain, kinit, taken, desc>>
    <2>1. heap \subseteq heap'
      <3>1. CASE bsp_boot
        BY <3>1 DEF bsp_boot, vmm_init, madt_init, smp_init, MapLow, PrepareTrampoline, NextLapic,
             PassStack, SendInit, SendStartup, PollAnswered, PollTimeout, UnmapLow, EndLoop,
             smpLocals, kept, memory
      <3>2. CASE \E id \in ids : ap_boot(id)
        BY <3>2, KernelSteps DEF ap_boot, EnterLongMode, ReadRsp, ReadCpuinfo, CountUp,
             TrampolineFault, InKernel, memory, Take
      <3> QED BY <1>1, <3>1, <3>2 DEF SmpNext
    <2> QED BY <1>1, <2>1 DEF vfsVars
  <1>2. CASE pmm_reclaim_bootloader_mem
    BY <1>2 DEF pmm_reclaim_bootloader_mem, vfsVars, kept
  <1>3. CASE sched_init
    BY <1>3 DEF sched_init, vfsVars, Take
  <1>4. CASE klog_show
    BY <1>4 DEF klog_show, vfsVars, Takes, Took, Take, Runs
  <1>5. CASE FindModules
    BY <1>5 DEF FindModules, vfsVars, smpVars
  <1>6. CASE initrd_init
    <2>0. kinit = "initrd_init"
      BY <1>6 DEF initrd_init
    <2>1. CASE Takes(Blocks) /\ desc' = IF unpack.pc = "open" /\ taken.kinit = 0 THEN kmalloc(mem.free) ELSE desc
      BY <2>0, <2>1 DEF Takes, Take, vfsVars
    <2>2. CASE /\ Took(Blocks) /\ initrd_helper /\ UNCHANGED kinit
               /\ unpack.pc # "close" => UNCHANGED <<heap, desc>>
      <3>1. taken' = [taken EXCEPT !.kinit = 0] /\ UNCHANGED kmain
        BY <2>2 DEF Took
      <3>2. CASE CreateRecord
        BY <2>0, <2>2, <3>1, <3>2 DEF CreateRecord, Then, NextRec
      <3>3. CASE OpenRecord
        <4>1. CASE Then("write") /\ Found(record.path) # NULL
          <5>1. Blocks \in {1, 2} /\ unpack.pc = "open" /\ taken.kinit = Blocks
            BY <2>2, <3>3, <4>1 DEF Blocks, OpenRecord, Took
          <5>2. desc \in heap
            BY <5>1
          <5> QED BY <2>0, <2>2, <3>1, <4>1, <5>1, <5>2 DEF Then
        <4>2. CASE NextRec
          BY <2>0, <2>2, <3>1, <4>2 DEF NextRec
        <4> QED BY <3>3, <4>1, <4>2 DEF OpenRecord, vfs_open
      <3>4. CASE WriteRecord
        BY <2>0, <2>2, <3>1, <3>4 DEF WriteRecord, Then
      <3>5. CASE CloseRecord
        BY <2>0, <2>2, <3>1, <3>5 DEF CloseRecord, NextRec
      <3> QED BY <2>2, <3>2, <3>3, <3>4, <3>5 DEF initrd_helper
    <2>3. CASE initrd_done /\ kinit' = "run" /\ UNCHANGED <<smpIdle, kept, kmain, taken, desc>>
      BY <2>0, <2>3 DEF initrd_done, Then
    <2> QED BY <1>6, <2>1, <2>2, <2>3 DEF initrd_init, Closes
  <1>7. CASE TasksCall
    BY <1>7 DEF TasksCall, smpVars, ClientCalls
  <1>8. CASE UNCHANGED bootVars
    BY <1>8 DEF bootVars, smpVars, vfsVars
  <1> QED BY <1>1, <1>2, <1>3, <1>4, <1>5, <1>6, <1>7, <1>8 DEF KmainNext

-----------------------------------------------------------------------------
(* The theorems.                                                           *)

LEMMA BootNext == BootInv /\ [KmainNext]_bootVars => BootInv'
<1> SUFFICES ASSUME BootInv, [KmainNext]_bootVars PROVE BootInv'
  OBVIOUS
<1>0. /\ BootTypes /\ LapicsListed /\ BspPlace /\ ApsWait /\ Translations /\ MemSound /\ IsTree(mem)
      /\ KinitSound
  BY DEF BootInv, MemSound
<1>1. BootTypes'
  BY <1>0, TypesNext
<1>2. LapicsListed'
  BY <1>0, ListedNext
<1>3. BspPlace'
  BY <1>0, PlaceNext
<1>4. ApsWait'
  BY <1>0, WaitNext
<1>5. Translations' /\ MemSound'
  BY <1>0, MemNext
<1>k. KinitSound'
  BY <1>0, KinitNext
<1>6. ASSUME Late' = {} PROVE OnTime'
  <2>1. Late = {}
    BY <1>0, <1>6, LateStays
  <2>2. Protocol /\ Apart(Held, mem, Given)
    BY <2>1 DEF BootInv, OnTime, Protocol
  <2>3. Protocol'
    BY <1>0, <1>6, <2>2, ProtocolNext
  <2>4. Apart(Held, mem, Given)'
    BY <1>0, <1>6, <2>2, ApartNext
  <2> QED BY <2>3, <2>4 DEF OnTime, Protocol
<1> QED BY <1>1, <1>2, <1>3, <1>4, <1>5, <1>k, <1>6 DEF BootInv

LEMMA BootInvariant == KmainSpec => []BootInv
  BY BootInitially, BootNext, PTL DEF KmainSpec

\* The state of the boot, of the aps and of the memory has the shapes the
\* code gives it, whatever the aps do.
THEOREM BootIsTyped == KmainSpec => []BootTypes
<1>1. BootInv => BootTypes
  BY DEF BootInv
<1> QED BY <1>1, BootInvariant, PTL

\* No two aps come up on the same stack or with the same cpu_t, unless one
\* answered when the bsp had given it up (smp_init, trampoline64).
THEOREM ArgumentsAreOwn == KmainSpec => []OwnArguments
<1>1. ASSUME BootInv PROVE OwnArguments
  <2> SUFFICES ASSUME Late = {}, NEW id \in HasArgs
               PROVE  /\ info.cpus[ap[id].cpuinfo].lapic_id = id
                      /\ Block(ap[id].rsp) \cap mem.free = {}
                      /\ \A other \in HasArgs \ {id} :
                            /\ ap[other].rsp # ap[id].rsp
                            /\ ap[other].cpuinfo # ap[id].cpuinfo
    BY DEF OwnArguments
  <2>1. BootTypes /\ BspPlace /\ ArgsPassed /\ Apart(Held, mem, Given)
    BY <1>1 DEF BootInv, OnTime
  <2>2. ASSUME NEW o \in HasArgs
        PROVE  info.cpus[ap[o].cpuinfo].lapic_id = o
    <3>1. CASE Current(o)
      <4>1. o = lapic.apic_id /\ bsp.pc \in LoopPc \ {"next"} /\ Starting
        BY <3>1 DEF Current, Starting, LoopPc
      <4>2. info.cpus[info.num_cpus].lapic_id = o
        BY <2>1, <4>1, StartedAp
      <4>3. ap[o].cpuinfo = info.num_cpus
        BY <2>1, <4>1 DEF ArgsPassed, HasArgs, Called
      <4> QED BY <4>2, <4>3
    <3> QED BY <2>1, <3>1 DEF ArgsPassed
  <2>3. ASSUME NEW o \in HasArgs
        PROVE  /\ <<"stack", o, ap[o].rsp>> \in Held
               /\ ap[o].rsp \in Nat \ {0}
               /\ Block(ap[o].rsp) \cap mem.free = {}
    <3> DEFINE x == <<"stack", o, ap[o].rsp>>
    <3>1. x \in Held
      BY DEF Held, Stacks
    <3>2. x[3] = ap[o].rsp
      OBVIOUS
    <3> HIDE DEF x
    <3>3. x[3] \in Nat \ {0} /\ Block(x[3]) \cap Stock(mem) = {}
      BY <2>1, <3>1 DEF Apart
    <3> QED BY <3>1, <3>2, <3>3 DEF Stock, x
  <2>4. ASSUME NEW other \in HasArgs \ {id}
        PROVE  ap[other].rsp # ap[id].rsp
    <3> DEFINE x == <<"stack", id, ap[id].rsp>>
               y == <<"stack", other, ap[other].rsp>>
    <3>1. x \in Held /\ y \in Held
      BY <2>3
    <3>2. x # y /\ x[3] = ap[id].rsp /\ y[3] = ap[other].rsp
      OBVIOUS
    <3> HIDE DEF x, y
    <3>3. Block(x[3]) \cap Block(y[3]) = {}
      BY <2>1, <3>1, <3>2 DEF Apart
    <3>4. x[3] \in Block(x[3])
      BY DEF Block
    <3> QED BY <3>2, <3>3, <3>4
  <2> QED BY <2>2, <2>3, <2>4
<1> QED BY <1>1, BootInvariant, PTL

\* The page tables are a tree without empty or freed tables at every step,
\* and map what vmm_init is to map when smp_init is done (vmm.c).
THEOREM TablesAreProper == KmainSpec => []TablesProper
<1>1. ASSUME BootInv PROVE TablesProper
  <2>1. IsTree(mem) /\ Translations
    BY <1>1 DEF BootInv, MemSound
  <2>2. ProperTables(mem)
    BY <2>1, TreeFacts
  <2>3. ASSUME At("done") PROVE Translation(mem) = KernelMap
    <3>1. ASSUME NEW v \in Page PROVE Translate(mem, v) = KernelMap[v]
      <4>1. Translate(mem, v) = Expected(v)
        BY <2>1 DEF Translations
      <4>2. Expected(v) = KernelMap[v]
        BY <2>3 DEF Expected, KernelMap, WindowMapped, OffsetMapped, LowMap, At
      <4> QED BY <4>1, <4>2
    <3> QED BY <3>1 DEF Translation, KernelMap
  <2> QED BY <2>2, <2>3 DEF TablesProper
<1> QED BY <1>1, BootInvariant, PTL

\* Two pages make a block.
LEMMA PagesOfBlocks ==
    ASSUME NEW B, B \subseteq Nat \ {0}, IsFiniteSet(B),
           \A b, c \in B : b # c => Block(b) \cap Block(c) = {}
    PROVE  Cardinality(UNION {Block(b) : b \in B}) = 2 * Cardinality(B)
  <1> DEFINE U == UNION {Block(b) : b \in B}
             T == {0, 1}
             f == [x \in B \X T |-> x[1] - x[2]]
  <1>1. IsFiniteSet(T) /\ Cardinality(T) = 2
    <2>1. IsFiniteSet({1}) /\ Cardinality({1}) = 1
      BY FS_Singleton
    <2>2. {1} \cup {0} = T /\ 0 \notin {1}
      OBVIOUS
    <2>3. IsFiniteSet({1} \cup {0}) /\ Cardinality({1} \cup {0}) = Cardinality({1}) + 1
      BY <2>1, <2>2, FS_AddElement
    <2> QED BY <2>1, <2>2, <2>3
  <1>2. IsFiniteSet(B \X T) /\ Cardinality(B \X T) = Cardinality(B) * Cardinality(T)
    <2> HIDE DEF T
    <2> QED BY <1>1, FS_Product
  <1>3. f \in Bijection(B \X T, U)
    <2>1. \A b \in B : Block(b) = {b-1, b} /\ b \in Nat \ {0}
      BY DEF Block
    <2>2. ASSUME NEW x \in B \X T
          PROVE  f[x] \in U /\ f[x] \in Block(x[1])
      <3>1. x[1] \in B /\ x[2] \in {0, 1} /\ f[x] = x[1] - x[2]
        OBVIOUS
      <3>2. f[x] \in Block(x[1])
        <4>1. Block(x[1]) = {x[1]-1, x[1]} /\ x[1] \in Nat
          BY <2>1, <3>1
        <4>2. x[1] - x[2] \in {x[1]-1, x[1]}
          BY <3>1, <4>1
        <4> QED BY <3>1, <4>1, <4>2
      <3> QED BY <3>1, <3>2
    <2>3. ASSUME NEW x \in B \X T, NEW y \in B \X T, f[x] = f[y]
          PROVE  x = y
      <3>1. /\ x = <<x[1], x[2]>> /\ x[1] \in B /\ x[2] \in {0, 1} /\ f[x] = x[1] - x[2]
            /\ y = <<y[1], y[2]>> /\ y[1] \in B /\ y[2] \in {0, 1} /\ f[y] = y[1] - y[2]
        OBVIOUS
      <3>2. x[1] = y[1]
        BY <2>2, <2>3, <3>1
      <3>3. x[2] = y[2]
        <4> DEFINE b == x[1]
                   k == x[2]
                   l == y[2]
        <4>1. b - k = b - l /\ b \in Nat /\ k \in {0, 1} /\ l \in {0, 1}
          BY <2>1, <2>3, <3>1, <3>2
        <4> HIDE DEF b, k, l
        <4>2. k = l
          BY <4>1
        <4> QED BY <4>2 DEF k, l
      <3> QED BY <3>1, <3>2, <3>3
    <2>4. ASSUME NEW u \in U
          PROVE  \E x \in B \X T : f[x] = u
      <3>1. PICK b \in B : u \in Block(b)
        OBVIOUS
      <3>2. CASE u = b
        <4>1. <<b, 0>> \in B \X T /\ f[<<b, 0>>] = u
          BY <2>1, <3>2
        <4> QED BY <4>1
      <3>3. CASE u = b - 1
        <4>1. <<b, 1>> \in B \X T /\ f[<<b, 1>>] = u
          BY <2>1, <3>3
        <4> QED BY <4>1
      <3>4. Block(b) = {b-1, b}
        BY <2>1
      <3> QED BY <3>1, <3>2, <3>3, <3>4
    <2>5. f \in [B \X T -> U]
      BY <2>2
    <2> HIDE DEF f, U, T
    <2> QED BY <2>3, <2>4, <2>5, Fun_IsBij
  <1> HIDE DEF f, U, T
  <1>4. ExistsBijection(B \X T, U)
    BY <1>3 DEF ExistsBijection
  <1>5. Cardinality(U) = Cardinality(B \X T)
    BY <1>2, <1>4, FS_Bijection
  <1>6. Cardinality(B) \in Nat
    BY FS_CardinalityType
  <1> QED BY <1>1, <1>2, <1>5, <1>6 DEF U

\* Unless an ap was late no page is lost and none is in two hands: pmm_get
\* and the page tables never take what another has (pmm.c, vmm.c, smp.c).
THEOREM MemoryIsAccounted == KmainSpec => []MemoryAccounted
<1>1. ASSUME BootInv PROVE MemoryAccounted
  <2> SUFFICES ASSUME Late = {} PROVE MemoryAccounted
    BY DEF MemoryAccounted
  <2> DEFINE blocks == BlocksInUse
             used   == UNION {Block(b) : b \in blocks}
  <2>1. IsTree(mem) /\ Apart(Held, mem, Given)
    BY <1>1 DEF BootInv, OnTime, MemSound
  <2>2. blocks = {x[3] : x \in Held}
    <3>1. ASSUME NEW x \in Held PROVE x[3] \in blocks
      <4>1. CASE x \in Stacks
        BY <4>1 DEF Stacks, BlocksInUse
      <4>2. CASE x \in NewStack
        BY <4>2 DEF NewStack, BlocksInUse, HoldsStack
      <4>3. CASE x \in HeapBlocks
        BY <4>3 DEF HeapBlocks, BlocksInUse
      <4>4. CASE x = <<"root", 0, PML4>>
        BY <4>4 DEF BlocksInUse
      <4> QED BY <4>1, <4>2, <4>3, <4>4 DEF Held
    <3>2. ASSUME NEW b \in blocks PROVE \E x \in Held : x[3] = b
      <4>1. CASE b = PML4
        <5>1. <<"root", 0, PML4>> \in Held
          BY DEF Held
        <5> QED BY <4>1, <5>1
      <4>2. CASE b \in {ap[id].rsp : id \in HasArgs}
        <5>1. PICK id \in HasArgs : b = ap[id].rsp
          BY <4>2
        <5>2. <<"stack", id, b>> \in Held
          BY <5>1 DEF Held, Stacks
        <5> QED BY <5>2
      <4>3. CASE bsp.pc \in {"init", "sipi", "poll"} /\ b = stack
        <5>1. <<"stack", lapic.apic_id, b>> \in Held
          BY <4>3 DEF Held, NewStack, HoldsStack
        <5> QED BY <5>1
      <4>4. CASE b \in heap
        <5>1. <<"heap", b, b>> \in Held
          BY <4>4 DEF Held, HeapBlocks
        <5> QED BY <5>1
      <4> QED BY <4>1, <4>2, <4>3, <4>4 DEF BlocksInUse
    <3> QED BY <3>1, <3>2
  <2> HIDE DEF blocks
  <2>3. \A b \in blocks : b \in Nat \ {0} /\ Block(b) \cap Stock(mem) = {} /\ Block(b) \subseteq Given
    BY <2>1, <2>2 DEF Apart
  <2>4. \A b, c \in blocks : b # c => Block(b) \cap Block(c) = {}
    <3> SUFFICES ASSUME NEW b \in blocks, NEW c \in blocks, b # c
                 PROVE  Block(b) \cap Block(c) = {}
      OBVIOUS
    <3>1. PICK x \in Held : x[3] = b
      BY <2>2
    <3>2. PICK y \in Held : y[3] = c
      BY <2>2
    <3> QED BY <2>1, <3>1, <3>2 DEF Apart
  <2>5. IsFiniteSet(blocks)
    <3>1. blocks \subseteq Frame
      <4>1. Given \subseteq Frame
        BY Frames DEF Given
      <4>2. \A b \in blocks : b \in Block(b)
        BY DEF Block
      <4> QED BY <2>3, <4>1, <4>2
    <3> QED BY <3>1, FS_Subset, PageTableAssumption
  <2>6. Cardinality(used) = 2 * Cardinality(blocks)
    BY <2>3, <2>4, <2>5, PagesOfBlocks
  <2>7. used = UNION {Block(x[3]) : x \in Held}
    BY <2>2
  <2>8. used \cap Stock(mem) = {} /\ Stock(mem) \cup used = Given
    BY <2>1, <2>3, <2>7 DEF Apart
  <2>9. mem.free \cap Tables(mem) = {}
    BY <2>1, TreeFacts
  <2> HIDE DEF used
  <2>10. used \cap Tables(mem) = {} /\ mem.free = Given \ (used \cup Tables(mem))
    BY <2>8, <2>9 DEF Stock
  <2> QED BY <2>6, <2>10 DEF MemoryAccounted, Given, blocks, used
<1> QED BY <1>1, BootInvariant, PTL

LEMMA OneEntry ==
    ASSUME NEW v \in Page, NEW p, OnlyMaps(mem, mem', v, p)
    PROVE  Translation(mem)' = [Translation(mem) EXCEPT ![v] = p]
  <1>1. ASSUME NEW u \in Page
        PROVE  Translate(mem', u) = IF u = v THEN p ELSE Translate(mem, u)
    BY DEF OnlyMaps
  <1>2. Translation(mem)' = [u \in Page |-> Translate(mem', u)]
    BY DEF Translation
  <1>3. Translation(mem) = [u \in Page |-> Translate(mem, u)]
    BY DEF Translation
  <1> QED BY <1>1, <1>2, <1>3

LEMMA MapsInOrder ==
    ASSUME BootInv, [KmainNext]_bootVars
    PROVE  MapsOnePage
  <1>0. /\ BootTypes /\ IsTree(mem) /\ mem \in MemType /\ bsp.k \in Nat
    BY TreeFacts DEF BootInv, BootTypes, Place, MemSound
  <1>1. CASE At("window") /\ vmm_map(Kernel, Window)
    <2> DEFINE v == Kernel + bsp.k
    <2>1. v \in Page /\ OnlyMaps(mem, mem', v, bsp.k)
      BY <1>0, <1>1, MapStep, Layout
    <2>2. KernelMap[v] = bsp.k
      BY <1>0, <1>1, <2>1, Layout DEF KernelMap, vmm_map
    <2>3. bsp.k # NULL
      BY <1>0, Frames
    <2> HIDE DEF v
    <2>4. Space!Map(v, KernelMap[v])
      BY <2>1, <2>2, OneEntry DEF Space!Map
    <2> QED BY <1>1, <2>1, <2>2, <2>3, <2>4 DEF MapsOnePage, At
  <1>2. CASE At("memory") /\ vmm_map(Offset, PhysLimit)
    <2> DEFINE v == Offset + bsp.k
    <2>1. v \in Page /\ OnlyMaps(mem, mem', v, bsp.k)
      BY <1>0, <1>2, MapStep, Layout
    <2>2. KernelMap[v] = bsp.k
      BY <1>0, <1>2, <2>1, Layout DEF KernelMap, vmm_map
    <2>3. bsp.k # NULL
      BY <1>0, Frames
    <2> HIDE DEF v
    <2>4. Space!Map(v, KernelMap[v])
      BY <2>1, <2>2, OneEntry DEF Space!Map
    <2> QED BY <1>2, <2>1, <2>2, <2>3, <2>4 DEF MapsOnePage, At
  <1>3. CASE At("map") /\ vmm_map(0, LowPages)
    <2>1. 0 \in Nat /\ 0 + LowPages <= Kernel + Window /\ 0 + bsp.k = bsp.k
      BY <1>0, Layout
    <2>2. 0 + bsp.k \in Page /\ OnlyMaps(mem, mem', 0 + bsp.k, bsp.k)
      BY <1>0, <1>3, <2>1, MapStep, Layout
    <2>3. Space!Map(bsp.k, bsp.k)
      BY <2>1, <2>2, OneEntry DEF Space!Map
    <2>4. bsp.k \in 0..LowPages-1
      BY <1>0, <1>3, Layout DEF vmm_map
    <2> QED BY <1>3, <2>3, <2>4 DEF MapsOnePage
  <1>4. CASE UnmapLow
    <2>1. bsp.k \in 0..LowPages-1 /\ At("unmap") /\ mem' = unmap_page(mem, bsp.k)
      BY <1>0, <1>4, Layout DEF UnmapLow
    <2>2. bsp.k \in Page
      BY <2>1, Layout, PageRange
    <2>3. OnlyMaps(mem, mem', bsp.k, NULL)
      BY <1>0, <2>1, <2>2, UnmapTree
    <2>4. Space!Unmap(bsp.k)
      BY <2>2, <2>3, OneEntry DEF Space!Unmap
    <2> QED BY <2>1, <2>4 DEF MapsOnePage
  <1>5. ASSUME UNCHANGED mem \/ \E free : mem' = [mem EXCEPT !.free = free]
        PROVE  MapsOnePage
    BY <1>0, <1>5 DEF MapsOnePage, MemType
  <1>6. CASE PassStack \/ PollTimeout
    BY <1>5, <1>6 DEF PassStack, PollTimeout
  <1>7. CASE \E id \in ids : ap_boot(id)
    <2>1. UNCHANGED mem \/ Take
      BY <1>7, KernelSteps DEF ap_boot, EnterLongMode, ReadRsp, ReadCpuinfo, CountUp,
            TrampolineFault, InKernel, memory
    <2> QED BY <1>5, <2>1 DEF Take
  <1>8. CASE pmm_reclaim_bootloader_mem \/ Take \/ Closes \/ Ends
    BY <1>5, <1>8 DEF pmm_reclaim_bootloader_mem, Take, Closes, Ends
  <1>9. CASE bsp_boot
    <2>1. CASE vmm_init
      <3>1. CASE At("window") /\ vmm_map(Kernel, Window)
        BY <1>1, <3>1
      <3>2. CASE At("memory") /\ vmm_map(Offset, PhysLimit)
        BY <1>2, <3>2
      <3>3. CASE UNCHANGED mem
        BY <1>5, <3>3
      <3> QED BY <2>1, <3>1, <3>2, <3>3 DEF vmm_init, Mapped
    <2>2. CASE MapLow
      BY <1>3, <2>2 DEF MapLow
    <2>3. CASE madt_init \/ PrepareTrampoline \/ NextLapic \/ SendInit \/ SendStartup
               \/ PollAnswered \/ EndLoop
      BY <1>5, <2>3 DEF memory, madt_init, PrepareTrampoline, Mapped, NextLapic, SendInit, SendStartup,
            PollAnswered, EndLoop
    <2> QED BY <1>4, <1>6, <1>9, <2>1, <2>2, <2>3 DEF bsp_boot, smp_init
  <1>10. CASE UNCHANGED mem
    BY <1>5, <1>10
  <1> QED BY <1>7, <1>8, <1>9, <1>10, LaterSteps

\* vmm.c implements the map of AddressSpace, page by page: a step enters a
\* page of the kernel's or a low one, or takes a low one out.
THEOREM PagesAreMapped == KmainSpec => MapsPageByPage
<1>1. BootInv /\ [KmainNext]_bootVars => [MapsOnePage]_mem
  BY MapsInOrder
<1> QED BY <1>1, BootInvariant, PTL DEF KmainSpec, MapsPageByPage
-----------------------------------------------------------------------------
(* The boot information.                                                   *)

\* The aps that are at one of the places pcs.
To(pcs) == {id \in ids : ap[id].pc \in pcs}
Woken == {id \in ids : ap[id].pc # "off"}

\* An ap takes blocks for its gdt, its idle task and that task's stack, ...
BeforeGdt   == Waiting \cup {"call"}
BeforeTask  == BeforeGdt \cup {"task_t"}
BeforeStack == BeforeTask \cup {"kstack"}
ApsNeed == Cardinality(To(BeforeGdt)) + Cardinality(To(BeforeTask)) + Cardinality(To(BeforeStack))

\* ... sched_init six and somebody the table of tasks, ...
KmainNeeds == (6 - taken.kmain) + (IF tasks_all THEN 0 ELSE 1)

\* ... and kinit, in a call that comes to pc and has taken t, at most so many:
\* two in klog_show, and for a record of the initrd four to create it, two to
\* open it and one to write it.
RecordsFrom(at) == IF at > Len(Tree) THEN 0 ELSE Len(Tree) + 1 - at
CallsFrom(pc) == IF pc = "create" THEN 7 ELSE IF pc = "open" THEN 3 ELSE IF pc = "write" THEN 1 ELSE 0
CallNeeds(pc) == IF pc = "create" THEN 4 ELSE IF pc = "open" THEN 2 ELSE IF pc = "write" THEN 1 ELSE 0

KinitLeft(k, at, pc, t) ==
    IF k = "klog_show" THEN (2 - t) + 7 * RecordsFrom(at)
    ELSE IF k = "find" THEN 7 * RecordsFrom(at)
    ELSE IF at > Len(Tree) THEN 0
    ELSE (CallsFrom(pc) - t) + 7 * RecordsFrom(at + 1)

KinitTook(k, pc, t) ==
    IF k = "klog_show" THEN t <= 2
    ELSE IF k = "find" THEN t = 0
    ELSE t <= CallNeeds(pc)

KinitNeeds == KinitLeft(kinit, unpack.at, unpack.pc, taken.kinit)
KinitBounded == kinit # "run" => KinitTook(kinit, unpack.pc, taken.kinit)

\* The blocks that may be taken until kinit has unpacked the modules.
Needed == ApsNeed + KmainNeeds + KinitNeeds

\* R are pairs of free pages below the bootloader's, each by its first page.
PairsBelow(R, free) ==
    /\ IsFiniteSet(R) /\ R \subseteq free
    /\ \A f \in R : f+1 \in free /\ f+1 \notin R /\ f+1 < BootInfo

EnoughBelow == \E R : PairsBelow(R, mem.free) /\ Cardinality(R) >= Needed

(* When smp_init is done there is a pair of pages below for each block that*)
(* the aps, sched_init and kinit may still take.                           *)
RoomBelow == kmain = "boot" /\ At("done") => EnoughBelow

Looks == kmain = "sched_init" /\ kinit # "run"

InfoInv ==
    /\ IsFiniteSet(Woken)
    /\ KinitBounded
    /\ Looks => BootInfo \in mem.free /\ EnoughBelow

\* A block is taken from the lowest pair, of which it spoils one.
LEMMA LowestPair ==
    ASSUME NEW free \in SUBSET Nat, HasRun(free, 2), BootInfo \in Nat,
           NEW R, PairsBelow(R, free), NEW n \in Nat, Cardinality(R) >= n+1
    PROVE  /\ BootInfo \notin Block(kmalloc(free))
           /\ \E Q : PairsBelow(Q, free \ Block(kmalloc(free))) /\ Cardinality(Q) >= n
<1> DEFINE f == pmm_get(free, 2)
           Q == (R \ {f}) \ {f+1}
<1>1. f \in free /\ f..f+2-1 \subseteq free
      /\ \A g \in free : g..g+2-1 \subseteq free => f <= g
  BY GetsRun
<1>2. kmalloc(free) = f+1
  BY DEF kmalloc
<1> HIDE DEF f
<1>3. f \in Nat /\ f+1 \in free
  BY <1>1
<1>4. Block(kmalloc(free)) = {f, f+1}
  BY <1>2, <1>3 DEF Block
<1>5. ASSUME NEW r \in R PROVE r \in Nat /\ f <= r
  <2>1. r \in free /\ r+1 \in free /\ r \in Nat
    BY DEF PairsBelow
  <2>2. \A x \in r..r+2-1 : x = r \/ x = r+1
    BY <2>1
  <2>3. r..r+2-1 \subseteq free
    BY <2>1, <2>2
  <2> QED BY <1>1, <2>1, <2>3
<1>6. IsFiniteSet(R) /\ Cardinality(R) \in Nat
  BY FS_CardinalityType DEF PairsBelow
<1>7. PICK r \in R : TRUE
  <2>1. Cardinality(R) # 0
    BY <1>6
  <2> QED BY <1>6, <2>1, FS_EmptySet
<1>8. BootInfo \notin {f, f+1}
  <2>1. r+1 < BootInfo /\ r \in Nat /\ f <= r
    BY <1>5 DEF PairsBelow
  <2> QED BY <1>3, <2>1
<1>9. IsFiniteSet(Q) /\ Cardinality(Q) >= n
  <2>1. IsFiniteSet(R \ {f}) /\ Cardinality(R \ {f}) =
           IF f \in R THEN Cardinality(R) - 1 ELSE Cardinality(R)
    BY <1>6, FS_RemoveElement
  <2>2. IsFiniteSet(Q) /\ Cardinality(Q) =
           IF f+1 \in R \ {f} THEN Cardinality(R \ {f}) - 1 ELSE Cardinality(R \ {f})
    BY <2>1, FS_RemoveElement
  <2>3. ~(f \in R /\ f+1 \in R)
    BY DEF PairsBelow
  <2> HIDE DEF Q
  <2>4. Cardinality(Q) \in {Cardinality(R) - 1, Cardinality(R)}
    <3>1. CASE f \in R
      BY <2>1, <2>2, <2>3, <3>1
    <3>2. CASE f \notin R
      BY <2>1, <2>2, <3>2
    <3> QED BY <3>1, <3>2
  <2> QED BY <1>6, <2>2, <2>4
<1>10. ASSUME NEW q \in Q
       PROVE  /\ q \in free \ {f, f+1} /\ q+1 \in free \ {f, f+1}
              /\ q+1 \notin Q /\ q+1 < BootInfo
  <2>1. q \in R /\ q # f /\ q # f+1
    OBVIOUS
  <2>2. q \in Nat /\ f <= q
    BY <1>5, <2>1
  <2>3. q \in free /\ q+1 \in free /\ q+1 \notin R /\ q+1 < BootInfo
    BY <2>1 DEF PairsBelow
  <2>4. q+1 # f /\ q+1 # f+1
    BY <1>3, <2>1, <2>2
  <2> QED BY <2>1, <2>3, <2>4
<1> HIDE DEF Q
<1>11. PairsBelow(Q, free \ {f, f+1})
  BY <1>9, <1>10 DEF PairsBelow
<1> QED BY <1>4, <1>8, <1>9, <1>11

\* One record less is left.
LEMMA RecordsLeft ==
    ASSUME NEW at \in Nat
    PROVE  /\ Len(Tree) \in Nat
           /\ RecordsFrom(at) \in Nat
           /\ at <= Len(Tree) => RecordsFrom(at) = RecordsFrom(at + 1) + 1
<1>1. Len(Tree) \in Nat
  BY VfsAssumption
<1> QED BY <1>1 DEF RecordsFrom

LEMMA CallsLeft ==
    ASSUME NEW pc \in {"create", "open", "write", "close", "done"}
    PROVE  CallsFrom(pc) \in Nat /\ CallNeeds(pc) \in Nat /\ CallNeeds(pc) <= CallsFrom(pc)
BY DEF CallsFrom, CallNeeds

\* What is left is a number, and a block that a call takes is counted in it.
LEMMA LeftIs ==
    ASSUME NEW k \in {"klog_show", "find", "initrd_init"}, NEW at \in Nat, NEW t \in Nat,
           NEW pc \in {"create", "open", "write", "close", "done"}, KinitTook(k, pc, t)
    PROVE  KinitLeft(k, at, pc, t) \in Nat
<1>0. at+1 \in Nat
  OBVIOUS
<1>1. RecordsFrom(at) \in Nat /\ RecordsFrom(at+1) \in Nat
  BY ONLY <1>0, at \in Nat, RecordsLeft
<1> DEFINE c == CallsFrom(pc)
           n == CallNeeds(pc)
           q == RecordsFrom(at)
           r == RecordsFrom(at+1)
<1>2. c \in Nat /\ n \in Nat /\ n <= c /\ q \in Nat /\ r \in Nat
  BY <1>1, CallsLeft
<1>3. CASE k = "klog_show"
  <2>1. t <= 2 /\ KinitLeft(k, at, pc, t) = (2 - t) + 7*q
    BY <1>3 DEF KinitLeft, KinitTook
  <2> HIDE DEF q
  <2> QED BY <1>2, <2>1
<1>4. CASE k = "find"
  <2>1. KinitLeft(k, at, pc, t) = 7*q
    BY <1>4 DEF KinitLeft
  <2> HIDE DEF q
  <2> QED BY <1>2, <2>1
<1>5. CASE k = "initrd_init"
  <2>1. t <= n /\ (KinitLeft(k, at, pc, t) = 0 \/ KinitLeft(k, at, pc, t) = (c - t) + 7*r)
    BY <1>5 DEF KinitLeft, KinitTook
  <2> HIDE DEF c, n, r
  <2> QED BY <1>2, <2>1
<1> QED BY <1>3, <1>4, <1>5

LEMMA LeftTaken ==
    ASSUME NEW k \in {"klog_show", "initrd_init"}, NEW at \in Nat, NEW t \in Nat,
           NEW pc \in {"create", "open", "write", "close", "done"}, KinitTook(k, pc, t+1),
           k = "initrd_init" => at <= Len(Tree)
    PROVE  /\ KinitTook(k, pc, t)
           /\ KinitLeft(k, at, pc, t+1) = KinitLeft(k, at, pc, t) - 1
<1>0. at+1 \in Nat
  OBVIOUS
<1>1. RecordsFrom(at) \in Nat /\ RecordsFrom(at+1) \in Nat /\ Len(Tree) \in Nat
  BY ONLY <1>0, at \in Nat, RecordsLeft
<1> DEFINE c == CallsFrom(pc)
           n == CallNeeds(pc)
           q == RecordsFrom(at)
           r == RecordsFrom(at+1)
<1>2. c \in Nat /\ n \in Nat /\ q \in Nat /\ r \in Nat
  BY <1>1, CallsLeft
<1>3. CASE k = "klog_show"
  <2>1. /\ KinitLeft(k, at, pc, t) = (2 - t) + 7*q
        /\ KinitLeft(k, at, pc, t+1) = (2 - (t+1)) + 7*q
        /\ KinitTook(k, pc, t) <=> t <= 2
        /\ t+1 <= 2
    BY <1>3 DEF KinitLeft, KinitTook
  <2> HIDE DEF q
  <2> QED BY <1>2, <2>1
<1>4. CASE k = "initrd_init"
  <2>1. /\ KinitLeft(k, at, pc, t) = (c - t) + 7*r
        /\ KinitLeft(k, at, pc, t+1) = (c - (t+1)) + 7*r
        /\ KinitTook(k, pc, t) <=> t <= n
        /\ t+1 <= n
    BY <1>1, <1>4 DEF KinitLeft, KinitTook
  <2> HIDE DEF c, n, r
  <2> QED BY <1>2, <2>1
<1> QED BY <1>3, <1>4

\* A call that is over leaves no more than there was.
LEMMA LeftNext ==
    ASSUME NEW at \in Nat, NEW t \in Nat, at <= Len(Tree),
           NEW pc \in {"create", "open", "write", "close", "done"}, KinitTook("initrd_init", pc, t)
    PROVE  /\ KinitLeft("initrd_init", at + 1, "create", 0) <= KinitLeft("initrd_init", at, pc, t)
           /\ pc = "create" => KinitLeft("initrd_init", at, "open", 0) <= KinitLeft("initrd_init", at, pc, t)
           /\ pc = "open" => KinitLeft("initrd_init", at, "write", 0) <= KinitLeft("initrd_init", at, pc, t)
           /\ pc = "write" => KinitLeft("initrd_init", at, "close", 0) <= KinitLeft("initrd_init", at, pc, t)
<1>0. at+1 \in Nat /\ at+1+1 \in Nat
  OBVIOUS
<1>1. RecordsFrom(at+1) \in Nat /\ RecordsFrom(at+1+1) \in Nat /\ Len(Tree) \in Nat
  BY ONLY <1>0, at \in Nat, RecordsLeft
<1>2. at + 1 <= Len(Tree) => RecordsFrom(at+1) = RecordsFrom(at+1+1) + 1
  BY ONLY <1>0, at \in Nat, RecordsLeft
<1> DEFINE r == RecordsFrom(at+1)
           s == RecordsFrom(at+1+1)
           left == KinitLeft("initrd_init", at, pc, t)
<1>3. r \in Nat /\ s \in Nat /\ t <= CallNeeds(pc)
  BY <1>1 DEF KinitTook
<1>4. left = (CallsFrom(pc) - t) + 7*r
  BY <1>1 DEF KinitLeft
<1>5. \A c \in {"create", "open", "write", "close"} :
          KinitLeft("initrd_init", at, c, 0) = (CallsFrom(c) - 0) + 7*r
  BY <1>1 DEF KinitLeft
<1>6. CallsFrom("create") = 7 /\ CallsFrom("open") = 3 /\ CallsFrom("write") = 1 /\ CallsFrom("close") = 0
  BY DEF CallsFrom
<1>7. /\ pc = "create" => CallsFrom(pc) = 7 /\ CallNeeds(pc) = 4
      /\ pc = "open" => CallsFrom(pc) = 3 /\ CallNeeds(pc) = 2
      /\ pc = "write" => CallsFrom(pc) = 1 /\ CallNeeds(pc) = 1
      /\ CallsFrom(pc) \in Nat /\ CallNeeds(pc) \in Nat /\ CallNeeds(pc) <= CallsFrom(pc)
  BY CallsLeft DEF CallsFrom, CallNeeds
<1>8. KinitLeft("initrd_init", at + 1, "create", 0) <= 7*r
  <2>1. CASE at + 1 > Len(Tree)
    <3>1. KinitLeft("initrd_init", at + 1, "create", 0) = 0
      BY <2>1 DEF KinitLeft
    <3> HIDE DEF r
    <3> QED BY <1>3, <3>1
  <2>2. CASE at + 1 <= Len(Tree)
    <3>1. KinitLeft("initrd_init", at + 1, "create", 0) = (7 - 0) + 7*s
      BY <1>1, <1>6, <2>2 DEF KinitLeft
    <3>2. r = s + 1
      BY <1>2, <2>2
    <3> HIDE DEF r, s
    <3> QED BY <1>3, <3>1, <3>2
  <2> QED BY <1>1, <2>1, <2>2
<1>9. CallsFrom(pc) - t \in Nat
  BY <1>3, <1>7
<1> HIDE DEF r, s, left
<1>10. left \in Nat /\ 7*r <= left
  BY <1>3, <1>4, <1>9
<1>11. KinitLeft("initrd_init", at + 1, "create", 0) <= left
  <2>1. KinitTook("initrd_init", "create", 0)
    BY DEF KinitTook, CallNeeds
  <2>2. 0 \in Nat
    OBVIOUS
  <2>3. KinitLeft("initrd_init", at + 1, "create", 0) \in Nat
    BY ONLY <1>0, <2>1, <2>2, LeftIs
  <2> QED BY <1>3, <1>8, <1>10, <2>3
<1>12. /\ pc = "create" => KinitLeft("initrd_init", at, "open", 0) <= left
       /\ pc = "open" => KinitLeft("initrd_init", at, "write", 0) <= left
       /\ pc = "write" => KinitLeft("initrd_init", at, "close", 0) <= left
  <2>1. KinitLeft("initrd_init", at, "open", 0) = (3 - 0) + 7*r
    BY <1>5, <1>6
  <2>2. KinitLeft("initrd_init", at, "write", 0) = (1 - 0) + 7*r
    BY <1>5, <1>6
  <2>3. KinitLeft("initrd_init", at, "close", 0) = (0 - 0) + 7*r
    BY <1>5, <1>6
  <2>4. pc = "create" => t <= 4 /\ left = (7 - t) + 7*r
    BY <1>3, <1>4, <1>7
  <2>5. pc = "open" => t <= 2 /\ left = (3 - t) + 7*r
    BY <1>3, <1>4, <1>7
  <2>6. pc = "write" => t <= 1 /\ left = (1 - t) + 7*r
    BY <1>3, <1>4, <1>7
  <2>7. /\ t <= 4 => (3 - 0) + 7*r <= (7 - t) + 7*r
        /\ t <= 2 => (1 - 0) + 7*r <= (3 - t) + 7*r
        /\ t <= 1 => (0 - 0) + 7*r <= (1 - t) + 7*r
    BY ONLY <1>3, t \in Nat
  <2> QED BY ONLY <2>1, <2>2, <2>3, <2>4, <2>5, <2>6, <2>7, Zenon
<1>13. left = KinitLeft("initrd_init", at, pc, t)
  BY DEF left
<1> QED BY ONLY <1>11, <1>12, <1>13

LEMMA LeftFound ==
    ASSUME NEW at \in Nat, NEW t \in Nat
    PROVE  /\ t <= 2 => KinitLeft("find", at, "create", 0) <= KinitLeft("klog_show", at, "create", t)
           /\ KinitLeft("initrd_init", at, "create", 0) <= KinitLeft("find", at, "create", 0)
<1>0. at+1 \in Nat
  OBVIOUS
<1>1. RecordsFrom(at) \in Nat /\ RecordsFrom(at+1) \in Nat /\ Len(Tree) \in Nat
      /\ (at <= Len(Tree) => RecordsFrom(at) = RecordsFrom(at + 1) + 1)
  BY ONLY <1>0, at \in Nat, RecordsLeft
<1> QED BY <1>1 DEF KinitLeft, CallsFrom

LEMMA ToIs ==
    ASSUME IsFiniteSet(Woken), NEW pcs, "off" \notin pcs
    PROVE  IsFiniteSet(To(pcs)) /\ Cardinality(To(pcs)) \in Nat
<1>1. To(pcs) \in SUBSET Woken
  BY DEF To, Woken
<1> QED BY <1>1, FS_Subset, FS_CardinalityType

LEMMA Places ==
    "off" \notin BeforeGdt /\ "off" \notin BeforeTask /\ "off" \notin BeforeStack
BY DEF BeforeGdt, BeforeTask, BeforeStack, Waiting

\* An ap that does not come to a place is none of those that leave it but one.
LEMMA ToNext ==
    ASSUME IsFiniteSet(Woken), NEW id \in ids, \A other \in ids \ {id} : ap'[other] = ap[other],
           NEW pcs, "off" \notin pcs, ap'[id].pc \in pcs => ap[id].pc \in pcs
    PROVE  /\ Cardinality(To(pcs)) \in Nat /\ Cardinality(To(pcs)') \in Nat
           /\ Cardinality(To(pcs)') <= Cardinality(To(pcs))
           /\ ap[id].pc \in pcs /\ ap'[id].pc \notin pcs
                => Cardinality(To(pcs)') <= Cardinality(To(pcs)) - 1
<1>0. IsFiniteSet(To(pcs)) /\ Cardinality(To(pcs)) \in Nat
  BY ToIs
<1>1. To(pcs)' \in SUBSET To(pcs)
  BY DEF To
<1>2. IsFiniteSet(To(pcs)') /\ Cardinality(To(pcs)') <= Cardinality(To(pcs))
  BY <1>0, <1>1, FS_Subset
<1>3. Cardinality(To(pcs)') \in Nat
  BY <1>2, FS_CardinalityType
<1>4. ASSUME ap[id].pc \in pcs, ap'[id].pc \notin pcs
      PROVE  Cardinality(To(pcs)') <= Cardinality(To(pcs)) - 1
  <2>1. id \in To(pcs) /\ To(pcs)' = To(pcs) \ {id}
    BY <1>4 DEF To
  <2>2. Cardinality(To(pcs)') = Cardinality(To(pcs)) - 1
    BY <1>0, <2>1, FS_RemoveElement
  <2> QED BY <1>0, <1>3, <2>2
<1> QED BY <1>0, <1>2, <1>3, <1>4

LEMMA ApsNeedIs ==
    ASSUME IsFiniteSet(Woken)
    PROVE  ApsNeed \in Nat
<1> DEFINE g == Cardinality(To(BeforeGdt))
           t == Cardinality(To(BeforeTask))
           s == Cardinality(To(BeforeStack))
<1>1. g \in Nat /\ t \in Nat /\ s \in Nat
  BY ToIs, Places
<1> HIDE DEF g, t, s
<1>2. g + t + s \in Nat
  BY <1>1
<1> QED BY <1>2 DEF ApsNeed, g, t, s

\* An ap that goes on needs no more than before, and if it took a block that
\* it was to take, less.
LEMMA ApsNext ==
    ASSUME BootTypes, IsFiniteSet(Woken), NEW id \in ids, ap_boot(id)
    PROVE  /\ ApsNeed' \in Nat /\ ApsNeed' <= ApsNeed
           /\ smp_ap_entrypoint(id) \/ task_make(id) => ApsNeed' <= ApsNeed - 1
<1> DEFINE p == ap[id].pc
           q == ap'[id].pc
<1>1. \A other \in ids \ {id} : ap'[other] = ap[other]
  BY ApBoots
<1>2. \/ p \in Waiting \cup {"call"} /\ q \in Waiting \cup {"call", "fault", "lost"}
         /\ ~smp_ap_entrypoint(id) /\ ~task_make(id)
      \/ p = "call" /\ q = "task_t"
      \/ p = "task_t" /\ q = "kstack"
      \/ p = "kstack" /\ q = "add"
      \/ p = "add" /\ q = "up" /\ ~smp_ap_entrypoint(id) /\ ~task_make(id)
  <2> USE ApSteps DEF ApMoved, ApGoes, Waiting
  <2>1. CASE EnterLongMode(id)
    BY <2>1 DEF EnterLongMode, smp_ap_entrypoint, task_make, ApTakes
  <2>2. CASE ReadRsp(id)
    BY <2>2 DEF ReadRsp, smp_ap_entrypoint, task_make, ApTakes
  <2>3. CASE ReadCpuinfo(id)
    BY <2>3 DEF ReadCpuinfo, smp_ap_entrypoint, task_make, ApTakes
  <2>4. CASE CountUp(id)
    BY <2>4 DEF CountUp, smp_ap_entrypoint, task_make, ApTakes
  <2>5. CASE TrampolineFault(id)
    <3>1. q \in {"fault", "lost"} /\ p \in Waiting \cup {"call"}
      BY <2>5
    <3>2. ~smp_ap_entrypoint(id) /\ ~task_make(id)
      BY <3>1
    <3> QED BY <3>1, <3>2
  <2>6. CASE smp_ap_entrypoint(id)
    BY <2>6
  <2>7. CASE task_make(id)
    BY <2>7
  <2>8. CASE sched_add(id)
    BY <2>8
  <2> QED BY <2>1, <2>2, <2>3, <2>4, <2>5, <2>6, <2>7, <2>8 DEF ap_boot
<1>3. /\ q \in BeforeGdt => p \in BeforeGdt
      /\ q \in BeforeTask => p \in BeforeTask
      /\ q \in BeforeStack => p \in BeforeStack
      /\ smp_ap_entrypoint(id) \/ task_make(id) =>
            \/ p \in BeforeGdt /\ q \notin BeforeGdt
            \/ p \in BeforeTask /\ q \notin BeforeTask
            \/ p \in BeforeStack /\ q \notin BeforeStack
  BY <1>2 DEF BeforeGdt, BeforeTask, BeforeStack, Waiting
<1> DEFINE C(pcs) == Cardinality(To(pcs))
<1>4. ASSUME NEW pcs \in {BeforeGdt, BeforeTask, BeforeStack}
      PROVE  /\ C(pcs) \in Nat /\ C(pcs)' \in Nat /\ C(pcs)' <= C(pcs)
             /\ p \in pcs /\ q \notin pcs => C(pcs)' <= C(pcs) - 1
  BY <1>1, <1>3, Places, ToNext
<1> DEFINE g == C(BeforeGdt)
           t == C(BeforeTask)
           s == C(BeforeStack)
<1>5. /\ g \in Nat /\ g' \in Nat /\ g' <= g
      /\ t \in Nat /\ t' \in Nat /\ t' <= t
      /\ s \in Nat /\ s' \in Nat /\ s' <= s
      /\ smp_ap_entrypoint(id) \/ task_make(id) => g' <= g - 1 \/ t' <= t - 1 \/ s' <= s - 1
  BY <1>3, <1>4
<1>6. ApsNeed = g + t + s /\ ApsNeed' = g' + t' + s'
  BY DEF ApsNeed
<1> HIDE DEF g, t, s
<1>7. PICK a, b, c, x, y, z \in Nat :
          /\ a = g /\ b = t /\ c = s
          /\ x = g' /\ y = t' /\ z = s'
  BY ONLY <1>5, Zenon
<1>8. /\ ApsNeed = a + b + c /\ ApsNeed' = x + y + z
      /\ x <= a /\ y <= b /\ z <= c
      /\ smp_ap_entrypoint(id) \/ task_make(id) => x <= a - 1 \/ y <= b - 1 \/ z <= c - 1
  BY ONLY <1>5, <1>6, <1>7, Zenon
<1>9. /\ x + y + z \in Nat /\ x + y + z <= a + b + c
      /\ x <= a - 1 \/ y <= b - 1 \/ z <= c - 1 => x + y + z <= a + b + c - 1
  BY ONLY <1>8
<1> QED BY ONLY <1>8, <1>9

\* One ap at a time leaves its place.
LEMMA WokenNext ==
    ASSUME BootInv, IsFiniteSet(Woken), [KmainNext]_bootVars
    PROVE  IsFiniteSet(Woken')
<1>0. BootTypes /\ IsTree(mem) /\ BspPlace
  BY DEF BootInv, MemSound
<1>1. ASSUME NEW id, \A other \in ids \ {id} : ap'[other] = ap[other]
      PROVE  IsFiniteSet(Woken')
  <2>1. Woken' \in SUBSET (Woken \cup {id})
    BY <1>1 DEF Woken
  <2>2. IsFiniteSet(Woken \cup {id})
    BY FS_AddElement
  <2> QED BY <2>1, <2>2, FS_Subset
<1>2. CASE bsp_boot
  <2>1. ASSUME NEW pc, ApAt(lapic.apic_id, pc) PROVE IsFiniteSet(Woken')
    <3>1. \A other \in ids \ {lapic.apic_id} : ap'[other] = ap[other]
      BY <1>0, <2>1 DEF ApAt, BootTypes
    <3> QED BY <1>1, <3>1
  <2>2. CASE UNCHANGED ap
    BY <2>2 DEF Woken
  <2>3. CASE SendInit
    BY <2>1, <2>3 DEF SendInit
  <2>4. CASE SendStartup
    BY <2>1, <2>2, <2>4 DEF SendStartup
  <2> QED BY <1>2, <2>2, <2>3, <2>4 DEF bsp_boot, vmm_init, vmm_map, Mapped, madt_init, smp_init,
        smpLocals, locals, args, memory, MapLow, PrepareTrampoline, NextLapic, PassStack, PollAnswered,
        PollTimeout, UnmapLow, EndLoop
<1>3. CASE \E id \in ids : ap_boot(id)
  <2>1. PICK id \in ids : ap_boot(id)
    BY <1>3
  <2>2. \A other \in ids \ {id} : ap'[other] = ap[other]
    BY <1>0, <2>1, ApBoots
  <2> QED BY <1>1, <2>2
<1>4. CASE UNCHANGED ap
  BY <1>4 DEF Woken
<1> QED BY <1>2, <1>3, <1>4, LaterSteps DEF smpIdle

\* One block less is needed.
LEMMA InfoTakes ==
    ASSUME BootTypes, IsTree(mem), HasRun(mem.free, 2), BootInfo \in mem.free, EnoughBelow,
           mem' = [mem EXCEPT !.free = @ \ Block(kmalloc(mem.free))],
           Needed \in Nat \ {0}, Needed' \in Nat, Needed' <= Needed - 1
    PROVE  BootInfo \in mem'.free /\ EnoughBelow'
<1>1. mem.free \in SUBSET Nat /\ BootInfo \in Nat
  BY TreeFacts, Frames
<1>2. mem'.free = mem.free \ Block(kmalloc(mem.free))
  BY TakeBlock
<1>3. PICK R : PairsBelow(R, mem.free) /\ Cardinality(R) >= Needed
  BY DEF EnoughBelow
<1>4. PICK n \in Nat : n = Needed - 1 /\ n + 1 = Needed
  <2>1. \A m \in Nat \ {0} : m-1 \in Nat /\ (m-1)+1 = m
    BY ONLY TRUE
  <2> QED BY <2>1
<1>5. Cardinality(R) >= n+1
  BY <1>3, <1>4
<1>6. /\ BootInfo \notin Block(kmalloc(mem.free))
      /\ \E Q : PairsBelow(Q, mem.free \ Block(kmalloc(mem.free))) /\ Cardinality(Q) >= n
  BY <1>1, <1>3, <1>5, LowestPair
<1>7. PICK Q : PairsBelow(Q, mem'.free) /\ Cardinality(Q) >= n
  BY <1>2, <1>6
<1>8. Cardinality(Q) \in Nat
  BY <1>7, FS_CardinalityType DEF PairsBelow
<1>9. Cardinality(Q) >= Needed'
  BY <1>4, <1>7, <1>8
<1>10. EnoughBelow'
  BY <1>7, <1>9 DEF EnoughBelow, PairsBelow
<1> QED BY <1>2, <1>6, <1>10

\* Nothing less is needed, nor is any page taken.
LEMMA InfoKeeps ==
    ASSUME EnoughBelow, mem.free \subseteq mem'.free,
           Needed \in Nat, Needed' \in Nat, Needed' <= Needed
    PROVE  EnoughBelow'
<1>1. PICK R : PairsBelow(R, mem.free) /\ Cardinality(R) >= Needed
  BY DEF EnoughBelow
<1>2. Cardinality(R) \in Nat
  BY <1>1, FS_CardinalityType DEF PairsBelow
<1>3. Cardinality(R) >= Needed'
  BY <1>1, <1>2
<1>4. PairsBelow(R, mem'.free)
  BY <1>1 DEF PairsBelow
<1> QED BY <1>3, <1>4 DEF EnoughBelow, PairsBelow

\* What a call of kinit's takes is bounded, ...
LEMMA BlocksAre == Blocks \in Nat /\ Blocks <= CallNeeds(unpack.pc)
<1>1. CASE unpack.pc = "create"
  <2>1. Blocks \in {0, 3, 4}
    BY <1>1 DEF Blocks
  <2> QED BY <1>1, <2>1 DEF CallNeeds
<1>2. CASE unpack.pc = "open"
  <2>1. Blocks \in {0, 1, 2}
    BY <1>2 DEF Blocks
  <2> QED BY <1>2, <2>1 DEF CallNeeds
<1>3. CASE unpack.pc = "write"
  <2>1. Blocks \in {0, 1}
    BY <1>3 DEF Blocks
  <2> QED BY <1>3, <2>1 DEF CallNeeds
<1>4. CASE unpack.pc \notin {"create", "open", "write"}
  BY <1>4 DEF Blocks, CallNeeds
<1> QED BY <1>1, <1>2, <1>3, <1>4

LEMMA KinitIs ==
    ASSUME KinitSound
    PROVE  /\ unpack.at \in Nat /\ unpack.pc \in {"create", "open", "write", "close", "done"}
           /\ taken.kinit \in Nat /\ taken.kmain \in 0..6
           /\ kinit \in {"klog_show", "find", "initrd_init", "run"}
           /\ kinit \in {"klog_show", "find"} => unpack.pc = "create"
           /\ taken \in [kmain : 0..6, kinit : Nat]
BY DEF KinitSound

LEMMA KinitNeedsIs ==
    ASSUME KinitSound, KinitBounded, kinit # "run"
    PROVE  KinitNeeds \in Nat
<1>1. kinit \in {"klog_show", "find", "initrd_init"}
  BY KinitIs
<1>2. KinitTook(kinit, unpack.pc, taken.kinit)
  BY DEF KinitBounded
<1> QED BY ONLY <1>1, <1>2, KinitSound, KinitIs, LeftIs DEF KinitNeeds

\* ... each block is one less to come, ...
LEMMA KinitTakes ==
    ASSUME KinitSound, KinitBounded, NEW n \in Nat, Takes(n), kinit \in {"klog_show", "initrd_init"},
           KinitTook(kinit, unpack.pc, n), kinit = "initrd_init" => ~Unpacked
    PROVE  /\ KinitBounded'
           /\ KinitNeeds' \in Nat /\ KinitNeeds' <= KinitNeeds - 1
           /\ taken'.kmain = taken.kmain
<1> DEFINE t == taken.kinit
           pc == unpack.pc
           at == unpack.at
<1>1. t \in Nat /\ t + 1 \in Nat /\ t + 1 <= n /\ at \in Nat
      /\ pc \in {"create", "open", "write", "close", "done"}
  BY KinitIs DEF Takes
<1>2. /\ taken' = [taken EXCEPT !.kinit = @ + 1]
      /\ kinit' = kinit /\ unpack' = unpack
  BY DEF Takes, vfsVars
<1>3. taken'.kinit = t + 1 /\ taken'.kmain = taken.kmain
  BY <1>2, KinitIs
<1>4. KinitTook(kinit, pc, t + 1)
  <2>1. CASE kinit = "klog_show"
    BY <1>1, <2>1 DEF KinitTook
  <2>2. CASE kinit = "initrd_init"
    <3>1. n <= CallNeeds(pc)
      BY <2>2 DEF KinitTook
    <3>2. CallNeeds(pc) \in Nat
      BY <1>1, CallsLeft
    <3> DEFINE c == CallNeeds(pc)
    <3>3. t + 1 <= c
      <4> HIDE DEF c
      <4> QED BY <1>1, <3>1, <3>2 DEF c
    <3> QED BY <2>2, <3>3 DEF KinitTook
  <2> QED BY <2>1, <2>2
<1>5. kinit = "initrd_init" => at <= Len(Tree)
  <2>1. Len(Tree) \in Nat
    BY VfsAssumption
  <2> QED BY <1>1, <2>1 DEF Unpacked
<1>6. KinitBounded'
  BY <1>2, <1>3, <1>4 DEF KinitBounded
<1> HIDE DEF t, pc, at
<1>7. KinitLeft(kinit, at, pc, t + 1) = KinitLeft(kinit, at, pc, t) - 1
      /\ KinitTook(kinit, pc, t)
  BY ONLY <1>1, <1>4, <1>5, kinit \in {"klog_show", "initrd_init"}, LeftTaken
<1>8. KinitLeft(kinit, at, pc, t) \in Nat /\ KinitLeft(kinit, at, pc, t + 1) \in Nat
  <2>1. kinit \in {"klog_show", "find", "initrd_init"}
    OBVIOUS
  <2> QED BY ONLY <1>1, <1>4, <1>7, <2>1, LeftIs
<1>9. /\ KinitNeeds' = KinitLeft(kinit, at, pc, t + 1)
      /\ KinitNeeds = KinitLeft(kinit, at, pc, t)
  BY <1>2, <1>3 DEF KinitNeeds, t, pc, at
<1> QED BY ONLY <1>3, <1>6, <1>7, <1>8, <1>9

\* ... and the end of a call leaves no more than there was.
LEMMA HelperGoes ==
    ASSUME KinitSound, initrd_helper
    PROVE  /\ unpack.at <= Len(Tree)
           /\ \/ unpack'.at = unpack.at + 1 /\ unpack'.pc = "create"
              \/ /\ unpack'.at = unpack.at
                 /\ \/ unpack.pc = "create" /\ unpack'.pc = "open"
                    \/ unpack.pc = "open" /\ unpack'.pc = "write"
                    \/ unpack.pc = "write" /\ unpack'.pc = "close"
<1>0. unpack \in [at : Nat, pc : {"create", "open", "write", "close", "done"}]
  BY DEF KinitSound
<1>1. Len(Tree) \in Nat
  BY VfsAssumption
<1>2. unpack.at <= Len(Tree)
  BY <1>0, <1>1 DEF initrd_helper, Unpacked
<1>3. NextRec => unpack'.at = unpack.at + 1 /\ unpack'.pc = "create"
  BY DEF NextRec
<1>4. \A pc : Then(pc) => unpack'.at = unpack.at /\ unpack'.pc = pc
  BY <1>0 DEF Then
<1> QED BY <1>2, <1>3, <1>4 DEF initrd_helper, CreateRecord, OpenRecord, WriteRecord, CloseRecord

LEMMA KinitEnds ==
    ASSUME KinitSound, KinitBounded, KinitSound', kinit' # "run",
           \/ kinit = "klog_show" /\ Took(2) /\ kinit' = "find" /\ UNCHANGED vfsVars
           \/ FindModules
           \/ kinit = "initrd_init" /\ Took(Blocks) /\ initrd_helper /\ UNCHANGED kinit
    PROVE  /\ KinitBounded'
           /\ KinitNeeds' \in Nat /\ KinitNeeds' <= KinitNeeds
           /\ taken'.kmain = taken.kmain
<1> DEFINE t == taken.kinit
           pc == unpack.pc
           at == unpack.at
<1>0. t \in Nat /\ at \in Nat /\ pc \in {"create", "open", "write", "close", "done"} /\ 0 \in Nat
  BY KinitIs
<1>t. \A n : Took(n) => taken'.kinit = 0 /\ taken'.kmain = taken.kmain
  BY KinitIs DEF Took
<1>z. \A p : KinitTook("initrd_init", p, 0) /\ KinitTook("find", p, 0)
  BY DEF KinitTook, CallNeeds
<1>1. CASE kinit = "klog_show" /\ Took(2) /\ kinit' = "find" /\ UNCHANGED vfsVars
  <2>1. /\ kinit' = "find" /\ unpack' = unpack /\ pc = "create"
        /\ taken'.kinit = 0 /\ taken'.kmain = taken.kmain
    BY <1>1, <1>t, KinitIs DEF vfsVars
  <2>2. t <= 2
    BY <1>1 DEF KinitBounded, KinitTook
  <2>3. /\ KinitNeeds = KinitLeft("klog_show", at, "create", t)
        /\ KinitNeeds' = KinitLeft("find", at, "create", 0)
    BY <1>1, <2>1 DEF KinitNeeds
  <2>4. KinitBounded'
    BY <1>z, <2>1 DEF KinitBounded
  <2> HIDE DEF t, pc, at
  <2>5. KinitNeeds' <= KinitNeeds
    BY ONLY <1>0, <2>2, <2>3, LeftFound
  <2>6. KinitNeeds' \in Nat
    BY ONLY <1>0, <1>z, <2>3, LeftIs
  <2> QED BY <2>1, <2>4, <2>5, <2>6
<1>2. CASE FindModules
  <2>1. /\ kinit = "find" /\ kinit' = "initrd_init" /\ unpack' = unpack /\ pc = "create"
        /\ taken' = taken
    BY <1>2, KinitIs DEF FindModules, vfsVars
  <2>2. t = 0
    BY <2>1 DEF KinitBounded, KinitTook
  <2>3. /\ KinitNeeds = KinitLeft("find", at, "create", 0)
        /\ KinitNeeds' = KinitLeft("initrd_init", at, "create", 0)
    BY <2>1, <2>2 DEF KinitNeeds
  <2>4. KinitBounded'
    BY <1>z, <2>1, <2>2 DEF KinitBounded
  <2> HIDE DEF t, pc, at
  <2>5. KinitNeeds' <= KinitNeeds
    BY ONLY <1>0, <2>3, LeftFound
  <2>6. KinitNeeds' \in Nat
    BY ONLY <1>0, <1>z, <2>3, LeftIs
  <2> QED BY <2>1, <2>4, <2>5, <2>6
<1>3. CASE kinit = "initrd_init" /\ Took(Blocks) /\ initrd_helper /\ UNCHANGED kinit
  <2> DEFINE pc1 == unpack'.pc
             at1 == unpack'.at
  <2>1. taken'.kinit = 0 /\ taken'.kmain = taken.kmain
    BY <1>3, <1>t
  <2>2. /\ at <= Len(Tree)
        /\ \/ at1 = at + 1 /\ pc1 = "create"
           \/ /\ at1 = at
              /\ \/ pc = "create" /\ pc1 = "open"
                 \/ pc = "open" /\ pc1 = "write"
                 \/ pc = "write" /\ pc1 = "close"
    BY <1>3, HelperGoes
  <2>3. KinitTook("initrd_init", pc, t)
    BY <1>3 DEF KinitBounded
  <2>4. /\ KinitNeeds = KinitLeft("initrd_init", at, pc, t)
        /\ KinitNeeds' = KinitLeft("initrd_init", at1, pc1, 0)
    BY <1>3, <2>1 DEF KinitNeeds
  <2>5. KinitBounded'
    BY <1>3, <1>z, <2>1 DEF KinitBounded
  <2>6. at1 \in Nat /\ pc1 \in {"create", "open", "write", "close", "done"}
    BY <1>0, <2>2
  <2> HIDE DEF t, pc, at, pc1, at1
  <2>7. /\ KinitLeft("initrd_init", at + 1, "create", 0) <= KinitLeft("initrd_init", at, pc, t)
        /\ pc = "create" => KinitLeft("initrd_init", at, "open", 0) <= KinitLeft("initrd_init", at, pc, t)
        /\ pc = "open" => KinitLeft("initrd_init", at, "write", 0) <= KinitLeft("initrd_init", at, pc, t)
        /\ pc = "write" => KinitLeft("initrd_init", at, "close", 0) <= KinitLeft("initrd_init", at, pc, t)
    BY ONLY <1>0, <2>2, <2>3, LeftNext
  <2>8. KinitLeft("initrd_init", at1, pc1, 0) <= KinitLeft("initrd_init", at, pc, t)
    BY ONLY <2>2, <2>7, Zenon
  <2>9. KinitLeft("initrd_init", at1, pc1, 0) \in Nat
    BY ONLY <1>0, <1>z, <2>6, LeftIs
  <2> QED BY <2>1, <2>4, <2>5, <2>8, <2>9
<1> QED BY <1>1, <1>2, <1>3

Falls(before, after) == after \in Nat /\ after <= before

LEMMA KmainNeedsIs ==
    ASSUME KinitSound, BootTypes
    PROVE  KmainNeeds \in Nat
<1>1. taken.kmain \in 0..6 /\ tasks_all \in BOOLEAN
  BY KinitIs DEF BootTypes
<1> DEFINE k == taken.kmain
           w == IF tasks_all THEN 0 ELSE 1
<1>2. k \in 0..6 /\ w \in {0, 1}
  BY <1>1
<1>3. KmainNeeds = (6 - k) + w
  BY DEF KmainNeeds
<1> HIDE DEF k, w
<1> QED BY <1>2, <1>3

\* None of the three needs more, and who took a block needs less.
LEMMA NeededNext ==
    ASSUME ApsNeed \in Nat, KmainNeeds \in Nat, KinitNeeds \in Nat,
           Falls(ApsNeed, ApsNeed'), Falls(KmainNeeds, KmainNeeds'), Falls(KinitNeeds, KinitNeeds')
    PROVE  /\ Needed \in Nat /\ Needed' \in Nat /\ Needed' <= Needed
           /\ \/ Falls(ApsNeed - 1, ApsNeed') \/ Falls(KmainNeeds - 1, KmainNeeds')
              \/ Falls(KinitNeeds - 1, KinitNeeds')
              => Needed \in Nat \ {0} /\ Needed' <= Needed - 1
<1>1. PICK a, b, c, x, y, z \in Nat :
          /\ a = ApsNeed /\ b = KmainNeeds /\ c = KinitNeeds
          /\ x = ApsNeed' /\ y = KmainNeeds' /\ z = KinitNeeds'
  <2>1. /\ ApsNeed \in Nat /\ KmainNeeds \in Nat /\ KinitNeeds \in Nat
        /\ ApsNeed' \in Nat /\ KmainNeeds' \in Nat /\ KinitNeeds' \in Nat
    BY DEF Falls
  <2> QED BY ONLY <2>1, Zenon
<1>2. /\ x <= a /\ y <= b /\ z <= c
      /\ Falls(ApsNeed - 1, ApsNeed') => x <= a - 1
      /\ Falls(KmainNeeds - 1, KmainNeeds') => y <= b - 1
      /\ Falls(KinitNeeds - 1, KinitNeeds') => z <= c - 1
  BY <1>1 DEF Falls
<1>3. Needed = a + b + c /\ Needed' = x + y + z
  BY <1>1 DEF Needed
<1>4. /\ a + b + c \in Nat /\ x + y + z \in Nat /\ x + y + z <= a + b + c
      /\ x <= a - 1 \/ y <= b - 1 \/ z <= c - 1
            => a + b + c \in Nat \ {0} /\ x + y + z <= a + b + c - 1
  BY ONLY <1>2
<1> QED BY ONLY <1>2, <1>3, <1>4

\* So there is still a pair of pages for each block that may be taken.
LEMMA RoomLasts ==
    ASSUME BootTypes, IsTree(mem), BootInfo \in mem.free, EnoughBelow,
           ApsNeed \in Nat, KmainNeeds \in Nat, KinitNeeds \in Nat,
           Falls(ApsNeed, ApsNeed'), Falls(KmainNeeds, KmainNeeds'), Falls(KinitNeeds, KinitNeeds'),
           \/ mem.free \subseteq mem'.free
           \/ Take /\ \/ Falls(ApsNeed - 1, ApsNeed') \/ Falls(KmainNeeds - 1, KmainNeeds')
                      \/ Falls(KinitNeeds - 1, KinitNeeds')
    PROVE  BootInfo \in mem'.free /\ EnoughBelow'
<1>1. /\ Needed \in Nat /\ Needed' \in Nat /\ Needed' <= Needed
      /\ \/ Falls(ApsNeed - 1, ApsNeed') \/ Falls(KmainNeeds - 1, KmainNeeds')
         \/ Falls(KinitNeeds - 1, KinitNeeds')
         => Needed \in Nat \ {0} /\ Needed' <= Needed - 1
  BY NeededNext
<1>2. CASE mem.free \subseteq mem'.free
  BY <1>1, <1>2, InfoKeeps
<1>3. CASE ~(mem.free \subseteq mem'.free)
  <2>1. /\ Needed \in Nat \ {0} /\ Needed' <= Needed - 1
        /\ HasRun(mem.free, 2)
        /\ mem' = [mem EXCEPT !.free = @ \ Block(kmalloc(mem.free))]
    BY <1>1, <1>3 DEF Take
  <2> QED BY <1>1, <2>1, InfoTakes
<1> QED BY <1>2, <1>3

LEMMA InfoNext ==
    ASSUME BootInv, BootInv', InfoInv, RoomBelow, [KmainNext]_bootVars
    PROVE  InfoInv'
<1>0. /\ BootTypes /\ BootTypes' /\ IsTree(mem) /\ KinitSound /\ KinitSound'
      /\ IsFiniteSet(Woken) /\ KinitBounded
      /\ kmain # "boot" => At("done")
      /\ mem \in MemType
  BY TreeFacts DEF BootInv, MemSound, InfoInv
<1>1. IsFiniteSet(Woken')
  BY <1>0, WokenNext
<1>2. /\ ApsNeed \in Nat /\ KmainNeeds \in Nat
      /\ kinit # "run" => KinitNeeds \in Nat
      /\ Looks => BootInfo \in mem.free /\ EnoughBelow
  BY <1>0, ApsNeedIs, KmainNeedsIs, KinitNeedsIs DEF InfoInv
<1>3. ASSUME KinitBounded',
             Looks' => /\ Looks
                       /\ Falls(ApsNeed, ApsNeed') /\ Falls(KmainNeeds, KmainNeeds')
                       /\ Falls(KinitNeeds, KinitNeeds')
                       /\ \/ mem.free \subseteq mem'.free
                          \/ Take /\ \/ Falls(ApsNeed - 1, ApsNeed') \/ Falls(KmainNeeds - 1, KmainNeeds')
                                     \/ Falls(KinitNeeds - 1, KinitNeeds')
      PROVE  InfoInv'
  <2>1. CASE Looks'
    <3>1. BootInfo \in mem'.free /\ EnoughBelow'
      BY <1>0, <1>2, <1>3, <2>1, RoomLasts DEF Looks
    <3> QED BY <1>1, <1>3, <3>1 DEF InfoInv
  <2> QED BY <1>1, <1>3, <2>1 DEF InfoInv
<1>a. ASSUME UNCHANGED ap
      PROVE  ApsNeed' = ApsNeed /\ Falls(ApsNeed, ApsNeed')
  <2>1. ApsNeed' = ApsNeed
    BY <1>a DEF ApsNeed, To
  <2> QED BY ONLY <1>2, <2>1 DEF Falls
<1>m. ASSUME UNCHANGED <<taken, tasks_all>> \/ (taken'.kmain = taken.kmain /\ UNCHANGED tasks_all)
      PROVE  KmainNeeds' = KmainNeeds /\ Falls(KmainNeeds, KmainNeeds')
  <2>1. KmainNeeds' = KmainNeeds
    BY <1>m DEF KmainNeeds
  <2> QED BY ONLY <1>2, <2>1 DEF Falls
<1>k. ASSUME UNCHANGED <<kinit, unpack>>, taken'.kinit = taken.kinit
      PROVE  /\ KinitBounded'
             /\ KinitNeeds' = KinitNeeds
             /\ kinit # "run" => Falls(KinitNeeds, KinitNeeds')
  <2>1. KinitBounded' /\ KinitNeeds' = KinitNeeds
    BY <1>0, <1>k DEF KinitBounded, KinitNeeds
  <2> QED BY ONLY <1>2, <2>1 DEF Falls
<1>4. CASE bsp_boot /\ UNCHANGED <<vfsVars, kmain, kinit, taken, desc>>
  <2>1. ~At("done")
    BY <1>4 DEF At, bsp_boot, vmm_init, madt_init, smp_init, MapLow, PrepareTrampoline, NextLapic,
          PassStack, SendInit, SendStartup, PollAnswered, PollTimeout, UnmapLow, EndLoop
  <2>2. ~Looks'
    BY <1>0, <1>4, <2>1 DEF Looks
  <2>3. KinitBounded'
    BY <1>4, <1>k DEF vfsVars
  <2> QED BY <1>3, <2>2, <2>3
<1>5. CASE (\E id \in ids : ap_boot(id)) /\ UNCHANGED <<vfsVars, kmain, kinit, taken, desc>>
  <2>1. PICK id \in ids : ap_boot(id)
    BY <1>5
  <2>2. /\ Falls(ApsNeed, ApsNeed')
        /\ smp_ap_entrypoint(id) \/ task_make(id) => Falls(ApsNeed - 1, ApsNeed')
    BY <1>0, <2>1, ApsNext DEF Falls
  <2>3. KinitBounded' /\ (kinit # "run" => Falls(KinitNeeds, KinitNeeds')) /\ (Looks' => Looks)
    BY <1>5, <1>k DEF vfsVars, Looks
  <2>4. CASE UNCHANGED <<mem, tasks_all>>
    <3>1. Falls(KmainNeeds, KmainNeeds')
      BY <1>5, <2>4, <1>m
    <3> QED BY <1>3, <2>2, <2>3, <2>4, <3>1 DEF Looks
  <2>5. CASE smp_ap_entrypoint(id) \/ task_make(id)
    <3>1. Take /\ UNCHANGED tasks_all
      BY <2>5 DEF smp_ap_entrypoint, task_make, ApTakes
    <3>2. Falls(KmainNeeds, KmainNeeds')
      BY <1>5, <3>1, <1>m
    <3> QED BY <1>3, <2>2, <2>3, <2>5, <3>1, <3>2 DEF Looks
  <2>6. CASE sched_add(id)
    <3>1. tasks_all' = TRUE /\ tasks_all \in BOOLEAN
      BY <1>0, <2>6 DEF sched_add, BootTypes
    <3>2. CASE tasks_all
      <4>1. UNCHANGED tasks_all
        BY <3>1, <3>2
      <4>2. UNCHANGED mem
        BY <2>6, <3>2 DEF sched_add
      <4> QED BY <2>4, <4>1, <4>2
    <3>3. CASE ~tasks_all
      <4>1. Take
        BY <2>6, <3>3 DEF sched_add
      <4>2. KmainNeeds = (6 - taken.kmain) + 1 /\ KmainNeeds' = (6 - taken.kmain) + 0
        BY <1>5, <3>1, <3>3 DEF KmainNeeds
      <4>3. Falls(KmainNeeds - 1, KmainNeeds') /\ Falls(KmainNeeds, KmainNeeds')
        <5>1. taken.kmain \in 0..6
          BY <1>0, KinitIs
        <5> QED BY ONLY <4>2, <5>1 DEF Falls
      <4> QED BY <1>3, <2>2, <2>3, <4>1, <4>3 DEF Looks
    <3> QED BY <3>2, <3>3
  <2> QED BY <2>1, <2>4, <2>5, <2>6 DEF ap_boot, EnterLongMode, ReadRsp, ReadCpuinfo, CountUp,
             TrampolineFault, memory
<1>6. CASE pmm_reclaim_bootloader_mem
  <2> DEFINE free == mem.free \cup Reclaimable
  <2>1. /\ kmain = "boot" /\ At("done") /\ UNCHANGED <<ap, tasks_all, taken, kinit, unpack>>
        /\ mem' = [mem EXCEPT !.free = free]
    BY <1>6 DEF pmm_reclaim_bootloader_mem, smpIdle, kept, vfsVars
  <2>2. mem'.free = free /\ BootInfo \in mem'.free /\ mem.free \subseteq mem'.free
    <3>1. mem'.free = free
      BY <1>0, <2>1 DEF MemType
    <3> QED BY <3>1, KmainAssumption
  <2>3. EnoughBelow
    BY <2>1 DEF RoomBelow
  <2>4. kinit = "klog_show"
    BY <1>0, <2>1 DEF KinitSound
  <2>5. KinitBounded' /\ KinitNeeds' = KinitNeeds /\ ApsNeed' = ApsNeed /\ KmainNeeds' = KmainNeeds
    BY <2>1, <1>a, <1>k, <1>m
  <2>6. Needed' = Needed /\ Needed \in Nat
    <3>1. KinitNeeds \in Nat
      BY <1>2, <2>4
    <3>2. Needed = ApsNeed + KmainNeeds + KinitNeeds /\ Needed' = ApsNeed' + KmainNeeds' + KinitNeeds'
      BY DEF Needed
    <3> QED BY ONLY <1>2, <2>5, <3>1, <3>2
  <2>7. EnoughBelow'
    BY <2>2, <2>3, <2>6, InfoKeeps
  <2> QED BY <1>1, <2>2, <2>5, <2>7 DEF InfoInv
<1>7. CASE sched_init
  <2>1. /\ Take /\ UNCHANGED <<ap, kmain, kinit, unpack>> /\ taken'.kinit = taken.kinit
        /\ \/ ~tasks_all /\ tasks_all' = TRUE /\ taken'.kmain = taken.kmain
           \/ /\ UNCHANGED tasks_all /\ taken.kmain < 6
              /\ taken'.kmain = taken.kmain + 1
    BY <1>0, <1>7, KinitIs DEF sched_init, smpIdle, vfsVars
  <2>2. Falls(KmainNeeds - 1, KmainNeeds') /\ Falls(KmainNeeds, KmainNeeds')
    <3>0. taken.kmain \in 0..6
      BY <1>0, KinitIs
    <3>1. \/ /\ KmainNeeds = (6 - taken.kmain) + 1
             /\ KmainNeeds' = (6 - taken.kmain) + 0
          \/ /\ taken.kmain < 6
             /\ \E w \in {0, 1} : /\ KmainNeeds = (6 - taken.kmain) + w
                                  /\ KmainNeeds' = (6 - (taken.kmain + 1)) + w
      BY <2>1 DEF KmainNeeds
    <3> QED BY ONLY <3>0, <3>1 DEF Falls
  <2>3. Falls(ApsNeed, ApsNeed')
    BY <2>1, <1>a
  <2>4. KinitBounded' /\ (kinit # "run" => Falls(KinitNeeds, KinitNeeds')) /\ (Looks' => Looks)
    BY <2>1, <1>k DEF Looks
  <2> QED BY <1>3, <2>1, <2>2, <2>3, <2>4 DEF Looks
<1>8. ASSUME NEW n \in Nat, Takes(n), kinit \in {"klog_show", "initrd_init"},
             KinitTook(kinit, unpack.pc, n), kinit = "initrd_init" => ~Unpacked
      PROVE  InfoInv'
  <2>1. /\ KinitBounded' /\ Falls(KinitNeeds - 1, KinitNeeds') /\ taken'.kmain = taken.kmain
    BY <1>0, <1>8, KinitTakes DEF Falls
  <2>2. Take /\ UNCHANGED <<ap, tasks_all, kmain, kinit>>
    BY <1>8 DEF Takes, smpIdle
  <2>3. Falls(ApsNeed, ApsNeed') /\ Falls(KmainNeeds, KmainNeeds')
    BY <2>1, <2>2, <1>a, <1>m
  <2>4. Falls(KinitNeeds, KinitNeeds')
    BY ONLY <1>2, <1>8, <2>1 DEF Falls
  <2> QED BY <1>3, <2>1, <2>2, <2>3, <2>4 DEF Looks
<1>9. ASSUME \/ kinit = "klog_show" /\ Took(2) /\ kinit' = "find" /\ UNCHANGED vfsVars /\ UNCHANGED mem
             \/ FindModules
             \/ /\ kinit = "initrd_init" /\ Took(Blocks) /\ initrd_helper /\ UNCHANGED kinit
                /\ UNCHANGED mem \/ mem' = [mem EXCEPT !.free = @ \cup Block(desc)]
      PROVE  InfoInv'
  <2>1. /\ kinit' # "run" /\ kinit # "run"
        /\ UNCHANGED <<ap, tasks_all, kmain>>
        /\ mem.free \subseteq mem'.free
    BY <1>0, <1>9 DEF Took, FindModules, smpIdle, smpVars, MemType
  <2>2. KinitBounded' /\ Falls(KinitNeeds, KinitNeeds') /\ taken'.kmain = taken.kmain
    BY <1>0, <1>9, <2>1, KinitEnds DEF Falls
  <2>3. Falls(ApsNeed, ApsNeed') /\ Falls(KmainNeeds, KmainNeeds')
    BY <2>1, <2>2, <1>a, <1>m
  <2> QED BY <1>3, <2>1, <2>2, <2>3 DEF Looks
<1>10. CASE klog_show
  <2>1. CASE Takes(2)
    <3>1. KinitTook(kinit, unpack.pc, 2) /\ kinit = "klog_show"
      BY <1>10 DEF klog_show, KinitTook
    <3> QED BY <2>1, <3>1, <1>8
  <2>2. CASE kinit = "klog_show" /\ Took(2) /\ kinit' = "find" /\ UNCHANGED vfsVars /\ UNCHANGED mem
    BY <2>2, <1>9
  <2> QED BY <1>10, <2>1, <2>2 DEF klog_show
<1>11. CASE FindModules
  BY <1>11, <1>9
<1>12. CASE initrd_init
  <2>1. CASE ~Unpacked /\ Takes(Blocks)
    <3>1. kinit = "initrd_init" /\ KinitTook(kinit, unpack.pc, Blocks) /\ Blocks \in Nat
      BY <1>12, BlocksAre DEF initrd_init, KinitTook
    <3> QED BY <2>1, <3>1, <1>8
  <2>2. CASE /\ kinit = "initrd_init" /\ Took(Blocks) /\ initrd_helper /\ UNCHANGED kinit
             /\ UNCHANGED mem \/ mem' = [mem EXCEPT !.free = @ \cup Block(desc)]
    BY <2>2, <1>9
  <2>3. CASE kinit' = "run"
    <3>1. KinitBounded' /\ ~Looks'
      BY <2>3 DEF KinitBounded, Looks
    <3> QED BY <3>1, <1>3
  <2> QED BY <1>12, <2>1, <2>2, <2>3 DEF initrd_init
<1>13. CASE TasksCall \/ UNCHANGED bootVars
  <2>1. UNCHANGED <<mem, ap, tasks_all, taken, kmain, kinit, unpack>>
    BY <1>13 DEF TasksCall, ClientCalls, bootVars, smpVars, vfsVars
  <2>2. KinitBounded' /\ (kinit # "run" => Falls(KinitNeeds, KinitNeeds'))
    BY <2>1, <1>k
  <2>3. Falls(ApsNeed, ApsNeed') /\ Falls(KmainNeeds, KmainNeeds')
    BY <2>1, <1>a, <1>m
  <2> QED BY <1>3, <2>1, <2>2, <2>3 DEF Looks
<1> QED BY <1>4, <1>5, <1>6, <1>7, <1>10, <1>11, <1>12, <1>13 DEF KmainNext, SmpNext

(* kinit finds the bootloader's structures where kmain left them, also     *)
(* when it has unpacked the modules, if there is RoomBelow: pmm_get gives  *)
(* out the lowest pages first.                                             *)
THEOREM BootInfoSurvives == KmainSpec /\ []RoomBelow => []BootInfoIntact
<1>1. KmainInit => InfoInv
  <2> SUFFICES ASSUME KmainInit PROVE InfoInv
    OBVIOUS
  <2>1. Woken = {} /\ kmain = "boot" /\ kinit = "klog_show" /\ taken.kinit = 0
    BY DEF KmainInit, SmpInit, Woken
  <2>2. KinitBounded
    BY <2>1 DEF KinitBounded, KinitTook
  <2> QED BY <2>1, <2>2, FS_EmptySet DEF InfoInv, Looks
<1>2. BootInv /\ BootInv' /\ InfoInv /\ RoomBelow /\ [KmainNext]_bootVars => InfoInv'
  BY InfoNext
<1>3. InfoInv => BootInfoIntact
  BY DEF InfoInv, Looks, BootInfoIntact
<1> QED BY <1>1, <1>2, <1>3, BootInvariant, PTL DEF KmainSpec
-----------------------------------------------------------------------------
(* The kernel uses the vfs as Vfs has it: kinit unpacks the modules while  *)
(* others take memory, and the tasks call when initrd_init has returned.   *)
(* So what is proved of VfsSpec holds in the kernel.                       *)
THEOREM KernelUsesVfs == KmainSpec => VfsSpec
<1>1. KmainInit => VfsInit
  BY DEF KmainInit
<1>2. [KmainNext]_bootVars => [VfsNext]_vfsVars
  <2> SUFFICES ASSUME [KmainNext]_bootVars PROVE VfsNext \/ UNCHANGED vfsVars
    OBVIOUS
  <2>1. CASE initrd_init
    BY <2>1 DEF initrd_init, Takes, VfsNext
  <2>2. CASE klog_show
    BY <2>2 DEF klog_show, Takes
  <2>3. CASE TasksCall
    BY <2>3 DEF TasksCall, VfsNext
  <2> QED BY <2>1, <2>2, <2>3 DEF KmainNext, pmm_reclaim_bootloader_mem, sched_init, FindModules,
             bootVars
<1> QED BY <1>1, <1>2, PTL DEF KmainSpec, VfsSpec
=============================================================================

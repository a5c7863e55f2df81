------------------------------- MODULE SmpBoot -------------------------------
(***************************************************************************)
(* The boot of the cpus: on the bsp vmm_init (mm/vmm.c), madt_init         *)
(* (sys/acpi/madt.c) and smp_init (sys/smp/smp.c), and on the aps the      *)
(* trampoline and smp_ap_entrypoint, with the page tables and the memory   *)
(* they use.                                                               *)
(*                                                                         *)
(* The bsp and the aps share five words of low memory: the arguments RSP   *)
(* and CPUINFO and the boot counter, each read or written in a step of its *)
(* own.  An ap answers a startup IPI when it likes.  Those in Dead never   *)
(* do; the bsp's 400 ms run out only for those in Dead and in Slow.        *)
(***************************************************************************)
EXTENDS PageTables, SequencesExt

CONSTANTS Firmware,     \* the MADTs, each a sequence of records
          CPU_MAX,
          Bsp, Dead, Slow,
          Memory,       \* free when vmm_init begins, for it and what comes below
          Kernel, Window, Offset, PhysLimit,    \* the two maps of vmm_init
          LowPages,     \* NUM_PAGES(0x100000)
          Trampoline    \* the page of SMP_TRAMPOLINE_BLOB_ADDR

Lapic(id, usable) == [type |-> "lapic", apic_id |-> id, usable |-> usable]
Ioapic(id) == [type |-> "ioapic", apic_id |-> id, usable |-> TRUE]

\* The register holds the id in its top byte and smp_init compares all of
\* it: only a bsp whose id is 0 finds its own record.
ApicIdReg == Bsp * 2^24

ASSUME SmpAssumption == ApicIdReg = Bsp /\ CPU_MAX \in Nat

\* The MADT lists a processor once.
ASSUME FirmwareAssumption ==
    /\ Firmware \subseteq Seq([type : {"lapic", "ioapic"}, apic_id : Nat, usable : BOOLEAN])
    /\ \A records \in Firmware : \A i, j \in 1..Len(records) :
           /\ records[i].type = "lapic" /\ records[j].type = "lapic"
           /\ records[i].apic_id = records[j].apic_id
           => i = j

\* The three maps lie apart in the address space.
ASSUME LayoutAssumption ==
    /\ {Kernel, Window, Offset, PhysLimit, LowPages} \subseteq Nat
    /\ Trampoline \in 0..LowPages-1
    /\ LowPages <= Offset
    /\ Offset + PhysLimit <= Kernel
    /\ Kernel + Window <= Width*Width*Width*Width

\* vmm_init takes a block of the free memory for the root.
ASSUME RootAssumption ==
    /\ Memory \subseteq Frame
    /\ Block(PML4) \subseteq Memory

VARIABLES
    madt,                   \* the machine's MADT
    lapics,                 \* madt.c
    mem,                    \* the page tables and the free pages
    bsp,                    \* where the bsp is: [pc, i, k]
    counter_prev, stack,    \* its locals
    arg_rsp, arg_cpuinfo, ap_boot_counter,
    info,                   \* smp_info_t, cpu_id being the index
    ap,                     \* lapic id -> [pc, rsp, cpuinfo]
    tasks_all,              \* whether it has been allocated
    heap,                   \* the other blocks that were allocated
    failed                  \* history: the aps the bsp gave up

Records == UNION {Range(records) : records \in Firmware}
ids == {rec.apic_id : rec \in {r \in Records : r.type = "lapic"}} \ {Bsp}

-----------------------------------------------------------------------------
SmpInit == /\ madt \in Firmware
           /\ lapics = <<>>
           /\ mem = [table |-> [f \in Frame |-> Zeroed], free |-> Memory \ Block(PML4)]
           /\ bsp = [pc |-> "window", i |-> 1, k |-> 0]
           /\ counter_prev = 0
           /\ stack = NULL
           /\ arg_rsp = NULL
           /\ arg_cpuinfo = NULL
           /\ ap_boot_counter = 0
           /\ info = [num_cpus |-> 0,
                      cpus |-> [c \in 0..CPU_MAX-1 |-> [lapic_id |-> NULL, is_bsp |-> FALSE]]]
           /\ ap = [id \in ids |-> [pc |-> "off", rsp |-> NULL, cpuinfo |-> NULL]]
           /\ tasks_all = FALSE
           /\ heap = {}
           /\ failed = {}

At(pc) == bsp.pc = pc
Goto(pc) == bsp' = [bsp EXCEPT !.pc = pc]
NextRecord == bsp' = [bsp EXCEPT !.pc = "next", !.i = @ + 1, !.k = 0]

lapic == lapics[bsp.i]
ApAt(id, pc) == ap' = [ap EXCEPT ![id].pc = pc]

acpi == <<madt, lapics>>
args == <<arg_rsp, arg_cpuinfo>>
locals == <<counter_prev, stack>>
memory == <<mem, heap, tasks_all>>
kept == <<heap, tasks_all>>

smpLocals == <<locals, args, ap_boot_counter, info, ap, failed, kept>>

\* A step of vmm_map, which maps n pages from v on to those from 0 on.
vmm_map(v, n) ==
    /\ bsp.k < n
    /\ bsp' = [bsp EXCEPT !.k = @ + 1]
    /\ HasTables(mem, v + bsp.k)
    /\ mem' = map_page(mem, v + bsp.k, bsp.k)

\* The loop is over.
Mapped(n, next) ==
    /\ bsp.k = n
    /\ bsp' = [bsp EXCEPT !.pc = next, !.k = 0]
    /\ UNCHANGED mem

\* The kernel's window and all memory, at the addresses Kernel and Offset.
vmm_init ==
    /\ \/ At("window") /\ (vmm_map(Kernel, Window) \/ Mapped(Window, "memory"))
       \/ At("memory") /\ (vmm_map(Offset, PhysLimit) \/ Mapped(PhysLimit, "madt"))
    /\ UNCHANGED <<acpi, smpLocals>>

\* A record of the MADT: the lapics beyond the table's limit are dropped.
\* (The other table, of the I/O APICs, is read by nobody.)
madt_init ==
    /\ At("madt")
    /\ IF bsp.i <= Len(madt)
       THEN /\ bsp' = [bsp EXCEPT !.i = @ + 1]
            /\ lapics' = IF madt[bsp.i].type = "lapic" /\ Len(lapics) < CPU_MAX
                         THEN Append(lapics, madt[bsp.i]) ELSE lapics
       ELSE bsp' = [bsp EXCEPT !.pc = "map", !.i = 1] /\ UNCHANGED lapics
    /\ UNCHANGED <<madt, mem, smpLocals>>

\* smp_init maps the low megabyte to itself, ...
MapLow ==
    /\ At("map")
    /\ vmm_map(0, LowPages)
    /\ UNCHANGED <<acpi, smpLocals>>

\* ... and the trampoline's code and constant arguments are stored in it.
PrepareTrampoline ==
    /\ At("map")
    /\ Mapped(LowPages, "next")
    /\ UNCHANGED <<acpi, smpLocals>>

\* The head of the loop.  A record that is not skipped writes the next cpu_t,
\* which the next one writes again if this cpu does not come up.
NextLapic ==
    /\ At("next")
    /\ bsp.i <= Len(lapics)
    /\ counter_prev' = ap_boot_counter
    /\ IF ~lapic.usable THEN NextRecord /\ UNCHANGED info
       ELSE LET n == info.num_cpus
                isBsp == lapic.apic_id = ApicIdReg
            IN  /\ info' = [info EXCEPT !.cpus[n].lapic_id = lapic.apic_id,
                                        !.cpus[n].is_bsp = @ \/ isBsp,
                                        !.num_cpus = IF isBsp THEN n+1 ELSE n]
                /\ IF isBsp THEN NextRecord ELSE Goto("stack")
    /\ UNCHANGED <<acpi, memory, stack, args, ap_boot_counter, ap, failed>>

PassStack ==
    /\ At("stack")
    /\ Goto("init")
    /\ HasRun(mem.free, 2)
    /\ stack' = kmalloc(mem.free)
    /\ mem' = [mem EXCEPT !.free = @ \ Block(stack')]
    /\ arg_rsp' = stack'
    /\ UNCHANGED <<acpi, counter_prev, arg_cpuinfo, ap_boot_counter, info, ap, failed, kept>>

\* The cpu_t is passed and the ap is reset.
SendInit ==
    /\ At("init")
    /\ Goto("sipi")
    /\ arg_cpuinfo' = info.num_cpus
    /\ ApAt(lapic.apic_id, "reset")
    /\ UNCHANGED <<acpi, memory, locals, arg_rsp, ap_boot_counter, info, failed>>

\* Mutant: the startup IPIs are not counted.
SendStartup_Uncounted ==
    /\ At("sipi")
    /\ Goto("poll")
    /\ IF ap[lapic.apic_id].pc = "reset" /\ lapic.apic_id \notin Dead
       THEN ApAt(lapic.apic_id, "start")
       ELSE UNCHANGED ap
    /\ UNCHANGED <<acpi, memory, locals, args, ap_boot_counter, info, failed>>

\* An ap that runs already ignores it.
SendStartup ==
    /\ At("sipi")
    /\ bsp' = [bsp EXCEPT !.pc = "poll", !.k = @ + 1]
    /\ IF ap[lapic.apic_id].pc = "reset" /\ lapic.apic_id \notin Dead
       THEN ApAt(lapic.apic_id, "start")
       ELSE UNCHANGED ap
    /\ UNCHANGED <<acpi, memory, locals, args, ap_boot_counter, info, failed>>

Answered == ap_boot_counter # counter_prev

PollAnswered ==
    /\ At("poll")
    /\ Answered
    /\ NextRecord
    /\ info' = [info EXCEPT !.cpus[info.num_cpus].is_bsp = FALSE, !.num_cpus = @ + 1]
    /\ UNCHANGED <<acpi, memory, locals, args, ap_boot_counter, ap, failed>>

\* Mutant: the stack of an ap that failed is not given back.
PollTimeout_Leak ==
    /\ At("poll")
    /\ ap_boot_counter = counter_prev
    /\ lapic.apic_id \in Dead \cup Slow
    /\ IF bsp.k < 2 THEN Goto("sipi") /\ UNCHANGED failed
       ELSE NextRecord /\ failed' = failed \cup {lapic.apic_id}
    /\ UNCHANGED <<acpi, memory, locals, args, ap_boot_counter, info, ap>>

\* 20 polls, 10 ms apart, saw no change: a second startup IPI, or no more.
PollTimeout ==
    /\ At("poll")
    /\ ap_boot_counter = counter_prev
    /\ lapic.apic_id \in Dead \cup Slow
    /\ IF bsp.k < 2 THEN Goto("sipi") /\ UNCHANGED <<mem, failed>>
       ELSE /\ NextRecord
            /\ mem' = [mem EXCEPT !.free = @ \cup Block(stack)]
            /\ failed' = failed \cup {lapic.apic_id}
    /\ UNCHANGED <<acpi, locals, args, ap_boot_counter, info, ap, kept>>

\* Mutant: the last page of the range stays mapped.
UnmapLow_OffByOne ==
    /\ At("unmap")
    /\ bsp.k < LowPages
    /\ bsp' = [bsp EXCEPT !.k = @ + 1]
    /\ mem' = IF bsp.k = LowPages-1 THEN mem ELSE unmap_page(mem, bsp.k)
    /\ UNCHANGED <<acpi, locals, args, ap_boot_counter, info, ap, failed, kept>>

UnmapLow ==
    /\ At("unmap")
    /\ bsp.k < LowPages
    /\ bsp' = [bsp EXCEPT !.k = @ + 1]
    /\ mem' = unmap_page(mem, bsp.k)
    /\ UNCHANGED <<acpi, locals, args, ap_boot_counter, info, ap, failed, kept>>

\* The end of the loop over the records, and of smp_init.
EndLoop ==
    /\ \/ At("next") /\ bsp.i > Len(lapics) /\ Goto("unmap")
       \/ At("unmap") /\ bsp.k = LowPages /\ Goto("done")
    /\ UNCHANGED <<acpi, memory, locals, args, ap_boot_counter, info, ap, failed>>

smp_init == \/ MapLow
            \/ PrepareTrampoline
            \/ NextLapic
            \/ PassStack
            \/ SendInit
            \/ SendStartup
            \/ PollAnswered
            \/ PollTimeout
            \/ UnmapLow
            \/ EndLoop

bsp_boot == vmm_init \/ madt_init \/ smp_init

-----------------------------------------------------------------------------
(* An ap, from the startup IPI to the end of sched_init.                   *)

ApUnchanged == UNCHANGED <<acpi, bsp, locals, args, info, failed>>

\* The trampoline's code and the page of the arguments are mapped to
\* themselves.
LowMapped == Translate(mem, 0) = 0 /\ Translate(mem, Trampoline) = Trampoline

\* Mutant: the counter is incremented before the arguments are read.
EnterLongMode_Counts(id) ==
    /\ ap[id].pc = "start"
    /\ LowMapped
    /\ ApAt(id, "rsp")
    /\ ap_boot_counter' = ap_boot_counter + 1
    /\ UNCHANGED memory
    /\ ApUnchanged

\* Real mode to long mode: cr3 is loaded and paging switched on.  From here
\* on the ap may have the translations of the two pages in its TLB, so that
\* it goes on when they are unmapped, or may not: TrampolineFault.
EnterLongMode(id) ==
    /\ ap[id].pc = "start"
    /\ LowMapped
    /\ ApAt(id, "rsp")
    /\ UNCHANGED <<memory, ap_boot_counter>>
    /\ ApUnchanged

ReadRsp(id) ==
    /\ ap[id].pc = "rsp"
    /\ ap' = [ap EXCEPT ![id].pc = "cpuinfo", ![id].rsp = arg_rsp]
    /\ UNCHANGED <<memory, ap_boot_counter>>
    /\ ApUnchanged

ReadCpuinfo(id) ==
    /\ ap[id].pc = "cpuinfo"
    /\ ap' = [ap EXCEPT ![id].pc = "count", ![id].cpuinfo = arg_cpuinfo]
    /\ UNCHANGED <<memory, ap_boot_counter>>
    /\ ApUnchanged

CountUp(id) ==
    /\ ap[id].pc = "count"
    /\ ApAt(id, "call")
    /\ ap_boot_counter' = ap_boot_counter + 1
    /\ UNCHANGED memory
    /\ ApUnchanged

\* The triple fault of an ap that finds the low megabyte unmapped: at "call"
\* it is one the bsp has counted.
TrampolineFault(id) ==
    /\ ~LowMapped
    /\ \/ ap[id].pc \in {"start", "rsp", "cpuinfo", "count"} /\ ApAt(id, "fault")
       \/ ap[id].pc = "call" /\ ApAt(id, "lost")
    /\ UNCHANGED <<memory, ap_boot_counter>>
    /\ ApUnchanged

\* A block for good.
Take ==
    /\ HasRun(mem.free, 2)
    /\ mem' = [mem EXCEPT !.free = @ \ Block(kmalloc(mem.free))]
    /\ heap' = heap \cup {kmalloc(mem.free)}

ApTakes(id, here, there) ==
    /\ ap[id].pc = here
    /\ ApAt(id, there)
    /\ Take
    /\ UNCHANGED <<tasks_all, ap_boot_counter>>
    /\ ApUnchanged

\* The call through ARG_ENTRYPOINT, and what follows up to sched_init: the
\* gdt in a block of its own, the tss of the cpu_t installed in it, gs_base.
smp_ap_entrypoint(id) == ApTakes(id, "call", "task_t")

\* The idle task of the ap and its stack.
task_make(id) == \/ ApTakes(id, "task_t", "kstack")
                 \/ ApTakes(id, "kstack", "add")

\* The first who adds a task, here or on the bsp, allocates the table.
sched_add(id) ==
    /\ ap[id].pc = "add"
    /\ ApAt(id, "up")
    /\ IF tasks_all THEN UNCHANGED <<mem, heap>> ELSE Take
    /\ tasks_all' = TRUE
    /\ UNCHANGED ap_boot_counter
    /\ ApUnchanged

ap_boot(id) == \/ EnterLongMode(id)
               \/ ReadRsp(id)
               \/ ReadCpuinfo(id)
               \/ CountUp(id)
               \/ TrampolineFault(id)
               \/ smp_ap_entrypoint(id)
               \/ task_make(id)
               \/ sched_add(id)

smpVars == <<madt, lapics, mem, bsp, counter_prev, stack, arg_rsp, arg_cpuinfo,
             ap_boot_counter, info, ap, tasks_all, heap, failed>>

SmpNext == \/ bsp_boot
           \/ \E id \in ids : ap_boot(id)

\* The bsp polls and sleeps in a loop; the aps execute.
SmpFairness == /\ WF_smpVars(bsp_boot)
               /\ \A id \in ids : WF_smpVars(ap_boot(id))

SmpSpec == SmpInit /\ [][SmpNext]_smpVars /\ SmpFairness

-----------------------------------------------------------------------------
\* Aps that started, or may still start, after the bsp gave them up.
Late == {id \in failed : ap[id].pc # "reset"}

\* Aps that have read both arguments.
HasArgs ==
    {id \in ids : ap[id].pc \in {"count", "call", "task_t", "kstack", "add", "up", "lost"}}

(* Every ap comes up on a stack that is its own, with a cpu_t that is its  *)
(* own and says its lapic id, as long as no ap answers after the bsp gave  *)
(* it up: the arguments are in two words all the aps read.                 *)
OwnArguments ==
    Late = {} =>
        \A id \in HasArgs :
            /\ info.cpus[ap[id].cpuinfo].lapic_id = id
            /\ Block(ap[id].rsp) \cap mem.free = {}
            /\ \A other \in HasArgs \ {id} :
                  /\ ap[other].rsp # ap[id].rsp
                  /\ ap[other].cpuinfo # ap[id].cpuinfo

\* The blocks that are the page table's root, a stack, or allocated for good.
BlocksInUse ==
    LET stacks == {ap[id].rsp : id \in HasArgs} \cup
                  (IF bsp.pc \in {"init", "sipi", "poll"} THEN {stack} ELSE {})
    IN  {PML4} \cup stacks \cup heap

\* What vmm_init maps.
KernelMap == [v \in Page |->
    IF v \in Kernel..Kernel+Window-1 THEN v - Kernel
    ELSE IF v \in Offset..Offset+PhysLimit-1 THEN v - Offset
    ELSE NULL]

(* The page tables are a tree without empty or freed tables at every step, *)
(* and when smp_init is done they map what vmm_init is to map, no more.    *)
TablesProper == /\ ProperTables(mem)
                /\ At("done") => Translation(mem) = KernelMap

(* vmm.c implements the map of AddressSpace: a step of vmm_init enters a   *)
(* page of the kernel's, a step of smp_init maps a low page to itself or   *)
(* takes one out, and no other step changes a table.                       *)
Space == INSTANCE AddressSpace WITH mapping <- Translation(mem)
MapsOnePage ==
    \/ UNCHANGED mem.table
    \/ /\ bsp.pc \in {"window", "memory"}
       /\ \E v \in Page : KernelMap[v] # NULL /\ Space!Map(v, KernelMap[v])
    \/ At("map") /\ \E v \in 0..LowPages-1 : Space!Map(v, v)
    \/ At("unmap") /\ \E v \in 0..LowPages-1 : Space!Unmap(v)

MapsPageByPage == [][MapsOnePage]_mem

(* smp_init ends, whatever the aps do, and unless one answers late, the    *)
(* first num_cpus entries of the cpu table are the bsp's and those of the  *)
(* usable aps that are not dead, each of which goes on to the end of       *)
(* sched_init, or is lost (NoneLost).                                      *)
Usable == {l.apic_id : l \in {l \in Range(lapics) : l.usable}} \ {Bsp}
CountedComeUp ==
    <>[]( /\ At("done")
          /\ Late = {} =>
                 /\ \A id \in Usable \ Dead : ap[id].pc \in {"up", "lost"}
                 /\ {info.cpus[c].lapic_id : c \in 0..info.num_cpus-1}
                       = (Usable \ Dead) \cup {Bsp} )

(* When the bsp unmaps the low megabyte no ap needs it any more, unless it *)
(* is late: smp.c says that the identity mapping is no longer needed.      *)
NoneLost == Late = {} => \A id \in ids : ap[id].pc # "lost"
=============================================================================

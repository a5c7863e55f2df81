-------------------------------- MODULE Kmain --------------------------------
(***************************************************************************)
(* kmain.c from vmm_init on: the aps come up, the memory of the bootloader *)
(* is given to the allocator, sched_init makes the first tasks, and kinit, *)
(* one of them, starts the log's display and unpacks the initrd, which it  *)
(* finds through the bootloader's structures; then tasks use the files.    *)
(*                                                                         *)
(* The bsp in sched_init, kinit and the aps, which make their idle tasks,  *)
(* take blocks of the same memory, each kmalloc a step of its own.  What   *)
(* the vfs takes is counted until initrd_init returns.                     *)
(***************************************************************************)
EXTENDS SmpBoot, Vfs

CONSTANTS Reclaimable,  \* pages of type BOOTLOADER_RECLAIMABLE
          BootInfo,     \* the one with the tag of the modules
          Initrd,       \* pages of the first module; its files have a page at most
          ClientCpus    \* bound: tasks call on machines with as many cpus only

\* The entries of the memory map do not overlap.
ASSUME KmainAssumption ==
    /\ Reclaimable \cup Initrd \subseteq Frame
    /\ Memory \cap (Reclaimable \cup Initrd) = {}
    /\ Reclaimable \cap Initrd = {}
    /\ BootInfo \in Reclaimable

VARIABLES kmain, kinit, \* what the bsp, and the task kinit, do next
          taken,        \* the blocks each has taken, kinit in its current call
          desc          \* the block of the vfs_node_desc_t kinit has open

bootVars == <<smpVars, vfsVars, kmain, kinit, taken, desc>>

KmainInit == /\ SmpInit
             /\ VfsInit
             /\ kmain = "boot"
             /\ kinit = "klog_show"
             /\ taken = [kmain |-> 0, kinit |-> 0]
             /\ desc = NULL

\* kmalloc and pmm_free change only the memory.
smpIdle == <<madt, lapics, bsp, counter_prev, stack, arg_rsp, arg_cpuinfo,
             ap_boot_counter, info, ap, failed>>

pmm_reclaim_bootloader_mem ==
    /\ At("done")
    /\ kmain = "boot"
    /\ kmain' = "sched_init"
    /\ mem' = [mem EXCEPT !.free = @ \cup Reclaimable]
    /\ UNCHANGED <<smpIdle, kept, vfsVars, kinit, taken, desc>>

\* The idle task, kinit and the janitor: a block for the task_t and one for
\* the stack.  The table of tasks may be allocated when the first is added.
sched_init ==
    /\ kmain = "sched_init"
    /\ Take
    /\ IF taken.kmain = 2 /\ ~tasks_all THEN tasks_all' = TRUE /\ UNCHANGED taken
       ELSE /\ taken.kmain < 6
            /\ taken' = [taken EXCEPT !.kmain = @ + 1]
            /\ UNCHANGED tasks_all
    /\ UNCHANGED <<smpIdle, vfsVars, kmain, kinit, desc>>

\* kinit is added before the janitor is made: an ap may run it from then on.
Runs == taken.kmain = 6 \/ (taken.kmain >= 4 /\ \E id \in ids : ap[id].pc = "up")

\* A call of kinit's that takes so many blocks takes one more, ...
Takes(number) == /\ taken.kinit < number
                 /\ Take
                 /\ taken' = [taken EXCEPT !.kinit = @ + 1]
                 /\ UNCHANGED <<smpIdle, tasks_all, vfsVars, kmain, kinit>>

\* ... or it has them all.
Took(number) == /\ taken.kinit = number
                /\ taken' = [taken EXCEPT !.kinit = 0]
                /\ UNCHANGED <<smpIdle, tasks_all, kmain>>

\* The task_t and the stack of klogdisplayd.
klog_show ==
    /\ kinit = "klog_show"
    /\ Runs
    /\ \/ Takes(2) /\ UNCHANGED desc
       \/ Took(2) /\ kinit' = "find" /\ UNCHANGED <<mem, heap, vfsVars, desc>>

\* stv2_find_struct_tag.  What a kinit does that finds something else where
\* the tag was is left open.
FindModules ==
    /\ kinit = "find"
    /\ BootInfo \in mem.free
    /\ kinit' = "initrd_init"
    /\ UNCHANGED <<smpVars, vfsVars, kmain, taken, desc>>

\* The inode, the tnode and its ident, and the folder's first list of
\* children; the handle, and kinit's first list of them; a file's memory.
Blocks ==
    CASE unpack.pc = "create" ->
            LET at == CreatesIn(record.path)
            IN  IF at = NULL THEN 0 ELSE IF inode[tnode[at].inode].child = <<>> THEN 4 ELSE 3
      [] unpack.pc = "open" ->
            IF Found(record.path) = NULL THEN 0 ELSE IF openfiles[Kinit] = <<>> THEN 2 ELSE 1
      [] unpack.pc = "write" ->
            LET node == Of(Kinit, kfh)
            IN  IF node.alloc_size = 0 /\ Grown(node, record.size).alloc_size > 0 THEN 1 ELSE 0
      [] OTHER -> 0

\* The tag is read again for what pmm_free is to free.
initrd_init ==
    /\ kinit = "initrd_init"
    /\ \/ /\ ~Unpacked
          /\ Takes(Blocks)
          /\ desc' = IF unpack.pc = "open" /\ taken.kinit = 0 THEN kmalloc(mem.free) ELSE desc
       \/ /\ ~Unpacked
          /\ Took(Blocks)
          /\ initrd_helper
          /\ IF unpack.pc # "close" THEN UNCHANGED <<mem, heap, desc>>
             ELSE /\ mem' = [mem EXCEPT !.free = @ \cup Block(desc)]
                  /\ heap' = heap \ {desc}
                  /\ desc' = NULL
          /\ UNCHANGED kinit
       \/ /\ initrd_done
          /\ BootInfo \in mem.free
          /\ mem' = [mem EXCEPT !.free = @ \cup Initrd]
          /\ kinit' = "run"
          /\ UNCHANGED <<smpIdle, kept, kmain, taken, desc>>

TasksCall == /\ info.num_cpus \in ClientCpus
             /\ ClientCalls
             /\ UNCHANGED <<smpVars, kmain, kinit, taken, desc>>

KmainNext == \/ SmpNext /\ UNCHANGED <<vfsVars, kmain, kinit, taken, desc>>
             \/ pmm_reclaim_bootloader_mem
             \/ sched_init
             \/ klog_show
             \/ FindModules
             \/ initrd_init
             \/ TasksCall

KmainSpec == KmainInit /\ [][KmainNext]_bootVars /\ SmpFairness

-----------------------------------------------------------------------------
(* kinit still finds the bootloader's structures where kmain left them,    *)
(* until it has freed the initrd: what they lie in has not been given out  *)
(* again, though it is free, as long as enough lower pages are, which      *)
(* pmm_get gives out first.                                                *)
BootInfoIntact ==
    kmain = "sched_init" /\ kinit # "run" => BootInfo \in mem.free

(* Unless an ap was late, all of memory is accounted for: it is free, or a *)
(* page table, or in exactly one block somebody uses.                      *)
MemoryAccounted ==
    Late = {} =>
        LET used == UNION {Block(b) : b \in BlocksInUse}
        IN  /\ Cardinality(used) = 2 * Cardinality(BlocksInUse)
            /\ used \cap Tables(mem) = {}
            /\ mem.free = (Memory \cup (IF kmain = "boot" THEN {} ELSE Reclaimable)
                                  \cup (IF kinit = "run" THEN Initrd ELSE {}))
                            \ (used \cup Tables(mem))
=============================================================================

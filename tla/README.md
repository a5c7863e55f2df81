# aeolos in TLA+

aeolos is a small x86-64 SMP kernel: C and some assembly, booted by stivale2.
This directory holds TLA+ modules that model its parts, the configurations that
model-check them with TLC, and proofs checked by TLAPS. Paths below are relative
to `src/kernel/`.

## 1. Inventory

| component | state it keeps | operations | talks to |
|---|---|---|---|
| scheduler `proc/sched/sched.c` | `tasks_running`, `tasks_idle` per cpu; `tasks_all`; the sleeping and the dead queue; `sched_lock` | timer interrupt (`_do_context_switch`), `sched_sleep`, `_kill`, `_block`, `_unblock`, `_add`, `_get_current`, the janitor task | task queue, spinlock, timer, HPET, heap |
| task queue `proc/sched/tqueue.c` | front, back; links inside the tasks | push front, insert after, remove, pop back | scheduler only |
| task creation `proc/task.c` | `curr_tid` | `task_make`, `task_add` | heap, scheduler |
| locks `lib/atomic.[ch]` | the lock bit, the saved flags; reader count | `lock_wait`, `lock_release`, `lock_try`; `rwlock_*` | every locked component; the cpu's interrupt flag |
| physical memory `mm/pmm.c` | page bitmap, `free_mem` | `pmm_alloc`, `pmm_free`, `pmm_get`, init, reclaim | vmm, heap |
| virtual memory `mm/vmm.c` | page tables | `vmm_map`, `vmm_unmap` | pmm |
| heap `lib/kmalloc.c` | page-count header in front of each block | `kmalloc`, `kmfree`, `kmrealloc` | pmm |
| vfs `fs/vfs/*`, ramfs `fs/ramfs` | tree of tnodes, inodes with reference counts, open handles per task; file contents | open, close, read, write, seek, link, unlink, create, mount, getdent | heap, scheduler (`sched_get_current`) |
| kernel log `lib/klog.c` | ring of characters, `log_lock` | `klog_*`; `klogdisplayd` redraws; `klog_show_now` | terminal, scheduler |
| terminal `dev/term/term.c` | cursor, escape sequence state | `term_putchar`, `term_clear` | framebuffer |
| SMP start-up `sys/smp/*` | cpu records, AP counter, two words of arguments | `smp_init` on the BSP, the trampoline and `smp_ap_entrypoint` on each AP | MADT, vmm, heap, scheduler |
| `kernel_panic` `sys/panic.c` | `panic_lock`, the timer's handler | stop the other cpus, log, show | kernel log, APIC timer |
| boot `kmain.c`, `boot/*` | the bootloader's structures, the initrd | `kmain`, `kinit`, `initrd_init` | all |
| interrupts, APIC, HPET, ACPI, cpu set-up `sys/*` | tables, registers | initialisation; `apic_timer_*`; `madt_init` | all |

What is hard here:

* *Concurrency.* Every cpu runs the scheduler. There are four locks:
  `sched_lock`, `vfs_lock`, `log_lock` and `panic_lock`. `pmm`, `kmalloc`,
  `sched_get_current` and `vfs_seek` take none, `task_make` and a part of
  `sched_init` do their work outside of `sched_lock`, and every vfs call on a
  handle looks the handle up before it takes `vfs_lock`. Interrupts come at any
  instruction outside `lock_wait ... lock_release`.
* *Ordering.* tids are given out outside the lock, tables are filled inside it;
  the dead and the sleeping queue share the links of a task.
* *Liveness.* The round-robin scan, wake-up in time order, reaping by a task
  that itself sleeps.
* *Timeouts.* The BSP gives an AP up after a while; the AP may answer later.
* *Limits.* The last tid, the last page, full rings, parameters of an escape
  sequence, records of the MADT.

`PROJECT.json` lists each hazard at its line with the properties that cover it.

What makes each component correct: the scheduler never runs a task on two cpus,
starves nobody, wakes sleepers in time and not early, frees exactly the dead;
the queue is a sequence; a lock excludes and restores the interrupt flag;
the allocator never hands out one page twice and its count of free memory is
the bitmap's; page tables are a tree that is freed as it empties; the vfs keeps
its tree, its counts and its files consistent; a frame of the console is the end
of the log, and a panic is on the screen in the end; the start-up gives each cpu
its own record and stack, although the arguments pass through shared words.

## 2. Modules

| module | models | kind |
|---|---|---|
| `TaskQueue` | `proc/sched/tqueue.c`, as operators on a heap of links | pure operators |
| `SeqQueue` | what the queue promises: a sequence of distinct tasks | abstract specification |
| `TaskQueueProofs` | lemmas: each operation does to a list of any length what `SeqQueue` says | TLAPS |
| `Sched` | `proc/sched/sched.c`, `sched_asm.s`, `task_make`/`task_add`: the run time | component, uses `TaskQueue` |
| `SchedBoot` | `sched_init` on every cpu, while others already schedule; ends in a state of `Sched` | component, extends `Sched` |
| `SchedQueues` | the two queues of the scheduler, each of which refines `SeqQueue` | refinement, extends `SchedBoot` |
| `SchedProofs` | theorems about who runs where in `Sched`, the sleepers, the dead and the queues, and the refinement of `SchedQueues` | TLAPS, extends `TaskQueueProofs` |
| `MCSched` | the programs TLC lets the tasks of `Sched` run | model checking |
| `SpinLock` | `lock_wait`/`lock_release` of `lib/atomic.h`, instruction by instruction, with interrupts | component |
| `Mutex` | a lock that is taken in one step | abstract specification, refined by `SpinLock` |
| `SpinLockProofs` | theorems about `SpinLock`, the refinement among them | TLAPS |
| `Heap` | `mm/pmm.c` and `lib/kmalloc.c`, access by access | component |
| `HeapProofs` | theorems about `Heap` for one process | TLAPS |
| `MCHeap` | a memory map for `Heap` | model checking |
| `PageTables` | `mm/vmm.c`, as operators on tables and free pages | pure operators |
| `AddressSpace` | what `vmm_map` and `vmm_unmap` promise: a map of pages | abstract specification |
| `PageTableProofs` | lemmas: what `map_page`, `unmap_page` and `pmm_get` do to a tree of tables of any width | TLAPS |
| `SmpBoot` | `vmm_init`, `madt_init`, `smp_init`, the trampoline, `smp_ap_entrypoint` | component, uses `PageTables` |
| `Vfs` | `fs/vfs/*` and `fs/ramfs`, and the initrd's unpacking | component |
| `Namespace` | what the vfs promises about names | abstract specification, refined by `Vfs` |
| `VfsProofs` | theorems about `Vfs`, the refinement among them | TLAPS, extends `Vfs` |
| `Kmain` | `kmain` from `vmm_init` on, `kinit`, and tasks that use files | composition of `SmpBoot` and `Vfs` |
| `BootProofs` | theorems about the boot, the page tables and the memory of `Kmain`, and that its vfs is `Vfs` | TLAPS, extends `Kmain` and `PageTableProofs` |
| `MCKmain` | machines, an initrd and paths for `Kmain`, and with it for `Vfs` | model checking |
| `Terminal` | `dev/term/term.c` on the back buffer, as operators | pure operators |
| `Console` | `lib/klog.c`, `klogdisplayd` and `sys/panic.c` on several cpus | component, uses `Terminal` |
| `ConsoleProofs` | theorems about the ring and the display of `Console` | TLAPS |
| `MCConsole` | texts for `Console` | model checking |
| `Null` | the null pointer | constant |

How they fit: `SpinLock` refines `Mutex`, a lock taken and released in one step.
`Sched` uses `sched_lock` in that way, so what a cpu does between `lock_wait`
and `lock_release` is one step there, or one step for each iteration of a loop
with `sched_lock` held. `Sched` manipulates its two queues with the operators of
`TaskQueue`, about which `TaskQueueProofs` proves what each does to a list, and
`SchedQueues` checks that the scheduler's use of them keeps two sequences.
`Kmain` puts `SmpBoot` and `Vfs` together: one memory, from which page tables,
stacks, gdts, tasks and the nodes of the initrd are allocated while aps come up.
`Console` stands beside it; its cpus only log, display and panic.

### 2.1 TaskQueue

A heap is a record `[front, back, next, prev]`: the two pointers of a
`task_queue` and the links of all tasks, since a `task_t` has only one pair of
them. An operation is an operator from heap to heap, assignment by assignment;
`InsertFaults` says when `tq_insert_after` would follow a null pointer.
`Contents(h)` walks `next` from the front, and `Represents(h, s)` says that both
directions of links describe the sequence `s` of distinct tasks.

### 2.2 Sched

| state | in the code |
|---|---|
| `tasks_running`, `data`/`len` of `tasks_all`, `tasks_asleep`, `tasks_dead`, `curr_tid`, `sched_lock` | the variables of the same name; `tasks_idle` is constant after boot |
| `status`, `next`, `prev` | fields of `task_t` |
| `due` | `wakeuptime - hpet_get_nanos()` in units of time, -1 once it is past |
| `mode[c]` | which locked loop cpu c is in, or `"task"` |
| `kstack[c]` | whose kernel stack `rsp` points into |
| `at[t]`, `reg[t]`, `cursor` | where task t's code stands, and a local variable of it |
| `freed` | tasks whose stack and `task_t` the janitor gave to `kmfree` |

| action | in the code |
|---|---|
| `SwitchBegin`, `WakeOne`, `Choose`, `ChooseJunk`, `FinishSwitch` | the timer interrupt: state saved and lock taken; one sleeper woken; the round-robin scan and `lock_release`; the scan meets a slot that was never stored to; `finish_context_switch` |
| `SleepBegin`, `InsertStep`, `Halt` | `sched_sleep` with `add_sleeping_sorted`, a comparison at a time, and the `hlt` after the lock is released |
| `sched_kill`, `sched_block`, `sched_unblock`, `CallJunk` | the calls; one with an uninitialised slot faults |
| `task_make`, `sched_add` | the two halves of `task_add`, the first outside the lock |
| `ReadCpu`, `ReadRunning`, `UseCurrent` | the two loads of `sched_get_current` and the use of the result, none of them locked |
| `ReapBegin`, `ReapOne`, `ReapEnd` | `sched_janitor` |
| `Elapse` | the HPET's main counter |

Abstractions. Which calls a task makes is given by the constants `Naps`,
`Kills`, `Blocks`, `Adders`, `Askers`, and it makes them in any order, any
number of times. The clock ticks in units longer than a time slice; a sleep
of at most `TIMESLICE_DEFAULT`, for which `sched_sleep` waits busily, does not touch
the scheduler and is left out. `vec_resize` grows the table without clearing the
new slots: a slot that was never stored to holds `Junk`, and following it ends
in `kernel_panic`, the `"fault"` mode. Memory that was freed is not handed out
again, so that a use of it is seen. `curr_tid` stops one past `TID_MAX`.
Priorities, register frames, `cr3` and the panic texts are left out; no code
reads the priority.

### 2.3 SchedBoot

Each cpu goes through the steps of `sched_init` (`make_idle`, `add_idle`,
`running`, `unlist`, and on the bsp the first task and the janitor, then
`start`); the stores outside `sched_lock` are steps of their own. After `start`
the cpu takes the actions of `Sched`. `BootReachesInit` ties the two modules:
when the last cpu arrives, on a machine with one cpu, the state satisfies
`Sched!Init`. It is proved (5.1).

The code fixes no order in which the cpus call `task_make`: an ap increments the
counter `smp_init` waits for (`trampoline.nasm:89`) long before. `tasks_idle`,
`FirstTask` and `Janitor` are constants all the same, and say which tid each call
was given: a cpu is at `Make` with the tid it will get, and the step is taken
when that tid is the next one. So one choice of the constants is one order, and
all choices together are all orders; what is proved of `Sched` is proved for
every choice.

### 2.4 SpinLock

`pc` is the next instruction of each context, `pushed` the flags word on its
stack, `intr` the cpu's interrupt flag, `rflags` the field of the shared
`lock_t`. A cpu has two contexts, the interrupted task and the timer handler,
and `Interrupt` may come before any instruction while `intr` is set. `entry` is
a history variable, the flag at the `pushfq`. A task that is switched out while
it has the lock cannot occur (interrupts are off), and one that is switched out
before the `cli` takes its stack along; contexts stay on their cpu here, as
nothing before the `cli` depends on which cpu it is.

### 2.5 Heap

| state | in the code |
|---|---|
| `bitmap` | the pages whose bit is set, the free ones |
| `free_mem` | `memstats.free_mem`, in pages |
| `header[j]` | `numpages` of the `struct metadata` on page j |
| `live` | the blocks callers have |
| `pc`, `cand`, `done`, `want`, `reg`, `old` | the locals of each process inside the allocator |

`pmm_get`'s scan (`Check`, `Found`, `OutOfMemory`), the marking (`MarkLoad`,
`MarkStore`), the count (`TakeLoad`, `TakeStore`) and `pmm_free` (`FreeTest`,
`GiveLoad`, `GiveStore`, `FreeLoad`, `FreeStore`, `FreeDone`) are a step per
memory access, a read-modify-write being two, because nothing there is locked.
`kmalloc`, `kmfree`, `kmrealloc` and `pmm_reclaim_bootloader_mem` start those
loops, `Got` writes the header. Callers free only blocks they own. The constants
are a memory map: `Usable`, `Bitmap` (where `pmm_init` put the bitmap),
`Reclaimable`, and `Garbage`, the bits behind the cleared bytes of the bitmap
that happen to be 1. `Zeroed` follows the code: `bm_size` is rounded down, so a
last byte that is not full is not cleared.

### 2.6 PageTables and SmpBoot

A record `[table, free]` holds the page tables, as functions from entries to
what they point at, and the free pages. `map_page` and `unmap_page` are
operators on it, table by table; four levels as in the code, with `Width`
entries each. Flags are left out, as every entry the kernel writes is present or
zero, and so is `invlpg`: a walk reads the tables as they are. `HasRun` and
`HasTables` say that `pmm_get` finds what it is asked for; where it does not it
panics, and the step is not taken.

| state | in the code |
|---|---|
| `madt`, `lapics` | the records of the firmware's MADT, and the table of `madt.c` |
| `mem` | page tables and free pages |
| `bsp`, `counter_prev`, `stack` | where the bsp is in `vmm_init`, `madt_init` and `smp_init`, and its locals |
| `arg_rsp`, `arg_cpuinfo`, `ap_boot_counter` | the words at 0xfb0, 0xfe0 and 0xff0 |
| `info` | `smp_info_t` |
| `ap[id]` | where the ap is, and the arguments it has read |
| `tasks_all`, `heap` | whether the table of tasks has been allocated, and the other blocks that are allocated for good |
| `failed` | history: the aps the bsp gave up |

| action | in the code |
|---|---|
| `vmm_init`, `madt_init` | the two maps, a page at a time; a record of the MADT |
| `MapLow`, `PrepareTrampoline` | `vmm_map` of the low megabyte a page at a time, the copy of the trampoline |
| `NextLapic`, `PassStack`, `SendInit`, `SendStartup`, `PollAnswered`, `PollTimeout` | the body of `smp_init`'s loop, a step between any two accesses to what the aps share |
| `UnmapLow`, `EndLoop` | the end |
| `EnterLongMode`, `ReadRsp`, `ReadCpuinfo`, `CountUp` | `trampoline.nasm` |
| `TrampolineFault` | an access to the low megabyte that is no longer mapped |
| `smp_ap_entrypoint` | the `call` at the end of the trampoline, and what follows up to `sched_init`: the gdt |
| `task_make`, `sched_add` | the idle task that `sched_init` makes on the ap: its `task_t`, its stack, and the table of tasks if it is the first |

An ap in `Dead` never answers; the 400 ms the bsp polls for may run out for one
in `Slow`, which then starts late, while the bsp is somewhere else. All that is
said of arguments excludes runs in which that happened (`Late`): there the
code is wrong (section 7). After an ap has counted itself it still executes and
reads in the low megabyte, which the bsp may unmap as soon as it sees the count.
Whether the ap has the translations in its TLB by then is left open: at `"call"`
it may go on (`smp_ap_entrypoint`) or fault (`TrampolineFault`), and then it is
`"lost"`, which is the finding of `unmap`. The APIC's id register
is compared unshifted (`smp.c:111`), so only a bsp whose id is 0 is recognised:
`SmpAssumption`. What is initialised between `vmm_init` and `smp_init` and keeps
its memory (the gdt of the bsp, the back buffer, the root of the vfs) is no part
of `Memory`.

### 2.7 Vfs

| state | in the code |
|---|---|
| `tnode`, `inode` | the nodes that are allocated, by number; `alloc_size` and `data` of an inode are its `ramfs_ident_t` |
| `openfiles[t]` | `task_t.openfiles`, with `NULL` where a handle was closed |
| `unpack` | where `initrd_helper` is |
| `trap` | what undefined thing a call did |

Each call is an action named as in the code: `vfs_create`, `vfs_open`,
`vfs_close`, `vfs_link`, `vfs_unlink`, `vfs_mount`, `vfs_read`, `vfs_write`,
`vfs_seek`, `vfs_getdent`. It is one step because it holds `vfs_lock` while it is
at what tasks share. What is done without the lock is the caller's own: the
handle's slot, which `handle_to_fd` reads before the lock is taken, and the
position that `vfs_seek` sets, which takes no lock at all. The one thing of
others that a seek reads is the size of the inode, so its step is that load.
(That `sched_get_current` may give a task another task's handles is the finding
of `current`, and is not in `Vfs`.) A close decrements the count and frees
nothing, like the code. `Walked`
is `path_to_node`'s loop with its peculiarity: a name that is not found leaves
the walk in the same folder. What was written of a file is the set `data` of its
bytes, values are left out. A call that would use freed memory, follow a null
pointer or copy past the end of its memory sets `trap` and nothing is said of what
follows; section 7 lists the five ways. `ramfs`, the only filesystem that is
registered, is part of the calls: `Synced` is its `sync`, `setlink`'s freeing is
in `vfs_unlink`. `Names` maps the tree to the abstract `Namespace`, in which a
name is entered where it was not, or goes away with nothing below it.

A write behind the end of a file is no trap: the file grows up to it, and the
bytes between are part of the file though nobody wrote them (`Gap`).

`unpack` follows `initrd_helper`: `CreateRecord`, `OpenRecord`, `WriteRecord`,
`CloseRecord`. It looks at no result, so a call that fails is a step too, and
the next one is made with what it left: a file that could not be created may be
opened all the same, if it was there before; one that cannot be opened is the
handle -1, with which write and close fail without doing anything.

### 2.8 Kmain

| state | in the code |
|---|---|
| `kmain`, `kinit` | which call the bsp, and the task `kinit`, makes next |
| `taken` | how many blocks each has taken, `kinit` in its current call |
| `desc` | the block of the handle that `kinit` has open |

`pmm_reclaim_bootloader_mem` frees `Reclaimable`. `sched_init` of the bsp takes
seven blocks, a step each: a `task_t` and a stack for the idle task, `kinit` and
the janitor, and the table of tasks, which the first `sched_add` on any cpu
allocates. `kinit` runs when it was added and a cpu schedules (`Runs`), while
the bsp may still be at the janitor. Its first call, `klog_show`, takes two
blocks for `klogdisplayd`; then `FindModules`, which is
`stv2_find_struct_tag`, reads a page that is free by then; then `initrd_init`.
Each call of `kinit`'s first takes the blocks it needs (`Takes`) and has its
effect when it has them (`Took`). How many blocks a call of the vfs takes is
`Blocks`: for a new node the inode, the tnode, the ident and, in a folder without
entries, the list; for a new handle the handle and, the first time, the list; for
a file its bytes, a page at most. `vfs_close` frees the handle's. When all records
are done `initrd_init` reads the tag once more for the memory it frees
(`initrd.c:52`).

The aps go on meanwhile and take their blocks from the same memory. Page tables
are changed in one step and a block is allocated in one step here: what
concurrent allocation does to the bitmap is the subject of `Heap`. What tasks do
after `initrd_init` is followed in the vfs, not in the memory. Nor is what the
janitor frees, which is nothing before `kinit` has killed itself.
`ClientCpus` is a bound: tasks call the vfs on machines with so many cpus.

### 2.9 Terminal and Console

A screen is a function from cells to a character and two colours. `parse_cmd_byte`,
`putchar_at`, `Wrapped`, `Scrolled` follow `term.c`; characters are the ones the
parser and the texts tell apart.

| state | in the code |
|---|---|
| `log_buff`, `log_start`, `log_end`, `log_lock`, `panic_lock` | of the same name; the 16-bit indices wrap at `KLOG_BUFF_LEN` |
| `timer` | the handler in the idt: the context switch, or `halt` |
| `term`, `front` | terminal and back buffer; the framebuffer |
| `cpu[c]` | which job the cpu does, where in it, and the locals |
| `saved` | `klogdisplayd` while no cpu runs it |
| `logged` | history: all characters that were logged |

`Call`, `LockLog`, `putch`, `Logged` are the log functions, a character at a
time; `TermClear`, `Scan`, `PrintNext`, `Printed`, `fb_swap_buffers` are
`klogdisplayd` and, without the lock, `klog_show_now`; `EnterPanic`, `LockPanic`,
`apic_timer_set_handler`, `pit_wait`, `NextText` are `kernel_panic`. `Preempt`
and `Resume` move the display task between cpus, `halt` is the timer interrupt
after a panic. `pit_wait`'s 10 ms against a time slice of 2 ms are `Quiet`: by
then every cpu with interrupts on has been interrupted, and one that could have
`log_lock` has it. A fault inside of `klog.c` is left out.

`TextsAssumption` is about what is logged. The ring drops the oldest characters
wherever they are, in an escape sequence too, so a text must be `Closed`: however
much of its beginning is lost, it ends outside of any escape sequence and in the
default colours, and it does not end by clearing the screen. The tags of `klog`
(`klog.c:185`, `klog.h:24`) are so: each colour is taken back before the text
ends. The texts of a panic are so only together: `panic.c:70` sets a colour that
`panic.c:75` takes back, hence `PanicText`. Strings that callers format into a
text, such as the names of the files that `kinit` logs (`kmain.c:36`), are taken
to have no escape sequences of their own.

## 3. Runs

| run | instance | shows |
|---|---|---|
| `tree` | two cpus, the tasks the tree really starts, fairness | nobody starves, sleepers wake and not early, `kinit`'s memory comes back |
| `uni` | one cpu from `sched_init` on, all calls, three sleepers | the sleeping queue is sorted and exact, both queues are sequences, nobody oversleeps, no use after free |
| `api` | two cpus, uncoordinated callers, tids used up | `TypeOK`; no task on two cpus; the inductive invariant; two cpus on one stack only in a switch; the dead queue is exact; a task that was added stays in the table, unless a lower tid is added after it |
| `spin` | three cpus, six contexts | exclusion, no deadlock with the handler, flags restored, the lock is always released, refinement of `Mutex` |
| `heap` | one process, 12 pages with two holes, sizes 0 to 2 pages | the free pages are exactly those in no block and are counted, no block is outside memory, the panic is true |
| `kernel` | three machines (four cpus, one dead and one slow; more lapic records than `CPU_MAX`, the bsp not first, one disabled; one cpu), tables of two entries, 91 pages; an initrd of five records, two of which fail; one client on the one-cpu machine, up to four nodes and two handles, files of up to two bytes | arguments are each ap's own, the boot ends with exactly the live cpus, page tables implement the map and are given back, no page is lost, the boot information is intact when it is read, the initrd is unpacked as far as its records can be, names, counts, contents and gaps are as the calls made them |
| `console` | two cpus, a ring of 16 characters, a screen of 6 by 2, two log calls of texts with lines, tabs and colours, panics in colour of both cpus at any moment | the ring and every frame are the end of the log, one cpu draws at a time, what is logged is shown, a panic is shown and nothing after it |
| `kill`, `current`, `heap_race`, `unmap`, `paths` | smallest that shows it | the findings of section 6 |

Why the bounds are enough. In `tree` the two cpus, four proper tasks and the
idle tasks give every combination of who runs where; more tasks of the same kind
only lengthen the scan. `uni` has three sleepers with different and with equal
wake-up times, so that an insertion goes to the front, the middle and the back
and a wake-up frees more than one; a new sleeper can be inserted before and
after a wake-up. `api` lets two tasks be between `task_make` and `sched_add` at
once, lets a killed task be current on the other cpu, and runs into `TID_MAX`.
`spin` has a cpu that waits while two others
pass the lock on. `heap` has two holes, a byte boundary inside a run, and
blocks of one to three pages that fill, fragment and exhaust the memory.
`kernel`: tables of two entries make a page the first or the last of its table at
every level, and mapping three low pages creates and frees tables at each;
three aps follow one another with a dead and a slow one among them, in both
orders. The bootloader's structures are above all memory, and there are pages
enough for what is allocated before `kinit` reads them. The archive has a file,
a folder of the same name, a file in that folder, which can neither be created
nor opened, and the first file once more with two bytes, so that the write of a
record that could not be created finds an old file. Two bytes are enough for a
file to be appended to, to grow past its allocation, to be overwritten in part
and to be written behind its end. Clients call on the machine with one cpu only
(`ClientCpus`), since the vfs does not read what the aps change; four nodes and
four paths give links to files and folders, a mount, names in two folders, and
paths with a missing middle name. The constraint `NamesOrContents` keeps the
number of states down: after the unpacking a handle is moved from where
`vfs_open` put it only while the names are those of the archive, and names
change only while no handle has moved. Which bytes a file has does not depend on
its names, and which names there are does not depend on positions; links,
unlinks and mounts are interleaved with open handles, and reads, writes and
seeks with one another. `console`: the log outgrows the ring and the screen,
which loses the beginning of lines and of colours, texts wrap at the end of a
line, a panic's colour spans its texts, the second cpu may be in any step when
the first panics, and both may panic.

Deadlock is not checked where the system may really stop: after a fault or
the panic for want of memory (`api`, `heap`, `heap_race`), after a trap
(`kernel`), and when every cpu is halted after a panic (`console`).

Precondition of `BlocksAreMemory`: the end of the memory map is a multiple of
eight pages, and its last page is not memory of the allocator. That is how
firmware lays out a PC, with the ROM below 4 GiB or a reserved range at the top,
but `pmm.c` does not check it.

## 4. Fairness

*Sched.* A cpu inside the kernel has interrupts off and goes on: weak fairness
of the loops and the last steps of a switch (`InKernel`). The timer of a cpu is
armed by each switch and its interrupt waits for `sched_lock`, which others may
get first again and again, but which is held for microseconds only: strong
fairness of `SwitchBegin`. The janitor is strongly fair: it gets its slice again
and again, and its code cannot be stopped for good within one. The clock does
not stop: `Elapse` is strongly fair, as it is disabled while an insertion, which
takes no noticeable time, is under way. Nothing is assumed of the other tasks:
they need not call anything.

*SpinLock.* Only that a context which has the lock goes on (`PopToRflags` and
`lock_release`). No one need call `lock_wait`, and a waiter may lose every race:
the lock is not fair, and no property says it is.

*Kmain.* The bsp executes, and so does each ap that got its ipi: weak fairness
of `smp_init` and of each `ap_boot`. A slow ap is one for which the polls may run
out, not one that stops.

*Console.* Cpus execute: weak fairness of whatever has been begun, a log call, a
frame or a panic, and none of beginning one. `klogdisplayd` has the highest
priority number but the scheduler reads none: like every ready task it gets its
turn again and again (`ReadyRuns`), hence strong fairness of `Resume` and of its
steps. A timer interrupt that is pending comes when interrupts are on, however
shortly: strong fairness of `halt`.

## 5. Proofs

Each theorem holds for every value of the constants that its hypotheses admit:
any number of cpus, tasks, pages, any length of a list or of the ring.
`PROJECT.json` lists the theorems, with the property of a run each one states.

| module | about | inductive invariant | hypotheses beside the modules' assumptions |
|---|---|---|---|
| `SchedProofs` | who runs where, and on which stack | `TypeOK`, `SchedInv`, `OnOwnStack` | none |
| `SchedProofs` | sleepers, the dead, the two queues | `UseInv`, `QueueInv` | none for `NoEarlyWake`; `NoSleeperKilled`; one cpu for `FreedIsUnused` |
| `SchedProofs` | the queues refine `SeqQueue` | the same | `NoSleeperKilled` |
| `SchedProofs` | `sched_init` ends where `Sched` begins | `BootInv` | one cpu |
| `TaskQueueProofs` | the operations of `tqueue.c` on a list | (operators) | none |
| `SpinLockProofs` | `lock_wait`, `lock_release` | `Inv` | none |
| `HeapProofs` | `pmm.c` and `kmalloc.c` | `SearchInv`, `ShareInv`, `AccountInv` | `OneProc`; `LastByteFull`; `TopIsNoMemory` |
| `PageTableProofs` | `map_page`, `unmap_page`, `pmm_get` on a tree of tables | (operators) | none |
| `BootProofs` | page tables, the aps' arguments, the memory | `BootInv` | none |
| `BootProofs` | the bootloader's structures | `InfoInv` beside it | `RoomBelow` |
| `VfsProofs` | counts, tree, files, paths and names of the vfs | `VfsInv`, `UnpackInv` | none |
| `VfsProofs` | the initrd | `RecordsInv` beside them | `ParentsFirst` |
| `ConsoleProofs` | the ring, who draws | `RingInv`, `DrawInv` | none for the ring; `AtMostTwo` for drawing |
| `ConsoleProofs` | what a frame shows | `TextInv`, `FrameInv` beside them | `AtMostTwo`, `term_height > 1` |

### 5.1 Scheduler

`SchedProofs`, for any set of cpus, any `TID_MAX` and any calls, from
`SchedAssumption` (tids of the boot tasks are distinct and in range) and
`UsageAssumption` (idle tasks and the janitor call nothing else):

* `TypesHold`: `Spec => []TypeOK`. Type correctness is not inductive by itself:
  `data[n] = n` in `sched_add` is in range only for a tid that was given out.
* `InvariantHolds`: `Spec => []SchedInv`. The strengthening has four parts
  beside `OneCpuPerTask`. `LockHeld`: `sched_lock` is held exactly by the cpu
  in a locked loop. `RunningMarked`: a task that occupies a cpu carries
  `RUNNING`, or is that cpu's idle task, or the cpu is in its wake loop having
  just cleared the mark. `IdleUnlisted`: no idle task is in `tasks_all`.
  `TidsGivenOut` and `Locals`: a tid in a table or a local variable was given
  out. Two cpus in `Choose` exclude each other by `LockHeld`, the one chosen is
  ready, hence by `RunningMarked` on no cpu.
* `NoTaskRunsTwice`: `Spec => []OneCpuPerTask`, from it.
* `StacksAreShared`: `Spec => []StacksSharedInSwitch`. The extra invariant,
  `OnOwnStack`, is that a cpu is on the stack of its current task except between
  the choice and `finish_context_switch`; as no task is current twice, two cpus
  on one stack include one in that window. It says that the window at
  `sched.c:125` is the only one; that it is one is in section 7.

For the queues there are two more layers on top of `SchedInv`.

* `UseInv` says what tasks can be doing and holds whoever calls what. `Listed`:
  a slot of `tasks_all` holds the task of its number, and no killed one. `Made`:
  a task between `task_make` and `sched_add` is known to its maker only.
  `Marks`: only a task that sleeps at times has a wake-up time, and only one
  that somebody kills is dead. `Awake`: a task whose time is not over executes
  nothing but the end of its `sched_sleep`. From it, `NoEarlyWake`: `Spec =>
  []SleepsLongEnough`, even if kills have broken the queues.
* `QueueInv` says that there are sequences `s` and `d` which the two queues
  represent: `SleepList` (exactly the sleepers but the one being inserted, in
  the order of their wake-up times; and while a task is inserted, `cursor` is in
  `s`, everything it passed wakes later, and something in front of it wakes
  sooner, so that the walk ends) and `DeadList` (exactly the killed tasks that
  are not freed). The links are shared by both queues: each step on one must be
  shown to leave the other's links alone, which is where the sequences being
  disjoint comes in. The lemmas of `TaskQueueProofs` say what a step does to a
  sequence.
* From it `SleepersSorted`, `DeadAreQueued`, `WakesAllDue`; and, on one cpu,
  `FreedIsUnused`: the janitor frees only killed tasks, while it runs itself.

`NoSleeperKilled` says that no task that sleeps at times is the target of a
`sched_kill`. The tree is used so: `kinit` kills itself and nothing else is
killed. Without it `QueueInv` is false; that is the finding of `kill`. With two
cpus `NoUseAfterFree` is false: a cpu may still be on the stack of the task it
leaves when another cpu's janitor frees it (section 7).

`ListsImplementSequences`: `Spec => QueuesAreSequences`, each of the two lists
implements `SeqQueue` under the mapping `Contents`. The proof is step by step:
initial states map to the empty sequence (`QueuesStartEmpty`), and every step of
the scheduler does to one of the two one operation of `SeqQueue`, or stutters.
`QueuesMove`, which is proved of every step beside the invariant, is what it
needs. It refers to the queues by the sequence itself; `ContentsOfList`
of `TaskQueueProofs` shows that `Contents`, a walk along `next`, returns that
sequence. The walk is a recursive function on an interval; the argument that it
is the function meant takes the least place where two such functions differ
(`LeastOf`, from the well-founded order on finite sets), since the induction
theorems of the library cannot be instantiated.

`BootIsInit`: on a machine with one cpu `BootSpec => BootReachesInit`. `BootInv`
says that the cpu has done exactly the steps of `sched_init` before the one it is
at (`Alone`), so that no call and no interrupt comes in between
(`NothingElse`), and that it is in `SchedInv` ever after. So what is proved of
`Sched!Spec` is true of that machine from the return of `sched_init` on. With
more cpus `Init` is not where the boot ends, as the first cpus schedule while the
last one is at it, and may find its idle task listed for a moment (section 7).

### 5.2 Task queue

`TaskQueueProofs`, for a list of any length: `PushFrontRepresents`,
`PopBackRepresents`, `InsertAfterRepresents`, `RemoveRepresents` (for lists of
at least two), `ContentsOfList`, and `RemoveKeepsLastTask`, which states the
cause of the finding of `kill`.

### 5.3 Locks

`SpinLockProofs`, for any set of cpus: `LockExcludes`, `HandlerNeverStuck`,
`ReleaseRestores`, `ImplementsAbstractLock`. The inductive invariant is `Inv`:
the bit is set exactly if someone is between `btsl` and `btrl` (`BitIsOwner`),
at most one is (`MutualExclusion`), whoever is past the `cli` has interrupts off
(`Masked`), and the flags saved at entry are where the next instruction will
look for them: on the stack before `pop`, in `rflags` while the lock is held, on
the stack again before `popfq` (`FlagsKept`). The last part is what makes the
shared field `rflags` safe. The refinement maps `holder` to the context between
the two bit instructions.

### 5.4 Allocators

`HeapProofs` is about one process (`OneProc`): two break `NoSharing`, which is
the finding of `heap_race`. There are three layers.

* `SearchInv`: in `pmm_get` no run before `cand` is free and the run at `cand`
  is free as far as it was looked at; in the marking and freeing loops the run
  is within the bitmap, and the byte in the register is the byte in memory.
  Hence `PanicMeansFull`, for every memory map.
* `ShareInv`: the header of a block is its size, none of its pages is free, the
  run in the hands of the process is in no block, and the bootloader's memory is
  nobody's before it is reclaimed. Hence `NoPageTwice`. It needs `LastByteFull`,
  that the memory map ends on a byte of the bitmap: otherwise `Garbage` bits,
  which `pmm_init` does not clear, may be in the bootloader's memory, which is
  then freed a second time.
* `AccountInv`: the free bits are the memory that is in no block and not in the
  process's hands (`Taken`), and `free_mem` counts the memory in no block but
  that which the process has still to add or to subtract (`Missing`). Hence
  `BlocksInMemory` and `NoLeak`. They need `TopIsNoMemory` too, that the page of
  the last bit is not memory: `pmm_get` checks the first page of a run against
  the end of memory only, and a run that begins on the last one ends in bits
  behind the bitmap.

### 5.5 The vfs

`VfsProofs` is about `VfsSpec`: any initrd, any paths, any numbers of nodes,
handles and tasks, after and during the unpacking. `KernelUsesVfs` of `BootProofs`
shows that the vfs of the booting kernel does nothing else: `KmainSpec =>
VfsSpec`. The assumption (`VfsAssumption`) says only what a path and a record of
the initrd are. There is one lemma for each call. The inductive invariant
`VfsInv` has four parts:

* `VfsTypeOK`: the types (`VfsTypes`). It is not inductive by itself, as a
  freed node must not be looked at.
* `TreeInv`: a folder lists exactly the tnodes that name it as their parent,
  each once and under different names; tnodes point at inodes that are there;
  and a folder with entries can be entered and has a name itself. That last
  clause is more than `TreeConsistent` says: it is why `path_to_node` can enter
  whatever folder `Names` has an entry of, and why a folder that was unlinked
  while it was open holds no names that no path reaches.
* `CountInv`: an inode's `refcount` is the number of its names (`Named`) and of
  its handles (`Held`). When `unlink` lets it drop to 0, both sets are
  empty, so no pointer to the freed inode is left; when `vfs_mount` finds a
  count of 1, the name it mounts over is the only one. `TreeInv` is not inductive
  without it, and it needs `TreeInv` for the count of a new node to be 1.
* `FileInv`: the bytes that were written to a file are within its size and its
  allocation, and its last byte was written.

`UnpackInv` is added for `kinit`, which writes to its last handle: it has one
when it does. From these `RefcountsExact`, `TreeIsConsistent` and
`FilesAreWritten`.

`PathsAreResolved` is about paths of any length: those that lead somewhere, and
those of which the last name only is missing. (Of others it would be false: that
is the finding of `paths`.) `Walked` and `NS!Resolve` are
functions defined by recursion on the number of names; that such a function
exists (`Iterated` of `TaskQueueProofs`) and that the two agree as long as the
names lead anywhere (`WalkFollows`) are inductions along the path. They are done
on the set of the numbers for which the claim holds (`UpTo`), by its least
missing element, because the induction theorems of the library cannot be
instantiated.

`NamesAreFollowed`: `VfsSpec => NamesFollow`, the tree implements `Namespace`.
`Names` picks a tnode for each entry with a `CHOOSE`; `NamesInv` says that there
is only one to pick, and that entries are in folders that are not empty. Then
`vfs_create` and `vfs_link` are `Enter`, `vfs_unlink` is `Remove`, `vfs_mount` is
`Mount`, or a stutter when it mounts over the root, which has no entry; every
other step leaves the tnodes alone.

`InitrdIsUnpacked` is for any initrd with `ParentsFirst`: a record lies in the
root or in a folder that came before it, which is the order in which
`initrd_helper` follows the archive. Records may fail: two may have one path, one
may lie in what an earlier one made a file. `RecordsInv` says after every call of
`kinit`'s what has been done with the records before this one: each leads
somewhere or a file stands in its path (`Reached`), a file has its bytes
(`HasBytes`), and every node is one of theirs (`Recorded`); the file it is at is
open, and nothing else (`KinitHolds`). Three facts carry it. A path leads where
its last name leads from where the others do (`ResolveInv`), so a name that is
entered does not change where the paths lead that led somewhere before
(`ResolvedKept`), and a file in the way stays in the way. `path_to_node` stops in
the folder that the names before the last one lead to, if they lead anywhere
(`CreatesThere`). And if they do not, since a file blocks them, the walk is stuck
at that file and nothing is found or created, at this place or another.

A call that sets `trap` changes nothing else, so the theorems hold of the states
after it too, where they say nothing of the code.

### 5.6 The boot: page tables, arguments, memory

`PageTableProofs` is about the operators, for any `Width` and any free pages. A
tree of tables is given by its levels: `S[0]` is the root, `S[l]` the tables
that the entries of level `l-1` point at. `Shape` says that the levels are
disjoint, that no two entries point at the same table, that no table is free and
none is empty but those in a set `E`: `map_page` makes empty tables on its way
down and `unmap_page` leaves them on its way up, one at a time. Three lemmas say
what a step does to the tree: `AddTable`, `WriteLeaf`, `RemoveTable`; three say
what it does to the walks of all the other pages: `AddedWalk`, `WrittenWalk`
(two walks that use the same entry of the last level are for the same page, as a
page number is its four digits: `IndexInjective`, `SameLeaf`), `RemovedWalk`.
They give `MapPage` and `UnmapPage`: one page is mapped or taken out, the others
are as they were, it is a tree again, and tables and free pages together are the
same pages as before. `TreeIsProper` ties the levels to `ProperTables`.

`BootProofs` is about `KmainSpec`, for any MADT, any number of cpus, any layout
and any sizes. Beside the types of the constants it uses that the MADT lists a
processor once (`FirmwareAssumption`; with a lapic listed twice the second init
IPI would reset a cpu that is up), that the three maps are apart
(`LayoutAssumption`; in the code they are, by their addresses), that the root is
a block of `Memory` (`RootAssumption`: `vmm_init` has it from `kmalloc`), and
that the entries of the memory map do not overlap (`KmainAssumption`). The
inductive invariant `BootInv` has eight parts:

* `BootTypes`, the types.
* `LapicsListed`: the table holds different processors of the MADT.
* `BspPlace`: where the bsp is, its counters are in range; there is an entry of
  the cpu table for the lapic it is at, and `lapic_id` in it says so.
* `ApsWait`: an ap whose turn has not come is off and not given up. So the ap
  that the bsp resets is one that never ran.
* `Translations`: what is mapped while the bsp is at its place (`Expected`).
* `MemSound`: the tables are a tree in pages of `Memory`, apart from the stack
  the bsp is handing over, which it may yet give back, and from the blocks of the
  heap.
* `KinitSound`: where `kinit` is, and that the handle's block it will free is one
  it was given.
* While no ap is late, `OnTime`, which has four parts itself.
  `OnlyCurrentReads`: only the ap that is being started is between its IPI and
  the increment. `CounterTells`: the counter differs from `counter_prev` exactly
  if that ap has read both words. `ArgsPassed`: the words are its arguments
  until then, and every ap before it has those that were meant for it. `Apart`:
  root, stacks and the blocks of the heap do not overlap, hold no table and no
  free page, and are with these all the memory the kernel was given.

The first seven hold whatever the aps do; an ap never stops being late
(`LateStays`), so `OnTime` can be assumed of the state before a step. From
`BootInv` follow `BootIsTyped`; `ArgumentsAreOwn`, from `ArgsPassed` and `Apart`;
`TablesAreProper`; `MemoryIsAccounted`, where that blocks do not overlap becomes
that there are two pages for each (`PagesOfBlocks`); and `PagesAreMapped`, the
refinement of `AddressSpace`, from `Translations` before and after a step. That
no ap faults (`TrampolineFault`) before `OnlyCurrentReads` fails is part of it:
the low megabyte is mapped as long as an ap can need it.

`BootInfoSurvives` is about `kinit` reading what `kmain` has freed before
(`kmain.c:82`), for the tag and again for the size of the module
(`initrd.c:52`). It has a hypothesis on the memory, `RoomBelow`: when `smp_init` is
done, there is a pair of free pages below the bootloader's structure for each
block that may still be taken (`Needed`): up to three for each ap that the bsp
has woken, its gdt, `task_t` and stack; six in `sched_init`, and the table of
tasks; two for `klogdisplayd`; and seven for each record of the initrd, four to
create it, two to open it and one to write it. On a PC these are a few out of
some hundred megabytes; the machines of `kernel` have the room too. `InfoInv`
says that there are as many pairs as blocks are `Needed`, from then on. A block
is taken from the lowest pair, which has pages in common with one pair at most
(`LowestPair`); so the pairs last as long as the blocks. A block that is given
back takes no pair away. It holds whether or not an ap is late.

### 5.7 Console

`ConsoleProofs`: `RingInv` says how many characters the ring holds and that each
is the one logged at its place, which is more than `RingHoldsTail`, as it has to
say what is where after the indices wrap; `RingKept` holds for any number of
cpus and any length, from `log_lock` being held around each character.

`NobodyDrawsOver` is for at most two cpus (`AtMostTwo`); section 7 says why three
are too many. `DrawInv` follows `klogdisplayd` on the one cpu through the stages
of the panic on the other: it is displaced, or has halted, by the time
`pit_wait` is over, because interrupts are on wherever it draws.

`FramesAreTails`: with at most two cpus and a screen of more than one line,
`Spec => []FrameIsTail`, for a ring and a log of any length and any closed texts.
What is drawn is a fold over characters that a scan of the ring picks, on a
terminal that keeps its parser and its colours from one frame to the next. The
argument has three parts.

* `TextInv` says that the log is closed whenever somebody can show it. A text is
  closed together with what was logged before it (`ClosedJoined`); the exception
  is the texts of a panic, which are closed only when the last one is written.
  So for the cpu that panics `Behind` counts the texts it has written, after a
  closed log (`PanicLogged`). Between two of them no other cpu logs or shows
  anything: all have stopped (`Quieted`), or the first text is still to come.
* `FrameInv` follows the two loops of `show`: the scan is `visible` characters
  from the end, the terminal is the drawing of the first `j` of them, and the
  next one is at `i`. Other cpus change neither, as they do not draw (`DrawInv`)
  and do not log while `log_lock` is held or they are stopped. Between frames
  the parser is in its initial mode, since the last frame was that of a closed
  log: so clearing the screen gives `term_init`, whatever was there.
* `LastShows`: the last character of a closed log is drawn in the cell before the
  cursor, if it is one that is drawn. Closedness excludes that the parser takes it
  for the end of an escape sequence, and `term_height > 1` that the line feed of a
  full line scrolls it away.

What the parser does next depends on its `Mode` only, not on the screen. That the
fold over a sequence exists and what it is at each place (`DrawingIs`) are
inductions by `Iterated` and `UpTo`, as those of the vfs.

### 5.8 Only model-checked

All liveness (`ReadyRuns`, `SleepersWake`, `DeadReclaimed`, `LockIsReleased`,
`CountedComeUp`, `PanicShown`, `LogShown`), which is out of the prover's reach;
`AddedStaysListed`; and `GapsAreSought`. Every other invariant or action property
of a passing run is stated by a theorem as well; where it holds for some
memories, machines or callers only, the hypothesis is in the table above.

## 6. Where code and words disagree

| run | property | what happens |
|---|---|---|
| `kill` | `KilledLeavesSleepQueue` | `sched.c:166` "if it was sleeping, remove it from the sleeping list": a killed task that was the only sleeper stays at both ends of the queue |
| `current` | `CurrentIsCaller` | `sched.c:249` "get currently running task data": a caller that is moved to another cpu between the two loads gets another task's data; every vfs call on a handle asks |
| `heap_race` | `NoSharing` | `pmm.c:51` "marks pages as used, returns true if success": two cpus both succeed for the same pages |
| `unmap` | `NoneLost` | `smp.c:160` "identity mapping is no longer needed": an ap that has counted itself is still to read the entry point there |
| `paths` | `FoundIsThere` | `common.c:106` creates only the last name and `:116` says "doesn't exist": a missing name in the middle of a path is skipped, and `/x/b` finds or makes `/b` |

`kill` and `paths` happen on one cpu; the others need two.

## 7. Seen while modelling, and where the models stop

These are not runs of their own; the models exclude them by the assumption or
the trap that is named, or have them and no property forbids them.

* The old stack (`sched.c:125`, of which the TODO at 124 asks): after
  `lock_release` a cpu executes on the stack of the task it leaves until
  `finish_context_switch` has loaded `rsp`. That task is ready by then, and another
  cpu may run it on the same stack, or, if it was killed, free it. `Sched` has
  these steps; `StacksSharedInSwitch` says what is left.
* tids out of order (`sched.c:244`): `task_make` gives out tids without the lock
  and `sched_add` sets the vector's `len` to the tid plus 1. If the lower one of two
  comes last, the other task is behind the end of the table and never scheduled.
  `Sched` has these steps; `AddedStaysListed` says what is left.
* An idle task in the table (`sched.c:266`): `sched_init` lists it under the lock
  and takes it out without it. A cpu that already schedules may choose it in
  between, though `sched.c:262` wants to prevent that; `tasks_running` of two cpus
  then names the same task. `SchedBoot` has these steps; the runs have one cpu in
  `sched_init`, or begin after it.
* A late ap (`Slow`): it runs on the stack the bsp has freed and reads whatever
  arguments are there; its increment makes the bsp take the next ap for started
  (`smp.c:138`). `SmpBoot` has these steps; the properties are about runs with
  `Late = {}`.
* Three cpus and a panic: one that spins on `log_lock` with interrupts off may
  outlast `pit_wait(10)`, and `klogdisplayd` on the third draws together with
  `klog_show_now`. `panic.c:66` hopes to "wait for some time for cores to stop".
  `DrawsAlone` is checked with two cpus.
* A fault inside `klog.c`, with `log_lock` held: `kernel_panic` waits for it for
  ever.
* The boot information survives only because `pmm_get` gives out the lowest
  pages first (`BootInfoIntact`); `kmain.c:81` says it is not needed any more.
* Traps of `Vfs`: `vfs_link` across mountpoints frees a tnode its folder still
  lists (`link.c:24`); `vfs_unlink("/")` follows the null parent; `vfs_mount`
  frees an inode that handles or other names refer to (`misc.c:69`); reading
  from behind the end wraps the length, and `ramfs_read` copies that many bytes
  (`readwrite.c:23`); reading or writing a folder follows a null pointer.
* An inode that is unlinked while open is never freed: `vfs_close` only
  decrements the count (`openclose.c:50`). `Vfs` keeps such inodes, and no
  property is about them.
* `cparams` of the terminal has ten places and no guard (`term.c:53`); the texts
  of the tree use two.
* `vec_erase` (`vector.h:40`) copies `sizeof * len - index - 1` bytes, more than
  are behind the element. In a folder of less than 270 entries that stays within
  the page `kmalloc` gave; `vfs_unlink` is modelled, and `VfsProofs` speaks, of
  such folders.
* The MADT's table of I/O APICs takes a third although `madt.c:44` says "we
  support only 2"; it has four places and no reader.

## 8. Not modelled

Register programming and pure output (cpu features, HPET and PIT programming,
serial port), the system call stub, the symbol table, the string and memory
helpers: no state a property could relate. `ttyfs` is registered nowhere and
nothing fills its input ring. `lock_try` and `rwlock_t` have no user in the
tree. `vfs_chmod` sets permissions that nothing reads. The I/O APIC records, the
log's formatting, page flags and `invlpg` (section 2.6) are left out of the
components that have them. The apic timer's rate, computed in 32 bits
(`timer.c:84`), is not modelled: a time slice is an interrupt that comes.

## 9. Plan

What is left:

* `NobodyDrawsOver` for three cpus, with the precondition that a cpu that waits
  for `log_lock` gets it or halts before `pit_wait` ends.
* `FreedIsUnused` for several cpus, which needs a scheduler that leaves the
  stack of a killed task before another cpu's janitor frees it (section 7).
* A model of `ttyfs` once something registers it and fills its ring.
* Liveness is out of the prover's reach and stays with the runs of section 3.

------------------------------- MODULE Sched ---------------------------------
(***************************************************************************)
(* The scheduler of src/kernel/proc/sched/sched.c at run time: the timer   *)
(* interrupt that switches tasks on every cpu, and the calls tasks make    *)
(* (sleep, kill, block, unblock, add, get_current), with the janitor that  *)
(* frees dead tasks.                                                       *)
(*                                                                         *)
(* A task is its tid; a task_t is the functions status, due, next, prev    *)
(* applied to it.  What a cpu does under sched_lock is one step, except    *)
(* the three loops (waking sleepers, inserting a sleeper, freeing the      *)
(* dead), which take a step per iteration while sched_lock is held.  What  *)
(* is done outside the lock is one step per access to shared state.        *)
(* Memory handed back to kmfree is not given out again.                    *)
(***************************************************************************)
EXTENDS Integers, TaskQueue

CONSTANTS
    CPU,            \* the processors
    TID_MAX,        \* the largest tid task_make gives out
    tasks_idle,     \* [CPU -> tid], each cpu's idle task
    FirstTask,      \* the task the bsp's sched_init was given
    Janitor,        \* the tid of sched_janitor
    Junk,           \* what a slot of tasks_all holds before its first store
    Free            \* sched_lock is free

CONSTANTS           \* what the code of the tasks does
    Naps,           \* <<t, n>>: t calls sched_sleep for n units of time
    JanitorNap,     \* the units of time of the janitor's sleep
    Kills,          \* <<t, u>>: t calls sched_kill(u)
    Blocks,         \* <<t, u>>: t calls sched_block(u) and sched_unblock(u)
    Adders,         \* the tasks that call task_add
    Askers          \* the tasks that call sched_get_current

Task == 0..TID_MAX
IdleTasks == {tasks_idle[c] : c \in CPU}

\* The tasks sched_init makes, and the last tid it was given.
BootTasks == IdleTasks \cup {FirstTask, Janitor}
LastTid == CHOOSE n \in BootTasks : BootTasks = 0..n

Time == Nat \cup {-1}
Flag == {"RUNNING", "BLOCKED", "ASLEEP", "DEAD"}
READY == {}

ASSUME SchedAssumption ==
    /\ TID_MAX \in Nat
    /\ tasks_idle \in [CPU -> Task]
    /\ \A c, d \in CPU : tasks_idle[c] = tasks_idle[d] => c = d
    /\ {FirstTask, Janitor} \subseteq Task
    /\ FirstTask # Janitor
    /\ {FirstTask, Janitor} \cap IdleTasks = {}
    /\ \E n \in BootTasks : BootTasks = 0..n
    /\ NULL \notin Task
    /\ Junk \notin Task \cup {NULL}
    /\ Free \notin CPU

ASSUME UsageAssumption ==
    /\ Naps \subseteq (Task \ (IdleTasks \cup {Janitor})) \X (Nat \ {0})
    /\ JanitorNap \in Nat \ {0}
    /\ Kills \subseteq (Task \ (IdleTasks \cup {Janitor})) \X Task
    /\ Blocks \subseteq (Task \ (IdleTasks \cup {Janitor})) \X Task
    /\ Adders \subseteq Task \ (IdleTasks \cup {Janitor})
    /\ Askers \subseteq Task \ (IdleTasks \cup {Janitor})

VARIABLES
    tasks_running,  \* [CPU -> tid]
    data, len,      \* the vector tasks_all
    tasks_asleep,   \* [front, back] of the sleeping queue
    tasks_dead,     \* [front, back] of the dead queue
    next, prev,     \* the links of the tasks
    status,         \* the status bits set
    due,            \* wakeuptime minus the current time, -1 once it is past
    curr_tid,       \* the next tid task_make gives out
    sched_lock,     \* the cpu that holds it, or Free
    mode,           \* what each cpu is doing
    cursor,         \* the i of add_sleeping_sorted's loop
    kstack,         \* the task whose kernel stack each cpu runs on
    at,             \* where each task's code is
    reg,            \* a local variable of each task
    freed           \* the tasks whose task_t and stack were freed

tables == <<data, len>>
queues == <<tasks_asleep, tasks_dead, next, prev>>
vars == <<tasks_running, data, len, tasks_asleep, tasks_dead, next, prev, status,
          due, curr_tid, sched_lock, mode, cursor, kstack, at, reg, freed>>

On(q) == [front |-> q.front, back |-> q.back, next |-> next, prev |-> prev]
Ends(h) == [front |-> h.front, back |-> h.back]
Relink(h) == /\ next' = h.next
             /\ prev' = h.prev

-----------------------------------------------------------------------------
(* sched_init has run on every cpu and no timer has expired yet.           *)
Init ==
    /\ tasks_running = tasks_idle
    /\ data = [i \in Task |-> IF i \in {FirstTask, Janitor} THEN i
                              ELSE IF i \in IdleTasks THEN NULL ELSE Junk]
    /\ len = LastTid + 1
    /\ tasks_asleep = [front |-> NULL, back |-> NULL]
    /\ tasks_dead = [front |-> NULL, back |-> NULL]
    /\ next = [t \in Task |-> NULL]
    /\ prev = [t \in Task |-> NULL]
    /\ status = [t \in Task |-> READY]
    /\ due = [t \in Task |-> -1]
    /\ curr_tid = LastTid + 1
    /\ sched_lock = Free
    /\ mode = [c \in CPU |-> "task"]
    /\ cursor = NULL
    /\ kstack = tasks_idle
    /\ at = [t \in Task |-> IF t \in BootTasks THEN "run" ELSE "none"]
    /\ reg = [t \in Task |-> NULL]
    /\ freed = {}

(* Cpu c executes the code of task t: it is on t's stack, outside the      *)
(* kernel's locked sections.  Locked: it stands at pc and sched_lock can   *)
(* be had.                                                                 *)
Executes(c, t) == /\ mode[c] = "task"
                  /\ kstack[c] = t

Locked(c, t, pc) == /\ Executes(c, t)
                    /\ at[t] = pc
                    /\ sched_lock = Free

(* A wild or null pointer is followed under sched_lock: kernel_panic halts *)
(* the cpu, which never releases the lock.                                 *)
Fault(c) == /\ mode' = [mode EXCEPT ![c] = "fault"]
            /\ sched_lock' = c

-----------------------------------------------------------------------------
(* _do_context_switch                                                      *)

\* The timer interrupt of cpu c got sched_lock.  The interrupt ends a hlt.
SwitchBegin(c) ==
    LET curr == tasks_running[c] IN
    /\ mode[c] = "task"
    /\ sched_lock = Free
    /\ sched_lock' = c
    /\ mode' = [mode EXCEPT ![c] = "wake"]
    /\ status' = [status EXCEPT ![curr] = @ \ {"RUNNING"}]
    /\ at' = [at EXCEPT ![kstack[c]] = IF @ = "hlt" THEN "run" ELSE @]
    /\ UNCHANGED <<tasks_running, tables, queues, due, curr_tid, cursor, kstack,
                   reg, freed>>

\* Mutant: the wake loop compares with <=.
Overdue_Early == tasks_asleep.back # NULL /\ due[tasks_asleep.back] <= 0

Overdue == tasks_asleep.back # NULL /\ due[tasks_asleep.back] < 0

WakeOne(c) ==
    LET t == tasks_asleep.back
        h == tq_pop_back(On(tasks_asleep))
    IN
    /\ mode[c] = "wake"
    /\ Overdue
    /\ tasks_asleep' = Ends(h)
    /\ Relink(h)
    /\ status' = [status EXCEPT ![t] = @ \ {"ASLEEP"}]
    /\ UNCHANGED <<tasks_running, tables, tasks_dead, due, curr_tid, sched_lock,
                   mode, cursor, kstack, at, reg, freed>>

\* The slots the two scans visit, and the order they do it in.  The second
\* one does not look at len.
Scanned(curr) == {i \in Task : curr < i /\ i < len} \cup 0..curr
\* Mutant: every scan starts at slot 0.
Rank_FromZero(curr, i) == i
Rank(curr, i) == IF i > curr THEN i - curr ELSE TID_MAX + 1 + i

\* Mutant: a task that is running passes for ready.
ReadySlots_Any(curr) ==
    {i \in Scanned(curr) : data[i] \in Task /\ status[data[i]] \ {"RUNNING"} = READY}

ReadySlots(curr) ==
    {i \in Scanned(curr) : data[i] \in Task /\ status[data[i]] = READY}

IsNext(c, n) ==
    LET curr == tasks_running[c] IN
    \/ /\ ReadySlots(curr) = {}
       /\ n = tasks_idle[c]
    \/ \E i \in ReadySlots(curr) :
          /\ n = data[i]
          /\ \A j \in ReadySlots(curr) : Rank(curr, i) <= Rank(curr, j)

\* Mutant: the chosen task is not marked.
MakeCurrent_Unmarked(c, n) ==
    /\ tasks_running' = [tasks_running EXCEPT ![c] = n]
    /\ UNCHANGED status

\* "We've chosen next task".
MakeCurrent(c, n) ==
    /\ status' = [status EXCEPT ![n] = @ \cup {"RUNNING"}]
    /\ tasks_running' = [tasks_running EXCEPT ![c] = n]

\* From "choose next task" to lock_release.
Choose(c) ==
    /\ mode[c] = "wake"
    /\ ~Overdue
    /\ \E n \in Task :
          /\ IsNext(c, n)
          /\ MakeCurrent(c, n)
    /\ mode' = [mode EXCEPT ![c] = "switch"]
    /\ sched_lock' = Free
    /\ UNCHANGED <<tables, queues, due, curr_tid, cursor, kstack, at, reg, freed>>

\* A slot that was never stored to is met before a ready task: it may hold
\* zeroes, and be passed over as in Choose, or a wild pointer.
ChooseJunk(c) ==
    LET curr == tasks_running[c] IN
    /\ mode[c] = "wake"
    /\ ~Overdue
    /\ \E j \in Scanned(curr) :
          /\ data[j] = Junk
          /\ \A i \in ReadySlots(curr) : Rank(curr, j) < Rank(curr, i)
    /\ Fault(c)
    /\ UNCHANGED <<tasks_running, tables, queues, status, due, curr_tid, cursor,
                   kstack, at, reg, freed>>

\* finish_context_switch: until here the cpu was on the old task's stack.
FinishSwitch(c) ==
    /\ mode[c] = "switch"
    /\ kstack' = [kstack EXCEPT ![c] = tasks_running[c]]
    /\ mode' = [mode EXCEPT ![c] = "task"]
    /\ UNCHANGED <<tasks_running, tables, queues, status, due, curr_tid, sched_lock,
                   cursor, at, reg, freed>>

-----------------------------------------------------------------------------
(* sched_sleep.  A sleep of no more than a time slice is a busy wait that  *)
(* changes nothing here, so Naps holds longer ones only.                   *)

NapOf(t) == IF t = Janitor THEN {JanitorNap}
            ELSE {n \in {nap[2] : nap \in Naps} : <<t, n>> \in Naps}
NapAt(t) == IF t = Janitor THEN "nap" ELSE "run"

SleepBegin(c, t, n) ==
    LET curr  == tasks_running[c]
        front == tasks_asleep.front
        back  == tasks_asleep.back
    IN
    /\ Locked(c, t, NapAt(t))
    /\ due' = [due EXCEPT ![curr] = n]
    /\ status' = [status EXCEPT ![curr] = @ \cup {"ASLEEP"}]
    /\ \/ /\ front = NULL
          /\ LET h == tq_push_front(On(tasks_asleep), curr) IN
                tasks_asleep' = Ends(h) /\ Relink(h)
          /\ at' = [at EXCEPT ![t] = "halting"]
          /\ UNCHANGED <<mode, sched_lock, cursor>>
       \/ /\ front # NULL /\ back # NULL
          /\ due'[back] > n
          /\ LET h == tq_insert_after(On(tasks_asleep), back, curr) IN
                tasks_asleep' = Ends(h) /\ Relink(h)
          /\ at' = [at EXCEPT ![t] = "halting"]
          /\ UNCHANGED <<mode, sched_lock, cursor>>
       \/ /\ front # NULL /\ back # NULL
          /\ ~(due'[back] > n)
          /\ mode' = [mode EXCEPT ![c] = "insert"]
          /\ sched_lock' = c
          /\ cursor' = front
          /\ UNCHANGED <<tasks_asleep, next, prev, at>>
       \/ /\ front # NULL /\ back = NULL
          /\ Fault(c)
          /\ UNCHANGED <<tasks_asleep, next, prev, at, cursor>>
    /\ UNCHANGED <<tasks_running, tables, tasks_dead, curr_tid, kstack, reg, freed>>

\* The lock_release of sched_sleep; its hlt comes next.
EndInsert(c) == /\ mode' = [mode EXCEPT ![c] = "task"]
                /\ sched_lock' = Free
                /\ at' = [at EXCEPT ![kstack[c]] = "halting"]
                /\ cursor' = NULL

\* Mutants: a sleeper that wakes at the same time is passed; the loop stops
\* at once.
StopsAt_Strict(i, t) == due[i] < due[t]
StopsAt_Front(i, t) == TRUE

\* Where the loop inserts t: in front of the first task that wakes no later.
StopsAt(i, t) == due[i] <= due[t]

\* One iteration of add_sleeping_sorted's loop.
InsertStep(c) ==
    LET t == tasks_running[c]
        i == cursor
        stop == i # NULL /\ StopsAt(i, t)
    IN
    /\ mode[c] = "insert"
    /\ \/ /\ stop /\ ~InsertFaults(On(tasks_asleep), prev[i], t)
          /\ LET h == tq_insert_after(On(tasks_asleep), prev[i], t) IN
                tasks_asleep' = Ends(h) /\ Relink(h)
          /\ EndInsert(c)
       \/ /\ stop /\ InsertFaults(On(tasks_asleep), prev[i], t)
          /\ Fault(c)
          /\ UNCHANGED <<tasks_asleep, next, prev, at, cursor>>
       \/ /\ ~stop /\ i # NULL
          /\ cursor' = next[i]
          /\ UNCHANGED <<tasks_asleep, next, prev, mode, sched_lock, at>>
       \/ /\ i = NULL
          /\ EndInsert(c)
          /\ UNCHANGED <<tasks_asleep, next, prev>>
    /\ UNCHANGED <<tasks_running, tables, tasks_dead, status, due, curr_tid,
                   kstack, reg, freed>>

\* The hlt that follows lock_release in sleep, kill and block.
Halt(c, t) ==
    /\ Executes(c, t)
    /\ at[t] = "halting"
    /\ at' = [at EXCEPT ![t] = "hlt"]
    /\ UNCHANGED <<tasks_running, tables, queues, status, due, curr_tid, sched_lock,
                   mode, cursor, kstack, reg, freed>>

-----------------------------------------------------------------------------
(* sched_kill, sched_block, sched_unblock.  A call that fails its checks   *)
(* returns -1 and changes nothing, so it has no step here.                 *)

IsTidValid(u) == u < len /\ data[u] # NULL

\* A call of t on the current task ends in a hlt before it returns.
Return(c, t, v) ==
    at' = [at EXCEPT ![t] = IF v = tasks_running[c] THEN "halting" ELSE @]

\* Mutant: the task is freed by its killer.
Bury_Now(v) == freed' = freed \cup {v}

\* "It will be cleaned up later": the janitor frees it.
Bury(v) == UNCHANGED freed

\* Mutant: the killed task stays in tasks_all.
Unlist_Forgotten(u) == UNCHANGED data
Unlist(u) == data' = [data EXCEPT ![u] = NULL]

sched_kill(c, t, u) ==
    LET v == data[u]
        killed == tq_push_front(On(tasks_dead), v)
        awake == tq_remove([front |-> tasks_asleep.front, back |-> tasks_asleep.back,
                            next |-> killed.next, prev |-> killed.prev], v)
    IN
    /\ Locked(c, t, "run")
    /\ <<t, u>> \in Kills
    /\ IsTidValid(u) /\ v # Junk
    /\ Unlist(u)
    /\ tasks_dead' = Ends(killed)
    /\ status' = [status EXCEPT ![v] = (@ \cup {"DEAD"}) \ {"ASLEEP"}]
    /\ IF "ASLEEP" \in status[v]
       THEN tasks_asleep' = Ends(awake) /\ Relink(awake)
       ELSE Relink(killed) /\ UNCHANGED tasks_asleep
    /\ Return(c, t, v)
    /\ Bury(v)
    /\ UNCHANGED <<tasks_running, len, due, curr_tid, sched_lock, mode, cursor,
                   kstack, reg>>

sched_block(c, t, u) ==
    LET v == data[u] IN
    /\ Locked(c, t, "run")
    /\ <<t, u>> \in Blocks
    /\ IsTidValid(u) /\ v # Junk
    /\ "BLOCKED" \notin status[v]
    /\ status' = [status EXCEPT ![v] = @ \cup {"BLOCKED"}]
    /\ Return(c, t, v)
    /\ UNCHANGED <<tasks_running, tables, queues, due, curr_tid, sched_lock, mode,
                   cursor, kstack, reg, freed>>

sched_unblock(c, t, u) ==
    LET v == data[u] IN
    /\ Locked(c, t, "run")
    /\ <<t, u>> \in Blocks
    /\ IsTidValid(u) /\ v # Junk
    /\ "BLOCKED" \in status[v]
    /\ status' = [status EXCEPT ![v] = @ \ {"BLOCKED"}]
    /\ UNCHANGED <<tasks_running, tables, queues, due, curr_tid, sched_lock, mode,
                   cursor, kstack, at, reg, freed>>

\* Any of the three with a tid whose slot was never stored to.
CallJunk(c, t, u) ==
    /\ Locked(c, t, "run")
    /\ <<t, u>> \in Kills \cup Blocks
    /\ u < len /\ data[u] = Junk
    /\ Fault(c)
    /\ UNCHANGED <<tasks_running, tables, queues, status, due, curr_tid, cursor,
                   kstack, at, reg, freed>>

-----------------------------------------------------------------------------
(* task_add: task_make outside any lock, then sched_add.                   *)

\* Mutant: one tid too many.
TidLeft_OneMore == curr_tid <= TID_MAX + 1

TidLeft == curr_tid <= TID_MAX

\* curr_tid goes on counting past TID_MAX in the code, where nothing more is
\* made; here it stays at TID_MAX + 1.
task_make(c, t) ==
    /\ Executes(c, t)
    /\ at[t] = "run"
    /\ t \in Adders
    /\ TidLeft
    /\ curr_tid' = curr_tid + 1
    /\ status' = [status EXCEPT ![curr_tid] = READY]
    /\ at' = [at EXCEPT ![t] = "adding"]
    /\ reg' = [reg EXCEPT ![t] = curr_tid]
    /\ UNCHANGED <<tasks_running, tables, queues, due, sched_lock, mode, cursor,
                   kstack, freed>>

\* Mutant: the table ends at the new task, not behind it.
NewLen_Short(n) == n
NewLen(n) == n + 1

sched_add(c, t) ==
    LET n == reg[t] IN
    /\ Locked(c, t, "adding")
    /\ len' = NewLen(n)
    /\ data' = [data EXCEPT ![n] = n]
    /\ at' = [at EXCEPT ![t] = "run", ![n] = "run"]
    /\ reg' = [reg EXCEPT ![t] = NULL]
    /\ UNCHANGED <<tasks_running, queues, status, due, curr_tid, sched_lock, mode,
                   cursor, kstack, freed>>

-----------------------------------------------------------------------------
(* sched_get_current takes no lock and leaves interrupts on: the cpu id is *)
(* read first, the entry of tasks_running after.                           *)

ReadCpu(c, t) ==
    /\ Executes(c, t)
    /\ at[t] = "run"
    /\ t \in Askers
    /\ at' = [at EXCEPT ![t] = "asking"]
    /\ reg' = [reg EXCEPT ![t] = c]
    /\ UNCHANGED <<tasks_running, tables, queues, status, due, curr_tid, sched_lock,
                   mode, cursor, kstack, freed>>

ReadRunning(c, t) ==
    /\ Executes(c, t)
    /\ at[t] = "asking"
    /\ at' = [at EXCEPT ![t] = "asked"]
    /\ reg' = [reg EXCEPT ![t] = tasks_running[reg[t]]]
    /\ UNCHANGED <<tasks_running, tables, queues, status, due, curr_tid, sched_lock,
                   mode, cursor, kstack, freed>>

\* The caller has used the answer.
UseCurrent(c, t) ==
    /\ Executes(c, t)
    /\ at[t] = "asked"
    /\ at' = [at EXCEPT ![t] = "run"]
    /\ reg' = [reg EXCEPT ![t] = NULL]
    /\ UNCHANGED <<tasks_running, tables, queues, status, due, curr_tid, sched_lock,
                   mode, cursor, kstack, freed>>

-----------------------------------------------------------------------------
(* sched_janitor                                                           *)

ReapBegin(c) ==
    /\ Locked(c, Janitor, "run")
    /\ sched_lock' = c
    /\ mode' = [mode EXCEPT ![c] = "reap"]
    /\ UNCHANGED <<tasks_running, tables, queues, status, due, curr_tid, cursor,
                   kstack, at, reg, freed>>

ReapOne(c) ==
    LET t == tasks_dead.back
        h == tq_pop_back(On(tasks_dead))
    IN
    /\ mode[c] = "reap"
    /\ t # NULL
    /\ tasks_dead' = Ends(h)
    /\ Relink(h)
    /\ data' = [data EXCEPT ![t] = NULL]
    /\ freed' = freed \cup {t}
    /\ UNCHANGED <<tasks_running, len, tasks_asleep, status, due, curr_tid,
                   sched_lock, mode, cursor, kstack, at, reg>>

\* Mutant: the janitor keeps sched_lock when it goes to sleep.
LeaveReap_Locked(c) == /\ mode' = [mode EXCEPT ![c] = "task"]
                       /\ UNCHANGED sched_lock
LeaveReap(c) == /\ mode' = [mode EXCEPT ![c] = "task"]
                /\ sched_lock' = Free

ReapEnd(c) ==
    /\ mode[c] = "reap"
    /\ tasks_dead.back = NULL
    /\ LeaveReap(c)
    /\ at' = [at EXCEPT ![Janitor] = "nap"]
    /\ UNCHANGED <<tasks_running, tables, queues, status, due, curr_tid, cursor,
                   kstack, reg, freed>>

-----------------------------------------------------------------------------
\* A unit of time, longer than a time slice: no insertion takes that long,
\* and the comparisons it makes are between times, not with the clock.
Elapse ==
    /\ \E t \in Task : due[t] > -1
    /\ \A c \in CPU : mode[c] # "insert"
    /\ due' = [t \in Task |-> IF due[t] > -1 THEN due[t] - 1 ELSE -1]
    /\ UNCHANGED <<tasks_running, tables, queues, status, curr_tid, sched_lock,
                   mode, cursor, kstack, at, reg, freed>>

Switch(c) == \/ SwitchBegin(c)
             \/ WakeOne(c)
             \/ Choose(c)
             \/ ChooseJunk(c)
             \/ FinishSwitch(c)

Reap(c) == ReapBegin(c) \/ ReapOne(c) \/ ReapEnd(c)

Call(c, t) == \/ \E n \in NapOf(t) : SleepBegin(c, t, n)
              \/ Halt(c, t)
              \/ \E u \in Task : \/ sched_kill(c, t, u)
                                 \/ sched_block(c, t, u)
                                 \/ sched_unblock(c, t, u)
                                 \/ CallJunk(c, t, u)
              \/ task_make(c, t)
              \/ sched_add(c, t)
              \/ ReadCpu(c, t)
              \/ ReadRunning(c, t)
              \/ UseCurrent(c, t)

Next == \/ \E c \in CPU : Switch(c) \/ InsertStep(c) \/ Reap(c)
        \/ \E c \in CPU, t \in Task : Call(c, t)
        \/ Elapse

Spec == Init /\ [][Next]_vars

-----------------------------------------------------------------------------
TypeOK ==
    /\ tasks_running \in [CPU -> Task]
    /\ data \in [Task -> Task \cup {NULL, Junk}]
    /\ len \in 0..TID_MAX+1
    /\ tasks_asleep \in [front: Task \cup {NULL}, back: Task \cup {NULL}]
    /\ tasks_dead \in [front: Task \cup {NULL}, back: Task \cup {NULL}]
    /\ next \in [Task -> Task \cup {NULL}]
    /\ prev \in [Task -> Task \cup {NULL}]
    /\ status \in [Task -> SUBSET Flag]
    /\ due \in [Task -> Time]
    /\ curr_tid \in 0..TID_MAX+1
    /\ sched_lock \in CPU \cup {Free}
    /\ mode \in [CPU -> {"task", "wake", "insert", "reap", "switch", "fault"}]
    /\ cursor \in Task \cup {NULL}
    /\ kstack \in [CPU -> Task]
    /\ at \in [Task -> {"none", "run", "nap", "halting", "hlt", "adding",
                        "asking", "asked"}]
    /\ reg \in [Task -> Task \cup CPU \cup {NULL}]
    /\ freed \subseteq Task

(* No task runs on two cpus at once: whatever tasks call, in whatever      *)
(* order, _do_context_switch never gives a cpu a task another cpu is on.   *)
OneCpuPerTask == \A c, d \in CPU : c # d => tasks_running[c] # tasks_running[d]

\* What OneCpuPerTask rests on.
LockHeld ==
    \A c \in CPU : (mode[c] \in {"wake", "insert", "reap", "fault"}) <=> (sched_lock = c)

RunningMarked ==
    \A c \in CPU :
        \/ tasks_running[c] = tasks_idle[c]
        \/ /\ tasks_running[c] \notin IdleTasks
           /\ mode[c] \in {"wake", "fault"} \/ "RUNNING" \in status[tasks_running[c]]

IdleUnlisted == \A i \in Task : data[i] \notin IdleTasks

TidsGivenOut ==
    /\ \A c \in CPU : tasks_idle[c] < curr_tid /\ tasks_running[c] < curr_tid
    /\ \A i \in Task : data[i] \in Task => data[i] < curr_tid

Locals ==
    \A t \in Task :
        /\ at[t] = "adding" => reg[t] \in Task \ IdleTasks /\ reg[t] < curr_tid
        /\ at[t] = "asking" => reg[t] \in CPU

(* Between two switches the scheduler relies on this: sched_lock is held   *)
(* exactly by the cpu that is inside a locked loop, a task that occupies a *)
(* cpu is marked running or is that cpu's idle task, and no idle task and  *)
(* no tid that was not given out is in tasks_all.                          *)
SchedInv == /\ LockHeld
            /\ RunningMarked
            /\ IdleUnlisted
            /\ TidsGivenOut
            /\ Locals
            /\ OneCpuPerTask

\* The tasks of a queue, and the task whose insertion is under way.
Queued(q) == {Contents(On(q))[i] : i \in 1..Len(Contents(On(q)))}
Inserting == {tasks_running[c] : c \in {d \in CPU : mode[d] = "insert"}}

(* The sleeping queue holds exactly the tasks marked asleep, the latest    *)
(* wakeup first, in a proper list: what add_sleeping_sorted, the wake loop *)
(* and sched_kill have to agree on.                                        *)
SleepQueueSorted ==
    LET s == Contents(On(tasks_asleep)) IN
    /\ Represents(On(tasks_asleep), s)
    /\ Queued(tasks_asleep) = {t \in Task : "ASLEEP" \in status[t]} \ Inserting
    /\ \A i, j \in 1..Len(s) : i < j => due[s[i]] >= due[s[j]]

(* The dead queue holds exactly the killed tasks that were not freed, once *)
(* each: none is lost to the janitor and none is freed twice.              *)
DeadQueueExact ==
    /\ Represents(On(tasks_dead), Contents(On(tasks_dead)))
    /\ Queued(tasks_dead) = {t \in Task : "DEAD" \in status[t]} \ freed

(* A task that is past its sched_sleep has slept for the whole time it     *)
(* asked for: neither the wake loop nor the hlt lets it go on early.       *)
SleepsLongEnough ==
    \A c \in CPU :
        mode[c] = "task" /\ at[kstack[c]] \in {"run", "asking", "adding"}
            => due[kstack[c]] = -1

(* When the next task is chosen no sleeper that is due is left asleep,     *)
(* although the wake loop looks at the back of the queue only.             *)
NobodyOversleeps ==
    [][\A c \in CPU : Choose(c) =>
          \A t \in Task : "ASLEEP" \in status[t] => due[t] >= 0]_vars

\* The tasks sched_add was given that were not killed since.
Added == {t \in Task : at[t] # "none" /\ "DEAD" \notin status[t]} \ IdleTasks

InTable(t) == t < len /\ data[t] = t

(* A task is where the scheduler looks for it from the moment it is added  *)
(* until it is killed, whatever the other cpus add, kill and free in the   *)
(* meantime; only a sched_add of a lower tid, made before it and added     *)
(* after it, takes it out, as that sets len back.                          *)
AddedStaysListed ==
    [][\A t \in Added' : \/ InTable(t)'
                         \/ t \in Added /\ ~InTable(t)
                         \/ \E u \in Added' \ Added : u < t]_vars

(* No cpu executes on, or has as its current task, memory the janitor gave *)
(* back to kmfree.                                                         *)
NoUseAfterFree == \A c \in CPU : {kstack[c], tasks_running[c]} \cap freed = {}

(* A task that was killed is not in the list of sleeping tasks.            *)
KilledLeavesSleepQueue ==
    \A t \in Task : "DEAD" \in status[t] => t \notin Queued(tasks_asleep)

(* Two cpus are on one kernel stack only while one of them has released    *)
(* sched_lock and not yet loaded the stack of the task it chose, which the *)
(* TODO at that line of _do_context_switch asks about.                     *)
StacksSharedInSwitch ==
    \A c, d \in CPU : c # d /\ kstack[c] = kstack[d] => "switch" \in {mode[c], mode[d]}

(* sched_get_current gives a task its own task_t.  It reads the cpu's id   *)
(* and then that cpu's entry of tasks_running, with interrupts on; between *)
(* the two the timer may move its caller to another cpu.                   *)
CurrentIsCaller == \A t \in Task : at[t] = "asked" => reg[t] = t

-----------------------------------------------------------------------------
(* Fairness.  A cpu inside the kernel has interrupts off and goes on (WF). *)
(* A timer is armed at every switch, and whoever holds sched_lock gives it *)
(* back within microseconds, so the interrupt gets the lock before long,   *)
(* although others may be served first time after time (SF); the janitor   *)
(* likewise gets on within the slices it is given (SF).  The clock does    *)
(* not stop (SF, as Elapse waits for insertions to end).                   *)
InKernel(c) == \/ WakeOne(c)
               \/ Choose(c)
               \/ FinishSwitch(c)
               \/ InsertStep(c)
               \/ ReapOne(c)
               \/ ReapEnd(c)

JanitorStep(c) == \/ ReapBegin(c)
                  \/ SleepBegin(c, Janitor, JanitorNap)
                  \/ Halt(c, Janitor)

Fairness == /\ \A c \in CPU : WF_vars(InKernel(c)) /\ SF_vars(SwitchBegin(c))
            /\ SF_vars(\E c \in CPU : JanitorStep(c))
            /\ SF_vars(Elapse)

FairSpec == Spec /\ Fairness

(* A task that is ready and listed gets a cpu, or is killed or blocked     *)
(* first: the scan that starts behind the current task starves nobody.     *)
ReadyRuns ==
    \A t \in Task \ IdleTasks :
        (t < len /\ data[t] = t /\ status[t] = READY) ~> (status[t] # READY)

(* Every task that goes to sleep is woken.                                 *)
SleepersWake == \A t \in {u \in Task : NapOf(u) # {}} :
                    "ASLEEP" \in status[t] ~> "ASLEEP" \notin status[t]

(* The memory of every killed task is given back.                          *)
DeadReclaimed == \A t \in {kill[2] : kill \in Kills} :
                    "DEAD" \in status[t] ~> t \in freed
=============================================================================

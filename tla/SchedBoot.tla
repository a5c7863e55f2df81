------------------------------ MODULE SchedBoot ------------------------------
(***************************************************************************)
(* sched_init, which every cpu calls once: an ap from smp_ap_entrypoint,   *)
(* the bsp from kmain.  A cpu that has started its timer behaves as in     *)
(* Sched while others are still at it.                                     *)
(*                                                                         *)
(* The cpus take their steps in any order.  tasks_idle, FirstTask and      *)
(* Janitor are not chosen by the code: they are the tids task_make happens *)
(* to give out, a counter outside the lock, so which values they have says *)
(* in which order the cpus got there.  The proofs are for every order.     *)
(***************************************************************************)
EXTENDS Sched

CONSTANT Bsp

ASSUME BspAssumption ==
    /\ Bsp \in CPU
    /\ tasks_idle[Bsp] < FirstTask
    /\ FirstTask < Janitor

\* mode[c] is one of these while cpu c is in sched_init.
BootStep == {"make_idle", "add_idle", "running", "unlist", "make_first", "add_first",
             "make_janitor", "add_janitor", "start"}

BootInit ==
    /\ tasks_running = [c \in CPU |-> NULL]
    /\ data = [i \in Task |-> Junk]
    /\ len = 0
    /\ tasks_asleep = [front |-> NULL, back |-> NULL]
    /\ tasks_dead = [front |-> NULL, back |-> NULL]
    /\ next = [t \in Task |-> NULL]
    /\ prev = [t \in Task |-> NULL]
    /\ status = [t \in Task |-> READY]
    /\ due = [t \in Task |-> -1]
    /\ curr_tid = 0
    /\ sched_lock = Free
    /\ mode = [c \in CPU |-> "make_idle"]
    /\ cursor = NULL
    /\ kstack = [c \in CPU |-> NULL]
    /\ at = [t \in Task |-> "none"]
    /\ reg = [t \in Task |-> NULL]
    /\ freed = {}

Advance(c, here, there) == /\ mode[c] = here
                           /\ mode' = [mode EXCEPT ![c] = there]

\* The two halves of task_add(t): task_make, and sched_add under sched_lock.
\* t is the tid this call gets: the cpu comes here when that is the next one.
Make(c, here, there, t) ==
    /\ Advance(c, here, there)
    /\ curr_tid = t
    /\ curr_tid' = t + 1
    /\ status' = [status EXCEPT ![t] = READY]
    /\ UNCHANGED <<tasks_running, tables, queues, due, sched_lock, cursor,
                   kstack, at, reg, freed>>

Add(c, here, there, t) ==
    /\ Advance(c, here, there)
    /\ sched_lock = Free
    /\ len' = NewLen(t)
    /\ data' = [data EXCEPT ![t] = t]
    /\ at' = [at EXCEPT ![t] = "run"]
    /\ UNCHANGED <<tasks_running, queues, status, due, curr_tid, sched_lock,
                   cursor, kstack, reg, freed>>

AddIdle(c) == \/ Make(c, "make_idle", "add_idle", tasks_idle[c])
              \/ Add(c, "add_idle", "running", tasks_idle[c])

\* tasks_idle and tasks_running of the cpu, without sched_lock.
SetRunning(c) ==
    /\ Advance(c, "running", "unlist")
    /\ tasks_running' = [tasks_running EXCEPT ![c] = data[tasks_idle[c]]]
    /\ UNCHANGED <<tables, queues, status, due, curr_tid, sched_lock, cursor,
                   kstack, at, reg, freed>>

\* The store of NULL to tasks_all, without sched_lock.
UnlistIdle(c) ==
    /\ Advance(c, "unlist", IF c = Bsp THEN "make_first" ELSE "start")
    /\ data' = [data EXCEPT ![tasks_idle[c]] = NULL]
    /\ UNCHANGED <<tasks_running, len, queues, status, due, curr_tid, sched_lock,
                   cursor, kstack, at, reg, freed>>

AddFirstTasks(c) == \/ Make(c, "make_first", "add_first", FirstTask)
                    \/ Add(c, "add_first", "make_janitor", FirstTask)
                    \/ Make(c, "make_janitor", "add_janitor", Janitor)
                    \/ Add(c, "add_janitor", "start", Janitor)

\* The timer is armed and interrupts are on; the boot code that called
\* sched_init is from now on the idle task.
StartTimer(c) ==
    /\ Advance(c, "start", "task")
    /\ kstack' = [kstack EXCEPT ![c] = tasks_idle[c]]
    /\ UNCHANGED <<tasks_running, tables, queues, status, due, curr_tid, sched_lock,
                   cursor, at, reg, freed>>

sched_init(c) == \/ AddIdle(c)
                 \/ SetRunning(c)
                 \/ UnlistIdle(c)
                 \/ AddFirstTasks(c)
                 \/ StartTimer(c)

BootNext == \/ \E c \in CPU : sched_init(c)
            \/ Next

BootSpec == BootInit /\ [][BootNext]_vars

-----------------------------------------------------------------------------
Booted == \A c \in CPU : mode[c] \notin BootStep

(* When the last cpu returns from sched_init the scheduler is in the state *)
(* Sched starts from: every idle task runs on its cpu and is not listed,   *)
(* the first task and the janitor are.                                     *)
BootReachesInit == [][~Booted /\ Booted' => Init']_vars
=============================================================================

------------------------------ MODULE SpinLock -------------------------------
(***************************************************************************)
(* lock_wait and lock_release of lib/atomic.h, one action per instruction. *)
(* A cpu runs two contexts: a task, and the timer interrupt's handler      *)
(* which also takes the lock (_do_context_switch).  The interrupt may come *)
(* between any two instructions at which the interrupt flag is set.        *)
(*                                                                         *)
(* The flags register is its interrupt flag.  A task that moves to another *)
(* cpu takes its stack along; here a context stays where it is.            *)
(***************************************************************************)
CONSTANTS CPU, Nobody

Context == CPU \X {"task", "irq"}

ASSUME NobodyAssumption == Nobody \notin Context

VARIABLES
    lock, rflags,   \* the lock_t
    intr,           \* each cpu's interrupt flag
    level,          \* the context each cpu executes
    pc,             \* the next instruction of each context
    pushed,         \* the flags on each context's stack
    entry           \* history: the flag when the context called lock_wait

vars == <<lock, rflags, intr, level, pc, pushed, entry>>

\* The lock is static. Interrupts are on from idt_load on, on the bsp; an ap
\* has them off until the end of smp_ap_entrypoint.
Init ==
    /\ lock = FALSE
    /\ rflags = FALSE
    /\ intr \in [CPU -> BOOLEAN]
    /\ level = [c \in CPU |-> "task"]
    /\ pc = [x \in Context |-> "out"]
    /\ pushed = [x \in Context |-> FALSE]
    /\ entry = [x \in Context |-> FALSE]

Goto(x, here, there) == /\ level[x[1]] = x[2]
                        /\ pc[x] = here
                        /\ pc' = [pc EXCEPT ![x] = there]

-----------------------------------------------------------------------------
(* lock_wait                                                               *)

Pushfq(x) ==
    /\ Goto(x, "out", "cli")
    /\ pushed' = [pushed EXCEPT ![x] = intr[x[1]]]
    /\ entry' = [entry EXCEPT ![x] = intr[x[1]]]
    /\ UNCHANGED <<lock, rflags, intr, level>>

\* Mutant: interrupts stay on.
Cli_Missing(x) ==
    /\ Goto(x, "cli", "bts")
    /\ UNCHANGED <<lock, rflags, intr, level, pushed, entry>>

Cli(x) ==
    /\ Goto(x, "cli", "bts")
    /\ intr' = [intr EXCEPT ![x[1]] = FALSE]
    /\ UNCHANGED <<lock, rflags, level, pushed, entry>>

BtsFree(x) ==
    /\ ~lock
    /\ Goto(x, "bts", "pop")
    /\ lock' = TRUE
    /\ UNCHANGED <<rflags, intr, level, pushed, entry>>

BtsTaken(x) ==
    /\ lock
    /\ Goto(x, "bts", "spin")
    /\ UNCHANGED <<lock, rflags, intr, level, pushed, entry>>

\* Mutant: a lock seen free is taken for acquired.
Spin_NoRetry(x) ==
    /\ ~lock
    /\ Goto(x, "spin", "pop")
    /\ UNCHANGED <<lock, rflags, intr, level, pushed, entry>>

\* "pause; btl; jc 1b" goes round as long as the lock is taken.
Spin(x) ==
    /\ \/ ~lock /\ Goto(x, "spin", "bts")
       \/ lock /\ Goto(x, "spin", "spin")
    /\ UNCHANGED <<lock, rflags, intr, level, pushed, entry>>

PopToRflags(x) ==
    /\ Goto(x, "pop", "in")
    /\ rflags' = pushed[x]
    /\ UNCHANGED <<lock, intr, level, pushed, entry>>

-----------------------------------------------------------------------------
(* lock_release                                                            *)

PushRflags(x) ==
    /\ Goto(x, "in", "btr")
    /\ pushed' = [pushed EXCEPT ![x] = rflags]
    /\ UNCHANGED <<lock, rflags, intr, level, entry>>

Btr(x) ==
    /\ Goto(x, "btr", "popf")
    /\ lock' = FALSE
    /\ UNCHANGED <<rflags, intr, level, pushed, entry>>

\* Mutant: the flags are read from the lock_t that is already released.
Popfq_Shared(x) ==
    /\ Goto(x, "popf", "out")
    /\ intr' = [intr EXCEPT ![x[1]] = rflags]
    /\ UNCHANGED <<lock, rflags, level, pushed, entry>>

Popfq(x) ==
    /\ Goto(x, "popf", "out")
    /\ intr' = [intr EXCEPT ![x[1]] = pushed[x]]
    /\ UNCHANGED <<lock, rflags, level, pushed, entry>>

-----------------------------------------------------------------------------
(* The cpu and its surroundings                                            *)

Interrupt(c) ==
    /\ level[c] = "task"
    /\ intr[c]
    /\ level' = [level EXCEPT ![c] = "irq"]
    /\ intr' = [intr EXCEPT ![c] = FALSE]
    /\ UNCHANGED <<lock, rflags, pc, pushed, entry>>

\* The iretq of finish_context_switch.  A task that was interrupted had
\* interrupts on, and a new task's RFLAGS_DEFAULT has them on.
Iret(c) ==
    /\ level[c] = "irq"
    /\ pc[<<c, "irq">>] = "out"
    /\ level' = [level EXCEPT ![c] = "task"]
    /\ intr' = [intr EXCEPT ![c] = TRUE]
    /\ UNCHANGED <<lock, rflags, pc, pushed, entry>>

\* The sti of smp_ap_entrypoint.
Sti(c) ==
    /\ level[c] = "task"
    /\ pc[<<c, "task">>] = "out"
    /\ intr' = [intr EXCEPT ![c] = TRUE]
    /\ UNCHANGED <<lock, rflags, level, pc, pushed, entry>>

lock_wait(x) == Pushfq(x) \/ Cli(x) \/ BtsFree(x) \/ BtsTaken(x) \/ Spin(x)
                          \/ PopToRflags(x)

lock_release(x) == PushRflags(x) \/ Btr(x) \/ Popfq(x)

Next == \/ \E x \in Context : lock_wait(x) \/ lock_release(x)
        \/ \E c \in CPU : Interrupt(c) \/ Iret(c) \/ Sti(c)

Spec == Init /\ [][Next]_vars

(* A cpu that runs a context goes on to the next instruction, and what is  *)
(* done with the lock held is finite; nobody has to call lock_wait, and    *)
(* a waiter may lose every race for the lock.                              *)
Fairness == \A x \in Context : /\ WF_vars(lock_release(x))
                               /\ WF_vars(PopToRflags(x))

FairSpec == Spec /\ Fairness

-----------------------------------------------------------------------------
Holds(x) == pc[x] \in {"pop", "in", "btr"}

(* Between the two btsl/btrl instructions is one context at most.          *)
MutualExclusion == \A x, y \in Context : Holds(x) /\ Holds(y) => x = y

(* The timer's handler never interrupts a task that has the lock, waits    *)
(* for it or still has the flags to restore: it would spin for good on a   *)
(* lock its own cpu cannot release.                                        *)
NoSelfDeadlock ==
    \A c \in CPU : level[c] = "irq" => pc[<<c, "task">>] \in {"out", "cli"}

(* lock_release leaves the interrupt flag as the matching lock_wait found  *)
(* it, although the flags were saved in the lock_t all cpus share.         *)
FlagsRestored ==
    [][\A x \in Context : Popfq(x) => intr'[x[1]] = entry[x]]_vars

(* A lock that was taken is released.                                      *)
LockIsReleased == lock ~> ~lock

holder == IF \E x \in Context : Holds(x) THEN CHOOSE x \in Context : Holds(x)
                                           ELSE Nobody

AbstractLock == INSTANCE Mutex WITH Client <- Context

(* The instruction sequence implements a lock taken in one step, which is  *)
(* what Sched takes sched_lock to be.                                      *)
ImplementsMutex == AbstractLock!Spec
=============================================================================

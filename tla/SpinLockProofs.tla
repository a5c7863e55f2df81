--------------------------- MODULE SpinLockProofs ----------------------------
(***************************************************************************)
(* What lock_wait and lock_release do, for every number of cpus.           *)
(***************************************************************************)
EXTENDS SpinLock, TLAPS

PCs == {"out", "cli", "bts", "spin", "pop", "in", "btr", "popf"}

TypeOK ==
    /\ lock \in BOOLEAN
    /\ rflags \in BOOLEAN
    /\ intr \in [CPU -> BOOLEAN]
    /\ level \in [CPU -> {"task", "irq"}]
    /\ pc \in [Context -> PCs]
    /\ pushed \in [Context -> BOOLEAN]
    /\ entry \in [Context -> BOOLEAN]

\* The lock's bit says whether somebody is between the btsl and the btrl.
BitIsOwner == lock <=> \E x \in Context : Holds(x)

\* The flags a context will put back are where it will look for them: on its
\* stack before it saves them and after it fetched them, in between in the
\* lock_t.
FlagsKept ==
    \A x \in Context :
        /\ pc[x] \in {"cli", "bts", "spin", "pop", "btr", "popf"} => pushed[x] = entry[x]
        /\ pc[x] = "in" => rflags = entry[x]

\* A context that is past its cli has the cpu to itself.
Masked ==
    \A c \in CPU :
        /\ pc[<<c, "task">>] \notin {"out", "cli"} => level[c] = "task" /\ ~intr[c]
        /\ level[c] = "task" => pc[<<c, "irq">>] = "out"

Inv == /\ TypeOK
       /\ BitIsOwner
       /\ MutualExclusion
       /\ FlagsKept
       /\ Masked

LEMMA ContextPair ==
    ASSUME NEW x \in Context
    PROVE  x[1] \in CPU /\ x[2] \in {"task", "irq"} /\ x = <<x[1], x[2]>>
  BY DEF Context

LEMMA PairContext ==
    ASSUME NEW c \in CPU, NEW l \in {"task", "irq"}
    PROVE  <<c, l>> \in Context /\ <<c, l>>[1] = c /\ <<c, l>>[2] = l
  BY DEF Context

LEMMA InvInit == Init => Inv
<1> SUFFICES ASSUME Init
             PROVE  Inv
  OBVIOUS
<1>1. TypeOK
  BY DEF Init, TypeOK, PCs
<1>2. BitIsOwner /\ MutualExclusion
  BY DEF Init, BitIsOwner, MutualExclusion, Holds
<1>3. FlagsKept
  BY DEF Init, FlagsKept
<1>4. Masked
  BY PairContext DEF Init, Masked
<1> QED BY <1>1, <1>2, <1>3, <1>4 DEF Inv

\* One instruction of lock_wait or lock_release.
LEMMA InstructionTypes ==
    ASSUME TypeOK, NEW x \in Context, lock_wait(x) \/ lock_release(x)
    PROVE  TypeOK'
<1> USE ContextPair DEF TypeOK, Goto, PCs
<1>1. CASE Pushfq(x)
  BY <1>1 DEF Pushfq
<1>2. CASE Cli(x)
  BY <1>2 DEF Cli
<1>3. CASE BtsFree(x)
  BY <1>3 DEF BtsFree
<1>4. CASE BtsTaken(x)
  BY <1>4 DEF BtsTaken
<1>5. CASE Spin(x)
  BY <1>5 DEF Spin
<1>6. CASE PopToRflags(x)
  BY <1>6 DEF PopToRflags
<1>7. CASE PushRflags(x)
  BY <1>7 DEF PushRflags
<1>8. CASE Btr(x)
  BY <1>8 DEF Btr
<1>9. CASE Popfq(x)
  BY <1>9 DEF Popfq
<1> QED
  BY <1>1, <1>2, <1>3, <1>4, <1>5, <1>6, <1>7, <1>8, <1>9 DEF lock_wait, lock_release

LEMMA InstructionExcludes ==
    ASSUME TypeOK, BitIsOwner, MutualExclusion,
           NEW x \in Context, lock_wait(x) \/ lock_release(x)
    PROVE  BitIsOwner' /\ MutualExclusion'
<1> USE DEF TypeOK, Goto, BitIsOwner, MutualExclusion, Holds
<1>1. CASE BtsFree(x)
  <2>1. \A y \in Context : ~Holds(y)
    BY <1>1 DEF BtsFree
  <2>2. pc'[x] = "pop" /\ \A y \in Context \ {x} : pc'[y] = pc[y]
    BY <1>1 DEF BtsFree
  <2>3. lock'
    BY <1>1 DEF BtsFree
  <2> QED BY <2>1, <2>2, <2>3
<1>2. CASE Btr(x)
  <2>1. \A y \in Context \ {x} : ~Holds(y) /\ pc'[y] = pc[y]
    BY <1>2 DEF Btr
  <2>2. pc'[x] = "popf" /\ ~lock'
    BY <1>2 DEF Btr
  <2> QED BY <2>1, <2>2
<1>3. CASE Pushfq(x) \/ Cli(x) \/ BtsTaken(x) \/ Spin(x) \/ PopToRflags(x)
           \/ PushRflags(x) \/ Popfq(x)
  <2>1. \A y \in Context : Holds(y)' <=> Holds(y)
    BY <1>3 DEF Pushfq, Cli, BtsTaken, Spin, PopToRflags, PushRflags, Popfq
  <2>2. lock' = lock
    BY <1>3 DEF Pushfq, Cli, BtsTaken, Spin, PopToRflags, PushRflags, Popfq
  <2> HIDE DEF Holds
  <2> QED BY <2>1, <2>2
<1> QED BY <1>1, <1>2, <1>3 DEF lock_wait, lock_release

LEMMA InstructionKeepsFlags ==
    ASSUME Inv, NEW x \in Context, lock_wait(x) \/ lock_release(x)
    PROVE  FlagsKept'
<1> USE DEF Inv, TypeOK, Goto, FlagsKept
<1>1. CASE Pushfq(x)
  BY <1>1 DEF Pushfq
<1>2. CASE Cli(x) \/ BtsFree(x) \/ BtsTaken(x) \/ Spin(x)
  BY <1>2 DEF Cli, BtsFree, BtsTaken, Spin
<1>3. CASE PopToRflags(x)
  <2>1. rflags' = entry[x] /\ pc' = [pc EXCEPT ![x] = "in"] /\ UNCHANGED <<pushed, entry>>
    BY <1>3 DEF PopToRflags
  <2>2. \A y \in Context \ {x} : pc[y] # "in"
    BY <1>3 DEF PopToRflags, MutualExclusion, Holds
  <2> QED BY <2>1, <2>2
<1>4. CASE PushRflags(x)
  BY <1>4 DEF PushRflags
<1>5. CASE Btr(x) \/ Popfq(x)
  BY <1>5 DEF Btr, Popfq
<1> QED BY <1>1, <1>2, <1>3, <1>4, <1>5 DEF lock_wait, lock_release

LEMMA InstructionMasked ==
    ASSUME TypeOK, Masked, NEW x \in Context, lock_wait(x) \/ lock_release(x)
    PROVE  Masked'
<1> DEFINE c == x[1]
<1>1. /\ c \in CPU /\ x[2] = level[c] /\ x = <<c, level[c]>>
      /\ level' = level
      /\ \A d \in CPU : d # c => intr'[d] = intr[d]
  BY ContextPair DEF lock_wait, lock_release, Pushfq, Cli, BtsFree, BtsTaken, Spin,
     PopToRflags, PushRflags, Btr, Popfq, Goto, TypeOK
<1>2. \A y \in Context : y # x => pc'[y] = pc[y]
  BY DEF lock_wait, lock_release, Pushfq, Cli, BtsFree, BtsTaken, Spin,
     PopToRflags, PushRflags, Btr, Popfq, Goto, TypeOK
<1>3. x[2] = "task" => pc'[x] \in {"out", "cli"} \/ ~intr'[c]
  <2> SUFFICES ASSUME x[2] = "task"
               PROVE  pc'[x] \in {"out", "cli"} \/ ~intr'[c]
    OBVIOUS
  <2>1. CASE Pushfq(x) \/ Popfq(x)
    BY <2>1 DEF Pushfq, Popfq, Goto, TypeOK
  <2>2. CASE Cli(x)
    BY <2>2, <1>1 DEF Cli, Goto, TypeOK
  <2>3. CASE BtsFree(x) \/ BtsTaken(x) \/ Spin(x) \/ PopToRflags(x) \/ PushRflags(x) \/ Btr(x)
    <3>1. intr' = intr /\ pc[x] \notin {"out", "cli"}
      BY <2>3 DEF BtsFree, BtsTaken, Spin, PopToRflags, PushRflags, Btr, Goto
    <3> QED BY ZenonT(60), <3>1, <1>1 DEF Masked
  <2> QED BY <2>1, <2>2, <2>3 DEF lock_wait, lock_release
<1>4. ASSUME NEW d \in CPU
      PROVE  /\ pc'[<<d, "task">>] \notin {"out", "cli"} => level'[d] = "task" /\ ~intr'[d]
             /\ level'[d] = "task" => pc'[<<d, "irq">>] = "out"
  <2>1. CASE d # c
    <3>1. <<d, "task">> # x /\ <<d, "irq">> # x
      BY <2>1
    <3>2. pc'[<<d, "task">>] = pc[<<d, "task">>] /\ pc'[<<d, "irq">>] = pc[<<d, "irq">>]
      BY <3>1, <1>2, PairContext
    <3> QED BY <3>2, <1>1, <2>1 DEF Masked
  <2>2. CASE d = c /\ level[c] = "task"
    <3>1. x = <<c, "task">>
      BY <2>2, <1>1
    <3>2. x # <<c, "irq">> /\ pc'[<<c, "irq">>] = pc[<<c, "irq">>]
      BY <3>1, <1>1, <1>2, PairContext
    <3>3. x[2] = "task"
      BY <3>1
    <3> HIDE DEF c
    <3> QED BY <3>1, <3>2, <3>3, <1>1, <1>3, <2>2 DEF Masked
  <2>3. CASE d = c /\ level[c] # "task"
    <3>1. x # <<c, "task">> /\ pc'[<<c, "task">>] = pc[<<c, "task">>]
      BY ZenonT(60), <2>3, <1>1, <1>2, PairContext
    <3>2. pc[<<c, "task">>] \in {"out", "cli"}
      BY <2>3, <1>1 DEF Masked
    <3> QED BY <3>1, <3>2, <1>1, <2>3
  <2> QED BY <2>1, <2>2, <2>3
<1> QED BY <1>4 DEF Masked

\* The cpu takes or ends an interrupt, or executes sti.
LEMMA CpuStepInv ==
    ASSUME Inv, NEW c \in CPU, Interrupt(c) \/ Iret(c) \/ Sti(c)
    PROVE  Inv'
<1>1. UNCHANGED <<lock, rflags, pc, pushed, entry>>
  BY DEF Interrupt, Iret, Sti
<1>2. TypeOK'
  BY DEF Inv, TypeOK, Interrupt, Iret, Sti
<1>3. BitIsOwner' /\ MutualExclusion' /\ FlagsKept'
  BY <1>1 DEF Inv, BitIsOwner, MutualExclusion, FlagsKept, Holds
<1>4. Masked'
  <2>1. CASE Interrupt(c)
    BY <2>1 DEF Inv, TypeOK, Masked, Interrupt
  <2>2. CASE Iret(c)
    BY <2>2 DEF Inv, TypeOK, Masked, Iret
  <2>3. CASE Sti(c)
    BY <2>3 DEF Inv, TypeOK, Masked, Sti
  <2> QED BY <2>1, <2>2, <2>3
<1> QED BY <1>2, <1>3, <1>4 DEF Inv

LEMMA InvNext ==
    ASSUME Inv, [Next]_vars
    PROVE  Inv'
<1>1. CASE UNCHANGED vars
  BY <1>1 DEF vars, Inv, TypeOK, BitIsOwner, MutualExclusion, FlagsKept, Masked, Holds
<1>2. ASSUME NEW x \in Context, lock_wait(x) \/ lock_release(x)
      PROVE  Inv'
  BY <1>2, InstructionTypes, InstructionExcludes, InstructionKeepsFlags, InstructionMasked
     DEF Inv
<1>3. ASSUME NEW c \in CPU, Interrupt(c) \/ Iret(c) \/ Sti(c)
      PROVE  Inv'
  BY <1>3, CpuStepInv
<1> QED BY <1>1, <1>2, <1>3 DEF Next

\* The inductive invariant holds.
LEMMA Invariant == Spec => []Inv
<1>1. Init => Inv
  BY InvInit
<1>2. Inv /\ [Next]_vars => Inv'
  BY InvNext
<1> QED BY <1>1, <1>2, PTL DEF Spec

(* No two contexts, on any number of cpus, are between the btsl of         *)
(* lock_wait and the btrl of lock_release.                                 *)
THEOREM LockExcludes == Spec => []MutualExclusion
<1>1. Inv => MutualExclusion
  BY DEF Inv
<1> QED BY <1>1, Invariant, PTL

(* The timer's handler never runs on a cpu whose task holds the lock or    *)
(* waits for it, so it never spins on its own cpu's lock.                  *)
THEOREM HandlerNeverStuck == Spec => []NoSelfDeadlock
<1>1. Inv => NoSelfDeadlock
  BY DEF Inv, Masked, NoSelfDeadlock
<1> QED BY <1>1, Invariant, PTL

(* lock_release restores the interrupt flag its lock_wait found.           *)
THEOREM ReleaseRestores == Spec => FlagsRestored
<1>1. Inv /\ [Next]_vars
        => [\A x \in Context : Popfq(x) => intr'[x[1]] = entry[x]]_vars
  BY ContextPair DEF Inv, TypeOK, FlagsKept, Popfq, Goto
<1> QED BY <1>1, Invariant, PTL DEF Spec, FlagsRestored

LEMMA HolderHolds ==
    ASSUME Inv, NEW x \in Context, Holds(x)
    PROVE  holder = x
  BY DEF Inv, BitIsOwner, MutualExclusion, holder

\* Which lock_wait and lock_release steps move the abstract lock.
LEMMA HolderStep ==
    ASSUME Inv, Inv', [Next]_vars
    PROVE  [AbstractLock!Next]_holder
<1>1. ASSUME NEW x \in Context, BtsFree(x)
      PROVE  AbstractLock!Acquire(x)
  <2>1. holder = Nobody
    BY <1>1 DEF BtsFree, Inv, BitIsOwner, holder
  <2>2. Holds(x)'
    BY <1>1 DEF BtsFree, Goto, Inv, TypeOK, Holds
  <2>3. holder' = x
    BY <2>2 DEF Inv, BitIsOwner, MutualExclusion, holder
  <2> QED BY <2>1, <2>3 DEF AbstractLock!Acquire
<1>2. ASSUME NEW x \in Context, Btr(x)
      PROVE  AbstractLock!Release
  <2>1. holder = x
    BY <1>2, HolderHolds DEF Btr, Goto, Holds
  <2>2. holder' = Nobody
    BY <1>2 DEF Btr, Inv, BitIsOwner, holder
  <2> QED BY <2>1, <2>2, NobodyAssumption DEF AbstractLock!Release
<1>3. ASSUME lock' = lock, \A y \in Context : Holds(y)' <=> Holds(y)
      PROVE  holder' = holder
  <2>1. CASE lock
    <3>1. PICK x \in Context : Holds(x)
      BY <2>1 DEF Inv, BitIsOwner
    <3>2. holder = x
      BY <3>1, HolderHolds
    <3>3. Holds(x)'
      BY <3>1, <1>3
    <3>4. holder' = x
      BY <3>3 DEF Inv, BitIsOwner, MutualExclusion, holder
    <3> QED BY <3>2, <3>4
  <2>2. CASE ~lock
    BY <2>2, <1>3 DEF Inv, BitIsOwner, holder
  <2> QED BY <2>1, <2>2
<1>4. ASSUME NEW x \in Context,
             \/ Pushfq(x) \/ Cli(x) \/ BtsTaken(x) \/ Spin(x) \/ PopToRflags(x)
             \/ PushRflags(x) \/ Popfq(x)
      PROVE  holder' = holder
  <2>1. lock' = lock
    BY <1>4 DEF Pushfq, Cli, BtsTaken, Spin, PopToRflags, PushRflags, Popfq
  <2>2. \A y \in Context : Holds(y)' <=> Holds(y)
    BY <1>4 DEF Pushfq, Cli, BtsTaken, Spin, PopToRflags, PushRflags, Popfq, Goto,
       Inv, TypeOK, Holds
  <2> QED BY <1>3, <2>1, <2>2
<1>5. ASSUME NEW c \in CPU, Interrupt(c) \/ Iret(c) \/ Sti(c)
      PROVE  holder' = holder
  <2>1. lock' = lock /\ pc' = pc
    BY <1>5 DEF Interrupt, Iret, Sti
  <2> QED BY <1>3, <2>1 DEF Holds
<1>6. CASE UNCHANGED vars
  BY <1>6, <1>3 DEF vars, Holds
<1> QED BY <1>1, <1>2, <1>4, <1>5, <1>6
        DEF Next, lock_wait, lock_release, AbstractLock!Next

(* The instructions implement a lock that is taken and released in one     *)
(* step each, for every number of cpus and wherever interrupts come.       *)
THEOREM ImplementsAbstractLock == Spec => ImplementsMutex
<1>1. Init => AbstractLock!Init
  BY DEF Init, AbstractLock!Init, Holds, holder
<1>2. Inv /\ Inv' /\ [Next]_vars => [AbstractLock!Next]_holder
  BY HolderStep
<1> QED BY <1>1, <1>2, Invariant, PTL DEF Spec, ImplementsMutex, AbstractLock!Spec
=============================================================================

---------------------------- MODULE SchedProofs ------------------------------
(***************************************************************************)
(* Proofs about Sched for every number of cpus and tasks and for every use *)
(* the tasks make of the calls: its types and locks first, then the        *)
(* sleepers, the dead and the two queues, then the refinement of the two   *)
(* queues to two sequences.                                                *)
(***************************************************************************)
EXTENDS SchedQueues, TaskQueueProofs, SequenceTheorems

\* The records the operators of TaskQueue take and return.
Link == Task \cup {NULL}
HeapType == [front: Link, back: Link, next: [Task -> Link], prev: [Task -> Link]]

LEMMA PushFrontType ==
    ASSUME NEW h \in HeapType, NEW t \in Task
    PROVE  tq_push_front(h, t) \in HeapType
BY DEF tq_push_front, HeapType, Link

LEMMA InsertAfterType ==
    ASSUME NEW h \in HeapType, NEW a \in Link, NEW t \in Task
    PROVE  tq_insert_after(h, a, t) \in HeapType
<1>1. Unlinked(h, t) \in HeapType
  BY DEF Unlinked, HeapType, Link
<1>2. CASE a = NULL
  BY <1>1, <1>2, PushFrontType DEF tq_insert_after
<1>3. CASE a # NULL
  BY <1>1, <1>3 DEF tq_insert_after, HeapType, Link
<1> QED BY <1>2, <1>3

LEMMA RemoveType ==
    ASSUME NEW h \in HeapType, NEW t \in Task
    PROVE  tq_remove(h, t) \in HeapType
BY DEF tq_remove, HeapType, Link

LEMMA PopBackType ==
    ASSUME NEW h \in HeapType, h.back # NULL
    PROVE  tq_pop_back(h) \in HeapType
BY DEF tq_pop_back, HeapType, Link

LEMMA OnType ==
    ASSUME TypeOK, NEW q \in [front: Link, back: Link]
    PROVE  On(q) \in HeapType
BY DEF On, HeapType, Link, TypeOK

-----------------------------------------------------------------------------
LEMMA IdleFacts ==
    /\ IdleTasks \subseteq Task
    /\ Janitor \notin IdleTasks
    /\ {FirstTask, Janitor} \subseteq Task
    /\ FirstTask \notin IdleTasks
    /\ LastTid \in Task
    /\ BootTasks = 0..LastTid
<1>1. IdleTasks \subseteq Task
  BY SchedAssumption DEF IdleTasks
<1>2. BootTasks \subseteq Task
  BY <1>1, SchedAssumption DEF BootTasks
<1>3. LastTid \in BootTasks /\ BootTasks = 0..LastTid
  BY SchedAssumption DEF LastTid
<1> QED BY <1>1, <1>2, <1>3, SchedAssumption

LEMMA InitTyped == Init => TypeOK
<1> SUFFICES ASSUME Init PROVE TypeOK
  OBVIOUS
<1>1. LastTid \in Nat /\ LastTid <= TID_MAX
  BY IdleFacts, SchedAssumption DEF Task
<1>2. LastTid + 1 \in 0..(TID_MAX + 1)
  BY <1>1, SchedAssumption
<1> QED BY <1>2, IdleFacts, SchedAssumption DEF Init, TypeOK, Task, Flag, Time, READY

LEMMA InitSafe == Init => SchedInv
<1> SUFFICES ASSUME Init PROVE SchedInv
  OBVIOUS
<1> USE SchedAssumption DEF Init
<1>1. LockHeld
  BY DEF LockHeld
<1>2. RunningMarked
  BY DEF RunningMarked
<1>3. IdleUnlisted
  <2> SUFFICES ASSUME NEW i \in Task PROVE data[i] \notin IdleTasks
    BY DEF IdleUnlisted
  <2>1. data[i] \in {FirstTask, Janitor, NULL, Junk}
    OBVIOUS
  <2> QED BY <2>1, IdleFacts
<1>4. TidsGivenOut
  <2>1. ASSUME NEW c \in CPU PROVE tasks_idle[c] < curr_tid
    <3>1. tasks_idle[c] \in BootTasks
      BY DEF IdleTasks, BootTasks
    <3> QED BY <3>1, IdleFacts DEF Task
  <2>2. ASSUME NEW i \in Task, data[i] \in Task PROVE data[i] < curr_tid
    <3>1. data[i] \in {FirstTask, Janitor}
      BY <2>2
    <3>2. data[i] \in 0..LastTid /\ LastTid \in Nat
      BY <3>1, IdleFacts DEF BootTasks, Task
    <3>3. curr_tid = LastTid + 1
      OBVIOUS
    <3> HIDE DEF Init
    <3> QED BY <3>2, <3>3
  <2> QED BY <2>1, <2>2 DEF TidsGivenOut
<1>5. Locals
  BY DEF Locals
<1>6. OneCpuPerTask
  BY DEF OneCpuPerTask
<1> QED BY <1>1, <1>2, <1>3, <1>4, <1>5, <1>6 DEF SchedInv

-----------------------------------------------------------------------------
(* Every step leaves the variables in their types.                         *)

LEMMA EndsType == ASSUME NEW h \in HeapType PROVE Ends(h) \in [front: Link, back: Link]
BY DEF Ends, HeapType

LEMMA RelinkType ==
    ASSUME NEW h \in HeapType, Relink(h)
    PROVE  next' \in [Task -> Link] /\ prev' \in [Task -> Link]
BY DEF Relink, HeapType

LEMMA CallTyped ==
    ASSUME TypeOK, SchedInv, NEW c \in CPU, NEW t \in Task, Call(c, t)
    PROVE  TypeOK'
<1> USE DEF TypeOK, tables, queues
<1>1. ASSUME NEW n \in NapOf(t), SleepBegin(c, t, n) PROVE TypeOK'
  <2>1. n \in Time
    BY UsageAssumption DEF NapOf, Time
  <2>2. On(tasks_asleep) \in HeapType
    BY OnType DEF Link
  <2>3. tq_push_front(On(tasks_asleep), tasks_running[c]) \in HeapType
    BY <2>2, PushFrontType
  <2>4. tq_insert_after(On(tasks_asleep), tasks_asleep.back, tasks_running[c]) \in HeapType
    BY <2>2, InsertAfterType DEF Link
  <2>5. tasks_asleep' \in [front: Link, back: Link] /\ next' \in [Task -> Link]
          /\ prev' \in [Task -> Link]
    BY <1>1, <2>3, <2>4, EndsType, RelinkType DEF SleepBegin, Link
  <2>6. due' \in [Task -> Time] /\ status' \in [Task -> SUBSET Flag]
    BY <1>1, <2>1 DEF SleepBegin, Flag
  <2>7. /\ mode' \in [CPU -> {"task", "wake", "insert", "reap", "switch", "fault"}]
        /\ sched_lock' \in CPU \cup {Free}
        /\ cursor' \in Link
    BY <1>1 DEF SleepBegin, Fault, Link
  <2>8. at' \in [Task -> {"none", "run", "nap", "halting", "hlt", "adding",
                          "asking", "asked"}]
    BY <1>1 DEF SleepBegin
  <2> QED BY <1>1, <2>5, <2>6, <2>7, <2>8 DEF SleepBegin, Link
<1>2. CASE Halt(c, t)
  BY <1>2 DEF Halt
<1>3. ASSUME NEW u \in Task, sched_kill(c, t, u) PROVE TypeOK'
  <2> DEFINE v == data[u]
             killed == tq_push_front(On(tasks_dead), v)
             awake == tq_remove([front |-> tasks_asleep.front, back |-> tasks_asleep.back,
                                 next |-> killed.next, prev |-> killed.prev], v)
  <2>1. v \in Task
    BY <1>3 DEF sched_kill, IsTidValid
  <2>2. killed \in HeapType
    BY <2>1, OnType, PushFrontType DEF Link
  <2>3. [front |-> tasks_asleep.front, back |-> tasks_asleep.back,
         next |-> killed.next, prev |-> killed.prev] \in HeapType
    BY <2>2 DEF HeapType, Link
  <2>4. awake \in HeapType
    BY <2>1, <2>3, RemoveType
  <2>5. tasks_dead' \in [front: Link, back: Link]
    BY <1>3, <2>2, EndsType DEF sched_kill
  <2>6. tasks_asleep' \in [front: Link, back: Link] /\ next' \in [Task -> Link]
          /\ prev' \in [Task -> Link]
    <3>1. CASE "ASLEEP" \in status[v]
      <4>1. tasks_asleep' = Ends(awake) /\ Relink(awake)
        BY <1>3, <3>1 DEF sched_kill
      <4> QED BY <2>4, <4>1, EndsType, RelinkType
    <3>2. CASE "ASLEEP" \notin status[v]
      <4>1. tasks_asleep' = tasks_asleep /\ Relink(killed)
        BY <1>3, <3>2 DEF sched_kill
      <4> QED BY <2>2, <4>1, RelinkType DEF Link
    <3> QED BY <3>1, <3>2
  <2>7. status' \in [Task -> SUBSET Flag]
    BY <1>3, <2>1 DEF sched_kill, Flag
  <2> HIDE DEF v
  <2>8. data' \in [Task -> Task \cup {NULL, Junk}]
    BY <1>3 DEF sched_kill, Unlist
  <2>9. at' \in [Task -> {"none", "run", "nap", "halting", "hlt", "adding",
                          "asking", "asked"}]
    BY <1>3 DEF sched_kill, Return
  <2> QED BY <1>3, <2>5, <2>6, <2>7, <2>8, <2>9 DEF sched_kill, Bury, Link
<1>4. ASSUME NEW u \in Task, sched_block(c, t, u) PROVE TypeOK'
  BY <1>4 DEF sched_block, Return, Flag
<1>5. ASSUME NEW u \in Task, sched_unblock(c, t, u) PROVE TypeOK'
  BY <1>5 DEF sched_unblock
<1>6. ASSUME NEW u \in Task, CallJunk(c, t, u) PROVE TypeOK'
  BY <1>6 DEF CallJunk, Fault
<1>7. CASE task_make(c, t)
  <2>1. curr_tid \in Task /\ curr_tid + 1 \in 0..TID_MAX+1
    BY <1>7, SchedAssumption DEF task_make, TidLeft, Task
  <2> QED BY <1>7, <2>1 DEF task_make, READY, TidLeft
<1>8. CASE sched_add(c, t)
  <2>1. reg[t] \in Task
    BY <1>8 DEF sched_add, Locked, Executes, SchedInv, Locals
  <2>2. reg[t] + 1 \in 0..TID_MAX+1
    BY <2>1, SchedAssumption DEF Task
  <2> QED BY <1>8, <2>1, <2>2 DEF sched_add, NewLen
<1>9. CASE ReadCpu(c, t)
  BY <1>9 DEF ReadCpu
<1>10. CASE ReadRunning(c, t)
  <2>1. reg[t] \in CPU
    BY <1>10 DEF ReadRunning, SchedInv, Locals
  <2> QED BY <1>10, <2>1 DEF ReadRunning
<1>11. CASE UseCurrent(c, t)
  BY <1>11 DEF UseCurrent
<1> QED BY <1>1, <1>2, <1>3, <1>4, <1>5, <1>6, <1>7, <1>8, <1>9, <1>10, <1>11 DEF Call

LEMMA SwitchTyped ==
    ASSUME TypeOK, NEW c \in CPU, Switch(c) PROVE TypeOK'
<1> USE DEF TypeOK, tables, queues
<1>1. CASE SwitchBegin(c)
  BY <1>1 DEF SwitchBegin
<1>2. CASE WakeOne(c)
  <2>1. On(tasks_asleep) \in HeapType /\ On(tasks_asleep).back # NULL
    BY <1>2, OnType DEF WakeOne, Overdue, On, Link
  <2>2. tq_pop_back(On(tasks_asleep)) \in HeapType
    BY <2>1, PopBackType
  <2>3. tasks_asleep' \in [front: Link, back: Link]
    BY <1>2, <2>2, EndsType DEF WakeOne
  <2>4. next' \in [Task -> Link] /\ prev' \in [Task -> Link]
    BY <1>2, <2>2, RelinkType DEF WakeOne
  <2>5. status' \in [Task -> SUBSET Flag]
    BY <1>2 DEF WakeOne
  <2> QED BY <1>2, <2>3, <2>4, <2>5 DEF WakeOne, Link
<1>3. CASE Choose(c)
  BY <1>3 DEF Choose, MakeCurrent, Flag
<1>4. CASE ChooseJunk(c)
  BY <1>4 DEF ChooseJunk, Fault
<1>5. CASE FinishSwitch(c)
  BY <1>5 DEF FinishSwitch
<1> QED BY <1>1, <1>2, <1>3, <1>4, <1>5 DEF Switch

LEMMA InsertTyped ==
    ASSUME TypeOK, NEW c \in CPU, InsertStep(c) PROVE TypeOK'
<1> USE DEF TypeOK, tables, queues
<1> DEFINE t == tasks_running[c]
           h == tq_insert_after(On(tasks_asleep), prev[cursor], t)
<1>1. ASSUME cursor # NULL PROVE h \in HeapType
  BY <1>1, OnType, InsertAfterType DEF Link
<1>2. tasks_asleep' \in [front: Link, back: Link] /\ next' \in [Task -> Link]
        /\ prev' \in [Task -> Link]
  BY <1>1, EndsType, RelinkType DEF InsertStep, Link
<1>3. /\ mode' \in [CPU -> {"task", "wake", "insert", "reap", "switch", "fault"}]
      /\ sched_lock' \in CPU \cup {Free}
      /\ cursor' \in Link
  BY DEF InsertStep, EndInsert, Fault, Link
<1>4. at' \in [Task -> {"none", "run", "nap", "halting", "hlt", "adding",
                        "asking", "asked"}]
  BY DEF InsertStep, EndInsert
<1> QED BY <1>2, <1>3, <1>4 DEF InsertStep, Link

LEMMA ReapTyped ==
    ASSUME TypeOK, NEW c \in CPU, Reap(c) PROVE TypeOK'
<1> USE DEF TypeOK, tables, queues
<1>1. CASE ReapBegin(c)
  BY <1>1 DEF ReapBegin
<1>2. CASE ReapOne(c)
  <2>1. On(tasks_dead) \in HeapType /\ On(tasks_dead).back # NULL
    BY <1>2, OnType DEF ReapOne, On, Link
  <2>2. tq_pop_back(On(tasks_dead)) \in HeapType
    BY <2>1, PopBackType
  <2>3. tasks_dead' \in [front: Link, back: Link]
    BY <1>2, <2>2, EndsType DEF ReapOne
  <2>4. next' \in [Task -> Link] /\ prev' \in [Task -> Link]
    BY <1>2, <2>2, RelinkType DEF ReapOne
  <2>5. data' \in [Task -> Task \cup {NULL, Junk}] /\ freed' \subseteq Task
    BY <1>2 DEF ReapOne
  <2> QED BY <1>2, <2>3, <2>4, <2>5 DEF ReapOne, Link
<1>3. CASE ReapEnd(c)
  BY <1>3 DEF ReapEnd, LeaveReap
<1> QED BY <1>1, <1>2, <1>3 DEF Reap

LEMMA ElapseTyped == TypeOK /\ Elapse => TypeOK'
BY DEF TypeOK, Elapse, tables, queues, Time

LEMMA StepTyped == TypeOK /\ SchedInv /\ [Next]_vars => TypeOK'
<1> SUFFICES ASSUME TypeOK, SchedInv, [Next]_vars PROVE TypeOK'
  OBVIOUS
<1>1. CASE UNCHANGED vars
  BY <1>1 DEF vars, TypeOK
<1>2. CASE Next
  BY <1>2, CallTyped, SwitchTyped, InsertTyped, ReapTyped, ElapseTyped DEF Next
<1> QED BY <1>1, <1>2

-----------------------------------------------------------------------------
(* Every step preserves SchedInv.  What most steps leave alone is enough   *)
(* for its parts about the tables.                                         *)

LEMMA Unlisted ==
    ASSUME SchedInv, UNCHANGED <<data, curr_tid, tasks_running>>
    PROVE  (IdleUnlisted /\ TidsGivenOut /\ OneCpuPerTask)'
BY DEF SchedInv, IdleUnlisted, TidsGivenOut, OneCpuPerTask

LEMMA SwitchSafe ==
    ASSUME TypeOK, SchedInv, NEW c \in CPU, Switch(c) PROVE SchedInv'
<1> USE DEF TypeOK, SchedInv
<1>0. /\ \A d \in CPU : Free # d
      /\ tasks_idle[c] \in IdleTasks
  BY SchedAssumption DEF IdleTasks
<1>1. CASE SwitchBegin(c)
  <2>1. LockHeld'
    BY <1>0, <1>1 DEF SwitchBegin, LockHeld
  <2>2. RunningMarked'
    BY <1>1 DEF SwitchBegin, RunningMarked, OneCpuPerTask
  <2>3. Locals'
    BY <1>1 DEF SwitchBegin, Locals
  <2> QED BY <1>1, <2>1, <2>2, <2>3, Unlisted DEF SwitchBegin, tables
<1>2. CASE WakeOne(c)
  <2>1. LockHeld'
    BY <1>2 DEF WakeOne, LockHeld
  <2>2. RunningMarked'
    BY <1>2 DEF WakeOne, RunningMarked
  <2>3. Locals'
    BY <1>2 DEF WakeOne, Locals
  <2> QED BY <1>2, <2>1, <2>2, <2>3, Unlisted DEF WakeOne, tables
<1>3. CASE Choose(c)
  <2> PICK n \in Task : /\ IsNext(c, n)
                        /\ status' = [status EXCEPT ![n] = @ \cup {"RUNNING"}]
                        /\ tasks_running' = [tasks_running EXCEPT ![c] = n]
    BY <1>3 DEF Choose, MakeCurrent
  <2>1. \/ n = tasks_idle[c]
        \/ \E i \in Task : n = data[i] /\ n \notin IdleTasks /\ status[n] = READY
    <3>1. ReadySlots(tasks_running[c]) \subseteq Task
      BY SchedAssumption DEF ReadySlots, Scanned, Task
    <3> QED BY <3>1 DEF IsNext, ReadySlots, IdleUnlisted
  <2>2. n < curr_tid
    BY <2>1 DEF TidsGivenOut
  <2>3. \A d \in CPU \ {c} : mode[d] \notin {"wake", "fault"}
    BY <1>3 DEF Choose, LockHeld
  <2>4. ASSUME NEW d \in CPU \ {c} PROVE tasks_running[d] # n
    <3>1. CASE tasks_running[d] = tasks_idle[d]
      BY <2>1, <3>1, SchedAssumption DEF IdleTasks
    <3>2. CASE tasks_running[d] # tasks_idle[d]
      <4>1. tasks_running[d] \notin IdleTasks /\ "RUNNING" \in status[tasks_running[d]]
        BY <2>3, <3>2 DEF RunningMarked
      <4> QED BY <1>0, <2>1, <4>1 DEF READY
    <3> QED BY <3>1, <3>2
  <2>5. LockHeld'
    BY <1>0, <1>3 DEF Choose, LockHeld
  <2>6. RunningMarked'
    BY <1>3, <2>1, <2>3 DEF Choose, RunningMarked
  <2>7. IdleUnlisted'
    BY <1>3 DEF Choose, IdleUnlisted, tables
  <2>8. TidsGivenOut'
    BY <1>3, <2>2 DEF Choose, TidsGivenOut, tables
  <2>9. Locals'
    BY <1>3 DEF Choose, Locals
  <2>10. OneCpuPerTask'
    BY <2>4 DEF OneCpuPerTask
  <2> QED BY <2>5, <2>6, <2>7, <2>8, <2>9, <2>10
<1>4. CASE ChooseJunk(c)
  <2>1. LockHeld'
    BY <1>0, <1>4 DEF ChooseJunk, Fault, LockHeld
  <2>2. RunningMarked'
    BY <1>4 DEF ChooseJunk, Fault, RunningMarked
  <2>3. Locals'
    BY <1>4 DEF ChooseJunk, Locals
  <2> QED BY <1>4, <2>1, <2>2, <2>3, Unlisted DEF ChooseJunk, tables
<1>5. CASE FinishSwitch(c)
  <2>1. LockHeld'
    BY <1>5 DEF FinishSwitch, LockHeld
  <2>2. RunningMarked'
    BY <1>5 DEF FinishSwitch, RunningMarked
  <2>3. Locals'
    BY <1>5 DEF FinishSwitch, Locals
  <2> QED BY <1>5, <2>1, <2>2, <2>3, Unlisted DEF FinishSwitch, tables
<1> QED BY <1>1, <1>2, <1>3, <1>4, <1>5 DEF Switch

LEMMA InsertSafe ==
    ASSUME TypeOK, SchedInv, NEW c \in CPU, InsertStep(c) PROVE SchedInv'
<1> USE DEF TypeOK, SchedInv
<1>1. LockHeld'
  BY SchedAssumption DEF InsertStep, EndInsert, Fault, LockHeld
<1>2. RunningMarked'
  BY DEF InsertStep, EndInsert, Fault, RunningMarked
<1>3. Locals'
  BY DEF InsertStep, EndInsert, Locals
<1> QED BY <1>1, <1>2, <1>3, Unlisted DEF InsertStep, tables

LEMMA ReapSafe ==
    ASSUME TypeOK, SchedInv, NEW c \in CPU, Reap(c) PROVE SchedInv'
<1> USE DEF TypeOK, SchedInv
<1>1. LockHeld'
  BY SchedAssumption DEF Reap, ReapBegin, ReapOne, ReapEnd, LeaveReap, Locked, Executes, LockHeld
<1>2. RunningMarked'
  BY DEF Reap, ReapBegin, ReapOne, ReapEnd, LeaveReap, Locked, Executes, RunningMarked
<1>3. Locals'
  BY DEF Reap, ReapBegin, ReapOne, ReapEnd, LeaveReap, Locals
<1>4. IdleUnlisted' /\ TidsGivenOut'
  <2>1. data' = data \/ \E t \in Task : data' = [data EXCEPT ![t] = NULL]
    BY DEF Reap, ReapBegin, ReapOne, ReapEnd, LeaveReap, tables
  <2>2. NULL \notin Task
    BY SchedAssumption
  <2>3. curr_tid' = curr_tid /\ tasks_running' = tasks_running
    BY DEF Reap, ReapBegin, ReapOne, ReapEnd, LeaveReap
  <2> QED BY <2>1, <2>2, <2>3, IdleFacts DEF IdleUnlisted, TidsGivenOut
<1>5. OneCpuPerTask'
  BY DEF Reap, ReapBegin, ReapOne, ReapEnd, LeaveReap, OneCpuPerTask
<1> QED BY <1>1, <1>2, <1>3, <1>4, <1>5

LEMMA ElapseSafe == TypeOK /\ SchedInv /\ Elapse => SchedInv'
BY Unlisted DEF SchedInv, Elapse, tables, LockHeld, RunningMarked, Locals

LEMMA CallSafe ==
    ASSUME TypeOK, SchedInv, NEW c \in CPU, NEW t \in Task, Call(c, t)
    PROVE  SchedInv'
<1> USE DEF TypeOK, SchedInv
<1>0. \A d \in CPU : Free # d
  BY SchedAssumption
<1>1. ASSUME NEW n \in NapOf(t), SleepBegin(c, t, n) PROVE SchedInv'
  <2>1. LockHeld'
    BY <1>0, <1>1 DEF SleepBegin, Locked, Executes, Fault, LockHeld
  <2>2. RunningMarked'
    BY <1>1 DEF SleepBegin, Locked, Executes, Fault, RunningMarked
  <2>3. Locals'
    BY <1>1 DEF SleepBegin, Locals
  <2> QED BY <1>1, <2>1, <2>2, <2>3, Unlisted DEF SleepBegin, tables
<1>2. CASE Halt(c, t)
  <2>1. LockHeld' /\ RunningMarked'
    BY <1>2 DEF Halt, LockHeld, RunningMarked
  <2>2. Locals'
    BY <1>2 DEF Halt, Locals
  <2> QED BY <1>2, <2>1, <2>2, Unlisted DEF Halt, tables
<1>3. ASSUME NEW u \in Task, sched_kill(c, t, u) PROVE SchedInv'
  <2>1. LockHeld'
    BY <1>3 DEF sched_kill, LockHeld
  <2>2. RunningMarked'
    BY <1>3 DEF sched_kill, RunningMarked
  <2>3. Locals'
    BY <1>3 DEF sched_kill, Return, Locals
  <2>4. IdleUnlisted' /\ TidsGivenOut' /\ OneCpuPerTask'
    <3>1. NULL \notin Task
      BY SchedAssumption
    <3> QED BY <1>3, <3>1, IdleFacts
            DEF sched_kill, Unlist, IdleUnlisted, TidsGivenOut, OneCpuPerTask
  <2> QED BY <2>1, <2>2, <2>3, <2>4
<1>4. ASSUME NEW u \in Task, sched_block(c, t, u) PROVE SchedInv'
  <2>1. LockHeld' /\ RunningMarked'
    BY <1>4 DEF sched_block, LockHeld, RunningMarked
  <2>2. Locals'
    BY <1>4 DEF sched_block, Return, Locals
  <2> QED BY <1>4, <2>1, <2>2, Unlisted DEF sched_block, tables
<1>5. ASSUME NEW u \in Task, sched_unblock(c, t, u) PROVE SchedInv'
  <2>1. LockHeld' /\ RunningMarked' /\ Locals'
    BY <1>5 DEF sched_unblock, LockHeld, RunningMarked, Locals
  <2> QED BY <1>5, <2>1, Unlisted DEF sched_unblock, tables
<1>6. ASSUME NEW u \in Task, CallJunk(c, t, u) PROVE SchedInv'
  <2>1. LockHeld'
    BY <1>0, <1>6 DEF CallJunk, Locked, Executes, Fault, LockHeld
  <2>2. RunningMarked' /\ Locals'
    BY <1>6 DEF CallJunk, Fault, RunningMarked, Locals
  <2> QED BY <1>6, <2>1, <2>2, Unlisted DEF CallJunk, tables
<1>7. CASE task_make(c, t)
  <2>1. curr_tid \in Task /\ curr_tid < curr_tid' /\ \A n \in Task : n < curr_tid => n < curr_tid'
    BY <1>7, SchedAssumption DEF task_make, TidLeft, Task
  <2>2. curr_tid \notin IdleTasks /\ \A d \in CPU : tasks_running[d] # curr_tid
    BY <2>1 DEF TidsGivenOut, IdleTasks, Task
  <2>3. LockHeld'
    BY <1>7 DEF task_make, LockHeld
  <2>4. RunningMarked'
    BY <1>7, <2>1, <2>2 DEF task_make, RunningMarked
  <2>5. Locals'
    BY <1>7, <2>1, <2>2 DEF task_make, Locals
  <2>6. IdleUnlisted' /\ TidsGivenOut' /\ OneCpuPerTask'
    BY <1>7, <2>1, SchedAssumption
       DEF task_make, tables, IdleUnlisted, TidsGivenOut, OneCpuPerTask
  <2> QED BY <2>3, <2>4, <2>5, <2>6
<1>8. CASE sched_add(c, t)
  <2>1. reg[t] \in Task \ IdleTasks /\ reg[t] < curr_tid
    BY <1>8 DEF sched_add, Locked, Executes, Locals
  <2>2. LockHeld' /\ RunningMarked'
    BY <1>8 DEF sched_add, LockHeld, RunningMarked
  <2>3. Locals'
    BY <1>8, <2>1 DEF sched_add, Locals
  <2>4. IdleUnlisted' /\ TidsGivenOut' /\ OneCpuPerTask'
    BY <1>8, <2>1 DEF sched_add, IdleUnlisted, TidsGivenOut, OneCpuPerTask
  <2> QED BY <2>2, <2>3, <2>4
<1>9. CASE ReadCpu(c, t)
  <2>1. LockHeld' /\ RunningMarked'
    BY <1>9 DEF ReadCpu, LockHeld, RunningMarked
  <2>2. Locals'
    BY <1>9 DEF ReadCpu, Locals
  <2> QED BY <1>9, <2>1, <2>2, Unlisted DEF ReadCpu, tables
<1>10. CASE ReadRunning(c, t)
  <2>1. LockHeld' /\ RunningMarked'
    BY <1>10 DEF ReadRunning, LockHeld, RunningMarked
  <2>2. Locals'
    BY <1>10 DEF ReadRunning, Locals
  <2> QED BY <1>10, <2>1, <2>2, Unlisted DEF ReadRunning, tables
<1>11. CASE UseCurrent(c, t)
  <2>1. LockHeld' /\ RunningMarked'
    BY <1>11 DEF UseCurrent, LockHeld, RunningMarked
  <2>2. Locals'
    BY <1>11 DEF UseCurrent, Locals
  <2> QED BY <1>11, <2>1, <2>2, Unlisted DEF UseCurrent, tables
<1> QED BY <1>1, <1>2, <1>3, <1>4, <1>5, <1>6, <1>7, <1>8, <1>9, <1>10, <1>11 DEF Call

LEMMA StepSafe == TypeOK /\ SchedInv /\ [Next]_vars => SchedInv'
<1> SUFFICES ASSUME TypeOK, SchedInv, [Next]_vars PROVE SchedInv'
  OBVIOUS
<1>1. CASE UNCHANGED vars
  BY <1>1, Unlisted DEF vars, SchedInv, LockHeld, RunningMarked, Locals
<1>2. CASE Next
  BY <1>2, CallSafe, SwitchSafe, InsertSafe, ReapSafe, ElapseSafe DEF Next
<1> QED BY <1>1, <1>2

-----------------------------------------------------------------------------
(* Whatever the tasks do, every variable of sched.c stays in its type: the *)
(* queue operators are never given the null pointer for a task, and the    *)
(* scan, the wake loop and the janitor index tasks_all with tids only.     *)
THEOREM TypesHold == Spec => []TypeOK
<1>1. Init => TypeOK /\ SchedInv
  BY InitTyped, InitSafe
<1>2. TypeOK /\ SchedInv /\ [Next]_vars => (TypeOK /\ SchedInv)'
  BY StepTyped, StepSafe
<1> QED BY <1>1, <1>2, PTL DEF Spec

(* What the scheduler relies on between two switches holds always.         *)
THEOREM InvariantHolds == Spec => []SchedInv
<1>1. Init => TypeOK /\ SchedInv
  BY InitTyped, InitSafe
<1>2. TypeOK /\ SchedInv /\ [Next]_vars => (TypeOK /\ SchedInv)'
  BY StepTyped, StepSafe
<1> QED BY <1>1, <1>2, PTL DEF Spec

(* No task is current on two cpus at once, for every number of cpus and    *)
(* every use of the calls, uses that corrupt the queues among them.        *)
THEOREM NoTaskRunsTwice == Spec => []OneCpuPerTask
<1>1. SchedInv => OneCpuPerTask
  BY DEF SchedInv
<1> QED BY <1>1, InvariantHolds, PTL

-----------------------------------------------------------------------------
(* A cpu is on the stack of the task it has chosen, but for the switch.    *)

OnOwnStack == \A c \in CPU : mode[c] # "switch" => kstack[c] = tasks_running[c]

LEMMA StepOnOwnStack ==
    ASSUME TypeOK, SchedInv, OnOwnStack, [Next]_vars PROVE OnOwnStack'
<1> USE DEF TypeOK, OnOwnStack
<1>1. CASE UNCHANGED vars
  BY <1>1 DEF vars
<1>2. ASSUME NEW c \in CPU, Switch(c) PROVE OnOwnStack'
  BY <1>2 DEF Switch, SwitchBegin, WakeOne, Choose, MakeCurrent, ChooseJunk, FinishSwitch, Fault
<1>3. ASSUME NEW c \in CPU, InsertStep(c) PROVE OnOwnStack'
  BY <1>3 DEF InsertStep, EndInsert, Fault
<1>4. ASSUME NEW c \in CPU, Reap(c) PROVE OnOwnStack'
  BY <1>4 DEF Reap, ReapBegin, ReapOne, ReapEnd, LeaveReap, Locked, Executes
<1>5. ASSUME NEW c \in CPU, NEW t \in Task, Call(c, t) PROVE OnOwnStack'
  <2>1. ASSUME NEW n \in NapOf(t), SleepBegin(c, t, n) PROVE OnOwnStack'
    BY <2>1 DEF SleepBegin, Locked, Executes, Fault
  <2>2. ASSUME NEW u \in Task, CallJunk(c, t, u) PROVE OnOwnStack'
    BY <2>2 DEF CallJunk, Locked, Executes, Fault
  <2>3. ASSUME UNCHANGED <<mode, kstack, tasks_running>> PROVE OnOwnStack'
    BY <2>3
  <2> QED BY <1>5, <2>1, <2>2, <2>3
          DEF Call, Halt, sched_kill, sched_block, sched_unblock, task_make,
              sched_add, ReadCpu, ReadRunning, UseCurrent
<1>6. CASE Elapse
  BY <1>6 DEF Elapse
<1> QED BY <1>1, <1>2, <1>3, <1>4, <1>5, <1>6 DEF Next

(* Two cpus share a kernel stack only while one of them switches, for      *)
(* every number of cpus: outside the window of the TODO in sched.c no task *)
(* that is called, added, killed or freed brings two cpus on one stack.    *)
THEOREM StacksAreShared == Spec => []StacksSharedInSwitch
<1>1. Init => OnOwnStack
  BY SchedAssumption DEF Init, OnOwnStack
<1>2. TypeOK /\ SchedInv /\ OnOwnStack /\ [Next]_vars => OnOwnStack'
  BY StepOnOwnStack
<1>3. SchedInv /\ OnOwnStack => StacksSharedInSwitch
  BY DEF SchedInv, OneCpuPerTask, OnOwnStack, StacksSharedInSwitch
<1> QED BY <1>1, <1>2, <1>3, TypesHold, InvariantHolds, PTL DEF Spec

-----------------------------------------------------------------------------
(***************************************************************************)
(* The sleepers, the dead and the two queues.  What is said of the queues  *)
(* themselves is for every use of the calls in which nobody kills a task   *)
(* that sleeps: with such a kill the queues break, and that is a finding.  *)
(***************************************************************************)

\* No task is killed that sleeps at times; the janitor is one that does.
NoSleeperKilled == \A kill \in Kills : NapOf(kill[2]) = {}

Sleepers == {t \in Task : "ASLEEP" \in status[t]}
Killed == {t \in Task : "DEAD" \in status[t]}

\* n was made and is not listed yet.
Fresh(n) == /\ data[n] \notin Task
            /\ n \notin Sleepers \cup Killed
            /\ \A c \in CPU : tasks_running[c] # n

\* A slot of tasks_all holds the task with its number, one that was not killed.
Listed == \A i \in Task : data[i] \in Task => data[i] = i /\ i \notin Killed

\* What task_make made is its caller's alone until it is added.
Made == \A t \in Task : at[t] = "adding" =>
            /\ Fresh(reg[t])
            /\ \A u \in Task : at[u] = "adding" /\ reg[u] = reg[t] => u = t

\* Those that sleep are tasks with a nap, those that are dead were killed.
Marks == /\ \A t \in Sleepers \cup Killed : t < curr_tid
         /\ \A t \in Sleepers : NapOf(t) # {}
         /\ \A t \in Killed : \E kill \in Kills : kill[2] = t
         /\ \A t \in Task : due[t] # -1 => t \in Sleepers \cup Killed /\ NapOf(t) # {}

\* Its time is not over: a sleeper, or a task that was killed in its sleep.
Dozes(t) == t \in Sleepers \/ due[t] # -1

\* A task that dozes executes nothing but the end of its sched_sleep.
Awake ==
    \A c \in CPU :
        LET t == tasks_running[c] IN
        /\ mode[c] = "switch" => ~Dozes(t)
        /\ mode[c] = "task" /\ Dozes(t) => at[t] \in {"halting", "hlt"}
        /\ mode[c] = "insert" => t \in Sleepers
        /\ mode[c] = "reap" => t = Janitor /\ ~Dozes(t)

UseInv == Listed /\ Made /\ Marks /\ Awake

\* The tasks of s wake in this order, the latest first.
Falls(s, d) == \A i, j \in 1..Len(s) : i < j => d[s[i]] >= d[s[j]]

\* The sleeping queue is the list s, the latest wakeup first.  While a task
\* is inserted the loop is at a task of s, all those it passed wake later
\* and it will stop.
SleepList(s) ==
    /\ s \in Seq(Task)
    /\ Represents(On(tasks_asleep), s)
    /\ \A t \in Task : Member(s, t) <=> t \in Sleepers \ Inserting
    /\ Falls(s, due)
    /\ \A c \in CPU : mode[c] = "insert" =>
           /\ \E k \in 1..Len(s) :
                  cursor = s[k] /\ \A j \in 1..k-1 : due[s[j]] > due[tasks_running[c]]
           /\ due[s[Len(s)]] <= due[tasks_running[c]]

\* The dead queue is the list d.
DeadList(d) ==
    /\ d \in Seq(Task)
    /\ Represents(On(tasks_dead), d)
    /\ \A t \in Task : Member(d, t) <=> t \in Killed \ freed

Queues(s, d) == /\ SleepList(s)
                /\ DeadList(d)
                /\ freed \subseteq Killed

QueueInv == \E s, d : Queues(s, d)

\* One operation takes the sequence s to r.
SeqStep(s, r) ==
    \/ \E t \in Task : ~Member(s, t) /\ r = <<t>> \o s
    \/ \E k \in 1..Len(s), t \in Task : ~Member(s, t) /\ r = Inserted(s, k, t)
    \/ s # << >> /\ r = Without(s, Len(s))

\* A step from the lists s and d does one operation to one of them, or none.
QueuesMove(s, d) ==
    \E r, e : /\ Queues(r, e)'
              /\ \/ UNCHANGED queues /\ r = s /\ e = d
                 \/ SeqStep(s, r) /\ e = d
                 \/ SeqStep(d, e) /\ r = s

-----------------------------------------------------------------------------
(* What tasks do, without the queues.                                      *)

LEMMA UseInit == Init => UseInv
<1> SUFFICES ASSUME Init PROVE UseInv
  OBVIOUS
<1>1. Sleepers = {} /\ Killed = {}
  BY DEF Init, Sleepers, Killed, READY
<1>2. Listed
  BY <1>1, SchedAssumption DEF Init, Listed
<1>3. Made
  BY DEF Init, Made
<1>4. Marks
  BY <1>1 DEF Init, Marks
<1>5. Awake
  BY <1>1, SchedAssumption, IdleFacts DEF Init, Awake, Dozes, IdleTasks
<1> QED BY <1>2, <1>3, <1>4, <1>5 DEF UseInv

\* With the marks, the table and the clock as they were.
LEMMA UseKept ==
    ASSUME UseInv, UNCHANGED <<data, due, curr_tid>>, Sleepers' = Sleepers, Killed' = Killed
    PROVE  Listed' /\ Marks'
BY DEF UseInv, Listed, Marks

\* With the adders as they were.
LEMMA MadeKept ==
    ASSUME UseInv, UNCHANGED <<data, tasks_running>>, Sleepers' = Sleepers, Killed' = Killed,
           \A t \in Task : at'[t] = "adding" => at[t] = "adding" /\ reg'[t] = reg[t]
    PROVE  Made'
BY DEF UseInv, Made, Fresh

LEMMA UseSwitch ==
    ASSUME TypeOK, SchedInv, OnOwnStack, UseInv, NEW c \in CPU, Switch(c)
    PROVE  UseInv'
<1> USE DEF TypeOK
<1>l. \A d \in CPU : mode[d] \in {"wake", "insert", "reap", "fault"} <=> sched_lock = d
  BY DEF SchedInv, LockHeld
<1>o. \A d, e \in CPU : d # e => tasks_running[d] # tasks_running[e]
  BY DEF SchedInv, OneCpuPerTask
<1>1. CASE SwitchBegin(c)
  <2>1. Sleepers' = Sleepers /\ Killed' = Killed
    BY <1>1 DEF SwitchBegin, Sleepers, Killed
  <2>2. Listed' /\ Marks'
    BY <1>1, <2>1, UseKept DEF SwitchBegin, tables
  <2>3. Made'
    BY <1>1, <2>1, MadeKept DEF SwitchBegin, tables
  <2>4. kstack[c] = tasks_running[c]
    BY <1>1 DEF SwitchBegin, OnOwnStack
  <2>5. Awake'
    BY <1>1, <2>1, <2>4, <1>o DEF SwitchBegin, UseInv, Awake, Dozes
  <2> QED BY <2>2, <2>3, <2>5 DEF UseInv
<1>2. CASE WakeOne(c)
  <2> DEFINE t == tasks_asleep.back
  <2>1. t \in Task /\ due[t] < 0 /\ due[t] = -1
    BY <1>2 DEF WakeOne, Overdue, Time
  <2>2. Sleepers' = Sleepers \ {t} /\ Killed' = Killed
    BY <1>2, <2>1 DEF WakeOne, Sleepers, Killed
  <2>3. /\ UNCHANGED <<data, due, curr_tid, tasks_running, mode, at, reg>>
        /\ mode[c] = "wake"
    BY <1>2 DEF WakeOne, tables
  <2> HIDE DEF t
  <2>4. Listed' /\ Made' /\ Marks'
    BY <2>1, <2>2, <2>3 DEF UseInv, Listed, Made, Marks, Fresh
  <2>5. Awake'
    BY <2>2, <2>3, <1>l DEF UseInv, Awake, Dozes
  <2> QED BY <2>4, <2>5 DEF UseInv
<1>3. CASE Choose(c)
  <2> PICK n \in Task : /\ IsNext(c, n)
                        /\ status' = [status EXCEPT ![n] = @ \cup {"RUNNING"}]
                        /\ tasks_running' = [tasks_running EXCEPT ![c] = n]
    BY <1>3 DEF Choose, MakeCurrent
  <2>1. /\ UNCHANGED <<data, due, curr_tid, at, reg>> /\ mode[c] = "wake"
        /\ mode' = [mode EXCEPT ![c] = "switch"]
    BY <1>3 DEF Choose, tables
  <2>2. Sleepers' = Sleepers /\ Killed' = Killed
    BY DEF Sleepers, Killed
  <2>3. \/ n = tasks_idle[c] /\ n \in IdleTasks
        \/ data[n] = n /\ status[n] = {}
    <3>1. ReadySlots(tasks_running[c]) \subseteq Task
      BY SchedAssumption DEF ReadySlots, Scanned, Task
    <3>2. \/ n = tasks_idle[c]
          \/ \E i \in Task : n = data[i] /\ status[n] = {}
      BY <3>1 DEF IsNext, ReadySlots, READY
    <3> QED BY <3>2 DEF UseInv, Listed, IdleTasks
  <2>4. ~Dozes(n)
    <3>1. CASE n \in IdleTasks
      <4>1. NapOf(n) = {}
        BY <3>1, UsageAssumption, IdleFacts DEF NapOf
      <4> QED BY <4>1 DEF UseInv, Marks, Dozes
    <3>2. CASE status[n] = {}
      BY <3>2 DEF UseInv, Marks, Dozes, Sleepers, Killed
    <3> QED BY <2>3, <3>1, <3>2
  <2>5. Made'
    <3>1. ASSUME NEW t \in Task, at[t] = "adding" PROVE reg[t] # n
      <4>1. reg[t] \notin IdleTasks /\ data[reg[t]] \notin Task
        BY <3>1 DEF SchedInv, Locals, UseInv, Made, Fresh
      <4> QED BY <4>1, <2>3
    <3> QED BY <3>1, <2>1, <2>2 DEF UseInv, Made, Fresh
  <2>6. Listed' /\ Marks'
    BY <2>1, <2>2, UseKept
  <2>7. Awake'
    BY <2>1, <2>2, <2>4 DEF UseInv, Awake, Dozes
  <2> QED BY <2>5, <2>6, <2>7 DEF UseInv
<1>4. CASE ChooseJunk(c)
  <2>1. /\ UNCHANGED <<data, status, due, curr_tid, at, reg, tasks_running>>
        /\ mode' = [mode EXCEPT ![c] = "fault"]
    BY <1>4 DEF ChooseJunk, Fault, tables
  <2>2. Sleepers' = Sleepers /\ Killed' = Killed
    BY <2>1 DEF Sleepers, Killed
  <2>3. Awake'
    BY <2>1, <2>2 DEF UseInv, Awake, Dozes
  <2> QED BY <2>1, <2>2, <2>3, UseKept, MadeKept DEF UseInv
<1>5. CASE FinishSwitch(c)
  <2>1. /\ UNCHANGED <<data, status, due, curr_tid, at, reg, tasks_running>>
        /\ mode[c] = "switch" /\ mode' = [mode EXCEPT ![c] = "task"]
    BY <1>5 DEF FinishSwitch, tables
  <2>2. Sleepers' = Sleepers /\ Killed' = Killed
    BY <2>1 DEF Sleepers, Killed
  <2>3. Awake'
    BY <2>1, <2>2 DEF UseInv, Awake, Dozes
  <2> QED BY <2>1, <2>2, <2>3, UseKept, MadeKept DEF UseInv
<1> QED BY <1>1, <1>2, <1>3, <1>4, <1>5 DEF Switch

LEMMA UseInsert ==
    ASSUME TypeOK, SchedInv, OnOwnStack, UseInv, NEW c \in CPU, InsertStep(c)
    PROVE  UseInv'
<1> USE DEF TypeOK
<1>1. /\ UNCHANGED <<data, status, due, curr_tid, reg, tasks_running>>
      /\ mode[c] = "insert" /\ kstack[c] = tasks_running[c]
      /\ \/ mode' = mode /\ at' = at
         \/ mode' = [mode EXCEPT ![c] = "fault"] /\ at' = at
         \/ mode' = [mode EXCEPT ![c] = "task"] /\ at' = [at EXCEPT ![kstack[c]] = "halting"]
  BY DEF InsertStep, EndInsert, Fault, tables, OnOwnStack
<1>2. Sleepers' = Sleepers /\ Killed' = Killed
  BY <1>1 DEF Sleepers, Killed
<1>3. Made'
  BY <1>1, <1>2, MadeKept
<1>4. Awake'
  BY <1>1, <1>2 DEF UseInv, Awake, Dozes
<1> QED BY <1>1, <1>2, <1>3, <1>4, UseKept DEF UseInv

LEMMA UseReap ==
    ASSUME TypeOK, SchedInv, OnOwnStack, UseInv, NEW c \in CPU, Reap(c)
    PROVE  UseInv'
<1> USE DEF TypeOK
<1>1. Sleepers' = Sleepers /\ Killed' = Killed
  BY DEF Reap, ReapBegin, ReapOne, ReapEnd, LeaveReap, Sleepers, Killed
<1>2. CASE ReapBegin(c)
  <2>1. /\ UNCHANGED <<data, due, curr_tid, reg, tasks_running, at>>
        /\ mode[c] = "task" /\ kstack[c] = Janitor /\ at[Janitor] = "run"
        /\ mode' = [mode EXCEPT ![c] = "reap"]
    BY <1>2 DEF ReapBegin, Locked, Executes, tables
  <2>2. tasks_running[c] = Janitor
    BY <2>1 DEF OnOwnStack
  <2>3. Awake'
    BY <1>1, <2>1, <2>2 DEF UseInv, Awake, Dozes
  <2> QED BY <1>1, <2>1, <2>3, UseKept, MadeKept DEF UseInv
<1>3. CASE ReapOne(c)
  <2>1. /\ UNCHANGED <<due, curr_tid, reg, tasks_running, at, mode>>
        /\ data' = [data EXCEPT ![tasks_dead.back] = NULL]
    BY <1>3 DEF ReapOne
  <2>2. Listed' /\ Marks' /\ Made' /\ Awake'
    BY <1>1, <2>1, SchedAssumption DEF UseInv, Listed, Marks, Made, Fresh, Awake, Dozes
  <2> QED BY <2>2 DEF UseInv
<1>4. CASE ReapEnd(c)
  <2>1. /\ UNCHANGED <<data, due, curr_tid, reg, tasks_running>>
        /\ mode[c] = "reap" /\ mode' = [mode EXCEPT ![c] = "task"]
        /\ at' = [at EXCEPT ![Janitor] = "nap"]
    BY <1>4 DEF ReapEnd, LeaveReap, tables
  <2>2. \A d \in CPU : d # c => tasks_running[d] # Janitor
    BY <2>1 DEF UseInv, Awake, Dozes, SchedInv, OneCpuPerTask
  <2>3. Awake'
    BY <1>1, <2>1, <2>2 DEF UseInv, Awake, Dozes
  <2>4. Made'
    BY <1>1, <2>1, MadeKept
  <2> QED BY <1>1, <2>1, <2>3, <2>4, UseKept DEF UseInv
<1> QED BY <1>2, <1>3, <1>4 DEF Reap

LEMMA UseElapse == TypeOK /\ UseInv /\ Elapse => UseInv'
<1> SUFFICES ASSUME TypeOK, UseInv, Elapse PROVE UseInv'
  OBVIOUS
<1>1. /\ UNCHANGED <<data, status, curr_tid, reg, tasks_running, at, mode>>
      /\ \A t \in Task : due'[t] # -1 => due[t] # -1
  BY DEF Elapse, tables, TypeOK
<1>2. Sleepers' = Sleepers /\ Killed' = Killed
  BY <1>1 DEF Sleepers, Killed
<1>3. Listed' /\ Marks' /\ Made'
  BY <1>1, <1>2 DEF UseInv, Listed, Marks, Made, Fresh
<1>4. Awake'
  BY <1>1, <1>2 DEF UseInv, Awake, Dozes, TypeOK
<1> QED BY <1>3, <1>4 DEF UseInv

LEMMA UseSleep ==
    ASSUME TypeOK, SchedInv, OnOwnStack, UseInv, NEW c \in CPU, NEW t \in Task,
           NEW n \in NapOf(t), SleepBegin(c, t, n)
    PROVE  UseInv'
<1> USE DEF TypeOK
<1>1. /\ UNCHANGED <<data, curr_tid, reg, tasks_running>>
      /\ mode[c] = "task" /\ at[t] # "adding" /\ kstack[c] = t
      /\ due' = [due EXCEPT ![tasks_running[c]] = n]
      /\ status' = [status EXCEPT ![tasks_running[c]] = @ \cup {"ASLEEP"}]
  BY DEF SleepBegin, Locked, Executes, tables, NapAt
<1>2. /\ at' \in {at, [at EXCEPT ![t] = "halting"]}
      /\ \/ mode' = mode /\ at' = [at EXCEPT ![t] = "halting"]
         \/ mode' \in {[mode EXCEPT ![c] = "insert"], [mode EXCEPT ![c] = "fault"]}
  BY DEF SleepBegin, Fault
<1>3. tasks_running[c] = t
  BY <1>1 DEF OnOwnStack
<1>4. Sleepers' = Sleepers \cup {t} /\ Killed' = Killed
  BY <1>1, <1>3 DEF Sleepers, Killed
<1>5. t < curr_tid
  BY <1>3 DEF SchedInv, TidsGivenOut
<1>6. Listed' /\ Marks'
  BY <1>1, <1>3, <1>4, <1>5 DEF UseInv, Listed, Marks
<1>7. Made'
  BY <1>1, <1>2, <1>3, <1>4 DEF UseInv, Made, Fresh
<1>8. Awake'
  <2>1. \A d \in CPU : d # c => tasks_running[d] # t
    BY <1>3 DEF SchedInv, OneCpuPerTask
  <2> QED BY <1>1, <1>2, <1>3, <1>4, <2>1 DEF UseInv, Awake, Dozes
<1> QED BY <1>6, <1>7, <1>8 DEF UseInv

LEMMA UseKill ==
    ASSUME TypeOK, SchedInv, OnOwnStack, UseInv,
           NEW c \in CPU, NEW t \in Task, NEW u \in Task, sched_kill(c, t, u)
    PROVE  /\ UseInv'
           /\ data[u] = u /\ u \notin Killed
           /\ Sleepers' = Sleepers \ {u} /\ Killed' = Killed \cup {u}
<1> USE DEF TypeOK
<1>1. data[u] = u /\ u \notin Killed
  BY DEF sched_kill, IsTidValid, UseInv, Listed
<1>2. <<t, u>> \in Kills
  BY DEF sched_kill
<1>3. /\ UNCHANGED <<due, curr_tid, reg, tasks_running, mode>>
      /\ mode[c] = "task" /\ at[t] = "run" /\ kstack[c] = t
      /\ data' = [data EXCEPT ![u] = NULL]
      /\ status' = [status EXCEPT ![u] = (@ \cup {"DEAD"}) \ {"ASLEEP"}]
      /\ at' \in {at, [at EXCEPT ![t] = "halting"]}
  BY <1>1 DEF sched_kill, Locked, Executes, Unlist, Return
<1>4. Sleepers' = Sleepers \ {u} /\ Killed' = Killed \cup {u}
  BY <1>3 DEF Sleepers, Killed
<1>5. tasks_running[c] = t /\ ~Dozes(t)
  BY <1>3 DEF OnOwnStack, UseInv, Awake, Dozes
<1>6. u < curr_tid
  BY <1>1 DEF SchedInv, TidsGivenOut
<1>7. Listed'
  BY <1>3, <1>4, SchedAssumption DEF UseInv, Listed
<1>8. Marks'
  BY <1>2, <1>3, <1>4, <1>6 DEF UseInv, Marks
<1>9. Made'
  <2>1. ASSUME NEW x \in Task, at'[x] = "adding" PROVE at[x] = "adding"
    BY <1>3, <2>1
  <2>2. ASSUME NEW x \in Task, at[x] = "adding" PROVE Fresh(reg[x])'
    <3>1. Fresh(reg[x]) /\ reg[x] # u /\ reg[x] \in Task
      BY <1>1, <2>2 DEF UseInv, Made, Fresh, SchedInv, Locals
    <3> QED BY <1>3, <1>4, <3>1 DEF Fresh
  <2> QED BY <1>3, <2>1, <2>2 DEF UseInv, Made
<1>10. Awake'
  <2>1. \A d \in CPU : mode[d] # "insert"
    BY SchedAssumption DEF sched_kill, Locked, SchedInv, LockHeld
  <2> QED BY <1>3, <1>4, <1>5, <2>1 DEF UseInv, Awake, Dozes
<1> QED BY <1>1, <1>2, <1>4, <1>7, <1>8, <1>9, <1>10 DEF UseInv

LEMMA UseAdd ==
    ASSUME TypeOK, SchedInv, OnOwnStack, UseInv, NEW c \in CPU, NEW t \in Task,
           task_make(c, t) \/ sched_add(c, t)
    PROVE  UseInv' /\ Sleepers' = Sleepers /\ Killed' = Killed
<1> USE DEF TypeOK
<1>0. curr_tid \in Nat /\ Task \subseteq Nat
  BY SchedAssumption DEF Task
<1>1. CASE task_make(c, t)
  <2>1. /\ UNCHANGED <<data, due, tasks_running, mode>>
        /\ mode[c] = "task" /\ at[t] = "run" /\ kstack[c] = t
        /\ curr_tid' = curr_tid + 1
        /\ status' = [status EXCEPT ![curr_tid] = READY]
        /\ at' = [at EXCEPT ![t] = "adding"]
        /\ reg' = [reg EXCEPT ![t] = curr_tid]
        /\ curr_tid \in Task
    BY <1>1, SchedAssumption DEF task_make, Executes, tables, TidLeft, Task
  <2>2. /\ \A c1 \in CPU : tasks_running[c1] # curr_tid
        /\ data[curr_tid] \notin Task
        /\ curr_tid \notin Sleepers \cup Killed
        /\ \A x \in Task : at[x] = "adding" => reg[x] # curr_tid
    BY <1>0, <2>1 DEF SchedInv, TidsGivenOut, Locals, UseInv, Listed, Marks
  <2>3. Sleepers' = Sleepers /\ Killed' = Killed
    BY <2>1, <2>2 DEF Sleepers, Killed, READY
  <2>4. Listed'
    BY <2>1, <2>3 DEF UseInv, Listed
  <2>5. Marks'
    BY <1>0, <2>1, <2>3 DEF UseInv, Marks, Sleepers, Killed
  <2>6. Made'
    BY <2>1, <2>2, <2>3 DEF UseInv, Made, Fresh
  <2>7. Awake'
    BY <2>1, <2>3 DEF UseInv, Awake, Dozes, OnOwnStack
  <2> QED BY <2>3, <2>4, <2>5, <2>6, <2>7 DEF UseInv
<1>2. CASE sched_add(c, t)
  <2> DEFINE n == reg[t]
  <2>1. /\ UNCHANGED <<status, due, tasks_running, mode, curr_tid>>
        /\ mode[c] = "task" /\ at[t] = "adding" /\ kstack[c] = t
        /\ data' = [data EXCEPT ![n] = n]
        /\ at' = [at EXCEPT ![t] = "run", ![n] = "run"]
        /\ reg' = [reg EXCEPT ![t] = NULL]
    BY <1>2 DEF sched_add, Locked, Executes
  <2>2. n \in Task /\ Fresh(n)
    BY <2>1 DEF SchedInv, Locals, UseInv, Made
  <2>3. Sleepers' = Sleepers /\ Killed' = Killed
    BY <2>1 DEF Sleepers, Killed
  <2>4. \A x \in Task : at[x] = "adding" /\ x # t => reg[x] # n
    BY <2>1 DEF UseInv, Made
  <2> HIDE DEF n
  <2>5. Listed'
    BY <2>1, <2>2, <2>3 DEF UseInv, Listed, Fresh
  <2>6. Marks'
    BY <2>1, <2>3 DEF UseInv, Marks
  <2>7. Made'
    <3>1. ASSUME NEW x \in Task, at'[x] = "adding"
          PROVE  at[x] = "adding" /\ x # t /\ reg'[x] = reg[x] /\ reg[x] \in Task
      <4>1. at[x] = "adding" /\ x # t
        BY <2>1, <2>2, <3>1
      <4> QED BY <2>1, <4>1 DEF SchedInv, Locals
    <3>2. ASSUME NEW x \in Task, at[x] = "adding", x # t, reg[x] \in Task
          PROVE  data'[reg[x]] = data[reg[x]] /\ Fresh(reg[x])
      BY <2>1, <2>4, <3>2 DEF UseInv, Made
    <3>3. ASSUME NEW x \in Task, at'[x] = "adding"
          PROVE  Fresh(reg[x])'
      <4>1. data'[reg[x]] = data[reg[x]] /\ Fresh(reg[x])
        BY <3>1, <3>2, <3>3
      <4>2. reg'[x] = reg[x]
        BY <3>1, <3>3
      <4> QED BY <2>1, <2>3, <4>1, <4>2 DEF Fresh
    <3> QED BY <3>1, <3>3 DEF UseInv, Made
  <2>8. Awake'
    BY <2>1, <2>2, <2>3 DEF UseInv, Awake, Dozes, Fresh, OnOwnStack
  <2> QED BY <2>3, <2>5, <2>6, <2>7, <2>8 DEF UseInv
<1> QED BY <1>1, <1>2

\* The calls that touch neither queue.
LEMMA UsePlain ==
    ASSUME TypeOK, SchedInv, OnOwnStack, UseInv, NEW c \in CPU, NEW t \in Task,
           \/ Halt(c, t)
           \/ \E u \in Task : \/ sched_block(c, t, u)
                              \/ sched_unblock(c, t, u)
                              \/ CallJunk(c, t, u)
           \/ ReadCpu(c, t)
           \/ ReadRunning(c, t)
           \/ UseCurrent(c, t)
    PROVE  UseInv' /\ Sleepers' = Sleepers /\ Killed' = Killed
<1> USE DEF TypeOK
<1>1. /\ UNCHANGED <<data, due, tasks_running, curr_tid>>
      /\ mode[c] = "task" /\ kstack[c] = t
      /\ mode' \in {mode, [mode EXCEPT ![c] = "fault"]}
  BY DEF Halt, sched_block, sched_unblock, CallJunk, Fault, ReadCpu, ReadRunning,
         UseCurrent, Locked, Executes, tables
<1>2. tasks_running[c] = t
  BY <1>1 DEF OnOwnStack
<1>3. \/ /\ at[t] = "run" /\ at' \in {at, [at EXCEPT ![t] = "halting"]} /\ reg' = reg
      \/ /\ at[t] = "halting" /\ at' = [at EXCEPT ![t] = "hlt"] /\ reg' = reg
      \/ /\ at[t] \in {"run", "asking", "asked"}
         /\ \E a \in {"run", "asking", "asked"} : at' = [at EXCEPT ![t] = a]
         /\ \E r : reg' = [reg EXCEPT ![t] = r]
  <2>1. CASE Halt(c, t)
    BY <2>1 DEF Halt
  <2>2. ASSUME NEW u \in Task, sched_block(c, t, u) \/ sched_unblock(c, t, u) \/ CallJunk(c, t, u)
        PROVE  at[t] = "run" /\ at' \in {at, [at EXCEPT ![t] = "halting"]} /\ reg' = reg
    BY <2>2 DEF sched_block, sched_unblock, CallJunk, Return, Locked
  <2>3. CASE ReadCpu(c, t)
    BY <2>3 DEF ReadCpu
  <2>4. CASE ReadRunning(c, t)
    BY <2>4 DEF ReadRunning
  <2>5. CASE UseCurrent(c, t)
    BY <2>5 DEF UseCurrent
  <2> QED BY <2>1, <2>2, <2>3, <2>4, <2>5
<1>4. Sleepers' = Sleepers /\ Killed' = Killed
  <2>1. ASSUME NEW u \in Task, sched_block(c, t, u) \/ sched_unblock(c, t, u)
        PROVE  \/ status' = [status EXCEPT ![data[u]] = @ \cup {"BLOCKED"}]
               \/ status' = [status EXCEPT ![data[u]] = @ \ {"BLOCKED"}]
    BY <2>1 DEF sched_block, sched_unblock
  <2>2. \/ status' = status
        \/ \E u \in Task : \/ status' = [status EXCEPT ![data[u]] = @ \cup {"BLOCKED"}]
                           \/ status' = [status EXCEPT ![data[u]] = @ \ {"BLOCKED"}]
    BY <2>1 DEF Halt, CallJunk, ReadCpu, ReadRunning, UseCurrent
  <2> QED BY <2>2 DEF Sleepers, Killed
<1>5. \A x \in Task : at'[x] = "adding" => at[x] = "adding" /\ reg'[x] = reg[x]
  BY <1>3
<1>6. Made'
  BY <1>1, <1>4, <1>5, MadeKept
<1>7. Awake'
  BY <1>1, <1>2, <1>3, <1>4 DEF UseInv, Awake, Dozes
<1> QED BY <1>1, <1>4, <1>6, <1>7, UseKept DEF UseInv

LEMMA UseStep ==
    ASSUME TypeOK, SchedInv, OnOwnStack, UseInv, [Next]_vars
    PROVE  UseInv'
<1>1. CASE UNCHANGED vars
  BY <1>1 DEF vars, UseInv, Listed, Made, Marks, Awake, Dozes, Fresh, Sleepers, Killed
<1>2. ASSUME NEW c \in CPU, NEW t \in Task, Call(c, t) PROVE UseInv'
  BY <1>2, UseSleep, UseKill, UseAdd, UsePlain DEF Call
<1>3. CASE Next
  BY <1>2, <1>3, UseSwitch, UseInsert, UseReap, UseElapse DEF Next
<1> QED BY <1>1, <1>3

LEMMA UseAlways == Spec => [](TypeOK /\ SchedInv /\ OnOwnStack /\ UseInv)
<1>1. Init => OnOwnStack /\ UseInv
  BY UseInit DEF Init, OnOwnStack
<1>2. TypeOK /\ SchedInv /\ OnOwnStack /\ UseInv /\ [Next]_vars => (OnOwnStack /\ UseInv)'
  BY StepOnOwnStack, UseStep
<1> QED BY <1>1, <1>2, TypesHold, InvariantHolds, PTL DEF Spec

(* No task is back from sched_sleep before its time is over, whoever is    *)
(* killed meanwhile and whatever that does to the queues.                  *)
THEOREM NoEarlyWake == Spec => []SleepsLongEnough
<1>1. TypeOK /\ OnOwnStack /\ UseInv => SleepsLongEnough
  BY DEF TypeOK, OnOwnStack, UseInv, Marks, Awake, Dozes, SleepsLongEnough
<1> QED BY <1>1, UseAlways, PTL

-----------------------------------------------------------------------------
(* What one operation leaves alone, and what an inserted task does to a    *)
(* list.                                                                   *)

\* A list is its two ends and the links of its members.
LEMMA ListFrame ==
    ASSUME NEW h, NEW g, NEW s, Represents(h, s), g.front = h.front, g.back = h.back,
           \A i \in 1..Len(s) : g.next[s[i]] = h.next[s[i]] /\ g.prev[s[i]] = h.prev[s[i]]
    PROVE  Represents(g, s)
BY DEF Represents

LEMMA HeapTypes == HeapType = Heap(Task)
BY DEF HeapType, Heap, Link

LEMMA PushFrontFrame ==
    ASSUME NEW h \in HeapType, NEW s \in Seq(Task), Represents(h, s), NEW t \in Task,
           NEW x \in Task, x # t, ~Member(s, x)
    PROVE  LET g == tq_push_front(h, t) IN g.next[x] = h.next[x] /\ g.prev[x] = h.prev[x]
<1>1. h.front # x
  <2>1. CASE s = <<>>
    BY <2>1, SchedAssumption DEF Represents
  <2>2. CASE s # <<>>
    BY <2>2 DEF Represents, Member
  <2> QED BY <2>1, <2>2
<1>2. h.next \in [Task -> Link] /\ h.prev \in [Task -> Link] /\ h.front \in Link
  BY DEF HeapType
<1> QED BY <1>1, <1>2 DEF tq_push_front, Link

LEMMA PopBackFrame ==
    ASSUME NEW h \in HeapType, NEW s \in Seq(Task), Represents(h, s), s # <<>>,
           NEW x \in Task, ~Member(s, x)
    PROVE  LET g == tq_pop_back(h) IN g.next[x] = h.next[x] /\ g.prev[x] = h.prev[x]
<1>1. Len(s) \in Nat \ {0} /\ h.back = s[Len(s)]
  BY DEF Represents
<1>2. h.prev[h.back] # x
  <2>0. Len(s) \in 1..Len(s)
    BY <1>1
  <2>1. h.prev[s[Len(s)]] = IF Len(s) = 1 THEN NULL ELSE s[Len(s)-1]
    BY <2>0 DEF Represents
  <2>2. CASE Len(s) = 1
    BY <1>1, <2>1, <2>2, SchedAssumption
  <2>3. CASE Len(s) # 1
    <3> DEFINE n == Len(s)
    <3>0. n \in Nat \ {0} /\ n # 1
      BY <1>1, <2>3
    <3>1. n-1 \in 1..n
      <4> HIDE DEF n
      <4> QED BY <3>0
    <3> QED BY <1>1, <2>1, <2>3, <3>1 DEF Member
  <2> QED BY <2>2, <2>3
<1> QED BY <1>2 DEF tq_pop_back, HeapType

LEMMA UnlinkedFrame ==
    ASSUME NEW h \in HeapType, NEW t \in Task, NEW x \in Task, x # t
    PROVE  LET u == Unlinked(h, t) IN
           /\ u.front = h.front /\ u.back = h.back
           /\ u.next[x] = h.next[x] /\ u.prev[x] = h.prev[x]
BY DEF Unlinked, HeapType

LEMMA InsertAfterFrame ==
    ASSUME NEW h \in HeapType, NEW s \in Seq(Task), Represents(h, s), NEW t \in Task,
           ~Member(s, t), NEW k \in 1..Len(s),
           NEW x \in Task, x # t, ~Member(s, x)
    PROVE  LET g == tq_insert_after(h, s[k], t) IN
           g.next[x] = h.next[x] /\ g.prev[x] = h.prev[x]
<1> DEFINE u == Unlinked(h, t)
<1>1. s[k] \in Task /\ s[k] # NULL /\ s[k] # x /\ s[k] # t
  BY SchedAssumption DEF Member
<1>2. u \in HeapType
  BY DEF Unlinked, HeapType, Link
<1>3. u.next[x] = h.next[x] /\ u.prev[x] = h.prev[x] /\ u.next[s[k]] = h.next[s[k]]
  BY <1>1, UnlinkedFrame
<1>4. h.next[s[k]] # x
  <2>1. h.next[s[k]] = IF k = Len(s) THEN NULL ELSE s[k+1]
    BY DEF Represents
  <2>2. CASE k = Len(s)
    BY <2>1, <2>2, SchedAssumption
  <2>3. CASE k # Len(s)
    <3>1. k+1 \in 1..Len(s)
      BY <2>3
    <3> QED BY <2>1, <2>3, <3>1 DEF Member
  <2> QED BY <2>2, <2>3
<1> HIDE DEF u
<1>5. u.next \in [Task -> Link] /\ u.prev \in [Task -> Link]
  BY <1>2 DEF HeapType
<1>6. tq_insert_after(h, s[k], t) =
          IF s[k] = h.back
          THEN [u EXCEPT !.next[s[k]] = t, !.prev[t] = s[k], !.back = t]
          ELSE [u EXCEPT !.prev[u.next[s[k]]] = t, !.next[s[k]] = t,
                         !.prev[t] = s[k], !.next[t] = u.next[s[k]]]
  BY <1>1 DEF tq_insert_after, u
<1>7. CASE s[k] = h.back
  BY <1>1, <1>2, <1>3, <1>5, <1>6, <1>7 DEF HeapType
<1>8. CASE s[k] # h.back
  BY <1>1, <1>2, <1>3, <1>4, <1>5, <1>6, <1>8 DEF HeapType
<1> QED BY <1>7, <1>8

\* r is s with t between its m-th element and the next.
Puts(s, r, t, m) ==
    /\ r \in Seq(Task)
    /\ Len(r) = Len(s) + 1
    /\ \A i \in 1..Len(r) : r[i] = IF i <= m THEN s[i] ELSE IF i = m+1 THEN t ELSE s[i-1]

LEMMA PutMembers ==
    ASSUME NEW s \in Seq(Task), NEW r, NEW t \in Task, NEW m \in 0..Len(s), Puts(s, r, t, m)
    PROVE  \A x : Member(r, x) <=> Member(s, x) \/ x = t
<1>1. ASSUME NEW x, Member(r, x) PROVE Member(s, x) \/ x = t
  <2> PICK i \in 1..Len(r) : r[i] = x
    BY <1>1 DEF Member
  <2>1. CASE i <= m
    BY <2>1 DEF Puts, Member
  <2>2. CASE i = m+1
    BY <2>2 DEF Puts
  <2>3. CASE i > m+1
    <3>1. i-1 \in 1..Len(s) /\ x = s[i-1]
      BY <2>3 DEF Puts
    <3> QED BY <3>1 DEF Member
  <2> QED BY <2>1, <2>2, <2>3 DEF Puts
<1>2. ASSUME NEW x, Member(s, x) PROVE Member(r, x)
  <2> PICK i \in 1..Len(s) : s[i] = x
    BY <1>2 DEF Member
  <2>1. CASE i <= m
    <3>1. i \in 1..Len(r) /\ r[i] = x
      BY <2>1 DEF Puts
    <3> QED BY <3>1 DEF Member
  <2>2. CASE i > m
    <3>1. i+1 \in 1..Len(r) /\ i+1 > m /\ (i+1)-1 = i /\ (i+1 = m+1 => i = m)
      BY <2>2 DEF Puts
    <3>2. r[i+1] = x
      BY <2>2, <3>1 DEF Puts
    <3> QED BY <3>1, <3>2 DEF Member
  <2> QED BY <2>1, <2>2
<1>3. Member(r, t)
  <2>1. m+1 \in 1..Len(r) /\ r[m+1] = t
    BY DEF Puts
  <2> QED BY <2>1 DEF Member
<1> QED BY <1>1, <1>2, <1>3

LEMMA PutFalls ==
    ASSUME NEW s \in Seq(Task), NEW r, NEW t \in Task, NEW m \in 0..Len(s), Puts(s, r, t, m),
           NEW d \in [Task -> Time], Falls(s, d),
           \A i \in 1..Len(s) : i <= m => d[s[i]] >= d[t],
           \A i \in 1..Len(s) : i > m => d[t] >= d[s[i]]
    PROVE  Falls(r, d)
<1> SUFFICES ASSUME NEW i \in 1..Len(r), NEW j \in 1..Len(r), i < j
             PROVE  d[r[i]] >= d[r[j]]
  BY DEF Falls
<1>0. /\ Len(s) \in Nat /\ m \in Nat /\ Len(r) = Len(s) + 1
      /\ \A x \in 1..Len(s) : d[s[x]] \in Int
      /\ d[t] \in Int
  BY DEF Puts, Time
<1>1. CASE j <= m
  <2>1. i \in 1..Len(s) /\ j \in 1..Len(s) /\ i <= m
    BY <1>0, <1>1
  <2>2. r[i] = s[i] /\ r[j] = s[j]
    BY <1>1, <2>1 DEF Puts
  <2> QED BY <2>1, <2>2 DEF Falls
<1>2. CASE j = m+1
  BY <1>0, <1>2 DEF Puts, Falls
<1>3. CASE j > m+1 /\ i <= m
  <2>1. r[i] = s[i] /\ r[j] = s[j-1] /\ i \in 1..Len(s) /\ j-1 \in 1..Len(s) /\ i < j-1
    BY <1>0, <1>3 DEF Puts
  <2> QED BY <2>1 DEF Falls
<1>4. CASE j > m+1 /\ i = m+1
  <2>1. r[i] = t /\ r[j] = s[j-1] /\ j-1 \in 1..Len(s) /\ j-1 > m
    BY <1>0, <1>4 DEF Puts
  <2> QED BY <2>1
<1>5. CASE i > m+1
  <2>1. r[i] = s[i-1] /\ r[j] = s[j-1] /\ i-1 \in 1..Len(s) /\ j-1 \in 1..Len(s) /\ i-1 < j-1
    BY <1>0, <1>5 DEF Puts
  <2> QED BY <2>1 DEF Falls
<1> QED BY <1>0, <1>1, <1>2, <1>3, <1>4, <1>5

LEMMA PutFirst ==
    ASSUME NEW s \in Seq(Task), NEW t \in Task
    PROVE  Puts(s, <<t>> \o s, t, 0)
<1> DEFINE r == <<t>> \o s
<1>1. /\ r \in Seq(Task) /\ Len(r) = Len(s) + 1 /\ Len(s) \in Nat
      /\ r[1] = t
      /\ \A i \in 2..Len(r) : r[i] = s[i-1]
  BY Prepended
<1> HIDE DEF r
<1>2. Puts(s, r, t, 0)
  BY <1>1 DEF Puts
<1> QED BY <1>2 DEF r

LEMMA PutBehind ==
    ASSUME NEW s \in Seq(Task), NEW t \in Task, NEW k \in 1..Len(s)
    PROVE  Puts(s, Inserted(s, k, t), t, k)
<1> DEFINE r == Inserted(s, k, t)
<1>1. Len(s) \in Nat /\ k \in Nat /\ k <= Len(s)
  OBVIOUS
<1>2. \A i \in 1..Len(s)+1 : (IF i <= k THEN s[i] ELSE IF i = k+1 THEN t ELSE s[i-1]) \in Task
  BY <1>1
<1>3. r = [i \in 1..Len(s)+1 |-> IF i <= k THEN s[i] ELSE IF i = k+1 THEN t ELSE s[i-1]]
  BY DEF Inserted
<1>4. r \in [1..Len(s)+1 -> Task]
  BY <1>2, <1>3
<1>5. r \in Seq(Task) /\ Len(r) = Len(s)+1
  BY <1>1, <1>4
<1> QED BY <1>3, <1>5 DEF Puts

\* The list without its last task.
LEMMA DropLast ==
    ASSUME NEW s \in Seq(Task), s # <<>>,
           \A i, j \in 1..Len(s) : s[i] = s[j] => i = j
    PROVE  LET r == Without(s, Len(s)) IN
           /\ r \in Seq(Task)
           /\ Len(r) = Len(s) - 1
           /\ \A i \in 1..Len(r) : r[i] = s[i]
           /\ \A x : Member(r, x) <=> Member(s, x) /\ x # s[Len(s)]
<1> DEFINE n == Len(s)
           r == Without(s, n)
<1>1. n \in Nat \ {0}
  OBVIOUS
<1>2. r = [j \in 1..n-1 |-> s[j]]
  BY <1>1 DEF Without
<1>3. r \in [1..n-1 -> Task]
  BY <1>1, <1>2
<1>4. r \in Seq(Task) /\ Len(r) = n - 1 /\ \A i \in 1..n-1 : r[i] = s[i]
  BY <1>1, <1>2, <1>3
<1>5. ASSUME NEW x PROVE Member(r, x) <=> Member(s, x) /\ x # s[n]
  BY <1>1, <1>4 DEF Member
<1> QED BY <1>4, <1>5

-----------------------------------------------------------------------------
(* The queues are those lists.                                             *)

LEMMA QueueInit == Init => QueueInv
<1> SUFFICES ASSUME Init PROVE QueueInv
  OBVIOUS
<1>1. Sleepers = {} /\ Killed = {} /\ Inserting = {}
  BY DEF Init, Sleepers, Killed, Inserting, READY
<1>2. << >> \in Seq(Task) /\ Len(<< >>) = 0 /\ \A t : ~Member(<< >>, t)
  BY DEF Member
<1>3. SleepList(<< >>)
  BY <1>1, <1>2 DEF Init, SleepList, Falls, Represents, On
<1>4. DeadList(<< >>)
  BY <1>1, <1>2 DEF Init, DeadList, Represents, On
<1> QED BY <1>1, <1>3, <1>4 DEF Queues, QueueInv, Init

LEMMA SleepKept ==
    ASSUME NEW s, SleepList(s), UNCHANGED <<tasks_asleep, due>>, Sleepers' = Sleepers,
           Inserting' = Inserting,
           \A t \in Sleepers \ Inserting : next'[t] = next[t] /\ prev'[t] = prev[t],
           \A c \in CPU : mode'[c] = "insert" =>
               mode[c] = "insert" /\ UNCHANGED <<cursor, tasks_running[c]>>
    PROVE  SleepList(s)'
<1>1. \A i \in 1..Len(s) : s[i] \in Task /\ s[i] \in Sleepers \ Inserting
  BY DEF SleepList, Member
<1>2. Represents(On(tasks_asleep)', s)
  <2>1. Represents(On(tasks_asleep), s)
    BY DEF SleepList
  <2>2. /\ On(tasks_asleep)'.front = On(tasks_asleep).front
        /\ On(tasks_asleep)'.back = On(tasks_asleep).back
        /\ \A i \in 1..Len(s) : /\ On(tasks_asleep)'.next[s[i]] = On(tasks_asleep).next[s[i]]
                                /\ On(tasks_asleep)'.prev[s[i]] = On(tasks_asleep).prev[s[i]]
    BY <1>1 DEF On
  <2> QED BY <2>1, <2>2, ListFrame
<1>3. Falls(s, due)'
  BY DEF SleepList, Falls
<1>4. \A t \in Task : Member(s, t) <=> t \in Sleepers' \ Inserting'
  BY DEF SleepList
<1>5. ASSUME NEW c \in CPU, mode'[c] = "insert"
      PROVE  /\ \E k \in 1..Len(s) :
                    cursor' = s[k] /\ \A j \in 1..k-1 : due'[s[j]] > due'[tasks_running'[c]]
             /\ due'[s[Len(s)]] <= due'[tasks_running'[c]]
  BY <1>5 DEF SleepList
<1> QED BY <1>2, <1>3, <1>4, <1>5 DEF SleepList

LEMMA DeadKept ==
    ASSUME NEW d, DeadList(d), UNCHANGED <<tasks_dead, freed>>, Killed' = Killed,
           \A t \in Killed \ freed : next'[t] = next[t] /\ prev'[t] = prev[t]
    PROVE  DeadList(d)'
<1>1. \A i \in 1..Len(d) : d[i] \in Task /\ d[i] \in Killed \ freed
  BY DEF DeadList, Member
<1>2. Represents(On(tasks_dead)', d)
  <2>1. Represents(On(tasks_dead), d)
    BY DEF DeadList
  <2>2. /\ On(tasks_dead)'.front = On(tasks_dead).front
        /\ On(tasks_dead)'.back = On(tasks_dead).back
        /\ \A i \in 1..Len(d) : /\ On(tasks_dead)'.next[d[i]] = On(tasks_dead).next[d[i]]
                                /\ On(tasks_dead)'.prev[d[i]] = On(tasks_dead).prev[d[i]]
    BY <1>1 DEF On
  <2> QED BY <2>1, <2>2, ListFrame
<1> QED BY <1>2 DEF DeadList

\* A step that touches no queue.
LEMMA QueuesKept ==
    ASSUME NEW s, NEW d, SleepList(s), DeadList(d), freed \subseteq Killed, UNCHANGED <<queues, due, freed>>,
           Sleepers' = Sleepers, Killed' = Killed, Inserting' = Inserting,
           \A c \in CPU : mode'[c] = "insert" =>
               mode[c] = "insert" /\ UNCHANGED <<cursor, tasks_running[c]>>
    PROVE  QueuesMove(s, d)
<1>1. SleepList(s)'
  BY SleepKept DEF queues
<1>2. DeadList(d)'
  BY DeadKept DEF queues
<1> QED BY <1>1, <1>2 DEF Queues, QueuesMove

\* A sleeper and a dead task are never the same.
LEMMA ListsApart ==
    NoSleeperKilled /\ UseInv => Sleepers \cap Killed = {}
BY DEF NoSleeperKilled, UseInv, Marks

LEMMA HeapsTyped ==
    TypeOK => On(tasks_asleep) \in HeapType /\ On(tasks_dead) \in HeapType
BY OnType DEF TypeOK, Link

LEMMA QueueSwitch ==
    ASSUME NoSleeperKilled, TypeOK, SchedInv, OnOwnStack, UseInv,
           NEW s, NEW d, SleepList(s), DeadList(d), freed \subseteq Killed,
           NEW c \in CPU, Switch(c)
    PROVE  QueuesMove(s, d)
<1> USE DEF TypeOK
<1>l. \A e \in CPU : mode[e] \in {"wake", "insert", "reap", "fault"} <=> sched_lock = e
  BY DEF SchedInv, LockHeld
<1>f. \A e \in CPU : Free # e
  BY SchedAssumption
<1>1. CASE SwitchBegin(c)
  <2>1. Sleepers' = Sleepers /\ Killed' = Killed
    BY <1>1 DEF SwitchBegin, Sleepers, Killed
  <2>2. \A e \in CPU : mode[e] # "insert" /\ mode'[e] # "insert"
    BY <1>1, <1>l, <1>f DEF SwitchBegin
  <2>3. Inserting' = Inserting
    BY <2>2 DEF Inserting
  <2> QED BY <1>1, <2>1, <2>2, <2>3, QueuesKept DEF SwitchBegin
<1>2. CASE WakeOne(c)
  <2> DEFINE h == On(tasks_asleep)
             t == tasks_asleep.back
             g == tq_pop_back(h)
  <2>1. /\ mode[c] = "wake" /\ tasks_asleep.back # NULL
        /\ tasks_asleep' = Ends(g) /\ next' = g.next /\ prev' = g.prev
        /\ status' = [status EXCEPT ![t] = @ \ {"ASLEEP"}]
        /\ UNCHANGED <<tasks_dead, due, mode, cursor, tasks_running, freed>>
    BY <1>2 DEF WakeOne, Overdue, Relink
  <2>2. \A e \in CPU : mode[e] # "insert" /\ mode'[e] # "insert"
    BY <2>1, <1>l
  <2>3. Inserting = {} /\ Inserting' = {}
    BY <2>2 DEF Inserting
  <2>4. s \in Seq(Task) /\ Represents(h, s) /\ h \in HeapType
    BY HeapsTyped DEF SleepList
  <2>5. s # << >>
    BY <2>1, <2>4 DEF Represents, On
  <2> DEFINE r == Without(s, Len(s))
  <2>6. t = s[Len(s)] /\ Represents(g, r)
    <3>1. h.back = s[Len(s)] /\ Represents(g, r)
      BY <2>4, <2>5, PopBackRepresents, HeapTypes, SchedAssumption
    <3> QED BY <3>1 DEF On
  <2>7. /\ r \in Seq(Task) /\ Len(r) = Len(s) - 1
        /\ \A i \in 1..Len(r) : r[i] = s[i]
        /\ \A x : Member(r, x) <=> Member(s, x) /\ x # t
    <3>1. \A i, j \in 1..Len(s) : s[i] = s[j] => i = j
      BY <2>4 DEF Represents
    <3>2. /\ r \in Seq(Task) /\ Len(r) = Len(s) - 1
          /\ \A i \in 1..Len(r) : r[i] = s[i]
          /\ \A x : Member(r, x) <=> Member(s, x) /\ x # s[Len(s)]
      BY ONLY <2>4, <2>5, <3>1, DropLast, Zenon
    <3>3. t = s[Len(s)]
      BY <2>6
    <3> HIDE DEF r, t
    <3> QED BY <3>2, <3>3
  <2>8. Sleepers' = Sleepers \ {t} /\ Killed' = Killed
    BY <2>1 DEF Sleepers, Killed
  <2>9. SleepList(r)'
    <3>1. Represents(On(tasks_asleep)', r)
      <4>1. /\ On(tasks_asleep)'.front = g.front /\ On(tasks_asleep)'.back = g.back
            /\ On(tasks_asleep)'.next = g.next /\ On(tasks_asleep)'.prev = g.prev
        BY <2>1 DEF On, Ends
      <4> HIDE DEF g, r
      <4> QED BY <4>1, <2>6, ListFrame
    <3>2. Falls(r, due)'
      <4>1. Len(s) \in Nat /\ due' = due /\ Falls(s, due)
        BY <2>1, <2>4 DEF SleepList
      <4>2. Len(r) = Len(s) - 1 /\ \A i \in 1..Len(r) : r[i] = s[i]
        BY <2>7
      <4> HIDE DEF r
      <4>3. Falls(r, due)
        BY <4>1, <4>2 DEF Falls
      <4> QED BY <4>1, <4>3
    <3>3. \A x \in Task : Member(r, x) <=> x \in Sleepers' \ Inserting'
      BY <2>3, <2>7, <2>8 DEF SleepList
    <3> HIDE DEF r
    <3> QED BY <2>2, <2>7, <3>1, <3>2, <3>3 DEF SleepList
  <2>10. DeadList(d)'
    <3>1. ASSUME NEW x \in Killed \ freed PROVE next'[x] = next[x] /\ prev'[x] = prev[x]
      <4>1. x \in Task /\ ~Member(s, x)
        BY <2>3, <3>1, ListsApart DEF SleepList, Killed
      <4>2. g.next[x] = h.next[x] /\ g.prev[x] = h.prev[x]
        BY <2>4, <2>5, <4>1, PopBackFrame
      <4> HIDE DEF g
      <4> QED BY <2>1, <4>2 DEF On
    <3>2. UNCHANGED <<tasks_dead, freed>>
      BY <2>1
    <3> HIDE DEF g, h, t
    <3> QED BY <2>8, <3>1, <3>2, DeadKept
  <2>11. Queues(r, d)'
    BY <2>1, <2>8, <2>9, <2>10 DEF Queues
  <2>12. SeqStep(s, r)
    BY <2>5 DEF SeqStep
  <2> QED BY <2>11, <2>12 DEF QueuesMove
<1>3. CASE Choose(c)
  <2> PICK n \in Task : /\ status' = [status EXCEPT ![n] = @ \cup {"RUNNING"}]
                        /\ tasks_running' = [tasks_running EXCEPT ![c] = n]
    BY <1>3 DEF Choose, MakeCurrent
  <2>1. Sleepers' = Sleepers /\ Killed' = Killed
    BY DEF Sleepers, Killed
  <2>2. \A e \in CPU : mode[e] # "insert" /\ mode'[e] # "insert"
    BY <1>3, <1>l DEF Choose
  <2>3. Inserting' = Inserting
    BY <2>2 DEF Inserting
  <2> QED BY <1>3, <2>1, <2>2, <2>3, QueuesKept DEF Choose
<1>4. CASE ChooseJunk(c)
  <2>1. Sleepers' = Sleepers /\ Killed' = Killed
    BY <1>4 DEF ChooseJunk, Sleepers, Killed
  <2>2. \A e \in CPU : mode[e] # "insert" /\ mode'[e] # "insert"
    BY <1>4, <1>l DEF ChooseJunk, Fault
  <2>3. Inserting' = Inserting
    BY <2>2 DEF Inserting
  <2> QED BY <1>4, <2>1, <2>2, <2>3, QueuesKept DEF ChooseJunk
<1>5. CASE FinishSwitch(c)
  <2>1. Sleepers' = Sleepers /\ Killed' = Killed
    BY <1>5 DEF FinishSwitch, Sleepers, Killed
  <2>2. \A e \in CPU : mode'[e] = "insert" <=> mode[e] = "insert"
    BY <1>5 DEF FinishSwitch
  <2>3. Inserting' = Inserting
    BY <1>5, <2>2 DEF FinishSwitch, Inserting
  <2> QED BY <1>5, <2>1, <2>2, <2>3, QueuesKept DEF FinishSwitch
<1> QED BY <1>1, <1>2, <1>3, <1>4, <1>5 DEF Switch

\* A task put somewhere into the sleeping queue.
LEMMA SleepPut ==
    ASSUME TypeOK', NEW s, NEW r, NEW t \in Task, NEW m \in 0..Len(s),
           s \in Seq(Task), Puts(s, r, t, m), Represents(On(tasks_asleep)', r),
           Falls(s, due'),
           \A i \in 1..Len(s) : i <= m => due'[s[i]] >= due'[t],
           \A i \in 1..Len(s) : i > m => due'[t] >= due'[s[i]],
           \A x \in Task : x \in Sleepers' <=> Member(s, x) \/ x = t,
           \A c \in CPU : mode'[c] # "insert"
    PROVE  SleepList(r)'
<1>1. due' \in [Task -> Time]
  BY DEF TypeOK
<1>2. Falls(r, due)'
  BY <1>1, PutFalls
<1>3. Inserting' = {}
  BY DEF Inserting
<1>4. \A x \in Task : Member(r, x) <=> x \in Sleepers' \ Inserting'
  BY <1>3, PutMembers
<1> QED BY <1>2, <1>4 DEF SleepList, Puts

\* A task put in front of the dead queue.
LEMMA DeadPut ==
    ASSUME NEW d \in Seq(Task), NEW t \in Task, Represents(On(tasks_dead)', <<t>> \o d),
           \A x \in Task : x \in Killed' \ freed' <=> Member(d, x) \/ x = t
    PROVE  DeadList(<<t>> \o d)'
<1>1. Puts(d, <<t>> \o d, t, 0) /\ 0 \in 0..Len(d)
  BY PutFirst
<1>2. \A x : Member(<<t>> \o d, x) <=> Member(d, x) \/ x = t
  BY <1>1, PutMembers
<1> QED BY <1>1, <1>2 DEF DeadList, Puts

LEMMA QueueSleep ==
    ASSUME NoSleeperKilled, TypeOK, SchedInv, OnOwnStack, UseInv,
           NEW s, NEW d, SleepList(s), DeadList(d), freed \subseteq Killed, TypeOK', UseInv',
           NEW c \in CPU, NEW t \in Task, NEW n \in NapOf(t), SleepBegin(c, t, n)
    PROVE  QueuesMove(s, d)
<1> USE DEF TypeOK
<1>l. \A e \in CPU : mode[e] \in {"wake", "insert", "reap", "fault"} <=> sched_lock = e
  BY DEF SchedInv, LockHeld
<1>f. \A e \in CPU : Free # e
  BY SchedAssumption
<1> DEFINE h == On(tasks_asleep)
<1>1. /\ UNCHANGED <<tasks_dead, freed, tasks_running>>
      /\ mode[c] = "task" /\ kstack[c] = t /\ at[t] \in {"nap", "run"} /\ sched_lock = Free
      /\ due' = [due EXCEPT ![tasks_running[c]] = n]
      /\ status' = [status EXCEPT ![tasks_running[c]] = @ \cup {"ASLEEP"}]
  BY DEF SleepBegin, Locked, Executes, NapAt
<1>2. tasks_running[c] = t /\ t \notin Sleepers
  BY <1>1 DEF OnOwnStack, UseInv, Awake, Dozes
<1>3. \A e \in CPU : mode[e] # "insert"
  BY <1>1, <1>l, <1>f
<1>4. Inserting = {}
  BY <1>3 DEF Inserting
<1>5. Sleepers' = Sleepers \cup {t} /\ Killed' = Killed
  BY <1>1, <1>2 DEF Sleepers, Killed
<1>6. t \notin Killed
  <2>1. t \in Sleepers' /\ UseInv'
    BY <1>5
  <2>2. NapOf(t) # {}
    BY <2>1 DEF UseInv, Marks
  <2> QED BY <2>2 DEF NoSleeperKilled, UseInv, Marks
<1>7. /\ s \in Seq(Task) /\ Len(s) \in Nat
      /\ Represents(h, s) /\ h \in HeapType /\ h \in Heap(Task)
      /\ \A x \in Task : Member(s, x) <=> x \in Sleepers
      /\ Falls(s, due)
  BY <1>4, HeapsTyped, HeapTypes DEF SleepList
<1>8. ~Member(s, t) /\ \A i \in 1..Len(s) : s[i] \in Task /\ s[i] # t
  BY <1>2, <1>7 DEF Member
<1>9. \A i \in 1..Len(s) : due'[s[i]] = due[s[i]] /\ due'[t] = n
  BY <1>1, <1>2, <1>8
<1>10. Falls(s, due')
  BY <1>7, <1>9 DEF Falls
<1>11. h.front = tasks_asleep.front /\ h.back = tasks_asleep.back
  BY DEF On
<1>12. /\ s = << >> => tasks_asleep.front = NULL
       /\ s # << >> => /\ tasks_asleep.front = s[1] /\ tasks_asleep.front # NULL
                       /\ tasks_asleep.back = s[Len(s)] /\ tasks_asleep.back # NULL
                       /\ 1 \in 1..Len(s) /\ Len(s) \in 1..Len(s)
  <2>1. CASE s = << >>
    BY <1>7, <1>11, <2>1 DEF Represents
  <2>2. CASE s # << >>
    <3>1. 1 \in 1..Len(s) /\ Len(s) \in 1..Len(s)
      BY <1>7, <2>2
    <3>2. tasks_asleep.front = s[1] /\ tasks_asleep.back = s[Len(s)]
      BY <1>7, <1>11, <2>2 DEF Represents
    <3> QED BY <1>8, <2>2, <3>1, <3>2, SchedAssumption
  <2> QED BY <2>1, <2>2
<1>13. NULL \notin Task
  BY SchedAssumption
<1> HIDE DEF h
<1>14. ASSUME NEW g, tasks_asleep' = Ends(g), next' = g.next, prev' = g.prev,
              NEW r, Represents(g, r)
       PROVE  Represents(On(tasks_asleep)', r)
  <2>1. /\ On(tasks_asleep)'.front = g.front /\ On(tasks_asleep)'.back = g.back
        /\ On(tasks_asleep)'.next = g.next /\ On(tasks_asleep)'.prev = g.prev
    BY <1>14 DEF On, Ends
  <2> QED BY <1>14, <2>1, ListFrame
<1>15. ASSUME NEW g, next' = g.next, prev' = g.prev,
              \A x \in Task : x # t /\ ~Member(s, x) => g.next[x] = h.next[x] /\ g.prev[x] = h.prev[x]
       PROVE  DeadList(d)'
  <2>1. ASSUME NEW x \in Killed \ freed PROVE next'[x] = next[x] /\ prev'[x] = prev[x]
    <3>1. x \in Task /\ x # t /\ ~Member(s, x)
      BY <1>6, <1>7, <2>1, ListsApart DEF Killed
    <3> QED BY <1>15, <3>1 DEF h, On
  <2> QED BY <1>1, <1>5, <2>1, DeadKept
<1>16. freed' \subseteq Killed'
  BY <1>1, <1>5
<1>17. CASE tasks_asleep.front = NULL
  <2> DEFINE g == tq_push_front(h, t)
             r == <<t>> \o s
  <2>1. /\ tasks_asleep' = Ends(g) /\ next' = g.next /\ prev' = g.prev
        /\ \A e \in CPU : mode'[e] # "insert"
    BY <1>2, <1>3, <1>17 DEF SleepBegin, Relink, h
  <2>2. s = << >> /\ Represents(g, r)
    BY <1>7, <1>8, <1>12, <1>13, <1>17, PushFrontRepresents
  <2>3. \A x \in Task : x # t /\ ~Member(s, x) => g.next[x] = h.next[x] /\ g.prev[x] = h.prev[x]
    BY <1>7, PushFrontFrame
  <2>4. Puts(s, r, t, 0) /\ 0 \in 0..Len(s)
    BY <1>7, PutFirst
  <2>5. Len(s) = 0
    BY <2>2
  <2> HIDE DEF g, r
  <2>6. Represents(On(tasks_asleep)', r)
    BY <1>14, <2>1, <2>2
  <2>7. SleepList(r)'
    <3>1. \A x \in Task : x \in Sleepers' <=> Member(s, x) \/ x = t
      BY <1>5, <1>7
    <3>2. \A e \in CPU : mode'[e] # "insert"
      BY <2>1
    <3>3. \A i \in 1..Len(s) : FALSE
      BY <2>5
    <3> QED BY <1>7, <1>10, <2>4, <2>6, <3>1, <3>2, <3>3, SleepPut
  <2>8. DeadList(d)'
    BY <1>15, <2>1, <2>3
  <2>9. SeqStep(s, r)
    BY <1>8 DEF SeqStep, r
  <2> QED BY <1>16, <2>7, <2>8, <2>9 DEF Queues, QueuesMove
<1>18. CASE s # << >> /\ due'[tasks_asleep.back] > n
  <2> DEFINE k == Len(s)
             g == tq_insert_after(h, s[k], t)
             r == Inserted(s, k, t)
  <2>1. /\ tasks_asleep' = Ends(g) /\ next' = g.next /\ prev' = g.prev
        /\ \A e \in CPU : mode'[e] # "insert"
    BY <1>2, <1>3, <1>12, <1>18 DEF SleepBegin, Relink, h
  <2>2. Represents(g, r)
    BY <1>7, <1>8, <1>12, <1>13, <1>18, InsertAfterRepresents
  <2>3. \A x \in Task : x # t /\ ~Member(s, x) => g.next[x] = h.next[x] /\ g.prev[x] = h.prev[x]
    BY <1>7, <1>8, <1>12, <1>18, InsertAfterFrame
  <2>4. Puts(s, r, t, k) /\ k \in 0..Len(s)
    BY <1>7, <1>12, <1>18, PutBehind
  <2>5. \A i \in 1..Len(s) : due'[s[i]] >= due'[t] /\ ~(i > k)
    <3>1. due'[s[k]] > n /\ \A i \in 1..Len(s) : due'[s[i]] >= due'[s[k]]
      <4>1. \A i \in 1..Len(s) : i < k \/ i = k
        BY <1>7
      <4>2. \A i \in 1..Len(s) : due'[s[i]] \in Int
        BY <1>8 DEF Time
      <4>3. k \in 1..Len(s)
        BY <1>12, <1>18
      <4> QED BY <1>10, <1>12, <1>18, <4>1, <4>2, <4>3 DEF Falls
    <3>2. \A i \in 1..Len(s) : due'[s[i]] \in Int /\ ~(i > k)
      BY <1>7, <1>8 DEF Time
    <3>3. n \in Int /\ k \in 1..Len(s)
      BY <1>12, <1>18, UsageAssumption DEF NapOf
    <3> QED BY <1>9, <3>1, <3>2, <3>3
  <2> HIDE DEF g, r
  <2>6. Represents(On(tasks_asleep)', r)
    BY <1>14, <2>1, <2>2
  <2>7. SleepList(r)'
    <3>1. \A x \in Task : x \in Sleepers' <=> Member(s, x) \/ x = t
      BY <1>5, <1>7
    <3>2. \A e \in CPU : mode'[e] # "insert"
      BY <2>1
    <3> HIDE DEF k
    <3>3. /\ \A i \in 1..Len(s) : i <= k => due'[s[i]] >= due'[t]
          /\ \A i \in 1..Len(s) : i > k => due'[t] >= due'[s[i]]
      BY <2>5
    <3> QED BY <1>7, <1>10, <2>4, <2>6, <3>1, <3>2, <3>3, SleepPut
  <2>8. DeadList(d)'
    BY <1>15, <2>1, <2>3
  <2>9. SeqStep(s, r)
    BY <1>8, <1>12, <1>18 DEF SeqStep, r
  <2> QED BY <1>16, <2>7, <2>8, <2>9 DEF Queues, QueuesMove
<1>19. CASE s # << >> /\ ~(due'[tasks_asleep.back] > n)
  <2>1. /\ mode' = [mode EXCEPT ![c] = "insert"] /\ cursor' = tasks_asleep.front
        /\ UNCHANGED <<tasks_asleep, next, prev>>
    BY <1>2, <1>12, <1>19 DEF SleepBegin
  <2>2. \A e \in CPU : mode'[e] = "insert" <=> e = c
    BY <1>3, <2>1
  <2>3. Inserting' = {t}
    BY <1>1, <1>2, <2>2 DEF Inserting
  <2>4. Represents(On(tasks_asleep), s)'
    BY <1>7, <2>1 DEF h, On
  <2>5. due'[s[Len(s)]] <= due'[t] /\ cursor' = s[1] /\ 1 \in 1..Len(s)
    <3>1. s[Len(s)] \in Task /\ due'[s[Len(s)]] \in Int /\ n \in Int
      BY <1>8, <1>12, <1>19, UsageAssumption DEF Time, NapOf
    <3> QED BY <1>9, <1>12, <1>19, <2>1, <3>1
  <2>6. \E k \in 1..Len(s) : cursor' = s[k] /\ \A j \in 1..k-1 : due'[s[j]] > due'[t]
    BY <2>5
  <2>7. \A x \in Task : Member(s, x) <=> x \in Sleepers' \ Inserting'
    BY <1>2, <1>5, <1>7, <2>3
  <2>8. \A e \in CPU : mode'[e] = "insert" => tasks_running'[e] = t
    BY <1>1, <1>2, <2>2
  <2>9. SleepList(s)'
    BY <1>7, <1>10, <2>4, <2>5, <2>6, <2>7, <2>8 DEF SleepList
  <2>10. DeadList(d)'
    BY <1>1, <1>5, <2>1, DeadKept
  <2>11. UNCHANGED queues
    BY <1>1, <2>1 DEF queues
  <2> QED BY <1>16, <2>9, <2>10, <2>11 DEF Queues, QueuesMove
<1> QED BY <1>12, <1>17, <1>18, <1>19

LEMMA QueueInsert ==
    ASSUME NoSleeperKilled, TypeOK, SchedInv, OnOwnStack, UseInv,
           NEW s, NEW d, SleepList(s), DeadList(d), freed \subseteq Killed, TypeOK',
           NEW c \in CPU, InsertStep(c)
    PROVE  QueuesMove(s, d)
<1> USE DEF TypeOK
<1>l. \A e \in CPU : mode[e] \in {"wake", "insert", "reap", "fault"} <=> sched_lock = e
  BY DEF SchedInv, LockHeld
<1> DEFINE h == On(tasks_asleep)
           t == tasks_running[c]
<1>1. /\ UNCHANGED <<tasks_dead, freed, tasks_running, due, status>>
      /\ mode[c] = "insert"
  BY DEF InsertStep
<1>2. \A e \in CPU : mode[e] = "insert" <=> e = c
  BY <1>1, <1>l
<1>3. Inserting = {t}
  BY <1>2 DEF Inserting
<1>4. t \in Task /\ t \in Sleepers /\ t \notin Killed
  BY <1>1, ListsApart DEF UseInv, Awake
<1>5. Sleepers' = Sleepers /\ Killed' = Killed
  BY <1>1 DEF Sleepers, Killed
<1>6. /\ s \in Seq(Task) /\ Len(s) \in Nat
      /\ Represents(h, s) /\ h \in HeapType /\ h \in Heap(Task)
      /\ \A x \in Task : Member(s, x) <=> x \in Sleepers \ {t}
      /\ Falls(s, due)
  BY <1>3, HeapsTyped, HeapTypes DEF SleepList
<1>7. ~Member(s, t) /\ \A i \in 1..Len(s) : s[i] \in Task /\ s[i] # t
  BY <1>4, <1>6 DEF Member
<1> PICK k \in 1..Len(s) : /\ cursor = s[k]
                           /\ \A i \in 1..k-1 : due[s[i]] > due[t]
  BY <1>1 DEF SleepList
<1>8. due[s[Len(s)]] <= due[t] /\ Len(s) \in 1..Len(s) /\ k \in Nat /\ k <= Len(s) /\ k >= 1
  BY <1>1, <1>6 DEF SleepList
<1>9. cursor \in Task /\ cursor # NULL
  BY <1>7, SchedAssumption
<1>10. due[t] \in Int /\ \A i \in 1..Len(s) : due[s[i]] \in Int
  BY <1>4, <1>7 DEF Time
<1>11. freed' \subseteq Killed'
  BY <1>1, <1>5
<1>12. /\ next[cursor] = IF k = Len(s) THEN NULL ELSE s[k+1]
       /\ prev[cursor] = IF k = 1 THEN NULL ELSE s[k-1]
  BY <1>6 DEF Represents, h, On
<1>13. NULL \notin Task
  BY SchedAssumption
<1>14. CASE ~StopsAt(cursor, t)
  <2>1. cursor' = next[cursor] /\ UNCHANGED <<tasks_asleep, next, prev, mode>>
    BY <1>9, <1>14 DEF InsertStep
  <2>2. due[s[k]] > due[t]
    BY <1>10, <1>14 DEF StopsAt
  <2>3. k # Len(s)
    BY <1>8, <1>10, <2>2
  <2>4. k+1 \in 1..Len(s) /\ cursor' = s[k+1]
    BY <1>8, <1>12, <2>1, <2>3
  <2>5. \A i \in 1..(k+1)-1 : due[s[i]] > due[t]
    <3> SUFFICES ASSUME NEW i \in 1..(k+1)-1 PROVE due[s[i]] > due[t]
      OBVIOUS
    <3>1. i = k \/ i \in 1..k-1
      BY <1>8
    <3> QED BY <2>2, <3>1
  <2>6. Inserting' = Inserting
    BY <1>1, <2>1 DEF Inserting
  <2>7. Represents(On(tasks_asleep), s)'
    BY <1>6, <2>1 DEF h, On
  <2>8. \E m \in 1..Len(s) : cursor' = s[m] /\ \A i \in 1..m-1 : due[s[i]] > due[t]
    BY <2>4, <2>5
  <2>9. \A e \in CPU : mode'[e] = "insert" => e = c
    BY <1>2, <2>1
  <2>10. SleepList(s)'
    <3>1. Falls(s, due)'
      BY <1>1, <1>6
    <3>2. \A x \in Task : Member(s, x) <=> x \in Sleepers' \ Inserting'
      BY <1>3, <1>5, <1>6, <2>6
    <3> QED BY <1>1, <1>6, <1>8, <2>7, <2>8, <2>9, <3>1, <3>2 DEF SleepList
  <2>11. DeadList(d)'
    BY <1>1, <1>5, <2>1, DeadKept
  <2>12. UNCHANGED queues
    BY <1>1, <2>1 DEF queues
  <2> QED BY <1>11, <2>10, <2>11, <2>12 DEF Queues, QueuesMove
<1>15. CASE StopsAt(cursor, t)
  <2> DEFINE g == tq_insert_after(h, prev[cursor], t)
  <2>1. \A i \in 1..Len(s) : i >= k => due[t] >= due[s[i]]
    <3> SUFFICES ASSUME NEW i \in 1..Len(s), i >= k PROVE due[t] >= due[s[i]]
      OBVIOUS
    <3>1. due[s[k]] <= due[t]
      BY <1>15 DEF StopsAt
    <3>2. i = k \/ k < i
      BY <1>8
    <3>3. due[s[k]] >= due[s[i]]
      BY <1>6, <1>10, <3>2 DEF Falls
    <3> QED BY <1>10, <3>1, <3>3
  <2>2. /\ ~InsertFaults(h, prev[cursor], t)
        /\ \E r, m : /\ m \in 0..Len(s) /\ m = k-1
                     /\ Puts(s, r, t, m) /\ Represents(g, r) /\ SeqStep(s, r)
        /\ \A x \in Task : x # t /\ ~Member(s, x) => g.next[x] = h.next[x] /\ g.prev[x] = h.prev[x]
    <3>1. CASE k = 1
      <4> DEFINE u == Unlinked(h, t)
      <4>1. prev[cursor] = NULL
        BY <1>12, <3>1
      <4>2. g = tq_push_front(u, t)
        BY <4>1 DEF tq_insert_after
      <4>3. u \in HeapType /\ u \in Heap(Task)
        BY <1>4, <1>6, HeapTypes DEF Unlinked, HeapType, Link
      <4>4. \A x \in Task : x # t => /\ u.front = h.front /\ u.back = h.back
                                     /\ u.next[x] = h.next[x] /\ u.prev[x] = h.prev[x]
        BY <1>4, <1>6, UnlinkedFrame
      <4>5. u.front = h.front /\ u.back = h.back
        BY DEF Unlinked
      <4> HIDE DEF u, h
      <4>6. Represents(u, s)
        <5>1. \A i \in 1..Len(s) : u.next[s[i]] = h.next[s[i]] /\ u.prev[s[i]] = h.prev[s[i]]
          BY <1>7, <4>4
        <5>2. Represents(h, s)
          BY <1>6
        <5> HIDE DEF t
        <5> QED BY <4>5, <5>1, <5>2, ListFrame
      <4>7. Represents(g, <<t>> \o s)
        BY <1>4, <1>6, <1>7, <1>13, <4>2, <4>3, <4>6, PushFrontRepresents
      <4>8. \A x \in Task : x # t /\ ~Member(s, x) => g.next[x] = u.next[x] /\ g.prev[x] = u.prev[x]
        BY <1>4, <1>6, <4>2, <4>3, <4>6, PushFrontFrame
      <4>9. ~InsertFaults(h, prev[cursor], t)
        BY <4>1 DEF InsertFaults
      <4>10. Puts(s, <<t>> \o s, t, 0) /\ 0 \in 0..Len(s) /\ 0 = k-1
        BY <1>4, <1>6, <3>1, PutFirst
      <4>11. SeqStep(s, <<t>> \o s)
        BY <1>4, <1>7 DEF SeqStep
      <4> HIDE DEF g
      <4> QED BY <4>4, <4>7, <4>8, <4>9, <4>10, <4>11
    <3>2. CASE k # 1
      <4>1. k-1 \in 1..Len(s) /\ k-1 \in 0..Len(s) /\ prev[cursor] = s[k-1]
        BY <1>8, <1>12, <3>2
      <4> HIDE DEF h
      <4>2. ~InsertFaults(h, s[k-1], t) /\ Represents(g, Inserted(s, k-1, t))
        BY <1>4, <1>6, <1>7, <1>13, <4>1, InsertAfterRepresents
      <4>3. \A x \in Task : x # t /\ ~Member(s, x) => g.next[x] = h.next[x] /\ g.prev[x] = h.prev[x]
        <5> SUFFICES ASSUME NEW x \in Task, x # t, ~Member(s, x)
                     PROVE  g.next[x] = h.next[x] /\ g.prev[x] = h.prev[x]
          OBVIOUS
        <5> DEFINE m == k-1
        <5>1. m \in 1..Len(s) /\ g = tq_insert_after(h, s[m], t)
          BY <4>1
        <5>2. t \in Task /\ ~Member(s, t) /\ h \in HeapType /\ s \in Seq(Task) /\ Represents(h, s)
          BY <1>4, <1>6, <1>7
        <5> HIDE DEF t, m, g
        <5> QED BY <5>1, <5>2, InsertAfterFrame
      <4>4. Puts(s, Inserted(s, k-1, t), t, k-1)
        BY <1>4, <1>6, <4>1, PutBehind
      <4>5. SeqStep(s, Inserted(s, k-1, t))
        <5>1. k-1 \in 1..Len(s) /\ t \in Task /\ ~Member(s, t)
          BY <1>4, <1>7, <4>1
        <5> DEFINE m == k-1
        <5> HIDE DEF t, m
        <5>2. m \in 1..Len(s)
          BY <5>1 DEF m
        <5>3. SeqStep(s, Inserted(s, m, t))
          BY <5>1, <5>2 DEF SeqStep
        <5> QED BY <5>3 DEF m
      <4> HIDE DEF g
      <4> QED BY <4>1, <4>2, <4>3, <4>4, <4>5
    <3> QED BY <3>1, <3>2
  <2>3. /\ tasks_asleep' = Ends(g) /\ next' = g.next /\ prev' = g.prev
        /\ mode' = [mode EXCEPT ![c] = "task"]
    BY <1>9, <1>15, <2>2 DEF InsertStep, EndInsert, Relink
  <2> HIDE DEF g
  <2> PICK r, m : /\ m \in 0..Len(s) /\ m = k-1
                  /\ Puts(s, r, t, m) /\ Represents(g, r) /\ SeqStep(s, r)
    BY <2>2
  <2>4. Represents(On(tasks_asleep)', r)
    <3>1. /\ On(tasks_asleep)'.front = g.front /\ On(tasks_asleep)'.back = g.back
          /\ On(tasks_asleep)'.next = g.next /\ On(tasks_asleep)'.prev = g.prev
      BY <2>3 DEF On, Ends
    <3> QED BY <3>1, ListFrame
  <2>5. \A e \in CPU : mode'[e] # "insert"
    BY <1>2, <2>3
  <2>6. SleepList(r)'
    <3>1. \A x \in Task : x \in Sleepers' <=> Member(s, x) \/ x = t
      BY <1>4, <1>5, <1>6
    <3>2. \A i \in 1..Len(s) : i <= m => due[s[i]] >= due[t]
      <4> SUFFICES ASSUME NEW i \in 1..Len(s), i <= m PROVE due[s[i]] >= due[t]
        OBVIOUS
      <4>1. i \in 1..k-1
        BY <1>8
      <4> QED BY <1>10, <4>1
    <3>3. \A i \in 1..Len(s) : i > m => due[t] >= due[s[i]]
      BY <1>8, <2>1
    <3>4. due' = due
      BY <1>1
    <3> HIDE DEF t
    <3> QED BY <1>4, <1>6, <2>4, <2>5, <3>1, <3>2, <3>3, <3>4, SleepPut
  <2>7. DeadList(d)'
    <3>1. ASSUME NEW x \in Killed \ freed PROVE next'[x] = next[x] /\ prev'[x] = prev[x]
      <4>1. x \in Task /\ x # t /\ ~Member(s, x)
        BY <1>4, <1>6, <3>1, ListsApart DEF Killed
      <4> QED BY <2>2, <2>3, <4>1 DEF h, On
    <3>2. UNCHANGED <<tasks_dead, freed>>
      BY <1>1
    <3> QED BY <1>5, <3>1, <3>2, DeadKept
  <2> QED BY <1>11, <2>6, <2>7 DEF Queues, QueuesMove
<1> QED BY <1>14, <1>15

LEMMA QueueKill ==
    ASSUME NoSleeperKilled, TypeOK, SchedInv, OnOwnStack, UseInv,
           NEW s, NEW d, SleepList(s), DeadList(d), freed \subseteq Killed,
           NEW c \in CPU, NEW t \in Task, NEW u \in Task, sched_kill(c, t, u)
    PROVE  QueuesMove(s, d)
<1> USE DEF TypeOK
<1>1. /\ data[u] = u /\ u \notin Killed
      /\ Sleepers' = Sleepers \ {u} /\ Killed' = Killed \cup {u}
  BY UseKill
<1>2. u \notin Sleepers
  BY DEF sched_kill, NoSleeperKilled, UseInv, Marks
<1> DEFINE h == On(tasks_dead)
           g == tq_push_front(h, u)
<1>3. /\ UNCHANGED <<tasks_asleep, due, mode, cursor, tasks_running, freed>>
      /\ tasks_dead' = Ends(g) /\ next' = g.next /\ prev' = g.prev
  BY <1>1, <1>2 DEF sched_kill, Relink, Bury, Sleepers
<1>4. d \in Seq(Task) /\ Represents(h, d) /\ h \in HeapType /\ h \in Heap(Task)
  BY HeapsTyped, HeapTypes DEF DeadList
<1>5. ~Member(d, u)
  BY <1>1 DEF DeadList
<1>6. Represents(g, <<u>> \o d)
  BY <1>4, <1>5, PushFrontRepresents, SchedAssumption
<1>7. \A x \in Task : x # u /\ ~Member(d, x) => g.next[x] = h.next[x] /\ g.prev[x] = h.prev[x]
  BY <1>4, PushFrontFrame
<1> HIDE DEF g
<1>8. DeadList(<<u>> \o d)'
  <2>1. Represents(On(tasks_dead)', <<u>> \o d)
    <3>1. /\ On(tasks_dead)'.front = g.front /\ On(tasks_dead)'.back = g.back
          /\ On(tasks_dead)'.next = g.next /\ On(tasks_dead)'.prev = g.prev
      BY <1>3 DEF On, Ends
    <3> QED BY <1>6, <3>1, ListFrame
  <2>2. \A x \in Task : x \in Killed' \ freed' <=> Member(d, x) \/ x = u
    BY <1>1, <1>3 DEF DeadList
  <2> QED BY <1>4, <2>1, <2>2, DeadPut
<1>9. SleepList(s)'
  <2>1. Inserting' = Inserting
    BY <1>3 DEF Inserting
  <2>2. ASSUME NEW x \in Sleepers \ Inserting PROVE next'[x] = next[x] /\ prev'[x] = prev[x]
    <3>1. x \in Task /\ x # u /\ ~Member(d, x)
      BY <1>2, <2>2, ListsApart DEF DeadList, Sleepers
    <3> QED BY <1>3, <1>7, <3>1 DEF h, On
  <2>3. UNCHANGED <<tasks_asleep, due>> /\ Sleepers' = Sleepers
    BY <1>1, <1>2, <1>3
  <2>4. \A e \in CPU : mode'[e] = "insert" =>
            mode[e] = "insert" /\ UNCHANGED <<cursor, tasks_running[e]>>
    BY <1>3
  <2> QED BY <2>1, <2>2, <2>3, <2>4, SleepKept
<1>10. freed' \subseteq Killed'
  BY <1>1, <1>3
<1>11. SeqStep(d, <<u>> \o d)
  BY <1>5 DEF SeqStep
<1> QED BY <1>8, <1>9, <1>10, <1>11 DEF Queues, QueuesMove

LEMMA QueueReap ==
    ASSUME NoSleeperKilled, TypeOK, SchedInv, OnOwnStack, UseInv,
           NEW s, NEW d, SleepList(s), DeadList(d), freed \subseteq Killed,
           NEW c \in CPU, Reap(c)
    PROVE  QueuesMove(s, d)
<1> USE DEF TypeOK
<1>l. \A e \in CPU : mode[e] \in {"wake", "insert", "reap", "fault"} <=> sched_lock = e
  BY DEF SchedInv, LockHeld
<1>1. Sleepers' = Sleepers /\ Killed' = Killed
  BY DEF Reap, ReapBegin, ReapOne, ReapEnd, LeaveReap, Sleepers, Killed
<1>2. \A e \in CPU : mode[e] # "insert" /\ mode'[e] # "insert"
  BY <1>l, SchedAssumption DEF Reap, ReapBegin, ReapOne, ReapEnd, LeaveReap, Locked, Executes
<1>3. Inserting' = Inserting
  BY <1>2 DEF Inserting
<1>4. CASE ReapBegin(c) \/ ReapEnd(c)
  BY <1>1, <1>2, <1>3, <1>4, QueuesKept DEF ReapBegin, ReapEnd
<1>5. CASE ReapOne(c)
  <2> DEFINE h == On(tasks_dead)
             t == tasks_dead.back
             g == tq_pop_back(h)
  <2>1. /\ t # NULL /\ tasks_dead' = Ends(g) /\ next' = g.next /\ prev' = g.prev
        /\ freed' = freed \cup {t}
        /\ UNCHANGED <<tasks_asleep, due, mode, cursor, tasks_running>>
    BY <1>5 DEF ReapOne, Relink
  <2>2. d \in Seq(Task) /\ Represents(h, d) /\ h \in HeapType /\ h \in Heap(Task)
    BY HeapsTyped, HeapTypes DEF DeadList
  <2>3. d # << >>
    BY <2>1, <2>2 DEF Represents, On
  <2> DEFINE r == Without(d, Len(d))
  <2>4. t = d[Len(d)] /\ Represents(g, r)
    <3>1. h.back = d[Len(d)] /\ Represents(g, r)
      BY <2>2, <2>3, PopBackRepresents, SchedAssumption
    <3> QED BY <3>1 DEF On
  <2>5. /\ r \in Seq(Task)
        /\ \A x : Member(r, x) <=> Member(d, x) /\ x # t
    BY <2>2, <2>3, <2>4, DropLast DEF Represents
  <2>6. \A x \in Task : ~Member(d, x) => g.next[x] = h.next[x] /\ g.prev[x] = h.prev[x]
    BY <2>2, <2>3, PopBackFrame
  <2> HIDE DEF g, r
  <2>7. DeadList(r)'
    <3>1. Represents(On(tasks_dead)', r)
      <4>1. /\ On(tasks_dead)'.front = g.front /\ On(tasks_dead)'.back = g.back
            /\ On(tasks_dead)'.next = g.next /\ On(tasks_dead)'.prev = g.prev
        BY <2>1 DEF On, Ends
      <4> QED BY <4>1, <2>4, ListFrame
    <3>2. \A x \in Task : Member(r, x) <=> x \in Killed' \ freed'
      BY <1>1, <2>1, <2>5 DEF DeadList
    <3> QED BY <2>5, <3>1, <3>2 DEF DeadList
  <2>8. SleepList(s)'
    <3>1. ASSUME NEW x \in Sleepers \ Inserting PROVE next'[x] = next[x] /\ prev'[x] = prev[x]
      <4>1. x \in Task /\ ~Member(d, x)
        BY <3>1, ListsApart DEF DeadList, Sleepers
      <4> QED BY <2>1, <2>6, <4>1 DEF h, On
    <3>2. UNCHANGED <<tasks_asleep, due>>
      BY <2>1
    <3>3. \A e \in CPU : mode'[e] = "insert" =>
              mode[e] = "insert" /\ UNCHANGED <<cursor, tasks_running[e]>>
      BY <1>2
    <3> QED BY <1>1, <1>3, <3>1, <3>2, <3>3, SleepKept
  <2>9. freed' \subseteq Killed'
    <3>1. Len(d) \in 1..Len(d) /\ t \in Task
      BY <2>2, <2>3, <2>4
    <3>2. t \in Killed
      BY <2>4, <3>1 DEF DeadList, Member
    <3> QED BY <1>1, <2>1, <3>2
  <2>10. SeqStep(d, r)
    BY <2>3 DEF SeqStep, r
  <2> QED BY <2>7, <2>8, <2>9, <2>10 DEF Queues, QueuesMove
<1> QED BY <1>4, <1>5 DEF Reap

LEMMA QueueElapse ==
    ASSUME TypeOK, NEW s, NEW d, SleepList(s), DeadList(d), freed \subseteq Killed, Elapse
    PROVE  QueuesMove(s, d)
<1>1. /\ UNCHANGED <<queues, freed, status, mode, tasks_running>>
      /\ \A c \in CPU : mode[c] # "insert"
      /\ \A t \in Task : due'[t] = IF due[t] > -1 THEN due[t] - 1 ELSE -1
  BY DEF Elapse
<1>2. Sleepers' = Sleepers /\ Killed' = Killed /\ Inserting' = Inserting
  BY <1>1 DEF Sleepers, Killed, Inserting
<1>3. SleepList(s)'
  <2>1. s \in Seq(Task) /\ Falls(s, due)
    BY DEF SleepList
  <2>2. Falls(s, due)'
    <3> SUFFICES ASSUME NEW i \in 1..Len(s), NEW j \in 1..Len(s), i < j
                 PROVE  due'[s[i]] >= due'[s[j]]
      BY DEF Falls
    <3>1. due[s[i]] >= due[s[j]]
      BY <2>1 DEF Falls
    <3>2. s[i] \in Task /\ s[j] \in Task /\ due[s[i]] \in Int /\ due[s[j]] \in Int
            /\ due[s[i]] >= -1 /\ due[s[j]] >= -1
      BY <2>1 DEF TypeOK, Time
    <3> QED BY <1>1, <3>1, <3>2
  <2>3. Represents(On(tasks_asleep), s)'
    BY <1>1 DEF SleepList, On, queues
  <2> QED BY <1>1, <1>2, <2>2, <2>3 DEF SleepList
<1>4. DeadList(d)'
  <2>1. Represents(On(tasks_dead), d)'
    BY <1>1 DEF DeadList, On, queues
  <2> QED BY <1>1, <1>2, <2>1 DEF DeadList
<1> QED BY <1>1, <1>2, <1>3, <1>4 DEF Queues, QueuesMove

\* The other calls touch neither queue.
LEMMA QueuePlain ==
    ASSUME TypeOK, SchedInv, OnOwnStack, UseInv,
           NEW s, NEW d, SleepList(s), DeadList(d), freed \subseteq Killed,
           NEW c \in CPU, NEW t \in Task,
           \/ task_make(c, t) \/ sched_add(c, t) \/ Halt(c, t)
           \/ \E u \in Task : \/ sched_block(c, t, u)
                              \/ sched_unblock(c, t, u)
                              \/ CallJunk(c, t, u)
           \/ ReadCpu(c, t)
           \/ ReadRunning(c, t)
           \/ UseCurrent(c, t)
    PROVE  QueuesMove(s, d)
<1>1. Sleepers' = Sleepers /\ Killed' = Killed
  BY UseAdd, UsePlain
<1>2. UNCHANGED <<queues, due, freed, cursor, tasks_running>>
  BY DEF task_make, sched_add, Halt, sched_block, sched_unblock, CallJunk, ReadCpu,
         ReadRunning, UseCurrent
<1>3. mode' = mode \/ (sched_lock = Free /\ mode' = [mode EXCEPT ![c] = "fault"])
  BY DEF task_make, sched_add, Halt, sched_block, sched_unblock, CallJunk, Fault, ReadCpu,
         ReadRunning, UseCurrent, Locked
<1>4. \A e \in CPU : mode'[e] = "insert" <=> mode[e] = "insert"
  BY <1>3, SchedAssumption DEF SchedInv, LockHeld, TypeOK
<1>5. Inserting' = Inserting
  BY <1>2, <1>4 DEF Inserting
<1> QED BY <1>1, <1>2, <1>4, <1>5, QueuesKept

LEMMA QueuesStep ==
    ASSUME NoSleeperKilled, TypeOK, SchedInv, OnOwnStack, UseInv,
           NEW s, NEW d, SleepList(s), DeadList(d), freed \subseteq Killed, [Next]_vars
    PROVE  QueuesMove(s, d)
<1>1. CASE UNCHANGED vars
  <2>1. Sleepers' = Sleepers /\ Killed' = Killed /\ Inserting' = Inserting
    BY <1>1 DEF vars, Sleepers, Killed, Inserting
  <2>2. UNCHANGED <<queues, due, freed, cursor, mode, tasks_running>>
    BY <1>1 DEF vars, queues
  <2> QED BY <2>1, <2>2, QueuesKept
<1>2. TypeOK' /\ UseInv'
  BY StepTyped, UseStep
<1>3. ASSUME NEW c \in CPU, NEW t \in Task, Call(c, t) PROVE QueuesMove(s, d)
  <2>1. ASSUME NEW n \in NapOf(t), SleepBegin(c, t, n) PROVE QueuesMove(s, d)
    BY <1>2, <2>1, QueueSleep
  <2>2. ASSUME NEW u \in Task, sched_kill(c, t, u) PROVE QueuesMove(s, d)
    BY <2>2, QueueKill
  <2> QED BY <1>3, <2>1, <2>2, QueuePlain DEF Call
<1>4. CASE Next
  BY <1>2, <1>3, <1>4, QueueSwitch, QueueInsert, QueueReap, QueueElapse DEF Next
<1> QED BY <1>1, <1>4

LEMMA QueueStep ==
    ASSUME NoSleeperKilled, TypeOK, SchedInv, OnOwnStack, UseInv, QueueInv, [Next]_vars
    PROVE  QueueInv'
<1> PICK s, d : SleepList(s) /\ DeadList(d) /\ freed \subseteq Killed
  BY DEF QueueInv, Queues
<1>1. QueuesMove(s, d)
  BY QueuesStep
<1> QED BY <1>1 DEF QueuesMove, QueueInv

LEMMA QueuesAlways ==
    NoSleeperKilled => (Spec => [](TypeOK /\ SchedInv /\ OnOwnStack /\ UseInv /\ QueueInv))
<1> SUFFICES ASSUME NoSleeperKilled
             PROVE  Spec => [](TypeOK /\ SchedInv /\ OnOwnStack /\ UseInv /\ QueueInv)
  OBVIOUS
<1>1. Init => QueueInv
  BY QueueInit
<1>2. TypeOK /\ SchedInv /\ OnOwnStack /\ UseInv /\ QueueInv /\ [Next]_vars => QueueInv'
  BY QueueStep
<1> QED BY <1>1, <1>2, UseAlways, PTL DEF Spec

-----------------------------------------------------------------------------
(* What the queues promise.                                                *)

\* The tasks met along a proper list.
LEMMA ListMet ==
    ASSUME TypeOK, NEW q, q = tasks_asleep \/ q = tasks_dead, NEW s \in Seq(Task),
           Represents(On(q), s)
    PROVE  Contents(On(q)) = s /\ Queued(q) = {t \in Task : Member(s, t)}
<1>1. IsFiniteSet(Task) /\ NULL \notin Task
  <2>1. TID_MAX \in Int /\ 0 \in Int /\ NULL \notin Task
    BY SchedAssumption
  <2>2. IsFiniteSet(0..TID_MAX)
    BY <2>1, FS_Interval
  <2> QED BY <2>1, <2>2 DEF Task
<1>2. On(q) \in Heap(Task)
  BY HeapsTyped, HeapTypes
<1>3. Contents(On(q)) = s
  BY <1>1, <1>2, ContentsOfList
<1>4. Queued(q) = {s[i] : i \in 1..Len(s)}
  BY <1>3 DEF Queued
<1>5. \A i \in 1..Len(s) : s[i] \in Task
  OBVIOUS
<1> QED BY <1>3, <1>4, <1>5 DEF Member

(* The sleeping queue is a proper list of the tasks that sleep, the one    *)
(* that wakes next at its back, as long as nobody kills a sleeper.         *)
THEOREM SleepersSorted == NoSleeperKilled => (Spec => []SleepQueueSorted)
<1> SUFFICES ASSUME NoSleeperKilled PROVE Spec => []SleepQueueSorted
  OBVIOUS
<1>1. TypeOK /\ QueueInv => SleepQueueSorted
  <2> SUFFICES ASSUME TypeOK, NEW s, SleepList(s) PROVE SleepQueueSorted
    BY DEF QueueInv, Queues
  <2>1. s \in Seq(Task) /\ Represents(On(tasks_asleep), s) /\ Falls(s, due)
    BY DEF SleepList
  <2>2. Contents(On(tasks_asleep)) = s /\ Queued(tasks_asleep) = {t \in Task : Member(s, t)}
    BY <2>1, ListMet
  <2>3. Queued(tasks_asleep) = {t \in Task : "ASLEEP" \in status[t]} \ Inserting
    BY <2>2 DEF SleepList, Sleepers
  <2> QED BY <2>1, <2>2, <2>3 DEF SleepQueueSorted, Falls
<1> QED BY <1>1, QueuesAlways, PTL

(* The dead queue is a proper list of the killed tasks the janitor has not *)
(* freed: none is lost to it and none is freed twice.                      *)
THEOREM DeadAreQueued == NoSleeperKilled => (Spec => []DeadQueueExact)
<1> SUFFICES ASSUME NoSleeperKilled PROVE Spec => []DeadQueueExact
  OBVIOUS
<1>1. TypeOK /\ QueueInv => DeadQueueExact
  <2> SUFFICES ASSUME TypeOK, NEW d, DeadList(d) PROVE DeadQueueExact
    BY DEF QueueInv, Queues
  <2>1. d \in Seq(Task) /\ Represents(On(tasks_dead), d)
    BY DEF DeadList
  <2>2. Contents(On(tasks_dead)) = d /\ Queued(tasks_dead) = {t \in Task : Member(d, t)}
    BY <2>1, ListMet
  <2>3. Queued(tasks_dead) = {t \in Task : "DEAD" \in status[t]} \ freed
    BY <2>2 DEF DeadList, Killed
  <2> QED BY <2>1, <2>2, <2>3 DEF DeadQueueExact
<1> QED BY <1>1, QueuesAlways, PTL

(* The wake loop looks at the back of the queue only, and still leaves     *)
(* nobody asleep whose time is over.                                       *)
THEOREM WakesAllDue == NoSleeperKilled => (Spec => NobodyOversleeps)
<1> SUFFICES ASSUME NoSleeperKilled PROVE Spec => NobodyOversleeps
  OBVIOUS
<1>1. ASSUME TypeOK, SchedInv, QueueInv, NEW c \in CPU, Choose(c),
             NEW t \in Task, "ASLEEP" \in status[t]
      PROVE  due[t] >= 0
  <2>1. mode[c] = "wake" /\ ~Overdue
    BY <1>1 DEF Choose
  <2>2. Inserting = {}
    BY <1>1, <2>1 DEF Inserting, SchedInv, LockHeld
  <2> PICK s : SleepList(s)
    BY <1>1 DEF QueueInv, Queues
  <2>3. s \in Seq(Task) /\ Represents(On(tasks_asleep), s) /\ Falls(s, due) /\ Member(s, t)
    BY <1>1, <2>2 DEF SleepList, Sleepers
  <2> PICK i \in 1..Len(s) : s[i] = t
    BY <2>3 DEF Member
  <2>4. Len(s) \in 1..Len(s) /\ s # << >> /\ (i < Len(s) \/ i = Len(s))
    BY <2>3
  <2>5. tasks_asleep.back = s[Len(s)] /\ s[Len(s)] \in Task /\ s[Len(s)] # NULL
    BY <2>3, <2>4, SchedAssumption DEF Represents, On
  <2>6. due[s[Len(s)]] \in Int /\ due[t] \in Int
    BY <1>1, <2>5 DEF TypeOK, Time
  <2>7. due[s[Len(s)]] >= 0
    BY <2>1, <2>5, <2>6 DEF Overdue
  <2>8. due[t] >= due[s[Len(s)]]
    BY <2>3, <2>4, <2>6 DEF Falls
  <2> QED BY <2>6, <2>7, <2>8
<1>2. TypeOK /\ SchedInv /\ QueueInv /\ [Next]_vars
          => [\A c \in CPU : Choose(c) =>
                 \A t \in Task : "ASLEEP" \in status[t] => due[t] >= 0]_vars
  BY <1>1
<1> QED BY <1>2, QueuesAlways, PTL DEF Spec, NobodyOversleeps

-----------------------------------------------------------------------------
(* With one cpu the janitor never frees the stack it stands on.            *)

IdleLives == Killed \cap IdleTasks = {}

LEMMA StepNoUse ==
    ASSUME \A c, d \in CPU : c = d, NoSleeperKilled,
           TypeOK, SchedInv, OnOwnStack, UseInv, QueueInv, IdleLives, NoUseAfterFree,
           [Next]_vars
    PROVE  (IdleLives /\ NoUseAfterFree)'
<1> USE DEF TypeOK
<1>1. ASSUME UNCHANGED <<status, tasks_running, kstack, freed>>
      PROVE  (IdleLives /\ NoUseAfterFree)'
  BY <1>1 DEF IdleLives, NoUseAfterFree, Killed
<1>2. ASSUME Killed' = Killed, UNCHANGED <<tasks_running, kstack, freed>>
      PROVE  (IdleLives /\ NoUseAfterFree)'
  BY <1>2 DEF IdleLives, NoUseAfterFree
<1>3. ASSUME NEW c \in CPU, Switch(c) PROVE (IdleLives /\ NoUseAfterFree)'
  <2>1. Killed' = Killed /\ freed' = freed
    BY <1>3 DEF Switch, SwitchBegin, WakeOne, Choose, MakeCurrent, ChooseJunk, FinishSwitch, Killed
  <2>2. CASE SwitchBegin(c) \/ WakeOne(c) \/ ChooseJunk(c)
    BY <1>2, <2>1, <2>2 DEF SwitchBegin, WakeOne, ChooseJunk
  <2>3. CASE Choose(c)
    <3> PICK n \in Task : /\ IsNext(c, n)
                          /\ tasks_running' = [tasks_running EXCEPT ![c] = n]
      BY <2>3 DEF Choose, MakeCurrent
    <3>1. kstack' = kstack
      BY <2>3 DEF Choose
    <3>2. n \in IdleTasks \/ status[n] = {}
      BY DEF IsNext, ReadySlots, READY, IdleTasks
    <3>3. n \notin Killed
      BY <3>2 DEF IdleLives, Killed
    <3>4. n \notin freed
      BY <3>3 DEF QueueInv, Queues
    <3> QED BY <2>1, <3>1, <3>4 DEF IdleLives, NoUseAfterFree
  <2>4. CASE FinishSwitch(c)
    BY <2>1, <2>4 DEF FinishSwitch, IdleLives, NoUseAfterFree
  <2> QED BY <1>3, <2>2, <2>3, <2>4 DEF Switch
<1>4. ASSUME NEW c \in CPU, InsertStep(c) PROVE (IdleLives /\ NoUseAfterFree)'
  BY <1>1, <1>4 DEF InsertStep
<1>5. ASSUME NEW c \in CPU, Reap(c) PROVE (IdleLives /\ NoUseAfterFree)'
  <2>1. CASE ReapBegin(c) \/ ReapEnd(c)
    BY <1>1, <2>1 DEF ReapBegin, ReapEnd
  <2>2. CASE ReapOne(c)
    <3> DEFINE t == tasks_dead.back
    <3>1. /\ mode[c] = "reap" /\ t # NULL /\ freed' = freed \cup {t}
          /\ UNCHANGED <<status, tasks_running, kstack>>
      BY <2>2 DEF ReapOne
    <3>2. t \in Killed
      <4>1. QueueInv'
        BY QueueStep
      <4>2. Killed' = Killed /\ t \in freed'
        BY <3>1 DEF Killed
      <4> QED BY <4>1, <4>2 DEF QueueInv, Queues
    <3>3. t # Janitor
      BY <3>2 DEF NoSleeperKilled, NapOf, UseInv, Marks
    <3>4. kstack[c] = Janitor /\ tasks_running[c] = Janitor
      BY <3>1 DEF OnOwnStack, UseInv, Awake
    <3> HIDE DEF t
    <3>5. \A d \in CPU : d = c
      OBVIOUS
    <3>6. Killed' = Killed
      BY <3>1 DEF Killed
    <3> QED BY <3>1, <3>3, <3>4, <3>5, <3>6 DEF IdleLives, NoUseAfterFree
  <2> QED BY <1>5, <2>1, <2>2 DEF Reap
<1>6. ASSUME NEW c \in CPU, NEW t \in Task, Call(c, t) PROVE (IdleLives /\ NoUseAfterFree)'
  <2>1. ASSUME NEW n \in NapOf(t), SleepBegin(c, t, n) PROVE (IdleLives /\ NoUseAfterFree)'
    BY <1>2, <2>1 DEF SleepBegin, Killed
  <2>2. ASSUME NEW u \in Task, sched_kill(c, t, u) PROVE (IdleLives /\ NoUseAfterFree)'
    <3>1. data[u] = u /\ Killed' = Killed \cup {u}
      BY <2>2, UseKill
    <3>2. u \notin IdleTasks
      BY <3>1 DEF SchedInv, IdleUnlisted
    <3> QED BY <2>2, <3>1, <3>2 DEF sched_kill, Bury, IdleLives, NoUseAfterFree
  <2>3. ASSUME task_make(c, t) \/ sched_add(c, t) PROVE (IdleLives /\ NoUseAfterFree)'
    BY <1>2, <2>3, UseAdd DEF task_make, sched_add
  <2>4. CASE \/ Halt(c, t)
             \/ \E u \in Task : \/ sched_block(c, t, u)
                                \/ sched_unblock(c, t, u)
                                \/ CallJunk(c, t, u)
             \/ ReadCpu(c, t)
             \/ ReadRunning(c, t)
             \/ UseCurrent(c, t)
    <3>1. Killed' = Killed
      BY <2>4, UsePlain
    <3> QED BY <1>2, <2>4, <3>1 DEF Halt, sched_block, sched_unblock, CallJunk, ReadCpu,
                                    ReadRunning, UseCurrent
  <2> QED BY <1>6, <2>1, <2>2, <2>3, <2>4 DEF Call
<1>7. CASE Elapse
  BY <1>1, <1>7 DEF Elapse
<1>8. CASE UNCHANGED vars
  BY <1>1, <1>8 DEF vars
<1> QED BY <1>3, <1>4, <1>5, <1>6, <1>7, <1>8 DEF Next

(* With one cpu, and sleepers left alone, nothing executes on freed        *)
(* memory: with two, the stack a killed task's cpu has still to leave can  *)
(* be freed.                                                               *)
THEOREM FreedIsUnused ==
    ASSUME \A c, d \in CPU : c = d, NoSleeperKilled
    PROVE  Spec => []NoUseAfterFree
<1>1. Init => IdleLives /\ NoUseAfterFree
  BY DEF Init, IdleLives, NoUseAfterFree, Killed, READY
<1>2. TypeOK /\ SchedInv /\ OnOwnStack /\ UseInv /\ QueueInv /\ IdleLives /\ NoUseAfterFree
          /\ [Next]_vars => (IdleLives /\ NoUseAfterFree)'
  BY StepNoUse
<1> QED BY <1>1, <1>2, QueuesAlways, PTL DEF Spec

-----------------------------------------------------------------------------
(***************************************************************************)
(* The scheduler's two linked lists implement two sequences: step by step, *)
(* under the refinement mapping of SchedQueues that maps each list to its  *)
(* contents.                                                               *)
(***************************************************************************)

-----------------------------------------------------------------------------
(* The operations of SeqQueue, in the terms of the list proofs.            *)

LEMMA BehindIsInserted ==
    ASSUME NEW s \in Seq(Task), NEW k \in 1..Len(s), NEW t \in Task
    PROVE  SubSeq(s, 1, (k+1)-1) \o <<t>> \o SubSeq(s, k+1, Len(s)) = Inserted(s, k, t)
<1> DEFINE n == Len(s)
           a == SubSeq(s, 1, k)
           b == SubSeq(s, k+1, n)
           at1 == a \o <<t>>
           r == at1 \o b
<1>1. n \in Nat /\ k \in Nat /\ k >= 1 /\ k <= n /\ (k+1)-1 = k
  OBVIOUS
<1>2. \A i \in 1..n : s[i] \in Task
  OBVIOUS
<1> HIDE DEF n
<1>3. a \in Seq(Task) /\ Len(a) = k /\ \A i \in 1..k : a[i] = s[i]
  <2>1. \A i \in 1..k : s[i] \in Task
    BY <1>1, <1>2
  <2>2. Len(a) = (IF 1 <= k THEN k-1+1 ELSE 0) /\ \A i \in 1..k-1+1 : a[i] = s[1+i-1]
    BY <1>1, <2>1, SubSeqProperties
  <2>3. a \in Seq(Task)
    BY <1>1, <2>1, SubSeqProperties
  <2> HIDE DEF a
  <2> QED BY <1>1, <2>2, <2>3
<1>4. b \in Seq(Task) /\ Len(b) = n - k /\ \A i \in 1..n-k : b[i] = s[k+i]
  <2>1. \A i \in k+1..n : s[i] \in Task
    BY <1>1, <1>2
  <2>2. /\ Len(b) = (IF k+1 <= n THEN n-(k+1)+1 ELSE 0)
        /\ \A i \in 1..n-(k+1)+1 : b[i] = s[(k+1)+i-1]
    BY <1>1, <2>1, SubSeqProperties
  <2>3. b \in Seq(Task)
    BY <1>1, <2>1, SubSeqProperties
  <2> HIDE DEF b
  <2>4. Len(b) = n - k
    BY <1>1, <2>2
  <2>5. \A i \in 1..n-k : (k+1)+i-1 = k+i /\ i \in 1..n-(k+1)+1
    BY <1>1
  <2> QED BY <2>2, <2>3, <2>4, <2>5
<1> HIDE DEF a, b
<1>5. /\ at1 \in Seq(Task) /\ Len(at1) = k+1
      /\ \A i \in 1..k+1 : at1[i] = IF i <= k THEN s[i] ELSE t
  <2>1. <<t>> \in Seq(Task) /\ Len(<<t>>) = 1 /\ <<t>>[1] = t
    OBVIOUS
  <2>2. /\ at1 \in Seq(Task) /\ Len(at1) = Len(a) + Len(<<t>>)
        /\ \A i \in 1..Len(a) + Len(<<t>>) :
               at1[i] = IF i <= Len(a) THEN a[i] ELSE <<t>>[i - Len(a)]
    BY <1>3, <2>1, ConcatProperties
  <2> HIDE DEF at1
  <2>3. \A i \in 1..k+1 : i <= k \/ i - k = 1
    BY <1>1
  <2> QED BY <1>1, <1>3, <2>1, <2>2, <2>3
<1> HIDE DEF at1
<1>6. /\ r \in Seq(Task) /\ Len(r) = n+1
      /\ \A i \in 1..n+1 : r[i] = IF i <= k THEN s[i] ELSE IF i = k+1 THEN t ELSE s[i-1]
  <2>1. /\ r \in Seq(Task) /\ Len(r) = Len(at1) + Len(b)
        /\ \A i \in 1..Len(at1) + Len(b) :
               r[i] = IF i <= Len(at1) THEN at1[i] ELSE b[i - Len(at1)]
    BY <1>4, <1>5, ConcatProperties
  <2> HIDE DEF r
  <2>2. Len(at1) + Len(b) = n+1
    BY <1>1, <1>4, <1>5
  <2>3. ASSUME NEW i \in 1..n+1
        PROVE  r[i] = IF i <= k THEN s[i] ELSE IF i = k+1 THEN t ELSE s[i-1]
    <3>1. CASE i <= k+1
      BY <1>1, <1>5, <2>1, <2>2, <3>1
    <3>2. CASE i > k+1
      <4>1. r[i] = b[i - (k+1)]
        BY <1>1, <1>5, <2>1, <2>2, <3>2
      <4>2. i - (k+1) \in 1..n-k /\ k + (i - (k+1)) = i-1
        BY <1>1, <3>2
      <4>3. b[i - (k+1)] = s[k + (i - (k+1))]
        BY <1>4, <4>2
      <4> QED BY <1>1, <3>2, <4>1, <4>2, <4>3
    <3> QED BY <1>1, <3>1, <3>2
  <2> QED BY <2>1, <2>2, <2>3
<1>7. LET q == Inserted(s, k, t) IN
      /\ q \in Seq(Task) /\ Len(q) = n+1
      /\ \A i \in 1..n+1 : q[i] = IF i <= k THEN s[i] ELSE IF i = k+1 THEN t ELSE s[i-1]
  BY PutBehind DEF Puts, n
<1> DEFINE q == Inserted(s, k, t)
<1>8. \A i \in 1..Len(r) : r[i] = q[i]
  BY <1>6, <1>7
<1> HIDE DEF r, q
<1>9. r = q
  BY <1>6, <1>7, <1>8, SeqEqual DEF q
<1> QED BY <1>1, <1>9 DEF r, q, at1, a, b, n

LEMMA FrontIsWithout ==
    ASSUME NEW s \in Seq(Task), s # << >>
    PROVE  SubSeq(s, 1, Len(s)-1) = Without(s, Len(s))
<1> DEFINE n == Len(s)
           a == SubSeq(s, 1, n-1)
           b == Without(s, n)
<1>1. n \in Nat /\ n >= 1 /\ \A i \in 1..n : s[i] \in Task
  OBVIOUS
<1>2. b = [i \in 1..n-1 |-> s[i]]
  BY <1>1 DEF Without
<1> HIDE DEF n, b
<1>3. a \in Seq(Task) /\ Len(a) = n-1 /\ \A i \in 1..n-1 : a[i] = s[i]
  <2>1. \A i \in 1..n-1 : s[i] \in Task
    BY <1>1
  <2>2. /\ Len(a) = (IF 1 <= n-1 THEN (n-1)-1+1 ELSE 0)
        /\ \A i \in 1..(n-1)-1+1 : a[i] = s[1+i-1]
    BY <1>1, <2>1, SubSeqProperties
  <2>3. a \in Seq(Task)
    BY <1>1, <2>1, SubSeqProperties
  <2> HIDE DEF a
  <2> QED BY <1>1, <2>2, <2>3
<1>4. b \in Seq(Task) /\ Len(b) = n-1 /\ \A i \in 1..n-1 : b[i] = s[i]
  <2>1. b \in [1..n-1 -> Task] /\ n-1 \in Nat
    BY <1>1, <1>2
  <2> QED BY <1>2, <2>1
<1> HIDE DEF a
<1>5. a = b
  BY <1>3, <1>4, SeqEqual
<1> QED BY <1>5 DEF a, b, n

-----------------------------------------------------------------------------
(* What both queues go through in a step.                                  *)

\* The contents of the two queues are the lists of the invariant.
ContentsMatch ==
    \A s, d : TypeOK /\ Queues(s, d) =>
        /\ s \in Seq(Task) /\ Contents(On(tasks_asleep)) = s
        /\ d \in Seq(Task) /\ Contents(On(tasks_dead)) = d

LEMMA ContentsAre == ContentsMatch
BY ListMet DEF ContentsMatch, Queues, SleepList, DeadList

LEMMA AsleepStep ==
    ASSUME NEW s \in Seq(Task), NEW r, SeqStep(s, r),
           Contents(On(tasks_asleep)) = s, Contents(On(tasks_asleep))' = r
    PROVE  Asleep!Next
<1>1. CASE \E t \in Task : ~Member(s, t) /\ r = <<t>> \o s
  <2> PICK t \in Task : ~Member(s, t) /\ r = <<t>> \o s
    BY <1>1
  <2>1. t \notin {s[i] : i \in DOMAIN s}
    BY DEF Member
  <2>2. Asleep!Push(t)
    BY <2>1 DEF Asleep!Push, Asleep!Range
  <2> QED BY <2>2 DEF Asleep!Next
<1>2. CASE \E k \in 1..Len(s), t \in Task : ~Member(s, t) /\ r = Inserted(s, k, t)
  <2> PICK k \in 1..Len(s), t \in Task : ~Member(s, t) /\ r = Inserted(s, k, t)
    BY <1>2
  <2>1. t \notin {s[i] : i \in DOMAIN s}
    BY DEF Member
  <2>2. r = SubSeq(s, 1, (k+1)-1) \o <<t>> \o SubSeq(s, k+1, Len(s))
    BY BehindIsInserted
  <2>3. Asleep!InsertBehind(k, t)
    BY <2>1, <2>2 DEF Asleep!InsertBehind, Asleep!InsertAt, Asleep!Range
  <2> QED BY <2>3 DEF Asleep!Next
<1>3. CASE s # << >> /\ r = Without(s, Len(s))
  <2>1. r = SubSeq(s, 1, Len(s)-1)
    BY <1>3, FrontIsWithout
  <2>2. Asleep!Pop
    BY <1>3, <2>1 DEF Asleep!Pop, Asleep!Front
  <2> QED BY <2>2 DEF Asleep!Next
<1> QED BY <1>1, <1>2, <1>3 DEF SeqStep

LEMMA DeadStep ==
    ASSUME NEW s \in Seq(Task), NEW r, SeqStep(s, r),
           Contents(On(tasks_dead)) = s, Contents(On(tasks_dead))' = r
    PROVE  Dead!Next
<1>1. CASE \E t \in Task : ~Member(s, t) /\ r = <<t>> \o s
  <2> PICK t \in Task : ~Member(s, t) /\ r = <<t>> \o s
    BY <1>1
  <2>1. t \notin {s[i] : i \in DOMAIN s}
    BY DEF Member
  <2>2. Dead!Push(t)
    BY <2>1 DEF Dead!Push, Dead!Range
  <2> QED BY <2>2 DEF Dead!Next
<1>2. CASE \E k \in 1..Len(s), t \in Task : ~Member(s, t) /\ r = Inserted(s, k, t)
  <2> PICK k \in 1..Len(s), t \in Task : ~Member(s, t) /\ r = Inserted(s, k, t)
    BY <1>2
  <2>1. t \notin {s[i] : i \in DOMAIN s}
    BY DEF Member
  <2>2. r = SubSeq(s, 1, (k+1)-1) \o <<t>> \o SubSeq(s, k+1, Len(s))
    BY BehindIsInserted
  <2>3. Dead!InsertBehind(k, t)
    BY <2>1, <2>2 DEF Dead!InsertBehind, Dead!InsertAt, Dead!Range
  <2> QED BY <2>3 DEF Dead!Next
<1>3. CASE s # << >> /\ r = Without(s, Len(s))
  <2>1. r = SubSeq(s, 1, Len(s)-1)
    BY <1>3, FrontIsWithout
  <2>2. Dead!Pop
    BY <1>3, <2>1 DEF Dead!Pop, Dead!Front
  <2> QED BY <2>2 DEF Dead!Next
<1> QED BY <1>1, <1>2, <1>3 DEF SeqStep

\* Nothing is queued before the first timer expires.
LEMMA QueuesStartEmpty == Init => Asleep!Init /\ Dead!Init
<1> SUFFICES ASSUME Init PROVE Asleep!Init /\ Dead!Init
  OBVIOUS
<1>1. TypeOK
  BY InitTyped
<1>2. Sleepers = {} /\ Killed = {}
  BY DEF Init, Sleepers, Killed, READY
<1>3. PICK s, d : Queues(s, d)
  BY QueueInit DEF QueueInv
<1>4. s \in Seq(Task) /\ d \in Seq(Task) /\ \A t \in Task : ~Member(s, t) /\ ~Member(d, t)
  BY <1>2, <1>3 DEF Queues, SleepList, DeadList
<1>5. ASSUME NEW r \in Seq(Task), r # << >> PROVE \E t \in Task : Member(r, t)
  <2>1. 1 \in 1..Len(r) /\ r[1] \in Task
    BY <1>5
  <2> QED BY <2>1 DEF Member
<1>6. s = << >> /\ d = << >>
  BY <1>4, <1>5
<1> QED BY <1>1, <1>3, <1>6, ContentsAre DEF ContentsMatch, Asleep!Init, Dead!Init

(* tasks_asleep and tasks_dead implement two sequences: every step of the  *)
(* scheduler that touches a link does one operation of SeqQueue to one of  *)
(* them, although they share the links and a killed or woken task moves    *)
(* between them.                                                           *)
THEOREM ListsImplementSequences == NoSleeperKilled => (Spec => QueuesAreSequences)
<1> SUFFICES ASSUME NoSleeperKilled PROVE Spec => QueuesAreSequences
  OBVIOUS
<1>1. Init => Asleep!Init /\ Dead!Init
  BY QueuesStartEmpty
<1>2. ASSUME TypeOK, SchedInv, OnOwnStack, UseInv, QueueInv, [Next]_vars
      PROVE  \/ UNCHANGED queues
             \/ Asleep!Next /\ UNCHANGED Contents(On(tasks_dead))
             \/ Dead!Next /\ UNCHANGED Contents(On(tasks_asleep))
  <2> PICK s, d : Queues(s, d)
    BY <1>2 DEF QueueInv
  <2>1. QueuesMove(s, d)
    BY <1>2, QueuesStep DEF Queues
  <2> PICK r, e : /\ Queues(r, e)'
                  /\ \/ UNCHANGED queues /\ r = s /\ e = d
                     \/ SeqStep(s, r) /\ e = d
                     \/ SeqStep(d, e) /\ r = s
    BY <2>1 DEF QueuesMove
  <2>2. TypeOK'
    BY <1>2, StepTyped
  <2>3. /\ s \in Seq(Task) /\ Contents(On(tasks_asleep)) = s
        /\ d \in Seq(Task) /\ Contents(On(tasks_dead)) = d
    BY <1>2, ContentsAre DEF ContentsMatch
  <2>4. /\ Contents(On(tasks_asleep))' = r
        /\ Contents(On(tasks_dead))' = e
    <3>1. ContentsMatch'
      BY ContentsAre, PTL
    <3> QED BY <2>2, <3>1 DEF ContentsMatch
  <2>5. CASE UNCHANGED queues
    BY <2>5
  <2>6. CASE SeqStep(s, r) /\ e = d
    BY <2>3, <2>4, <2>6, AsleepStep
  <2>7. CASE SeqStep(d, e) /\ r = s
    BY <2>3, <2>4, <2>7, DeadStep
  <2> QED BY <2>5, <2>6, <2>7
<1>3. TypeOK /\ SchedInv /\ OnOwnStack /\ UseInv /\ QueueInv /\ [Next]_vars
          => [ \/ UNCHANGED queues
               \/ Asleep!Next /\ UNCHANGED Contents(On(tasks_dead))
               \/ Dead!Next /\ UNCHANGED Contents(On(tasks_asleep)) ]_vars
  BY <1>2
<1> QED BY <1>1, <1>3, QueuesAlways, PTL DEF Spec, QueuesAreSequences

-----------------------------------------------------------------------------
(* The boot of the only cpu.                                               *)

\* What sched_init has done when the cpu is at step m: the first task and
\* the janitor have the tids after the idle task's, which is 0.
Given(m) == IF m = "make_idle" THEN 0
            ELSE IF m \in {"add_idle", "running", "unlist", "make_first"} THEN 1
            ELSE IF m \in {"add_first", "make_janitor"} THEN 2 ELSE 3

Length(m) == IF m \in {"make_idle", "add_idle"} THEN 0
             ELSE IF m \in {"running", "unlist", "make_first", "add_first"} THEN 1
             ELSE IF m \in {"make_janitor", "add_janitor"} THEN 2 ELSE 3

Slot(m, i) == IF i >= Length(m) THEN Junk
              ELSE IF i = 0 /\ m \notin {"running", "unlist"} THEN NULL ELSE i

Alone(m) ==
    /\ m \in BootStep
    /\ m # "make_idle" => tasks_idle[Bsp] = 0
    /\ mode = [c \in CPU |-> m]
    /\ tasks_running = [c \in CPU |-> IF m \in {"make_idle", "add_idle", "running"} THEN NULL
                                      ELSE tasks_idle[c]]
    /\ data = [i \in Task |-> Slot(m, i)]
    /\ len = Length(m)
    /\ curr_tid = Given(m)
    /\ at = [t \in Task |-> IF t < Length(m) THEN "run" ELSE "none"]
    /\ status = [t \in Task |-> READY]
    /\ kstack = [c \in CPU |-> NULL]
    /\ tasks_asleep = [front |-> NULL, back |-> NULL]
    /\ tasks_dead = [front |-> NULL, back |-> NULL]
    /\ next = [t \in Task |-> NULL]
    /\ prev = [t \in Task |-> NULL]
    /\ due = [t \in Task |-> -1]
    /\ sched_lock = Free
    /\ cursor = NULL
    /\ reg = [t \in Task |-> NULL]
    /\ freed = {}

\* Until it has started its timer the cpu is alone in the boot, and from then
\* on it is in the scheduler.
BootInv == IF Booted THEN TypeOK /\ SchedInv ELSE \E m \in BootStep : Alone(m)

LEMMA BootFacts ==
    ASSUME CPU = {Bsp}
    PROVE  /\ tasks_idle[Bsp] \in Task /\ FirstTask = tasks_idle[Bsp] + 1
           /\ Janitor = tasks_idle[Bsp] + 2
           /\ BootTasks = {0, 1, 2} /\ LastTid = 2
           /\ Task \subseteq Nat /\ 0 \in Task
           /\ tasks_idle = [c \in CPU |-> tasks_idle[Bsp]]
           /\ {FirstTask, Janitor} \subseteq Task
           /\ NULL \notin Task /\ Junk \notin Task \cup {NULL}
<1>1. Task \subseteq Nat /\ 0 \in Task /\ tasks_idle[Bsp] \in Task
  BY SchedAssumption DEF Task
<1>2. tasks_idle = [c \in CPU |-> tasks_idle[Bsp]]
  BY SchedAssumption
<1>3. tasks_idle[Bsp] = 0 /\ FirstTask = 1 /\ Janitor = 2
  <2>1. PICK i \in Nat : i = tasks_idle[Bsp]
    BY <1>1
  <2>2. PICK f \in Nat, j \in Nat, n \in Nat : f = FirstTask /\ j = Janitor /\ n = LastTid
    BY <1>1, IdleFacts
  <2>3. i < f /\ f < j
    BY <2>1, <2>2, BspAssumption
  <2>4. BootTasks = {i, f, j}
    BY <2>1, <2>2 DEF BootTasks, IdleTasks
  <2>5. {i, f, j} = 0..n
    BY <2>2, <2>4, IdleFacts
  <2>6. 0 \in 0..n /\ j \in 0..n
    BY <2>5
  <2>7. 1 \in 0..n /\ 2 \in 0..n
    BY <2>3, <2>6
  <2>8. /\ 0 = i \/ 0 = f \/ 0 = j
        /\ 1 = i \/ 1 = f \/ 1 = j
        /\ 2 = i \/ 2 = f \/ 2 = j
    BY <2>5, <2>6, <2>7
  <2>9. i = 0 /\ f = 1 /\ j = 2
    BY <2>3, <2>8
  <2> QED BY <2>1, <2>2, <2>9
<1>4. BootTasks = {0, 1, 2} /\ LastTid = 2
  <2>1. BootTasks = {0, 1, 2}
    BY <1>3 DEF BootTasks, IdleTasks
  <2>2. PICK n \in Nat : n = LastTid
    BY <1>1, IdleFacts
  <2>3. 0..n = {0, 1, 2}
    BY <2>1, <2>2, IdleFacts
  <2>4. n \in 0..n /\ 2 \in 0..n /\ (3 <= n => 3 \in 0..n)
    BY <2>3
  <2>5. n = 2
    BY <2>3, <2>4
  <2> QED BY <2>1, <2>2, <2>5
<1> QED BY <1>1, <1>2, <1>3, <1>4, SchedAssumption, BspAssumption

\* No call and no interrupt comes before the timer is started.
LEMMA NothingElse ==
    ASSUME CPU = {Bsp}, NEW m, Alone(m), Next
    PROVE  FALSE
<1>1. \A c \in CPU : mode[c] \in BootStep
  BY DEF Alone
<1>2. \A c \in CPU : mode[c] \notin {"task", "wake", "insert", "reap", "switch"}
  BY <1>1 DEF BootStep
<1>3. ~Elapse
  BY DEF Elapse, Alone
<1>4. ASSUME NEW c \in CPU PROVE ~Switch(c) /\ ~InsertStep(c) /\ ~Reap(c)
  BY <1>2 DEF Switch, SwitchBegin, WakeOne, Choose, ChooseJunk, FinishSwitch, InsertStep,
          Reap, ReapBegin, ReapOne, ReapEnd, Locked, Executes
<1>5. ASSUME NEW c \in CPU, NEW t \in Task PROVE ~Call(c, t)
  BY <1>2 DEF Call, SleepBegin, Halt, sched_kill, sched_block, sched_unblock, CallJunk,
          task_make, sched_add, ReadCpu, ReadRunning, UseCurrent, Locked, Executes
<1> QED BY <1>3, <1>4, <1>5 DEF Next

\* A cpu that is at a step takes it, and is at the next one.
LEMMA Advanced ==
    ASSUME CPU = {Bsp}, NEW m, Alone(m), NEW here, NEW there, Advance(Bsp, here, there)
    PROVE  here = m /\ mode' = [c \in CPU |-> there]
BY DEF Alone, Advance

LEMMA MadeAlone ==
    ASSUME CPU = {Bsp}, NEW m, Alone(m), NEW there, NEW t, Make(Bsp, m, there, t),
           there \in BootStep, t \in Nat,
           Length(there) = Length(m), Given(there) = Given(m) + 1,
           \A i : Slot(there, i) = Slot(m, i),
           m \in {"make_idle", "add_idle", "running"}
               <=> there \in {"make_idle", "add_idle", "running"},
           tasks_idle[Bsp] = 0
    PROVE  Alone(there)'
<1>1. mode' = [c \in CPU |-> there]
  BY Advanced DEF Make
<1>2. curr_tid' = Given(there)
  BY DEF Make, Alone
<1>3. status' = [u \in Task |-> READY]
  BY DEF Make, Alone
<1>4. UNCHANGED <<tasks_running, tables, queues, due, sched_lock, cursor, kstack, at, reg, freed>>
  BY DEF Make
<1> QED BY <1>1, <1>2, <1>3, <1>4, Zenon DEF Alone, tables, queues

LEMMA AddedAlone ==
    ASSUME CPU = {Bsp}, NEW m, Alone(m), NEW there, NEW t, Add(Bsp, m, there, t),
           there \in BootStep, t \in Task, tasks_idle[Bsp] = 0,
           Length(there) = t+1, Length(m) = t, Given(there) = Given(m),
           Slot(there, t) = t, \A i \in Task \ {t} : Slot(there, i) = Slot(m, i),
           m \in {"make_idle", "add_idle", "running"}
               <=> there \in {"make_idle", "add_idle", "running"}
    PROVE  Alone(there)'
<1>1. mode' = [c \in CPU |-> there]
  BY Advanced DEF Add
<1>2. len' = Length(there)
  BY DEF Add, NewLen
<1>3. data' = [i \in Task |-> Slot(there, i)]
  BY DEF Add, Alone
<1>4. at' = [u \in Task |-> IF u < Length(there) THEN "run" ELSE "none"]
  <2>1. Task \subseteq Nat
    BY BootFacts
  <2>2. \A u \in Task : u < Length(there) <=> u < Length(m) \/ u = t
    BY <2>1
  <2>3. at = [u \in Task |-> IF u < Length(m) THEN "run" ELSE "none"]
        /\ at' = [at EXCEPT ![t] = "run"]
    BY DEF Alone, Add
  <2> QED BY <2>2, <2>3
<1>5. UNCHANGED <<tasks_running, queues, status, due, curr_tid, sched_lock, cursor, kstack,
                  reg, freed>>
  BY DEF Add
<1> QED BY <1>1, <1>2, <1>3, <1>4, <1>5, Zenon DEF Alone, queues

LEMMA BootSteps ==
    ASSUME CPU = {Bsp}, NEW m, Alone(m), sched_init(Bsp)
    PROVE  Init' \/ \E n \in BootStep : Alone(n)'
<1> DEFINE i == tasks_idle[Bsp]
<1>1. /\ i \in Nat /\ i \in Task /\ FirstTask = i + 1 /\ Janitor = i + 2
      /\ Task \subseteq Nat /\ 0 \in Task /\ {FirstTask, Janitor} \subseteq Task
      /\ tasks_idle = [c \in CPU |-> i]
      /\ NULL \notin Task /\ Junk \notin Task \cup {NULL}
  BY BootFacts
<1> HIDE DEF i
<1>2. /\ m \in BootStep /\ (m # "make_idle" => i = 0)
      /\ mode = [c \in CPU |-> m] /\ mode[Bsp] = m
      /\ curr_tid = Given(m)
  BY DEF Alone, i
<1>3. CASE m = "make_idle"
  <2>1. Make(Bsp, "make_idle", "add_idle", i)
    BY <1>2, <1>3 DEF sched_init, AddIdle, Make, Add, SetRunning, UnlistIdle, AddFirstTasks,
           StartTimer, Advance, i
  <2>2. i = 0
    BY <2>1, <1>2, <1>3 DEF Make, Given
  <2>3. Alone("add_idle")'
    BY <2>1, <2>2, <1>3, MadeAlone DEF Given, Length, Slot, BootStep, i
  <2> QED BY <2>3 DEF BootStep
<1>4. CASE m = "add_idle"
  <2>1. Add(Bsp, "add_idle", "running", i) /\ i = 0
    BY <1>2, <1>4 DEF sched_init, AddIdle, Make, Add, SetRunning, UnlistIdle, AddFirstTasks,
           StartTimer, Advance, i
  <2>2. Alone("running")'
    BY <2>1, <1>1, <1>4, AddedAlone DEF Given, Length, Slot, BootStep, i
  <2> QED BY <2>2 DEF BootStep
<1>5. CASE m = "running"
  <2>1. SetRunning(Bsp) /\ i = 0
    BY <1>2, <1>5 DEF sched_init, AddIdle, Make, Add, SetRunning, UnlistIdle, AddFirstTasks,
           StartTimer, Advance, i
  <2>2. mode' = [c \in CPU |-> "unlist"]
    BY <2>1, <1>5, Advanced DEF SetRunning
  <2>3. tasks_running' = [c \in CPU |-> tasks_idle[c]]
    <3>1. data[i] = i
      BY <2>1, <1>1, <1>5 DEF Alone, Slot, Length
    <3>2. tasks_running' = [tasks_running EXCEPT ![Bsp] = i]
      BY <2>1, <3>1 DEF SetRunning, i
    <3>3. tasks_running = [c \in CPU |-> NULL]
      BY <1>5 DEF Alone
    <3> QED BY <3>2, <3>3, <1>1
  <2>4. UNCHANGED <<tables, queues, status, due, curr_tid, sched_lock, cursor, kstack, at,
                    reg, freed>>
    BY <2>1 DEF SetRunning
  <2>5. /\ Given("unlist") = Given("running") /\ Length("unlist") = Length("running")
        /\ \A k : Slot("unlist", k) = Slot("running", k)
    BY DEF Given, Length, Slot
  <2>6. "unlist" \in BootStep
    BY DEF BootStep
  <2>7. Alone("unlist")'
    BY <2>1, <2>2, <2>3, <2>4, <2>5, <2>6, <1>5, Zenon DEF Alone, tables, queues, i
  <2> QED BY <2>6, <2>7
<1>6. CASE m = "unlist"
  <2>1. UnlistIdle(Bsp) /\ i = 0
    BY <1>2, <1>6 DEF sched_init, AddIdle, Make, Add, SetRunning, UnlistIdle, AddFirstTasks,
           StartTimer, Advance, i
  <2>2. mode' = [c \in CPU |-> "make_first"]
    BY <2>1, <1>6, Advanced DEF UnlistIdle
  <2>3. data' = [k \in Task |-> Slot("make_first", k)]
    <3>1. data' = [data EXCEPT ![0] = NULL]
      BY <2>1 DEF UnlistIdle, i
    <3>2. data = [k \in Task |-> Slot("unlist", k)]
      BY <1>6 DEF Alone
    <3>3. \A k \in Nat : Slot("make_first", k) = IF k = 0 THEN NULL ELSE Slot("unlist", k)
      BY DEF Slot, Length
    <3> QED BY <3>1, <3>2, <3>3, <1>1
  <2>4. UNCHANGED <<tasks_running, len, queues, status, due, curr_tid, sched_lock, cursor,
                    kstack, at, reg, freed>>
    BY <2>1 DEF UnlistIdle
  <2>5. Given("make_first") = Given("unlist") /\ Length("make_first") = Length("unlist")
    BY DEF Given, Length
  <2>6. "make_first" \in BootStep /\ "unlist" \notin {"make_idle", "add_idle", "running"}
        /\ "make_first" \notin {"make_idle", "add_idle", "running"}
    BY DEF BootStep
  <2>7. Alone("make_first")'
    BY <2>1, <2>2, <2>3, <2>4, <2>5, <2>6, <1>6, Zenon DEF Alone, queues, i
  <2> QED BY <2>6, <2>7
<1>7. CASE m = "make_first"
  <2>1. Make(Bsp, "make_first", "add_first", FirstTask) /\ i = 0
    BY <1>2, <1>7 DEF sched_init, AddIdle, Make, Add, SetRunning, UnlistIdle, AddFirstTasks,
           StartTimer, Advance, i
  <2>2. Alone("add_first")'
    BY <2>1, <1>1, <1>7, MadeAlone DEF Given, Length, Slot, BootStep, i
  <2> QED BY <2>2 DEF BootStep
<1>8. CASE m = "add_first"
  <2>1. Add(Bsp, "add_first", "make_janitor", FirstTask) /\ i = 0 /\ FirstTask = 1
    BY <1>1, <1>2, <1>8 DEF sched_init, AddIdle, Make, Add, SetRunning, UnlistIdle, AddFirstTasks,
           StartTimer, Advance, i
  <2>2. Alone("make_janitor")'
    BY <2>1, <1>1, <1>8, AddedAlone DEF Given, Length, Slot, BootStep, i
  <2> QED BY <2>2 DEF BootStep
<1>9. CASE m = "make_janitor"
  <2>1. Make(Bsp, "make_janitor", "add_janitor", Janitor) /\ i = 0
    BY <1>2, <1>9 DEF sched_init, AddIdle, Make, Add, SetRunning, UnlistIdle, AddFirstTasks,
           StartTimer, Advance, i
  <2>2. Alone("add_janitor")'
    BY <2>1, <1>1, <1>9, MadeAlone DEF Given, Length, Slot, BootStep, i
  <2> QED BY <2>2 DEF BootStep
<1>10. CASE m = "add_janitor"
  <2>1. Add(Bsp, "add_janitor", "start", Janitor) /\ i = 0 /\ Janitor = 2
    BY <1>1, <1>2, <1>10 DEF sched_init, AddIdle, Make, Add, SetRunning, UnlistIdle, AddFirstTasks,
           StartTimer, Advance, i
  <2>2. Alone("start")'
    BY <2>1, <1>1, <1>10, AddedAlone DEF Given, Length, Slot, BootStep, i
  <2> QED BY <2>2 DEF BootStep
<1>11. CASE m = "start"
  <2>1. StartTimer(Bsp) /\ i = 0 /\ FirstTask = 1 /\ Janitor = 2
    BY <1>1, <1>2, <1>11 DEF sched_init, AddIdle, Make, Add, SetRunning, UnlistIdle, AddFirstTasks,
           StartTimer, Advance, i
  <2>2. mode' = [c \in CPU |-> "task"]
    BY <2>1, <1>11, Advanced DEF StartTimer
  <2>3. kstack' = tasks_idle
    <3>1. kstack' = [kstack EXCEPT ![Bsp] = i] /\ kstack = [c \in CPU |-> NULL]
      BY <2>1, <1>11 DEF StartTimer, Alone, i
    <3> QED BY <3>1, <1>1
  <2>4. UNCHANGED <<tasks_running, tables, queues, status, due, curr_tid, sched_lock, cursor,
                    at, reg, freed>>
    BY <2>1 DEF StartTimer
  <2>5. tasks_running = tasks_idle
    BY <1>1, <1>11 DEF Alone
  <2>6. data = [k \in Task |-> IF k \in {FirstTask, Janitor} THEN k
                               ELSE IF k \in IdleTasks THEN NULL ELSE Junk]
    <3>1. data = [k \in Task |-> Slot("start", k)]
      BY <1>11 DEF Alone
    <3>2. \A k \in Nat : Slot("start", k) = IF k \in {1, 2} THEN k
                                            ELSE IF k < 2 THEN NULL ELSE Junk
      BY DEF Slot, Length
    <3>3. IdleTasks = {0}
      BY <2>1 DEF IdleTasks, i
    <3>4. \A k \in Nat : Slot("start", k) = IF k \in {1, 2} THEN k
                                            ELSE IF k \in {0} THEN NULL ELSE Junk
      BY <3>2
    <3> QED BY <2>1, <3>1, <3>3, <3>4, <1>1
  <2>7. at = [t \in Task |-> IF t \in BootTasks THEN "run" ELSE "none"]
    <3>1. at = [t \in Task |-> IF t < 3 THEN "run" ELSE "none"]
      BY <1>11 DEF Alone, Length
    <3>2. \A t \in Task : t < 3 <=> t \in BootTasks
      BY <1>1, BootFacts
    <3> QED BY <3>1, <3>2
  <2>8. len = LastTid + 1 /\ curr_tid = LastTid + 1
    BY <1>11, BootFacts DEF Alone, Length, Given
  <2>9. Init'
    BY <2>2, <2>3, <2>4, <2>5, <2>6, <2>7, <2>8, <1>11, Zenon DEF Init, Alone, tables, queues
  <2> QED BY <2>9
<1> QED BY <1>2, <1>3, <1>4, <1>5, <1>6, <1>7, <1>8, <1>9, <1>10, <1>11 DEF BootStep

\* The only cpu comes from sched_init into the state the scheduler is proved
\* for: its idle task runs and is not listed, the first task and the janitor
\* are.
THEOREM BootIsInit ==
    ASSUME CPU = {Bsp}
    PROVE  BootSpec => BootReachesInit
<1>0. (Init => TypeOK /\ SchedInv)'
  <2>1. Init => TypeOK /\ SchedInv
    BY InitTyped, InitSafe
  <2> QED BY <2>1, PTL
<1>1. BootInit => BootInv
  <2> SUFFICES ASSUME BootInit PROVE Alone("make_idle") /\ ~Booted
    BY DEF BootInv, BootStep
  <2>1. \A i \in Task : Slot("make_idle", i) = Junk
    BY BootFacts DEF Slot, Length
  <2>2. \A t \in Task : ~(t < Length("make_idle"))
    BY BootFacts DEF Length
  <2>3. Given("make_idle") = 0 /\ Length("make_idle") = 0 /\ "make_idle" \in BootStep
    BY DEF Given, Length, BootStep
  <2>4. ~Booted
    BY <2>3 DEF BootInit, Booted
  <2> QED BY <2>1, <2>2, <2>3, <2>4, Zenon DEF BootInit, Alone
<1>2. BootInv /\ [BootNext]_vars => BootInv' /\ (~Booted /\ Booted' => Init')
  <2> SUFFICES ASSUME BootInv, [BootNext]_vars
               PROVE  BootInv' /\ (~Booted /\ Booted' => Init')
    OBVIOUS
  <2>1. CASE UNCHANGED vars
    <3>1. Booted' <=> Booted
      BY <2>1 DEF vars, Booted
    <3>2. TypeOK /\ SchedInv => (TypeOK /\ SchedInv)'
      BY <2>1, StepTyped, StepSafe
    <3>3. \A m : Alone(m) => Alone(m)'
      BY <2>1, Zenon DEF vars, Alone, tables, queues
    <3> QED BY <3>1, <3>2, <3>3 DEF BootInv
  <2>2. CASE Booted /\ BootNext
    <3>1. Next
      BY <2>2 DEF BootNext, Booted, BootStep, sched_init, AddIdle, Make, Add, SetRunning,
             UnlistIdle, AddFirstTasks, StartTimer, Advance
    <3>2. TypeOK' /\ SchedInv'
      BY <2>2, <3>1, StepTyped, StepSafe DEF BootInv
    <3>3. Booted'
      BY <3>2 DEF TypeOK, Booted, BootStep
    <3> QED BY <2>2, <3>2, <3>3 DEF BootInv
  <2>3. CASE ~Booted /\ BootNext
    <3>1. PICK m \in BootStep : Alone(m)
      BY <2>3 DEF BootInv
    <3>2. sched_init(Bsp)
      BY <2>3, <3>1, NothingElse DEF BootNext
    <3>3. CASE Init'
      <4>1. Booted'
        BY <3>3 DEF Init, Booted, BootStep
      <4>2. TypeOK' /\ SchedInv'
        BY <1>0, <3>3
      <4> QED BY <3>3, <4>1, <4>2 DEF BootInv
    <3>4. CASE \E n \in BootStep : Alone(n)'
      <4>1. ~Booted'
        BY <3>4 DEF Alone, Booted
      <4> QED BY <3>4, <4>1 DEF BootInv
    <3> QED BY <3>1, <3>2, <3>3, <3>4, BootSteps
  <2> QED BY <2>1, <2>2, <2>3
<1> QED BY <1>1, <1>2, PTL DEF BootSpec, BootReachesInit
=============================================================================

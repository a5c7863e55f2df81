------------------------------ MODULE MCSched --------------------------------
EXTENDS SchedQueues

\* The cpus are 0, 1, ...; their idle tasks were made first.
IdlePerCpu == [c \in CPU |-> c]

\* What the tree does, with two cpus: kinit (task 2) starts klogdisplayd
\* (task 4), which sleeps between redraws, and kills itself.
TreeNaps == {<<4, 1>>}
TreeKills == {<<2, 2>>}
TreeAdders == {2}
None == {}

\* One cpu and all the calls, used so that nobody who sleeps is killed: task
\* 1 starts two tasks that sleep, task 3 blocks, unblocks and kills task 1.
UniNaps == {<<3, 1>>, <<3, 3>>, <<4, 2>>}
UniKills == {<<3, 1>>, <<1, 1>>}
UniBlocks == {<<3, 1>>, <<1, 1>>}
UniAdders == {1}
UniAskers == {1, 4}

\* Two cpus: kinit (task 2) reads a file, which asks for the current task.
TreeAskers == {2}

\* Two cpus and callers that coordinate nothing: tasks 2 and 4 both start
\* tasks, and task 2 kills tasks 4 and 5 and blocks task 4.
ApiKills == {<<2, 4>>, <<2, 5>>}
ApiBlocks == {<<2, 4>>}
ApiAdders == {2, 4}

\* One cpu: task 1 kills task 3, which sleeps.
KillNaps == {<<3, 1>>}
KillKills == {<<1, 3>>}
=============================================================================

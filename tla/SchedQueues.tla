----------------------------- MODULE SchedQueues -----------------------------
(***************************************************************************)
(* The scheduler's two queues are lists over the same links, the fields    *)
(* next and prev of the tasks, and tasks move from one to the other.       *)
(* Behind each list its users see a sequence.                              *)
(***************************************************************************)
EXTENDS SchedBoot

Asleep == INSTANCE SeqQueue WITH s <- Contents(On(tasks_asleep))
Dead   == INSTANCE SeqQueue WITH s <- Contents(On(tasks_dead))

(* tasks_asleep and tasks_dead implement two sequences: both start empty,  *)
(* and a step that touches a link does one operation of SeqQueue to one of *)
(* them and nothing to the other, whatever task is on its way between      *)
(* them.  (No sleeper is killed: see KilledLeavesSleepQueue for that.)     *)
QueuesAreSequences ==
    /\ Asleep!Init
    /\ Dead!Init
    /\ [][ \/ UNCHANGED queues
           \/ Asleep!Next /\ UNCHANGED Contents(On(tasks_dead))
           \/ Dead!Next /\ UNCHANGED Contents(On(tasks_asleep)) ]_vars
=============================================================================

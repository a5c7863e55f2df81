------------------------------ MODULE SeqQueue -------------------------------
(***************************************************************************)
(* What tqueue.c promises its callers: a sequence of distinct tasks, taken *)
(* from at the back, added to at the front or behind a task that is in it, *)
(* with removal of any member.                                             *)
(***************************************************************************)
EXTENDS Sequences, SequencesExt

CONSTANT Task
VARIABLE s

Init == s = <<>>

Push(t) == /\ t \notin Range(s)
           /\ s' = <<t>> \o s

\* t goes right behind the task at position i.
InsertBehind(i, t) == /\ t \notin Range(s)
                      /\ s' = InsertAt(s, i+1, t)

Drop(i) == s' = RemoveAt(s, i)

Pop == /\ s # <<>>
       /\ s' = Front(s)

Next == \/ \E t \in Task : Push(t)
        \/ \E i \in 1..Len(s), t \in Task : InsertBehind(i, t)
        \/ \E i \in 1..Len(s) : Drop(i)
        \/ Pop

Spec == Init /\ [][Next]_s
=============================================================================

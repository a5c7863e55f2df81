------------------------------ MODULE TaskQueue ------------------------------
(***************************************************************************)
(* The intrusive doubly linked list of proc/sched/tqueue.c.  The links are *)
(* fields of the tasks themselves (task_t.next, task_t.prev), so every     *)
(* queue of the kernel shares them; an operator takes and returns the      *)
(* record                                                                  *)
(*                                                                         *)
(*     [front, back: one queue's two pointers,                             *)
(*      next, prev:  the links of all the tasks]                           *)
(*                                                                         *)
(* and is total: it says what the pointer code does to any such record, a  *)
(* corrupted one too.  NULL is the null pointer.                           *)
(***************************************************************************)
EXTENDS Naturals, FiniteSets, Sequences

CONSTANT NULL

\* Mutant: the first task of a queue does not become its back.
tq_push_front_NoBack(h, t) ==
    LET unlinked == [h.prev EXCEPT ![t] = NULL] IN
    [ front |-> t,
      back  |-> h.back,
      next  |-> [h.next EXCEPT ![t] = h.front],
      prev  |-> IF h.front = NULL THEN unlinked
                ELSE [unlinked EXCEPT ![h.front] = t] ]

tq_push_front(h, t) ==
    LET unlinked == [h.prev EXCEPT ![t] = NULL] IN
    [ front |-> t,
      back  |-> IF h.front = NULL THEN t ELSE h.back,
      next  |-> [h.next EXCEPT ![t] = h.front],
      prev  |-> IF h.front = NULL THEN unlinked
                ELSE [unlinked EXCEPT ![h.front] = t] ]

Unlinked(h, t) == [h EXCEPT !.next[t] = NULL, !.prev[t] = NULL]

\* The node tq_insert_after writes through is the null pointer: a is in the
\* middle of no list although it is not the back of this one.
InsertFaults(h, a, t) ==
    /\ a # NULL
    /\ a # h.back
    /\ Unlinked(h, t).next[a] = NULL

\* Mutant: inserting behind the back does not move it.
tq_insert_after_BackStays(h, a, t) ==
    LET u == Unlinked(h, t)
        b == u.next[a]
    IN  IF a = NULL THEN tq_push_front(u, t)
        ELSE IF a = h.back THEN [u EXCEPT !.next[a] = t, !.prev[t] = a]
        ELSE [u EXCEPT !.prev[b] = t, !.next[a] = t, !.prev[t] = a, !.next[t] = b]

\* Defined where InsertFaults is false.
tq_insert_after(h, a, t) ==
    LET u == Unlinked(h, t) IN
    IF a = NULL THEN tq_push_front(u, t)
    ELSE IF a = h.back
         THEN [u EXCEPT !.next[a] = t, !.prev[t] = a, !.back = t]
         ELSE LET b == u.next[a] IN
              [u EXCEPT !.prev[b] = t, !.next[a] = t, !.prev[t] = a, !.next[t] = b]

\* Removing the only node changes neither front nor back: the code has no
\* branch for it.
tq_remove(h, t) ==
    LET p == h.prev[t]
        n == h.next[t]
        nexts == IF p = NULL THEN h.next ELSE [h.next EXCEPT ![p] = n]
        prevs == IF n = NULL THEN h.prev ELSE [h.prev EXCEPT ![n] = p]
    IN  [ front |-> IF p = NULL /\ n # NULL THEN n ELSE h.front,
          back  |-> IF p # NULL /\ n = NULL THEN p ELSE h.back,
          next  |-> [nexts EXCEPT ![t] = NULL],
          prev  |-> [prevs EXCEPT ![t] = NULL] ]

\* Mutant: the new back still points at the task popped.
tq_pop_back_Dangling(h) ==
    LET b == h.prev[h.back] IN
    [h EXCEPT !.front = IF b = NULL THEN NULL ELSE h.front, !.back = b]

\* For h.back # NULL; the task returned is h.back.  Its own links stay.
tq_pop_back(h) ==
    LET b == h.prev[h.back] IN
    [ front |-> IF b = NULL THEN NULL ELSE h.front,
      back  |-> b,
      next  |-> IF b = NULL THEN h.next ELSE [h.next EXCEPT ![b] = NULL],
      prev  |-> h.prev ]

-----------------------------------------------------------------------------
(* What a record stands for.                                               *)

\* The tasks met from front along next, at most every task once.
Contents(h) ==
    LET size == Cardinality(DOMAIN h.next)
        node[n \in 0..size] ==
            IF n = 0 THEN h.front
            ELSE IF node[n-1] = NULL THEN NULL ELSE h.next[node[n-1]]
        met == {n \in 1..size : node[n-1] # NULL}
    IN  [n \in 1..Cardinality(met) |-> node[n-1]]

\* The record is a proper list of the tasks of s, front first.
Represents(h, s) ==
    /\ \A i, j \in 1..Len(s) : s[i] = s[j] => i = j
    /\ h.front = IF s = <<>> THEN NULL ELSE s[1]
    /\ h.back = IF s = <<>> THEN NULL ELSE s[Len(s)]
    /\ \A i \in 1..Len(s) :
          /\ h.next[s[i]] = IF i = Len(s) THEN NULL ELSE s[i+1]
          /\ h.prev[s[i]] = IF i = 1 THEN NULL ELSE s[i-1]
=============================================================================

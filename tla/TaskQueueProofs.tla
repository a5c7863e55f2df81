--------------------------- MODULE TaskQueueProofs ---------------------------
(***************************************************************************)
(* What the operations of tqueue.c do to a queue that is a proper list,    *)
(* for every number of tasks and every length: each keeps it a proper      *)
(* list, of the sequence one expects.                                      *)
(***************************************************************************)
EXTENDS TaskQueue, FiniteSetTheorems, TLAPS

Heap(T) == [ front: T \cup {NULL}, back: T \cup {NULL},
             next: [T -> T \cup {NULL}], prev: [T -> T \cup {NULL}] ]

\* s with t behind its i-th element, and s without its i-th element.
Inserted(s, i, t) == [j \in 1..Len(s)+1 |-> IF j <= i THEN s[j]
                                           ELSE IF j = i+1 THEN t ELSE s[j-1]]
Without(s, i) == [j \in 1..Len(s)-1 |-> IF j < i THEN s[j] ELSE s[j+1]]

Member(s, t) == \E i \in 1..Len(s) : s[i] = t

\* The elements of a sequence with one in front, and with one at the back.
LEMMA Prepended ==
    ASSUME NEW T, NEW s \in Seq(T), NEW t \in T, NEW r, r = <<t>> \o s
    PROVE  /\ r \in Seq(T)
           /\ Len(r) = Len(s) + 1
           /\ r[1] = t
           /\ \A i \in 1..Len(s) : r[i+1] = s[i]
           /\ \A i \in 2..Len(r) : r[i] = s[i-1]
  OBVIOUS

LEMMA Appended ==
    ASSUME NEW T, NEW s \in Seq(T), NEW t \in T
    PROVE  /\ Append(s, t) \in Seq(T)
           /\ Len(Append(s, t)) = Len(s) + 1
           /\ Append(s, t)[Len(s) + 1] = t
           /\ \A i \in 1..Len(s) : Append(s, t)[i] = s[i]
  OBVIOUS

(* tq_push_front puts the task in front of the list.                       *)
THEOREM PushFrontRepresents ==
    ASSUME NEW T, NULL \notin T, NEW h \in Heap(T), NEW s \in Seq(T), Represents(h, s),
           NEW t \in T, ~Member(s, t)
    PROVE  Represents(tq_push_front(h, t), <<t>> \o s)
<1> DEFINE g == tq_push_front(h, t)
           r == <<t>> \o s
<1>1. /\ Len(r) = Len(s) + 1 /\ Len(s) \in Nat
      /\ r[1] = t
      /\ \A i \in 2..Len(r) : r[i] = s[i-1] /\ i-1 \in 1..Len(s)
      /\ r # <<>>
  BY Prepended
<1>2. \A i \in 1..Len(s) : s[i] \in T /\ s[i] # t /\ s[i] # NULL
  BY DEF Member
<1>3. \A i, j \in 1..Len(s) : s[i] = s[j] => i = j
  BY DEF Represents
<1>4. s = <<>> <=> Len(s) = 0
  OBVIOUS
<1> HIDE DEF r
<1>5. \A i, j \in 1..Len(r) : r[i] = r[j] => i = j
  <2> SUFFICES ASSUME NEW i \in 1..Len(r), NEW j \in 1..Len(r), r[i] = r[j]
               PROVE  i = j
    OBVIOUS
  <2>1. CASE i = 1 \/ j = 1
    BY <2>1, <1>1, <1>2
  <2>2. CASE i # 1 /\ j # 1
    <3>1. i \in 2..Len(r) /\ j \in 2..Len(r)
      BY <2>2, <1>1
    <3>2. s[i-1] = s[j-1]
      BY <3>1, <1>1
    <3>3. i-1 = j-1
      BY <3>1, <3>2, <1>1, <1>3
    <3> QED BY <3>3, <1>1
  <2> QED BY <2>1, <2>2
<1>6. g.front = t /\ g.back = r[Len(r)]
  <2>1. CASE Len(s) = 0
    BY <2>1, <1>1, <1>4 DEF Represents, tq_push_front
  <2>2. CASE Len(s) # 0
    <3>1. h.front = s[1] /\ h.back = s[Len(s)] /\ h.front # NULL
      BY <2>2, <1>1, <1>2, <1>4 DEF Represents
    <3>2. r[Len(r)] = s[Len(s)]
      BY <2>2, <1>1
    <3> QED BY <3>1, <3>2 DEF tq_push_front
  <2> QED BY <2>1, <2>2
<1>7. ASSUME NEW i \in 1..Len(s)
      PROVE  /\ h.front = s[1]
             /\ g.next[s[i]] = IF i = Len(s) THEN NULL ELSE s[i+1]
             /\ g.prev[s[i]] = IF i = 1 THEN t ELSE s[i-1]
  <2>1. /\ h.front = s[1] /\ h.front # NULL /\ h.front \in T /\ s[i] \in T /\ s[i] # t
        /\ (s[i] = h.front <=> i = 1)
    BY <1>1, <1>2, <1>3, <1>4 DEF Represents
  <2>2. /\ h.next[s[i]] = IF i = Len(s) THEN NULL ELSE s[i+1]
        /\ h.prev[s[i]] = IF i = 1 THEN NULL ELSE s[i-1]
    BY DEF Represents
  <2>3. /\ g.next = [h.next EXCEPT ![t] = h.front]
        /\ g.prev = [[h.prev EXCEPT ![t] = NULL] EXCEPT ![h.front] = t]
    BY <2>1 DEF tq_push_front
  <2> QED BY <2>1, <2>2, <2>3 DEF Heap
<1>8. g.next[t] = (IF 1 = Len(r) THEN NULL ELSE r[2]) /\ g.prev[t] = NULL
  <2>1. g.next[t] = h.front
    BY DEF tq_push_front, Heap
  <2>2. CASE Len(s) = 0
    BY <2>1, <2>2, <1>1, <1>4 DEF tq_push_front, Heap, Represents
  <2>3. CASE Len(s) # 0
    <3>1. h.front = s[1] /\ h.front # t /\ h.front # NULL /\ h.front \in T
      BY <2>3, <1>1, <1>2, <1>4 DEF Represents
    <3>2. r[2] = s[1] /\ Len(r) # 1
      BY <2>3, <1>1
    <3>3. g.prev = [[h.prev EXCEPT ![t] = NULL] EXCEPT ![h.front] = t]
      BY <3>1 DEF tq_push_front
    <3> QED BY <2>1, <3>1, <3>2, <3>3 DEF Heap
  <2> QED BY <2>2, <2>3
<1>9. ASSUME NEW i \in 1..Len(r)
      PROVE  /\ g.next[r[i]] = IF i = Len(r) THEN NULL ELSE r[i+1]
             /\ g.prev[r[i]] = IF i = 1 THEN NULL ELSE r[i-1]
  <2>1. CASE i = 1
    BY <2>1, <1>1, <1>8
  <2>2. CASE i # 1
    <3>1. i \in 2..Len(r) /\ i-1 \in 1..Len(s) /\ r[i] = s[i-1]
      BY <2>2, <1>1
    <3>2. i # Len(r) => r[i+1] = s[i-1+1]
      BY <3>1, <1>1
    <3>3. i-1 # 1 => r[i-1] = s[i-1-1]
      BY <3>1, <1>1
    <3> HIDE DEF g
    <3> QED BY <2>2, <3>1, <3>2, <3>3, <1>1, <1>7
  <2> QED BY <2>1, <2>2
<1> HIDE DEF g
<1> QED BY <1>1, <1>5, <1>6, <1>9 DEF Represents, r, g

(* tq_pop_back takes the last task of the list away.                       *)
THEOREM PopBackRepresents ==
    ASSUME NEW T, NULL \notin T, NEW h \in Heap(T), NEW s \in Seq(T), Represents(h, s),
           s # <<>>
    PROVE  /\ h.back = s[Len(s)]
           /\ Represents(tq_pop_back(h), Without(s, Len(s)))
<1> DEFINE g == tq_pop_back(h)
           n == Len(s)
           r == Without(s, n)
<1>1. /\ n \in Nat \ {0}
      /\ Len(r) = n - 1
      /\ \A i \in 1..n-1 : r[i] = s[i]
      /\ (r = <<>> <=> n = 1)
  <2>1. n \in Nat \ {0}
    OBVIOUS
  <2>2. r \in Seq(T) /\ Len(r) = n - 1
    BY <2>1 DEF Without
  <2>3. \A i \in 1..n-1 : r[i] = s[i]
    BY <2>1 DEF Without
  <2> HIDE DEF r, n
  <2> QED BY <2>1, <2>2, <2>3
<1>2. \A i \in 1..n : s[i] \in T /\ s[i] # NULL
  OBVIOUS
<1>3. \A i, j \in 1..n : s[i] = s[j] => i = j
  BY DEF Represents
<1>4. /\ h.front = s[1] /\ h.back = s[n]
      /\ \A i \in 1..n : /\ h.next[s[i]] = IF i = n THEN NULL ELSE s[i+1]
                         /\ h.prev[s[i]] = IF i = 1 THEN NULL ELSE s[i-1]
  BY DEF Represents
<1> HIDE DEF r, n
<1>5. h.prev[h.back] = IF n = 1 THEN NULL ELSE s[n-1]
  BY <1>1, <1>4
<1>6. CASE n = 1
  <2>1. g.front = NULL /\ g.back = NULL
    BY <1>5, <1>6 DEF tq_pop_back
  <2>2. r = <<>> /\ Len(r) = 0
    BY <1>1, <1>6
  <2> HIDE DEF g
  <2>3. Represents(g, r)
    BY <2>1, <2>2 DEF Represents
  <2> QED BY <1>4, <2>3 DEF g, r, n
<1>7. CASE n # 1
  <2>1. /\ g.front = h.front /\ g.back = s[n-1] /\ g.prev = h.prev
        /\ g.next = [h.next EXCEPT ![s[n-1]] = NULL]
    BY <1>1, <1>2, <1>5, <1>7 DEF tq_pop_back
  <2>2. r # <<>> /\ g.front = r[1] /\ g.back = r[Len(r)]
    BY <2>1, <1>1, <1>4, <1>7
  <2>3. \A i, j \in 1..Len(r) : r[i] = r[j] => i = j
    BY <1>1, <1>3
  <2>4. ASSUME NEW i \in 1..Len(r)
        PROVE  /\ g.next[r[i]] = IF i = Len(r) THEN NULL ELSE r[i+1]
               /\ g.prev[r[i]] = IF i = 1 THEN NULL ELSE r[i-1]
    <3>1. /\ i \in 1..n /\ n-1 \in 1..n /\ r[i] = s[i] /\ s[i] \in T
          /\ (s[i] = s[n-1] <=> i = n-1)
      BY <1>1, <1>2, <1>3
    <3>2. i # n-1 => r[i+1] = s[i+1]
      BY <1>1
    <3>3. i # 1 => r[i-1] = s[i-1]
      BY <1>1
    <3>4. g.next[s[i]] = IF i = n-1 THEN NULL ELSE s[i+1]
      BY <2>1, <3>1, <1>1, <1>4 DEF Heap
    <3> HIDE DEF g
    <3> QED BY <2>1, <3>1, <3>2, <3>3, <3>4, <1>1, <1>4
  <2> HIDE DEF g
  <2>5. Represents(g, r)
    BY <2>2, <2>3, <2>4 DEF Represents
  <2> QED BY <1>4, <2>5 DEF g, r, n
<1> QED BY <1>6, <1>7

(* tq_insert_after behind a task of the list puts the new one there.       *)
THEOREM InsertAfterRepresents ==
    ASSUME NEW T, NULL \notin T, NEW h \in Heap(T), NEW s \in Seq(T), Represents(h, s),
           NEW t \in T, ~Member(s, t), NEW k \in 1..Len(s)
    PROVE  /\ ~InsertFaults(h, s[k], t)
           /\ Represents(tq_insert_after(h, s[k], t), Inserted(s, k, t))
<1> DEFINE g == tq_insert_after(h, s[k], t)
           n == Len(s)
           r == Inserted(s, k, t)
           u == Unlinked(h, t)
<1>1. /\ n \in Nat \ {0} /\ k \in Nat
      /\ Len(r) = n + 1 /\ r # <<>>
      /\ \A i \in 1..n+1 : r[i] = IF i <= k THEN s[i] ELSE IF i = k+1 THEN t ELSE s[i-1]
  BY DEF Inserted
<1>2. \A i \in 1..n : s[i] \in T /\ s[i] # NULL /\ s[i] # t
  BY DEF Member
<1>3. \A i, j \in 1..n : s[i] = s[j] => i = j
  BY DEF Represents
<1>4. /\ h.front = s[1] /\ h.back = s[n]
      /\ \A i \in 1..n : /\ h.next[s[i]] = IF i = n THEN NULL ELSE s[i+1]
                         /\ h.prev[s[i]] = IF i = 1 THEN NULL ELSE s[i-1]
  BY DEF Represents
<1>5. /\ u.front = s[1] /\ u.back = s[n]
      /\ u.next = [h.next EXCEPT ![t] = NULL] /\ u.prev = [h.prev EXCEPT ![t] = NULL]
  BY <1>4 DEF Unlinked, Heap
<1> HIDE DEF r, n, u
<1>6. s[k] \in T /\ s[k] # NULL /\ s[k] # t /\ (s[k] = h.back <=> k = n)
  BY <1>1, <1>2, <1>3, <1>4 DEF n
<1>7. k # n => u.next[s[k]] = s[k+1] /\ s[k+1] \in T /\ s[k+1] # NULL
  BY <1>1, <1>2, <1>4, <1>5, <1>6 DEF Heap, n
<1>8. ~InsertFaults(h, s[k], t)
  BY <1>6, <1>7 DEF InsertFaults, u
<1>9. \A i, j \in 1..n+1 : r[i] = r[j] => i = j
  <2> SUFFICES ASSUME NEW i \in 1..n+1, NEW j \in 1..n+1, r[i] = r[j]
               PROVE  i = j
    OBVIOUS
  <2> DEFINE at(x) == IF x <= k THEN x ELSE x-1
  <2>1. \A x \in 1..n+1 : x # k+1 => at(x) \in 1..n /\ r[x] = s[at(x)] /\ r[x] # t
    BY SMTT(30), <1>1, <1>2 DEF n
  <2>2. CASE i = k+1 \/ j = k+1
    BY <2>1, <2>2, <1>1
  <2>3. CASE i # k+1 /\ j # k+1
    <3>1. at(i) = at(j)
      <4> HIDE DEF at
      <4> QED BY <2>1, <2>3, <1>3
    <3> QED BY <3>1, <2>3, <1>1
  <2> QED BY <2>2, <2>3
<1>10. CASE k = n
  <2>1. /\ g.front = s[1] /\ g.back = t
        /\ g.next = [[h.next EXCEPT ![t] = NULL] EXCEPT ![s[k]] = t]
        /\ g.prev = [[h.prev EXCEPT ![t] = NULL] EXCEPT ![t] = s[k]]
    BY <1>5, <1>6, <1>10 DEF tq_insert_after, Unlinked, u
  <2> HIDE DEF g
  <2>2. g.front = r[1] /\ g.back = r[Len(r)]
    BY <2>1, <1>1, <1>10
  <2>3. ASSUME NEW i \in 1..n
        PROVE  /\ g.next[s[i]] = IF i = n THEN t ELSE s[i+1]
               /\ g.prev[s[i]] = IF i = 1 THEN NULL ELSE s[i-1]
    BY <2>1, <1>1, <1>2, <1>3, <1>4, <1>10 DEF Heap, n
  <2>4. g.next[t] = NULL /\ g.prev[t] = s[n]
    BY <2>1, <1>6, <1>10 DEF Heap
  <2>5. ASSUME NEW i \in 1..Len(r)
        PROVE  /\ g.next[r[i]] = IF i = Len(r) THEN NULL ELSE r[i+1]
               /\ g.prev[r[i]] = IF i = 1 THEN NULL ELSE r[i-1]
    <3>1. CASE i = n+1
      BY <3>1, <2>4, <1>1, <1>10
    <3>2. CASE i \in 1..n
      <4>1. /\ r[i] = s[i] /\ i # Len(r)
            /\ r[i+1] = IF i = n THEN t ELSE s[i+1]
            /\ i # 1 => r[i-1] = s[i-1]
        BY <3>2, <1>1, <1>10
      <4> QED BY <3>2, <4>1, <2>3
    <3> QED BY <3>1, <3>2, <1>1
  <2>6. Represents(g, r)
    BY <1>1, <1>9, <2>2, <2>5 DEF Represents
  <2> QED BY <1>8, <2>6 DEF g, r
<1>11. CASE k # n
  <2> DEFINE b == s[k+1]
  <2>0. b \in T /\ b # t /\ b # s[k] /\ k+1 \in 1..n
    BY <1>1, <1>2, <1>3, <1>11 DEF n
  <2> HIDE DEF b
  <2>1. /\ g.front = s[1] /\ g.back = s[n]
        /\ g.next = [[[h.next EXCEPT ![t] = NULL] EXCEPT ![s[k]] = t] EXCEPT ![t] = b]
        /\ g.prev = [[[h.prev EXCEPT ![t] = NULL] EXCEPT ![b] = t] EXCEPT ![t] = s[k]]
    BY <1>5, <1>6, <1>7, <1>11 DEF tq_insert_after, Unlinked, u, b
  <2> HIDE DEF g
  <2>2. g.front = r[1] /\ g.back = r[Len(r)]
    BY <2>1, <1>1, <1>11 DEF n
  <2>3. ASSUME NEW i \in 1..n
        PROVE  /\ g.next[s[i]] = IF i = k THEN t ELSE IF i = n THEN NULL ELSE s[i+1]
               /\ g.prev[s[i]] = IF i = k+1 THEN t ELSE IF i = 1 THEN NULL ELSE s[i-1]
    <3>1. /\ s[i] \in T /\ s[i] # t /\ (s[i] = s[k] <=> i = k) /\ (s[i] = b <=> i = k+1)
      BY <2>0, <1>1, <1>2, <1>3 DEF n, b
    <3> QED BY <3>1, <2>0, <2>1, <1>4, <1>6 DEF Heap
  <2>4. g.next[t] = s[k+1] /\ g.prev[t] = s[k]
    BY <2>0, <2>1, <1>6 DEF Heap, b
  <2>5. ASSUME NEW i \in 1..Len(r)
        PROVE  /\ g.next[r[i]] = IF i = Len(r) THEN NULL ELSE r[i+1]
               /\ g.prev[r[i]] = IF i = 1 THEN NULL ELSE r[i-1]
    <3>1. CASE i \in 1..k
      <4>1. /\ r[i] = s[i] /\ i # Len(r) /\ i \in 1..n /\ i # k+1 /\ i # n
            /\ r[i+1] = IF i = k THEN t ELSE s[i+1]
            /\ i # 1 => r[i-1] = s[i-1]
        BY <3>1, <1>1, <1>11 DEF n
      <4> QED BY <3>1, <4>1, <2>3, <1>1, <1>11
    <3>2. CASE i = k+1
      BY <3>2, <2>4, <1>1, <1>11 DEF n
    <3>3. CASE i \in k+2..n+1
      <4> DEFINE x == i-1
      <4>1. /\ x \in 1..n /\ r[i] = s[x] /\ x # k /\ x # 1 /\ i # 1
            /\ (i = Len(r) <=> x = n)
            /\ x # n => r[i+1] = s[x+1]
            /\ r[i-1] = IF x = k+1 THEN t ELSE s[x-1]
        BY <3>3, <1>1
      <4> HIDE DEF x
      <4> QED BY <4>1, <2>3
    <3> QED BY <3>1, <3>2, <3>3, <1>1 DEF n
  <2>6. Represents(g, r)
    BY <1>1, <1>9, <2>2, <2>5 DEF Represents
  <2> QED BY <1>8, <2>6 DEF g, r
<1> QED BY <1>8, <1>10, <1>11

(* tq_remove takes any task out of a list of at least two.                 *)
THEOREM RemoveRepresents ==
    ASSUME NEW T, NULL \notin T, NEW h \in Heap(T), NEW s \in Seq(T), Represents(h, s),
           NEW k \in 1..Len(s), Len(s) > 1
    PROVE  Represents(tq_remove(h, s[k]), Without(s, k))
<1> DEFINE t == s[k]
           g == tq_remove(h, t)
           n == Len(s)
           r == Without(s, k)
           p == h.prev[t]
           q == h.next[t]
<1>1. /\ n \in Nat /\ n > 1 /\ k \in 1..n
      /\ Len(r) = n - 1
      /\ \A i \in 1..n-1 : r[i] = IF i < k THEN s[i] ELSE s[i+1]
  BY DEF Without
<1>2. r \in Seq(T)
  BY <1>1 DEF Without
<1>3. \A i \in 1..n : s[i] \in T /\ s[i] # NULL
  OBVIOUS
<1>4. \A i, j \in 1..n : s[i] = s[j] => i = j
  BY DEF Represents
<1>5. /\ h.front = s[1] /\ h.back = s[n]
      /\ \A i \in 1..n : /\ h.next[s[i]] = IF i = n THEN NULL ELSE s[i+1]
                         /\ h.prev[s[i]] = IF i = 1 THEN NULL ELSE s[i-1]
  BY <1>1 DEF Represents
<1> HIDE DEF r, n
<1>6. r # <<>>
  BY <1>1, <1>2
<1>7. /\ p = IF k = 1 THEN NULL ELSE s[k-1]
      /\ q = IF k = n THEN NULL ELSE s[k+1]
      /\ (p = NULL <=> k = 1) /\ (q = NULL <=> k = n)
  BY SMTT(30), <1>1, <1>3, <1>5
<1>8. \A i, j \in 1..n-1 : r[i] = r[j] => i = j
  <2> DEFINE from(x) == IF x < k THEN x ELSE x+1
  <2>1. \A x \in 1..n-1 : from(x) \in 1..n /\ r[x] = s[from(x)]
    BY <1>1
  <2>2. \A x, y \in 1..n-1 : from(x) = from(y) => x = y
    BY <1>1
  <2> HIDE DEF from
  <2> QED BY <2>1, <2>2, <1>4
<1>9. g.front = r[1] /\ g.back = r[n-1]
  <2>1. /\ g.front = IF p = NULL /\ q # NULL THEN q ELSE h.front
        /\ g.back = IF p # NULL /\ q = NULL THEN p ELSE h.back
    BY DEF tq_remove
  <2> HIDE DEF g, p, q
  <2>2. g.front = (IF k = 1 THEN s[2] ELSE s[1]) /\ g.back = (IF k = n THEN s[n-1] ELSE s[n])
    BY <2>1, <1>1, <1>5, <1>7
  <2> QED BY <2>2, <1>1
<1>10. ASSUME NEW i \in 1..n, i # k
       PROVE  /\ g.next[s[i]] = IF i+1 = k THEN q ELSE h.next[s[i]]
              /\ g.prev[s[i]] = IF i = k+1 THEN p ELSE h.prev[s[i]]
  <2>1. /\ s[i] \in T /\ t \in T /\ s[i] # t
        /\ (s[i] = p <=> i+1 = k) /\ (s[i] = q <=> i = k+1)
    BY <1>1, <1>3, <1>4, <1>7, <1>10
  <2>2. /\ g.next[s[i]] = (IF p = NULL THEN h.next ELSE [h.next EXCEPT ![p] = q])[s[i]]
        /\ g.prev[s[i]] = (IF q = NULL THEN h.prev ELSE [h.prev EXCEPT ![q] = p])[s[i]]
    BY <2>1 DEF tq_remove, Heap
  <2> HIDE DEF g, p, q
  <2>3. (i+1 = k => p # NULL) /\ (i = k+1 => q # NULL)
    BY <1>1, <1>7
  <2> QED BY <2>1, <2>2, <2>3 DEF Heap
<1> HIDE DEF g, p, q, t
<1>11. ASSUME NEW i \in 1..n-1
       PROVE  /\ g.next[r[i]] = IF i = n-1 THEN NULL ELSE r[i+1]
              /\ g.prev[r[i]] = IF i = 1 THEN NULL ELSE r[i-1]
  <2>1. CASE i < k
    <3>1. i \in 1..n /\ i # k /\ i # k+1 /\ i # n /\ r[i] = s[i]
      BY <2>1, <1>1
    <3>2. /\ g.next[s[i]] = IF i+1 = k THEN q ELSE s[i+1]
          /\ g.prev[s[i]] = IF i = 1 THEN NULL ELSE s[i-1]
      BY <3>1, <1>5, <1>10
    <3>3. i # 1 => r[i-1] = s[i-1]
      BY <2>1, <1>1
    <3>4. CASE i+1 = k
      <4>1. (i = n-1 <=> k = n) /\ (i # n-1 => r[i+1] = s[k+1])
        BY <3>4, <1>1
      <4> QED BY <3>1, <3>2, <3>3, <3>4, <4>1, <1>7
    <3>5. CASE i+1 # k
      <4>1. i # n-1 /\ r[i+1] = s[i+1]
        BY <2>1, <3>5, <1>1
      <4> QED BY <3>1, <3>2, <3>3, <3>5, <4>1
    <3> QED BY <3>4, <3>5
  <2>2. CASE i >= k
    <3> DEFINE x == i+1
    <3>1. x \in 1..n /\ x # k /\ x+1 # k /\ x # 1 /\ r[i] = s[x]
      BY <2>2, <1>1
    <3>2. /\ g.next[s[x]] = IF x = n THEN NULL ELSE s[x+1]
          /\ g.prev[s[x]] = IF x = k+1 THEN p ELSE s[x-1]
      <4> HIDE DEF x
      <4> QED BY <3>1, <1>5, <1>10
    <3>3. (i = n-1 <=> x = n) /\ (i # n-1 => r[i+1] = s[x+1])
      BY <2>2, <1>1
    <3>4. CASE i = k
      <4>1. x = k+1 /\ (i # 1 => r[i-1] = s[k-1])
        BY <3>4, <1>1
      <4> HIDE DEF x
      <4> QED BY <3>1, <3>2, <3>3, <3>4, <4>1, <1>7
    <3>5. CASE i # k
      <4>1. x # k+1 /\ i # 1 /\ r[i-1] = s[x-1]
        BY <2>2, <3>5, <1>1
      <4> HIDE DEF x
      <4> QED BY <3>1, <3>2, <3>3, <4>1
    <3> QED BY <3>4, <3>5
  <2> QED BY <2>1, <2>2, <1>1
<1>12. Represents(g, r)
  BY <1>1, <1>6, <1>8, <1>9, <1>11 DEF Represents
<1> QED BY <1>12 DEF g, r, t

(* Why sched_kill loses the sleeping queue: removing the only task of a    *)
(* list leaves it at both ends of the queue.                               *)
THEOREM RemoveKeepsLastTask ==
    ASSUME NEW T, NULL \notin T, NEW h \in Heap(T), NEW t \in T, Represents(h, <<t>>)
    PROVE  /\ tq_remove(h, t).front = t
           /\ tq_remove(h, t).back = t
<1>1. h.front = t /\ h.back = t /\ h.next[t] = NULL /\ h.prev[t] = NULL
  BY DEF Represents
<1> QED BY <1>1 DEF tq_remove
-----------------------------------------------------------------------------
(* Contents finds the sequence a proper list stands for.                   *)

\* A set of natural numbers up to n has a least element.
LEMMA LeastOf ==
    ASSUME NEW n \in Nat, NEW D, D \subseteq 0..n, D # {}
    PROVE  \E m \in D : \A k \in D : m <= k
<1> DEFINE R == StrictSubsetOrdering(0..n)
           below(k) == 0..k-1
           T == {below(k) : k \in D}
<1>1. IsWellFoundedOn(R, FiniteSubsetsOf(0..n))
  BY FS_StrictSubsetOrderingWellFounded
<1>2. T \subseteq FiniteSubsetsOf(0..n) /\ T # {}
  <2>1. ASSUME NEW k \in D PROVE below(k) \subseteq 0..n /\ IsFiniteSet(below(k))
    BY FS_Interval
  <2> HIDE DEF below
  <2> QED BY <2>1 DEF FiniteSubsetsOf
<1> HIDE DEF R, T, below
<1>3. PICK x \in T : \A y \in T : ~(<<y, x>> \in R)
  BY <1>1, <1>2, WFMin
<1>4. PICK m \in D : x = below(m)
  BY DEF T
<1>5. ASSUME NEW k \in D, k < m PROVE FALSE
  <2>1. below(k) \in T /\ k \in Int /\ m \in Int /\ 0 <= k
    BY DEF T
  <2>2. below(k) \subseteq below(m) /\ k \in below(m) /\ k \notin below(k)
    BY <1>5, <2>1 DEF below
  <2>3. below(k) \subseteq 0..n /\ below(m) \subseteq 0..n
    BY DEF below
  <2>4. <<below(k), below(m)>> \in R
    BY <2>2, <2>3 DEF R, StrictSubsetOrdering
  <2> QED BY <1>3, <1>4, <2>1, <2>4
<1> QED BY <1>5

\* Induction: a set that contains 0 and, with each number below n, the next one.
LEMMA UpTo ==
    ASSUME NEW n \in Nat, NEW G, 0 \in G, \A k \in 1..n : k-1 \in G => k \in G
    PROVE  \A k \in 0..n : k \in G
<1> DEFINE D == {k \in 0..n : k \notin G}
<1> SUFFICES ASSUME D # {} PROVE FALSE
  OBVIOUS
<1>1. PICK m \in D : \A k \in D : m <= k
  BY LeastOf
<1>2. m \in 0..n /\ m \notin G /\ m # 0
  OBVIOUS
<1>3. m \in 1..n /\ m-1 \in 0..n /\ ~(m <= m-1)
  BY <1>2
<1>4. m-1 \in G
  BY <1>1, <1>3
<1> QED BY <1>2, <1>3, <1>4

\* Some f begins with s and goes from f[k-1] to f[k] by F[k].
Iterates(n, S, s, F) ==
    \E f \in [0..n -> S] : f[0] = s /\ \A k \in 1..n : f[k] = F[k][f[k-1]]

LEMMA Iterated ==
    ASSUME NEW n \in Nat, NEW S, NEW s \in S, NEW F \in [1..n -> [S -> S]]
    PROVE  Iterates(n, S, s, F)
<1> DEFINE G == {m \in 0..n : Iterates(m, S, s, F)}
<1>1. 0 \in G
  <2> DEFINE z == [k \in 0..0 |-> s]
  <2>1. z \in [0..0 -> S] /\ z[0] = s
    OBVIOUS
  <2> HIDE DEF z
  <2>2. Iterates(0, S, s, F)
    BY <2>1 DEF Iterates
  <2> QED BY <2>2
<1>2. ASSUME NEW m \in 1..n, m-1 \in G PROVE m \in G
  <2>0. Iterates(m-1, S, s, F)
    BY <1>2
  <2>1. PICK f \in [0..m-1 -> S] : f[0] = s /\ \A k \in 1..m-1 : f[k] = F[k][f[k-1]]
    BY <2>0 DEF Iterates
  <2> DEFINE g == [k \in 0..m |-> IF k < m THEN f[k] ELSE F[m][f[m-1]]]
  <2>2. m-1 \in 0..m-1
    OBVIOUS
  <2>3. F[m][f[m-1]] \in S
    BY <2>2
  <2>4. \A k \in 0..m : k < m => k \in 0..m-1
    OBVIOUS
  <2>5. g \in [0..m -> S]
    BY <2>3, <2>4
  <2>6. g[0] = s
    BY <2>1
  <2>7. ASSUME NEW k \in 1..m PROVE g[k] = F[k][g[k-1]]
    <3>1. k-1 \in 0..m /\ k-1 < m /\ g[k-1] = f[k-1]
      OBVIOUS
    <3>2. CASE k < m
      <4>1. k \in 1..m-1
        BY <3>2
      <4> QED BY <2>1, <3>1, <3>2, <4>1
    <3>3. CASE k = m
      BY <3>1, <3>3
    <3> QED BY <3>2, <3>3
  <2> HIDE DEF g
  <2>8. Iterates(m, S, s, F)
    BY <2>5, <2>6, <2>7 DEF Iterates
  <2> QED BY <2>8
<1> HIDE DEF G
<1>3. \A k \in 0..n : k \in G
  BY <1>1, <1>2, UpTo
<1>4. n \in G
  BY <1>3
<1> QED BY <1>4 DEF G

\* A proper list is no longer than there are tasks.
LEMMA ListIsShort ==
    ASSUME NEW T, IsFiniteSet(T), NEW s \in Seq(T),
           \A i, j \in 1..Len(s) : s[i] = s[j] => i = j
    PROVE  Len(s) <= Cardinality(T)
<1>1. s \in Injection(1..Len(s), T)
  BY DEF Injection, IsInjective
<1>2. Cardinality(1..Len(s)) <= Cardinality(T)
  BY <1>1, FS_Injection
<1> QED BY <1>2, FS_Interval

(* Walking next from the front of a proper list, as Contents does, meets   *)
(* its tasks in order and ends: the properties of the scheduler's queues,  *)
(* which speak of Contents, are about the sequences of the lemmas above.   *)
THEOREM ContentsOfList ==
    ASSUME NEW T, NULL \notin T, IsFiniteSet(T), NEW h \in Heap(T), NEW s \in Seq(T),
           Represents(h, s)
    PROVE  Contents(h) = s
<1> DEFINE size == Cardinality(T)
           Step(f) == [n \in 0..size |->
                          IF n = 0 THEN h.front
                          ELSE IF f[n-1] = NULL THEN NULL ELSE h.next[f[n-1]]]
           node == CHOOSE f : f = Step(f)
           met == {n \in 1..size : node[n-1] # NULL}
           walk == [n \in 0..size |-> IF n < Len(s) THEN s[n+1] ELSE NULL]
<1>1. Contents(h) = [n \in 1..Cardinality(met) |-> node[n-1]]
  <2>1. DOMAIN h.next = T
    BY DEF Heap
  <2> QED BY <2>1 DEF Contents
<1>2. /\ Len(s) \in Nat /\ \A i \in 1..Len(s) : s[i] \in T /\ s[i] # NULL
      /\ (s = <<>> <=> Len(s) = 0)
  OBVIOUS
<1>3. /\ h.front = IF Len(s) = 0 THEN NULL ELSE s[1]
      /\ \A i \in 1..Len(s) : h.next[s[i]] = IF i = Len(s) THEN NULL ELSE s[i+1]
      /\ \A i, j \in 1..Len(s) : s[i] = s[j] => i = j
  BY <1>2 DEF Represents
<1>4. size \in Nat /\ Len(s) <= size
  BY <1>3, ListIsShort, FS_CardinalityType
<1> HIDE DEF size
<1>5. walk = Step(walk)
  <2>1. ASSUME NEW n \in 0..size, n # 0
        PROVE  walk[n] = IF walk[n-1] = NULL THEN NULL ELSE h.next[walk[n-1]]
    <3>1. n-1 \in 0..size /\ walk[n-1] = IF n-1 < Len(s) THEN s[n] ELSE NULL
      BY <2>1, <1>4
    <3>2. CASE n-1 < Len(s)
      <4>1. n \in 1..Len(s)
        BY <3>2, <2>1, <1>2, <1>4
      <4>2. s[n] # NULL /\ h.next[s[n]] = IF n = Len(s) THEN NULL ELSE s[n+1]
        BY <4>1, <1>2, <1>3
      <4> QED BY <3>1, <3>2, <4>1, <4>2, <1>2
    <3>3. CASE ~(n-1 < Len(s))
      BY <3>1, <3>3, <2>1, <1>2, <1>4
    <3> QED BY <3>2, <3>3
  <2>2. walk[0] = h.front
    BY <1>2, <1>3, <1>4
  <2> HIDE DEF walk
  <2>3. \A n \in 0..size : walk[n] = Step(walk)[n]
    BY <2>1, <2>2
  <2>4. walk = [n \in 0..size |-> walk[n]]
    BY DEF walk
  <2> QED BY <2>3, <2>4
<1>6. node = Step(node)
  BY <1>5
<1> HIDE DEF node
<1>7. \A n \in 0..size : node[n] = walk[n]
  <2> DEFINE D == {n \in 0..size : node[n] # walk[n]}
  <2> SUFFICES ASSUME D # {} PROVE FALSE
    OBVIOUS
  <2>1. PICK m \in D : \A k \in D : m <= k
    BY <1>4, LeastOf
  <2>2. m \in 0..size /\ node[m] # walk[m]
    OBVIOUS
  <2>3. node[m] = Step(node)[m] /\ walk[m] = Step(walk)[m]
    BY <1>5, <1>6
  <2> HIDE DEF walk
  <2>4. m # 0
    BY <2>2, <2>3
  <2>5. m-1 \in 0..size /\ m-1 \notin D
    BY <2>1, <2>2, <2>4, <1>4
  <2>6. node[m-1] = walk[m-1]
    BY <2>5
  <2> QED BY <2>2, <2>3, <2>4, <2>6
<1>8. met = 1..Len(s)
  <2>1. ASSUME NEW n \in 1..size PROVE node[n-1] # NULL <=> n <= Len(s)
    <3>1. n-1 \in 0..size /\ (n-1)+1 = n
      BY <1>4
    <3>2. node[n-1] = IF n-1 < Len(s) THEN s[(n-1)+1] ELSE NULL
      BY <3>1, <1>7
    <3> QED BY <3>1, <3>2, <1>2
  <2> QED BY <2>1, <1>2, <1>4
<1>9. Cardinality(met) = Len(s)
  <2>1. Cardinality(1..Len(s)) = IF 1 > Len(s) THEN 0 ELSE Len(s) - 1 + 1
    BY <1>2, FS_Interval
  <2>2. (IF 1 > Len(s) THEN 0 ELSE Len(s) - 1 + 1) = Len(s)
    BY <1>2
  <2> QED BY <2>1, <2>2, <1>8
<1>10. \A n \in 1..Len(s) : node[n-1] = s[n]
  <2> TAKE n \in 1..Len(s)
  <2>1. n-1 \in 0..size /\ n-1 < Len(s) /\ (n-1)+1 = n
    BY <1>2, <1>4
  <2> QED BY <2>1, <1>7
<1> HIDE DEF met
<1> QED BY <1>1, <1>9, <1>10
=============================================================================

------------------------------- MODULE VfsProofs ------------------------------
(***************************************************************************)
(* Proofs about Vfs, for any initrd, any paths and any number of nodes,    *)
(* handles and tasks.                                                      *)
(***************************************************************************)
EXTENDS Vfs, FiniteSetTheorems, SequenceTheorems, TLAPS

Induction == INSTANCE TaskQueueProofs

Name == {NULL} \cup UNION {Range(path) : path \in AllPaths}

Tnode == [name: Name, inode: Number, parent: Number \cup {NULL}]
Inode == [type: {"folder", "file", "mountpoint"}, size: Nat, refcount: Int,
          mountpoint: Number, child: Seq(Number), alloc_size: Nat, data: SUBSET Nat]

VfsTypeOK ==
    /\ DOMAIN tnode \subseteq Number /\ tnode \in [DOMAIN tnode -> Tnode]
    /\ DOMAIN inode \subseteq Number /\ inode \in [DOMAIN inode -> Inode]
    /\ openfiles \in [Client \cup {Kinit} -> Seq(Handle \cup {NULL})]

\* Where initrd_helper is, and that it has a handle to write to, which
\* stands at the start of the file.
UnpackInv ==
    /\ unpack \in [at: Nat \ {0}, pc: {"create", "open", "write", "close", "done"}]
    /\ unpack.pc \in {"write", "close"} => Len(openfiles[Kinit]) > 0
    /\ unpack.pc = "write" => openfiles[Kinit][kfh].seek_pos = 0

Lists(i, t) == \E k \in 1..Len(inode[i].child) : inode[i].child[k] = t

\* The tnodes are the entries of the folders they name as parent, under
\* different names, and a folder with entries has a name itself.
TreeInv ==
    /\ vfs_root \in DOMAIN tnode
    /\ tnode[vfs_root].parent = NULL
    /\ \A t \in DOMAIN tnode : /\ tnode[t].inode \in DOMAIN inode
                               /\ t # vfs_root => tnode[t].parent \in DOMAIN inode
    /\ \A i \in DOMAIN inode :
          /\ \A t : Lists(i, t) <=> t \in DOMAIN tnode /\ tnode[t].parent = i
          /\ \A j, k \in 1..Len(inode[i].child) :
                tnode[inode[i].child[j]].name = tnode[inode[i].child[k]].name => j = k
          /\ inode[i].child # <<>> => /\ IS_TRAVERSABLE(i)
                                      /\ \E t \in DOMAIN tnode : tnode[t].inode = i

\* The handles that are open.
Descs(files) == {td \in (DOMAIN files) \X (Nat \ {0}) :
                    td[2] \in 1..Len(files[td[1]]) /\ files[td[1]][td[2]] # NULL}

Named(i) == {t \in DOMAIN tnode : tnode[t].inode = i}
Held(i) == {td \in Descs(openfiles) : openfiles[td[1]][td[2]].inode = i}

\* The counts are exact, and there are finitely many handles to count.
CountInv ==
    /\ IsFiniteSet(Descs(openfiles))
    /\ \A td \in Descs(openfiles) : openfiles[td[1]][td[2]].inode \in DOMAIN inode
    /\ \A i \in DOMAIN inode :
          inode[i].refcount = Cardinality(Named(i)) + Cardinality(Held(i))

\* A file's bytes have memory, and its last one was written.
FileOK(node) ==
    node.type = "file" => /\ node.size <= node.alloc_size
                          /\ node.data \subseteq 0..node.size-1
                          /\ node.size > 0 => node.size-1 \in node.data

FileInv == \A i \in DOMAIN inode : FileOK(inode[i])

VfsInv == VfsTypeOK /\ TreeInv /\ CountInv /\ FileInv

-----------------------------------------------------------------------------
(* path_to_node                                                            *)

LEMMA InodeOf == TreeInv => \A t \in DOMAIN tnode : tnode[t].inode \in DOMAIN inode
BY DEF TreeInv

LEMMA Numbers == Number \subseteq Nat /\ NULL \notin Number /\ vfs_root \in Number
                 /\ NULL \notin Handle
BY VfsAssumption DEF Number, vfs_root

\* The least element of a set of numbers.
LEMMA MinIs ==
    ASSUME NEW n \in Nat, NEW I, I \subseteq 1..n, I # {}
    PROVE  Min(I) \in I /\ \A k \in I : Min(I) <= k
<1>1. I \subseteq 0..n
  OBVIOUS
<1>2. \E m \in I : \A k \in I : m <= k
  BY <1>1, Induction!LeastOf
<1> QED BY <1>2 DEF Min

\* The loop over the children of a folder finds the one of that name.
LEMMA ChildIs ==
    ASSUME VfsTypeOK, NEW t \in DOMAIN tnode, tnode[t].inode \in DOMAIN inode, NEW name
    PROVE  LET i == tnode[t].inode IN
           \/ /\ Child(t, name) = NULL
              /\ \A k \in 1..Len(inode[i].child) : tnode[inode[i].child[k]].name # name
           \/ \E k \in 1..Len(inode[i].child) : /\ Child(t, name) = inode[i].child[k]
                                                /\ tnode[inode[i].child[k]].name = name
<1> DEFINE child == inode[tnode[t].inode].child
           I == {k \in 1..Len(child) : tnode[child[k]].name = name}
<1>1. child \in Seq(Number)
  BY DEF VfsTypeOK, Inode
<1>2. Child(t, name) = IF (IF I # {} THEN Min(I) ELSE 0) = 0 THEN NULL
                       ELSE child[IF I # {} THEN Min(I) ELSE 0]
  BY DEF Child, SelectInSeq
<1>3. CASE I = {}
  BY <1>2, <1>3
<1>4. CASE I # {}
  <2>1. Len(child) \in Nat /\ I \subseteq 1..Len(child)
    <3> HIDE DEF child
    <3> QED BY <1>1
  <2>2. PICK k \in I : k = Min(I)
    <3> HIDE DEF child, I
    <3> QED BY <2>1, <1>4, MinIs
  <2>3. k # 0 /\ k \in 1..Len(child) /\ tnode[child[k]].name = name
    BY <2>1
  <2>4. Child(t, name) = child[k]
    <3> HIDE DEF I
    <3> QED BY <1>2, <1>4, <2>2, <2>3
  <2> HIDE DEF I
  <2> QED BY <2>3, <2>4
<1> QED BY <1>3, <1>4

Started == [curr |-> vfs_root, foundnode |-> TRUE, stuck |-> FALSE]

\* Where the walk can be after some names.
Stop == {w \in [curr: DOMAIN tnode, foundnode: BOOLEAN, stuck: BOOLEAN] :
            w.stuck => ~w.foundnode /\ ~IS_TRAVERSABLE(tnode[w.curr].inode)}

\* One name: nothing more is looked for, nothing is found, or a child is.
LEMMA NextNameIs ==
    ASSUME VfsTypeOK, TreeInv, NEW w \in Stop, NEW name
    PROVE  /\ NextName(w, name) \in Stop
           /\ LET x == NextName(w, name)
                  i == tnode[w.curr].inode
              IN  \/ /\ ~x.foundnode /\ x.curr = w.curr /\ ~IS_TRAVERSABLE(i)
                  \/ /\ ~x.foundnode /\ x.curr = w.curr /\ ~x.stuck
                     /\ \A t : Lists(i, t) => tnode[t].name # name
                  \/ /\ x.foundnode /\ Lists(i, x.curr) /\ tnode[x.curr].name = name
                     /\ IS_TRAVERSABLE(i)
<1> DEFINE i == tnode[w.curr].inode
           x == NextName(w, name)
           c == Child(w.curr, name)
<1>1. /\ w \in [curr: DOMAIN tnode, foundnode: BOOLEAN, stuck: BOOLEAN]
      /\ w.stuck => ~w.foundnode /\ ~IS_TRAVERSABLE(i)
  BY DEF Stop
<1>2. w.curr \in DOMAIN tnode /\ i \in DOMAIN inode
  <2>1. w.curr \in DOMAIN tnode
    BY <1>1
  <2> QED BY <2>1, InodeOf
<1>3. CASE w.stuck
  BY <1>1, <1>3 DEF NextName
<1>4. CASE ~w.stuck /\ ~IS_TRAVERSABLE(i)
  <2>1. x = [w EXCEPT !.foundnode = FALSE, !.stuck = TRUE]
    BY <1>4 DEF NextName
  <2>2. x.curr = w.curr /\ x.foundnode = FALSE /\ x.stuck = TRUE
        /\ x \in [curr: DOMAIN tnode, foundnode: BOOLEAN, stuck: BOOLEAN]
    BY <2>1, <1>1
  <2> HIDE DEF x
  <2> QED BY <2>2, <1>4 DEF Stop, x
<1>5. CASE ~w.stuck /\ IS_TRAVERSABLE(i) /\ c = NULL
  <2>1. x = [w EXCEPT !.foundnode = FALSE]
    BY <1>5 DEF NextName
  <2>2. x.curr = w.curr /\ x.foundnode = FALSE /\ x.stuck = w.stuck
        /\ x \in [curr: DOMAIN tnode, foundnode: BOOLEAN, stuck: BOOLEAN]
    BY <2>1, <1>1
  <2>3. \A k \in 1..Len(inode[i].child) : tnode[inode[i].child[k]].name # name
    <3>1. \A k \in 1..Len(inode[i].child) : inode[i].child[k] # NULL
      BY <1>2, Numbers DEF VfsTypeOK, Inode
    <3> QED BY <3>1, <1>2, <1>5, ChildIs
  <2> HIDE DEF x, i
  <2> QED BY <2>2, <2>3, <1>5 DEF Stop, x, i, Lists
<1>6. CASE ~w.stuck /\ IS_TRAVERSABLE(i) /\ c # NULL
  <2>1. x = [w EXCEPT !.foundnode = TRUE, !.curr = c]
    BY <1>6 DEF NextName
  <2>2. PICK k \in 1..Len(inode[i].child) : c = inode[i].child[k] /\ tnode[c].name = name
    BY <1>2, <1>6, ChildIs
  <2>3. Lists(i, c)
    BY <2>2 DEF Lists
  <2>4. c \in DOMAIN tnode
    BY <2>3, <1>2 DEF TreeInv
  <2> HIDE DEF c
  <2>5. x.curr = c /\ x.foundnode = TRUE /\ x.stuck = w.stuck
        /\ x \in [curr: DOMAIN tnode, foundnode: BOOLEAN, stuck: BOOLEAN]
    BY <2>1, <2>4, <1>1
  <2> HIDE DEF x, i
  <2> QED BY <2>2, <2>3, <2>5, <1>6 DEF Stop, x, i
<1> QED BY <1>3, <1>4, <1>5, <1>6

\* The walk, name by name.
LEMMA WalkIs ==
    ASSUME VfsTypeOK, TreeInv, NEW path, path \in Seq(Range(path))
    PROVE  \E w \in [0..Len(path) -> Stop] :
               /\ w[0] = Started
               /\ \A k \in 1..Len(path) : w[k] = NextName(w[k-1], path[k])
               /\ Walked(path) = w[Len(path)]
<1> DEFINE n == Len(path)
           R(f) == [k \in 0..n |-> IF k = 0 THEN Started ELSE NextName(f[k-1], path[k])]
           after == CHOOSE f : f = R(f)
           F == [k \in 1..n |-> [w \in Stop |-> NextName(w, path[k])]]
<1>1. n \in Nat
  OBVIOUS
<1>2. Started \in Stop
  BY DEF Started, Stop, TreeInv
<1>3. F \in [1..n -> [Stop -> Stop]]
  BY NextNameIs
<1>4. Walked(path) = after[n]
  BY DEF Walked, Started
<1> HIDE DEF n
<1>5. \E f : f = R(f)
  <2>0. \A k \in 1..n, v \in Stop : F[k][v] = NextName(v, path[k])
    OBVIOUS
  <2> HIDE DEF F
  <2>1. PICK f \in [0..n -> Stop] :
             f[0] = Started /\ \A k \in 1..n : f[k] = F[k][f[k-1]]
    <3>1. Induction!Iterates(n, Stop, Started, F)
      BY <1>1, <1>2, <1>3, Induction!Iterated
    <3> QED BY <3>1 DEF Induction!Iterates
  <2>2. \A k \in 0..n : k # 0 => k \in 1..n /\ k-1 \in 0..n
    BY <1>1
  <2>3. \A k \in 0..n : k # 0 => f[k-1] \in Stop
    BY <2>2
  <2>4. \A k \in 0..n : f[k] = IF k = 0 THEN Started ELSE NextName(f[k-1], path[k])
    BY <2>0, <2>1, <2>2, <2>3
  <2>5. f = [k \in 0..n |-> f[k]]
    OBVIOUS
  <2>6. f = R(f)
    BY <2>4, <2>5
  <2> QED BY <2>6
<1>6. after = R(after)
  BY <1>5
<1> HIDE DEF after
<1>7. after = [k \in 0..n |-> after[k]]
  BY <1>6
<1>8. after[0] = Started /\ \A k \in 1..n : after[k] = NextName(after[k-1], path[k])
  <2>1. \A k \in 0..n : after[k] = IF k = 0 THEN Started ELSE NextName(after[k-1], path[k])
    BY <1>6
  <2> QED BY <2>1, <1>1
<1>9. \A k \in 0..n : after[k] \in Stop
  <2> DEFINE G == {k \in 0..n : after[k] \in Stop}
  <2>1. 0 \in G
    BY <1>1, <1>2, <1>8
  <2>2. \A k \in 1..n : k-1 \in G => k \in G
    BY <1>1, <1>8, NextNameIs
  <2>3. \A k \in 0..n : k \in G
    <3> HIDE DEF G
    <3> QED BY <2>1, <2>2, <1>1, Induction!UpTo
  <2> QED BY <2>3
<1>10. after \in [0..n -> Stop]
  BY <1>7, <1>9
<1> QED BY <1>4, <1>8, <1>10 DEF n

\* The node that is found, and its name.
LEMMA FoundIs ==
    ASSUME VfsTypeOK, TreeInv, NEW path, path \in Seq(Range(path)), Found(path) # NULL
    PROVE  /\ Found(path) \in DOMAIN tnode
           /\ path # <<>> => /\ Found(path) # vfs_root
                             /\ tnode[Found(path)].name = Last(path)
<1> DEFINE n == Len(path)
<1>1. PICK w \in [0..n -> Stop] : /\ \A k \in 1..n : w[k] = NextName(w[k-1], path[k])
                                  /\ Walked(path) = w[n]
  BY WalkIs
<1>2. n \in Nat /\ (path # <<>> => n # 0)
  OBVIOUS
<1>3. w[n].foundnode /\ Found(path) = w[n].curr
  BY <1>1 DEF Found
<1>4. w[n] \in Stop /\ w[n].curr \in DOMAIN tnode
  <2>1. w[n] \in Stop
    BY <1>2
  <2> QED BY <2>1 DEF Stop
<1>5. ASSUME path # <<>>
      PROVE  w[n].curr # vfs_root /\ tnode[w[n].curr].name = Last(path)
  <2> HIDE DEF n
  <2>1. n \in 1..n /\ n-1 \in 0..n
    BY <1>2, <1>5
  <2>2. w[n-1] \in Stop /\ w[n] = NextName(w[n-1], path[n])
    BY <1>1, <2>1
  <2> DEFINE i == tnode[w[n-1].curr].inode
  <2>3. Lists(i, w[n].curr) /\ tnode[w[n].curr].name = path[n]
    BY <1>3, <2>2, NextNameIs
  <2>4. i \in DOMAIN inode
    <3>1. w[n-1].curr \in DOMAIN tnode
      BY <2>2 DEF Stop
    <3> QED BY <3>1, InodeOf
  <2>5. i # NULL
    BY <2>4, Numbers DEF VfsTypeOK
  <2>6. tnode[w[n].curr].parent = i /\ tnode[vfs_root].parent = NULL
    <3> HIDE DEF i
    <3> QED BY <2>3, <2>4 DEF TreeInv
  <2>7. w[n].curr # vfs_root
    BY <2>5, <2>6
  <2> QED BY <2>3, <2>7 DEF Last, n
<1> QED BY <1>3, <1>4, <1>5

\* The folder a node can be created in, which has no entry of that name.
LEMMA CreatesInIs ==
    ASSUME VfsTypeOK, TreeInv, NEW path, path \in Seq(Range(path)), CreatesIn(path) # NULL
    PROVE  LET i == tnode[CreatesIn(path)].inode IN
           /\ CreatesIn(path) \in DOMAIN tnode /\ i \in DOMAIN inode
           /\ IS_TRAVERSABLE(i)
           /\ path # <<>>
           /\ \A t : Lists(i, t) => tnode[t].name # Last(path)
<1> DEFINE n == Len(path)
           i == tnode[CreatesIn(path)].inode
<1>1. PICK w \in [0..n -> Stop] : /\ w[0] = Started
                                  /\ \A k \in 1..n : w[k] = NextName(w[k-1], path[k])
                                  /\ Walked(path) = w[n]
  BY WalkIs
<1>2. n \in Nat
  OBVIOUS
<1>3. /\ ~w[n].foundnode /\ IS_TRAVERSABLE(tnode[w[n].curr].inode)
      /\ CreatesIn(path) = w[n].curr
  BY <1>1 DEF CreatesIn
<1>4. CreatesIn(path) \in DOMAIN tnode /\ i \in DOMAIN inode
  <2>1. w[n] \in Stop
    BY <1>2
  <2>2. CreatesIn(path) \in DOMAIN tnode
    BY <1>3, <2>1 DEF Stop
  <2> QED BY <2>2, InodeOf
<1>5. n # 0
  BY <1>1, <1>3 DEF Started
<1>6. n \in 1..n /\ n-1 \in 0..n
  BY <1>2, <1>5
<1>7. \A t : Lists(i, t) => tnode[t].name # path[n]
  <2> HIDE DEF n
  <2>1. w[n-1] \in Stop /\ w[n] = NextName(w[n-1], path[n])
    BY <1>1, <1>6
  <2>2. tnode[w[n-1].curr].inode = i \/ w[n].foundnode
    BY <1>3, <2>1, NextNameIs
  <2>3. IS_TRAVERSABLE(i)
    BY <1>3
  <2> HIDE DEF i
  <2> QED BY <1>3, <2>1, <2>2, <2>3, NextNameIs
<1>8. path # <<>>
  BY <1>5
<1> QED BY <1>3, <1>4, <1>7, <1>8 DEF Last

-----------------------------------------------------------------------------
(* Names, and path_to_node against them.                                   *)

LEMMA PathsAre == \A path \in AllPaths : path \in Seq(Range(path))
<1>1. Tree \in Seq(Range(Tree))
  BY VfsAssumption
<1>2. \A k \in 1..Len(Tree) : Tree[k] \in Range(Tree)
  BY <1>1
<1> QED BY <1>2, VfsAssumption DEF AllPaths

\* A folder lists a name once.
LEMMA OneEntry ==
    ASSUME VfsTypeOK, TreeInv, NEW i \in DOMAIN inode, NEW t, NEW u,
           Lists(i, t), Lists(i, u), tnode[t].name = tnode[u].name
    PROVE  t = u
<1>1. PICK j \in 1..Len(inode[i].child) : inode[i].child[j] = t
  BY DEF Lists
<1>2. PICK k \in 1..Len(inode[i].child) : inode[i].child[k] = u
  BY DEF Lists
<1> QED BY <1>1, <1>2 DEF TreeInv

\* The parent of a tnode that has one lists it.
LEMMA ParentLists ==
    ASSUME VfsTypeOK, TreeInv, NEW t \in DOMAIN tnode, t # vfs_root
    PROVE  /\ tnode[t].parent \in DOMAIN inode /\ tnode[t].parent # NULL
           /\ Lists(tnode[t].parent, t)
<1>1. tnode[t].parent \in DOMAIN inode
  BY DEF TreeInv
<1>2. tnode[t].parent # NULL
  BY <1>1, Numbers DEF VfsTypeOK
<1> QED BY <1>1, <1>2 DEF TreeInv

Entered(t) == <<tnode[t].parent, tnode[t].name>>

LEMMA NamesAre ==
    ASSUME VfsTypeOK, TreeInv
    PROVE  /\ DOMAIN Names = {Entered(t) : t \in DOMAIN tnode \ {vfs_root}}
           /\ \A t \in DOMAIN tnode \ {vfs_root} :
                 Entered(t) \in DOMAIN Names /\ Names[Entered(t)] = tnode[t].inode
<1>1. DOMAIN Names = {Entered(t) : t \in DOMAIN tnode \ {vfs_root}}
  BY DEF Names, Entered
<1>2. ASSUME NEW t \in DOMAIN tnode \ {vfs_root}
      PROVE  Entered(t) \in DOMAIN Names /\ Names[Entered(t)] = tnode[t].inode
  <2> DEFINE e == Entered(t)
             c == CHOOSE u \in DOMAIN tnode : e = Entered(u)
  <2>1. e \in DOMAIN Names
    <3> HIDE DEF Entered
    <3> QED BY <1>1
  <2>2. Names[e] = tnode[c].inode
    BY <2>1, <1>1 DEF Names, Entered
  <2>3. c \in DOMAIN tnode /\ e = Entered(c)
    OBVIOUS
  <2>4. c = t
    <3> HIDE DEF c
    <3>1. tnode[c].parent = tnode[t].parent /\ tnode[c].name = tnode[t].name
      BY <2>3 DEF Entered
    <3>2. tnode[t].parent \in DOMAIN inode /\ tnode[t].parent # NULL
          /\ Lists(tnode[t].parent, t)
      BY ParentLists
    <3>3. c # vfs_root
      BY <3>1, <3>2 DEF TreeInv
    <3>4. Lists(tnode[c].parent, c)
      BY <2>3, <3>3, ParentLists
    <3> QED BY <3>1, <3>2, <3>4, OneEntry
  <2> HIDE DEF c, e
  <2>5. Names[e] = tnode[t].inode
    BY <2>2, <2>4
  <2> QED BY <2>1, <2>5 DEF e
<1> QED BY <1>1, <1>2

\* Where the names of a path lead, folder by folder.
LEMMA ResolveIs ==
    ASSUME VfsTypeOK, TreeInv, NEW path, path \in Seq(Range(path))
    PROVE  \E r \in [0..Len(path) -> Number \cup {NULL}] :
               /\ r[0] = tnode[vfs_root].inode
               /\ \A k \in 1..Len(path) :
                     r[k] = IF <<r[k-1], path[k]>> \in DOMAIN Names
                            THEN Names[<<r[k-1], path[k]>>] ELSE NULL
               /\ Resolved(path) = r[Len(path)]
<1> DEFINE n == Len(path)
           Next(v, name) == IF <<v, name>> \in DOMAIN Names THEN Names[<<v, name>>] ELSE NULL
           R(f) == [k \in 0..n |-> IF k = 0 THEN tnode[vfs_root].inode
                                   ELSE Next(f[k-1], path[k])]
           node == CHOOSE f : f = R(f)
           S == Number \cup {NULL}
           F == [k \in 1..n |-> [v \in S |-> Next(v, path[k])]]
<1>1. n \in Nat
  OBVIOUS
<1>2. tnode[vfs_root].inode \in S
  BY InodeOf DEF TreeInv, VfsTypeOK
<1>3. \A v, name : Next(v, name) \in S
  <2>1. \A e \in DOMAIN Names : Names[e] \in S
    <3> TAKE e \in DOMAIN Names
    <3>1. PICK t \in DOMAIN tnode \ {vfs_root} : e = Entered(t)
      BY NamesAre
    <3>2. Names[e] = tnode[t].inode
      BY <3>1, NamesAre
    <3>3. tnode[t].inode \in DOMAIN inode
      BY InodeOf
    <3> QED BY <3>2, <3>3 DEF VfsTypeOK
  <2> QED BY <2>1
<1>4. Resolved(path) = node[n]
  BY DEF Resolved, NS!Resolve
<1> HIDE DEF n, Next, S
<1>5. F \in [1..n -> [S -> S]]
  BY <1>3
<1>6. \E f : f = R(f)
  <2>1. \A k \in 1..n, v \in S : F[k][v] = Next(v, path[k])
    OBVIOUS
  <2> HIDE DEF F
  <2>2. Induction!Iterates(n, S, tnode[vfs_root].inode, F)
    BY <1>1, <1>2, <1>5, Induction!Iterated
  <2>3. PICK f \in [0..n -> S] : f[0] = tnode[vfs_root].inode
                                 /\ \A k \in 1..n : f[k] = F[k][f[k-1]]
    BY <2>2 DEF Induction!Iterates
  <2>4. \A k \in 0..n : k # 0 => k \in 1..n /\ k-1 \in 0..n
    BY <1>1
  <2>5. \A k \in 0..n : k # 0 => f[k-1] \in S
    BY <2>4
  <2>6. \A k \in 0..n : f[k] = IF k = 0 THEN tnode[vfs_root].inode ELSE Next(f[k-1], path[k])
    BY <2>1, <2>3, <2>4, <2>5
  <2>7. f = [k \in 0..n |-> f[k]]
    OBVIOUS
  <2>8. f = R(f)
    BY <2>6, <2>7
  <2> QED BY <2>8
<1>7. node = R(node)
  BY <1>6
<1> HIDE DEF node
<1>8. node = [k \in 0..n |-> node[k]]
  BY <1>7
<1>9. node[0] = tnode[vfs_root].inode /\ \A k \in 1..n : node[k] = Next(node[k-1], path[k])
  <2>1. \A k \in 0..n : node[k] = IF k = 0 THEN tnode[vfs_root].inode
                                  ELSE Next(node[k-1], path[k])
    BY <1>7
  <2> QED BY <2>1, <1>1
<1>10. \A k \in 0..n : node[k] \in S
  BY <1>1, <1>2, <1>3, <1>9
<1>11. node \in [0..n -> S]
  BY <1>8, <1>10
<1> QED BY <1>4, <1>9, <1>11 DEF n, Next, S

\* path_to_node gets where the names lead, as long as they lead anywhere.
LEMMA WalkFollows ==
    ASSUME VfsTypeOK, TreeInv, NEW path, path \in Seq(Range(path)), Resolved(path) # NULL
    PROVE  Found(path) # NULL /\ tnode[Found(path)].inode = Resolved(path)
<1> DEFINE n == Len(path)
<1>1. PICK w \in [0..n -> Stop] : /\ w[0] = Started
                                  /\ \A k \in 1..n : w[k] = NextName(w[k-1], path[k])
                                  /\ Walked(path) = w[n]
  BY WalkIs
<1>2. PICK r \in [0..n -> Number \cup {NULL}] :
          /\ r[0] = tnode[vfs_root].inode
          /\ \A k \in 1..n : r[k] = IF <<r[k-1], path[k]>> \in DOMAIN Names
                                    THEN Names[<<r[k-1], path[k]>>] ELSE NULL
          /\ Resolved(path) = r[n]
  BY ResolveIs
<1> DEFINE Agree(k) == r[k] # NULL =>
                           w[k].foundnode /\ tnode[w[k].curr].inode = r[k]
           G == {k \in 0..n : Agree(k)}
<1>3. n \in Nat
  OBVIOUS
<1> HIDE DEF n
<1>4. 0 \in G
  BY <1>1, <1>2, <1>3 DEF Started
<1>5. ASSUME NEW k \in 1..n, k-1 \in G PROVE k \in G
  <2> DEFINE v == w[k-1]
             x == w[k]
             e == <<r[k-1], path[k]>>
  <2> SUFFICES ASSUME r[k] # NULL PROVE x.foundnode /\ tnode[x.curr].inode = r[k]
    OBVIOUS
  <2>1. e \in DOMAIN Names /\ r[k] = Names[e]
    BY <1>2
  <2>2. PICK t \in DOMAIN tnode \ {vfs_root} : e = Entered(t)
    BY <2>1, NamesAre
  <2>3. r[k-1] = tnode[t].parent /\ path[k] = tnode[t].name
    BY <2>2 DEF Entered
  <2>4. /\ tnode[t].parent \in DOMAIN inode /\ tnode[t].parent # NULL
        /\ Lists(tnode[t].parent, t)
    BY ParentLists
  <2>5. tnode[v.curr].inode = r[k-1]
    BY <1>5, <2>3, <2>4
  <2>6. k-1 \in 0..n
    BY <1>3
  <2>7. v \in Stop /\ x = NextName(v, path[k])
    BY <1>1, <2>6
  <2>8. IS_TRAVERSABLE(r[k-1])
    <3>1. inode[r[k-1]].child # <<>>
      BY <2>3, <2>4 DEF Lists
    <3> QED BY <3>1, <2>3, <2>4 DEF TreeInv
  <2> HIDE DEF v, x, e
  <2>9. x.foundnode /\ Lists(r[k-1], x.curr) /\ tnode[x.curr].name = path[k]
    BY <2>3, <2>4, <2>5, <2>7, <2>8, NextNameIs
  <2>10. x.curr = t
    BY <2>3, <2>4, <2>9, OneEntry
  <2>11. r[k] = tnode[t].inode
    BY <2>1, <2>2, NamesAre
  <2> QED BY <2>9, <2>10, <2>11
<1>6. \A k \in 0..n : k \in G
  <2> HIDE DEF G
  <2> QED BY <1>3, <1>4, <1>5, Induction!UpTo
<1>7. Agree(n)
  BY <1>3, <1>6
<1>8. w[n] \in Stop
  BY <1>3
<1>9. w[n].curr # NULL
  <2>1. w[n].curr \in DOMAIN tnode
    BY <1>8 DEF Stop
  <2> QED BY <2>1, Numbers DEF VfsTypeOK
<1> QED BY <1>1, <1>2, <1>7, <1>9 DEF Found

-----------------------------------------------------------------------------
(* Nodes that are allocated and freed.                                     *)

LEMMA UnusedIs == ASSUME NEW S, S \subseteq Number, S # Number PROVE Unused(S) \in Number \ S
<1>1. Number \ S \subseteq 0..NodeMax /\ Number \ S # {} /\ NodeMax \in Nat
  BY VfsAssumption DEF Number
<1>2. PICK m \in Number \ S : \A k \in Number \ S : m <= k
  <2> DEFINE D == Number \ S
  <2> HIDE DEF D
  <2>1. D \subseteq 0..NodeMax /\ D # {} /\ NodeMax \in Nat
    BY <1>1 DEF D
  <2>2. \E m \in D : \A k \in D : m <= k
    BY <2>1, Induction!LeastOf
  <2> QED BY <2>2 DEF D
<1>3. \A k \in 0..m-1 : k \in Number /\ ~(m <= k)
  BY VfsAssumption DEF Number
<1>4. \E n \in Number : n \notin S /\ \A k \in 0..n-1 : k \in S
  BY <1>2, <1>3
<1> QED BY <1>4 DEF Unused

LEMMA TnodesFinite == VfsTypeOK => IsFiniteSet(DOMAIN tnode)
<1>1. IsFiniteSet(0..NodeMax)
  <2>1. 0 \in Int /\ NodeMax \in Int
    BY VfsAssumption
  <2> QED BY <2>1, FS_Interval
<1> QED BY <1>1, FS_Subset DEF VfsTypeOK, Number

LEMMA RoomLeft ==
    ASSUME VfsTypeOK, Room
    PROVE  NewTnode \in Number \ DOMAIN tnode /\ NewInode \in Number \ DOMAIN inode
<1>1. Cardinality(Number) = NodeMax + 1
  <2>1. Cardinality(0..NodeMax) = IF 0 > NodeMax THEN 0 ELSE NodeMax - 0 + 1
    BY VfsAssumption, FS_Interval
  <2> QED BY <2>1, VfsAssumption DEF Number
<1>2. DOMAIN tnode # Number /\ DOMAIN inode # Number
  BY <1>1, VfsAssumption DEF Room
<1>3. DOMAIN tnode \subseteq Number /\ DOMAIN inode \subseteq Number
  BY DEF VfsTypeOK
<1>4. NewTnode \in Number \ DOMAIN tnode
  BY <1>2, <1>3, UnusedIs DEF NewTnode
<1>5. NewInode \in Number \ DOMAIN inode
  BY <1>2, <1>3, UnusedIs DEF NewInode
<1> QED BY <1>4, <1>5

LEMMA WithDomain ==
    ASSUME NEW nodes, NEW n, NEW node
    PROVE  DOMAIN With(nodes, n, node) = DOMAIN nodes \cup {n}
BY DEF With

LEMMA WithIs ==
    ASSUME NEW nodes, NEW n, NEW node
    PROVE  /\ With(nodes, n, node)[n] = node
           /\ \A k \in DOMAIN nodes \ {n} : With(nodes, n, node)[k] = nodes[k]
BY DEF With

LEMMA WithIn ==
    ASSUME NEW S, NEW T, NEW nodes \in [S -> T], NEW n, NEW node \in T
    PROVE  With(nodes, n, node) \in [S \cup {n} -> T]
BY DEF With

LEMMA ForgetDomain ==
    ASSUME NEW nodes, NEW n
    PROVE  DOMAIN Forget(nodes, n) = DOMAIN nodes \ {n}
BY DEF Forget

LEMMA ForgetIs ==
    ASSUME NEW nodes, NEW n
    PROVE  \A k \in DOMAIN nodes \ {n} : Forget(nodes, n)[k] = nodes[k]
BY DEF Forget

LEMMA ForgetIn ==
    ASSUME NEW S, NEW T, NEW nodes \in [S -> T], NEW n
    PROVE  Forget(nodes, n) \in [S \ {n} -> T]
BY DEF Forget

\* The folder with one entry more, the others as they were.
LEMMA WithChildIs ==
    ASSUME VfsTypeOK, NEW d \in DOMAIN inode, NEW t \in Number
    PROVE  LET nodes == WithChild(inode, d, t) IN
           /\ nodes \in [DOMAIN inode -> Inode]
           /\ \A j \in DOMAIN inode :
                 /\ nodes[j].child = IF j = d THEN Append(inode[j].child, t) ELSE inode[j].child
                 /\ nodes[j].type = inode[j].type
                 /\ nodes[j].size = inode[j].size
                 /\ nodes[j].refcount = inode[j].refcount
                 /\ nodes[j].alloc_size = inode[j].alloc_size
                 /\ nodes[j].data = inode[j].data
<1>1. inode \in [DOMAIN inode -> Inode]
  BY DEF VfsTypeOK
<1>2. Append(inode[d].child, t) \in Seq(Number)
  BY <1>1 DEF Inode
<1> QED BY <1>1, <1>2 DEF WithChild, Inode

\* The first t, and the only one, is left out.
LEMMA RemoveFirstIs ==
    ASSUME NEW S, NEW c \in Seq(S), NEW t, \E k \in 1..Len(c) : c[k] = t
    PROVE  \E m \in 1..Len(c) :
               /\ c[m] = t
               /\ RemoveFirst(c, t) \in Seq(S)
               /\ Len(RemoveFirst(c, t)) = Len(c) - 1
               /\ \A k \in 1..Len(c)-1 : RemoveFirst(c, t)[k] = IF k < m THEN c[k] ELSE c[k+1]
<1> DEFINE I == {k \in 1..Len(c) : c[k] = t}
           r == RemoveFirst(c, t)
<1>1. Len(c) \in Nat /\ I \subseteq 1..Len(c) /\ I # {}
  OBVIOUS
<1>2. PICK m \in I : m = Min(I)
  <2> HIDE DEF I
  <2> QED BY <1>1, MinIs
<1>3. m \in 1..Len(c) /\ c[m] = t
  BY <1>2
<1>4. SelectInSeq(c, LAMBDA v : v = t) = m
  <2>1. SelectInSeq(c, LAMBDA v : v = t) = IF I # {} THEN Min(I) ELSE 0
    BY DEF SelectInSeq
  <2> HIDE DEF I
  <2> QED BY <1>1, <1>2, <2>1
<1>5. r = SubSeq(c, 1, m-1) \o SubSeq(c, m+1, Len(c))
  BY <1>3, <1>4 DEF RemoveFirst, RemoveAt
<1> DEFINE x == SubSeq(c, 1, m-1)
           y == SubSeq(c, m+1, Len(c))
<1>6. x \in Seq(S) /\ Len(x) = m-1 /\ \A k \in 1..m-1 : x[k] = c[k]
  <2>1. \A k \in 1..m-1 : c[k] \in S
    BY <1>3
  <2>2. /\ x \in Seq(S)
        /\ Len(x) = IF 1 <= m-1 THEN m-1-1+1 ELSE 0
        /\ \A k \in 1..m-1-1+1 : x[k] = c[1+k-1]
    BY <1>3, <2>1, SubSeqProperties
  <2> HIDE DEF x
  <2> QED BY <1>3, <2>2
<1>7. /\ y \in Seq(S) /\ Len(y) = Len(c)-m
      /\ \A k \in 1..Len(c)-m : y[k] = c[m+k]
  <2>1. \A k \in m+1..Len(c) : c[k] \in S
    BY <1>3
  <2>2. /\ y \in Seq(S)
        /\ Len(y) = IF m+1 <= Len(c) THEN Len(c)-(m+1)+1 ELSE 0
        /\ \A k \in 1..Len(c)-(m+1)+1 : y[k] = c[m+1+k-1]
    BY <1>1, <1>3, <2>1, SubSeqProperties, SMTT(30)
  <2> HIDE DEF y
  <2> QED BY <1>1, <1>3, <2>2, SMTT(30)
<1> HIDE DEF x, y
<1>8. /\ r \in Seq(S) /\ Len(r) = Len(x) + Len(y)
      /\ \A k \in 1..Len(x) + Len(y) : r[k] = IF k <= Len(x) THEN x[k] ELSE y[k - Len(x)]
  <2>1. r = x \o y
    BY <1>5 DEF x, y
  <2> HIDE DEF r
  <2> QED BY <2>1, <1>6, <1>7, ConcatProperties
<1> HIDE DEF r
<1>9. Len(r) = Len(c)-1
  BY <1>1, <1>3, <1>6, <1>7, <1>8
<1>10. ASSUME NEW k \in 1..Len(c)-1 PROVE r[k] = IF k < m THEN c[k] ELSE c[k+1]
  <2>1. r[k] = IF k <= m-1 THEN x[k] ELSE y[k-(m-1)]
    BY <1>1, <1>3, <1>6, <1>7, <1>8
  <2>2. CASE k < m
    BY <2>1, <2>2, <1>3, <1>6
  <2>3. CASE ~(k < m)
    <3>1. k-(m-1) \in 1..Len(c)-m /\ m+(k-(m-1)) = k+1
      BY <2>3, <1>1, <1>3
    <3>2. y[k-(m-1)] = c[k+1]
      BY <3>1, <1>7
    <3>3. ~(k <= m-1)
      BY <2>3, <1>3
    <3> QED BY <2>1, <2>3, <3>2, <3>3
  <2> QED BY <2>2, <2>3
<1> QED BY <1>3, <1>8, <1>9, <1>10 DEF r

-----------------------------------------------------------------------------
(* Handles that are opened, closed and moved.                              *)

Slots == Seq(Handle \cup {NULL})

LEMMA PairIs ==
    ASSUME NEW A, NEW B
    PROVE  /\ \A x \in A \X B : x = <<x[1], x[2]>>
           /\ \A u, k : <<u, k>> \in A \X B <=> u \in A /\ k \in B
OBVIOUS

LEMMA DescIs ==
    ASSUME NEW files
    PROVE  /\ \A u, k : <<u, k>> \in Descs(files) <=> /\ u \in DOMAIN files
                                                      /\ k \in Nat \ {0}
                                                      /\ k \in 1..Len(files[u])
                                                      /\ files[u][k] # NULL
           /\ \A x \in Descs(files) : x = <<x[1], x[2]>>
<1> DEFINE P == (DOMAIN files) \X (Nat \ {0})
<1>1. \A x \in Descs(files) : x \in P
  BY DEF Descs
<1>2. \A x \in P : x = <<x[1], x[2]>>
  BY PairIs
<1>3. \A u, k : <<u, k>> \in P <=> u \in DOMAIN files /\ k \in Nat \ {0}
  BY PairIs
<1>4. \A u, k : <<u, k>> \in Descs(files) <=> /\ <<u, k>> \in P
                                              /\ k \in 1..Len(files[u]) /\ files[u][k] # NULL
  BY DEF Descs
<1> HIDE DEF P
<1> QED BY <1>1, <1>2, <1>3, <1>4

Opened(files, task, desc) == [files EXCEPT ![task] = Append(@, desc)]
Closed(files, task, h) == [files EXCEPT ![task][h] = NULL]
Moved(files, task, h, pos) == [files EXCEPT ![task][h].seek_pos = pos]

LEMMA HandleOpened ==
    ASSUME NEW S, NEW files \in [S -> Slots], NEW task \in S, NEW desc \in Handle, NEW td,
           td = <<task, Len(files[task]) + 1>>
    PROVE  LET after == Opened(files, task, desc) IN
           /\ after \in [S -> Slots]
           /\ td \notin Descs(files)
           /\ Descs(after) = Descs(files) \cup {td}
           /\ after[td[1]][td[2]] = desc
           /\ \A x \in Descs(files) : after[x[1]][x[2]] = files[x[1]][x[2]]
<1> DEFINE n == Len(files[task])
           after == Opened(files, task, desc)
<1>1. files[task] \in Slots /\ n \in Nat /\ desc # NULL
  BY Numbers DEF Slots
<1>2. /\ Append(files[task], desc) \in Slots
      /\ Len(Append(files[task], desc)) = n + 1
      /\ Append(files[task], desc)[n+1] = desc
      /\ \A k \in 1..n : Append(files[task], desc)[k] = files[task][k]
  BY <1>1 DEF Slots
<1>3. after \in [S -> Slots]
  BY <1>2 DEF Opened
<1>4. after[task] = Append(files[task], desc) /\ \A u \in S \ {task} : after[u] = files[u]
  BY DEF Opened
<1> HIDE DEF after
<1>5. \A x \in Descs(files) : after[x[1]][x[2]] = files[x[1]][x[2]]
  BY <1>2, <1>4, DescIs
<1>6. \A u, k : <<u, k>> \in Descs(after) <=> <<u, k>> \in Descs(files) \/ (u = task /\ k = n+1)
  <2> TAKE u, k
  <2>1. CASE u = task
    <3>1. k \in 1..n+1 <=> k \in 1..n \/ k = n+1
      BY <1>1
    <3>2. /\ <<u, k>> \in Descs(after) <=> k \in 1..n+1 /\ after[u][k] # NULL
          /\ <<u, k>> \in Descs(files) <=> k \in 1..n /\ files[u][k] # NULL
      BY <2>1, <1>1, <1>2, <1>3, <1>4, DescIs
    <3> QED BY <2>1, <3>1, <3>2, <1>1, <1>2, <1>4
  <2>2. CASE u # task
    BY <2>2, <1>3, <1>4, DescIs
  <2> QED BY <2>1, <2>2
<1>7. Descs(after) = Descs(files) \cup {<<task, n+1>>}
  <2>1. \A x \in Descs(after) : x \in Descs(files) \cup {<<task, n+1>>}
    BY <1>6, DescIs
  <2>2. \A x \in Descs(files) : x \in Descs(after)
    BY <1>6, DescIs
  <2> QED BY <1>6, <2>1, <2>2
<1>8. <<task, n+1>> \notin Descs(files)
  BY <1>1, DescIs
<1>9. after[<<task, n+1>>[1]][<<task, n+1>>[2]] = desc
  BY <1>2, <1>4
<1> QED BY <1>3, <1>5, <1>7, <1>8, <1>9 DEF after

LEMMA HandleClosed ==
    ASSUME NEW S, NEW files \in [S -> Slots], NEW task \in S, NEW h \in 1..Len(files[task])
    PROVE  LET after == Closed(files, task, h) IN
           /\ after \in [S -> Slots]
           /\ Descs(after) = Descs(files) \ {<<task, h>>}
           /\ \A x \in Descs(after) : after[x[1]][x[2]] = files[x[1]][x[2]]
           /\ \A u \in S : Len(after[u]) = Len(files[u])
<1> DEFINE slots == [files[task] EXCEPT ![h] = NULL]
           after == Closed(files, task, h)
<1>1. /\ slots \in Slots /\ Len(slots) = Len(files[task])
      /\ \A k \in 1..Len(slots) : slots[k] = IF k = h THEN NULL ELSE files[task][k]
  <2>1. files[task] \in Slots
    OBVIOUS
  <2> QED BY <2>1, ExceptSeq DEF Slots
<1>2. after \in [S -> Slots]
  BY <1>1 DEF Closed
<1>3. after[task] = slots /\ \A u \in S \ {task} : after[u] = files[u]
  BY DEF Closed
<1> HIDE DEF slots, after
<1>4. \A u, k : <<u, k>> \in Descs(after) <=> <<u, k>> \in Descs(files) /\ <<u, k>> # <<task, h>>
  <2> TAKE u, k
  <2>1. CASE u = task
    <3>1. /\ <<u, k>> \in Descs(after) <=> k \in 1..Len(slots) /\ slots[k] # NULL
          /\ <<u, k>> \in Descs(files) <=> k \in 1..Len(slots) /\ files[u][k] # NULL
      BY <2>1, <1>1, <1>2, <1>3, DescIs
    <3> QED BY <2>1, <3>1, <1>1
  <2>2. CASE u # task
    BY <2>2, <1>2, <1>3, DescIs
  <2> QED BY <2>1, <2>2
<1>5. Descs(after) = Descs(files) \ {<<task, h>>}
  <2>1. \A x \in Descs(after) : x \in Descs(files) \ {<<task, h>>}
    BY <1>4, DescIs
  <2>2. \A x \in Descs(files) \ {<<task, h>>} : x \in Descs(after)
    BY <1>4, DescIs
  <2> QED BY <2>1, <2>2
<1>6. \A x \in Descs(after) : after[x[1]][x[2]] = files[x[1]][x[2]]
  <2> TAKE x \in Descs(after)
  <2>1. x = <<x[1], x[2]>> /\ x # <<task, h>>
    BY <1>5, DescIs
  <2>2. x[1] \in S /\ x[2] \in 1..Len(after[x[1]])
    BY <1>2, <2>1, DescIs
  <2> QED BY <1>1, <1>3, <2>1, <2>2
<1> QED BY <1>1, <1>2, <1>3, <1>5, <1>6 DEF after

LEMMA HandleMoved ==
    ASSUME NEW S, NEW files \in [S -> Slots], NEW task \in S, NEW h \in 1..Len(files[task]),
           files[task][h] # NULL, NEW pos \in Nat
    PROVE  LET after == Moved(files, task, h, pos) IN
           /\ after \in [S -> Slots]
           /\ Descs(after) = Descs(files)
           /\ \A x \in Descs(files) : after[x[1]][x[2]].inode = files[x[1]][x[2]].inode
           /\ \A u \in S : Len(after[u]) = Len(files[u])
<1> DEFINE desc == [files[task][h] EXCEPT !.seek_pos = pos]
           slots == [files[task] EXCEPT ![h] = desc]
           after == Moved(files, task, h, pos)
<1>0. after = [files EXCEPT ![task] = slots]
  BY DEF Moved
<1>1. files[task] \in Slots /\ files[task][h] \in Handle
  BY DEF Slots
<1>2. desc \in Handle /\ desc.inode = files[task][h].inode /\ desc # NULL
  <2>1. desc \in Handle /\ desc.inode = files[task][h].inode
    BY <1>1 DEF Handle
  <2> QED BY <2>1, Numbers
<1> HIDE DEF desc
<1>3. /\ slots \in Slots /\ Len(slots) = Len(files[task])
      /\ \A k \in 1..Len(slots) : slots[k] = IF k = h THEN desc ELSE files[task][k]
  BY <1>1, <1>2, ExceptSeq DEF Slots
<1> HIDE DEF slots
<1>4. after \in [S -> Slots]
  BY <1>0, <1>3
<1>5. after[task] = slots /\ \A u \in S \ {task} : after[u] = files[u]
  BY <1>0
<1> HIDE DEF after
<1>6. \A u \in S : Len(after[u]) = Len(files[u])
  BY <1>3, <1>5
<1>7. \A u, k : <<u, k>> \in Descs(after) <=> <<u, k>> \in Descs(files)
  <2> TAKE u, k
  <2>1. CASE u = task
    <3>1. /\ <<u, k>> \in Descs(after) <=> k \in 1..Len(slots) /\ slots[k] # NULL
          /\ <<u, k>> \in Descs(files) <=> k \in 1..Len(slots) /\ files[u][k] # NULL
      BY <2>1, <1>3, <1>4, <1>5, DescIs
    <3> QED BY <2>1, <3>1, <1>2, <1>3
  <2>2. CASE u # task
    BY <2>2, <1>4, <1>5, DescIs
  <2> QED BY <2>1, <2>2
<1>8. Descs(after) = Descs(files)
  <2>1. \A x \in Descs(after) : x \in Descs(files)
    BY <1>7, DescIs
  <2>2. \A x \in Descs(files) : x \in Descs(after)
    BY <1>7, DescIs
  <2> QED BY <2>1, <2>2
<1>9. \A x \in Descs(files) : after[x[1]][x[2]].inode = files[x[1]][x[2]].inode
  <2> TAKE x \in Descs(files)
  <2>1. x[1] \in S /\ x[2] \in 1..Len(files[x[1]])
    BY DescIs
  <2> QED BY <1>2, <1>3, <1>5, <2>1
<1> QED BY <1>4, <1>6, <1>8, <1>9 DEF after

-----------------------------------------------------------------------------
(* What the calls do to the tree.                                          *)

\* The tnodes stay; of the inodes those may go that none of them names.
LEMMA TreeKept ==
    ASSUME VfsTypeOK, TreeInv, UNCHANGED tnode,
           DOMAIN inode' \subseteq DOMAIN inode,
           \A t \in DOMAIN tnode : tnode[t].inode \in DOMAIN inode',
           \A j \in DOMAIN inode' : inode'[j].child = inode[j].child /\ inode'[j].type = inode[j].type
    PROVE  TreeInv'
<1>1. \A j \in DOMAIN inode' : \A t : Lists(j, t)' <=> Lists(j, t)
  BY DEF Lists
<1>2. \A t \in DOMAIN tnode' : /\ tnode'[t].inode \in DOMAIN inode'
                               /\ t # vfs_root => tnode'[t].parent \in DOMAIN inode'
  <2> TAKE t \in DOMAIN tnode'
  <2> SUFFICES ASSUME t # vfs_root PROVE tnode[t].parent \in DOMAIN inode'
    OBVIOUS
  <2>1. Lists(tnode[t].parent, t) /\ tnode[t].parent \in DOMAIN inode
    BY ParentLists
  <2>2. inode[tnode[t].parent].child # <<>>
    BY <2>1 DEF Lists
  <2>3. \E u \in DOMAIN tnode : tnode[u].inode = tnode[t].parent
    BY <2>1, <2>2 DEF TreeInv
  <2> QED BY <2>3
<1>3. ASSUME NEW j \in DOMAIN inode'
      PROVE  /\ \A t : Lists(j, t)' <=> t \in DOMAIN tnode' /\ tnode'[t].parent = j
             /\ \A k, m \in 1..Len(inode'[j].child) :
                   tnode'[inode'[j].child[k]].name = tnode'[inode'[j].child[m]].name => k = m
             /\ inode'[j].child # <<>> => /\ IS_TRAVERSABLE(j)'
                                          /\ \E t \in DOMAIN tnode' : tnode'[t].inode = j
  <2>1. inode'[j].child = inode[j].child /\ inode'[j].type = inode[j].type /\ j \in DOMAIN inode
    OBVIOUS
  <2>2. \A t : Lists(j, t)' <=> t \in DOMAIN tnode' /\ tnode'[t].parent = j
    BY <1>1, <2>1 DEF TreeInv
  <2>3. \A k, m \in 1..Len(inode[j].child) :
           tnode[inode[j].child[k]].name = tnode[inode[j].child[m]].name => k = m
    BY <2>1 DEF TreeInv
  <2>4. inode[j].child # <<>> => IS_TRAVERSABLE(j) /\ \E t \in DOMAIN tnode : tnode[t].inode = j
    BY <2>1 DEF TreeInv
  <2> QED BY <2>1, <2>2, <2>3, <2>4 DEF IS_TRAVERSABLE
<1>4. vfs_root \in DOMAIN tnode' /\ tnode'[vfs_root].parent = NULL
  BY DEF TreeInv
<1> QED BY <1>2, <1>3, <1>4 DEF TreeInv

\* A new tnode t for the inode i in the folder d.
LEMMA TreeEntered ==
    ASSUME VfsTypeOK, TreeInv, NEW t \in Number \ DOMAIN tnode, NEW new, NEW name,
           NEW i \in Number, NEW d \in DOMAIN inode,
           new.name = name, new.inode = i, new.parent = d, tnode' = With(tnode, t, new),
           IS_TRAVERSABLE(d), \E u \in DOMAIN tnode : tnode[u].inode = d,
           \A u : Lists(d, u) => tnode[u].name # name,
           DOMAIN inode' = DOMAIN inode \cup {i},
           i \notin DOMAIN inode => inode'[i].child = <<>>,
           \A j \in DOMAIN inode :
              /\ inode'[j].child = IF j = d THEN Append(inode[j].child, t) ELSE inode[j].child
              /\ inode'[j].type = inode[j].type
    PROVE  TreeInv'
<1>1. /\ DOMAIN tnode' = DOMAIN tnode \cup {t}
      /\ tnode'[t] = new
      /\ \A u \in DOMAIN tnode : tnode'[u] = tnode[u]
  <2>1. DOMAIN tnode' = DOMAIN tnode \cup {t}
    BY WithDomain, ZenonT(60)
  <2>2. tnode'[t] = new /\ \A u \in DOMAIN tnode \ {t} : tnode'[u] = tnode[u]
    BY WithIs, SMTT(30)
  <2> QED BY <2>1, <2>2
<1>3. vfs_root \in DOMAIN tnode /\ t # vfs_root
  BY DEF TreeInv
<1>4. vfs_root \in DOMAIN tnode' /\ tnode'[vfs_root].parent = NULL
  BY <1>1, <1>3 DEF TreeInv
<1>5. \A u \in DOMAIN tnode' : /\ tnode'[u].inode \in DOMAIN inode'
                               /\ u # vfs_root => tnode'[u].parent \in DOMAIN inode'
  BY <1>1 DEF TreeInv
<1>6. \A j \in DOMAIN inode : inode[j].child \in Seq(Number)
  BY DEF VfsTypeOK, Inode
<1>7. /\ Len(inode'[d].child) = Len(inode[d].child) + 1
      /\ inode'[d].child[Len(inode[d].child) + 1] = t
      /\ \A k \in 1..Len(inode[d].child) : inode'[d].child[k] = inode[d].child[k]
      /\ Len(inode[d].child) \in Nat
      /\ inode'[d].child # <<>>
  <2> DEFINE c == inode[d].child
  <2>1. c \in Seq(Number) /\ inode'[d].child = Append(c, t)
    BY <1>6
  <2> HIDE DEF c
  <2>2. /\ Len(Append(c, t)) = Len(c) + 1 /\ Append(c, t)[Len(c) + 1] = t
        /\ \A k \in 1..Len(c) : Append(c, t)[k] = c[k]
        /\ Len(c) \in Nat /\ Append(c, t) # <<>>
    BY <2>1
  <2> QED BY <2>1, <2>2 DEF c
<1>8. \A j \in DOMAIN inode : \A k \in 1..Len(inode[j].child) :
         /\ Lists(j, inode[j].child[k])
         /\ inode[j].child[k] \in DOMAIN tnode
         /\ tnode[inode[j].child[k]].parent = j
  <2>1. \A j \in DOMAIN inode : \A k \in 1..Len(inode[j].child) : Lists(j, inode[j].child[k])
    BY DEF Lists
  <2>2. \A j \in DOMAIN inode : \A u : Lists(j, u) => u \in DOMAIN tnode /\ tnode[u].parent = j
    BY DEF TreeInv
  <2> QED BY <2>1, <2>2
<1>9. ASSUME NEW j \in DOMAIN inode'
      PROVE  /\ \A u : Lists(j, u)' <=> u \in DOMAIN tnode' /\ tnode'[u].parent = j
             /\ \A k, m \in 1..Len(inode'[j].child) :
                   tnode'[inode'[j].child[k]].name = tnode'[inode'[j].child[m]].name => k = m
             /\ inode'[j].child # <<>> => /\ IS_TRAVERSABLE(j)'
                                          /\ \E u \in DOMAIN tnode' : tnode'[u].inode = j
  <2>1. CASE j = d
    <3>1. \A u : Lists(d, u)' <=> Lists(d, u) \/ u = t
      <4> TAKE u
      <4>1. Lists(d, u)' => Lists(d, u) \/ u = t
        <5> SUFFICES ASSUME NEW k \in 1..Len(inode[d].child) + 1, inode'[d].child[k] = u, u # t
                     PROVE  \E m \in 1..Len(inode[d].child) : inode[d].child[m] = u
          BY <1>7 DEF Lists
        <5>1. k \in 1..Len(inode[d].child)
          BY <1>7
        <5> QED BY <1>7, <5>1
      <4>2. Lists(d, u) => Lists(d, u)'
        <5> SUFFICES ASSUME NEW k \in 1..Len(inode[d].child), inode[d].child[k] = u
                     PROVE  \E m \in 1..Len(inode'[d].child) : inode'[d].child[m] = u
          BY DEF Lists
        <5>1. k \in 1..Len(inode'[d].child)
          BY <1>7
        <5> QED BY <1>7, <5>1
      <4>3. Lists(d, t)'
        <5>1. Len(inode[d].child) + 1 \in 1..Len(inode'[d].child)
          BY <1>7
        <5> QED BY <1>7, <5>1 DEF Lists
      <4> QED BY <4>1, <4>2, <4>3
    <3>2. \A u : Lists(d, u) <=> u \in DOMAIN tnode /\ tnode[u].parent = d
      BY DEF TreeInv
    <3>3. \A u : Lists(j, u)' <=> u \in DOMAIN tnode' /\ tnode'[u].parent = j
      BY <2>1, <3>1, <3>2, <1>1
    <3>4. ASSUME NEW k \in 1..Len(inode'[d].child), NEW m \in 1..Len(inode'[d].child),
                 tnode'[inode'[d].child[k]].name = tnode'[inode'[d].child[m]].name
          PROVE  k = m
      <4> DEFINE n == Len(inode[d].child)
      <4>1. \A x \in 1..n : /\ tnode'[inode'[d].child[x]].name = tnode[inode[d].child[x]].name
                            /\ tnode[inode[d].child[x]].name # name
        BY <1>1, <1>7, <1>8
      <4>2. tnode'[inode'[d].child[n+1]].name = name
        BY <1>1, <1>7
      <4>3. n \in Nat /\ \A x \in 1..Len(inode'[d].child) : x \in 1..n \/ x = n+1
        BY <1>7
      <4>4. \A x, y \in 1..n : tnode[inode[d].child[x]].name = tnode[inode[d].child[y]].name => x = y
        BY DEF TreeInv
      <4> HIDE DEF n
      <4> QED BY <3>4, <4>1, <4>2, <4>3, <4>4
    <3>5. IS_TRAVERSABLE(j)'
      BY <2>1 DEF IS_TRAVERSABLE
    <3>6. \E u \in DOMAIN tnode' : tnode'[u].inode = j
      BY <2>1, <1>1
    <3> QED BY <2>1, <3>3, <3>4, <3>5, <3>6
  <2>2. CASE j # d /\ j \in DOMAIN inode
    <3>1. inode'[j].child = inode[j].child /\ inode'[j].type = inode[j].type
      BY <2>2
    <3>2. \A u : Lists(j, u)' <=> Lists(j, u)
      BY <3>1 DEF Lists
    <3>3. \A u : Lists(j, u) <=> u \in DOMAIN tnode /\ tnode[u].parent = j
      BY <2>2 DEF TreeInv
    <3>4. \A u : Lists(j, u)' <=> u \in DOMAIN tnode' /\ tnode'[u].parent = j
      BY <2>2, <3>2, <3>3, <1>1
    <3>5. \A k, m \in 1..Len(inode[j].child) :
             tnode[inode[j].child[k]].name = tnode[inode[j].child[m]].name => k = m
      BY <2>2 DEF TreeInv
    <3>6. \A k \in 1..Len(inode[j].child) :
             tnode'[inode[j].child[k]].name = tnode[inode[j].child[k]].name
      BY <2>2, <1>1, <1>8
    <3>7. inode'[j].child # <<>> => /\ IS_TRAVERSABLE(j)'
                                    /\ \E u \in DOMAIN tnode' : tnode'[u].inode = j
      BY <2>2, <3>1, <1>1 DEF TreeInv, IS_TRAVERSABLE
    <3> QED BY <3>1, <3>4, <3>5, <3>6, <3>7
  <2>3. CASE j \notin DOMAIN inode
    <3>1. inode'[j].child = <<>> /\ j # d
      BY <2>3
    <3>2. \A u : ~Lists(j, u)'
      BY <3>1 DEF Lists
    <3>3. \A u \in DOMAIN tnode' : tnode'[u].parent # j
      <4>1. \A u \in DOMAIN tnode \ {vfs_root} : tnode[u].parent \in DOMAIN inode
        BY DEF TreeInv
      <4>2. j # NULL /\ tnode[vfs_root].parent = NULL
        BY <2>3, Numbers DEF TreeInv
      <4> QED BY <2>3, <3>1, <4>1, <4>2, <1>1
    <3> QED BY <3>1, <3>2, <3>3
  <2> QED BY <2>1, <2>2, <2>3
<1> QED BY <1>4, <1>5, <1>9 DEF TreeInv

Has(c, u) == \E k \in 1..Len(c) : c[k] = u

\* The elements of r are elements of c, at different places in c.
Among(r, c) ==
    \A j, k \in 1..Len(r) : \E x, y \in 1..Len(c) : /\ r[j] = c[x]
                                                    /\ r[k] = c[y]
                                                    /\ x = y => j = k

\* What is left when the one t is taken out.
LEMMA OthersStay ==
    ASSUME NEW S, NEW c \in Seq(S), NEW t, Has(c, t),
           \A j, k \in 1..Len(c) : c[j] = c[k] => j = k,
           NEW r, r = RemoveFirst(c, t)
    PROVE  /\ \A u : Has(r, u) <=> Has(c, u) /\ u # t
           /\ Among(r, c)
<1>1. PICK m \in 1..Len(c) :
          /\ c[m] = t
          /\ Len(r) = Len(c) - 1
          /\ \A k \in 1..Len(c)-1 : r[k] = IF k < m THEN c[k] ELSE c[k+1]
  BY RemoveFirstIs, SMTT(30) DEF Has
<1>2. Len(c) \in Nat
  OBVIOUS
<1>3. \A k \in 1..Len(r) : /\ k < m => r[k] = c[k] /\ k \in 1..Len(c) /\ k # m
                           /\ ~(k < m) => r[k] = c[k+1] /\ k+1 \in 1..Len(c) /\ k+1 # m
  BY <1>1, <1>2
<1>4. ASSUME NEW u
      PROVE  Has(r, u) <=> Has(c, u) /\ u # t
  <2>1. ASSUME NEW k \in 1..Len(r), r[k] = u
        PROVE  (\E j \in 1..Len(c) : c[j] = u) /\ u # t
    BY <2>1, <1>1, <1>3
  <2>2. ASSUME NEW k \in 1..Len(c), c[k] = u, u # t
        PROVE  \E j \in 1..Len(r) : r[j] = u
    <3>1. CASE k < m
      <4>1. k \in 1..Len(r) /\ r[k] = c[k]
        BY <3>1, <1>1, <1>2
      <4> QED BY <4>1, <2>2
    <3>2. CASE k > m
      <4>1. k-1 \in 1..Len(r) /\ r[k-1] = c[k-1+1] /\ k-1+1 = k
        BY <3>2, <1>1, <1>2
      <4> QED BY <4>1, <2>2
    <3>3. k # m
      BY <2>2, <1>1
    <3> QED BY <3>1, <3>2, <3>3, <1>2
  <2> QED BY <2>1, <2>2 DEF Has
<1>5. ASSUME NEW j \in 1..Len(r), NEW k \in 1..Len(r)
      PROVE  \E x, y \in 1..Len(c) : /\ r[j] = c[x]
                                     /\ r[k] = c[y]
                                     /\ x = y => j = k
  <2> DEFINE x == IF j < m THEN j ELSE j+1
             y == IF k < m THEN k ELSE k+1
  <2>1. x \in 1..Len(c) /\ y \in 1..Len(c) /\ r[j] = c[x] /\ r[k] = c[y]
    BY <1>3
  <2>2. x = y => j = k
    BY <1>1, <1>2
  <2> HIDE DEF x, y
  <2> QED BY <2>1, <2>2
<1> QED BY <1>4, <1>5 DEF Among

\* The tnode t, of an inode without entries, leaves its folder.
LEMMA TreeUnlinked ==
    ASSUME VfsTypeOK, TreeInv, NEW t \in DOMAIN tnode \ {vfs_root},
           inode[tnode[t].inode].child = <<>>, tnode' = Forget(tnode, t),
           DOMAIN inode' \subseteq DOMAIN inode,
           \A u \in DOMAIN tnode \ {t} : tnode[u].inode \in DOMAIN inode',
           \A j \in DOMAIN inode' :
              /\ inode'[j].child = IF j = tnode[t].parent THEN RemoveFirst(inode[j].child, t)
                                   ELSE inode[j].child
              /\ inode'[j].type = inode[j].type
    PROVE  TreeInv'
<1> DEFINE p == tnode[t].parent
<1>1. DOMAIN tnode' = DOMAIN tnode \ {t} /\ \A u \in DOMAIN tnode \ {t} : tnode'[u] = tnode[u]
  <2>1. DOMAIN tnode' = DOMAIN tnode \ {t}
    BY ForgetDomain
  <2>2. \A u \in DOMAIN tnode \ {t} : tnode'[u] = tnode[u]
    BY ForgetIs
  <2> QED BY <2>1, <2>2
<1>2. vfs_root \in DOMAIN tnode' /\ tnode'[vfs_root].parent = NULL
  BY <1>1 DEF TreeInv
<1>3. p \in DOMAIN inode /\ Lists(p, t)
  BY ParentLists
<1>4. \A j \in DOMAIN inode : inode[j].child # <<>> =>
         /\ IS_TRAVERSABLE(j)
         /\ \E u \in DOMAIN tnode \ {t} : tnode[u].inode = j
         /\ j \in DOMAIN inode'
  <2> TAKE j \in DOMAIN inode
  <2> HAVE inode[j].child # <<>>
  <2>1. IS_TRAVERSABLE(j) /\ \E u \in DOMAIN tnode : tnode[u].inode = j
    BY DEF TreeInv
  <2>2. PICK u \in DOMAIN tnode : tnode[u].inode = j
    BY <2>1
  <2>3. u # t
    BY <2>2
  <2> QED BY <2>1, <2>2, <2>3
<1>5. \A u \in DOMAIN tnode' : /\ tnode'[u].inode \in DOMAIN inode'
                               /\ u # vfs_root => tnode'[u].parent \in DOMAIN inode'
  <2> TAKE u \in DOMAIN tnode'
  <2>1. u \in DOMAIN tnode \ {t} /\ tnode'[u] = tnode[u]
    BY <1>1
  <2>2. ASSUME u # vfs_root PROVE tnode[u].parent \in DOMAIN inode'
    <3>1. tnode[u].parent \in DOMAIN inode /\ Lists(tnode[u].parent, u)
      BY <2>1, <2>2, ParentLists
    <3>2. inode[tnode[u].parent].child # <<>>
      BY <3>1 DEF Lists
    <3> QED BY <3>1, <3>2, <1>4
  <2> QED BY <2>1, <2>2
<1>6. ASSUME NEW j \in DOMAIN inode'
      PROVE  /\ \A u : Lists(j, u)' <=> u \in DOMAIN tnode' /\ tnode'[u].parent = j
             /\ \A k, m \in 1..Len(inode'[j].child) :
                   tnode'[inode'[j].child[k]].name = tnode'[inode'[j].child[m]].name => k = m
             /\ inode'[j].child # <<>> => /\ IS_TRAVERSABLE(j)'
                                          /\ \E u \in DOMAIN tnode' : tnode'[u].inode = j
  <2> DEFINE c == inode[j].child
             r == inode'[j].child
  <2>1. j \in DOMAIN inode /\ inode'[j].type = inode[j].type /\ c \in Seq(Number)
    BY DEF VfsTypeOK, Inode
  <2>2. \A u : Lists(j, u) <=> u \in DOMAIN tnode /\ tnode[u].parent = j
    BY <2>1 DEF TreeInv
  <2>3. \A k, m \in 1..Len(c) : tnode[c[k]].name = tnode[c[m]].name => k = m
    BY <2>1 DEF TreeInv
  <2>4. /\ \A u : Lists(j, u)' <=> Lists(j, u) /\ u # t
        /\ Among(r, c)
    <3>1. CASE j = p
      <4>1. r = RemoveFirst(c, t)
        BY <3>1
      <4>2. Has(c, t)
        BY <3>1, <1>3 DEF Lists, Has
      <4>3. \A k, m \in 1..Len(c) : c[k] = c[m] => k = m
        BY <2>3
      <4>4. /\ \A u : Has(r, u) <=> Has(c, u) /\ u # t
            /\ Among(r, c)
        <5> HIDE DEF c, r
        <5> QED BY <2>1, <4>1, <4>2, <4>3, OthersStay
      <4> QED BY <4>4 DEF Lists, Has
    <3>2. CASE j # p
      <4>1. r = c
        BY <3>2
      <4>2. ~Lists(j, t)
        BY <3>2, <2>2
      <4>3. \A u : Lists(j, u)' <=> Lists(j, u)
        BY <4>1 DEF Lists
      <4>4. Among(c, c)
        BY DEF Among
      <4> HIDE DEF r, c
      <4> QED BY <4>1, <4>2, <4>3, <4>4
    <3> QED BY <3>1, <3>2
  <2>5. \A u : Lists(j, u)' <=> u \in DOMAIN tnode' /\ tnode'[u].parent = j
    BY <2>2, <2>4, <1>1
  <2>6. ASSUME NEW k \in 1..Len(r), NEW m \in 1..Len(r), tnode'[r[k]].name = tnode'[r[m]].name
        PROVE  k = m
    <3>1. \A x \in 1..Len(r) : r[x] \in DOMAIN tnode'
      <4>1. \A u : (\E x \in 1..Len(r) : r[x] = u) => u \in DOMAIN tnode'
        BY <2>5 DEF Lists
      <4> HIDE DEF r
      <4> QED BY <4>1
    <3>2. tnode'[r[k]] = tnode[r[k]] /\ tnode'[r[m]] = tnode[r[m]]
      BY <3>1, <1>1
    <3>3. PICK x \in 1..Len(c), y \in 1..Len(c) :
               r[k] = c[x] /\ r[m] = c[y] /\ (x = y => k = m)
      <4> HIDE DEF c, r
      <4> QED BY <2>4 DEF Among
    <3> HIDE DEF c, r
    <3> QED BY <2>3, <2>6, <3>2, <3>3
  <2>7. ASSUME r # <<>>
        PROVE  IS_TRAVERSABLE(j)' /\ \E u \in DOMAIN tnode' : tnode'[u].inode = j
    <3>1. c # <<>>
      <4>1. CASE j = p
        BY <4>1, <1>3 DEF Lists
      <4>2. CASE j # p
        BY <4>2, <2>7
      <4> QED BY <4>1, <4>2
    <3>2. IS_TRAVERSABLE(j) /\ \E u \in DOMAIN tnode \ {t} : tnode[u].inode = j
      BY <2>1, <3>1, <1>4
    <3> QED BY <2>1, <3>2, <1>1 DEF IS_TRAVERSABLE
  <2> QED BY <2>5, <2>6, <2>7
<1> QED BY <1>2, <1>5, <1>6 DEF TreeInv

\* The tnode t, the only one of an inode without entries, gets another inode.
LEMMA TreeMounted ==
    ASSUME VfsTypeOK, TreeInv, NEW t \in DOMAIN tnode, NEW root \in Number, NEW node,
           inode[tnode[t].inode].child = <<>>,
           \A u \in DOMAIN tnode : tnode[u].inode = tnode[t].inode => u = t,
           root \notin DOMAIN inode \ {tnode[t].inode},
           node.child = <<>>,
           tnode' = [tnode EXCEPT ![t].inode = root],
           inode' = With(Forget(inode, tnode[t].inode), root, node)
    PROVE  TreeInv'
<1> DEFINE i == tnode[t].inode
<1>1. /\ DOMAIN tnode' = DOMAIN tnode
      /\ \A u \in DOMAIN tnode : /\ tnode'[u].name = tnode[u].name
                                 /\ tnode'[u].parent = tnode[u].parent
                                 /\ tnode'[u].inode = IF u = t THEN root ELSE tnode[u].inode
  <2>1. tnode \in [DOMAIN tnode -> Tnode]
    BY DEF VfsTypeOK
  <2> QED BY <2>1 DEF Tnode
<1>2. /\ DOMAIN inode' = (DOMAIN inode \ {i}) \cup {root}
      /\ inode'[root].child = <<>>
      /\ \A j \in DOMAIN inode \ {i} : inode'[j] = inode[j] /\ j # root
  <2>1. DOMAIN Forget(inode, i) = DOMAIN inode \ {i}
    BY ForgetDomain, ZenonT(60)
  <2>2. \A j \in DOMAIN inode \ {i} : Forget(inode, i)[j] = inode[j]
    BY ForgetIs, SMTT(30)
  <2>3. DOMAIN inode' = (DOMAIN inode \ {i}) \cup {root}
    BY <2>1, WithDomain, ZenonT(60)
  <2>4. /\ inode'[root] = node
        /\ \A j \in DOMAIN Forget(inode, i) \ {root} : inode'[j] = Forget(inode, i)[j]
    BY WithIs, SMTT(30)
  <2> QED BY <2>1, <2>2, <2>3, <2>4
<1>3. \A u \in DOMAIN tnode \ {vfs_root} : /\ tnode[u].parent \in DOMAIN inode \ {i}
                                           /\ tnode[u].parent # root
  <2> TAKE u \in DOMAIN tnode \ {vfs_root}
  <2>1. tnode[u].parent \in DOMAIN inode /\ Lists(tnode[u].parent, u)
    BY ParentLists
  <2>2. inode[tnode[u].parent].child # <<>>
    BY <2>1 DEF Lists
  <2> QED BY <2>1, <2>2
<1>4. vfs_root \in DOMAIN tnode' /\ tnode'[vfs_root].parent = NULL
  BY <1>1 DEF TreeInv
<1>5. \A u \in DOMAIN tnode' : /\ tnode'[u].inode \in DOMAIN inode'
                               /\ u # vfs_root => tnode'[u].parent \in DOMAIN inode'
  <2>1. \A u \in DOMAIN tnode \ {t} : tnode[u].inode \in DOMAIN inode \ {i}
    BY InodeOf
  <2> QED BY <2>1, <1>1, <1>2, <1>3
<1>6. ASSUME NEW j \in DOMAIN inode'
      PROVE  /\ \A u : Lists(j, u)' <=> u \in DOMAIN tnode' /\ tnode'[u].parent = j
             /\ \A k, m \in 1..Len(inode'[j].child) :
                   tnode'[inode'[j].child[k]].name = tnode'[inode'[j].child[m]].name => k = m
             /\ inode'[j].child # <<>> => /\ IS_TRAVERSABLE(j)'
                                          /\ \E u \in DOMAIN tnode' : tnode'[u].inode = j
  <2>1. CASE j = root
    <3>1. \A u : ~Lists(j, u)'
      BY <2>1, <1>2 DEF Lists
    <3>2. \A u \in DOMAIN tnode : tnode[u].parent # j
      <4>1. tnode[vfs_root].parent = NULL /\ j # NULL
        BY <2>1, Numbers DEF TreeInv
      <4> QED BY <4>1, <2>1, <1>3
    <3>3. \A u : Lists(j, u)' <=> u \in DOMAIN tnode' /\ tnode'[u].parent = j
      BY <3>1, <3>2, <1>1
    <3>4. inode'[j].child = <<>>
      BY <2>1, <1>2
    <3> QED BY <3>3, <3>4
  <2>2. CASE j # root
    <3>1. j \in DOMAIN inode \ {i} /\ inode'[j] = inode[j]
      BY <2>2, <1>2
    <3>2. \A u : Lists(j, u)' <=> Lists(j, u)
      BY <3>1 DEF Lists
    <3>3. \A u : Lists(j, u) <=> u \in DOMAIN tnode /\ tnode[u].parent = j
      BY <3>1 DEF TreeInv
    <3>4. \A u : Lists(j, u)' <=> u \in DOMAIN tnode' /\ tnode'[u].parent = j
      BY <3>2, <3>3, <1>1
    <3>5. \A k, m \in 1..Len(inode[j].child) :
             tnode[inode[j].child[k]].name = tnode[inode[j].child[m]].name => k = m
      BY <3>1 DEF TreeInv
    <3>6. \A k \in 1..Len(inode[j].child) : inode[j].child[k] \in DOMAIN tnode
      <4>1. \A k \in 1..Len(inode[j].child) : Lists(j, inode[j].child[k])
        BY DEF Lists
      <4> QED BY <4>1, <3>3
    <3>7. \A k, m \in 1..Len(inode'[j].child) :
             tnode'[inode'[j].child[k]].name = tnode'[inode'[j].child[m]].name => k = m
      BY <3>1, <3>5, <3>6, <1>1
    <3>8. ASSUME inode[j].child # <<>>
          PROVE  IS_TRAVERSABLE(j) /\ \E u \in DOMAIN tnode \ {t} : tnode[u].inode = j
      <4>1. IS_TRAVERSABLE(j) /\ \E u \in DOMAIN tnode : tnode[u].inode = j
        BY <3>1, <3>8 DEF TreeInv
      <4> QED BY <4>1, <3>1
    <3>9. inode'[j].child # <<>> => /\ IS_TRAVERSABLE(j)'
                                    /\ \E u \in DOMAIN tnode' : tnode'[u].inode = j
      BY <3>1, <3>8, <1>1 DEF IS_TRAVERSABLE
    <3> QED BY <3>4, <3>7, <3>9
  <2> QED BY <2>1, <2>2
<1> QED BY <1>4, <1>5, <1>6 DEF TreeInv

-----------------------------------------------------------------------------
(* Counting.                                                               *)

LEMMA CountsAre ==
    ASSUME VfsTypeOK, CountInv
    PROVE  \A i : /\ IsFiniteSet(Named(i)) /\ Cardinality(Named(i)) \in Nat
                  /\ IsFiniteSet(Held(i)) /\ Cardinality(Held(i)) \in Nat
<1> TAKE i
<1>1. IsFiniteSet(Named(i))
  <2>1. Named(i) \subseteq 0..NodeMax
    BY DEF Named, VfsTypeOK, Number
  <2>2. IsFiniteSet(0..NodeMax)
    BY VfsAssumption, FS_Interval
  <2> QED BY <2>1, <2>2, FS_Subset
<1>2. IsFiniteSet(Held(i))
  <2>1. Held(i) \subseteq Descs(openfiles) /\ IsFiniteSet(Descs(openfiles))
    BY DEF Held, CountInv
  <2> QED BY <2>1, FS_Subset
<1> QED BY <1>1, <1>2, FS_CardinalityType

\* The handles and tnodes of inodes that nobody is counted for.
LEMMA NobodyRefers ==
    ASSUME VfsTypeOK, CountInv, NEW i \in DOMAIN inode, inode[i].refcount = 0
    PROVE  Named(i) = {} /\ Held(i) = {}
<1>1. inode[i].refcount = Cardinality(Named(i)) + Cardinality(Held(i))
  BY DEF CountInv
<1>2. Cardinality(Named(i)) = 0 /\ Cardinality(Held(i)) = 0
  BY <1>1, CountsAre
<1> QED BY <1>2, CountsAre, FS_EmptySet

SameNode(n, m) == /\ n.type = m.type
                  /\ n.size = m.size
                  /\ n.alloc_size = m.alloc_size
                  /\ n.data = m.data

LEMMA WithCount ==
    ASSUME NEW n \in Inode, NEW c \in Int
    PROVE  LET m == [n EXCEPT !.refcount = c] IN
           m \in Inode /\ m.refcount = c /\ m.child = n.child /\ SameNode(m, n)
BY DEF Inode, SameNode

LEMMA FilesKept ==
    ASSUME FileInv, DOMAIN inode' \subseteq DOMAIN inode,
           \A j \in DOMAIN inode' : SameNode(inode'[j], inode[j])
    PROVE  FileInv'
BY DEF FileInv, FileOK, SameNode

\* One reference more, and one less.
OneMore(nodes, i) == [nodes EXCEPT ![i].refcount = @ + 1]
OneLess(nodes, i) == [nodes EXCEPT ![i].refcount = @ - 1]

LEMMA Counted ==
    ASSUME NEW S, NEW nodes \in [S -> Inode], NEW i \in S
    PROVE  LET after == OneMore(nodes, i) IN
           /\ after \in [S -> Inode]
           /\ \A j \in S : /\ SameNode(after[j], nodes[j])
                           /\ after[j].child = nodes[j].child
                           /\ after[j].refcount = IF j = i THEN nodes[j].refcount + 1
                                                  ELSE nodes[j].refcount
<1> DEFINE node == [nodes[i] EXCEPT !.refcount = nodes[i].refcount + 1]
           after == OneMore(nodes, i)
<1>1. nodes[i] \in Inode
  OBVIOUS
<1>2. /\ node \in Inode /\ SameNode(node, nodes[i]) /\ node.child = nodes[i].child
      /\ node.refcount = nodes[i].refcount + 1
  <2>1. nodes[i].refcount + 1 \in Int
    BY <1>1 DEF Inode
  <2> QED BY <1>1, <2>1, WithCount
<1>3. after = [nodes EXCEPT ![i] = node]
  BY DEF OneMore
<1> HIDE DEF node
<1>4. after \in [S -> Inode] /\ \A j \in S : after[j] = IF j = i THEN node ELSE nodes[j]
  BY <1>2, <1>3
<1> HIDE DEF after
<1> QED BY <1>2, <1>4 DEF SameNode, after

LEMMA Released ==
    ASSUME NEW S, NEW nodes \in [S -> Inode], NEW i \in S
    PROVE  LET after == OneLess(nodes, i) IN
           /\ after \in [S -> Inode]
           /\ \A j \in S : /\ SameNode(after[j], nodes[j])
                           /\ after[j].child = nodes[j].child
                           /\ after[j].refcount = IF j = i THEN nodes[j].refcount - 1
                                                  ELSE nodes[j].refcount
<1> DEFINE node == [nodes[i] EXCEPT !.refcount = nodes[i].refcount - 1]
           after == OneLess(nodes, i)
<1>1. nodes[i] \in Inode
  OBVIOUS
<1>2. /\ node \in Inode /\ SameNode(node, nodes[i]) /\ node.child = nodes[i].child
      /\ node.refcount = nodes[i].refcount - 1
  <2>1. nodes[i].refcount - 1 \in Int
    BY <1>1 DEF Inode
  <2> QED BY <1>1, <2>1, WithCount
<1>3. after = [nodes EXCEPT ![i] = node]
  BY DEF OneLess
<1> HIDE DEF node
<1>4. after \in [S -> Inode] /\ \A j \in S : after[j] = IF j = i THEN node ELSE nodes[j]
  BY <1>2, <1>3
<1> HIDE DEF after
<1> QED BY <1>2, <1>4 DEF SameNode, after

\* One reference less, and the inode goes if it was the last.
Dropped(nodes, i) ==
    IF OneLess(nodes, i)[i].refcount = 0 THEN Forget(OneLess(nodes, i), i) ELSE OneLess(nodes, i)

LEMMA DroppedIs ==
    ASSUME NEW S, NEW nodes \in [S -> Inode], NEW i \in S
    PROVE  LET after == Dropped(nodes, i) IN
           /\ DOMAIN after \subseteq S /\ after \in [DOMAIN after -> Inode]
           /\ \A j \in DOMAIN after : /\ SameNode(after[j], nodes[j])
                                      /\ after[j].child = nodes[j].child
                                      /\ after[j].refcount = IF j = i THEN nodes[j].refcount - 1
                                                             ELSE nodes[j].refcount
           /\ \A j \in S \ DOMAIN after : j = i /\ nodes[i].refcount = 1
<1> DEFINE less == OneLess(nodes, i)
           after == Dropped(nodes, i)
<1>1. /\ less \in [S -> Inode]
      /\ \A j \in S : /\ SameNode(less[j], nodes[j])
                      /\ less[j].child = nodes[j].child
                      /\ less[j].refcount = IF j = i THEN nodes[j].refcount - 1
                                            ELSE nodes[j].refcount
  BY Released
<1>2. DOMAIN less = S
  BY <1>1
<1>3. nodes[i].refcount \in Int
  BY DEF Inode
<1>4. CASE less[i].refcount = 0
  <2>1. after = Forget(less, i)
    BY <1>4 DEF Dropped
  <2> HIDE DEF less
  <2>2. DOMAIN after = S \ {i}
    BY <2>1, <1>2, ForgetDomain
  <2>3. \A j \in S \ {i} : after[j] = less[j]
    BY <2>1, <1>2, ForgetIs
  <2>4. after \in [S \ {i} -> Inode]
    <3>1. less \in [S -> Inode]
      BY <1>1
    <3>2. Forget(less, i) \in [S \ {i} -> Inode]
      BY <3>1, ForgetIn
    <3> QED BY <2>1, <3>2
  <2>5. nodes[i].refcount = 1
    BY <1>1, <1>3, <1>4
  <2> HIDE DEF after
  <2>6. /\ DOMAIN after \subseteq S /\ after \in [DOMAIN after -> Inode]
        /\ \A j \in S \ DOMAIN after : j = i /\ nodes[i].refcount = 1
    BY <2>2, <2>4, <2>5
  <2> QED BY <2>2, <2>3, <2>6, <1>1 DEF after
<1>5. CASE less[i].refcount # 0
  <2>1. after = less
    BY <1>5 DEF Dropped
  <2> HIDE DEF less, after
  <2> QED BY <2>1, <1>1, <1>2 DEF after
<1> QED BY <1>4, <1>5

LEMMA PathIs ==
    ASSUME NEW path \in AllPaths
    PROVE  path \in Seq(Range(path)) /\ (path # <<>> => Last(path) \in Name)
<1>1. path \in Seq(Range(path))
  BY PathsAre
<1>2. path # <<>> => path[Len(path)] \in Range(path)
  BY <1>1
<1> QED BY <1>1, <1>2 DEF Last, Name

\* The inode of a tnode that is found, and its type.
LEMMA NodeFound ==
    ASSUME VfsTypeOK, TreeInv, NEW path \in AllPaths, Found(path) # NULL
    PROVE  /\ Found(path) \in DOMAIN tnode
           /\ tnode[Found(path)].inode \in DOMAIN inode
           /\ path # <<>> => Found(path) # vfs_root
<1>1. Found(path) \in DOMAIN tnode /\ (path # <<>> => Found(path) # vfs_root)
  BY PathIs, FoundIs
<1> QED BY <1>1, InodeOf

-----------------------------------------------------------------------------
(* The calls.                                                              *)

Task == Client \cup {Kinit}

LEMMA OpenInv ==
    ASSUME VfsInv, NEW task \in Task, NEW path \in AllPaths,
           NEW mode \in {open[2] : open \in Opens} \cup {"write"}, vfs_open(task, path, mode)
    PROVE  /\ VfsInv'
           /\ Len(openfiles'[task]) > 0
           /\ openfiles'[task][Len(openfiles'[task])].seek_pos = 0
           /\ \A u \in Task : Len(openfiles'[u]) >= Len(openfiles[u])
<1> USE DEF VfsInv
<1>0. PICK i, td : i = tnode[Found(path)].inode /\ td = <<task, Len(openfiles[task]) + 1>>
  OBVIOUS
<1> DEFINE desc == [inode |-> i, mode |-> mode, seek_pos |-> 0]
<1>1. i \in DOMAIN inode
  BY <1>0, NodeFound DEF vfs_open
<1>2. inode \in [DOMAIN inode -> Inode] /\ openfiles \in [Task -> Slots]
      /\ DOMAIN inode \subseteq Number
  BY DEF VfsTypeOK, Task, Slots
<1>3. desc \in Handle /\ desc.inode = i
  BY <1>1, <1>2 DEF Handle
<1>4. /\ inode' = OneMore(inode, i)
      /\ openfiles' = Opened(openfiles, task, desc)
      /\ tnode' = tnode
  BY <1>0 DEF vfs_open, OneMore, Opened
<1> HIDE DEF desc
<1>5. /\ inode' \in [DOMAIN inode -> Inode]
      /\ \A j \in DOMAIN inode : /\ SameNode(inode'[j], inode[j])
                                 /\ inode'[j].child = inode[j].child
                                 /\ inode'[j].refcount = IF j = i THEN inode[j].refcount + 1
                                                         ELSE inode[j].refcount
  BY <1>1, <1>2, <1>4, Counted
<1>6. DOMAIN inode' = DOMAIN inode
  BY <1>5
<1>7. /\ openfiles' \in [Task -> Slots]
      /\ td \notin Descs(openfiles)
      /\ Descs(openfiles') = Descs(openfiles) \cup {td}
      /\ openfiles'[td[1]][td[2]] = desc
      /\ \A x \in Descs(openfiles) : openfiles'[x[1]][x[2]] = openfiles[x[1]][x[2]]
  BY <1>0, <1>2, <1>3, <1>4, HandleOpened
<1>8. VfsTypeOK'
  BY <1>4, <1>5, <1>6, <1>7 DEF VfsTypeOK, Task, Slots
<1>9. TreeInv'
  BY <1>4, <1>5, <1>6, InodeOf, TreeKept DEF SameNode
<1>10. CountInv'
  <2>1. IsFiniteSet(Descs(openfiles'))
    BY <1>7, FS_AddElement DEF CountInv
  <2>2. \A x \in Descs(openfiles') : openfiles'[x[1]][x[2]].inode \in DOMAIN inode'
    BY <1>1, <1>3, <1>6, <1>7 DEF CountInv
  <2>3. \A j : Named(j)' = Named(j)
    BY <1>4 DEF Named
  <2>4. \A j : Held(j)' = IF j = i THEN Held(j) \cup {td} ELSE Held(j)
    BY <1>3, <1>7 DEF Held
  <2>5. td \notin Held(i)
    BY <1>7 DEF Held
  <2>6. Cardinality(Held(i)') = Cardinality(Held(i)) + 1
    <3>1. Held(i)' = Held(i) \cup {td}
      BY <2>4
    <3>2. IsFiniteSet(Held(i))
      BY CountsAre
    <3> QED BY <2>5, <3>1, <3>2, FS_AddElement
  <2>7. ASSUME NEW j \in DOMAIN inode'
        PROVE  inode'[j].refcount = Cardinality(Named(j)') + Cardinality(Held(j)')
    <3>1. /\ inode[j].refcount = Cardinality(Named(j)) + Cardinality(Held(j))
          /\ Cardinality(Named(j)) \in Nat /\ Cardinality(Held(j)) \in Nat
      BY <1>6, CountsAre DEF CountInv
    <3> QED BY <3>1, <1>5, <1>6, <2>3, <2>4, <2>6
  <2> QED BY <2>1, <2>2, <2>7 DEF CountInv
<1>11. FileInv'
  BY <1>5, <1>6, FilesKept
<1>12. Len(openfiles'[task]) > 0 /\ \A u \in Task : Len(openfiles'[u]) >= Len(openfiles[u])
  <2>1. openfiles[task] \in Slots /\ openfiles'[task] = Append(openfiles[task], desc)
    BY <1>2, <1>4 DEF Opened
  <2>2. Len(openfiles'[task]) = Len(openfiles[task]) + 1 /\ Len(openfiles[task]) \in Nat
    BY <2>1 DEF Slots
  <2>3. \A u \in Task \ {task} : openfiles'[u] = openfiles[u] /\ Len(openfiles[u]) \in Nat
    BY <1>2, <1>4 DEF Opened, Slots
  <2> QED BY <2>2, <2>3
<1>13. openfiles'[task][Len(openfiles'[task])].seek_pos = 0
  <2>1. openfiles[task] \in Slots /\ openfiles'[task] = Append(openfiles[task], desc)
    BY <1>2, <1>4 DEF Opened
  <2>2. openfiles'[task][Len(openfiles'[task])] = desc
    BY <2>1 DEF Slots
  <2> QED BY <2>2 DEF desc
<1> QED BY <1>8, <1>9, <1>10, <1>11, <1>12, <1>13


LEMMA CloseInv ==
    ASSUME VfsInv, NEW task \in Task, NEW h \in Handles(task), vfs_close(task, h)
    PROVE  VfsInv' /\ \A u \in Task : Len(openfiles'[u]) = Len(openfiles[u])
<1> USE DEF VfsInv
<1>0. PICK i, td : i = openfiles[task][h].inode /\ td = <<task, h>>
  OBVIOUS
<1>1. inode \in [DOMAIN inode -> Inode] /\ openfiles \in [Task -> Slots]
      /\ DOMAIN inode \subseteq Number
  BY DEF VfsTypeOK, Task, Slots
<1>2. h \in 1..Len(openfiles[task]) /\ openfiles[task][h] # NULL
  BY DEF vfs_close, Handles
<1>3. td \in Descs(openfiles) /\ td[1] = task /\ td[2] = h
  <2>1. h \in Nat \ {0}
    BY <1>1, <1>2 DEF Slots
  <2> QED BY <2>1, <1>0, <1>1, <1>2, DescIs
<1>4. i \in DOMAIN inode
  BY <1>0, <1>3 DEF CountInv
<1>5. inode' = OneLess(inode, i) /\ openfiles' = Closed(openfiles, task, h) /\ tnode' = tnode
  BY <1>0 DEF vfs_close, OneLess, Closed
<1>6. /\ DOMAIN inode' = DOMAIN inode /\ inode' \in [DOMAIN inode -> Inode]
      /\ \A j \in DOMAIN inode : /\ SameNode(inode'[j], inode[j])
                                 /\ inode'[j].child = inode[j].child
                                 /\ inode'[j].refcount = IF j = i THEN inode[j].refcount - 1
                                                         ELSE inode[j].refcount
  <2>1. inode' \in [DOMAIN inode -> Inode]
    BY <1>1, <1>4, <1>5, Released
  <2> QED BY <2>1, <1>1, <1>4, <1>5, Released
<1>7. /\ openfiles' \in [Task -> Slots]
      /\ Descs(openfiles') = Descs(openfiles) \ {td}
      /\ \A x \in Descs(openfiles') : openfiles'[x[1]][x[2]] = openfiles[x[1]][x[2]]
      /\ \A u \in Task : Len(openfiles'[u]) = Len(openfiles[u])
  BY <1>0, <1>1, <1>2, <1>5, HandleClosed
<1>8. \A j : Named(j)' = Named(j)
  BY <1>5 DEF Named
<1>9. \A j : Held(j)' = IF j = i THEN Held(j) \ {td} ELSE Held(j)
  BY <1>0, <1>3, <1>7 DEF Held
<1>10. td \in Held(i)
  BY <1>0, <1>3 DEF Held
<1>11. \A j \in DOMAIN inode : /\ inode[j].refcount = Cardinality(Named(j)) + Cardinality(Held(j))
                               /\ Cardinality(Named(j)) \in Nat /\ Cardinality(Held(j)) \in Nat
                               /\ IsFiniteSet(Named(j)) /\ IsFiniteSet(Held(j))
  BY CountsAre DEF CountInv
<1>12. Cardinality(Held(i)') = Cardinality(Held(i)) - 1
  <2>1. Held(i)' = Held(i) \ {td} /\ IsFiniteSet(Held(i))
    BY <1>4, <1>9, <1>11
  <2> QED BY <1>10, <2>1, FS_RemoveElement
<1>14. VfsTypeOK'
  BY <1>1, <1>5, <1>6, <1>7 DEF VfsTypeOK, Task, Slots
<1>15. TreeInv'
  BY <1>5, <1>6, InodeOf, TreeKept DEF SameNode
<1>16. CountInv'
  <2>1. IsFiniteSet(Descs(openfiles'))
    BY <1>7, FS_RemoveElement DEF CountInv
  <2>2. \A x \in Descs(openfiles') : openfiles'[x[1]][x[2]].inode \in DOMAIN inode'
    BY <1>6, <1>7 DEF CountInv
  <2>3. ASSUME NEW j \in DOMAIN inode'
        PROVE  inode'[j].refcount = Cardinality(Named(j)') + Cardinality(Held(j)')
    <3>1. CASE j = i
      BY <3>1, <1>4, <1>6, <1>8, <1>11, <1>12
    <3>2. CASE j # i
      BY <3>2, <1>6, <1>8, <1>9, <1>11
    <3> QED BY <3>1, <3>2
  <2> QED BY <2>1, <2>2, <2>3 DEF CountInv
<1>17. FileInv'
  BY <1>6, FilesKept
<1> QED BY <1>7, <1>14, <1>15, <1>16, <1>17


\* A handle is moved, and of the nodes no more changes than a file's bytes.
LEMMA MoveInv ==
    ASSUME VfsInv, NEW task \in Task, NEW h \in Handles(task), NEW pos \in Nat,
           openfiles[task][h] # NULL,
           openfiles' = Moved(openfiles, task, h, pos),
           tnode' = tnode, inode' \in [DOMAIN inode -> Inode],
           \A j \in DOMAIN inode : /\ inode'[j].child = inode[j].child
                                   /\ inode'[j].type = inode[j].type
                                   /\ inode'[j].refcount = inode[j].refcount
                                   /\ FileOK(inode'[j])
    PROVE  VfsInv' /\ \A u \in Task : Len(openfiles'[u]) = Len(openfiles[u])
<1> USE DEF VfsInv
<1>1. openfiles \in [Task -> Slots] /\ DOMAIN inode \subseteq Number
  BY DEF VfsTypeOK, Task, Slots
<1>2. /\ openfiles' \in [Task -> Slots]
      /\ Descs(openfiles') = Descs(openfiles)
      /\ \A x \in Descs(openfiles) : openfiles'[x[1]][x[2]].inode = openfiles[x[1]][x[2]].inode
      /\ \A u \in Task : Len(openfiles'[u]) = Len(openfiles[u])
  <2>1. h \in 1..Len(openfiles[task])
    BY DEF Handles
  <2> QED BY <1>1, <2>1, HandleMoved
<1>3. DOMAIN inode' = DOMAIN inode
  OBVIOUS
<1>4. VfsTypeOK'
  BY <1>1, <1>2, <1>3 DEF VfsTypeOK, Task, Slots
<1>5. TreeInv'
  BY <1>3, InodeOf, TreeKept
<1>6. CountInv'
  <2>1. \A j : Named(j)' = Named(j)
    BY DEF Named
  <2>2. \A j : Held(j)' = Held(j)
    BY <1>2 DEF Held
  <2> QED BY <1>2, <1>3, <2>1, <2>2 DEF CountInv
<1>7. FileInv'
  BY <1>3 DEF FileInv
<1> QED BY <1>2, <1>4, <1>5, <1>6, <1>7

LEMMA DescIn ==
    ASSUME VfsInv, NEW task \in Task, NEW h \in Handles(task), openfiles[task][h] # NULL
    PROVE  /\ openfiles[task][h] \in Handle
           /\ openfiles[task][h].seek_pos \in Nat
           /\ openfiles[task][h].inode \in DOMAIN inode
           /\ inode[openfiles[task][h].inode] \in Inode
<1> USE DEF VfsInv
<1>1. openfiles \in [Task -> Slots] /\ inode \in [DOMAIN inode -> Inode]
  BY DEF VfsTypeOK, Task, Slots
<1>2. h \in 1..Len(openfiles[task]) /\ h \in Nat \ {0}
  BY <1>1 DEF Handles, Slots
<1>3. openfiles[task][h] \in Handle
  BY <1>1, <1>2 DEF Slots
<1>4. openfiles[task][h].seek_pos \in Nat
  BY <1>3 DEF Handle
<1>5. openfiles[task][h].inode \in DOMAIN inode
  <2> DEFINE td == <<task, h>>
  <2>1. td \in Descs(openfiles)
    BY <1>1, <1>2, DescIs
  <2>2. td[1] = task /\ td[2] = h
    OBVIOUS
  <2> HIDE DEF td
  <2> QED BY <2>1, <2>2 DEF CountInv
<1> QED BY <1>1, <1>3, <1>4, <1>5

LEMMA SeekInv ==
    ASSUME VfsInv, NEW task \in Task, NEW h \in Handles(task), NEW pos \in Nat,
           openfiles[task][h] # NULL, Seek(task, h, pos), UNCHANGED <<tnode, inode>>
    PROVE  VfsInv' /\ \A u \in Task : Len(openfiles'[u]) = Len(openfiles[u])
<1>1. openfiles' = Moved(openfiles, task, h, pos)
  BY DEF Seek, Moved
<1>2. inode' \in [DOMAIN inode -> Inode]
  BY DEF VfsInv, VfsTypeOK
<1>3. \A j \in DOMAIN inode : inode'[j] = inode[j] /\ FileOK(inode'[j])
  BY DEF VfsInv, FileInv
<1> QED BY <1>1, <1>2, <1>3, MoveInv

\* A call that traps has changed nothing.
LEMMA TrapInv ==
    ASSUME VfsInv, UNCHANGED <<tnode, inode, openfiles>>
    PROVE  VfsInv' /\ \A u \in Task : Len(openfiles'[u]) = Len(openfiles[u])
<1> USE DEF VfsInv
<1>1. VfsTypeOK' /\ FileInv'
  BY DEF VfsTypeOK, FileInv
<1>2. TreeInv'
  BY InodeOf, TreeKept
<1>3. CountInv'
  BY DEF CountInv, Named, Held
<1> QED BY <1>1, <1>2, <1>3

LEMMA ReadInv ==
    ASSUME VfsInv, NEW task \in Task, NEW h \in Handles(task), NEW len \in Nat,
           vfs_read(task, h, len)
    PROVE  VfsInv' /\ \A u \in Task : Len(openfiles'[u]) = Len(openfiles[u])
<1> DEFINE desc == openfiles[task][h]
           node == inode[desc.inode]
           pos == IF desc.seek_pos+len > node.size THEN node.size ELSE desc.seek_pos+len
<1>1. desc # NULL
  BY DEF vfs_read, Desc
<1>2. desc.seek_pos \in Nat /\ node \in Inode
  BY <1>1, DescIn
<1>3. pos \in Nat
  <2> HIDE DEF desc, node
  <2>1. node.size \in Nat
    BY <1>2 DEF Inode
  <2> QED BY <1>2, <2>1
<1>4. \/ UNCHANGED <<tnode, inode, openfiles>>
      \/ Seek(task, h, pos) /\ UNCHANGED <<tnode, inode>>
  BY DEF vfs_read, Trap, Desc, Of
<1> HIDE DEF pos
<1> QED BY <1>1, <1>3, <1>4, TrapInv, SeekInv

LEMMA SeekCallInv ==
    ASSUME VfsInv, NEW task \in Task, NEW h \in Handles(task), NEW pos \in Nat,
           vfs_seek(task, h, pos)
    PROVE  VfsInv' /\ \A u \in Task : Len(openfiles'[u]) = Len(openfiles[u])
BY SeekInv DEF vfs_seek, Desc

LEMMA GetdentInv ==
    ASSUME VfsInv, NEW task \in Task, NEW h \in Handles(task), vfs_getdent(task, h)
    PROVE  VfsInv' /\ \A u \in Task : Len(openfiles'[u]) = Len(openfiles[u])
<1>1. openfiles[task][h] # NULL
  BY DEF vfs_getdent, Desc
<1>2. openfiles[task][h].seek_pos + 1 \in Nat
  BY <1>1, DescIn
<1>3. Seek(task, h, openfiles[task][h].seek_pos + 1) /\ UNCHANGED <<tnode, inode>>
  BY DEF vfs_getdent, Desc
<1> QED BY <1>1, <1>2, <1>3, SeekInv

\* node after len bytes were written at pos.
Written(node, pos, len) ==
    [Grown(node, pos+len) EXCEPT !.data = @ \cup pos..pos+len-1]

\* It keeps what it has, and grows to the end of the write.
LEMMA GrownIs ==
    ASSUME NEW node \in Inode, NEW end \in Nat
    PROVE  LET grown == Grown(node, end) IN
           /\ grown \in Inode /\ grown.type = node.type /\ grown.child = node.child
           /\ grown.refcount = node.refcount /\ grown.data = node.data
           /\ grown.size = IF node.type = "file" /\ end > node.size THEN end ELSE node.size
           /\ FileOK(node) /\ node.type = "file" => grown.size <= grown.alloc_size
<1> DEFINE big == [node EXCEPT !.size = end]
           grown == Grown(node, end)
<1>1. node.size \in Nat /\ node.alloc_size \in Nat /\ node.data \subseteq Nat
  BY DEF Inode
<1>2. CASE node.type = "file" /\ end > node.size
  <2>1. /\ big \in Inode /\ big.size = end /\ big.alloc_size = node.alloc_size
        /\ big.type = node.type /\ big.child = node.child
        /\ big.refcount = node.refcount /\ big.data = node.data
    BY <1>1 DEF Inode
  <2> DEFINE alloc == IF big.size > big.alloc_size THEN big.size ELSE big.alloc_size
  <2>2. grown = [big EXCEPT !.alloc_size = alloc]
    BY <1>2 DEF Grown, Synced, HAS_SIZE
  <2> HIDE DEF big
  <2>3. alloc \in Nat /\ big.size <= alloc
    BY <2>1, <1>1
  <2> HIDE DEF grown, alloc
  <2>4. /\ grown \in Inode /\ grown.type = big.type /\ grown.child = big.child
        /\ grown.refcount = big.refcount /\ grown.data = big.data
        /\ grown.size = big.size /\ grown.alloc_size = alloc
    BY <2>1, <2>2, <2>3 DEF Inode
  <2> QED BY <1>2, <2>1, <2>3, <2>4 DEF grown
<1>3. CASE ~(node.type = "file" /\ end > node.size)
  <2>1. grown = node
    BY <1>3 DEF Grown, HAS_SIZE
  <2> HIDE DEF grown
  <2> QED BY <1>3, <2>1 DEF FileOK, grown
<1> QED BY <1>2, <1>3

LEMMA WrittenIs ==
    ASSUME NEW node \in Inode, FileOK(node), NEW pos \in Nat, NEW len \in Nat,
           len > 0 \/ pos <= node.size
    PROVE  LET new == Written(node, pos, len) IN
           /\ new \in Inode /\ FileOK(new)
           /\ new.type = node.type /\ new.child = node.child /\ new.refcount = node.refcount
           /\ new.data = node.data \cup pos..pos+len-1
<1> DEFINE grown == Grown(node, pos+len)
           new == [grown EXCEPT !.data = grown.data \cup pos..pos+len-1]
<1>1. node.size \in Nat /\ node.data \subseteq Nat /\ pos+len \in Nat
  BY DEF Inode
<1>2. /\ grown \in Inode /\ grown.type = node.type /\ grown.child = node.child
      /\ grown.refcount = node.refcount /\ grown.data = node.data
      /\ grown.size = IF node.type = "file" /\ pos+len > node.size THEN pos+len ELSE node.size
      /\ node.type = "file" => grown.size <= grown.alloc_size
  BY <1>1, GrownIs
<1>3. Written(node, pos, len) = new
  BY DEF Written
<1> HIDE DEF grown
<1>4. grown.data \cup pos..pos+len-1 \in SUBSET Nat
  BY <1>1, <1>2
<1>5. /\ new \in Inode /\ new.type = grown.type /\ new.child = grown.child
      /\ new.refcount = grown.refcount /\ new.size = grown.size
      /\ new.alloc_size = grown.alloc_size
      /\ new.data = grown.data \cup pos..pos+len-1
  BY <1>2, <1>4 DEF Inode
<1> HIDE DEF new
<1>6. ASSUME new.type = "file" PROVE FileOK(new)
  <2>1. /\ node.data \subseteq 0..node.size-1
        /\ node.size > 0 => node.size-1 \in node.data
        /\ new.size = IF pos+len > node.size THEN pos+len ELSE node.size
        /\ new.data = node.data \cup pos..pos+len-1
        /\ new.size <= new.alloc_size
    BY <1>2, <1>5, <1>6 DEF FileOK
  <2>2. new.data \subseteq 0..new.size-1
    BY <1>1, <2>1
  <2>3. ASSUME new.size > 0 PROVE new.size-1 \in new.data
    <3>1. CASE pos+len > node.size
      BY <1>1, <2>1, <3>1
    <3>2. CASE ~(pos+len > node.size)
      BY <1>1, <2>1, <2>3, <3>2
    <3> QED BY <3>1, <3>2
  <2> QED BY <2>1, <2>2, <2>3 DEF FileOK
<1>7. FileOK(new)
  BY <1>6 DEF FileOK
<1> QED BY <1>2, <1>3, <1>5, <1>7

LEMMA WriteInv ==
    ASSUME VfsInv, NEW task \in Task, NEW h \in Handles(task), NEW len \in Nat,
           len > 0 \/ openfiles[task][h].seek_pos = 0, vfs_write(task, h, len)
    PROVE  VfsInv' /\ \A u \in Task : Len(openfiles'[u]) = Len(openfiles[u])
<1> USE DEF VfsInv
<1>1. PICK i, pos : i = openfiles[task][h].inode /\ pos = openfiles[task][h].seek_pos
  OBVIOUS
<1>2. openfiles[task][h] # NULL
  BY DEF vfs_write, Desc
<1>3. pos \in Nat /\ i \in DOMAIN inode /\ inode[i] \in Inode
  BY <1>1, <1>2, DescIn
<1>4. CASE UNCHANGED <<tnode, inode, openfiles>>
  BY <1>4, TrapInv
<1>5. CASE /\ inode' = [inode EXCEPT ![i] = Written(inode[i], pos, len)]
           /\ openfiles' = Moved(openfiles, task, h, pos+len)
           /\ tnode' = tnode
  <2>1. FileOK(inode[i]) /\ (len > 0 \/ pos <= inode[i].size)
    <3>1. inode[i].size \in Nat
      BY <1>3 DEF Inode
    <3> QED BY <1>1, <1>3, <3>1 DEF FileInv
  <2> DEFINE new == Written(inode[i], pos, len)
  <2>2. /\ new \in Inode /\ FileOK(new) /\ new.type = inode[i].type
        /\ new.child = inode[i].child /\ new.refcount = inode[i].refcount
    BY <1>3, <2>1, WrittenIs
  <2> HIDE DEF new
  <2>3. inode \in [DOMAIN inode -> Inode] /\ inode' = [inode EXCEPT ![i] = new]
    BY <1>5 DEF VfsTypeOK, new
  <2>4. /\ inode' \in [DOMAIN inode -> Inode]
        /\ \A j \in DOMAIN inode : inode'[j] = IF j = i THEN new ELSE inode[j]
    BY <2>2, <2>3
  <2>5. \A j \in DOMAIN inode : /\ inode'[j].child = inode[j].child
                                /\ inode'[j].type = inode[j].type
                                /\ inode'[j].refcount = inode[j].refcount
                                /\ FileOK(inode'[j])
    BY <2>2, <2>4 DEF FileInv
  <2>6. pos+len \in Nat
    BY <1>3
  <2> QED BY <1>2, <1>5, <2>4, <2>5, <2>6, MoveInv
<1>6. \/ UNCHANGED <<tnode, inode, openfiles>>
      \/ /\ inode' = [inode EXCEPT ![i] = Written(inode[i], pos, len)]
         /\ openfiles' = Moved(openfiles, task, h, pos+len)
         /\ tnode' = tnode
  BY <1>1 DEF vfs_write, Desc, Of, Trap, Seek, Moved, Written
<1> QED BY <1>4, <1>5, <1>6


\* The tnode that a call with CREATE enters.
NewEntry(path, i) == [name |-> Last(path), inode |-> i, parent |-> tnode[CreatesIn(path)].inode]

LEMMA EntryIs ==
    ASSUME VfsTypeOK, TreeInv, NEW path \in AllPaths, CreatesIn(path) # NULL,
           NEW i \in Number, NEW d, d = tnode[CreatesIn(path)].inode
    PROVE  /\ d \in DOMAIN inode /\ IS_TRAVERSABLE(d)
           /\ \E u \in DOMAIN tnode : tnode[u].inode = d
           /\ \A u : Lists(d, u) => tnode[u].name # Last(path)
           /\ NewEntry(path, i) \in Tnode
           /\ NewEntry(path, i).name = Last(path)
           /\ NewEntry(path, i).inode = i
           /\ NewEntry(path, i).parent = d
<1>1. path \in Seq(Range(path)) /\ (path # <<>> => Last(path) \in Name)
  BY PathIs
<1>2. /\ CreatesIn(path) \in DOMAIN tnode /\ d \in DOMAIN inode /\ IS_TRAVERSABLE(d)
      /\ path # <<>>
      /\ \A u : Lists(d, u) => tnode[u].name # Last(path)
  BY <1>1, CreatesInIs
<1>3. d \in Number
  BY <1>2 DEF VfsTypeOK
<1>4. /\ NewEntry(path, i) \in Tnode /\ NewEntry(path, i).name = Last(path)
      /\ NewEntry(path, i).inode = i /\ NewEntry(path, i).parent = d
  BY <1>1, <1>2, <1>3 DEF NewEntry, Tnode
<1> QED BY <1>2, <1>4

LEMMA AllocatedIs ==
    ASSUME NEW type \in {"file", "folder", "mountpoint"}, NEW mnt \in Number
    PROVE  LET node == vfs_alloc_inode(type, mnt) IN
           /\ node \in Inode /\ FileOK(node) /\ node.child = <<>> /\ node.refcount = 1
<1>1. <<>> \in Seq(Number) /\ {} \in SUBSET Nat /\ 0..0-1 = {}
  OBVIOUS
<1> QED BY <1>1 DEF vfs_alloc_inode, Inode, FileOK

LEMMA CreateInv ==
    ASSUME VfsInv, NEW path \in AllPaths, NEW type \in {"file", "folder"},
           vfs_create(path, type)
    PROVE  VfsInv' /\ \A u \in Task : Len(openfiles'[u]) = Len(openfiles[u])
<1> USE DEF VfsInv
<1>1. PICK d, t, i : d = tnode[CreatesIn(path)].inode /\ t = NewTnode /\ i = NewInode
  OBVIOUS
<1> DEFINE node == vfs_alloc_inode(type, inode[d].mountpoint)
           new == NewEntry(path, i)
<1>2. t \in Number \ DOMAIN tnode /\ i \in Number \ DOMAIN inode
  BY <1>1, RoomLeft DEF vfs_create
<1>3. /\ d \in DOMAIN inode /\ IS_TRAVERSABLE(d)
      /\ \E u \in DOMAIN tnode : tnode[u].inode = d
      /\ \A u : Lists(d, u) => tnode[u].name # Last(path)
      /\ new \in Tnode /\ new.name = Last(path) /\ new.inode = i /\ new.parent = d
  BY <1>1, <1>2, EntryIs DEF vfs_create
<1>4. /\ inode \in [DOMAIN inode -> Inode] /\ DOMAIN inode \subseteq Number
      /\ tnode \in [DOMAIN tnode -> Tnode] /\ DOMAIN tnode \subseteq Number
  BY DEF VfsTypeOK
<1>5. node \in Inode /\ FileOK(node) /\ node.child = <<>> /\ node.refcount = 1
  <2>1. inode[d].mountpoint \in Number
    BY <1>3, <1>4 DEF Inode
  <2> QED BY <2>1, AllocatedIs
<1>6. /\ tnode' = With(tnode, t, new)
      /\ inode' = With(WithChild(inode, d, t), i, node)
      /\ openfiles' = openfiles
  BY <1>1 DEF vfs_create, Enter, NewEntry
<1> HIDE DEF node, new
<1> DEFINE nodes == WithChild(inode, d, t)
<1>7. /\ nodes \in [DOMAIN inode -> Inode]
      /\ \A j \in DOMAIN inode :
            /\ nodes[j].child = IF j = d THEN Append(inode[j].child, t) ELSE inode[j].child
            /\ SameNode(nodes[j], inode[j])
            /\ nodes[j].refcount = inode[j].refcount
  BY <1>2, <1>3, WithChildIs DEF SameNode
<1> HIDE DEF nodes
<1>8. DOMAIN inode' = DOMAIN inode \cup {i}
  <2>1. DOMAIN inode' = DOMAIN nodes \cup {i}
    BY <1>6, WithDomain DEF nodes
  <2> QED BY <2>1, <1>7
<1>9. inode'[i] = node /\ \A j \in DOMAIN inode : inode'[j] = nodes[j]
  <2>1. inode'[i] = node /\ \A j \in DOMAIN nodes \ {i} : inode'[j] = nodes[j]
    BY <1>6, WithIs DEF nodes
  <2> QED BY <2>1, <1>2, <1>7
<1>10. VfsTypeOK'
  <2>1. tnode' \in [DOMAIN tnode \cup {t} -> Tnode]
    BY <1>3, <1>4, <1>6, WithIn
  <2>2. inode' \in [DOMAIN inode \cup {i} -> Inode]
    BY <1>5, <1>6, <1>7, WithIn DEF nodes
  <2> QED BY <2>1, <2>2, <1>2, <1>4, <1>6 DEF VfsTypeOK
<1>11. TreeInv'
  <2>1. \A j \in DOMAIN inode :
           /\ inode'[j].child = IF j = d THEN Append(inode[j].child, t) ELSE inode[j].child
           /\ inode'[j].type = inode[j].type
    BY <1>7, <1>9 DEF SameNode
  <2> QED BY <2>1, <1>2, <1>3, <1>5, <1>6, <1>8, <1>9, TreeEntered
<1>12. CountInv'
  <2>1. \A u \in DOMAIN tnode : tnode[u].inode # i
    BY <1>2, InodeOf
  <2>2. DOMAIN tnode' = DOMAIN tnode \cup {t}
    BY <1>6, WithDomain
  <2>3. tnode'[t] = new /\ \A u \in DOMAIN tnode \ {t} : tnode'[u] = tnode[u]
    BY <1>6, WithIs
  <2>4. Named(i)' = {t} /\ \A j \in DOMAIN inode : Named(j)' = Named(j)
    <3>1. Named(i)' = {t}
      BY <2>1, <2>2, <2>3, <1>2, <1>3 DEF Named
    <3>2. ASSUME NEW j \in DOMAIN inode PROVE Named(j)' = Named(j)
      BY <2>2, <2>3, <1>2, <1>3 DEF Named
    <3> QED BY <3>1, <3>2
  <2>5. Held(i)' = {} /\ \A j : Held(j)' = Held(j)
    BY <1>2, <1>6 DEF Held, CountInv
  <2>6. Cardinality({t}) = 1 /\ Cardinality({}) = 0
    BY FS_Singleton, FS_EmptySet
  <2>7. inode'[i].refcount = Cardinality(Named(i)') + Cardinality(Held(i)')
    BY <2>4, <2>5, <2>6, <1>5, <1>9
  <2>8. ASSUME NEW j \in DOMAIN inode
        PROVE  inode'[j].refcount = Cardinality(Named(j)') + Cardinality(Held(j)')
    BY <2>4, <2>5, <1>7, <1>9 DEF CountInv
  <2> QED BY <2>7, <2>8, <1>6, <1>8 DEF CountInv
<1>13. FileInv'
  BY <1>5, <1>7, <1>8, <1>9 DEF FileInv, FileOK, SameNode
<1> QED BY <1>6, <1>10, <1>11, <1>12, <1>13

LEMMA LinkInv ==
    ASSUME VfsInv, NEW old \in AllPaths, NEW path \in AllPaths, vfs_link(old, path)
    PROVE  VfsInv' /\ \A u \in Task : Len(openfiles'[u]) = Len(openfiles[u])
<1> USE DEF VfsInv
<1>1. PICK d, t, i : d = tnode[CreatesIn(path)].inode /\ t = NewTnode /\ i = tnode[Found(old)].inode
  OBVIOUS
<1> DEFINE new == NewEntry(path, i)
<1>2. t \in Number \ DOMAIN tnode
  BY <1>1, RoomLeft DEF vfs_link
<1>3. i \in DOMAIN inode
  BY <1>1, NodeFound DEF vfs_link
<1>4. /\ inode \in [DOMAIN inode -> Inode] /\ DOMAIN inode \subseteq Number
      /\ tnode \in [DOMAIN tnode -> Tnode] /\ DOMAIN tnode \subseteq Number
  BY DEF VfsTypeOK
<1>5. /\ d \in DOMAIN inode /\ IS_TRAVERSABLE(d)
      /\ \E u \in DOMAIN tnode : tnode[u].inode = d
      /\ \A u : Lists(d, u) => tnode[u].name # Last(path)
      /\ new \in Tnode /\ new.name = Last(path) /\ new.inode = i /\ new.parent = d
  <2>1. i \in Number
    BY <1>3, <1>4
  <2> QED BY <2>1, <1>1, EntryIs DEF vfs_link
<1>6. CASE UNCHANGED <<tnode, inode, openfiles>>
  BY <1>6, TrapInv
<1>7. CASE /\ tnode' = With(tnode, t, new)
           /\ inode' = OneMore(WithChild(inode, d, t), i)
           /\ openfiles' = openfiles
  <2> HIDE DEF new
  <2> DEFINE nodes == WithChild(inode, d, t)
  <2>1. /\ nodes \in [DOMAIN inode -> Inode]
        /\ \A j \in DOMAIN inode :
              /\ nodes[j].child = IF j = d THEN Append(inode[j].child, t) ELSE inode[j].child
              /\ SameNode(nodes[j], inode[j])
              /\ nodes[j].refcount = inode[j].refcount
    BY <1>2, <1>5, WithChildIs DEF SameNode
  <2>2. inode' = OneMore(nodes, i)
    BY <1>7
  <2> HIDE DEF nodes
  <2>3. /\ inode' \in [DOMAIN inode -> Inode]
        /\ \A j \in DOMAIN inode : /\ SameNode(inode'[j], nodes[j])
                                   /\ inode'[j].child = nodes[j].child
                                   /\ inode'[j].refcount = IF j = i THEN nodes[j].refcount + 1
                                                           ELSE nodes[j].refcount
    BY <1>3, <2>1, <2>2, Counted
  <2>4. DOMAIN inode' = DOMAIN inode
    BY <2>3
  <2>5. \A j \in DOMAIN inode :
           /\ inode'[j].child = IF j = d THEN Append(inode[j].child, t) ELSE inode[j].child
           /\ SameNode(inode'[j], inode[j])
           /\ inode'[j].refcount = IF j = i THEN inode[j].refcount + 1 ELSE inode[j].refcount
    BY <2>1, <2>3 DEF SameNode
  <2>6. VfsTypeOK'
    <3>1. tnode' \in [DOMAIN tnode \cup {t} -> Tnode]
      BY <1>4, <1>5, <1>7, WithIn
    <3> QED BY <3>1, <2>3, <2>4, <1>2, <1>4, <1>7 DEF VfsTypeOK
  <2>7. TreeInv'
    <3>1. \A j \in DOMAIN inode :
             /\ inode'[j].child = IF j = d THEN Append(inode[j].child, t) ELSE inode[j].child
             /\ inode'[j].type = inode[j].type
      BY <2>5 DEF SameNode
    <3>2. DOMAIN inode' = DOMAIN inode \cup {i} /\ i \in Number
      BY <2>4, <1>3, <1>4
    <3> QED BY <3>1, <3>2, <1>2, <1>3, <1>5, <1>7, TreeEntered
  <2>8. CountInv'
    <3>1. DOMAIN tnode' = DOMAIN tnode \cup {t}
      BY <1>7, WithDomain
    <3>2. tnode'[t] = new /\ \A u \in DOMAIN tnode \ {t} : tnode'[u] = tnode[u]
      BY <1>7, WithIs
    <3>3. \A j : Named(j)' = IF j = i THEN Named(j) \cup {t} ELSE Named(j)
      <4> TAKE j
      <4> QED BY <3>1, <3>2, <1>2, <1>5 DEF Named
    <3>4. \A j : Held(j)' = Held(j)
      BY <1>7 DEF Held
    <3>5. Cardinality(Named(i)') = Cardinality(Named(i)) + 1
      <4>1. t \notin Named(i) /\ IsFiniteSet(Named(i)) /\ Named(i)' = Named(i) \cup {t}
        BY <1>2, <3>3, CountsAre DEF Named
      <4> QED BY <4>1, FS_AddElement
    <3>6. ASSUME NEW j \in DOMAIN inode
          PROVE  inode'[j].refcount = Cardinality(Named(j)') + Cardinality(Held(j)')
      <4>1. /\ inode[j].refcount = Cardinality(Named(j)) + Cardinality(Held(j))
            /\ Cardinality(Named(j)) \in Nat /\ Cardinality(Held(j)) \in Nat
        BY CountsAre DEF CountInv
      <4> QED BY <4>1, <2>5, <3>3, <3>4, <3>5
    <3> QED BY <3>6, <2>4, <1>7 DEF CountInv
  <2>9. FileInv'
    BY <2>4, <2>5, FilesKept
  <2> QED BY <1>7, <2>6, <2>7, <2>8, <2>9
<1>8. \/ UNCHANGED <<tnode, inode, openfiles>>
      \/ /\ tnode' = With(tnode, t, new)
         /\ inode' = OneMore(WithChild(inode, d, t), i)
         /\ openfiles' = openfiles
  BY <1>1 DEF vfs_link, Enter, NewEntry, Trap, OneMore
<1> QED BY <1>6, <1>7, <1>8


\* A folder without the entry t.
WithoutChild(nodes, folder, t) == [nodes EXCEPT ![folder].child = RemoveFirst(@, t)]

LEMMA WithoutChildIs ==
    ASSUME NEW S, NEW nodes \in [S -> Inode], NEW p \in S, NEW t, Has(nodes[p].child, t)
    PROVE  LET after == WithoutChild(nodes, p, t) IN
           /\ after \in [S -> Inode]
           /\ \A j \in S : /\ SameNode(after[j], nodes[j])
                           /\ after[j].refcount = nodes[j].refcount
                           /\ after[j].child = IF j = p THEN RemoveFirst(nodes[j].child, t)
                                               ELSE nodes[j].child
<1> DEFINE child == RemoveFirst(nodes[p].child, t)
           node == [nodes[p] EXCEPT !.child = child]
           after == WithoutChild(nodes, p, t)
<1>1. nodes[p] \in Inode /\ nodes[p].child \in Seq(Number)
  BY DEF Inode
<1>2. child \in Seq(Number)
  BY <1>1, RemoveFirstIs DEF Has
<1>3. after = [nodes EXCEPT ![p] = node]
  BY DEF WithoutChild
<1> HIDE DEF child
<1>4. /\ node \in Inode /\ SameNode(node, nodes[p]) /\ node.child = child
      /\ node.refcount = nodes[p].refcount
  BY <1>1, <1>2 DEF Inode, SameNode
<1> HIDE DEF node, after
<1>5. after \in [S -> Inode] /\ \A j \in S : after[j] = IF j = p THEN node ELSE nodes[j]
  BY <1>3, <1>4
<1> QED BY <1>4, <1>5 DEF SameNode, after, child

LEMMA UnlinkInv ==
    ASSUME VfsInv, NEW path \in AllPaths, vfs_unlink(path)
    PROVE  VfsInv' /\ \A u \in Task : Len(openfiles'[u]) = Len(openfiles[u])
<1> USE DEF VfsInv
<1>1. PICK t, i, p : t = Found(path) /\ i = tnode[t].inode /\ p = tnode[t].parent
  OBVIOUS
<1>2. CASE path = <<>>
  BY <1>2, TrapInv DEF vfs_unlink, Trap
<1>3. CASE path # <<>>
  <2>1. t \in DOMAIN tnode \ {vfs_root} /\ i \in DOMAIN inode /\ inode[i].child = <<>>
    BY <1>1, <1>3, NodeFound DEF vfs_unlink
  <2>2. p \in DOMAIN inode /\ Lists(p, t)
    BY <1>1, <2>1, ParentLists
  <2>3. p # i /\ Has(inode[p].child, t)
    BY <2>1, <2>2 DEF Lists, Has
  <2>4. /\ inode \in [DOMAIN inode -> Inode] /\ DOMAIN inode \subseteq Number
        /\ tnode \in [DOMAIN tnode -> Tnode] /\ DOMAIN tnode \subseteq Number
    BY DEF VfsTypeOK
  <2> DEFINE nodes == WithoutChild(inode, p, t)
  <2>5. /\ nodes \in [DOMAIN inode -> Inode]
        /\ \A j \in DOMAIN inode : /\ SameNode(nodes[j], inode[j])
                                   /\ nodes[j].refcount = inode[j].refcount
                                   /\ nodes[j].child = IF j = p THEN RemoveFirst(inode[j].child, t)
                                                       ELSE inode[j].child
    BY <2>2, <2>3, <2>4, WithoutChildIs
  <2>6. [inode EXCEPT ![i].refcount = @ - 1, ![p].child = RemoveFirst(@, t)] = OneLess(nodes, i)
    BY <2>1, <2>2, <2>3, <2>4 DEF OneLess, WithoutChild
  <2>7. /\ inode' = Dropped(nodes, i)
        /\ tnode' = Forget(tnode, t)
        /\ openfiles' = openfiles
    <3> HIDE DEF nodes
    <3> QED BY <1>1, <1>3, <2>6 DEF vfs_unlink, Dropped
  <2> HIDE DEF nodes
  <2>8. /\ DOMAIN inode' \subseteq DOMAIN inode /\ inode' \in [DOMAIN inode' -> Inode]
        /\ \A j \in DOMAIN inode' : /\ SameNode(inode'[j], nodes[j])
                                    /\ inode'[j].child = nodes[j].child
                                    /\ inode'[j].refcount = IF j = i THEN nodes[j].refcount - 1
                                                            ELSE nodes[j].refcount
        /\ \A j \in DOMAIN inode \ DOMAIN inode' : j = i /\ nodes[i].refcount = 1
    BY <2>1, <2>5, <2>7, DroppedIs
  <2>9. /\ \A j \in DOMAIN inode' :
              /\ SameNode(inode'[j], inode[j])
              /\ inode'[j].child = IF j = p THEN RemoveFirst(inode[j].child, t) ELSE inode[j].child
              /\ inode'[j].refcount = IF j = i THEN inode[j].refcount - 1 ELSE inode[j].refcount
        /\ \A j \in DOMAIN inode \ DOMAIN inode' : j = i /\ inode[i].refcount = 1
    BY <2>1, <2>5, <2>8 DEF SameNode
  <2>10. DOMAIN tnode' = DOMAIN tnode \ {t}
    BY <2>7, ForgetDomain
  <2>11. \A u \in DOMAIN tnode \ {t} : tnode'[u] = tnode[u]
    BY <2>7, ForgetIs
  <2>12. \A j : /\ Named(j)' = IF j = i THEN Named(j) \ {t} ELSE Named(j)
                /\ Held(j)' = Held(j)
    <3> TAKE j
    <3>1. Named(j)' = IF j = i THEN Named(j) \ {t} ELSE Named(j)
      BY <1>1, <2>1, <2>10, <2>11 DEF Named
    <3>2. Held(j)' = Held(j)
      BY <2>7 DEF Held
    <3> QED BY <3>1, <3>2
  <2>13. \A j \in DOMAIN inode :
            /\ inode[j].refcount = Cardinality(Named(j)) + Cardinality(Held(j))
            /\ Cardinality(Named(j)) \in Nat /\ Cardinality(Held(j)) \in Nat
            /\ IsFiniteSet(Named(j)) /\ IsFiniteSet(Held(j))
    BY CountsAre DEF CountInv
  <2>14. /\ Cardinality(Named(i)') = Cardinality(Named(i)) - 1
         /\ Cardinality(Named(i)') \in Nat
         /\ IsFiniteSet(Named(i)')
    <3>1. Named(i)' = Named(i) \ {t} /\ IsFiniteSet(Named(i)) /\ t \in Named(i)
      BY <1>1, <2>1, <2>12, <2>13 DEF Named
    <3>2. IsFiniteSet(Named(i)') /\ Cardinality(Named(i)') = Cardinality(Named(i)) - 1
      BY <3>1, FS_RemoveElement
    <3> QED BY <3>2, FS_CardinalityType
  <2>15. \A j \in DOMAIN inode \ DOMAIN inode' : Named(j)' = {} /\ Held(j) = {}
    <3> SUFFICES ASSUME i \in DOMAIN inode \ DOMAIN inode' PROVE Named(i)' = {} /\ Held(i) = {}
      BY <2>9
    <3>1. inode[i].refcount = 1
      BY <2>9
    <3>2. 1 = Cardinality(Named(i)) + Cardinality(Held(i))
      BY <3>1, <2>1, <2>13
    <3>3. Cardinality(Named(i)) \in Nat /\ Cardinality(Held(i)) \in Nat
      BY <2>1, <2>13
    <3>4. Cardinality(Named(i)') = 0 /\ Cardinality(Held(i)) = 0
      BY <3>2, <3>3, <2>14
    <3> QED BY <3>4, <2>1, <2>13, <2>14, FS_EmptySet
  <2>16. VfsTypeOK'
    <3>1. tnode' \in [DOMAIN tnode \ {t} -> Tnode]
      BY <2>4, <2>7, ForgetIn
    <3> QED BY <3>1, <2>4, <2>7, <2>8, <2>10 DEF VfsTypeOK
  <2>17. TreeInv'
    <3>1. \A u \in DOMAIN tnode \ {t} : tnode[u].inode \in DOMAIN inode'
      <4> TAKE u \in DOMAIN tnode \ {t}
      <4>1. tnode[u].inode \in DOMAIN inode /\ Named(tnode[u].inode) # {}
        BY InodeOf DEF Named
      <4>2. PICK j : j = tnode[u].inode
        OBVIOUS
      <4>3. u \in Named(j)'
        BY <4>2, <2>10, <2>11 DEF Named
      <4> QED BY <4>1, <4>2, <4>3, <2>15
    <3>2. \A j \in DOMAIN inode' :
             /\ inode'[j].child = IF j = tnode[t].parent THEN RemoveFirst(inode[j].child, t)
                                  ELSE inode[j].child
             /\ inode'[j].type = inode[j].type
      BY <1>1, <2>9 DEF SameNode
    <3>3. inode[tnode[t].inode].child = <<>>
      BY <1>1, <2>1
    <3> QED BY <3>1, <3>2, <3>3, <2>1, <2>7, <2>8, TreeUnlinked
  <2>18. CountInv'
    <3>1. \A x \in Descs(openfiles) : openfiles[x[1]][x[2]].inode \in DOMAIN inode'
      <4> TAKE x \in Descs(openfiles)
      <4>1. PICK j : j = openfiles[x[1]][x[2]].inode
        OBVIOUS
      <4>2. j \in DOMAIN inode /\ x \in Held(j)
        BY <4>1 DEF CountInv, Held
      <4> QED BY <4>1, <4>2, <2>15
    <3>2. ASSUME NEW j \in DOMAIN inode'
          PROVE  inode'[j].refcount = Cardinality(Named(j)') + Cardinality(Held(j)')
      <4>1. CASE j = i
        BY <4>1, <2>1, <2>9, <2>12, <2>13, <2>14
      <4>2. CASE j # i
        BY <4>2, <2>8, <2>9, <2>12, <2>13
      <4> QED BY <4>1, <4>2
    <3> QED BY <3>1, <3>2, <2>7 DEF CountInv
  <2>19. FileInv'
    BY <2>8, <2>9, FilesKept
  <2> QED BY <2>7, <2>16, <2>17, <2>18, <2>19
<1> QED BY <1>2, <1>3

LEMMA MountInv ==
    ASSUME VfsInv, NEW path \in AllPaths, vfs_mount(path)
    PROVE  VfsInv' /\ \A u \in Task : Len(openfiles'[u]) = Len(openfiles[u])
<1> USE DEF VfsInv
<1>1. PICK t, i, root : /\ t = Found(path) /\ i = tnode[t].inode
                        /\ root = Unused(DOMAIN inode \ {i})
  OBVIOUS
<1>2. t \in DOMAIN tnode /\ i \in DOMAIN inode /\ inode[i].child = <<>>
  BY <1>1, NodeFound DEF vfs_mount
<1>3. CASE inode[i].refcount > 1
  BY <1>1, <1>3, TrapInv DEF vfs_mount, Trap
<1>4. CASE ~(inode[i].refcount > 1)
  <2> DEFINE node == vfs_alloc_inode("mountpoint", t)
             nodes == Forget(inode, i)
  <2>1. /\ tnode' = [tnode EXCEPT ![t].inode = root]
        /\ inode' = With(nodes, root, node)
        /\ openfiles' = openfiles
    BY <1>1, <1>4 DEF vfs_mount
  <2>2. /\ inode \in [DOMAIN inode -> Inode] /\ DOMAIN inode \subseteq Number
        /\ tnode \in [DOMAIN tnode -> Tnode] /\ DOMAIN tnode \subseteq Number
    BY DEF VfsTypeOK
  <2>3. root \in Number \ (DOMAIN inode \ {i})
    <3> DEFINE S == DOMAIN inode \ {i}
    <3>1. S \subseteq Number /\ S # Number
      BY <1>2, <2>2
    <3> HIDE DEF S
    <3>2. Unused(S) \in Number \ S
      BY <3>1, UnusedIs
    <3> QED BY <3>2, <1>1 DEF S
  <2>4. node \in Inode /\ FileOK(node) /\ node.child = <<>> /\ node.refcount = 1
    BY <1>2, <2>2, AllocatedIs
  <2> HIDE DEF node
  <2>5. \A j : /\ IsFiniteSet(Named(j)) /\ Cardinality(Named(j)) \in Nat
               /\ IsFiniteSet(Held(j)) /\ Cardinality(Held(j)) \in Nat
    BY CountsAre
  <2>6. Named(i) = {t} /\ Held(i) = {}
    <3>1. inode[i].refcount = Cardinality(Named(i)) + Cardinality(Held(i))
      BY <1>2 DEF CountInv
    <3>2. t \in Named(i)
      BY <1>1, <1>2 DEF Named
    <3>3. Cardinality(Named(i)) # 0
      BY <3>2, <2>5, FS_EmptySet
    <3>4. Cardinality(Named(i)) = 1 /\ Cardinality(Held(i)) = 0
      BY <3>1, <3>3, <1>4, <2>5
    <3>5. \E x : Named(i) = {x}
      BY <3>4, <2>5, FS_Singleton
    <3>6. Held(i) = {}
      BY <3>4, <2>5, FS_EmptySet
    <3> QED BY <3>2, <3>5, <3>6
  <2>7. DOMAIN nodes = DOMAIN inode \ {i}
    BY ForgetDomain
  <2>8. \A j \in DOMAIN inode \ {i} : nodes[j] = inode[j]
    BY ForgetIs
  <2>9. nodes \in [DOMAIN inode \ {i} -> Inode]
    BY <2>2, ForgetIn
  <2>10. inode' = With(Forget(inode, i), root, node)
    BY <2>1
  <2> HIDE DEF nodes
  <2>11. DOMAIN inode' = (DOMAIN inode \ {i}) \cup {root}
    BY <2>1, <2>7, WithDomain
  <2>12. inode'[root] = node /\ \A j \in DOMAIN inode \ {i} : j # root /\ inode'[j] = inode[j]
    <3>1. inode'[root] = node /\ \A j \in DOMAIN nodes \ {root} : inode'[j] = nodes[j]
      BY <2>1, WithIs
    <3> QED BY <3>1, <2>3, <2>7, <2>8
  <2>13. /\ DOMAIN tnode' = DOMAIN tnode
         /\ tnode' \in [DOMAIN tnode -> Tnode]
         /\ \A u \in DOMAIN tnode : tnode'[u].inode = IF u = t THEN root ELSE tnode[u].inode
    BY <1>2, <2>1, <2>2, <2>3 DEF Tnode
  <2>14. VfsTypeOK'
    <3>1. inode' \in [(DOMAIN inode \ {i}) \cup {root} -> Inode]
      BY <2>1, <2>4, <2>9, WithIn
    <3> QED BY <3>1, <2>1, <2>2, <2>3, <2>11, <2>13 DEF VfsTypeOK
  <2>15. TreeInv'
    <3>1. \A u \in DOMAIN tnode : tnode[u].inode = tnode[t].inode => u = t
      BY <1>1, <2>6 DEF Named
    <3> QED BY <3>1, <1>1, <1>2, <2>1, <2>3, <2>4, <2>10, TreeMounted
  <2>16. CountInv'
    <3>1. Named(root)' = {t} /\ Held(root)' = {}
      <4>1. \A u \in DOMAIN tnode \ {t} : tnode[u].inode # root
        BY <2>3, <2>6, InodeOf DEF Named
      <4>2. Named(root)' = {t}
        BY <4>1, <1>2, <2>13 DEF Named
      <4>3. \A x \in Descs(openfiles) : openfiles[x[1]][x[2]].inode # root
        BY <2>3, <2>6 DEF Held, CountInv
      <4> QED BY <4>2, <4>3, <2>1 DEF Held
    <3>2. \A j \in DOMAIN inode \ {i} : Named(j)' = Named(j) /\ Held(j)' = Held(j)
      <4> TAKE j \in DOMAIN inode \ {i}
      <4>1. Held(j)' = Held(j)
        BY <2>1 DEF Held
      <4>2. Named(j)' = Named(j)
        BY <1>1, <2>12, <2>13 DEF Named
      <4> QED BY <4>1, <4>2
    <3>3. Cardinality({t}) = 1 /\ Cardinality({}) = 0
      BY FS_Singleton, FS_EmptySet
    <3>4. \A x \in Descs(openfiles) : openfiles[x[1]][x[2]].inode \in DOMAIN inode'
      BY <2>6, <2>11 DEF Held, CountInv
    <3>5. inode'[root].refcount = Cardinality(Named(root)') + Cardinality(Held(root)')
      BY <3>1, <3>3, <2>4, <2>12
    <3>6. ASSUME NEW j \in DOMAIN inode \ {i}
          PROVE  inode'[j].refcount = Cardinality(Named(j)') + Cardinality(Held(j)')
      BY <3>2, <2>12 DEF CountInv
    <3> QED BY <3>4, <3>5, <3>6, <2>1, <2>11 DEF CountInv
  <2>17. FileInv'
    BY <2>4, <2>11, <2>12 DEF FileInv
  <2> QED BY <2>1, <2>14, <2>15, <2>16, <2>17
<1> QED BY <1>3, <1>4


-----------------------------------------------------------------------------
(* The invariants.                                                         *)

LEMMA VfsInitially == VfsInit => VfsInv /\ UnpackInv
<1> SUFFICES ASSUME VfsInit PROVE VfsInv /\ UnpackInv
  OBVIOUS
<1> DEFINE node == vfs_alloc_inode("mountpoint", vfs_root)
<1>1. /\ DOMAIN tnode = {vfs_root}
      /\ tnode[vfs_root] = [name |-> NULL, inode |-> 0, parent |-> NULL]
      /\ tnode \in [DOMAIN tnode -> Tnode]
  <2>1. [name |-> NULL, inode |-> 0, parent |-> NULL] \in Tnode
    BY Numbers DEF Tnode, Name, vfs_root
  <2> QED BY <2>1 DEF VfsInit
<1>2. node \in Inode /\ FileOK(node) /\ node.child = <<>> /\ node.refcount = 1
  BY Numbers, AllocatedIs
<1>3. inode = [i \in {0} |-> node] /\ DOMAIN inode = {0}
  BY DEF VfsInit
<1> HIDE DEF node
<1>4. inode \in [DOMAIN inode -> Inode] /\ inode[0] = node /\ vfs_root = 0 /\ 0 \in Number
  BY <1>2, <1>3, Numbers DEF vfs_root
<1>5. openfiles = [t \in Task |-> <<>>] /\ <<>> \in Slots
  BY DEF VfsInit, Task, Slots
<1>6. openfiles \in [Task -> Slots] /\ Descs(openfiles) = {}
  <2>1. openfiles \in [Task -> Slots]
    BY <1>5
  <2>2. \A u \in Task : Len(openfiles[u]) = 0
    BY <1>5
  <2>3. \A x \in Descs(openfiles) : FALSE
    <3> TAKE x \in Descs(openfiles)
    <3>1. x = <<x[1], x[2]>>
      BY DescIs
    <3>2. x[1] \in Task /\ x[2] \in Nat \ {0} /\ x[2] \in 1..Len(openfiles[x[1]])
      BY <2>1, <3>1, DescIs
    <3> QED BY <2>2, <3>2
  <2> QED BY <2>1, <2>3
<1>7. VfsTypeOK
  BY <1>1, <1>3, <1>4, <1>6 DEF VfsTypeOK, Task, Slots
<1>8. TreeInv
  <2>1. \A t : ~Lists(0, t)
    BY <1>2, <1>4 DEF Lists
  <2>2. NULL # 0
    BY <1>4, Numbers
  <2> QED BY <2>1, <2>2, <1>1, <1>2, <1>3, <1>4 DEF TreeInv
<1>9. CountInv
  <2>1. Named(0) = {vfs_root} /\ Held(0) = {}
    BY <1>1, <1>6 DEF Named, Held
  <2>2. Cardinality({vfs_root}) = 1 /\ Cardinality({}) = 0 /\ IsFiniteSet({})
    BY FS_Singleton, FS_EmptySet
  <2> QED BY <2>1, <2>2, <1>2, <1>3, <1>4, <1>6 DEF CountInv
<1>10. FileInv
  BY <1>2, <1>3, <1>4 DEF FileInv
<1>11. UnpackInv
  BY DEF VfsInit, UnpackInv
<1> QED BY <1>7, <1>8, <1>9, <1>10, <1>11 DEF VfsInv

LEMMA HelperInv ==
    ASSUME VfsInv, UnpackInv, initrd_helper
    PROVE  VfsInv' /\ UnpackInv'
<1>1. unpack.at \in Nat \ {0} /\ unpack.at <= Len(Tree) /\ Tree \in Seq(Range(Tree))
  <2>1. Tree \in Seq(Range(Tree)) /\ unpack.at \in Nat \ {0}
    BY VfsAssumption DEF UnpackInv
  <2> QED BY <2>1 DEF initrd_helper, Unpacked
<1>2. unpack.at \in 1..Len(Tree) /\ record \in Range(Tree)
  BY <1>1 DEF record
<1>3. record.path \in AllPaths /\ record.type \in {"folder", "file"} /\ record.size \in Nat
  BY <1>2, VfsAssumption DEF AllPaths, record
<1>4. Kinit \in Task /\ openfiles \in [Task -> Slots]
  BY DEF Task, VfsInv, VfsTypeOK, Slots
<1>5. unpack \in [at: Nat \ {0}, pc: {"create", "open", "write", "close", "done"}]
  BY DEF UnpackInv
<1>6. CASE CreateRecord
  <2>1. (vfs_create(record.path, record.type) \/ Fails) /\ (Then("open") \/ NextRec)
    BY <1>6 DEF CreateRecord
  <2>2. VfsInv'
    BY <1>3, <2>1, CreateInv, TrapInv DEF Fails
  <2> QED BY <1>5, <2>1, <2>2 DEF Then, NextRec, UnpackInv
<1>7. CASE OpenRecord
  <2>1. CASE vfs_open(Kinit, record.path, "write") /\ Then("write")
    <3>1. VfsInv' /\ Len(openfiles'[Kinit]) > 0
          /\ openfiles'[Kinit][Len(openfiles'[Kinit])].seek_pos = 0
      BY <1>3, <1>4, <2>1, OpenInv
    <3> QED BY <1>5, <2>1, <3>1 DEF Then, UnpackInv, kfh
  <2>2. CASE Fails /\ NextRec
    <3>1. VfsInv'
      BY <2>2, TrapInv DEF Fails
    <3> QED BY <1>5, <2>2, <3>1 DEF NextRec, UnpackInv
  <2> QED BY <1>7, <2>1, <2>2 DEF OpenRecord
<1>8. ASSUME unpack.pc \in {"write", "close"} PROVE kfh \in Handles(Kinit) /\ kfh > 0
  BY <1>4, <1>8 DEF UnpackInv, kfh, Handles, Slots
<1>9. CASE WriteRecord
  <2>1. vfs_write(Kinit, kfh, record.size) /\ Then("close") /\ unpack.pc = "write"
    BY <1>9 DEF WriteRecord
  <2>2. openfiles[Kinit][kfh].seek_pos = 0
    BY <2>1 DEF UnpackInv
  <2>3. VfsInv' /\ Len(openfiles'[Kinit]) = Len(openfiles[Kinit])
    BY <1>3, <1>4, <1>8, <2>1, <2>2, WriteInv
  <2> QED BY <1>5, <1>8, <2>1, <2>3 DEF Then, UnpackInv, kfh
<1>10. CASE CloseRecord
  <2>1. vfs_close(Kinit, kfh) /\ NextRec /\ unpack.pc = "close"
    BY <1>10 DEF CloseRecord
  <2>2. VfsInv'
    BY <1>4, <1>8, <2>1, CloseInv
  <2> QED BY <1>5, <2>1, <2>2 DEF NextRec, UnpackInv
<1> QED BY <1>6, <1>7, <1>9, <1>10 DEF initrd_helper

LEMMA CallInv ==
    ASSUME VfsInv, NEW task \in Client, VfsCall(task)
    PROVE  VfsInv' /\ \A u \in Task : Len(openfiles'[u]) >= Len(openfiles[u])
<1>1. task \in Task /\ \A path \in Paths : path \in AllPaths
  BY DEF Task, AllPaths
<1>2. \A u \in Task : Len(openfiles[u]) \in Nat
  BY DEF Task, VfsInv, VfsTypeOK
<1>3. CASE \E path \in Paths, type \in {"file", "folder"} : vfs_create(path, type)
  BY <1>1, <1>2, <1>3, CreateInv
<1>4. CASE \E open \in Opens : vfs_open(task, open[1], open[2])
  <2>1. PICK open \in Opens : vfs_open(task, open[1], open[2])
    BY <1>4
  <2>2. open[1] \in AllPaths /\ open[2] \in {o[2] : o \in Opens} \cup {"write"}
    BY <1>1, VfsAssumption
  <2> QED BY <1>1, <2>1, <2>2, OpenInv
<1>5. CASE \E link \in Links : vfs_link(link[1], link[2])
  <2>1. PICK link \in Links : vfs_link(link[1], link[2])
    BY <1>5
  <2>2. link[1] \in AllPaths /\ link[2] \in AllPaths
    BY <1>1, VfsAssumption
  <2> QED BY <1>2, <2>1, <2>2, LinkInv
<1>6. CASE \E path \in Paths : vfs_unlink(path)
  BY <1>1, <1>2, <1>6, UnlinkInv
<1>7. CASE \E path \in Mounts : vfs_mount(path)
  <2>1. Mounts \subseteq AllPaths
    BY <1>1, VfsAssumption
  <2> QED BY <1>2, <1>7, <2>1, MountInv
<1>8. ASSUME NEW h \in Handles(task),
             \/ vfs_close(task, h)
             \/ \E len \in 1..SizeMax : vfs_read(task, h, len) \/ vfs_write(task, h, len)
             \/ \E pos \in 0..SizeMax : vfs_seek(task, h, pos)
             \/ vfs_getdent(task, h)
      PROVE  VfsInv' /\ \A u \in Task : Len(openfiles'[u]) >= Len(openfiles[u])
  <2>1. /\ \A pos \in 0..SizeMax : pos \in Nat
        /\ \A len \in 1..SizeMax : len \in Nat /\ len > 0
    BY VfsAssumption
  <2>2. VfsInv' /\ \A u \in Task : Len(openfiles'[u]) = Len(openfiles[u])
    BY <1>1, <1>8, <2>1, CloseInv, ReadInv, WriteInv, SeekCallInv, GetdentInv
  <2> QED BY <1>2, <2>2
<1> QED BY <1>3, <1>4, <1>5, <1>6, <1>7, <1>8 DEF VfsCall

LEMMA VfsStep ==
    VfsInv /\ UnpackInv /\ [VfsNext]_vfsVars => VfsInv' /\ UnpackInv'
<1> SUFFICES ASSUME VfsInv, UnpackInv, [VfsNext]_vfsVars PROVE VfsInv' /\ UnpackInv'
  OBVIOUS
<1>1. CASE UNCHANGED vfsVars
  <2>1. UNCHANGED <<tnode, inode, openfiles, unpack>>
    BY <1>1 DEF vfsVars
  <2> QED BY <2>1, TrapInv DEF UnpackInv, kfh
<1>2. CASE initrd_helper
  BY <1>2, HelperInv
<1>3. CASE initrd_done
  <2>1. UNCHANGED <<tnode, inode, openfiles>> /\ Then("done")
    BY <1>3 DEF initrd_done, Fails
  <2> QED BY <2>1, TrapInv DEF UnpackInv, Then
<1>4. CASE ClientCalls
  <2>1. PICK task \in Client : VfsCall(task)
    BY <1>4 DEF ClientCalls
  <2>2. VfsInv'
    BY <2>1, CallInv
  <2>3. unpack' = unpack /\ unpack.pc = "done"
    BY <1>4 DEF ClientCalls
  <2> QED BY <2>2, <2>3 DEF UnpackInv
<1> QED BY <1>1, <1>2, <1>3, <1>4 DEF VfsNext

LEMMA VfsInvariant == VfsSpec => [](VfsInv /\ UnpackInv)
BY VfsInitially, VfsStep, PTL DEF VfsSpec


LEMMA OpenDescsAre == ASSUME VfsTypeOK PROVE OpenDescs = Descs(openfiles)
<1>1. openfiles \in [Task -> Slots] /\ \A u \in Task : Len(openfiles[u]) \in Nat
  BY DEF VfsTypeOK, Task, Slots
<1>2. ASSUME NEW x \in OpenDescs PROVE x \in Descs(openfiles)
  <2>1. PICK task \in DOMAIN openfiles :
            \E h \in 1..Len(openfiles[task]) : x = <<task, h>> /\ openfiles[task][h] # NULL
    BY DEF OpenDescs, Handles, Desc
  <2>2. PICK h \in 1..Len(openfiles[task]) : x = <<task, h>> /\ openfiles[task][h] # NULL
    BY <2>1
  <2> QED BY <2>2, <1>1, DescIs
<1>3. ASSUME NEW x \in Descs(openfiles) PROVE x \in OpenDescs
  <2>1. PICK task, h : task = x[1] /\ h = x[2]
    OBVIOUS
  <2>2. /\ x = <<task, h>> /\ task \in DOMAIN openfiles
        /\ h \in 1..Len(openfiles[task]) /\ openfiles[task][h] # NULL
    BY <2>1, <1>1, DescIs
  <2> QED BY <2>2 DEF OpenDescs, Handles, Desc
<1> QED BY <1>2, <1>3

\* The inodes, tnodes, handles and counts are of the shapes the code gives
\* them, whatever is called.
THEOREM VfsTypes == VfsSpec => []VfsTypeOK
<1>1. VfsInv => VfsTypeOK
  BY DEF VfsInv
<1> QED BY <1>1, VfsInvariant, PTL

\* An inode's refcount is the number of its names and open handles, so that
\* the unlink that frees it, and no other, leaves nobody who refers to it.
\* (vfs_close frees nothing, also if it leaves the count at 0.)
THEOREM RefcountsExact == VfsSpec => []RefcountExact
<1>1. VfsInv => RefcountExact
  BY OpenDescsAre DEF VfsInv, CountInv, RefcountExact, Named, Held, Desc
<1> QED BY <1>1, VfsInvariant, PTL

\* No pointer between tnodes, inodes and handles outlives what it points at,
\* and the tree is one: every tnode but the root is listed once, in the
\* folder it names as its parent.
THEOREM TreeIsConsistent == VfsSpec => []TreeConsistent
<1>1. ASSUME VfsInv PROVE TreeConsistent
  <2>1. VfsTypeOK /\ TreeInv /\ CountInv
    BY <1>1 DEF VfsInv
  <2>2. \A td \in OpenDescs : Desc(td[1], td[2]).inode \in DOMAIN inode
    BY <2>1, OpenDescsAre DEF CountInv, Desc
  <2>3. \A t \in DOMAIN tnode \ {vfs_root} : tnode[t].parent \in DOMAIN inode
    BY <2>1 DEF TreeInv
  <2>4. ASSUME NEW i \in DOMAIN inode
        PROVE  /\ Range(inode[i].child) = {t \in DOMAIN tnode : tnode[t].parent = i}
               /\ \A j, k \in 1..Len(inode[i].child) :
                     tnode[inode[i].child[j]].name = tnode[inode[i].child[k]].name => j = k
    <3>1. inode[i] \in Inode
      BY <2>1 DEF VfsTypeOK
    <3>2. inode[i].child \in Seq(Number)
      BY <3>1 DEF Inode
    <3>3. \A t : t \in Range(inode[i].child) <=> Lists(i, t)
      BY <3>2 DEF Range, Lists
    <3>4. \A t : Lists(i, t) <=> t \in DOMAIN tnode /\ tnode[t].parent = i
      BY <2>1 DEF TreeInv
    <3>5. Range(inode[i].child) = {t \in DOMAIN tnode : tnode[t].parent = i}
      BY <3>3, <3>4
    <3> QED BY <2>1, <3>5 DEF TreeInv
  <2> QED BY <2>1, <2>2, <2>3, <2>4, InodeOf DEF TreeConsistent
<1> QED BY <1>1, VfsInvariant, PTL

\* A file's bytes lie in the memory allocated for it, no byte was written
\* behind its end, and the last byte before it was.
THEOREM FilesAreWritten == VfsSpec => []FileContents
<1>1. VfsInv => FileContents
  BY DEF VfsInv, FileInv, FileOK, FileContents, HAS_SIZE
<1> QED BY <1>1, VfsInvariant, PTL

-----------------------------------------------------------------------------
(* The tree implements Namespace.                                          *)

\* Names has the entries of the tnodes, each with one tnode, in folders
\* that are not empty.
NamesInv ==
    /\ Names = [e \in DOMAIN Names |-> Names[e]]
    /\ DOMAIN Names = {Entered(t) : t \in DOMAIN tnode \ {vfs_root}}
    /\ \A t \in DOMAIN tnode \ {vfs_root} : Names[Entered(t)] = tnode[t].inode
    /\ \A t, u \in DOMAIN tnode \ {vfs_root} : Entered(t) = Entered(u) => t = u
    /\ \A e \in DOMAIN Names : e[1] \in DOMAIN inode /\ inode[e[1]].child # <<>>

LEMMA NamesHold == VfsInv => NamesInv
<1> SUFFICES ASSUME VfsTypeOK, TreeInv PROVE NamesInv
  BY DEF VfsInv
<1>1. Names = [e \in DOMAIN Names |-> Names[e]]
  BY DEF Names
<1>2. ASSUME NEW t \in DOMAIN tnode \ {vfs_root}, NEW u \in DOMAIN tnode \ {vfs_root},
             Entered(t) = Entered(u)
      PROVE  t = u
  <2>1. tnode[t].parent = tnode[u].parent /\ tnode[t].name = tnode[u].name
    BY <1>2 DEF Entered
  <2>2. /\ tnode[t].parent \in DOMAIN inode
        /\ Lists(tnode[t].parent, t) /\ Lists(tnode[u].parent, u)
    BY ParentLists
  <2> QED BY <2>1, <2>2, OneEntry
<1>3. ASSUME NEW e \in DOMAIN Names
      PROVE  e[1] \in DOMAIN inode /\ inode[e[1]].child # <<>>
  <2>1. PICK t \in DOMAIN tnode \ {vfs_root} : e = Entered(t)
    BY NamesAre
  <2>2. tnode[t].parent \in DOMAIN inode /\ Lists(tnode[t].parent, t)
    BY ParentLists
  <2>3. e[1] = tnode[t].parent
    BY <2>1 DEF Entered
  <2> QED BY <2>2, <2>3 DEF Lists
<1>4. /\ DOMAIN Names = {Entered(t) : t \in DOMAIN tnode \ {vfs_root}}
      /\ \A t \in DOMAIN tnode \ {vfs_root} : Names[Entered(t)] = tnode[t].inode
  BY NamesAre
<1> QED BY <1>1, <1>2, <1>3, <1>4 DEF NamesInv

\* A folder without entries is the folder of no name.
LEMMA NothingBelow ==
    ASSUME NamesInv, NEW i, i \notin DOMAIN inode \/ inode[i].child = <<>>
    PROVE  NS!IsEmpty(i)
BY DEF NamesInv, NS!IsEmpty

\* A name is entered where it was not, and the others stay.
LEMMA NamesGrow ==
    ASSUME NamesInv, NamesInv', NEW t, t \notin DOMAIN tnode, t # vfs_root,
           NEW new, tnode' = With(tnode, t, new),
           NEW e, e = <<new.parent, new.name>>
    PROVE  /\ e \notin DOMAIN Names
           /\ DOMAIN Names' = DOMAIN Names \cup {e}
           /\ Names'[e] = new.inode
           /\ \A x \in DOMAIN Names : Names'[x] = Names[x]
<1>1. DOMAIN tnode' = DOMAIN tnode \cup {t}
  BY WithDomain
<1>2. tnode'[t] = new /\ \A u \in DOMAIN tnode \ {t} : tnode'[u] = tnode[u]
  BY WithIs
<1>3. Entered(t)' = e /\ \A u \in DOMAIN tnode \ {vfs_root} : Entered(u)' = Entered(u)
  BY <1>2 DEF Entered
<1>4. \A x : x \in DOMAIN Names' <=> x \in DOMAIN Names \/ x = e
  <2> TAKE x
  <2>1. x \in DOMAIN Names' <=> \E u \in DOMAIN tnode' \ {vfs_root} : x = Entered(u)'
    BY DEF NamesInv
  <2>2. x \in DOMAIN Names <=> \E u \in DOMAIN tnode \ {vfs_root} : x = Entered(u)
    BY DEF NamesInv
  <2> QED BY <2>1, <2>2, <1>1, <1>3
<1>5. e \notin DOMAIN Names
  <2> SUFFICES ASSUME NEW u \in DOMAIN tnode \ {vfs_root}, Entered(u) = e PROVE FALSE
    BY DEF NamesInv
  <2>1. u \in DOMAIN tnode' \ {vfs_root} /\ t \in DOMAIN tnode' \ {vfs_root}
    BY <1>1
  <2>2. Entered(u)' = Entered(t)'
    BY <1>3
  <2>3. u = t
    BY <2>1, <2>2 DEF NamesInv
  <2> QED BY <2>3
<1>6. Names'[e] = new.inode /\ \A x \in DOMAIN Names : Names'[x] = Names[x]
  <2>1. \A u \in DOMAIN tnode' \ {vfs_root} : Names'[Entered(u)'] = tnode'[u].inode
    BY DEF NamesInv
  <2>2. Names'[e] = new.inode
    BY <2>1, <1>1, <1>2, <1>3
  <2>3. ASSUME NEW x \in DOMAIN Names PROVE Names'[x] = Names[x]
    <3>1. PICK u \in DOMAIN tnode \ {vfs_root} : x = Entered(u)
      BY DEF NamesInv
    <3>2. Names[x] = tnode[u].inode
      BY <3>1 DEF NamesInv
    <3> QED BY <2>1, <3>1, <3>2, <1>1, <1>2, <1>3
  <2> QED BY <2>2, <2>3
<1> QED BY <1>4, <1>5, <1>6

LEMMA NameEntered ==
    ASSUME NamesInv, NamesInv', NEW path \in AllPaths, path # <<>>,
           NEW t, t \notin DOMAIN tnode, t # vfs_root, NEW d \in Number, NEW i \in Number,
           NEW new, new.name = Last(path), new.inode = i, new.parent = d,
           tnode' = With(tnode, t, new)
    PROVE  NS!Next
<1> DEFINE e == <<d, Last(path)>>
<1>1. Last(path) \in UNION {Range(p) : p \in AllPaths}
  <2>1. path \in Seq(Range(path))
    BY PathsAre
  <2>2. path[Len(path)] \in Range(path)
    BY <2>1
  <2> QED BY <2>2 DEF Last
<1>2. e = <<new.parent, new.name>>
  OBVIOUS
<1> HIDE DEF e
<1>3. /\ e \notin DOMAIN Names
      /\ DOMAIN Names' = DOMAIN Names \cup {e}
      /\ Names'[e] = i
      /\ \A x \in DOMAIN Names : Names'[x] = Names[x]
  BY <1>2, NamesGrow
<1>4. Names' = [x \in DOMAIN Names' |-> Names'[x]]
  BY DEF NamesInv
<1>5. Names' = [x \in DOMAIN Names \cup {e} |-> IF x = e THEN i ELSE Names[x]]
  BY <1>3, <1>4
<1>6. NS!Enter(d, Last(path), i)
  BY <1>3, <1>5 DEF NS!Enter, e
<1> QED BY <1>1, <1>6 DEF NS!Next

LEMMA NameRemoved ==
    ASSUME NamesInv, NamesInv', NEW t \in DOMAIN tnode, t # vfs_root,
           tnode[t].inode \in DOMAIN inode, inode[tnode[t].inode].child = <<>>,
           tnode' = Forget(tnode, t)
    PROVE  NS!Next
<1> DEFINE e == Entered(t)
<1>1. DOMAIN tnode' = DOMAIN tnode \ {t}
  BY ForgetDomain
<1>2. \A u \in DOMAIN tnode \ {t} : tnode'[u] = tnode[u]
  BY ForgetIs
<1>3. \A u \in DOMAIN tnode \ {t} : Entered(u)' = Entered(u)
  BY <1>2 DEF Entered
<1>4. \A u \in DOMAIN tnode \ {t, vfs_root} : Entered(u) # e
  BY DEF NamesInv
<1> HIDE DEF e
<1>5. \A x : x \in DOMAIN Names' <=> x \in DOMAIN Names /\ x # e
  <2> TAKE x
  <2>1. x \in DOMAIN Names' <=> \E u \in DOMAIN tnode' \ {vfs_root} : x = Entered(u)'
    BY DEF NamesInv
  <2>2. x \in DOMAIN Names <=> \E u \in DOMAIN tnode \ {vfs_root} : x = Entered(u)
    BY DEF NamesInv
  <2>3. e = Entered(t)
    BY DEF e
  <2> QED BY <2>1, <2>2, <2>3, <1>1, <1>3, <1>4
<1>6. \A x \in DOMAIN Names \ {e} : Names'[x] = Names[x]
  <2> TAKE x \in DOMAIN Names \ {e}
  <2>1. PICK u \in DOMAIN tnode \ {vfs_root} : x = Entered(u)
    BY DEF NamesInv
  <2>2. u # t
    BY <2>1 DEF e
  <2>3. Names[x] = tnode[u].inode
    BY <2>1 DEF NamesInv
  <2>4. Names'[Entered(u)'] = tnode'[u].inode
    BY <2>2, <1>1 DEF NamesInv
  <2> QED BY <2>1, <2>2, <2>3, <2>4, <1>2, <1>3
<1>7. DOMAIN Names' = DOMAIN Names \ {e}
  BY <1>5
<1>8. Names' = [x \in DOMAIN Names' |-> Names'[x]]
  BY DEF NamesInv
<1>9. Names' = NS!Without(e)
  BY <1>6, <1>7, <1>8 DEF NS!Without
<1>10. e \in DOMAIN Names /\ Names[e] = tnode[t].inode
  BY DEF NamesInv, e
<1>11. NS!IsEmpty(Names[e])
  BY <1>10, NothingBelow
<1>12. NS!Remove(e)
  BY <1>9, <1>11 DEF NS!Remove
<1> QED BY <1>10, <1>12 DEF NS!Next

LEMMA NameMounted ==
    ASSUME NamesInv, NamesInv', NEW t \in DOMAIN tnode,
           tnode[t].inode \in DOMAIN inode, inode[tnode[t].inode].child = <<>>,
           NEW root \in Number, NS!IsEmpty(root),
           DOMAIN tnode' = DOMAIN tnode,
           \A u \in DOMAIN tnode : /\ Entered(u)' = Entered(u)
                                   /\ tnode'[u].inode = IF u = t THEN root ELSE tnode[u].inode
    PROVE  UNCHANGED Names \/ NS!Next
<1>1. \A x : x \in DOMAIN Names' <=> x \in DOMAIN Names
  <2> TAKE x
  <2>1. x \in DOMAIN Names' <=> \E u \in DOMAIN tnode' \ {vfs_root} : x = Entered(u)'
    BY DEF NamesInv
  <2>2. x \in DOMAIN Names <=> \E u \in DOMAIN tnode \ {vfs_root} : x = Entered(u)
    BY DEF NamesInv
  <2> QED BY <2>1, <2>2
<1>2. DOMAIN Names' = DOMAIN Names
  BY <1>1
<1>3. Names' = [x \in DOMAIN Names |-> Names'[x]] /\ Names = [x \in DOMAIN Names |-> Names[x]]
  BY <1>2 DEF NamesInv
<1>4. ASSUME NEW u \in DOMAIN tnode \ {vfs_root}
      PROVE  Names'[Entered(u)] = IF u = t THEN root ELSE Names[Entered(u)]
  <2>1. Names'[Entered(u)'] = tnode'[u].inode
    BY DEF NamesInv
  <2>2. Names[Entered(u)] = tnode[u].inode
    BY DEF NamesInv
  <2> QED BY <2>1, <2>2
<1>5. \A x \in DOMAIN Names : \E u \in DOMAIN tnode \ {vfs_root} : x = Entered(u)
  BY DEF NamesInv
<1>6. CASE t = vfs_root
  <2>1. \A x \in DOMAIN Names : Names'[x] = Names[x]
    BY <1>4, <1>5, <1>6
  <2> QED BY <2>1, <1>3
<1>7. CASE t # vfs_root
  <2> DEFINE e == Entered(t)
  <2>1. e \in DOMAIN Names /\ Names[e] = tnode[t].inode
    BY <1>7 DEF NamesInv
  <2>2. \A u \in DOMAIN tnode \ {t, vfs_root} : Entered(u) # e
    BY <1>7 DEF NamesInv
  <2>3. Names'[e] = root
    BY <1>4, <1>7
  <2> HIDE DEF e
  <2>4. \A x \in DOMAIN Names : Names'[x] = IF x = e THEN root ELSE Names[x]
    <3> TAKE x \in DOMAIN Names
    <3>1. PICK u \in DOMAIN tnode \ {vfs_root} : x = Entered(u)
      BY <1>5
    <3>2. CASE u = t
      BY <3>1, <3>2, <2>3 DEF e
    <3>3. CASE u # t
      BY <3>1, <3>3, <2>2, <1>4
    <3> QED BY <3>2, <3>3
  <2>5. Names' = [Names EXCEPT ![e] = root]
    BY <2>4, <1>3
  <2>6. NS!IsEmpty(Names[e])
    BY <2>1, NothingBelow
  <2>7. NS!Mount(e, root)
    BY <2>5, <2>6 DEF NS!Mount
  <2> QED BY <2>1, <2>7 DEF NS!Next
<1> QED BY <1>6, <1>7

\* What a call may do to the names.
Follows == UNCHANGED tnode \/ UNCHANGED Names \/ NS!Next

LEMMA CreateFollows ==
    ASSUME VfsInv, NamesInv, NamesInv', NEW path \in AllPaths, NEW type, vfs_create(path, type)
    PROVE  Follows
<1>1. VfsTypeOK /\ TreeInv
  BY DEF VfsInv
<1>2. PICK d, t, i : d = tnode[CreatesIn(path)].inode /\ t = NewTnode /\ i = NewInode
  OBVIOUS
<1>3. t \in Number \ DOMAIN tnode /\ i \in Number /\ t # vfs_root
  BY <1>1, <1>2, RoomLeft DEF vfs_create, TreeInv
<1> DEFINE new == NewEntry(path, i)
<1>4. /\ d \in DOMAIN inode
      /\ new.name = Last(path) /\ new.inode = i /\ new.parent = d
  BY <1>1, <1>2, <1>3, EntryIs DEF vfs_create
<1>5. path # <<>> /\ d \in Number
  BY <1>1, <1>4, PathIs, CreatesInIs DEF vfs_create, VfsTypeOK
<1>6. tnode' = With(tnode, t, new)
  BY <1>2 DEF vfs_create, Enter, NewEntry
<1> HIDE DEF new
<1> QED BY <1>3, <1>4, <1>5, <1>6, NameEntered DEF Follows

LEMMA LinkFollows ==
    ASSUME VfsInv, NamesInv, NamesInv', NEW old \in AllPaths, NEW path \in AllPaths,
           vfs_link(old, path)
    PROVE  Follows
<1>1. VfsTypeOK /\ TreeInv
  BY DEF VfsInv
<1>2. PICK d, t, i : /\ d = tnode[CreatesIn(path)].inode /\ t = NewTnode
                     /\ i = tnode[Found(old)].inode
  OBVIOUS
<1>3. t \in Number \ DOMAIN tnode /\ t # vfs_root
  BY <1>1, <1>2, RoomLeft DEF vfs_link, TreeInv
<1>4. i \in Number
  BY <1>1, <1>2, NodeFound DEF vfs_link, VfsTypeOK
<1> DEFINE new == NewEntry(path, i)
<1>5. /\ d \in DOMAIN inode
      /\ new.name = Last(path) /\ new.inode = i /\ new.parent = d
  BY <1>1, <1>2, <1>4, EntryIs DEF vfs_link
<1>6. path # <<>> /\ d \in Number
  BY <1>1, <1>5, PathIs, CreatesInIs DEF vfs_link, VfsTypeOK
<1>7. UNCHANGED tnode \/ tnode' = With(tnode, t, new)
  BY <1>2 DEF vfs_link, Enter, NewEntry, Trap
<1> HIDE DEF new
<1> QED BY <1>3, <1>4, <1>5, <1>6, <1>7, NameEntered DEF Follows

LEMMA UnlinkFollows ==
    ASSUME VfsInv, NamesInv, NamesInv', NEW path \in AllPaths, vfs_unlink(path)
    PROVE  Follows
<1>1. VfsTypeOK /\ TreeInv
  BY DEF VfsInv
<1>2. CASE path = <<>>
  BY <1>2 DEF vfs_unlink, Trap, Follows
<1>3. CASE path # <<>>
  <2>1. PICK t : t = Found(path)
    OBVIOUS
  <2>2. /\ t \in DOMAIN tnode /\ t # vfs_root /\ tnode[t].inode \in DOMAIN inode
        /\ inode[tnode[t].inode].child = <<>>
    BY <1>1, <1>3, <2>1, NodeFound DEF vfs_unlink
  <2>3. tnode' = Forget(tnode, t)
    BY <1>3, <2>1 DEF vfs_unlink
  <2> QED BY <2>2, <2>3, NameRemoved DEF Follows
<1> QED BY <1>2, <1>3

LEMMA MountFollows ==
    ASSUME VfsInv, NamesInv, NamesInv', NEW path \in AllPaths, vfs_mount(path)
    PROVE  Follows
<1>1. VfsTypeOK /\ TreeInv
  BY DEF VfsInv
<1>2. PICK t, i, root : /\ t = Found(path) /\ i = tnode[t].inode
                        /\ root = Unused(DOMAIN inode \ {i})
  OBVIOUS
<1>3. t \in DOMAIN tnode /\ i \in DOMAIN inode /\ inode[i].child = <<>>
  BY <1>1, <1>2, NodeFound DEF vfs_mount
<1>4. CASE UNCHANGED tnode
  BY <1>4 DEF Follows
<1>5. CASE tnode' = [tnode EXCEPT ![t].inode = root]
  <2>1. root \in Number \ (DOMAIN inode \ {i})
    <3> DEFINE S == DOMAIN inode \ {i}
    <3>1. S \subseteq Number /\ S # Number
      BY <1>1, <1>3 DEF VfsTypeOK
    <3> HIDE DEF S
    <3>2. Unused(S) \in Number \ S
      BY <3>1, UnusedIs
    <3> QED BY <3>2, <1>2 DEF S
  <2>2. NS!IsEmpty(root)
    BY <1>3, <2>1, NothingBelow
  <2>3. tnode \in [DOMAIN tnode -> Tnode]
    BY <1>1 DEF VfsTypeOK
  <2>4. /\ DOMAIN tnode' = DOMAIN tnode
        /\ \A u \in DOMAIN tnode : /\ tnode'[u].parent = tnode[u].parent
                                   /\ tnode'[u].name = tnode[u].name
                                   /\ tnode'[u].inode = IF u = t THEN root ELSE tnode[u].inode
    BY <1>3, <1>5, <2>3 DEF Tnode
  <2>5. \A u \in DOMAIN tnode : Entered(u)' = Entered(u)
    BY <2>4 DEF Entered
  <2> QED BY <1>2, <1>3, <2>1, <2>2, <2>4, <2>5, NameMounted, ZenonT(60) DEF Follows
<1>6. UNCHANGED tnode \/ tnode' = [tnode EXCEPT ![t].inode = root]
  BY <1>2 DEF vfs_mount, Trap
<1> QED BY <1>4, <1>5, <1>6

LEMMA NamesStep ==
    ASSUME VfsInv, NamesInv, NamesInv', UnpackInv, [VfsNext]_vfsVars
    PROVE  Follows
<1>1. CASE UNCHANGED tnode
  BY <1>1 DEF Follows
<1>2. CASE initrd_helper
  <2>1. Tree \in Seq(Range(Tree)) /\ unpack.at \in Nat \ {0} /\ unpack.at <= Len(Tree)
    BY <1>2, VfsAssumption DEF UnpackInv, initrd_helper, Unpacked
  <2>2. record.path \in AllPaths
    BY <2>1 DEF AllPaths, record
  <2>3. vfs_create(record.path, record.type) \/ UNCHANGED tnode
    BY <1>2 DEF initrd_helper, CreateRecord, OpenRecord, WriteRecord, CloseRecord, Fails,
                vfs_open, vfs_write, vfs_close, Trap
  <2> QED BY <1>1, <2>2, <2>3, CreateFollows
<1>3. CASE ClientCalls
  <2>1. PICK task \in Client : VfsCall(task)
    BY <1>3 DEF ClientCalls
  <2>2. Paths \subseteq AllPaths /\ Mounts \subseteq AllPaths
        /\ \A link \in Links : link[1] \in AllPaths /\ link[2] \in AllPaths
    BY VfsAssumption DEF AllPaths
  <2>3. CASE \E path \in Paths, type \in {"file", "folder"} : vfs_create(path, type)
    BY <2>2, <2>3, CreateFollows
  <2>4. CASE \E link \in Links : vfs_link(link[1], link[2])
    BY <2>2, <2>4, LinkFollows
  <2>5. CASE \E path \in Paths : vfs_unlink(path)
    BY <2>2, <2>5, UnlinkFollows
  <2>6. CASE \E path \in Mounts : vfs_mount(path)
    BY <2>2, <2>6, MountFollows
  <2>7. CASE UNCHANGED tnode
    BY <1>1, <2>7
  <2>8. \/ \E path \in Paths, type \in {"file", "folder"} : vfs_create(path, type)
        \/ \E link \in Links : vfs_link(link[1], link[2])
        \/ \E path \in Paths : vfs_unlink(path)
        \/ \E path \in Mounts : vfs_mount(path)
        \/ UNCHANGED tnode
    BY <2>1 DEF VfsCall, vfs_open, vfs_close, vfs_read, vfs_write, vfs_seek, vfs_getdent, Trap
  <2> QED BY <2>3, <2>4, <2>5, <2>6, <2>7, <2>8
<1>4. UNCHANGED tnode \/ initrd_helper \/ ClientCalls
  BY DEF VfsNext, vfsVars, initrd_done, Fails
<1> QED BY <1>1, <1>2, <1>3, <1>4

\* Every call enters one name, takes one with nothing below it out or mounts
\* over its empty folder, or leaves the names alone: the tree of tnodes and
\* inodes implements Namespace.
THEOREM NamesAreFollowed == VfsSpec => NamesFollow
<1>1. VfsInv => NamesInv
  BY NamesHold
<1>2. VfsInv /\ UnpackInv /\ NamesInv /\ NamesInv' /\ [VfsNext]_vfsVars
      => [UNCHANGED tnode \/ NS!Next]_Names
  BY NamesStep DEF Follows
<1> QED BY <1>1, <1>2, VfsInvariant, PTL DEF VfsSpec, NamesFollow
-----------------------------------------------------------------------------
(* path_to_node, where the last name is missing.                           *)

\* The last name of a path is looked up where the others lead.
LEMMA PathFront ==
    ASSUME NEW path, path \in Seq(Range(path)), path # <<>>
    PROVE  /\ Front(path) \in Seq(Range(Front(path)))
           /\ Len(path) \in Nat \ {0}
           /\ Len(Front(path)) = Len(path) - 1
           /\ \A k \in 1..Len(path)-1 : Front(path)[k] = path[k]
           /\ Last(path) = path[Len(path)]
<1>1. Len(path) \in Nat \ {0}
  OBVIOUS
<1>2. \A k \in 1..Len(path)-1 : path[k] \in Range(path)
  BY <1>1
<1>3. /\ Front(path) \in Seq(Range(path))
      /\ Len(Front(path)) = IF 1 <= Len(path)-1 THEN Len(path)-1-1+1 ELSE 0
      /\ \A k \in 1..Len(path)-1-1+1 : Front(path)[k] = path[1+k-1]
  BY <1>1, <1>2, SubSeqProperties DEF Front
<1> DEFINE f == Front(path)
           n == Len(path)
<1> HIDE DEF f, n
<1>4. f \in Seq(Range(path)) /\ Len(f) = n-1 /\ \A k \in 1..n-1 : f[k] = path[k]
  <2>1. /\ n \in Nat \ {0} /\ f \in Seq(Range(path))
        /\ Len(f) = IF 1 <= n-1 THEN n-1-1+1 ELSE 0
        /\ \A k \in 1..n-1-1+1 : f[k] = path[1+k-1]
    BY <1>1, <1>3 DEF f, n
  <2>2. \A k \in 1..n-1 : k \in 1..n-1-1+1 /\ 1+k-1 = k
    BY <2>1
  <2> QED BY <2>1, <2>2
<1>5. f \in Seq(Range(f))
  BY <1>4 DEF Range
<1> QED BY <1>1, <1>4, <1>5 DEF f, n, Last

LEMMA WalkOn ==
    ASSUME VfsTypeOK, TreeInv, NEW path, path \in Seq(Range(path)), path # <<>>
    PROVE  /\ Walked(Front(path)) \in Stop
           /\ Walked(path) = NextName(Walked(Front(path)), Last(path))
<1> DEFINE n == Len(path)
           f == Front(path)
<1>1. /\ f \in Seq(Range(f)) /\ n \in Nat \ {0} /\ Len(f) = n-1
      /\ \A k \in 1..n-1 : f[k] = path[k]
      /\ Last(path) = path[n]
  BY PathFront
<1> HIDE DEF f
<1>2. PICK w \in [0..n -> Stop] : /\ w[0] = Started
                                  /\ \A k \in 1..n : w[k] = NextName(w[k-1], path[k])
                                  /\ Walked(path) = w[n]
  BY WalkIs
<1>3. PICK v \in [0..Len(f) -> Stop] : /\ v[0] = Started
                                       /\ \A k \in 1..Len(f) : v[k] = NextName(v[k-1], f[k])
                                       /\ Walked(f) = v[Len(f)]
  BY <1>1, WalkIs
<1> HIDE DEF n
<1> DEFINE G == {k \in 0..n-1 : v[k] = w[k]}
<1>4. 0 \in G
  BY <1>1, <1>2, <1>3
<1>5. ASSUME NEW k \in 1..n-1, k-1 \in G PROVE k \in G
  BY <1>1, <1>2, <1>3, <1>5
<1>6. \A k \in 0..n-1 : k \in G
  <2> HIDE DEF G
  <2>1. n-1 \in Nat
    BY <1>1
  <2> QED BY <2>1, <1>4, <1>5, Induction!UpTo
<1>7. Walked(f) = w[n-1] /\ n \in 1..n /\ n-1 \in 0..n
  BY <1>1, <1>3, <1>6
<1> QED BY <1>1, <1>2, <1>7 DEF f

\* A path of which a folder is a file: the walk stays at the file.
LEMMA BlockedStops ==
    ASSUME VfsTypeOK, TreeInv, NEW path, path \in Seq(Range(path)), Blocked(path)
    PROVE  Resolved(path) = NULL /\ CreatesIn(path) = NULL
<1> DEFINE n == Len(path)
<1>1. PICK k \in 1..n-1 : /\ Resolved(SubSeq(path, 1, k)) # NULL
                          /\ ~IS_TRAVERSABLE(Resolved(SubSeq(path, 1, k)))
  BY DEF Blocked
<1>2. n \in Nat
  OBVIOUS
<1> DEFINE p == SubSeq(path, 1, k)
<1>3. p \in Seq(Range(p)) /\ Len(p) = k /\ \A j \in 1..k : p[j] = path[j]
  <2>1. \A j \in 1..k : path[j] \in Range(path)
    BY <1>2 DEF Range
  <2>2. /\ SubSeq(path, 1, k) \in Seq(Range(path))
        /\ Len(SubSeq(path, 1, k)) = IF 1 <= k THEN k-1+1 ELSE 0
        /\ \A j \in 1..k-1+1 : SubSeq(path, 1, k)[j] = path[1+j-1]
    BY <2>1, <1>2, SubSeqProperties
  <2> HIDE DEF p
  <2>3. p \in Seq(Range(path)) /\ Len(p) = k
    BY <1>2, <2>2 DEF p
  <2>4. \A j \in 1..k : p[j] = path[j]
    <3> TAKE j \in 1..k
    <3>1. j \in 1..k-1+1 /\ 1+j-1 = j
      BY <1>2
    <3> QED BY <2>2, <3>1 DEF p
  <2>5. p \in Seq(Range(p))
    BY <2>3 DEF Range
  <2> QED BY <2>3, <2>4, <2>5
<1>4. Found(p) # NULL /\ tnode[Found(p)].inode = Resolved(p)
  <2> HIDE DEF p
  <2>1. Resolved(p) # NULL
    BY <1>1 DEF p
  <2> QED BY <2>1, <1>3, WalkFollows
<1>5. PICK w \in [0..n -> Stop] : /\ w[0] = Started
                                  /\ \A j \in 1..n : w[j] = NextName(w[j-1], path[j])
                                  /\ Walked(path) = w[n]
  BY WalkIs
<1> HIDE DEF n, p
<1>6. PICK v \in [0..k -> Stop] : /\ v[0] = Started
                                  /\ \A j \in 1..k : v[j] = NextName(v[j-1], p[j])
                                  /\ Walked(p) = v[k]
  BY <1>3, WalkIs
<1> DEFINE G == {j \in 0..k : v[j] = w[j]}
<1>7. \A j \in 0..k : j \in G
  <2>1. 0 \in G
    BY <1>2, <1>5, <1>6
  <2>2. ASSUME NEW j \in 1..k, j-1 \in G PROVE j \in G
    BY <1>2, <1>3, <1>5, <1>6, <2>2
  <2>3. k \in Nat
    BY <1>2
  <2> HIDE DEF G
  <2> QED BY <2>1, <2>2, <2>3, Induction!UpTo
<1> DEFINE u == w[k]
<1>8. Walked(p) = u
  <2>1. k \in 0..k
    BY <1>2
  <2> QED BY <2>1, <1>6, <1>7
<1>9. ~IS_TRAVERSABLE(tnode[u.curr].inode)
  <2>1. Found(p) = u.curr
    BY <1>4, <1>8 DEF Found
  <2> QED BY <2>1, <1>1, <1>4 DEF p
<1> DEFINE H == {j \in 0..n : j > k => ~w[j].foundnode /\ w[j].curr = u.curr}
<1>10. \A j \in 0..n : j \in H
  <2>1. 0 \in H
    BY <1>2
  <2>2. ASSUME NEW j \in 1..n, j-1 \in H PROVE j \in H
    <3> SUFFICES ASSUME j > k PROVE ~w[j].foundnode /\ w[j].curr = u.curr
      BY <1>2
    <3>1. w[j-1].curr = u.curr
      <4>1. CASE j-1 = k
        BY <4>1
      <4>2. CASE j-1 # k
        <5>1. j-1 > k
          BY <1>2, <4>2
        <5> QED BY <5>1, <2>2
      <4> QED BY <4>1, <4>2
    <3>2. w[j-1] \in Stop /\ w[j] = NextName(w[j-1], path[j])
      <4>1. j-1 \in 0..n
        BY <1>2
      <4> QED BY <4>1, <1>5
    <3>3. ~IS_TRAVERSABLE(tnode[w[j-1].curr].inode)
      BY <3>1, <1>9
    <3> HIDE DEF u
    <3>4. ~w[j].foundnode /\ w[j].curr = w[j-1].curr
      BY <3>2, <3>3, NextNameIs
    <3> QED BY <3>1, <3>4
  <2> HIDE DEF H
  <2> QED BY <1>2, <2>1, <2>2, Induction!UpTo
<1>11. ~w[n].foundnode /\ w[n].curr = u.curr
  <2>1. n \in 0..n /\ n > k
    BY <1>2
  <2> QED BY <2>1, <1>10
<1>12. Found(path) = NULL /\ CreatesIn(path) = NULL
  <2> HIDE DEF u
  <2> QED BY <1>5, <1>9, <1>11 DEF Found, CreatesIn
<1> QED BY <1>12, WalkFollows

\* Where the names of paths lead, one name at a time.
Leads(path, r) ==
    /\ r[0] = tnode[vfs_root].inode
    /\ \A k \in 1..Len(path) : r[k] = IF <<r[k-1], path[k]>> \in DOMAIN Names
                                      THEN Names[<<r[k-1], path[k]>>] ELSE NULL
    /\ Resolved(path) = r[Len(path)]

ResolveInv ==
    /\ Resolved(<<>>) = tnode[vfs_root].inode
    /\ \A path : path \in Seq(Range(path)) =>
          /\ \E r \in [0..Len(path) -> Number \cup {NULL}] : Leads(path, r)
          /\ path # <<>> =>
                LET e == <<Resolved(Front(path)), Last(path)>>
                IN  Resolved(path) = IF e \in DOMAIN Names THEN Names[e] ELSE NULL
          /\ Blocked(path) => Resolved(path) = NULL

LEMMA ResolveHolds == VfsInv => ResolveInv
<1> SUFFICES ASSUME VfsTypeOK, TreeInv PROVE ResolveInv
  BY DEF VfsInv
<1>1. ASSUME NEW path, path \in Seq(Range(path))
      PROVE  \E r \in [0..Len(path) -> Number \cup {NULL}] : Leads(path, r)
  BY <1>1, ResolveIs DEF Leads
<1>2. Resolved(<<>>) = tnode[vfs_root].inode
  <2>1. <<>> \in Seq(Range(<<>>)) /\ Len(<<>>) = 0
    OBVIOUS
  <2>2. PICK r : Leads(<<>>, r)
    BY <2>1, <1>1
  <2> QED BY <2>1, <2>2 DEF Leads
<1>3. ASSUME NEW path, path \in Seq(Range(path)), path # <<>>, NEW e,
             e = <<Resolved(Front(path)), Last(path)>>
      PROVE  Resolved(path) = IF e \in DOMAIN Names THEN Names[e] ELSE NULL
  <2> DEFINE n == Len(path)
             f == Front(path)
  <2>1. /\ f \in Seq(Range(f)) /\ n \in Nat \ {0} /\ Len(f) = n-1
        /\ \A k \in 1..n-1 : f[k] = path[k]
        /\ Last(path) = path[n]
    BY <1>3, PathFront
  <2> HIDE DEF f
  <2>2. PICK r \in [0..n -> Number \cup {NULL}] : Leads(path, r)
    BY <1>1, <1>3
  <2>3. PICK q \in [0..Len(f) -> Number \cup {NULL}] : Leads(f, q)
    BY <1>1, <2>1
  <2>4. /\ r[0] = q[0] /\ Resolved(path) = r[n] /\ Resolved(f) = q[n-1]
        /\ \A k \in 1..n : r[k] = IF <<r[k-1], path[k]>> \in DOMAIN Names
                                  THEN Names[<<r[k-1], path[k]>>] ELSE NULL
        /\ \A k \in 1..n-1 : q[k] = IF <<q[k-1], path[k]>> \in DOMAIN Names
                                    THEN Names[<<q[k-1], path[k]>>] ELSE NULL
    BY <2>1, <2>2, <2>3 DEF Leads
  <2> HIDE DEF n
  <2> DEFINE G == {k \in 0..n-1 : q[k] = r[k]}
  <2>5. 0 \in G
    BY <2>1, <2>4
  <2>6. ASSUME NEW k \in 1..n-1, k-1 \in G PROVE k \in G
    <3>1. k \in 1..n /\ q[k-1] = r[k-1]
      BY <2>1, <2>6
    <3>2. q[k] = r[k]
      BY <3>1, <2>4
    <3>3. k \in 0..n-1
      BY <2>1
    <3> QED BY <3>2, <3>3
  <2>7. \A k \in 0..n-1 : k \in G
    <3> HIDE DEF G
    <3>1. n-1 \in Nat
      BY <2>1
    <3> QED BY <3>1, <2>5, <2>6, Induction!UpTo
  <2>8. Resolved(f) = r[n-1] /\ n \in 1..n
    BY <2>1, <2>4, <2>7
  <2>9. e = <<r[n-1], path[n]>>
    BY <1>3, <2>1, <2>8 DEF f
  <2> QED BY <2>4, <2>8, <2>9
<1>4. ASSUME NEW path, path \in Seq(Range(path)), Blocked(path) PROVE Resolved(path) = NULL
  BY <1>4, BlockedStops
<1> QED BY <1>1, <1>2, <1>3, <1>4 DEF ResolveInv

\* A call with CREATE makes the node where the path leads, as long as its
\* folder is there.
LEMMA CreatesThere ==
    ASSUME VfsTypeOK, TreeInv, NEW path, path \in Seq(Range(path)), path # <<>>,
           CreatesIn(path) # NULL, Resolved(Front(path)) # NULL
    PROVE  tnode[CreatesIn(path)].inode = Resolved(Front(path))
<1> DEFINE w == Walked(Front(path))
           x == Walked(path)
<1>1. Front(path) \in Seq(Range(Front(path)))
  BY PathFront
<1>2. Found(Front(path)) # NULL /\ tnode[Found(Front(path))].inode = Resolved(Front(path))
  BY <1>1, WalkFollows
<1>3. Found(Front(path)) = w.curr
  BY <1>2 DEF Found
<1>4. ~x.foundnode /\ CreatesIn(path) = x.curr
  BY DEF CreatesIn
<1>5. w \in Stop /\ x = NextName(w, Last(path))
  BY WalkOn
<1> HIDE DEF w, x
<1>6. x.curr = w.curr
  BY <1>4, <1>5, NextNameIs
<1> QED BY <1>2, <1>3, <1>4, <1>6

\* Where all names but the last lead somewhere, the last one is found if
\* and only if it leads somewhere as well.
LEMMA LastName ==
    ASSUME VfsTypeOK, TreeInv, ResolveInv, NEW path, path \in Seq(Range(path)), path # <<>>,
           Resolved(Front(path)) # NULL, Resolved(path) = NULL
    PROVE  Found(path) = NULL
<1> DEFINE w == Walked(Front(path))
           x == Walked(path)
           i == Resolved(Front(path))
           e == <<i, Last(path)>>
<1> SUFFICES ASSUME x.foundnode PROVE FALSE
  BY DEF Found
<1>1. Front(path) \in Seq(Range(Front(path)))
  BY PathFront
<1>2. Found(Front(path)) # NULL /\ tnode[Found(Front(path))].inode = i
  BY <1>1, WalkFollows
<1>3. Found(Front(path)) = w.curr
  BY <1>2 DEF Found
<1>4. w \in Stop /\ x = NextName(w, Last(path))
  BY WalkOn
<1> HIDE DEF w, x, i
<1>5. Lists(i, x.curr) /\ tnode[x.curr].name = Last(path)
  BY <1>2, <1>3, <1>4, NextNameIs
<1>6. i \in DOMAIN inode
  <2>1. w.curr \in DOMAIN tnode
    BY <1>4 DEF Stop
  <2> QED BY <2>1, <1>2, <1>3, InodeOf
<1>7. x.curr \in DOMAIN tnode /\ tnode[x.curr].parent = i /\ i # NULL
  BY <1>5, <1>6, Numbers DEF TreeInv, VfsTypeOK
<1>8. x.curr \in DOMAIN tnode \ {vfs_root} /\ Entered(x.curr) = e
  BY <1>5, <1>7 DEF TreeInv, Entered
<1>9. e \in DOMAIN Names /\ Names[e] = tnode[x.curr].inode
  BY <1>8, NamesAre
<1>10. Names[e] # NULL
  <2>1. tnode[x.curr].inode \in DOMAIN inode
    BY <1>7, InodeOf
  <2> QED BY <2>1, <1>9, Numbers DEF VfsTypeOK
<1> HIDE DEF e
<1>11. Resolved(path) = Names[e]
  BY <1>9 DEF ResolveInv, e, i
<1> QED BY <1>10, <1>11

\* path_to_node finds every node that the names of a path lead to; where
\* only the last name is missing it finds nothing, and makes the node in the
\* folder the other names lead to.
THEOREM PathsAreResolved == VfsSpec => []PathsResolve
<1>1. ASSUME VfsInv PROVE PathsResolve
  <2>1. VfsTypeOK /\ TreeInv /\ ResolveInv
    BY <1>1, ResolveHolds DEF VfsInv
  <2>2. ASSUME NEW path \in AllPaths
        PROVE  /\ Resolved(path) # NULL => /\ Found(path) # NULL
                                           /\ tnode[Found(path)].inode = Resolved(path)
               /\ path # <<>> /\ Resolved(path) = NULL /\ Resolved(Front(path)) # NULL =>
                     /\ Found(path) = NULL
                     /\ CreatesIn(path) # NULL =>
                           tnode[CreatesIn(path)].inode = Resolved(Front(path))
    <3>1. path \in Seq(Range(path))
      BY PathsAre
    <3>2. Resolved(path) # NULL =>
              Found(path) # NULL /\ tnode[Found(path)].inode = Resolved(path)
      BY <2>1, <3>1, WalkFollows
    <3>3. path # <<>> /\ Resolved(path) = NULL /\ Resolved(Front(path)) # NULL =>
              Found(path) = NULL
      BY <2>1, <3>1, LastName
    <3>4. path # <<>> /\ Resolved(Front(path)) # NULL /\ CreatesIn(path) # NULL =>
              tnode[CreatesIn(path)].inode = Resolved(Front(path))
      BY <2>1, <3>1, CreatesThere
    <3> QED BY <3>2, <3>3, <3>4
  <2> QED BY <2>2 DEF PathsResolve
<1> QED BY <1>1, VfsInvariant, PTL

-----------------------------------------------------------------------------
(* What kinit unpacks.                                                     *)

\* Names that lead somewhere lead there when more names are entered.
LEMMA ResolvedKept ==
    ASSUME NamesInv, VfsInv, ResolveInv, ResolveInv',
           tnode'[vfs_root].inode = tnode[vfs_root].inode,
           \A x \in DOMAIN Names : x \in DOMAIN Names' /\ Names'[x] = Names[x],
           NEW path, path \in Seq(Range(path)), Resolved(path) # NULL
    PROVE  Resolved(path)' = Resolved(path)
<1> DEFINE n == Len(path)
<1>1. n \in Nat
  OBVIOUS
<1>2. PICK r : Leads(path, r)
  BY DEF ResolveInv
<1>3. PICK q : Leads(path, q)'
  BY DEF ResolveInv
<1>4. /\ r[0] = q[0] /\ Resolved(path) = r[n] /\ Resolved(path)' = q[n]
      /\ \A k \in 1..n : r[k] = IF <<r[k-1], path[k]>> \in DOMAIN Names
                                THEN Names[<<r[k-1], path[k]>>] ELSE NULL
      /\ \A k \in 1..n : q[k] = IF <<q[k-1], path[k]>> \in DOMAIN Names'
                                THEN Names'[<<q[k-1], path[k]>>] ELSE NULL
  BY <1>2, <1>3 DEF Leads
<1> HIDE DEF n
<1> DEFINE G == {k \in 0..n : r[k] # NULL => q[k] = r[k]}
<1>5. 0 \in G
  BY <1>1, <1>4
<1>6. ASSUME NEW k \in 1..n, k-1 \in G PROVE k \in G
  <2> SUFFICES ASSUME r[k] # NULL PROVE q[k] = r[k]
    BY <1>1
  <2> DEFINE e == <<r[k-1], path[k]>>
  <2>1. e \in DOMAIN Names /\ r[k] = Names[e]
    BY <1>4
  <2>2. r[k-1] # NULL
    <3>1. e[1] \in DOMAIN inode
      BY <2>1 DEF NamesInv
    <3>2. e[1] \in Number
      BY <3>1 DEF VfsInv, VfsTypeOK
    <3> QED BY <3>2, Numbers
  <2>3. q[k-1] = r[k-1]
    BY <1>6, <2>2
  <2> QED BY <1>4, <2>1, <2>3
<1>7. \A k \in 0..n : k \in G
  <2> HIDE DEF G
  <2> QED BY <1>1, <1>5, <1>6, Induction!UpTo
<1> QED BY <1>1, <1>4, <1>7

LEMMA CreateMakes ==
    ASSUME VfsInv, VfsInv', NamesInv, NamesInv', ResolveInv, ResolveInv',
           NEW path \in AllPaths, NEW type \in {"file", "folder"}, vfs_create(path, type),
           Resolved(Front(path)) # NULL,
           NEW i, i = NewInode
    PROVE  /\ i \in DOMAIN inode' \ DOMAIN inode /\ Resolved(path)' = i
           /\ inode'[i].type = type /\ inode'[i].size = 0 /\ inode'[i].data = {}
           /\ \A j \in DOMAIN inode : SameNode(inode'[j], inode[j])
           /\ \A p : p \in Seq(Range(p)) /\ Resolved(p) # NULL => Resolved(p)' = Resolved(p)
           /\ tnode'[vfs_root].inode = tnode[vfs_root].inode
           /\ \A u \in DOMAIN tnode' : \/ u \in DOMAIN tnode /\ tnode'[u] = tnode[u]
                                       \/ tnode'[u].inode = i
<1>0. VfsTypeOK /\ TreeInv
  BY DEF VfsInv
<1>1. PICK d, t : d = tnode[CreatesIn(path)].inode /\ t = NewTnode
  OBVIOUS
<1> DEFINE node == vfs_alloc_inode(type, inode[d].mountpoint)
           new == NewEntry(path, i)
           nodes == WithChild(inode, d, t)
<1>2. t \in Number \ DOMAIN tnode /\ i \in Number \ DOMAIN inode
  BY <1>0, <1>1, RoomLeft DEF vfs_create
<1>3. /\ d \in DOMAIN inode
      /\ new.name = Last(path) /\ new.inode = i /\ new.parent = d
  BY <1>0, <1>1, <1>2, EntryIs DEF vfs_create
<1>4. path \in Seq(Range(path)) /\ path # <<>> /\ CreatesIn(path) # NULL
  BY <1>0, PathIs, CreatesInIs DEF vfs_create
<1>5. d = Resolved(Front(path))
  BY <1>0, <1>1, <1>4, CreatesThere
<1>6. tnode' = With(tnode, t, new) /\ inode' = With(nodes, i, node)
  BY <1>1 DEF vfs_create, Enter, NewEntry
<1>7. node.type = type /\ node.size = 0 /\ node.data = {}
  BY DEF vfs_alloc_inode
<1> HIDE DEF node, new
<1>8. /\ nodes \in [DOMAIN inode -> Inode]
      /\ \A j \in DOMAIN inode : SameNode(nodes[j], inode[j])
  BY <1>0, <1>2, <1>3, WithChildIs DEF SameNode
<1> HIDE DEF nodes
<1>9. DOMAIN inode' = DOMAIN inode \cup {i}
  <2>1. DOMAIN inode' = DOMAIN nodes \cup {i}
    BY <1>6, WithDomain
  <2> QED BY <2>1, <1>8
<1>10. inode'[i] = node /\ \A j \in DOMAIN inode : inode'[j] = nodes[j]
  <2>1. inode'[i] = node /\ \A j \in DOMAIN nodes \ {i} : inode'[j] = nodes[j]
    BY <1>6, WithIs
  <2> QED BY <2>1, <1>2, <1>8
<1>11. t # vfs_root /\ vfs_root \in DOMAIN tnode
  BY <1>0, <1>2 DEF TreeInv
<1> DEFINE e == <<new.parent, new.name>>
<1>12. /\ e \in DOMAIN Names' /\ Names'[e] = i
       /\ \A x \in DOMAIN Names : x \in DOMAIN Names' /\ Names'[x] = Names[x]
  BY <1>2, <1>3, <1>6, <1>11, NamesGrow
<1>13. tnode'[vfs_root].inode = tnode[vfs_root].inode
  BY <1>6, <1>11, WithIs
<1>14. \A p : p \in Seq(Range(p)) /\ Resolved(p) # NULL => Resolved(p)' = Resolved(p)
  BY <1>12, <1>13, ResolvedKept
<1>15. Resolved(path)' = i
  <2>1. Resolved(Front(path))' = d
    BY <1>4, <1>5, <1>14, PathFront
  <2>2. e = <<Resolved(Front(path))', Last(path)>>
    BY <2>1, <1>3
  <2> HIDE DEF e
  <2> QED BY <1>4, <1>12, <2>2 DEF ResolveInv
<1>16. \A u \in DOMAIN tnode' : \/ u \in DOMAIN tnode /\ tnode'[u] = tnode[u]
                                \/ tnode'[u].inode = i
  <2>1. DOMAIN tnode' = DOMAIN tnode \cup {t}
    BY <1>6, WithDomain
  <2>2. tnode'[t] = new /\ \A u \in DOMAIN tnode \ {t} : tnode'[u] = tnode[u]
    BY <1>6, WithIs
  <2> QED BY <1>2, <1>3, <2>1, <2>2
<1> QED BY <1>2, <1>7, <1>8, <1>9, <1>10, <1>13, <1>14, <1>15, <1>16

\* What is blocked by a folder's path is blocked in the folder.
LEMMA BlockedBelow ==
    ASSUME NEW path, path \in Seq(Range(path)), path # <<>>,
           \/ Blocked(Front(path))
           \/ Front(path) # <<>> /\ Resolved(Front(path)) # NULL
              /\ ~IS_TRAVERSABLE(Resolved(Front(path)))
    PROVE  Blocked(path)
<1> DEFINE n == Len(path)
           f == Front(path)
<1>1. n \in Nat \ {0} /\ Len(f) = n-1 /\ f \in Seq(Range(f))
  BY PathFront
<1>2. f = SubSeq(path, 1, n-1)
  BY DEF Front
<1>3. CASE Blocked(f)
  <2>1. PICK k \in 1..Len(f)-1 : /\ Resolved(SubSeq(f, 1, k)) # NULL
                                 /\ ~IS_TRAVERSABLE(Resolved(SubSeq(f, 1, k)))
    BY <1>3 DEF Blocked
  <2>2. k \in 1..n-1
    <3> HIDE DEF n, f
    <3> QED BY <1>1
  <2>3. SubSeq(f, 1, k) = SubSeq(path, 1, k)
    <3>1. k \in 1..n-2
      <4> HIDE DEF n, f
      <4> QED BY <1>1
    <3> QED BY <1>1, <1>2, <3>1
  <2> QED BY <2>1, <2>2, <2>3 DEF Blocked
<1>4. CASE f # <<>> /\ Resolved(f) # NULL /\ ~IS_TRAVERSABLE(Resolved(f))
  <2>1. Len(f) # 0
    BY <1>1, <1>4
  <2>2. n-1 \in 1..n-1
    <3> HIDE DEF n, f
    <3> QED BY <1>1, <2>1
  <2> QED BY <2>2, <1>2, <1>4 DEF Blocked
<1> QED BY <1>3, <1>4

\* How many records have been come to, and how many of them are done with.
Made == IF unpack.pc = "create" THEN unpack.at - 1 ELSE unpack.at
Filled == IF unpack.pc = "close" THEN unpack.at ELSE unpack.at - 1

Place(k) == Resolved(Tree[k].path)

Reached(k) == Place(k) # NULL \/ Blocked(Tree[k].path)

HasBytes(k) ==
    Place(k) # NULL /\ Tree[k].type = "file" /\ HAS_SIZE(inode[Place(k)])
        => 0..Tree[k].size-1 \subseteq inode[Place(k)].data

\* The tnode is one of the first m records'.
Recorded(t, m) == \E k \in 1..m : /\ tnode[t].inode = Place(k)
                                  /\ inode[tnode[t].inode].type = Tree[k].type

\* kinit has the file open that it is at, and no other.
KinitHolds ==
    IF unpack.pc \in {"write", "close"}
    THEN /\ Descs(openfiles) = {<<Kinit, kfh>>}
         /\ Place(unpack.at) # NULL => openfiles[Kinit][kfh].inode = Place(unpack.at)
    ELSE Descs(openfiles) = {}

\* What initrd_helper has done of the initrd.
Unpacking ==
    /\ unpack.at <= Len(Tree) + 1
    /\ unpack.pc # "create" => unpack.at <= Len(Tree) /\ record.type = "file"
    /\ IS_TRAVERSABLE(tnode[vfs_root].inode)
    /\ \A k \in 1..Made : Reached(k)
    /\ \A k \in 1..Filled : HasBytes(k)
    /\ \A t \in DOMAIN tnode \ {vfs_root} : Recorded(t, Made)
    /\ KinitHolds

RecordsInv == unpack.pc # "done" => Unpacking

LEMMA TreeIs ==
    ASSUME NEW k \in 1..Len(Tree)
    PROVE  /\ Tree[k].path \in AllPaths
           /\ Tree[k].path \in Seq(Range(Tree[k].path))
           /\ Tree[k].type \in {"folder", "file"} /\ Tree[k].size \in Nat
<1>1. Tree \in Seq(Range(Tree))
  BY VfsAssumption
<1>2. Tree[k] \in Range(Tree)
  BY <1>1
<1> QED BY <1>2, VfsAssumption DEF AllPaths

\* A record's node is in the tree.
LEMMA PlaceIs ==
    ASSUME VfsInv, NEW k \in 1..Len(Tree), Place(k) # NULL
    PROVE  /\ Place(k) \in DOMAIN inode
           /\ Found(Tree[k].path) # NULL
           /\ tnode[Found(Tree[k].path)].inode = Place(k)
<1>1. VfsTypeOK /\ TreeInv
  BY DEF VfsInv
<1>2. Found(Tree[k].path) # NULL /\ tnode[Found(Tree[k].path)].inode = Place(k)
  BY <1>1, TreeIs, WalkFollows DEF Place
<1>3. tnode[Found(Tree[k].path)].inode \in DOMAIN inode
  BY <1>1, <1>2, TreeIs, NodeFound
<1> QED BY <1>2, <1>3

\* No name is lost, no node changes its type or loses a byte.
Grows ==
    /\ tnode'[vfs_root].inode = tnode[vfs_root].inode
    /\ \A p : p \in Seq(Range(p)) /\ Resolved(p) # NULL => Resolved(p)' = Resolved(p)
    /\ \A i \in DOMAIN inode : /\ i \in DOMAIN inode'
                               /\ inode'[i].type = inode[i].type
                               /\ inode[i].data \subseteq inode'[i].data

\* Then nothing that has been reached is lost.
LEMMA RecordKept ==
    ASSUME VfsInv, ResolveInv', Grows, NEW k \in 1..Len(Tree), Reached(k)
    PROVE  /\ Reached(k)'
           /\ Place(k) # NULL => Place(k)' = Place(k)
           /\ Place(k) = NULL => Place(k)' = NULL
           /\ HasBytes(k) => HasBytes(k)'
<1> DEFINE path == Tree[k].path
<1>1. path \in Seq(Range(path))
  BY TreeIs
<1>2. CASE Place(k) # NULL
  <2>1. Place(k)' = Place(k)
    BY <1>1, <1>2 DEF Grows, Place
  <2>2. Place(k) \in DOMAIN inode
    BY <1>2, PlaceIs
  <2>3. /\ inode'[Place(k)].type = inode[Place(k)].type
        /\ inode[Place(k)].data \subseteq inode'[Place(k)].data
    BY <2>2 DEF Grows
  <2>4. HasBytes(k) => HasBytes(k)'
    BY <2>1, <2>3 DEF HasBytes, HAS_SIZE
  <2> QED BY <1>2, <2>1, <2>4 DEF Reached
<1>3. CASE Place(k) = NULL
  <2>1. PICK m \in 1..Len(path)-1 : /\ Resolved(SubSeq(path, 1, m)) # NULL
                                    /\ ~IS_TRAVERSABLE(Resolved(SubSeq(path, 1, m)))
    BY <1>3 DEF Reached, Blocked
  <2> DEFINE p == SubSeq(path, 1, m)
             i == Resolved(p)
  <2>2. p \in Seq(Range(p))
    <3>1. m \in Nat \ {0} /\ m <= Len(path) /\ Len(path) \in Nat
      BY <1>1
    <3>2. \A j \in 1..m : path[j] \in Range(path)
      BY <1>1, <3>1 DEF Range
    <3>3. SubSeq(path, 1, m) \in Seq(Range(path))
      BY <1>1, <3>1, <3>2, SubSeqProperties
    <3> HIDE DEF path, p
    <3>4. p \in Seq(Range(path))
      BY <3>3 DEF p
    <3> QED BY <3>4 DEF Range
  <2>3. i \in DOMAIN inode
    <3> HIDE DEF p
    <3>1. VfsTypeOK /\ TreeInv /\ i # NULL
      BY <2>1 DEF VfsInv, p
    <3>2. Found(p) # NULL /\ tnode[Found(p)].inode = i
      BY <2>2, <3>1, WalkFollows
    <3>3. Found(p) \in DOMAIN tnode
      BY <2>2, <3>1, <3>2, FoundIs
    <3> QED BY <3>1, <3>2, <3>3, InodeOf
  <2>4. Resolved(p)' = i
    <3> HIDE DEF path, p
    <3> QED BY <2>1, <2>2 DEF Grows, p
  <2>5. Resolved(p)' # NULL /\ ~IS_TRAVERSABLE(Resolved(p))'
    BY <2>1, <2>3, <2>4 DEF Grows, IS_TRAVERSABLE
  <2>6. Blocked(path)'
    BY <2>5 DEF Blocked
  <2>7. Resolved(path)' = NULL
    BY <1>1, <2>6 DEF ResolveInv
  <2> QED BY <1>3, <2>6, <2>7 DEF Reached, Place, HasBytes
<1> QED BY <1>2, <1>3

\* The records that have been come to.
LEMMA RecordsKept ==
    ASSUME VfsInv, ResolveInv', Grows, Unpacking, Made <= Len(Tree), Made \in Nat,
           Filled \in Nat, Filled <= Made
    PROVE  /\ \A k \in 1..Made : Reached(k)' /\ (Place(k) # NULL => Place(k)' = Place(k))
           /\ \A k \in 1..Filled : HasBytes(k)'
           /\ IS_TRAVERSABLE(tnode[vfs_root].inode)'
<1>0. Len(Tree) \in Nat
  BY VfsAssumption
<1>1. ASSUME NEW k \in 1..Made
      PROVE  /\ Reached(k)' /\ (Place(k) # NULL => Place(k)' = Place(k))
             /\ HasBytes(k) => HasBytes(k)'
  <2>1. k \in 1..Len(Tree) /\ Reached(k)
    BY <1>0 DEF Unpacking
  <2> QED BY <2>1, RecordKept
<1>2. \A k \in 1..Filled : k \in 1..Made /\ HasBytes(k)
  BY DEF Unpacking
<1>3. IS_TRAVERSABLE(tnode[vfs_root].inode)'
  <2>1. tnode[vfs_root].inode \in DOMAIN inode
    BY InodeOf DEF VfsInv, TreeInv
  <2> QED BY <2>1 DEF Unpacking, Grows, IS_TRAVERSABLE
<1> QED BY <1>1, <1>2, <1>3

\* A tnode that is one of some records' stays one of them.
LEMMA RecordedKept ==
    ASSUME VfsInv, Grows, NEW t \in DOMAIN tnode, tnode'[t] = tnode[t],
           NEW m \in Nat, NEW n \in Nat, m <= n, n <= Len(Tree), Recorded(t, m)
    PROVE  Recorded(t, n)'
<1>0. Len(Tree) \in Nat
  BY VfsAssumption
<1>1. PICK k \in 1..m : tnode[t].inode = Place(k) /\ inode[tnode[t].inode].type = Tree[k].type
  BY DEF Recorded
<1>2. tnode[t].inode \in DOMAIN inode
  BY InodeOf DEF VfsInv
<1>3. Place(k) # NULL
  BY <1>1, <1>2, Numbers DEF VfsInv, VfsTypeOK
<1>4. k \in 1..n /\ k \in 1..Len(Tree)
  BY <1>0
<1>5. Place(k)' = Place(k)
  BY <1>3, <1>4, TreeIs DEF Grows, Place
<1>6. inode'[tnode[t].inode].type = Tree[k].type
  BY <1>1, <1>2 DEF Grows
<1> QED BY <1>1, <1>4, <1>5, <1>6 DEF Recorded

\* Calls that leave the tree alone.
LEMMA TreeGrows ==
    ASSUME UNCHANGED tnode,
           \A i \in DOMAIN inode : /\ i \in DOMAIN inode'
                                   /\ inode'[i].type = inode[i].type
                                   /\ inode[i].data \subseteq inode'[i].data
    PROVE  Grows /\ \A p : Resolved(p)' = Resolved(p)
<1>1. Names' = Names
  BY DEF Names
<1>2. tnode'[vfs_root].inode = tnode[vfs_root].inode
  OBVIOUS
<1>3. \A p : Resolved(p)' = Resolved(p)
  BY <1>1, <1>2, Zenon DEF Resolved, NS!Resolve
<1> QED BY <1>2, <1>3 DEF Grows

LEMMA AtRecord ==
    ASSUME UnpackInv, ~Unpacked
    PROVE  /\ unpack.at \in 1..Len(Tree) /\ Len(Tree) \in Nat /\ record = Tree[unpack.at]
           /\ record.path \in AllPaths /\ record.path \in Seq(Range(record.path))
           /\ record.type \in {"folder", "file"} /\ record.size \in Nat
<1>1. Tree \in Seq(Range(Tree)) /\ unpack.at \in Nat \ {0}
  BY VfsAssumption DEF UnpackInv
<1>2. unpack.at \in 1..Len(Tree) /\ Len(Tree) \in Nat
  BY <1>1 DEF Unpacked
<1> QED BY <1>2, TreeIs DEF record

\* The folder a record lies in has been come to.
LEMMA ParentReached ==
    ASSUME NEW n \in 1..Len(Tree), Tree[n].path # <<>>, \A k \in 1..n-1 : Reached(k)
    PROVE  Resolved(Front(Tree[n].path)) # NULL \/ Blocked(Front(Tree[n].path))
<1>1. PICK j \in 1..n-1 : Tree[j].path = Front(Tree[n].path)
  BY ParentsFirst
<1> QED BY <1>1 DEF Reached, Place

\* After vfs_create, whatever it returned, the record has its node, or a
\* file is in its path.
LEMMA RecordReached ==
    ASSUME VfsInv, VfsInv', NamesInv, NamesInv', ResolveInv, ResolveInv',
           IS_TRAVERSABLE(tnode[vfs_root].inode),
           NEW n \in 1..Len(Tree), \A k \in 1..n-1 : Reached(k),
           \/ vfs_create(Tree[n].path, Tree[n].type)
           \/ CreatesIn(Tree[n].path) = NULL /\ Fails
    PROVE  /\ Grows
           /\ Reached(n)'
           /\ \A t \in DOMAIN tnode' :
                 \/ t \in DOMAIN tnode /\ tnode'[t] = tnode[t]
                 \/ tnode'[t].inode = Place(n)' /\ inode'[tnode'[t].inode].type = Tree[n].type
<1> DEFINE path == Tree[n].path
<1>1. path \in AllPaths /\ path \in Seq(Range(path)) /\ Tree[n].type \in {"folder", "file"}
  BY TreeIs
<1>2. VfsTypeOK /\ TreeInv
  BY DEF VfsInv
<1>3. CASE vfs_create(path, Tree[n].type)
  <2> DEFINE i == NewInode
  <2>1. path # <<>> /\ CreatesIn(path) # NULL
    BY <1>1, <1>2, <1>3, CreatesInIs DEF vfs_create
  <2>2. Resolved(Front(path)) # NULL
    <3>1. ~Blocked(path)
      BY <1>1, <1>2, <2>1, BlockedStops
    <3>2. ~Blocked(Front(path))
      BY <1>1, <2>1, <3>1, BlockedBelow
    <3> QED BY <2>1, <3>2, ParentReached
  <2> HIDE DEF i
  <2>3. /\ i \in DOMAIN inode' \ DOMAIN inode /\ Resolved(path)' = i
        /\ inode'[i].type = Tree[n].type
        /\ \A j \in DOMAIN inode : SameNode(inode'[j], inode[j])
        /\ \A p : p \in Seq(Range(p)) /\ Resolved(p) # NULL => Resolved(p)' = Resolved(p)
        /\ tnode'[vfs_root].inode = tnode[vfs_root].inode
        /\ \A u \in DOMAIN tnode' : \/ u \in DOMAIN tnode /\ tnode'[u] = tnode[u]
                                    \/ tnode'[u].inode = i
    BY <1>1, <1>3, <2>2, CreateMakes DEF i
  <2>4. \A j \in DOMAIN inode : j \in DOMAIN inode'
    <3> DEFINE d == tnode[CreatesIn(path)].inode
               nodes == WithChild(inode, d, NewTnode)
               node == vfs_alloc_inode(Tree[n].type, inode[d].mountpoint)
    <3>1. inode' = With(nodes, NewInode, node)
      BY <1>3 DEF vfs_create
    <3>2. DOMAIN nodes = DOMAIN inode
      BY DEF WithChild
    <3> HIDE DEF nodes, node
    <3>3. DOMAIN inode' = DOMAIN nodes \cup {NewInode}
      BY <3>1, WithDomain
    <3> QED BY <3>2, <3>3
  <2>5. Grows
    BY <2>3, <2>4 DEF Grows, SameNode
  <2>6. Place(n)' = i /\ i # NULL
    BY <2>3, Numbers DEF Place, VfsInv, VfsTypeOK
  <2> QED BY <2>3, <2>5, <2>6 DEF Reached
<1>4. CASE CreatesIn(path) = NULL /\ Fails
  <2>1. tnode' = tnode /\ inode' = inode
    BY <1>4 DEF Fails
  <2>2. Grows /\ \A p : Resolved(p)' = Resolved(p)
    BY <2>1, TreeGrows
  <2>3. Reached(n)
    <3>1. CASE path = <<>>
      <4>1. tnode[vfs_root].inode \in Number
        BY <1>2, InodeOf DEF VfsTypeOK, TreeInv
      <4>2. Resolved(path) = tnode[vfs_root].inode
        BY <3>1 DEF ResolveInv
      <4> QED BY <4>1, <4>2, Numbers DEF Reached, Place
    <3>2. CASE path # <<>> /\ Blocked(Front(path))
      BY <1>1, <3>2, BlockedBelow DEF Reached
    <3>3. CASE path # <<>> /\ Resolved(Front(path)) # NULL /\ Resolved(path) = NULL
      <4> DEFINE f == Front(path)
                 w == Walked(f)
                 x == Walked(path)
                 i == Resolved(f)
      <4>1. f \in Seq(Range(f))
        BY <1>1, <3>3, PathFront
      <4>2. Found(f) # NULL /\ tnode[Found(f)].inode = i
        BY <1>2, <3>3, <4>1, WalkFollows
      <4>3. Found(f) = w.curr
        BY <4>2 DEF Found
      <4>4. w \in Stop /\ x = NextName(w, Last(path))
        BY <1>1, <1>2, <3>3, WalkOn
      <4>5. Found(path) = NULL
        BY <1>1, <1>2, <3>3, LastName
      <4>6. x.curr \in DOMAIN tnode
        <5> HIDE DEF w, x
        <5>1. x \in Stop
          BY <1>2, <4>4, NextNameIs
        <5> QED BY <5>1 DEF Stop
      <4>7. ~x.foundnode
        <5>1. x.curr # NULL
          BY <4>6, <1>2, Numbers DEF VfsTypeOK
        <5> QED BY <4>5, <5>1 DEF Found
      <4>8. ~IS_TRAVERSABLE(tnode[x.curr].inode)
        <5>1. x.curr # NULL
          BY <4>6, <1>2, Numbers DEF VfsTypeOK
        <5> QED BY <4>7, <5>1, <1>4 DEF CreatesIn
      <4> HIDE DEF w, x, i
      <4>9. x.curr = w.curr
        BY <1>2, <4>4, <4>7, NextNameIs
      <4>10. ~IS_TRAVERSABLE(i)
        BY <4>2, <4>3, <4>8, <4>9
      <4>11. f # <<>>
        <5> SUFFICES ASSUME f = <<>> PROVE FALSE
          OBVIOUS
        <5>1. i = tnode[vfs_root].inode
          BY DEF ResolveInv, i
        <5> QED BY <5>1, <4>10
      <4> QED BY <1>1, <3>3, <4>10, <4>11, BlockedBelow DEF Reached, i
    <3>4. CASE Resolved(path) # NULL
      BY <3>4 DEF Reached, Place
    <3> QED BY <3>1, <3>2, <3>3, <3>4, ParentReached
  <2>4. Reached(n)'
    BY <2>1, <2>2, <2>3 DEF Reached, Place, Blocked, IS_TRAVERSABLE
  <2> QED BY <2>1, <2>2, <2>4
<1> QED BY <1>3, <1>4

LEMMA RecordMade ==
    ASSUME VfsInv, VfsInv', NamesInv, NamesInv', ResolveInv, ResolveInv',
           UnpackInv, Unpacking, ~Unpacked, CreateRecord
    PROVE  Unpacking'
<1>0. PICK n : n = unpack.at
  OBVIOUS
<1>1. /\ n \in 1..Len(Tree) /\ Len(Tree) \in Nat /\ record = Tree[n]
      /\ Tree[n].type \in {"folder", "file"}
  BY <1>0, AtRecord
<1>2. Made = n-1 /\ Filled = n-1 /\ n-1 \in Nat /\ n \in Nat
  BY <1>0, <1>1 DEF Made, Filled, CreateRecord
<1>3. /\ \A k \in 1..n-1 : Reached(k)
      /\ IS_TRAVERSABLE(tnode[vfs_root].inode)
      /\ Descs(openfiles) = {}
  BY <1>2 DEF Unpacking, KinitHolds, CreateRecord
<1>4. \/ vfs_create(Tree[n].path, Tree[n].type)
      \/ CreatesIn(Tree[n].path) = NULL /\ Fails
  BY <1>1 DEF CreateRecord
<1>5. /\ Grows
      /\ Reached(n)'
      /\ \A t \in DOMAIN tnode' :
            \/ t \in DOMAIN tnode /\ tnode'[t] = tnode[t]
            \/ tnode'[t].inode = Place(n)' /\ inode'[tnode'[t].inode].type = Tree[n].type
  BY <1>1, <1>3, <1>4, RecordReached
<1>6. /\ \/ /\ Tree[n].type = "folder" /\ unpack'.at = n+1 /\ unpack'.pc = "create"
         \/ /\ Tree[n].type = "file" /\ unpack'.at = n /\ unpack'.pc = "open"
  BY <1>0, <1>1 DEF UnpackInv, NextRec, Then, CreateRecord
<1>7. Made' = n /\ Filled' = IF Tree[n].type = "folder" THEN n ELSE n-1
  BY <1>1, <1>6 DEF Made, Filled
<1>8. /\ \A k \in 1..n-1 : Reached(k)'
      /\ \A k \in 1..n-1 : HasBytes(k)'
      /\ IS_TRAVERSABLE(tnode[vfs_root].inode)'
  <2>1. Made \in Nat /\ Made <= Len(Tree) /\ Filled \in Nat /\ Filled <= Made
    BY <1>1, <1>2
  <2> QED BY <1>2, <1>5, <2>1, RecordsKept
<1>9. \A k \in 1..Made' : Reached(k)'
  <2>1. \A k \in 1..n : k \in 1..n-1 \/ k = n
    BY <1>1
  <2> QED BY <2>1, <1>5, <1>7, <1>8
<1>10. \A k \in 1..Filled' : HasBytes(k)'
  <2>1. \A k \in 1..Filled' : k \in 1..n-1 \/ (k = n /\ Tree[n].type = "folder")
    BY <1>1, <1>7
  <2>2. Tree[n].type = "folder" => HasBytes(n)'
    BY DEF HasBytes
  <2> QED BY <2>1, <2>2, <1>8
<1>11. \A t \in DOMAIN tnode' \ {vfs_root} : Recorded(t, Made)'
  <2> SUFFICES ASSUME NEW t \in DOMAIN tnode' \ {vfs_root} PROVE Recorded(t, n)'
    BY <1>7 DEF Recorded
  <2>1. CASE t \in DOMAIN tnode /\ tnode'[t] = tnode[t]
    <3>1. Recorded(t, n-1)
      BY <1>2, <2>1 DEF Unpacking
    <3>2. n-1 <= n /\ n <= Len(Tree)
      BY <1>1
    <3> QED BY <1>2, <1>5, <2>1, <3>1, <3>2, RecordedKept
  <2>2. CASE tnode'[t].inode = Place(n)' /\ inode'[tnode'[t].inode].type = Tree[n].type
    <3>1. n \in 1..n
      BY <1>1
    <3> QED BY <2>2, <3>1 DEF Recorded
  <2> QED BY <1>5, <2>1, <2>2
<1>12. KinitHolds'
  <2>1. openfiles' = openfiles
    BY <1>4 DEF vfs_create, Fails
  <2>2. Descs(openfiles') = {}
    BY <1>3, <2>1
  <2>3. unpack'.pc \notin {"write", "close"}
    BY <1>6
  <2> QED BY <2>2, <2>3 DEF KinitHolds
<1>13. /\ unpack'.at <= Len(Tree) + 1
       /\ unpack'.pc # "create" => unpack'.at <= Len(Tree) /\ record'.type = "file"
  BY <1>1, <1>6 DEF record
<1> QED BY <1>8, <1>9, <1>10, <1>11, <1>12, <1>13 DEF Unpacking

\* A record whose node has been made, whatever is done to its file next.
LEMMA RecordStays ==
    ASSUME VfsInv, ResolveInv', UnpackInv, Unpacking, ~Unpacked, UNCHANGED tnode,
           unpack.pc \in {"open", "write", "close"},
           \A i \in DOMAIN inode : /\ i \in DOMAIN inode'
                                   /\ inode'[i].type = inode[i].type
                                   /\ inode[i].data \subseteq inode'[i].data,
           NEW n, n = unpack.at, Made' = n,
           \/ Filled' <= Filled
           \/ Filled' = n /\ HasBytes(n)',
           \/ unpack'.at = n /\ unpack'.pc # "create"
           \/ unpack'.at = n+1 /\ unpack'.pc = "create",
           KinitHolds'
    PROVE  Unpacking'
<1>1. /\ n \in 1..Len(Tree) /\ Len(Tree) \in Nat /\ record = Tree[n]
  BY AtRecord
<1>2. Made = n /\ Filled \in {n-1, n} /\ n \in Nat
  BY <1>1 DEF Made, Filled
<1>3. Grows
  BY TreeGrows
<1>4. /\ \A k \in 1..n : Reached(k)'
      /\ \A k \in 1..Filled : HasBytes(k)'
      /\ IS_TRAVERSABLE(tnode[vfs_root].inode)'
  <2>1. Made \in Nat /\ Made <= Len(Tree) /\ Filled \in Nat /\ Filled <= Made
    BY <1>1, <1>2
  <2> QED BY <1>2, <1>3, <2>1, RecordsKept
<1>5. \A k \in 1..Filled' : HasBytes(k)'
  <2>1. CASE Filled' <= Filled
    <3>1. Filled' \in Int
      BY <1>1 DEF Filled
    <3> QED BY <1>2, <1>4, <2>1, <3>1
  <2>2. CASE Filled' = n /\ HasBytes(n)'
    <3>1. \A k \in 1..n : k \in 1..Filled \/ k = n
      BY <1>1, <1>2
    <3> QED BY <1>4, <2>2, <3>1
  <2> QED BY <2>1, <2>2
<1>6. \A t \in DOMAIN tnode' \ {vfs_root} : Recorded(t, Made)'
  <2> SUFFICES ASSUME NEW t \in DOMAIN tnode \ {vfs_root} PROVE Recorded(t, n)'
    BY DEF Recorded
  <2>1. Recorded(t, n) /\ n <= n /\ n <= Len(Tree)
    BY <1>1, <1>2 DEF Unpacking
  <2> QED BY <1>2, <1>3, <2>1, RecordedKept
<1>7. /\ unpack'.at <= Len(Tree) + 1
      /\ unpack'.pc # "create" => unpack'.at <= Len(Tree) /\ record'.type = "file"
  BY <1>1 DEF record, Unpacking
<1> QED BY <1>4, <1>5, <1>6, <1>7 DEF Unpacking

LEMMA RecordOpened ==
    ASSUME VfsInv, ResolveInv', UnpackInv, Unpacking, ~Unpacked, OpenRecord
    PROVE  Unpacking'
<1>0. PICK n : n = unpack.at
  OBVIOUS
<1>1. n \in 1..Len(Tree) /\ Len(Tree) \in Nat /\ record = Tree[n] /\ Tree[n].path \in AllPaths
      /\ Tree[n].path \in Seq(Range(Tree[n].path)) /\ unpack.pc = "open"
  BY <1>0, AtRecord DEF OpenRecord
<1>2. Made = n /\ Filled = n-1 /\ Descs(openfiles) = {}
  BY <1>0, <1>1 DEF Made, Filled, Unpacking, KinitHolds
<1>3. VfsTypeOK /\ TreeInv
  BY DEF VfsInv
<1>4. CASE vfs_open(Kinit, Tree[n].path, "write") /\ Then("write")
  <2>1. PICK i : i = tnode[Found(Tree[n].path)].inode
    OBVIOUS
  <2>2. i \in DOMAIN inode /\ (Place(n) # NULL => i = Place(n))
    <3>1. Found(Tree[n].path) # NULL
      BY <1>4 DEF vfs_open
    <3> QED BY <1>1, <1>3, <2>1, <3>1, NodeFound, PlaceIs
  <2>3. PICK td, desc : /\ td = <<Kinit, Len(openfiles[Kinit]) + 1>>
                        /\ desc = [inode |-> i, mode |-> "write", seek_pos |-> 0]
    OBVIOUS
  <2>4. /\ inode \in [DOMAIN inode -> Inode] /\ openfiles \in [Task -> Slots] /\ Kinit \in Task
        /\ desc \in Handle /\ desc.inode = i
    <3>1. DOMAIN inode \subseteq Number
      BY <1>3 DEF VfsTypeOK
    <3> QED BY <3>1, <1>3, <2>2, <2>3 DEF VfsTypeOK, Task, Slots, Handle
  <2>5. tnode' = tnode /\ inode' = OneMore(inode, i) /\ openfiles' = Opened(openfiles, Kinit, desc)
    BY <1>4, <2>1, <2>3 DEF vfs_open, OneMore, Opened
  <2>6. \A j \in DOMAIN inode : j \in DOMAIN inode' /\ SameNode(inode'[j], inode[j])
    BY <2>2, <2>4, <2>5, Counted DEF OneMore
  <2>7. Descs(openfiles') = {td} /\ openfiles'[td[1]][td[2]] = desc
    BY <1>2, <2>3, <2>4, <2>5, HandleOpened
  <2>8. td = <<Kinit, kfh'>> /\ td[1] = Kinit /\ td[2] = kfh'
    <3>1. openfiles[Kinit] \in Slots /\ openfiles'[Kinit] = Append(openfiles[Kinit], desc)
      BY <2>4, <2>5 DEF Opened
    <3>2. Len(openfiles'[Kinit]) = Len(openfiles[Kinit]) + 1
      BY <3>1 DEF Slots
    <3> QED BY <2>3, <3>2 DEF kfh
  <2>9. unpack'.at = n /\ unpack'.pc = "write"
    BY <1>0, <1>4 DEF UnpackInv, Then
  <2>10. Made' = n /\ Filled' = n-1
    BY <2>9 DEF Made, Filled
  <2>11. Place(n)' = Place(n)
    <3>1. \A j \in DOMAIN inode : /\ j \in DOMAIN inode'
                                  /\ inode'[j].type = inode[j].type
                                  /\ inode[j].data \subseteq inode'[j].data
      BY <2>6 DEF SameNode
    <3> QED BY <2>5, <3>1, TreeGrows DEF Place
  <2>12. KinitHolds'
    <3>1. Place(unpack.at)' = Place(n)
      BY <2>9, <2>11 DEF Place
    <3>2. Descs(openfiles') = {<<Kinit, kfh'>>} /\ openfiles'[Kinit][kfh'] = desc
      BY <2>7, <2>8
    <3> QED BY <2>2, <2>4, <2>9, <3>1, <3>2 DEF KinitHolds, kfh
  <2>13. Filled' <= Filled
    BY <1>1, <1>2, <2>10
  <2>14. \A j \in DOMAIN inode : /\ j \in DOMAIN inode'
                                 /\ inode'[j].type = inode[j].type
                                 /\ inode[j].data \subseteq inode'[j].data
    BY <2>6 DEF SameNode
  <2>15. unpack'.pc # "create"
    BY <2>9
  <2> QED BY <1>0, <1>1, <2>5, <2>9, <2>10, <2>12, <2>13, <2>14, <2>15, RecordStays
<1>5. CASE Found(Tree[n].path) = NULL /\ Fails /\ NextRec
  <2>1. tnode' = tnode /\ inode' = inode /\ openfiles' = openfiles
    BY <1>5 DEF Fails
  <2>2. unpack'.at = n+1 /\ unpack'.pc = "create"
    BY <1>0, <1>5 DEF NextRec
  <2>3. Made' = n /\ Filled' = n
    BY <1>1, <2>2 DEF Made, Filled
  <2>4. Place(n) = NULL
    BY <1>1, <1>3, <1>5, WalkFollows DEF Place
  <2>5. Place(n)' = NULL
    BY <2>1, <2>4, TreeGrows DEF Place
  <2>6. HasBytes(n)'
    BY <2>5 DEF HasBytes
  <2>7. KinitHolds'
    BY <1>2, <2>1, <2>2 DEF KinitHolds
  <2> QED BY <1>0, <1>1, <2>1, <2>2, <2>3, <2>6, <2>7, RecordStays
<1> QED BY <1>1, <1>4, <1>5 DEF OpenRecord

LEMMA RecordWritten ==
    ASSUME VfsInv, ResolveInv', UnpackInv, Unpacking, ~Unpacked, WriteRecord
    PROVE  Unpacking'
<1>0. PICK n, h, i, len : /\ n = unpack.at /\ h = kfh /\ len = record.size
                          /\ i = openfiles[Kinit][h].inode
  OBVIOUS
<1>1. /\ n \in 1..Len(Tree) /\ Len(Tree) \in Nat /\ record = Tree[n] /\ len = Tree[n].size
      /\ len \in Nat /\ unpack.pc = "write"
      /\ vfs_write(Kinit, h, len) /\ Then("close")
  BY <1>0, AtRecord DEF WriteRecord
<1>2. Made = n /\ Filled = n-1
  BY <1>0, <1>1 DEF Made, Filled
<1>3. /\ Descs(openfiles) = {<<Kinit, h>>}
      /\ Place(n) # NULL => i = Place(n)
      /\ openfiles[Kinit][h].seek_pos = 0
  BY <1>0, <1>1 DEF Unpacking, KinitHolds, UnpackInv
<1>4. /\ openfiles \in [Task -> Slots] /\ Kinit \in Task
      /\ h \in 1..Len(openfiles[Kinit]) /\ openfiles[Kinit][h] # NULL
  <2>1. <<Kinit, h>> \in Descs(openfiles)
    BY <1>3
  <2> QED BY <2>1, DescIs DEF VfsInv, VfsTypeOK, Task, Slots
<1>5. i \in DOMAIN inode /\ inode[i] \in Inode
  <2>1. h \in Handles(Kinit)
    BY <1>4 DEF Handles
  <2> QED BY <1>0, <1>4, <2>1, DescIn
<1>6. unpack'.at = n /\ unpack'.pc = "close"
  BY <1>0, <1>1 DEF UnpackInv, Then
<1>7. Made' = n /\ Filled' = n
  BY <1>6 DEF Made, Filled
<1>8. CASE UNCHANGED <<tnode, inode, openfiles>> /\ ~HAS_SIZE(inode[i])
  <2>1. \A p : Resolved(p)' = Resolved(p)
    BY <1>8, TreeGrows
  <2>2. HasBytes(n)'
    BY <1>3, <1>8, <2>1 DEF HasBytes, Place, HAS_SIZE
  <2>3. KinitHolds'
    <3>1. Place(unpack.at)' = Place(n) /\ kfh' = h /\ openfiles' = openfiles
      BY <1>0, <1>6, <1>8, <2>1 DEF Place, kfh
    <3>2. Descs(openfiles') = {<<Kinit, h>>}
      BY <1>3, <3>1
    <3> QED BY <1>0, <1>3, <1>6, <3>1, <3>2 DEF KinitHolds
  <2>4. unpack'.pc # "create"
    BY <1>6
  <2>5. \A j \in DOMAIN inode : /\ j \in DOMAIN inode'
                                /\ inode'[j].type = inode[j].type
                                /\ inode[j].data \subseteq inode'[j].data
    BY <1>8
  <2> QED BY <1>0, <1>1, <1>6, <1>7, <1>8, <2>2, <2>3, <2>4, <2>5, RecordStays
<1>9. CASE /\ inode' = [inode EXCEPT ![i] = Written(inode[i], 0, len)]
           /\ openfiles' = Moved(openfiles, Kinit, h, 0+len)
           /\ tnode' = tnode
  <2> DEFINE new == Written(inode[i], 0, len)
  <2>1. new.data = inode[i].data \cup 0..0+len-1 /\ new.type = inode[i].type
    <3> HIDE DEF new
    <3>1. PICK pos \in Nat : pos = 0
      OBVIOUS
    <3>2. FileOK(inode[i]) /\ (len > 0 \/ pos <= inode[i].size)
      BY <1>5, <3>1 DEF VfsInv, FileInv, Inode
    <3>3. pos \in Nat /\ len \in Nat /\ inode[i] \in Inode
      BY <1>1, <1>5
    <3>4. /\ Written(inode[i], pos, len).data = inode[i].data \cup pos..pos+len-1
          /\ Written(inode[i], pos, len).type = inode[i].type
      BY ONLY <3>2, <3>3, WrittenIs
    <3> QED BY <3>1, <3>4 DEF new
  <2> HIDE DEF new
  <2>2. inode' = [inode EXCEPT ![i] = new]
    BY <1>9 DEF new
  <2>3. DOMAIN inode' = DOMAIN inode /\ inode'[i] = new
        /\ \A j \in DOMAIN inode \ {i} : inode'[j] = inode[j]
    BY <1>5, <2>2
  <2>4. \A j \in DOMAIN inode : /\ j \in DOMAIN inode'
                                /\ inode'[j].type = inode[j].type
                                /\ inode[j].data \subseteq inode'[j].data
    BY <2>1, <2>3
  <2>5. \A p : Resolved(p)' = Resolved(p)
    BY <1>9, <2>4, TreeGrows
  <2>6. HasBytes(n)'
    <3>1. 0..len-1 \subseteq new.data
      BY <1>1, <2>1
    <3> QED BY <1>1, <1>3, <2>3, <2>5, <3>1 DEF HasBytes, Place
  <2>7. /\ Descs(openfiles') = {<<Kinit, h>>}
        /\ openfiles'[Kinit][h].inode = i
        /\ Len(openfiles'[Kinit]) = Len(openfiles[Kinit])
    <3>1. 0+len \in Nat
      BY <1>1
    <3>2. openfiles' = Moved(openfiles, Kinit, h, 0+len)
      BY <1>9
    <3>3. /\ Descs(openfiles') = Descs(openfiles)
          /\ \A x \in Descs(openfiles) : openfiles'[x[1]][x[2]].inode = openfiles[x[1]][x[2]].inode
          /\ \A u \in Task : Len(openfiles'[u]) = Len(openfiles[u])
      BY ONLY <1>4, <3>1, <3>2, HandleMoved
    <3> DEFINE td == <<Kinit, h>>
    <3>4. td \in Descs(openfiles) /\ td[1] = Kinit /\ td[2] = h
      BY <1>3
    <3> HIDE DEF td
    <3>5. openfiles'[Kinit][h].inode = openfiles[Kinit][h].inode
      BY <3>3, <3>4
    <3> QED BY <3>3, <3>5, <1>0, <1>3, <1>4
  <2>8. KinitHolds'
    <3>1. Place(unpack.at)' = Place(n) /\ kfh' = h
      BY <1>0, <1>6, <2>5, <2>7 DEF Place, kfh
    <3> QED BY <1>3, <1>6, <2>7, <3>1 DEF KinitHolds
  <2>9. unpack'.pc # "create"
    BY <1>6
  <2> QED BY <1>0, <1>1, <1>6, <1>7, <1>9, <2>4, <2>6, <2>8, <2>9, RecordStays
<1>10. \/ UNCHANGED <<tnode, inode, openfiles>> /\ ~HAS_SIZE(inode[i])
       \/ /\ inode' = [inode EXCEPT ![i] = Written(inode[i], 0, len)]
          /\ openfiles' = Moved(openfiles, Kinit, h, 0+len)
          /\ tnode' = tnode
  BY <1>0, <1>1, <1>3 DEF vfs_write, Desc, Of, Trap, Seek, Moved, Written
<1> QED BY <1>8, <1>9, <1>10

LEMMA RecordClosed ==
    ASSUME VfsInv, ResolveInv', UnpackInv, Unpacking, ~Unpacked, CloseRecord
    PROVE  Unpacking'
<1>0. PICK n, h, i : n = unpack.at /\ h = kfh /\ i = openfiles[Kinit][h].inode
  OBVIOUS
<1>1. n \in 1..Len(Tree) /\ Len(Tree) \in Nat /\ unpack.pc = "close"
      /\ vfs_close(Kinit, h) /\ NextRec
  BY <1>0, AtRecord DEF CloseRecord
<1>2. Made = n /\ Filled = n /\ Descs(openfiles) = {<<Kinit, h>>}
  BY <1>0, <1>1 DEF Made, Filled, Unpacking, KinitHolds
<1>3. /\ inode \in [DOMAIN inode -> Inode] /\ openfiles \in [Task -> Slots] /\ Kinit \in Task
      /\ h \in 1..Len(openfiles[Kinit]) /\ openfiles[Kinit][h] # NULL
  <2>1. <<Kinit, h>> \in Descs(openfiles)
    BY <1>2
  <2> QED BY <2>1, DescIs DEF VfsInv, VfsTypeOK, Task, Slots
<1>4. i \in DOMAIN inode
  <2>1. h \in Handles(Kinit)
    BY <1>3 DEF Handles
  <2> QED BY <1>0, <1>3, <2>1, DescIn
<1>5. inode' = OneLess(inode, i) /\ openfiles' = Closed(openfiles, Kinit, h) /\ tnode' = tnode
  BY <1>0, <1>1 DEF vfs_close, OneLess, Closed
<1>6. \A j \in DOMAIN inode : j \in DOMAIN inode' /\ SameNode(inode'[j], inode[j])
  BY <1>3, <1>4, <1>5, Released DEF OneLess
<1>7. Descs(openfiles') = {}
  <2>1. Descs(openfiles') = Descs(openfiles) \ {<<Kinit, h>>}
    BY <1>3, <1>5, HandleClosed
  <2> QED BY <2>1, <1>2
<1>8. unpack'.at = n+1 /\ unpack'.pc = "create"
  BY <1>0, <1>1 DEF NextRec
<1>9. Made' = n /\ Filled' = n
  BY <1>1, <1>8 DEF Made, Filled
<1>10. KinitHolds'
  BY <1>7, <1>8 DEF KinitHolds
<1>11. Filled' <= Filled
  BY <1>1, <1>2, <1>9
<1>12. \A j \in DOMAIN inode : /\ j \in DOMAIN inode'
                               /\ inode'[j].type = inode[j].type
                               /\ inode[j].data \subseteq inode'[j].data
  BY <1>6 DEF SameNode
<1> QED BY <1>0, <1>1, <1>5, <1>8, <1>9, <1>10, <1>11, <1>12, RecordStays

LEMMA NoHandles == VfsInit => Descs(openfiles) = {}
<1> SUFFICES ASSUME VfsInit, NEW x \in Descs(openfiles) PROVE FALSE
  OBVIOUS
<1>1. \A u \in DOMAIN openfiles : Len(openfiles[u]) = 0
  BY DEF VfsInit
<1>2. x = <<x[1], x[2]>>
  BY DescIs
<1>3. x[1] \in DOMAIN openfiles /\ x[2] \in Nat \ {0} /\ x[2] \in 1..Len(openfiles[x[1]])
  BY <1>2, DescIs
<1> QED BY <1>1, <1>3

LEMMA RecordsInitially == VfsInit => RecordsInv
<1> SUFFICES ASSUME VfsInit PROVE RecordsInv
  OBVIOUS
<1>1. unpack.at = 1 /\ unpack.pc = "create" /\ DOMAIN tnode = {vfs_root}
  BY DEF VfsInit
<1>2. Made = 0 /\ Filled = 0
  BY <1>1 DEF Made, Filled
<1>3. KinitHolds
  BY <1>1, NoHandles DEF KinitHolds
<1>4. IS_TRAVERSABLE(tnode[vfs_root].inode)
  <2>1. tnode[vfs_root].inode = 0
    BY DEF VfsInit
  <2>2. inode[0].type = "mountpoint"
    BY DEF VfsInit, vfs_alloc_inode
  <2> QED BY <2>1, <2>2 DEF IS_TRAVERSABLE
<1>5. Len(Tree) \in Nat
  BY VfsAssumption
<1> QED BY <1>1, <1>2, <1>3, <1>4, <1>5 DEF RecordsInv, Unpacking

LEMMA RecordsStep ==
    ASSUME VfsInv, VfsInv', NamesInv, NamesInv', ResolveInv, ResolveInv',
           UnpackInv, RecordsInv, [VfsNext]_vfsVars
    PROVE  RecordsInv'
<1>1. CASE initrd_helper
  <2>1. ~Unpacked
    BY <1>1 DEF initrd_helper
  <2>2. Unpacking
    BY <1>1 DEF RecordsInv, initrd_helper, CreateRecord, OpenRecord, WriteRecord, CloseRecord
  <2>3. Unpacking'
    BY <1>1, <2>1, <2>2, RecordMade, RecordOpened, RecordWritten, RecordClosed DEF initrd_helper
  <2> QED BY <2>3 DEF RecordsInv
<1>2. CASE initrd_done
  <2>1. unpack'.pc = "done"
    BY <1>2 DEF initrd_done, Then, UnpackInv
  <2> QED BY <2>1 DEF RecordsInv
<1>3. CASE ClientCalls
  <2>1. unpack' = unpack /\ unpack.pc = "done"
    BY <1>3 DEF ClientCalls
  <2> QED BY <2>1 DEF RecordsInv
<1>4. CASE UNCHANGED vfsVars
  <2>1. UNCHANGED <<tnode, inode, openfiles, unpack>>
    BY <1>4 DEF vfsVars
  <2>2. Unpacking => Unpacking'
    <3>1. /\ Made' = Made /\ Filled' = Filled /\ record' = record /\ kfh' = kfh
          /\ Descs(openfiles') = Descs(openfiles)
      BY <2>1 DEF Made, Filled, record, kfh
    <3>2. \A p : Resolved(p)' = Resolved(p)
      BY <2>1, TreeGrows
    <3>3. /\ \A k : Place(k)' = Place(k)
          /\ \A k : Reached(k)' <=> Reached(k)
          /\ \A k : HasBytes(k)' <=> HasBytes(k)
          /\ \A t, m : Recorded(t, m)' <=> Recorded(t, m)
      BY <2>1, <3>2, Zenon DEF Place, Reached, HasBytes, Recorded, Blocked, HAS_SIZE,
         IS_TRAVERSABLE
    <3>4. KinitHolds' <=> KinitHolds
      <4>1. Place(unpack.at)' = Place(unpack.at)
        BY <2>1, <3>2 DEF Place
      <4> QED BY <2>1, <3>1, <4>1, Zenon DEF KinitHolds
    <3> QED BY <2>1, <3>1, <3>3, <3>4 DEF Unpacking, IS_TRAVERSABLE
  <2> QED BY <2>1, <2>2 DEF RecordsInv
<1> QED BY <1>1, <1>2, <1>3, <1>4 DEF VfsNext

\* Once initrd_init is done, whatever calls failed on the way, every record
\* of the initrd is where its path leads, or a file of another record is in
\* its path; a file has all bytes of its records; each node but the root is
\* a record's, of its type; and kinit has closed what it opened.
THEOREM InitrdIsUnpacked == VfsSpec => []InitrdUnpacked
<1>1. VfsInv => NamesInv /\ ResolveInv
  BY NamesHold, ResolveHolds
<1>2. /\ VfsInv /\ NamesInv /\ ResolveInv /\ UnpackInv /\ RecordsInv /\ [VfsNext]_vfsVars
      /\ VfsInv' /\ NamesInv' /\ ResolveInv'
      => RecordsInv'
  BY RecordsStep
<1>3. ASSUME VfsInv, UnpackInv, RecordsInv, Unpacked, unpack.pc = "create"
      PROVE  /\ OpenDescs = {}
             /\ \A k \in 1..Len(Tree) :
                   LET i == Resolved(Tree[k].path)
                   IN  IF i = NULL THEN Blocked(Tree[k].path)
                       ELSE Tree[k].type = "file" /\ HAS_SIZE(inode[i]) =>
                               0..Tree[k].size-1 \subseteq inode[i].data
             /\ \A t \in DOMAIN tnode \ {vfs_root} :
                   \E k \in 1..Len(Tree) : /\ tnode[t].inode = Resolved(Tree[k].path)
                                           /\ inode[tnode[t].inode].type = Tree[k].type
  <2>1. Unpacking
    BY <1>3 DEF RecordsInv
  <2>2. unpack.at = Len(Tree) + 1 /\ Len(Tree) \in Nat
    <3>1. Len(Tree) \in Nat /\ unpack.at \in Nat
      BY <1>3, VfsAssumption DEF UnpackInv
    <3> QED BY <1>3, <2>1, <3>1 DEF Unpacking, Unpacked
  <2>3. Made = Len(Tree) /\ Filled = Len(Tree)
    BY <1>3, <2>2 DEF Made, Filled
  <2>4. OpenDescs = {}
    BY <1>3, <2>1, OpenDescsAre DEF Unpacking, KinitHolds, VfsInv
  <2>5. \A k \in 1..Len(Tree) : Reached(k) /\ HasBytes(k)
    BY <2>1, <2>3 DEF Unpacking
  <2>6. \A t \in DOMAIN tnode \ {vfs_root} : Recorded(t, Len(Tree))
    BY <2>1, <2>3 DEF Unpacking
  <2> QED BY <2>4, <2>5, <2>6 DEF Reached, HasBytes, Recorded, Place
<1>4. VfsInv /\ UnpackInv /\ RecordsInv => InitrdUnpacked
  BY <1>3 DEF InitrdUnpacked
<1> QED BY <1>1, <1>2, <1>4, RecordsInitially, VfsInvariant, PTL DEF VfsSpec
=============================================================================

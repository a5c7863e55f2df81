------------------------------ MODULE Namespace ------------------------------
(***************************************************************************)
(* What the vfs promises about names: folders map names to inodes, a name  *)
(* is entered where it was not, and only a name with nothing below it is   *)
(* taken out or given another inode.                                       *)
(***************************************************************************)
EXTENDS Naturals, Sequences

CONSTANTS Inode, Name, NULL
VARIABLE dir    \* <<folder's inode, name>> -> inode

IsEmpty(i) == \A entry \in DOMAIN dir : entry[1] # i

Enter(d, n, i) == /\ <<d, n>> \notin DOMAIN dir
                  /\ dir' = [e \in DOMAIN dir \cup {<<d, n>>} |-> IF e = <<d, n>> THEN i ELSE dir[e]]

Without(entry) == [e \in DOMAIN dir \ {entry} |-> dir[e]]

Remove(entry) == /\ IsEmpty(dir[entry])
                 /\ dir' = Without(entry)

Mount(entry, i) == /\ IsEmpty(dir[entry])
                   /\ IsEmpty(i)
                   /\ dir' = [dir EXCEPT ![entry] = i]

Next == \/ \E d, i \in Inode, n \in Name : Enter(d, n, i)
        \/ \E entry \in DOMAIN dir : Remove(entry)
        \/ \E entry \in DOMAIN dir, i \in Inode : Mount(entry, i)

\* The inode a path leads to from the folder "root": each name in the folder
\* the names before it lead to.
Resolve(root, path) ==
    LET node[k \in 0..Len(path)] ==
            IF k = 0 THEN root
            ELSE IF <<node[k-1], path[k]>> \in DOMAIN dir THEN dir[<<node[k-1], path[k]>>]
            ELSE NULL
    IN  node[Len(path)]
=============================================================================

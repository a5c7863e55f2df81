--------------------------------- MODULE Vfs ---------------------------------
(***************************************************************************)
(* fs/vfs with fs/ramfs, the only filesystem that is registered, and the   *)
(* initrd's unpacking by kinit, after which the clients call.              *)
(*                                                                         *)
(* A call is a step: it holds vfs_lock while it is at what tasks share.    *)
(* What it does without the lock touches the caller's own handles, which   *)
(* no other task reaches: handle_to_fd, and all of vfs_seek but one load   *)
(* of the inode's size, which is where the seek takes place.  (That        *)
(* sched_get_current may name the wrong task is Sched's matter.)           *)
(*                                                                         *)
(* Nodes are known by numbers, the lowest free one being what kmalloc      *)
(* returns; a node that is freed leaves the map.  An inode's ident         *)
(* (ramfs_ident_t) is its fields alloc_size and data, the set of the bytes *)
(* that were written.  A path is the sequence of its names.                *)
(*                                                                         *)
(* A call that follows a null pointer, or a pointer to a node it or an     *)
(* earlier call has freed, or copies past the end of its memory, is a      *)
(* step too: it sets trap, and nothing is said of what comes after.        *)
(***************************************************************************)
EXTENDS Null, Integers, FiniteSets, SequencesExt

CONSTANTS Client, Kinit,            \* tasks
          Paths,                    \* the paths the clients use
          Opens, Links, Mounts,     \* ... with a mode in vfs_open, as pairs in
                                    \* vfs_link, and in vfs_mount
          Tree,                     \* the initrd's records, [path, type, size]
          NodeMax, HandleMax, SizeMax   \* bounds

Number == 0..NodeMax
Handle == [inode: Number, mode: {open[2] : open \in Opens} \cup {"write"}, seek_pos: Nat]

ASSUME VfsAssumption ==
    /\ NodeMax \in Nat
    /\ SizeMax \in Nat
    /\ NULL \notin Number \cup Handle
    /\ \A path \in Paths : path \in Seq(Range(path))
    /\ \A open \in Opens : open[1] \in Paths
    /\ \A link \in Links : link[1] \in Paths /\ link[2] \in Paths
    /\ Mounts \subseteq Paths
    /\ Tree \in Seq(Range(Tree))
    /\ \A rec \in Range(Tree) : /\ rec.path \in Seq(Range(rec.path))
                                /\ rec.type \in {"folder", "file"}
                                /\ rec.size \in 0..SizeMax

(* initrd_helper starts at the root of the archive and comes to a folder   *)
(* before it comes to what is in it.  The root's own path is the empty     *)
(* string, of which path_to_node makes nothing; it stands here as << >>,   *)
(* where nothing can be made either.                                       *)
ASSUME ParentsFirst ==
    \A k \in 1..Len(Tree) :
        \/ Tree[k].path = <<>> /\ Tree[k].type = "folder"
        \/ /\ Tree[k].path # <<>>
           /\ \E j \in 1..k-1 : /\ Tree[j].type = "folder"
                                 /\ Tree[j].path = Front(Tree[k].path)

VARIABLES
    tnode,      \* number -> [name, inode, parent]
    inode,      \* number -> [type, size, refcount, mountpoint, child, alloc_size, data]
    openfiles,  \* task -> its handles, each [inode, mode, seek_pos] or NULL
    unpack,     \* initrd_helper: the record it is at, and what it does next
    trap

vfsVars == <<tnode, inode, openfiles, unpack, trap>>

vfs_root == 0

vfs_alloc_inode(type, mnt) ==
    [type |-> type, size |-> 0, refcount |-> 1, mountpoint |-> mnt, child |-> <<>>,
     alloc_size |-> 0, data |-> {}]

\* vfs_init: the folder it allocates is replaced by ramfs_mount's inode.
VfsInit == /\ tnode = [t \in {vfs_root} |-> [name |-> NULL, inode |-> 0, parent |-> NULL]]
           /\ inode = [i \in {0} |-> vfs_alloc_inode("mountpoint", vfs_root)]
           /\ openfiles = [t \in Client \cup {Kinit} |-> <<>>]
           /\ unpack = [at |-> 1, pc |-> "create"]
           /\ trap = "none"

Defined == trap = "none"

IS_TRAVERSABLE(i) == inode[i].type \in {"folder", "mountpoint"}

Unused(S) == CHOOSE n \in Number : n \notin S /\ \A k \in 0..n-1 : k \in S

-----------------------------------------------------------------------------
(* path_to_node: the loop over the names, and where it stands after it.    *)

\* Mutant: a name is taken from the root whatever folder it is in.
Child_OfRoot(t, name) ==
    LET child == inode[tnode[vfs_root].inode].child
        i     == SelectInSeq(child, LAMBDA c : tnode[c].name = name)
    IN  IF i = 0 THEN NULL ELSE child[i]

Child(t, name) ==
    LET child == inode[tnode[t].inode].child
        i     == SelectInSeq(child, LAMBDA c : tnode[c].name = name)
    IN  IF i = 0 THEN NULL ELSE child[i]

\* A name that is not found leaves curr where it is, and the next name is
\* looked for in the same folder.
NextName(w, name) ==
    IF w.stuck THEN w
    ELSE IF ~IS_TRAVERSABLE(tnode[w.curr].inode)
         THEN [w EXCEPT !.foundnode = FALSE, !.stuck = TRUE]
    ELSE LET c == Child(w.curr, name) IN
         IF c = NULL THEN [w EXCEPT !.foundnode = FALSE]
         ELSE [w EXCEPT !.foundnode = TRUE, !.curr = c]

Walked(path) ==
    LET after[k \in 0..Len(path)] ==
            IF k = 0 THEN [curr |-> vfs_root, foundnode |-> TRUE, stuck |-> FALSE]
            ELSE NextName(after[k-1], path[k])
    IN  after[Len(path)]

\* The node a call without CREATE gets.
Found(path) == LET w == Walked(path) IN IF w.foundnode THEN w.curr ELSE NULL

\* The folder in which a call with CREATE | ERR_ON_EXIST makes the node.
CreatesIn(path) ==
    LET w == Walked(path) IN
    IF ~w.foundnode /\ IS_TRAVERSABLE(tnode[w.curr].inode) THEN w.curr ELSE NULL

NewTnode == Unused(DOMAIN tnode)
NewInode == Unused(DOMAIN inode)

\* nodes with the allocated node n.
With(nodes, n, node) ==
    [k \in DOMAIN nodes \cup {n} |-> IF k = n THEN node ELSE nodes[k]]

\* The entry for the tnode t, named by the last name of path, in the folder
\* of the tnode "at".
Enter(path, at, t, i) ==
    tnode' = With(tnode, t, [name |-> Last(path), inode |-> i, parent |-> tnode[at].inode])

WithChild(nodes, folder, t) == [nodes EXCEPT ![folder].child = Append(@, t)]

Room == Cardinality(DOMAIN tnode) <= NodeMax /\ Cardinality(DOMAIN inode) <= NodeMax

-----------------------------------------------------------------------------
(* The calls.  A call that returns an error changes nothing.               *)

vfs_create(path, type) ==
    /\ CreatesIn(path) # NULL
    /\ Room
    /\ LET folder == tnode[CreatesIn(path)].inode
           i      == NewInode
       IN  /\ Enter(path, CreatesIn(path), NewTnode, i)
           /\ inode' = With(WithChild(inode, folder, NewTnode), i,
                            vfs_alloc_inode(type, inode[folder].mountpoint))
    /\ UNCHANGED <<openfiles, trap>>

vfs_open(task, path, mode) ==
    /\ Found(path) # NULL
    /\ LET i == tnode[Found(path)].inode
       IN  /\ inode' = [inode EXCEPT ![i].refcount = @ + 1]
           /\ openfiles' = [openfiles EXCEPT
                  ![task] = Append(@, [inode |-> i, mode |-> mode, seek_pos |-> 0])]
    /\ UNCHANGED <<tnode, trap>>

Forget(nodes, n) == [k \in DOMAIN nodes \ {n} |-> nodes[k]]

\* The inode stays where it is, also if that was the last who referred to
\* it.  The handle's slot is not used again.
vfs_close(task, handle) ==
    /\ openfiles[task][handle] # NULL
    /\ inode' = [inode EXCEPT ![openfiles[task][handle].inode].refcount = @ - 1]
    /\ openfiles' = [openfiles EXCEPT ![task][handle] = NULL]
    /\ UNCHANGED <<tnode, trap>>

Trap(what) == /\ trap' = what
              /\ UNCHANGED <<tnode, inode, openfiles>>

\* Mutant: the target's count is forgotten.
vfs_link_NoCount(old, new) ==
    /\ Found(old) # NULL
    /\ CreatesIn(new) # NULL
    /\ Room
    /\ LET i      == tnode[Found(old)].inode
           folder == tnode[CreatesIn(new)].inode
       IN  IF inode[folder].mountpoint # inode[i].mountpoint THEN Trap("stale_entry")
           ELSE /\ Enter(new, CreatesIn(new), NewTnode, i)
                /\ inode' = WithChild(inode, folder, NewTnode)
                /\ UNCHANGED <<openfiles, trap>>

\* The node path_to_node makes for the new name is freed again.  When the
\* mountpoints differ so is its tnode, which the folder still lists.
vfs_link(old, new) ==
    /\ Found(old) # NULL
    /\ CreatesIn(new) # NULL
    /\ Room
    /\ LET i      == tnode[Found(old)].inode
           folder == tnode[CreatesIn(new)].inode
       IN  IF inode[folder].mountpoint # inode[i].mountpoint THEN Trap("stale_entry")
           ELSE /\ Enter(new, CreatesIn(new), NewTnode, i)
                /\ inode' = [WithChild(inode, folder, NewTnode) EXCEPT ![i].refcount = @ + 1]
                /\ UNCHANGED <<openfiles, trap>>

\* Mutant: the folder still lists the entry.
vfs_unlink_Listed(path) ==
    /\ Found(path) # NULL
    /\ inode[tnode[Found(path)].inode].child = <<>>
    /\ IF path = <<>> THEN Trap("null_parent")
       ELSE LET t     == Found(path)
                i     == tnode[t].inode
                nodes == [inode EXCEPT ![i].refcount = @ - 1]
            IN  /\ inode' = IF nodes[i].refcount = 0 THEN Forget(nodes, i) ELSE nodes
                /\ tnode' = Forget(tnode, t)
                /\ UNCHANGED <<openfiles, trap>>

\* Mutant: folders need not be empty.
vfs_unlink_Full(path) ==
    /\ Found(path) # NULL
    /\ IF path = <<>> THEN Trap("null_parent")
       ELSE LET t     == Found(path)
                i     == tnode[t].inode
                nodes == [inode EXCEPT ![i].refcount = @ - 1,
                                       ![tnode[t].parent].child = RemoveFirst(@, t)]
            IN  /\ inode' = IF nodes[i].refcount = 0 THEN Forget(nodes, i) ELSE nodes
                /\ tnode' = Forget(tnode, t)
                /\ UNCHANGED <<openfiles, trap>>

\* setlink frees the ident and vfs_free_nodes the inode when nobody refers
\* to it any more.  The root has no parent to be taken from.
vfs_unlink(path) ==
    /\ Found(path) # NULL
    /\ inode[tnode[Found(path)].inode].child = <<>>
    /\ IF path = <<>> THEN Trap("null_parent")
       ELSE LET t     == Found(path)
                i     == tnode[t].inode
                nodes == [inode EXCEPT ![i].refcount = @ - 1,
                                       ![tnode[t].parent].child = RemoveFirst(@, t)]
            IN  /\ inode' = IF nodes[i].refcount = 0 THEN Forget(nodes, i) ELSE nodes
                /\ tnode' = Forget(tnode, t)
                /\ UNCHANGED <<openfiles, trap>>

\* Of an empty folder, as ramfs; its inode is freed whoever refers to it.
vfs_mount(path) ==
    /\ Found(path) # NULL
    /\ LET t == Found(path)
           i == tnode[t].inode
       IN  /\ inode[i].type = "folder"
           /\ inode[i].child = <<>>
           /\ IF inode[i].refcount > 1 THEN Trap("inode_freed_in_use")
              ELSE LET root == Unused(DOMAIN inode \ {i})
                   IN  /\ inode' = With(Forget(inode, i), root, vfs_alloc_inode("mountpoint", t))
                       /\ tnode' = [tnode EXCEPT ![t].inode = root]
                       /\ UNCHANGED <<openfiles, trap>>

Desc(task, handle) == openfiles[task][handle]
Of(task, handle) == inode[Desc(task, handle).inode]

HAS_SIZE(node) == node.type = "file"

Seek(task, handle, pos) == openfiles' = [openfiles EXCEPT ![task][handle].seek_pos = pos]

\* The length is cut to what is left, a difference of unsigned numbers.  The
\* mode of the handle is not looked at.  len is not 0.
vfs_read(task, handle, len) ==
    /\ Desc(task, handle) # NULL
    /\ LET pos  == Desc(task, handle).seek_pos
           node == Of(task, handle)
       IN  IF ~HAS_SIZE(node) THEN Trap("null_data")
           ELSE IF pos > node.size THEN Trap("length_wrapped")
           ELSE /\ pos < node.size
                /\ Seek(task, handle, IF pos+len > node.size THEN node.size ELSE pos+len)
                /\ UNCHANGED <<tnode, inode, trap>>

\* Mutant: the memory is allocated anew and the old bytes are not copied.
Synced_Lost(node) ==
    [node EXCEPT !.alloc_size = IF node.size > @ THEN node.size ELSE @,
                 !.data = IF node.size > node.alloc_size THEN {} ELSE @]

\* ramfs_sync
Synced(node) ==
    [node EXCEPT !.alloc_size = IF node.size > @ THEN node.size ELSE @]

\* Mutant: the file grows without being allocated.
Grown_NoSync(node, end) ==
    IF HAS_SIZE(node) /\ end > node.size THEN [node EXCEPT !.size = end] ELSE node

\* The file is expanded to end there.
Grown(node, end) ==
    IF HAS_SIZE(node) /\ end > node.size THEN Synced([node EXCEPT !.size = end]) ELSE node

\* A folder has no memory to copy to.  What lies between the end of a file
\* and a write behind it becomes part of the file and is not written.
vfs_write(task, handle, len) ==
    /\ Desc(task, handle) # NULL
    /\ Desc(task, handle).mode # "read"
    /\ LET pos   == Desc(task, handle).seek_pos
           node  == Of(task, handle)
           grown == Grown(node, pos+len)
       IN  /\ pos+len <= SizeMax
           /\ IF ~HAS_SIZE(node) /\ len > 0 THEN Trap("null_data")
              ELSE /\ inode' = [inode EXCEPT ![Desc(task, handle).inode] =
                                  [grown EXCEPT !.data = @ \cup pos..pos+len-1]]
                   /\ Seek(task, handle, pos+len)
                   /\ UNCHANGED <<tnode, trap>>

\* Without vfs_lock.
vfs_seek(task, handle, pos) ==
    /\ Desc(task, handle) # NULL
    /\ ~(Desc(task, handle).mode = "read" /\ pos >= Of(task, handle).size)
    /\ Seek(task, handle, pos)
    /\ UNCHANGED <<tnode, inode, trap>>

\* The entry at seek_pos is returned.
vfs_getdent(task, handle) ==
    /\ Desc(task, handle) # NULL
    /\ IS_TRAVERSABLE(Desc(task, handle).inode)
    /\ Desc(task, handle).seek_pos < Len(Of(task, handle).child)
    /\ Seek(task, handle, Desc(task, handle).seek_pos + 1)
    /\ UNCHANGED <<tnode, inode, trap>>

-----------------------------------------------------------------------------
(* initrd_helper, called by kinit for the records of Tree one after the    *)
(* other: a folder is created, a file created, opened, written and closed. *)
(* It looks at no result.  A file that cannot be opened is handle -1, and  *)
(* the write and the close of that fail as well.                           *)

record == Tree[unpack.at]
Unpacked == unpack.at > Len(Tree)
kfh == Len(openfiles[Kinit])

Then(pc) == unpack' = [unpack EXCEPT !.pc = pc]
NextRec == unpack' = [at |-> unpack.at + 1, pc |-> "create"]
Fails == UNCHANGED <<tnode, inode, openfiles, trap>>

CreateRecord ==
    /\ unpack.pc = "create"
    /\ \/ vfs_create(record.path, record.type)
       \/ CreatesIn(record.path) = NULL /\ Fails
    /\ IF record.type = "folder" THEN NextRec ELSE Then("open")

OpenRecord ==
    /\ unpack.pc = "open"
    /\ \/ vfs_open(Kinit, record.path, "write") /\ Then("write")
       \/ Found(record.path) = NULL /\ Fails /\ NextRec

\* Mutant: the file is not closed.
WriteRecord_LeavesOpen ==
    /\ unpack.pc = "write"
    /\ vfs_write(Kinit, kfh, record.size)
    /\ NextRec

WriteRecord ==
    /\ unpack.pc = "write"
    /\ vfs_write(Kinit, kfh, record.size)
    /\ Then("close")

CloseRecord ==
    /\ unpack.pc = "close"
    /\ vfs_close(Kinit, kfh)
    /\ NextRec

initrd_helper ==
    /\ ~Unpacked
    /\ Defined
    /\ \/ CreateRecord
       \/ OpenRecord
       \/ WriteRecord
       \/ CloseRecord

\* initrd_init gives the archive's memory back and returns; from here on
\* tasks call.
initrd_done == /\ Unpacked
               /\ unpack.pc = "create"
               /\ Then("done")
               /\ Fails

Handles(task) == 1..Len(openfiles[task])

VfsCall(task) ==
    \/ \E path \in Paths, type \in {"file", "folder"} : vfs_create(path, type)
    \/ /\ Len(openfiles[task]) < HandleMax
       /\ \E open \in Opens : vfs_open(task, open[1], open[2])
    \/ \E link \in Links : vfs_link(link[1], link[2])
    \/ \E path \in Paths : vfs_unlink(path)
    \/ \E path \in Mounts : vfs_mount(path)
    \/ \E h \in Handles(task) :
          \/ vfs_close(task, h)
          \/ \E len \in 1..SizeMax : vfs_read(task, h, len) \/ vfs_write(task, h, len)
          \/ \E pos \in 0..SizeMax : vfs_seek(task, h, pos)
          \/ vfs_getdent(task, h)

ClientCalls == /\ unpack.pc = "done"
               /\ Defined
               /\ \E task \in Client : VfsCall(task)
               /\ UNCHANGED unpack

VfsNext == \/ initrd_helper
           \/ initrd_done
           \/ ClientCalls

VfsSpec == VfsInit /\ [][VfsNext]_vfsVars

-----------------------------------------------------------------------------
(* What follows is said of states no call has left the defined behaviour   *)
(* in: Defined.                                                            *)

AllPaths == Paths \cup {Tree[k].path : k \in 1..Len(Tree)}

OpenDescs == UNION {{<<task, h>> : h \in {k \in Handles(task) : Desc(task, k) # NULL}}
                       : task \in DOMAIN openfiles}

(* An inode's refcount is the number of names and open handles it has: an  *)
(* unlink that leaves it at 0, and frees the inode, leaves nobody who      *)
(* refers to it.  It says nothing of a last close, which frees nothing.    *)
RefcountExact ==
    Defined => \A i \in DOMAIN inode :
        inode[i].refcount = Cardinality({t \in DOMAIN tnode : tnode[t].inode = i})
                            + Cardinality({td \in OpenDescs : Desc(td[1], td[2]).inode = i})

(* No pointer outlives what it points at, every tnode but the root is      *)
(* listed once, in the folder it names as its parent, and no folder lists  *)
(* a name twice.                                                           *)
TreeConsistent ==
    Defined =>
        /\ \A t \in DOMAIN tnode : tnode[t].inode \in DOMAIN inode
        /\ \A td \in OpenDescs : Desc(td[1], td[2]).inode \in DOMAIN inode
        /\ \A t \in DOMAIN tnode \ {vfs_root} : tnode[t].parent \in DOMAIN inode
        /\ \A i \in DOMAIN inode :
              LET child == inode[i].child
              IN  /\ Range(child) = {t \in DOMAIN tnode : tnode[t].parent = i}
                  /\ \A j, k \in 1..Len(child) :
                        tnode[child[j]].name = tnode[child[k]].name => j = k

(* A file's bytes lie in the memory allocated for it, none was written    *)
(* behind its end, and its last byte was written: it is as long as the     *)
(* writes made it and no longer.                                           *)
FileContents ==
    Defined => \A i \in DOMAIN inode :
        HAS_SIZE(inode[i]) => /\ inode[i].size <= inode[i].alloc_size
                              /\ inode[i].data \subseteq 0..inode[i].size-1
                              /\ inode[i].size > 0 => inode[i].size-1 \in inode[i].data

\* The bytes of a file that can be read though nobody wrote them.
Gap(node) == (0..node.size-1) \ node.data

(* Such bytes come into a file only when a handle that stands behind its   *)
(* end is written to, and only between the end and where it stands; no     *)
(* other growth of the file and no other call loses a byte.                *)
GapsAreSought ==
    [][Defined' => \A i \in DOMAIN inode \cap DOMAIN inode' :
          \A byte \in Gap(inode'[i]) \ Gap(inode[i]) :
              \E td \in OpenDescs : /\ Desc(td[1], td[2]).inode = i
                                    /\ inode[i].size <= byte
                                    /\ byte < Desc(td[1], td[2]).seek_pos]_vfsVars

Names == [e \in {<<tnode[t].parent, tnode[t].name>> : t \in DOMAIN tnode \ {vfs_root}} |->
             tnode[CHOOSE t \in DOMAIN tnode : e = <<tnode[t].parent, tnode[t].name>>].inode]

(* The tree implements the abstract Namespace: one name is entered where   *)
(* it was not, or taken out with nothing below it, or its empty folder is  *)
(* mounted over; reads, writes and handles change no name.                 *)
NS == INSTANCE Namespace WITH dir <- Names, Inode <- Number,
                              Name <- UNION {Range(path) : path \in AllPaths}
NamesFollow == [][UNCHANGED tnode \/ NS!Next]_Names

(* path_to_node finds every node there is: where the names of a path lead  *)
(* somewhere folder by folder, it returns that node.  Where only the last  *)
(* name of a path is missing, it finds nothing, and makes a node nowhere   *)
(* but in the folder the other names lead to.                              *)
Resolved(path) == NS!Resolve(tnode[vfs_root].inode, path)
PathsResolve ==
    Defined => \A path \in AllPaths :
        /\ Resolved(path) # NULL => /\ Found(path) # NULL
                                    /\ tnode[Found(path)].inode = Resolved(path)
        /\ path # <<>> /\ Resolved(path) = NULL /\ Resolved(Front(path)) # NULL =>
              /\ Found(path) = NULL
              /\ CreatesIn(path) # NULL =>
                    tnode[CreatesIn(path)].inode = Resolved(Front(path))

(* What path_to_node finds is where the path leads.                        *)
FoundIsThere ==
    Defined => \A path \in AllPaths : Found(path) # NULL => Resolved(path) # NULL

\* A file stands where the path needs a folder.
Blocked(path) ==
    \E k \in 1..Len(path)-1 : LET i == Resolved(SubSeq(path, 1, k))
                              IN  i # NULL /\ ~IS_TRAVERSABLE(i)

(* When initrd_init returns, each record leads to a node, unless an        *)
(* earlier record put a file in its path; a file has all bytes of its      *)
(* records; every node but the root has the place and the type of a        *)
(* record; and kinit has no handle open, whatever calls failed.            *)
InitrdUnpacked ==
    Unpacked /\ unpack.pc = "create" =>
        /\ OpenDescs = {}
        /\ \A k \in 1..Len(Tree) :
              LET i == Resolved(Tree[k].path)
              IN  IF i = NULL THEN Blocked(Tree[k].path)
                  ELSE Tree[k].type = "file" /\ HAS_SIZE(inode[i]) =>
                          0..Tree[k].size-1 \subseteq inode[i].data
        /\ \A t \in DOMAIN tnode \ {vfs_root} :
              \E k \in 1..Len(Tree) : /\ tnode[t].inode = Resolved(Tree[k].path)
                                      /\ inode[tnode[t].inode].type = Tree[k].type
=============================================================================

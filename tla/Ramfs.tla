------------------------------- MODULE Ramfs -------------------------------
(***************************************************************************)
(* The in-memory file system of fs/ramfs/ramfs.c together with the vnode   *)
(* cache that it shares with fs/vfs.c.                                     *)
(*                                                                         *)
(* Every function of the file system is an operator from a state "f" of    *)
(* the whole file layer to the state it leaves behind, so that a system    *)
(* call of Vfs.tla can chain them the way the C functions call each other. *)
(* The kernel runs one file system call at a time (only the boot thread    *)
(* makes them), hence a call is one step.                                  *)
(*                                                                         *)
(* A node is the address of a struct ramnode and Null is the null pointer. *)
(* The vnode of a node is named by the node.  A path component is a string *)
(* constant; the name of a directory entry is the sequence of components   *)
(* it is made of, because ramfs_link stores the whole rest of a path.      *)
(*                                                                         *)
(* Memory: kalloc returns memory not used before, and freed memory keeps   *)
(* its contents.  It is the mildest thing the allocator can do; f.uaf      *)
(* records that freed memory was read or written.  Of the words that the   *)
(* code reads without having written them, the flags of a vnode and the    *)
(* entries of a directory hold what f.garbage says, and prev of a node is  *)
(* the link of the allocator's free list: the block that the next kalloc   *)
(* of this size returns, which is the first vnode of the node.             *)
(***************************************************************************)
EXTENDS Integers, FiniteSets, SequencesExt

CONSTANTS
  MaxNode,      \* bound on the ramnodes ever allocated
  MaxVfs,       \* bound on the file systems ever mounted
  ProperPrefix  \* pairs <<x, y>> of components: x is a proper prefix of y

ASSUME RamfsAssumption == MaxNode \in Nat \ {0} /\ MaxVfs \in Nat \ {0}

Null == 0
\* A struct vfs pointer that is the address of something else.
WildVfs == -1
Nodes == 1..MaxNode
VfsIds == 1..MaxVfs
VTypes == {"VREG", "VDIR", "VLNK"}

\* A path is absolute when it starts with '/'.  A trailing '/' is a last
\* component "".
NoLink == [abs |-> FALSE, comps |-> <<>>]

\* struct ramnode.  "hasv" is node->vnode # NULL; dents is the list of
\* dentries, the newest first.  A prev of -k points at the first vnode of k.
FreeRamnode ==
  [alive |-> FALSE, type |-> "VREG", links |-> 0, parent |-> Null, dents |-> <<>>,
   lnk |-> NoLink, prev |-> Null, next |-> Null, hasv |-> FALSE]

\* struct vnode; refcount 0 is "no vnode".  "first" is a ghost: it is
\* the vnode that was made with its node.
NoVnode == [refcount |-> 0, mountedhere |-> Null, vroot |-> FALSE, vfs |-> Null,
            locked |-> FALSE, first |-> FALSE]

\* struct vfs with its struct ramvfs.
\* "lost" is a ghost: the vnode that vfs->mountpoint points at was freed.
NoVfs == [mounted |-> FALSE, root |-> Null, nodes |-> Null, mountpoint |-> Null,
          lost |-> FALSE, rootfs |-> FALSE]

-----------------------------------------------------------------------------
(* Ghosts: what went wrong in the kernel itself.                           *)

\* The kernel stops here: a panic, a deadlock on its own lock or a wild
\* pointer.  The first reason is kept.
Stop(f, why) == IF f.stop = "no" THEN [f EXCEPT !.stop = why] ELSE f

\* A node is read or written.
Touch(f, n) == IF f.node[n].alive THEN f ELSE [f EXCEPT !.uaf = TRUE]

\* acquire(&vn->lock) by the only thread there is.
AcquireVnode(f, n) == IF f.vn[n].locked THEN Stop(f, "deadlock") ELSE f

-----------------------------------------------------------------------------
(* Nodes                                                                   *)

\* The address kalloc returns for the next node.
NewNode(f) == f.used + 1

\* Neither prev nor the entries of a directory are set: the model ends where
\* the entries are not null by chance.
ramfs_alloc_node(f, v, dir, type, link) ==
  LET n == NewNode(f)
      head == f.vfs[v].nodes
      g == IF type = "VDIR" /\ f.garbage = "entries" THEN Stop(f, "wild entries") ELSE f
      linked == IF head = Null THEN g ELSE [Touch(g, head) EXCEPT !.node[head].prev = n]
  IN  [linked EXCEPT !.used = n,
                     !.vfs[v].nodes = n,
                     !.node[n] = [alive |-> TRUE, type |-> type,
                                  links |-> IF type = "VDIR" THEN 1 ELSE 0,
                                  parent |-> IF type # "VDIR" THEN Null
                                             ELSE IF dir = Null THEN n
                                             ELSE dir,
                                  dents |-> <<>>, lnk |-> link,
                                  prev |-> -n, next |-> head, hasv |-> FALSE]]

\* Freeing a node a second time is an access to freed memory as well.
ramfs_free_node(f, n) ==
  LET next == f.node[n].next
      unlinked == IF next = Null THEN Touch(f, n)
                  ELSE [Touch(Touch(f, n), next) EXCEPT !.node[next].prev = f.node[n].prev]
  IN  [unlinked EXCEPT !.node[n].prev = next, !.node[n].alive = FALSE]

\* node->prev->next = next.  In a vnode, mountedhere is where next is in a node.
SetNext(f, prev, next) ==
  IF prev > 0 THEN [Touch(f, prev) EXCEPT !.node[prev].next = next]
  ELSE IF f.vn[-prev].first
  THEN [f EXCEPT !.vn[-prev].mountedhere = IF next = Null THEN Null ELSE WildVfs]
  ELSE [f EXCEPT !.uaf = TRUE]

\* The lines of ramfs_remove and ramfs_rmdir that take a node off the list
\* of all nodes.
Unlist(f, n) ==
  LET prev == f.node[n].prev
      next == f.node[n].next
      fwd == IF prev = Null THEN f ELSE SetNext(f, prev, next)
  IN  IF next = Null THEN fwd ELSE [Touch(fwd, next) EXCEPT !.node[next].prev = prev]

\* The nodes on ram->nodes, in the order of the list.  A node's next node is
\* older than itself, so MaxNode steps reach the end.
NodeList(f, v) ==
  LET at[k \in Nodes] == IF k = 1 THEN f.vfs[v].nodes
                         ELSE IF at[k - 1] = Null THEN Null ELSE f.node[at[k - 1]].next
  IN  SelectSeq([k \in Nodes |-> at[k]], LAMBDA n : n # Null)

-----------------------------------------------------------------------------
(* Directory entries                                                       *)

\* ramfs_alloc_dentry followed by ramfs_dir_attach.
AddEntry(f, parent, name, n) ==
  LET counted == [Touch(f, n) EXCEPT !.node[n].links = @ + 1]
  IN  IF f.node[parent].type # "VDIR" THEN counted
      ELSE [counted EXCEPT !.node[parent].dents = <<[name |-> name, node |-> n]>> \o @,
                           !.node[parent].links = @ + 1]

\* Index of the entry called "name", 0 if there is none.
ramfs_dir_lookup(f, dir, name) ==
  SelectInSeq(f.node[dir].dents, LAMBDA de : de.name = name)

\* Mutants: the link count of the directory is not adjusted; the newest entry
\* is detached whichever was looked up.
ramfs_dir_detachKeepsCount(f, parent, i) == [f EXCEPT !.node[parent].dents = RemoveAt(@, i)]
ramfs_dir_detachFirst(f, parent, i) ==
  [f EXCEPT !.node[parent].links = @ - 1, !.node[parent].dents = Tail(@)]

ramfs_dir_detach(f, parent, i) ==
  [f EXCEPT !.node[parent].links = @ - 1, !.node[parent].dents = RemoveAt(@, i)]

\* "n" is the node the freed entry refers to.
ramfs_free_dentry(f, n) ==
  IF f.node[n].links <= 0 THEN Stop(f, "panic")
  ELSE [Touch(f, n) EXCEPT !.node[n].links = @ - 1]

-----------------------------------------------------------------------------
(* Vnodes                                                                  *)

\* ramfs_vget.  The flags of a new vnode are or-ed into memory that kalloc
\* did not clear: f.garbage says that they are what a root vnode left there.
\* A node whose vnode pointer was cleared while the vnode is in use gets a
\* second vnode; the model ends there.
ramfs_vget(f, v, n) ==
  CASE f.node[n].hasv -> [AcquireVnode(Touch(f, n), n) EXCEPT !.vn[n].refcount = @ + 1]
    [] ~f.node[n].hasv /\ f.vn[n].refcount > 0 -> Stop(f, "second vnode")
    [] OTHER ->
         [Touch(f, n) EXCEPT
            !.node[n].hasv = TRUE,
            !.vn[n] = [refcount |-> 1, mountedhere |-> Null,
                       vroot |-> \/ f.node[n].type = "VDIR" /\ f.node[n].parent = n
                                 \/ f.garbage = "flags",
                       vfs |-> v, locked |-> FALSE, first |-> FALSE]]

\* vref and vref_locked of vfs.h.
vref(f, n) ==
  IF f.vn[n].refcount = 0 THEN Stop(f, "freed vnode")
  ELSE [AcquireVnode(f, n) EXCEPT !.vn[n].refcount = @ + 1]

vref_locked(f, n) == [f EXCEPT !.vn[n].refcount = @ + 1]

\* Mutants: the node is never deleted; it is deleted whatever names it.
ramfs_inactiveKeeps(f, n) == [f EXCEPT !.node[n].hasv = FALSE]
ramfs_inactiveFrees(f, n) == ramfs_free_node([f EXCEPT !.node[n].hasv = FALSE], n)

ramfs_inactive(f, n) ==
  LET cleared == [Touch(f, n) EXCEPT !.node[n].hasv = FALSE]
  IN  IF f.node[n].links = 0 THEN ramfs_free_node(cleared, n) ELSE cleared

ramfs_root(f, v) == ramfs_vget(f, v, f.vfs[v].root)

-----------------------------------------------------------------------------
(* Operations on files.  "rest" is cnp->name as components.                *)

Result(f, err) == [f |-> f, err |-> err]

\* A component matches an entry when it is a prefix of the entry's name.
Matches(c, name) == c = Head(name) \/ <<c, Head(name)>> \in ProperPrefix

\* The vnode found is r.vn; "vn" is what *vpp holds when it is not assigned.
ramfs_lookup(f, vdir, vn, rest) ==
  LET i == SelectInSeq(f.node[vdir].dents, LAMBDA de : Matches(Head(rest), de.name))
      v == f.vn[vdir].vfs
      Found(n) == [f |-> ramfs_vget(f, v, n), err |-> "OK", vn |-> n]
  IN  IF f.node[vdir].type # "VDIR" THEN [f |-> f, err |-> "ENOTDIR", vn |-> vn]
      ELSE IF rest = <<".">> THEN [f |-> vref_locked(f, vdir), err |-> "OK", vn |-> vdir]
      ELSE IF rest = <<"..">> THEN Found(f.node[vdir].parent)
      ELSE IF i # 0 THEN Found(f.node[vdir].dents[i].node)
      ELSE [f |-> f, err |-> "ENOENT", vn |-> Null]

\* The new file is NewNode(f), with a vnode of refcount 1.
ramfs_alloc_file(f, vdir, rest, type, link) ==
  LET v == f.vn[vdir].vfs
      n == NewNode(f)
      node == ramfs_alloc_node(f, v, vdir, type, link)
      made == ramfs_vget(AddEntry(node, vdir, <<Head(rest)>>, n), v, n)
  IN  IF f.node[vdir].type # "VDIR" THEN Result(f, "EINVAL")
      ELSE Result([made EXCEPT !.vn[n].first = TRUE], "OK")

ramfs_link(f, vdir, vn, rest) == AddEntry(f, vdir, rest, vn)

ramfs_remove(f, vdir, vn, rest) ==
  LET i == ramfs_dir_lookup(f, vdir, rest)
      dents == f.node[vdir].dents
  IN  IF f.node[vn].type = "VDIR" THEN Result(f, "EISDIR")
      ELSE IF f.node[vdir].type # "VDIR" THEN Result(f, "ENOTDIR")
      ELSE IF i = 0 \/ dents[i].node # vn THEN Result(Stop(f, "panic"), "OK")
      ELSE Result(ramfs_free_dentry(ramfs_dir_detach(Unlist(f, vn), vdir, i), vn), "OK")

ramfs_rmdir(f, vdir, vn, rest) ==
  LET i == ramfs_dir_lookup(f, vdir, rest)
      dents == f.node[vdir].dents
      dot == [f EXCEPT !.node[vn].links = @ - 1]
  IN  IF Head(rest) = ".." THEN Result(f, "ENOTEMPTY")
      ELSE IF f.node[vn].parent # vdir THEN Result(Stop(f, "panic"), "OK")
      ELSE IF f.node[vn].dents # <<>> THEN Result(f, "ENOTEMPTY")
      ELSE IF i = 0 \/ dents[i].node # vn THEN Result(Stop(dot, "panic"), "OK")
      ELSE Result(ramfs_free_dentry(ramfs_dir_detach(Unlist(dot, vn), vdir, i), vn), "OK")

-----------------------------------------------------------------------------
(* File systems                                                            *)

\* The root has one link more, for being its own parent.
ramfs_mount(f, v) ==
  LET root == NewNode(f)
      g == ramfs_alloc_node(f, v, Null, "VDIR", NoLink)
  IN  [g EXCEPT !.node[root].links = @ + 1,
                !.node[root].prev = Null, !.node[root].next = Null,
                !.vfs[v].root = root, !.vfs[v].nodes = root]

\* One turn of the first loop of ramfs_unmount: every entry of a directory
\* is detached and freed, and read again for its successor.
DestroyEntries(f, n) ==
  LET cleared == [Touch(f, n) EXCEPT !.node[n].hasv = FALSE]
      Destroy(g, de) ==
        LET forgot == [g EXCEPT !.node[de.node].hasv = FALSE, !.uaf = TRUE]
        IN  ramfs_free_dentry(ramfs_dir_detach(forgot, n, 1), de.node)
  IN  IF f.node[n].type # "VDIR" THEN cleared
      ELSE FoldLeft(Destroy, cleared, f.node[n].dents)

\* Mutant: the nodes of the file system it is mounted on are destroyed.
ramfs_unmountParent(f, v) ==
  LET list == NodeList(f, f.vn[f.vfs[v].mountpoint].vfs)
  IN  FoldLeft(ramfs_free_node, FoldLeft(DestroyEntries, f, list), list)

ramfs_unmount(f, v) ==
  LET list == NodeList(f, v)
  IN  FoldLeft(ramfs_free_node, FoldLeft(DestroyEntries, f, list), list)
=============================================================================

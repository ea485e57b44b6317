-------------------------------- MODULE Vfs --------------------------------
(***************************************************************************)
(* The virtual file system of fs/vfs.c over the ramfs of Ramfs.tla: path   *)
(* lookup, the vnode reference counts, mounting, and the calls that create,*)
(* open, link, remove and close files.                                     *)
(*                                                                         *)
(* fs is the state of the file layer, held counts for every node the       *)
(* references that calls handed out to their callers (the vnode pointers   *)
(* stored in *vpp) and that were not closed yet.                           *)
(***************************************************************************)
EXTENDS Ramfs

CONSTANTS
  Calls,     \* the calls the client may make: [op, path, arg]
  Careful,   \* TRUE: the client only uses paths whose directories exist
  MaxHeld,   \* bound on the references the client holds at a time
  MaxRef,    \* bound on a reference count, which some calls leak
  MaxSteps   \* bound on the components one namei may visit

VARIABLES fs, held

vars == <<fs, held>>

Root == 1
RootVfs == 1

-----------------------------------------------------------------------------
(* Reference counts                                                        *)

\* Mutant: the vnode is freed when one reference is left.
vfs_closeEarly(f, n) ==
  IF f.vn[n].refcount > 2 THEN [f EXCEPT !.vn[n].refcount = @ - 1]
  ELSE [ramfs_inactive(f, n) EXCEPT !.vn[n] = NoVnode]

\* vfs_close, which vput and vrele call.  The lock is not held or is held by
\* the caller, and it is free afterwards.  kfree(vn) leaves the pointers to
\* the vnode behind: rootvn, and the mountpoint of a mounted file system.
vfs_close(f, n) ==
  LET g == ramfs_inactive(f, n)
  IN  CASE f.vn[n].refcount = 0 -> Stop(f, "freed vnode")
        [] f.vn[n].refcount = 1 ->
             [g EXCEPT !.vn[n] = NoVnode,
                       !.dirty = @ \/ f.vn[n].vroot,
                       !.rootvn = IF @ = n THEN Null ELSE @,
                       !.vfs = [v \in VfsIds |-> [f.vfs[v] EXCEPT
                                   !.lost = @ \/ (f.vfs[v].mounted /\ f.vfs[v].mountpoint = n)]]]
        [] OTHER -> [f EXCEPT !.vn[n].refcount = @ - 1, !.vn[n].locked = FALSE]

\* if (vn) vput(vn)
PutIfAny(f, n) == IF n = Null THEN f ELSE vfs_close(f, n)

-----------------------------------------------------------------------------
(* Path lookup.  The state of a walk w: vdir and vn are ndp->vdir and      *)
(* ndp->vn, dir is the local vdir of lookup(), rest is cnp->name.          *)

\* From the root of a mounted file system to the directory it is mounted on,
\* until a directory that is no root or until the root vnode.
CrossUp(f, dir) ==
  LET Up(x) ==
        LET g == AcquireVnode(x.f, x.dir)
            v == g.vfs[g.vn[x.dir].vfs]
        IN  IF x.st # "run" \/ x.f.stop # "no" THEN x
            ELSE IF x.dir = x.f.rootvn THEN [x EXCEPT !.st = "root"]
            ELSE IF ~x.f.vn[x.dir].vroot THEN [x EXCEPT !.f = g, !.st = "plain"]
            ELSE IF v.mountpoint = Null \/ v.lost THEN [x EXCEPT !.f = Stop(g, "wild mountpoint")]
            ELSE [x EXCEPT !.f = vref(vfs_close(g, x.dir), v.mountpoint),
                                    !.dir = v.mountpoint]
      after[k \in 0..MaxSteps] ==
        IF k = 0 THEN [f |-> f, dir |-> dir, st |-> "run"] ELSE Up(after[k - 1])
  IN  after[MaxSteps]

\* From a directory that is mounted on to the root of what is mounted there.
CrossDown(f, vn) ==
  LET Down(x) ==
        LET v == x.f.vn[x.vn].mountedhere
        IN  IF v = Null \/ x.f.node[x.vn].type # "VDIR" THEN x
            ELSE IF v = WildVfs THEN [x EXCEPT !.f = Stop(@, "wild mountedhere")]
            ELSE [f |-> ramfs_root(vfs_close(x.f, x.vn), v), vn |-> x.f.vfs[v].root]
      after[k \in 0..MaxVfs] == IF k = 0 THEN [f |-> f, vn |-> vn] ELSE Down(after[k - 1])
  IN  after[MaxVfs]

\* The label nextname of lookup().
NextName(w) ==
  IF Len(w.rest) = 1 THEN [w EXCEPT !.st = "done"]
  ELSE [w EXCEPT !.f = vfs_close(w.f, w.vdir), !.rest = Tail(@)]

\* A symbolic link was found: back in namei(), its text replaces the
\* component that named it.
FollowLink(w) ==
  LET link == w.f.node[w.vn].lnk
      put == vfs_close(w.f, w.vn)
  IN  IF link.abs
      THEN [w EXCEPT !.f = ramfs_root(vfs_close(put, w.vdir), RootVfs), !.vdir = Root,
                     !.dir = Root, !.rest = link.comps \o Tail(@)]
      ELSE [w EXCEPT !.f = put, !.dir = w.vdir, !.rest = link.comps \o Tail(@)]

\* VOP_LOOKUP of the next component in directory dir.
LookupComponent(w) ==
  LET Entered(down) ==
        LET found == [w EXCEPT !.f = AcquireVnode(down.f, down.vn), !.vdir = w.dir,
                               !.vn = down.vn, !.dir = down.vn]
        IN  IF down.f.node[down.vn].type = "VLNK" /\ (w.follow \/ Len(w.rest) > 1)
            THEN FollowLink(found)
            ELSE NextName(found)
      After(r) ==
        IF r.err # "OK" THEN [w EXCEPT !.f = r.f, !.vdir = w.dir, !.vn = r.vn,
                                       !.err = r.err, !.st = "done"]
        ELSE IF r.f.stop # "no" THEN [w EXCEPT !.f = r.f, !.st = "done"]
        ELSE Entered(CrossDown(r.f, r.vn))
  IN  After(ramfs_lookup(AcquireVnode(w.f, w.dir), w.dir, w.vn, w.rest))

\* One turn of the loop in lookup().
LookupStep(w) ==
  LET AtEnd == w.rest = <<>> \/ Head(w.rest) = ""
      DotDot(up) ==
        IF up.f.stop # "no" THEN [w EXCEPT !.f = up.f, !.st = "done"]
        ELSE IF up.st = "root"
        THEN NextName([w EXCEPT !.f = vref(up.f, up.dir), !.vdir = up.dir,
                                !.vn = up.dir, !.dir = up.dir])
        ELSE LookupComponent([w EXCEPT !.f = up.f, !.dir = up.dir])
  IN  IF AtEnd THEN [w EXCEPT !.f = vref(w.f, w.vdir), !.vn = w.vdir, !.st = "done"]
      ELSE IF Head(w.rest) = ".." THEN DotDot(CrossUp(w.f, w.dir))
      ELSE LookupComponent(w)

\* namei on an absolute path.  "follow" is the FOLLOW bit of nd.flags, which
\* no caller sets.  A walk that MaxSteps turns do not finish goes round a
\* cycle of symbolic links.
namei(f, path, follow) ==
  LET start == [f |-> ramfs_root(f, RootVfs), vdir |-> Root, dir |-> Root, vn |-> Null,
                rest |-> path, follow |-> follow, err |-> "OK", st |-> "run"]
      Turn(w) == IF w.st = "run" THEN LookupStep(w) ELSE w
      after[k \in 0..MaxSteps] == IF k = 0 THEN start ELSE Turn(after[k - 1])
      End(w) ==
        IF w.f.stop # "no" THEN [w EXCEPT !.err = "stopped", !.vn = Null, !.vdir = Root]
        ELSE IF w.st = "run" THEN [w EXCEPT !.f = Stop(@, "symlink cycle"), !.err = "stopped"]
        ELSE w
  IN  End(after[MaxSteps])

-----------------------------------------------------------------------------
(* The calls.  A reply carries the state, the error and the vnode stored   *)
(* in *vpp, Null if none is.                                               *)

Reply(f, err, vn) == [f |-> f, err |-> err, vn |-> vn]

\* The end of a call that made a file in directory w.vdir.
Created(w, r) ==
  Reply(vfs_close(r.f, w.vdir), r.err, IF r.err = "OK" THEN NewNode(w.f) ELSE Null)

\* Mutant: the new vnode is not handed out.
vfs_openCreateForgets(f, path, follow, type) ==
  LET After(w) ==
        LET r == ramfs_alloc_file(AcquireVnode(w.f, w.vdir), w.vdir, w.rest, type, NoLink)
        IN  Reply(vfs_close(IF w.err = "ENOENT" THEN r.f ELSE w.f, w.vdir), w.err, Null)
  IN  After(namei(f, path, follow))

vfs_openCreate(f, path, follow, type) ==
  LET After(w) ==
        LET r == ramfs_alloc_file(AcquireVnode(w.f, w.vdir), w.vdir, w.rest, type, NoLink)
        IN  IF w.err # "ENOENT"
            THEN Reply(PutIfAny(vfs_close(w.f, w.vdir), w.vn), w.err, Null)
            ELSE Created(w, r)
  IN  After(namei(f, path, follow))

vfs_open(f, path, follow) ==
  LET After(w) ==
        Reply(vfs_close(w.f, w.vdir), w.err, IF w.err = "OK" THEN w.vn ELSE Null)
  IN  After(namei(f, path, follow))

vfs_mkdir(f, path, follow) ==
  LET After(w) ==
        LET r == ramfs_alloc_file(AcquireVnode(w.f, w.vdir), w.vdir, w.rest, "VDIR", NoLink)
        IN  IF w.err # "ENOENT"
            THEN Reply(PutIfAny(vfs_close(w.f, w.vdir), w.vn),
                       IF w.err = "OK" THEN "EEXIST" ELSE w.err, Null)
            ELSE IF w.f.node[w.vdir].type # "VDIR"
            THEN Reply(vfs_close(w.f, w.vdir), "ENOTDIR", Null)
            ELSE Created(w, r)
  IN  After(namei(f, path, follow))

\* The vnode of the new link is not handed out and the error stays ENOENT.
vfs_symlink(f, path, link, follow) ==
  LET After(w) ==
        LET r == ramfs_alloc_file(AcquireVnode(w.f, w.vdir), w.vdir, w.rest, "VLNK", link)
        IN  IF w.err # "ENOENT"
            THEN Reply(PutIfAny(vfs_close(w.f, w.vdir), w.vn), w.err, Null)
            ELSE Reply(vfs_close(r.f, w.vdir), w.err, Null)
  IN  After(namei(f, path, follow))

\* The target stays locked during the second namei.
vfs_link(f, path, target, follow) ==
  LET Linked(vn, w) ==
        LET g == ramfs_link(AcquireVnode(w.f, w.vdir), w.vdir, vn, w.rest)
        IN  IF w.err # "ENOENT" THEN Reply(w.f, w.err, Null)
            ELSE Reply(vfs_close(vfs_close(g, w.vdir), vn), "OK", Null)
      After(w) ==
        LET locked == [AcquireVnode(w.f, w.vn) EXCEPT !.vn[w.vn].locked = TRUE]
            put == vfs_close(locked, w.vdir)
        IN  IF w.err # "OK" THEN Reply(w.f, w.err, Null)
            ELSE IF w.f.node[w.vn].type = "VDIR" THEN Reply(vfs_close(put, w.vn), "EISDIR", Null)
            ELSE Linked(w.vn, namei(put, path, follow))
  IN  After(namei(f, target, follow))

vfs_unlink(f, path, follow) ==
  LET After(w) ==
        LET locked == AcquireVnode(AcquireVnode(w.f, w.vn), w.vdir)
            r == IF w.f.vn[w.vn].vroot THEN Result(locked, "EBUSY")
                 ELSE ramfs_remove(locked, w.vdir, w.vn, w.rest)
        IN  IF w.err # "OK" THEN Reply(vfs_close(PutIfAny(w.f, w.vn), w.vdir), w.err, Null)
            ELSE Reply(vfs_close(vfs_close(r.f, w.vdir), w.vn), r.err, Null)
  IN  After(namei(f, path, follow))

vfs_rmdir(f, path, follow) ==
  LET After(w) ==
        LET locked == AcquireVnode(AcquireVnode(w.f, w.vn), w.vdir)
            r == IF w.vdir = w.vn THEN Result(locked, "EINVAL")
                 ELSE IF w.f.node[w.vn].type # "VDIR" THEN Result(locked, "ENOTDIR")
                 ELSE IF w.f.vn[w.vn].vroot THEN Result(locked, "EBUSY")
                 ELSE ramfs_rmdir(locked, w.vdir, w.vn, w.rest)
        IN  IF w.err # "OK" THEN Reply(vfs_close(PutIfAny(w.f, w.vn), w.vdir), w.err, Null)
            ELSE Reply(vfs_close(vfs_close(r.f, w.vdir), w.vn), r.err, Null)
  IN  After(namei(f, path, follow))

\* The struct vfs that kalloc returns next.
NewVfs(f) == f.mounts + 1

\* vfs_mount of a ramfs on a directory.
vfs_mount(f, path, follow) ==
  LET After(w) ==
        LET v == NewVfs(f)
            locked == AcquireVnode(w.f, w.vn)
            set == [locked EXCEPT !.mounts = v,
                                  !.vfs[v] = [NoVfs EXCEPT !.mounted = TRUE, !.mountpoint = w.vn],
                                  !.vn[w.vn].mountedhere = v]
            Fail(g, err) == Reply(vfs_close(PutIfAny(g, w.vn), w.vdir), err, Null)
        IN  IF w.err # "OK" THEN Fail(w.f, w.err)
            ELSE IF w.f.node[w.vn].type # "VDIR" THEN Fail(locked, "ENOTDIR")
            ELSE IF w.f.vn[w.vn].mountedhere # Null THEN Fail(locked, "EBUSY")
            ELSE Reply(ramfs_mount(vfs_close(vfs_close(set, w.vn), w.vdir), v), "OK", Null)
  IN  After(namei(f, path, follow))

\* Mutant: the directory keeps its pointer to the file system.
vfs_unmountKeeps(f, path, follow) ==
  LET After(w) ==
        LET v == w.f.vn[w.vn].vfs
            g == ramfs_unmount(vfs_close(w.f, w.vn), v)
        IN  IF w.err # "OK" \/ w.f.vfs[v].rootfs THEN Reply(f, "EINVAL", Null)
            ELSE Reply(vfs_close([g EXCEPT !.vfs[v].mounted = FALSE], w.vdir), "OK", Null)
  IN  After(namei(f, path, follow))

vfs_unmount(f, path, follow) ==
  LET Cleared(g, v) ==
        LET mntvnode == g.vfs[v].mountpoint
            gone == [g EXCEPT !.vfs[v].mounted = FALSE]
        IN  IF g.vfs[v].lost THEN [gone EXCEPT !.uaf = TRUE]
            ELSE [AcquireVnode(gone, mntvnode) EXCEPT !.vn[mntvnode].mountedhere = Null]
      After(w) ==
        LET v == w.f.vn[w.vn].vfs
            put == vfs_close(AcquireVnode(w.f, w.vn), w.vn)
        IN  IF w.err # "OK" THEN Reply(vfs_close(PutIfAny(w.f, w.vn), w.vdir), w.err, Null)
            ELSE IF ~w.f.vn[w.vn].vroot \/ w.f.vfs[v].rootfs THEN Reply(put, "EINVAL", Null)
            ELSE Reply(vfs_close(Cleared(ramfs_unmount(put, v), v), w.vdir), "OK", Null)
  IN  After(namei(f, path, follow))

-----------------------------------------------------------------------------
(* The system: after boot, any sequence of calls.                          *)

\* init_rootfs, vfs_mount(0, "ramfs") and init_rootvn, as kmain calls them.
RootFs ==
  LET empty == [used |-> 0, mounts |-> RootVfs, rootvn |-> Root,
                node |-> [n \in Nodes |-> FreeRamnode],
                vn |-> [n \in Nodes |-> NoVnode],
                vfs |-> [v \in VfsIds |-> IF v = RootVfs
                          THEN [NoVfs EXCEPT !.mounted = TRUE, !.rootfs = TRUE] ELSE NoVfs],
                dirty |-> FALSE, garbage |-> "none", uaf |-> FALSE, stop |-> "no"]
  IN  ramfs_root(ramfs_mount(empty, RootVfs), RootVfs)

Init == held = [n \in Nodes |-> 0] /\ fs = RootFs

\* The bounds: the client has room for a reference, the system for a node.
RoomToHold == FoldLeft(LAMBDA s, n : s + held[n], 0, [n \in Nodes |-> n]) < MaxHeld
RoomForNode == fs.used < MaxNode
RoomForVfs == fs.mounts < MaxVfs /\ RoomForNode

\* The end of a call made in state fs, with what it read from uninitialised
\* memory.
Return(r) ==
  /\ fs' = [r.f EXCEPT !.garbage = "none"]
  /\ held' = IF r.vn = Null \/ r.f.stop # "no" THEN held ELSE [held EXCEPT ![r.vn] = @ + 1]

Memory(garbage) == [fs EXCEPT !.garbage = garbage]

\* A path that runs through directories up to its last component, and does not
\* end in '/'.
RunsThroughDirs(path, follow) ==
  LET Fine(w) == w.err = "OK" \/ (w.err = "ENOENT" /\ Len(w.rest) = 1)
  IN  "" \notin ToSet(path) /\ Fine(namei(fs, path, follow))

Mkdir(c, garbage, follow) ==
  /\ c.op = "mkdir" /\ RoomToHold /\ RoomForNode
  /\ Return(vfs_mkdir(Memory(garbage), c.path, follow))

Create(c, garbage, follow) ==
  /\ c.op = "create" /\ RoomToHold /\ RoomForNode
  /\ Return(vfs_openCreate(Memory(garbage), c.path, follow, "VREG"))

Open(c, garbage, follow) ==
  /\ c.op = "open" /\ RoomToHold
  /\ Return(vfs_open(Memory(garbage), c.path, follow))

Symlink(c, garbage, follow) ==
  /\ c.op = "symlink" /\ RoomForNode
  /\ Return(vfs_symlink(Memory(garbage), c.path, c.arg, follow))

Link(c, garbage, follow) ==
  /\ c.op = "link"
  /\ Return(vfs_link(Memory(garbage), c.path, c.arg.comps, follow))

Unlink(c, garbage, follow) ==
  /\ c.op = "unlink"
  /\ Return(vfs_unlink(Memory(garbage), c.path, follow))

Rmdir(c, garbage, follow) ==
  /\ c.op = "rmdir"
  /\ Return(vfs_rmdir(Memory(garbage), c.path, follow))

Mount(c, garbage, follow) ==
  /\ c.op = "mount" /\ RoomForVfs
  /\ Return(vfs_mount(Memory(garbage), c.path, follow))

Unmount(c, garbage, follow) ==
  /\ c.op = "unmount"
  /\ Return(vfs_unmount(Memory(garbage), c.path, follow))

\* The client closes a vnode it was given.
Close(n) ==
  /\ held[n] > 0
  /\ held' = [held EXCEPT ![n] = @ - 1]
  /\ fs' = vfs_close(fs, n)

Call(c, garbage, follow) ==
  \/ Mkdir(c, garbage, follow)
  \/ Create(c, garbage, follow)
  \/ Open(c, garbage, follow)
  \/ Symlink(c, garbage, follow)
  \/ Link(c, garbage, follow)
  \/ Unlink(c, garbage, follow)
  \/ Rmdir(c, garbage, follow)
  \/ Mount(c, garbage, follow)
  \/ Unmount(c, garbage, follow)

\* What uninitialised memory holds, where it can make a difference.
Unset(c) ==
  {"none"} \cup (IF fs.dirty THEN {"flags"} ELSE {})
           \cup (IF c.op \in {"mkdir", "mount"} THEN {"entries"} ELSE {})
HasSymlink == \E n \in Nodes : fs.node[n].alive /\ fs.node[n].type = "VLNK"

Next ==
  /\ fs.stop = "no"
  /\ \A n \in Nodes : fs.vn[n].refcount <= MaxRef
  /\ \/ \E c \in Calls, follow \in {FALSE, HasSymlink} : \E garbage \in Unset(c) :
          /\ Careful => RunsThroughDirs(c.path, follow)
          /\ Call(c, garbage, follow)
     \/ \E n \in Nodes : Close(n)

Spec == Init /\ [][Next]_vars

-----------------------------------------------------------------------------
(* Properties                                                              *)

Live == {n \in Nodes : fs.node[n].alive}
Dirs == {n \in Live : fs.node[n].type = "VDIR"}
IsFsRoot(n) == fs.node[n].parent = n

\* The directory entries that refer to node n, as <<directory, index>>.
EntriesOf(n) ==
  UNION {{<<d, i>> : i \in {j \in DOMAIN fs.node[d].dents : fs.node[d].dents[j].node = n}}
           : d \in Dirs}

\* Type invariant.
TypeOK ==
  /\ held \in [Nodes -> 0..MaxHeld]
  /\ fs.used \in Nodes /\ fs.mounts \in VfsIds /\ fs.rootvn \in {Null, Root}
  /\ \A n \in Nodes :
       /\ fs.node[n].type \in VTypes /\ fs.node[n].links \in Nat
       /\ {fs.node[n].parent, fs.node[n].next} \subseteq Nodes \cup {Null}
       /\ fs.node[n].prev \in -MaxNode .. MaxNode
       /\ \A i \in DOMAIN fs.node[n].dents : fs.node[n].dents[i].node \in Nodes
       /\ fs.vn[n].refcount \in Nat /\ fs.vn[n].mountedhere \in VfsIds \cup {Null, WildVfs}

\* ramnode->linkcount is exactly the number of ways the node is named: its
\* directory entries, and for a directory its own entries, its "." while it
\* is in the tree, and the ".." of a root.  (As long as new directories start
\* empty, which ramfs_alloc_node() does not see to.)
LinkCounts ==
  \A n \in Live :
    fs.node[n].links = Cardinality(EntriesOf(n))
       + (IF n \in Dirs /\ (EntriesOf(n) # {} \/ IsFsRoot(n)) THEN 1 ELSE 0)
       + Len(fs.node[n].dents)
       + (IF IsFsRoot(n) THEN 1 ELSE 0)

\* No directory names a freed node, the ".." of a subdirectory is the
\* directory that names it, and no directory has two entries of one name (as
\* long as new directories start empty).
TreeIsSound ==
  \A d \in Dirs : \A i, j \in DOMAIN fs.node[d].dents :
    LET e == fs.node[d].dents[i]
    IN  /\ e.node \in Live
        /\ e.node \in Dirs => fs.node[e.node].parent = d /\ Cardinality(EntriesOf(e.node)) = 1
        /\ fs.node[d].dents[j].name = e.name => i = j

\* A vnode that a caller was given and has not closed is never freed under
\* it, nor is the root vnode, as long as callers only use paths that run through
\* directories and do not end in '/' (Careful).
HeldIsReferenced ==
  /\ \A n \in Nodes : held[n] > 0 => n \in Live /\ fs.vn[n].refcount >= held[n]
  /\ fs.vn[Root].refcount >= held[Root] + 1

\* A node without a name lives exactly as long as its vnode: removed files
\* are deleted with the last reference (ramfs_inactive), not kept for ever.
RemovedIsReferenced ==
  \A n \in Live : EntriesOf(n) = {} /\ ~IsFsRoot(n) => fs.vn[n].refcount > 0

\* A call deletes a file only when nothing names it and nobody holds it, or
\* with the file system that it is part of.
DeleteIsLast ==
  [][\A n \in Live : ~fs'.node[n].alive =>
       \/ fs'.vn[n].refcount = 0 /\ held'[n] = 0 /\ (EntriesOf(n))' = {}
       \/ \E v \in VfsIds : /\ fs.vfs[v].mounted /\ ~fs'.vfs[v].mounted
                            /\ n \in ToSet(NodeList(fs, v))]_vars

\* A directory that a path leads to and that is mounted on refers to a file
\* system that is mounted there and whose root exists, and no file system is
\* mounted twice.  (Of a removed directory the code overwrites mountedhere.)
MountsAgree ==
  \A n \in Dirs : LET v == fs.vn[n].mountedhere IN
    v # Null /\ (EntriesOf(n) # {} \/ IsFsRoot(n)) =>
      /\ v \in VfsIds /\ fs.vfs[v].mounted /\ ~fs.vfs[v].lost
      /\ fs.vfs[v].mountpoint = n /\ fs.vfs[v].root \in Live

-----------------------------------------------------------------------------
(* What comments and tests of the repository say, and the code does not do.*)

\* A mounted file system is entered through the directory it is mounted on
\* (fs/vfs.c:112).
MountStays ==
  \A v \in VfsIds : fs.vfs[v].mounted /\ ~fs.vfs[v].rootfs =>
    fs.vn[fs.vfs[v].mountpoint].mountedhere = v

\* A vnode is freed when its references are gone (vfs_close, fs/vfs.c:615): not
\* while a caller that was given one has not closed it.  The client may use any
\* path, as ramfs_t() does.
HeldOutlives == \A n \in Nodes : held[n] > 0 => fs.vn[n].refcount > 0
=============================================================================

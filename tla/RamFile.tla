------------------------------ MODULE RamFile ------------------------------
(***************************************************************************)
(* Reading and writing a regular file of the ramfs: vfs_read() and         *)
(* vfs_write() of fs/vfs.c over ramfs_read() and ramfs_write() of          *)
(* fs/ramfs/ramfs.c, by threads that run concurrently.                     *)
(*                                                                         *)
(* A request is [op, offset, count, buf], count > 0.  kalloc() returns     *)
(* memory that holds any bytes.                                            *)
(***************************************************************************)
EXTENDS Integers, FiniteSets

CONSTANTS
  Threads,
  Bytes,
  Requests, \* requests that threads make
  NoThread

Spans(r) == r.offset .. r.offset + r.count - 1

ASSUME RamFileAssumption ==
  /\ NoThread \notin Threads
  /\ \A r \in Requests :
       /\ r.op \in {"read", "write"}
       /\ r.offset \in Nat /\ r.count \in Nat \ {0}
       /\ r.op = "write" => r.buf \in [0 .. r.count - 1 -> Bytes]

VARIABLES
  size,     \* node->reg.size
  data,     \* node->reg.data
  vlock,    \* holder of vn->lock
  ramlock,  \* holder of node->ramlock
  pc,       \* where each thread is
  req,      \* its request
  newdata,  \* locals of ramfs_write()
  newsize,
  reply,    \* its last answer
  written   \* the positions that were written: no part of the program

vars == <<size, data, vlock, ramlock, pc, req, newdata, newsize, reply, written>>

Labels == {"idle", "lock", "ramlock", "body", "swap", "copy", "unlock", "vunlock"}

Empty == [x \in {} |-> x]
NoReply == [kind |-> "none"]

Init ==
  /\ size = 0 /\ data = Empty
  /\ vlock = NoThread /\ ramlock = NoThread
  /\ pc = [t \in Threads |-> "idle"]
  /\ req \in [Threads -> Requests]
  /\ newdata = [t \in Threads |-> Empty]
  /\ newsize = [t \in Threads |-> 0]
  /\ reply = [t \in Threads |-> NoReply]
  /\ written = {}

-----------------------------------------------------------------------------
Goto(t, label) == pc' = [pc EXCEPT ![t] = label]
fileVars == <<size, data, newdata, newsize, reply, written>>

Call(t, r) ==
  /\ pc[t] = "idle"
  /\ req' = [req EXCEPT ![t] = r]
  /\ Goto(t, "lock")
  /\ UNCHANGED <<vlock, ramlock, fileVars>>

\* acquire(&vn->lock) of vfs_read() and vfs_write().
Lock(t) ==
  /\ pc[t] = "lock" /\ vlock = NoThread
  /\ vlock' = t
  /\ Goto(t, "ramlock")
  /\ UNCHANGED <<ramlock, req, fileVars>>

\* acquire(&node->ramlock) of ramfs_read() and ramfs_write().
RamLock(t) ==
  /\ pc[t] = "ramlock" /\ ramlock = NoThread
  /\ ramlock' = t
  /\ Goto(t, "body")
  /\ UNCHANGED <<vlock, req, fileVars>>

End(t) == req[t].offset + req[t].count

\* Mutant: one more byte, whatever is asked for.
NewsizeOnce(end, ns) == ns = size + 1

\* size + 1, doubled until it is above end.
Newsize(end, ns) ==
  \E k \in 0 .. end :
    /\ ns = (size + 1) * 2 ^ k
    /\ ns > end
    /\ k > 0 => (size + 1) * 2 ^ (k - 1) <= end

\* Mutant: the old bytes are not copied.
GrowLosesOld(t) ==
  /\ pc[t] = "body" /\ req[t].op = "write" /\ End(t) >= size
  /\ \E ns \in size + 1 .. 2 * End(t) + 1 :
       /\ Newsize(End(t), ns)
       /\ newsize' = [newsize EXCEPT ![t] = ns]
       /\ \E all \in [0 .. ns - 1 -> Bytes] : newdata' = [newdata EXCEPT ![t] = all]
  /\ Goto(t, "swap")
  /\ UNCHANGED <<size, data, vlock, ramlock, req, reply, written>>

\* ramfs_write() of a request that does not fit: kalloc() and memcpy() of the
\* old bytes.
Grow(t) ==
  /\ pc[t] = "body" /\ req[t].op = "write" /\ End(t) >= size
  /\ \E ns \in size + 1 .. 2 * End(t) + 1 :
       /\ Newsize(End(t), ns)
       /\ newsize' = [newsize EXCEPT ![t] = ns]
       /\ \E rest \in [size .. ns - 1 -> Bytes] :
            newdata' = [newdata EXCEPT ![t] =
                          [x \in 0 .. ns - 1 |-> IF x < size THEN data[x] ELSE rest[x]]]
  /\ Goto(t, "swap")
  /\ UNCHANGED <<size, data, vlock, ramlock, req, reply, written>>

\* kfree() of the old bytes; the locals are of no use any more.
Swap(t) ==
  /\ pc[t] = "swap"
  /\ data' = newdata[t] /\ size' = newsize[t]
  /\ newdata' = [newdata EXCEPT ![t] = Empty]
  /\ newsize' = [newsize EXCEPT ![t] = 0]
  /\ Goto(t, "copy")
  /\ UNCHANGED <<vlock, ramlock, req, reply, written>>

Fits(t) ==
  /\ pc[t] = "body" /\ req[t].op = "write" /\ End(t) < size
  /\ Goto(t, "copy")
  /\ UNCHANGED <<vlock, ramlock, req, fileVars>>

\* memcpy() of the caller's bytes.
Copy(t) ==
  /\ pc[t] = "copy"
  /\ data' = [x \in 0 .. size - 1 |->
                IF x \in Spans(req[t]) THEN req[t].buf[x - req[t].offset] ELSE data[x]]
  /\ written' = written \cup Spans(req[t])
  /\ reply' = [reply EXCEPT ![t] = [kind |-> "written", req |-> req[t]]]
  /\ Goto(t, "unlock")
  /\ UNCHANGED <<size, vlock, ramlock, req, newdata, newsize>>

\* Mutant: a read waits for the bytes, with the lock of the vnode held.
ReadFailsWaits(t) ==
  /\ pc[t] = "body" /\ req[t].op = "read" /\ End(t) > size
  /\ ramlock' = NoThread
  /\ Goto(t, "ramlock")
  /\ UNCHANGED <<vlock, req, fileVars>>

ReadFails(t) ==
  /\ pc[t] = "body" /\ req[t].op = "read" /\ End(t) > size
  /\ reply' = [reply EXCEPT ![t] = [kind |-> "failed", req |-> req[t]]]
  /\ Goto(t, "unlock")
  /\ UNCHANGED <<size, data, vlock, ramlock, req, newdata, newsize, written>>

ReadCopy(t) ==
  /\ pc[t] = "body" /\ req[t].op = "read" /\ End(t) <= size
  /\ reply' = [reply EXCEPT ![t] =
       [kind |-> "read", req |-> req[t],
        buf |-> [k \in 0 .. req[t].count - 1 |-> data[req[t].offset + k]]]]
  /\ Goto(t, "unlock")
  /\ UNCHANGED <<size, data, vlock, ramlock, req, newdata, newsize, written>>

Unlock(t) ==
  /\ pc[t] = "unlock"
  /\ ramlock' = NoThread
  /\ Goto(t, "vunlock")
  /\ UNCHANGED <<vlock, req, fileVars>>

VUnlock(t) ==
  /\ pc[t] = "vunlock"
  /\ vlock' = NoThread
  /\ Goto(t, "idle")
  /\ UNCHANGED <<ramlock, req, fileVars>>

Step(t) ==
  \/ Lock(t) \/ RamLock(t) \/ Grow(t) \/ Swap(t) \/ Fits(t) \/ Copy(t)
  \/ ReadFails(t) \/ ReadCopy(t) \/ Unlock(t) \/ VUnlock(t)

Next == \E t \in Threads : Step(t) \/ \E r \in Requests : Call(t, r)

Spec == Init /\ [][Next]_vars

\* A thread that can take its next step goes on; nobody has to make a call.
FairSpec == Spec /\ \A t \in Threads : WF_vars(Step(t))

-----------------------------------------------------------------------------
\* Every variable has its type; in particular data is an array of size bytes.
TypeOK ==
  /\ size \in Nat /\ data \in [0 .. size - 1 -> Bytes]
  /\ vlock \in Threads \cup {NoThread} /\ ramlock \in Threads \cup {NoThread}
  /\ pc \in [Threads -> Labels] /\ req \in [Threads -> Requests]
  /\ newsize \in [Threads -> Nat] /\ newdata = [t \in Threads |-> newdata[t]]
  /\ \A t \in Threads : newdata[t] \in [0 .. newsize[t] - 1 -> Bytes]

\* The memcpy() of ramfs_write() stays inside the buffer: the file has been
\* grown to more than the end of the request, and no other thread changes it
\* between the check and the copy.
WriteFits == \A t \in Threads : pc[t] = "copy" => End(t) <= size

Content ==
  [x \in UNION {Spans(r) : r \in Requests} |-> IF x \in written THEN data[x] ELSE NoThread]

F == INSTANCE File WITH Hole <- NoThread, content <- Content

\* The file that ramfs_read() and ramfs_write() implement is the one of File:
\* under concurrent calls, reads return what was written last.
Implements == F!FileSpec

\* The vnode lock is released again, on the error paths too.
LockIsReleased == vlock # NoThread ~> vlock = NoThread
=============================================================================

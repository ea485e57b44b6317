--------------------------- MODULE RamFileProofs ---------------------------
(***************************************************************************)
(* Proofs about RamFile, for any number of threads and any requests: the   *)
(* copy of ramfs_write() stays inside the buffer, and the file implements  *)
(* the one of File.                                                        *)
(***************************************************************************)
EXTENDS RamFile, TLAPS

Inside == {"ramlock", "body", "swap", "copy", "unlock", "vunlock"}

\* A thread inside the call holds the vnode lock.
LockInv == \A t \in Threads : pc[t] \in Inside => vlock = t

\* The new buffer has room for the request and holds the old bytes.
SwapInv(t) ==
  pc[t] = "swap" =>
    /\ req[t].op = "write" /\ End(t) <= newsize[t] /\ size <= newsize[t]
    /\ \A x \in 0 .. size - 1 : newdata[t][x] = data[x]

CopyInv(t) == pc[t] = "copy" => req[t].op = "write" /\ End(t) <= size

\* A byte that was written once is in the buffer.
WrittenInv == written \subseteq 0 .. size - 1

\* The inductive invariant.
IInv == TypeOK /\ LockInv /\ WrittenInv /\ \A t \in Threads : SwapInv(t) /\ CopyInv(t)

-----------------------------------------------------------------------------
\* The parts of a request are numbers, and a write has its bytes.
LEMMA RequestFacts ==
  ASSUME TypeOK, NEW t \in Threads
  PROVE  /\ req[t] \in Requests /\ req[t].offset \in Nat /\ req[t].count \in Nat \ {0}
         /\ End(t) \in Nat /\ req[t].op \in {"read", "write"}
         /\ req[t].op = "write" => req[t].buf \in [0 .. req[t].count - 1 -> Bytes]
<1>1. req[t] \in Requests
  BY DEF TypeOK
<1>2. QED
  BY <1>1, RamFileAssumption DEF End

\* The positions of a request, counted from its offset.
LEMMA SpanFacts ==
  ASSUME NEW o \in Nat, NEW k \in Nat, NEW x \in o .. o + k - 1
  PROVE  x \in Nat /\ o <= x /\ x < o + k /\ x - o \in 0 .. k - 1 /\ o + (x - o) = x
  OBVIOUS

\* The positions of a request that ends inside a file of size s.
LEMMA SpanFits ==
  ASSUME NEW o \in Nat, NEW k \in Nat, NEW s \in Nat, o + k <= s
  PROVE  /\ \A x \in o .. o + k - 1 : x < s
         /\ \A i \in 0 .. k - 1 : o + i \in 0 .. s - 1
  OBVIOUS

\* Init establishes the invariant.
LEMMA InitInv == Init => IInv
  BY RamFileAssumption DEF Init, IInv, TypeOK, LockInv, WrittenInv, SwapInv, CopyInv, Inside,
     Labels, Empty

\* Two threads are never inside the call at once.
LEMMA OneInside ==
  ASSUME IInv, NEW t \in Threads, NEW u \in Threads, pc[t] \in Inside, pc[u] \in Inside
  PROVE  t = u
  BY DEF IInv, LockInv

-----------------------------------------------------------------------------
(* Every step keeps the invariant.                                         *)

\* A call starts outside the lock.
LEMMA CallStep == ASSUME IInv, NEW t \in Threads, NEW r \in Requests, Call(t, r) PROVE IInv'
<1>1. /\ pc[t] = "idle" /\ pc' = [pc EXCEPT ![t] = "lock"] /\ req' = [req EXCEPT ![t] = r]
      /\ UNCHANGED <<vlock, ramlock, size, data, newdata, newsize, written>>
  BY DEF Call, Goto, fileVars
<1>2. TypeOK'
  BY <1>1 DEF IInv, TypeOK, Labels
<1>3. LockInv' /\ WrittenInv'
  BY <1>1 DEF IInv, TypeOK, LockInv, WrittenInv, Inside
<1>4. ASSUME NEW u \in Threads PROVE SwapInv(u)' /\ CopyInv(u)'
  <2>1. CASE u = t
    BY <1>1, <2>1 DEF IInv, TypeOK, SwapInv, CopyInv
  <2>2. CASE u # t
    BY <1>1, <2>2 DEF IInv, TypeOK, SwapInv, CopyInv, End
  <2>3. QED
    BY <2>1, <2>2
<1>5. QED
  BY <1>2, <1>3, <1>4 DEF IInv

\* Taking and releasing the locks changes nothing of the file.
LEMMA LockStep ==
  ASSUME IInv, NEW t \in Threads, Lock(t) \/ RamLock(t) \/ Unlock(t) \/ VUnlock(t)
  PROVE  IInv'
<1>1. /\ UNCHANGED <<req, size, data, newdata, newsize, written>>
      /\ pc' \in [Threads -> Labels] /\ \A u \in Threads \ {t} : pc'[u] = pc[u]
      /\ pc'[t] \notin {"swap", "copy"}
      /\ vlock' \in Threads \cup {NoThread} /\ ramlock' \in Threads \cup {NoThread}
  BY Zenon DEF IInv, TypeOK, Lock, RamLock, Unlock, VUnlock, Goto, fileVars, Labels
<1>2. TypeOK'
  BY <1>1 DEF IInv, TypeOK
<1>3. LockInv'
  <2>1. CASE Lock(t)
    BY <2>1, RamFileAssumption DEF IInv, TypeOK, LockInv, Lock, Goto, Inside
  <2>2. CASE RamLock(t) \/ Unlock(t)
    BY <2>2 DEF IInv, TypeOK, LockInv, RamLock, Unlock, Goto, Inside
  <2>3. CASE VUnlock(t)
    BY <2>3 DEF IInv, TypeOK, LockInv, VUnlock, Goto, Inside
  <2>4. QED
    BY <2>1, <2>2, <2>3
<1>4. WrittenInv' /\ \A u \in Threads : SwapInv(u)' /\ CopyInv(u)'
  BY <1>1 DEF IInv, WrittenInv, SwapInv, CopyInv, End
<1>5. QED
  BY <1>2, <1>3, <1>4 DEF IInv

\* A read changes nothing of the file, nor does a write that fits.
LEMMA BodyStep ==
  ASSUME IInv, NEW t \in Threads, Fits(t) \/ ReadFails(t) \/ ReadCopy(t)
  PROVE  IInv'
<1>1. /\ UNCHANGED <<req, size, data, newdata, newsize, written, vlock, ramlock>>
      /\ pc[t] = "body" /\ pc' \in [Threads -> Labels]
      /\ \A u \in Threads \ {t} : pc'[u] = pc[u]
      /\ pc'[t] = "unlock" \/ (pc'[t] = "copy" /\ req[t].op = "write" /\ End(t) < size)
  BY Zenon DEF IInv, TypeOK, Fits, ReadFails, ReadCopy, Goto, fileVars, Labels
<1>2. TypeOK'
  BY <1>1 DEF IInv, TypeOK
<1>3. LockInv' /\ WrittenInv'
  BY <1>1 DEF IInv, LockInv, WrittenInv, Inside
<1>4. End(t) \in Nat /\ size \in Nat
  BY RequestFacts DEF IInv, TypeOK
<1>5. \A u \in Threads : SwapInv(u)' /\ CopyInv(u)'
  BY <1>1, <1>4 DEF IInv, SwapInv, CopyInv, End
<1>6. QED
  BY <1>2, <1>3, <1>5 DEF IInv

\* The buffer that kalloc() returned has room and gets the old bytes.
LEMMA GrowStep == ASSUME IInv, NEW t \in Threads, Grow(t) PROVE IInv'
<1>1. PICK ns \in size + 1 .. 2 * End(t) + 1 :
        /\ ns > End(t) /\ newsize' = [newsize EXCEPT ![t] = ns]
        /\ \E rest \in [size .. ns - 1 -> Bytes] :
             newdata' = [newdata EXCEPT ![t] =
                           [x \in 0 .. ns - 1 |-> IF x < size THEN data[x] ELSE rest[x]]]
  BY Zenon DEF Grow, Newsize
<1>2. PICK rest \in [size .. ns - 1 -> Bytes] :
        newdata' = [newdata EXCEPT ![t] =
                      [x \in 0 .. ns - 1 |-> IF x < size THEN data[x] ELSE rest[x]]]
  BY Zenon, <1>1
<1>3. /\ UNCHANGED <<req, size, data, written, vlock, ramlock>>
      /\ pc[t] = "body" /\ req[t].op = "write" /\ pc' = [pc EXCEPT ![t] = "swap"]
  BY DEF Grow, Goto
<1>4. size \in Nat /\ ns \in Nat /\ End(t) \in Nat /\ size < ns /\ data \in [0 .. size - 1 -> Bytes]
  BY <1>1, RequestFacts, SMTT(30) DEF IInv, TypeOK
<1>5. [x \in 0 .. ns - 1 |-> IF x < size THEN data[x] ELSE rest[x]] \in [0 .. ns - 1 -> Bytes]
  BY <1>4
<1>6. /\ newsize'[t] = ns
      /\ \A u \in Threads \ {t} : newsize'[u] = newsize[u] /\ pc'[u] = pc[u]
      /\ newsize' \in [Threads -> Nat] /\ pc' \in [Threads -> Labels] /\ pc'[t] = "swap"
  BY <1>1, <1>3, <1>4, Zenon DEF IInv, TypeOK, Labels
<1>7. /\ newdata' = [u \in Threads |-> newdata'[u]]
      /\ \A u \in Threads \ {t} : newdata'[u] = newdata[u]
      /\ newdata'[t] = [x \in 0 .. ns - 1 |-> IF x < size THEN data[x] ELSE rest[x]]
  BY Zenon, <1>2 DEF IInv, TypeOK
<1>8. newdata'[t] \in [0 .. ns - 1 -> Bytes] /\ \A x \in 0 .. size - 1 : newdata'[t][x] = data[x]
  BY <1>4, <1>5, <1>7
<1>9. TypeOK'
  <2>1. \A u \in Threads : newdata'[u] \in [0 .. newsize'[u] - 1 -> Bytes]
    BY Zenon, <1>6, <1>7, <1>8 DEF IInv, TypeOK
  <2>2. QED
    BY <1>3, <1>6, <1>7, <2>1, Zenon DEF IInv, TypeOK
<1>10. LockInv' /\ WrittenInv'
  BY <1>3, <1>6 DEF IInv, LockInv, WrittenInv, Inside
<1>11. SwapInv(t)' /\ CopyInv(t)'
  <2>1. End(t)' = End(t) /\ End(t) <= ns /\ size <= ns
    BY <1>1, <1>3, <1>4 DEF End
  <2>2. QED
    BY <1>3, <1>6, <1>8, <2>1 DEF SwapInv, CopyInv
<1>12. ASSUME NEW u \in Threads, u # t PROVE SwapInv(u)' /\ CopyInv(u)'
  <2>1. pc[u] \notin Inside /\ pc'[u] = pc[u]
    BY <1>3, <1>6, <1>12, OneInside DEF Inside
  <2>2. QED
    BY <2>1 DEF SwapInv, CopyInv, Inside
<1>13. QED
  BY <1>9, <1>10, <1>11, <1>12 DEF IInv

\* The new buffer replaces the old one.
LEMMA SwapStep == ASSUME IInv, NEW t \in Threads, Swap(t) PROVE IInv'
<1>1. /\ pc[t] = "swap" /\ data' = newdata[t] /\ size' = newsize[t]
      /\ newdata' = [newdata EXCEPT ![t] = Empty] /\ newsize' = [newsize EXCEPT ![t] = 0]
      /\ pc' = [pc EXCEPT ![t] = "copy"] /\ UNCHANGED <<vlock, ramlock, req, written>>
  BY DEF Swap, Goto
<1>2. /\ pc' \in [Threads -> Labels] /\ pc'[t] = "copy" /\ newsize'[t] = 0 /\ newdata'[t] = Empty
      /\ newsize' \in [Threads -> Nat] /\ newdata' = [u \in Threads |-> newdata'[u]]
      /\ \A u \in Threads \ {t} : pc'[u] = pc[u] /\ newsize'[u] = newsize[u] /\ newdata'[u] = newdata[u]
  BY Zenon, <1>1 DEF IInv, TypeOK, Labels
<1>3. Empty \in [0 .. 0 - 1 -> Bytes]
  BY DEF Empty
<1>4. TypeOK'
  <2>1. \A u \in Threads : newdata'[u] \in [0 .. newsize'[u] - 1 -> Bytes]
    BY Zenon, <1>2, <1>3 DEF IInv, TypeOK
  <2>2. size' \in Nat /\ data' \in [0 .. size' - 1 -> Bytes]
    BY <1>1 DEF IInv, TypeOK
  <2>3. QED
    BY <1>1, <1>2, <2>1, <2>2 DEF IInv, TypeOK
<1>5. LockInv'
  BY <1>1, <1>2 DEF IInv, LockInv, Inside
<1>6. WrittenInv'
  BY <1>1 DEF IInv, TypeOK, WrittenInv, SwapInv
<1>7. ASSUME NEW u \in Threads PROVE SwapInv(u)' /\ CopyInv(u)'
  <2>1. CASE u = t
    BY <1>1, <1>2, <2>1 DEF IInv, SwapInv, CopyInv, End
  <2>2. CASE u # t
    <3>1. pc[u] \notin Inside /\ pc'[u] = pc[u]
      BY <1>1, <1>2, <2>2, OneInside DEF Inside
    <3>2. QED
      BY <3>1 DEF SwapInv, CopyInv, Inside
  <2>3. QED
    BY <2>1, <2>2
<1>8. QED
  BY <1>4, <1>5, <1>6, <1>7 DEF IInv

\* The copy stays inside the buffer.
LEMMA CopyStep == ASSUME IInv, NEW t \in Threads, Copy(t) PROVE IInv'
<1>1. /\ pc[t] = "copy" /\ pc' = [pc EXCEPT ![t] = "unlock"]
      /\ data' = [x \in 0 .. size - 1 |->
                    IF x \in Spans(req[t]) THEN req[t].buf[x - req[t].offset] ELSE data[x]]
      /\ written' = written \cup Spans(req[t])
      /\ UNCHANGED <<size, vlock, ramlock, req, newdata, newsize>>
  BY DEF Copy, Goto
<1>2. /\ req[t].op = "write" /\ End(t) <= size /\ size \in Nat /\ End(t) = req[t].offset + req[t].count
      /\ req[t].offset \in Nat /\ req[t].count \in Nat
      /\ req[t].buf \in [0 .. req[t].count - 1 -> Bytes] /\ data \in [0 .. size - 1 -> Bytes]
  BY <1>1, RequestFacts DEF IInv, TypeOK, CopyInv, End
<1>a. \A x \in Spans(req[t]) :
        x \in Nat /\ x < size /\ x - req[t].offset \in 0 .. req[t].count - 1
  <2>1. ASSUME NEW x \in Spans(req[t])
        PROVE  x \in Nat /\ x - req[t].offset \in 0 .. req[t].count - 1
    <3>1. req[t].offset \in Nat /\ req[t].count \in Nat
      BY <1>2
    <3>2. x \in req[t].offset .. req[t].offset + req[t].count - 1
      BY <2>1 DEF Spans
    <3>3. QED
      BY <3>1, <3>2, SpanFacts
  <2>2. req[t].offset + req[t].count <= size
    BY <1>2
  <2>3. \A x \in Spans(req[t]) : x < size
    BY <1>2, <2>2, SpanFits DEF Spans
  <2>4. QED
    BY <2>1, <2>3
<1>b. ASSUME NEW x \in 0 .. size - 1
      PROVE  (IF x \in Spans(req[t]) THEN req[t].buf[x - req[t].offset] ELSE data[x]) \in Bytes
  <2>1. data[x] \in Bytes
    BY <1>2, <1>b
  <2>2. ASSUME x \in Spans(req[t]) PROVE req[t].buf[x - req[t].offset] \in Bytes
    <3>1. x - req[t].offset \in 0 .. req[t].count - 1
      BY <1>a, <2>2
    <3>2. req[t].buf \in [0 .. req[t].count - 1 -> Bytes]
      BY <1>2
    <3>3. QED
      BY <3>1, <3>2, Zenon
  <2>3. QED
    BY <2>1, <2>2
<1>3. data' \in [0 .. size - 1 -> Bytes]
  BY <1>1, <1>b
<1>4. pc' \in [Threads -> Labels] /\ pc'[t] = "unlock" /\ \A u \in Threads \ {t} : pc'[u] = pc[u]
  BY <1>1 DEF IInv, TypeOK, Labels
<1>5. TypeOK' /\ LockInv'
  BY <1>1, <1>3, <1>4 DEF IInv, TypeOK, LockInv, Inside
<1>6. WrittenInv'
  <2>1. written \subseteq 0 .. size - 1
    BY DEF IInv, WrittenInv
  <2>2. Spans(req[t]) \subseteq 0 .. size - 1
    <3>1. ASSUME NEW x \in Spans(req[t]) PROVE x \in 0 .. size - 1
      BY <1>2, <1>a
    <3>2. QED
      BY <3>1
  <2>3. written' \subseteq 0 .. size - 1
    BY Zenon, <1>1, <2>1, <2>2
  <2>4. QED
    BY <1>1, <2>3 DEF WrittenInv
<1>7. ASSUME NEW u \in Threads PROVE SwapInv(u)' /\ CopyInv(u)'
  <2>1. CASE u = t
    BY <1>4, <2>1 DEF SwapInv, CopyInv
  <2>2. CASE u # t
    <3>1. pc[u] \notin Inside /\ pc'[u] = pc[u]
      BY <1>1, <1>4, <2>2, OneInside DEF Inside
    <3>2. QED
      BY <3>1 DEF SwapInv, CopyInv, Inside
  <2>3. QED
    BY <2>1, <2>2
<1>8. QED
  BY <1>5, <1>6, <1>7 DEF IInv

\* The invariant holds in every state.
THEOREM Invariance == Spec => []IInv
<1>1. ASSUME IInv, [Next]_vars PROVE IInv'
  <2>1. CASE UNCHANGED vars
    BY <1>1, <2>1 DEF vars, IInv, TypeOK, LockInv, WrittenInv, SwapInv, CopyInv, End
  <2>2. ASSUME NEW t \in Threads, Step(t) PROVE IInv'
    BY <1>1, <2>2, LockStep, BodyStep, GrowStep, SwapStep, CopyStep DEF Step
  <2>3. ASSUME NEW t \in Threads, NEW r \in Requests, Call(t, r) PROVE IInv'
    BY <1>1, <2>3, CallStep
  <2>4. QED
    BY <1>1, <2>1, <2>2, <2>3 DEF Next
<1>2. QED
  BY <1>1, InitInv, PTL DEF Spec

\* Every variable keeps its type: reg.data is always an array of reg.size bytes.
THEOREM TypeCorrect == Spec => []TypeOK
<1>1. IInv => TypeOK
  BY DEF IInv
<1>2. QED
  BY <1>1, Invariance, PTL

\* The memcpy() of ramfs_write() never leaves the buffer.
THEOREM WritesFit == Spec => []WriteFits
<1>1. IInv => WriteFits
  BY DEF IInv, CopyInv, WriteFits
<1>2. QED
  BY <1>1, Invariance, PTL

-----------------------------------------------------------------------------
(* The refinement.                                                         *)

\* The copy of the bytes is the write of the abstract file.
LEMMA CopyRefines ==
  ASSUME IInv, NEW t \in Threads, Copy(t)
  PROVE  req[t].op = "write" /\ F!Write(t, req[t])
<1>1. /\ req[t].op = "write" /\ End(t) <= size /\ size \in Nat /\ written \subseteq 0 .. size - 1
      /\ req[t].offset \in Nat /\ req[t].count \in Nat /\ End(t) = req[t].offset + req[t].count
  BY RequestFacts DEF Copy, IInv, TypeOK, CopyInv, WrittenInv, End
<1>2. Spans(req[t]) \subseteq 0 .. size - 1
  BY <1>1 DEF Spans
<1>3. ASSUME NEW x \in UNION {Spans(r) : r \in Requests}
      PROVE  Content'[x] = IF x \in Spans(req[t]) THEN req[t].buf[x - req[t].offset] ELSE Content[x]
  <2>1. CASE x \in Spans(req[t])
    BY <1>2, <2>1 DEF Copy, Content
  <2>2. CASE x \notin Spans(req[t])
    BY <1>1, <2>2 DEF Copy, Content
  <2>3. QED
    BY <2>1, <2>2
<1>4. Content' = [x \in UNION {Spans(r) : r \in Requests} |->
                    IF x \in Spans(req[t]) THEN req[t].buf[x - req[t].offset] ELSE Content[x]]
  BY Zenon, <1>3 DEF Content
<1>5. reply' = [reply EXCEPT ![t] = [kind |-> "written", req |-> req[t]]]
  BY DEF Copy
<1>6. QED
  BY <1>1, <1>4, <1>5 DEF F!Write, F!Positions, F!Span, Spans

\* A read fails only beyond the buffer, where nothing was written.
LEMMA FailsRefines ==
  ASSUME IInv, NEW t \in Threads, ReadFails(t)
  PROVE  req[t].op = "read" /\ F!Fails(t, req[t])
<1>1. /\ req[t].op = "read" /\ End(t) > size /\ size \in Nat /\ written \subseteq 0 .. size - 1
      /\ req[t].offset \in Nat /\ req[t].count \in Nat \ {0} /\ End(t) = req[t].offset + req[t].count
      /\ req[t] \in Requests
  BY RequestFacts DEF ReadFails, IInv, TypeOK, WrittenInv, End
<1>2. End(t) - 1 \in Spans(req[t]) /\ End(t) - 1 \notin written
  BY <1>1 DEF Spans
<1>3. Content[End(t) - 1] = NoThread
  BY <1>1, <1>2 DEF Content
<1>4. UNCHANGED Content /\ reply' = [reply EXCEPT ![t] = [kind |-> "failed", req |-> req[t]]]
  BY DEF ReadFails, Content
<1>5. QED
  BY <1>1, <1>2, <1>3, <1>4 DEF F!Fails, F!Span, Spans

\* A read that succeeds returns the bytes of the buffer.
LEMMA ReadRefines ==
  ASSUME IInv, NEW t \in Threads, ReadCopy(t)
  PROVE  req[t].op = "read" /\ F!Read(t, req[t])
<1> DEFINE buf == [k \in 0 .. req[t].count - 1 |-> data[req[t].offset + k]]
<1>1. /\ req[t].op = "read" /\ End(t) <= size /\ size \in Nat /\ data \in [0 .. size - 1 -> Bytes]
      /\ req[t].offset \in Nat /\ req[t].count \in Nat /\ End(t) = req[t].offset + req[t].count
      /\ req[t] \in Requests
  BY RequestFacts DEF ReadCopy, IInv, TypeOK, End
<1>2. buf \in [0 .. req[t].count - 1 -> Bytes]
  <2>1. req[t].offset + req[t].count <= size
    BY <1>1
  <2>2. \A k \in 0 .. req[t].count - 1 : req[t].offset + k \in 0 .. size - 1
    BY <1>1, <2>1, SpanFits, SMTT(30)
  <2>3. QED
    BY <1>1, <2>2
<1>3. ASSUME NEW x \in Spans(req[t])
      PROVE  Content[x] \in {NoThread, buf[x - req[t].offset]}
  <2>1. x \in Nat /\ x - req[t].offset \in 0 .. req[t].count - 1
           /\ req[t].offset + (x - req[t].offset) = x
    <3>1. req[t].offset \in Nat /\ req[t].count \in Nat
      BY <1>1
    <3>2. x \in req[t].offset .. req[t].offset + req[t].count - 1
      BY <1>3 DEF Spans
    <3>3. QED
      BY <3>1, <3>2, SpanFacts
  <2>2. buf[x - req[t].offset] = data[x]
    BY <2>1
  <2>3. x \in UNION {Spans(r) : r \in Requests}
    BY <1>1, <1>3
  <2>4. QED
    BY <2>2, <2>3 DEF Content
<1>4. UNCHANGED Content /\ reply' = [reply EXCEPT ![t] = [kind |-> "read", req |-> req[t], buf |-> buf]]
  BY DEF ReadCopy, Content
<1> HIDE DEF buf
<1>5. QED
  BY Zenon, <1>1, <1>2, <1>3, <1>4 DEF F!Read, F!Span, Spans

\* The exchange of the buffers does not change a byte that was written.
LEMMA SwapRefines == ASSUME IInv, NEW t \in Threads, Swap(t) PROVE UNCHANGED F!fileVars
<1>1. /\ written \subseteq 0 .. size - 1 /\ written' = written /\ data' = newdata[t]
      /\ \A x \in 0 .. size - 1 : newdata[t][x] = data[x]
      /\ UNCHANGED reply
  BY DEF Swap, IInv, WrittenInv, SwapInv
<1>2. \A x \in written : data'[x] = data[x]
  BY <1>1
<1>3. UNCHANGED Content
  BY Zenon, <1>1, <1>2 DEF Content
<1>4. QED
  BY <1>1, <1>3 DEF F!fileVars

\* ramfs_read() and ramfs_write() under the vnode lock implement the file of
\* File: concurrent writes take effect one after the other, and reads return
\* what was written last.
THEOREM Refinement == Spec => Implements
<1>1. Init => F!FileInit
  BY DEF Init, F!FileInit, F!Positions, F!Span, F!None, Content, Spans, NoReply
<1>2. ASSUME IInv, [Next]_vars PROVE [F!FileNext]_(F!fileVars)
  <2>1. ASSUME NEW t \in Threads, Copy(t) \/ ReadFails(t) \/ ReadCopy(t) PROVE F!FileNext
    <3>1. req[t] \in Requests
      BY <1>2, RequestFacts DEF IInv
    <3>2. QED
      BY <1>2, <2>1, <3>1, CopyRefines, FailsRefines, ReadRefines DEF F!FileNext
  <2>2. ASSUME NEW t \in Threads, Grow(t) PROVE UNCHANGED F!fileVars
    BY <2>2 DEF Grow, F!fileVars, Content
  <2>3. ASSUME NEW t \in Threads,
               Lock(t) \/ RamLock(t) \/ Fits(t) \/ Unlock(t) \/ VUnlock(t)
        PROVE  UNCHANGED F!fileVars
    BY <2>3 DEF Lock, RamLock, Fits, Unlock, VUnlock, F!fileVars, fileVars, Content
  <2>4. ASSUME NEW t \in Threads, NEW r \in Requests, Call(t, r) PROVE UNCHANGED F!fileVars
    BY <2>4 DEF Call, F!fileVars, fileVars, Content
  <2>5. CASE UNCHANGED vars
    BY <2>5 DEF vars, F!fileVars, Content
  <2>6. QED
    BY <1>2, <2>1, <2>2, <2>3, <2>4, <2>5, SwapRefines DEF Next, Step
<1>3. QED
  BY <1>1, <1>2, Invariance, PTL DEF Spec, Implements, F!FileSpec
=============================================================================

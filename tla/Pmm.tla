-------------------------------- MODULE Pmm --------------------------------
(***************************************************************************)
(* The physical page allocator of kernel/pmm.c: palloc() and freepg() over *)
(* a bitmap that every CPU uses with no lock (the acquire() and release()  *)
(* calls are commented out).  A read of a bit is one step.  Setting or     *)
(* clearing one is two: the byte is read, changed and written back without *)
(* a bus lock.                                                             *)
(***************************************************************************)
EXTENDS Integers, FiniteSets

CONSTANTS
  CPUs,
  ByteBits,  \* bits of a byte, 8 in the kernel
  Lengths,   \* page counts that clients ask palloc() for
  MaxOwned   \* bound on the allocations a CPU holds

ASSUME PmmAssumption ==
  /\ ByteBits \in Nat \ {0} /\ MaxOwned \in Nat
  /\ Lengths \subseteq Nat \ {0}

VARIABLES
  npages,   \* bits of the bitmap
  reserved, \* ghost: the pages that initbmap() leaves set
  bitmap, \* the pages whose bit is set
  pc,     \* where each CPU is in palloc() or freepg()
  p,      \* first page of the call, palloc()'s candidate
  n,      \* pages or length argument of the call
  i,      \* loop index
  reg,    \* the byte read, as the set of pages whose bits are set in it
  owned   \* allocations of each CPU: <<first page, length>>

memory == <<npages, reserved>>
callVars == <<pc, p, n, i, reg, owned>>
vars == <<memory, bitmap, callVars>>

Pages == 0 .. npages - 1

Labels == {"idle", "scan", "set", "set_store", "reset", "reset_store", "wild"}

Run(first, len) == first .. first + len - 1

\* The pages of S whose bits are in the byte of that bit.
InByte(S, bit) == {b \in S : b \div ByteBits = bit \div ByteBits}

InitCalls ==
  /\ pc = [c \in CPUs |-> "idle"]
  /\ p = [c \in CPUs |-> 0]
  /\ n = [c \in CPUs |-> 0]
  /\ i = [c \in CPUs |-> 0]
  /\ reg = [c \in CPUs |-> {}]
  /\ owned = [c \in CPUs |-> {}]

\* As initbmap() leaves the bitmap, for any memory map.
Init ==
  /\ npages \in Nat /\ reserved \in SUBSET Pages /\ bitmap = reserved
  /\ InitCalls

-----------------------------------------------------------------------------
Goto(c, label) == pc' = [pc EXCEPT ![c] = label]

CallPalloc(c, pages) ==
  /\ pc[c] = "idle" /\ Cardinality(owned[c]) < MaxOwned
  /\ Goto(c, "scan")
  /\ p' = [p EXCEPT ![c] = 0]
  /\ n' = [n EXCEPT ![c] = pages]
  /\ i' = [i EXCEPT ![c] = 0]
  /\ UNCHANGED <<memory, bitmap, reg, owned>>

\* Mutant: the scan goes on behind a page in use.
ScanUsedSkips(c) ==
  /\ pc[c] = "scan" /\ i[c] < p[c] + n[c] /\ i[c] \in bitmap
  /\ i' = [i EXCEPT ![c] = @ + 1]
  /\ UNCHANGED <<memory, bitmap, pc, p, n, reg, owned>>

\* Mutant: two candidates are passed over.
ScanUsedFar(c) ==
  /\ pc[c] = "scan" /\ i[c] < p[c] + n[c] /\ i[c] \in bitmap
  /\ p' = [p EXCEPT ![c] = @ + 2]
  /\ i' = [i EXCEPT ![c] = p[c] + 2]
  /\ UNCHANGED <<memory, bitmap, pc, n, reg, owned>>

\* Mutant: the scan starts over from page 0.
ScanUsedRestarts(c) ==
  /\ pc[c] = "scan" /\ i[c] < p[c] + n[c] /\ i[c] \in bitmap
  /\ p' = [p EXCEPT ![c] = 0]
  /\ i' = [i EXCEPT ![c] = 0]
  /\ UNCHANGED <<memory, bitmap, pc, n, reg, owned>>

\* A page of the candidate run is in use: goto scanbitmap with the next one.
ScanUsed(c) ==
  /\ pc[c] = "scan" /\ i[c] < p[c] + n[c] /\ i[c] \in bitmap
  /\ p' = [p EXCEPT ![c] = @ + 1]
  /\ i' = [i EXCEPT ![c] = p[c] + 1]
  /\ UNCHANGED <<memory, bitmap, pc, n, reg, owned>>

ScanFree(c) ==
  /\ pc[c] = "scan" /\ i[c] < p[c] + n[c] /\ i[c] \in Pages \ bitmap
  /\ i' = [i EXCEPT ![c] = @ + 1]
  /\ UNCHANGED <<memory, bitmap, pc, p, n, reg, owned>>

\* The loop has no upper bound: it reads the memory behind the bitmap, and
\* what the call does from there on is not followed.
ScanBeyond(c) ==
  /\ pc[c] = "scan" /\ i[c] < p[c] + n[c] /\ i[c] \notin Pages
  /\ Goto(c, "wild")
  /\ UNCHANGED <<memory, bitmap, p, n, i, reg, owned>>

ScanDone(c) ==
  /\ pc[c] = "scan" /\ i[c] = p[c] + n[c]
  /\ Goto(c, "set")
  /\ i' = [i EXCEPT ![c] = p[c]]
  /\ UNCHANGED <<memory, bitmap, p, n, reg, owned>>

\* bitmap_set(): the load and the store of the byte.
SetLoad(c) ==
  /\ pc[c] = "set" /\ i[c] < p[c] + n[c]
  /\ Goto(c, "set_store")
  /\ reg' = [reg EXCEPT ![c] = InByte(bitmap, i[c])]
  /\ UNCHANGED <<memory, bitmap, p, n, i, owned>>

SetStore(c) ==
  /\ pc[c] = "set_store"
  /\ bitmap' = (bitmap \ InByte(bitmap, i[c])) \cup reg[c] \cup {i[c]}
  /\ i' = [i EXCEPT ![c] = @ + 1]
  /\ Goto(c, "set")
  /\ UNCHANGED <<memory, p, n, reg, owned>>

ReturnPalloc(c) ==
  /\ pc[c] = "set" /\ i[c] = p[c] + n[c]
  /\ owned' = [owned EXCEPT ![c] = @ \cup {<<p[c], n[c]>>}]
  /\ Goto(c, "idle")
  /\ UNCHANGED <<memory, bitmap, p, n, i, reg>>

\* freepg() of an allocation the CPU holds.
CallFreepg(c, a) ==
  /\ pc[c] = "idle" /\ a \in owned[c]
  /\ owned' = [owned EXCEPT ![c] = @ \ {a}]
  /\ p' = [p EXCEPT ![c] = a[1]]
  /\ n' = [n EXCEPT ![c] = a[2]]
  /\ i' = [i EXCEPT ![c] = a[1]]
  /\ Goto(c, "reset")
  /\ UNCHANGED <<memory, bitmap, reg>>

\* bitmap_reset(): the load and the store of the byte.
ResetLoad(c) ==
  /\ pc[c] = "reset" /\ i[c] < p[c] + n[c]
  /\ Goto(c, "reset_store")
  /\ reg' = [reg EXCEPT ![c] = InByte(bitmap, i[c])]
  /\ UNCHANGED <<memory, bitmap, p, n, i, owned>>

ResetStore(c) ==
  /\ pc[c] = "reset_store"
  /\ bitmap' = (bitmap \ InByte(bitmap, i[c])) \cup (reg[c] \ {i[c]})
  /\ i' = [i EXCEPT ![c] = @ + 1]
  /\ Goto(c, "reset")
  /\ UNCHANGED <<memory, p, n, reg, owned>>

\* Mutant: freepg() stops before the last page.
ReturnFreepgEarly(c) ==
  /\ pc[c] = "reset" /\ i[c] >= p[c] + n[c] - 1
  /\ Goto(c, "idle")
  /\ UNCHANGED <<memory, bitmap, p, n, i, reg, owned>>

ReturnFreepg(c) ==
  /\ pc[c] = "reset" /\ i[c] = p[c] + n[c]
  /\ Goto(c, "idle")
  /\ UNCHANGED <<memory, bitmap, p, n, i, reg, owned>>

Step(c) ==
  \/ ScanUsed(c) \/ ScanFree(c) \/ ScanBeyond(c) \/ ScanDone(c)
  \/ SetLoad(c) \/ SetStore(c) \/ ReturnPalloc(c)
  \/ ResetLoad(c) \/ ResetStore(c) \/ ReturnFreepg(c)

Next == \E c \in CPUs :
  \/ \E pages \in Lengths : CallPalloc(c, pages)
  \/ \E a \in owned[c] : CallFreepg(c, a)
  \/ Step(c)

Spec == Init /\ [][Next]_vars

\* A CPU in a call goes on executing; nobody has to make a call.
FairSpec == Spec /\ \A c \in CPUs : WF_vars(Step(c))

-----------------------------------------------------------------------------
\* Every variable has its type.
TypeOK ==
  /\ npages \in Nat /\ reserved \subseteq Pages /\ bitmap \subseteq Pages
  /\ pc \in [CPUs -> Labels]
  /\ p \in [CPUs -> Nat] /\ n \in [CPUs -> Nat] /\ i \in [CPUs -> Nat]
  /\ reg \in [CPUs -> SUBSET Pages]
  /\ owned \in [CPUs -> SUBSET (Nat \X Nat)]

\* No page belongs to two allocations: palloc() hands out only pages that
\* nobody holds.
NoDoubleAllocation ==
  \A c, d \in CPUs : \A a \in owned[c], b \in owned[d] :
    <<c, a>> # <<d, b>> => Run(a[1], a[2]) \cap Run(b[1], b[2]) = {}

OwnedPages(c) == UNION {Run(a[1], a[2]) : a \in owned[c]}

\* The pages of a call in progress whose bits are set: those palloc() has set
\* so far, those freepg() has not cleared yet.
InProgress(c) ==
  CASE pc[c] \in {"set", "set_store"} -> p[c] .. i[c] - 1
    [] pc[c] \in {"reset", "reset_store"} -> i[c] .. p[c] + n[c] - 1
    [] OTHER -> {}

\* The bitmap is exact: a bit is set for the pages that initbmap() reserved,
\* the pages of the allocations and the ones of calls in progress, and for no
\* other page, so that no allocation loses its bit and no freed page leaks.
BitmapExact == bitmap = reserved \cup UNION {OwnedPages(c) \cup InProgress(c) : c \in CPUs}

\* palloc() finds the lowest run of free pages that is long enough: every
\* candidate it has passed over has a page in use.
LowestRun ==
  \A c \in CPUs : pc[c] = "scan" =>
    \A q \in 0 .. p[c] - 1 : Run(q, n[c]) \cap bitmap # {}

\* Every call comes to its end, a palloc() that finds no run too: its candidate
\* only goes up, so that it returns or leaves the bitmap ("wild").
CallsEnd == \A c \in CPUs : pc[c] # "idle" ~> pc[c] \in {"idle", "wild"}
=============================================================================

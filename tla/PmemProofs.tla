----------------------------- MODULE PmemProofs ----------------------------
(***************************************************************************)
(* Proofs about the page allocator, for a kernel on which one CPU uses it. *)
(*                                                                         *)
(* First about Pmm alone, for every size of the bitmap, every reserved set *)
(* and every request.  Then about Pmem: for every memory map, page size    *)
(* and width of a byte, what is allocated after initbmap() is usable       *)
(* memory, and the guarantees of the allocator hold from the first         *)
(* instruction on.  Last, for a memory map that keeps the boot protocol,   *)
(* what exactly is free at first, and who is given a page of the bitmap.   *)
(***************************************************************************)
EXTENDS Pmem, TLAPS

Setting == {"set", "set_store"}
Resetting == {"reset", "reset_store"}
Storing == {"set_store", "reset_store"}

\* What a call has seen or changed so far.
CallInv(c) ==
  /\ pc[c] \in {"scan"} \cup Setting \cup Resetting =>
       p[c] <= i[c] /\ i[c] <= p[c] + n[c]
  /\ pc[c] = "scan" => \A x \in p[c] .. i[c] - 1 : x \in Pages \ bitmap
  /\ pc[c] \in Setting => \A x \in i[c] .. p[c] + n[c] - 1 : x \notin bitmap
  /\ pc[c] \in Storing => i[c] < p[c] + n[c] /\ reg[c] = InByte(bitmap, i[c])

\* The run of a call that sets or clears bits lies in the bitmap, apart from
\* the reserved pages and from the allocations.
RunInv(c) ==
  pc[c] \in Setting \cup Resetting =>
    \A x \in p[c] .. p[c] + n[c] - 1 :
      /\ x \in Pages \ reserved
      /\ \A a \in owned[c] : x \notin Run(a[1], a[2])

\* The allocations lie in the bitmap, apart from the reserved pages and from
\* each other.
OwnedInv(c) ==
  \A a \in owned[c] :
    /\ \A x \in Run(a[1], a[2]) : x \in Pages \ reserved
    /\ \A b \in owned[c] \ {a} : Run(a[1], a[2]) \cap Run(b[1], b[2]) = {}

\* BitmapExact, page by page.
ExactInv(c) ==
  \A x \in Pages : x \in bitmap <=>
    \/ x \in reserved
    \/ \E a \in owned[c] : x \in Run(a[1], a[2])
    \/ pc[c] \in Setting /\ p[c] <= x /\ x < i[c]
    \/ pc[c] \in Resetting /\ i[c] <= x /\ x < p[c] + n[c]

LowestInv(c) ==
  pc[c] = "scan" => \A q \in 0 .. p[c] - 1 : Run(q, n[c]) \cap bitmap # {}

CpuInv(c) == CallInv(c) /\ RunInv(c) /\ OwnedInv(c) /\ ExactInv(c) /\ LowestInv(c)

\* The inductive invariant.
IInv == TypeOK /\ \A c \in CPUs : CpuInv(c)

-----------------------------------------------------------------------------
\* A page is in its own byte.
LEMMA ByteFacts ==
  ASSUME NEW S, NEW x
  PROVE  InByte(S, x) \subseteq S /\ (x \in S => x \in InByte(S, x))
  BY Zenon DEF InByte

\* Pages are numbers.
LEMMA PagesNat == ASSUME TypeOK PROVE Pages \subseteq Nat
  BY DEF TypeOK, Pages

\* Init establishes the invariant.
LEMMA InitInv == Init => IInv
  BY DEF Init, InitCalls, IInv, TypeOK, CpuInv, CallInv, RunInv, OwnedInv, ExactInv,
     LowestInv, Labels, Setting, Resetting, Storing, Pages

\* The bitmap stays as long as it is.
LEMMA MemoryStays ==
  ASSUME [Next]_vars
  PROVE  npages' = npages /\ reserved' = reserved /\ Pages' = Pages
<1>1. UNCHANGED memory
  BY Zenon DEF Next, Step, CallPalloc, CallFreepg, ScanUsed, ScanFree, ScanBeyond, ScanDone, SetLoad,
     SetStore, ReturnPalloc, ResetLoad, ResetStore, ReturnFreepg, vars
<1> QED BY <1>1, Zenon DEF memory, Pages

\* Every step keeps the types.
LEMMA TypeStep == ASSUME IInv, [Next]_vars PROVE TypeOK'
<1> USE PmmAssumption DEF IInv, TypeOK, Labels
<1>0. npages' = npages /\ reserved' = reserved /\ Pages' = Pages
  BY MemoryStays, Zenon
<1>1. CASE UNCHANGED vars
  BY <1>0, <1>1, Zenon DEF vars, callVars
<1>2. ASSUME NEW c \in CPUs, NEW m \in Lengths, CallPalloc(c, m) PROVE TypeOK'
  BY <1>0, <1>2, Zenon DEF CallPalloc, Goto
<1>3. ASSUME NEW c \in CPUs, NEW a \in owned[c], CallFreepg(c, a) PROVE TypeOK'
  <2>1. a \in Nat \X Nat /\ a[1] \in Nat /\ a[2] \in Nat
    OBVIOUS
  <2>2. QED
    BY <1>0, <1>3, <2>1, Zenon DEF CallFreepg, Goto
<1>4. ASSUME NEW c \in CPUs, ScanUsed(c) \/ ScanFree(c) \/ ScanBeyond(c) \/ ScanDone(c) PROVE TypeOK'
  BY <1>0, <1>4 DEF ScanUsed, ScanFree, ScanBeyond, ScanDone, Goto
<1>5. ASSUME NEW c \in CPUs, SetLoad(c) \/ ResetLoad(c) PROVE TypeOK'
  BY <1>0, <1>5, ByteFacts DEF SetLoad, ResetLoad, Goto
<1>6. ASSUME NEW c \in CPUs, SetStore(c) PROVE TypeOK'
  <2>1. i[c] \in Pages
    BY <1>0, <1>6 DEF SetStore, CpuInv, CallInv, RunInv, Setting, Storing
  <2>2. QED
    BY <1>0, <1>6, <2>1 DEF SetStore, Goto
<1>7. ASSUME NEW c \in CPUs, ResetStore(c) PROVE TypeOK'
  BY <1>0, <1>7 DEF ResetStore, Goto
<1>8. ASSUME NEW c \in CPUs, ReturnPalloc(c) \/ ReturnFreepg(c) PROVE TypeOK'
  BY <1>0, <1>8 DEF ReturnPalloc, ReturnFreepg, Goto
<1>9. QED
  BY <1>0, <1>1, <1>2, <1>3, <1>4, <1>5, <1>6, <1>7, <1>8, Zenon DEF Next, Step
-----------------------------------------------------------------------------
(* A CPU's own steps keep its part of the invariant.  The steps of another  *)
(* CPU do not: that is the race of the unlocked bitmap.                     *)

\* The scan of palloc() starts with nothing seen.
LEMMA CallPallocInv ==
  ASSUME NEW c \in CPUs, TypeOK, TypeOK', CpuInv(c), NEW m \in Lengths, CallPalloc(c, m)
  PROVE  CpuInv(c)'
<1>1. /\ pc[c] = "idle" /\ pc'[c] = "scan" /\ bitmap' = bitmap /\ owned' = owned
      /\ Pages' = Pages /\ reserved' = reserved
      /\ p'[c] = 0 /\ i'[c] = 0 /\ n'[c] = m /\ m \in Nat
  BY PmmAssumption, Zenon DEF TypeOK, CallPalloc, Goto, memory, Pages
<1>a. CallInv(c)'
  BY <1>1 DEF TypeOK, CpuInv, CallInv, Setting, Resetting, Storing
<1>b. RunInv(c)'
  BY <1>1, Zenon DEF TypeOK, CpuInv, RunInv, Setting, Resetting
<1>c. OwnedInv(c)'
  BY <1>1, Zenon DEF CpuInv, OwnedInv
<1>d. ExactInv(c)'
  BY <1>1, PagesNat, Zenon DEF TypeOK, CpuInv, ExactInv, Setting, Resetting
<1>e. LowestInv(c)'
  BY <1>1 DEF TypeOK, CpuInv, LowestInv
<1>f. QED
  BY <1>a, <1>b, <1>c, <1>d, <1>e, Zenon DEF CpuInv

\* freepg() starts with every bit of its run set.
LEMMA CallFreepgInv ==
  ASSUME NEW c \in CPUs, TypeOK, TypeOK', CpuInv(c), NEW a \in owned[c], CallFreepg(c, a)
  PROVE  CpuInv(c)'
<1>1. a[1] \in Nat /\ a[2] \in Nat /\ a \in Nat \X Nat
  BY DEF TypeOK
<1>2. /\ pc[c] = "idle" /\ pc'[c] = "reset" /\ bitmap' = bitmap
      /\ Pages' = Pages /\ reserved' = reserved
      /\ p'[c] = a[1] /\ n'[c] = a[2] /\ i'[c] = a[1] /\ owned'[c] = owned[c] \ {a}
  BY Zenon DEF TypeOK, CallFreepg, Goto, memory, Pages
<1>3. CallInv(c)' /\ LowestInv(c)'
  BY <1>1, <1>2 DEF CallInv, LowestInv, Setting, Resetting, Storing
<1>4. RunInv(c)'
  BY <1>1, <1>2, Zenon DEF CpuInv, OwnedInv, RunInv, Run
<1>5. OwnedInv(c)'
  BY SMTT(30), <1>2 DEF CpuInv, OwnedInv
<1>6. ExactInv(c)'
  BY <1>1, <1>2, PagesNat DEF CpuInv, OwnedInv, ExactInv, Run, Setting, Resetting
<1>7. QED
  BY <1>3, <1>4, <1>5, <1>6, Zenon DEF CpuInv

\* The scan of palloc() knows the pages before its index to be free.
LEMMA ScanInv ==
  ASSUME NEW c \in CPUs, TypeOK, TypeOK', CpuInv(c), ScanUsed(c) \/ ScanFree(c) \/ ScanBeyond(c) \/ ScanDone(c)
  PROVE  CpuInv(c)'
<1>1. bitmap' = bitmap /\ owned' = owned /\ pc[c] = "scan" /\ Pages' = Pages /\ reserved' = reserved
  BY Zenon DEF ScanUsed, ScanFree, ScanBeyond, ScanDone, memory, Pages
<1>2. OwnedInv(c)'
  BY <1>1, Zenon DEF CpuInv, OwnedInv
<1>3. CASE ScanUsed(c)
  <2>1. Run(p[c], n[c]) \cap bitmap # {}
    BY <1>3 DEF TypeOK, ScanUsed, Run, CpuInv, CallInv
  <2>2. LowestInv(c)'
    BY <1>3, <2>1 DEF TypeOK, ScanUsed, CpuInv, LowestInv
  <2>3. pc' = pc /\ p'[c] = p[c] + 1 /\ i'[c] = p[c] + 1 /\ n' = n
    BY <1>3, Zenon DEF TypeOK, ScanUsed
  <2>4. CallInv(c)'
    BY <1>1, <1>3, <2>3 DEF TypeOK, ScanUsed, CpuInv, CallInv, Setting, Resetting, Storing
  <2>5. RunInv(c)' /\ ExactInv(c)'
    BY <1>1, <2>3, Zenon DEF CpuInv, RunInv, ExactInv, Setting, Resetting
  <2>6. QED
    BY <1>2, <2>2, <2>4, <2>5, Zenon DEF CpuInv
<1>4. CASE ScanFree(c)
  <2>1. pc' = pc /\ p' = p /\ i'[c] = i[c] + 1 /\ n' = n /\ i[c] \in Pages \ bitmap /\ i[c] < p[c] + n[c]
    BY <1>4, Zenon DEF TypeOK, ScanFree
  <2>a. CallInv(c)'
    BY <1>1, <2>1 DEF TypeOK, CpuInv, CallInv, Setting, Resetting, Storing
  <2>b. RunInv(c)'
    BY <1>1, <2>1, Zenon DEF TypeOK, CpuInv, RunInv, Setting, Resetting
  <2>c. OwnedInv(c)'
    BY <1>1, <2>1, Zenon DEF CpuInv, OwnedInv
  <2>d. ExactInv(c)'
    BY <1>1, <2>1, PagesNat, Zenon DEF TypeOK, CpuInv, ExactInv, Setting, Resetting
  <2>e. LowestInv(c)'
    BY <1>1, <2>1, Zenon DEF TypeOK, CpuInv, LowestInv
  <2>f. QED
    BY <2>a, <2>b, <2>c, <2>d, <2>e, Zenon DEF CpuInv
<1>5. CASE ScanBeyond(c)
  <2>1. pc'[c] = "wild"
    BY <1>5, Zenon DEF TypeOK, ScanBeyond, Goto, memory, Pages
  <2>a. CallInv(c)'
    BY <1>1, <2>1, Zenon DEF TypeOK, CpuInv, CallInv, Setting, Resetting, Storing
  <2>b. RunInv(c)'
    BY <1>1, <2>1, Zenon DEF TypeOK, CpuInv, RunInv, Setting, Resetting
  <2>c. OwnedInv(c)'
    BY <1>1, <2>1, Zenon DEF CpuInv, OwnedInv
  <2>d. ExactInv(c)'
    BY <1>1, <2>1, PagesNat, Zenon DEF TypeOK, CpuInv, ExactInv, Setting, Resetting
  <2>e. LowestInv(c)'
    BY <1>1, <2>1, Zenon DEF TypeOK, CpuInv, LowestInv
  <2>f. QED
    BY <2>a, <2>b, <2>c, <2>d, <2>e, Zenon DEF CpuInv
<1>6. CASE ScanDone(c)
  <2>1. /\ pc'[c] = "set" /\ p' = p /\ n' = n /\ i'[c] = p[c] /\ i[c] = p[c] + n[c]
    BY <1>6, Zenon DEF TypeOK, ScanDone, Goto, memory, Pages
  <2>2. \A x \in p[c] .. p[c] + n[c] - 1 : x \in Pages \ bitmap
    BY <1>1, <2>1 DEF TypeOK, CpuInv, CallInv
  <2>3. CallInv(c)' /\ LowestInv(c)'
    BY <1>1, <2>1, <2>2 DEF TypeOK, CallInv, LowestInv, Setting, Resetting, Storing
  <2>4. RunInv(c)'
    BY <1>1, <2>1, <2>2, Zenon DEF CpuInv, ExactInv, RunInv
  <2>5. ExactInv(c)'
    BY <1>1, <2>1, PagesNat DEF TypeOK, CpuInv, ExactInv, Setting, Resetting
  <2>6. QED
    BY <1>2, <2>3, <2>4, <2>5, Zenon DEF CpuInv
<1>7. QED
  BY <1>3, <1>4, <1>5, <1>6, Zenon

\* A load reads the byte as it is.
LEMMA LoadInv ==
  ASSUME NEW c \in CPUs, TypeOK, TypeOK', CpuInv(c), SetLoad(c) \/ ResetLoad(c)
  PROVE  CpuInv(c)'
<1>1. /\ bitmap' = bitmap /\ owned' = owned /\ p' = p /\ n' = n /\ i' = i
      /\ Pages' = Pages /\ reserved' = reserved
      /\ i[c] < p[c] + n[c] /\ reg'[c] = InByte(bitmap, i[c])
      /\ \/ pc[c] = "set" /\ pc'[c] = "set_store"
         \/ pc[c] = "reset" /\ pc'[c] = "reset_store"
  BY Zenon DEF TypeOK, SetLoad, ResetLoad, Goto, memory, Pages
<1>a. CallInv(c)'
  BY <1>1, Zenon DEF TypeOK, CpuInv, CallInv, Setting, Resetting, Storing
<1>b. RunInv(c)'
  BY <1>1, Zenon DEF TypeOK, CpuInv, RunInv, Setting, Resetting
<1>c. OwnedInv(c)'
  BY <1>1, Zenon DEF CpuInv, OwnedInv
<1>d. ExactInv(c)'
  BY <1>1, PagesNat, Zenon DEF TypeOK, CpuInv, ExactInv, Setting, Resetting
<1>e. LowestInv(c)'
  BY <1>1, Zenon DEF TypeOK, CpuInv, LowestInv
<1>f. QED
  BY <1>a, <1>b, <1>c, <1>d, <1>e, Zenon DEF CpuInv

\* A store of palloc() sets the bit of its index and no other.
LEMMA SetStoreInv ==
  ASSUME NEW c \in CPUs, TypeOK, TypeOK', CpuInv(c), SetStore(c)
  PROVE  CpuInv(c)'
<1>1. /\ Pages' = Pages /\ reserved' = reserved
      /\ pc[c] = "set_store" /\ pc'[c] = "set" /\ owned' = owned /\ p' = p /\ n' = n
      /\ i'[c] = i[c] + 1 /\ i[c] < p[c] + n[c] /\ p[c] <= i[c]
      /\ bitmap' = (bitmap \ InByte(bitmap, i[c])) \cup reg[c] \cup {i[c]}
      /\ reg[c] = InByte(bitmap, i[c])
  BY Zenon DEF TypeOK, SetStore, Goto, memory, Pages, CpuInv, CallInv, Setting, Storing
<1>2. bitmap' = bitmap \cup {i[c]}
  BY <1>1, ByteFacts
<1>3. i[c] \in Pages
  BY <1>1, Zenon DEF TypeOK, CpuInv, RunInv, Setting
<1>a. CallInv(c)'
  BY <1>1, <1>2, <1>3 DEF TypeOK, CpuInv, CallInv, Setting, Resetting, Storing
<1>b. RunInv(c)'
  BY <1>1, <1>2, <1>3, Zenon DEF TypeOK, CpuInv, RunInv, Setting, Resetting
<1>c. OwnedInv(c)'
  BY <1>1, <1>2, <1>3, Zenon DEF CpuInv, OwnedInv
<1>d. ExactInv(c)'
  <2>1. i[c] \in Nat /\ p[c] \in Nat /\ n[c] \in Nat
    BY Zenon DEF TypeOK
  <2>2. \A x \in Pages : x \in bitmap <=>
          \/ x \in reserved
          \/ \E a \in owned[c] : x \in Run(a[1], a[2])
          \/ p[c] <= x /\ x < i[c]
    BY <1>1, Zenon DEF CpuInv, ExactInv, Setting, Resetting
  <2>3. \A x \in Pages : p[c] <= x /\ x < i[c] + 1 <=> x = i[c] \/ (p[c] <= x /\ x < i[c])
    BY <1>1, <2>1 DEF Pages
  <2>4. \A x \in Pages : x \in bitmap' <=>
          \/ x \in reserved
          \/ \E a \in owned[c] : x \in Run(a[1], a[2])
          \/ p[c] <= x /\ x < i[c] + 1
    BY <1>2, <2>2, <2>3, Zenon
  <2>5. QED
    BY <1>1, <2>4, Zenon DEF ExactInv, Setting, Resetting
<1>e. LowestInv(c)'
  BY <1>1, <1>2, <1>3, Zenon DEF TypeOK, CpuInv, LowestInv
<1>f. QED
  BY <1>a, <1>b, <1>c, <1>d, <1>e, Zenon DEF CpuInv

\* A store of freepg() clears the bit of its index and no other.
LEMMA ResetStoreInv ==
  ASSUME NEW c \in CPUs, TypeOK, TypeOK', CpuInv(c), ResetStore(c)
  PROVE  CpuInv(c)'
<1>1. /\ Pages' = Pages /\ reserved' = reserved
      /\ pc[c] = "reset_store" /\ pc'[c] = "reset" /\ owned' = owned /\ p' = p /\ n' = n
      /\ i'[c] = i[c] + 1 /\ i[c] < p[c] + n[c] /\ p[c] <= i[c]
      /\ bitmap' = (bitmap \ InByte(bitmap, i[c])) \cup (reg[c] \ {i[c]})
      /\ reg[c] = InByte(bitmap, i[c])
  BY Zenon DEF TypeOK, ResetStore, Goto, memory, Pages, CpuInv, CallInv, Resetting, Storing
<1>2. i[c] \in Pages /\ i[c] \notin reserved /\ \A a \in owned[c] : i[c] \notin Run(a[1], a[2])
  BY <1>1 DEF TypeOK, CpuInv, RunInv, Resetting
<1>3. bitmap' = bitmap \ {i[c]}
  BY <1>1, <1>2, ByteFacts
<1>a. CallInv(c)'
  BY <1>1, <1>2, <1>3 DEF TypeOK, CpuInv, CallInv, Setting, Resetting, Storing
<1>b. RunInv(c)'
  BY <1>1, <1>2, <1>3, Zenon DEF TypeOK, CpuInv, RunInv, Setting, Resetting
<1>c. OwnedInv(c)'
  BY <1>1, <1>2, <1>3, Zenon DEF CpuInv, OwnedInv
<1>d. ExactInv(c)'
  BY SMTT(30), <1>1, <1>2, <1>3, PagesNat DEF TypeOK, CpuInv, ExactInv, Setting, Resetting
<1>e. LowestInv(c)'
  BY <1>1, <1>2, <1>3, Zenon DEF TypeOK, CpuInv, LowestInv
<1>f. QED
  BY <1>a, <1>b, <1>c, <1>d, <1>e, Zenon DEF CpuInv

\* palloc() returns a run whose bits are set, freepg() returns with them clear.
LEMMA ReturnInv ==
  ASSUME NEW c \in CPUs, TypeOK, TypeOK', CpuInv(c), ReturnPalloc(c) \/ ReturnFreepg(c)
  PROVE  CpuInv(c)'
<1>1. /\ bitmap' = bitmap /\ p' = p /\ n' = n /\ i' = i /\ pc'[c] = "idle"
      /\ Pages' = Pages /\ reserved' = reserved
  BY Zenon DEF TypeOK, ReturnPalloc, ReturnFreepg, Goto, memory, Pages
<1>2. CallInv(c)' /\ RunInv(c)' /\ LowestInv(c)'
  BY <1>1, Zenon DEF CallInv, RunInv, LowestInv, Setting, Resetting, Storing
<1>3. CASE ReturnPalloc(c)
  <2> DEFINE new == <<p[c], n[c]>>
  <2>1. /\ pc[c] = "set" /\ i[c] = p[c] + n[c] /\ owned'[c] = owned[c] \cup {new}
        /\ new[1] = p[c] /\ new[2] = n[c]
    BY <1>3, Zenon DEF TypeOK, ReturnPalloc
  <2>2. \A x \in Run(new[1], new[2]) :
          x \in Pages \ reserved /\ \A a \in owned[c] : x \notin Run(a[1], a[2])
    BY <2>1, Zenon DEF CpuInv, RunInv, Run, Setting
  <2> HIDE DEF new
  <2>3. OwnedInv(c)'
    <3> SUFFICES ASSUME NEW a \in owned'[c]
                 PROVE  /\ \A x \in Run(a[1], a[2]) : x \in Pages \ reserved
                        /\ \A b \in owned'[c] \ {a} : Run(a[1], a[2]) \cap Run(b[1], b[2]) = {}
      BY <1>1, SMTT(20) DEF OwnedInv, Run
    <3>1. \A b \in owned[c] : /\ \A x \in Run(b[1], b[2]) : x \in Pages \ reserved
                             /\ \A d \in owned[c] \ {b} : Run(b[1], b[2]) \cap Run(d[1], d[2]) = {}
      BY Zenon DEF CpuInv, OwnedInv
    <3>2. CASE a = new
      BY <2>1, <2>2, <3>2, Zenon
    <3>3. CASE a \in owned[c]
      <4>1. \A x \in Run(a[1], a[2]) : x \in Pages \ reserved
        BY <3>1, <3>3, Zenon
      <4>2. ASSUME NEW b \in owned'[c] \ {a} PROVE Run(a[1], a[2]) \cap Run(b[1], b[2]) = {}
        <5>1. CASE b = new
          BY <2>2, <3>3, <5>1, Zenon
        <5>2. CASE b \in owned[c]
          BY <3>1, <3>3, <4>2, <5>2, Zenon
        <5> QED BY <2>1, <5>1, <5>2, Zenon
      <4> QED BY <4>1, <4>2, Zenon
    <3> QED BY <2>1, <3>2, <3>3, SMTT(20)
  <2>4. \A x \in Pages : x \in Run(new[1], new[2]) <=> p[c] <= x /\ x < i[c]
    BY <2>1 DEF TypeOK, Run, Pages
  <2>5. ExactInv(c)'
    BY <1>1, <2>1, <2>4, Zenon DEF CpuInv, ExactInv, Setting, Resetting
  <2>6. QED
    BY <1>2, <2>3, <2>5, Zenon DEF CpuInv
<1>4. CASE ReturnFreepg(c)
  <2>1. pc[c] = "reset" /\ i[c] = p[c] + n[c] /\ owned' = owned
    BY <1>4, Zenon DEF ReturnFreepg
  <2>2. OwnedInv(c)'
    BY <1>1, <2>1, Zenon DEF CpuInv, OwnedInv
  <2>3. ExactInv(c)'
    BY <1>1, <2>1, PagesNat DEF TypeOK, CpuInv, ExactInv, Setting, Resetting
  <2>4. QED
    BY <1>2, <2>2, <2>3, Zenon DEF CpuInv
<1>5. QED
  BY <1>3, <1>4, Zenon

-----------------------------------------------------------------------------
\* With one CPU every step keeps the invariant.
LEMMA StepInv == ASSUME NEW boot, CPUs = {boot}, IInv, [Next]_vars PROVE IInv'
<1>1. TypeOK /\ TypeOK' /\ CpuInv(boot) /\ boot \in CPUs
  BY SMTT(30), TypeStep DEF IInv
<1>2. CASE UNCHANGED vars
  <2>1. /\ bitmap' = bitmap /\ pc' = pc /\ p' = p /\ n' = n /\ i' = i /\ reg' = reg /\ owned' = owned
        /\ reserved' = reserved /\ Pages' = Pages
    BY <1>2, MemoryStays, Zenon DEF vars, callVars
  <2>2. CallInv(boot)'
    BY <1>1, <2>1, Zenon DEF CpuInv, CallInv
  <2>3. RunInv(boot)'
    BY <1>1, <2>1, Zenon DEF CpuInv, RunInv
  <2>4. OwnedInv(boot)'
    BY <1>1, <2>1, Zenon DEF CpuInv, OwnedInv
  <2>5. ExactInv(boot)'
    BY <1>1, <2>1, Zenon DEF CpuInv, ExactInv
  <2>6. LowestInv(boot)'
    BY <1>1, <2>1, Zenon DEF CpuInv, LowestInv
  <2>7. QED
    BY <1>1, <2>2, <2>3, <2>4, <2>5, <2>6, Zenon DEF IInv, CpuInv
<1>3. CASE Next
  <2>1. \/ \E m \in Lengths : CallPalloc(boot, m)
        \/ \E a \in owned[boot] : CallFreepg(boot, a)
        \/ Step(boot)
    BY SMTT(30), <1>3 DEF Next
  <2>2. CpuInv(boot)'
    BY <1>1, <2>1, CallPallocInv, CallFreepgInv, ScanInv, LoadInv, SetStoreInv,
       ResetStoreInv, ReturnInv, Zenon DEF Step
  <2>3. QED
    BY <1>1, <2>2, Zenon DEF IInv
<1>4. QED
  BY <1>2, <1>3, Zenon

\* The inductive invariant holds in every state that one CPU reaches.
THEOREM Invariance == ASSUME NEW CONSTANT boot, CPUs = {boot} PROVE Spec => []IInv
<1>1. IInv /\ [Next]_vars => IInv'
  BY StepInv, Zenon
<1>2. QED
  BY <1>1, InitInv, PTL DEF Spec

\* palloc() on one CPU never hands out a page that an allocation in use
\* holds.
THEOREM OneCpuNoDoubleAllocation ==
  ASSUME NEW CONSTANT boot, CPUs = {boot} PROVE Spec => []NoDoubleAllocation
<1>1. IInv => NoDoubleAllocation
  BY Zenon DEF IInv, CpuInv, OwnedInv, NoDoubleAllocation
<1>2. QED
  BY <1>1, Invariance, PTL

\* palloc() and freepg() on one CPU keep the bitmap exact: the bits set are
\* those of the reserved pages, the allocations and the call in progress.
THEOREM OneCpuBitmapExact ==
  ASSUME NEW CONSTANT boot, CPUs = {boot} PROVE Spec => []BitmapExact
<1>1. ASSUME IInv PROVE BitmapExact
  <2> USE <1>1
  <2>1. /\ bitmap \subseteq Pages /\ reserved \subseteq Pages
        /\ i[boot] \in Nat /\ p[boot] \in Nat /\ n[boot] \in Nat
    BY PmmAssumption, Zenon DEF IInv, TypeOK
  <2>2. CallInv(boot) /\ RunInv(boot) /\ OwnedInv(boot) /\ ExactInv(boot)
    BY Zenon DEF IInv, CpuInv
  <2>3. InProgress(boot) \subseteq Pages
    BY <2>1, <2>2 DEF InProgress, CallInv, RunInv, Setting, Resetting
  <2>4. \A x \in Pages : x \in InProgress(boot) <=>
          \/ pc[boot] \in Setting /\ p[boot] <= x /\ x < i[boot]
          \/ pc[boot] \in Resetting /\ i[boot] <= x /\ x < p[boot] + n[boot]
    BY <2>1 DEF InProgress, Setting, Resetting, Pages
  <2>5. OwnedPages(boot) \subseteq Pages
    BY <2>2, Zenon DEF OwnedInv, OwnedPages
  <2>6. \A x : x \in OwnedPages(boot) <=> \E a \in owned[boot] : x \in Run(a[1], a[2])
    BY Zenon DEF OwnedPages
  <2>7. \A x \in Pages : x \in bitmap <=>
          x \in reserved \/ x \in OwnedPages(boot) \/ x \in InProgress(boot)
    BY <2>2, <2>4, <2>6, Zenon DEF ExactInv
  <2>8. bitmap = reserved \cup (OwnedPages(boot) \cup InProgress(boot))
    BY <2>1, <2>3, <2>5, <2>7, Zenon
  <2>9. UNION {OwnedPages(c) \cup InProgress(c) : c \in CPUs} =
          OwnedPages(boot) \cup InProgress(boot)
    BY Zenon
  <2>10. QED
    BY <2>8, <2>9, Zenon DEF BitmapExact
<1>2. QED
  BY <1>1, Invariance, PTL

\* palloc() on one CPU is first fit: every candidate passed over has a page in
\* use.
THEOREM OneCpuLowestRun ==
  ASSUME NEW CONSTANT boot, CPUs = {boot} PROVE Spec => []LowestRun
<1>1. IInv => LowestRun
  BY Zenon DEF IInv, CpuInv, LowestInv, LowestRun
<1>2. QED
  BY <1>1, Invariance, PTL
-----------------------------------------------------------------------------
(* initbmap() and kmain()                                                  *)

\* An entry of the memory map, shortened from below or not.
EntryInv(k) ==
  /\ memmap[k].usable = given[k].usable
  /\ memmap[k].base \in Nat /\ memmap[k].length \in Nat
  /\ given[k].base <= memmap[k].base
  /\ memmap[k].base + memmap[k].length = given[k].base + given[k].length

MapInv ==
  /\ given \in MemMaps /\ DOMAIN memmap = DOMAIN given /\ Len(memmap) = Len(given)
  /\ \A k \in DOMAIN given : EntryInv(k)
  /\ entry \in Nat \ {0} /\ bitmap_size \in Nat /\ highest_addr \in Nat

\* The bits of the bitmap, from the moment it is placed.
BitsInv ==
  /\ npages = bitmap_size * ByteBits
  /\ reserved \subseteq Pages
  /\ pass \in {1, 2} => reserved = {} /\ bitmap_addr = -1
  /\ bitmap_addr # -1 => \A g \in Pages : g \in reserved \/ g \in Boot!UsablePages

\* Nobody allocates before the bitmap is there.
QuietInv ==
  ~Ready => /\ bitmap = reserved /\ kept = {}
            /\ \A c \in CPUs : pc[c] = "idle" /\ owned[c] = {} /\ reg[c] = {}

\* The inductive invariant.
PmemInv == MapInv /\ BitsInv /\ QuietInv /\ IInv

-----------------------------------------------------------------------------
\* Division by the size of a page keeps the order.
LEMMA DivMono ==
  ASSUME NEW a \in Nat, NEW b \in Nat, NEW d \in Nat \ {0}, a <= b
  PROVE  a \div d <= b \div d /\ a \div d \in Nat
  OBVIOUS

\* Pass 3 frees pages of usable entries only.
LEMMA Freed ==
  ASSUME MapInv, Boot!Usable, NEW j \in Nat, j * PGSIZE < memmap[entry].length
  PROVE  (memmap[entry].base + j * PGSIZE) \div PGSIZE \in Boot!UsablePages
<1> DEFINE b == given[entry].base
           e == given[entry].base + given[entry].length
           a == memmap[entry].base + j * PGSIZE
<1>1. PGSIZE \in Nat \ {0} /\ j * PGSIZE \in Nat
  BY PmemAssumption
<1>2. given \in Seq(Region)
  BY PmemAssumption, Zenon DEF MapInv
<1>3. entry \in DOMAIN given /\ entry \in 1 .. Len(given) /\ memmap[entry].usable
  BY <1>2 DEF MapInv, Boot!Usable
<1>4. given[entry] \in Region
  BY <1>2, <1>3
<1>5. EntryInv(entry)
  BY <1>3, Zenon DEF MapInv
<1>6. b \in Nat /\ e \in Nat /\ a \in Nat /\ b <= a /\ a <= e - 1 /\ e - 1 \in Nat
  BY <1>1, <1>4, <1>5 DEF EntryInv, Region
<1>7. given[entry].usable
  BY <1>3, <1>5, Zenon DEF EntryInv
<1> HIDE DEF b, e, a
<1>8. b \div PGSIZE <= a \div PGSIZE /\ a \div PGSIZE <= (e - 1) \div PGSIZE
      /\ b \div PGSIZE \in Nat /\ a \div PGSIZE \in Nat /\ (e - 1) \div PGSIZE \in Nat
  BY <1>1, <1>6, DivMono
<1>9. a \div PGSIZE \in Boot!PageOf(given[entry].base) .. Boot!PageOf(Boot!End(given[entry]) - 1)
  BY <1>8 DEF b, e, Boot!PageOf, Boot!End
<1> QED BY <1>3, <1>7, <1>9, Zenon DEF a, Boot!UsablePages

\* The invariant holds at the start.
LEMMA PmemInitInv == PmemInit => PmemInv
<1> SUFFICES ASSUME PmemInit PROVE PmemInv
  BY Zenon
<1>1. given \in Seq(Region) /\ memmap = given
  BY PmemAssumption, Zenon DEF PmemInit, Boot!Init
<1>2. ASSUME NEW k \in DOMAIN given PROVE EntryInv(k)
  <2>1. given[k] \in Region
    BY <1>1
  <2> QED BY <1>1, <2>1 DEF EntryInv, Region
<1>3. MapInv
  BY <1>1, <1>2 DEF PmemInit, Boot!Init, MapInv
<1>4. BitsInv
  BY PmmAssumption DEF PmemInit, Boot!Init, Boot!NoBitmap, BitsInv
<1>5. QuietInv
  BY Zenon DEF PmemInit, Boot!Init, InitCalls, QuietInv
<1>6. npages \in Nat /\ reserved \in SUBSET Pages /\ bitmap = reserved /\ InitCalls
  BY Zenon DEF PmemInit, Boot!Init
<1>7. IInv
  BY <1>6, InitInv, Zenon DEF Init
<1> QED BY <1>3, <1>4, <1>5, <1>7, Zenon DEF PmemInv

-----------------------------------------------------------------------------
\* Before the bitmap is there, the allocator's invariant is a matter of types.
LEMMA QuietIInv ==
  ASSUME IInv, npages' \in Nat, reserved' \subseteq Pages', bitmap' = reserved',
         UNCHANGED callVars, \A c \in CPUs : pc[c] = "idle" /\ owned[c] = {} /\ reg[c] = {}
  PROVE  IInv'
<1>1. reg' \in [CPUs -> SUBSET Pages']
  <2>1. DOMAIN reg = CPUs /\ reg = [c \in CPUs |-> reg[c]]
    BY Zenon DEF IInv, TypeOK
  <2>2. \A c \in CPUs : reg[c] \in SUBSET Pages'
    BY Zenon
  <2> QED BY <2>1, <2>2, Zenon DEF callVars
<1>a. TypeOK'
  BY <1>1, Zenon DEF IInv, TypeOK, callVars
<1>2. ASSUME NEW c \in CPUs PROVE CpuInv(c)'
  BY <1>2, Zenon DEF callVars, CpuInv, CallInv, RunInv, OwnedInv, ExactInv, LowestInv,
     Setting, Resetting, Storing
<1> QED BY <1>a, <1>2, Zenon DEF IInv

\* The steps of initbmap() that leave the bits and the entries alone.
LEMMA PassInv ==
  ASSUME MapInv, BitsInv, Boot!Skip \/ Boot!Highest \/ Boot!TooSmall \/ Boot!NotPlaced \/ Boot!Return
                          \/ Boot!SizeBitmap,
         npages' = bitmap_size' * ByteBits
  PROVE  MapInv' /\ BitsInv'
<1>1. /\ UNCHANGED <<given, memmap, bitmap_addr, reserved>> /\ entry' \in Nat \ {0}
      /\ pass' \in {1, 2} => pass \in {1, 2}
  BY DEF Boot!Skip, Boot!Highest, Boot!TooSmall, Boot!NotPlaced, Boot!Return, Boot!SizeBitmap, MapInv
<1>a. bitmap_size' \in Nat
  <2>1. highest_addr \div PGSIZE \in Nat
    BY PmemAssumption, DivMono DEF MapInv
  <2>2. (highest_addr \div PGSIZE) \div ByteBits \in Nat
    BY <2>1, PmmAssumption, DivMono
  <2> QED
    BY <2>2, Zenon DEF Boot!Skip, Boot!Highest, Boot!TooSmall, Boot!NotPlaced, Boot!Return,
                Boot!SizeBitmap, MapInv
<1>b. highest_addr' \in Nat
  <2>1. CASE Boot!Highest
    <3>1. entry \in DOMAIN memmap
      <4>1. given \in Seq(Region)
        BY PmemAssumption, Zenon DEF MapInv
      <4> QED BY <2>1, <4>1 DEF Boot!Highest, Boot!Usable, MapInv
    <3>2. EntryInv(entry)
      BY <3>1, Zenon DEF MapInv
    <3> QED BY <2>1, <3>2 DEF Boot!Highest, Boot!End, EntryInv, MapInv
  <2> QED
    BY <2>1, Zenon DEF Boot!Skip, Boot!TooSmall, Boot!NotPlaced, Boot!Return, Boot!SizeBitmap, MapInv
<1>2. MapInv'
  BY <1>1, <1>a, <1>b, Zenon DEF MapInv, EntryInv
<1>3. \/ npages' = npages
      \/ reserved = {} /\ bitmap_addr = -1
  BY Zenon DEF Boot!Skip, Boot!Highest, Boot!TooSmall, Boot!NotPlaced, Boot!Return, Boot!SizeBitmap, BitsInv
<1>4. BitsInv'
  BY <1>1, <1>3, Zenon DEF BitsInv, Pages, Boot!UsablePages, Boot!PageOf, Boot!End
<1> QED BY <1>2, <1>4, Zenon

\* The bitmap is placed: every bit is set, and the entry gets shorter.
LEMMA PlaceInv ==
  ASSUME MapInv, BitsInv, Boot!Place, npages' = bitmap_size' * ByteBits
  PROVE  MapInv' /\ BitsInv'
<1>1. given \in Seq(Region)
  BY PmemAssumption, Zenon DEF MapInv
<1>2. entry \in DOMAIN memmap /\ DOMAIN memmap = DOMAIN given
  BY <1>1 DEF Boot!Place, Boot!Usable, MapInv
<1>3. /\ UNCHANGED <<given, highest_addr, bitmap_size>> /\ entry' = 1 /\ pass' = 3
      /\ reserved' = 0 .. bitmap_size * ByteBits - 1 /\ npages' = npages
      /\ bitmap_size <= memmap[entry].length /\ bitmap_size \in Nat
  BY <1>2, Zenon DEF Boot!Place, MapInv, EntryInv, BitsInv
<1>4. memmap' = [memmap EXCEPT ![entry].length = @ - bitmap_size, ![entry].base = @ + bitmap_size]
  BY Zenon DEF Boot!Place
<1>5. DOMAIN memmap' = DOMAIN memmap /\ Len(memmap') = Len(memmap)
  BY <1>4 DEF MapInv
<1>6. ASSUME NEW k \in DOMAIN given PROVE EntryInv(k)'
  <2>1. EntryInv(k)
    BY Zenon DEF MapInv
  <2>2. CASE k # entry
    <3>1. memmap'[k] = memmap[k]
      BY <1>2, <1>4, <2>2, Zenon
    <3> QED BY <1>3, <2>1, <3>1, Zenon DEF EntryInv
  <2>3. CASE k = entry
    <3>1. /\ memmap'[k].usable = memmap[k].usable
          /\ memmap'[k].length = memmap[k].length - bitmap_size
          /\ memmap'[k].base = memmap[k].base + bitmap_size
      BY <1>2, <1>4, <2>3
    <3>2. given[k] \in Region
      BY <1>1
    <3>3. given[k].base \in Nat /\ given[k].length \in Nat
      BY <3>2, Zenon DEF Region
    <3>4. memmap'[k].usable = given'[k].usable
      BY <1>3, <2>1, <3>1, Zenon DEF EntryInv
    <3>5. /\ memmap'[k].base \in Nat /\ memmap'[k].length \in Nat /\ given[k].base <= memmap'[k].base
          /\ memmap'[k].base + memmap'[k].length = given[k].base + given[k].length
      <4>1. bitmap_size <= memmap[k].length /\ bitmap_size \in Nat
        BY <1>3, <2>3, Zenon
      <4>2. /\ memmap[k].base \in Nat /\ memmap[k].length \in Nat
            /\ given[k].base <= memmap[k].base
            /\ memmap[k].base + memmap[k].length = given[k].base + given[k].length
        BY <2>1, Zenon DEF EntryInv
      <4> QED BY <3>1, <3>3, <4>1, <4>2
    <3> QED BY <1>3, <3>4, <3>5, Zenon DEF EntryInv
  <2> QED BY <2>2, <2>3, Zenon
<1>7. MapInv'
  BY <1>3, <1>5, <1>6 DEF MapInv
<1>8. BitsInv'
  BY <1>3 DEF BitsInv, Pages
<1> QED BY <1>7, <1>8, Zenon

\* Pass 3 leaves the bits of all memory set that is not usable.
LEMMA FreeInv ==
  ASSUME MapInv, BitsInv, Boot!FreeEntry, npages' = bitmap_size' * ByteBits
  PROVE  MapInv' /\ BitsInv'
<1>1. /\ UNCHANGED <<given, memmap, pass, highest_addr, bitmap_addr, bitmap_size>>
      /\ entry' = entry + 1 /\ pass = 3 /\ Boot!Usable /\ npages' = npages
  BY Zenon DEF Boot!FreeEntry, BitsInv
<1>2. MapInv'
  BY <1>1 DEF MapInv, EntryInv
<1>3. reserved' \subseteq reserved /\ \A g \in reserved : g \in reserved' \/ g \in Boot!UsablePages
  <2>1. ASSUME NEW g \in reserved, g \notin reserved' PROVE g \in Boot!UsablePages
    <3>1. PICK j \in 0 .. memmap[entry].length :
            j * PGSIZE < memmap[entry].length /\ g = (memmap[entry].base + j * PGSIZE) \div PGSIZE
      BY <2>1, Zenon DEF Boot!FreeEntry
    <3> QED BY <1>1, <3>1, Freed
  <2> QED BY <2>1, Zenon DEF Boot!FreeEntry
<1>4. Boot!UsablePages' = Boot!UsablePages /\ Pages' = Pages
  BY <1>1 DEF Boot!UsablePages, Boot!PageOf, Boot!End, Pages
<1>5. BitsInv'
  BY <1>1, <1>3, <1>4, Zenon DEF BitsInv
<1> QED BY <1>2, <1>5, Zenon

\* A step of initbmap() keeps the invariant.
LEMMA BootInv == ASSUME PmemInv, initbmap PROVE PmemInv'
<1>1. MapInv' /\ BitsInv'
  <2>1. npages' = bitmap_size' * ByteBits /\ MapInv /\ BitsInv
    BY Zenon DEF initbmap, PmemInv
  <2>2. \/ Boot!Skip \/ Boot!Highest \/ Boot!TooSmall \/ Boot!NotPlaced \/ Boot!Return \/ Boot!SizeBitmap
        \/ Boot!Place \/ Boot!FreeEntry
    BY Zenon DEF initbmap, Boot!Next
  <2> QED BY <2>1, <2>2, PassInv, PlaceInv, FreeInv, Zenon
<1>2. UNCHANGED <<callVars, kept>> /\ bitmap' = reserved'
  BY Zenon DEF initbmap
<1>3. ~Ready
  BY DEF initbmap, PmemInv, MapInv, Ready, Boot!Next, Boot!Done, Boot!Skip, Boot!Highest, Boot!TooSmall,
     Boot!NotPlaced, Boot!Return, Boot!SizeBitmap, Boot!Place, Boot!FreeEntry
<1>4. \A c \in CPUs : pc[c] = "idle" /\ owned[c] = {} /\ reg[c] = {}
  BY <1>3, Zenon DEF PmemInv, QuietInv
<1>5. QuietInv'
  BY <1>2, <1>3, <1>4, Zenon DEF PmemInv, QuietInv, callVars
<1>6. npages' \in Nat /\ reserved' \subseteq Pages'
  <2>1. bitmap_size' \in Nat /\ ByteBits \in Nat
    BY <1>1, PmmAssumption, Zenon DEF MapInv
  <2>2. \A x, y \in Nat : x * y \in Nat
    OBVIOUS
  <2> QED BY <1>1, <2>1, <2>2, Zenon DEF BitsInv
<1>7. IInv'
  BY <1>2, <1>4, <1>6, QuietIInv, Zenon DEF PmemInv
<1> QED BY <1>1, <1>5, <1>7, Zenon DEF PmemInv

\* A step of palloc() or freepg() keeps it.
LEMMA CallsInv ==
  ASSUME NEW boot, CPUs = {boot}, PmemInv, Next, UNCHANGED bootVars, Ready
  PROVE  PmemInv'
<1>1. npages' = npages /\ reserved' = reserved /\ Pages' = Pages
  BY MemoryStays, Zenon
<1>2. IInv'
  BY StepInv, Zenon DEF PmemInv
<1>3. MapInv' /\ BitsInv'
  BY <1>1, Zenon DEF PmemInv, MapInv, EntryInv, BitsInv, bootVars, Boot!UsablePages, Boot!PageOf, Boot!End
<1>4. Ready'
  BY Zenon DEF Ready, Boot!Done, Boot!NoBitmap, bootVars
<1> QED BY <1>2, <1>3, <1>4, Zenon DEF PmemInv, QuietInv

\* Every step keeps the invariant.
LEMMA PmemStepInv ==
  ASSUME NEW boot, CPUs = {boot}, PmemInv, [PmemNext]_pmemVars PROVE PmemInv'
<1>1. CASE initbmap
  BY <1>1, BootInv, Zenon
<1>2. ASSUME NEW c \in CPUs, FirstPalloc(c) PROVE PmemInv'
  <2>1. Next /\ UNCHANGED bootVars /\ Ready
    BY <1>2, PmemAssumption, Zenon DEF FirstPalloc, Next
  <2> QED BY <2>1, CallsInv, Zenon
<1>3. ASSUME NEW c \in CPUs, Call(c) PROVE PmemInv'
  <2>1. Next /\ UNCHANGED bootVars
    BY <1>3, Zenon DEF Call, Next
  <2>2. Ready
    BY <1>3, Zenon DEF Call, PmemInv, QuietInv
  <2> QED BY <2>1, <2>2, CallsInv, Zenon
<1>4. ASSUME NEW c \in CPUs, Work(c) PROVE PmemInv'
  <2>1. Next /\ UNCHANGED bootVars
    BY <1>4, Zenon DEF Work, Next
  <2>2. pc[c] # "idle"
    BY <1>4, Zenon DEF Work, Step, ScanUsed, ScanFree, ScanBeyond, ScanDone, SetLoad, SetStore,
       ReturnPalloc, ResetLoad, ResetStore, ReturnFreepg
  <2>3. Ready
    BY <2>2, Zenon DEF PmemInv, QuietInv
  <2> QED BY <2>1, <2>3, CallsInv, Zenon
<1>5. CASE UNCHANGED pmemVars
  <2>1. UNCHANGED vars /\ UNCHANGED bootVars /\ kept' = kept
    BY <1>5, Zenon DEF pmemVars
  <2>2. IInv'
    BY <2>1, StepInv, Zenon DEF PmemInv
  <2>3. npages' = npages /\ reserved' = reserved /\ Pages' = Pages
    BY <2>1, MemoryStays, Zenon
  <2>4. MapInv' /\ BitsInv'
    BY <2>1, <2>3, Zenon DEF PmemInv, MapInv, EntryInv, BitsInv, bootVars, Boot!UsablePages, Boot!PageOf, Boot!End
  <2>5. QuietInv'
    BY <2>1, Zenon DEF PmemInv, QuietInv, Ready, Boot!Done, Boot!NoBitmap, bootVars, vars, memory, callVars
  <2> QED BY <2>2, <2>4, <2>5, Zenon DEF PmemInv
<1> QED BY <1>1, <1>2, <1>3, <1>4, <1>5, Zenon DEF PmemNext

\* For every memory map: the guarantees of the page allocator hold from the
\* start of initbmap() on, and palloc() hands out usable memory only.
THEOREM OneCpuUsableOnly ==
  ASSUME NEW CONSTANT boot, CPUs = {boot} PROVE PmemSpec => [](IInv /\ UsableOnly)
<1>1. PmemInv => IInv
  BY Zenon DEF PmemInv
<1>2. ASSUME PmemInv PROVE UsableOnly
  <2>1. SUFFICES ASSUME NEW c \in CPUs, NEW a \in owned[c], NEW x \in Run(a[1], a[2])
                 PROVE  x \in Boot!UsablePages
    BY Zenon DEF UsableOnly, OwnedPages
  <2>2. x \in Pages /\ x \notin reserved
    BY <1>2, Zenon DEF PmemInv, IInv, CpuInv, OwnedInv
  <2>3. Ready
    BY <1>2, Zenon DEF PmemInv, QuietInv
  <2> QED BY <1>2, <2>2, <2>3, Zenon DEF PmemInv, BitsInv, Ready, Boot!Done, Boot!NoBitmap
<1>3. PmemInv /\ [PmemNext]_pmemVars => PmemInv'
  BY PmemStepInv, Zenon
<1> QED BY <1>1, <1>2, <1>3, PmemInitInv, PTL DEF PmemSpec

-----------------------------------------------------------------------------
(* What initbmap() leaves free, and the page that kmain() keeps.           *)

\* Pass 2 has given the start of entry k to the bitmap.
PlacedIn(k) ==
  /\ given[k].usable /\ bitmap_addr = given[k].base /\ bitmap_size <= given[k].length
  /\ memmap[k].base = given[k].base + bitmap_size
  /\ memmap[k].length = given[k].length - bitmap_size
  /\ \A m \in DOMAIN given \ {k} : memmap[m] = given[m]

PlacedInv ==
  /\ pass < 3 => memmap = given
  /\ bitmap_addr # -1 => \E k \in DOMAIN given : PlacedIn(k)

\* The pages of entry k as the boot loader gave it.
PagesOf(k) == given[k].base \div PGSIZE .. (given[k].base + given[k].length) \div PGSIZE - 1

\* Pass 3 has freed the entries behind it, but for what the bitmap fills.
FreedInv ==
  bitmap_addr # -1 =>
    /\ pass \in {3, 4} /\ (pass = 4 => entry > Len(given))
    /\ \A k \in DOMAIN given : given[k].usable /\ k < entry =>
         \A g \in PagesOf(k) : ~Boot!Fills(g) => g \notin reserved
    /\ \A g \in Pages : Boot!Fills(g) => g \in reserved

\* The page that the bitmap fills in part, if there is one.
Part == bitmap_addr \div PGSIZE + bitmap_size \div PGSIZE

\* The first allocation is of one page, the one that the bitmap fills in part,
\* and kmain() keeps it.
KeptInv ==
  /\ \A c \in CPUs :
       /\ kept \subseteq owned[c]
       /\ kept = {} => /\ owned[c] = {} /\ pc[c] \notin Resetting
                       /\ pc[c] # "idle" => n[c] = 1
  /\ Ready /\ InFirstEntry /\ Part \in BitmapPages =>
       /\ kept # {} => <<Part, 1>> \in kept
       /\ kept = {} => \A c \in CPUs : pc[c] \in Setting => p[c] = Part

-----------------------------------------------------------------------------
\* Multiplication keeps the order.
LEMMA MulMono ==
  ASSUME NEW a \in Int, NEW b \in Int, NEW d \in Nat \ {0}
  PROVE  a < b <=> a * d < b * d
  OBVIOUS

\* The quotient and the remainder determine a number.
LEMMA DivUnique ==
  ASSUME NEW q \in Int, NEW r \in Int, NEW d \in Nat \ {0}, 0 <= r, r < d
  PROVE  (q * d + r) \div d = q
  OBVIOUS

\* The quotient and the remainder of a number.
LEMMA DivMod ==
  ASSUME NEW x \in Nat, NEW d \in Nat \ {0}
  PROVE  \E q \in Nat, r \in Nat : x = q * d + r /\ r < d /\ x \div d = q
  OBVIOUS

\* They do so for the remainder.
LEMMA ModUnique ==
  ASSUME NEW q \in Int, NEW r \in Int, NEW d \in Nat \ {0}, 0 <= r, r < d
  PROVE  (q * d + r) % d = r
  OBVIOUS

\* A number without remainder is a multiple.
LEMMA Multiple ==
  ASSUME NEW x \in Nat, NEW d \in Nat \ {0}, x % d = 0
  PROVE  \E q \in Nat : x = q * d
<1>1. PICK q \in Nat, r \in Nat : x = q * d + r /\ r < d
  BY DivMod, Zenon
<1>2. x % d = r
  BY <1>1, ModUnique
<1> QED BY <1>1, <1>2

\* The pages that pass 3 frees in an entry of l pages from page b on whose
\* first s bytes the bitmap has.
LEMMA FreedPages ==
  ASSUME NEW b \in Nat, NEW l \in Nat, NEW s \in Nat, s <= l * PGSIZE, NEW g \in Int
  PROVE  (\E j \in 0 .. (l * PGSIZE - s) :
            j * PGSIZE < l * PGSIZE - s /\ g = ((b * PGSIZE + s) + j * PGSIZE) \div PGSIZE)
         <=> g \in b .. b + l - 1 /\ (g + 1) * PGSIZE > b * PGSIZE + s
<1>0. PGSIZE \in Nat \ {0}
  BY PmemAssumption, Zenon
<1>1. PICK q \in Nat, r \in Nat : s = q * PGSIZE + r /\ r < PGSIZE
  BY <1>0, DivMod, Zenon
<1>2. ASSUME NEW j \in Int PROVE ((b * PGSIZE + s) + j * PGSIZE) \div PGSIZE = b + q + j
  <2>1. (b * PGSIZE + s) + j * PGSIZE = (b + q + j) * PGSIZE + r
    BY <1>0, <1>1
  <2> QED BY <1>0, <1>1, <2>1, DivUnique
<1>3. ASSUME NEW j \in Nat, j * PGSIZE < l * PGSIZE - s, g = b + q + j
      PROVE  g \in b .. b + l - 1 /\ (g + 1) * PGSIZE > b * PGSIZE + s
  <2>1. (q + j) * PGSIZE < l * PGSIZE
    BY <1>0, <1>1, <1>3
  <2>2. q + j < l
    BY <1>0, <2>1, MulMono
  <2>3. (g + 1) * PGSIZE = b * PGSIZE + q * PGSIZE + j * PGSIZE + PGSIZE /\ j * PGSIZE \in Nat
    BY <1>0, <1>3
  <2> QED BY <1>0, <1>1, <1>3, <2>2, <2>3
<1>4. ASSUME g \in b .. b + l - 1, (g + 1) * PGSIZE > b * PGSIZE + s
      PROVE  g - b - q \in 0 .. (l * PGSIZE - s) /\ (g - b - q) * PGSIZE < l * PGSIZE - s
  <2>1. (g + 1 - b) * PGSIZE > q * PGSIZE
    BY <1>0, <1>1, <1>4
  <2>2. g + 1 - b > q
    BY <1>0, <2>1, MulMono
  <2>3. (g - b + 1) * PGSIZE <= l * PGSIZE
    BY <1>0, <1>4, MulMono
  <2>4. (g - b - q) * PGSIZE < l * PGSIZE - s
    BY <1>0, <1>1, <1>4, <2>3
  <2>5. g - b - q <= (g - b - q) * PGSIZE
    BY <1>0, <2>2
  <2> QED BY <1>0, <1>1, <1>4, <2>2, <2>4, <2>5
<1>5. ASSUME NEW j \in 0 .. (l * PGSIZE - s), j * PGSIZE < l * PGSIZE - s, g = ((b * PGSIZE + s) + j * PGSIZE) \div PGSIZE
      PROVE  g \in b .. b + l - 1 /\ (g + 1) * PGSIZE > b * PGSIZE + s
  BY <1>2, <1>3, <1>5
<1>6. ASSUME g \in b .. b + l - 1, (g + 1) * PGSIZE > b * PGSIZE + s
      PROVE  \E j \in 0 .. (l * PGSIZE - s) : j * PGSIZE < l * PGSIZE - s /\ g = ((b * PGSIZE + s) + j * PGSIZE) \div PGSIZE
  <2>1. g - b - q \in Int /\ g = b + q + (g - b - q)
    BY <1>1, <1>4, <1>6
  <2>2. g = ((b * PGSIZE + s) + (g - b - q) * PGSIZE) \div PGSIZE
    BY <1>2, <2>1, Zenon
  <2> QED BY <1>4, <1>6, <2>2, Zenon
<1> QED BY <1>5, <1>6, Zenon

\* A usable entry is made of whole pages.
LEMMA EntryPages ==
  ASSUME MapInv, NEW k \in DOMAIN given, given[k].usable
  PROVE  \E b \in Nat, l \in Nat :
           /\ given[k].base = b * PGSIZE /\ given[k].length = l * PGSIZE
           /\ PagesOf(k) = b .. b + l - 1
           /\ Boot!PageOf(given[k].base) .. Boot!PageOf(Boot!End(given[k]) - 1) = b .. b + l - 1
<1>0. PGSIZE \in Nat \ {0}
  BY PmemAssumption, Zenon
<1>1. given \in Seq(Region) /\ given \in MemMaps
  BY PmemAssumption, Zenon DEF MapInv
<1>2. given[k].base \in Nat /\ given[k].length \in Nat
  <2>1. given[k] \in Region
    BY <1>1
  <2> QED BY <2>1, Zenon DEF Region
<1>3. given[k].base % PGSIZE = 0 /\ given[k].length % PGSIZE = 0
  BY <1>1, BootProtocol, Zenon
<1>4. PICK b \in Nat : given[k].base = b * PGSIZE
  BY <1>0, <1>2, <1>3, Multiple, Zenon
<1>5. PICK l \in Nat : given[k].length = l * PGSIZE
  BY <1>0, <1>2, <1>3, Multiple, Zenon
<1>6. given[k].base \div PGSIZE = b
  <2>1. given[k].base = b * PGSIZE + 0
    BY <1>0, <1>4
  <2> QED BY <1>0, <2>1, DivUnique
<1>7. (given[k].base + given[k].length) \div PGSIZE = b + l
  <2>1. given[k].base + given[k].length = (b + l) * PGSIZE + 0
    BY <1>0, <1>4, <1>5
  <2> QED BY <1>0, <2>1, DivUnique
<1>8. ((given[k].base + given[k].length) - 1) \div PGSIZE = b + l - 1
  <2>1. (given[k].base + given[k].length) - 1 = (b + l - 1) * PGSIZE + (PGSIZE - 1)
    BY <1>0, <1>4, <1>5
  <2> QED BY <1>0, <2>1, DivUnique
<1>9. PagesOf(k) = b .. b + l - 1
  BY <1>6, <1>7 DEF PagesOf
<1>10. Boot!PageOf(given[k].base) .. Boot!PageOf(Boot!End(given[k]) - 1) = b .. b + l - 1
  <2>1. Boot!PageOf(given[k].base) = b
    BY <1>6, Zenon DEF Boot!PageOf
  <2>2. Boot!PageOf(Boot!End(given[k]) - 1) = b + l - 1
    BY <1>8, Zenon DEF Boot!PageOf, Boot!End
  <2> QED BY <2>1, <2>2, Zenon
<1> QED BY <1>4, <1>5, <1>9, <1>10, Zenon

\* The usable pages are those of the usable entries.
LEMMA UsableEntries ==
  ASSUME MapInv, NEW g
  PROVE  g \in Boot!UsablePages <=> \E k \in DOMAIN given : given[k].usable /\ g \in PagesOf(k)
<1>1. DOMAIN given = 1 .. Len(given)
  <2>1. given \in Seq(Region)
    BY PmemAssumption, Zenon DEF MapInv
  <2> QED BY <2>1
<1>2. \A k \in DOMAIN given : given[k].usable =>
        PagesOf(k) = Boot!PageOf(given[k].base) .. Boot!PageOf(Boot!End(given[k]) - 1)
  BY EntryPages, Zenon
<1> HIDE DEF PagesOf
<1> QED BY <1>1, <1>2, Zenon DEF Boot!UsablePages

\* The bitmap fills pages of its own entry only.
LEMMA FilledPages ==
  ASSUME MapInv, NEW f \in DOMAIN given, PlacedIn(f),
         NEW k \in DOMAIN given \ {f}, given[k].usable, NEW g \in PagesOf(k)
  PROVE  ~Boot!Fills(g)
<1>0. PGSIZE \in Nat \ {0} /\ given \in Seq(Region) /\ given \in MemMaps /\ bitmap_size \in Nat
  BY PmemAssumption, Zenon DEF MapInv
<1>1. /\ given[f].base \in Nat /\ given[f].length \in Nat
      /\ given[k].base \in Nat /\ given[k].length \in Nat
      /\ f \in Int /\ k \in Int /\ f # k
  <2>1. given[f] \in Region /\ given[k] \in Region /\ DOMAIN given = 1 .. Len(given)
    BY <1>0
  <2> QED BY <2>1 DEF Region
<1>2. PICK b \in Nat, l \in Nat :
        given[k].base = b * PGSIZE /\ given[k].length = l * PGSIZE /\ PagesOf(k) = b .. b + l - 1
  BY EntryPages, Zenon
<1>3. given[f].base + given[f].length <= given[k].base \/ given[k].base + given[k].length <= given[f].base
  <2>1. CASE f < k
    BY <1>0, <2>1, BootProtocol, Zenon DEF PlacedIn
  <2>2. CASE k < f
    BY <1>0, <2>2, BootProtocol, Zenon DEF PlacedIn
  <2> QED BY <1>1, <2>1, <2>2
<1>4. g \in Int /\ b <= g /\ g + 1 <= b + l
  BY <1>2
<1>5. /\ given[k].base <= g * PGSIZE /\ (g + 1) * PGSIZE <= given[k].base + given[k].length
      /\ g * PGSIZE < (g + 1) * PGSIZE /\ g * PGSIZE \in Int /\ (g + 1) * PGSIZE \in Int
  <2>1. ~(g < b) /\ ~(b + l < g + 1) /\ g < g + 1
    BY <1>4
  <2>2. b * PGSIZE <= g * PGSIZE /\ (g + 1) * PGSIZE <= (b + l) * PGSIZE /\ g * PGSIZE < (g + 1) * PGSIZE
    BY <1>0, <1>4, <2>1, MulMono
  <2>3. (b + l) * PGSIZE = b * PGSIZE + l * PGSIZE /\ g * PGSIZE \in Int /\ (g + 1) * PGSIZE \in Int
    BY <1>0, <1>4
  <2> QED BY <1>2, <2>2, <2>3, Zenon
<1>6. bitmap_addr = given[f].base /\ bitmap_size <= given[f].length
  BY Zenon DEF PlacedIn
<1>7. \A kb, kl, fb, fl, s, x, y \in Int :
        (fb + fl <= kb \/ kb + kl <= fb) /\ s <= fl /\ kb <= x /\ y <= kb + kl /\ x < y
          => ~(x >= fb /\ y <= fb + s)
  OBVIOUS
<1> PICK x, y, fb, fl, kb, kl :
      /\ x = g * PGSIZE /\ y = (g + 1) * PGSIZE /\ fb = given[f].base /\ fl = given[f].length
      /\ kb = given[k].base /\ kl = given[k].length
  BY Zenon
<1>8. /\ x \in Int /\ y \in Int /\ fb \in Int /\ fl \in Int /\ kb \in Int /\ kl \in Int
      /\ bitmap_size \in Int /\ (fb + fl <= kb \/ kb + kl <= fb)
      /\ bitmap_size <= fl /\ kb <= x /\ y <= kb + kl /\ x < y
  BY <1>0, <1>1, <1>3, <1>5, <1>6, SMTT(30)
<1>9. ~(x >= fb /\ y <= fb + bitmap_size)
  BY ONLY <1>7, <1>8, Zenon
<1>10. Boot!Fills(g) <=> x >= fb /\ y <= fb + bitmap_size
  BY <1>6, Zenon DEF Boot!Fills
<1> QED BY <1>9, <1>10, Zenon

\* What pass 3 frees at an entry: its pages, but for those the bitmap fills.
LEMMA FreedExactly ==
  ASSUME MapInv, PlacedInv, bitmap_addr # -1, Boot!Usable, NEW g \in Int
  PROVE  (\E j \in 0 .. memmap[entry].length :
            j * PGSIZE < memmap[entry].length /\ g = (memmap[entry].base + j * PGSIZE) \div PGSIZE)
         <=> g \in PagesOf(entry) /\ ~Boot!Fills(g)
<1>1. given \in Seq(Region) /\ PGSIZE \in Nat \ {0}
  BY PmemAssumption, Zenon DEF MapInv
<1>2. entry \in DOMAIN given /\ entry \in 1 .. Len(given) /\ memmap[entry].usable /\ bitmap_size \in Nat
  BY <1>1 DEF MapInv, Boot!Usable
<1>3. given[entry].usable
  BY <1>2, Zenon DEF MapInv, EntryInv
<1>4. PICK f \in DOMAIN given : PlacedIn(f)
  BY Zenon DEF PlacedInv
<1>5. PICK b \in Nat, l \in Nat :
        /\ given[entry].base = b * PGSIZE /\ given[entry].length = l * PGSIZE
        /\ PagesOf(entry) = b .. b + l - 1
  BY <1>2, <1>3, EntryPages, Zenon
<1>6. CASE entry = f
  <2>1. /\ bitmap_size <= l * PGSIZE
        /\ memmap[entry].length = l * PGSIZE - bitmap_size
        /\ memmap[entry].base = b * PGSIZE + bitmap_size
        /\ bitmap_addr = b * PGSIZE
    BY <1>4, <1>5, <1>6, Zenon DEF PlacedIn
  <2>2. (\E j \in 0 .. (l * PGSIZE - bitmap_size) :
            j * PGSIZE < l * PGSIZE - bitmap_size /\ g = ((b * PGSIZE + bitmap_size) + j * PGSIZE) \div PGSIZE)
         <=> g \in b .. b + l - 1 /\ (g + 1) * PGSIZE > b * PGSIZE + bitmap_size
    BY <1>2, <2>1, FreedPages, Zenon
  <2>3. ASSUME g \in b .. b + l - 1 PROVE ~Boot!Fills(g) <=> (g + 1) * PGSIZE > b * PGSIZE + bitmap_size
    <3>1. ~(g < b) /\ b * PGSIZE \in Int /\ g * PGSIZE \in Int /\ (g + 1) * PGSIZE \in Int
      BY <1>1, <2>3
    <3>2. g * PGSIZE >= b * PGSIZE
      BY <1>1, <3>1, MulMono
    <3> QED BY <1>2, <2>1, <3>1, <3>2, SMTT(20) DEF Boot!Fills
  <2> QED BY <1>5, <2>1, <2>2, <2>3, Zenon
<1>7. CASE entry # f
  <2>1. memmap[entry] = given[entry]
    BY <1>2, <1>4, <1>7, Zenon DEF PlacedIn
  <2>2. (\E j \in 0 .. (l * PGSIZE - 0) :
            j * PGSIZE < l * PGSIZE - 0 /\ g = ((b * PGSIZE + 0) + j * PGSIZE) \div PGSIZE)
         <=> g \in b .. b + l - 1 /\ (g + 1) * PGSIZE > b * PGSIZE + 0
    <3>1. 0 <= l * PGSIZE
      BY <1>1
    <3> QED BY <3>1, FreedPages, Zenon
  <2>3. l * PGSIZE - 0 = l * PGSIZE /\ b * PGSIZE + 0 = b * PGSIZE
    BY <1>1
  <2>4. (\E j \in 0 .. memmap[entry].length :
            j * PGSIZE < memmap[entry].length /\ g = (memmap[entry].base + j * PGSIZE) \div PGSIZE)
         <=> g \in b .. b + l - 1 /\ (g + 1) * PGSIZE > b * PGSIZE
    BY <1>5, <2>1, <2>2, <2>3, Zenon
  <2>5. g \in b .. b + l - 1 => b < g + 1 /\ (g + 1) * PGSIZE > b * PGSIZE
    BY <1>1, MulMono
  <2>6. g \in PagesOf(entry) => ~Boot!Fills(g)
    BY <1>2, <1>3, <1>4, <1>7, FilledPages, Zenon
  <2> QED BY <1>5, <2>4, <2>5, <2>6, Zenon
<1> QED BY <1>6, <1>7, Zenon

-----------------------------------------------------------------------------
\* Pass 3 goes on behind an entry whose pages are done.
LEMMA EntryDone ==
  ASSUME MapInv, PlacedInv, FreedInv, UNCHANGED <<given, memmap, pass, bitmap_addr, bitmap_size, npages>>,
         entry' = entry + 1, entry <= Len(memmap), reserved' \subseteq reserved,
         bitmap_addr # -1 =>
           /\ memmap[entry].usable => \A g \in PagesOf(entry) : ~Boot!Fills(g) => g \notin reserved'
           /\ \A g \in reserved \ reserved' : ~Boot!Fills(g)
  PROVE  PlacedInv' /\ FreedInv'
<1>1. PlacedInv'
  BY Zenon DEF PlacedInv, PlacedIn
<1>2. FreedInv'
  <2> SUFFICES ASSUME bitmap_addr # -1 PROVE FreedInv'
    BY Zenon DEF FreedInv
  <2>1. given \in Seq(Region)
    BY PmemAssumption, Zenon DEF MapInv
  <2>2. entry \in Nat /\ entry \in DOMAIN given /\ memmap[entry].usable = given[entry].usable
    BY <2>1 DEF MapInv, EntryInv
  <2>3. \A g : Boot!Fills(g)' = Boot!Fills(g)
    BY Zenon DEF Boot!Fills
  <2>4. \A k \in DOMAIN given : PagesOf(k)' = PagesOf(k)
    BY Zenon DEF PagesOf
  <2>5. Pages' = Pages
    BY Zenon DEF Pages
  <2>6. pass = 3
    BY <2>1, <2>2 DEF FreedInv, MapInv
  <2>7. ASSUME NEW k \in DOMAIN given, given[k].usable, k < entry + 1, NEW g \in PagesOf(k), ~Boot!Fills(g)
        PROVE  g \notin reserved'
    <3>1. CASE k = entry
      BY <2>2, <2>7, <3>1, Zenon
    <3>2. CASE k # entry
      <4>1. k < entry
        BY <2>1, <2>2, <2>7, <3>2
      <4> QED BY <2>7, <4>1, Zenon DEF FreedInv
    <3> QED BY <3>1, <3>2, Zenon
  <2>8. ASSUME NEW g \in Pages, Boot!Fills(g) PROVE g \in reserved'
    BY <2>8, Zenon DEF FreedInv
  <2> QED BY <2>3, <2>4, <2>5, <2>6, <2>7, <2>8 DEF FreedInv
<1> QED BY <1>1, <1>2, Zenon

\* The bitmap is placed in an entry, and nothing is free yet.
LEMMA PlaceFreed ==
  ASSUME MapInv, BitsInv, PlacedInv, Boot!Place, npages' = bitmap_size' * ByteBits
  PROVE  PlacedInv' /\ FreedInv'
<1>1. given \in Seq(Region) /\ memmap = given
  BY PmemAssumption DEF MapInv, PlacedInv, Boot!Place
<1>2. entry \in DOMAIN given /\ given[entry].usable
  BY <1>1 DEF Boot!Place, Boot!Usable, MapInv
<1>3. /\ given' = given /\ pass' = 3 /\ entry' = 1 /\ bitmap_size' = bitmap_size
      /\ bitmap_addr' = given[entry].base /\ bitmap_size <= given[entry].length
      /\ reserved' = 0 .. bitmap_size * ByteBits - 1
      /\ memmap' = [given EXCEPT ![entry].length = @ - bitmap_size, ![entry].base = @ + bitmap_size]
  <2>1. given[entry] \in Region
    BY <1>1, <1>2
  <2>2. given[entry].length \in Nat /\ bitmap_size \in Nat
    BY <2>1, Zenon DEF Region, MapInv
  <2> QED BY <1>1, <2>2, Zenon DEF Boot!Place
<1>4. /\ memmap'[entry].base = given[entry].base + bitmap_size
      /\ memmap'[entry].length = given[entry].length - bitmap_size
      /\ \A m \in DOMAIN given \ {entry} : memmap'[m] = given[m]
  <2>1. given[entry] \in Region
    BY <1>1, <1>2
  <2> QED BY <1>1, <1>2, <1>3, <2>1, Zenon DEF Region
<1>5. \E k \in DOMAIN given' : PlacedIn(k)'
  BY <1>2, <1>3, <1>4 DEF PlacedIn
<1>6. PlacedInv'
  BY <1>3, <1>5 DEF PlacedInv
<1>7. \A k \in DOMAIN given : ~(k < 1)
  BY <1>1
<1>8. FreedInv'
  BY <1>3, <1>7 DEF FreedInv, Pages
<1> QED BY <1>6, <1>8, Zenon

\* Every step of initbmap() keeps the account of the pages freed.
LEMMA BootFreed ==
  ASSUME PmemInv, PlacedInv, FreedInv, initbmap
  PROVE  PlacedInv' /\ FreedInv'
<1> USE DEF PmemInv
<1>0. npages' = bitmap_size' * ByteBits /\ npages = bitmap_size * ByteBits
  BY Zenon DEF initbmap, BitsInv
<1>1. CASE Boot!Skip
  BY <1>0, <1>1, EntryDone, Zenon DEF Boot!Skip
<1>2. CASE Boot!Highest \/ Boot!SizeBitmap \/ Boot!TooSmall \/ Boot!NotPlaced
  BY <1>2 DEF BitsInv, PlacedInv, FreedInv, Boot!Highest, Boot!SizeBitmap, Boot!TooSmall, Boot!NotPlaced
<1>3. CASE Boot!Place
  BY <1>0, <1>3, PlaceFreed, Zenon
<1>4. CASE Boot!FreeEntry
  <2>1. /\ UNCHANGED <<given, memmap, pass, bitmap_addr, bitmap_size, npages>>
        /\ entry' = entry + 1 /\ entry <= Len(memmap) /\ Boot!Usable
    BY <1>0, <1>4, Zenon DEF Boot!FreeEntry, Boot!Usable
  <2> DEFINE freed == {(memmap[entry].base + j * PGSIZE) \div PGSIZE :
                      j \in {k \in 0 .. memmap[entry].length : k * PGSIZE < memmap[entry].length}}
  <2>2. reserved' = reserved \ freed
    BY <1>4, Zenon DEF Boot!FreeEntry
  <2>3. ASSUME bitmap_addr # -1, NEW g \in Int PROVE g \in freed <=> g \in PagesOf(entry) /\ ~Boot!Fills(g)
    <3>1. g \in freed <=>
           \E j \in 0 .. memmap[entry].length :
            j * PGSIZE < memmap[entry].length /\ g = (memmap[entry].base + j * PGSIZE) \div PGSIZE
      BY Zenon
    <3> QED BY <2>1, <2>3, <3>1, FreedExactly, Zenon
  <2>4. Pages \subseteq Int /\ reserved \subseteq Int /\ PagesOf(entry) \subseteq Int
    BY PagesNat DEF IInv, BitsInv, PagesOf
  <2> HIDE DEF freed
  <2>5. bitmap_addr # -1 => /\ \A g \in PagesOf(entry) : ~Boot!Fills(g) => g \notin reserved'
                            /\ \A g \in reserved \ reserved' : ~Boot!Fills(g)
    BY <2>2, <2>3, <2>4, Zenon
  <2> QED BY <2>1, <2>2, <2>5, EntryDone, Zenon
<1>5. CASE Boot!Return
  BY <1>0, <1>5 DEF Boot!Return, PlacedInv, PlacedIn, FreedInv, Boot!Fills, PagesOf, Pages, MapInv
<1> QED BY <1>1, <1>2, <1>3, <1>4, <1>5, Zenon DEF initbmap, Boot!Next

\* When initbmap() returns, it has been at every entry.
LEMMA FreeFacts == ASSUME PmemInv, PlacedInv, FreedInv PROVE FreeAtFirst
<1>1. Boot!UsableIsFree
  <2> SUFFICES ASSUME Boot!Done, NEW g \in Boot!UsablePages, ~Boot!Fills(g) PROVE g \notin reserved
    BY Zenon DEF Boot!UsableIsFree
  <2>1. PICK k \in DOMAIN given : given[k].usable /\ g \in PagesOf(k)
    BY UsableEntries, Zenon DEF PmemInv
  <2>2. k < entry
    <3>1. given \in Seq(Region)
      BY PmemAssumption, Zenon DEF PmemInv, MapInv
    <3> QED BY <3>1 DEF FreedInv, Boot!Done, Boot!NoBitmap, PmemInv, MapInv
  <2> QED BY <2>1, <2>2, Zenon DEF FreedInv, Boot!Done, Boot!NoBitmap
<1>2. Boot!OthersStaySet
  <2> SUFFICES ASSUME Boot!Done, NEW g \in 0 .. bitmap_size * ByteBits - 1,
                      g \notin Boot!UsablePages \/ Boot!Fills(g)
               PROVE  g \in reserved
    BY Zenon DEF Boot!OthersStaySet
  <2>1. g \in Pages
    BY Zenon DEF PmemInv, BitsInv, Pages
  <2> QED BY <2>1, Zenon DEF PmemInv, BitsInv, FreedInv, Boot!Done, Boot!NoBitmap
<1> QED BY <1>1, <1>2, Zenon DEF FreeAtFirst

\* The pages of the bitmap: it fills all but perhaps the last, which is the
\* lowest free page if the bitmap is in the first usable entry.
LEMMA PartFacts ==
  ASSUME PmemInv, PlacedInv, FreedInv, Ready
  PROVE  /\ Part \in Nat
         /\ \A g \in BitmapPages : g # Part => Boot!Fills(g)
         /\ InFirstEntry => \A g \in Pages \ reserved : Part <= g
         /\ Part \in BitmapPages => Part \notin reserved
<1>0. /\ PGSIZE \in Nat \ {0} /\ given \in Seq(Region) /\ given \in MemMaps /\ bitmap_size \in Nat /\ MapInv
      /\ bitmap_addr # -1 /\ entry > Len(given) /\ DOMAIN given = 1 .. Len(given) /\ entry \in Nat
  BY PmemAssumption DEF PmemInv, MapInv, Ready, Boot!Done, Boot!NoBitmap, FreedInv
<1>1. PICK f \in DOMAIN given : PlacedIn(f)
  BY <1>0, Zenon DEF PlacedInv
<1>2. PICK b \in Nat, l \in Nat :
        given[f].base = b * PGSIZE /\ given[f].length = l * PGSIZE /\ PagesOf(f) = b .. b + l - 1
  BY <1>0, <1>1, EntryPages, Zenon DEF PlacedIn
<1>3. PICK q \in Nat, r \in Nat : bitmap_size = q * PGSIZE + r /\ r < PGSIZE /\ bitmap_size \div PGSIZE = q
  BY <1>0, DivMod, SMTT(20)
<1>4. bitmap_addr = b * PGSIZE /\ bitmap_size <= l * PGSIZE
  BY <1>1, <1>2, Zenon DEF PlacedIn
<1>5. bitmap_addr \div PGSIZE = b
  <2>1. bitmap_addr = b * PGSIZE + 0
    BY <1>0, <1>4
  <2> QED BY <1>0, <2>1, DivUnique
<1>6. Part = b + q
  BY <1>3, <1>5, Zenon DEF Part
<1>7. /\ r = 0 => BitmapPages = b .. b + q - 1
      /\ r # 0 => BitmapPages = b .. b + q
  <2>1. r = 0 => (bitmap_addr + (bitmap_size - 1)) \div PGSIZE = b + q - 1
    <3> SUFFICES ASSUME r = 0 PROVE (bitmap_addr + (bitmap_size - 1)) \div PGSIZE = b + q - 1
      BY Zenon
    <3>1. bitmap_addr + (bitmap_size - 1) = (b + q - 1) * PGSIZE + (PGSIZE - 1)
      BY <1>0, <1>3, <1>4
    <3> QED BY <1>0, <3>1, DivUnique, SMTT(30)
  <2>2. r # 0 => (bitmap_addr + (bitmap_size - 1)) \div PGSIZE = b + q
    <3> SUFFICES ASSUME r # 0 PROVE (bitmap_addr + (bitmap_size - 1)) \div PGSIZE = b + q
      BY Zenon
    <3>1. bitmap_addr + (bitmap_size - 1) = (b + q) * PGSIZE + (r - 1)
      BY <1>0, <1>3, <1>4
    <3>2. r - 1 \in Int /\ 0 <= r - 1 /\ r - 1 < PGSIZE /\ b + q \in Int
      BY <1>0, <1>3
    <3> QED BY <1>0, <3>1, <3>2, DivUnique, SMTT(30)
  <2>3. BitmapPages = b .. (bitmap_addr + (bitmap_size - 1)) \div PGSIZE
    BY <1>5, Zenon DEF BitmapPages, Boot!PageOf
  <2> QED BY <2>1, <2>2, <2>3, Zenon
<1>8. \A g \in Int : Boot!Fills(g) <=> b <= g /\ g < b + q
  <2> SUFFICES ASSUME NEW g \in Int PROVE Boot!Fills(g) <=> b <= g /\ g < b + q
    BY Zenon
  <2>1. g * PGSIZE >= b * PGSIZE <=> b <= g
    <3>1. ~(g < b) <=> ~(g * PGSIZE < b * PGSIZE)
      BY <1>0, MulMono
    <3> QED BY <1>0, <3>1
  <2>2. (g + 1) * PGSIZE <= b * PGSIZE + bitmap_size <=> g < b + q
    <3>1. g < b + q => (g + 1) * PGSIZE <= b * PGSIZE + bitmap_size
      <4> SUFFICES ASSUME g < b + q PROVE (g + 1) * PGSIZE <= b * PGSIZE + bitmap_size
        BY Zenon
      <4>1. ~(b + q < g + 1)
        OBVIOUS
      <4>2. ~((b + q) * PGSIZE < (g + 1) * PGSIZE)
        BY <1>0, <4>1, MulMono
      <4> QED BY <1>0, <1>3, <4>2
    <3>2. b + q <= g => (g + 1) * PGSIZE > b * PGSIZE + bitmap_size
      <4> SUFFICES ASSUME b + q <= g PROVE (g + 1) * PGSIZE > b * PGSIZE + bitmap_size
        BY Zenon
      <4>1. ~(g + 1 < b + q + 1)
        OBVIOUS
      <4>2. ~((g + 1) * PGSIZE < (b + q + 1) * PGSIZE)
        BY <1>0, <4>1, MulMono
      <4>3. (b + q + 1) * PGSIZE = b * PGSIZE + q * PGSIZE + PGSIZE
        BY <1>0
      <4> QED BY <1>0, <1>3, <4>2, <4>3
    <3> QED BY <1>0, <3>1, <3>2
  <2> QED BY <1>4, <2>1, <2>2, Zenon DEF Boot!Fills
<1>9. \A g \in BitmapPages : g # Part => Boot!Fills(g)
  BY <1>3, <1>6, <1>7, <1>8
<1>10. ASSUME InFirstEntry, NEW g \in Pages \ reserved PROVE Part <= g
  <2>1. g \in Int /\ g \in Boot!UsablePages /\ ~Boot!Fills(g)
    BY <1>0, <1>10, PagesNat DEF PmemInv, BitsInv, FreedInv, IInv
  <2>2. PICK m \in DOMAIN given : given[m].usable /\ g \in PagesOf(m)
    BY <1>0, <2>1, UsableEntries, Zenon
  <2>3. PICK k \in DOMAIN given : /\ given[k].usable /\ given[k].base = bitmap_addr
                                  /\ \A j \in 1 .. k - 1 : ~given[j].usable
    BY <1>10, Zenon DEF InFirstEntry
  <2>4. PICK c \in Nat, e \in Nat :
          given[m].base = c * PGSIZE /\ given[m].length = e * PGSIZE /\ PagesOf(m) = c .. c + e - 1
    BY <1>0, <2>2, EntryPages, Zenon
  <2>5. given[k].base <= given[m].base
    <3>1. k <= m
      BY <1>0, <2>2, <2>3
    <3>2. given[k] \in Region /\ given[m] \in Region
      BY <1>0
    <3>3. given[k].base \in Nat /\ given[k].length \in Nat /\ given[m].base \in Nat
      BY <3>2, Zenon DEF Region
    <3>4. k < m => given[k].base + given[k].length <= given[m].base
      BY <1>0, <2>2, <2>3, BootProtocol, Zenon
    <3> QED BY <1>0, <3>1, <3>3, <3>4, SMTT(30)
  <2>6. ~(c * PGSIZE < b * PGSIZE)
    BY <1>0, <1>4, <2>3, <2>4, <2>5
  <2>7. b <= c
    BY <1>0, <2>6, MulMono
  <2> QED BY <1>6, <1>8, <2>1, <2>2, <2>4, <2>7
<1>11. ASSUME Part \in BitmapPages PROVE Part \notin reserved
  <2>1. r # 0 /\ ~Boot!Fills(Part)
    BY <1>6, <1>7, <1>8, <1>11
  <2>2. q * PGSIZE < l * PGSIZE
    BY <1>0, <1>3, <1>4, <2>1
  <2>3. q < l
    BY <1>0, <2>2, MulMono
  <2>4. Part \in PagesOf(f)
    BY <1>2, <1>6, <2>3
  <2> QED BY <1>0, <1>1, <2>1, <2>4 DEF FreedInv, PlacedIn
<1> QED BY <1>6, <1>9, <1>10, <1>11

-----------------------------------------------------------------------------
\* The scan of the first palloc() ends at the page that the bitmap fills in
\* part.
LEMMA FirstPage ==
  ASSUME NEW c \in CPUs, PmemInv, PlacedInv, FreedInv, KeptInv, Ready, InFirstEntry,
         Part \in BitmapPages, kept = {}, ScanDone(c)
  PROVE  p[c] = Part
<1>1. /\ pc[c] = "scan" /\ n[c] = 1 /\ i[c] = p[c] + 1 /\ owned[c] = {} /\ p[c] \in Nat
  BY Zenon DEF ScanDone, KeptInv, PmemInv, IInv, TypeOK
<1>2. CpuInv(c)
  BY Zenon DEF PmemInv, IInv
<1>3. p[c] \in Pages \ bitmap
  BY <1>1, <1>2 DEF CpuInv, CallInv
<1>4. \A x \in Pages : x \in bitmap <=> x \in reserved
  BY <1>1, <1>2, Zenon DEF CpuInv, ExactInv, Setting, Resetting
<1>5. Part <= p[c] /\ Part \in Nat /\ Part \notin reserved
  BY <1>3, <1>4, PartFacts, Zenon
<1>6. Part \in Pages /\ Part \notin bitmap
  BY <1>3, <1>4, <1>5 DEF Pages, PmemInv, IInv, TypeOK
<1>7. ASSUME Part < p[c] PROVE FALSE
  <2>1. Run(Part, 1) \cap bitmap # {}
    BY <1>1, <1>2, <1>5, <1>7 DEF CpuInv, LowestInv
  <2>2. Run(Part, 1) = {Part}
    BY <1>5 DEF Run
  <2> QED BY <1>6, <2>1, <2>2, Zenon
<1> QED BY <1>1, <1>5, <1>7

\* Every step keeps the page of kmain().
LEMMA KeptStep ==
  ASSUME NEW boot, CPUs = {boot}, PmemInv, PlacedInv, FreedInv, KeptInv, [PmemNext]_pmemVars
  PROVE  KeptInv'
<1>1. CASE initbmap
  <2>1. ~Ready
    BY <1>1 DEF initbmap, PmemInv, MapInv, Ready, Boot!Next, Boot!Done, Boot!Skip, Boot!Highest,
       Boot!TooSmall, Boot!NotPlaced, Boot!Return, Boot!SizeBitmap, Boot!Place, Boot!FreeEntry
  <2>2. kept = {} /\ \A c \in CPUs : pc[c] = "idle" /\ owned[c] = {}
    BY <2>1, Zenon DEF PmemInv, QuietInv
  <2>3. kept' = {} /\ \A c \in CPUs : pc'[c] = "idle" /\ owned'[c] = {}
    BY <1>1, <2>2, Zenon DEF initbmap, callVars
  <2> QED BY <2>3, Zenon DEF KeptInv, Setting, Resetting
<1>2. ASSUME UNCHANGED bootVars
      PROVE  /\ Ready' = Ready /\ InFirstEntry' = InFirstEntry
             /\ Part' = Part /\ BitmapPages' = BitmapPages
  BY <1>2, Zenon DEF bootVars, Ready, Boot!Done, Boot!NoBitmap, InFirstEntry, Part, BitmapPages, Boot!PageOf
<1>a. ASSUME NEW c \in CPUs, UNCHANGED bootVars, kept' = {}, owned'[c] = {}, pc'[c] \notin Resetting,
             pc'[c] # "idle" => n'[c] = 1,
             Ready /\ InFirstEntry /\ Part \in BitmapPages /\ pc'[c] \in Setting => p'[c] = Part
      PROVE  KeptInv'
  <2>1. \A d \in CPUs : d = c
    BY Zenon
  <2>2. \A d \in CPUs : /\ kept' \subseteq owned'[d] /\ owned'[d] = {} /\ pc'[d] \notin Resetting
                        /\ pc'[d] # "idle" => n'[d] = 1
    BY <1>a, <2>1, Zenon
  <2>3. Ready' = Ready /\ InFirstEntry' = InFirstEntry /\ Part' = Part /\ BitmapPages' = BitmapPages
    BY <1>2, <1>a, Zenon
  <2>4. Ready' /\ InFirstEntry' /\ Part' \in BitmapPages' /\ pc'[c] \in Setting => p'[c] = Part'
    BY ONLY <1>a, <2>3
  <2>5. Ready' /\ InFirstEntry' /\ Part' \in BitmapPages' =>
          \A d \in CPUs : pc'[d] \in Setting => p'[d] = Part'
    BY ONLY <2>1, <2>4, Zenon
  <2> QED BY <1>a, <2>2, <2>5, Zenon DEF KeptInv
<1>3. ASSUME NEW c \in CPUs, FirstPalloc(c) PROVE KeptInv'
  <2>1. UNCHANGED <<bootVars, kept, owned>> /\ kept = {} /\ pc[c] = "idle" /\ pc'[c] = "scan" /\ n'[c] = 1
    BY <1>3, Zenon DEF FirstPalloc, CallPalloc, Goto, PmemInv, IInv, TypeOK
  <2> QED BY <1>2, <2>1, Zenon DEF KeptInv, Setting, Resetting
<1>4. ASSUME NEW c \in CPUs, Call(c) PROVE KeptInv'
  <2>1. UNCHANGED <<bootVars, kept>> /\ kept # {} /\ kept \subseteq owned[c]
    BY <1>4, Zenon DEF Call, KeptInv
  <2>2. kept \subseteq owned'[c]
    <3>1. CASE \E pages \in Lengths : CallPalloc(c, pages)
      BY <2>1, <3>1, Zenon DEF CallPalloc
    <3>2. CASE \E a \in owned[c] \ kept : CallFreepg(c, a)
      <4>1. PICK a \in owned[c] \ kept : owned' = [owned EXCEPT ![c] = @ \ {a}]
        BY <3>2, Zenon DEF CallFreepg
      <4>2. DOMAIN owned = CPUs
        BY Zenon DEF PmemInv, IInv, TypeOK
      <4> QED BY <2>1, <4>1, <4>2, Zenon
    <3> QED BY <1>4, <3>1, <3>2, Zenon DEF Call
  <2>3. \A d \in CPUs : d = c
    BY Zenon
  <2>4. Ready /\ InFirstEntry /\ Part \in BitmapPages => <<Part, 1>> \in kept
    BY <2>1, Zenon DEF KeptInv
  <2>5. Ready' = Ready /\ InFirstEntry' = InFirstEntry /\ Part' = Part /\ BitmapPages' = BitmapPages
    BY <1>2, <2>1, Zenon
  <2>6. Ready' /\ InFirstEntry' /\ Part' \in BitmapPages' => <<Part', 1>> \in kept
    BY ONLY <2>4, <2>5
  <2> QED BY <2>1, <2>2, <2>3, <2>6, Zenon DEF KeptInv
<1>5. ASSUME NEW c \in CPUs, Work(c) PROVE KeptInv'
  <2>1. UNCHANGED bootVars /\ Step(c) /\ kept' = (IF kept = {} THEN owned'[c] ELSE kept)
    BY <1>5, SMTT(20) DEF Work
  <2>2. owned[c] \subseteq owned'[c]
    <3>1. CASE ReturnPalloc(c)
      <4>1. DOMAIN owned = CPUs /\ owned' = [owned EXCEPT ![c] = @ \cup {<<p[c], n[c]>>}]
        BY <3>1, Zenon DEF ReturnPalloc, PmemInv, IInv, TypeOK
      <4> QED BY <4>1, Zenon
    <3>2. CASE ~ReturnPalloc(c)
      <4>1. owned' = owned
        BY <2>1, <3>2, ZenonT(60) DEF Step, ScanUsed, ScanFree, ScanBeyond, ScanDone, SetLoad, SetStore,
           ResetLoad, ResetStore, ReturnFreepg
      <4> QED BY <4>1, Zenon
    <3> QED BY <3>1, <3>2, Zenon
  <2>3. CASE kept # {}
    <3>1. kept' = kept /\ kept \subseteq owned'[c]
      BY <2>1, <2>2, <2>3, Zenon DEF KeptInv
    <3>2. \A d \in CPUs : d = c
      BY Zenon
    <3>3. Ready /\ InFirstEntry /\ Part \in BitmapPages => <<Part, 1>> \in kept
      BY <2>3, Zenon DEF KeptInv
    <3>4. Ready' = Ready /\ InFirstEntry' = InFirstEntry /\ Part' = Part /\ BitmapPages' = BitmapPages
      BY <1>2, <2>1, Zenon
    <3>5. Ready' /\ InFirstEntry' /\ Part' \in BitmapPages' => <<Part', 1>> \in kept
      BY ONLY <3>3, <3>4
    <3> QED BY <2>3, <3>1, <3>2, <3>5, Zenon DEF KeptInv
  <2>4. CASE kept = {}
    <3>0. Ready
      <4>1. pc[c] # "idle"
        BY <2>1, Zenon DEF Step, ScanUsed, ScanFree, ScanBeyond, ScanDone, SetLoad, SetStore,
           ReturnPalloc, ResetLoad, ResetStore, ReturnFreepg
      <4> QED BY <4>1, Zenon DEF PmemInv, QuietInv
    <3>1. /\ owned[c] = {} /\ kept' = owned'[c]
          /\ pc[c] \notin Resetting /\ (pc[c] # "idle" => n[c] = 1)
          /\ Ready /\ InFirstEntry /\ Part \in BitmapPages /\ pc[c] \in Setting => p[c] = Part
      BY <2>1, <2>4, Zenon DEF KeptInv
    <3>2. CASE ScanUsed(c) \/ ScanFree(c) \/ ScanBeyond(c)
      <4>1. owned' = owned /\ n' = n /\ pc[c] = "scan" /\ pc'[c] \in {"scan", "wild"}
        BY <3>2, Zenon DEF ScanUsed, ScanFree, ScanBeyond, Goto, PmemInv, IInv, TypeOK
      <4>2. pc'[c] \notin Resetting /\ pc'[c] \notin Setting
        BY <4>1, Zenon DEF Setting, Resetting
      <4> QED BY <1>a, <2>1, <3>1, <4>1, <4>2, Zenon
    <3>3. CASE ScanDone(c)
      <4>1. owned' = owned /\ n' = n /\ p' = p /\ pc[c] = "scan" /\ pc'[c] = "set"
        BY <3>3, Zenon DEF ScanDone, Goto, PmemInv, IInv, TypeOK
      <4>2. InFirstEntry /\ Part \in BitmapPages => p[c] = Part
        BY <2>4, <3>0, <3>3, FirstPage, Zenon
      <4>3. pc'[c] \notin Resetting
        BY <4>1, Zenon DEF Resetting
      <4> QED BY <1>a, <2>1, <3>1, <4>1, <4>2, <4>3, Zenon
    <3>4. CASE SetLoad(c) \/ SetStore(c)
      <4>1. owned' = owned /\ n' = n /\ p' = p /\ pc[c] \in Setting /\ pc'[c] \in Setting
        BY <3>4, Zenon DEF SetLoad, SetStore, Goto, PmemInv, IInv, TypeOK, Setting
      <4>2. pc[c] # "idle" /\ pc'[c] \notin Resetting
        BY <4>1, Zenon DEF Setting, Resetting
      <4> QED BY <1>a, <2>1, <3>1, <4>1, <4>2, Zenon
    <3>5. CASE ReturnPalloc(c)
      <4>1. owned'[c] = {<<p[c], n[c]>>} /\ pc[c] \in Setting /\ n[c] = 1
        BY <3>1, <3>5, Zenon DEF ReturnPalloc, PmemInv, IInv, TypeOK, Setting
      <4>2. kept' = {<<p[c], 1>>} /\ kept' # {} /\ \A d \in CPUs : kept' \subseteq owned'[d]
        BY <3>1, <4>1, Zenon
      <4>3. Ready' /\ InFirstEntry' /\ (Part \in BitmapPages)' => p[c] = Part'
        <5>1. Ready' = Ready /\ InFirstEntry' = InFirstEntry /\ Part' = Part /\ BitmapPages' = BitmapPages
          BY <1>2, <2>1, Zenon
        <5> QED BY <3>1, <4>1, <5>1, Zenon
      <4>4. Ready' /\ InFirstEntry' /\ (Part \in BitmapPages)' => <<Part, 1>>' \in kept'
        BY <4>2, <4>3, Zenon
      <4> QED BY <4>2, <4>4, Zenon DEF KeptInv
    <3>6. CASE ResetLoad(c) \/ ResetStore(c) \/ ReturnFreepg(c)
      <4>1. pc[c] \in Resetting
        BY <3>6, ZenonT(30) DEF ResetLoad, ResetStore, ReturnFreepg, Resetting
      <4> QED BY <3>1, <4>1, Zenon
    <3> QED BY <2>1, <3>2, <3>3, <3>4, <3>5, <3>6, Zenon DEF Step
  <2> QED BY <2>3, <2>4, Zenon
<1>6. CASE UNCHANGED pmemVars
  <2>1. UNCHANGED <<bootVars, kept, owned, pc, n, p>>
    BY <1>6, Zenon DEF pmemVars, vars, callVars
  <2>2. /\ Ready' = Ready /\ InFirstEntry' = InFirstEntry
        /\ Part' = Part /\ BitmapPages' = BitmapPages
    BY <1>2, <2>1, Zenon
  <2>3. \A c \in CPUs :
          /\ kept' \subseteq owned'[c]
          /\ kept' = {} => /\ owned'[c] = {} /\ pc'[c] \notin Resetting
                           /\ pc'[c] # "idle" => n'[c] = 1
    BY <2>1, Zenon DEF KeptInv
  <2>4. Ready' /\ InFirstEntry' /\ (Part \in BitmapPages)' =>
          /\ kept' # {} => <<Part, 1>>' \in kept'
          /\ kept' = {} => \A c \in CPUs : pc'[c] \in Setting => p'[c] = Part'
    BY <2>1, <2>2, Zenon DEF KeptInv
  <2> QED BY <2>3, <2>4, Zenon DEF KeptInv
<1> QED BY <1>1, <1>3, <1>4, <1>5, <1>6, Zenon DEF PmemNext

\* Only initbmap() changes what is freed at first.
LEMMA FreedStep ==
  ASSUME NEW boot, CPUs = {boot}, PmemInv, PlacedInv, FreedInv, [PmemNext]_pmemVars
  PROVE  PlacedInv' /\ FreedInv'
<1>1. CASE initbmap
  BY <1>1, BootFreed, Zenon
<1>2. CASE ~initbmap
  <2>1. UNCHANGED bootVars /\ [Next]_vars
    <3>1. ASSUME NEW c \in CPUs, FirstPalloc(c) \/ Call(c) \/ Work(c) PROVE UNCHANGED bootVars /\ Next
      BY <3>1, PmemAssumption, Zenon DEF FirstPalloc, Call, Work, Next
    <3>2. CASE UNCHANGED pmemVars
      BY <3>2, Zenon DEF pmemVars
    <3> QED BY <1>2, <3>1, <3>2, Zenon DEF PmemNext
  <2>2. npages' = npages /\ reserved' = reserved /\ Pages' = Pages
    BY <2>1, MemoryStays, Zenon
  <2> QED BY <2>1, <2>2 DEF bootVars, PlacedInv, PlacedIn, FreedInv, PagesOf, Boot!Fills
<1> QED BY <1>1, <1>2, Zenon

\* The inductive invariant of the kernel's first pages.
FirstInv == PmemInv /\ PlacedInv /\ FreedInv /\ KeptInv

\* It is one.
LEMMA FirstInvariance == ASSUME NEW CONSTANT boot, CPUs = {boot} PROVE PmemSpec => []FirstInv
<1>1. ASSUME PmemInit PROVE FirstInv
  <2>1. PmemInv
    BY <1>1, PmemInitInv, Zenon
  <2>2. memmap = given /\ bitmap_addr = -1 /\ kept = {}
    BY <1>1, Zenon DEF PmemInit, Boot!Init, Boot!NoBitmap
  <2>3. \A c \in CPUs : pc[c] = "idle" /\ owned[c] = {}
    BY <1>1, Zenon DEF PmemInit, InitCalls
  <2> QED BY <2>1, <2>2, <2>3, Zenon DEF FirstInv, PlacedInv, FreedInv, KeptInv, Setting, Resetting
<1>2. FirstInv /\ [PmemNext]_pmemVars => FirstInv'
  BY PmemStepInv, FreedStep, KeptStep, Zenon DEF FirstInv
<1> QED BY <1>1, <1>2, PTL DEF PmemSpec

\* For every memory map that keeps the boot protocol: when initbmap() returns,
\* the usable memory that the bitmap does not fill is free, and nothing else.
THEOREM OneCpuFreeAtFirst ==
  ASSUME NEW CONSTANT boot, CPUs = {boot} PROVE PmemSpec => []FreeAtFirst
<1>1. ASSUME FirstInv PROVE FreeAtFirst
  BY <1>1, FreeFacts, Zenon DEF FirstInv
<1> QED BY <1>1, FirstInvariance, PTL

\* For every such map: if the bitmap is in the first usable entry, nobody but
\* kmain() is given a page of it, whatever is allocated and freed.
THEOREM OneCpuBitmapKept ==
  ASSUME NEW CONSTANT boot, CPUs = {boot} PROVE PmemSpec => []BitmapKept
<1>1. ASSUME FirstInv PROVE BitmapKept
  <2> SUFFICES ASSUME Ready, InFirstEntry, NEW c \in CPUs, NEW a \in owned[c] \ kept,
                      NEW x \in Run(a[1], a[2]), x \in BitmapPages
               PROVE  FALSE
    BY Zenon DEF BitmapKept
  <2>0. PmemInv /\ PlacedInv /\ FreedInv /\ KeptInv
    BY <1>1, Zenon DEF FirstInv
  <2>1. OwnedInv(c)
    BY <2>0, Zenon DEF PmemInv, IInv, CpuInv
  <2>2. x \in Pages /\ x \notin reserved
    BY <2>1, Zenon DEF OwnedInv
  <2>3. ~Boot!Fills(x)
    BY <2>0, <2>2, Zenon DEF FreedInv, Ready, Boot!Done, Boot!NoBitmap
  <2>4. x = Part /\ Part \in Nat
    BY <2>0, <2>3, PartFacts, Zenon
  <2>5. <<Part, 1>> \in kept /\ <<Part, 1>> \in owned[c]
    BY <2>0, <2>4, Zenon DEF KeptInv
  <2>6. x \in Run(<<Part, 1>>[1], <<Part, 1>>[2])
    BY <2>4 DEF Run
  <2>7. Run(a[1], a[2]) \cap Run(<<Part, 1>>[1], <<Part, 1>>[2]) = {}
    BY <2>1, <2>5, Zenon DEF OwnedInv
  <2> QED BY <2>6, <2>7, Zenon
<1> QED BY <1>1, FirstInvariance, PTL
=============================================================================

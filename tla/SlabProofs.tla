----------------------------- MODULE SlabProofs ----------------------------
(***************************************************************************)
(* Proofs about the kernel heap: for every page size up to the kernel's,   *)
(* every size of the header, all requests and any number of allocations,   *)
(* kfree() tells blocks and large allocations apart, and no page serves    *)
(* two purposes, as long as the heap has not gone wild.  That newslab()    *)
(* leaves the next pointer of the last block as it was needs no assumption *)
(* on the memory: taking a block from behind it is where the heap goes     *)
(* wild.                                                                   *)
(***************************************************************************)
EXTENDS Slab, WellFoundedInduction, TLAPS

\* The metadata page of a large allocation.
LargeAt(a, g) == g \in Pages /\ a.addr = (g + 1) * PGSIZE

\* Types, as far as the argument needs them.
Types ==
  /\ used \subseteq Pages /\ slabs \in Seq(Pages)
  /\ refcount \in [Pages -> Nat] /\ pagecount \in [Pages -> Nat]
  /\ DOMAIN freelist = Pages /\ \A g \in Pages : freelist[g] \in Seq(Int)
  /\ \A a \in live : a.addr \in Int /\ a.kind \in {"block", "large"}

\* The slabs on the list are distinct pages in use that count a block in use.
SlabsInv ==
  /\ \A i, j \in 1 .. Len(slabs) : slabs[i] = slabs[j] => i = j
  /\ \A i \in 1 .. Len(slabs) : slabs[i] \in used /\ refcount[slabs[i]] > 0
  /\ panic = FALSE

\* No block is page aligned, on a free list or in use; Stale is not, either.
BlocksInv ==
  /\ \A g \in Pages : \A k \in DOMAIN freelist[g] : ~IsAligned(freelist[g][k])
  /\ \A a \in live : a.kind = "block" => ~IsAligned(a.addr)

\* The pages of the large allocations are in use, carry no slab, and belong to
\* one allocation each.
LargeInv ==
  /\ \A a \in live : a.kind = "large" => \E g \in Pages :
       /\ LargeAt(a, g)
       /\ \A h \in g .. g + pagecount[g] : h \in used /\ \A i \in 1 .. Len(slabs) : slabs[i] # h
  /\ \A a, b \in live : \A g, h \in Pages :
       a.kind = "large" /\ b.kind = "large" /\ a # b /\ LargeAt(a, g) /\ LargeAt(b, h) =>
         (g .. g + pagecount[g]) \cap (h .. h + pagecount[h]) = {}

\* The inductive invariant.
Inv == Types /\ SlabsInv /\ BlocksInv /\ LargeInv

-----------------------------------------------------------------------------
\* The constants are numbers.
LEMMA Numbers ==
  /\ PGSIZE \in Nat \ {0} /\ Header \in Nat /\ 0 < Header /\ Header < PGSIZE
  /\ NPages \in Nat /\ Pages \subseteq Nat
<1>1. PGSIZE \in Nat \ {0}
  BY SlabAssumption DEF Powers
<1> QED BY <1>1, SlabAssumption DEF Pages

\* The remainder of an address is its offset in the page.
LEMMA Offset ==
  ASSUME NEW q \in Int, NEW r \in Int, NEW d \in Nat \ {0}, 0 <= r, r < d
  PROVE  (q * d + r) % d = r /\ (q * d + r) \div d = q
  OBVIOUS

\* A number has a quotient and a remainder.
LEMMA Quotient ==
  ASSUME NEW x \in Nat, NEW d \in Nat \ {0}
  PROVE  \E q \in Nat, r \in Nat : x = q * d + r /\ r < d /\ x \div d = q
  OBVIOUS

\* Multiplication keeps the order.
LEMMA TimesMono ==
  ASSUME NEW a \in Int, NEW b \in Int, NEW d \in Nat \ {0}
  PROVE  a <= b <=> a * d <= b * d
  OBVIOUS

\* A set of numbers that is not empty has a least element.
LEMMA Least ==
  ASSUME NEW T \in SUBSET Nat, T # {}
  PROVE  \E m \in T : \A k \in T : m <= k
<1>1. PICK m \in T : \A k \in T : ~ (<<k, m>> \in OpToRel(<, Nat))
  BY NatLessThanWellFounded, WFMin, Zenon
<1>2. \A k \in T : ~(k < m)
  BY <1>1, Zenon DEF OpToRel
<1> QED BY <1>2

\* The minimum of a set of numbers is in it.
LEMMA MinIn == ASSUME NEW S \in SUBSET Nat, S # {} PROVE Min(S) \in S
<1>1. \E x \in S : \A y \in S : x <= y
  BY Least, Zenon
<1> QED BY <1>1, Zenon DEF Min

\* roundup() returns a size of blocks.
LEMMA RoundupFacts == ASSUME NEW sz \in Sizes, sz <= PGSIZE PROVE roundup(sz) \in Nat \ {0}
<1> DEFINE S == {k \in Powers : k >= sz}
<1>1. PGSIZE \in S /\ S \in SUBSET Nat /\ 0 \notin S
  BY SlabAssumption, Numbers DEF Powers
<1> HIDE DEF S
<1>2. Min(S) \in S
  BY <1>1, MinIn, Zenon
<1>3. roundup(sz) = Min(S)
  BY Zenon DEF roundup, S
<1> QED BY <1>1, <1>2, <1>3, Zenon

\* newslab() links at least one block, and none is page aligned.
LEMMA BlocksFacts ==
  ASSUME NEW g \in Pages, NEW sz \in Nat \ {0}
  PROVE  /\ BlocksOf(g, sz) \in Seq(Int) /\ Len(BlocksOf(g, sz)) > 0
         /\ \A k \in DOMAIN BlocksOf(g, sz) : ~IsAligned(BlocksOf(g, sz)[k])
<1> DEFINE x == (PGSIZE - Header + sz) - 1
           n == x \div sz
<1>0. g \in Nat /\ PGSIZE \in Nat \ {0} /\ Header \in Nat /\ 0 < Header /\ Header < PGSIZE
  BY Numbers, Zenon
<1>1. x \in Nat /\ sz <= x
  BY <1>0
<1> HIDE DEF x
<1>2. PICK q \in Nat, r \in Nat : x = q * sz + r /\ r < sz /\ x \div sz = q
  BY <1>1, Quotient, Zenon
<1>3. n = q
  BY <1>2, Zenon
<1>4. q > 0
  BY <1>1, <1>2
<1>5. BlocksOf(g, sz) = [k \in 1 .. n |-> g * PGSIZE + Header + (k - 1) * sz]
  <2>1. PGSIZE - Header + sz - 1 = x
    BY <1>0 DEF x
  <2> QED BY <2>1, Zenon DEF BlocksOf
<1> HIDE DEF n
<1>6. ASSUME NEW k \in 1 .. n
      PROVE  /\ g * PGSIZE + Header + (k - 1) * sz \in Int
             /\ ~IsAligned(g * PGSIZE + Header + (k - 1) * sz)
  <2>1. k - 1 \in Nat /\ k - 1 <= q - 1 /\ q - 1 \in Nat
    BY <1>3, <1>6
  <2>2. (k - 1) * sz <= (q - 1) * sz /\ (k - 1) * sz \in Nat
    BY <2>1, TimesMono
  <2>3. (q - 1) * sz = q * sz - sz
    OBVIOUS
  <2> DEFINE o == Header + (k - 1) * sz
  <2>4. o \in Int /\ 0 < o /\ o < PGSIZE
    BY <1>0, <1>2, <2>2, <2>3 DEF x
  <2>5. g * PGSIZE + Header + (k - 1) * sz = g * PGSIZE + o
    BY <1>0, <2>2
  <2> HIDE DEF o
  <2>6. (g * PGSIZE + o) % PGSIZE = o
    BY <1>0, <2>4, Offset
  <2>7. g * PGSIZE + o \in Int
    BY <1>0, <2>4
  <2> QED BY <2>4, <2>5, <2>6, <2>7 DEF IsAligned
<1>7. n \in Nat /\ n > 0
  BY <1>3, <1>4, Zenon
<1> DEFINE B == BlocksOf(g, sz)
<1>8. DOMAIN B = 1 .. n /\ \A k \in 1 .. n : B[k] \in Int /\ ~IsAligned(B[k])
  BY <1>5, <1>6, Zenon
<1>9. B \in [1 .. n -> Int]
  BY <1>5, <1>6, Zenon
<1>10. B \in Seq(Int) /\ Len(B) = n
  BY <1>7, <1>9
<1> QED BY <1>7, <1>8, <1>10, Zenon

\* A slab that is found is on the list and has a free block.
LEMMA FindFacts ==
  ASSUME NEW sz, Types, FindSlab(sz) # 0
  PROVE  FindSlab(sz) \in 1 .. Len(slabs) /\ freelist[slabs[FindSlab(sz)]] # <<>>
<1> DEFINE I == {i \in 1 .. Len(slabs) : size[slabs[i]] = sz /\ freelist[slabs[i]] # <<>>}
<1>1. FindSlab(sz) = IF I = {} THEN 0 ELSE Min(I)
  BY Zenon DEF FindSlab
<1>2. I \in SUBSET Nat
  BY DEF Types
<1>3. I # {} => Min(I) \in I
  BY <1>2, MinIn, Zenon
<1> QED BY <1>1, <1>3, Zenon

\* What the client is given.
LEMMA ObtainFacts ==
  ASSUME NEW addr, NEW sz, NEW kind, Obtain(addr, sz, kind)
  PROVE  \E x : live' = live \cup {x} /\ x.addr = addr /\ x.kind = kind
<1> DEFINE Allocation(k) == [addr |-> addr, size |-> sz, kind |-> kind, nth |-> k]
           x == Allocation(Min({k \in 0 .. MaxLive : Allocation(k) \notin live}))
<1>1. live' = live \cup {x}
  BY Zenon DEF Obtain
<1>2. x.addr = addr /\ x.kind = kind
  BY Zenon
<1> HIDE DEF x
<1> QED BY <1>1, <1>2, Zenon

\* The head of a free list, and what is left.
LEMMA ListFacts ==
  ASSUME NEW fl \in Seq(Int), fl # <<>>, \A k \in DOMAIN fl : ~IsAligned(fl[k])
  PROVE  /\ Head(fl) \in Int /\ ~IsAligned(Head(fl)) /\ Tail(fl) \in Seq(Int)
         /\ \A k \in DOMAIN Tail(fl) : ~IsAligned(Tail(fl)[k])
<1>1. Head(fl) = fl[1] /\ 1 \in DOMAIN fl
  OBVIOUS
<1>2. Tail(fl) \in Seq(Int)
  OBVIOUS
<1>3. \A k \in DOMAIN Tail(fl) : k + 1 \in DOMAIN fl /\ Tail(fl)[k] = fl[k + 1]
  OBVIOUS
<1> QED BY <1>1, <1>2, <1>3

-----------------------------------------------------------------------------
\* A step that neither makes a large allocation nor touches the pages of one
\* keeps the account of the large allocations.
LEMMA LargeKept ==
  ASSUME Types, LargeInv, pagecount' = pagecount, \A a \in live' : a.kind = "large" => a \in live,
         \A h \in used : (\A i \in 1 .. Len(slabs) : slabs[i] # h) =>
           h \in used' /\ \A i \in 1 .. Len(slabs') : slabs'[i] # h
  PROVE  LargeInv'
<1>1. ASSUME NEW a \in live', a.kind = "large"
      PROVE  \E g \in Pages :
               /\ LargeAt(a, g)
               /\ \A h \in g .. g + pagecount[g] : h \in used' /\ \A i \in 1 .. Len(slabs') : slabs'[i] # h
  <2>1. PICK g \in Pages :
          /\ LargeAt(a, g)
          /\ \A h \in g .. g + pagecount[g] : h \in used /\ \A i \in 1 .. Len(slabs) : slabs[i] # h
    BY <1>1, Zenon DEF LargeInv
  <2> QED BY <2>1, Zenon
<1>2. \A a, b \in live' : \A g, h \in Pages :
        a.kind = "large" /\ b.kind = "large" /\ a # b /\ LargeAt(a, g) /\ LargeAt(b, h) =>
          (g .. g + pagecount[g]) \cap (h .. h + pagecount[h]) = {}
  BY Zenon DEF LargeInv
<1> QED BY <1>1, <1>2 DEF LargeInv

\* kalloc() of a block: a client gets one that is not aligned, and the slab has
\* it counted.
LEMMA AllocFacts ==
  ASSUME Inv, NEW g \in Pages, NEW c \in Nat, NEW fl \in Seq(Int), fl # <<>>,
         \A k \in DOMAIN fl : ~IsAligned(fl[k]), allocblock(g, c, fl),
         NEW sz, Obtain(Head(fl), sz, "block")
  PROVE  /\ refcount' \in [Pages -> Nat] /\ refcount'[g] > 0
         /\ \A h \in Pages \ {g} : refcount'[h] = refcount[h]
         /\ DOMAIN freelist' = Pages /\ \A h \in Pages : freelist'[h] \in Seq(Int)
         /\ \A h \in Pages : \A k \in DOMAIN freelist'[h] : ~IsAligned(freelist'[h][k])
         /\ \A a \in live' : a.addr \in Int /\ a.kind \in {"block", "large"}
         /\ \A a \in live' : a.kind = "block" => ~IsAligned(a.addr)
         /\ \A a \in live' : a.kind = "large" => a \in live
<1>1. /\ Head(fl) \in Int /\ ~IsAligned(Head(fl)) /\ Tail(fl) \in Seq(Int)
      /\ \A k \in DOMAIN Tail(fl) : ~IsAligned(Tail(fl)[k])
  BY ListFacts, Zenon
<1>2. PICK x : live' = live \cup {x} /\ x.addr = Head(fl) /\ x.kind = "block"
  BY ObtainFacts
<1>3. /\ \A a \in live' : a.addr \in Int /\ a.kind \in {"block", "large"}
      /\ \A a \in live' : a.kind = "block" => ~IsAligned(a.addr)
      /\ \A a \in live' : a.kind = "large" => a \in live
  BY <1>1, <1>2, Zenon DEF Inv, Types, BlocksInv
<1>4. /\ refcount' \in [Pages -> Nat] /\ refcount'[g] > 0
      /\ \A h \in Pages \ {g} : refcount'[h] = refcount[h]
  BY DEF Inv, Types, allocblock
<1>5. /\ DOMAIN freelist' = Pages /\ freelist'[g] = Tail(fl)
      /\ \A h \in Pages \ {g} : freelist'[h] = freelist[h]
  BY Zenon DEF Inv, Types, allocblock
<1>6. /\ \A h \in Pages : freelist'[h] \in Seq(Int)
      /\ \A h \in Pages : \A k \in DOMAIN freelist'[h] : ~IsAligned(freelist'[h][k])
  BY <1>1, <1>5, Zenon DEF Inv, Types, BlocksInv
<1> QED BY <1>3, <1>4, <1>5, <1>6, Zenon

\* A step that leaves the heap as it is keeps the invariant.
LEMMA SameInv ==
  ASSUME Inv, UNCHANGED <<used, slabs, refcount, freelist, pagecount, live, panic>>
  PROVE  Inv'
<1>1. Types'
  BY Zenon DEF Inv, Types
<1>2. SlabsInv'
  BY Zenon DEF Inv, SlabsInv
<1>3. BlocksInv'
  BY Zenon DEF Inv, BlocksInv
<1>4. LargeInv'
  BY LargeKept, Zenon DEF Inv
<1> QED BY <1>1, <1>2, <1>3, <1>4, Zenon DEF Inv

\* kalloc() that finds a slab keeps the invariant.
LEMMA FoundInv == ASSUME Inv, NEW sz \in Sizes, KallocFound(sz) PROVE Inv'
<1> DEFINE z == roundup(sz)
           g == slabs[FindSlab(z)]
           fl == freelist[g]
<1>1. FindSlab(z) # 0
  BY Zenon DEF KallocFound
<1>2. FindSlab(z) \in 1 .. Len(slabs) /\ fl # <<>>
  BY <1>1, FindFacts, Zenon DEF Inv
<1>3. g \in Pages
  BY <1>2 DEF Inv, Types
<1>4. /\ \/ allocblock(g, refcount[g], fl) /\ Obtain(Head(fl), z, "block")
         \/ UNCHANGED <<refcount, freelist, live>>
      /\ UNCHANGED <<used, slabs, pagecount, panic>>
  BY Zenon DEF KallocFound
<1>5. refcount[g] \in Nat /\ fl \in Seq(Int) /\ \A k \in DOMAIN fl : ~IsAligned(fl[k])
  BY <1>3, Zenon DEF Inv, Types, BlocksInv
<1> HIDE DEF z, g, fl
<1>a. CASE UNCHANGED <<refcount, freelist, live>>
  BY <1>4, <1>a, SameInv, Zenon
<1>b. CASE allocblock(g, refcount[g], fl) /\ Obtain(Head(fl), z, "block")
  <2>1. /\ refcount' \in [Pages -> Nat] /\ refcount'[g] > 0
        /\ \A h \in Pages \ {g} : refcount'[h] = refcount[h]
        /\ DOMAIN freelist' = Pages /\ \A h \in Pages : freelist'[h] \in Seq(Int)
        /\ \A h \in Pages : \A k \in DOMAIN freelist'[h] : ~IsAligned(freelist'[h][k])
        /\ \A a \in live' : a.addr \in Int /\ a.kind \in {"block", "large"}
        /\ \A a \in live' : a.kind = "block" => ~IsAligned(a.addr)
        /\ \A a \in live' : a.kind = "large" => a \in live
    BY <1>2, <1>3, <1>5, <1>b, AllocFacts, Zenon
  <2>2. Types'
    BY <1>4, <2>1, Zenon DEF Inv, Types
  <2>3. SlabsInv'
    BY <1>4, <2>1, Zenon DEF Inv, Types, SlabsInv
  <2>4. BlocksInv'
    BY <2>1, Zenon DEF BlocksInv
  <2>5. LargeInv'
    BY <1>4, <2>1, LargeKept, Zenon DEF Inv
  <2> QED BY <2>2, <2>3, <2>4, <2>5, Zenon DEF Inv
<1> QED BY <1>4, <1>a, <1>b, Zenon

\* kalloc() that makes a slab keeps it.
LEMMA NewInv == ASSUME Inv, NEW sz \in Sizes, KallocNew(sz) PROVE Inv'
<1> DEFINE z == roundup(sz)
<1>1. z \in Nat \ {0}
  BY RoundupFacts, Zenon DEF KallocNew
<1>a. PICK g \in Pages : \E last \in {<<>>, <<Stale>>} :
        /\ palloc(1, g) /\ used' = used \cup {g} /\ slabs' = <<g>> \o slabs
        /\ allocblock(g, 0, BlocksOf(g, z) \o last) /\ Obtain(Head(BlocksOf(g, z) \o last), z, "block")
  BY Zenon DEF KallocNew
<1>2. PICK last \in {<<>>, <<Stale>>} :
        /\ palloc(1, g) /\ used' = used \cup {g} /\ slabs' = <<g>> \o slabs
        /\ allocblock(g, 0, BlocksOf(g, z) \o last) /\ Obtain(Head(BlocksOf(g, z) \o last), z, "block")
  BY <1>a, Zenon
<1>3. UNCHANGED <<pagecount, panic>>
  BY Zenon DEF KallocNew
<1> DEFINE B == BlocksOf(g, z)
           fl == B \o last
<1>4. B \in Seq(Int) /\ Len(B) > 0 /\ \A k \in DOMAIN B : ~IsAligned(B[k])
  BY <1>1, BlocksFacts, Zenon
<1>5. last \in Seq(Int) /\ \A k \in DOMAIN last : ~IsAligned(last[k])
  <2>1. -1 = (-1) * PGSIZE + (PGSIZE - 1) /\ 0 < PGSIZE - 1 /\ PGSIZE - 1 < PGSIZE
    BY Numbers
  <2>2. (-1) % PGSIZE = PGSIZE - 1
    BY <2>1, Numbers, Offset, SMTT(20)
  <2>3. Stale \in Int /\ ~IsAligned(Stale)
    BY <2>1, <2>2 DEF Stale, IsAligned
  <2>4. CASE last = <<>>
    BY <2>4
  <2>5. CASE last = <<Stale>>
    BY <2>3, <2>5
  <2> QED BY <2>4, <2>5, Zenon
<1> HIDE DEF z, B
<1>6. fl \in Seq(Int) /\ fl # <<>> /\ \A k \in DOMAIN fl : ~IsAligned(fl[k])
  <2>1. /\ fl \in Seq(Int) /\ Len(fl) = Len(B) + Len(last)
        /\ \A k \in 1 .. Len(fl) : fl[k] = IF k <= Len(B) THEN B[k] ELSE last[k - Len(B)]
    BY <1>4, <1>5
  <2>a. Len(B) \in Nat /\ Len(last) \in Nat /\ DOMAIN B = 1 .. Len(B) /\ DOMAIN last = 1 .. Len(last)
    BY <1>4, <1>5, SMTT(20)
  <2> HIDE DEF fl
  <2>2. fl # <<>>
    BY <1>4, <1>5, <2>1
  <2>3. ASSUME NEW k \in DOMAIN fl PROVE ~IsAligned(fl[k])
    <3>1. k \in 1 .. Len(fl)
      BY <2>1
    <3>2. CASE k <= Len(B)
      <4>1. k \in DOMAIN B /\ fl[k] = B[k]
        BY <2>1, <2>a, <3>1, <3>2
      <4> QED BY <1>4, <4>1, Zenon
    <3>3. CASE ~(k <= Len(B))
      <4>1. k - Len(B) \in DOMAIN last /\ fl[k] = last[k - Len(B)]
        BY <2>1, <2>a, <3>1, <3>3, SMTT(20)
      <4> QED BY <1>5, <4>1, Zenon
    <3> QED BY <3>2, <3>3, Zenon
  <2> QED BY <2>1, <2>2, <2>3, Zenon
<1>7. allocblock(g, 0, fl) /\ Obtain(Head(fl), z, "block")
  BY <1>2, Zenon DEF B
<1> HIDE DEF fl
<1>8. /\ refcount' \in [Pages -> Nat] /\ refcount'[g] > 0
      /\ \A h \in Pages \ {g} : refcount'[h] = refcount[h]
      /\ DOMAIN freelist' = Pages /\ \A h \in Pages : freelist'[h] \in Seq(Int)
      /\ \A h \in Pages : \A k \in DOMAIN freelist'[h] : ~IsAligned(freelist'[h][k])
      /\ \A a \in live' : a.addr \in Int /\ a.kind \in {"block", "large"}
      /\ \A a \in live' : a.kind = "block" => ~IsAligned(a.addr)
      /\ \A a \in live' : a.kind = "large" => a \in live
  BY <1>6, <1>7, AllocFacts, Zenon
<1>9. g \notin used
  <2>1. g \in g .. g + 1 - 1
    BY Numbers
  <2> QED BY <1>2, <2>1, Zenon DEF palloc
<1>10. /\ slabs' \in Seq(Pages) /\ Len(slabs') = Len(slabs) + 1 /\ slabs'[1] = g
       /\ \A i \in 2 .. Len(slabs') : i - 1 \in 1 .. Len(slabs) /\ slabs'[i] = slabs[i - 1]
  BY <1>2 DEF Inv, Types
<1>11. Types'
  BY <1>2, <1>3, <1>8, <1>10, Zenon DEF Inv, Types
<1>b. Len(slabs') \in Nat
  BY <1>10, SMTT(20) DEF Inv, Types
<1>12. SlabsInv'
  <2>1. ASSUME NEW i \in 1 .. Len(slabs'), NEW j \in 1 .. Len(slabs'), slabs'[i] = slabs'[j] PROVE i = j
    <3>1. \A k \in 2 .. Len(slabs') : slabs'[k] \in used
      BY <1>10, Zenon DEF Inv, SlabsInv
    <3>2. i = 1 \/ i \in 2 .. Len(slabs')
      BY <1>b
    <3>3. j = 1 \/ j \in 2 .. Len(slabs')
      BY <1>b
    <3>4. CASE i = 1 \/ j = 1
      BY <1>9, <1>10, <2>1, <3>1, <3>2, <3>3, <3>4, ZenonT(30), Zenon
    <3>5. CASE i \in 2 .. Len(slabs') /\ j \in 2 .. Len(slabs')
      <4>1. i - 1 = j - 1
        BY <1>10, <2>1, <3>5 DEF Inv, SlabsInv
      <4> QED BY <3>5, <4>1
    <3> QED BY <3>2, <3>3, <3>4, <3>5, Zenon
  <2>2. ASSUME NEW i \in 1 .. Len(slabs') PROVE slabs'[i] \in used' /\ refcount'[slabs'[i]] > 0
    <3>1. CASE i = 1
      BY <1>2, <1>8, <1>10, <3>1, ZenonT(30), Zenon
    <3>2. CASE i # 1
      <4>0. i \in 2 .. Len(slabs')
        BY <1>b, <3>2
      <4>1. i - 1 \in 1 .. Len(slabs) /\ slabs'[i] = slabs[i - 1]
        BY <1>10, <4>0, SMTT(20)
      <4>2. slabs[i - 1] \in used /\ refcount[slabs[i - 1]] > 0 /\ slabs[i - 1] \in Pages \ {g}
        BY <1>9, <4>1, Zenon DEF Inv, Types, SlabsInv
      <4> QED BY <1>2, <1>8, <4>1, <4>2, Zenon
    <3> QED BY <3>1, <3>2, Zenon
  <2> QED BY <1>3, <2>1, <2>2, Zenon DEF Inv, SlabsInv
<1>13. BlocksInv'
  BY <1>8, Zenon DEF BlocksInv
<1>14. LargeInv'
  <2>1. ASSUME NEW h \in used, \A i \in 1 .. Len(slabs) : slabs[i] # h
        PROVE  h \in used' /\ \A i \in 1 .. Len(slabs') : slabs'[i] # h
    <3>1. ASSUME NEW i \in 1 .. Len(slabs') PROVE slabs'[i] # h
      <4>1. i = 1 \/ i \in 2 .. Len(slabs')
        BY <1>b
      <4> QED BY <1>9, <1>10, <2>1, <4>1, Zenon
    <3> QED BY <1>2, <3>1, Zenon
  <2> QED BY <1>3, <1>8, <2>1, LargeKept, Zenon DEF Inv
<1> QED BY <1>11, <1>12, <1>13, <1>14, Zenon DEF Inv

-----------------------------------------------------------------------------
\* A page determines the large allocation behind it.
LEMMA OnePage ==
  ASSUME NEW a, NEW g, NEW h, LargeAt(a, g), LargeAt(a, h)
  PROVE  g = h /\ PageOf(a.addr) - 1 = g /\ IsAligned(a.addr)
<1>1. g \in Nat /\ h \in Nat /\ PGSIZE \in Nat \ {0}
  BY Numbers, Zenon DEF LargeAt
<1>2. ASSUME NEW k \in Nat, a.addr = (k + 1) * PGSIZE
      PROVE  a.addr \div PGSIZE = k + 1 /\ a.addr % PGSIZE = 0
  <2>1. a.addr = (k + 1) * PGSIZE + 0
    BY <1>1, <1>2
  <2> QED BY <1>1, <2>1, Offset, SMTT(20)
<1>3. a.addr \div PGSIZE = g + 1 /\ a.addr \div PGSIZE = h + 1 /\ a.addr % PGSIZE = 0
  BY <1>1, <1>2, Zenon DEF LargeAt
<1> QED BY <1>1, <1>3 DEF PageOf, IsAligned

\* kalloclarge() keeps the invariant.
LEMMA LargeAllocInv == ASSUME Inv, NEW sz \in Sizes, kalloclarge(sz) PROVE Inv'
<1> DEFINE n == (sz + PGSIZE - 1) \div PGSIZE
<1>1. n \in Nat
  <2>1. sz + PGSIZE - 1 \in Nat /\ PGSIZE \in Nat \ {0}
    BY SlabAssumption, Numbers
  <2> QED BY <2>1, Quotient, Zenon
<1>2. PICK g \in Pages :
        /\ palloc(n + 1, g) /\ used' = used \cup (g .. g + n)
        /\ pagecount' = [pagecount EXCEPT ![g] = n] /\ Obtain((g + 1) * PGSIZE, n * PGSIZE, "large")
  BY Zenon DEF kalloclarge
<1>3. UNCHANGED <<slabs, refcount, freelist, panic>>
  BY Zenon DEF kalloclarge, slabVars
<1> HIDE DEF n
<1>4. g .. g + n \subseteq Pages \ used
  <2>1. g .. g + (n + 1) - 1 \subseteq Pages \ used
    BY <1>2, Zenon DEF palloc
  <2>2. g + (n + 1) - 1 = g + n
    BY <1>1, Numbers
  <2> QED BY <2>1, <2>2, Zenon
<1>5. PICK x : live' = live \cup {x} /\ x.addr = (g + 1) * PGSIZE /\ x.kind = "large"
  BY <1>2, ObtainFacts
<1>6. LargeAt(x, g)
  BY <1>5, Zenon DEF LargeAt
<1>7. (g + 1) * PGSIZE \in Int
  BY Numbers
<1>8. pagecount'[g] = n /\ \A h \in Pages \ {g} : pagecount'[h] = pagecount[h]
  BY <1>2, Zenon DEF Inv, Types
<1>9. Types'
  <2>1. used' \subseteq Pages /\ slabs' \in Seq(Pages) /\ refcount' \in [Pages -> Nat]
    BY <1>2, <1>3, <1>4, Zenon DEF Inv, Types
  <2>2. pagecount' \in [Pages -> Nat]
    BY <1>1, <1>2, Zenon DEF Inv, Types
  <2>3. \A a \in live' : a.addr \in Int /\ a.kind \in {"block", "large"}
    BY <1>5, <1>7, Zenon DEF Inv, Types
  <2> QED BY <1>3, <2>1, <2>2, <2>3, Zenon DEF Inv, Types
<1>10. SlabsInv'
  BY <1>2, <1>3, Zenon DEF Inv, SlabsInv
<1>11. BlocksInv'
  BY <1>3, <1>5, Zenon DEF Inv, BlocksInv
<1>12. ASSUME NEW a \in live, a.kind = "large", NEW h \in Pages, LargeAt(a, h)
       PROVE  /\ h # g /\ pagecount'[h] = pagecount[h]
              /\ \A k \in h .. h + pagecount[h] : k \in used /\ \A i \in 1 .. Len(slabs) : slabs[i] # k
  <2>1. PICK e \in Pages :
          /\ LargeAt(a, e)
          /\ \A k \in e .. e + pagecount[e] : k \in used /\ \A i \in 1 .. Len(slabs) : slabs[i] # k
    BY <1>12, Zenon DEF Inv, LargeInv
  <2>2. e = h
    BY <1>12, <2>1, OnePage, Zenon
  <2>3. h \in h .. h + pagecount[h] /\ g \in g .. g + n
    BY <1>1, Numbers, SMTT(30) DEF Inv, Types
  <2>4. h # g
    BY <1>4, <2>1, <2>2, <2>3, Zenon
  <2> QED BY <1>8, <2>1, <2>2, <2>4, Zenon
<1>13. ASSUME NEW a \in live', a.kind = "large"
       PROVE  \E h \in Pages :
                /\ LargeAt(a, h)
                /\ \A k \in h .. h + pagecount'[h] : k \in used' /\ \A i \in 1 .. Len(slabs') : slabs'[i] # k
  <2>1. CASE a = x
    <3>1. ASSUME NEW k \in g .. g + n PROVE k \in used' /\ \A i \in 1 .. Len(slabs') : slabs'[i] # k
      <4>1. k \notin used /\ k \in used'
        BY <1>2, <1>4, Zenon
      <4> QED BY <1>3, <4>1, Zenon DEF Inv, SlabsInv
    <3> QED BY <1>6, <1>8, <2>1, <3>1, Zenon
  <2>2. CASE a \in live
    <3>1. PICK h \in Pages : LargeAt(a, h)
      BY <1>13, <2>2, Zenon DEF Inv, LargeInv
    <3> QED BY <1>2, <1>3, <1>12, <1>13, <2>2, <3>1
  <2> QED BY <1>5, <2>1, <2>2, Zenon
<1>14. ASSUME NEW a \in live, a.kind = "large", NEW h \in Pages, LargeAt(a, h)
       PROVE  (h .. h + pagecount'[h]) \cap (g .. g + pagecount'[g]) = {}
  BY <1>4, <1>8, <1>12, <1>14, Zenon
<1>15. ASSUME NEW a \in live', NEW b \in live', NEW d \in Pages, NEW e \in Pages,
              a.kind = "large", b.kind = "large", a # b, LargeAt(a, d), LargeAt(b, e)
       PROVE  (d .. d + pagecount'[d]) \cap (e .. e + pagecount'[e]) = {}
  <2>1. CASE a \in live /\ b \in live
    <3>1. pagecount'[d] = pagecount[d] /\ pagecount'[e] = pagecount[e]
      BY <1>12, <1>15, <2>1, Zenon
    <3> QED BY <1>15, <2>1, <3>1, Zenon DEF Inv, LargeInv
  <2>2. CASE a = x
    <3>1. d = g /\ b \in live
      BY <1>5, <1>6, <1>15, <2>2, OnePage, Zenon
    <3> QED BY <1>14, <1>15, <3>1, Zenon
  <2>3. CASE b = x
    <3>1. e = g /\ a \in live
      BY <1>5, <1>6, <1>15, <2>3, OnePage, Zenon
    <3> QED BY <1>14, <1>15, <3>1, Zenon
  <2> QED BY <1>5, <2>1, <2>2, <2>3, Zenon
<1>16. LargeInv'
  BY <1>13, <1>15 DEF LargeInv
<1> QED BY <1>9, <1>10, <1>11, <1>16, Zenon DEF Inv

\* kfreelarge() keeps it.
LEMMA LargeFreeInv == ASSUME Inv, NEW a \in live, kfreelarge(a) PROVE Inv'
<1> DEFINE p == PageOf(a.addr) - 1
<1>0. /\ used' = used \ (p .. p + pagecount[p] - 1) /\ pagecount' = [pagecount EXCEPT ![p] = 0]
      /\ live' = live \ {a} /\ UNCHANGED <<slabs, refcount, freelist, panic>> /\ IsAligned(a.addr)
  BY Zenon DEF kfreelarge, slabVars
<1>1. a.kind = "large"
  BY <1>0, Zenon DEF Inv, Types, BlocksInv
<1>2. PICK g \in Pages :
        /\ LargeAt(a, g)
        /\ \A h \in g .. g + pagecount[g] : h \in used /\ \A i \in 1 .. Len(slabs) : slabs[i] # h
  BY <1>1, Zenon DEF Inv, LargeInv
<1>3. p = g
  BY <1>2, OnePage, Zenon
<1> HIDE DEF p
<1>4. g \in Nat /\ pagecount[g] \in Nat
  BY <1>2, Numbers, Zenon DEF Inv, Types
<1>5. \A h \in used : h \notin g .. g + pagecount[g] => h \in used'
  BY <1>0, <1>3, <1>4
<1>6. used' \subseteq used /\ pagecount' \in [Pages -> Nat]
      /\ \A h \in Pages \ {g} : pagecount'[h] = pagecount[h]
  BY <1>0, <1>3, Zenon DEF Inv, Types
<1>7. Types'
  BY <1>0, <1>6, Zenon DEF Inv, Types
<1>8. SlabsInv'
  <2>1. \A i \in 1 .. Len(slabs) : slabs[i] \in used'
    BY <1>2, <1>5, Zenon DEF Inv, SlabsInv
  <2> QED BY <1>0, <2>1, Zenon DEF Inv, SlabsInv
<1>9. BlocksInv'
  BY <1>0, Zenon DEF Inv, BlocksInv
<1>10. ASSUME NEW b \in live', b.kind = "large", NEW h \in Pages, LargeAt(b, h)
       PROVE  /\ pagecount'[h] = pagecount[h]
              /\ \A k \in h .. h + pagecount[h] : k \in used' /\ \A i \in 1 .. Len(slabs) : slabs[i] # k
  <2>1. PICK e \in Pages :
          /\ LargeAt(b, e)
          /\ \A k \in e .. e + pagecount[e] : k \in used /\ \A i \in 1 .. Len(slabs) : slabs[i] # k
    BY <1>0, <1>10, Zenon DEF Inv, LargeInv
  <2>2. e = h
    BY <1>10, <2>1, OnePage, Zenon
  <2>3. (h .. h + pagecount[h]) \cap (g .. g + pagecount[g]) = {}
    BY <1>0, <1>1, <1>2, <1>10, Zenon DEF Inv, LargeInv
  <2>4. h \in h .. h + pagecount[h] /\ g \in g .. g + pagecount[g]
    BY <1>4, Numbers, SMTT(20) DEF Inv, Types
  <2> QED BY <1>5, <1>6, <2>1, <2>2, <2>3, <2>4, Zenon
<1>11. ASSUME NEW b \in live', b.kind = "large"
       PROVE  \E h \in Pages :
                /\ LargeAt(b, h)
                /\ \A k \in h .. h + pagecount'[h] : k \in used' /\ \A i \in 1 .. Len(slabs') : slabs'[i] # k
  <2>1. PICK h \in Pages : LargeAt(b, h)
    BY <1>0, <1>11, Zenon DEF Inv, LargeInv
  <2> QED BY <1>0, <1>10, <1>11, <2>1
<1>12. ASSUME NEW b \in live', NEW c \in live', NEW d \in Pages, NEW e \in Pages,
              b.kind = "large", c.kind = "large", b # c, LargeAt(b, d), LargeAt(c, e)
       PROVE  (d .. d + pagecount'[d]) \cap (e .. e + pagecount'[e]) = {}
  <2>1. pagecount'[d] = pagecount[d] /\ pagecount'[e] = pagecount[e]
    BY <1>10, <1>12, Zenon
  <2> QED BY <1>0, <1>12, <2>1, Zenon DEF Inv, LargeInv
<1>13. LargeInv'
  BY <1>11, <1>12 DEF LargeInv
<1> QED BY <1>7, <1>8, <1>9, <1>13, Zenon DEF Inv

-----------------------------------------------------------------------------
\* The concatenation of two sequences.
LEMMA ConcatFacts ==
  ASSUME NEW S, NEW a \in Seq(S), NEW b \in Seq(S)
  PROVE  /\ a \o b \in Seq(S) /\ Len(a \o b) = Len(a) + Len(b)
         /\ \A k \in 1 .. Len(a) + Len(b) : (a \o b)[k] = IF k <= Len(a) THEN a[k] ELSE b[k - Len(a)]
  OBVIOUS

\* t is s without its element i.
Without(t, s, i) ==
  /\ Len(t) = Len(s) - 1
  /\ \A k \in 1 .. Len(s) - 1 : t[k] = IF k < i THEN s[k] ELSE s[k + 1]

\* No element is there twice.
Distinct(s) == \A j, k \in 1 .. Len(s) : s[j] = s[k] => j = k

\* A sequence without its element i.
LEMMA RemoveFacts ==
  ASSUME NEW S, NEW s \in Seq(S), NEW i \in 1 .. Len(s)
  PROVE  LET t == SubSeq(s, 1, i - 1) \o SubSeq(s, i + 1, Len(s))
         IN  t \in Seq(S) /\ Without(t, s, i)
<1> DEFINE A == SubSeq(s, 1, i - 1)
           B == SubSeq(s, i + 1, Len(s))
<1>0. Len(s) \in Nat /\ i \in Int /\ 1 <= i /\ i <= Len(s)
  OBVIOUS
<1>1. A \in Seq(S) /\ Len(A) = i - 1 /\ \A k \in 1 .. i - 1 : A[k] = s[k]
  BY <1>0
<1>2. B \in Seq(S) /\ Len(B) = Len(s) - i /\ \A k \in 1 .. Len(s) - i : B[k] = s[i + k]
  BY <1>0
<1> HIDE DEF A, B
<1>3. /\ A \o B \in Seq(S) /\ Len(A \o B) = Len(A) + Len(B)
      /\ \A k \in 1 .. Len(A) + Len(B) : (A \o B)[k] = IF k <= Len(A) THEN A[k] ELSE B[k - Len(A)]
  BY <1>1, <1>2, ConcatFacts, Zenon
<1>4. ASSUME NEW k \in 1 .. Len(s) - 1 PROVE (A \o B)[k] = IF k < i THEN s[k] ELSE s[k + 1]
  <2>1. k \in 1 .. Len(A) + Len(B)
    BY <1>0, <1>1, <1>2
  <2>2. CASE k < i
    <3>1. (A \o B)[k] = A[k] /\ k \in 1 .. i - 1
      BY <1>0, <1>1, <1>3, <2>1, <2>2
    <3> QED BY <1>1, <2>2, <3>1, Zenon
  <2>3. CASE ~(k < i)
    <3>1. k - (i - 1) \in 1 .. Len(s) - i /\ i + (k - (i - 1)) = k + 1
      BY <1>0, <2>3
    <3>2. (A \o B)[k] = B[k - (i - 1)]
      BY <1>0, <1>1, <1>3, <2>1, <2>3
    <3>3. B[k - (i - 1)] = s[k + 1]
      BY <1>2, <3>1, Zenon
    <3> QED BY <2>3, <3>2, <3>3, Zenon
  <2> QED BY <2>2, <2>3, Zenon
<1>5. Len(A) + Len(B) = Len(s) - 1
  BY <1>0, <1>1, <1>2
<1>6. /\ A \o B \in Seq(S) /\ Len(A \o B) = Len(s) - 1
      /\ \A k \in 1 .. Len(s) - 1 : (A \o B)[k] = IF k < i THEN s[k] ELSE s[k + 1]
  BY <1>3, <1>4, <1>5, Zenon
<1> QED BY <1>6, Zenon DEF A, B, Without

\* What such a sequence has: the other elements, each once if they differ.
LEMMA OthersFacts ==
  ASSUME NEW S, NEW s \in Seq(S), NEW i \in 1 .. Len(s), NEW t \in Seq(S), Without(t, s, i), Distinct(s)
  PROVE  Distinct(t) /\ \A j \in 1 .. Len(t) : \E m \in 1 .. Len(s) \ {i} : t[j] = s[m]
<1> DEFINE at(k) == IF k < i THEN k ELSE k + 1
<1>1. \A k \in 1 .. Len(t) : at(k) \in 1 .. Len(s) \ {i} /\ t[k] = s[at(k)]
  BY DEF Without
<1>2. \A j, k \in 1 .. Len(t) : at(j) = at(k) => j = k
  OBVIOUS
<1> HIDE DEF at
<1>3. ASSUME NEW j \in 1 .. Len(t), NEW k \in 1 .. Len(t), t[j] = t[k] PROVE j = k
  <2>1. at(j) = at(k)
    <3>1. at(j) \in 1 .. Len(s) /\ at(k) \in 1 .. Len(s) /\ s[at(j)] = s[at(k)]
      BY <1>1, <1>3, Zenon
    <3> QED BY <3>1, Zenon DEF Distinct
  <2> QED BY <1>2, <2>1, Zenon
<1>4. \A j \in 1 .. Len(t) : \E m \in 1 .. Len(s) \ {i} : t[j] = s[m]
  BY <1>1, Zenon
<1> QED BY <1>3, <1>4, Zenon DEF Distinct

\* What is on the list without its element i.
LEMMA RemoveSlab ==
  ASSUME Inv, NEW i \in 1 .. Len(slabs),
         slabs' = SubSeq(slabs, 1, i - 1) \o SubSeq(slabs, i + 1, Len(slabs))
  PROVE  /\ slabs' \in Seq(Pages) /\ Distinct(slabs)'
         /\ \A j \in 1 .. Len(slabs') : \E m \in 1 .. Len(slabs) \ {i} : slabs'[j] = slabs[m]
<1>1. slabs \in Seq(Pages) /\ Distinct(slabs)
  BY Zenon DEF Inv, Types, SlabsInv, Distinct
<1>2. slabs' \in Seq(Pages) /\ Without(slabs', slabs, i)
  BY <1>1, RemoveFacts, Zenon
<1> DEFINE t == slabs'
<1>3. t \in Seq(Pages) /\ Without(t, slabs, i)
  BY <1>2, Zenon
<1>4. Distinct(t) = Distinct(slabs)'
  BY Zenon DEF Distinct
<1> HIDE DEF t
<1>5. Distinct(t) /\ \A j \in 1 .. Len(t) : \E m \in 1 .. Len(slabs) \ {i} : t[j] = slabs[m]
  BY <1>1, <1>3, OthersFacts
<1> QED BY <1>3, <1>4, <1>5, Zenon DEF t

\* kfree() of a block keeps the invariant.
LEMMA BlockFreeInv == ASSUME Inv, NEW a \in live, KfreeBlock(a) PROVE Inv'
<1>1. ~IsAligned(a.addr) /\ live' = live \ {a} /\ pagecount' = pagecount /\ a.addr \in Int
  BY Zenon DEF KfreeBlock, Inv, Types
<1>2. /\ \A b \in live' : b.addr \in Int /\ b.kind \in {"block", "large"}
      /\ \A b \in live' : b.kind = "block" => ~IsAligned(b.addr)
      /\ \A b \in live' : b.kind = "large" => b \in live
  BY <1>1, Zenon DEF Inv, Types, BlocksInv
<1>3. CASE UNCHANGED <<used, slabVars, panic>>
  <2>1. UNCHANGED <<used, slabs, refcount, freelist, panic>>
    BY <1>3, Zenon DEF slabVars
  <2>2. LargeInv'
    BY <1>1, <1>2, <2>1, LargeKept, Zenon DEF Inv
  <2> QED BY <1>1, <1>2, <2>1, <2>2, Zenon DEF Inv, Types, SlabsInv, BlocksInv
<1>4. ASSUME NEW i \in Owners(a.addr), refcount' = [refcount EXCEPT ![slabs[i]] = @ - 1],
             refcount[slabs[i]] > 1, panic' = panic,
             freelist' = [freelist EXCEPT ![slabs[i]] = <<a.addr>> \o @], UNCHANGED <<used, slabs>>
      PROVE  Inv'
  <2>1. slabs[i] \in Pages
    BY DEF Owners, Inv, Types
  <2> DEFINE g == slabs[i]
  <2> HIDE DEF g
  <2>2. /\ refcount' \in [Pages -> Nat] /\ refcount'[g] > 0
        /\ \A h \in Pages \ {g} : refcount'[h] = refcount[h]
    <3>1. refcount \in [Pages -> Nat] /\ g \in Pages /\ refcount[g] > 1 /\ refcount[g] \in Nat
      BY <1>4, <2>1, Zenon DEF Inv, Types, g
    <3>2. refcount' = [refcount EXCEPT ![g] = refcount[g] - 1]
      BY <1>4, Zenon DEF g
    <3> QED BY <3>1, <3>2
  <2>3. /\ DOMAIN freelist' = Pages /\ freelist'[g] = <<a.addr>> \o freelist[g]
        /\ \A h \in Pages \ {g} : freelist'[h] = freelist[h]
    <3>1. DOMAIN freelist = Pages /\ g \in Pages
      BY <2>1, Zenon DEF Inv, Types, g
    <3>2. freelist' = [freelist EXCEPT ![g] = <<a.addr>> \o freelist[g]]
      BY <1>4, Zenon DEF g
    <3> QED BY <3>1, <3>2, Zenon
  <2>4. freelist'[g] \in Seq(Int) /\ \A k \in DOMAIN freelist'[g] : ~IsAligned(freelist'[g][k])
    <3> DEFINE fl == freelist[g]
    <3>1. fl \in Seq(Int) /\ \A k \in DOMAIN fl : ~IsAligned(fl[k])
      BY <2>1, Zenon DEF Inv, Types, BlocksInv, g
    <3> HIDE DEF fl
    <3>2. <<a.addr>> \o fl \in Seq(Int) /\ Len(<<a.addr>> \o fl) = Len(fl) + 1 /\ Len(fl) \in Nat
      BY <1>1, <3>1
    <3>3. \A k \in 1 .. Len(fl) + 1 : (<<a.addr>> \o fl)[k] = IF k = 1 THEN a.addr ELSE fl[k - 1]
      BY <1>1, <3>1
    <3>4. ASSUME NEW k \in 1 .. Len(fl) + 1 PROVE ~IsAligned((<<a.addr>> \o fl)[k])
      <4>1. CASE k = 1
        BY <1>1, <3>3, <4>1, Zenon
      <4>2. CASE k # 1
        <5>1. k - 1 \in DOMAIN fl
          BY <3>1, <3>2, <4>2
        <5> QED BY <3>1, <3>3, <4>2, <5>1, Zenon
      <4> QED BY <4>1, <4>2, Zenon
    <3>5. DOMAIN (<<a.addr>> \o fl) = 1 .. Len(fl) + 1
      BY <3>2
    <3> QED BY <2>3, <3>2, <3>4, <3>5, Zenon DEF fl
  <2>5. Types'
    <3>1. \A h \in Pages : freelist'[h] \in Seq(Int)
      BY <2>3, <2>4, Zenon DEF Inv, Types
    <3> QED BY <1>1, <1>2, <1>4, <2>2, <2>3, <3>1, Zenon DEF Inv, Types
  <2>6. SlabsInv'
    <3>1. \A j \in 1 .. Len(slabs) : slabs[j] \in Pages
      BY DEF Inv, Types
    <3>2. \A j \in 1 .. Len(slabs) : refcount'[slabs[j]] > 0
      BY <2>2, <3>1, Zenon DEF Inv, SlabsInv
    <3> QED BY <1>4, <3>2, Zenon DEF Inv, SlabsInv
  <2>7. BlocksInv'
    BY <1>2, <2>3, <2>4, Zenon DEF Inv, BlocksInv
  <2>8. LargeInv'
    BY <1>1, <1>2, <1>4, LargeKept, Zenon DEF Inv
  <2> QED BY <2>5, <2>6, <2>7, <2>8, Zenon DEF Inv
<1>5. ASSUME NEW i \in Owners(a.addr), refcount' = [refcount EXCEPT ![slabs[i]] = @ - 1],
             refcount[slabs[i]] = 1, panic' = panic, freeslab(i)
      PROVE  Inv'
  <2>1. i \in 1 .. Len(slabs) /\ slabs[i] \in Pages
    BY DEF Owners, Inv, Types
  <2>2. /\ used' = used \ {slabs[i]} /\ slabs' = SubSeq(slabs, 1, i - 1) \o SubSeq(slabs, i + 1, Len(slabs))
        /\ freelist' = [freelist EXCEPT ![slabs[i]] = <<>>]
    BY <1>5, Zenon DEF freeslab
  <2>3. /\ slabs' \in Seq(Pages)
        /\ \A j \in 1 .. Len(slabs') : \E m \in 1 .. Len(slabs) \ {i} : slabs'[j] = slabs[m]
        /\ \A j, k \in 1 .. Len(slabs') : slabs'[j] = slabs'[k] => j = k
    BY <2>1, <2>2, RemoveSlab, Zenon DEF Distinct
  <2>4. refcount' \in [Pages -> Nat] /\ \A h \in Pages \ {slabs[i]} : refcount'[h] = refcount[h]
    BY <1>5, <2>1 DEF Inv, Types
  <2>5. /\ DOMAIN freelist' = Pages /\ freelist'[slabs[i]] = <<>>
        /\ \A h \in Pages \ {slabs[i]} : freelist'[h] = freelist[h]
    BY <2>1, <2>2, SMTT(20) DEF Inv, Types
  <2>6. Types'
    <3>1. \A h \in Pages : freelist'[h] \in Seq(Int)
      <4>1. <<>> \in Seq(Int)
        OBVIOUS
      <4> QED BY <2>5, <4>1, Zenon DEF Inv, Types
    <3> QED BY <1>1, <1>2, <2>2, <2>3, <2>4, <2>5, <3>1, Zenon DEF Inv, Types
  <2>7. SlabsInv'
    <3>1. ASSUME NEW j \in 1 .. Len(slabs') PROVE slabs'[j] \in used' /\ refcount'[slabs'[j]] > 0
      <4>1. PICK m \in 1 .. Len(slabs) \ {i} : slabs'[j] = slabs[m]
        BY <2>3, Zenon
      <4>2. slabs[m] # slabs[i] /\ slabs[m] \in used /\ refcount[slabs[m]] > 0 /\ slabs[m] \in Pages
        BY <2>1, <4>1, Zenon DEF Inv, Types, SlabsInv
      <4> QED BY <2>2, <2>4, <4>1, <4>2, Zenon
    <3> QED BY <1>5, <2>3, <3>1, Zenon DEF Inv, SlabsInv
  <2>8. BlocksInv'
    <3>1. \A h \in Pages : \A k \in DOMAIN freelist'[h] : ~IsAligned(freelist'[h][k])
      <4>1. DOMAIN freelist'[slabs[i]] = {}
        BY <2>5
      <4> QED BY <2>5, <4>1, Zenon DEF Inv, BlocksInv
    <3> QED BY <1>2, <3>1, Zenon DEF BlocksInv
  <2>9. LargeInv'
    <3>1. ASSUME NEW h \in used, \A j \in 1 .. Len(slabs) : slabs[j] # h
          PROVE  h \in used' /\ \A j \in 1 .. Len(slabs') : slabs'[j] # h
      <4>1. h # slabs[i]
        BY <2>1, <3>1, Zenon
      <4>2. h \in used'
        BY <2>2, <4>1, Zenon
      <4>3. ASSUME NEW j \in 1 .. Len(slabs') PROVE slabs'[j] # h
        <5>1. PICK m \in 1 .. Len(slabs) \ {i} : slabs'[j] = slabs[m]
          BY <2>3, Zenon
        <5> QED BY <3>1, <5>1, Zenon
      <4> QED BY <4>2, <4>3, Zenon
    <3> QED BY <1>1, <1>2, <3>1, LargeKept, Zenon DEF Inv
  <2> QED BY <2>6, <2>7, <2>8, <2>9, Zenon DEF Inv
<1>6. ASSUME NEW i \in Owners(a.addr) PROVE refcount[slabs[i]] # 0 /\ refcount[slabs[i]] \in Nat
  <2>1. i \in 1 .. Len(slabs) /\ slabs[i] \in Pages
    BY DEF Owners, Inv, Types
  <2>2. refcount[slabs[i]] > 0 /\ refcount[slabs[i]] \in Nat
    BY <2>1, Zenon DEF Inv, Types, SlabsInv
  <2> QED BY <2>2
<1> QED BY <1>3, <1>4, <1>5, <1>6, Zenon DEF KfreeBlock

-----------------------------------------------------------------------------
\* Every step keeps the invariant.
LEMMA StepInv == ASSUME Inv, [Next]_vars PROVE Inv'
<1>1. CASE UNCHANGED vars
  BY <1>1, SameInv, Zenon DEF vars
<1>2. ASSUME NEW sz \in Sizes, KallocFound(sz) \/ KallocNew(sz) \/ kalloclarge(sz) PROVE Inv'
  BY <1>2, FoundInv, NewInv, LargeAllocInv, Zenon
<1>3. ASSUME NEW a \in live, KfreeBlock(a) \/ kfreelarge(a) PROVE Inv'
  BY <1>3, BlockFreeInv, LargeFreeInv, Zenon
<1>4. ASSUME NEW a \in live, Write(a) PROVE Inv'
  BY <1>4, SameInv, Zenon DEF Write, slabVars
<1> QED BY <1>1, <1>2, <1>3, <1>4, Zenon DEF Next, Kalloc, Kfree

\* The heap is sound in every state it reaches before it goes wild.
THEOREM Invariance == Spec => []Inv
<1>1. Init => Inv
  BY DEF Init, Inv, Types, SlabsInv, BlocksInv, LargeInv
<1>2. Inv /\ [Next]_vars => Inv'
  BY StepInv, Zenon
<1> QED BY <1>1, <1>2, PTL DEF Spec

\* kfree() takes the allocations of kalloclarge() for large ones, and no block
\* that kalloc() took from a list.
THEOREM AlignmentTells == Spec => []DispatchByAlignment
<1>1. ASSUME Inv PROVE DispatchByAlignment
  <2> SUFFICES ASSUME NEW a \in live PROVE IsAligned(a.addr) <=> a.kind = "large"
    BY Zenon DEF DispatchByAlignment
  <2>1. CASE a.kind = "large"
    BY <1>1, <2>1, OnePage, Zenon DEF Inv, LargeInv
  <2>2. CASE a.kind = "block"
    BY <1>1, <2>2, Zenon DEF Inv, BlocksInv
  <2> QED BY <1>1, <2>1, <2>2, Zenon DEF Inv, Types
<1> QED BY <1>1, Invariance, PTL

\* The slab list and the large allocations never share a page, and no page of
\* theirs is free in the bitmap, whatever slab kfree() credits a block to.
THEOREM NoPageShared == Spec => []PagesOwned
<1>1. ASSUME Inv PROVE PagesOwned
  <2> USE <1>1
  <2>1. slabs \in Seq(Pages) /\ DOMAIN slabs = 1 .. Len(slabs) /\ Len(slabs) \in Nat
    BY DEF Inv, Types
  <2>2. Range(slabs) = {slabs[i] : i \in 1 .. Len(slabs)}
    BY <2>1, Zenon DEF Range
  <2>3. Range(slabs) \subseteq used
    BY <2>2, Zenon DEF Inv, SlabsInv
  <2>4. IsInjective(slabs)
    BY <2>1, Zenon DEF Inv, SlabsInv, IsInjective
  <2>5. ASSUME NEW a \in live, a.kind = "large"
        PROVE  \E g \in Pages : /\ LargeAt(a, g) /\ LargePages(a) = g .. g + pagecount[g]
                                /\ LargePages(a) \subseteq used \ Range(slabs)
    <3>1. PICK g \in Pages :
            /\ LargeAt(a, g)
            /\ \A h \in g .. g + pagecount[g] : h \in used /\ \A i \in 1 .. Len(slabs) : slabs[i] # h
      BY <2>5, Zenon DEF Inv, LargeInv
    <3>2. PageOf(a.addr) - 1 = g
      BY <3>1, OnePage, Zenon
    <3>3. LargePages(a) = g .. g + pagecount[g]
      BY <3>2, Zenon DEF LargePages
    <3> QED BY <2>2, <3>1, <3>3, Zenon
  <2>6. ASSUME NEW a \in live, NEW b \in live, a.kind = "large", b.kind = "large", a # b
        PROVE  LargePages(a) \cap LargePages(b) = {}
    <3>1. PICK g \in Pages : LargeAt(a, g) /\ LargePages(a) = g .. g + pagecount[g]
      BY <2>5, <2>6, Zenon
    <3>2. PICK h \in Pages : LargeAt(b, h) /\ LargePages(b) = h .. h + pagecount[h]
      BY <2>5, <2>6, Zenon
    <3> QED BY <2>6, <3>1, <3>2, Zenon DEF Inv, LargeInv
  <2> QED BY <2>3, <2>4, <2>5, <2>6, Zenon DEF PagesOwned
<1> QED BY <1>1, Invariance, PTL
=============================================================================

-------------------------------- MODULE Slab --------------------------------
(***************************************************************************)
(* The kernel heap: kalloc() and kfree() of kernel/slab.c over the page    *)
(* allocator.  Every call is one step: slabber.lock serialises the slabs,  *)
(* and the races of the page allocator below are the subject of Pmm.       *)
(*                                                                         *)
(* Memory is followed until the heap goes wild: kalloc() hands out an      *)
(* address from a word that nobody wrote, or a client writes into what it  *)
(* was given where that covers a word the heap relies on (a struct slab, a *)
(* next pointer, the metadata of a large allocation).                      *)
(*                                                                         *)
(* Addresses count words of 8 bytes, the smallest block; page g covers     *)
(* g * PGSIZE .. (g + 1) * PGSIZE - 1.  A page that carries a slab starts  *)
(* with a struct slab of Header words.  In the kernel PGSIZE is 512 words  *)
(* and Header is 5.                                                        *)
(***************************************************************************)
EXTENDS Integers, Sequences, FiniteSetsExt

CONSTANTS
  PGSIZE,   \* words of a page, a power of 2
  Header,   \* words of a struct slab
  NPages,   \* bound: pages the page allocator has
  Sizes,    \* words that clients ask for
  MaxLive   \* bound on the allocations clients hold at a time

\* The powers of 2, up to the words of a page.
Powers == {1, 2, 4, 8, 16, 32, 64, 128, 256, 512}

ASSUME SlabAssumption ==
  /\ PGSIZE \in Powers /\ Header \in 1 .. PGSIZE - 1 /\ NPages \in Nat \ {0}
  /\ Sizes \subseteq Nat \ {0} /\ MaxLive \in Nat

Pages == 0 .. NPages - 1
PageOf(a) == a \div PGSIZE
IsAligned(a) == a % PGSIZE = 0

\* The address that a next pointer nobody wrote happens to hold, if not null.
Stale == -1

VARIABLES
  used,      \* pages whose bit is set in the bitmap
  slabs,     \* slabber.slabs: pages that carry a slab, newest first
  size,      \* size, refcount and freelist of the slab on a page
  refcount,
  freelist,
  pagecount, \* large_alloc_metadata at the start of a page
  live,      \* allocations not freed yet: [addr, size, kind, nth]
  panic,     \* the kernel has stopped in panic()
  wild       \* "no", or how the heap went wild: "stale" or "written"

vars == <<used, slabs, size, refcount, freelist, pagecount, live, panic, wild>>
slabVars == <<slabs, size, refcount, freelist>>

Init ==
  /\ used = {} /\ slabs = <<>> /\ live = {} /\ panic = FALSE /\ wild = "no"
  /\ size = [g \in Pages |-> 0]
  /\ refcount = [g \in Pages |-> 0]
  /\ freelist = [g \in Pages |-> <<>>]
  /\ pagecount = [g \in Pages |-> 0]

-----------------------------------------------------------------------------
\* g is the page palloc(n) returns: the lowest run of n free pages.
palloc(n, g) ==
  LET FreeRun(h) == h .. h + n - 1 \subseteq Pages \ used
  IN  FreeRun(g) /\ \A h \in Pages : h < g => ~FreeRun(h)

\* The lowest power of 2 that is not below n, for n in 1 .. PGSIZE.
roundup(n) == Min({k \in Powers : k >= n})

\* Mutant: a block may also start at the end of the page.
BlocksOfPastEnd(g, sz) ==
  LET n == ((PGSIZE - Header) \div sz) + 1
  IN  [k \in 1 .. n |-> g * PGSIZE + Header + (k - 1) * sz]

\* The blocks that newslab() links: one more while the last one linked ends
\* before the end of the page.
BlocksOf(g, sz) ==
  LET n == (PGSIZE - Header + sz - 1) \div sz
  IN  [k \in 1 .. n |-> g * PGSIZE + Header + (k - 1) * sz]

\* allocblock() takes the head of the list fl of the slab on page g, whose
\* refcount is n.
allocblock(g, n, fl) ==
  /\ refcount' = [refcount EXCEPT ![g] = n + 1]
  /\ freelist' = [freelist EXCEPT ![g] = Tail(fl)]

\* The client holds the allocation.  nth tells apart two of the same block.
Obtain(addr, sz, kind) ==
  LET Allocation(k) == [addr |-> addr, size |-> sz, kind |-> kind, nth |-> k]
  IN  live' = live \cup {Allocation(Min({k \in 0 .. MaxLive : Allocation(k) \notin live}))}

\* Index in slabs of the first slab of this size with a free block, or 0.
FindSlab(sz) ==
  LET I == {i \in 1 .. Len(slabs) : size[slabs[i]] = sz /\ freelist[slabs[i]] # <<>>}
  IN  IF I = {} THEN 0 ELSE Min(I)

\* kalloc() that finds a slab.  SLIST_FIRST() of a list whose blocks are used
\* up is the word that newslab() left unwritten.
KallocFound(sz) ==
  /\ sz <= PGSIZE /\ FindSlab(roundup(sz)) # 0
  /\ LET g == slabs[FindSlab(roundup(sz))]
     IN  \/ /\ Head(freelist[g]) # Stale
            /\ allocblock(g, refcount[g], freelist[g])
            /\ Obtain(Head(freelist[g]), roundup(sz), "block")
            /\ UNCHANGED wild
         \/ /\ Head(freelist[g]) = Stale
            /\ wild' = "stale"
            /\ UNCHANGED <<refcount, freelist, live>>
  /\ UNCHANGED <<used, slabs, size, pagecount, panic>>

\* kalloc() that makes a new slab: newslab() and then allocblock().  newslab()
\* does not write the next pointer of the last block.
KallocNew(sz) ==
  /\ sz <= PGSIZE /\ FindSlab(roundup(sz)) = 0
  /\ \E g \in Pages : \E last \in {<<>>, <<Stale>>} :
       LET fl == BlocksOf(g, roundup(sz)) \o last
       IN  /\ palloc(1, g)
           /\ used' = used \cup {g}
           /\ slabs' = <<g>> \o slabs
           /\ size' = [size EXCEPT ![g] = roundup(sz)]
           /\ allocblock(g, 0, fl)
           /\ Obtain(Head(fl), roundup(sz), "block")
  /\ UNCHANGED <<pagecount, panic, wild>>

kalloclarge(sz) ==
  /\ sz > PGSIZE
  /\ LET n == (sz + PGSIZE - 1) \div PGSIZE
     IN  \E g \in Pages :
           /\ palloc(n + 1, g)
           /\ used' = used \cup (g .. g + n)
           /\ pagecount' = [pagecount EXCEPT ![g] = n]
           /\ Obtain((g + 1) * PGSIZE, n * PGSIZE, "large")
  /\ UNCHANGED <<slabVars, panic, wild>>

-----------------------------------------------------------------------------
\* The slabs whose address range kfree() takes ptr to be in.
Owners(ptr) == {i \in 1 .. Len(slabs) :
  LET slab == slabs[i] * PGSIZE IN slab - (PGSIZE - Header) <= ptr /\ ptr < slab}

\* What the words of a page in no use hold is forgotten: size, freelist and
\* pagecount are written before they are read again.
freeslab(i) ==
  /\ used' = used \ {slabs[i]}
  /\ slabs' = SubSeq(slabs, 1, i - 1) \o SubSeq(slabs, i + 1, Len(slabs))
  /\ freelist' = [freelist EXCEPT ![slabs[i]] = <<>>]
  /\ size' = [size EXCEPT ![slabs[i]] = 0]

\* kfree() of a block: the first matching slab takes it back.
KfreeBlock(a) ==
  /\ ~IsAligned(a.addr)
  /\ live' = live \ {a}
  /\ \/ /\ Owners(a.addr) = {}
        /\ UNCHANGED <<used, slabVars, panic>>
     \/ \E i \in Owners(a.addr) :
          LET g == slabs[i]
          IN  /\ \A j \in Owners(a.addr) : i <= j
              /\ \/ /\ refcount[g] = 0
                    /\ panic' = TRUE
                    /\ UNCHANGED <<used, slabVars>>
                 \/ /\ refcount[g] > 0
                    /\ refcount' = [refcount EXCEPT ![g] = @ - 1]
                    /\ \/ refcount[g] = 1 /\ freeslab(i)
                       \/ /\ refcount[g] > 1
                          /\ freelist' = [freelist EXCEPT ![g] = <<a.addr>> \o @]
                          /\ UNCHANGED <<used, slabs, size>>
                    /\ UNCHANGED panic
  /\ UNCHANGED <<pagecount, wild>>

\* Mutant: the pages that follow the allocation are freed.
kfreelargeShifted(a) ==
  /\ IsAligned(a.addr)
  /\ LET g == PageOf(a.addr) - 1
     IN  /\ used' = used \ (g + 2 .. g + 1 + pagecount[g])
         /\ pagecount' = [pagecount EXCEPT ![g] = 0]
  /\ live' = live \ {a}
  /\ UNCHANGED <<slabVars, panic, wild>>

kfreelarge(a) ==
  /\ IsAligned(a.addr)
  /\ LET g == PageOf(a.addr) - 1
     IN  /\ used' = used \ (g .. g + pagecount[g] - 1)
         /\ pagecount' = [pagecount EXCEPT ![g] = 0]
  /\ live' = live \ {a}
  /\ UNCHANGED <<slabVars, panic, wild>>

-----------------------------------------------------------------------------
Words(a) == a.addr .. a.addr + a.size - 1
StructWords(g) == g * PGSIZE .. g * PGSIZE + Header - 1

\* The words the heap relies on: the struct and the free blocks' next pointers
\* of the slabs on the list, the metadata of the large allocations in use.
HeapWords ==
  UNION {StructWords(g) \cup Range(freelist[g]) : g \in Range(slabs)}
    \cup {(PageOf(a.addr) - 1) * PGSIZE : a \in {b \in live : b.kind = "large"}}

\* A client writes to what it was given.
Write(a) ==
  /\ Words(a) \cap HeapWords # {}
  /\ wild' = "written"
  /\ UNCHANGED <<used, slabVars, pagecount, live, panic>>

Kalloc == \E sz \in Sizes : KallocFound(sz) \/ KallocNew(sz) \/ kalloclarge(sz)
Kfree == \E a \in live : KfreeBlock(a) \/ kfreelarge(a)

Next ==
  /\ ~panic /\ wild = "no"
  /\ (Cardinality(live) < MaxLive /\ Kalloc) \/ Kfree \/ \E a \in live : Write(a)

Spec == Init /\ [][Next]_vars

-----------------------------------------------------------------------------
Addrs == 0 .. (NPages + 1) * PGSIZE
Allocations == [addr : Addrs, size : Nat, kind : {"block", "large"}, nth : 0 .. MaxLive]

\* Every variable of the heap has its type.
TypeOK ==
  /\ used \subseteq Pages
  /\ slabs \in Seq(Pages)
  /\ size \in [Pages -> Nat] /\ refcount \in [Pages -> Nat]
  /\ \A g \in Pages : freelist[g] \in Seq(Addrs \cup {Stale})
  /\ pagecount \in [Pages -> Nat]
  /\ live \subseteq Allocations
  /\ panic \in BOOLEAN /\ wild \in {"no", "stale", "written"}

\* kfree() tells a large allocation from a block by the page alignment of the
\* address alone: no block that newslab() carves or kfree() puts back is
\* aligned, whichever slab gets it, and kalloclarge() always returns an aligned
\* address.  This is up to the point where the heap goes wild.
DispatchByAlignment == \A a \in live : IsAligned(a.addr) <=> a.kind = "large"

LargePages(a) == LET g == PageOf(a.addr) - 1 IN g .. g + pagecount[g]

\* No page serves two purposes: newslab(), freeslab(), kalloclarge() and
\* kfreelarge() keep the pages on the slab list and the pages of the large
\* allocations in use (metadata page included) marked in the bitmap, and apart,
\* even where kfree() frees the wrong slab.  This is up to the point where the
\* heap goes wild.
PagesOwned ==
  LET large == {a \in live : a.kind = "large"}
  IN  /\ Range(slabs) \subseteq used /\ IsInjective(slabs)
      /\ \A a \in large :
           /\ LargePages(a) \subseteq used \ Range(slabs)
           /\ \A b \in large \ {a} : LargePages(a) \cap LargePages(b) = {}

-----------------------------------------------------------------------------
(* What comments and a test say and the code does not do *)

\* test_slab(): two allocations keep the values written to them.  Two
\* allocations in use share no word.
NoOverlap ==
  \A a, b \in live : a # b => Words(a) \cap Words(b) = {}

\* newslab(): "check block + size, otherwise the last block will get allocated
\* to the slab struct address".  No allocation in use covers a word of a struct
\* slab.
StructsApart ==
  \A a \in live, i \in 1 .. Len(slabs) : Words(a) \cap StructWords(slabs[i]) = {}

\* slab.c: "when the slab is made, the freelist has all the blocks".  kalloc()
\* takes blocks from the list, and nothing else.
BlocksOnly == wild # "stale"
=============================================================================

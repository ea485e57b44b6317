-------------------------------- MODULE Pmem -------------------------------
(***************************************************************************)
(* Physical memory from the memory map to the allocations: initbmap()      *)
(* (Initbmap.tla) builds the bitmap that palloc() and freepg() (Pmm.tla)   *)
(* work on.  kmain() calls initbmap(), then palloc(1), and keeps that      *)
(* page; all other callers come later.                                     *)
(***************************************************************************)
EXTENDS Pmm, Sequences

CONSTANTS
  PGSIZE,   \* bytes of a page
  MemMaps   \* memory maps: sequences of regions

\* An entry of the memory map.
Region == [usable : BOOLEAN, base : Nat, length : Nat]

ASSUME PmemAssumption ==
  /\ PGSIZE \in Nat \ {0} /\ 1 \in Lengths
  /\ MemMaps \subseteq Seq(Region)

\* What the boot protocol promises of a memory map: usable memory comes in
\* whole pages, and its entries are sorted and do not overlap.
ASSUME BootProtocol ==
  \A map \in MemMaps : \A k \in DOMAIN map : map[k].usable =>
    /\ map[k].base % PGSIZE = 0 /\ map[k].length % PGSIZE = 0
    /\ \A m \in DOMAIN map : k < m /\ map[m].usable => map[k].base + map[k].length <= map[m].base

VARIABLES
  given, memmap, pass, entry, highest_addr, bitmap_addr, bitmap_size,  \* of initbmap()
  kept      \* the allocation of kmain()

bootVars == <<given, memmap, pass, entry, highest_addr, bitmap_addr, bitmap_size>>
pmemVars == <<vars, bootVars, kept>>

\* Its bits are the pages that are reserved when it returns.
Boot == INSTANCE Initbmap WITH i <- entry, bitmap <- bitmap_addr, bits <- reserved

PmemInit == Boot!Init /\ npages = 0 /\ bitmap = reserved /\ InitCalls /\ kept = {}

initbmap ==
  /\ Boot!Next
  /\ bitmap' = reserved' /\ npages' = bitmap_size' * ByteBits
  /\ UNCHANGED <<callVars, kept>>

\* The bitmap is there.  If it fits nowhere, palloc() reads through a null
\* pointer.
Ready == Boot!Done

FirstPalloc(c) ==
  /\ Ready /\ kept = {} /\ CallPalloc(c, 1)
  /\ UNCHANGED <<bootVars, kept>>

Call(c) ==
  /\ kept # {}
  /\ \/ \E pages \in Lengths : CallPalloc(c, pages)
     \/ \E a \in owned[c] \ kept : CallFreepg(c, a)
  /\ UNCHANGED <<bootVars, kept>>

Work(c) ==
  /\ Step(c)
  /\ kept' = IF kept = {} THEN owned'[c] ELSE kept
  /\ UNCHANGED bootVars

PmemNext == initbmap \/ \E c \in CPUs : FirstPalloc(c) \/ Call(c) \/ Work(c)

\* A CPU in a call goes on executing.
PmemSpec == PmemInit /\ [][PmemNext]_pmemVars /\ \A c \in CPUs : WF_pmemVars(Work(c))

-----------------------------------------------------------------------------
(* Properties                                                              *)

\* When initbmap() returns, all usable memory is free but for what the bitmap
\* fills, and nothing else is: the third pass resets the bit of every page of a
\* usable entry, and leaves the others as memset() set them.
FreeAtFirst == Boot!UsableIsFree /\ Boot!OthersStaySet

\* Whatever is allocated and freed, palloc() hands out usable memory and no
\* other: the pages that initbmap() leaves set are never found free.
UsableOnly == \A c \in CPUs : OwnedPages(c) \subseteq Boot!UsablePages

BitmapPages == Boot!PageOf(bitmap_addr) .. Boot!PageOf(bitmap_addr + bitmap_size - 1)

\* The bitmap starts the first usable entry.
InFirstEntry ==
  \E k \in DOMAIN given : /\ given[k].usable /\ given[k].base = bitmap_addr
                          /\ \A m \in 1 .. k - 1 : ~given[m].usable

\* No caller of palloc() is given a page of the bitmap itself.  initbmap() frees
\* the page that the bitmap fills in part, the lowest free page if the bitmap
\* is in the first usable entry: it is the page that kmain() allocates first
\* and never uses.
BitmapKept ==
  Ready /\ InFirstEntry => \A c \in CPUs : \A a \in owned[c] \ kept :
    Run(a[1], a[2]) \cap BitmapPages = {}
=============================================================================

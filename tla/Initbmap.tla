------------------------------ MODULE Initbmap ------------------------------
(***************************************************************************)
(* initbmap() of kernel/pmm.c: the page bitmap is built from the boot      *)
(* loader's memory map in three passes over its entries.  It runs alone,   *)
(* before there is anything to race with.  Addresses are in bytes.         *)
(***************************************************************************)
EXTENDS Integers, Sequences

CONSTANTS
  PGSIZE,    \* bytes of a page
  ByteBits,  \* bits of a byte, 8 in the kernel
  MemMaps    \* memory maps: sequences of [usable, base, length]

NoBitmap == -1

VARIABLES
  given,        \* the memory map as the boot loader gave it
  memmap,       \* the memory map, which pass 2 changes
  pass,         \* 1, 2, 3, or 4 when the function has returned
  i,            \* entry the pass is at
  highest_addr,
  bitmap,       \* address of the bitmap
  bitmap_size,  \* its length in bytes
  bits          \* pages whose bit is set

vars == <<given, memmap, pass, i, highest_addr, bitmap, bitmap_size, bits>>

Init ==
  /\ given \in MemMaps
  /\ memmap = given
  /\ pass = 1 /\ i = 1
  /\ highest_addr = 0 /\ bitmap_size = 0
  /\ bitmap = NoBitmap
  /\ bits = {}

-----------------------------------------------------------------------------
\* Mutant: the type of an entry is not looked at.
UsableAny == i <= Len(memmap)

Usable == i <= Len(memmap) /\ memmap[i].usable
End(entry) == entry.base + entry.length

\* An entry that is not usable memory is passed over.
Skip ==
  /\ pass < 4 /\ i <= Len(memmap) /\ ~memmap[i].usable
  /\ i' = i + 1
  /\ UNCHANGED <<given, memmap, pass, highest_addr, bitmap, bitmap_size, bits>>

Highest ==
  /\ pass = 1 /\ Usable
  /\ highest_addr' = IF highest_addr < End(memmap[i]) THEN End(memmap[i]) ELSE highest_addr
  /\ i' = i + 1
  /\ UNCHANGED <<given, memmap, pass, bitmap, bitmap_size, bits>>

SizeBitmap ==
  /\ pass = 1 /\ i > Len(memmap)
  /\ bitmap_size' = (highest_addr \div PGSIZE) \div ByteBits
  /\ pass' = 2 /\ i' = 1
  /\ UNCHANGED <<given, memmap, highest_addr, bitmap, bits>>

TooSmall ==
  /\ pass = 2 /\ Usable /\ memmap[i].length < bitmap_size
  /\ i' = i + 1
  /\ UNCHANGED <<given, memmap, pass, highest_addr, bitmap, bitmap_size, bits>>

\* Mutant: the bitmap is placed and the entry left as it was.
PlaceKeepsEntry ==
  /\ pass = 2 /\ Usable /\ memmap[i].length >= bitmap_size
  /\ bitmap' = memmap[i].base
  /\ bits' = 0 .. bitmap_size * ByteBits - 1
  /\ pass' = 3 /\ i' = 1
  /\ UNCHANGED <<given, memmap, highest_addr, bitmap_size>>

\* The bitmap takes the start of the first entry it fits in, with every bit set.
Place ==
  /\ pass = 2 /\ Usable /\ memmap[i].length >= bitmap_size
  /\ bitmap' = memmap[i].base
  /\ bits' = 0 .. bitmap_size * ByteBits - 1
  /\ memmap' = [memmap EXCEPT ![i].length = @ - bitmap_size, ![i].base = @ + bitmap_size]
  /\ pass' = 3 /\ i' = 1
  /\ UNCHANGED <<given, highest_addr, bitmap_size>>

NotPlaced ==
  /\ pass = 2 /\ i > Len(memmap)
  /\ pass' = 3 /\ i' = 1
  /\ UNCHANGED <<given, memmap, highest_addr, bitmap, bitmap_size, bits>>

\* Mutant: the last page of every entry is left out.
FreeEntryOneLess ==
  /\ pass = 3 /\ Usable
  /\ bits' = bits \ {(memmap[i].base + j * PGSIZE) \div PGSIZE :
                      j \in {k \in 0 .. memmap[i].length : (k + 1) * PGSIZE < memmap[i].length}}
  /\ i' = i + 1
  /\ UNCHANGED <<given, memmap, pass, highest_addr, bitmap, bitmap_size>>

\* The bits of the entry's pages are reset, j = 0, PGSIZE, ... below length.
FreeEntry ==
  /\ pass = 3 /\ Usable
  /\ bits' = bits \ {(memmap[i].base + j * PGSIZE) \div PGSIZE :
                      j \in {k \in 0 .. memmap[i].length : k * PGSIZE < memmap[i].length}}
  /\ i' = i + 1
  /\ UNCHANGED <<given, memmap, pass, highest_addr, bitmap, bitmap_size>>

Return ==
  /\ pass = 3 /\ i > Len(memmap)
  /\ pass' = 4
  /\ UNCHANGED <<given, memmap, i, highest_addr, bitmap, bitmap_size, bits>>

Next == Skip \/ Highest \/ SizeBitmap \/ TooSmall \/ Place \/ NotPlaced \/ FreeEntry \/ Return

Spec == Init /\ [][Next]_vars

-----------------------------------------------------------------------------
Done == pass = 4 /\ bitmap # NoBitmap
HasBit(g) == g < bitmap_size * ByteBits
PageOf(a) == a \div PGSIZE
UsablePages == UNION {PageOf(given[k].base) .. PageOf(End(given[k]) - 1) :
                        k \in {m \in 1 .. Len(given) : given[m].usable}}

\* The bitmap covers the whole page.
Fills(g) == g * PGSIZE >= bitmap /\ (g + 1) * PGSIZE <= bitmap + bitmap_size

\* Pass 3 frees all usable memory: the pages of every usable entry, but for
\* the ones that the bitmap fills (a page it fills in part is freed as well).
UsableIsFree == Done => \A g \in UsablePages : HasBit(g) /\ ~Fills(g) => g \notin bits

\* initbmap() leaves every page set that is in no usable entry, and that the
\* bitmap fills.
OthersStaySet ==
  Done => \A g \in 0 .. bitmap_size * ByteBits - 1 : g \notin UsablePages \/ Fills(g) => g \in bits
=============================================================================

------------------------------- MODULE MCPmem ------------------------------
(* Memory maps of three adjacent entries, at least one of them usable.     *)
EXTENDS Pmem

CONSTANT MaxEntry   \* pages of an entry

Entry(use, first, pages) ==
  [usable |-> use, base |-> first * PGSIZE, length |-> pages * PGSIZE]

MapOf(len, use) ==
  <<Entry(use[1], 0, len[1]), Entry(use[2], len[1], len[2]),
    Entry(use[3], len[1] + len[2], len[3])>>

Maps ==
  {MapOf(len, use) : len \in [1 .. 3 -> 1 .. MaxEntry],
                     use \in {u \in [1 .. 3 -> BOOLEAN] : \E k \in 1 .. 3 : u[k]}}
=============================================================================

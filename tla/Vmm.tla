-------------------------------- MODULE Vmm --------------------------------
(***************************************************************************)
(* Page tables: kernel/vmm.c, with palloc() of kernel/pmm.c as a single    *)
(* step (Pmm.tla looks inside it).                                         *)
(*                                                                         *)
(* A frame is a page of physical memory, a virtual page is a number below  *)
(* N^4, and its upper half belongs to the kernel.  A page table is a       *)
(* function from the indices that are present to entries.  The recursion   *)
(* va2pte -> get_next_level is one step a level; mappages() is the list    *)
(* "todo" of pages still to be mapped.                                     *)
(***************************************************************************)
EXTENDS Integers, Sequences

CONSTANTS
  N,            \* entries of a table, 512 in the kernel
  NFrames,      \* frames of physical memory; the kernel maps all of them
  Reserved,     \* frames that are not free at boot
  KernelPages,  \* text, rodata and data of the kernel: <<va, frame, flags>>
  UserPages     \* virtual pages that programs use

Frames == 0 .. NFrames - 1
Idx == 0 .. N - 1
Lower == {i \in Idx : 2 * i < N}
Upper == Idx \ Lower
HHDM == (N \div 2) * N * N * N

\* (vaddr >> (12 + 9 * (level - 1))) & 0x1ff
Index(va, level) ==
  CASE level = 1 -> va % N
    [] level = 2 -> (va \div N) % N
    [] level = 3 -> (va \div (N * N)) % N
    [] level = 4 -> (va \div (N * N * N)) % N

P2V(f) == f + HHDM

ASSUME VmmAssumption ==
  /\ N \in Nat \ {0} /\ N % 2 = 0
  /\ NFrames \in Nat \ {0} /\ Reserved \subseteq Frames
  /\ KernelPages \in Seq(Int \X Int \X SUBSET {"RW", "USER", "NX"})
  /\ \A va \in UserPages : Index(va, 4) \in Lower

\* The linker puts the segments of the kernel a page apart, above the image of
\* physical memory in the upper half.
ASSUME KernelLayout ==
  /\ NFrames <= HHDM
  /\ \A j \in DOMAIN KernelPages : KernelPages[j][1] \in HHDM + NFrames .. N * N * N * N - 1
  /\ \A j, k \in DOMAIN KernelPages : KernelPages[j][1] = KernelPages[k][1] => j = k

VARIABLES
  used,   \* frames that are allocated
  mem,    \* contents of the frames that are page tables
  tops,   \* the top_level of every vm_map, kernel_vm_map first
  todo,   \* pages that mappages() still has to map
  level,  \* where va2pte() is: the level and the table of that level
  cur,
  home    \* ghost: what a frame is for, [map, level, table, idx]

vmVars == <<used, mem, tops, todo, level, cur, home>>

NoTable == [i \in {} |-> 0]
Entry(f, flags) == [addr |-> f, flags |-> flags]
TableFlags == {"RW", "USER"}

\* A function changed or extended at x.
With(fn, x, v) == [y \in DOMAIN fn \cup {x} |-> IF y = x THEN v ELSE fn[y]]

Home(k, l, t, i) == [map |-> k, level |-> l, table |-> t, idx |-> i]

\* palloc(n) returns p: the first n frames in a row that are free.
IsRun(p, n) == \A f \in p .. p + n - 1 : f \in Frames \ used
palloc(p, n) == IsRun(p, n) /\ \A q \in Frames : q < p => ~IsRun(q, n)

InitVmm ==
  /\ used = Reserved /\ mem = NoTable /\ tops = <<>> /\ home = NoTable
  /\ todo = <<>> /\ level = 4 /\ cur = 0

-----------------------------------------------------------------------------
(* init_vm                                                                 *)

\* The top level of the kernel, cleared.
InitTop ==
  /\ tops = <<>>
  /\ \E p \in Frames :
       /\ palloc(p, 1)
       /\ used' = used \cup {p}
       /\ mem' = With(mem, p, NoTable)
       /\ home' = With(home, p, Home(1, 4, 0, 0))
       /\ tops' = <<p>> /\ cur' = p
  /\ UNCHANGED <<todo, level>>

\* get_next_level(t, i, true) for an entry that is absent: p is the new table
\* of level l.
NewLevel(p, k, l, t, i) ==
  /\ palloc(p, 1)
  /\ used' = used \cup {p}
  /\ mem' = With(With(mem, t, With(mem[t], i, Entry(p, TableFlags))), p, NoTable)
  /\ home' = With(home, p, Home(k, l, t, i))

\* One turn of the loop over the higher half.
HigherHalf(i) ==
  /\ Len(tops) = 1 /\ i \in Upper
  /\ i \notin DOMAIN mem[cur] /\ \A j \in Upper : j < i => j \in DOMAIN mem[cur]
  /\ \E p \in Frames : NewLevel(p, 1, 3, cur, i)
  /\ UNCHANGED <<tops, todo, level, cur>>

\* The pages that init_vm() maps: the kernel's segments, and every frame but
\* the first at its own address and in the higher half.
KernelTodo ==
  [j \in 1 .. Len(KernelPages) |->
     [va |-> KernelPages[j][1], pa |-> KernelPages[j][2], flags |-> KernelPages[j][3]]]
  \o [j \in 1 .. 2 * (NFrames - 1) |->
        IF j % 2 = 1
        THEN [va |-> (j + 1) \div 2, pa |-> (j + 1) \div 2, flags |-> {"RW", "USER"}]
        ELSE [va |-> P2V(j \div 2), pa |-> j \div 2, flags |-> {"RW", "USER", "NX"}]]

MapKernel ==
  /\ Len(tops) = 1 /\ Upper \subseteq DOMAIN mem[cur]
  /\ todo' = KernelTodo
  /\ UNCHANGED <<used, mem, tops, level, cur, home>>

-----------------------------------------------------------------------------
(* mappages: the map that is being changed is the newest one.              *)

\* get_next_level(cur, idx, true), one level of va2pte().
Walk ==
  /\ todo # <<>> /\ level > 1
  /\ LET i == Index(Head(todo).va, level)
     IN  IF i \in DOMAIN mem[cur]
         THEN cur' = mem[cur][i].addr /\ UNCHANGED <<used, mem, home>>
         ELSE \E p \in Frames : NewLevel(p, Len(tops), level - 1, cur, i) /\ cur' = p
  /\ level' = level - 1
  /\ UNCHANGED <<tops, todo>>

\* The end of mappage2().  A page that is mapped already stays as it is, and
\* mappages() drops the error.
Leaf ==
  /\ todo # <<>> /\ level = 1
  /\ LET i == Index(Head(todo).va, 1)
     IN  IF i \in DOMAIN mem[cur] THEN UNCHANGED <<mem, home>>
         ELSE /\ mem' = With(mem, cur, With(mem[cur], i, Entry(Head(todo).pa, Head(todo).flags)))
              /\ home' = IF Len(tops) = 1 THEN home
                         ELSE With(home, Head(todo).pa, Home(Len(tops), 0, cur, i))
  /\ todo' = Tail(todo) /\ level' = 4 /\ cur' = tops[Len(tops)]
  /\ UNCHANGED <<used, tops>>

-----------------------------------------------------------------------------
(* newvm_map                                                               *)

\* Mutant: the copy of the upper half starts one entry late.
NewvmMapLate ==
  /\ \E p \in Frames :
       /\ palloc(p, 1)
       /\ used' = used \cup {p}
       /\ mem' = With(mem, p, [i \in {j \in Upper : 2 * j > N} |-> mem[tops[1]][i]])
       /\ home' = With(home, p, Home(Len(tops) + 1, 4, 0, 0))
       /\ tops' = Append(tops, p) /\ cur' = p
  /\ UNCHANGED <<todo, level>>

\* The upper half is copied from the kernel.  The lower half is what the page
\* held, since palloc() does not clear it; this is the case that it held zeros
\* (ExecOnStale of Exec.tla is the other one).
NewvmMap ==
  /\ \E p \in Frames :
       /\ palloc(p, 1)
       /\ used' = used \cup {p}
       /\ mem' = With(mem, p, [i \in Upper |-> mem[tops[1]][i]])
       /\ home' = With(home, p, Home(Len(tops) + 1, 4, 0, 0))
       /\ tops' = Append(tops, p) /\ cur' = p
  /\ UNCHANGED <<todo, level>>

\* Mutant: the last of the n frames is not marked.
AllocAndMapShort(p, n, va, flags) ==
  /\ palloc(p, n)
  /\ used' = used \cup p .. p + n - 2
  /\ todo' = [j \in 1 .. n |-> [va |-> va + j - 1, pa |-> p + j - 1, flags |-> flags]]
  /\ UNCHANGED <<mem, tops, level, cur, home>>

\* palloc(n) and mappages() of the n frames at va.
AllocAndMap(p, n, va, flags) ==
  /\ palloc(p, n)
  /\ used' = used \cup p .. p + n - 1
  /\ todo' = [j \in 1 .. n |-> [va |-> va + j - 1, pa |-> p + j - 1, flags |-> flags]]
  /\ UNCHANGED <<mem, tops, level, cur, home>>

-----------------------------------------------------------------------------
(* What the processor makes of the tables.                                 *)

\* The frame and the flags of a virtual page, in the map with that top level.
None == [addr |-> -1, flags |-> {}]
NextTable(t, i) == IF t \in DOMAIN mem THEN IF i \in DOMAIN mem[t] THEN mem[t][i] ELSE None ELSE None
Translate(top, va) ==
  NextTable(NextTable(NextTable(NextTable(top, Index(va, 4)).addr, Index(va, 3)).addr,
                      Index(va, 2)).addr, Index(va, 1))

UserMaps == {k \in DOMAIN tops : k > 1}

\* Two pages of programs, of one program or of two, never share a frame, and
\* no page of a program is a page table or a frame that palloc() may give out
\* again: va2pte(), mappage2() and newvm_map() keep address spaces apart, up to
\* the first exec() for which newvm_map() got a page that was not clear.
Isolation ==
  \A k, m \in UserMaps : \A va, wa \in UserPages :
    LET f == Translate(tops[k], va).addr
    IN  f # -1 =>
          /\ f \in used /\ f \notin DOMAIN mem
          /\ Translate(tops[m], wa).addr = f =>
               k = m /\ \A l \in 1 .. 4 : Index(va, l) = Index(wa, l)

\* Every map has the kernel where kernel_vm_map has it, so that interrupts and
\* the kernel's own pointers work in whatever map is loaded (newvm_map()
\* copies the top level, hence init_vm() fills the whole upper half first).
KernelShared ==
  \A k \in UserMaps :
    /\ \A f \in Frames \ {0} : Translate(tops[k], P2V(f)) = Entry(f, {"RW", "USER", "NX"})
    /\ \A j \in DOMAIN KernelPages :
         Translate(tops[k], KernelPages[j][1]) = Entry(KernelPages[j][2], KernelPages[j][3])
=============================================================================

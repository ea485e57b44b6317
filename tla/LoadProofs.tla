----------------------------- MODULE LoadProofs ----------------------------
(***************************************************************************)
(* A program that was started has its image and its arguments, and keeps   *)
(* them: Loaded and ArgsOnStack of Exec, for every size of memory and of   *)
(* tables, every set of programs and of argument lists that                *)
(* ImageAssumption and ArgsAssumption allow, and any number of calls of    *)
(* exec().                                                                 *)
(*                                                                         *)
(* The argument: LoadInv says where exec() stands.  While the area that    *)
(* palloc() returned is being mapped, its first pages are at their place   *)
(* and the rest is to do (Mapping), and nothing but the segments loaded so *)
(* far is present (Presence), so that mappage2() finds every entry free;   *)
(* the segments before header i have their bytes (Loading); the strings    *)
(* and the words that copyargs() has pushed are below each other from the  *)
(* end of the stack (Pushing, Pointing); and every program in procs has    *)
(* all of this (Ready).  A step keeps what is placed (Settled) since       *)
(* entries are never changed, palloc() returns only free frames, and       *)
(* exec() writes only to the area that it allocated last.                  *)
(***************************************************************************)
EXTENDS ExecProofs

-----------------------------------------------------------------------------
(* The image and the arguments of a program                                *)

\* The first page and the number of pages of a segment.
First(ph) == ph.vaddr \div PGSIZE

NPages(ph) == DIV_ROUNDUP(ph.memsz, PGSIZE)

\* The area that exec() called palloc() for last: its pages and their rights.
Count == IF pc = "read" THEN NPages(phdrs[i]) ELSE STACKSIZE

AreaVa == IF pc = "read" THEN First(phdrs[i]) ELSE STACKVA

AreaFlags == IF pc = "read" THEN SegFlags(phdrs[i]) ELSE {"RW", "USER"}

MappedPages == Count - Len(todo)

\* The frame is allocated, and nothing is to be written to it any more.
Settled(f) ==
  f \in used /\ (pc \in {"read", "args", "ptrs"} => f \notin base .. base + Count - 1)

\* The cell at a physical address.
CellAt(a) == Cell(a \div PGSIZE, a % PGSIZE)

\* n frames from b on are at page va of map k.
Placed(k, b, n, va, fl) ==
  \A d \in 0 .. n - 1 : Maps(k, va + d, Entry(b + d, fl)) /\ Settled(b + d)

\* Segment j of program p is in map k.
SegLoaded(k, p, j) ==
  LET ph == Programs[p].phdrs[j]
  IN  \E b \in Frames :
        /\ Placed(k, b, NPages(ph), First(ph), SegFlags(ph))
        /\ \A x \in 0 .. ph.filesz - 1 : CellAt(b * PGSIZE + x) = <<"file", p, ph.offset + x>>

\* The number of program headers that loadelf() is done with.
Handled == IF pc \in {"phdrs", "read"} THEN i - 1 ELSE Len(phdrs)

\* va2pte() starts at the top level; frame 0 is in use; what is not allocated
\* was not written; and the area is allocated.
Frame ==
  /\ tops # <<>> /\ level = 4 => cur = tops[Len(tops)]
  /\ tops # <<>> => 0 \in used
  /\ DOMAIN content \subseteq used
  /\ pc \in {"read", "args", "ptrs"} => base \in Frames /\ \A f \in base .. base + Count - 1 : f \in used

\* mappages() maps the pages of the area in order.
Mapping ==
  pc \in {"read", "args", "ptrs"} =>
    /\ Len(todo) <= Count
    /\ \A b \in DOMAIN todo :
         todo[b] = [va |-> AreaVa + MappedPages + b - 1, pa |-> base + MappedPages + b - 1,
                    flags |-> AreaFlags]
    /\ todo # <<>> => OnWay(Len(tops), Head(todo).va)
    /\ pc # "read" \/ i \in Loadable(phdrs) =>
         \A d \in 0 .. MappedPages - 1 : Maps(Len(tops), AreaVa + d, Entry(base + d, AreaFlags))

\* The program has no other pages than those of its segments and the area.
Presence ==
  pc \in {"phdrs", "read", "args"} =>
    \A va \in 0 .. Pages4 - 1 : Index(va, 4) \in Lower /\ Present(Len(tops), va) =>
      \/ \E j \in 1 .. Handled : phdrs[j].type = "PT_LOAD" /\ va \in Area(phdrs[j])
      \/ pc # "phdrs" /\ va \in AreaVa .. AreaVa + MappedPages - 1

\* The segments that were read are in place, and the address of the program
\* headers is known.
Loading ==
  pc \in {"phdrs", "read", "args", "ptrs"} =>
    /\ i <= IF pc \in {"phdrs", "read"} THEN Len(phdrs) + 1 ELSE Len(args) + 1
    /\ pc = "read" => i <= Len(phdrs) /\ phdrs[i].type = "PT_LOAD"
    /\ \A j \in Loadable(phdrs) : j <= Handled => SegLoaded(Len(tops), prog, j)
    /\ \A j \in 1 .. Handled : phdrs[j].type = "PT_PHDR" => at_phdr = phdrs[j].vaddr
    /\ args \in Argvs

\* The sizes of the strings of an argument list, added up.
Size(argv) ==
  CHOOSE size \in [0 .. Len(argv) -> 0 .. STACKSIZE * PGSIZE] :
    /\ size[0] = 0 /\ \A k \in DOMAIN argv : size[k] = size[k - 1] + argv[k] + 1
    /\ size[Len(argv)] + (Len(argv) + 12) * WORD <= STACKSIZE * PGSIZE

Top(b) == (b + STACKSIZE) * PGSIZE

\* String k of argv below the top of a stack at b.
StringAt(b, argv, k) ==
  /\ \A c \in 0 .. argv[k] - 1 : CellAt(Top(b) - Size(argv)[k] + c) = <<"char", k, c>>
  /\ CellAt(Top(b) - Size(argv)[k] + argv[k]) = <<"nul">>

\* The auxiliary vector v below the strings.
AuxvAt(b, argv, v) ==
  LET s == Top(b) - Size(argv)[Len(argv)]
  IN  /\ \A n \in 1 .. 11 : n # 2 => CellAt(s - n * WORD) = <<"word", v[n]>>
      /\ CellAt(s - 2 * WORD) = NoCell

\* Pointer k, in the room for them.
Room(b, argv) == Top(b) - Size(argv)[Len(argv)] - (11 + Len(argv)) * WORD

PointerAt(b, argv, k) ==
  CellAt(Room(b, argv) + (k - 1) * WORD) = <<"word", HHDM * PGSIZE + (Top(b) - Size(argv)[k])>>

\* copyargs() pushes the strings,
Pushing ==
  pc = "args" =>
    /\ base # 0 /\ sp = Top(base) - Size(args)[i - 1] /\ oldrsp = Top(base)
    /\ todo # <<>> => i = 1
    /\ \A a \in base * PGSIZE .. sp - 1 : CellAt(a) = NoCell
    /\ \A k \in 1 .. i - 1 : StringAt(base, args, k) /\ Size(args)[k] <= Size(args)[i - 1]

\* then the auxiliary vector, and the pointers.
Pointing ==
  pc = "ptrs" =>
    /\ base # 0 /\ sp = Room(base, args) /\ oldrsp = Top(base) - Size(args)[i - 1]
    /\ \A k \in 1 .. Len(args) : /\ StringAt(base, args, k)
                                 /\ Size(args)[k] <= Size(args)[Len(args)]
    /\ AuxvAt(base, args, Auxv)
    /\ \A k \in 1 .. i - 1 : PointerAt(base, args, k)

\* The auxiliary vector of program p.
AuxvOf(p, phdr) ==
  <<0, 0, Programs[p].entry, AT_ENTRY, phdr, AT_PHDR, PHENT, AT_PHENT,
    Len(Programs[p].phdrs), AT_PHNUM, 0>>

\* The stack of a process with map k, for program p with arguments argv.
StackReady(k, p, argv, rsp) ==
  \E b \in Frames \ {0} :
    /\ Placed(k, b, STACKSIZE, STACKVA, {"RW", "USER"})
    /\ rsp = (STACKVA + STACKSIZE) * PGSIZE - (Top(b) - (Room(b, argv) - WORD))
    /\ CellAt(Room(b, argv) - WORD) = <<"word", Len(argv)>>
    /\ \A a \in 1 .. Len(argv) : StringAt(b, argv, a) /\ PointerAt(b, argv, a)
    /\ \E phdr : /\ AuxvAt(b, argv, AuxvOf(p, phdr))
                 /\ \A j \in DOMAIN Programs[p].phdrs :
                      Programs[p].phdrs[j].type = "PT_PHDR" => phdr = Programs[p].phdrs[j].vaddr

\* A process: its program, map, argument list, stack pointer and entry point.
ProcReady(k, p, argv, rsp, rip) ==
  /\ k \in UserMaps /\ p \in DOMAIN Programs /\ argv \in Argvs /\ rip = Programs[p].entry
  /\ \A j \in Loadable(Programs[p].phdrs) : SegLoaded(k, p, j)
  /\ StackReady(k, p, argv, rsp)

ProcRecord ==
  [map : Nat, prog : DOMAIN Programs, args : Argvs,
   rip : {Programs[p].entry : p \in DOMAIN Programs}, kstack : Int, rsp : Int]

\* The programs that were started.
Ready ==
  /\ procs \in Seq(ProcRecord)
  /\ \A q \in DOMAIN procs :
       ProcReady(procs[q].map, procs[q].prog, procs[q].args, procs[q].rsp, procs[q].rip)

\* The inductive invariant, together with Inv and SharedInv.
LoadInv == Frame /\ Mapping /\ Presence /\ Loading /\ Pushing /\ Pointing /\ Ready

-----------------------------------------------------------------------------
(* Addresses and cells                                                     *)

\* Products keep the order.
LEMMA Times ==
  ASSUME NEW a \in Int, NEW b \in Int, NEW w \in Nat
  PROVE  /\ a * w \in Int /\ (a + b) * w = a * w + b * w /\ (a - b) * w = a * w - b * w
         /\ a <= b => a * w <= b * w
         /\ a < b => a * w + w <= b * w
<1>1. a * w \in Int /\ (a + b) * w = a * w + b * w /\ (a - b) * w = a * w - b * w
  OBVIOUS
<1>2. ASSUME NEW c \in Int, c >= 0 PROVE c * w >= 0
  BY <1>2
<1>3. ASSUME a <= b PROVE a * w <= b * w
  <2>1. (b - a) * w >= 0
    BY <1>2, <1>3
  <2>2. (b - a) * w = b * w - a * w /\ b * w \in Int
    OBVIOUS
  <2> QED BY <2>1, <2>2, <1>1
<1>4. ASSUME a < b PROVE a * w + w <= b * w
  <2>1. (b - a - 1) * w >= 0
    BY <1>2, <1>4
  <2>2. (b - a - 1) * w = b * w - a * w - w /\ b * w \in Int
    OBVIOUS
  <2> QED BY <2>1, <2>2, <1>1
<1> QED BY <1>1, <1>3, <1>4, Zenon

\* The frame and the offset of an address.
LEMMA Split ==
  ASSUME NEW a \in Nat
  PROVE  \E f \in Nat, o \in 0 .. PGSIZE - 1 :
           a = f * PGSIZE + o /\ a \div PGSIZE = f /\ a % PGSIZE = o
<1>1. PGSIZE \in Nat \ {0}
  BY ExecAssumption, Zenon
<1> QED BY <1>1, DivMod, Zenon

\* Addresses with the same frame and offset are the same.
LEMMA Join ==
  ASSUME NEW f \in Nat, NEW o \in 0 .. PGSIZE - 1
  PROVE  (f * PGSIZE + o) \div PGSIZE = f /\ (f * PGSIZE + o) % PGSIZE = o
<1>1. PGSIZE \in Nat \ {0} /\ f \in Int /\ o \in Int /\ 0 <= o /\ o < PGSIZE
  BY ExecAssumption
<1> QED BY <1>1, DivUnique, Zenon

\* The addresses of n frames from b on.
LEMMA FrameOf ==
  ASSUME NEW b \in Nat, NEW n \in Nat, NEW a \in b * PGSIZE .. (b + n) * PGSIZE - 1
  PROVE  /\ a \in Nat /\ a \div PGSIZE \in b .. b + n - 1
         /\ a \div PGSIZE - b \in 0 .. n - 1 /\ b + (a \div PGSIZE - b) = a \div PGSIZE
<1>1. PGSIZE \in Nat \ {0}
  BY ExecAssumption, Zenon
<1>2. b * PGSIZE \in Nat /\ (b + n) * PGSIZE \in Nat
  BY <1>1
<1>3. a \in Nat
  BY <1>2
<1>4. PICK q \in Nat, r \in 0 .. PGSIZE - 1 : a = q * PGSIZE + r /\ a \div PGSIZE = q
  BY <1>3, Split, Zenon
<1>5. q >= b
  <2> SUFFICES ASSUME q < b PROVE FALSE
    BY <1>4
  <2>1. q * PGSIZE + PGSIZE <= b * PGSIZE
    BY <1>1, <1>4, Times
  <2> QED BY <2>1, <1>1, <1>2, <1>4
<1>6. q < b + n
  <2> SUFFICES ASSUME b + n <= q PROVE FALSE
    BY <1>4
  <2>1. (b + n) * PGSIZE <= q * PGSIZE /\ q * PGSIZE \in Int
    BY <1>1, <1>4, Times
  <2> QED BY <2>1, <1>1, <1>2, <1>4
<1> QED BY <1>3, <1>4, <1>5, <1>6

\* What Written() does, address by address.
LEMMA WrittenCell ==
  ASSUME NEW w, DOMAIN w \subseteq Nat, content' = Written(w)
  PROVE  /\ DOMAIN content' = DOMAIN content \cup {a \div PGSIZE : a \in DOMAIN w}
         /\ \A a \in Nat : CellAt(a)' = IF a \in DOMAIN w THEN w[a] ELSE CellAt(a)
<1> DEFINE O(f) == (IF f \in DOMAIN content THEN DOMAIN content[f] ELSE {})
                      \cup {a % PGSIZE : a \in {b \in DOMAIN w : b \div PGSIZE = f}}
<1>1. /\ DOMAIN content' = DOMAIN content \cup {a \div PGSIZE : a \in DOMAIN w}
      /\ \A f \in DOMAIN content' :
           /\ DOMAIN content'[f] = O(f)
           /\ \A o \in O(f) :
                content'[f][o] = IF f * PGSIZE + o \in DOMAIN w THEN w[f * PGSIZE + o] ELSE content[f][o]
  BY Zenon DEF Written
<1>2. ASSUME NEW a \in Nat
      PROVE  CellAt(a)' = IF a \in DOMAIN w THEN w[a] ELSE CellAt(a)
  <2>1. PICK f \in Nat, o \in 0 .. PGSIZE - 1 :
           a = f * PGSIZE + o /\ a \div PGSIZE = f /\ a % PGSIZE = o
    BY Split, Zenon
  <2>2. CellAt(a)' = IF f \in DOMAIN content' THEN IF o \in DOMAIN content'[f] THEN content'[f][o]
                                                  ELSE NoCell
                     ELSE NoCell
    BY <2>1, Zenon DEF CellAt, Cell
  <2>3. CellAt(a) = IF f \in DOMAIN content THEN IF o \in DOMAIN content[f] THEN content[f][o]
                                                ELSE NoCell
                    ELSE NoCell
    BY <2>1, Zenon DEF CellAt, Cell
  <2>4. CASE a \in DOMAIN w
    <3>1. f \in DOMAIN content' /\ o \in O(f)
      <4>1. f \in {b \div PGSIZE : b \in DOMAIN w}
        BY <2>1, <2>4, Zenon
      <4>2. o \in {c % PGSIZE : c \in {b \in DOMAIN w : b \div PGSIZE = f}}
        BY <2>1, <2>4, Zenon
      <4> QED BY <4>1, <4>2, <1>1, Zenon
    <3> HIDE DEF O
    <3>2. content'[f][o] = IF f * PGSIZE + o \in DOMAIN w THEN w[f * PGSIZE + o] ELSE content[f][o]
      BY <3>1, <1>1, Zenon
    <3>3. content'[f][o] = w[a]
      BY <3>2, <2>1, <2>4, Zenon
    <3> QED BY <3>1, <3>3, <2>2, <2>4, <1>1, Zenon
  <2>5. CASE a \notin DOMAIN w
    <3>1. ASSUME NEW b \in DOMAIN w, b \div PGSIZE = f, b % PGSIZE = o PROVE FALSE
      <4>1. b = f * PGSIZE + o
        BY <3>1, Split, Zenon
      <4> QED BY <4>1, <2>1, <2>5, Zenon
    <3>2. o \in O(f) <=> f \in DOMAIN content /\ o \in DOMAIN content[f]
      BY <3>1, Zenon
    <3> HIDE DEF O
    <3>3. CASE f \in DOMAIN content /\ o \in DOMAIN content[f]
      <4>1. f \in DOMAIN content' /\ o \in O(f)
        BY <3>2, <3>3, <1>1, Zenon
      <4>2. content'[f][o] = IF f * PGSIZE + o \in DOMAIN w THEN w[f * PGSIZE + o] ELSE content[f][o]
        BY <4>1, <1>1, Zenon
      <4>3. content'[f][o] = content[f][o]
        BY <4>2, <2>1, <2>5, Zenon
      <4> QED BY <4>1, <4>3, <3>3, <2>2, <2>3, <2>5, <1>1, Zenon
    <3>4. CASE ~(f \in DOMAIN content /\ o \in DOMAIN content[f])
      <4>1. CellAt(a) = NoCell
        BY <3>4, <2>3, Zenon
      <4>2. CellAt(a)' = NoCell
        BY <3>2, <3>4, <2>2, <1>1, Zenon
      <4> QED BY <4>1, <4>2, <2>5, Zenon
    <3> QED BY <3>3, <3>4, Zenon
  <2> QED BY <2>4, <2>5, Zenon
<1> QED BY <1>1, <1>2, Zenon

-----------------------------------------------------------------------------
(* Segments and argument lists                                             *)

\* What ELF files have in common.
LEMMA PhdrFacts ==
  ASSUME NEW p \in DOMAIN Programs, NEW j \in DOMAIN Programs[p].phdrs,
         NEW ph, ph = Programs[p].phdrs[j]
  PROVE  /\ ph.vaddr \in Nat /\ ph.offset \in Nat /\ ph.filesz \in Nat /\ ph.memsz \in Nat
         /\ First(ph) \in Nat /\ NPages(ph) \in Nat
         /\ ph.w \in BOOLEAN /\ ph.x \in BOOLEAN
<1> PICK s : s = Programs[p].phdrs
  BY Zenon
<1>1. s \in Seq(Phdr)
  BY ExecAssumption, Zenon
<1>2. j \in DOMAIN s /\ ph = s[j]
  BY Zenon
<1>3. ph \in Phdr
  BY <1>1, <1>2
<1>4. /\ ph.vaddr \in Nat /\ ph.offset \in Nat /\ ph.filesz \in Nat /\ ph.memsz \in Nat
      /\ ph.w \in BOOLEAN /\ ph.x \in BOOLEAN
  BY ONLY <1>3, Zenon DEF Phdr
<1> QED BY <1>4, Pages, Zenon DEF First, NPages

\* The bytes of a segment fit its pages.
LEMMA RoundUp ==
  ASSUME NEW n \in Nat
  PROVE  n <= DIV_ROUNDUP(n, PGSIZE) * PGSIZE
<1>1. PGSIZE \in Nat \ {0}
  BY ExecAssumption, Zenon
<1>2. n + PGSIZE - 1 \in Nat
  BY <1>1
<1>3. PICK q \in Nat, r \in 0 .. PGSIZE - 1 :
        n + PGSIZE - 1 = q * PGSIZE + r /\ (n + PGSIZE - 1) \div PGSIZE = q
  BY <1>1, <1>2, DivMod, Zenon
<1>4. DIV_ROUNDUP(n, PGSIZE) = q
  BY <1>3, Zenon DEF DIV_ROUNDUP
<1>5. q * PGSIZE \in Int
  BY <1>1, <1>3
<1>6. n <= q * PGSIZE
  BY <1>1, <1>3, <1>5
<1> QED BY <1>4, <1>6, Zenon

\* The pages of a segment.
LEMMA SegPages ==
  ASSUME NEW p \in DOMAIN Programs, NEW j \in DOMAIN Programs[p].phdrs,
         NEW ph, ph = Programs[p].phdrs[j], ph.type = "PT_LOAD"
  PROVE  /\ ph.filesz <= NPages(ph) * PGSIZE
         /\ \A d \in 0 .. NPages(ph) - 1 :
              /\ First(ph) + d \in 0 .. Pages4 - 1 /\ Index(First(ph) + d, 4) \in Lower
              /\ First(ph) + d \in Area(ph) /\ First(ph) + d \notin StackArea
<1>1. /\ ph.filesz \in Nat /\ ph.memsz \in Nat /\ First(ph) \in Nat /\ NPages(ph) \in Nat
  BY PhdrFacts, Zenon
<1>2. ph.memsz <= NPages(ph) * PGSIZE
  BY <1>1, RoundUp, Zenon DEF NPages
<1>3. ph.filesz <= ph.memsz /\ \A va \in Area(ph) : va < Pages4 /\ va \notin StackArea
  BY ImageAssumption, Zenon DEF Pages4
<1>4. Area(ph) = First(ph) .. First(ph) + NPages(ph) - 1
  BY Zenon DEF Area, First, NPages, DIV_ROUNDUP
<1>5. \A va \in Area(ph) : Index(va, 4) \in Lower
  BY ExecAssumption, Zenon DEF Area
<1>6. ph.filesz <= NPages(ph) * PGSIZE
  <2>1. NPages(ph) * PGSIZE \in Int
    BY <1>1, ExecAssumption
  <2> QED BY <2>1, <1>1, <1>2, <1>3, SMTT(20)
<1>7. ASSUME NEW d \in 0 .. NPages(ph) - 1
      PROVE  First(ph) + d \in Area(ph) /\ First(ph) + d \in Nat
  BY <1>1, <1>4
<1>8. Pages4 \in Nat
  BY Halves
<1>9. \A va \in Nat : va < Pages4 => va \in 0 .. Pages4 - 1
  BY <1>8
<1> QED BY <1>3, <1>5, <1>6, <1>7, <1>9, Zenon

\* The pages of the stack.
LEMMA StackPages ==
  \A d \in 0 .. STACKSIZE - 1 :
    /\ STACKVA + d \in 0 .. Pages4 - 1 /\ Index(STACKVA + d, 4) \in Lower
    /\ STACKVA + d \in StackArea
<1>1. STACKVA \in Nat /\ STACKSIZE \in Nat /\ Pages4 \in Nat
  BY ExecAssumption, Halves
<1>2. \A va \in StackArea : va < Pages4 /\ Index(va, 4) \in Lower
  BY ExecAssumption, ImageAssumption, Zenon DEF Pages4, StackArea
<1>3. ASSUME NEW d \in 0 .. STACKSIZE - 1 PROVE STACKVA + d \in StackArea /\ STACKVA + d \in Nat
  BY <1>1 DEF StackArea
<1>4. \A va \in Nat : va < Pages4 => va \in 0 .. Pages4 - 1
  BY <1>1
<1> QED BY <1>2, <1>3, <1>4, Zenon

\* What the strings of an argument list take.
LEMMA SizeFacts ==
  ASSUME NEW argv \in Argvs
  PROVE  /\ argv \in Seq(Nat) /\ Len(argv) \in Nat /\ \A k \in 1 .. Len(argv) : argv[k] \in Nat
         /\ \A k \in 0 .. Len(argv) : Size(argv)[k] \in 0 .. STACKSIZE * PGSIZE
         /\ Size(argv)[0] = 0
         /\ \A k \in 1 .. Len(argv) : Size(argv)[k] = Size(argv)[k - 1] + argv[k] + 1
         /\ Size(argv)[Len(argv)] + (Len(argv) + 12) * WORD <= STACKSIZE * PGSIZE
<1>1. argv \in Seq(Nat)
  BY ArgsAssumption, Zenon
<1>2. Len(argv) \in Nat /\ DOMAIN argv = 1 .. Len(argv) /\ \A k \in 1 .. Len(argv) : argv[k] \in Nat
  BY <1>1
<1>3. /\ Size(argv) \in [0 .. Len(argv) -> 0 .. STACKSIZE * PGSIZE]
      /\ Size(argv)[0] = 0 /\ \A k \in DOMAIN argv : Size(argv)[k] = Size(argv)[k - 1] + argv[k] + 1
      /\ Size(argv)[Len(argv)] + (Len(argv) + 12) * WORD <= STACKSIZE * PGSIZE
  BY ArgsAssumption, Zenon DEF Size
<1> QED BY <1>1, <1>2, <1>3, Zenon

\* Everything that copyargs() writes is on the stack.
LEMMA StackAddresses ==
  ASSUME NEW argv \in Argvs, NEW b \in Nat
  PROVE  LET A == b * PGSIZE .. (b + STACKSIZE) * PGSIZE - 1
         IN  /\ \A k \in 1 .. Len(argv) : \A c \in 0 .. argv[k] : Top(b) - Size(argv)[k] + c \in A
             /\ \A n \in 1 .. 11 : Top(b) - Size(argv)[Len(argv)] - n * WORD \in A
             /\ \A k \in 1 .. Len(argv) : Room(b, argv) + (k - 1) * WORD \in A
             /\ Room(b, argv) - WORD \in A
             /\ STACKSIZE > 0
<1> DEFINE A == b * PGSIZE .. (b + STACKSIZE) * PGSIZE - 1
           n0 == Len(argv)
<1>1. /\ PGSIZE \in Nat /\ WORD \in Nat \ {0} /\ STACKSIZE \in Nat /\ n0 \in Nat
  BY ExecAssumption, SizeFacts
<1>2. PICK lo, sz, w, z : /\ lo = b * PGSIZE /\ sz = STACKSIZE * PGSIZE /\ w = n0 * WORD
                          /\ z = Size(argv)[n0]
  BY Zenon
<1>3. lo \in Nat /\ sz \in Nat /\ w \in Nat /\ z \in 0 .. sz
  <2>1. lo \in Nat /\ sz \in Nat /\ w \in Nat
    BY <1>1, <1>2
  <2>2. n0 \in 0 .. Len(argv)
    BY <1>1
  <2> QED BY <2>1, <2>2, <1>2, SizeFacts, Zenon
<1>4. Top(b) = lo + sz
  BY <1>1, <1>2 DEF Top
<1>5. z + w + 12 * WORD <= sz
  <2>1. z + (n0 + 12) * WORD <= sz
    BY <1>2, SizeFacts, Zenon
  <2>2. (n0 + 12) * WORD = w + 12 * WORD
    BY <1>1, <1>2
  <2> QED BY <2>1, <2>2, <1>1, <1>3
<1>6. Room(b, argv) = lo + sz - z - 11 * WORD - w
  <2>1. (11 + n0) * WORD = 11 * WORD + w
    BY <1>1, <1>2
  <2>2. Room(b, argv) = lo + sz - z - (11 * WORD + w)
    BY <2>1, <1>1, <1>2, <1>3, <1>4, SMTT(20) DEF Room
  <2> QED BY <2>2, <1>1, <1>3
<1>7. A = lo .. lo + sz - 1
  BY <1>2, <1>4 DEF Top
<1>8. Top(b) - Size(argv)[Len(argv)] = lo + sz - z
  BY ONLY <1>2, <1>3, <1>4, SMTT(20)
<1> HIDE DEF A
<1>9. ASSUME NEW k \in 1 .. n0, NEW c \in 0 .. argv[k] PROVE Top(b) - Size(argv)[k] + c \in A
  <2>0. k \in 0 .. Len(argv) /\ k - 1 \in 0 .. Len(argv)
    BY <1>1
  <2>1. /\ Size(argv)[k] \in 0 .. sz /\ Size(argv)[k - 1] \in 0 .. sz /\ argv[k] \in Nat
        /\ Size(argv)[k] = Size(argv)[k - 1] + argv[k] + 1
    BY <2>0, <1>2, SizeFacts, Zenon
  <2>a. PICK x, y, m : x = Size(argv)[k] /\ y = Size(argv)[k - 1] /\ m = argv[k]
    BY Zenon
  <2>2. x \in 0 .. sz /\ y \in 0 .. sz /\ m \in Nat /\ x = y + m + 1 /\ c \in 0 .. m
    BY <2>1, <2>a, Zenon
  <2>3. lo + sz - x + c \in lo .. lo + sz - 1
    BY ONLY <2>2, <1>3
  <2>4. Top(b) - Size(argv)[k] = lo + sz - x
    <3>a. \A v \in 0 .. sz : v \in Int
      BY ONLY <1>3
    <3>1. x \in Int
      BY <3>a, <2>2, Zenon
    <3> QED BY ONLY <3>1, <2>a, <1>3, <1>4
  <2>5. Top(b) - Size(argv)[k] + c = lo + sz - x + c
    BY ONLY <2>4, Zenon
  <2> QED BY ONLY <2>3, <2>5, <1>7, Zenon
<1>10. ASSUME NEW n \in 1 .. 11 PROVE Top(b) - Size(argv)[Len(argv)] - n * WORD \in A
  <2>1. 0 < n * WORD /\ n * WORD <= 11 * WORD /\ n * WORD \in Int
    BY <1>1
  <2>2. lo + sz - z - n * WORD \in lo .. lo + sz - 1
    BY <2>1, <1>1, <1>3, <1>5
  <2> QED BY ONLY <2>1, <2>2, <1>3, <1>7, <1>8, SMTT(20)
<1>11. ASSUME NEW k \in 1 .. n0 PROVE Room(b, argv) + (k - 1) * WORD \in A
  <2>1. k - 1 \in Int /\ k \in Int /\ n0 \in Int /\ 0 <= k - 1 /\ k - 1 <= n0
    BY <1>1
  <2>2. 0 <= (k - 1) * WORD /\ (k - 1) * WORD <= n0 * WORD /\ (k - 1) * WORD \in Int
    <3>1. 0 * WORD <= (k - 1) * WORD /\ (k - 1) * WORD <= n0 * WORD /\ (k - 1) * WORD \in Int
      BY <2>1, <1>1, Times
    <3> QED BY <3>1, <1>1
  <2>b. PICK t : t = (k - 1) * WORD
    BY Zenon
  <2>3. t \in Int /\ 0 <= t /\ t <= w
    BY <2>2, <2>b, <1>2, Zenon
  <2>4. lo + sz - z - 11 * WORD - w + t \in lo .. lo + sz - 1
    BY ONLY <2>3, <1>1, <1>3, <1>5
  <2> QED BY ONLY <2>b, <2>4, <1>6, <1>7, Zenon
<1>12. Room(b, argv) - WORD \in A
  <2>1. lo + sz - z - 11 * WORD - w - WORD \in lo .. lo + sz - 1
    BY <1>1, <1>3, <1>5
  <2>2. Room(b, argv) - WORD = lo + sz - z - 11 * WORD - w - WORD
    BY ONLY <1>1, <1>3, <1>6
  <2> QED BY ONLY <2>1, <2>2, <1>7, Zenon
<1>13. STACKSIZE > 0
  <2>1. sz > 0
    BY <1>1, <1>3, <1>5
  <2> QED BY <2>1, <1>1, <1>2
<1> QED BY <1>9, <1>10, <1>11, <1>12, <1>13, Zenon DEF A

-----------------------------------------------------------------------------
(* What the invariant says to a program                                   *)

\* The processor finds entry e for page v, the program cell c at byte z.
PageIs(k, v, e) == Translate(tops[k], v) = e

ByteIs(k, z, c) == Load(tops[k], z) = c

\* The segment is as its program header says.
SegRight(k, p, ph) ==
  /\ \A va \in PagesOf(ph) :
       LET rights == Translate(tops[k], va).flags
       IN  "USER" \in rights /\ ("RW" \in rights <=> ph.w) /\ ("NX" \in rights <=> ~ph.x)
  /\ \A x \in 0 .. ph.filesz - 1 : Load(tops[k], ph.vaddr + x) = <<"file", p, ph.offset + x>>

\* What the processor finds for a page that is mapped.
LEMMA PlacedPage ==
  ASSUME NEW k, NEW b, NEW n, NEW va, NEW fl, Placed(k, b, n, va, fl), NEW d \in 0 .. n - 1
  PROVE  PageIs(k, va + d, Entry(b + d, fl))
<1>1. PICK v, e : v = va + d /\ e = Entry(b + d, fl)
  BY Zenon
<1>2. Maps(k, v, e)
  BY <1>1, Zenon DEF Placed
<1>3. Translate(tops[k], v) = NextTable(Table1(k, v), Index(v, 1))
  BY Zenon DEF Translate, Table1, Table2, Table3
<1>4. Translate(tops[k], v) = e
  BY <1>2, <1>3, Zenon DEF Maps, Present, NextTable
<1> QED BY <1>1, <1>4, Zenon DEF PageIs

\* What a program reads in its pages.
LEMMA PlacedByte ==
  ASSUME NEW k, NEW b \in Nat, NEW n \in Nat, NEW va \in Nat, NEW fl, Placed(k, b, n, va, fl),
         "USER" \in fl, NEW y \in Nat, y < n * PGSIZE
  PROVE  ByteIs(k, va * PGSIZE + y, CellAt(b * PGSIZE + y))
<1>1. PGSIZE \in Nat \ {0} /\ b \in Int /\ n \in Int /\ va \in Int /\ n * PGSIZE \in Int
  BY ExecAssumption
<1>2. PICK d \in Nat, o \in 0 .. PGSIZE - 1 : y = d * PGSIZE + o
  BY Split, Zenon
<1>3. d \in 0 .. n - 1
  <2> SUFFICES ASSUME n <= d PROVE FALSE
    BY <1>1, <1>2
  <2>1. n * PGSIZE <= d * PGSIZE /\ d * PGSIZE \in Int
    BY <1>1, <1>2, Times
  <2> QED BY ONLY <2>1, <1>1, <1>2, y < n * PGSIZE, y \in Nat
<1>4. ASSUME NEW x \in Nat
      PROVE  /\ (x * PGSIZE + y) \div PGSIZE = x + d /\ (x * PGSIZE + y) % PGSIZE = o
  <2>1. x * PGSIZE + y = (x + d) * PGSIZE + o /\ x + d \in Nat
    BY ONLY <1>1, <1>2, x \in Nat
  <2>2. ((x + d) * PGSIZE + o) \div PGSIZE = x + d /\ ((x + d) * PGSIZE + o) % PGSIZE = o
    BY <2>1, Join, Zenon
  <2> QED BY <2>1, <2>2, Zenon
<1>5. PageIs(k, va + d, Entry(b + d, fl))
  BY <1>3, PlacedPage, Zenon
<1>6. PICK a, z : a = va * PGSIZE + y /\ z = b * PGSIZE + y
  BY Zenon
<1>7. /\ a \div PGSIZE = va + d /\ a % PGSIZE = o /\ z \div PGSIZE = b + d /\ z % PGSIZE = o
  BY <1>4, <1>6, Zenon
<1>8. Entry(b + d, fl).addr = b + d /\ Entry(b + d, fl).flags = fl
  BY ONLY SMT DEF Entry
<1>9. Load(tops[k], a) = Cell(b + d, o)
  BY <1>5, <1>7, <1>8, Zenon DEF Load, PageIs
<1>10. CellAt(z) = Cell(b + d, o)
  BY <1>7, Zenon DEF CellAt
<1> QED BY <1>6, <1>9, <1>10, Zenon DEF ByteIs

\* The invariant is strong enough for the image,
LEMMA InvLoaded == LoadInv => Loaded
\* A segment that is in place is as the program header says.
<1>SegReads. ASSUME NEW k, NEW p \in DOMAIN Programs, NEW j \in Loadable(Programs[p].phdrs),
                    SegLoaded(k, p, j), NEW ph, ph = Programs[p].phdrs[j]
             PROVE  SegRight(k, p, ph)
  <2> USE <1>SegReads
  <2>1. j \in DOMAIN Programs[p].phdrs /\ ph.type = "PT_LOAD" /\ ph.vaddr % PGSIZE = 0
    BY Zenon DEF Loadable
  <2>2. PICK n, first, fl : n = NPages(ph) /\ first = First(ph) /\ fl = SegFlags(ph)
    BY Zenon
  <2>3. PICK b \in Frames :
          /\ Placed(k, b, n, first, fl)
          /\ \A x \in 0 .. ph.filesz - 1 : CellAt(b * PGSIZE + x) = <<"file", p, ph.offset + x>>
    BY <2>2, Zenon DEF SegLoaded
  <2>4. /\ n \in Nat /\ first \in Nat /\ ph.filesz \in Nat /\ ph.memsz \in Nat /\ ph.vaddr \in Nat
        /\ ph.w \in BOOLEAN /\ ph.x \in BOOLEAN /\ ph.filesz <= n * PGSIZE
    BY <2>1, <2>2, PhdrFacts, SegPages, Zenon
  <2>5. /\ "USER" \in fl /\ ("RW" \in fl <=> ph.w) /\ ("NX" \in fl <=> ~ph.x)
    BY <2>2, <2>4, Zenon DEF SegFlags
  <2>6. ph.vaddr = first * PGSIZE
    <3>1. PICK f \in Nat, o \in 0 .. PGSIZE - 1 :
            ph.vaddr = f * PGSIZE + o /\ ph.vaddr \div PGSIZE = f /\ ph.vaddr % PGSIZE = o
      BY <2>4, Split, Zenon
    <3>2. o = 0 /\ f = first
      BY <3>1, <2>1, <2>2, Zenon DEF First
    <3>3. PGSIZE \in Nat
      BY ExecAssumption, Zenon
    <3>4. f * PGSIZE + 0 = f * PGSIZE
      BY ONLY <3>1, <3>3
    <3> QED BY <3>1, <3>2, <3>4, Zenon
  <2>7. ph.memsz <= n * PGSIZE
    BY <2>2, <2>4, RoundUp, Zenon DEF NPages
  <2>8. b \in Nat /\ PGSIZE \in Nat
    BY ExecAssumption DEF Frames
  <2>9. ASSUME NEW va \in PagesOf(ph)
        PROVE  /\ "USER" \in Translate(tops[k], va).flags
               /\ "RW" \in Translate(tops[k], va).flags <=> ph.w
               /\ "NX" \in Translate(tops[k], va).flags <=> ~ph.x
    <3>1. PICK a \in ph.vaddr .. ph.vaddr + ph.memsz - 1 : va = a \div PGSIZE
      BY Zenon DEF PagesOf
    <3>2. PICK z : z = ph.memsz
      BY Zenon
    <3>3. a \in first * PGSIZE .. (first + n) * PGSIZE - 1
      <4>1. a \in first * PGSIZE .. first * PGSIZE + z - 1 /\ z \in Nat /\ z <= n * PGSIZE
        BY <3>1, <3>2, <2>4, <2>6, <2>7, Zenon
      <4> QED BY ONLY <4>1, <2>4, <2>8
    <3>4. PICK d : d = a \div PGSIZE - first
      BY Zenon
    <3>5. d \in 0 .. n - 1 /\ first + d = va
      BY <3>1, <3>3, <3>4, <2>4, FrameOf, ZenonT(30)
    <3>6. PageIs(k, first + d, Entry(b + d, fl))
      BY <3>5, <2>3, PlacedPage, Zenon
    <3>7. Entry(b + d, fl).flags = fl
      BY ONLY SMT DEF Entry
    <3> QED BY <3>5, <3>6, <3>7, <2>5, Zenon DEF PageIs
  <2>10. ASSUME NEW x \in 0 .. ph.filesz - 1
         PROVE  Load(tops[k], ph.vaddr + x) = <<"file", p, ph.offset + x>>
    <3>1. PICK z : z = ph.filesz
      BY Zenon
    <3>2. x \in Nat /\ x < n * PGSIZE
      <4>1. x \in 0 .. z - 1 /\ z \in Nat /\ z <= n * PGSIZE
        BY <3>1, <2>4, Zenon
      <4> QED BY ONLY <4>1, <2>4, <2>8
    <3>3. ByteIs(k, first * PGSIZE + x, CellAt(b * PGSIZE + x))
      BY <3>2, <2>3, <2>4, <2>5, <2>8, PlacedByte, Zenon
    <3> QED BY <3>3, <2>3, <2>6, Zenon DEF ByteIs
  <2> QED BY <2>9, <2>10, Zenon DEF SegRight
<1> SUFFICES ASSUME LoadInv, NEW q \in DOMAIN procs, NEW j \in Loadable(Programs[procs[q].prog].phdrs)
             PROVE  LET ph == Programs[procs[q].prog].phdrs[j]
                        top == tops[procs[q].map]
                    IN  /\ \A va \in PagesOf(ph) :
                             LET rights == Translate(top, va).flags
                             IN  "USER" \in rights /\ ("RW" \in rights <=> ph.w)
                                 /\ ("NX" \in rights <=> ~ph.x)
                        /\ \A b \in 0 .. ph.filesz - 1 :
                             Load(top, ph.vaddr + b) = <<"file", procs[q].prog, ph.offset + b>>
  BY Zenon DEF Loaded
<1>1. PICK k, p, ph : k = procs[q].map /\ p = procs[q].prog /\ ph = Programs[p].phdrs[j]
  BY Zenon
<1>2. p \in DOMAIN Programs /\ SegLoaded(k, p, j)
  BY <1>1, Zenon DEF LoadInv, Ready, ProcReady
<1>3. SegRight(k, p, ph)
  BY <1>1, <1>2, <1>SegReads, Zenon
<1> QED BY <1>1, <1>3, Zenon DEF SegRight

\* ArgsOnStack of a process.
ArgsRight(k, p, argv, rsp, rip) ==
  LET argc == Len(argv)
      hdrs == Programs[p].phdrs
      Word(n) == Load(tops[k], rsp + n * WORD)
      Aux(n) == <<Word(argc + 2 + 2 * n), Word(argc + 3 + 2 * n)>>
      Has(key, v) == \E n \in 0 .. 3 : Aux(n) = << <<"word", key>>, <<"word", v>> >>
  IN  /\ Word(0) = <<"word", argc>>
      /\ \A a \in 1 .. argc :
           LET ptr == Word(a)[2]
           IN  /\ \A c \in 0 .. argv[a] - 1 : Load(tops[k], ptr + c) = <<"char", a, c>>
               /\ Load(tops[k], ptr + argv[a]) = <<"nul">>
      /\ Has(AT_ENTRY, rip) /\ Has(AT_PHNUM, Len(hdrs)) /\ Has(AT_PHENT, PHENT)
      /\ \A j \in DOMAIN hdrs : hdrs[j].type = "PT_PHDR" => Has(AT_PHDR, hdrs[j].vaddr)

\* and for the arguments.
LEMMA InvArgs == Inv /\ LoadInv /\ KernelShared => ArgsOnStack
\* The kernel's address of a byte reads the same in every map.
<1>KernelByte. ASSUME KernelShared, NEW k \in UserMaps, NEW a \in Nat, a \div PGSIZE \in Frames \ {0}
               PROVE  ByteIs(k, HHDM * PGSIZE + a, CellAt(a))
  <2> USE <1>KernelByte
  <2>1. PICK f \in Nat, o \in 0 .. PGSIZE - 1 : a = f * PGSIZE + o /\ a \div PGSIZE = f /\ a % PGSIZE = o
    BY Split, Zenon
  <2>2. HHDM \in Nat /\ PGSIZE \in Nat
    BY Halves, ExecAssumption, Zenon
  <2>3. HHDM * PGSIZE + a = (f + HHDM) * PGSIZE + o /\ f + HHDM \in Nat
    BY ONLY <2>1, <2>2
  <2>4. PICK z : z = HHDM * PGSIZE + a
    BY Zenon
  <2>5. z \div PGSIZE = f + HHDM /\ z % PGSIZE = o
    <3>1. /\ ((f + HHDM) * PGSIZE + o) \div PGSIZE = f + HHDM
          /\ ((f + HHDM) * PGSIZE + o) % PGSIZE = o
      BY <2>1, <2>3, Join, Zenon
    <3> QED BY <3>1, <2>3, <2>4, Zenon
  <2>6. Translate(tops[k], f + HHDM) = Entry(f, {"RW", "USER", "NX"})
    BY <2>1, Zenon DEF KernelShared, P2V
  <2>7. Entry(f, {"RW", "USER", "NX"}).addr = f /\ Entry(f, {"RW", "USER", "NX"}).flags = {"RW", "USER", "NX"}
    BY ONLY SMT DEF Entry
  <2>8. Load(tops[k], z) = Cell(f, o)
    BY <2>5, <2>6, <2>7, Zenon DEF Load
  <2> QED BY <2>1, <2>4, <2>8, Zenon DEF ByteIs, CellAt
\* Where the words of a stack are for the program.
<1>StackWords.
  ASSUME NEW argv \in Argvs, NEW b \in Nat, NEW rsp,
         rsp = (STACKVA + STACKSIZE) * PGSIZE - (Top(b) - (Room(b, argv) - WORD)),
         NEW k, Placed(k, b, STACKSIZE, STACKVA, {"RW", "USER"})
  PROVE  /\ ByteIs(k, rsp + 0 * WORD, CellAt(Room(b, argv) - WORD))
         /\ \A x \in 1 .. Len(argv) : ByteIs(k, rsp + x * WORD, CellAt(Room(b, argv) + (x - 1) * WORD))
         /\ \A n \in 1 .. 11 :
              ByteIs(k, rsp + (Len(argv) + 12 - n) * WORD,
                     CellAt(Top(b) - Size(argv)[Len(argv)] - n * WORD))
  <2> USE <1>StackWords
  <2>1. PICK lo, hi, va, l, s, r, w : /\ lo = b * PGSIZE /\ hi = STACKSIZE * PGSIZE /\ va = STACKVA * PGSIZE
                                      /\ l = Len(argv) /\ s = Top(b) - Size(argv)[Len(argv)]
                                      /\ r = Room(b, argv) - WORD /\ w = WORD
    BY Zenon
  <2>2. /\ PGSIZE \in Nat /\ STACKSIZE \in Nat /\ STACKVA \in Nat /\ w \in Nat /\ l \in Nat
        /\ Size(argv)[Len(argv)] \in Int
    <3>1. PGSIZE \in Nat /\ STACKSIZE \in Nat /\ STACKVA \in Nat /\ w \in Nat /\ l \in Nat
      BY <2>1, ExecAssumption, SizeFacts, Zenon
    <3>2. Size(argv)[Len(argv)] \in 0 .. STACKSIZE * PGSIZE
      <4>1. l \in 0 .. l
        BY <3>1
      <4> QED BY <4>1, <2>1, SizeFacts, Zenon
    <3>3. \A z \in 0 .. STACKSIZE * PGSIZE : z \in Int
      BY <3>1
    <3> QED BY <3>1, <3>2, <3>3, Zenon
  <2>3. /\ lo \in Nat /\ hi \in Nat /\ va \in Nat /\ Top(b) = lo + hi /\ s \in Int
        /\ (STACKVA + STACKSIZE) * PGSIZE = va + hi
    <3>1. /\ lo \in Nat /\ hi \in Nat /\ va \in Nat /\ (b + STACKSIZE) * PGSIZE = lo + hi
          /\ (STACKVA + STACKSIZE) * PGSIZE = va + hi
      <4>1. lo = b * PGSIZE /\ hi = STACKSIZE * PGSIZE /\ va = STACKVA * PGSIZE
        BY <2>1, Zenon
      <4> QED BY ONLY <4>1, <2>2, b \in Nat
    <3>2. PICK z, t : z = Size(argv)[Len(argv)] /\ t = Top(b)
      BY Zenon
    <3>3. s = t - z /\ z \in Int /\ t = lo + hi
      BY <3>1, <3>2, <2>1, <2>2, Zenon DEF Top
    <3>4. s \in Int
      BY ONLY <3>1, <3>3
    <3> QED BY <3>1, <3>4, Zenon DEF Top
  <2>4. r = s - (11 + l) * w - w /\ r \in Int
    <3>1. r = s - (11 + l) * w - w
      BY <2>1, Zenon DEF Room
    <3> QED BY ONLY <3>1, <2>2, <2>3
  <2>5. rsp = va + (r - lo) /\ rsp \in Int
    <3>1. PICK t, x : t = Top(b) /\ x = (STACKVA + STACKSIZE) * PGSIZE
      BY Zenon
    <3>2. rsp = x - (t - r)
      BY <3>1, <2>1, Zenon
    <3>3. t = lo + hi /\ x = va + hi
      BY <3>1, <2>3, Zenon
    <3> QED BY ONLY <3>2, <3>3, <2>3, <2>4
  <2>6. ASSUME NEW x \in Int, r + x * w \in lo .. lo + hi - 1
        PROVE  ByteIs(k, rsp + x * WORD, CellAt(r + x * w))
    <3>1. PICK y, u : y = r + x * w - lo /\ u = x * w
      BY Zenon
    <3>2. u \in Int /\ r + u \in lo .. lo + hi - 1 /\ y = r + u - lo
      <4>1. u \in Int
        BY ONLY <3>1, <2>2, x \in Int
      <4> QED BY <4>1, <3>1, <2>6, Zenon
    <3>3. y \in Nat /\ y < hi /\ lo + y = r + u /\ va + y = rsp + u
      BY ONLY <3>2, <2>3, <2>4, <2>5
    <3>4. "USER" \in {"RW", "USER"} /\ y < STACKSIZE * PGSIZE
      BY <3>3, <2>1, Zenon
    <3>5. ByteIs(k, STACKVA * PGSIZE + y, CellAt(b * PGSIZE + y))
      BY <3>3, <3>4, <2>2, PlacedByte, Zenon
    <3>6. ByteIs(k, va + y, CellAt(lo + y))
      BY <3>5, <2>1, Zenon
    <3>7. ByteIs(k, rsp + u, CellAt(r + u))
      BY ONLY <3>3, <3>6, Zenon
    <3> QED BY <3>1, <3>7, <2>1, Zenon
  <2>7. /\ \A x \in 1 .. l : Room(b, argv) + (x - 1) * WORD \in lo .. lo + hi - 1
        /\ \A n \in 1 .. 11 : s - n * WORD \in lo .. lo + hi - 1
        /\ r \in lo .. lo + hi - 1
    <3>1. b * PGSIZE = lo /\ (b + STACKSIZE) * PGSIZE = lo + hi
      BY <2>1, <2>3, Zenon DEF Top
    <3>2. b * PGSIZE .. (b + STACKSIZE) * PGSIZE - 1 = lo .. lo + hi - 1
      BY ONLY <3>1, <2>2, <2>3, b \in Nat, SMTT(20)
    <3> QED BY <3>2, <2>1, StackAddresses, Zenon
  <2>8. ByteIs(k, rsp + 0 * WORD, CellAt(r))
    <3>1. r + 0 * w = r /\ 0 \in Int
      BY ONLY <2>2, <2>4
    <3> QED BY <3>1, <2>6, <2>7, Zenon
  <2>9. ASSUME NEW x \in 1 .. l
        PROVE  ByteIs(k, rsp + x * WORD, CellAt(Room(b, argv) + (x - 1) * WORD))
    <3>1. PICK m : m = Room(b, argv) + (x - 1) * WORD
      BY Zenon
    <3>2. m = s - (11 + l) * w + (x - 1) * w
      BY <3>1, <2>1, Zenon DEF Room
    <3>3. x \in Int
      BY ONLY <2>2, x \in 1 .. l
    <3>4. r + x * w = m
      BY ONLY <3>2, <3>3, <2>2, <2>3, <2>4, SMTT(20)
    <3>5. m \in lo .. lo + hi - 1
      BY <3>1, <2>7, Zenon
    <3> QED BY <3>1, <3>3, <3>4, <3>5, <2>6, Zenon
  <2>10. ASSUME NEW n \in 1 .. 11
         PROVE  ByteIs(k, rsp + (l + 12 - n) * WORD, CellAt(s - n * WORD))
    <3>1. PICK m, x : m = s - n * w /\ x = l + 12 - n
      BY Zenon
    <3>2. n \in Int /\ x \in Int
      BY ONLY <3>1, <2>2, n \in 1 .. 11
    <3>3. r + x * w = m
      BY ONLY <3>1, <3>2, <2>2, <2>3, <2>4
    <3>4. m \in lo .. lo + hi - 1
      BY <3>1, <2>1, <2>7, Zenon
    <3>5. ByteIs(k, rsp + x * WORD, CellAt(r + x * w))
      BY <3>2, <3>3, <3>4, <2>6, Zenon
    <3> QED BY <3>1, <3>3, <3>5, <2>1, Zenon
  <2> QED BY <2>1, <2>8, <2>9, <2>10, Zenon
\* The kernel's addresses of a stack.
<1>StackPointers. ASSUME Inv, KernelShared, NEW k \in UserMaps, NEW b \in Frames \ {0},
                         NEW va, NEW fl, Placed(k, b, STACKSIZE, va, fl),
                         NEW a \in b * PGSIZE .. (b + STACKSIZE) * PGSIZE - 1
                  PROVE  ByteIs(k, HHDM * PGSIZE + a, CellAt(a))
  <2> USE <1>StackPointers
  <2>1. b \in Nat /\ b # 0 /\ STACKSIZE \in Nat
    BY ExecAssumption DEF Frames
  <2>2. PICK f, d : f = a \div PGSIZE /\ d = f - b
    BY Zenon
  <2>3. a \in Nat /\ f \in b .. b + STACKSIZE - 1 /\ d \in 0 .. STACKSIZE - 1 /\ b + d = f
    BY <2>1, <2>2, FrameOf, Zenon
  <2>4. f \in Frames
    BY <2>3, Zenon DEF Placed, Settled, Inv, Homes
  <2>5. f # 0
    BY ONLY <2>1, <2>3
  <2> QED BY <2>2, <2>3, <2>4, <2>5, <1>KernelByte, Zenon
\* A stack that is ready is what the program expects.
<1>ArgsReady.
  ASSUME Inv, KernelShared, NEW k, NEW p, NEW argv, NEW rsp, NEW rip, ProcReady(k, p, argv, rsp, rip)
  PROVE  ArgsRight(k, p, argv, rsp, rip)
  <2> USE <1>ArgsReady
  <2>1. k \in UserMaps /\ p \in DOMAIN Programs /\ argv \in Argvs /\ rip = Programs[p].entry
        /\ StackReady(k, p, argv, rsp)
    BY Zenon DEF ProcReady
  <2>2. PICK b \in Frames \ {0} :
          /\ Placed(k, b, STACKSIZE, STACKVA, {"RW", "USER"})
          /\ rsp = (STACKVA + STACKSIZE) * PGSIZE - (Top(b) - (Room(b, argv) - WORD))
          /\ CellAt(Room(b, argv) - WORD) = <<"word", Len(argv)>>
          /\ \A a \in 1 .. Len(argv) : StringAt(b, argv, a) /\ PointerAt(b, argv, a)
          /\ \E phdr : /\ AuxvAt(b, argv, AuxvOf(p, phdr))
                       /\ \A j \in DOMAIN Programs[p].phdrs :
                            Programs[p].phdrs[j].type = "PT_PHDR" => phdr = Programs[p].phdrs[j].vaddr
    BY <2>1, Zenon DEF StackReady
  <2>3. b \in Nat
    BY DEF Frames
  <2>4. PICK phdr, v : /\ v = AuxvOf(p, phdr) /\ AuxvAt(b, argv, v)
                       /\ \A j \in DOMAIN Programs[p].phdrs :
                            Programs[p].phdrs[j].type = "PT_PHDR" => phdr = Programs[p].phdrs[j].vaddr
    BY <2>2, Zenon
  <2>5. PICK l, s : l = Len(argv) /\ s = Top(b) - Size(argv)[Len(argv)]
    BY Zenon
  <2>6. /\ l \in Nat /\ \A a \in 1 .. l : argv[a] \in Nat
    BY <2>1, <2>5, SizeFacts, Zenon
  <2>7. /\ ByteIs(k, rsp + 0 * WORD, CellAt(Room(b, argv) - WORD))
        /\ \A x \in 1 .. l : ByteIs(k, rsp + x * WORD, CellAt(Room(b, argv) + (x - 1) * WORD))
        /\ \A n \in 1 .. 11 : ByteIs(k, rsp + (l + 12 - n) * WORD, CellAt(s - n * WORD))
    BY <2>1, <2>2, <2>3, <2>5, <1>StackWords, Zenon
  <2>8. Load(tops[k], rsp + 0 * WORD) = <<"word", l>>
    BY <2>2, <2>5, <2>7, Zenon DEF ByteIs
  <2>9. ASSUME NEW n \in 1 .. 11
        PROVE  Load(tops[k], rsp + (l + 12 - n) * WORD) = IF n = 2 THEN NoCell ELSE <<"word", v[n]>>
    <3>1. n # 2 => CellAt(s - n * WORD) = <<"word", v[n]>>
      BY <2>4, <2>5, Zenon DEF AuxvAt
    <3>2. CellAt(s - 2 * WORD) = NoCell
      BY <2>4, <2>5, Zenon DEF AuxvAt
    <3>3. ByteIs(k, rsp + (l + 12 - n) * WORD, CellAt(s - n * WORD))
      BY <2>7, Zenon
    <3> QED BY <3>1, <3>2, <3>3, Zenon DEF ByteIs
  <2>10. ASSUME NEW a \in 1 .. l
         PROVE  /\ \A c \in 0 .. argv[a] - 1 :
                     Load(tops[k], Load(tops[k], rsp + a * WORD)[2] + c) = <<"char", a, c>>
                /\ Load(tops[k], Load(tops[k], rsp + a * WORD)[2] + argv[a]) = <<"nul">>
    <3>1. PICK t, h, z : t = Top(b) - Size(argv)[a] /\ h = HHDM * PGSIZE /\ z = argv[a]
      BY Zenon
    <3>2. Load(tops[k], rsp + a * WORD) = <<"word", h + t>>
      <4>1. PICK g : g = Room(b, argv) + (a - 1) * WORD
        BY Zenon
      <4>2. CellAt(g) = <<"word", h + t>>
        BY <4>1, <3>1, <2>2, <2>5, Zenon DEF PointerAt
      <4>3. ByteIs(k, rsp + a * WORD, CellAt(g))
        BY <4>1, <2>7, Zenon
      <4> QED BY <4>2, <4>3, Zenon DEF ByteIs
    <3>3. PICK u : u = h + t
      BY Zenon
    <3>4. Load(tops[k], rsp + a * WORD)[2] = u
      <4>1. Load(tops[k], rsp + a * WORD) = <<"word", u>>
        BY <3>2, <3>3, Zenon
      <4> QED BY ONLY <4>1
    <3>5. /\ \A c \in 0 .. z - 1 : CellAt(t + c) = <<"char", a, c>>
          /\ CellAt(t + z) = <<"nul">> /\ z \in Nat
      BY <3>1, <2>2, <2>5, <2>6, Zenon DEF StringAt
    <3>6. h \in Int /\ t \in Int
      <4>1. h \in Int
        BY <3>1, Halves, ExecAssumption
      <4>2. Size(argv)[a] \in 0 .. STACKSIZE * PGSIZE
        <5>1. a \in 0 .. l
          BY <2>6
        <5> QED BY <5>1, <2>1, <2>5, SizeFacts, Zenon
      <4>3. PICK y, x : y = Size(argv)[a] /\ x = Top(b)
        BY Zenon
      <4>4. y \in 0 .. STACKSIZE * PGSIZE /\ STACKSIZE \in Nat /\ PGSIZE \in Nat /\ t = x - y
            /\ x = (b + STACKSIZE) * PGSIZE
        BY <4>2, <4>3, <3>1, ExecAssumption, Zenon DEF Top
      <4>5. t \in Int
        BY ONLY <4>4, <2>3
      <4> QED BY <4>1, <4>5, Zenon
    <3>7. ASSUME NEW c \in 0 .. z PROVE Load(tops[k], u + c) = CellAt(t + c)
      <4>1. t + c \in b * PGSIZE .. (b + STACKSIZE) * PGSIZE - 1
        BY <3>1, <2>1, <2>3, <2>5, StackAddresses, Zenon
      <4>2. ByteIs(k, HHDM * PGSIZE + (t + c), CellAt(t + c))
        BY <4>1, <2>1, <2>2, <1>StackPointers, Zenon
      <4>3. c \in Int
        BY ONLY <3>5, c \in 0 .. z
      <4>4. u + c = h + (t + c)
        BY ONLY <3>3, <3>6, <4>3
      <4> QED BY <3>1, <4>2, <4>4, Zenon DEF ByteIs
    <3>8. z \in 0 .. z /\ \A c \in 0 .. z - 1 : c \in 0 .. z
      BY ONLY <3>5
    <3>9. /\ \A c \in 0 .. z - 1 : Load(tops[k], u + c) = <<"char", a, c>>
          /\ Load(tops[k], u + z) = <<"nul">>
      BY <3>5, <3>7, <3>8, Zenon
    <3> QED BY <3>1, <3>4, <3>9, Zenon
  <2>11. PICK e, m : e = Programs[p].entry /\ m = Len(Programs[p].phdrs)
    BY Zenon
  <2>12. /\ v[1] = 0 /\ v[3] = e /\ v[4] = AT_ENTRY /\ v[5] = phdr /\ v[6] = AT_PHDR /\ v[7] = PHENT
         /\ v[8] = AT_PHENT /\ v[9] = m /\ v[10] = AT_PHNUM /\ v[11] = 0
    <3>1. v = <<0, 0, e, AT_ENTRY, phdr, AT_PHDR, PHENT, AT_PHENT, m, AT_PHNUM, 0>>
      BY <2>4, <2>11, Zenon DEF AuxvOf
    <3> QED BY ONLY <3>1
  <2>13. \A n \in 1 .. 11 : /\ n = 2 => Load(tops[k], rsp + (l + 12 - n) * WORD) = NoCell
                            /\ n # 2 => Load(tops[k], rsp + (l + 12 - n) * WORD) = <<"word", v[n]>>
    BY <2>9, Zenon
  <2>14. /\ l + 1 = l + 12 - 11
         /\ l + 2 + 2 * 0 = l + 12 - 10 /\ l + 3 + 2 * 0 = l + 12 - 9
         /\ l + 2 + 2 * 1 = l + 12 - 8 /\ l + 3 + 2 * 1 = l + 12 - 7
         /\ l + 2 + 2 * 2 = l + 12 - 6 /\ l + 3 + 2 * 2 = l + 12 - 5
         /\ l + 2 + 2 * 3 = l + 12 - 4 /\ l + 3 + 2 * 3 = l + 12 - 3
         /\ l + 2 + 2 * 4 = l + 12 - 2 /\ l + 3 + 2 * 4 = l + 12 - 1
    BY ONLY <2>6
  <2>15. /\ 1 \in 1 .. 11 /\ 2 \in 1 .. 11 /\ 3 \in 1 .. 11 /\ 4 \in 1 .. 11 /\ 5 \in 1 .. 11
         /\ 6 \in 1 .. 11 /\ 7 \in 1 .. 11 /\ 8 \in 1 .. 11 /\ 9 \in 1 .. 11 /\ 10 \in 1 .. 11
         /\ 11 \in 1 .. 11 /\ 1 # 2 /\ 3 # 2 /\ 4 # 2 /\ 5 # 2 /\ 6 # 2 /\ 7 # 2 /\ 8 # 2 /\ 9 # 2
         /\ 10 # 2 /\ 11 # 2 /\ 0 \in 0 .. 3 /\ 1 \in 0 .. 3 /\ 2 \in 0 .. 3 /\ 3 \in 0 .. 3
    BY ONLY SMT
  <2>16. /\ Load(tops[k], rsp + (l + 1) * WORD) = <<"word", 0>>
         /\ Load(tops[k], rsp + (l + 2 + 2 * 0) * WORD) = <<"word", AT_PHNUM>>
         /\ Load(tops[k], rsp + (l + 3 + 2 * 0) * WORD) = <<"word", m>>
         /\ Load(tops[k], rsp + (l + 2 + 2 * 1) * WORD) = <<"word", AT_PHENT>>
         /\ Load(tops[k], rsp + (l + 3 + 2 * 1) * WORD) = <<"word", PHENT>>
    BY ONLY <2>12, <2>13, <2>14, <2>15, Zenon
  <2>17. /\ Load(tops[k], rsp + (l + 2 + 2 * 2) * WORD) = <<"word", AT_PHDR>>
         /\ Load(tops[k], rsp + (l + 3 + 2 * 2) * WORD) = <<"word", phdr>>
         /\ Load(tops[k], rsp + (l + 2 + 2 * 3) * WORD) = <<"word", AT_ENTRY>>
         /\ Load(tops[k], rsp + (l + 3 + 2 * 3) * WORD) = <<"word", e>>
         /\ Load(tops[k], rsp + (l + 2 + 2 * 4) * WORD) = NoCell
         /\ Load(tops[k], rsp + (l + 3 + 2 * 4) * WORD) = <<"word", 0>>
    BY ONLY <2>12, <2>13, <2>14, <2>15, Zenon
  <2>18. rip = e /\ \A j \in DOMAIN Programs[p].phdrs :
                      Programs[p].phdrs[j].type = "PT_PHDR" => phdr = Programs[p].phdrs[j].vaddr
    BY <2>1, <2>4, <2>11, Zenon
  <2> QED BY ONLY <2>5, <2>8, <2>10, <2>11, <2>15, <2>16, <2>17, <2>18, Zenon DEF ArgsRight
<1> SUFFICES ASSUME Inv, LoadInv, KernelShared, NEW q \in DOMAIN procs
             PROVE  ArgsRight(procs[q].map, procs[q].prog, procs[q].args, procs[q].rsp, procs[q].rip)
  BY Zenon DEF ArgsOnStack, ArgsRight
<1>1. ProcReady(procs[q].map, procs[q].prog, procs[q].args, procs[q].rsp, procs[q].rip)
  BY Zenon DEF LoadInv, Ready
<1> QED BY <1>1, <1>ArgsReady, Zenon

-----------------------------------------------------------------------------
(* What every step leaves in place                                         *)

\* Tables only grow, maps keep their top levels, and what is settled stays as
\* it is.
Keeps ==
  /\ Grown /\ \A k \in DOMAIN tops : k \in DOMAIN tops' /\ tops'[k] = tops[k]
  /\ \A f \in Nat : Settled(f) => Settled(f)'
  /\ \A a \in Nat : Settled(a \div PGSIZE) => CellAt(a)' = CellAt(a)

\* Pages stay in place.
LEMMA PlacedStays ==
  ASSUME Inv, Keeps, NEW k \in DOMAIN tops, NEW b \in Nat, NEW n \in Nat, NEW va, NEW fl,
         Placed(k, b, n, va, fl)
  PROVE  Placed(k, b, n, va, fl)'
<1>1. ASSUME NEW d \in 0 .. n - 1
      PROVE  Maps(k, va + d, Entry(b + d, fl))' /\ Settled(b + d)'
  <2>1. Maps(k, va + d, Entry(b + d, fl)) /\ Settled(b + d) /\ b + d \in Nat
    <3>1. b + d \in Nat
      OBVIOUS
    <3> QED BY <3>1, Zenon DEF Placed
  <2>2. Maps(k, va + d, Entry(b + d, fl))'
    <3> PICK v, e : v = va + d /\ e = Entry(b + d, fl)
      BY Zenon
    <3>1. Maps(k, v, e)
      BY <2>1, Zenon
    <3>2. Maps(k, v, e)'
      BY <3>1, MapsStays, Zenon DEF Keeps
    <3> QED BY <3>2, Zenon
  <2> QED BY <2>1, <2>2, Zenon DEF Keeps
<1> QED BY <1>1, Zenon DEF Placed

\* And so do the cells in them.
LEMMA CellsStay ==
  ASSUME Keeps, NEW b \in Nat, NEW n \in Nat, \A d \in 0 .. n - 1 : Settled(b + d),
         NEW a \in b * PGSIZE .. (b + n) * PGSIZE - 1
  PROVE  CellAt(a)' = CellAt(a)
<1>1. /\ a \in Nat /\ a \div PGSIZE - b \in 0 .. n - 1 /\ b + (a \div PGSIZE - b) = a \div PGSIZE
  BY FrameOf, Zenon
<1>2. Settled(a \div PGSIZE)
  BY <1>1, Zenon
<1> QED BY <1>1, <1>2, Zenon DEF Keeps

\* A segment that is loaded stays so.
LEMMA SegStays ==
  ASSUME Inv, Keeps, NEW k \in DOMAIN tops, NEW p \in DOMAIN Programs,
         NEW j \in DOMAIN Programs[p].phdrs, Programs[p].phdrs[j].type = "PT_LOAD",
         SegLoaded(k, p, j)
  PROVE  SegLoaded(k, p, j)'
<1> PICK ph : ph = Programs[p].phdrs[j]
  BY Zenon
<1>1. PICK b \in Frames :
        /\ Placed(k, b, NPages(ph), First(ph), SegFlags(ph))
        /\ \A x \in 0 .. ph.filesz - 1 : CellAt(b * PGSIZE + x) = <<"file", p, ph.offset + x>>
  BY Zenon DEF SegLoaded
<1>2. b \in Nat /\ NPages(ph) \in Nat /\ ph.filesz <= NPages(ph) * PGSIZE /\ ph.filesz \in Nat
  <2>1. b \in Nat
    BY DEF Frames
  <2> QED BY <2>1, PhdrFacts, SegPages, Zenon
<1>3. Placed(k, b, NPages(ph), First(ph), SegFlags(ph))'
  <2> PICK n, va, fl : n = NPages(ph) /\ va = First(ph) /\ fl = SegFlags(ph)
    BY Zenon
  <2>1. Placed(k, b, n, va, fl)'
    BY <1>1, <1>2, PlacedStays, Zenon
  <2> QED BY <2>1, Zenon
<1>4. ASSUME NEW x \in 0 .. ph.filesz - 1
      PROVE  CellAt(b * PGSIZE + x)' = <<"file", p, ph.offset + x>>
  <2>1. b * PGSIZE + x \in b * PGSIZE .. (b + NPages(ph)) * PGSIZE - 1
    <3> PICK n, m : n = NPages(ph) /\ m = ph.filesz
      BY Zenon
    <3>1. n \in Nat /\ m \in Nat /\ m <= n * PGSIZE /\ PGSIZE \in Nat /\ x \in 0 .. m - 1
      BY <1>2, ExecAssumption, Zenon
    <3>2. b * PGSIZE \in Int /\ n * PGSIZE \in Int /\ (b + n) * PGSIZE = b * PGSIZE + n * PGSIZE
      BY <3>1, <1>2
    <3>3. b * PGSIZE + x \in b * PGSIZE .. (b + n) * PGSIZE - 1
      BY ONLY <3>1, <3>2
    <3> QED BY <3>3, Zenon
  <2>2. \A d \in 0 .. NPages(ph) - 1 : Settled(b + d)
    BY <1>1, Zenon DEF Placed
  <2>3. CellAt(b * PGSIZE + x)' = CellAt(b * PGSIZE + x)
    <3> PICK a, n : a = b * PGSIZE + x /\ n = NPages(ph)
      BY Zenon
    <3>1. CellAt(a)' = CellAt(a)
      BY <2>1, <2>2, <1>2, CellsStay, Zenon
    <3> QED BY <3>1, Zenon
  <2> QED BY <2>3, <1>1, Zenon
<1> QED BY <1>3, <1>4, Zenon DEF SegLoaded

\* What is on a stack stays there, if its cells do.
LEMMA StackCells ==
  ASSUME NEW argv \in Argvs, NEW b \in Nat,
         \A a \in b * PGSIZE .. (b + STACKSIZE) * PGSIZE - 1 : CellAt(a)' = CellAt(a)
  PROVE  /\ \A k \in 1 .. Len(argv) : /\ StringAt(b, argv, k) => StringAt(b, argv, k)'
                                      /\ PointerAt(b, argv, k) => PointerAt(b, argv, k)'
         /\ \A v : AuxvAt(b, argv, v) => AuxvAt(b, argv, v)'
         /\ CellAt(Room(b, argv) - WORD)' = CellAt(Room(b, argv) - WORD)
<1> PICK A : A = b * PGSIZE .. (b + STACKSIZE) * PGSIZE - 1
  BY Zenon
<1>1. /\ \A k \in 1 .. Len(argv) : \A c \in 0 .. argv[k] : Top(b) - Size(argv)[k] + c \in A
      /\ \A n \in 1 .. 11 : Top(b) - Size(argv)[Len(argv)] - n * WORD \in A
      /\ \A k \in 1 .. Len(argv) : Room(b, argv) + (k - 1) * WORD \in A
      /\ Room(b, argv) - WORD \in A
  BY StackAddresses, Zenon
<1>2. \A a \in A : CellAt(a)' = CellAt(a)
  BY Zenon
<1>3. ASSUME NEW k \in 1 .. Len(argv), StringAt(b, argv, k) PROVE StringAt(b, argv, k)'
  <2>1. argv[k] \in 0 .. argv[k] /\ 0 .. argv[k] - 1 \subseteq 0 .. argv[k]
    <3>1. argv[k] \in Nat
      BY SizeFacts, Zenon
    <3> QED BY <3>1
  <2>2. ASSUME NEW c \in 0 .. argv[k] - 1
        PROVE  CellAt(Top(b) - Size(argv)[k] + c)' = <<"char", k, c>>
    BY <2>1, <1>1, <1>2, <1>3, Zenon DEF StringAt
  <2>3. CellAt(Top(b) - Size(argv)[k] + argv[k])' = <<"nul">>
    BY <2>1, <1>1, <1>2, <1>3, Zenon DEF StringAt
  <2> QED BY <2>2, <2>3, Zenon DEF StringAt
<1>4. ASSUME NEW k \in 1 .. Len(argv), PointerAt(b, argv, k) PROVE PointerAt(b, argv, k)'
  BY <1>1, <1>2, <1>4, Zenon DEF PointerAt
<1>5. ASSUME NEW v, AuxvAt(b, argv, v) PROVE AuxvAt(b, argv, v)'
  <2>1. 2 \in 1 .. 11
    OBVIOUS
  <2>2. CellAt(Top(b) - Size(argv)[Len(argv)] - 2 * WORD)' = NoCell
    BY <2>1, <1>1, <1>2, <1>5, Zenon DEF AuxvAt
  <2>3. ASSUME NEW n \in 1 .. 11, n # 2
        PROVE  CellAt(Top(b) - Size(argv)[Len(argv)] - n * WORD)' = <<"word", v[n]>>
    BY <2>3, <1>1, <1>2, <1>5, Zenon DEF AuxvAt
  <2> QED BY <2>2, <2>3, Zenon DEF AuxvAt, NoCell
<1> QED BY <1>1, <1>2, <1>3, <1>4, <1>5, Zenon

\* A stack that is ready stays so.
LEMMA StackStays ==
  ASSUME Inv, Keeps, NEW k \in DOMAIN tops, NEW p, NEW argv \in Argvs, NEW rsp,
         StackReady(k, p, argv, rsp)
  PROVE  StackReady(k, p, argv, rsp)'
<1>1. PICK b \in Frames \ {0} :
        /\ Placed(k, b, STACKSIZE, STACKVA, {"RW", "USER"})
        /\ rsp = (STACKVA + STACKSIZE) * PGSIZE - (Top(b) - (Room(b, argv) - WORD))
        /\ CellAt(Room(b, argv) - WORD) = <<"word", Len(argv)>>
        /\ \A a \in 1 .. Len(argv) : StringAt(b, argv, a) /\ PointerAt(b, argv, a)
        /\ \E phdr : /\ AuxvAt(b, argv, AuxvOf(p, phdr))
                     /\ \A j \in DOMAIN Programs[p].phdrs :
                          Programs[p].phdrs[j].type = "PT_PHDR" => phdr = Programs[p].phdrs[j].vaddr
  BY Zenon DEF StackReady
<1>2. PICK phdr : /\ AuxvAt(b, argv, AuxvOf(p, phdr))
                  /\ \A j \in DOMAIN Programs[p].phdrs :
                       Programs[p].phdrs[j].type = "PT_PHDR" => phdr = Programs[p].phdrs[j].vaddr
  BY <1>1, Zenon
<1>3. b \in Nat /\ STACKSIZE \in Nat
  BY ExecAssumption DEF Frames
<1>4. Placed(k, b, STACKSIZE, STACKVA, {"RW", "USER"})'
  BY <1>1, <1>3, PlacedStays, Zenon
<1>5. \A d \in 0 .. STACKSIZE - 1 : Settled(b + d)
  BY <1>1, Zenon DEF Placed
<1>6. \A a \in b * PGSIZE .. (b + STACKSIZE) * PGSIZE - 1 : CellAt(a)' = CellAt(a)
  BY <1>3, <1>5, CellsStay, Zenon
<1>7. /\ \A a \in 1 .. Len(argv) : StringAt(b, argv, a)' /\ PointerAt(b, argv, a)'
      /\ CellAt(Room(b, argv) - WORD)' = <<"word", Len(argv)>>
  BY <1>1, <1>3, <1>6, StackCells, Zenon
<1>8. AuxvAt(b, argv, AuxvOf(p, phdr))'
  <2> PICK v : v = AuxvOf(p, phdr)
    BY Zenon
  <2>1. AuxvAt(b, argv, v)'
    BY <1>2, <1>3, <1>6, StackCells, Zenon
  <2> QED BY <2>1, Zenon
<1> QED BY <1>1, <1>2, <1>4, <1>7, <1>8, Zenon DEF StackReady

\* A process that is ready stays so.
LEMMA ProcStays ==
  ASSUME Inv, Keeps, NEW k, NEW p, NEW argv, NEW rsp, NEW rip, ProcReady(k, p, argv, rsp, rip)
  PROVE  ProcReady(k, p, argv, rsp, rip)'
<1>1. /\ k \in UserMaps /\ p \in DOMAIN Programs /\ argv \in Argvs /\ rip = Programs[p].entry
      /\ \A j \in Loadable(Programs[p].phdrs) : SegLoaded(k, p, j)
      /\ StackReady(k, p, argv, rsp)
  BY Zenon DEF ProcReady
<1>2. k \in DOMAIN tops /\ k \in UserMaps'
  BY <1>1, Zenon DEF UserMaps, Keeps
<1>3. \A j \in Loadable(Programs[p].phdrs) : SegLoaded(k, p, j)'
  BY <1>1, <1>2, SegStays, Zenon DEF Loadable
<1>4. StackReady(k, p, argv, rsp)'
  BY <1>1, <1>2, StackStays, Zenon
<1> QED BY <1>1, <1>2, <1>3, <1>4, Zenon DEF ProcReady

\* The processes stay ready, whatever happens to their kernel stacks.
LEMMA ReadyStays ==
  ASSUME Inv, Keeps, Ready, procs' \in Seq(ProcRecord), DOMAIN procs' \subseteq DOMAIN procs,
         \A q \in DOMAIN procs' :
           /\ procs'[q].map = procs[q].map /\ procs'[q].prog = procs[q].prog
           /\ procs'[q].args = procs[q].args /\ procs'[q].rsp = procs[q].rsp
           /\ procs'[q].rip = procs[q].rip
  PROVE  Ready'
<1> SUFFICES ASSUME NEW q \in DOMAIN procs'
             PROVE  ProcReady(procs[q].map, procs[q].prog, procs[q].args, procs[q].rsp,
                              procs[q].rip)'
  BY Zenon DEF Ready, ProcRecord
<1>1. PICK k, p, argv, rsp, rip :
        /\ k = procs[q].map /\ p = procs[q].prog /\ argv = procs[q].args
        /\ rsp = procs[q].rsp /\ rip = procs[q].rip
  BY Zenon
<1>2. ProcReady(k, p, argv, rsp, rip)'
  BY <1>1, ProcStays, Zenon DEF Ready
<1>3. /\ procs'[q].map = k /\ procs'[q].prog = p /\ procs'[q].args = argv
      /\ procs'[q].rsp = rsp /\ procs'[q].rip = rip
  BY <1>1, Zenon
<1> QED BY <1>2, <1>3, Zenon

\* The program headers that loadelf() looks at.
LEMMA PhdrAt ==
  ASSUME Inv, NEW j \in Nat \ {0}, prog \in DOMAIN Programs, j <= Len(phdrs)
  PROVE  j \in DOMAIN phdrs /\ j \in DOMAIN Programs[prog].phdrs
<1> PICK s : s = Programs[prog].phdrs
  BY Zenon
<1>1. s \in Seq(Phdr)
  BY ExecAssumption, Zenon
<1>2. j \in DOMAIN s
  BY <1>1 DEF phdrs
<1> QED BY <1>2, Zenon DEF phdrs

\* The area, while exec() works on it.
LEMMA AreaFacts ==
  ASSUME Inv, LoadInv, pc \in {"read", "args", "ptrs"}
  PROVE  /\ Count \in Nat /\ AreaVa \in Nat /\ base \in Nat /\ prog \in DOMAIN Programs
         /\ \A d \in 0 .. Count - 1 :
              AreaVa + d \in 0 .. Pages4 - 1 /\ Index(AreaVa + d, 4) \in Lower
         /\ pc = "read" => i \in DOMAIN phdrs /\ phdrs[i].type = "PT_LOAD"
<1>1. prog \in DOMAIN Programs /\ i \in Nat \ {0}
  BY Zenon DEF Inv, Control
<1>2. base \in Nat
  BY DEF LoadInv, Frame, Frames
<1>3. CASE pc = "read"
  <2>1. i <= Len(phdrs) /\ phdrs[i].type = "PT_LOAD"
    BY <1>3, Zenon DEF LoadInv, Loading
  <2>2. i \in DOMAIN Programs[prog].phdrs /\ i \in DOMAIN phdrs
    BY <2>1, <1>1, PhdrAt, Zenon
  <2>3. PICK ph : ph = Programs[prog].phdrs[i]
    BY Zenon
  <2>4. Count = NPages(ph) /\ AreaVa = First(ph) /\ ph.type = "PT_LOAD"
    BY <2>1, <2>3, <1>3, Zenon DEF Count, AreaVa, phdrs
  <2> QED BY <2>1, <2>2, <2>3, <2>4, <1>1, <1>2, PhdrFacts, SegPages, Zenon
<1>4. CASE pc # "read"
  <2>1. Count = STACKSIZE /\ AreaVa = STACKVA /\ STACKSIZE \in Nat /\ STACKVA \in Nat
    BY <1>4, ExecAssumption, Zenon DEF Count, AreaVa
  <2> QED BY <2>1, <1>1, <1>2, <1>4, StackPages, Zenon
<1> QED BY <1>3, <1>4, Zenon

\* The steps that write nothing and keep the area, or are done with it.
LEMMA QuietKeeps ==
  ASSUME Grown, \A k \in DOMAIN tops : k \in DOMAIN tops' /\ tops'[k] = tops[k],
         used \subseteq used', UNCHANGED content,
         pc' \notin {"read", "args", "ptrs"} \/ UNCHANGED <<pc, prog, i, base>>
  PROVE  Keeps
<1>1. ASSUME NEW f, Settled(f) PROVE Settled(f)'
  <2>1. CASE pc' \notin {"read", "args", "ptrs"}
    BY <2>1, <1>1, Zenon DEF Settled
  <2>2. CASE UNCHANGED <<pc, prog, i, base>>
    <3>1. Count' = Count
      BY <2>2, Zenon DEF Count, phdrs, NPages, DIV_ROUNDUP
    <3> QED BY <3>1, <2>2, <1>1, Zenon DEF Settled
  <2> QED BY <2>1, <2>2, Zenon
<1>2. \A a : CellAt(a)' = CellAt(a)
  BY Zenon DEF CellAt, Cell, NoCell
<1> QED BY <1>1, <1>2, Zenon DEF Keeps

\* The steps that write to the area.
LEMMA WriteKeeps ==
  ASSUME Inv, LoadInv, pc \in {"read", "args", "ptrs"},
         pc' \in {"phdrs", "switch"} \/ (pc' \in {"args", "ptrs"} /\ pc # "read"),
         UNCHANGED <<used, mem, tops, base>>,
         NEW w, DOMAIN w \subseteq base * PGSIZE .. (base + Count) * PGSIZE - 1,
         content' = Written(w)
  PROVE  /\ Keeps /\ DOMAIN content' \subseteq used'
         /\ DOMAIN w \subseteq Nat
         /\ \A a \in Nat : CellAt(a)' = IF a \in DOMAIN w THEN w[a] ELSE CellAt(a)
<1>1. base \in Nat /\ Count \in Nat
  BY AreaFacts, Zenon
<1>2. \A a \in DOMAIN w : a \in Nat /\ a \div PGSIZE \in base .. base + Count - 1
  <2> PICK b, n : b = base /\ n = Count
    BY Zenon
  <2>1. \A a \in b * PGSIZE .. (b + n) * PGSIZE - 1 : a \in Nat /\ a \div PGSIZE \in b .. b + n - 1
    BY <1>1, FrameOf, Zenon
  <2> QED BY <2>1, Zenon
<1>3. /\ DOMAIN content' = DOMAIN content \cup {a \div PGSIZE : a \in DOMAIN w}
      /\ \A a \in Nat : CellAt(a)' = IF a \in DOMAIN w THEN w[a] ELSE CellAt(a)
  <2>1. DOMAIN w \subseteq Nat
    BY <1>2, Zenon
  <2> QED BY <2>1, WrittenCell, Zenon
<1>4. ASSUME NEW f, Settled(f) PROVE Settled(f)' /\ f \notin base .. base + Count - 1
  <2>1. f \in used /\ f \notin base .. base + Count - 1
    BY <1>4, Zenon DEF Settled
  <2>2. pc' \in {"args", "ptrs"} => Count' = Count
    BY Zenon DEF Count
  <2> QED BY <2>1, <2>2, Zenon DEF Settled
<1>5. ASSUME NEW a \in Nat, Settled(a \div PGSIZE) PROVE CellAt(a)' = CellAt(a)
  <2>1. a \notin DOMAIN w
    BY <1>2, <1>4, <1>5, Zenon
  <2> QED BY <2>1, <1>3, Zenon
<1>6. DOMAIN content' \subseteq used'
  BY <1>2, <1>3, Zenon DEF LoadInv, Frame
<1>7. Grown
  BY Zenon DEF Grown
<1> QED BY <1>2, <1>3, <1>4, <1>5, <1>6, <1>7, Zenon DEF Keeps

\* The newest map is that of the program that exec() loads.
LEMMA Newest ==
  ASSUME Inv, tops # <<>>
  PROVE  Len(tops) \in DOMAIN tops /\ (Len(tops) > 1 => Len(tops) \in UserMaps)
<1>1. tops \in Seq(Frames)
  BY Zenon DEF Inv, Tops
<1>2. Len(tops) \in DOMAIN tops
  BY <1>1
<1> QED BY <1>2, Zenon DEF UserMaps

\* The segments that were read stay in place,
LEMMA SegsStay ==
  ASSUME Inv, LoadInv, Keeps, pc \in {"phdrs", "read", "args", "ptrs"}, UNCHANGED <<prog, tops>>
  PROVE  \A j \in Loadable(phdrs) : j <= Handled => SegLoaded(Len(tops), prog, j)'
<1>1. tops # <<>> /\ prog \in DOMAIN Programs
  BY Zenon DEF Inv, Control
<1> SUFFICES ASSUME NEW j \in Loadable(phdrs), j <= Handled
             PROVE  SegLoaded(Len(tops), prog, j)'
  BY Zenon
<1>2. SegLoaded(Len(tops), prog, j)
  BY Zenon DEF LoadInv, Loading
<1>3. j \in DOMAIN Programs[prog].phdrs /\ Programs[prog].phdrs[j].type = "PT_LOAD"
  BY Zenon DEF Loadable, phdrs
<1>4. PICK k, p : k = Len(tops) /\ p = prog
  BY Zenon
<1>5. SegLoaded(k, p, j)'
  BY <1>1, <1>2, <1>3, <1>4, Newest, SegStays, Zenon
<1>6. Len(tops') = k /\ prog' = p
  BY <1>4, Zenon
<1> QED BY <1>5, <1>6, Zenon

\* and so do the pages of the area that are mapped.
LEMMA AreaStays ==
  ASSUME Inv, LoadInv, Keeps, pc \in {"read", "args", "ptrs"},
         pc # "read" \/ i \in Loadable(phdrs),
         NEW k, k = Len(tops), NEW va, va = AreaVa, NEW b, b = base, NEW fl, fl = AreaFlags
  PROVE  \A d \in 0 .. MappedPages - 1 : Maps(k, va + d, Entry(b + d, fl))'
<1> SUFFICES ASSUME NEW d \in 0 .. MappedPages - 1
             PROVE  Maps(k, va + d, Entry(b + d, fl))'
  BY Zenon
<1>1. k \in DOMAIN tops /\ tops'[k] = tops[k] /\ Grown
  BY Newest, Zenon DEF Inv, Control, Keeps
<1>2. PICK v, e : v = va + d /\ e = Entry(b + d, fl)
  BY Zenon
<1>3. Maps(k, va + d, Entry(b + d, fl))
  BY Zenon DEF LoadInv, Mapping
<1>4. Maps(k, v, e)
  BY <1>2, <1>3, Zenon
<1>5. Maps(k, v, e)'
  BY <1>1, <1>4, MapsStays, Zenon
<1> QED BY <1>2, <1>5, Zenon

-----------------------------------------------------------------------------
(* copyargs                                                                *)

\* String k, of m characters, is from t to s.
Span(b, argv, k, lo, t, s, m, top) ==
  /\ lo \in Nat /\ t \in Nat /\ s \in Nat /\ m \in Nat /\ top \in Nat
  /\ lo = b * PGSIZE /\ t = Top(b) - Size(argv)[k] /\ s = Top(b) - Size(argv)[k - 1]
  /\ m = argv[k] /\ top = Top(b) /\ t = s - m - 1 /\ lo <= t /\ s <= top

\* Where the words are below the strings, which end at s: the auxiliary vector,
\* and room for the pointers, at r.
Words(b, argv, lo, s, r, top) ==
  /\ lo \in Nat /\ s \in Nat /\ r \in Nat /\ top \in Nat
  /\ lo = b * PGSIZE /\ s = Top(b) - Size(argv)[Len(argv)] /\ r = Room(b, argv) /\ top = Top(b)
  /\ s <= top /\ lo + WORD <= r
  /\ \A n \in 1 .. 11 : s - n * WORD \in lo .. s - 1 /\ s - n * WORD >= r + Len(argv) * WORD
  /\ \A k \in 1 .. Len(argv) :
       /\ r + (k - 1) * WORD \in r .. s - 1 /\ r + (k - 1) * WORD < r + Len(argv) * WORD
       /\ \A j \in 1 .. k - 1 : r + (j - 1) * WORD < r + (k - 1) * WORD
  /\ r + Len(argv) * WORD \in r .. s - 1

\* copyargs() keeps the invariant.
LEMMA CopyArgsLoad ==
  Inv /\ LoadInv /\ (CopyString \/ PushAuxv \/ PushPointer \/ PushArgc) => LoadInv'
\* What the steps of copyargs() have in common.
<1>CopyCommon. ASSUME Inv, LoadInv, Keeps, DOMAIN content' \subseteq used', todo = <<>>,
                      pc \in {"args", "ptrs"}, pc' \in {"args", "ptrs"}, pc = "ptrs" => pc' = "ptrs",
                      UNCHANGED vmVars, UNCHANGED <<prog, args, base, at_phdr, procs>>, i' <= Len(args) + 1
               PROVE  Frame' /\ Mapping' /\ Presence' /\ Loading' /\ Ready'
  <2> USE <1>CopyCommon
  <2>1. /\ UNCHANGED <<used, mem, tops, todo, level, cur>> /\ UNCHANGED phdrs
        /\ pc' \notin {"phdrs", "read"} /\ pc \notin {"phdrs", "read"}
    BY Zenon DEF vmVars, phdrs
  <2>2. /\ Count = STACKSIZE /\ Count' = STACKSIZE /\ AreaVa = STACKVA /\ AreaVa' = STACKVA
        /\ AreaFlags = {"RW", "USER"} /\ AreaFlags' = {"RW", "USER"} /\ UNCHANGED MappedPages
        /\ Handled = Len(phdrs) /\ Handled' = Len(phdrs)
    BY <2>1, Zenon DEF Count, AreaVa, AreaFlags, MappedPages, Handled
  <2>3. Frame'
    BY <2>1, <2>2, Zenon DEF LoadInv, Frame
  <2>4. Mapping'
    <3>1. Len(todo') = 0 /\ DOMAIN todo' = {} /\ todo' = <<>>
      BY <2>1, SMTT(20)
    <3>2. Len(todo') <= Count'
      BY <3>1, <2>2, ExecAssumption, SMTT(20)
    <3>3. PICK k, va, b, fl : k = Len(tops) /\ va = AreaVa /\ b = base /\ fl = AreaFlags
      BY Zenon
    <3>4. \A d \in 0 .. MappedPages - 1 : Maps(k, va + d, Entry(b + d, fl))'
      BY <3>3, <2>1, AreaStays, Zenon
    <3>5. \A d \in 0 .. MappedPages' - 1 : Maps(Len(tops), AreaVa + d, Entry(base + d, AreaFlags))'
      <4>1. Len(tops') = k /\ AreaVa' = va /\ base' = b /\ AreaFlags' = fl /\ MappedPages' = MappedPages
        BY <3>3, <2>1, <2>2, Zenon
      <4> QED BY <3>4, <4>1, Zenon
    <3> QED BY <3>1, <3>2, <3>5, Zenon DEF Mapping
  <2>5. Presence'
    <3> SUFFICES ASSUME pc' = "args", NEW va \in 0 .. Pages4 - 1, Index(va, 4) \in Lower,
                        Present(Len(tops), va)'
                 PROVE  \/ \E j \in 1 .. Handled' : phdrs'[j].type = "PT_LOAD" /\ va \in Area(phdrs'[j])
                        \/ pc' # "phdrs" /\ va \in AreaVa' .. AreaVa' + MappedPages' - 1
      BY <2>1, Zenon DEF Presence, Area
    <3>1. PICK k : k = Len(tops)
      BY Zenon
    <3>2. Present(k, va)'
      BY <3>1, <2>1, Zenon
    <3>3. Present(k, va) /\ pc = "args"
      BY <3>2, <2>1, SameMap, Zenon
    <3>4. \/ \E j \in 1 .. Handled : phdrs[j].type = "PT_LOAD" /\ va \in Area(phdrs[j])
          \/ pc # "phdrs" /\ va \in AreaVa .. AreaVa + MappedPages - 1
      BY <3>1, <3>3, Zenon DEF LoadInv, Presence
    <3> QED BY <3>4, <2>1, <2>2, Zenon
  <2>6. Loading'
    <3>1. \A j \in Loadable(phdrs) : j <= Handled => SegLoaded(Len(tops), prog, j)'
      BY <2>1, SegsStay, Zenon
    <3>2. /\ \A j \in 1 .. Handled : phdrs[j].type = "PT_PHDR" => at_phdr = phdrs[j].vaddr
          /\ args \in Argvs
      BY Zenon DEF LoadInv, Loading
    <3> QED BY <3>1, <3>2, <2>1, <2>2, Zenon DEF Loading, Loadable, PagesOf
  <2>7. Ready'
    <3>1. procs' \in Seq(ProcRecord)
      BY Zenon DEF LoadInv, Ready
    <3> QED BY <3>1, ReadyStays, Zenon DEF LoadInv
  <2> QED BY <2>3, <2>4, <2>5, <2>6, <2>7, Zenon
\* Strings are on the stack.
<1>StringAddresses. ASSUME NEW argv \in Argvs, NEW b \in Nat, NEW k \in 1 .. Len(argv)
                    PROVE  \E lo, t, s, m, top : Span(b, argv, k, lo, t, s, m, top)
  <2> USE <1>StringAddresses
  <2>1. PICK lo, sz, x, y, m, top : /\ lo = b * PGSIZE /\ sz = STACKSIZE * PGSIZE
                                    /\ x = Size(argv)[k] /\ y = Size(argv)[k - 1] /\ m = argv[k]
                                    /\ top = Top(b)
    BY Zenon
  <2>2. Len(argv) \in Nat /\ PGSIZE \in Nat /\ STACKSIZE \in Nat
    BY SizeFacts, ExecAssumption, Zenon
  <2>3. k \in 0 .. Len(argv) /\ k - 1 \in 0 .. Len(argv)
    BY <2>2
  <2>4. x \in 0 .. sz /\ y \in 0 .. sz /\ m \in Nat /\ x = y + m + 1
    BY <2>1, <2>3, SizeFacts, Zenon
  <2>5. lo \in Nat /\ sz \in Nat /\ top = lo + sz
    BY <2>1, <2>2 DEF Top
  <2>6. PICK t, s : t = top - x /\ s = top - y
    BY Zenon
  <2>7. t \in Nat /\ s \in Nat /\ top \in Nat /\ t = s - m - 1 /\ lo <= t /\ s <= top
    BY ONLY <2>4, <2>5, <2>6
  <2>8. t = Top(b) - Size(argv)[k] /\ s = Top(b) - Size(argv)[k - 1]
    BY ONLY <2>1, <2>6, Zenon
  <2>9. Span(b, argv, k, lo, t, s, m, top)
    BY <2>1, <2>4, <2>5, <2>7, <2>8, Zenon DEF Span
  <2> QED BY <2>9, Zenon
\* A string stays where it is when its cells do.
<1>StringKept. ASSUME NEW argv \in Argvs, NEW b \in Nat, NEW k \in 1 .. Len(argv), StringAt(b, argv, k),
                      NEW s, \A a \in Nat : a >= s => CellAt(a)' = CellAt(a), s <= Top(b) - Size(argv)[k],
                      s \in Int
               PROVE  StringAt(b, argv, k)'
  <2> USE <1>StringKept
  <2>0. PICK lo, t, s0, m, top : Span(b, argv, k, lo, t, s0, m, top)
    BY <1>StringAddresses, Zenon
  <2>1. t \in Nat /\ m \in Nat /\ t = Top(b) - Size(argv)[k] /\ m = argv[k]
    BY <2>0, Zenon DEF Span
  <2>2. s <= t
    BY <2>1, Zenon
  <2>3. \A c \in 0 .. m : t + c \in Nat /\ t + c >= s
    BY <2>1, <2>2, SMTT(20)
  <2>4. \A c \in 0 .. m : CellAt(t + c)' = CellAt(t + c)
    BY <2>3, Zenon
  <2>5. m \in 0 .. m /\ 0 .. m - 1 \subseteq 0 .. m
    BY <2>1
  <2>6. /\ \A c \in 0 .. m - 1 : CellAt(t + c) = <<"char", k, c>>
        /\ CellAt(t + m) = <<"nul">>
    BY <2>1, Zenon DEF StringAt
  <2>7. /\ \A c \in 0 .. m - 1 : CellAt(t + c)' = <<"char", k, c>>
        /\ CellAt(t + m)' = <<"nul">>
    BY <2>4, <2>5, <2>6, Zenon
  <2> QED BY <2>1, <2>7, Zenon DEF StringAt
\* A turn of the first loop.
<1>CopyStringLoad. ASSUME Inv, LoadInv, CopyString
                   PROVE  LoadInv'
  <2> USE <1>CopyStringLoad
  <2>1. /\ pc = "args" /\ pc' = "args" /\ todo = <<>> /\ i <= Len(args) /\ i' = i + 1
        /\ sp' = sp - args[i] - 1 /\ UNCHANGED vmVars
        /\ UNCHANGED <<prog, args, base, at_phdr, oldrsp, procs>>
        /\ i \in Nat \ {0}
    BY Zenon DEF CopyString, Inv, Control
  <2>2. /\ base \in Nat /\ base # 0 /\ args \in Argvs /\ Len(args) \in Nat
        /\ sp = Top(base) - Size(args)[i - 1] /\ oldrsp = Top(base)
        /\ \A a \in base * PGSIZE .. sp - 1 : CellAt(a) = NoCell
        /\ \A k \in 1 .. i - 1 : StringAt(base, args, k) /\ Size(args)[k] <= Size(args)[i - 1]
    <3>1. args \in Argvs
      BY <2>1, Zenon DEF LoadInv, Loading
    <3> QED BY <3>1, <2>1, AreaFacts, SizeFacts, Zenon DEF LoadInv, Pushing
  <2>3. PICK n, b, argv : n = i /\ b = base /\ argv = args
    BY Zenon
  <2>4. n \in 1 .. Len(argv) /\ n \in Nat \ {0} /\ b \in Nat /\ argv \in Argvs /\ Len(argv) \in Nat
    <3>1. i \in 1 .. Len(args)
      BY <2>1, <2>2
    <3> QED BY <3>1, <2>1, <2>2, <2>3, Zenon
  <2>a. PICK lo, t, s, m, top : Span(b, argv, n, lo, t, s, m, top)
    BY <2>4, <1>StringAddresses, Zenon
  <2>5. /\ lo \in Nat /\ t \in Nat /\ s \in Nat /\ m \in Nat /\ top \in Nat
        /\ lo = b * PGSIZE /\ t = Top(b) - Size(argv)[n] /\ s = Top(b) - Size(argv)[n - 1]
        /\ m = argv[n] /\ top = Top(b) /\ t = s - m - 1 /\ lo <= t /\ s <= top
    BY <2>a, Zenon DEF Span
  <2>b. lo \in Nat /\ t \in Nat /\ s \in Nat /\ m \in Nat /\ top \in Nat /\ t = s - m - 1 /\ lo <= t /\ s <= top
    BY <2>5, Zenon
  <2>6. sp = s /\ sp' = t
    <3>1. sp = s /\ args[i] = m
      BY <2>2, <2>3, <2>5, Zenon
    <3>2. sp' = s - m - 1
      BY <3>1, <2>1, Zenon
    <3> QED BY <3>1, <3>2, <2>5, Zenon
  <2>7. PICK w : w = [a \in t .. s - 1 |-> IF a = s - 1 THEN <<"nul">> ELSE <<"char", n, a - t>>]
    BY Zenon
  <2>8. content' = Written(w)
    <3>1. content' = Written([a \in sp' .. sp - 1 |->
                             IF a = sp - 1 THEN <<"nul">> ELSE <<"char", i, a - sp'>>])
      BY Zenon DEF CopyString
    <3> QED BY ONLY <3>1, <2>3, <2>6, <2>7, Zenon
  <2>9. DOMAIN w \subseteq base * PGSIZE .. (base + Count) * PGSIZE - 1
    <3>1. DOMAIN w = t .. s - 1
      BY <2>7, Zenon
    <3>2. base * PGSIZE = lo /\ (base + Count) * PGSIZE = top
      BY <2>1, <2>3, <2>5, Zenon DEF Count, Top
    <3>3. t .. s - 1 \subseteq lo .. top - 1
      BY ONLY <2>b
    <3> QED BY <3>1, <3>2, <3>3, Zenon
  <2>10. /\ Keeps /\ DOMAIN content' \subseteq used'
         /\ \A a \in Nat : CellAt(a)' = IF a \in t .. s - 1 THEN w[a] ELSE CellAt(a)
    <3>1. DOMAIN w = t .. s - 1
      BY <2>7, Zenon
    <3> QED BY <3>1, <2>1, <2>8, <2>9, WriteKeeps, Zenon DEF vmVars
  <2>11. Frame' /\ Mapping' /\ Presence' /\ Loading' /\ Ready'
    <3>1. i' <= Len(args) + 1
      BY <2>1, <2>2
    <3> QED BY <3>1, <2>1, <2>10, <1>CopyCommon, Zenon
  <2>12. \A a \in lo .. t - 1 : CellAt(a)' = NoCell
    <3>1. \A a \in lo .. t - 1 : a \in Nat /\ a \notin t .. s - 1 /\ a \in lo .. s - 1
      BY ONLY <2>b
    <3>2. \A a \in lo .. s - 1 : CellAt(a) = NoCell
      BY <2>2, <2>3, <2>5, <2>6, Zenon
    <3> QED BY <3>1, <3>2, <2>10, Zenon
  <2>13. ASSUME NEW k \in 1 .. n - 1
         PROVE  StringAt(b, argv, k)' /\ Size(argv)[k] <= Size(argv)[n]
    <3>1. k \in 1 .. Len(argv) /\ StringAt(b, argv, k) /\ Size(argv)[k] <= Size(argv)[n - 1]
      <4>1. k \in 1 .. Len(argv)
        BY <2>4
      <4> QED BY <4>1, <2>2, <2>3, Zenon
    <3>a. PICK lo1, tk, s1, m1, top1 : Span(b, argv, k, lo1, tk, s1, m1, top1)
      BY <3>1, <2>4, <1>StringAddresses, Zenon
    <3>2. tk \in Nat /\ tk = Top(b) - Size(argv)[k]
      BY <3>a, Zenon DEF Span
    <3>3. /\ Size(argv)[k] \in Int /\ Size(argv)[n - 1] \in Int /\ Size(argv)[n] \in Int
          /\ Size(argv)[n - 1] <= Size(argv)[n]
      <4> PICK x, y, z, q : /\ x = Size(argv)[k] /\ y = Size(argv)[n - 1] /\ z = Size(argv)[n]
                            /\ q = STACKSIZE * PGSIZE
        BY Zenon
      <4>1. k \in 0 .. Len(argv) /\ n - 1 \in 0 .. Len(argv) /\ n \in 0 .. Len(argv)
        BY <2>4
      <4>2. x \in 0 .. q /\ y \in 0 .. q /\ z \in 0 .. q /\ z = y + m + 1
        BY <4>1, <2>4, <2>5, SizeFacts, Zenon
      <4>3. q \in Nat
        BY ExecAssumption
      <4>4. x \in Int /\ y \in Int /\ z \in Int /\ y <= z
        BY ONLY <4>2, <4>3, <2>b
      <4> QED BY <4>4, Zenon
    <3>4. s <= tk
      <4> PICK x, y : x = Size(argv)[k] /\ y = Size(argv)[n - 1]
        BY Zenon
      <4>1. x \in Int /\ y \in Int /\ x <= y /\ tk = top - x /\ s = top - y
        BY <3>1, <3>2, <3>3, <2>5, Zenon
      <4> QED BY ONLY <4>1, <2>b
    <3>5. \A a \in Nat : a >= s => CellAt(a)' = CellAt(a)
      <4>1. \A a \in Nat : a >= s => a \notin t .. s - 1
        BY ONLY <2>b
      <4> QED BY <4>1, <2>10, Zenon
    <3>6. StringAt(b, argv, k)'
      <4>1. s <= Top(b) - Size(argv)[k]
        BY <3>2, <3>4, Zenon
      <4>2. s \in Int
        BY <2>b
      <4> QED BY <4>1, <4>2, <3>1, <3>5, <2>4, <1>StringKept, Zenon
    <3>7. Size(argv)[k] <= Size(argv)[n]
      <4> PICK x, y, z : x = Size(argv)[k] /\ y = Size(argv)[n - 1] /\ z = Size(argv)[n]
        BY Zenon
      <4>1. x \in Int /\ y \in Int /\ z \in Int /\ x <= y /\ y <= z
        BY <3>1, <3>3, Zenon
      <4>2. x <= z
        BY ONLY <4>1
      <4> QED BY <4>2, Zenon
    <3> QED BY <3>6, <3>7, Zenon
  <2>14. StringAt(b, argv, n)'
    <3>1. ASSUME NEW c \in 0 .. m - 1 PROVE CellAt(t + c)' = <<"char", n, c>>
      <4>2. PICK a : a = t + c
        BY Zenon
      <4>3. a \in Nat /\ a \in t .. s - 1 /\ a # s - 1 /\ a - t = c
        BY ONLY <4>2, <2>b, c \in 0 .. m - 1, SMTT(20)
      <4>4. w[a] = IF a = s - 1 THEN <<"nul">> ELSE <<"char", n, a - t>>
        BY <4>3, <2>7, Zenon
      <4>5. w[a] = <<"char", n, c>>
        BY <4>3, <4>4, Zenon
      <4>6. CellAt(a)' = w[a]
        BY <4>3, <2>10, Zenon
      <4> QED BY <4>2, <4>5, <4>6, Zenon
    <3>2. CellAt(t + m)' = <<"nul">>
      <4>1. t + m \in Nat /\ t + m \in t .. s - 1 /\ t + m = s - 1
        BY ONLY <2>b
      <4>2. CellAt(t + m)' = w[t + m]
        BY <4>1, <2>10, Zenon
      <4>3. w[t + m] = <<"nul">>
        BY <4>1, <2>7, Zenon
      <4> QED BY <4>2, <4>3, Zenon
    <3> QED BY <3>1, <3>2, <2>5, Zenon DEF StringAt
  <2>15. Pushing'
    <3>1. /\ i' - 1 = n /\ base' = b /\ args' = argv /\ todo' = <<>> /\ oldrsp' = Top(b) /\ b # 0
          /\ sp' = Top(b) - Size(argv)[n] /\ sp' = t /\ b * PGSIZE = lo
      <4>1. i' - 1 = n
        BY <2>1, <2>3
      <4>2. base' = b /\ args' = argv /\ todo' = <<>>
        BY <2>1, <2>3, Zenon DEF vmVars
      <4>3. oldrsp' = Top(b) /\ b # 0
        BY <2>1, <2>2, <2>3, Zenon
      <4> QED BY <4>1, <4>2, <4>3, <2>5, <2>6, Zenon
    <3>2. \A k \in 1 .. n : StringAt(b, argv, k)' /\ Size(argv)[k] <= Size(argv)[n]
      <4>1. \A k \in 1 .. n : k \in 1 .. n - 1 \/ k = n
        BY <2>4
      <4>2. Size(argv)[n] <= Size(argv)[n]
        <5>1. n \in 0 .. Len(argv) /\ STACKSIZE * PGSIZE \in Int
          BY <2>4, ExecAssumption
        <5>2. Size(argv)[n] \in 0 .. STACKSIZE * PGSIZE
          BY <5>1, <2>4, SizeFacts, Zenon
        <5>3. \A z \in 0 .. STACKSIZE * PGSIZE : z <= z
          BY <5>1
        <5> QED BY <5>2, <5>3, Zenon
      <4> QED BY <4>1, <4>2, <2>13, <2>14, Zenon
    <3>3. \A a \in b * PGSIZE .. sp' - 1 : CellAt(a)' = NoCell
      BY <3>1, <2>12, Zenon
    <3> QED BY <3>1, <3>2, <3>3, Zenon DEF Pushing, NoCell
  <2>16. Pointing'
    BY <2>1, Zenon DEF Pointing
  <2> QED BY <2>11, <2>15, <2>16, Zenon DEF LoadInv
\* The words are on the stack.
<1>WordAddresses. ASSUME NEW argv \in Argvs, NEW b \in Nat
                  PROVE  \E lo, s, r, top : Words(b, argv, lo, s, r, top)
  <2> USE <1>WordAddresses
  <2>1. PICK lo, sz, z, n, u, e : /\ lo = b * PGSIZE /\ sz = STACKSIZE * PGSIZE
                               /\ z = Size(argv)[Len(argv)] /\ n = Len(argv) /\ u = n * WORD
                               /\ e = 11 * WORD
    BY Zenon
  <2>2. WORD \in Nat \ {0} /\ PGSIZE \in Nat /\ STACKSIZE \in Nat /\ n \in Nat
    BY <2>1, SizeFacts, ExecAssumption, Zenon
  <2>3. lo \in Nat /\ sz \in Nat /\ u \in Nat /\ e \in Nat
    BY <2>1, <2>2
  <2>4. z \in 0 .. sz
    <3>1. n \in 0 .. n
      BY <2>2
    <3> QED BY <3>1, <2>1, SizeFacts, Zenon
  <2>5. z + u + e + WORD <= sz
    <3>1. z + (n + 12) * WORD <= sz
      BY <2>1, SizeFacts, Zenon
    <3>2. (n + 12) * WORD = u + e + WORD
      BY ONLY <2>1, <2>2
    <3> QED BY ONLY <3>1, <3>2, <2>2, <2>3, <2>4, SMTT(20)
  <2>6. PICK top, s, r : top = lo + sz /\ s = top - z /\ r = s - (e + u)
    BY Zenon
  <2>7. Top(b) = top
    BY ONLY <2>1, <2>2, <2>6 DEF Top
  <2>8. s = Top(b) - Size(argv)[Len(argv)]
    BY ONLY <2>1, <2>6, <2>7, Zenon
  <2>9. r = Room(b, argv)
    <3>1. (11 + Len(argv)) * WORD = e + u
      BY ONLY <2>1, <2>2
    <3> QED BY ONLY <3>1, <2>6, <2>8, Zenon DEF Room
  <2>10. /\ s \in Nat /\ r \in Nat /\ top \in Nat /\ s <= top /\ lo + WORD <= r /\ r + u = s - e
         /\ r + u \in r .. s - 1 /\ lo <= s - e
    <3>1. e > 0
      BY ONLY <2>1, <2>2
    <3> QED BY ONLY <3>1, <2>2, <2>3, <2>4, <2>5, <2>6, SMTT(20)
  <2>11. ASSUME NEW d \in 1 .. 11
         PROVE  s - d * WORD \in lo .. s - 1 /\ s - d * WORD >= r + Len(argv) * WORD
    <3>1. PICK v : v = d * WORD
      BY Zenon
    <3>2. v \in Nat /\ 0 < v /\ v <= e
      BY ONLY <3>1, <2>1, <2>2, d \in 1 .. 11, SMTT(20)
    <3>3. s - v \in lo .. s - 1 /\ s - v >= r + u
      BY ONLY <3>2, <2>3, <2>10
    <3> QED BY ONLY <3>1, <3>3, <2>1, Zenon
  <2>12. ASSUME NEW k \in 1 .. Len(argv)
         PROVE  /\ r + (k - 1) * WORD \in r .. s - 1 /\ r + (k - 1) * WORD < r + Len(argv) * WORD
                /\ \A j \in 1 .. k - 1 : r + (j - 1) * WORD < r + (k - 1) * WORD
    <3>1. PICK v, k1 : v = k1 * WORD /\ k1 = k - 1
      BY Zenon
    <3>2. k1 \in Int /\ 0 <= k1 /\ k1 < n /\ n \in Int /\ WORD \in Nat /\ 0 \in Int
      BY <3>1, <2>1, <2>2
    <3>3. v \in Int /\ 0 * WORD <= v /\ v + WORD <= u
      BY ONLY <3>1, <3>2, <2>1, Times, Zenon
    <3>4. v \in Nat /\ v < u
      BY ONLY <3>3, <2>2, <2>3, SMTT(20)
    <3>5. r + v \in r .. s - 1 /\ r + v < r + u
      BY ONLY <3>4, <2>3, <2>10
    <3>6. ASSUME NEW j \in 1 .. k - 1 PROVE r + (j - 1) * WORD < r + (k - 1) * WORD
      <4>1. PICK x, j1 : x = j1 * WORD /\ j1 = j - 1
        BY Zenon
      <4>2. j1 \in Int /\ j1 < k1
        BY <4>1, <3>1, <3>2, SMTT(20)
      <4>3. x \in Int /\ x + WORD <= v
        BY ONLY <4>1, <4>2, <3>1, <3>2, Times, Zenon
      <4>4. r + x < r + v
        BY ONLY <4>3, <3>4, <2>2, <2>10, SMTT(20)
      <4> QED BY ONLY <4>1, <4>4, <3>1, Zenon
    <3>7. r + (k - 1) * WORD \in r .. s - 1 /\ r + (k - 1) * WORD < r + Len(argv) * WORD
      BY ONLY <3>1, <3>5, <2>1, Zenon
    <3> QED BY <3>6, <3>7, Zenon
  <2>13. r + Len(argv) * WORD \in r .. s - 1
    BY ONLY <2>1, <2>10, Zenon
  <2>14. Words(b, argv, lo, s, r, top)
    BY <2>1, <2>3, <2>7, <2>8, <2>9, <2>10, <2>11, <2>12, <2>13, Zenon DEF Words
  <2> QED BY <2>14, Zenon
\* The strings stay where they are when words are written below them.
<1>StringsKept. ASSUME NEW argv \in Argvs, NEW b \in Nat, NEW lo, NEW s, NEW r, NEW top,
                       Words(b, argv, lo, s, r, top), \A a \in Nat : a >= s => CellAt(a)' = CellAt(a),
                       NEW k \in 1 .. Len(argv), StringAt(b, argv, k), Size(argv)[k] <= Size(argv)[Len(argv)]
                PROVE  StringAt(b, argv, k)'
  <2> USE <1>StringsKept
  <2>1. s \in Nat /\ top \in Nat /\ s = top - Size(argv)[Len(argv)] /\ top = Top(b)
    BY Zenon DEF Words
  <2>2. PICK x, z, q : x = Size(argv)[k] /\ z = Size(argv)[Len(argv)] /\ q = STACKSIZE * PGSIZE
    BY Zenon
  <2>3. k \in 0 .. Len(argv) /\ Len(argv) \in 0 .. Len(argv) /\ q \in Nat
    BY <2>2, SizeFacts, ExecAssumption
  <2>4. x \in 0 .. q /\ z \in 0 .. q /\ x <= z /\ s = top - z
    BY <2>1, <2>2, <2>3, SizeFacts, Zenon
  <2>5. s <= top - x /\ s \in Int
    BY ONLY <2>1, <2>3, <2>4
  <2>6. s <= Top(b) - Size(argv)[k]
    BY ONLY <2>1, <2>2, <2>5, Zenon
  <2> QED BY <2>5, <2>6, <1>StringKept, Zenon
\* The auxiliary vector.
<1>PushAuxvLoad. ASSUME Inv, LoadInv, PushAuxv
                 PROVE  LoadInv'
  <2> USE <1>PushAuxvLoad
  <2>1. /\ pc = "args" /\ pc' = "ptrs" /\ todo = <<>> /\ i > Len(args) /\ i' = 1
        /\ sp' = sp - (Len(Auxv) + Len(args)) * WORD /\ UNCHANGED vmVars
        /\ UNCHANGED <<prog, args, base, at_phdr, oldrsp, procs>> /\ i \in Nat \ {0}
    BY Zenon DEF PushAuxv, Inv, Control
  <2>2. /\ base \in Nat /\ base # 0 /\ args \in Argvs /\ Len(args) \in Nat
        /\ i <= Len(args) + 1
        /\ sp = Top(base) - Size(args)[i - 1] /\ oldrsp = Top(base)
        /\ \A a \in base * PGSIZE .. sp - 1 : CellAt(a) = NoCell
        /\ \A k \in 1 .. i - 1 : StringAt(base, args, k) /\ Size(args)[k] <= Size(args)[i - 1]
    <3>1. args \in Argvs /\ i <= Len(args) + 1
      BY <2>1, Zenon DEF LoadInv, Loading
    <3> QED BY <3>1, <2>1, AreaFacts, SizeFacts, Zenon DEF LoadInv, Pushing
  <2>3. PICK b, argv, n, v : b = base /\ argv = args /\ n = Len(args) /\ v = Auxv
    BY Zenon
  <2>4. i - 1 = n /\ b \in Nat /\ argv \in Argvs /\ n \in Nat /\ n = Len(argv)
    <3>1. i - 1 = Len(args)
      BY <2>1, <2>2
    <3> QED BY <3>1, <2>2, <2>3, Zenon
  <2>5. PICK lo, s, r, top : Words(b, argv, lo, s, r, top)
    BY <2>4, <1>WordAddresses, Zenon
  <2>6. /\ lo \in Nat /\ s \in Nat /\ r \in Nat /\ top \in Nat
        /\ lo = b * PGSIZE /\ s = Top(b) - Size(argv)[n] /\ r = Room(b, argv) /\ top = Top(b)
        /\ s <= top /\ \A d \in 1 .. 11 : s - d * WORD \in lo .. s - 1
    BY <2>4, <2>5, Zenon DEF Words
  <2>7. sp = s
    BY <2>2, <2>3, <2>4, <2>6, Zenon
  <2>8. DOMAIN v = 1 .. 11 /\ Len(v) = 11 /\ Stored = (1 .. 11) \ {2}
    <3>1. DOMAIN Auxv = 1 .. 11 /\ Len(Auxv) = 11
      BY DEF Auxv
    <3> QED BY <3>1, <2>3, Zenon DEF Stored
  <2>9. PICK D : D = {s - d * WORD : d \in (1 .. 11) \ {2}}
    BY Zenon
  <2>10. PICK w : w = [a \in D |-> <<"word", v[(s - a) \div WORD]>>]
    BY Zenon
  <2>11. content' = Written(w)
    <3>1. content' = Written([a \in {sp - d * WORD : d \in Stored} |->
                             <<"word", Auxv[(sp - a) \div WORD]>>])
      BY Zenon DEF PushAuxv
    <3>2. content' = Written([a \in {s - d * WORD : d \in (1 .. 11) \ {2}} |->
                             <<"word", v[(s - a) \div WORD]>>])
      BY ONLY <3>1, <2>3, <2>7, <2>8, Zenon
    <3> QED BY ONLY <3>2, <2>9, <2>10, Zenon
  <2>12. D \subseteq lo .. s - 1 /\ DOMAIN w = D
    BY <2>6, <2>9, <2>10, Zenon
  <2>13. DOMAIN w \subseteq base * PGSIZE .. (base + Count) * PGSIZE - 1
    <3>1. base * PGSIZE = lo /\ (base + Count) * PGSIZE = top
      BY <2>1, <2>3, <2>6, Zenon DEF Count, Top
    <3>2. lo \in Nat /\ s \in Nat /\ top \in Nat /\ s <= top
      BY <2>6, Zenon
    <3>3. lo .. s - 1 \subseteq lo .. top - 1
      BY ONLY <3>2
    <3> QED BY <3>1, <3>3, <2>12, Zenon
  <2>14. /\ Keeps /\ DOMAIN content' \subseteq used'
         /\ \A a \in Nat : CellAt(a)' = IF a \in D THEN w[a] ELSE CellAt(a)
    <3>1. /\ Keeps /\ DOMAIN content' \subseteq used'
          /\ \A a \in Nat : CellAt(a)' = IF a \in DOMAIN w THEN w[a] ELSE CellAt(a)
      BY <2>1, <2>11, <2>13, WriteKeeps, Zenon DEF vmVars
    <3> QED BY <3>1, <2>12, Zenon
  <2>15. Frame' /\ Mapping' /\ Presence' /\ Loading' /\ Ready'
    <3>1. i' <= Len(args) + 1
      BY <2>1, <2>2
    <3> QED BY <3>1, <2>1, <2>14, <1>CopyCommon, Zenon
  <2>16. WORD \in Nat \ {0}
    BY ExecAssumption, Zenon
  <2>17. \A d \in 1 .. 11 : s - d * WORD \in Nat
    <3>1. \A a \in lo .. s - 1 : a \in Nat
      BY <2>6
    <3> QED BY <3>1, <2>6, Zenon
  <2>18. ASSUME NEW d \in 1 .. 11, d # 2
         PROVE  CellAt(s - d * WORD)' = <<"word", v[d]>>
    <3>1. PICK a : a = s - d * WORD
      BY Zenon
    <3>2. a \in D /\ a \in Nat
      BY <3>1, <2>9, <2>17, <2>18, Zenon
    <3>3. (s - a) \div WORD = d
      <4>1. s - a = d * WORD + 0
        BY ONLY <3>1, <2>6, <2>16, d \in 1 .. 11, SMTT(20)
      <4>2. d \in Int /\ 0 \in Int /\ 0 <= 0 /\ 0 < WORD
        BY <2>16
      <4>3. (d * WORD + 0) \div WORD = d
        BY <4>2, <2>16, DivUnique, Zenon
      <4> QED BY <4>1, <4>3, Zenon
    <3>4. w[a] = <<"word", v[(s - a) \div WORD]>>
      BY <3>2, <2>10, Zenon
    <3>5. CellAt(a)' = <<"word", v[d]>>
      BY <3>2, <3>3, <3>4, <2>14, Zenon
    <3> QED BY <3>1, <3>5, Zenon
  <2>19. CellAt(s - 2 * WORD)' = NoCell
    <3>1. PICK a : a = s - 2 * WORD
      BY Zenon
    <3>2. 2 \in 1 .. 11
      OBVIOUS
    <3>3. a \in lo .. s - 1 /\ a \in Nat
      BY <3>1, <3>2, <2>6, <2>17, Zenon
    <3>4. a \notin D
      <4> SUFFICES ASSUME NEW d \in (1 .. 11) \ {2}, a = s - d * WORD PROVE FALSE
        BY <2>9, Zenon
      <4>1. d * WORD = 2 * WORD
        BY <3>1, <2>6, <2>16, SMTT(20)
      <4>2. d = 2
        <5>1. d \in Int /\ d # 2
          OBVIOUS
        <5>2. d < 2 => d * WORD + WORD <= 2 * WORD
          BY <5>1, <2>16, Times, SMTT(20)
        <5>3. 2 < d => 2 * WORD + WORD <= d * WORD
          BY <5>1, <2>16, Times, SMTT(20)
        <5> QED BY ONLY <5>1, <5>2, <5>3, <4>1, <2>16, SMTT(20)
      <4> QED BY <4>2
    <3>5. CellAt(a) = NoCell
      BY <3>3, <2>2, <2>3, <2>6, <2>7, Zenon
    <3> QED BY <3>1, <3>3, <3>4, <3>5, <2>14, Zenon
  <2>20. ASSUME NEW k \in 1 .. n
         PROVE  StringAt(b, argv, k)' /\ Size(argv)[k] <= Size(argv)[n]
    <3>1. StringAt(b, argv, k) /\ Size(argv)[k] <= Size(argv)[n]
      BY <2>2, <2>3, <2>4, Zenon
    <3>2. \A a \in Nat : a >= s => CellAt(a)' = CellAt(a)
      <4>1. \A a \in Nat : a >= s => a \notin lo .. s - 1
        BY <2>6
      <4> QED BY <4>1, <2>12, <2>14, Zenon
    <3> QED BY <3>1, <3>2, <2>4, <2>5, <1>StringsKept, Zenon
  <2>21. Pointing'
    <3>1. base' = b /\ args' = argv /\ b # 0 /\ Len(argv) = n /\ Auxv' = v
      <4>1. Auxv' = Auxv
        BY <2>1, Zenon DEF Auxv, phdrs, AT_PHDR, AT_PHENT, AT_PHNUM, AT_ENTRY, PHENT
      <4> QED BY <4>1, <2>1, <2>2, <2>3, Zenon
    <3>2. sp' = Room(b, argv)
      <4>1. sp' = s - (11 + n) * WORD
        BY <2>1, <2>3, <2>7, <2>8, Zenon
      <4> QED BY <4>1, <2>4, <2>6, Zenon DEF Room
    <3>3. oldrsp' = Top(b) - Size(argv)[i' - 1]
      <4>1. i' - 1 = 0
        BY <2>1
      <4>2. Size(argv)[i' - 1] = 0
        BY <4>1, <2>4, SizeFacts, Zenon
      <4>3. oldrsp' = top /\ top - 0 = top
        <5>1. oldrsp' = top
          BY <2>1, <2>2, <2>3, <2>6, Zenon
        <5>2. top - 0 = top
          BY <2>6
        <5> QED BY <5>1, <5>2, Zenon
      <4> QED BY <4>2, <4>3, <2>6, Zenon
    <3>4. AuxvAt(b, argv, v)'
      BY <2>4, <2>6, <2>18, <2>19, Zenon DEF AuxvAt, NoCell
    <3>5. 1 .. i' - 1 = {}
      BY <2>1
    <3>6. AuxvAt(base, args, Auxv)'
      BY <3>1, <3>4, Zenon
    <3> QED BY <3>1, <3>2, <3>3, <3>5, <3>6, <2>20, Zenon DEF Pointing
  <2>22. Pushing'
    BY <2>1, Zenon DEF Pushing
  <2> QED BY <2>15, <2>21, <2>22, Zenon DEF LoadInv
\* What is on the stack stays there when a word below the auxiliary vector is
\* written.
<1>WordsKept.
  ASSUME NEW argv \in Argvs, NEW b \in Nat, NEW lo, NEW s, NEW r, NEW top,
         Words(b, argv, lo, s, r, top),
         NEW x \in Int, x < r + Len(argv) * WORD, \A a \in Nat : a # x => CellAt(a)' = CellAt(a)
  PROVE  /\ \A k \in 1 .. Len(argv) :
              StringAt(b, argv, k) /\ Size(argv)[k] <= Size(argv)[Len(argv)] => StringAt(b, argv, k)'
         /\ \A v : AuxvAt(b, argv, v) => AuxvAt(b, argv, v)'
         /\ \A k \in 1 .. Len(argv) :
              PointerAt(b, argv, k) /\ x # r + (k - 1) * WORD => PointerAt(b, argv, k)'
  <2> USE <1>WordsKept
  <2>1. /\ lo \in Nat /\ s \in Nat /\ r \in Nat
        /\ s = Top(b) - Size(argv)[Len(argv)] /\ r = Room(b, argv)
        /\ \A n \in 1 .. 11 : s - n * WORD \in lo .. s - 1 /\ s - n * WORD >= r + Len(argv) * WORD
        /\ \A k \in 1 .. Len(argv) : r + (k - 1) * WORD \in r .. s - 1
        /\ r + Len(argv) * WORD \in r .. s - 1
    BY Zenon DEF Words
  <2>2. PICK u : u = r + Len(argv) * WORD
    BY Zenon
  <2>3. u \in r .. s - 1 /\ x < u /\ \A n \in 1 .. 11 : s - n * WORD >= u
    BY <2>1, <2>2, Zenon
  <2>4. lo \in Nat /\ s \in Nat /\ r \in Nat
    BY <2>1, Zenon
  <2>5. \A a \in Nat : a >= s => CellAt(a)' = CellAt(a)
    <3>1. \A a \in Nat : a >= s => a # x
      BY ONLY <2>3, <2>4, x \in Int
    <3> QED BY <3>1, Zenon
  <2>6. \A k \in 1 .. Len(argv) :
          StringAt(b, argv, k) /\ Size(argv)[k] <= Size(argv)[Len(argv)] => StringAt(b, argv, k)'
    BY <2>5, <1>StringsKept, Zenon
  <2>7. ASSUME NEW n \in 1 .. 11 PROVE CellAt(s - n * WORD)' = CellAt(s - n * WORD)
    <3>1. PICK a : a = s - n * WORD
      BY Zenon
    <3>2. a \in lo .. s - 1 /\ a >= u
      BY <3>1, <2>1, <2>3, Zenon
    <3>3. a \in Nat /\ a # x
      BY ONLY <3>2, <2>3, <2>4, x \in Int
    <3>4. CellAt(a)' = CellAt(a)
      BY <3>3, Zenon
    <3> QED BY <3>1, <3>4, Zenon
  <2>8. ASSUME NEW v, AuxvAt(b, argv, v) PROVE AuxvAt(b, argv, v)'
    <3>1. 2 \in 1 .. 11
      OBVIOUS
    <3>2. /\ \A n \in 1 .. 11 : n # 2 => CellAt(s - n * WORD) = <<"word", v[n]>>
          /\ CellAt(s - 2 * WORD) = NoCell
      BY <2>1, <2>8, Zenon DEF AuxvAt
    <3>3. /\ \A n \in 1 .. 11 : n # 2 => CellAt(s - n * WORD)' = <<"word", v[n]>>
          /\ CellAt(s - 2 * WORD)' = NoCell
      BY <3>1, <3>2, <2>7, Zenon
    <3> QED BY <3>3, <2>1, Zenon DEF AuxvAt, NoCell
  <2>9. ASSUME NEW k \in 1 .. Len(argv), PointerAt(b, argv, k), x # r + (k - 1) * WORD
        PROVE  PointerAt(b, argv, k)'
    <3>1. PICK a : a = r + (k - 1) * WORD
      BY Zenon
    <3>2. a \in r .. s - 1 /\ a # x
      BY <3>1, <2>1, <2>9, Zenon
    <3>3. a \in Nat
      BY ONLY <3>2, <2>4
    <3>4. CellAt(a)' = CellAt(a)
      BY <3>2, <3>3, Zenon
    <3> QED BY <3>1, <3>4, <2>1, <2>9, Zenon DEF PointerAt
  <2> QED BY <2>6, <2>8, <2>9, Zenon
\* What holds before each step of the second loop.
<1>PointingFacts.
  ASSUME Inv, LoadInv, pc = "ptrs"
  PROVE  /\ base \in Nat /\ base # 0 /\ args \in Argvs /\ Len(args) \in Nat /\ todo = <<>>
         /\ i \in Nat \ {0} /\ i <= Len(args) + 1
         /\ sp = Room(base, args) /\ oldrsp = Top(base) - Size(args)[i - 1]
         /\ \A k \in 1 .. Len(args) : StringAt(base, args, k) /\ Size(args)[k] <= Size(args)[Len(args)]
         /\ AuxvAt(base, args, Auxv)
         /\ \A k \in 1 .. i - 1 : PointerAt(base, args, k)
  <2> USE <1>PointingFacts
  <2>1. args \in Argvs /\ i <= Len(args) + 1
    BY Zenon DEF LoadInv, Loading
  <2>2. i \in Nat \ {0} /\ todo = <<>>
    BY Zenon DEF Inv, Control
  <2> QED BY <2>1, <2>2, AreaFacts, SizeFacts, Zenon DEF LoadInv, Pointing
\* A turn of the second loop.
<1>PushPointerLoad. ASSUME Inv, LoadInv, PushPointer
                    PROVE  LoadInv'
  <2> USE <1>PushPointerLoad
  <2>1. /\ pc = "ptrs" /\ pc' = "ptrs" /\ i <= Len(args) /\ i' = i + 1
        /\ oldrsp' = oldrsp - args[i] - 1 /\ UNCHANGED vmVars
        /\ UNCHANGED <<prog, args, base, at_phdr, sp, procs>>
    BY Zenon DEF PushPointer
  <2>2. PICK b, argv, n, v : b = base /\ argv = args /\ n = i /\ v = Auxv
    BY Zenon
  <2>3. /\ b \in Nat /\ b # 0 /\ argv \in Argvs /\ Len(argv) \in Nat /\ n \in Nat \ {0} /\ n <= Len(argv)
        /\ todo = <<>> /\ sp = Room(b, argv) /\ oldrsp = Top(b) - Size(argv)[n - 1]
        /\ \A k \in 1 .. Len(argv) : StringAt(b, argv, k) /\ Size(argv)[k] <= Size(argv)[Len(argv)]
        /\ AuxvAt(b, argv, v)
        /\ \A k \in 1 .. n - 1 : PointerAt(b, argv, k)
    BY <2>1, <2>2, <1>PointingFacts, Zenon
  <2>4. n \in 1 .. Len(argv)
    BY <2>3
  <2>5. PICK lo, s, r, top : Words(b, argv, lo, s, r, top)
    BY <2>3, <1>WordAddresses, Zenon
  <2>6. PICK x : x = r + (n - 1) * WORD
    BY Zenon
  <2>7. /\ lo \in Nat /\ s \in Nat /\ r \in Nat /\ top \in Nat
        /\ lo = b * PGSIZE /\ r = Room(b, argv) /\ top = Top(b)
        /\ s <= top /\ lo + WORD <= r /\ x \in r .. s - 1 /\ x < r + Len(argv) * WORD
        /\ \A j \in 1 .. n - 1 : r + (j - 1) * WORD < x
    BY <2>4, <2>5, <2>6, Zenon DEF Words
  <2>8. x \in Nat /\ x \in lo .. top - 1
    <3>1. /\ lo \in Nat /\ s \in Nat /\ r \in Nat /\ top \in Nat /\ s <= top /\ lo + WORD <= r
          /\ x \in r .. s - 1 /\ WORD \in Nat
      BY <2>7, ExecAssumption, Zenon
    <3> QED BY ONLY <3>1
  <2>9. oldrsp' = Top(b) - Size(argv)[n]
    <3>1. PICK lo1, t, s1, m, top1 : Span(b, argv, n, lo1, t, s1, m, top1)
      BY <2>3, <2>4, <1>StringAddresses, Zenon
    <3>2. /\ t = Top(b) - Size(argv)[n] /\ s1 = Top(b) - Size(argv)[n - 1] /\ m = argv[n]
          /\ t = s1 - m - 1
      BY <3>1, Zenon DEF Span
    <3>3. oldrsp' = oldrsp - argv[n] - 1
      BY <2>1, <2>2, Zenon
    <3>4. oldrsp' = s1 - m - 1
      BY <3>2, <3>3, <2>3, Zenon
    <3> QED BY <3>2, <3>4, Zenon
  <2>10. PICK e, w : e = <<"word", HHDM * PGSIZE + (Top(b) - Size(argv)[n])>> /\ w = [a \in {x} |-> e]
    BY Zenon
  <2>11. content' = Written(w)
    <3>1. content' = Written([a \in {sp + (i - 1) * WORD} |-> <<"word", HHDM * PGSIZE + oldrsp'>>])
      BY Zenon DEF PushPointer
    <3>2. sp + (i - 1) * WORD = x
      BY <2>2, <2>3, <2>6, <2>7, Zenon
    <3>3. <<"word", HHDM * PGSIZE + oldrsp'>> = e
      BY <2>9, <2>10, Zenon
    <3> QED BY ONLY <3>1, <3>2, <3>3, <2>10, Zenon
  <2>12. DOMAIN w \subseteq base * PGSIZE .. (base + Count) * PGSIZE - 1
    <3>1. base * PGSIZE = lo /\ (base + Count) * PGSIZE = top
      BY <2>1, <2>2, <2>7, Zenon DEF Count, Top
    <3> QED BY <3>1, <2>8, <2>10, Zenon
  <2>13. /\ Keeps /\ DOMAIN content' \subseteq used'
         /\ \A a \in Nat : CellAt(a)' = IF a \in DOMAIN w THEN w[a] ELSE CellAt(a)
    BY <2>1, <2>11, <2>12, WriteKeeps, Zenon DEF vmVars
  <2>14. CellAt(x)' = e /\ \A a \in Nat : a # x => CellAt(a)' = CellAt(a)
    BY <2>8, <2>10, <2>13, Zenon
  <2>15. Frame' /\ Mapping' /\ Presence' /\ Loading' /\ Ready'
    <3>1. i' <= Len(args) + 1
      BY <2>1, <2>2, <2>3
    <3> QED BY <3>1, <2>1, <2>3, <2>13, <1>CopyCommon, Zenon
  <2>16. /\ \A k \in 1 .. Len(argv) : StringAt(b, argv, k)' /\ Size(argv)[k] <= Size(argv)[Len(argv)]
         /\ AuxvAt(b, argv, v)'
         /\ \A k \in 1 .. Len(argv) :
              PointerAt(b, argv, k) /\ x # r + (k - 1) * WORD => PointerAt(b, argv, k)'
    <3>1. x \in Int
      BY <2>8
    <3> QED BY <3>1, <2>3, <2>5, <2>7, <2>14, <1>WordsKept, Zenon
  <2>17. PointerAt(b, argv, n)'
    BY <2>6, <2>7, <2>10, <2>14, Zenon DEF PointerAt
  <2>18. ASSUME NEW k \in 1 .. n - 1 PROVE PointerAt(b, argv, k)'
    <3>1. k \in 1 .. Len(argv)
      BY <2>3
    <3>2. PICK y : y = r + (k - 1) * WORD
      BY Zenon
    <3>3. y < x /\ y \in r .. s - 1
      BY <3>1, <3>2, <2>5, <2>7, Zenon DEF Words
    <3>4. x # y
      BY ONLY <3>3, <2>8, <2>7
    <3> QED BY <3>1, <3>2, <3>4, <2>3, <2>16, Zenon
  <2>19. Pointing'
    <3>1. base' = b /\ args' = argv /\ sp' = Room(b, argv) /\ Auxv' = v
      <4>1. Auxv' = Auxv
        BY <2>1, Zenon DEF Auxv, phdrs, AT_PHDR, AT_PHENT, AT_PHNUM, AT_ENTRY, PHENT
      <4> QED BY <4>1, <2>1, <2>2, <2>3, Zenon
    <3>2. i' - 1 = n
      BY <2>1, <2>2, <2>3, SMTT(20)
    <3>3. \A k \in 1 .. n : PointerAt(b, argv, k)'
      <4>1. \A k \in 1 .. n : k \in 1 .. n - 1 \/ k = n
        BY <2>3
      <4> QED BY <4>1, <2>17, <2>18, Zenon
    <3>4. AuxvAt(base, args, Auxv)'
      BY <3>1, <2>16, Zenon
    <3> QED BY <3>1, <3>2, <3>3, <3>4, <2>3, <2>9, <2>16, Zenon DEF Pointing
  <2>20. Pushing'
    BY <2>1, Zenon DEF Pushing
  <2> QED BY <2>15, <2>19, <2>20, Zenon DEF LoadInv
\* The stack of the program that is started.
<1>StackIsReady. ASSUME Inv, LoadInv, Keeps, pc = "ptrs", pc' = "switch", UNCHANGED <<used, tops>>,
                        NEW k, NEW p, NEW argv, NEW b, NEW v, NEW rsp,
                        k = Len(tops), p = prog, argv = args, b = base, v = Auxv,
                        rsp = (STACKVA + STACKSIZE) * PGSIZE - (Top(b) - (Room(b, argv) - WORD)),
                        CellAt(Room(b, argv) - WORD)' = <<"word", Len(argv)>>,
                        \A a \in 1 .. Len(argv) : StringAt(b, argv, a)' /\ PointerAt(b, argv, a)',
                        AuxvAt(b, argv, v)'
                 PROVE  StackReady(k, p, argv, rsp)'
  <2> USE <1>StackIsReady
  <2>1. /\ b # 0 /\ b \in Frames /\ b \in Nat /\ p \in DOMAIN Programs /\ todo = <<>>
        /\ \A f \in b .. b + STACKSIZE - 1 : f \in used
    <3>1. Count = STACKSIZE
      BY Zenon DEF Count
    <3> QED BY <3>1, AreaFacts, <1>PointingFacts, Zenon DEF LoadInv, Frame
  <2>2. STACKSIZE \in Nat
    BY ExecAssumption, Zenon
  <2>3. Placed(k, b, STACKSIZE, STACKVA, {"RW", "USER"})'
    <3>1. MappedPages = STACKSIZE
      <4>1. Len(todo) = 0
        BY <2>1
      <4>2. STACKSIZE - 0 = STACKSIZE
        BY <2>2
      <4> QED BY <4>1, <4>2, Zenon DEF MappedPages, Count
    <3>2. AreaVa = STACKVA /\ AreaFlags = {"RW", "USER"}
      BY Zenon DEF AreaVa, AreaFlags
    <3>3. \A d \in 0 .. STACKSIZE - 1 : Maps(k, STACKVA + d, Entry(b + d, {"RW", "USER"}))'
      BY <3>1, <3>2, AreaStays, Zenon
    <3>4. \A d \in 0 .. STACKSIZE - 1 : b + d \in b .. b + STACKSIZE - 1
      BY <2>1, <2>2
    <3>5. \A d \in 0 .. STACKSIZE - 1 : Settled(b + d)'
      BY <3>4, <2>1, Zenon DEF Settled
    <3> QED BY <3>3, <3>5, Zenon DEF Placed
  <2>4. PICK ap : ap = at_phdr
    BY Zenon
  <2>5. v = AuxvOf(p, ap)
    BY <2>4, Zenon DEF Auxv, AuxvOf, phdrs
  <2>6. \A j \in DOMAIN Programs[p].phdrs :
          Programs[p].phdrs[j].type = "PT_PHDR" => ap = Programs[p].phdrs[j].vaddr
    <3>1. \A j \in 1 .. Len(Programs[p].phdrs) :
            Programs[p].phdrs[j].type = "PT_PHDR" => ap = Programs[p].phdrs[j].vaddr
      BY <2>4, Zenon DEF LoadInv, Loading, Handled, phdrs
    <3>2. Programs[p].phdrs \in Seq(Phdr)
      BY <2>1, ExecAssumption, Zenon
    <3>3. DOMAIN Programs[p].phdrs = 1 .. Len(Programs[p].phdrs)
      <4> PICK q : q = Programs[p].phdrs
        BY Zenon
      <4>1. q \in Seq(Phdr)
        BY <3>2, Zenon
      <4>2. DOMAIN q = 1 .. Len(q)
        BY ONLY <4>1
      <4> QED BY <4>2, Zenon
    <3> QED BY <3>1, <3>3, Zenon
  <2>7. AuxvAt(b, argv, AuxvOf(p, ap))'
    BY <2>5, Zenon
  <2>8. /\ rsp = (STACKVA + STACKSIZE) * PGSIZE - (Top(b) - (Room(b, argv) - WORD))
        /\ CellAt(Room(b, argv) - WORD)' = <<"word", Len(argv)>>
        /\ \A a \in 1 .. Len(argv) : StringAt(b, argv, a)' /\ PointerAt(b, argv, a)'
    BY Zenon
  <2> QED BY ONLY <2>1, <2>3, <2>6, <2>7, <2>8, Zenon DEF StackReady, Frames
\* argc; the program is ready.
<1>PushArgcLoad. ASSUME Inv, LoadInv, PushArgc
                 PROVE  LoadInv'
  <2> USE <1>PushArgcLoad
  <2>1. /\ pc = "ptrs" /\ pc' = "switch" /\ i > Len(args) /\ sp' = sp - WORD /\ UNCHANGED vmVars
        /\ UNCHANGED <<prog, args, base, at_phdr, i>>
    BY Zenon DEF PushArgc
  <2>2. PICK k, p, b, argv, v : k = Len(tops) /\ p = prog /\ b = base /\ argv = args /\ v = Auxv
    BY Zenon
  <2>3. /\ b \in Nat /\ argv \in Argvs /\ Len(argv) \in Nat
        /\ todo = <<>> /\ sp = Room(b, argv)
        /\ \A a \in 1 .. Len(argv) : StringAt(b, argv, a) /\ Size(argv)[a] <= Size(argv)[Len(argv)]
        /\ AuxvAt(b, argv, v)
        /\ \A a \in 1 .. Len(argv) : PointerAt(b, argv, a)
    <3>1. i - 1 = Len(args)
      BY <2>1, <1>PointingFacts, SMTT(20)
    <3> QED BY <3>1, <2>1, <2>2, <1>PointingFacts, Zenon
  <2>4. PICK lo, s, r, top : Words(b, argv, lo, s, r, top)
    BY <2>3, <1>WordAddresses, Zenon
  <2>5. PICK x : x = r - WORD
    BY Zenon
  <2>6. /\ lo \in Nat /\ s \in Nat /\ r \in Nat /\ top \in Nat
        /\ lo = b * PGSIZE /\ r = Room(b, argv) /\ top = Top(b)
        /\ s <= top /\ lo + WORD <= r /\ r + Len(argv) * WORD \in r .. s - 1
        /\ \A a \in 1 .. Len(argv) : r + (a - 1) * WORD \in r .. s - 1
    BY <2>4, Zenon DEF Words
  <2>7. /\ x \in Nat /\ x \in Int /\ x \in lo .. top - 1 /\ x < r + Len(argv) * WORD
        /\ \A a \in r .. s - 1 : x # a
    <3>1. PICK u : u = r + Len(argv) * WORD
      BY Zenon
    <3>2. /\ lo \in Nat /\ s \in Nat /\ r \in Nat /\ top \in Nat /\ s <= top /\ lo + WORD <= r
          /\ u \in r .. s - 1 /\ WORD \in Nat \ {0}
      BY <3>1, <2>6, ExecAssumption, Zenon
    <3>3. /\ x \in Nat /\ x \in Int /\ x \in lo .. top - 1 /\ x < u
          /\ \A a \in r .. s - 1 : x # a
      BY ONLY <3>2, <2>5
    <3> QED BY <3>1, <3>3, Zenon
  <2>8. sp' = x /\ x = Room(b, argv) - WORD
    BY <2>1, <2>3, <2>5, <2>6, Zenon
  <2>9. PICK e, w : e = <<"word", Len(argv)>> /\ w = [a \in {x} |-> e]
    BY Zenon
  <2>10. content' = Written(w)
    <3>1. content' = Written([a \in {sp'} |-> <<"word", Len(args)>>])
      BY Zenon DEF PushArgc
    <3> QED BY ONLY <3>1, <2>2, <2>8, <2>9, Zenon
  <2>11. DOMAIN w \subseteq base * PGSIZE .. (base + Count) * PGSIZE - 1
    <3>1. base * PGSIZE = lo /\ (base + Count) * PGSIZE = top
      BY <2>1, <2>2, <2>6, Zenon DEF Count, Top
    <3> QED BY <3>1, <2>7, <2>9, Zenon
  <2>12. /\ Keeps /\ DOMAIN content' \subseteq used'
         /\ \A a \in Nat : CellAt(a)' = IF a \in DOMAIN w THEN w[a] ELSE CellAt(a)
    BY <2>1, <2>10, <2>11, WriteKeeps, Zenon DEF vmVars
  <2>13. CellAt(x)' = e /\ \A a \in Nat : a # x => CellAt(a)' = CellAt(a)
    BY <2>7, <2>9, <2>12, Zenon
  <2>14. /\ \A a \in 1 .. Len(argv) : StringAt(b, argv, a)' /\ PointerAt(b, argv, a)'
         /\ AuxvAt(b, argv, v)'
    BY <2>3, <2>4, <2>6, <2>7, <2>13, <1>WordsKept, Zenon
  <2>15. PICK rsp, rip : /\ rsp = (STACKVA + STACKSIZE) * PGSIZE - (Top(b) - (Room(b, argv) - WORD))
                         /\ rip = Programs[p].entry
    BY Zenon
  <2>16. ProcReady(k, p, argv, rsp, rip)'
    <3>1. CellAt(Room(b, argv) - WORD)' = <<"word", Len(argv)>>
      BY <2>8, <2>9, <2>13, Zenon
    <3>2. StackReady(k, p, argv, rsp)'
      BY <3>1, <2>1, <2>2, <2>12, <2>14, <2>15, <1>StackIsReady, Zenon DEF vmVars
    <3>3. p \in DOMAIN Programs /\ k \in UserMaps'
      <4>1. tops # <<>> /\ Len(tops) > 1 /\ prog \in DOMAIN Programs
        BY <2>1, Zenon DEF Inv, Control
      <4>2. k \in UserMaps
        BY <4>1, <2>2, Newest, Zenon
      <4> QED BY <4>1, <4>2, <2>1, <2>2, Zenon DEF UserMaps, vmVars
    <3>4. \A j \in Loadable(Programs[p].phdrs) : SegLoaded(k, p, j)'
      <4>1. \A j \in Loadable(phdrs) : j <= Handled => SegLoaded(Len(tops), prog, j)'
        BY <2>1, <2>12, SegsStay, Zenon DEF vmVars
      <4>2. \A j \in Loadable(phdrs) : j <= Handled
        <5>1. phdrs \in Seq(Phdr) /\ Handled = Len(phdrs)
          BY <3>3, <2>1, <2>2, ExecAssumption, Zenon DEF phdrs, Handled
        <5>2. \A j \in DOMAIN phdrs : j <= Len(phdrs)
          BY <5>1
        <5> QED BY <5>1, <5>2, Zenon DEF Loadable
      <4>3. Len(tops') = k /\ prog' = p
        BY <2>1, <2>2, Zenon DEF vmVars
      <4> QED BY <4>1, <4>2, <4>3, <2>2, Zenon DEF phdrs
    <3> QED BY <3>2, <3>3, <3>4, <2>3, <2>15, Zenon DEF ProcReady
  <2>17. PICK rec : rec = [map |-> k, prog |-> p, args |-> argv, rip |-> rip, kstack |-> -1, rsp |-> rsp]
    BY Zenon
  <2>18. procs' = Append(procs, rec)
    <3>1. procs' = Append(procs, [map |-> Len(tops), prog |-> prog, args |-> args,
                               rip |-> Programs[prog].entry, kstack |-> -1,
                               rsp |-> (STACKVA + STACKSIZE) * PGSIZE
                                         - ((base + STACKSIZE) * PGSIZE - sp')])
      BY Zenon DEF PushArgc
    <3>2. rsp = (STACKVA + STACKSIZE) * PGSIZE - ((base + STACKSIZE) * PGSIZE - sp')
      BY <2>2, <2>8, <2>15, Zenon DEF Top
    <3> QED BY ONLY <3>1, <3>2, <2>2, <2>15, <2>17, Zenon
  <2>19. rec \in ProcRecord
    <3>1. rsp \in Int
      <4>1. PGSIZE \in Nat /\ STACKVA \in Nat /\ STACKSIZE \in Nat
        BY ExecAssumption, Zenon
      <4>2. PICK y : y = (STACKVA + STACKSIZE) * PGSIZE
        BY Zenon
      <4>3. y \in Int
        BY ONLY <4>1, <4>2, SMTT(20)
      <4>4. rsp = y - (top - x)
        BY <4>2, <2>6, <2>8, <2>15, Zenon
      <4> QED BY ONLY <4>3, <4>4, <2>6, <2>7, SMTT(20)
    <3>2. k \in Nat
      BY <2>2 DEF Inv, Tops
    <3>3. p \in DOMAIN Programs /\ rip \in {Programs[q].entry : q \in DOMAIN Programs}
      <4>1. p \in DOMAIN Programs
        BY <2>1, <2>2, Zenon DEF Inv, Control
      <4> QED BY <4>1, <2>15, Zenon
    <3>4. -1 \in Int
      BY ONLY SMT
    <3> QED BY <3>1, <3>2, <3>3, <3>4, <2>3, <2>17, Zenon DEF ProcRecord
  <2>20. Ready'
    <3>1. procs \in Seq(ProcRecord)
      BY Zenon DEF LoadInv, Ready
    <3>2. /\ procs' \in Seq(ProcRecord) /\ DOMAIN procs' = DOMAIN procs \cup {Len(procs) + 1}
          /\ procs'[Len(procs) + 1] = rec /\ \A q \in DOMAIN procs : procs'[q] = procs[q]
      BY ONLY <3>1, <2>18, <2>19, SMTT(20)
    <3>3. ASSUME NEW q \in DOMAIN procs'
          PROVE  ProcReady(procs[q].map, procs[q].prog, procs[q].args, procs[q].rsp, procs[q].rip)'
      <4>1. PICK k1, p1, argv1, rsp1, rip1 :
              /\ k1 = procs'[q].map /\ p1 = procs'[q].prog /\ argv1 = procs'[q].args
              /\ rsp1 = procs'[q].rsp /\ rip1 = procs'[q].rip
        BY Zenon
      <4>2. CASE q \in DOMAIN procs
        <5>1. procs'[q] = procs[q]
          BY <3>2, <4>2, Zenon
        <5>2. ProcReady(k1, p1, argv1, rsp1, rip1)
          BY <4>1, <4>2, <5>1, Zenon DEF LoadInv, Ready
        <5>3. ProcReady(k1, p1, argv1, rsp1, rip1)'
          BY <5>2, <2>12, ProcStays, Zenon
        <5> QED BY <4>1, <5>3, Zenon
      <4>3. CASE q = Len(procs) + 1
        <5>1. procs'[q] = rec
          BY <3>2, <4>3, Zenon
        <5>2. k1 = k /\ p1 = p /\ argv1 = argv /\ rsp1 = rsp /\ rip1 = rip
          <6>1. rec.map = k /\ rec.prog = p /\ rec.args = argv /\ rec.rsp = rsp /\ rec.rip = rip
            BY ONLY <2>17
          <6> QED BY <6>1, <5>1, <4>1, Zenon
        <5> QED BY <5>2, <4>1, <2>16, Zenon
      <4> QED BY <4>2, <4>3, <3>2, Zenon
    <3> QED BY <3>2, <3>3, Zenon DEF Ready, ProcRecord
  <2>21. Frame'
    BY <2>1, <2>12, Zenon DEF LoadInv, Frame, vmVars
  <2>22. Mapping' /\ Presence' /\ Loading' /\ Pushing' /\ Pointing'
    BY <2>1, Zenon DEF Mapping, Presence, Loading, Pushing, Pointing
  <2> QED BY <2>20, <2>21, <2>22, Zenon DEF LoadInv
<1> QED BY <1>CopyStringLoad, <1>PushAuxvLoad, <1>PushPointerLoad, <1>PushArgcLoad, Zenon

-----------------------------------------------------------------------------
(* loadelf                                                                 *)

\* Allocating and reading the segments, and allocating the stack, keep the invariant.
LEMMA AreasLoad ==
  Inv /\ LoadInv /\ (PtLoad \/ ReadSegment \/ OtherPhdr \/ Stack) => LoadInv'
\* palloc() of an area.
<1>AllocKeeps. ASSUME pc' \in {"read", "args"}, UNCHANGED content,
                      NEW p, NEW n, NEW va, NEW fl, AllocAndMap(p, n, va, fl), base' = p, Count' = n
               PROVE  Keeps
  <2> USE <1>AllocKeeps
  <2>1. /\ UNCHANGED <<mem, tops>> /\ used' = used \cup p .. p + n - 1
        /\ \A f \in p .. p + n - 1 : f \notin used
    BY Zenon DEF AllocAndMap, palloc, IsRun
  <2>2. ASSUME NEW f, Settled(f) PROVE Settled(f)'
    BY <2>1, <2>2, Zenon DEF Settled
  <2>3. \A a : CellAt(a)' = CellAt(a)
    BY Zenon DEF CellAt, Cell, NoCell
  <2>4. Grown
    BY <2>1, Zenon DEF Grown
  <2> QED BY <2>1, <2>2, <2>3, <2>4, Zenon DEF Keeps
\* palloc() and mappages() of an area.
<1>AllocLoad. ASSUME Inv, LoadInv, pc = "phdrs", pc' \in {"read", "args"},
                     NEW p \in Frames, NEW n \in Nat, NEW va \in Nat, NEW fl, AllocAndMap(p, n, va, fl),
                     base' = p, Count' = n, AreaVa' = va, AreaFlags' = fl, Handled' = Handled,
                     UNCHANGED <<prog, args, at_phdr, content, procs>>
              PROVE  /\ Keeps /\ Frame' /\ Mapping' /\ Presence' /\ Ready'
                     /\ \A j \in Loadable(phdrs) : j <= Handled => SegLoaded(Len(tops), prog, j)'
  <2> USE <1>AllocLoad
  <2>1. Keeps
    BY <1>AllocKeeps, Zenon
  <2>2. /\ used' = used \cup p .. p + n - 1 /\ UNCHANGED <<mem, tops, level, cur>>
        /\ todo' = [j \in 1 .. n |-> [va |-> va + j - 1, pa |-> p + j - 1, flags |-> fl]]
    BY Zenon DEF AllocAndMap
  <2>3. todo = <<>> /\ tops # <<>> /\ level = 4
    BY Zenon DEF Inv, Control, Walking
  <2>4. Frame'
    BY <2>2, Zenon DEF LoadInv, Frame
  <2>5. p \in Nat
    BY DEF Frames
  <2>6. /\ Len(todo') = n /\ DOMAIN todo' = 1 .. n
        /\ \A d \in 1 .. n : todo'[d] = [va |-> va + d - 1, pa |-> p + d - 1, flags |-> fl]
    BY ONLY <2>2, n \in Nat, SMTT(20)
  <2>7. MappedPages' = 0
    BY <2>6 DEF MappedPages
  <2>8. Mapping'
    <3>1. ASSUME NEW d \in DOMAIN todo'
          PROVE  todo'[d] = [va |-> AreaVa' + MappedPages' + d - 1, pa |-> base' + MappedPages' + d - 1,
                             flags |-> AreaFlags']
      <4>1. va + d - 1 = va + 0 + d - 1 /\ p + d - 1 = p + 0 + d - 1
        BY ONLY <2>5, <2>6, d \in DOMAIN todo', va \in Nat, n \in Nat, SMTT(20)
      <4>2. todo'[d] = [va |-> va + d - 1, pa |-> p + d - 1, flags |-> fl]
        BY <2>6, Zenon
      <4>3. todo'[d] = [va |-> va + 0 + d - 1, pa |-> p + 0 + d - 1, flags |-> fl]
        BY ONLY <4>1, <4>2, Zenon
      <4> QED BY <4>3, <2>7, Zenon
    <3>2. OnWay(Len(tops), Head(todo).va)'
      <4>1. level' = 4 /\ cur' = tops'[Len(tops')]
        BY <2>2, <2>3, Zenon DEF LoadInv, Frame
      <4> QED BY <4>1 DEF OnWay
    <3>3. Len(todo') <= Count'
      BY <2>6
    <3>4. 0 .. MappedPages' - 1 = {}
      BY <2>7
    <3> QED BY <3>1, <3>2, <3>3, <3>4, Zenon DEF Mapping
  <2>9. Presence'
    <3> SUFFICES ASSUME NEW v \in 0 .. Pages4 - 1, Index(v, 4) \in Lower, Present(Len(tops), v)'
                 PROVE  \E j \in 1 .. Handled' : phdrs'[j].type = "PT_LOAD" /\ v \in Area(phdrs'[j])
      BY Zenon DEF Presence, Area
    <3>1. PICK k : k = Len(tops)
      BY Zenon
    <3>2. Present(k, v)'
      BY <3>1, <2>2, Zenon
    <3>3. Present(k, v)
      BY <3>2, <2>2, SameMap, Zenon
    <3>4. \E j \in 1 .. Handled : phdrs[j].type = "PT_LOAD" /\ v \in Area(phdrs[j])
      BY <3>1, <3>3, Zenon DEF LoadInv, Presence
    <3>5. phdrs' = phdrs
      BY Zenon DEF phdrs
    <3> QED BY <3>4, <3>5, Zenon
  <2>10. Ready'
    <3>1. procs' \in Seq(ProcRecord)
      BY Zenon DEF LoadInv, Ready
    <3> QED BY <3>1, <2>1, ReadyStays, Zenon DEF LoadInv
  <2>11. \A j \in Loadable(phdrs) : j <= Handled => SegLoaded(Len(tops), prog, j)'
    BY <2>1, <2>2, SegsStay, Zenon
  <2> QED BY <2>1, <2>4, <2>8, <2>9, <2>10, <2>11, Zenon
\* A PT_LOAD header.
<1>PtLoadLoad. ASSUME Inv, LoadInv, PtLoad
               PROVE  LoadInv'
  <2> USE <1>PtLoadLoad
  <2>1. /\ pc = "phdrs" /\ pc' = "read" /\ i <= Len(phdrs) /\ phdrs[i].type = "PT_LOAD"
        /\ UNCHANGED <<prog, args, i, at_phdr, content, procs>>
        /\ prog \in DOMAIN Programs /\ i \in Nat \ {0}
    BY Zenon DEF PtLoad, Inv, Control
  <2>2. i \in DOMAIN Programs[prog].phdrs
    BY <2>1, PhdrAt, Zenon
  <2>3. PICK n, va, fl, ph : /\ n = NPages(ph) /\ va = First(ph) /\ fl = SegFlags(ph) /\ ph = phdrs[i]
    BY Zenon
  <2>4. n \in Nat /\ va \in Nat
    BY <2>1, <2>2, <2>3, PhdrFacts, Zenon DEF phdrs
  <2>5. PICK p \in Frames : AllocAndMap(p, n, va, fl) /\ base' = p
    BY <2>3, Zenon DEF PtLoad, NPages, First
  <2>6. phdrs' = phdrs
    BY <2>1, Zenon DEF phdrs
  <2>7. Count' = n /\ AreaVa' = va /\ AreaFlags' = fl /\ Handled' = Handled
    BY <2>1, <2>3, <2>6, Zenon DEF Count, AreaVa, AreaFlags, Handled, NPages, First, SegFlags, DIV_ROUNDUP
  <2>8. /\ Frame' /\ Mapping' /\ Presence' /\ Ready'
        /\ \A j \in Loadable(phdrs) : j <= Handled => SegLoaded(Len(tops), prog, j)'
    BY <2>1, <2>4, <2>5, <2>7, <1>AllocLoad, Zenon
  <2>9. Loading'
    <3>1. /\ \A j \in 1 .. Handled : phdrs[j].type = "PT_PHDR" => at_phdr = phdrs[j].vaddr
          /\ args \in Argvs /\ i <= Len(phdrs) + 1
      BY <2>1, Zenon DEF LoadInv, Loading
    <3> QED BY <3>1, <2>1, <2>6, <2>7, <2>8, Zenon DEF Loading, Loadable, PagesOf
  <2>10. Pushing' /\ Pointing'
    BY <2>1, Zenon DEF Pushing, Pointing
  <2> QED BY <2>8, <2>9, <2>10, Zenon DEF LoadInv
\* A header of another type.
<1>OtherPhdrLoad. ASSUME Inv, LoadInv, OtherPhdr
                  PROVE  LoadInv'
  <2> USE <1>OtherPhdrLoad
  <2>1. /\ pc = "phdrs" /\ pc' = "phdrs" /\ i <= Len(phdrs) /\ phdrs[i].type # "PT_LOAD"
        /\ i' = i + 1 /\ at_phdr' = IF phdrs[i].type = "PT_PHDR" THEN phdrs[i].vaddr ELSE at_phdr
        /\ UNCHANGED <<used, mem, tops, todo, level, cur, prog, args, base, content, procs>>
        /\ prog \in DOMAIN Programs /\ i \in Nat \ {0}
    BY Zenon DEF OtherPhdr, vmVars, Inv, Control
  <2>2. i \in DOMAIN Programs[prog].phdrs /\ i \in DOMAIN phdrs
    BY <2>1, PhdrAt, Zenon
  <2>3. /\ phdrs' = phdrs /\ Handled = i - 1 /\ Handled' = i
    <3>1. i' - 1 = i
      BY <2>1
    <3>2. phdrs' = phdrs /\ Handled = i - 1 /\ Handled' = i' - 1
      BY <2>1, Zenon DEF phdrs, Handled
    <3> QED BY <3>1, <3>2, Zenon
  <2>4. Grown
    BY <2>1, Zenon DEF Grown
  <2>5. Keeps
    BY <2>1, <2>4, QuietKeeps, Zenon
  <2>6. Frame'
    BY <2>1, Zenon DEF LoadInv, Frame
  <2>7. \A j \in 1 .. i : j \in 1 .. i - 1 \/ j = i
    BY <2>1
  <2>8. \A j \in 1 .. i - 1 : j \in 1 .. i
    BY <2>1
  <2>9. Presence'
    <3> SUFFICES ASSUME NEW v \in 0 .. Pages4 - 1, Index(v, 4) \in Lower, Present(Len(tops), v)'
                 PROVE  \E j \in 1 .. i : phdrs[j].type = "PT_LOAD" /\ v \in Area(phdrs[j])
      BY <2>3, Zenon DEF Presence, Area
    <3>1. PICK k : k = Len(tops)
      BY Zenon
    <3>2. Present(k, v)'
      BY <3>1, <2>1, Zenon
    <3>3. Present(k, v)
      BY <3>2, <2>1, SameMap, Zenon
    <3>4. \E j \in 1 .. i - 1 : phdrs[j].type = "PT_LOAD" /\ v \in Area(phdrs[j])
      BY <3>1, <3>3, <2>1, <2>3, Zenon DEF LoadInv, Presence
    <3> QED BY <3>4, <2>8, Zenon
  <2>10. Loading'
    <3>1. /\ \A j \in 1 .. i - 1 : phdrs[j].type = "PT_PHDR" => at_phdr = phdrs[j].vaddr
          /\ args \in Argvs
      BY <2>1, <2>3, Zenon DEF LoadInv, Loading
    <3>2. \A j \in Loadable(phdrs) : j <= i - 1 => SegLoaded(Len(tops), prog, j)'
      BY <2>1, <2>3, <2>5, SegsStay, Zenon
    <3>3. ASSUME NEW j \in Loadable(phdrs), j <= i PROVE SegLoaded(Len(tops), prog, j)'
      <4>1. phdrs \in Seq(Phdr)
        BY <2>1, ExecAssumption, Zenon DEF phdrs
      <4>2. j \in DOMAIN phdrs /\ j # i
        BY <2>1, Zenon DEF Loadable
      <4>3. \A m \in DOMAIN phdrs : m \in Int
        BY ONLY <4>1
      <4>4. j \in Int /\ i \in Int
        BY <4>2, <4>3, <2>2, Zenon
      <4>5. j <= i - 1
        BY ONLY <4>2, <4>4, j <= i
      <4> QED BY <4>5, <3>2, Zenon
    <3>4. ASSUME NEW j \in 1 .. i, phdrs[j].type = "PT_PHDR" PROVE at_phdr' = phdrs[j].vaddr
      <4>1. CASE j = i
        BY <4>1, <3>4, <2>1, Zenon
      <4>2. CASE j \in 1 .. i - 1
        <5>1. j \in DOMAIN phdrs /\ j # i
          <6>1. phdrs \in Seq(Phdr)
            BY <2>1, ExecAssumption, Zenon DEF phdrs
          <6> QED BY <6>1, <4>2, <2>1
        <5>2. phdrs[i].type # "PT_PHDR"
          BY <5>1, <3>4, <2>1, <2>2, ImageAssumption, Zenon DEF phdrs
        <5> QED BY <5>2, <4>2, <3>1, <3>4, <2>1, Zenon
      <4> QED BY <4>1, <4>2, <2>7, Zenon
    <3>5. i' <= Len(phdrs) + 1
      <4>1. Len(phdrs) \in Nat
        <5>1. phdrs \in Seq(Phdr)
          BY <2>1, ExecAssumption, Zenon DEF phdrs
        <5> QED BY ONLY <5>1
      <4> QED BY <4>1, <2>1
    <3> QED BY <3>1, <3>3, <3>4, <3>5, <2>1, <2>3, Zenon DEF Loading, Loadable, PagesOf
  <2>11. Ready'
    <3>1. procs' \in Seq(ProcRecord)
      BY <2>1, Zenon DEF LoadInv, Ready
    <3> QED BY <3>1, <2>1, <2>5, ReadyStays, Zenon DEF LoadInv
  <2>12. Mapping' /\ Pushing' /\ Pointing'
    BY <2>1, Zenon DEF Mapping, Pushing, Pointing
  <2> QED BY <2>6, <2>9, <2>10, <2>11, <2>12, Zenon DEF LoadInv
\* The stack.
<1>StackLoad. ASSUME Inv, LoadInv, Stack
              PROVE  LoadInv'
  <2> USE <1>StackLoad
  <2>1. /\ pc = "phdrs" /\ pc' = "args" /\ i > Len(phdrs) /\ i' = 1
        /\ UNCHANGED <<prog, args, at_phdr, content, procs>>
        /\ prog \in DOMAIN Programs /\ i \in Nat \ {0} /\ tops # <<>>
    BY Zenon DEF Stack, Inv, Control
  <2>2. PICK p \in Frames :
          /\ AllocAndMap(p, STACKSIZE, STACKVA, {"RW", "USER"})
          /\ base' = p /\ sp' = Top(p) /\ oldrsp' = sp'
    BY Zenon DEF Stack, Top
  <2>3. phdrs' = phdrs /\ args \in Argvs
    BY <2>1, Zenon DEF phdrs, LoadInv, Loading
  <2>4. Handled' = Handled /\ Handled = Len(phdrs)
    <3>1. Handled = i - 1 /\ Handled' = Len(phdrs)
      BY <2>1, <2>3, Zenon DEF Handled
    <3>2. Len(phdrs) \in Nat
      <4>1. phdrs \in Seq(Phdr)
        BY <2>1, ExecAssumption, Zenon DEF phdrs
      <4> QED BY ONLY <4>1
    <3>3. i <= Len(phdrs) + 1
      BY <2>1, Zenon DEF LoadInv, Loading
    <3>4. i - 1 = Len(phdrs)
      BY ONLY <3>2, <3>3, <2>1
    <3> QED BY <3>1, <3>4, Zenon
  <2>5. /\ Count' = STACKSIZE /\ AreaVa' = STACKVA /\ AreaFlags' = {"RW", "USER"}
        /\ STACKSIZE \in Nat /\ STACKVA \in Nat
    BY <2>1, ExecAssumption, Zenon DEF Count, AreaVa, AreaFlags
  <2>6. /\ Frame' /\ Mapping' /\ Presence' /\ Ready'
        /\ \A j \in Loadable(phdrs) : j <= Handled => SegLoaded(Len(tops), prog, j)'
    BY <2>1, <2>2, <2>4, <2>5, <1>AllocLoad, Zenon
  <2>7. Loading'
    <3>1. \A j \in 1 .. Handled : phdrs[j].type = "PT_PHDR" => at_phdr = phdrs[j].vaddr
      BY <2>1, Zenon DEF LoadInv, Loading
    <3>2. i' <= Len(args) + 1
      <4>1. Len(args) \in Nat
        BY <2>3, SizeFacts, Zenon
      <4> QED BY <4>1, <2>1
    <3> QED BY <3>1, <3>2, <2>1, <2>3, <2>4, <2>6, Zenon DEF Loading, Loadable, PagesOf
  <2>8. \A f \in p .. p + STACKSIZE - 1 : f \notin used
    BY <2>2, Zenon DEF AllocAndMap, palloc, IsRun
  <2>9. p \in Nat
    BY DEF Frames
  <2>10. p # 0
    <3>1. STACKSIZE > 0
      BY <2>3, <2>9, StackAddresses, Zenon
    <3>2. p \in p .. p + STACKSIZE - 1
      BY ONLY <3>1, <2>5, <2>9
    <3> QED BY <3>2, <2>1, <2>8, Zenon DEF LoadInv, Frame
  <2>11. ASSUME NEW a \in p * PGSIZE .. sp' - 1 PROVE CellAt(a)' = NoCell
    <3>1. a \in p * PGSIZE .. (p + STACKSIZE) * PGSIZE - 1
      BY <2>2, Zenon DEF Top
    <3>2. a \div PGSIZE \in p .. p + STACKSIZE - 1
      BY <3>1, <2>5, <2>9, FrameOf, Zenon
    <3>3. a \div PGSIZE \notin DOMAIN content'
      BY <3>2, <2>1, <2>8, Zenon DEF LoadInv, Frame
    <3> QED BY <3>3, Zenon DEF CellAt, Cell, NoCell
  <2>12. sp' = Top(base') - Size(args')[i' - 1]
    <3>1. i' - 1 = 0 /\ Size(args)[0] = 0
      BY <2>1, <2>3, SizeFacts, SMTT(20)
    <3>2. Top(p) \in Int
      BY <2>5, <2>9, ExecAssumption, SMTT(20) DEF Top
    <3>3. Top(p) = Top(p) - 0
      BY ONLY <3>2
    <3> QED BY <3>1, <3>3, <2>1, <2>2, Zenon
  <2>13. \A k \in 1 .. i' - 1 : FALSE
    BY <2>1
  <2>14. Pushing'
    <3>1. Size(args)' = Size(args') /\ Top(base)' = Top(base')
      BY Zenon DEF Size, Top
    <3> QED BY <3>1, <2>1, <2>2, <2>10, <2>11, <2>12, <2>13, Zenon DEF Pushing
  <2>15. Pointing'
    BY <2>1, Zenon DEF Pointing
  <2> QED BY <2>6, <2>7, <2>14, <2>15, Zenon DEF LoadInv
\* vfs_read() of a segment.
<1>ReadSegmentLoad. ASSUME Inv, LoadInv, ReadSegment
                    PROVE  LoadInv'
  <2> USE <1>ReadSegmentLoad
  <2>1. /\ pc = "read" /\ pc' = "phdrs" /\ todo = <<>> /\ i' = i + 1
        /\ UNCHANGED <<used, mem, tops, todo, level, cur, prog, args, base, at_phdr, procs>>
        /\ i \in Nat \ {0}
    BY Zenon DEF ReadSegment, vmVars, Inv, Control
  <2>2. /\ Count \in Nat /\ AreaVa \in Nat /\ base \in Nat /\ prog \in DOMAIN Programs
        /\ i \in DOMAIN phdrs /\ phdrs[i].type = "PT_LOAD"
    BY <2>1, AreaFacts, Zenon
  <2>3. phdrs' = phdrs
    BY <2>1, Zenon DEF phdrs
  <2>4. PICK ph : ph = phdrs[i]
    BY Zenon
  <2>5. /\ Count = NPages(ph) /\ AreaVa = First(ph) /\ AreaFlags = SegFlags(ph)
        /\ ph.filesz \in Nat /\ ph.offset \in Nat /\ ph.filesz <= NPages(ph) * PGSIZE
    BY <2>1, <2>2, <2>4, PhdrFacts, SegPages, Zenon DEF Count, AreaVa, AreaFlags, phdrs
  <2>6. PICK lo, w : /\ lo = base * PGSIZE
                     /\ w = [a \in lo .. lo + ph.filesz - 1 |-> <<"file", prog, ph.offset + a - lo>>]
    BY Zenon
  <2>7. content' = Written(w)
    BY <2>4, <2>6, Zenon DEF ReadSegment
  <2>8. lo \in Nat /\ DOMAIN w \subseteq base * PGSIZE .. (base + Count) * PGSIZE - 1
    <3>1. PICK b, n, z : b = base /\ n = Count /\ z = ph.filesz
      BY Zenon
    <3>2. PGSIZE \in Nat /\ b \in Nat /\ n \in Nat /\ z \in Nat /\ lo = b * PGSIZE /\ z <= n * PGSIZE
      BY <3>1, <2>2, <2>5, <2>6, ExecAssumption, Zenon
    <3>3. (b + n) * PGSIZE = b * PGSIZE + n * PGSIZE /\ n * PGSIZE \in Nat /\ b * PGSIZE \in Nat
      BY ONLY <3>2
    <3>4. lo .. lo + z - 1 \subseteq b * PGSIZE .. (b + n) * PGSIZE - 1 /\ lo \in Nat
      BY ONLY <3>2, <3>3
    <3>5. DOMAIN w = lo .. lo + z - 1
      BY <3>1, <2>6, Zenon
    <3> QED BY <3>1, <3>4, <3>5, Zenon
  <2>9. /\ Keeps /\ DOMAIN content' \subseteq used'
        /\ \A a \in Nat : CellAt(a)' = IF a \in DOMAIN w THEN w[a] ELSE CellAt(a)
    BY <2>1, <2>7, <2>8, WriteKeeps, Zenon
  <2>10. Frame'
    BY <2>1, <2>9, Zenon DEF LoadInv, Frame
  <2>11. Handled = i - 1 /\ Handled' = i
    <3>1. i' - 1 = i
      BY <2>1
    <3>2. Handled = i - 1 /\ Handled' = i' - 1
      BY <2>1, Zenon DEF Handled
    <3> QED BY <3>1, <3>2, Zenon
  <2>12. MappedPages = Count
    <3>1. Len(todo) = 0
      BY <2>1
    <3>2. Count - 0 = Count
      BY <2>2
    <3> QED BY <3>1, <3>2, Zenon DEF MappedPages
  <2>13. Presence'
    <3> SUFFICES ASSUME NEW v \in 0 .. Pages4 - 1, Index(v, 4) \in Lower, Present(Len(tops), v)'
                 PROVE  \E j \in 1 .. i : phdrs[j].type = "PT_LOAD" /\ v \in Area(phdrs[j])
      BY <2>3, <2>11, Zenon DEF Presence, Area
    <3>1. PICK k : k = Len(tops)
      BY Zenon
    <3>2. Present(k, v)'
      BY <3>1, <2>1, Zenon
    <3>3. Present(k, v)
      BY <3>2, <2>1, SameMap, Zenon
    <3>4. \/ \E j \in 1 .. i - 1 : phdrs[j].type = "PT_LOAD" /\ v \in Area(phdrs[j])
          \/ v \in AreaVa .. AreaVa + MappedPages - 1
      BY <3>1, <3>3, <2>1, <2>11, Zenon DEF LoadInv, Presence
    <3>5. AreaVa .. AreaVa + MappedPages - 1 = Area(ph)
      BY <2>5, <2>12, Zenon DEF Area, First, NPages, DIV_ROUNDUP
    <3>6. i \in 1 .. i /\ \A j \in 1 .. i - 1 : j \in 1 .. i
      BY <2>1
    <3> QED BY <3>4, <3>5, <3>6, <2>2, <2>4, Zenon
  <2>14. ASSUME NEW j, j = i, i \in Loadable(phdrs) PROVE SegLoaded(Len(tops), prog, j)'
    <3>1. PICK k, va, b, fl, n, p :
            /\ k = Len(tops) /\ va = AreaVa /\ b = base /\ fl = AreaFlags /\ n = Count /\ p = prog
      BY Zenon
    <3>2. \A d \in 0 .. MappedPages - 1 : Maps(k, va + d, Entry(b + d, fl))'
      BY <3>1, <2>1, <2>9, <2>14, AreaStays, Zenon
    <3>3. \A d \in 0 .. n - 1 : b + d \in used
      <4>1. \A f \in b .. b + n - 1 : f \in used
        BY <3>1, <2>1, Zenon DEF LoadInv, Frame
      <4>2. \A d \in 0 .. n - 1 : b + d \in b .. b + n - 1
        BY <3>1, <2>2
      <4> QED BY <4>1, <4>2, Zenon
    <3>4. Placed(k, b, n, va, fl)'
      BY <3>1, <3>2, <3>3, <2>1, <2>12, Zenon DEF Placed, Settled
    <3>5. ASSUME NEW x \in 0 .. ph.filesz - 1
          PROVE  CellAt(b * PGSIZE + x)' = <<"file", p, ph.offset + x>>
      <4>1. PICK a, z, o : a = lo + x /\ z = ph.filesz /\ o = ph.offset
        BY Zenon
      <4>2. lo \in Nat /\ z \in Nat /\ o \in Nat /\ x \in 0 .. z - 1
        BY <4>1, <2>5, <2>8, Zenon
      <4>3. a \in Nat /\ a \in lo .. lo + z - 1 /\ o + a - lo = o + x
        BY ONLY <4>1, <4>2
      <4>4. a \in DOMAIN w /\ w[a] = <<"file", prog, o + a - lo>>
        BY <4>1, <4>3, <2>6, Zenon
      <4>5. CellAt(a)' = w[a]
        BY <4>3, <4>4, <2>9, Zenon
      <4>6. b * PGSIZE + x = a
        BY <3>1, <4>1, <2>6, Zenon
      <4> QED BY <3>1, <4>1, <4>3, <4>4, <4>5, <4>6, Zenon
    <3>6. ph = Programs[p].phdrs[j] /\ b \in Frames
      BY <3>1, <2>14, <2>1, <2>4, Zenon DEF phdrs, LoadInv, Frame
    <3>7. Placed(k, b, NPages(ph), First(ph), SegFlags(ph))'
      <4>1. n = NPages(ph) /\ va = First(ph) /\ fl = SegFlags(ph)
        BY <3>1, <2>5, Zenon
      <4> QED BY <3>4, <4>1, Zenon DEF Placed
    <3>8. SegLoaded(k, p, j)'
      BY <3>5, <3>6, <3>7, Zenon DEF SegLoaded, NPages, First, SegFlags, DIV_ROUNDUP, Frames
    <3>9. Len(tops') = k /\ prog' = p
      BY <3>1, <2>1, Zenon
    <3> QED BY <3>8, <3>9, Zenon
  <2>15. Loading'
    <3>1. /\ \A j \in 1 .. i - 1 : phdrs[j].type = "PT_PHDR" => at_phdr = phdrs[j].vaddr
          /\ args \in Argvs /\ i <= Len(phdrs)
      BY <2>1, <2>11, Zenon DEF LoadInv, Loading
    <3>2. \A j \in Loadable(phdrs) : j <= i - 1 => SegLoaded(Len(tops), prog, j)'
      BY <2>1, <2>9, <2>11, SegsStay, Zenon
    <3>3. phdrs \in Seq(Phdr)
      BY <2>2, ExecAssumption, Zenon DEF phdrs
    <3>4. ASSUME NEW j \in Loadable(phdrs), j <= i PROVE SegLoaded(Len(tops), prog, j)'
      <4>1. j \in DOMAIN phdrs
        BY Zenon DEF Loadable
      <4>2. \A m \in DOMAIN phdrs : m \in Int
        BY ONLY <3>3
      <4>3. j \in Int /\ i \in Int
        BY <4>1, <4>2, <2>2, Zenon
      <4>4. j = i \/ j <= i - 1
        BY ONLY <4>3, j <= i, SMTT(20)
      <4> QED BY <4>4, <3>2, <2>14, Zenon
    <3>5. \A j \in 1 .. i : j \in 1 .. i - 1 \/ j = i
      BY <2>1
    <3>6. \A j \in 1 .. i : phdrs[j].type = "PT_PHDR" => at_phdr = phdrs[j].vaddr
      BY <3>1, <3>5, <2>2, Zenon
    <3>7. i' <= Len(phdrs) + 1
      <4>1. Len(phdrs) \in Nat
        BY ONLY <3>3
      <4> QED BY ONLY <4>1, <3>1, <2>1, SMTT(20)
    <3> QED BY <3>1, <3>4, <3>6, <3>7, <2>1, <2>3, <2>11, Zenon DEF Loading, Loadable, PagesOf
  <2>16. Ready'
    <3>1. procs' \in Seq(ProcRecord)
      BY <2>1, Zenon DEF LoadInv, Ready
    <3> QED BY <3>1, <2>1, <2>9, ReadyStays, Zenon DEF LoadInv
  <2>17. Mapping' /\ Pushing' /\ Pointing'
    BY <2>1, Zenon DEF Mapping, Pushing, Pointing
  <2> QED BY <2>10, <2>13, <2>15, <2>16, <2>17, Zenon DEF LoadInv
<1> QED BY <1>PtLoadLoad, <1>ReadSegmentLoad, <1>OtherPhdrLoad, <1>StackLoad, Zenon

-----------------------------------------------------------------------------
(* The steps before and after                                              *)

\* What happens before and after a program is loaded keeps the invariant.
LEMMA RestLoad ==
  /\ Inv /\ Inv' /\ LoadInv
  /\ \/ Boot \/ BootDone \/ Start \/ ExecOnStale \/ CopyNoList
     \/ \E q \in DOMAIN Programs, argv \in Argvs : exec(q, argv)
  => LoadInv'
\* The steps that leave exec(), or are not in it.
<1>IdleLoad. ASSUME Inv, LoadInv, Frame', pc' \in {"off", "kernel", "idle", "wild"}, Grown,
                    \A k \in DOMAIN tops : k \in DOMAIN tops' /\ tops'[k] = tops[k],
                    used \subseteq used', UNCHANGED <<content, procs>>
             PROVE  LoadInv'
  <2> USE <1>IdleLoad
  <2>1. Keeps
    BY QuietKeeps, Zenon
  <2>2. Ready'
    <3>1. procs' \in Seq(ProcRecord)
      BY Zenon DEF LoadInv, Ready
    <3> QED BY <3>1, <2>1, ReadyStays, Zenon DEF LoadInv
  <2>3. Mapping' /\ Presence' /\ Loading' /\ Pushing' /\ Pointing'
    BY Zenon DEF Mapping, Presence, Loading, Pushing, Pointing
  <2> QED BY <2>2, <2>3, Zenon DEF LoadInv
\* init_vm().
<1>BootLoad. ASSUME Inv, LoadInv, Boot
             PROVE  LoadInv'
  <2> USE <1>BootLoad
  <2>1. /\ pc = "off" /\ todo = <<>> /\ level = 4 /\ UNCHANGED <<base, content, procs>>
    BY Zenon DEF Boot, Inv, Control, Walking
  <2>2. CASE InitTop /\ UNCHANGED pc
    <3>1. PICK p \in Frames :
            /\ palloc(p, 1) /\ used' = used \cup {p} /\ mem' = With(mem, p, NoTable)
            /\ tops' = <<p>> /\ cur' = p /\ tops = <<>> /\ UNCHANGED <<todo, level>>
      BY <2>2, Zenon DEF InitTop
    <3>2. p \notin DOMAIN mem
      BY <3>1, Fresh, Zenon DEF Inv, Homes
    <3>3. Grown
      BY <3>1, <3>2, Zenon DEF Grown, With
    <3>4. 0 \in used'
      <4>1. 0 \in Frames /\ 0 .. 0 + 1 - 1 = {0} /\ p \in Nat
        BY VmmAssumption DEF Frames
      <4>2. p = 0 \/ 0 < p
        BY <4>1
      <4>3. 0 < p => 0 \in used
        <5> SUFFICES ASSUME 0 < p PROVE 0 \in used
          BY Zenon
        <5>1. ~IsRun(0, 1)
          BY <4>1, <3>1, Zenon DEF palloc
        <5>2. PICK f \in 0 .. 0 + 1 - 1 : f \notin Frames \ used
          BY <5>1, Zenon DEF IsRun
        <5> QED BY <5>2, <4>1, Zenon
      <4> QED BY <4>2, <4>3, <3>1, Zenon
    <3>5. cur' = tops'[Len(tops')] /\ \A k \in DOMAIN tops : FALSE
      BY <3>1
    <3>6. Frame'
      BY <2>1, <2>2, <3>1, <3>4, <3>5, Zenon DEF LoadInv, Frame
    <3> QED BY <2>1, <2>2, <3>1, <3>3, <3>5, <3>6, <1>IdleLoad, Zenon
  <2>3. ASSUME NEW j \in Idx, HigherHalf(j), UNCHANGED pc PROVE LoadInv'
    <3>1. PICK p \in Frames : NewLevel(p, 1, 3, cur, j)
      BY <2>3, Zenon DEF HigherHalf
    <3>2. /\ tops # <<>> /\ j \notin DOMAIN mem[cur] /\ UNCHANGED <<tops, todo, level, cur>>
      BY <2>3 DEF HigherHalf
    <3>3. cur \in DOMAIN mem
      BY <3>2, Zenon DEF Inv, Walking
    <3>4. Grown
      BY <3>1, <3>2, <3>3, NewLevelEmpty, Zenon
    <3>5. used \subseteq used'
      BY <3>1, Zenon DEF NewLevel
    <3>6. Frame'
      BY <2>1, <2>3, <3>2, <3>5, Zenon DEF LoadInv, Frame
    <3> QED BY <2>1, <2>3, <3>2, <3>4, <3>5, <3>6, <1>IdleLoad, Zenon
  <2>4. CASE MapKernel /\ pc' = "kernel"
    <3>1. UNCHANGED <<used, mem, tops, level, cur>>
      BY <2>4, Zenon DEF MapKernel
    <3>2. Grown
      BY <3>1, Zenon DEF Grown
    <3>3. Frame'
      BY <2>1, <2>4, <3>1, Zenon DEF LoadInv, Frame
    <3> QED BY <2>1, <2>4, <3>1, <3>2, <3>3, <1>IdleLoad, Zenon
  <2> QED BY <2>2, <2>3, <2>4, Zenon DEF Boot
\* The end of init_vm().
<1>BootDoneLoad. ASSUME Inv, LoadInv, BootDone
                 PROVE  LoadInv'
  <2> USE <1>BootDoneLoad
  <2>1. /\ pc' = "idle" /\ UNCHANGED <<used, mem, tops, level, cur, content, procs>>
    BY Zenon DEF BootDone, vmVars
  <2>2. Grown
    BY <2>1, Zenon DEF Grown
  <2>3. Frame'
    BY <2>1, Zenon DEF LoadInv, Frame
  <2> QED BY <2>1, <2>2, <2>3, <1>IdleLoad, Zenon
\* exec() goes astray.
<1>WildLoad. ASSUME Inv, LoadInv, ExecOnStale \/ CopyNoList
             PROVE  LoadInv'
  <2> USE <1>WildLoad
  <2>1. /\ pc' = "wild" /\ UNCHANGED <<used, mem, tops, level, cur, content, procs>>
    BY Zenon DEF ExecOnStale, CopyNoList, vmVars
  <2>2. Grown
    BY <2>1, Zenon DEF Grown
  <2>3. Frame'
    BY <2>1, Zenon DEF LoadInv, Frame
  <2> QED BY <2>1, <2>2, <2>3, <1>IdleLoad, Zenon
\* The kernel stack of a program.
<1>StartLoad. ASSUME Inv, LoadInv, Start
              PROVE  LoadInv'
  <2> USE <1>StartLoad
  <2>1. PICK p \in Frames :
          /\ pc' = "idle" /\ used' = used \cup {p} /\ UNCHANGED <<mem, tops, level, cur, content>>
          /\ procs' = [procs EXCEPT ![Len(procs)].kstack = p]
    BY Zenon DEF Start
  <2>2. Grown
    BY <2>1, Zenon DEF Grown
  <2>3. Frame'
    BY <2>1, Zenon DEF LoadInv, Frame
  <2>4. Keeps
    BY <2>1, <2>2, QuietKeeps, Zenon
  <2>5. ASSUME NEW r \in ProcRecord
        PROVE  LET s == [r EXCEPT !.kstack = p]
               IN  /\ s \in ProcRecord /\ s.map = r.map /\ s.prog = r.prog /\ s.args = r.args
                   /\ s.rsp = r.rsp /\ s.rip = r.rip
    <3>1. p \in Int
      BY DEF Frames
    <3>2. PICK D, A, E : D = DOMAIN Programs /\ A = Argvs /\ E = {Programs[x].entry : x \in DOMAIN Programs}
      BY Zenon
    <3>3. ProcRecord = [map : Nat, prog : D, args : A, rip : E, kstack : Int, rsp : Int]
      BY <3>2, Zenon DEF ProcRecord
    <3> QED BY ONLY <3>1, <3>3, r \in ProcRecord
  <2>6. procs \in Seq(ProcRecord)
    BY Zenon DEF LoadInv, Ready
  <2>7. PICK R, n : R = ProcRecord /\ n = Len(procs)
    BY Zenon
  <2>8. /\ DOMAIN procs' = DOMAIN procs
        /\ \A q \in DOMAIN procs : procs[q] \in R
        /\ \A q \in DOMAIN procs : procs'[q] = procs[q] \/ procs'[q] = [procs[q] EXCEPT !.kstack = p]
    <3>1. procs \in Seq(R) /\ procs' = [procs EXCEPT ![n].kstack = p]
      BY <2>1, <2>6, <2>7, Zenon
    <3> QED BY ONLY <3>1
  <2>9. \A q \in DOMAIN procs :
          /\ procs'[q] \in R
          /\ procs'[q].map = procs[q].map /\ procs'[q].prog = procs[q].prog
          /\ procs'[q].args = procs[q].args /\ procs'[q].rsp = procs[q].rsp
          /\ procs'[q].rip = procs[q].rip
    <3> TAKE q \in DOMAIN procs
    <3>1. PICK r : r = procs[q]
      BY Zenon
    <3>2. r \in ProcRecord /\ (procs'[q] = r \/ procs'[q] = [r EXCEPT !.kstack = p])
      BY <3>1, <2>7, <2>8, Zenon
    <3> QED BY <3>1, <3>2, <2>5, <2>7, Zenon
  <2>10. procs' \in Seq(ProcRecord)
    <3>1. procs \in Seq(R) /\ procs' = [procs EXCEPT ![n].kstack = p]
      BY <2>1, <2>6, <2>7, Zenon
    <3>2. PICK r : r = [procs[n] EXCEPT !.kstack = p]
      BY Zenon
    <3>3. procs' = [procs EXCEPT ![n] = r]
      BY <3>1, <3>2, Zenon
    <3>4. r \in R \/ n \notin DOMAIN procs
      <4> SUFFICES ASSUME n \in DOMAIN procs PROVE r \in R
        BY Zenon
      <4>1. procs[n] \in ProcRecord
        BY <2>7, <2>8, Zenon
      <4> QED BY <4>1, <3>2, <2>5, <2>7, Zenon
    <3>5. procs \in Seq(R)
      BY <2>6, <2>7, Zenon
    <3>6. PICK m \in Nat : m = Len(procs) /\ DOMAIN procs = 1 .. m
      BY ONLY <3>5
    <3>7. procs' = [x \in 1 .. m |-> IF x = n THEN r ELSE procs[x]]
      BY ONLY <3>3, <3>6, Zenon
    <3>8. \A x \in 1 .. m : (IF x = n THEN r ELSE procs[x]) \in R
      BY ONLY <3>4, <3>6, <2>8, Zenon
    <3>9. procs' \in Seq(R)
      BY ONLY <3>6, <3>7, <3>8, SMTT(20)
    <3> QED BY <3>9, <2>7, Zenon
  <2>11. Ready'
    BY <2>4, <2>8, <2>9, <2>10, ReadyStays, Zenon DEF LoadInv
  <2>12. Mapping' /\ Presence' /\ Loading' /\ Pushing' /\ Pointing'
    BY <2>1, Zenon DEF Mapping, Presence, Loading, Pushing, Pointing
  <2> QED BY <2>3, <2>11, <2>12, Zenon DEF LoadInv
\* A new map has no page of a program.
<1>ExecLoad. ASSUME Inv, Inv', LoadInv, NEW q \in DOMAIN Programs, NEW argv \in Argvs, exec(q, argv)
             PROVE  LoadInv'
  <2> USE <1>ExecLoad
  <2>1. PICK p \in Frames :
          /\ palloc(p, 1) /\ mem' = With(mem, p, [j \in Upper |-> mem[tops[1]][j]])
          /\ used' = used \cup {p} /\ tops' = Append(tops, p) /\ cur' = p
    BY Zenon DEF exec, NewvmMap
  <2>2. /\ pc = "idle" /\ pc' = "phdrs" /\ prog' = q /\ args' = argv /\ i' = 1
        /\ UNCHANGED <<level, content, procs>> /\ p \notin DOMAIN mem
    BY <2>1, Fresh, Zenon DEF exec, NewvmMap, Inv, Homes
  <2>3. tops \in Seq(Frames) /\ tops # <<>>
    BY <2>2, Zenon DEF Inv, Tops, Control
  <2>4. /\ \A k \in DOMAIN tops : k \in DOMAIN tops' /\ tops'[k] = tops[k]
        /\ tops'[Len(tops')] = p /\ tops' # <<>>
    BY <2>1, <2>3
  <2>5. /\ p \in DOMAIN mem' /\ DOMAIN mem'[p] = Upper
        /\ \A t \in DOMAIN mem : t \in DOMAIN mem' /\ mem'[t] = mem[t]
    BY <2>1, <2>2, Zenon DEF With
  <2>6. Grown
    BY <2>5, Zenon DEF Grown
  <2>7. Keeps
    BY <2>1, <2>2, <2>4, <2>6, QuietKeeps, Zenon
  <2>8. Frame'
    BY <2>1, <2>2, <2>3, <2>4, Zenon DEF LoadInv, Frame
  <2>9. Presence'
    <3> SUFFICES ASSUME NEW va \in 0 .. Pages4 - 1, Index(va, 4) \in Lower PROVE ~Present(Len(tops), va)'
      BY Zenon DEF Presence
    <3>1. PICK k : k = Len(tops')
      BY Zenon
    <3>2. -1 \notin DOMAIN mem'
      BY SMTT(20) DEF Inv, Homes, Frames
    <3>3. Index(va, 4) \notin DOMAIN mem'[tops'[k]]
      BY <3>1, <2>4, <2>5, Zenon DEF Upper
    <3>4. None.addr = -1
      BY ONLY SMT DEF None
    <3>5. Table3(k, va)' = -1
      BY <3>3, <3>4, Zenon DEF Table3, NextTable, None
    <3>6. Table2(k, va)' = -1
      BY <3>2, <3>4, <3>5, Zenon DEF Table2, NextTable, None
    <3>7. Table1(k, va)' = -1
      BY <3>2, <3>4, <3>6, Zenon DEF Table1, NextTable, None
    <3>8. ~Present(k, va)'
      BY <3>2, <3>7, Zenon DEF Present
    <3> QED BY <3>1, <3>8, Zenon
  <2>10. Loading'
    <3>1. Len(phdrs') \in Nat /\ DOMAIN phdrs' \subseteq Nat \ {0}
      <4>1. phdrs' \in Seq(Phdr)
        BY <2>2, ExecAssumption, Zenon DEF phdrs
      <4> QED BY ONLY <4>1
    <3>2. Handled' = 0
      <4>1. i' - 1 = 0
        BY <2>2
      <4> QED BY <4>1, <2>2, Zenon DEF Handled
    <3>3. i' <= Len(phdrs') + 1
      BY <3>1, <2>2
    <3>4. \A j \in DOMAIN phdrs' : ~(j <= Handled')
      BY <3>1, <3>2
    <3>5. \A j \in 1 .. Handled' : FALSE
      BY <3>2
    <3> QED BY <3>3, <3>4, <3>5, <2>2, Zenon DEF Loading, Loadable
  <2>11. Ready'
    <3>1. procs' \in Seq(ProcRecord)
      BY <2>2, Zenon DEF LoadInv, Ready
    <3> QED BY <3>1, <2>2, <2>7, ReadyStays, Zenon DEF LoadInv
  <2>12. Mapping' /\ Pushing' /\ Pointing'
    BY <2>2, Zenon DEF Mapping, Pushing, Pointing
  <2> QED BY <2>8, <2>9, <2>10, <2>11, <2>12, Zenon DEF LoadInv
<1> QED BY <1>BootLoad, <1>BootDoneLoad, <1>WildLoad, <1>StartLoad, <1>ExecLoad, Zenon

-----------------------------------------------------------------------------
(* mappages                                                                *)

\* mappages() keeps the invariant, and so does a step that changes nothing.
LEMMA MapLoad == Inv /\ Inv' /\ LoadInv /\ (Map \/ UNCHANGED allVars) => LoadInv'
\* The pages that are mapped for a segment are pages of the segment.
<1>AreaInPages. ASSUME NEW p \in DOMAIN Programs, NEW j \in DOMAIN Programs[p].phdrs,
                       NEW ph, ph = Programs[p].phdrs[j], NEW v \in Area(ph)
                PROVE  v \in PagesOf(ph)
  <2> USE <1>AreaInPages
  <2>1. PGSIZE \in Nat \ {0} /\ ph.vaddr \in Nat /\ ph.memsz \in Nat
    BY PhdrFacts, ExecAssumption, Zenon
  <2>2. PICK va, n, m : va = ph.vaddr /\ n = ph.memsz /\ m = n + PGSIZE - 1
    BY Zenon
  <2>3. PGSIZE \in Nat \ {0} /\ va \in Nat /\ n \in Nat /\ m \in Nat /\ m = n + PGSIZE - 1
    BY ONLY <2>1, <2>2
  <2>4. PICK f \in Nat, o \in 0 .. PGSIZE - 1 : va = f * PGSIZE + o /\ va \div PGSIZE = f
    BY <2>3, Split, Zenon
  <2>5. PICK q \in Nat, r \in 0 .. PGSIZE - 1 : m = q * PGSIZE + r /\ m \div PGSIZE = q
    BY <2>3, Split, Zenon
  <2>6. v \in f .. f + q - 1
    BY <2>2, <2>4, <2>5, Zenon DEF Area
  <2>7. PICK d : d = v - f
    BY Zenon
  <2>8. d \in Nat /\ d < q /\ v = f + d /\ v \in Nat /\ d \in Int /\ q \in Int
    BY ONLY <2>4, <2>5, <2>6, <2>7, SMTT(20)
  <2>9. d * PGSIZE \in Nat /\ d * PGSIZE + PGSIZE <= q * PGSIZE /\ q * PGSIZE \in Int
    <3>1. d * PGSIZE + PGSIZE <= q * PGSIZE
      BY <2>3, <2>8, Times, Zenon
    <3> QED BY ONLY <3>1, <2>3, <2>8
  <2>10. va + d * PGSIZE \in va .. va + n - 1
    BY ONLY <2>3, <2>5, <2>9, SMTT(20)
  <2>11. va + d * PGSIZE = v * PGSIZE + o
    <3>1. (f + d) * PGSIZE = f * PGSIZE + d * PGSIZE /\ f * PGSIZE \in Int
      BY ONLY <2>3, <2>4, <2>8
    <3>2. v * PGSIZE = f * PGSIZE + d * PGSIZE
      BY <3>1, <2>8, Zenon
    <3> QED BY ONLY <3>1, <3>2, <2>4, <2>9, SMTT(20)
  <2>12. (v * PGSIZE + o) \div PGSIZE = v
    BY <2>4, <2>8, Join, Zenon
  <2> QED BY <2>2, <2>10, <2>11, <2>12, Zenon DEF PagesOf
\* What the steps of mappages() have in common.
<1>MapCommon. ASSUME Inv, LoadInv, Grown, used \subseteq used', UNCHANGED tops, UNCHANGED execVars,
                     tops # <<>> /\ level' = 4 => cur' = tops[Len(tops)], todo' # <<>> => todo # <<>>
              PROVE  /\ Keeps /\ Frame' /\ Loading' /\ Pushing' /\ Pointing' /\ Ready'
                     /\ UNCHANGED <<Count, AreaVa, AreaFlags, Handled, phdrs>>
  <2> USE <1>MapCommon
  <2>1. UNCHANGED <<pc, prog, args, i, base, at_phdr, sp, oldrsp, content, procs>>
    BY Zenon DEF execVars
  <2>2. Keeps
    BY <2>1, QuietKeeps, Zenon
  <2>3. UNCHANGED <<Count, AreaVa, AreaFlags, Handled, phdrs>>
    BY <2>1, Zenon DEF Count, AreaVa, AreaFlags, Handled, phdrs, NPages, First, SegFlags, DIV_ROUNDUP
  <2>4. Frame'
    BY <2>1, <2>3, Zenon DEF LoadInv, Frame
  <2>5. Loading'
    <3> SUFFICES ASSUME pc \in {"phdrs", "read", "args", "ptrs"} PROVE Loading'
      BY <2>1, Zenon DEF Loading
    <3>1. \A j \in Loadable(phdrs) : j <= Handled => SegLoaded(Len(tops), prog, j)'
      BY <2>1, <2>2, SegsStay, Zenon
    <3>2. /\ i <= IF pc \in {"phdrs", "read"} THEN Len(phdrs) + 1 ELSE Len(args) + 1
          /\ pc = "read" => i <= Len(phdrs) /\ phdrs[i].type = "PT_LOAD"
          /\ \A j \in 1 .. Handled : phdrs[j].type = "PT_PHDR" => at_phdr = phdrs[j].vaddr
          /\ args \in Argvs
      BY Zenon DEF LoadInv, Loading
    <3> QED BY <3>1, <3>2, <2>1, <2>3, Zenon DEF Loading, Loadable, PagesOf
  <2>6. \A a : CellAt(a)' = CellAt(a)
    BY <2>1, Zenon DEF CellAt, Cell, NoCell
  <2>7. PICK b, argv, v : b = base /\ argv = args /\ v = Auxv
    BY Zenon
  <2>8. ASSUME pc \in {"args", "ptrs"}
        PROVE  /\ \A k \in 1 .. Len(argv) : /\ StringAt(b, argv, k) => StringAt(b, argv, k)'
                                            /\ PointerAt(b, argv, k) => PointerAt(b, argv, k)'
               /\ AuxvAt(b, argv, v) => AuxvAt(b, argv, v)'
    <3>1. argv \in Argvs /\ b \in Nat
      BY <2>7, <2>8, AreaFacts, Zenon DEF LoadInv, Loading
    <3> QED BY <3>1, <2>6, StackCells, Zenon
  <2>9. Pushing'
    <3> SUFFICES ASSUME pc = "args" PROVE Pushing'
      BY <2>1, Zenon DEF Pushing
    <3>1. /\ b # 0 /\ sp = Top(b) - Size(argv)[i - 1] /\ oldrsp = Top(b)
          /\ todo # <<>> => i = 1
          /\ \A a \in b * PGSIZE .. sp - 1 : CellAt(a) = NoCell
          /\ \A k \in 1 .. i - 1 : StringAt(b, argv, k) /\ Size(argv)[k] <= Size(argv)[i - 1]
          /\ i <= Len(argv) + 1
      BY <2>7, Zenon DEF LoadInv, Pushing, Loading
    <3>2. \A k \in 1 .. i - 1 : k \in 1 .. Len(argv)
      <4>1. argv \in Argvs
        BY <2>7, Zenon DEF LoadInv, Loading
      <4>2. Len(argv) \in Nat
        BY <4>1, SizeFacts, Zenon
      <4>3. i \in Nat
        BY Zenon DEF Inv, Control
      <4> QED BY ONLY <3>1, <4>2, <4>3
    <3>3. \A k \in 1 .. i - 1 : StringAt(b, argv, k)'
      BY <3>1, <3>2, <2>8, Zenon
    <3>4. \A k \in 1 .. i' - 1 : StringAt(base, args, k)'
      BY <3>3, <2>1, <2>7, ZenonT(30) DEF StringAt, Top, Size
    <3> QED BY <3>1, <3>4, <2>1, <2>6, <2>7, Zenon DEF Pushing, Top, Size, NoCell
  <2>10. Pointing'
    <3> SUFFICES ASSUME pc = "ptrs" PROVE Pointing'
      BY <2>1, Zenon DEF Pointing
    <3>1. /\ b # 0 /\ sp = Room(b, argv) /\ oldrsp = Top(b) - Size(argv)[i - 1]
          /\ \A k \in 1 .. Len(argv) : /\ StringAt(b, argv, k)
                                       /\ Size(argv)[k] <= Size(argv)[Len(argv)]
          /\ AuxvAt(b, argv, v)
          /\ \A k \in 1 .. i - 1 : PointerAt(b, argv, k)
          /\ i <= Len(argv) + 1
      BY <2>7, Zenon DEF LoadInv, Pointing, Loading
    <3>2. \A k \in 1 .. i - 1 : k \in 1 .. Len(argv)
      <4>1. argv \in Argvs
        BY <2>7, Zenon DEF LoadInv, Loading
      <4>2. Len(argv) \in Nat
        BY <4>1, SizeFacts, Zenon
      <4>3. i \in Nat
        BY Zenon DEF Inv, Control
      <4> QED BY ONLY <3>1, <4>2, <4>3, SMTT(20)
    <3>3. /\ \A k \in 1 .. Len(argv) : StringAt(b, argv, k)'
          /\ AuxvAt(b, argv, v)'
          /\ \A k \in 1 .. i - 1 : PointerAt(b, argv, k)'
      BY <3>1, <3>2, <2>8, Zenon
    <3>4. v = Auxv'
      BY <2>1, <2>7, Zenon DEF Auxv, phdrs
    <3>5. /\ \A k \in 1 .. Len(args') : StringAt(base, args, k)'
          /\ AuxvAt(base, args, Auxv)'
          /\ \A k \in 1 .. i' - 1 : PointerAt(base, args, k)'
      <4>1. base' = b /\ args' = argv /\ i' = i
        BY <2>1, <2>7, Zenon
      <4> QED BY ONLY <4>1, <3>3, <3>4, Zenon
    <3> QED BY <3>1, <3>5, <2>1, <2>7, Zenon DEF Pointing, Top, Size, Room
  <2>11. Ready'
    <3>1. procs' \in Seq(ProcRecord)
      BY <2>1, Zenon DEF LoadInv, Ready
    <3> QED BY <3>1, <2>1, <2>2, ReadyStays, Zenon DEF LoadInv
  <2> QED BY <2>2, <2>3, <2>4, <2>5, <2>9, <2>10, <2>11, Zenon
\* The steps that map no page.
<1>SteadyLoad. ASSUME Inv, LoadInv, Grown, used \subseteq used', UNCHANGED <<tops, todo>>, UNCHANGED execVars,
                      tops # <<>> /\ level' = 4 => cur' = tops[Len(tops)],
                      \A k, va : InMap(k, va) /\ Present(k, va)' => Present(k, va),
                      \A k, w : k \in DOMAIN tops /\ w = Head(todo).va /\ OnWay(k, w) => OnWay(k, w)'
               PROVE  LoadInv'
  <2> USE <1>SteadyLoad
  <2>1. /\ Keeps /\ Frame' /\ Loading' /\ Pushing' /\ Pointing' /\ Ready'
        /\ UNCHANGED <<Count, AreaVa, AreaFlags, Handled, phdrs>>
    BY <1>MapCommon, Zenon
  <2>2. UNCHANGED <<pc, base, i>> /\ UNCHANGED MappedPages
    BY <2>1, Zenon DEF execVars, MappedPages
  <2>3. PICK k, va, b, fl, m : /\ k = Len(tops) /\ va = AreaVa /\ b = base /\ fl = AreaFlags
                               /\ m = MappedPages
    BY Zenon
  <2>4. Mapping'
    <3> SUFFICES ASSUME pc \in {"read", "args", "ptrs"} PROVE Mapping'
      BY <2>2, Zenon DEF Mapping
    <3>1. /\ Len(todo) <= Count
          /\ \A x \in DOMAIN todo :
               todo[x] = [va |-> AreaVa + MappedPages + x - 1, pa |-> base + MappedPages + x - 1,
                          flags |-> AreaFlags]
          /\ todo # <<>> => OnWay(Len(tops), Head(todo).va)
      BY Zenon DEF LoadInv, Mapping
    <3>2. k \in DOMAIN tops
      BY <2>3, Newest, Zenon DEF Inv, Control
    <3>3. PICK w : w = Head(todo).va
      BY Zenon
    <3>4. todo # <<>> => OnWay(k, w)'
      BY <3>1, <3>2, <3>3, <2>3, Zenon
    <3>5. todo' # <<>> => OnWay(Len(tops), Head(todo).va)'
      <4>1. Len(tops') = k /\ Head(todo').va = w
        BY <3>3, <2>3, Zenon
      <4> QED BY <3>4, <4>1, Zenon
    <3>6. ASSUME pc # "read" \/ i \in Loadable(phdrs)
          PROVE  \A d \in 0 .. MappedPages' - 1 : Maps(Len(tops), AreaVa + d, Entry(base + d, AreaFlags))'
      <4>1. \A d \in 0 .. m - 1 : Maps(k, va + d, Entry(b + d, fl))'
        BY <3>6, <2>1, <2>3, AreaStays, Zenon
      <4>2. Len(tops') = k /\ AreaVa' = va /\ base' = b /\ AreaFlags' = fl /\ MappedPages' = m
        BY <2>1, <2>2, <2>3, Zenon
      <4> QED BY <4>1, <4>2, Zenon
    <3>7. (pc # "read" \/ i \in Loadable(phdrs))' <=> (pc # "read" \/ i \in Loadable(phdrs))
      BY <2>1, <2>2, Zenon DEF Loadable, PagesOf
    <3> QED BY <3>1, <3>5, <3>6, <3>7, <2>1, <2>2, Zenon DEF Mapping
  <2>5. Presence'
    <3> SUFFICES ASSUME pc \in {"phdrs", "read", "args"},
                        NEW v \in 0 .. Pages4 - 1, Index(v, 4) \in Lower, Present(Len(tops), v)'
                 PROVE  \/ \E j \in 1 .. Handled : phdrs[j].type = "PT_LOAD" /\ v \in Area(phdrs[j])
                        \/ pc # "phdrs" /\ v \in AreaVa .. AreaVa + MappedPages - 1
      BY <2>1, <2>2, Zenon DEF Presence, Area
    <3>1. Present(k, v)' /\ InMap(k, v)
      BY <2>3, Newest, Zenon DEF InMap, Inv, Control
    <3>2. Present(k, v)
      BY <3>1, Zenon
    <3> QED BY <3>2, <2>3, Zenon DEF LoadInv, Presence
  <2> QED BY <2>1, <2>4, <2>5, Zenon DEF LoadInv
\* A level of va2pte().
<1>WalkLoad. ASSUME Inv, Inv', LoadInv, Walk, UNCHANGED execVars
             PROVE  LoadInv'
  <2> USE <1>WalkLoad
  <2>1. UNCHANGED <<tops, todo>> /\ level' = level - 1 /\ level \in 1 .. 4
    BY Zenon DEF Walk, Inv, Walking
  <2>2. level' # 4
    BY <2>1
  <2>3. used \subseteq used'
    BY Zenon DEF Walk, NewLevel
  <2>4. /\ Grown /\ \A k, va : InMap(k, va) /\ Present(k, va)' => Present(k, va)
        /\ \A k, w : k \in DOMAIN tops /\ w = Head(todo).va /\ OnWay(k, w) => OnWay(k, w)'
    BY WalkGrows, Zenon
  <2> QED BY <2>1, <2>2, <2>3, <2>4, <1>SteadyLoad, Zenon
\* No step.
<1>StutterLoad. ASSUME Inv, LoadInv, UNCHANGED allVars
                PROVE  LoadInv'
  <2> USE <1>StutterLoad
  <2>1. UNCHANGED <<used, mem, tops, todo, level, cur>> /\ UNCHANGED execVars
    BY Zenon DEF allVars, vmVars
  <2>2. Grown
    BY <2>1, Zenon DEF Grown
  <2>3. \A k, va : /\ Table1(k, va)' = Table1(k, va) /\ (Present(k, va)' <=> Present(k, va))
    BY <2>1, SameMap, Zenon
  <2>4. ASSUME NEW k, NEW w, OnWay(k, w) PROVE OnWay(k, w)'
    <3>1. \A t, j : NextTable(t, j)' = NextTable(t, j)
      BY <2>1, Zenon DEF NextTable
    <3>2. Table3(k, w)' = Table3(k, w)
      BY <3>1, <2>1, Zenon DEF Table3
    <3>3. Table2(k, w)' = Table2(k, w)
      BY <3>1, <3>2, Zenon DEF Table2
    <3> QED BY <3>2, <3>3, <2>1, <2>3, <2>4, Zenon DEF OnWay
  <2>5. tops # <<>> /\ level' = 4 => cur' = tops[Len(tops)]
    BY <2>1, Zenon DEF LoadInv, Frame
  <2> QED BY <2>1, <2>2, <2>3, <2>4, <2>5, <1>SteadyLoad, Zenon
\* The page that is mapped next was not present, if the program is well formed.
<1>NextAbsent. ASSUME Inv, LoadInv, pc \in {"read", "args"}, pc # "read" \/ i \in Loadable(phdrs),
                      NEW w, NEW m, m = MappedPages, m \in 0 .. Count - 1, w = AreaVa + m
               PROVE  ~Present(Len(tops), w)
  <2> USE <1>NextAbsent
  <2>1. PICK va, n : va = AreaVa /\ n = Count
    BY Zenon
  <2>2. /\ n \in Nat /\ va \in Nat /\ m \in 0 .. n - 1 /\ w = va + m /\ prog \in DOMAIN Programs
        /\ w \in 0 .. Pages4 - 1 /\ Index(w, 4) \in Lower
        /\ pc = "read" => i \in DOMAIN phdrs /\ phdrs[i].type = "PT_LOAD"
    BY <2>1, AreaFacts, Zenon
  <2>3. w \notin va .. va + m - 1 /\ w \in va .. va + n - 1
    BY ONLY <2>2
  <2>4. ASSUME NEW j \in 1 .. Handled, phdrs[j].type = "PT_LOAD", w \in Area(phdrs[j]) PROVE FALSE
    <3>1. phdrs \in Seq(Phdr)
      BY <2>2, ExecAssumption, Zenon DEF phdrs
    <3>2. Len(phdrs) \in Nat /\ DOMAIN phdrs = 1 .. Len(phdrs)
      BY ONLY <3>1
    <3>3. CASE pc = "args"
      <4>1. Handled = Len(phdrs) /\ va = STACKVA /\ n = STACKSIZE
        BY <3>3, <2>1, Zenon DEF Handled, AreaVa, Count
      <4>2. w \in StackArea /\ j \in DOMAIN phdrs
        BY <4>1, <3>2, <2>3, Zenon DEF StackArea
      <4> QED BY <4>2, <2>2, <2>4, ImageAssumption, Zenon DEF phdrs
    <3>4. CASE pc = "read"
      <4>1. Handled = i - 1 /\ va = First(phdrs[i]) /\ n = NPages(phdrs[i]) /\ i \in Loadable(phdrs)
        BY <3>4, <2>1, Zenon DEF Handled, AreaVa, Count
      <4>2. i \in DOMAIN phdrs /\ j \in 1 .. i - 1
        BY <4>1, <3>4, <2>2, Zenon
      <4>3. j \in DOMAIN phdrs
        BY ONLY <3>2, <4>2
      <4>4. w \in Area(phdrs[i])
        BY <4>1, <2>3, Zenon DEF Area, First, NPages, DIV_ROUNDUP
      <4>5. w \in PagesOf(phdrs[i]) /\ w \in PagesOf(phdrs[j])
        BY <4>2, <4>3, <4>4, <2>2, <2>4, <1>AreaInPages, Zenon DEF phdrs
      <4> QED BY <4>1, <4>2, <4>5, <2>4, Zenon DEF Loadable
    <3> QED BY <3>3, <3>4, Zenon
  <2> QED BY <2>1, <2>2, <2>3, <2>4, Zenon DEF LoadInv, Presence
\* The end of mappage2().
<1>LeafLoad. ASSUME Inv, LoadInv, Leaf, UNCHANGED execVars
             PROVE  LoadInv'
  <2> USE <1>LeafLoad
  <2>1. /\ todo # <<>> /\ todo' = Tail(todo) /\ level' = 4 /\ cur' = tops[Len(tops)]
        /\ UNCHANGED <<used, tops>> /\ UNCHANGED <<pc, base, i>>
        /\ pc \in {"kernel", "read", "args"} /\ tops # <<>>
    BY Zenon DEF Leaf, execVars, Inv, Control, Walking
  <2>2. Grown
    BY LeafMem, Zenon
  <2>3. /\ Keeps /\ Frame' /\ Loading' /\ Pushing' /\ Pointing' /\ Ready'
        /\ UNCHANGED <<Count, AreaVa, AreaFlags, Handled, phdrs>>
    BY <2>1, <2>2, <1>MapCommon, Zenon
  <2>4. CASE pc = "kernel"
    BY <2>1, <2>3, <2>4, Zenon DEF LoadInv, Mapping, Presence
  <2>5. CASE pc \in {"read", "args"}
    <3>1. PICK k, va, b, fl, n, m, l :
            /\ k = Len(tops) /\ va = AreaVa /\ b = base /\ fl = AreaFlags /\ n = Count
            /\ m = MappedPages /\ l = Len(todo)
      BY Zenon
    <3>2. todo \in Seq([va : Int, pa : Int, flags : SUBSET {"RW", "USER", "NX"}])
      BY Zenon DEF Inv, Todo
    <3>3. /\ Head(todo) = todo[1] /\ 1 \in DOMAIN todo /\ l \in Nat \ {0}
          /\ Len(todo') = l - 1 /\ DOMAIN todo' = 1 .. l - 1
          /\ \A x \in 1 .. l - 1 : x + 1 \in DOMAIN todo /\ todo'[x] = todo[x + 1]
      BY <2>1, <3>1, <3>2
    <3>4. /\ n \in Nat /\ va \in Nat /\ b \in Nat
          /\ \A d \in 0 .. n - 1 : va + d \in 0 .. Pages4 - 1 /\ Index(va + d, 4) \in Lower
      BY <2>5, <3>1, AreaFacts, Zenon
    <3>5. /\ l <= n /\ m = n - l
          /\ \A x \in DOMAIN todo : todo[x] = [va |-> va + m + x - 1, pa |-> b + m + x - 1, flags |-> fl]
      BY <2>5, <3>1, Zenon DEF LoadInv, Mapping, MappedPages
    <3>6. m \in 0 .. n - 1 /\ va + m + 1 - 1 = va + m /\ b + m + 1 - 1 = b + m
      BY ONLY <3>3, <3>4, <3>5
    <3>7. PICK w, e : w = va + m /\ e = Entry(b + m, fl)
      BY Zenon
    <3>8. w = Head(todo).va /\ e = Entry(Head(todo).pa, Head(todo).flags)
      <4>1. Head(todo) = [va |-> va + m, pa |-> b + m, flags |-> fl]
        BY <3>3, <3>5, <3>6, Zenon
      <4>2. Head(todo).va = va + m /\ Head(todo).pa = b + m /\ Head(todo).flags = fl
        BY ONLY <4>1
      <4> QED BY <4>2, <3>7, Zenon
    <3>9. InMap(k, w) /\ OnWay(k, w)
      <4>1. OnWay(Len(tops), Head(todo).va)
        BY <2>1, <2>5, Zenon DEF LoadInv, Mapping
      <4> QED BY <4>1, <2>1, <3>1, <3>4, <3>6, <3>7, <3>8, Newest, Zenon DEF InMap
    <3>10. /\ \A v : InMap(k, v) /\ Present(k, v)' => Present(k, v) \/ SameIndices(v, w)
           /\ ~Present(k, w) => Maps(k, w, e)'
      BY <3>8, <3>9, LeafGrows, Zenon
    <3>11. MappedPages' = m + 1
      <4>1. n - (l - 1) = m + 1
        BY ONLY <3>3, <3>4, <3>5
      <4> QED BY <4>1, <3>1, <3>3, <2>3, Zenon DEF MappedPages
    <3>12. Presence'
      <4> SUFFICES ASSUME NEW v \in 0 .. Pages4 - 1, Index(v, 4) \in Lower, Present(Len(tops), v)'
                   PROVE  \/ \E j \in 1 .. Handled : phdrs[j].type = "PT_LOAD" /\ v \in Area(phdrs[j])
                          \/ v \in va .. va + (m + 1) - 1
        BY <2>1, <2>3, <2>5, <3>1, <3>11, Zenon DEF Presence, Area
      <4>1. Present(k, v)' /\ InMap(k, v)
        BY <2>1, <3>1, Newest, Zenon DEF InMap
      <4>2. CASE Present(k, v)
        <5>1. \/ \E j \in 1 .. Handled : phdrs[j].type = "PT_LOAD" /\ v \in Area(phdrs[j])
              \/ v \in va .. va + m - 1
          BY <4>2, <2>5, <3>1, Zenon DEF LoadInv, Presence
        <5>2. v \in va .. va + m - 1 => v \in va .. va + (m + 1) - 1
          BY ONLY <3>4, <3>6
        <5> QED BY <5>1, <5>2, Zenon
      <4>3. CASE SameIndices(v, w)
        <5>1. w \in 0 .. Pages4 - 1
          BY <3>4, <3>6, <3>7, Zenon
        <5>2. v = w
          BY <4>3, <5>1, IndicesUnique, Zenon
        <5>3. va + m \in va .. va + (m + 1) - 1
          BY ONLY <3>4, <3>6
        <5> QED BY <5>2, <5>3, <3>7, Zenon
      <4> QED BY <4>1, <4>2, <4>3, <3>10, Zenon
    <3>13. ASSUME pc # "read" \/ i \in Loadable(phdrs), NEW d \in 0 .. (m + 1) - 1
           PROVE  Maps(k, va + d, Entry(b + d, fl))'
      <4>1. d \in 0 .. m - 1 \/ d = m
        BY ONLY <3>6, <3>4, d \in 0 .. (m + 1) - 1
      <4>2. CASE d \in 0 .. m - 1
        BY <4>2, <3>1, <3>13, <2>3, <2>5, AreaStays, Zenon
      <4>3. CASE d = m
        <5>1. ~Present(Len(tops), w)
          BY <3>1, <3>6, <3>7, <3>13, <2>5, <1>NextAbsent, Zenon
        <5>2. Maps(k, w, e)'
          BY <5>1, <3>1, <3>10, Zenon
        <5>3. va + d = w /\ Entry(b + d, fl) = e
          BY <4>3, <3>7, Zenon
        <5> QED BY <5>2, <5>3, Zenon
      <4> QED BY <4>1, <4>2, <4>3, Zenon
    <3>14. Mapping'
      <4>1. ASSUME NEW x \in DOMAIN todo'
            PROVE  todo'[x] = [va |-> va + (m + 1) + x - 1, pa |-> b + (m + 1) + x - 1, flags |-> fl]
        <5>1. x \in 1 .. l - 1
          BY <4>1, <3>3, Zenon
        <5>2. todo'[x] = [va |-> va + m + (x + 1) - 1, pa |-> b + m + (x + 1) - 1, flags |-> fl]
          BY <5>1, <3>3, <3>5, Zenon
        <5>3. x \in Int /\ m \in Int /\ va \in Int /\ b \in Int
          <6>1. \A z \in 1 .. l - 1 : z \in Int
            BY <3>3
          <6>2. \A z \in 0 .. n - 1 : z \in Int
            BY <3>4
          <6>3. \A z \in Nat : z \in Int
            OBVIOUS
          <6> QED BY <6>1, <6>2, <6>3, <5>1, <3>4, <3>6, Zenon
        <5>4. /\ va + m + (x + 1) - 1 = va + (m + 1) + x - 1
              /\ b + m + (x + 1) - 1 = b + (m + 1) + x - 1
          BY ONLY <5>3, SMTT(20)
        <5> QED BY ONLY <5>2, <5>4, Zenon
      <4>2. Len(todo') <= n
        BY ONLY <3>3, <3>4, <3>5, SMTT(20)
      <4>3. OnWay(Len(tops), Head(todo).va)'
        BY <2>1 DEF OnWay
      <4>4. (pc # "read" \/ i \in Loadable(phdrs))' <=> (pc # "read" \/ i \in Loadable(phdrs))
        BY <2>1, <2>3, Zenon DEF Loadable, PagesOf
      <4>5. ASSUME pc # "read" \/ i \in Loadable(phdrs)
            PROVE  \A d \in 0 .. MappedPages' - 1 : Maps(Len(tops), AreaVa + d, Entry(base + d, AreaFlags))'
        <5>1. \A d \in 0 .. (m + 1) - 1 : Maps(k, va + d, Entry(b + d, fl))'
          BY <4>5, <3>13, Zenon
        <5>2. /\ Len(tops') = k /\ AreaVa' = va /\ base' = b /\ AreaFlags' = fl /\ MappedPages' = m + 1
          BY <2>1, <2>3, <3>1, <3>11, Zenon
        <5> QED BY <5>1, <5>2, Zenon
      <4> QED BY <4>1, <4>2, <4>3, <4>4, <4>5, <2>1, <2>3, <3>1, <3>11, Zenon DEF Mapping
    <3> QED BY <2>3, <3>12, <3>14, Zenon DEF LoadInv
  <2> QED BY <2>1, <2>4, <2>5, Zenon
<1> QED BY <1>WalkLoad, <1>LeafLoad, <1>StutterLoad, Zenon DEF Map

-----------------------------------------------------------------------------
(* The theorems                                                            *)

\* Nothing is loaded at the start.
LEMMA InitLoad == InitExec => LoadInv
<1> SUFFICES ASSUME InitExec PROVE LoadInv
  BY Zenon
<1>1. tops = <<>> /\ pc = "off" /\ DOMAIN content = {} /\ procs = <<>>
  BY Zenon DEF InitExec, InitVmm
<1>2. Frame
  BY <1>1, Zenon DEF Frame
<1>3. procs \in Seq(ProcRecord) /\ DOMAIN procs = {}
  <2>1. PICK R : R = ProcRecord
    BY Zenon
  <2>2. procs \in Seq(R) /\ DOMAIN procs = {}
    BY ONLY <1>1
  <2> QED BY <2>1, <2>2, Zenon
<1>4. Ready
  BY <1>3, Zenon DEF Ready
<1>5. Mapping /\ Presence /\ Loading /\ Pushing /\ Pointing
  BY <1>1, Zenon DEF Mapping, Presence, Loading, Pushing, Pointing
<1> QED BY <1>2, <1>4, <1>5, Zenon DEF LoadInv

\* Every step keeps the invariant.
LEMMA NextLoad == Inv /\ Inv' /\ LoadInv /\ [NextExec]_allVars => LoadInv'
BY RestLoad, MapLoad, AreasLoad, CopyArgsLoad, Zenon DEF NextExec

\* Every program that was started has its image: loadelf() maps the frames of
\* a segment at its addresses with its rights and reads the file into them, and
\* no later step, of this exec() or of another, takes a frame or writes to it.
THEOREM ImagesStay == ExecSpec => []Loaded
<1>1. InitExec => Inv /\ LoadInv
  BY InitInv, InitLoad, Zenon
<1>2. Inv /\ LoadInv /\ [NextExec]_allVars => (Inv /\ LoadInv)'
  BY NextInv, NextLoad, Zenon
<1>3. Inv /\ LoadInv => Loaded
  BY InvLoaded, Zenon
<1> QED BY <1>1, <1>2, <1>3, PTL DEF ExecSpec

\* Every program that was started finds on its stack argc, the strings through
\* the pointers that copyargs() made, its entry point and its program headers.
THEOREM ArgumentsStay == ExecSpec => []ArgsOnStack
<1>1. InitExec => Inv /\ SharedInv /\ LoadInv
  BY InitInv, InitShared, InitLoad, Zenon
<1>2. Inv /\ SharedInv /\ LoadInv /\ [NextExec]_allVars => (Inv /\ SharedInv /\ LoadInv)'
  BY NextInv, NextShared, NextLoad, Zenon
<1>3. Inv /\ SharedInv /\ LoadInv => ArgsOnStack
  BY InvShared, InvArgs, Zenon
<1> QED BY <1>1, <1>2, <1>3, PTL DEF ExecSpec
=============================================================================

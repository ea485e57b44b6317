-------------------------------- MODULE Exec -------------------------------
(***************************************************************************)
(* exec() of kernel/proc.c: a new address space, the segments of an ELF    *)
(* file (loadelf), the stack with the arguments (copyargs), and the switch *)
(* to the new map.                                                         *)
(*                                                                         *)
(* A program is a record of what loadelf() reads from the file: its entry  *)
(* point and program headers, with p_filesz <= p_memsz.  Byte k of program *)
(* p is the cell <<"file", p, k>>.                                         *)
(***************************************************************************)
EXTENDS Vmm

CONSTANTS
  PGSIZE,    \* bytes of a page
  WORD,      \* bytes of a uintptr_t, 8 in the kernel
  STACKSIZE, \* in pages
  STACKVA,   \* virtual page of the stack
  Programs,  \* the ELF files: sequence number -> [entry, phdrs]
  Argvs,     \* argument lists: sequences of lengths of strings
  Garbage,   \* what a local variable may hold that is not initialised
  MaxExec    \* bound on the calls of exec()

\* A program header; p_flags has PF_W and PF_X.
Phdr == [type : STRING, vaddr : Nat, offset : Nat, filesz : Nat, memsz : Nat,
         w : BOOLEAN, x : BOOLEAN]

\* Programs and their stack stay in the lower half.
ASSUME ExecAssumption ==
  /\ PGSIZE \in Nat \ {0} /\ WORD \in Nat \ {0} /\ STACKSIZE \in Nat /\ STACKVA \in Nat
  /\ \A va \in STACKVA .. STACKVA + STACKSIZE - 1 : Index(va, 4) \in Lower
  /\ \A p \in DOMAIN Programs :
       /\ Programs[p].phdrs \in Seq(Phdr)
       /\ \A j \in DOMAIN Programs[p].phdrs :
            LET ph == Programs[p].phdrs[j]
                first == ph.vaddr \div PGSIZE
            IN  \A va \in first .. first + (ph.memsz + PGSIZE - 1) \div PGSIZE - 1 :
                  Index(va, 4) \in Lower

\* The pages that exec() maps for a segment and for the stack.
Area(ph) ==
  LET first == ph.vaddr \div PGSIZE
  IN  first .. first + (ph.memsz + PGSIZE - 1) \div PGSIZE - 1
StackArea == STACKVA .. STACKVA + STACKSIZE - 1

\* Programs are well formed: no segment has more bytes in the file than in
\* memory or a page of the stack, and there is at most one PT_PHDR.
ASSUME ImageAssumption ==
  /\ \A va \in StackArea : va < N * N * N * N
  /\ \A p \in DOMAIN Programs :
       LET hdrs == Programs[p].phdrs
       IN  /\ \A j \in DOMAIN hdrs : hdrs[j].type = "PT_LOAD" =>
                /\ hdrs[j].filesz <= hdrs[j].memsz
                /\ \A va \in Area(hdrs[j]) : va < N * N * N * N /\ va \notin StackArea
           /\ \A j, k \in DOMAIN hdrs :
                hdrs[j].type = "PT_PHDR" /\ hdrs[k].type = "PT_PHDR" => j = k

\* The arguments fit the stack: size[k] is what the first k strings take, and
\* below them come a word for each and 12 more.
ASSUME ArgsAssumption ==
  \A argv \in Argvs :
    /\ argv \in Seq(Nat)
    /\ \E size \in [0 .. Len(argv) -> 0 .. STACKSIZE * PGSIZE] :
         /\ size[0] = 0 /\ \A k \in DOMAIN argv : size[k] = size[k - 1] + argv[k] + 1
         /\ size[Len(argv)] + (Len(argv) + 12) * WORD <= STACKSIZE * PGSIZE

VARIABLES
  pc,        \* where exec() is; "wild": at the mercy of what nobody initialised
  prog,      \* the program being loaded
  args,      \* argv
  i,         \* loop variable of loadelf() and copyargs()
  base,      \* the frames that palloc() returned last
  at_phdr,   \* aux.at_phdr
  sp,        \* *stack and oldrsp of copyargs(), as physical addresses
  oldrsp,
  content,   \* cells of the frames that were written: frame -> offset -> cell
  cr3,       \* the top level that is loaded, 0 for the boot loader's
  procs      \* the programs that were started

execVars == <<pc, prog, args, i, base, at_phdr, sp, oldrsp, content, cr3, procs>>
allVars == <<vmVars, execVars>>

phdrs == Programs[prog].phdrs
DIV_ROUNDUP(n, d) == (n + d - 1) \div d

\* Cells.  A word stands in its first byte.
NoCell == <<"none">>
Cell(f, o) ==
  IF f \in DOMAIN content THEN IF o \in DOMAIN content[f] THEN content[f][o] ELSE NoCell
  ELSE NoCell

\* Memory with the cells of w, a function from physical addresses, written.
Written(w) ==
  LET pages == DOMAIN content \cup {a \div PGSIZE : a \in DOMAIN w}
      Offsets(f) == (IF f \in DOMAIN content THEN DOMAIN content[f] ELSE {})
                      \cup {a % PGSIZE : a \in {b \in DOMAIN w : b \div PGSIZE = f}}
  IN  [f \in pages |-> [o \in Offsets(f) |->
         IF f * PGSIZE + o \in DOMAIN w THEN w[f * PGSIZE + o] ELSE content[f][o]]]

InitExec ==
  /\ InitVmm
  /\ pc = "off" /\ prog = 0 /\ args = <<>> /\ i = 0 /\ base = 0 /\ at_phdr = 0
  /\ sp = 0 /\ oldrsp = 0
  /\ content = [f \in {} |-> 0] /\ cr3 = 0 /\ procs = <<>>

-----------------------------------------------------------------------------
(* Boot                                                                    *)

Boot ==
  /\ pc = "off"
  /\ \/ InitTop /\ UNCHANGED pc
     \/ (\E j \in Idx : HigherHalf(j)) /\ UNCHANGED pc
     \/ MapKernel /\ pc' = "kernel"
  /\ UNCHANGED <<prog, args, i, base, at_phdr, sp, oldrsp, content, cr3, procs>>

Map ==
  /\ Walk \/ Leaf
  /\ UNCHANGED execVars

\* init_vm() is done.  The map of the boot loader stays loaded until the first
\* exec().
BootDone ==
  /\ pc = "kernel" /\ todo = <<>>
  /\ pc' = "idle"
  /\ UNCHANGED <<vmVars, prog, args, i, base, at_phdr, sp, oldrsp, content, cr3, procs>>

-----------------------------------------------------------------------------
(* exec                                                                    *)

exec(p, argv) ==
  /\ pc = "idle" /\ Len(procs) < MaxExec
  /\ NewvmMap
  /\ pc' = "phdrs" /\ prog' = p /\ args' = argv /\ i' = 1
  /\ at_phdr' \in Garbage
  /\ UNCHANGED <<base, sp, oldrsp, content, cr3, procs>>

\* newvm_map() got a page whose lower half is not zero, from the boot loader or
\* from a slab that was freed: mappages() walks whatever it points at.
ExecOnStale ==
  /\ pc = "idle" /\ Len(procs) < MaxExec
  /\ pc' = "wild"
  /\ UNCHANGED <<vmVars, prog, args, i, base, at_phdr, sp, oldrsp, content, cr3, procs>>

\* Mutant: a writable segment is one that may not be executed.
SegFlagsSwapped(ph) == {"USER"} \cup (IF ph.x THEN {} ELSE {"RW", "NX"})

\* The flags of a segment.
SegFlags(ph) == {"USER"} \cup (IF ph.w THEN {"RW"} ELSE {}) \cup (IF ph.x THEN {} ELSE {"NX"})

\* A turn of the loop of loadelf(): palloc() and mappages() of a PT_LOAD.  The
\* offset of p_vaddr in its page is lost.
PtLoad ==
  /\ pc = "phdrs" /\ i <= Len(phdrs) /\ phdrs[i].type = "PT_LOAD"
  /\ \E p \in Frames :
       /\ AllocAndMap(p, DIV_ROUNDUP(phdrs[i].memsz, PGSIZE),
                      phdrs[i].vaddr \div PGSIZE, SegFlags(phdrs[i]))
       /\ base' = p
  /\ pc' = "read"
  /\ UNCHANGED <<prog, args, i, at_phdr, sp, oldrsp, content, cr3, procs>>

\* vfs_read() of the segment, when it is mapped.
ReadSegment ==
  /\ pc = "read" /\ todo = <<>>
  /\ content' = Written([a \in base * PGSIZE .. base * PGSIZE + phdrs[i].filesz - 1 |->
                           <<"file", prog, phdrs[i].offset + a - base * PGSIZE>>])
  /\ i' = i + 1 /\ pc' = "phdrs"
  /\ UNCHANGED <<vmVars, prog, args, base, at_phdr, sp, oldrsp, cr3, procs>>

\* PT_PHDR, and the types that loadelf() does not know.
OtherPhdr ==
  /\ pc = "phdrs" /\ i <= Len(phdrs) /\ phdrs[i].type # "PT_LOAD"
  /\ at_phdr' = IF phdrs[i].type = "PT_PHDR" THEN phdrs[i].vaddr ELSE at_phdr
  /\ i' = i + 1
  /\ UNCHANGED <<vmVars, pc, prog, args, base, sp, oldrsp, content, cr3, procs>>

\* The stack of the program, as the kernel addresses it.
Stack ==
  /\ pc = "phdrs" /\ i > Len(phdrs)
  /\ \E p \in Frames :
       /\ AllocAndMap(p, STACKSIZE, STACKVA, {"RW", "USER"})
       /\ base' = p /\ sp' = (p + STACKSIZE) * PGSIZE /\ oldrsp' = sp'
  /\ pc' = "args" /\ i' = 1
  /\ UNCHANGED <<prog, args, at_phdr, content, cr3, procs>>

-----------------------------------------------------------------------------
(* copyargs                                                                *)

\* A turn of the first loop: a string is pushed, args[i] characters and a
\* terminator.
CopyString ==
  /\ pc = "args" /\ todo = <<>> /\ i <= Len(args)
  /\ sp' = sp - args[i] - 1
  /\ content' = Written([a \in sp' .. sp - 1 |->
                           IF a = sp - 1 THEN <<"nul">> ELSE <<"char", i, a - sp'>>])
  /\ i' = i + 1
  /\ UNCHANGED <<vmVars, pc, prog, args, base, at_phdr, oldrsp, cr3, procs>>

\* The first loop with an argv that is no list of strings.  The one call there
\* is, exec("/exe") of thread1(), passes none.
CopyNoList ==
  /\ pc = "args" /\ todo = <<>>
  /\ pc' = "wild"
  /\ UNCHANGED <<vmVars, prog, args, i, base, at_phdr, sp, oldrsp, content, cr3, procs>>

AT_PHDR == 3
AT_PHENT == 4
AT_PHNUM == 5
AT_ENTRY == 9
PHENT == 56

\* The words that are pushed below the strings.  For the second of them the
\* stack pointer moves and nothing is stored.
Auxv ==
  <<0, 0, Programs[prog].entry, AT_ENTRY, at_phdr, AT_PHDR, PHENT, AT_PHENT,
    Len(phdrs), AT_PHNUM, 0>>
Stored == DOMAIN Auxv \ {2}

\* The auxiliary vector, and room for the pointers.
PushAuxv ==
  /\ pc = "args" /\ todo = <<>> /\ i > Len(args)
  /\ content' = Written([a \in {sp - n * WORD : n \in Stored} |->
                           <<"word", Auxv[(sp - a) \div WORD]>>])
  /\ sp' = sp - (Len(Auxv) + Len(args)) * WORD
  /\ pc' = "ptrs" /\ i' = 1
  /\ UNCHANGED <<vmVars, prog, args, base, at_phdr, oldrsp, cr3, procs>>

\* Mutant: the pointers are stored in the order in which they would be pushed.
PushPointerReversed ==
  /\ pc = "ptrs" /\ i <= Len(args)
  /\ oldrsp' = oldrsp - args[i] - 1
  /\ content' = Written([a \in {sp + (Len(args) - i) * WORD} |-> <<"word", HHDM * PGSIZE + oldrsp'>>])
  /\ i' = i + 1
  /\ UNCHANGED <<vmVars, pc, prog, args, base, at_phdr, sp, cr3, procs>>

\* A turn of the second loop: the pointer to a string, which is an address of
\* the kernel.
PushPointer ==
  /\ pc = "ptrs" /\ i <= Len(args)
  /\ oldrsp' = oldrsp - args[i] - 1
  /\ content' = Written([a \in {sp + (i - 1) * WORD} |-> <<"word", HHDM * PGSIZE + oldrsp'>>])
  /\ i' = i + 1
  /\ UNCHANGED <<vmVars, pc, prog, args, base, at_phdr, sp, cr3, procs>>

\* argc, and back in exec(): the stack pointer of the program is as far below
\* the top of the stack as the kernel's is.
PushArgc ==
  /\ pc = "ptrs" /\ i > Len(args)
  /\ sp' = sp - WORD
  /\ content' = Written([a \in {sp'} |-> <<"word", Len(args)>>])
  /\ procs' = Append(procs, [map |-> Len(tops), prog |-> prog, args |-> args,
                             rip |-> Programs[prog].entry, kstack |-> -1,
                             rsp |-> (STACKVA + STACKSIZE) * PGSIZE
                                       - ((base + STACKSIZE) * PGSIZE - sp')])
  /\ pc' = "switch"
  /\ UNCHANGED <<vmVars, prog, args, i, base, at_phdr, oldrsp, cr3>>

\* switchvm(), the kernel stack of the program, and startproc().
Start ==
  /\ pc = "switch"
  /\ cr3' = tops[Len(tops)]
  /\ \E p \in Frames :
       /\ palloc(p, 1)
       /\ used' = used \cup {p}
       /\ procs' = [procs EXCEPT ![Len(procs)].kstack = p]
  /\ pc' = "idle"
  /\ UNCHANGED <<mem, tops, todo, level, cur, home, prog, args, i, base, at_phdr, sp, oldrsp,
                 content>>

NextExec ==
  \/ Boot \/ Map \/ BootDone
  \/ \E p \in DOMAIN Programs, argv \in Argvs : exec(p, argv)
  \/ ExecOnStale \/ CopyNoList
  \/ PtLoad \/ ReadSegment \/ OtherPhdr \/ Stack
  \/ CopyString \/ PushAuxv \/ PushPointer \/ PushArgc \/ Start

ExecSpec == InitExec /\ [][NextExec]_allVars

-----------------------------------------------------------------------------
(* Properties                                                              *)

\* Type invariant.
ExecTypeOK ==
  /\ used \subseteq Frames /\ DOMAIN mem \subseteq used
  /\ \A t \in DOMAIN mem : \A k \in DOMAIN mem[t] : k \in Idx /\ mem[t][k].addr \in Frames
  /\ tops \in Seq(DOMAIN mem) /\ level \in 1 .. 4 /\ cur \in Frames
  /\ pc \in {"off", "kernel", "idle", "phdrs", "read", "args", "ptrs", "switch", "wild"}
  /\ cr3 \in Frames /\ DOMAIN content \subseteq used /\ Len(procs) <= MaxExec

\* What a program reads at byte va of its address space, if it may.
Load(top, va) ==
  LET e == Translate(top, va \div PGSIZE)
  IN  IF "USER" \in e.flags THEN Cell(e.addr, va % PGSIZE) ELSE <<"fault">>

\* The pages of a segment, and the segments that loadelf() can load: they start
\* at a page, and no earlier segment has a page of theirs.
PagesOf(ph) == {va \div PGSIZE : va \in ph.vaddr .. ph.vaddr + ph.memsz - 1}
Loadable(hdrs) ==
  {j \in DOMAIN hdrs :
     /\ hdrs[j].type = "PT_LOAD" /\ hdrs[j].vaddr % PGSIZE = 0
     /\ \A k \in 1 .. j - 1 :
          hdrs[k].type = "PT_LOAD" => PagesOf(hdrs[k]) \cap PagesOf(hdrs[j]) = {}}

\* The image of a started program is that of its file, at the addresses and
\* with the rights of its program headers, and stays so whatever is executed
\* later (loadelf()).
Loaded ==
  \A q \in DOMAIN procs : \A j \in Loadable(Programs[procs[q].prog].phdrs) :
    LET ph == Programs[procs[q].prog].phdrs[j]
        top == tops[procs[q].map]
    IN  /\ \A va \in PagesOf(ph) :
             LET rights == Translate(top, va).flags
             IN  "USER" \in rights /\ ("RW" \in rights <=> ph.w) /\ ("NX" \in rights <=> ~ph.x)
        /\ \A b \in 0 .. ph.filesz - 1 :
             Load(top, ph.vaddr + b) = <<"file", procs[q].prog, ph.offset + b>>

\* A started program reads through its own map what copyargs() "places on the
\* stack": argc at the stack pointer, a pointer to each of "those strings" in
\* the order of argv, and above them pairs with its entry point and its program
\* headers, whatever is executed later.  It is less than the ABI asks for: envp
\* has no terminator, AT_NULL is not stored and the stack is not aligned.
ArgsOnStack ==
  \A q \in DOMAIN procs :
    LET p == procs[q]
        argc == Len(p.args)
        hdrs == Programs[p.prog].phdrs
        Word(n) == Load(tops[p.map], p.rsp + n * WORD)
        Aux(n) == <<Word(argc + 2 + 2 * n), Word(argc + 3 + 2 * n)>>
        Has(key, v) == \E n \in 0 .. 3 : Aux(n) = << <<"word", key>>, <<"word", v>> >>
    IN  /\ Word(0) = <<"word", argc>>
        /\ \A k \in 1 .. argc :
             LET ptr == Word(k)[2]
             IN  /\ \A c \in 0 .. p.args[k] - 1 : Load(tops[p.map], ptr + c) = <<"char", k, c>>
                 /\ Load(tops[p.map], ptr + p.args[k]) = <<"nul">>
        /\ Has(AT_ENTRY, p.rip) /\ Has(AT_PHNUM, Len(hdrs)) /\ Has(AT_PHENT, PHENT)
        /\ \A j \in DOMAIN hdrs : hdrs[j].type = "PT_PHDR" => Has(AT_PHDR, hdrs[j].vaddr)
=============================================================================

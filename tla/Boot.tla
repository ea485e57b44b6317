-------------------------------- MODULE Boot -------------------------------
(***************************************************************************)
(* The way of a program from the boot archive to its address space: kmain()*)
(* calls initramfs() (Initramfs.tla, over Vfs.tla) and opens /main.c, then *)
(* init_vm() builds the kernel's page tables, and exec() (Exec.tla, over   *)
(* Vmm.tla) opens a file by its name and loads it.                         *)
(*                                                                         *)
(* A file is executable if it is copied from an archive member that is in  *)
(* Programs.  loadelf() does not look at the magic number of an ELF file;  *)
(* what it does with another file is not followed.                         *)
(***************************************************************************)
EXTENDS Exec, Initramfs

CONSTANT Names      \* names that exec() is called with

VARIABLES
  kmain,     \* where kmain() is
  started    \* ghost: the names and the nodes of the programs in procs

fileVars == <<fs, held, archive, file, vn, data>>
bootVars == <<allVars, fileVars, kmain, started>>

BootInit ==
  /\ InitExec /\ InitTar
  /\ kmain = "initramfs" /\ started = <<>>

initramfs ==
  /\ kmain = "initramfs" /\ Unpack
  /\ UNCHANGED <<allVars, kmain, started>>

\* The lines of kmain() that read /main.c.  If there is no such file, "v" is
\* not initialised: it may be NULL.
MainC ==
  LET Read(r) ==
        \/ r.vn # Null /\ fs' = vfs_close(r.f, r.vn)
        \/ r.vn = Null /\ fs' \in {r.f, Stop(r.f, "no main.c")}
  IN  /\ kmain = "initramfs" /\ Unpacked
      /\ kmain' = "init_vm"
      /\ Read(vfs_open(fs, <<"main.c">>, FALSE))
      /\ UNCHANGED <<allVars, held, archive, file, vn, data, started>>

Running == kmain = "init_vm" /\ fs.stop = "no"

InitVm ==
  /\ Running
  /\ Boot \/ BootDone
  /\ UNCHANGED <<fileVars, kmain, started>>

\* exec(): loadelf() opens the file and never closes it, and takes no notice
\* of an error.
ExecFile(name, argv) ==
  LET loadelf(r, member) ==
        \/ /\ member \in DOMAIN Programs
           /\ exec(member, argv)
           /\ fs' = r.f
           /\ started' = Append(started, [name |-> name, node |-> r.vn])
        \/ /\ member \notin DOMAIN Programs
           /\ fs' = Stop(r.f, "no program")
           /\ UNCHANGED <<allVars, started>>
      Opened(r) == loadelf(r, IF r.vn = Null \/ data[r.vn] = <<>> THEN 0 ELSE data[r.vn][1][1])
  IN  /\ Running /\ pc = "idle" /\ Len(procs) < MaxExec
      /\ Opened(vfs_open(fs, name, FALSE))
      /\ UNCHANGED <<held, archive, file, vn, data, kmain>>

\* The rest of exec().
ExecStep ==
  /\ Running
  /\ \/ ExecOnStale \/ CopyNoList
     \/ Map \/ PtLoad \/ ReadSegment \/ OtherPhdr \/ Stack
     \/ CopyString \/ PushAuxv \/ PushPointer \/ PushArgc \/ Start
  /\ UNCHANGED <<fileVars, kmain, started>>

BootNext ==
  \/ initramfs \/ MainC \/ InitVm \/ ExecStep
  \/ \E name \in Names, argv \in Argvs : ExecFile(name, argv)

BootSpec == BootInit /\ [][BootNext]_bootVars

-----------------------------------------------------------------------------
(* Properties                                                              *)

\* With a plain archive the kernel comes down only for a file, or a program,
\* that is not in it: initramfs() and kmain() leave no file that exec() could not
\* open.  (What an exec() does that has gone wild is not followed.)
StopsOnlyIfMissing ==
  LET Has(name, S) == \E b \in Headers : archive[b].name = name /\ archive[b].id \in S
      ids == {archive[b].id : b \in Headers}
  IN  Plain => \/ fs.stop = "no"
               \/ fs.stop = "no main.c" /\ ~Has(<<"main.c">>, ids)
               \/ fs.stop = "no program" /\ \E name \in Names : ~Has(name, DOMAIN Programs)

\* The program that runs is the file of a plain archive that has the name that
\* was given: every segment that starts at a page and shares none is in memory
\* with its bytes and rights, all of it was in the file, and it stays so
\* whatever is executed later (loadelf()).
RightProgram ==
  /\ Loaded
  /\ Plain => \A q \in DOMAIN procs : \E b \in Headers :
       /\ archive[b].name = started[q].name /\ archive[b].id = procs[q].prog
       /\ \A j \in DOMAIN Programs[procs[q].prog].phdrs :
            LET ph == Programs[procs[q].prog].phdrs[j]
            IN  ph.type = "PT_LOAD" => ph.offset + ph.filesz <= archive[b].length

\* The references that are left on a file of the archive are those of the calls
\* of exec() that loaded it: initramfs() and kmain() give back theirs, so that
\* nothing is counted twice and nothing is freed under exec().
FilesReferenced ==
  Plain /\ fs.stop = "no" => \A n \in {m \in Nodes : fs.node[m].alive /\ fs.node[m].type = "VREG"} :
    fs.vn[n].refcount = Len(SelectSeq(started, LAMBDA s : s.node = n))

-----------------------------------------------------------------------------
(* What a comment says, and the code does not do.                          *)

\* "map the segment", "read it into memory" (kernel/proc.c:117, 121): every byte
\* of a segment is where its program header has it.
SegmentsInPlace ==
  \A q \in DOMAIN procs : \A j \in DOMAIN Programs[procs[q].prog].phdrs :
    LET ph == Programs[procs[q].prog].phdrs[j]
    IN  ph.type = "PT_LOAD" => \A b \in 0 .. ph.filesz - 1 :
          Load(tops[procs[q].map], ph.vaddr + b) = <<"file", procs[q].prog, ph.offset + b>>
=============================================================================

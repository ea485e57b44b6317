------------------------------- MODULE MCBoot ------------------------------
(* Archives of up to three members, two of them programs, for TLC.  Some   *)
(* have a name that begins like another one, or that ramfs_t() has used.   *)
EXTENDS Boot

Digits(n) == <<n \div 8, n % 8, -1>>
Member(name, type, id, length) == [name |-> name, type |-> type, id |-> id, length |-> length]

\* The blocks of a member, the last one padded.
Blocks(m) ==
  <<[magic |-> "ustar", name |-> m.name, type |-> m.type, size |-> Digits(m.length),
     length |-> m.length, id |-> m.id]>>
  \o [b \in 1 .. (m.length + TAR_HEADER_SIZE - 1) \div TAR_HEADER_SIZE |->
        [magic |-> "data",
         bytes |-> [k \in 1 .. TAR_HEADER_SIZE |->
                      LET o == (b - 1) * TAR_HEADER_SIZE + k
                      IN  IF o <= m.length THEN <<m.id, o>> ELSE <<"pad", o>>]]]
Zero == [magic |-> "zero", bytes |-> [k \in 1 .. TAR_HEADER_SIZE |-> <<"pad", k>>]]
Tar(members) == FlattenSeq([k \in DOMAIN members |-> Blocks(members[k])]) \o <<Zero, Zero>>

One == Member(<<"one">>, "REG", 1, 13)
Two == Member(<<"two">>, "REG", 2, 22)
Small == {Member(<<"main.c">>, "REG", 3, n) : n \in {0, 1, 8, 9}}
Other == {Member(<<"main.c">>, "SYMLINK", 3, 0), Member(<<"two">>, "REG", 4, 2),
          Member(<<"d", "a">>, "REG", 5, 1), Member(<<"d">>, "DIR", 6, 0),
          Member(<<"two.c">>, "REG", 4, 2), Member(<<"a">>, "REG", 4, 2),
          Member(<<"first", "a">>, "REG", 4, 2), Member(<<"f">>, "REG", 4, 2)}

\* Every order of the programs and a small file, or of a program and any two.
MCArchives ==
  {Tar(s) : s \in {<<m, One, Two>> : m \in Small} \cup {<<One, m, Two>> : m \in Other}
                    \cup {<<Two, m>> : m \in Other} \cup {<<m>> : m \in Other} \cup {<<>>}}

MCNames == {<<"one">>, <<"two">>}
NamePrefixes == {<<"two", "two.c">>, <<"f", "first">>, <<"f", "fornite">>}

MCReserved == {0, 1, 2, 3}
MCKernelPages ==
  << <<4088, 1, {"USER"}>>, <<4089, 2, {"USER", "NX"}>>, <<4090, 3, {"RW", "USER", "NX"}>> >>
MCUserPages == 510 .. 516 \cup 1536 .. 1540
Seg(type, vaddr, offset, filesz, memsz, w, x) ==
  [type |-> type, vaddr |-> vaddr, offset |-> offset, filesz |-> filesz, memsz |-> memsz,
   w |-> w, x |-> x]
\* The second program has a segment that starts inside a page of the one before.
MCPrograms ==
  << [entry |-> 4096,
      phdrs |-> <<Seg("PT_PHDR", 4096, 0, 0, 0, FALSE, FALSE),
                  Seg("PT_LOAD", 4096, 0, 9, 9, FALSE, TRUE),
                  Seg("PT_LOAD", 4112, 9, 4, 12, TRUE, FALSE)>>],
     [entry |-> 4088,
      phdrs |-> <<Seg("PT_LOAD", 4088, 3, 16, 17, TRUE, TRUE),
                  Seg("PT_NOTE", 0, 0, 0, 0, FALSE, FALSE),
                  Seg("PT_LOAD", 4108, 19, 3, 9, FALSE, FALSE)>>] >>
MCGarbage == {0, 7}
MCArgvs == {<<>>, <<1, 2, 4>>}
=============================================================================

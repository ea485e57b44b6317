------------------------------ MODULE Initramfs -----------------------------
(***************************************************************************)
(* initramfs() of fs/ramfs/initramfs.c: the files of a tar archive, which  *)
(* the boot loader put into memory, are copied into the root file system.  *)
(*                                                                         *)
(* The archive is a sequence of blocks of TAR_HEADER_SIZE bytes.  A header *)
(* is [magic, name, type, size, length, id]: the size in octal digits, the *)
(* number it stands for, and a name for the contents, whose byte k is      *)
(* <<id, k>>.  A block of data is [magic, bytes]; only headers are "ustar". *)
(***************************************************************************)
EXTENDS Vfs

CONSTANTS
  TAR_HEADER_SIZE,  \* 512 in the kernel
  Archives          \* the archives, sequences of blocks

VARIABLES
  archive,
  file,   \* address of the header that the loop is at, from the archive's start
  vn,     \* the local variable, Null as long as it is not initialised
  data    \* contents of the files

tarVars == <<fs, held, archive, file, vn, data>>

\* What the test ramfs_t(), which kmain() calls first, leaves behind: directories
\* and a dangling symbolic link in the root, one directory mounted on and so is
\* the root itself, and the references that it does not give back.  One
\* directory of each kind stands for the nine entries.
ramfs_t(f) ==
  LET mkdir(g, name) == vfs_mkdir(g, <<name>>, FALSE).f
      mount(g, path) == vfs_mount(g, path, FALSE).f
      symlink(g, name, target) ==
        vfs_symlink(g, <<name>>, [abs |-> TRUE, comps |-> <<target>>], FALSE).f
  IN  mount(symlink(mkdir(mount(mkdir(f, "first"), <<"first">>), "a"), "fornite", "777"), <<>>)

InitTar ==
  /\ held = [n \in Nodes |-> 0] /\ fs = ramfs_t(RootFs)
  /\ archive \in Archives
  /\ file = 0 /\ vn = Null /\ data = [n \in Nodes |-> <<>>]

Block(a) == archive[a \div TAR_HEADER_SIZE + 1]
Byte(a) == Block(a).bytes[(a % TAR_HEADER_SIZE) + 1]

\* The digits of a number field end with a 0 byte or with the field.
Nul == -1
IsNul(d) == d = Nul

oct2int(oct) ==
  LET end == SelectInSeq(oct, IsNul)
  IN  FoldLeft(LAMBDA val, d : val * 8 + d, 0, IF end = 0 THEN oct ELSE SubSeq(oct, 1, end - 1))

ALIGN_UP(n, d) == ((n + d - 1) \div d) * d

\* ramfs_write() doubles the buffer of a new file until it is larger than the
\* bytes, and makes that the size of the file.
Unwritten == <<0>>
Buffer(bytes) ==
  LET n == Len(bytes)
      size == Min({s \in {2^k : k \in 0 .. n} : n < s})
  IN  bytes \o [k \in 1 .. size - n |-> Unwritten]

Unpacking == fs.stop = "no" /\ Block(file).magic = "ustar"

\* Mutant: the padding behind the file is copied as well.
ContentPadded(size) ==
  [k \in 1 .. ALIGN_UP(size, TAR_HEADER_SIZE) |-> Byte(file + TAR_HEADER_SIZE + k - 1)]

\* The bytes that vfs_write() is given.
Content(size) == [k \in 1 .. size |-> Byte(file + TAR_HEADER_SIZE + k - 1)]

\* Mutant: the vnode stays open.
CloseEntryLeaks(r) ==
  LET h == Block(file)
      v == IF r.vn = Null THEN vn ELSE r.vn
  IN  /\ vn' = v
      /\ data' = IF h.type = "REG" /\ v # Null THEN [data EXCEPT ![v] = Buffer(Content(oct2int(h.size)))]
                 ELSE data
      /\ fs' = r.f

\* Regular or not, the entry ends with a close of vn.
CloseEntry(r) ==
  LET h == Block(file)
      v == IF r.vn = Null THEN vn ELSE r.vn
      alive == v # Null /\ r.f.vn[v].refcount > 0
  IN  /\ vn' = v
      /\ data' = IF h.type = "REG" /\ alive THEN [data EXCEPT ![v] = Buffer(Content(oct2int(h.size)))]
                 ELSE data
      /\ fs' = IF alive THEN vfs_close(r.f, v) ELSE Stop(r.f, "wild vnode")

\* One turn of the loop.  vfs_create() that makes no file leaves vn alone, and
\* vn is written to and closed all the same: the variable as it was declared,
\* or the vnode of an earlier entry, which is freed.
Unpack ==
  LET h == Block(file)
  IN  /\ Unpacking
      /\ \/ h.type = "REG" /\ CloseEntry(vfs_openCreate(fs, h.name, FALSE, "VREG"))
         \/ h.type # "REG" /\ CloseEntry(Reply(fs, "OK", Null))
      /\ file' = file + TAR_HEADER_SIZE + ALIGN_UP(oct2int(h.size), TAR_HEADER_SIZE)
      /\ UNCHANGED <<held, archive>>

-----------------------------------------------------------------------------
(* Properties                                                              *)

Unpacked == fs.stop = "no" /\ Block(file).magic # "ustar"

\* The indices of the blocks that are headers.
Headers == {b \in DOMAIN archive : archive[b].magic = "ustar"}

\* The entries that ramfs_t() leaves in the root directory.
LeftEntries == {<<"first">>, <<"a">>, <<"fornite">>}

\* The archive has nothing but regular files with different names, without
\* directories.
Distinct ==
  \A b, c \in Headers :
    /\ archive[b].type = "REG" /\ Len(archive[b].name) = 1
    /\ archive[b].name = archive[c].name => b = c

\* And no name is the beginning of another one, in the archive or in the root
\* directory: ramfs_lookup() would take one for the other.
Plain ==
  /\ Distinct
  /\ \A b \in Headers :
       /\ \A c \in Headers : Matches(Head(archive[b].name), archive[c].name) => b = c
       /\ \A name \in LeftEntries : ~Matches(Head(archive[b].name), name)

\* The file of the archive can be opened by its name, and holds its bytes.
Copied(b) ==
  LET Found(r) ==
        /\ r.err = "OK"
        /\ data[r.vn] = Buffer([k \in 1 .. archive[b].length |-> <<archive[b].id, k>>])
  IN  Found(vfs_open(fs, archive[b].name, FALSE))

\* When initramfs() returns, every file of a plain archive can be opened by its
\* name and holds its bytes and no other that was written, and nothing but what
\* was there before is in the root directory besides.
AllCopied ==
  Unpacked /\ Plain =>
    /\ \A b \in Headers : Copied(b)
    /\ Len(fs.node[Root].dents) = Cardinality(Headers) + Cardinality(LeftEntries)

-----------------------------------------------------------------------------
(* What a comment says, and the code does not do.                          *)

\* "initramfs() goes through the tarball and copies the files into the vfs"
\* (fs/ramfs/initramfs.c:57): a file can then be opened by its name.
CopiedByName == Unpacked /\ Distinct => \A b \in Headers : Copied(b)
=============================================================================

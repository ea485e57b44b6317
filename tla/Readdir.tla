------------------------------ MODULE Readdir ------------------------------
(***************************************************************************)
(* Reading a directory: ramfs_readdir() of fs/ramfs/ramfs.c, called through*)
(* vfs_readdir() of fs/vfs.c, while entries come and go between the calls. *)
(*                                                                         *)
(* A directory is a list of dentries, the newest first, each with the      *)
(* sequence number it was given by ramfs_dir_attach().  A reader keeps an  *)
(* offset from one call to the next: SEQ_DOT at first, then the sequence   *)
(* number of the last entry it was given.                                  *)
(***************************************************************************)
EXTENDS Integers, Sequences, FiniteSetsExt

CONSTANTS
  Names,     \* names of entries
  RecLen,    \* length of the record of a name
  BufSizes,  \* sizes of the reader's buffers
  MaxSeq     \* bound on the entries ever made

SEQ_DOT == 0
SEQ_DOTDOT == 1
SEQ_EOF == 2
SEQ_START == 3

ASSUME ReaddirAssumption ==
  /\ RecLen \in [Names \cup {".", ".."} -> Nat \ {0}]
  /\ BufSizes \subseteq Nat /\ MaxSeq \in Nat /\ MaxSeq > SEQ_START

VARIABLES
  dentry,   \* parent->dir.dentry, a list of [name, seq]
  lastseq,
  offset,   \* the reader's offset
  error,    \* what ramfs_readdir() returned last
  records,  \* the records of the last call
  nbytes,   \* the buffer of the last call
  count,    \* what vfs_readdir() returned last
  seen,     \* ghost: entries given to this reader
  again,    \* ghost: entries the last call gave that the reader had before
  stayed    \* ghost: entries that are there since the reader began

reader == <<offset, error, records, nbytes, count, seen, again>>
vars == <<dentry, lastseq, reader, stayed>>

Init ==
  /\ dentry = <<>> /\ lastseq = SEQ_START
  /\ offset = SEQ_DOT /\ error = "0" /\ records = <<>> /\ nbytes = 0 /\ count = 0
  /\ seen = {} /\ again = {} /\ stayed = {}

\* Mutant: a new entry is put at the end of the list.
AttachLast(name) ==
  /\ \A k \in DOMAIN dentry : dentry[k].name # name
  /\ lastseq < MaxSeq
  /\ dentry' = Append(dentry, [name |-> name, seq |-> lastseq])
  /\ lastseq' = lastseq + 1
  /\ UNCHANGED <<reader, stayed>>

\* ramfs_dir_attach(): the callers looked the name up and did not find it.
Attach(name) ==
  /\ \A k \in DOMAIN dentry : dentry[k].name # name
  /\ lastseq < MaxSeq
  /\ dentry' = <<[name |-> name, seq |-> lastseq]>> \o dentry
  /\ lastseq' = lastseq + 1
  /\ UNCHANGED <<reader, stayed>>

\* ramfs_dir_detach().
Detach(k) ==
  /\ dentry' = [i \in 1 .. Len(dentry) - 1 |-> dentry[IF i < k THEN i ELSE i + 1]]
  /\ stayed' = stayed \ {dentry[k]}
  /\ UNCHANGED <<lastseq, reader>>

\* A reader begins: off_t offset = 0.
Begin ==
  /\ offset' = SEQ_DOT /\ error' = "0" /\ records' = <<>> /\ nbytes' = 0 /\ count' = 0
  /\ seen' = {} /\ again' = {} /\ stayed' = Range(dentry)
  /\ UNCHANGED <<dentry, lastseq>>

-----------------------------------------------------------------------------
Bytes(recs) ==
  LET sum[i \in 0 .. Len(recs)] == IF i = 0 THEN 0 ELSE sum[i - 1] + RecLen[recs[i].name]
  IN  sum[Len(recs)]

\* "." and "..", as far as the offset asks for them.
Dots(off) ==
  CASE off = SEQ_DOT -> <<[name |-> ".", seq |-> SEQ_DOT], [name |-> "..", seq |-> SEQ_DOTDOT]>>
    [] off = SEQ_DOTDOT -> <<[name |-> "..", seq |-> SEQ_DOTDOT]>>
    [] OTHER -> <<>>

\* The offset behind "..".
AfterDots(off) ==
  IF off \notin {SEQ_DOT, SEQ_DOTDOT} THEN off
  ELSE IF dentry = <<>> THEN SEQ_EOF ELSE dentry[1].seq

\* Mutant: an offset that names no entry starts at the first one.
CursorRestarts(off) ==
  IF \E k \in DOMAIN dentry : dentry[k].seq = off
  THEN CHOOSE k \in DOMAIN dentry : dentry[k].seq = off ELSE IF dentry = <<>> THEN 0 ELSE 1

\* The index of the first entry that the offset names, 0 if there is none.
Cursor(off) ==
  LET named == {k \in 1 .. Len(dentry) : dentry[k].seq = off}
  IN  IF named = {} THEN 0 ELSE Min(named)

\* Mutant: the last entry of the list is forgotten.
CopiedButLast(k, resid) == SubSeq(dentry, k, Len(dentry) - 1)

\* The entries from index k on that the do loop copies with "resid" bytes
\* left: it ends when the bytes left are exactly 0 or the list ends.  The
\* count is unsigned and a record that does not fit takes it below 0.
Copied(k, resid) ==
  LET Upto(n) == SubSeq(dentry, k, n)
      full == {n \in k .. Len(dentry) : Bytes(Upto(n)) = resid}
  IN  Upto(IF full = {} THEN Len(dentry) ELSE CHOOSE n \in full : \A m \in full : n <= m)

\* vfs_readdir() with a buffer of n bytes; it drops the error.
Read(n) ==
  LET off == AfterDots(offset)
      dots == Dots(offset)
      k == Cursor(off)
      got == IF k = 0 THEN <<>> ELSE Copied(k, n - Bytes(dots))
  IN  /\ records' = dots \o got
      /\ offset' = IF got = <<>> THEN off ELSE got[Len(got)].seq
      /\ error' = IF off # SEQ_EOF /\ k = 0 THEN "EINVAL" ELSE "0"
      /\ nbytes' = n /\ count' = Bytes(records')
      /\ again' = Range(got) \cap seen /\ seen' = seen \cup Range(got)
      /\ UNCHANGED <<dentry, lastseq, stayed>>

Next ==
  \/ \E name \in Names : Attach(name)
  \/ \E k \in DOMAIN dentry : Detach(k)
  \/ Begin
  \/ \E n \in BufSizes : Read(n)

Spec == Init /\ [][Next]_vars

-----------------------------------------------------------------------------
Entries == [name : Names, seq : SEQ_START .. MaxSeq - 1]

\* Type invariant.
TypeOK ==
  /\ dentry \in Seq(Entries) /\ lastseq \in SEQ_START .. MaxSeq
  /\ offset \in 0 .. MaxSeq - 1 /\ error \in {"0", "EINVAL"}
  /\ records \in Seq(Entries \cup Range(Dots(SEQ_DOT)))
  /\ nbytes \in BufSizes \cup {0} /\ count \in Nat
  /\ seen \subseteq Entries /\ again \subseteq seen /\ stayed \subseteq Range(dentry)

\* An offset taken from one call names the same place in a later one: of the
\* entries that are there since the reader began, it was given every one up
\* to its offset, whatever entries were made and removed between the calls,
\* and an end of file means that there was none (ramfs_dir_attach() puts new
\* entries, with greater numbers, in front).
NothingSkipped ==
  /\ offset >= SEQ_START => \A e \in stayed : e.seq >= offset => e \in seen
  /\ offset = SEQ_EOF => stayed = {}

\* A call gives an entry again only if it is the one the offset was left at:
\* ramfs_readdir() starts with it.
OnlyCursorAgain == [][again' \subseteq {e \in seen : e.seq = offset}]_<<records, nbytes, offset, again, seen>>

\* printdir() walks over count bytes by the lengths of the records.  With a
\* buffer for all of them it prints ".", ".." and every entry once.
PrintdirComplete ==
  [][\A n \in BufSizes :
       Read(n) /\ offset = SEQ_DOT /\ n >= Bytes(Dots(SEQ_DOT) \o dentry) =>
         /\ records' = Dots(SEQ_DOT) \o dentry
         /\ count' = Bytes(records') /\ count' <= n]_vars
=============================================================================

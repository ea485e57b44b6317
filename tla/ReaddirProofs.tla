--------------------------- MODULE ReaddirProofs ---------------------------
(***************************************************************************)
(* Proofs about Readdir for every set of names, all lengths of records and *)
(* all sizes of buffers, and any number of entries.                        *)
(*                                                                         *)
(* The argument: the numbers of the entries go down along the list, since  *)
(* the newest is in front and no number is given twice (Order).  So an     *)
(* offset splits the list, and what the reader was given has numbers from  *)
(* the offset on (Place).                                                  *)
(***************************************************************************)
EXTENDS Readdir, WellFoundedInduction, TLAPS

Order ==
  /\ \A i \in 1 .. Len(dentry) : dentry[i].seq < lastseq
  /\ \A i, j \in 1 .. Len(dentry) : i < j => dentry[i].seq > dentry[j].seq

Place == \A e \in seen : offset >= SEQ_START /\ e.seq >= offset

IInv == TypeOK /\ Order /\ Place /\ NothingSkipped

-----------------------------------------------------------------------------
(* Induction, the statement being given as the set of the numbers that it  *)
(* holds for                                                               *)

\* A set of numbers that is not empty has a least element.
LEMMA Least ==
  ASSUME NEW T \in SUBSET Nat, T # {}
  PROVE  \E m \in T : \A k \in T : m <= k
<1>1. PICK m \in T : \A k \in T : ~ (<<k, m>> \in OpToRel(<, Nat))
  BY NatLessThanWellFounded, WFMin, Zenon
<1>2. \A k \in T : ~(k < m)
  BY <1>1, Zenon DEF OpToRel
<1> QED BY <1>2

\* A set that has 0, and with every number the next one, has them all.
LEMMA NatSet ==
  ASSUME NEW S, 0 \in S, \A n \in Nat : n \in S => n + 1 \in S
  PROVE  Nat \subseteq S
<1> SUFFICES ASSUME Nat \ S # {} PROVE FALSE
  OBVIOUS
<1>1. PICK m \in Nat \ S : \A k \in Nat \ S : m <= k
  BY Least, Zenon
<1>2. m # 0 /\ m - 1 \in Nat
  BY <1>1
<1>3. m - 1 \in S
  BY <1>1, <1>2
<1> QED BY <1>1, <1>2, <1>3

-----------------------------------------------------------------------------
(* Sequences                                                               *)

\* Two sequences, one after the other.
LEMMA Concat ==
  ASSUME NEW S, NEW s \in Seq(S), NEW t \in Seq(S)
  PROVE  s \o t \in Seq(S)
  OBVIOUS

\* The empty sequence adds nothing.
LEMMA ConcatNothing ==
  ASSUME NEW S, NEW s \in Seq(S)
  PROVE  s \o <<>> = s
  OBVIOUS

\* All of a sequence.
LEMMA WholeRun ==
  ASSUME NEW S, NEW s \in Seq(S)
  PROVE  SubSeq(s, 1, Len(s)) = s
  OBVIOUS

-----------------------------------------------------------------------------
(* The bytes of a list of records                                          *)

Dot == Range(Dots(SEQ_DOT))
Recs == Entries \cup Dot

\* The bytes of the first i records.
Sum(s) == CHOOSE f : f = [i \in 0 .. Len(s) |->
                            IF i = 0 THEN 0 ELSE f[i - 1] + RecLen[s[i].name]]

LEMMA BytesSum == ASSUME NEW s PROVE Bytes(s) = Sum(s)[Len(s)]
  BY Zenon DEF Bytes, Sum

LEMMA RecLenType ==
  ASSUME NEW r \in Recs
  PROVE  RecLen[r.name] \in Nat \ {0}
  BY ReaddirAssumption DEF Recs, Entries, Dot, Dots, Range

\* The recursive definition has a solution.
LEMMA SumDef ==
  ASSUME NEW s \in Seq(Recs)
  PROVE  Sum(s) = [i \in 0 .. Len(s) |-> IF i = 0 THEN 0 ELSE Sum(s)[i - 1] + RecLen[s[i].name]]
<1> DEFINE Solves(g, n) == g = [i \in 0 .. n |-> IF i = 0 THEN 0 ELSE g[i - 1] + RecLen[s[i].name]]
           S == {n \in Nat : \E g : Solves(g, n)}
<1>1. 0 \in S
  <2> DEFINE g == [i \in 0 .. 0 |-> 0]
  <2>1. Solves(g, 0)
    OBVIOUS
  <2> QED BY <2>1, Zenon
<1>2. ASSUME NEW n \in Nat, n \in S PROVE n + 1 \in S
  <2>1. PICK g : Solves(g, n)
    BY <1>2, Zenon
  <2> DEFINE h == [i \in 0 .. n + 1 |-> IF i = n + 1 THEN g[n] + RecLen[s[n + 1].name] ELSE g[i]]
  <2>2. Solves(h, n + 1)
    BY <2>1
  <2>3. n + 1 \in Nat
    OBVIOUS
  <2> HIDE DEF h, Solves
  <2> QED BY <2>2, <2>3, Zenon
<1>3. Nat \subseteq S
  <2> HIDE DEF S
  <2> QED BY <1>1, <1>2, NatSet, Zenon
<1>4. \E g : Solves(g, Len(s))
  BY <1>3
<1>5. Solves(Sum(s), Len(s))
  BY <1>4, Zenon DEF Sum
<1> QED BY <1>5, Zenon

\* The sum grows with every record.
LEMMA SumGrows ==
  ASSUME NEW s \in Seq(Recs)
  PROVE  /\ \A i \in 0 .. Len(s) : Sum(s)[i] \in Nat
         /\ \A i \in 0 .. Len(s) : i < Len(s) => Sum(s)[i] < Sum(s)[Len(s)]
<1>0. Len(s) \in Nat
  OBVIOUS
<1>1. Sum(s)[0] = 0
  BY <1>0, SumDef
<1>2. ASSUME NEW i \in 1 .. Len(s)
      PROVE  RecLen[s[i].name] \in Nat \ {0} /\ Sum(s)[i] = Sum(s)[i - 1] + RecLen[s[i].name]
  <2>1. s[i] \in Recs
    OBVIOUS
  <2>2. Sum(s)[i] = Sum(s)[i - 1] + RecLen[s[i].name]
    BY <1>0, SumDef
  <2> QED BY <2>1, <2>2, RecLenType, Zenon
<1> DEFINE S == {n \in Nat : \A i \in 0 .. Len(s) : i <= n => Sum(s)[i] \in Nat}
<1>3. 0 \in S
  BY <1>0, <1>1
<1>4. ASSUME NEW n \in Nat, n \in S PROVE n + 1 \in S
  <2>1. ASSUME NEW i \in 0 .. Len(s), i <= n + 1 PROVE Sum(s)[i] \in Nat
    <3>1. CASE i <= n
      BY <1>4, <3>1, Zenon
    <3>2. CASE i = n + 1
      <4>1. Sum(s)[n] \in Nat
        BY <1>0, <1>4, <3>2
      <4>2. i \in 1 .. Len(s) /\ i - 1 = n
        BY <1>0, <3>2
      <4>3. RecLen[s[i].name] \in Nat /\ Sum(s)[i] = Sum(s)[n] + RecLen[s[i].name]
        BY <1>2, <4>2, Zenon
      <4> QED BY <4>1, <4>3
    <3> QED BY <1>0, <2>1, <3>1, <3>2
  <2> QED BY <2>1
<1>5. Nat \subseteq S
  <2> HIDE DEF S
  <2> QED BY <1>3, <1>4, NatSet, Zenon
<1>6. \A i \in 0 .. Len(s) : Sum(s)[i] \in Nat
  BY <1>0, <1>5
<1> DEFINE D == {n \in Nat : n < Len(s) => Sum(s)[Len(s) - n - 1] < Sum(s)[Len(s)]}
<1>7. 0 \in D
  <2> SUFFICES ASSUME 0 < Len(s) PROVE Sum(s)[Len(s) - 1] < Sum(s)[Len(s)]
    BY <1>0
  <2> QED BY <1>0, <1>2, <1>6
<1>8. ASSUME NEW n \in Nat, n \in D PROVE n + 1 \in D
  <2> SUFFICES ASSUME n + 1 < Len(s) PROVE Sum(s)[Len(s) - (n + 1) - 1] < Sum(s)[Len(s)]
    BY <1>0
  <2>1. Len(s) - n - 1 \in 1 .. Len(s)
    BY <1>0
  <2> DEFINE j == Len(s) - n - 1
  <2>2. Sum(s)[j] < Sum(s)[Len(s)]
    BY <1>0, <1>8
  <2>4. j - 1 = Len(s) - (n + 1) - 1 /\ j \in 1 .. Len(s) /\ j \in 0 .. Len(s) /\ j - 1 \in 0 .. Len(s)
    BY <1>0, <2>1
  <2> HIDE DEF j
  <2>5. Sum(s)[j] \in Nat /\ Sum(s)[j - 1] \in Nat /\ Sum(s)[Len(s)] \in Nat
    BY <1>0, <1>6, <2>4
  <2>6. Sum(s)[j - 1] < Sum(s)[j]
    <3>1. RecLen[s[j].name] \in Nat \ {0} /\ Sum(s)[j] = Sum(s)[j - 1] + RecLen[s[j].name]
      BY <1>2, <2>4, Zenon
    <3> QED BY <2>5, <3>1
  <2> QED BY <2>2, <2>4, <2>5, <2>6
<1>9. Nat \subseteq D
  <2> HIDE DEF D
  <2> QED BY <1>7, <1>8, NatSet, Zenon
<1>10. ASSUME NEW i \in 0 .. Len(s), i < Len(s) PROVE Sum(s)[i] < Sum(s)[Len(s)]
  <2> DEFINE n == Len(s) - i - 1
  <2>1. n \in Nat /\ n < Len(s) /\ Len(s) - n - 1 = i
    BY <1>0, <1>10
  <2>2. n \in D
    BY <1>9, <2>1
  <2> QED BY <2>1, <2>2, Zenon
<1> QED BY <1>6, <1>10
\* Lists that begin alike have the same sums as far as they do.
LEMMA SumAgrees ==
  ASSUME NEW s \in Seq(Recs), NEW t \in Seq(Recs), NEW n \in Nat, n <= Len(s), n <= Len(t),
         \A i \in 1 .. n : s[i] = t[i]
  PROVE  Sum(s)[n] = Sum(t)[n]
<1>0. Len(s) \in Nat /\ Len(t) \in Nat
  OBVIOUS
<1> DEFINE S == {m \in Nat : m <= n => Sum(s)[m] = Sum(t)[m]}
<1>1. 0 \in S
  BY <1>0, SumDef
<1>2. ASSUME NEW m \in Nat, m \in S PROVE m + 1 \in S
  <2> SUFFICES ASSUME m + 1 <= n PROVE Sum(s)[m + 1] = Sum(t)[m + 1]
    OBVIOUS
  <2>1. Sum(s)[m] = Sum(t)[m] /\ s[m + 1] = t[m + 1]
    BY <1>2
  <2>2. m + 1 \in 0 .. Len(s) /\ m + 1 \in 0 .. Len(t) /\ m + 1 # 0 /\ (m + 1) - 1 = m
    BY <1>0
  <2>3. Sum(s)[m + 1] = Sum(s)[m] + RecLen[s[m + 1].name]
    BY <2>2, SumDef
  <2>4. Sum(t)[m + 1] = Sum(t)[m] + RecLen[t[m + 1].name]
    BY <2>2, SumDef
  <2> QED BY <2>1, <2>3, <2>4, Zenon
<1>3. Nat \subseteq S
  <2> HIDE DEF S
  <2> QED BY <1>1, <1>2, NatSet, Zenon
<1> QED BY <1>3

\* The bytes of two lists, one behind the other.
LEMMA BytesConcat ==
  ASSUME NEW s \in Seq(Recs), NEW t \in Seq(Recs)
  PROVE  Bytes(s \o t) = Bytes(s) + Bytes(t)
<1> DEFINE u == s \o t
<1>0. /\ Len(s) \in Nat /\ Len(t) \in Nat /\ u \in Seq(Recs) /\ Len(u) = Len(s) + Len(t)
      /\ \A i \in 1 .. Len(s) : u[i] = s[i]
      /\ \A i \in 1 .. Len(t) : u[Len(s) + i] = t[i]
  OBVIOUS
<1> HIDE DEF u
<1> DEFINE S == {n \in Nat : n <= Len(t) => Sum(u)[Len(s) + n] = Sum(s)[Len(s)] + Sum(t)[n]}
<1>1. 0 \in S
  <2>1. Sum(t)[0] = 0
    BY <1>0, SumDef
  <2>2. Sum(u)[Len(s)] = Sum(s)[Len(s)]
    <3>1. Len(s) <= Len(u) /\ Len(s) <= Len(s)
      BY <1>0
    <3> QED BY <1>0, <3>1, SumAgrees, Zenon
  <2>3. Sum(s)[Len(s)] \in Nat
    BY <1>0, SumGrows
  <2> QED BY <1>0, <2>1, <2>2, <2>3
<1>2. ASSUME NEW n \in Nat, n \in S PROVE n + 1 \in S
  <2> SUFFICES ASSUME n + 1 <= Len(t)
               PROVE  Sum(u)[Len(s) + (n + 1)] = Sum(s)[Len(s)] + Sum(t)[n + 1]
    OBVIOUS
  <2> DEFINE j == Len(s) + (n + 1)
  <2>1. /\ n + 1 \in 0 .. Len(t) /\ n + 1 \in 1 .. Len(t) /\ n + 1 # 0 /\ (n + 1) - 1 = n /\ n \in 0 .. Len(t)
        /\ j \in 0 .. Len(u) /\ j # 0 /\ j - 1 = Len(s) + n
    BY <1>0
  <2>2. u[j] = t[n + 1]
    BY <1>0, <2>1, Zenon
  <2> HIDE DEF j
  <2>3. Sum(u)[j] = Sum(u)[Len(s) + n] + RecLen[t[n + 1].name]
    <3>1. Sum(u)[j] = Sum(u)[j - 1] + RecLen[u[j].name]
      BY <1>0, <2>1, SumDef, ZenonT(30)
    <3> QED BY <2>1, <2>2, <3>1, Zenon
  <2>4. Sum(t)[n + 1] = Sum(t)[n] + RecLen[t[n + 1].name]
    BY <2>1, SumDef, ZenonT(30)
  <2>5. Sum(u)[Len(s) + n] = Sum(s)[Len(s)] + Sum(t)[n]
    BY <1>0, <1>2, <2>1
  <2>6. t[n + 1] \in Recs
    BY <2>1
  <2>7. Sum(s)[Len(s)] \in Nat /\ Sum(t)[n] \in Nat /\ RecLen[t[n + 1].name] \in Nat
    BY <1>0, <2>1, <2>6, SumGrows, RecLenType
  <2> QED BY ONLY <2>3, <2>4, <2>5, <2>7, SMTT(30) DEF j
<1>3. Nat \subseteq S
  <2> HIDE DEF S
  <2> QED BY <1>1, <1>2, NatSet, Zenon
<1>4. Len(t) \in S
  BY <1>0, <1>3
<1>5. Sum(u)[Len(u)] = Sum(s)[Len(s)] + Sum(t)[Len(t)]
  BY <1>0, <1>4
<1> QED BY <1>5, BytesSum, Zenon DEF u

\* A list has more bytes than what it begins with.
LEMMA BytesOfPrefix ==
  ASSUME NEW s \in Seq(Recs), NEW m \in 1 .. Len(s)
  PROVE  /\ Bytes(s) \in Nat
         /\ m < Len(s) => Bytes(SubSeq(s, 1, m)) < Bytes(s)
<1> DEFINE t == SubSeq(s, 1, m)
<1>0. Len(s) \in Nat /\ t \in Seq(Recs) /\ Len(t) = m /\ \A i \in 1 .. m : t[i] = s[i]
  OBVIOUS
<1> HIDE DEF t
<1>1. Bytes(t) = Sum(s)[m]
  <2>1. m <= Len(t) /\ m <= Len(s) /\ m \in Nat
    BY <1>0
  <2>2. Sum(t)[m] = Sum(s)[m]
    BY <1>0, <2>1, SumAgrees
  <2> QED BY <1>0, <2>2, BytesSum
<1> QED BY <1>0, <1>1, BytesSum, SumGrows DEF t

-----------------------------------------------------------------------------
(* The list of entries                                                     *)

\* The cursor is the index of the entry with that number, 0 if there is none.
LEMMA CursorIndex ==
  ASSUME TypeOK, Order, NEW off
  PROVE  \/ Cursor(off) \in 1 .. Len(dentry) /\ dentry[Cursor(off)].seq = off
         \/ Cursor(off) = 0 /\ \A i \in 1 .. Len(dentry) : dentry[i].seq # off
<1> DEFINE I == {i \in 1 .. Len(dentry) : dentry[i].seq = off}
<1>1. Cursor(off) = IF I # {} THEN Min(I) ELSE 0
  BY Zenon DEF Cursor
<1>2. CASE I = {}
  BY <1>1, <1>2
<1>3. CASE I # {}
  <2>1. PICK k \in I : \A i \in I : k <= i
    <3>1. I \in SUBSET Nat
      BY DEF TypeOK
    <3> HIDE DEF I
    <3> QED BY <1>3, <3>1, Least
  <2>2. Min(I) \in I
    BY <2>1, Zenon DEF Min
  <2> QED BY <1>1, <1>3, <2>2
<1> QED BY <1>2, <1>3

\* A call copies a run of the list that begins at the cursor: up to the end of
\* the list, or until the buffer is exactly full.
LEMMA CopiedRun ==
  ASSUME TypeOK, NEW k \in 1 .. Len(dentry), NEW resid
  PROVE  \E m \in k .. Len(dentry) :
           /\ Copied(k, resid) = SubSeq(dentry, k, m)
           /\ m = Len(dentry) \/ Bytes(SubSeq(dentry, k, m)) = resid
<1> DEFINE full == {n \in k .. Len(dentry) : Bytes(SubSeq(dentry, k, n)) = resid}
           last == IF full = {} THEN Len(dentry) ELSE CHOOSE n \in full : \A m \in full : n <= m
<1>0. Len(dentry) \in Nat
  BY DEF TypeOK
<1>1. Copied(k, resid) = SubSeq(dentry, k, last)
  BY DEF Copied
<1>2. CASE full = {}
  BY <1>0, <1>1, <1>2
<1>3. CASE full # {}
  <2>1. PICK n \in full : \A m \in full : n <= m
    <3>1. full \in SUBSET Nat
      BY <1>0
    <3> HIDE DEF full
    <3> QED BY <1>3, <3>1, Least
  <2>2. last \in full
    <3> HIDE DEF full
    <3> QED BY <1>3, <2>1, Zenon
  <2> HIDE DEF last
  <2> QED BY <1>1, <2>2
<1> QED BY <1>2, <1>3

\* The number of an entry.
LEMMA EntryNum ==
  ASSUME TypeOK, NEW i \in 1 .. Len(dentry)
  PROVE  dentry[i] \in Entries /\ dentry[i].seq \in SEQ_START .. MaxSeq - 1 /\ dentry[i].seq \in Int
<1>1. dentry[i] \in Entries
  BY DEF TypeOK
<1>2. dentry[i].seq \in SEQ_START .. MaxSeq - 1
  BY <1>1 DEF Entries
<1> QED BY <1>1, <1>2, ReaddirAssumption DEF SEQ_START

\* What a run of the list is.
LEMMA RunFacts ==
  ASSUME TypeOK, NEW k \in 1 .. Len(dentry), NEW m \in k .. Len(dentry)
  PROVE  LET got == SubSeq(dentry, k, m)
         IN  /\ got \in Seq(Entries) /\ got # <<>> /\ got[Len(got)] = dentry[m]
             /\ \A e : e \in Range(got) <=> \E i \in k .. m : e = dentry[i]
<1> DEFINE got == SubSeq(dentry, k, m)
<1>0. dentry \in Seq(Entries) /\ Len(dentry) \in Nat
  BY DEF TypeOK
<1>1. /\ got \in Seq(Entries) /\ Len(got) = m - k + 1
      /\ \A i \in 1 .. m - k + 1 : got[i] = dentry[k + i - 1]
  BY <1>0, SMTT(30)
<1> HIDE DEF got
<1>2. got # <<>> /\ got[Len(got)] = dentry[m]
  BY <1>0, <1>1
<1>3. \A e : e \in Range(got) <=> \E i \in k .. m : e = dentry[i]
  <2> TAKE e
  <2>1. ASSUME e \in Range(got) PROVE \E i \in k .. m : e = dentry[i]
    <3>1. PICK j \in 1 .. m - k + 1 : e = got[j]
      BY <1>1, <2>1 DEF Range
    <3>2. k + j - 1 \in k .. m /\ e = dentry[k + j - 1]
      BY <1>0, <1>1, <3>1
    <3> QED BY <3>2
  <2>2. ASSUME NEW i \in k .. m, e = dentry[i] PROVE e \in Range(got)
    <3>1. i - k + 1 \in 1 .. m - k + 1 /\ k + (i - k + 1) - 1 = i
      BY <1>0
    <3>2. e = got[i - k + 1]
      BY <1>1, <2>2, <3>1, Zenon
    <3> QED BY <1>1, <3>1, <3>2 DEF Range
  <2> QED BY <2>1, <2>2
<1> QED BY <1>1, <1>2, <1>3 DEF got

-----------------------------------------------------------------------------
(* The steps                                                               *)

Run(k, m) == SubSeq(dentry, k, m)

\* A call of readdir finds no entry at its offset, or copies a run from there.
LEMMA ReadCases ==
  ASSUME TypeOK, Order, NEW n, Read(n)
  PROVE  \/ /\ records' = Dots(offset) /\ offset' = AfterDots(offset)
            /\ again' = {} /\ seen' = seen
            /\ offset \in {SEQ_DOT, SEQ_DOTDOT} => dentry = <<>>
         \/ \E k \in 1 .. Len(dentry) : \E m \in k .. Len(dentry) :
              /\ dentry[k].seq = AfterDots(offset)
              /\ records' = Dots(offset) \o Run(k, m) /\ offset' = dentry[m].seq
              /\ again' = Range(Run(k, m)) \cap seen /\ seen' = seen \cup Range(Run(k, m))
              /\ m = Len(dentry) \/ Bytes(Run(k, m)) = n - Bytes(Dots(offset))
<1> DEFINE off == AfterDots(offset)
           k == Cursor(off)
           got == IF k = 0 THEN <<>> ELSE Copied(k, n - Bytes(Dots(offset)))
<1>1. /\ records' = Dots(offset) \o got
      /\ offset' = IF got = <<>> THEN off ELSE got[Len(got)].seq
      /\ again' = Range(got) \cap seen /\ seen' = seen \cup Range(got)
  BY Zenon DEF Read
<1>2. CASE k = 0
  <2>1. got = <<>> /\ Range(got) = {}
    BY <1>2 DEF Range
  <2>2. \A i \in 1 .. Len(dentry) : dentry[i].seq # off
    BY <1>2, CursorIndex
  <2>3. ASSUME offset \in {SEQ_DOT, SEQ_DOTDOT}, dentry # <<>> PROVE FALSE
    <3>1. off = dentry[1].seq
      BY <2>3, Zenon DEF AfterDots, SEQ_DOT, SEQ_DOTDOT
    <3>2. 1 \in 1 .. Len(dentry)
      BY <2>3 DEF TypeOK
    <3> QED BY <2>2, <3>1, <3>2, Zenon
  <2>4. Dots(offset) \o <<>> = Dots(offset)
    BY DEF Dots
  <2> HIDE DEF got, off
  <2>5. records' = Dots(offset) /\ offset' = off /\ again' = {} /\ seen' = seen
    BY <1>1, <2>1, <2>4
  <2> QED BY <2>3, <2>5 DEF off
<1>3. CASE k # 0
  <2>1. k \in 1 .. Len(dentry) /\ dentry[k].seq = off
    BY <1>3, CursorIndex, Zenon
  <2> HIDE DEF k
  <2>2. PICK m \in k .. Len(dentry) :
          /\ Copied(k, n - Bytes(Dots(offset))) = Run(k, m)
          /\ m = Len(dentry) \/ Bytes(Run(k, m)) = n - Bytes(Dots(offset))
    BY <2>1, CopiedRun, Zenon DEF Run
  <2>3. got = Run(k, m)
    BY <1>3, <2>2
  <2>4. Run(k, m) # <<>> /\ Run(k, m)[Len(Run(k, m))] = dentry[m]
    BY <2>1, RunFacts, SMTT(30) DEF Run
  <2> HIDE DEF got
  <2>5. /\ records' = Dots(offset) \o Run(k, m) /\ offset' = dentry[m].seq
        /\ again' = Range(Run(k, m)) \cap seen /\ seen' = seen \cup Range(Run(k, m))
    BY <1>1, <2>3, <2>4
  <2> QED BY <2>1, <2>2, <2>5, Zenon
<1> QED BY <1>2, <1>3, Zenon

LEMMA DotsType == \A off : Dots(off) \in Seq(Recs)
<1> PICK d, dd : d = [name |-> ".", seq |-> SEQ_DOT] /\ dd = [name |-> "..", seq |-> SEQ_DOTDOT]
  BY Zenon
<1>1. /\ \A off : Dots(off) = <<d, dd>> \/ Dots(off) = <<dd>> \/ Dots(off) = <<>>
      /\ Dots(SEQ_DOT) = <<d, dd>>
  BY DEF Dots, SEQ_DOT, SEQ_DOTDOT
<1>2. d \in Dot /\ dd \in Dot
  <2>1. <<d, dd>>[1] = d /\ <<d, dd>>[2] = dd /\ DOMAIN <<d, dd>> = 1 .. 2
    OBVIOUS
  <2>2. 1 \in 1 .. 2 /\ 2 \in 1 .. 2
    OBVIOUS
  <2> QED BY <1>1, <2>1, <2>2, Zenon DEF Dot, Range
<1>3. d \in Recs /\ dd \in Recs
  BY <1>2, Zenon DEF Recs
<1>4. <<d, dd>> \in Seq(Recs) /\ <<dd>> \in Seq(Recs) /\ <<>> \in Seq(Recs)
  BY <1>3
<1> QED BY <1>1, <1>4, Zenon

LEMMA BytesNat == ASSUME NEW s \in Seq(Recs) PROVE Bytes(s) \in Nat
  BY BytesSum, SumGrows

\* A new entry goes in front, with a number above all others.
LEMMA AttachInv ==
  ASSUME IInv, NEW name \in Names, Attach(name)
  PROVE  IInv'
<1> USE ReaddirAssumption
<1> DEFINE new == [name |-> name, seq |-> lastseq]
<1>0. /\ dentry \in Seq(Entries) /\ Len(dentry) \in Nat /\ lastseq \in SEQ_START .. MaxSeq
      /\ lastseq < MaxSeq /\ lastseq' = lastseq + 1
  BY DEF IInv, TypeOK, Attach
<1>1. new \in Entries /\ new.seq = lastseq
  BY <1>0 DEF Entries
<1>2. dentry' = <<new>> \o dentry
  BY Zenon DEF Attach
<1> HIDE DEF new
<1>3. /\ dentry' \in Seq(Entries) /\ Len(dentry') = Len(dentry) + 1 /\ dentry'[1] = new
      /\ \A i \in 2 .. Len(dentry) + 1 : dentry'[i] = dentry[i - 1]
  BY <1>0, <1>1, <1>2
<1>4. UNCHANGED <<offset, error, records, nbytes, count, seen, again, stayed>>
  BY Zenon DEF Attach, reader
<1>5. lastseq' \in SEQ_START .. MaxSeq
  BY <1>0 DEF SEQ_START
<1>6. stayed \subseteq Range(dentry')
  <2> SUFFICES ASSUME NEW e \in stayed PROVE e \in Range(dentry')
    BY Zenon
  <2>1. PICK i \in 1 .. Len(dentry) : e = dentry[i]
    BY <1>0 DEF IInv, TypeOK, Range
  <2>2. i + 1 \in 2 .. Len(dentry) + 1 /\ (i + 1) - 1 = i /\ i + 1 \in 1 .. Len(dentry')
    BY <1>0, <1>3
  <2>3. dentry'[i + 1] = e
    BY <1>3, <2>1, <2>2
  <2> QED BY <1>3, <2>2, <2>3 DEF Range
<1>7. TypeOK'
  BY <1>3, <1>4, <1>5, <1>6, SMTT(30) DEF IInv, TypeOK, Entries, Dots
<1>8. Order'
  <2>1. \A i \in 1 .. Len(dentry) : dentry[i].seq \in Int
    BY EntryNum DEF IInv
  <2>2. ASSUME NEW i \in 1 .. Len(dentry') PROVE dentry'[i].seq < lastseq'
    <3>1. CASE i = 1
      BY <1>0, <1>1, <1>3, <3>1 DEF SEQ_START
    <3>2. CASE i # 1
      <4>1. i \in 2 .. Len(dentry) + 1 /\ i - 1 \in 1 .. Len(dentry)
        BY <1>0, <1>3, <3>2
      <4>2. dentry'[i] = dentry[i - 1] /\ dentry[i - 1].seq < lastseq
        BY <1>3, <4>1, Zenon DEF IInv, Order
      <4> QED BY <1>0, <2>1, <4>1, <4>2 DEF SEQ_START
    <3> QED BY <3>1, <3>2
  <2>3. ASSUME NEW i \in 1 .. Len(dentry'), NEW j \in 1 .. Len(dentry'), i < j
        PROVE  dentry'[i].seq > dentry'[j].seq
    <3>1. j \in 2 .. Len(dentry) + 1 /\ j - 1 \in 1 .. Len(dentry)
      BY <1>0, <1>3, <2>3
    <3>2. dentry'[j] = dentry[j - 1] /\ dentry[j - 1].seq < lastseq
      BY <1>3, <3>1, Zenon DEF IInv, Order
    <3>3. CASE i = 1
      BY <1>0, <1>1, <1>3, <2>1, <3>1, <3>2, <3>3 DEF SEQ_START
    <3>4. CASE i # 1
      <4>1. i \in 2 .. Len(dentry) + 1 /\ i - 1 \in 1 .. Len(dentry) /\ i - 1 < j - 1
        BY <1>0, <1>3, <2>3, <3>4
      <4>2. dentry'[i] = dentry[i - 1] /\ dentry[i - 1].seq > dentry[j - 1].seq
        BY <1>3, <3>1, <4>1, Zenon DEF IInv, Order
      <4> QED BY <3>2, <4>2
    <3> QED BY <3>3, <3>4, Zenon
  <2> QED BY <2>2, <2>3 DEF Order
<1>9. Place' /\ NothingSkipped'
  BY <1>4, Zenon DEF IInv, Place, NothingSkipped
<1> QED BY <1>7, <1>8, <1>9 DEF IInv

\* A list without one of its entries.
LEMMA DetachInv ==
  ASSUME IInv, NEW k \in DOMAIN dentry, Detach(k)
  PROVE  IInv'
<1> USE ReaddirAssumption
<1>0. dentry \in Seq(Entries) /\ Len(dentry) \in Nat /\ k \in 1 .. Len(dentry)
  BY DEF IInv, TypeOK
<1>1. dentry' = [i \in 1 .. Len(dentry) - 1 |-> dentry[IF i < k THEN i ELSE i + 1]]
  BY Zenon DEF Detach
<1>2. /\ dentry' \in Seq(Entries) /\ Len(dentry') = Len(dentry) - 1
      /\ \A i \in 1 .. Len(dentry) - 1 : i < k => dentry'[i] = dentry[i]
      /\ \A i \in 1 .. Len(dentry) - 1 : ~(i < k) => dentry'[i] = dentry[i + 1]
  BY <1>0, <1>1
<1>3. UNCHANGED <<lastseq, offset, error, records, nbytes, count, seen, again>>
  BY Zenon DEF Detach, reader
<1>4. stayed' = stayed \ {dentry[k]}
  BY Zenon DEF Detach
<1>5. stayed' \subseteq Range(dentry')
  <2> SUFFICES ASSUME NEW e \in stayed' PROVE e \in Range(dentry')
    OBVIOUS
  <2>1. PICK i \in 1 .. Len(dentry) : e = dentry[i]
    BY <1>0, <1>4 DEF IInv, TypeOK, Range
  <2>2. i # k
    BY <1>4, <2>1, Zenon
  <2>3. CASE i < k
    <3>1. i \in 1 .. Len(dentry') /\ dentry'[i] = e
      BY <1>0, <1>2, <2>1, <2>3
    <3> QED BY <1>2, <3>1 DEF Range
  <2>4. CASE i > k
    <3>1. i - 1 \in 1 .. Len(dentry') /\ dentry'[i - 1] = e
      BY <1>0, <1>2, <2>1, <2>4
    <3> QED BY <1>2, <3>1 DEF Range
  <2> QED BY <1>0, <2>2, <2>3, <2>4
<1>6. TypeOK'
  BY <1>2, <1>3, <1>5, Zenon DEF IInv, TypeOK, Entries, Dots
<1>7. Order'
  <2>1. \A i \in 1 .. Len(dentry) : dentry[i].seq \in Int
    BY EntryNum DEF IInv
  <2>2. ASSUME NEW i \in 1 .. Len(dentry') PROVE dentry'[i].seq < lastseq'
    <3>1. i \in 1 .. Len(dentry) /\ (~(i < k) => i + 1 \in 1 .. Len(dentry))
      BY <1>0, <1>2
    <3> QED BY <1>0, <1>2, <1>3, <3>1, Zenon DEF IInv, Order
  <2>3. ASSUME NEW i \in 1 .. Len(dentry'), NEW j \in 1 .. Len(dentry'), i < j
        PROVE  dentry'[i].seq > dentry'[j].seq
    <3> DEFINE Old(n) == IF n < k THEN n ELSE n + 1
    <3>1. /\ Old(i) \in 1 .. Len(dentry) /\ Old(j) \in 1 .. Len(dentry) /\ Old(i) < Old(j)
      BY <1>0, <1>2, <2>3
    <3>2. dentry'[i] = dentry[Old(i)] /\ dentry'[j] = dentry[Old(j)]
      BY <1>0, <1>2, Zenon
    <3> HIDE DEF Old
    <3> QED BY <3>1, <3>2, Zenon DEF IInv, Order
  <2> QED BY <2>2, <2>3, Zenon DEF Order
<1>8. Place' /\ NothingSkipped'
  BY <1>3, <1>4, Zenon DEF IInv, Place, NothingSkipped
<1> QED BY <1>6, <1>7, <1>8 DEF IInv

\* A reader that begins.
LEMMA BeginInv ==
  ASSUME IInv, Begin
  PROVE  IInv'
<1> USE ReaddirAssumption DEF SEQ_DOT, SEQ_DOTDOT, SEQ_EOF, SEQ_START
<1>1. /\ offset' = 0 /\ error' = "0" /\ records' = <<>> /\ nbytes' = 0 /\ count' = 0
      /\ seen' = {} /\ again' = {} /\ stayed' = Range(dentry) /\ UNCHANGED <<dentry, lastseq>>
  BY DEF Begin
<1>2. TypeOK'
  BY <1>1 DEF IInv, TypeOK, Range, Entries, Dots
<1>3. Order' /\ Place' /\ NothingSkipped'
  BY <1>1 DEF IInv, Order, Place, NothingSkipped
<1> QED BY <1>2, <1>3 DEF IInv

\* Numbers go down along the list.
LEMMA NumberedIndex ==
  ASSUME TypeOK, Order, NEW i \in 1 .. Len(dentry), NEW m \in 1 .. Len(dentry)
  PROVE  dentry[i].seq >= dentry[m].seq <=> i <= m
<1>1. dentry[i].seq \in Int /\ dentry[m].seq \in Int
  BY EntryNum
<1>2. i < m => dentry[i].seq > dentry[m].seq
  BY Zenon DEF Order
<1>3. m < i => dentry[m].seq > dentry[i].seq
  BY DEF Order
<1>4. Len(dentry) \in Nat
  BY DEF TypeOK
<1> QED BY <1>1, <1>2, <1>3, <1>4

\* The offset behind "..", and where the reader's entries are.
LEMMA OffsetFacts ==
  ASSUME IInv
  PROVE  /\ AfterDots(offset) \in 0 .. MaxSeq - 1
         /\ offset \in {SEQ_DOT, SEQ_DOTDOT} => seen = {}
         /\ offset \in {SEQ_DOT, SEQ_DOTDOT} =>
              \/ dentry = <<>> /\ AfterDots(offset) = SEQ_EOF
              \/ dentry # <<>> /\ AfterDots(offset) = dentry[1].seq
         /\ offset \notin {SEQ_DOT, SEQ_DOTDOT} => AfterDots(offset) = offset
<1> USE ReaddirAssumption DEF SEQ_DOT, SEQ_DOTDOT, SEQ_EOF, SEQ_START
<1>1. offset \in 0 .. MaxSeq - 1
  BY Zenon DEF IInv, TypeOK
<1>2. dentry # <<>> => dentry[1].seq \in 3 .. MaxSeq - 1
  <2>1. dentry # <<>> => 1 \in 1 .. Len(dentry)
    BY DEF IInv, TypeOK
  <2> QED BY <2>1, EntryNum DEF IInv
<1>3. offset \in {0, 1} => seen = {}
  BY DEF IInv, Place
<1>4. CASE offset \notin {0, 1}
  <2>1. AfterDots(offset) = offset
    BY <1>4, Zenon DEF AfterDots
  <2> QED BY <1>1, <1>4, <2>1, Zenon
<1>5. CASE offset \in {0, 1} /\ dentry = <<>>
  <2>1. AfterDots(offset) = 2
    BY <1>5 DEF AfterDots
  <2>2. 2 \in 0 .. MaxSeq - 1
    OBVIOUS
  <2>3. AfterDots(offset) \in 0 .. MaxSeq - 1
    BY <2>1, <2>2
  <2>4. seen = {}
    BY <1>3, <1>5
  <2> QED BY <1>5, <2>1, <2>3, <2>4, Zenon
<1>6. CASE offset \in {0, 1} /\ dentry # <<>>
  <2>1. AfterDots(offset) = dentry[1].seq
    BY <1>6, Zenon DEF AfterDots
  <2> QED BY <1>2, <1>3, <1>6, <2>1
<1> QED BY <1>4, <1>5, <1>6

\* A call of readdir.
LEMMA ReadInv ==
  ASSUME IInv, NEW n \in BufSizes, Read(n)
  PROVE  IInv'
<1> USE ReaddirAssumption
<1>0. /\ UNCHANGED <<dentry, lastseq, stayed>> /\ nbytes' = n /\ count' = Bytes(records')
      /\ error' \in {"0", "EINVAL"}
  BY DEF Read
<1>1. TypeOK /\ Order
  BY DEF IInv
<1>2. ASSUME records' = Dots(offset), offset' = AfterDots(offset), again' = {}, seen' = seen,
             offset \in {SEQ_DOT, SEQ_DOTDOT} => dentry = <<>>
      PROVE  IInv'
  <2>1. records' \in Seq(Recs)
    BY <1>2, DotsType
  <2>2. count' \in Nat
    BY <1>0, <2>1, BytesNat
  <2>3. TypeOK'
    BY <1>0, <1>1, <1>2, <2>1, <2>2, OffsetFacts, SMTT(30) DEF TypeOK, Recs, Dot, Entries, Dots
  <2>4. Order'
    BY <1>0, <1>1 DEF Order
  <2>5. Place'
    BY <1>2, OffsetFacts DEF IInv, Place, SEQ_START
  <2>6. dentry = <<>> => stayed = {}
    BY <1>1 DEF TypeOK, Range
  <2>7. NothingSkipped'
    BY <1>0, <1>2, <2>6, OffsetFacts, Zenon DEF IInv, NothingSkipped, SEQ_EOF, SEQ_START
  <2> QED BY <2>3, <2>4, <2>5, <2>7 DEF IInv
<1>3. ASSUME NEW k \in 1 .. Len(dentry), NEW m \in k .. Len(dentry),
             dentry[k].seq = AfterDots(offset),
             records' = Dots(offset) \o Run(k, m), offset' = dentry[m].seq,
             again' = Range(Run(k, m)) \cap seen, seen' = seen \cup Range(Run(k, m))
      PROVE  IInv'
  <2>0. Len(dentry) \in Nat /\ m \in 1 .. Len(dentry)
    BY <1>1 DEF TypeOK
  <2>1. /\ Run(k, m) \in Seq(Entries)
        /\ \A e : e \in Range(Run(k, m)) <=> \E i \in k .. m : e = dentry[i]
    BY <1>1, RunFacts, Zenon DEF Run
  <2>2. Run(k, m) \in Seq(Recs)
    BY <2>1 DEF Recs
  <2>3. records' \in Seq(Recs)
    BY <1>3, <2>2, DotsType, Concat, Zenon
  <2>4. count' \in Nat
    BY <1>0, <2>3, BytesNat, Zenon
  <2>5. offset' \in SEQ_START .. MaxSeq - 1 /\ offset' \in 0 .. MaxSeq - 1
    BY <1>1, <1>3, <2>0, EntryNum DEF SEQ_START
  <2>6. Range(Run(k, m)) \subseteq Entries
    <3> SUFFICES ASSUME NEW e \in Range(Run(k, m)) PROVE e \in Entries
      BY Zenon
    <3>1. PICK i \in k .. m : e = dentry[i]
      BY <2>1
    <3>2. i \in 1 .. Len(dentry)
      BY <2>0
    <3> QED BY <1>1, <3>1, <3>2, EntryNum, Zenon
  <2>7. TypeOK'
    <3>1. seen' \subseteq Entries /\ again' \subseteq seen'
      BY <1>1, <1>3, <2>6, Zenon DEF TypeOK
    <3>2. records' \in Seq(Entries \cup Range(Dots(SEQ_DOT)))
      BY <2>3, Zenon DEF Recs, Dot
    <3>3. (Dots(SEQ_DOT))' = Dots(SEQ_DOT) /\ Entries' = Entries
      BY Zenon DEF Dots, Entries
    <3> QED BY <1>0, <1>1, <2>4, <2>5, <3>1, <3>2, <3>3, Zenon DEF TypeOK
  <2>8. Order'
    BY <1>0, <1>1 DEF Order
  <2>9. Place'
    <3> SUFFICES ASSUME NEW e \in seen' PROVE offset' >= SEQ_START /\ e.seq >= offset'
      BY Zenon DEF Place
    <3>0. offset' >= SEQ_START
      BY <2>5 DEF SEQ_START
    <3>1. CASE e \in Range(Run(k, m))
      <4>1. PICK i \in k .. m : e = dentry[i]
        BY <2>1, <3>1
      <4>2. i \in 1 .. Len(dentry) /\ i <= m
        BY <2>0
      <4> QED BY <1>1, <1>3, <2>0, <3>0, <4>1, <4>2, NumberedIndex
    <3>2. CASE e \in seen
      <4>1. offset \notin {SEQ_DOT, SEQ_DOTDOT} /\ AfterDots(offset) = offset
        BY <3>2, OffsetFacts, Zenon
      <4>2. e.seq >= dentry[k].seq
        BY <1>3, <3>2, <4>1, Zenon DEF IInv, Place
      <4>3. dentry[k].seq >= dentry[m].seq
        BY <1>1, <2>0, NumberedIndex
      <4>4. e \in Entries
        BY <1>1, <3>2, Zenon DEF TypeOK
      <4>5. e.seq \in Int /\ dentry[k].seq \in Int /\ dentry[m].seq \in Int
        BY <1>1, <2>0, <4>4, EntryNum DEF Entries, SEQ_START
      <4> QED BY <1>3, <3>0, <4>2, <4>3, <4>5
    <3> QED BY <1>3, <3>1, <3>2
  <2>10. NothingSkipped'
    <3>1. offset' # SEQ_EOF
      BY <2>5 DEF SEQ_START, SEQ_EOF
    <3> SUFFICES ASSUME NEW e \in stayed, e.seq >= offset' PROVE e \in seen'
      BY <1>0, <3>1 DEF NothingSkipped
    <3>2. PICK i \in 1 .. Len(dentry) : e = dentry[i]
      BY <1>1 DEF TypeOK, Range
    <3>3. i <= m
      BY <1>1, <1>3, <2>0, <3>2, NumberedIndex, Zenon
    <3>4. CASE k <= i
      <4>1. i \in k .. m
        BY <2>0, <3>3, <3>4
      <4> QED BY <1>3, <2>1, <3>2, <4>1, Zenon
    <3>5. CASE i < k
      <4>1. e.seq >= dentry[k].seq
        BY <1>1, <2>0, <3>2, <3>5, NumberedIndex
      <4>2. ~(1 >= k) /\ dentry # <<>>
        BY <2>0, <3>5
      <4>3. dentry[1].seq # dentry[k].seq
        <5>1. 1 < k /\ 1 \in 1 .. Len(dentry)
          BY <2>0, <4>2
        <5>2. dentry[1].seq > dentry[k].seq
          BY <1>1, <5>1, Zenon DEF Order
        <5>3. dentry[1].seq \in Int /\ dentry[k].seq \in Int
          BY <1>1, <5>1, EntryNum, Zenon
        <5> QED BY <5>2, <5>3
      <4>4. AfterDots(offset) = offset
        BY <1>3, <4>2, <4>3, OffsetFacts, Zenon
      <4>5. offset >= SEQ_START
        BY <1>1, <1>3, <4>4, EntryNum DEF SEQ_START
      <4> QED BY <1>3, <4>1, <4>4, <4>5 DEF IInv, NothingSkipped
    <3> QED BY <2>0, <3>4, <3>5
  <2> QED BY <2>7, <2>8, <2>9, <2>10, Zenon DEF IInv
<1> QED BY <1>1, <1>2, <1>3, ReadCases, Zenon

-----------------------------------------------------------------------------
(* The theorems                                                            *)

LEMMA InitInv == Init => IInv
<1> SUFFICES ASSUME Init PROVE IInv
  OBVIOUS
<1> USE ReaddirAssumption DEF SEQ_DOT, SEQ_DOTDOT, SEQ_EOF, SEQ_START
<1>1. TypeOK
  BY DEF Init, TypeOK, Range
<1>2. Order /\ Place /\ NothingSkipped
  BY DEF Init, Order, Place, NothingSkipped
<1> QED BY <1>1, <1>2 DEF IInv

LEMMA StepInv == IInv /\ [Next]_vars => IInv'
<1> SUFFICES ASSUME IInv, [Next]_vars PROVE IInv'
  BY Zenon
<1>1. CASE UNCHANGED vars
  BY <1>1, Zenon DEF vars, reader, IInv, TypeOK, Order, Place, NothingSkipped, Entries, Dots
<1> QED
  BY <1>1, AttachInv, DetachInv, BeginInv, ReadInv DEF Next

\* The numbers of the entries go down along the list, whatever is attached and
\* removed, and what a reader was given has numbers from its offset on.
THEOREM Invariance == Spec => []IInv
  BY InitInv, StepInv, PTL DEF Spec

\* A reader is given every entry that is there since it began, up to its
\* offset, for any number of entries and any buffers.
THEOREM NoEntrySkipped == Spec => []NothingSkipped
<1>1. IInv => NothingSkipped
  BY Zenon DEF IInv
<1> QED BY <1>1, Invariance, PTL

\* The only entry that a reader is given again is the one at its offset.
THEOREM CursorOnlyAgain == Spec => OnlyCursorAgain
<1> DEFINE A == again' \subseteq {e \in seen : e.seq = offset}
           v == <<records, nbytes, offset, again, seen>>
<1>1. ASSUME IInv, [Next]_vars PROVE [A]_v
  <2>1. CASE UNCHANGED vars
    BY <2>1 DEF vars, reader
  <2>2. ASSUME NEW name \in Names, Attach(name) PROVE [A]_v
    BY <2>2 DEF Attach, reader
  <2>3. ASSUME NEW k \in DOMAIN dentry, Detach(k) PROVE [A]_v
    BY <2>3 DEF Detach, reader
  <2>4. CASE Begin
    BY <2>4 DEF Begin
  <2>5. ASSUME NEW n \in BufSizes, Read(n) PROVE A
    <3>0. TypeOK /\ Order
      BY <1>1 DEF IInv
    <3>1. CASE again' = {}
      BY <3>1
    <3>2. ASSUME NEW k \in 1 .. Len(dentry), NEW m \in k .. Len(dentry),
                 dentry[k].seq = AfterDots(offset), again' = Range(Run(k, m)) \cap seen
          PROVE  A
      <4> SUFFICES ASSUME NEW e \in again' PROVE e \in seen /\ e.seq = offset
        BY Zenon
      <4>1. PICK i \in k .. m : e = dentry[i]
        BY <3>0, <3>2, RunFacts DEF Run
      <4>2. i \in 1 .. Len(dentry) /\ k <= i
        BY <3>0 DEF TypeOK
      <4>3. e \in seen /\ AfterDots(offset) = offset
        BY <1>1, <3>2, OffsetFacts, Zenon
      <4>4. e.seq >= offset
        BY <1>1, <4>3, Zenon DEF IInv, Place
      <4>5. dentry[k].seq >= e.seq
        BY <3>0, <4>1, <4>2, NumberedIndex, Zenon
      <4>6. dentry[k].seq \in Int /\ e.seq \in Int
        BY <3>0, <4>1, <4>2, EntryNum
      <4> QED BY <3>2, <4>3, <4>4, <4>5, <4>6
    <3> QED BY <2>5, <3>0, <3>1, <3>2, ReadCases
  <2> QED BY <1>1, <2>1, <2>2, <2>3, <2>4, <2>5 DEF Next
<1>2. IInv /\ [Next]_vars => [again' \subseteq {e \in seen : e.seq = offset}]_<<records, nbytes, offset, again, seen>>
  BY <1>1, Zenon
<1> QED BY <1>2, Invariance, PTL DEF Spec, OnlyCursorAgain

\* printdir(), with a buffer for all the records, is given ".", ".." and every
\* entry of the list once, and no more bytes than the buffer has, for all
\* lengths of records: the loop of ramfs_readdir() cannot stop early, since a
\* part of the list never has as many bytes as the whole.
THEOREM PrintdirIsComplete == Spec => PrintdirComplete
<1> DEFINE A == \A n \in BufSizes :
                  Read(n) /\ offset = SEQ_DOT /\ n >= Bytes(Dots(SEQ_DOT) \o dentry) =>
                    /\ records' = Dots(SEQ_DOT) \o dentry
                    /\ count' = Bytes(records') /\ count' <= n
<1>1. ASSUME IInv PROVE A
  <2> SUFFICES ASSUME NEW n \in BufSizes, Read(n), offset = SEQ_DOT,
                      n >= Bytes(Dots(SEQ_DOT) \o dentry)
               PROVE  /\ records' = Dots(SEQ_DOT) \o dentry
                      /\ count' = Bytes(records') /\ count' <= n
    BY Zenon
  <2>0. TypeOK /\ Order /\ n \in Nat
    BY <1>1, ReaddirAssumption DEF IInv
  <2>1. dentry \in Seq(Recs) /\ Dots(SEQ_DOT) \in Seq(Recs) /\ Len(dentry) \in Nat
    BY <2>0, DotsType DEF TypeOK, Recs
  <2>2. ASSUME records' = Dots(offset), dentry = <<>> PROVE records' = Dots(SEQ_DOT) \o dentry
    BY <2>1, <2>2, ConcatNothing
  <2>3. ASSUME NEW k \in 1 .. Len(dentry), NEW m \in k .. Len(dentry),
               dentry[k].seq = AfterDots(offset), records' = Dots(offset) \o Run(k, m),
               m = Len(dentry) \/ Bytes(Run(k, m)) = n - Bytes(Dots(offset))
        PROVE  records' = Dots(SEQ_DOT) \o dentry
    <3>1. dentry # <<>> /\ 1 \in 1 .. Len(dentry)
      BY <2>1
    <3>2. dentry[k].seq = dentry[1].seq
      BY <1>1, <2>3, <3>1, OffsetFacts
    <3>3. k = 1
      <4>1. dentry[k].seq >= dentry[1].seq <=> k <= 1
        BY <2>0, <3>1, NumberedIndex
      <4>2. dentry[1].seq \in Int
        BY <2>0, <3>1, EntryNum
      <4> QED BY <2>1, <3>2, <4>1, <4>2
    <3>4. Bytes(Dots(SEQ_DOT)) \in Nat /\ Bytes(dentry) \in Nat
      BY <2>1, BytesNat
    <3>5. n - Bytes(Dots(SEQ_DOT)) >= Bytes(dentry)
      BY <2>0, <2>1, <3>4, BytesConcat
    <3>6. m \in 1 .. Len(dentry)
      BY <2>1, <3>3, Zenon
    <3>7. m < Len(dentry) => Bytes(Run(1, m)) < Bytes(dentry)
      BY <2>1, <3>6, BytesOfPrefix, Zenon DEF Run
    <3>8. m = Len(dentry)
      <4> SUFFICES ASSUME m # Len(dentry) PROVE FALSE
        BY Zenon
      <4>1. Bytes(Run(1, m)) = n - Bytes(Dots(SEQ_DOT)) /\ Bytes(Run(1, m)) < Bytes(dentry)
        BY <2>1, <2>3, <3>3, <3>6, <3>7
      <4> QED BY <2>0, <3>4, <3>5, <4>1
    <3>9. Run(1, Len(dentry)) = dentry
      BY <2>1, WholeRun DEF Run
    <3> QED BY <2>3, <3>3, <3>8, <3>9
  <2>4. records' = Dots(SEQ_DOT) \o dentry
    BY <2>0, <2>2, <2>3, ReadCases, Zenon
  <2>5. count' = Bytes(records')
    BY Zenon DEF Read
  <2>6. n >= count'
    BY <2>4, <2>5
  <2>7. count' \in Nat
    BY <2>1, <2>4, <2>5, BytesNat, Concat, Zenon
  <2> QED BY <2>0, <2>4, <2>5, <2>6, <2>7
<1>2. IInv /\ [Next]_vars =>
        [\A n \in BufSizes :
           Read(n) /\ offset = SEQ_DOT /\ n >= Bytes(Dots(SEQ_DOT) \o dentry) =>
             /\ records' = Dots(SEQ_DOT) \o dentry
             /\ count' = Bytes(records') /\ count' <= n]_vars
  BY <1>1
<1> QED BY <1>2, Invariance, PTL DEF Spec, PrintdirComplete

=============================================================================

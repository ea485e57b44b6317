----------------------------- MODULE ExecProofs ----------------------------
(***************************************************************************)
(* Programs are kept apart and share the kernel: Isolation and             *)
(* KernelShared of Vmm, for every size of memory and of tables, every      *)
(* layout of the kernel that the linker script allows, every set of        *)
(* programs and any number of calls of exec().                             *)
(*                                                                         *)
(* Isolation: the ghost "home" says, of every frame that is a table or a   *)
(* page of a program, from which entry of which table it is reached.  As   *)
(* long as every entry agrees with it (Inv), two ways to a frame are one.  *)
(*                                                                         *)
(* KernelShared: the pages that init_vm() maps have different indices, so  *)
(* that mappage2() never finds one of them present; entries of tables are  *)
(* never changed; and newvm_map() copies the upper half of the top level,  *)
(* which by then is complete, so later tables below it are shared.         *)
(***************************************************************************)
EXTENDS Exec, TLAPS

\* The entries that home speaks about: all but the leaves of the kernel, which
\* map everything, and the upper half that a program shares with the kernel.
Owned(t, j) ==
  /\ home[t].map > 1 \/ home[t].level > 1
  /\ home[t].map > 1 /\ home[t].level = 4 => j \in Lower

\* Every owned entry leads to a frame whose home is that entry.
Tree ==
  \A t \in DOMAIN mem : \A j \in DOMAIN mem[t] : Owned(t, j) =>
    /\ mem[t][j].addr \in DOMAIN home
    /\ home[mem[t][j].addr] = Home(home[t].map, home[t].level - 1, t, j)

\* Frames with a home are allocated, and those above level 0 are the tables.
Homes ==
  /\ used \subseteq Frames /\ DOMAIN home \subseteq used /\ DOMAIN mem \subseteq DOMAIN home
  /\ \A f \in DOMAIN home : /\ home[f].level \in 0 .. 4 /\ home[f].map \in 1 .. Len(tops)
                            /\ f \in DOMAIN mem <=> home[f].level # 0

Tops ==
  /\ tops \in Seq(Frames)
  /\ \A k \in DOMAIN tops : tops[k] \in DOMAIN mem /\ home[tops[k]] = Home(k, 4, 0, 0)

\* va2pte() is at a table of the map that is being changed.
Walking ==
  /\ level \in 1 .. 4 /\ (todo = <<>> => level = 4)
  /\ tops = <<>> => todo = <<>>
  /\ tops # <<>> => cur \in DOMAIN mem /\ home[cur].map = Len(tops) /\ home[cur].level = level

\* The pages that wait to be mapped in a program are allocated, have no home
\* yet, and are different.
Todo ==
  /\ todo \in Seq([va : Int, pa : Int, flags : SUBSET {"RW", "USER", "NX"}])
  /\ Len(tops) > 1 =>
       /\ \A a \in DOMAIN todo : /\ Index(todo[a].va, 4) \in Lower
                                 /\ todo[a].pa \in used \ DOMAIN home
       /\ \A a, b \in DOMAIN todo : todo[a].pa = todo[b].pa => a = b

Control ==
  /\ pc \in {"off", "kernel", "idle", "phdrs", "read", "args", "ptrs", "switch", "wild"}
  /\ pc \in {"off", "idle", "phdrs", "ptrs", "switch", "wild"} => todo = <<>>
  /\ pc \in {"off", "kernel"} => Len(tops) <= 1
  /\ pc # "off" => tops # <<>>
  /\ pc \in {"phdrs", "read", "args", "ptrs", "switch"} =>
       Len(tops) > 1 /\ prog \in DOMAIN Programs /\ i \in Nat \ {0}

\* The inductive invariant.
Inv == Tree /\ Homes /\ Tops /\ Walking /\ Todo /\ Control

-----------------------------------------------------------------------------
(* The invariant of the tables                                             *)

\* palloc() returns frames that are not allocated.
LEMMA Fresh ==
  ASSUME NEW p \in Frames, palloc(p, 1)
  PROVE  p \notin used
BY DEF palloc, IsRun, Frames

\* The program starts in the invariant.
LEMMA InitInv == InitExec => Inv
<1> SUFFICES ASSUME InitExec PROVE Inv
  BY Zenon
<1>1. DOMAIN mem = {} /\ DOMAIN home = {}
  BY Zenon DEF InitExec, InitVmm, NoTable
<1>2. used \subseteq Frames /\ tops = <<>> /\ todo = <<>> /\ level = 4 /\ pc = "off"
  BY VmmAssumption, Zenon DEF InitExec, InitVmm
<1>3. Tree /\ Homes /\ Tops
  BY <1>1, <1>2 DEF Tree, Homes, Tops
<1>4. Walking /\ Todo /\ Control
  BY <1>2 DEF Walking, Todo, Control
<1> QED BY <1>3, <1>4, Zenon DEF Inv

\* The number of a page, and the number of pages of a segment.
LEMMA Pages ==
  ASSUME NEW n \in Nat
  PROVE  n \div PGSIZE \in Nat /\ DIV_ROUNDUP(n, PGSIZE) \in Nat
<1>1. PGSIZE \in Nat /\ PGSIZE > 0
  BY ExecAssumption
<1>2. n + PGSIZE - 1 \in Nat
  BY <1>1
<1>3. ASSUME NEW a \in Nat, NEW d \in Nat, d > 0 PROVE a \div d \in Nat
  BY <1>3
<1> QED BY <1>1, <1>2, <1>3, Zenon DEF DIV_ROUNDUP

\* Every step keeps the invariant.
LEMMA NextInv == Inv /\ [NextExec]_allVars => Inv'
\* get_next_level() with a new table keeps the tree of tables.
<1>NewTable. ASSUME Inv, tops # <<>>, UNCHANGED tops,
                    NEW p \in Frames, NEW t \in DOMAIN mem, NEW j,
                    j \notin DOMAIN mem[t], home[t].map = Len(tops), home[t].level > 1,
                    NewLevel(p, Len(tops), home[t].level - 1, t, j)
             PROVE  /\ Tree' /\ Homes' /\ Tops'
                    /\ p \notin used /\ used' = used \cup {p} /\ p \in DOMAIN mem'
                    /\ DOMAIN home' = DOMAIN home \cup {p}
                    /\ DOMAIN mem' = DOMAIN mem \cup {p}
                    /\ \A f \in DOMAIN home : home'[f] = home[f]
                    /\ home'[p] = Home(Len(tops), home[t].level - 1, t, j)
  <2> USE <1>NewTable
  <2> DEFINE e == Entry(p, TableFlags)
  <2>1. p \notin used /\ used' = used \cup {p}
    BY Fresh, Zenon DEF NewLevel
  <2>2. p \notin DOMAIN home /\ p \notin DOMAIN mem /\ p # t
    BY <2>1, Zenon DEF Inv, Homes
  <2>3. /\ DOMAIN home' = DOMAIN home \cup {p}
        /\ \A f \in DOMAIN home : home'[f] = home[f]
        /\ home'[p] = Home(Len(tops), home[t].level - 1, t, j)
    BY <2>2, Zenon DEF NewLevel, With
  <2>4. /\ DOMAIN mem' = DOMAIN mem \cup {p}
        /\ \A s \in DOMAIN mem : s # t => mem'[s] = mem[s]
        /\ mem'[t] = With(mem[t], j, e)
        /\ mem'[p] = NoTable
    BY <2>2, Zenon DEF NewLevel, With
  <2>5. DOMAIN mem'[p] = {}
    BY <2>4, Zenon DEF NoTable
  <2>6. DOMAIN mem'[t] = DOMAIN mem[t] \cup {j} /\ mem'[t][j].addr = p
        /\ \A x \in DOMAIN mem[t] : mem'[t][x] = mem[t][x]
    BY <2>4 DEF With, Entry
  <2>7. t \in DOMAIN home /\ DOMAIN mem \subseteq DOMAIN home
    BY Zenon DEF Inv, Homes
  <2>8. Tree'
    <3> SUFFICES ASSUME NEW s \in DOMAIN mem', NEW x \in DOMAIN mem'[s], Owned(s, x)'
                 PROVE  /\ mem'[s][x].addr \in DOMAIN home'
                        /\ home'[mem'[s][x].addr] = Home(home'[s].map, home'[s].level - 1, s, x)
      BY Zenon DEF Tree
    <3>1. s \in DOMAIN mem /\ home'[s] = home[s]
      BY <2>3, <2>4, <2>5, <2>7, Zenon
    <3>2. CASE s = t /\ x = j
      BY <3>1, <3>2, <2>3, <2>6, Zenon
    <3>3. CASE ~(s = t /\ x = j)
      <4>1. x \in DOMAIN mem[s] /\ mem'[s][x] = mem[s][x]
        BY <3>1, <3>3, <2>4, <2>6
      <4>2. Owned(s, x)
        BY <3>1, Zenon DEF Owned
      <4>3. mem[s][x].addr \in DOMAIN home
            /\ home[mem[s][x].addr] = Home(home[s].map, home[s].level - 1, s, x)
        BY <3>1, <4>1, <4>2, Zenon DEF Inv, Tree
      <4> QED BY <4>1, <4>3, <3>1, <2>3, Zenon
    <3> QED BY <3>2, <3>3, Zenon
  <2>9. Homes'
    <3>1. used' \subseteq Frames /\ DOMAIN home' \subseteq used' /\ DOMAIN mem' \subseteq DOMAIN home'
      BY <2>1, <2>3, <2>4, Zenon DEF Inv, Homes
    <3>2. ASSUME NEW f \in DOMAIN home, f # p
          PROVE  /\ home'[f].level \in 0 .. 4 /\ home'[f].map \in 1 .. Len(tops')
                 /\ f \in DOMAIN mem' <=> home'[f].level # 0
      BY <3>2, <2>3, <2>4, Zenon DEF Inv, Homes
    <3>3. home[t].level \in 2 .. 4 /\ Len(tops) \in Nat \ {0}
      BY <2>7 DEF Inv, Homes, Tops
    <3>4. home'[p].level \in 1 .. 3 /\ home'[p].map = Len(tops)
      BY <3>3, <2>3 DEF Home
    <3>5. /\ home'[p].level \in 0 .. 4 /\ home'[p].map \in 1 .. Len(tops')
          /\ p \in DOMAIN mem' <=> home'[p].level # 0
      BY <3>3, <3>4, <2>4
    <3> QED BY <3>1, <3>2, <3>5, <2>3, Zenon DEF Homes
  <2>10. Tops'
    BY <2>3, <2>4, <2>7, Zenon DEF Inv, Tops
  <2> QED BY <2>1, <2>3, <2>4, <2>8, <2>9, <2>10, Zenon
\* A new map: its top level has no entry in the lower half.
<1>NewTop. ASSUME Inv, NEW p \in Frames, p \notin used, NEW T,
                  \A x \in DOMAIN T : tops # <<>> /\ x \notin Lower,
                  used' = used \cup {p}, mem' = With(mem, p, T), tops' = Append(tops, p),
                  home' = With(home, p, Home(Len(tops) + 1, 4, 0, 0))
           PROVE  /\ Tree' /\ Homes' /\ Tops'
                  /\ p \in DOMAIN mem' /\ home'[p] = Home(Len(tops) + 1, 4, 0, 0)
  <2> USE <1>NewTop
  <2>1. p \notin DOMAIN home /\ p \notin DOMAIN mem /\ DOMAIN mem \subseteq DOMAIN home
    BY Zenon DEF Inv, Homes
  <2>2. /\ DOMAIN home' = DOMAIN home \cup {p}
        /\ \A f \in DOMAIN home : home'[f] = home[f]
        /\ home'[p] = Home(Len(tops) + 1, 4, 0, 0)
    BY <2>1, Zenon DEF With
  <2>3. /\ DOMAIN mem' = DOMAIN mem \cup {p}
        /\ \A s \in DOMAIN mem : mem'[s] = mem[s]
        /\ mem'[p] = T
    BY <2>1, Zenon DEF With
  <2>4. tops \in Seq(Frames) /\ Len(tops) \in Nat
    BY DEF Inv, Tops
  <2>5. /\ tops' \in Seq(Frames) /\ Len(tops') = Len(tops) + 1
        /\ DOMAIN tops' = DOMAIN tops \cup {Len(tops) + 1}
        /\ tops'[Len(tops) + 1] = p /\ \A k \in DOMAIN tops : tops'[k] = tops[k]
    BY <2>4
  <2>6. tops # <<>> => Len(tops) > 0
    BY <2>4
  <2>7. Tree'
    <3> SUFFICES ASSUME NEW s \in DOMAIN mem', NEW x \in DOMAIN mem'[s], Owned(s, x)'
                 PROVE  /\ mem'[s][x].addr \in DOMAIN home'
                        /\ home'[mem'[s][x].addr] = Home(home'[s].map, home'[s].level - 1, s, x)
      BY Zenon DEF Tree
    <3>1. CASE s = p
      <4>1. x \in DOMAIN T
        BY <3>1, <2>3, Zenon
      <4>2. home'[s].map = Len(tops) + 1 /\ home'[s].level = 4
        BY <3>1, <2>2 DEF Home
      <4>3. x \notin Lower /\ Len(tops) > 0
        BY <4>1, <2>6, Zenon
      <4>4. x \in Lower'
        BY <4>2, <4>3, <2>4 DEF Owned
      <4> QED BY <4>3, <4>4, Zenon DEF Lower, Idx
    <3>2. CASE s # p
      <4>1. s \in DOMAIN mem /\ home'[s] = home[s] /\ mem'[s] = mem[s]
        BY <3>2, <2>1, <2>2, <2>3, Zenon
      <4>2. Owned(s, x)
        BY <4>1, Zenon DEF Owned
      <4>3. mem[s][x].addr \in DOMAIN home
            /\ home[mem[s][x].addr] = Home(home[s].map, home[s].level - 1, s, x)
        BY <4>1, <4>2, Zenon DEF Inv, Tree
      <4> QED BY <4>1, <4>3, <2>2, Zenon
    <3> QED BY <3>1, <3>2, Zenon
  <2>8. Homes'
    <3>1. used' \subseteq Frames /\ DOMAIN home' \subseteq used' /\ DOMAIN mem' \subseteq DOMAIN home'
      BY <2>2, <2>3, Zenon DEF Inv, Homes
    <3>2. ASSUME NEW f \in DOMAIN home
          PROVE  /\ home'[f].level \in 0 .. 4 /\ home'[f].map \in 1 .. Len(tops')
                 /\ f \in DOMAIN mem' <=> home'[f].level # 0
      <4>1. f # p /\ home'[f] = home[f] /\ home[f].map \in 1 .. Len(tops)
        BY <2>1, <2>2, Zenon DEF Inv, Homes
      <4>2. home[f].map \in 1 .. Len(tops')
        BY <4>1, <2>4, <2>5
      <4> QED BY <4>1, <4>2, <2>3, Zenon DEF Inv, Homes
    <3>3. home'[p].level = 4 /\ home'[p].map = Len(tops')
      BY <2>2, <2>5 DEF Home
    <3>4. /\ home'[p].level \in 0 .. 4 /\ home'[p].map \in 1 .. Len(tops')
          /\ p \in DOMAIN mem' <=> home'[p].level # 0
      BY <3>3, <2>3, <2>4, <2>5
    <3> QED BY <3>1, <3>2, <3>4, <2>2, Zenon DEF Homes
  <2>9. Tops'
    <3>1. ASSUME NEW k \in DOMAIN tops
          PROVE  tops'[k] \in DOMAIN mem' /\ home'[tops'[k]] = Home(k, 4, 0, 0)
      BY <2>1, <2>2, <2>3, <2>5 DEF Inv, Tops
    <3> QED BY <3>1, <2>2, <2>3, <2>5, Zenon DEF Tops
  <2> QED BY <2>2, <2>3, <2>7, <2>8, <2>9, Zenon
\* Allocating frames that get no home.
<1>SameTree. ASSUME Inv, UNCHANGED <<mem, home, tops>>, used \subseteq used', used' \subseteq Frames
             PROVE  Tree' /\ Homes' /\ Tops'
  <2> USE <1>SameTree
  <2>1. Tree'
    BY ZenonT(60) DEF Inv, Tree, Owned, Lower, Idx
  <2>2. Homes'
    BY Zenon DEF Inv, Homes
  <2>3. Tops'
    BY Zenon DEF Inv, Tops
  <2> QED BY <2>1, <2>2, <2>3, Zenon
\* The first step of init_vm().
<1>InitTopInv. Inv /\ pc = "off" /\ InitTop /\ UNCHANGED pc /\ UNCHANGED <<prog, i>> => Inv'
  <2> SUFFICES ASSUME Inv, pc = "off", InitTop, UNCHANGED pc, UNCHANGED <<prog, i>> PROVE Inv'
    BY Zenon
  <2>1. PICK p \in Frames :
          /\ palloc(p, 1) /\ used' = used \cup {p} /\ mem' = With(mem, p, NoTable)
          /\ home' = With(home, p, Home(1, 4, 0, 0)) /\ tops' = <<p>> /\ cur' = p
    BY Zenon DEF InitTop
  <2>2. tops = <<>> /\ todo' = <<>> /\ level' = 4
    BY Zenon DEF InitTop, Inv, Control, Walking
  <2>3. tops' = Append(tops, p) /\ Len(tops) = 0 /\ tops' # <<>> /\ Len(tops') = 1
    BY <2>1, <2>2
  <2>4. home' = With(home, p, Home(Len(tops) + 1, 4, 0, 0))
    BY <2>1, <2>3
  <2>5. \A x \in DOMAIN NoTable : tops # <<>> /\ x \notin Lower
    BY Zenon DEF NoTable
  <2>6. Tree' /\ Homes' /\ Tops' /\ p \in DOMAIN mem' /\ home'[p] = Home(1, 4, 0, 0)
    BY <2>1, <2>3, <2>4, <2>5, Fresh, <1>NewTop
  <2>7. Walking'
    BY <2>1, <2>2, <2>3, <2>6 DEF Walking, Home
  <2>8. Todo' /\ Control'
    BY <2>2, <2>3 DEF Inv, Todo, Control
  <2> QED BY <2>6, <2>7, <2>8, Zenon DEF Inv
\* init_vm() fills the upper half of the top level.
<1>HigherHalfInv. ASSUME Inv, pc = "off", NEW j, HigherHalf(j), UNCHANGED pc, UNCHANGED <<prog, i>>
                  PROVE  Inv'
  <2> USE <1>HigherHalfInv
  <2>1. PICK p \in Frames : NewLevel(p, 1, 3, cur, j)
    BY Zenon DEF HigherHalf
  <2>2. /\ Len(tops) = 1 /\ tops # <<>> /\ todo = <<>> /\ level = 4 /\ cur \in DOMAIN mem
        /\ home[cur].map = 1 /\ home[cur].level = 4
    BY DEF HigherHalf, Inv, Control, Walking
  <2>3. UNCHANGED <<tops, todo, level, cur>> /\ j \notin DOMAIN mem[cur]
    BY Zenon DEF HigherHalf
  <2> PICK t : t = cur
    BY Zenon
  <2>4. /\ NewLevel(p, Len(tops), home[t].level - 1, t, j) /\ t \in DOMAIN mem
        /\ j \notin DOMAIN mem[t] /\ home[t].map = Len(tops) /\ home[t].level > 1
    BY <2>1, <2>2, <2>3
  <2>5. /\ Tree' /\ Homes' /\ Tops'
        /\ DOMAIN mem' = DOMAIN mem \cup {p} /\ \A f \in DOMAIN home : home'[f] = home[f]
    BY <2>2, <2>3, <2>4, <1>NewTable, Zenon
  <2>6. Walking'
    BY <2>2, <2>3, <2>5, Zenon DEF Inv, Walking, Homes
  <2>7. Todo'
    BY <2>2, <2>3 DEF Todo
  <2>8. Control'
    BY <2>2, <2>3, Zenon DEF Inv, Control
  <2> QED BY <2>5, <2>6, <2>7, <2>8, Zenon DEF Inv
\* A level of va2pte().
<1>WalkInv. Inv /\ Walk /\ UNCHANGED pc /\ UNCHANGED <<prog, i>> => Inv'
  <2> SUFFICES ASSUME Inv, Walk, UNCHANGED pc, UNCHANGED <<prog, i>> PROVE Inv'
    BY Zenon
  <2> DEFINE j == Index(Head(todo).va, level)
  <2>1. /\ todo # <<>> /\ level \in 2 .. 4 /\ level' = level - 1 /\ UNCHANGED <<tops, todo>>
    BY DEF Walk, Inv, Walking
  <2>2. tops # <<>> /\ cur \in DOMAIN mem /\ home[cur].map = Len(tops) /\ home[cur].level = level
    BY <2>1, Zenon DEF Inv, Walking
  <2>3. Len(tops) > 1 => Index(Head(todo).va, 4) \in Lower
    <3>1. todo \in Seq([va : Int, pa : Int, flags : SUBSET {"RW", "USER", "NX"}])
      BY Zenon DEF Inv, Todo
    <3>2. Head(todo) = todo[1] /\ 1 \in DOMAIN todo
      BY <3>1, <2>1
    <3> QED BY <3>2, Zenon DEF Inv, Todo
  <2>4. Len(tops) \in Nat
    BY DEF Inv, Tops
  <2>5. Control'
    BY <2>1, Zenon DEF Inv, Control
  <2> HIDE DEF j
  <2>6. CASE j \in DOMAIN mem[cur]
    <3>1. cur' = mem[cur][j].addr /\ UNCHANGED <<used, mem, home>>
      BY <2>6, Zenon DEF Walk, j
    <3>2. Owned(cur, j)
      BY <2>1, <2>2, <2>3 DEF Owned, j
    <3>3. cur' \in DOMAIN home /\ home[cur'] = Home(Len(tops), level - 1, cur, j)
      BY <2>2, <2>6, <3>1, <3>2, Zenon DEF Inv, Tree
    <3>4. cur' \in DOMAIN mem /\ home[cur'].map = Len(tops) /\ home[cur'].level = level - 1
      BY <3>3, <2>1 DEF Home, Inv, Homes
    <3>5. Tree' /\ Homes' /\ Tops'
      BY <3>1, <2>1, <1>SameTree, Zenon DEF Inv, Homes
    <3>6. Walking'
      BY <3>1, <3>4, <2>1, <2>2 DEF Walking
    <3>7. Todo'
      BY <3>1, <2>1, Zenon DEF Inv, Todo, Lower, Idx
    <3> QED BY <3>5, <3>6, <3>7, <2>5, Zenon DEF Inv
  <2>7. CASE j \notin DOMAIN mem[cur]
    <3>1. PICK p \in Frames : NewLevel(p, Len(tops), level - 1, cur, j) /\ cur' = p
      BY <2>7, Zenon DEF Walk, j
    <3> PICK t, x : t = cur /\ x = j
      BY Zenon
    <3>2. /\ NewLevel(p, Len(tops), home[t].level - 1, t, x) /\ t \in DOMAIN mem
          /\ x \notin DOMAIN mem[t] /\ home[t].map = Len(tops) /\ home[t].level > 1
          /\ home[t].level = level /\ tops # <<>> /\ tops' = tops
      BY <3>1, <2>1, <2>2, <2>7
    <3>3. /\ Tree' /\ Homes' /\ Tops'
          /\ p \notin used /\ used' = used \cup {p} /\ p \in DOMAIN mem'
          /\ DOMAIN home' = DOMAIN home \cup {p}
          /\ home'[p] = Home(Len(tops), home[t].level - 1, t, x)
      BY ONLY Inv, <3>2, <1>NewTable, p \in Frames, ZenonT(30)
    <3>4. Walking'
      BY <3>1, <3>2, <3>3, <2>1, <2>2 DEF Walking, Home
    <3>5. Todo'
      <4>1. \A a \in DOMAIN todo : todo[a].pa \in used \ DOMAIN home => todo[a].pa \in used' \ DOMAIN home'
        BY <3>3, Zenon
      <4> QED BY <2>1, <4>1, Zenon DEF Inv, Todo, Lower, Idx
    <3> QED BY <3>3, <3>4, <3>5, <2>5, Zenon DEF Inv
  <2> QED BY <2>6, <2>7, Zenon
\* What Leaf does to the pages that wait.
<1>TodoTail. ASSUME Inv, todo # <<>>, UNCHANGED <<tops, used>>, todo' = Tail(todo),
                    home' = home \/ (Len(tops) > 1 /\ DOMAIN home' = DOMAIN home \cup {Head(todo).pa})
             PROVE  Todo'
  <2> USE <1>TodoTail
  <2> DEFINE P == [va : Int, pa : Int, flags : SUBSET {"RW", "USER", "NX"}]
  <2>1. todo \in Seq(P)
    BY Zenon DEF Inv, Todo
  <2> HIDE DEF P
  <2>2. /\ todo' \in Seq(P) /\ Head(todo) = todo[1] /\ 1 \in DOMAIN todo
        /\ \A a \in DOMAIN todo' : a + 1 \in DOMAIN todo /\ a + 1 # 1 /\ todo'[a] = todo[a + 1] /\ a \in Int
    BY <2>1
  <2>3. ASSUME Len(tops) > 1
        PROVE  /\ \A a \in DOMAIN todo' : /\ Index(todo'[a].va, 4) \in Lower
                                          /\ todo'[a].pa \in used' \ DOMAIN home'
               /\ \A a, b \in DOMAIN todo' : todo'[a].pa = todo'[b].pa => a = b
    <3>1. /\ \A a \in DOMAIN todo : /\ Index(todo[a].va, 4) \in Lower
                                    /\ todo[a].pa \in used \ DOMAIN home
          /\ \A a, b \in DOMAIN todo : todo[a].pa = todo[b].pa => a = b
      BY <2>3, Zenon DEF Inv, Todo
    <3>2. \A a \in DOMAIN todo' : todo'[a].pa # Head(todo).pa
      BY <3>1, <2>2, Zenon
    <3>3. \A a \in DOMAIN todo' : todo'[a].pa \in used' \ DOMAIN home'
      BY <3>1, <3>2, <2>2, Zenon
    <3>4. \A a \in DOMAIN todo' : Index(todo'[a].va, 4) \in Lower
      BY <3>1, <2>2, Zenon
    <3>5. \A a, b \in DOMAIN todo' : todo'[a].pa = todo'[b].pa => a = b
      <4> SUFFICES ASSUME NEW a \in DOMAIN todo', NEW b \in DOMAIN todo', todo'[a].pa = todo'[b].pa
                   PROVE  a = b
        BY Zenon
      <4>1. a + 1 = b + 1
        BY <3>1, <2>2
      <4> QED BY <4>1, <2>2
    <3> QED BY <3>3, <3>4, <3>5, Zenon
  <2> QED BY <2>2, <2>3, Zenon DEF Todo, P, Lower, Idx
\* The end of mappage2().
<1>LeafInv. Inv /\ Leaf /\ UNCHANGED pc /\ UNCHANGED <<prog, i>> => Inv'
  <2> SUFFICES ASSUME Inv, Leaf, UNCHANGED pc, UNCHANGED <<prog, i>> PROVE Inv'
    BY Zenon
  <2> PICK t, x, p : t = cur /\ x = Index(Head(todo).va, 1) /\ p = Head(todo).pa
    BY Zenon
  <2>1. /\ todo # <<>> /\ level = 1 /\ todo' = Tail(todo) /\ level' = 4
        /\ cur' = tops[Len(tops)] /\ UNCHANGED <<used, tops>>
    BY Zenon DEF Leaf
  <2>2. tops # <<>> /\ t \in DOMAIN mem /\ home[t].map = Len(tops) /\ home[t].level = 1
    BY <2>1, Zenon DEF Inv, Walking
  <2>3. tops \in Seq(Frames) /\ Len(tops) \in Nat \ {0} /\ Len(tops) \in DOMAIN tops
    BY <2>2 DEF Inv, Tops
  <2>4. Len(tops) # 1 => Len(tops) > 1
    <3>1. \A m \in Nat \ {0} : m # 1 => m > 1
      OBVIOUS
    <3> QED BY <3>1, <2>3, Zenon
  <2>5. tops[Len(tops)] \in DOMAIN mem /\ home[tops[Len(tops)]] = Home(Len(tops), 4, 0, 0)
    BY <2>3, Zenon DEF Inv, Tops
  <2>6. Control'
    <3>1. pc \notin {"off", "idle", "phdrs", "switch"}
      BY <2>1, Zenon DEF Inv, Control
    <3> QED BY <3>1, <2>1, Zenon DEF Inv, Control
  <2>7. CASE UNCHANGED <<mem, home>>
    <3>1. Tree' /\ Homes' /\ Tops'
      BY <2>1, <2>7, <1>SameTree, Zenon DEF Inv, Homes
    <3>2. Walking'
      BY <2>1, <2>2, <2>5, <2>7 DEF Walking, Home
    <3>3. Todo'
      BY <2>1, <2>7, <1>TodoTail, Zenon
    <3> QED BY <3>1, <3>2, <3>3, <2>6, Zenon DEF Inv
  <2>8. CASE /\ x \notin DOMAIN mem[t]
             /\ mem' = With(mem, t, With(mem[t], x, Entry(p, Head(todo).flags)))
             /\ home' = IF Len(tops) = 1 THEN home ELSE With(home, p, Home(Len(tops), 0, t, x))
    <3>1. /\ DOMAIN mem' = DOMAIN mem
          /\ \A s \in DOMAIN mem : s # t => mem'[s] = mem[s]
          /\ mem'[t] = With(mem[t], x, Entry(p, Head(todo).flags))
      BY <2>2, <2>8, Zenon DEF With
    <3>2. /\ DOMAIN mem'[t] = DOMAIN mem[t] \cup {x} /\ mem'[t][x].addr = p
          /\ \A y \in DOMAIN mem[t] : mem'[t][y] = mem[t][y]
      BY <3>1, <2>8 DEF With, Entry
    <3>3. DOMAIN mem \subseteq DOMAIN home
      BY Zenon DEF Inv, Homes
    <3>4. Len(tops) # 1 => p \in used /\ p \notin DOMAIN home
      <4>1. todo \in Seq([va : Int, pa : Int, flags : SUBSET {"RW", "USER", "NX"}])
        BY Zenon DEF Inv, Todo
      <4>2. Head(todo) = todo[1] /\ 1 \in DOMAIN todo
        BY <4>1, <2>1
      <4>3. Len(tops) > 1 => todo[1].pa \in used \ DOMAIN home
        BY <4>2, Zenon DEF Inv, Todo
      <4> QED BY <4>2, <4>3, <2>4, Zenon
    <3>5. \A f \in DOMAIN home : f \in DOMAIN home' /\ home'[f] = home[f]
      BY <2>8, <3>4, Zenon DEF With
    <3>6. Len(tops) # 1 => /\ DOMAIN home' = DOMAIN home \cup {p}
                           /\ home'[p] = Home(Len(tops), 0, t, x)
      BY <2>8, Zenon DEF With
    <3>7. Tree'
      <4> SUFFICES ASSUME NEW s \in DOMAIN mem', NEW y \in DOMAIN mem'[s], Owned(s, y)'
                   PROVE  /\ mem'[s][y].addr \in DOMAIN home'
                          /\ home'[mem'[s][y].addr] = Home(home'[s].map, home'[s].level - 1, s, y)
        BY Zenon DEF Tree
      <4>1. s \in DOMAIN mem /\ home'[s] = home[s]
        BY <3>1, <3>3, <3>5, Zenon
      <4>2. CASE s = t /\ y = x
        <5>1. Len(tops) # 1
          BY <4>1, <4>2, <2>2, <2>3 DEF Owned
        <5> QED BY <5>1, <4>1, <4>2, <2>2, <3>2, <3>6
      <4>3. CASE ~(s = t /\ y = x)
        <5>1. y \in DOMAIN mem[s] /\ mem'[s][y] = mem[s][y]
          <6>1. CASE s = t
            BY <6>1, <4>3, <3>2, Zenon
          <6>2. CASE s # t
            BY <6>2, <4>1, <3>1, Zenon
          <6> QED BY <6>1, <6>2, Zenon
        <5>2. Owned(s, y)
          BY <4>1, Zenon DEF Owned
        <5>3. mem[s][y].addr \in DOMAIN home
              /\ home[mem[s][y].addr] = Home(home[s].map, home[s].level - 1, s, y)
          BY <4>1, <5>1, <5>2, Zenon DEF Inv, Tree
        <5> QED BY <5>1, <5>3, <4>1, <3>5, Zenon
      <4> QED BY <4>2, <4>3, Zenon
    <3>8. Homes'
      <4>1. ASSUME NEW f \in DOMAIN home
            PROVE  /\ home'[f].level \in 0 .. 4 /\ home'[f].map \in 1 .. Len(tops')
                   /\ f \in DOMAIN mem' <=> home'[f].level # 0
        BY <3>1, <3>5, <2>1, Zenon DEF Inv, Homes
      <4>2. CASE Len(tops) = 1
        <5>1. home' = home
          BY <4>2, <2>8, Zenon
        <5> QED BY <5>1, <3>1, <2>1, Zenon DEF Inv, Homes
      <4>3. CASE Len(tops) # 1
        <5>1. home'[p].level = 0 /\ home'[p].map = Len(tops) /\ p \notin DOMAIN mem'
          BY <4>3, <3>1, <3>3, <3>4, <3>6 DEF Home
        <5>2. used' \subseteq Frames /\ DOMAIN home' \subseteq used' /\ DOMAIN mem' \subseteq DOMAIN home'
          BY <4>3, <3>1, <3>4, <3>6, <2>1, Zenon DEF Inv, Homes
        <5>3. Len(tops) \in 1 .. Len(tops')
          BY <2>1, <2>3
        <5> QED BY <4>1, <4>3, <5>1, <5>2, <5>3, <3>6 DEF Homes
      <4> QED BY <4>2, <4>3, Zenon
    <3>9. Tops'
      BY <3>1, <3>3, <3>5, <2>1, Zenon DEF Inv, Tops
    <3>10. Walking'
      BY <2>1, <2>2, <2>5, <3>1, <3>3, <3>5 DEF Walking, Home
    <3>11. Todo'
      <4>1. home' = home \/ (Len(tops) > 1 /\ DOMAIN home' = DOMAIN home \cup {Head(todo).pa})
        BY <2>8, <2>4, <3>6, Zenon
      <4> QED BY <4>1, <2>1, <1>TodoTail, Zenon
    <3> QED BY <3>7, <3>8, <3>9, <3>10, <3>11, <2>6, Zenon DEF Inv
  <2> QED BY <2>7, <2>8, Zenon DEF Leaf
\* The list of the pages of the kernel is made.
<1>MapKernelInv. Inv /\ pc = "off" /\ MapKernel /\ pc' = "kernel" => Inv'
  <2> SUFFICES ASSUME Inv, pc = "off", MapKernel, pc' = "kernel" PROVE Inv'
    BY Zenon
  <2>1. Len(tops) = 1 /\ todo' = KernelTodo /\ UNCHANGED <<used, mem, tops, level, cur, home>>
    BY Zenon DEF MapKernel
  <2>2. Tree' /\ Homes' /\ Tops'
    BY <2>1, <1>SameTree, Zenon DEF Inv, Homes
  <2>3. todo = <<>> /\ tops # <<>>
    BY <2>1 DEF Inv, Control
  <2>4. Walking'
    BY <2>1, <2>3, Zenon DEF Inv, Walking
  <2>5. KernelTodo \in Seq([va : Int, pa : Int, flags : SUBSET {"RW", "USER", "NX"}])
    <3> DEFINE P == [va : Int, pa : Int, flags : SUBSET {"RW", "USER", "NX"}]
               first == [j \in 1 .. Len(KernelPages) |->
                           [va |-> KernelPages[j][1], pa |-> KernelPages[j][2],
                            flags |-> KernelPages[j][3]]]
               then == [j \in 1 .. 2 * (NFrames - 1) |->
                          IF j % 2 = 1
                          THEN [va |-> (j + 1) \div 2, pa |-> (j + 1) \div 2, flags |-> {"RW", "USER"}]
                          ELSE [va |-> P2V(j \div 2), pa |-> j \div 2, flags |-> {"RW", "USER", "NX"}]]
    <3>1. Len(KernelPages) \in Nat /\ DOMAIN KernelPages = 1 .. Len(KernelPages)
          /\ \A j \in DOMAIN KernelPages : KernelPages[j] \in Int \X Int \X SUBSET {"RW", "USER", "NX"}
      BY VmmAssumption
    <3>2. first \in Seq(P)
      <4>1. \A j \in 1 .. Len(KernelPages) :
              [va |-> KernelPages[j][1], pa |-> KernelPages[j][2], flags |-> KernelPages[j][3]] \in P
        BY <3>1, Zenon
      <4> HIDE DEF P
      <4> QED BY <3>1, <4>1
    <3>3. HHDM \in Int
      BY VmmAssumption DEF HHDM
    <3>4. 2 * (NFrames - 1) \in Nat
      BY VmmAssumption
    <3>5. then \in [1 .. 2 * (NFrames - 1) -> P]
      BY <3>3, <3>4 DEF P2V
    <3>6. then \in Seq(P)
      <4> HIDE DEF P, then
      <4> QED BY <3>4, <3>5
    <3>7. KernelTodo = first \o then
      BY Zenon DEF KernelTodo
    <3> HIDE DEF P, first, then
    <3>8. first \o then \in Seq(P)
      BY <3>2, <3>6
    <3> QED BY <3>7, <3>8, Zenon DEF P
  <2>6. Todo'
    <3>1. Len(tops') = 1 /\ todo' \in Seq([va : Int, pa : Int, flags : SUBSET {"RW", "USER", "NX"}])
      BY <2>1, <2>5, Zenon
    <3> QED BY <3>1 DEF Todo
  <2>7. Control'
    BY <2>1, <2>3 DEF Control
  <2> QED BY <2>2, <2>4, <2>6, <2>7, Zenon DEF Inv
\* newvm_map(), at the start of exec().
<1>ExecInv. ASSUME Inv, NEW q \in DOMAIN Programs, NEW argv, exec(q, argv)
            PROVE  Inv'
  <2> USE <1>ExecInv
  <2>1. PICK p \in Frames :
          /\ palloc(p, 1) /\ used' = used \cup {p}
          /\ mem' = With(mem, p, [j \in Upper |-> mem[tops[1]][j]])
          /\ home' = With(home, p, Home(Len(tops) + 1, 4, 0, 0))
          /\ tops' = Append(tops, p) /\ cur' = p
    BY Zenon DEF exec, NewvmMap
  <2>2. /\ todo' = <<>> /\ level' = 4 /\ tops # <<>> /\ pc' = "phdrs" /\ prog' = q /\ i' = 1
    BY Zenon DEF exec, NewvmMap, Inv, Control, Walking
  <2>3. PICK T : T = [j \in Upper |-> mem[tops[1]][j]]
    BY Zenon
  <2>4. \A x \in DOMAIN T : tops # <<>> /\ x \notin Lower
    BY <2>2, <2>3, Zenon DEF Upper
  <2>5. mem' = With(mem, p, T) /\ p \notin used
    BY <2>1, <2>3, Fresh, Zenon
  <2>6. Tree' /\ Homes' /\ Tops' /\ p \in DOMAIN mem' /\ home'[p] = Home(Len(tops) + 1, 4, 0, 0)
    BY ONLY Inv, p \in Frames, <2>1, <2>4, <2>5, <1>NewTop, Zenon
  <2>7. tops \in Seq(Frames) /\ Len(tops') = Len(tops) + 1 /\ Len(tops) \in Nat
    BY <2>1 DEF Inv, Tops
  <2>8. tops' # <<>> /\ Len(tops') > 1
    BY <2>1, <2>2, <2>7
  <2>9. Walking'
    BY <2>1, <2>2, <2>6, <2>7, <2>8 DEF Walking, Home
  <2>10. Todo' /\ Control'
    BY <2>2, <2>8 DEF Todo, Control
  <2> QED BY <2>6, <2>9, <2>10, Zenon DEF Inv
\* palloc() and mappages(), for a segment or the stack.
<1>AllocInv. ASSUME Inv, pc = "phdrs", pc' \in {"read", "args"}, UNCHANGED prog, i' \in Nat \ {0},
                    NEW p \in Frames, NEW n \in Nat, NEW va \in Int, NEW fl \in SUBSET {"RW", "USER", "NX"},
                    \A x \in va .. va + n - 1 : Index(x, 4) \in Lower,
                    AllocAndMap(p, n, va, fl)
             PROVE  Inv'
  <2> USE <1>AllocInv
  <2>1. /\ palloc(p, n) /\ used' = used \cup p .. p + n - 1
        /\ todo' = [j \in 1 .. n |-> [va |-> va + j - 1, pa |-> p + j - 1, flags |-> fl]]
        /\ UNCHANGED <<mem, tops, level, cur, home>>
    BY Zenon DEF AllocAndMap
  <2>2. \A f \in p .. p + n - 1 : f \in Frames /\ f \notin used
    BY <2>1, Zenon DEF palloc, IsRun
  <2>3. Tree' /\ Homes' /\ Tops'
    BY <2>1, <2>2, <1>SameTree, Zenon DEF Inv, Homes
  <2>4. todo = <<>> /\ tops # <<>>
    BY Zenon DEF Inv, Control
  <2>5. Walking'
    BY <2>1, <2>4, Zenon DEF Inv, Walking
  <2>6. Control'
    BY <2>1, <2>4, Zenon DEF Inv, Control
  <2>7. p \in Int
    BY DEF Frames
  <2>8. Todo'
    <3>1. todo' \in Seq([va : Int, pa : Int, flags : SUBSET {"RW", "USER", "NX"}])
      BY <2>1, <2>7
    <3>2. DOMAIN todo' = 1 .. n /\ \A a \in 1 .. n : todo'[a].va = va + a - 1 /\ todo'[a].pa = p + a - 1
      BY <2>1, Zenon
    <3>3. ASSUME NEW a \in 1 .. n
          PROVE  Index(todo'[a].va, 4) \in Lower /\ todo'[a].pa \in used' \ DOMAIN home'
      <4>1. va + a - 1 \in va .. va + n - 1 /\ p + a - 1 \in p .. p + n - 1
        BY <2>7
      <4>2. DOMAIN home \subseteq used
        BY Zenon DEF Inv, Homes
      <4>3. p + a - 1 \in used' /\ p + a - 1 \notin DOMAIN home'
        BY <4>1, <4>2, <2>1, <2>2, Zenon
      <4> QED BY <4>1, <4>3, <3>2, Zenon
    <3>4. ASSUME NEW a \in 1 .. n, NEW b \in 1 .. n, todo'[a].pa = todo'[b].pa PROVE a = b
      <4>1. p + a - 1 = p + b - 1
        BY <3>2, <3>4, Zenon
      <4> QED BY <4>1, <2>7
    <3> QED BY <3>1, <3>2, <3>3, <3>4, Zenon DEF Todo, Lower, Idx
  <2> QED BY <2>3, <2>5, <2>6, <2>8, Zenon DEF Inv
\* The steps that leave the tables alone.
<1>OtherInv. ASSUME Inv, UNCHANGED <<mem, tops, todo, level, cur, home>>, used \subseteq used',
                    used' \subseteq Frames, Control'
             PROVE  Inv'
  <2> USE <1>OtherInv
  <2>1. Tree' /\ Homes' /\ Tops'
    BY <1>SameTree, Zenon
  <2>2. Walking'
    BY Zenon DEF Inv, Walking
  <2>3. Todo'
    BY Zenon DEF Inv, Todo, Lower, Idx
  <2> QED BY <2>1, <2>2, <2>3, Zenon DEF Inv
<1> SUFFICES ASSUME Inv, [NextExec]_allVars PROVE Inv'
  BY Zenon
<1>a. used \subseteq Frames
  BY Zenon DEF Inv, Homes
<1>1. CASE Boot
  BY <1>1, <1>InitTopInv, <1>HigherHalfInv, <1>MapKernelInv, Zenon DEF Boot
<1>2. CASE Map
  BY <1>2, <1>WalkInv, <1>LeafInv, Zenon DEF Map, execVars
<1>3. CASE BootDone
  <2>1. Control'
    BY <1>3, Zenon DEF BootDone, vmVars, Inv, Control
  <2> QED BY <1>3, <1>a, <2>1, <1>OtherInv, Zenon DEF BootDone, vmVars
<1>4. ASSUME NEW q \in DOMAIN Programs, NEW argv \in Argvs, exec(q, argv) PROVE Inv'
  BY <1>4, <1>ExecInv, Zenon
<1>5. CASE PtLoad
  <2>1. /\ pc = "phdrs" /\ pc' = "read" /\ UNCHANGED <<prog, i>> /\ i <= Len(phdrs)
        /\ prog \in DOMAIN Programs /\ i \in Nat \ {0}
    BY <1>5, Zenon DEF PtLoad, Inv, Control
  <2>2. i \in DOMAIN Programs[prog].phdrs
        /\ Programs[prog].phdrs[i].vaddr \in Nat /\ Programs[prog].phdrs[i].memsz \in Nat
    <3> PICK s : s = Programs[prog].phdrs
      BY Zenon
    <3>1. s \in Seq(Phdr)
      BY <2>1, ExecAssumption, Zenon
    <3>2. i \in DOMAIN s
      BY <2>1, <3>1 DEF phdrs
    <3>3. s[i] \in Phdr
      BY <3>1, <3>2
    <3> QED BY <3>2, <3>3, Zenon DEF Phdr
  <2> PICK n, va, fl : /\ n = DIV_ROUNDUP(Programs[prog].phdrs[i].memsz, PGSIZE)
                       /\ va = Programs[prog].phdrs[i].vaddr \div PGSIZE
                       /\ fl = SegFlags(Programs[prog].phdrs[i])
    BY Zenon
  <2>3. PICK p \in Frames : AllocAndMap(p, n, va, fl)
    BY <1>5, Zenon DEF PtLoad, phdrs
  <2>4. n \in Nat /\ va \in Int /\ fl \in SUBSET {"RW", "USER", "NX"}
    BY <2>2, Pages DEF SegFlags
  <2>5. \A x \in va .. va + n - 1 : Index(x, 4) \in Lower
    BY <2>1, <2>2, ExecAssumption, Zenon DEF DIV_ROUNDUP
  <2> QED BY <2>1, <2>3, <2>4, <2>5, <1>AllocInv, Zenon
<1>6. CASE ReadSegment
  <2>1. Control'
    BY <1>6 DEF ReadSegment, vmVars, Inv, Control
  <2> QED BY <1>6, <1>a, <2>1, <1>OtherInv, Zenon DEF ReadSegment, vmVars
<1>7. CASE OtherPhdr
  <2>1. Control'
    BY <1>7 DEF OtherPhdr, vmVars, Inv, Control
  <2> QED BY <1>7, <1>a, <2>1, <1>OtherInv, Zenon DEF OtherPhdr, vmVars
<1>8. CASE Stack
  <2>1. pc = "phdrs" /\ pc' = "args" /\ UNCHANGED prog /\ i' = 1
    BY <1>8, Zenon DEF Stack
  <2>2. PICK p \in Frames : AllocAndMap(p, STACKSIZE, STACKVA, {"RW", "USER"})
    BY <1>8, Zenon DEF Stack
  <2> QED BY <2>1, <2>2, <1>AllocInv, ExecAssumption
<1>9. CASE CopyString \/ PushAuxv \/ PushPointer \/ PushArgc
  <2>1. /\ pc \in {"args", "ptrs"} /\ todo = <<>> /\ pc' \in {"args", "ptrs", "switch"}
        /\ UNCHANGED vmVars /\ UNCHANGED prog /\ i' \in {1, i, i + 1}
    BY <1>9, Zenon DEF CopyString, PushAuxv, PushPointer, PushArgc, Inv, Control
  <2>2. i' \in Nat \ {0}
    BY <2>1 DEF Inv, Control
  <2>3. Control'
    BY <2>1, <2>2, Zenon DEF vmVars, Inv, Control
  <2> QED BY <2>1, <1>a, <2>3, <1>OtherInv, Zenon DEF vmVars
<1>10. CASE Start
  <2>1. PICK p \in Frames : used' = used \cup {p}
    BY <1>10, Zenon DEF Start
  <2>2. Control'
    BY <1>10, Zenon DEF Start, Inv, Control
  <2> QED BY <1>10, <1>a, <2>1, <2>2, <1>OtherInv, Zenon DEF Start
<1>11. CASE ExecOnStale \/ CopyNoList
  <2>1. pc \in {"idle", "args"} /\ todo = <<>> /\ pc' = "wild" /\ UNCHANGED vmVars /\ UNCHANGED <<prog, i>>
    BY <1>11, Zenon DEF ExecOnStale, CopyNoList, Inv, Control
  <2>2. Control'
    BY <2>1, Zenon DEF vmVars, Inv, Control
  <2> QED BY <2>1, <1>a, <2>2, <1>OtherInv, Zenon DEF vmVars
<1>12. CASE UNCHANGED allVars
  <2>1. Control'
    BY <1>12, Zenon DEF allVars, vmVars, execVars, Inv, Control
  <2> QED BY <1>12, <1>a, <2>1, <1>OtherInv, Zenon DEF allVars, vmVars
<1> QED BY <1>1, <1>2, <1>3, <1>4, <1>5, <1>6, <1>7, <1>8, <1>9, <1>10, <1>11, <1>12,
       Zenon DEF NextExec

-----------------------------------------------------------------------------
(* From the invariant to Isolation                                         *)

\* The tables on the way to a page of map k.
Table3(k, va) == NextTable(tops[k], Index(va, 4)).addr
Table2(k, va) == NextTable(Table3(k, va), Index(va, 3)).addr
Table1(k, va) == NextTable(Table2(k, va), Index(va, 2)).addr

\* Where a frame of a program is reached from.
Reached(k, va) ==
  /\ Translate(tops[k], va).addr \in DOMAIN home
  /\ home[Translate(tops[k], va).addr] = Home(k, 0, Table1(k, va), Index(va, 1))
  /\ home[Table1(k, va)] = Home(k, 1, Table2(k, va), Index(va, 2))
  /\ home[Table2(k, va)] = Home(k, 2, Table3(k, va), Index(va, 3))
  /\ home[Table3(k, va)] = Home(k, 3, tops[k], Index(va, 4))

\* The way back from the frame that a page is mapped to.
WayBack(k, va) ==
  /\ home[Translate(tops[k], va).addr].map = k
  /\ home[Translate(tops[k], va).addr].table = Table1(k, va)
  /\ home[Translate(tops[k], va).addr].idx = Index(va, 1)
  /\ home[Table1(k, va)].table = Table2(k, va) /\ home[Table1(k, va)].idx = Index(va, 2)
  /\ home[Table2(k, va)].table = Table3(k, va) /\ home[Table2(k, va)].idx = Index(va, 3)
  /\ home[Table3(k, va)].idx = Index(va, 4)

\* The fields of a value of home.
LEMMA HomeFields ==
  ASSUME NEW k, NEW l, NEW t, NEW j
  PROVE  /\ Home(k, l, t, j).map = k /\ Home(k, l, t, j).level = l
         /\ Home(k, l, t, j).table = t /\ Home(k, l, t, j).idx = j
  BY Zenon DEF Home

\* The invariant is strong enough.
LEMMA InvIsolation == Inv => Isolation
\* One level of a translation.
<1>Down. ASSUME Inv, NEW t \in DOMAIN mem, NEW j, home[t].map > 1, home[t].level = 4 => j \in Lower,
                NextTable(t, j).addr # -1
         PROVE  /\ NextTable(t, j).addr \in DOMAIN home
                /\ home[NextTable(t, j).addr] = Home(home[t].map, home[t].level - 1, t, j)
  <2> USE <1>Down
  <2>1. j \in DOMAIN mem[t] /\ NextTable(t, j) = mem[t][j]
    BY Zenon DEF NextTable, None
  <2>2. Owned(t, j)
    BY Zenon DEF Owned
  <2> QED BY <2>1, <2>2, Zenon DEF Inv, Tree
\* The homes of the tables on the way to a frame of a program, and of the frame.
<1>Up. ASSUME NEW k, NEW va
       PROVE  /\ Inv /\ k \in DOMAIN tops /\ k > 1 /\ Index(va, 4) \in Lower
              /\ Translate(tops[k], va).addr # -1
              => Reached(k, va)
  <2> USE <1>Up
  <2>1. SUFFICES ASSUME Inv, k \in DOMAIN tops, k > 1, Index(va, 4) \in Lower,
                        Translate(tops[k], va).addr # -1
                 PROVE  Reached(k, va)
    BY Zenon
  <2> DEFINE t3 == Table3(k, va)
             t2 == Table2(k, va)
             t1 == Table1(k, va)
             f == Translate(tops[k], va).addr
  <2>a. /\ f = NextTable(t1, Index(va, 1)).addr /\ t1 = NextTable(t2, Index(va, 2)).addr
        /\ t2 = NextTable(t3, Index(va, 3)).addr /\ t3 = NextTable(tops[k], Index(va, 4)).addr
    BY Zenon DEF Translate, Table1, Table2, Table3
  <2>b. f # -1
    BY <2>1, Zenon
  <2>c. SUFFICES /\ f \in DOMAIN home /\ home[f] = Home(k, 0, t1, Index(va, 1))
                 /\ home[t1] = Home(k, 1, t2, Index(va, 2))
                 /\ home[t2] = Home(k, 2, t3, Index(va, 3))
                 /\ home[t3] = Home(k, 3, tops[k], Index(va, 4))
    BY Zenon DEF Reached
  <2> HIDE DEF t3, t2, t1, f
  <2>2. -1 \notin DOMAIN mem
    BY <2>1 DEF Inv, Homes, Frames
  <2>3. t1 \in DOMAIN mem
    BY <2>a, <2>b, Zenon DEF NextTable, None
  <2>4. t2 \in DOMAIN mem
    BY <2>a, <2>2, <2>3, Zenon DEF NextTable, None
  <2>5. t3 \in DOMAIN mem
    BY <2>a, <2>2, <2>4, Zenon DEF NextTable, None
  <2>6. tops[k] \in DOMAIN mem /\ home[tops[k]] = Home(k, 4, 0, 0)
    BY <2>1, Zenon DEF Inv, Tops
  <2>7. home[t3] = Home(k, 3, tops[k], Index(va, 4))
    <3>1. home[tops[k]].map = k /\ home[tops[k]].level = 4
      BY <2>6 DEF Home
    <3>2. NextTable(tops[k], Index(va, 4)).addr = t3 /\ t3 # -1
      BY <2>a, <2>2, <2>5, Zenon
    <3>3. home[tops[k]].map > 1 /\ Index(va, 4) \in Lower
      BY <2>1, <3>1, Zenon
    <3>4. /\ NextTable(tops[k], Index(va, 4)).addr \in DOMAIN home
          /\ home[NextTable(tops[k], Index(va, 4)).addr] = Home(home[tops[k]].map, home[tops[k]].level - 1, tops[k], Index(va, 4))
      BY <2>1, <2>6, <3>2, <3>3, <1>Down, Zenon
    <3>5. home[tops[k]].level - 1 = 3
      BY <3>1
    <3> QED BY <3>1, <3>2, <3>4, <3>5, Zenon
  <2>8. home[t2] = Home(k, 2, t3, Index(va, 3))
    <3>1. home[t3].map = k /\ home[t3].level = 3
      BY <2>7 DEF Home
    <3>2. NextTable(t3, Index(va, 3)).addr = t2 /\ t2 # -1
      BY <2>a, <2>2, <2>4, Zenon
    <3>3. home[t3].map > 1 /\ home[t3].level # 4
      BY <2>1, <3>1
    <3>4. /\ NextTable(t3, Index(va, 3)).addr \in DOMAIN home
          /\ home[NextTable(t3, Index(va, 3)).addr] = Home(home[t3].map, home[t3].level - 1, t3, Index(va, 3))
      BY <2>1, <2>5, <3>2, <3>3, <1>Down, Zenon
    <3>5. home[t3].level - 1 = 2
      BY <3>1
    <3> QED BY <3>1, <3>2, <3>4, <3>5, Zenon
  <2>9. home[t1] = Home(k, 1, t2, Index(va, 2))
    <3>1. home[t2].map = k /\ home[t2].level = 2
      BY <2>8 DEF Home
    <3>2. NextTable(t2, Index(va, 2)).addr = t1 /\ t1 # -1
      BY <2>a, <2>2, <2>3, Zenon
    <3>3. home[t2].map > 1 /\ home[t2].level # 4
      BY <2>1, <3>1
    <3>4. /\ NextTable(t2, Index(va, 2)).addr \in DOMAIN home
          /\ home[NextTable(t2, Index(va, 2)).addr] = Home(home[t2].map, home[t2].level - 1, t2, Index(va, 2))
      BY <2>1, <2>4, <3>2, <3>3, <1>Down, Zenon
    <3>5. home[t2].level - 1 = 1
      BY <3>1
    <3> QED BY <3>1, <3>2, <3>4, <3>5, Zenon
  <2>10. f \in DOMAIN home /\ home[f] = Home(k, 0, t1, Index(va, 1))
    <3>1. home[t1].map = k /\ home[t1].level = 1
      BY <2>9 DEF Home
    <3>2. NextTable(t1, Index(va, 1)).addr = f /\ f # -1
      BY <2>a, <2>b, Zenon
    <3>3. home[t1].map > 1 /\ home[t1].level # 4
      BY <2>1, <3>1
    <3>4. /\ NextTable(t1, Index(va, 1)).addr \in DOMAIN home
          /\ home[NextTable(t1, Index(va, 1)).addr] = Home(home[t1].map, home[t1].level - 1, t1, Index(va, 1))
      BY <2>1, <2>3, <3>2, <3>3, <1>Down, Zenon
    <3>5. home[t1].level - 1 = 0
      BY <3>1
    <3> QED BY <3>1, <3>2, <3>4, <3>5, Zenon
  <2> QED BY <2>7, <2>8, <2>9, <2>10, Zenon
\* The way back from a frame.
<1>Back. ASSUME NEW k, NEW va, Reached(k, va)
         PROVE  WayBack(k, va)
  <2> USE <1>Back
  <2> DEFINE f == Translate(tops[k], va).addr
  <2>1. home[f] = Home(k, 0, Table1(k, va), Index(va, 1))
    BY Zenon DEF Reached
  <2>2. home[Table1(k, va)] = Home(k, 1, Table2(k, va), Index(va, 2))
    BY Zenon DEF Reached
  <2>3. home[Table2(k, va)] = Home(k, 2, Table3(k, va), Index(va, 3))
    BY Zenon DEF Reached
  <2>4. home[Table3(k, va)] = Home(k, 3, tops[k], Index(va, 4))
    BY Zenon DEF Reached
  <2> HIDE DEF f
  <2>5. home[f].map = k /\ home[f].table = Table1(k, va) /\ home[f].idx = Index(va, 1)
    BY <2>1, HomeFields
  <2>6. home[Table1(k, va)].table = Table2(k, va) /\ home[Table1(k, va)].idx = Index(va, 2)
    BY <2>2, HomeFields
  <2>7. home[Table2(k, va)].table = Table3(k, va) /\ home[Table2(k, va)].idx = Index(va, 3)
    BY <2>3, HomeFields
  <2>8. home[Table3(k, va)].idx = Index(va, 4)
    BY <2>4, HomeFields
  <2> QED BY <2>5, <2>6, <2>7, <2>8, Zenon DEF f, WayBack
\* Two ways to a frame are one way.
<1>OneWay. ASSUME NEW k, NEW va, NEW m, NEW wa, Reached(k, va), Reached(m, wa),
                  Translate(tops[k], va).addr = Translate(tops[m], wa).addr
           PROVE  k = m /\ Index(va, 1) = Index(wa, 1) /\ Index(va, 2) = Index(wa, 2)
                  /\ Index(va, 3) = Index(wa, 3) /\ Index(va, 4) = Index(wa, 4)
  <2> USE <1>OneWay
  <2>a. WayBack(k, va) /\ WayBack(m, wa)
    BY <1>Back, Zenon
  <2>1. k = m /\ Table1(k, va) = Table1(m, wa) /\ Index(va, 1) = Index(wa, 1)
    BY <2>a, Zenon DEF WayBack
  <2>2. Table2(k, va) = Table2(m, wa) /\ Index(va, 2) = Index(wa, 2)
    BY <2>a, <2>1, Zenon DEF WayBack
  <2>3. Table3(k, va) = Table3(m, wa) /\ Index(va, 3) = Index(wa, 3)
    BY <2>a, <2>2, Zenon DEF WayBack
  <2>4. Index(va, 4) = Index(wa, 4)
    BY <2>a, <2>3, Zenon DEF WayBack
  <2> QED BY <2>1, <2>2, <2>3, <2>4, Zenon
<1>1. SUFFICES ASSUME Inv, NEW k \in UserMaps, NEW m \in UserMaps,
                      NEW va \in UserPages, NEW wa \in UserPages,
                      Translate(tops[k], va).addr # -1
               PROVE  /\ Translate(tops[k], va).addr \in used
                      /\ Translate(tops[k], va).addr \notin DOMAIN mem
                      /\ Translate(tops[m], wa).addr = Translate(tops[k], va).addr =>
                           k = m /\ \A l \in 1 .. 4 : Index(va, l) = Index(wa, l)
  BY DEF Isolation
<1>2. k \in DOMAIN tops /\ m \in DOMAIN tops /\ k > 1 /\ m > 1
      /\ Index(va, 4) \in Lower /\ Index(wa, 4) \in Lower
  BY VmmAssumption, Zenon DEF UserMaps
<1>3. Reached(k, va)
  BY <1>1, <1>2, <1>Up, Zenon
<1>4. Translate(tops[k], va).addr \in used /\ Translate(tops[k], va).addr \notin DOMAIN mem
  BY <1>1, <1>3 DEF Reached, Inv, Homes, Home
<1>5. ASSUME Translate(tops[m], wa).addr = Translate(tops[k], va).addr
      PROVE  k = m /\ \A l \in 1 .. 4 : Index(va, l) = Index(wa, l)
  <2>1. Reached(m, wa)
    BY <1>1, <1>2, <1>5, <1>Up, Zenon
  <2>2. k = m /\ Index(va, 1) = Index(wa, 1) /\ Index(va, 2) = Index(wa, 2)
        /\ Index(va, 3) = Index(wa, 3) /\ Index(va, 4) = Index(wa, 4)
    BY <1>3, <1>5, <2>1, <1>OneWay
  <2>3. \A l \in 1 .. 4 : l = 1 \/ l = 2 \/ l = 3 \/ l = 4
    OBVIOUS
  <2> QED BY <2>2, <2>3, Zenon
<1> QED BY <1>4, <1>5, Zenon

\* Isolation of address spaces: va2pte(), mappage2(), newvm_map() and the calls
\* of loadelf() and exec() never let two pages of programs share a frame.
THEOREM AddressSpacesApart == ExecSpec => []Isolation
<1>1. InitExec => Inv
  BY InitInv, Zenon
<1>2. Inv /\ [NextExec]_allVars => Inv'
  BY NextInv, Zenon
<1>3. Inv => Isolation
  BY InvIsolation, Zenon
<1> QED BY <1>1, <1>2, <1>3, PTL DEF ExecSpec

-----------------------------------------------------------------------------
(* Virtual pages and their indices                                         *)

\* A quotient and a remainder determine a number.
LEMMA DivUnique ==
  ASSUME NEW q \in Int, NEW r \in Int, NEW d \in Nat \ {0}, 0 <= r, r < d
  PROVE  (q * d + r) \div d = q /\ (q * d + r) % d = r
<1>1. (q * d + r) \div d = q
  OBVIOUS
<1>2. (q * d + r) % d = r
  OBVIOUS
<1> QED BY <1>1, <1>2, Zenon

\* The quotient and the remainder of a number.
LEMMA DivMod ==
  ASSUME NEW x \in Nat, NEW d \in Nat \ {0}
  PROVE  \E q \in Nat, r \in 0 .. d - 1 : x = q * d + r /\ x \div d = q /\ x % d = r
<1>1. \E q \in Nat, r \in Nat : x = q * d + r /\ r < d /\ x \div d = q
  OBVIOUS
<1>2. PICK q \in Nat, r \in Nat : x = q * d + r /\ r < d
  BY <1>1, Zenon
<1>3. x \div d = q /\ x % d = r /\ r \in 0 .. d - 1
  BY <1>2, DivUnique
<1> QED BY <1>2, <1>3, Zenon

\* A number of digits: shifting twice.
LEMMA DivDiv ==
  ASSUME NEW x \in Nat, NEW d \in Nat \ {0}, NEW e \in Nat \ {0}
  PROVE  (x \div d) \div e = x \div (d * e) /\ d * e \in Nat \ {0}
<1>1. PICK y \in Nat, r \in 0 .. d - 1 : x = y * d + r /\ x \div d = y
  BY DivMod, Zenon
<1>2. PICK z \in Nat, s \in 0 .. e - 1 : y = z * e + s /\ y \div e = z
  BY DivMod
<1>3. d * e \in Nat \ {0}
  OBVIOUS
<1>4. x = z * (d * e) + (s * d + r)
  <2>1. y * d = z * (d * e) + s * d
    BY <1>2
  <2> QED BY <2>1, <1>1, <1>2, <1>3
<1>5. 0 <= s * d + r /\ s * d + r < d * e
  <2>1. s * d <= (e - 1) * d /\ 0 <= s * d /\ s * d \in Int
    BY <1>2
  <2>2. (e - 1) * d = d * e - d
    OBVIOUS
  <2> QED BY <2>1, <2>2, <1>1, <1>3
<1>6. s * d + r \in Int
  BY <1>1, <1>2
<1>7. x \div (d * e) = z
  <2> PICK m, t : m = d * e /\ t = s * d + r
    BY Zenon
  <2>1. m \in Nat \ {0} /\ t \in Int /\ 0 <= t /\ t < m /\ z \in Int
    BY <1>2, <1>3, <1>5, <1>6
  <2>2. (z * m + t) \div m = z
    BY ONLY <2>1, DivUnique, Zenon
  <2> QED BY <2>2, <1>4, Zenon
<1> QED BY <1>1, <1>2, <1>3, <1>7, Zenon

\* Number of virtual pages.
Pages4 == N * N * N * N

\* The index of the top level, and where the upper half starts.
LEMMA TopIndex ==
  ASSUME NEW va \in 0 .. Pages4 - 1
  PROVE  /\ va \div (N * N * N) \in Idx /\ Index(va, 4) = va \div (N * N * N)
         /\ va >= HHDM => Index(va, 4) \in Upper
<1> DEFINE d == N * N * N
<1>1. N \in Nat \ {0} /\ N * N \in Nat \ {0} /\ d \in Nat \ {0}
  <2>1. N \in Nat \ {0}
    BY VmmAssumption, Zenon
  <2>2. N * N \in Nat \ {0}
    BY <2>1
  <2> QED BY <2>1, <2>2
<1>2. Pages4 = N * d /\ HHDM = (N \div 2) * d /\ Index(va, 4) = (va \div d) % N
  BY <1>1 DEF Pages4, HHDM, Index
<1>3. va \in Nat
  BY <1>1, <1>2
<1> HIDE DEF d
<1>4. PICK q \in Nat, r \in 0 .. d - 1 : va = q * d + r /\ va \div d = q
  BY <1>1, <1>3, DivMod, Zenon
<1>5. va < N * d
  BY <1>1, <1>2
<1>6. q < N
  <2> SUFFICES ASSUME q >= N PROVE FALSE
    BY <1>1, <1>4
  <2>1. q * d >= N * d
    BY <1>1, <1>4
  <2> QED BY <2>1, <1>1, <1>4, <1>5
<1>7. q % N = q /\ q \in Idx
  BY <1>1, <1>4, <1>6 DEF Idx
<1>8. ASSUME va >= HHDM PROVE q \in Upper
  <2> PICK h : h = N \div 2
    BY Zenon
  <2>1. h \in Nat /\ 2 * h = N
    BY VmmAssumption
  <2>2. q >= h
    <3> SUFFICES ASSUME q <= h - 1 PROVE FALSE
      BY <2>1, <1>4
    <3>1. q * d <= (h - 1) * d
      BY <2>1, <1>1, <1>4
    <3>2. (h - 1) * d = h * d - d /\ h * d \in Int /\ q * d \in Int
      BY <2>1, <1>1, <1>4
    <3> QED BY <3>1, <3>2, <1>1, <1>2, <1>4, <1>8
  <2> QED BY <2>1, <2>2, <1>4, <1>7 DEF Upper, Lower
<1> QED BY <1>2, <1>4, <1>7, <1>8, Zenon DEF d

\* The upper half is half of all virtual pages.
LEMMA Halves == HHDM \in Nat /\ Pages4 = 2 * HHDM
<1> PICK h : h = N \div 2
  BY Zenon
<1>1. h \in Nat /\ N = 2 * h /\ N * N * N \in Nat
  <2>1. N \in Nat /\ N * N \in Nat
    BY VmmAssumption
  <2> QED BY <2>1, VmmAssumption
<1>2. HHDM = h * (N * N * N) /\ Pages4 = N * (N * N * N) /\ N \in Nat
  BY <1>1 DEF HHDM, Pages4
<1> QED BY <1>1, <1>2

\* The pages are reached through the same entries.
SameIndices(va, wa) == \A l \in 1 .. 4 : Index(va, l) = Index(wa, l)

\* The indices of all levels determine the page.
LEMMA IndicesUnique ==
  ASSUME NEW va \in 0 .. Pages4 - 1, NEW wa \in 0 .. Pages4 - 1, SameIndices(va, wa)
  PROVE  va = wa
<1>1. N \in Nat \ {0} /\ N * N \in Nat \ {0} /\ N * N * N \in Nat \ {0}
  <2>1. N \in Nat \ {0}
    BY VmmAssumption, Zenon
  <2>2. N * N \in Nat \ {0}
    BY <2>1
  <2> QED BY <2>1, <2>2
<1>2. va \in Nat /\ wa \in Nat
  BY <1>1 DEF Pages4
<1>3. \A x \in Nat : /\ x \div N \in Nat /\ (x \div N) \div N = x \div (N * N)
                     /\ x \div (N * N) \in Nat
                     /\ (x \div (N * N)) \div N = x \div (N * N * N)
  <2> SUFFICES ASSUME NEW x \in Nat
               PROVE  /\ x \div N \in Nat /\ (x \div N) \div N = x \div (N * N)
                      /\ x \div (N * N) \in Nat
                      /\ (x \div (N * N)) \div N = x \div (N * N * N)
    BY Zenon
  <2>1. \A d \in Nat \ {0} : x \div d \in Nat
    BY DivMod, Zenon
  <2>2. (x \div N) \div N = x \div (N * N)
    <3>1. \A d \in Nat \ {0}, e \in Nat \ {0} : (x \div d) \div e = x \div (d * e)
      BY DivDiv
    <3> QED BY <3>1, <1>1, Zenon
  <2>3. (x \div (N * N)) \div N = x \div (N * N * N)
    <3> PICK m : m = N * N
      BY Zenon
    <3>1. (x \div m) \div N = x \div (m * N)
      BY <1>1, DivDiv
    <3> QED BY <3>1, Zenon
  <2> QED BY <2>1, <2>2, <2>3, <1>1, Zenon
<1>4. \A x \in Nat, y \in Nat : x \div N = y \div N /\ x % N = y % N => x = y
  <2> SUFFICES ASSUME NEW x \in Nat, NEW y \in Nat, x \div N = y \div N, x % N = y % N
               PROVE  x = y
    BY Zenon
  <2>1. PICK q \in Nat, r \in 0 .. N - 1 : x = q * N + r /\ x \div N = q /\ x % N = r
    BY <1>1, DivMod, Zenon
  <2>2. PICK p \in Nat, s \in 0 .. N - 1 : y = p * N + s /\ y \div N = p /\ y % N = s
    BY <1>1, DivMod, Zenon
  <2>3. p = q /\ r = s
    BY <2>1, <2>2, Zenon
  <2> QED BY <2>1, <2>2, <2>3, Zenon
<1>5. va \div (N * N * N) = wa \div (N * N * N)
  BY TopIndex DEF SameIndices
<1>6. va \div (N * N) = wa \div (N * N)
  BY <1>2, <1>3, <1>4, <1>5 DEF SameIndices, Index
<1>7. va \div N = wa \div N
  BY <1>2, <1>3, <1>4, <1>6 DEF SameIndices, Index
<1> QED BY <1>2, <1>4, <1>7 DEF SameIndices, Index

\* Two sequences, one after the other.
LEMMA Concat ==
  ASSUME NEW S, NEW s \in Seq(S), NEW t \in Seq(S)
  PROVE  /\ Len(s \o t) = Len(s) + Len(t) /\ DOMAIN (s \o t) = 1 .. Len(s) + Len(t)
         /\ \A a \in 1 .. Len(s) : (s \o t)[a] = s[a]
         /\ \A a \in 1 .. Len(t) : (s \o t)[Len(s) + a] = t[a]
  OBVIOUS

\* The list of pages that init_vm() maps, position by position.
LEMMA KernelTodoParts ==
  /\ Len(KernelTodo) = Len(KernelPages) + 2 * (NFrames - 1)
  /\ DOMAIN KernelTodo = 1 .. Len(KernelPages) + 2 * (NFrames - 1)
  /\ Len(KernelPages) \in Nat /\ NFrames - 1 \in Nat
  /\ \A a \in 1 .. Len(KernelPages) :
       KernelTodo[a] = [va |-> KernelPages[a][1], pa |-> KernelPages[a][2],
                        flags |-> KernelPages[a][3]]
  /\ \A f \in 1 .. NFrames - 1 :
       /\ KernelTodo[Len(KernelPages) + (2 * f - 1)] = [va |-> f, pa |-> f, flags |-> {"RW", "USER"}]
       /\ KernelTodo[Len(KernelPages) + 2 * f]
            = [va |-> P2V(f), pa |-> f, flags |-> {"RW", "USER", "NX"}]
<1> DEFINE first == [j \in 1 .. Len(KernelPages) |->
                       [va |-> KernelPages[j][1], pa |-> KernelPages[j][2],
                        flags |-> KernelPages[j][3]]]
           then == [j \in 1 .. 2 * (NFrames - 1) |->
                      IF j % 2 = 1
                      THEN [va |-> (j + 1) \div 2, pa |-> (j + 1) \div 2, flags |-> {"RW", "USER"}]
                      ELSE [va |-> P2V(j \div 2), pa |-> j \div 2, flags |-> {"RW", "USER", "NX"}]]
<1>1. Len(KernelPages) \in Nat /\ NFrames - 1 \in Nat /\ 2 * (NFrames - 1) \in Nat
  BY VmmAssumption
<1>2. KernelTodo = first \o then
  BY Zenon DEF KernelTodo
<1>3. \A a \in 1 .. Len(KernelPages) :
        first[a] = [va |-> KernelPages[a][1], pa |-> KernelPages[a][2],
                    flags |-> KernelPages[a][3]]
  BY Zenon
<1>4. \A f \in 1 .. NFrames - 1 :
        /\ then[2 * f - 1] = [va |-> f, pa |-> f, flags |-> {"RW", "USER"}]
        /\ then[2 * f] = [va |-> P2V(f), pa |-> f, flags |-> {"RW", "USER", "NX"}]
  <2> SUFFICES ASSUME NEW f \in 1 .. NFrames - 1
               PROVE  /\ then[2 * f - 1] = [va |-> f, pa |-> f, flags |-> {"RW", "USER"}]
                      /\ then[2 * f] = [va |-> P2V(f), pa |-> f, flags |-> {"RW", "USER", "NX"}]
    BY Zenon
  <2>1. /\ 2 * f - 1 \in 1 .. 2 * (NFrames - 1) /\ 2 * f \in 1 .. 2 * (NFrames - 1)
        /\ (2 * f - 1) % 2 = 1 /\ (2 * f) % 2 # 1
        /\ (2 * f - 1 + 1) \div 2 = f /\ (2 * f) \div 2 = f
    BY <1>1
  <2> QED BY <2>1, Zenon
<1>5. DOMAIN first = 1 .. Len(KernelPages) /\ DOMAIN then = 1 .. 2 * (NFrames - 1)
      /\ first = [a \in DOMAIN first |-> first[a]] /\ then = [a \in DOMAIN then |-> then[a]]
  BY Zenon
<1> HIDE DEF first, then
<1>6. PICK S : S = {first[a] : a \in DOMAIN first} \cup {then[a] : a \in DOMAIN then}
  BY Zenon
<1>a. first \in Seq(S) /\ Len(first) = Len(KernelPages)
  BY <1>1, <1>5, <1>6
<1>b. then \in Seq(S) /\ Len(then) = 2 * (NFrames - 1)
  BY <1>1, <1>5, <1>6
<1>7. /\ DOMAIN (first \o then) = 1 .. Len(KernelPages) + 2 * (NFrames - 1)
      /\ Len(first \o then) = Len(KernelPages) + 2 * (NFrames - 1)
      /\ \A a \in 1 .. Len(KernelPages) : (first \o then)[a] = first[a]
      /\ \A a \in 1 .. 2 * (NFrames - 1) : (first \o then)[Len(KernelPages) + a] = then[a]
  <2>1. /\ Len(first \o then) = Len(first) + Len(then)
        /\ DOMAIN (first \o then) = 1 .. Len(first) + Len(then)
        /\ \A a \in 1 .. Len(first) : (first \o then)[a] = first[a]
        /\ \A a \in 1 .. Len(then) : (first \o then)[Len(first) + a] = then[a]
    <3> PICK s, t : s = first /\ t = then
      BY Zenon
    <3>1. s \in Seq(S) /\ t \in Seq(S)
      BY <1>a, <1>b, Zenon
    <3>2. /\ Len(s \o t) = Len(s) + Len(t) /\ DOMAIN (s \o t) = 1 .. Len(s) + Len(t)
          /\ \A a \in 1 .. Len(s) : (s \o t)[a] = s[a]
          /\ \A a \in 1 .. Len(t) : (s \o t)[Len(s) + a] = t[a]
      BY ONLY <3>1, Concat
    <3> QED BY <3>2, Zenon
  <2> QED BY <2>1, <1>a, <1>b, Zenon
<1>8. \A f \in 1 .. NFrames - 1 :
        2 * f - 1 \in 1 .. 2 * (NFrames - 1) /\ 2 * f \in 1 .. 2 * (NFrames - 1)
  BY <1>1
<1> QED BY <1>1, <1>2, <1>3, <1>4, <1>7, <1>8, Zenon

\* Every page is mapped once: the indices of two pages of the list are different.
LEMMA KernelVas ==
  /\ \A a \in DOMAIN KernelTodo : KernelTodo[a].va \in 0 .. Pages4 - 1
  /\ \A a, b \in DOMAIN KernelTodo :
       SameIndices(KernelTodo[a].va, KernelTodo[b].va) => a = b
<1> DEFINE m == Len(KernelPages)
           n == NFrames - 1
           V(a) == KernelTodo[a].va
<1>1. m \in Nat /\ n \in Nat /\ DOMAIN KernelTodo = 1 .. m + 2 * n
  BY KernelTodoParts, Zenon
<1>2. HHDM \in Nat /\ Pages4 = 2 * HHDM /\ NFrames <= HHDM /\ NFrames = n + 1
  BY Halves, <1>1, KernelLayout, VmmAssumption
<1>3. ASSUME NEW a \in 1 .. m
      PROVE  V(a) = KernelPages[a][1] /\ V(a) \in HHDM + NFrames .. Pages4 - 1
  <2>0. KernelTodo[a] = [va |-> KernelPages[a][1], pa |-> KernelPages[a][2],
                         flags |-> KernelPages[a][3]]
    BY KernelTodoParts, Zenon
  <2>1. V(a) = KernelPages[a][1]
    BY <2>0
  <2>2. a \in DOMAIN KernelPages
    BY VmmAssumption
  <2>3. KernelPages[a][1] \in HHDM + NFrames .. Pages4 - 1
    BY <2>2, KernelLayout, Zenon DEF Pages4
  <2> QED BY <2>1, <2>3, Zenon
<1>4. \A f \in 1 .. n : V(m + (2 * f - 1)) = f /\ V(m + 2 * f) = HHDM + f
  <2> SUFFICES ASSUME NEW f \in 1 .. n
               PROVE  V(m + (2 * f - 1)) = f /\ V(m + 2 * f) = HHDM + f
    BY Zenon
  <2>1. /\ KernelTodo[m + (2 * f - 1)] = [va |-> f, pa |-> f, flags |-> {"RW", "USER"}]
        /\ KernelTodo[m + 2 * f] = [va |-> P2V(f), pa |-> f, flags |-> {"RW", "USER", "NX"}]
    BY KernelTodoParts, Zenon
  <2>2. V(m + (2 * f - 1)) = f /\ V(m + 2 * f) = P2V(f)
    BY <2>1
  <2> QED BY <2>2, <1>1, <1>2 DEF P2V
<1>5. \A a \in m + 1 .. m + 2 * n : \E f \in 1 .. n : a = m + (2 * f - 1) \/ a = m + 2 * f
  <2> SUFFICES ASSUME NEW a \in m + 1 .. m + 2 * n
               PROVE  \E f \in 1 .. n : a = m + (2 * f - 1) \/ a = m + 2 * f
    BY Zenon
  <2> PICK f : f = (a - m + 1) \div 2
    BY Zenon
  <2>1. f \in 1 .. n /\ (a = m + (2 * f - 1) \/ a = m + 2 * f)
    BY <1>1, SMTT(20)
  <2> QED BY <2>1, Zenon
<1>6. \A j, k \in 1 .. m : KernelPages[j][1] = KernelPages[k][1] => j = k
  BY KernelLayout, VmmAssumption, SMTT(20)
<1> HIDE DEF m, n, V
<1>7. ASSUME NEW a \in DOMAIN KernelTodo
      PROVE  V(a) \in 0 .. Pages4 - 1
  <2>1. CASE a \in 1 .. m
    BY <2>1, <1>1, <1>2, <1>3
  <2>2. CASE a \in m + 1 .. m + 2 * n
    <3>1. PICK f \in 1 .. n : a = m + (2 * f - 1) \/ a = m + 2 * f
      BY <2>2, <1>5, Zenon
    <3>2. V(a) = f \/ V(a) = HHDM + f
      BY <3>1, <1>4, Zenon
    <3> QED BY <3>2, <1>1, <1>2
  <2> QED BY <2>1, <2>2, <1>1
<1>8. ASSUME NEW a \in DOMAIN KernelTodo, NEW b \in DOMAIN KernelTodo, V(a) = V(b)
      PROVE  a = b
  <2>1. CASE a \in 1 .. m /\ b \in 1 .. m
    BY <2>1, <1>3, <1>6, <1>8, Zenon
  <2>2. ASSUME NEW c \in m + 1 .. m + 2 * n
        PROVE  \E f \in 1 .. n : \/ c = m + (2 * f - 1) /\ V(c) = f
                                 \/ c = m + 2 * f /\ V(c) = HHDM + f
    BY <1>4, <1>5
  <2>3. ASSUME NEW c \in m + 1 .. m + 2 * n
        PROVE  V(c) \in Int /\ V(c) < HHDM + NFrames
    BY <2>2, <1>1, <1>2
  <2>4. CASE a \in 1 .. m /\ b \in m + 1 .. m + 2 * n
    BY <2>3, <2>4, <1>2, <1>3, <1>8
  <2>5. CASE b \in 1 .. m /\ a \in m + 1 .. m + 2 * n
    BY <2>3, <2>5, <1>2, <1>3, <1>8
  <2>6. CASE a \in m + 1 .. m + 2 * n /\ b \in m + 1 .. m + 2 * n
    <3>1. PICK f \in 1 .. n : \/ a = m + (2 * f - 1) /\ V(a) = f
                              \/ a = m + 2 * f /\ V(a) = HHDM + f
      BY <2>2, <2>6, Zenon
    <3>2. PICK g \in 1 .. n : \/ b = m + (2 * g - 1) /\ V(b) = g
                              \/ b = m + 2 * g /\ V(b) = HHDM + g
      BY <2>2, <2>6, Zenon
    <3> QED BY <3>1, <3>2, <1>1, <1>2, <1>8
  <2>7. a \in 1 .. m \/ a \in m + 1 .. m + 2 * n
    BY <1>1
  <2>8. b \in 1 .. m \/ b \in m + 1 .. m + 2 * n
    BY <1>1
  <2> QED BY <2>1, <2>4, <2>5, <2>6, <2>7, <2>8, Zenon
<1> QED BY <1>7, <1>8, IndicesUnique, Zenon DEF V

-----------------------------------------------------------------------------
(* The kernel in every map                                                 *)

\* The page is present in map k.
Present(k, va) == Table1(k, va) \in DOMAIN mem /\ Index(va, 1) \in DOMAIN mem[Table1(k, va)]

\* The page is one that map k does not share.
InMap(k, va) == k \in DOMAIN tops /\ (k = 1 \/ Index(va, 4) \in Lower)

\* Page va has entry e in map k.
Maps(k, va, e) == Present(k, va) /\ mem[Table1(k, va)][Index(va, 1)] = e

\* Page a of the list is mapped as the list says.
MappedAs(a) == Maps(1, KernelTodo[a].va, Entry(KernelTodo[a].pa, KernelTodo[a].flags))

\* How many pages of the list are mapped.
Mapped == Len(KernelTodo) - Len(todo)

\* va2pte() is on the way to page va of map k.
OnWay(k, va) ==
  /\ level = 4 => cur = tops[k]
  /\ level = 3 => cur = Table3(k, va)
  /\ level = 2 => cur = Table2(k, va)
  /\ level = 1 => cur = Table1(k, va)

\* init_vm() fills the top level before it maps a page,
Early ==
  pc = "off" => (tops # <<>> => cur = tops[1]) /\ \A va \in Int : ~Present(1, va)

\* then maps the pages of the list in order, and no other page,
MappingKernel ==
  pc = "kernel" =>
    /\ Len(todo) <= Len(KernelTodo)
    /\ \A b \in DOMAIN todo : todo[b] = KernelTodo[Mapped + b]
    /\ todo # <<>> => OnWay(1, Head(todo).va)
    /\ \A va \in Int : Present(1, va) => \E a \in 1 .. Mapped : SameIndices(va, KernelTodo[a].va)
    /\ \A a \in 1 .. Mapped : MappedAs(a)

\* which stay as they are.
KernelMapped == pc \notin {"off", "kernel"} => \A a \in DOMAIN KernelTodo : MappedAs(a)

\* Every map has the tables of the kernel in its upper half.
UpperShared ==
  /\ pc # "off" => Upper \subseteq DOMAIN mem[tops[1]]
  /\ \A k \in UserMaps : \A j \in Upper :
       j \in DOMAIN mem[tops[k]] /\ mem[tops[k]][j] = mem[tops[1]][j]

\* The inductive invariant, together with Inv.
SharedInv == Early /\ MappingKernel /\ KernelMapped /\ UpperShared

\* Tables only get new entries.
Grown ==
  \A t \in DOMAIN mem : /\ t \in DOMAIN mem'
                        /\ \A j \in DOMAIN mem[t] : j \in DOMAIN mem'[t] /\ mem'[t][j] = mem[t][j]

\* Address -1 is no table.
LEMMA NoTableAtNone == Inv => -1 \notin DOMAIN mem
  BY SMTT(20) DEF Inv, Homes, Frames

\* The way to a page that has its tables.
LEMMA Steps ==
  ASSUME Inv, NEW k, NEW va, Table1(k, va) \in DOMAIN mem
  PROVE  /\ Table2(k, va) \in DOMAIN mem /\ Index(va, 2) \in DOMAIN mem[Table2(k, va)]
         /\ Table1(k, va) = mem[Table2(k, va)][Index(va, 2)].addr
         /\ Table3(k, va) \in DOMAIN mem /\ Index(va, 3) \in DOMAIN mem[Table3(k, va)]
         /\ Table2(k, va) = mem[Table3(k, va)][Index(va, 3)].addr
         /\ tops[k] \in DOMAIN mem /\ Index(va, 4) \in DOMAIN mem[tops[k]]
         /\ Table3(k, va) = mem[tops[k]][Index(va, 4)].addr
<1>1. -1 \notin DOMAIN mem
  BY NoTableAtNone, Zenon
<1>2. \A t, j : NextTable(t, j).addr # -1 =>
        t \in DOMAIN mem /\ j \in DOMAIN mem[t] /\ NextTable(t, j) = mem[t][j]
  BY Zenon DEF NextTable, None
<1>3. /\ Table2(k, va) \in DOMAIN mem /\ Index(va, 2) \in DOMAIN mem[Table2(k, va)]
      /\ Table1(k, va) = mem[Table2(k, va)][Index(va, 2)].addr
  BY <1>1, <1>2, Zenon DEF Table1
<1>4. /\ Table3(k, va) \in DOMAIN mem /\ Index(va, 3) \in DOMAIN mem[Table3(k, va)]
      /\ Table2(k, va) = mem[Table3(k, va)][Index(va, 3)].addr
  BY <1>1, <1>2, <1>3 DEF Table2
<1>5. /\ tops[k] \in DOMAIN mem /\ Index(va, 4) \in DOMAIN mem[tops[k]]
      /\ Table3(k, va) = mem[tops[k]][Index(va, 4)].addr
  BY <1>1, <1>2, <1>4 DEF Table3
<1> QED BY <1>3, <1>4, <1>5, Zenon

\* The way stays the same when tables grow.
LEMMA Stays ==
  ASSUME Inv, Grown, NEW k, NEW va, Table1(k, va) \in DOMAIN mem, tops'[k] = tops[k]
  PROVE  /\ Table1(k, va)' = Table1(k, va) /\ Table1(k, va) \in DOMAIN mem'
         /\ \A j \in DOMAIN mem[Table1(k, va)] :
              /\ j \in DOMAIN mem'[Table1(k, va)]
              /\ mem'[Table1(k, va)][j] = mem[Table1(k, va)][j]
<1>1. \A t \in DOMAIN mem : \A j \in DOMAIN mem[t] : NextTable(t, j)' = mem[t][j]
  BY Zenon DEF Grown, NextTable
<1>a. /\ Table2(k, va) \in DOMAIN mem /\ Index(va, 2) \in DOMAIN mem[Table2(k, va)]
      /\ Table1(k, va) = mem[Table2(k, va)][Index(va, 2)].addr
      /\ Table3(k, va) \in DOMAIN mem /\ Index(va, 3) \in DOMAIN mem[Table3(k, va)]
      /\ Table2(k, va) = mem[Table3(k, va)][Index(va, 3)].addr
      /\ tops[k] \in DOMAIN mem /\ Index(va, 4) \in DOMAIN mem[tops[k]]
      /\ Table3(k, va) = mem[tops[k]][Index(va, 4)].addr
  BY Steps, Zenon
<1>2. Table3(k, va)' = Table3(k, va)
  <2>1. Table3(k, va)' = NextTable(tops[k], Index(va, 4))'.addr
    BY Zenon DEF Table3
  <2> QED BY <2>1, <1>1, <1>a, Zenon
<1>3. Table2(k, va)' = Table2(k, va)
  <2>1. Table2(k, va)' = NextTable(Table3(k, va), Index(va, 3))'.addr
    BY Zenon DEF Table2
  <2> QED BY <2>1, <1>1, <1>2, <1>a, Zenon
<1>4. Table1(k, va)' = Table1(k, va)
  <2>1. Table1(k, va)' = NextTable(Table2(k, va), Index(va, 2))'.addr
    BY Zenon DEF Table1
  <2> QED BY <2>1, <1>1, <1>3, <1>a, Zenon
<1> QED BY <1>4, Zenon DEF Grown

\* A page that is mapped stays mapped.
LEMMA MapsStays ==
  ASSUME Inv, Grown, NEW k, NEW va, NEW e, tops'[k] = tops[k], Maps(k, va, e)
  PROVE  Maps(k, va, e)'
<1>1. /\ Table1(k, va) \in DOMAIN mem /\ Index(va, 1) \in DOMAIN mem[Table1(k, va)]
      /\ mem[Table1(k, va)][Index(va, 1)] = e
  BY Zenon DEF Maps, Present
<1>2. /\ Table1(k, va)' = Table1(k, va) /\ Table1(k, va) \in DOMAIN mem'
      /\ Index(va, 1) \in DOMAIN mem'[Table1(k, va)]
      /\ mem'[Table1(k, va)][Index(va, 1)] = e
  BY <1>1, Stays, Zenon
<1> QED BY <1>2, Zenon DEF Maps, Present

\* The home of a top level.
LEMMA TopHome ==
  ASSUME Inv, NEW k \in DOMAIN tops
  PROVE  tops[k] \in DOMAIN mem /\ home[tops[k]].map = k /\ home[tops[k]].level = 4
<1>1. tops[k] \in DOMAIN mem /\ home[tops[k]] = Home(k, 4, 0, 0)
  BY Zenon DEF Inv, Tops
<1>2. Home(k, 4, 0, 0).map = k /\ Home(k, 4, 0, 0).level = 4
  BY Zenon DEF Home
<1> QED BY <1>1, <1>2, Zenon

\* The homes of the tables on the way to a page.
LEMMA WayHomes ==
  ASSUME Inv, NEW k, NEW va, InMap(k, va), Table1(k, va) \in DOMAIN mem
  PROVE  /\ home[Table1(k, va)] = Home(k, 1, Table2(k, va), Index(va, 2))
         /\ home[Table2(k, va)] = Home(k, 2, Table3(k, va), Index(va, 3))
         /\ home[Table3(k, va)] = Home(k, 3, tops[k], Index(va, 4))
<1>1. tops[k] \in DOMAIN mem /\ home[tops[k]].map = k /\ home[tops[k]].level = 4
  <2>1. k \in DOMAIN tops
    BY Zenon DEF InMap
  <2> QED BY ONLY Inv, <2>1, TopHome, Zenon
<1>a. /\ Table2(k, va) \in DOMAIN mem /\ Index(va, 2) \in DOMAIN mem[Table2(k, va)]
      /\ Table1(k, va) = mem[Table2(k, va)][Index(va, 2)].addr
      /\ Table3(k, va) \in DOMAIN mem /\ Index(va, 3) \in DOMAIN mem[Table3(k, va)]
      /\ Table2(k, va) = mem[Table3(k, va)][Index(va, 3)].addr
      /\ Index(va, 4) \in DOMAIN mem[tops[k]]
      /\ Table3(k, va) = mem[tops[k]][Index(va, 4)].addr
  BY Steps, Zenon
<1>2. ASSUME NEW t \in DOMAIN mem, NEW j \in DOMAIN mem[t], home[t].map = k, home[t].level > 1,
             home[t].level = 4 => k = 1 \/ j \in Lower
      PROVE  home[mem[t][j].addr] = Home(k, home[t].level - 1, t, j)
  BY <1>2 DEF Inv, Tree, Owned
<1>3. home[Table3(k, va)] = Home(k, 3, tops[k], Index(va, 4))
  <2>1. home[tops[k]].level - 1 = 3 /\ home[tops[k]].level > 1
    BY <1>1
  <2>2. home[tops[k]].level = 4 => k = 1 \/ Index(va, 4) \in Lower
    BY Zenon DEF InMap
  <2> QED BY <2>1, <2>2, <1>1, <1>2, <1>a, Zenon
<1>4. home[Table2(k, va)] = Home(k, 2, Table3(k, va), Index(va, 3))
  <2>1. home[Table3(k, va)].map = k /\ home[Table3(k, va)].level = 3
    <3>1. /\ Home(k, 3, tops[k], Index(va, 4)).map = k
          /\ Home(k, 3, tops[k], Index(va, 4)).level = 3
      BY Zenon DEF Home
    <3> QED BY <1>3, <3>1, Zenon
  <2>2. home[Table3(k, va)].level - 1 = 2 /\ home[Table3(k, va)].level > 1
        /\ home[Table3(k, va)].level # 4
    BY <2>1
  <2> QED BY <2>1, <2>2, <1>2, <1>a, Zenon
<1>5. home[Table1(k, va)] = Home(k, 1, Table2(k, va), Index(va, 2))
  <2>1. home[Table2(k, va)].map = k /\ home[Table2(k, va)].level = 2
    <3>1. /\ Home(k, 2, Table3(k, va), Index(va, 3)).map = k
          /\ Home(k, 2, Table3(k, va), Index(va, 3)).level = 2
      BY Zenon DEF Home
    <3> QED BY <1>4, <3>1, Zenon
  <2>2. home[Table2(k, va)].level - 1 = 1 /\ home[Table2(k, va)].level > 1
        /\ home[Table2(k, va)].level # 4
    BY <2>1
  <2> QED BY <2>1, <2>2, <1>2, <1>a, Zenon
<1> QED BY <1>3, <1>4, <1>5, Zenon

\* Pages with the same last table have the same indices above it.
LEMMA SameTable ==
  ASSUME Inv, NEW k, NEW va, NEW wa, InMap(k, va), InMap(k, wa), Table1(k, va) \in DOMAIN mem,
         Table1(k, va) = Table1(k, wa), Index(va, 1) = Index(wa, 1)
  PROVE  SameIndices(va, wa)
<1>a. /\ home[Table1(k, va)] = Home(k, 1, Table2(k, va), Index(va, 2))
      /\ home[Table2(k, va)] = Home(k, 2, Table3(k, va), Index(va, 3))
      /\ home[Table3(k, va)] = Home(k, 3, tops[k], Index(va, 4))
  BY WayHomes, Zenon
<1>b. /\ home[Table1(k, wa)] = Home(k, 1, Table2(k, wa), Index(wa, 2))
      /\ home[Table2(k, wa)] = Home(k, 2, Table3(k, wa), Index(wa, 3))
      /\ home[Table3(k, wa)] = Home(k, 3, tops[k], Index(wa, 4))
  BY WayHomes, Zenon
<1>1. Table2(k, va) = Table2(k, wa) /\ Index(va, 2) = Index(wa, 2)
  <2>1. Home(k, 1, Table2(k, va), Index(va, 2)) = Home(k, 1, Table2(k, wa), Index(wa, 2))
    BY <1>a, <1>b, Zenon
  <2>2. /\ Home(k, 1, Table2(k, va), Index(va, 2)).table = Table2(k, va)
        /\ Home(k, 1, Table2(k, va), Index(va, 2)).idx = Index(va, 2)
        /\ Home(k, 1, Table2(k, wa), Index(wa, 2)).table = Table2(k, wa)
        /\ Home(k, 1, Table2(k, wa), Index(wa, 2)).idx = Index(wa, 2)
    BY Zenon DEF Home
  <2> QED BY <2>1, <2>2, Zenon
<1>2. Table3(k, va) = Table3(k, wa) /\ Index(va, 3) = Index(wa, 3)
  <2>1. Home(k, 2, Table3(k, va), Index(va, 3)) = Home(k, 2, Table3(k, wa), Index(wa, 3))
    BY <1>a, <1>b, <1>1, Zenon
  <2>2. /\ Home(k, 2, Table3(k, va), Index(va, 3)).table = Table3(k, va)
        /\ Home(k, 2, Table3(k, va), Index(va, 3)).idx = Index(va, 3)
        /\ Home(k, 2, Table3(k, wa), Index(wa, 3)).table = Table3(k, wa)
        /\ Home(k, 2, Table3(k, wa), Index(wa, 3)).idx = Index(wa, 3)
    BY Zenon DEF Home
  <2> QED BY <2>1, <2>2, Zenon
<1>3. Index(va, 4) = Index(wa, 4)
  <2>1. Home(k, 3, tops[k], Index(va, 4)) = Home(k, 3, tops[k], Index(wa, 4))
    BY <1>a, <1>b, <1>2, Zenon
  <2>2. Home(k, 3, tops[k], Index(va, 4)).idx = Index(va, 4) /\ Home(k, 3, tops[k], Index(wa, 4)).idx = Index(wa, 4)
    BY Zenon DEF Home
  <2> QED BY <2>1, <2>2, Zenon
<1>4. \A l \in 1 .. 4 : l = 1 \/ l = 2 \/ l = 3 \/ l = 4
  OBVIOUS
<1> QED BY <1>1, <1>2, <1>3, <1>4, Zenon DEF SameIndices

\* A new table p is empty, and only entry j of t leads to it.
NewEmpty(p, t, j) ==
  /\ p \notin DOMAIN mem /\ DOMAIN mem' = DOMAIN mem \cup {p} /\ DOMAIN mem'[p] = {}
  /\ \A s \in DOMAIN mem : /\ DOMAIN mem'[s] = IF s = t THEN DOMAIN mem[s] \cup {j} ELSE DOMAIN mem[s]
                           /\ \A x \in DOMAIN mem[s] : mem'[s][x] = mem[s][x]
  /\ j \notin DOMAIN mem[t] /\ mem'[t][j].addr = p

\* get_next_level() makes such a table.
LEMMA NewLevelEmpty ==
  ASSUME Inv, NEW p \in Frames, NEW k, NEW l, NEW t \in DOMAIN mem, NEW j, j \notin DOMAIN mem[t],
         NewLevel(p, k, l, t, j)
  PROVE  NewEmpty(p, t, j) /\ Grown
<1>1. p \notin DOMAIN mem /\ p # t
  BY Fresh, Zenon DEF NewLevel, Inv, Homes
<1>2. /\ DOMAIN mem' = DOMAIN mem \cup {p}
      /\ \A s \in DOMAIN mem : s # t => mem'[s] = mem[s]
      /\ mem'[t] = With(mem[t], j, Entry(p, TableFlags))
      /\ mem'[p] = NoTable
  BY <1>1, Zenon DEF NewLevel, With
<1>3. DOMAIN mem'[p] = {}
  BY <1>2, Zenon DEF NoTable
<1>4. DOMAIN mem'[t] = DOMAIN mem[t] \cup {j} /\ mem'[t][j].addr = p
      /\ \A x \in DOMAIN mem[t] : mem'[t][x] = mem[t][x]
  BY <1>2 DEF With, Entry
<1> QED BY <1>1, <1>2, <1>3, <1>4, Zenon DEF NewEmpty, Grown

\* No page is present because of a new table.
LEMMA NotYet ==
  ASSUME Inv, Inv', NEW p, NEW t, NEW j, NewEmpty(p, t, j), home[t].level > 1,
         NEW k, NEW va, InMap(k, va), tops'[k] = tops[k], Present(k, va)'
  PROVE  Present(k, va)
<1> DEFINE t1 == Table1(k, va)'
           t2 == Table2(k, va)'
           t3 == Table3(k, va)'
           top == tops'[k]
<1>1. t1 \in DOMAIN mem' /\ Index(va, 1) \in DOMAIN mem'[t1]
  BY Zenon DEF Present
<1>2. /\ t2 \in DOMAIN mem' /\ Index(va, 2) \in DOMAIN mem'[t2] /\ t1 = mem'[t2][Index(va, 2)].addr
      /\ t3 \in DOMAIN mem' /\ Index(va, 3) \in DOMAIN mem'[t3] /\ t2 = mem'[t3][Index(va, 3)].addr
      /\ top \in DOMAIN mem' /\ Index(va, 4) \in DOMAIN mem'[top]
      /\ t3 = mem'[top][Index(va, 4)].addr
  <2>1. -1 \notin DOMAIN mem'
    BY DEF Inv, Homes, Frames
  <2>2. \A s, x : NextTable(s, x)'.addr # -1 =>
          s \in DOMAIN mem' /\ x \in DOMAIN mem'[s] /\ NextTable(s, x)' = mem'[s][x]
    BY Zenon DEF NextTable, None
  <2>3. /\ t1 = NextTable(Table2(k, va), Index(va, 2))'.addr
        /\ t2 = NextTable(Table3(k, va), Index(va, 3))'.addr
        /\ t3 = NextTable(tops[k], Index(va, 4))'.addr
    BY Zenon DEF Table1, Table2, Table3
  <2> HIDE DEF t1, t2, t3
  <2>4. t2 \in DOMAIN mem' /\ Index(va, 2) \in DOMAIN mem'[t2] /\ t1 = mem'[t2][Index(va, 2)].addr
    BY <1>1, <2>1, <2>2, <2>3, Zenon DEF t2, NextTable
  <2>5. t3 \in DOMAIN mem' /\ Index(va, 3) \in DOMAIN mem'[t3] /\ t2 = mem'[t3][Index(va, 3)].addr
    BY <2>1, <2>2, <2>3, <2>4, Zenon DEF t3, NextTable
  <2>6. top \in DOMAIN mem' /\ Index(va, 4) \in DOMAIN mem'[top] /\ t3 = mem'[top][Index(va, 4)].addr
    BY <2>1, <2>2, <2>3, <2>5, Zenon DEF NextTable
  <2> QED BY <2>4, <2>5, <2>6, Zenon
<1> HIDE DEF t1, t2, t3, top
<1>3. ASSUME NEW s \in DOMAIN mem', NEW x \in DOMAIN mem'[s], mem'[s][x].addr # p
      PROVE  s \in DOMAIN mem /\ x \in DOMAIN mem[s] /\ mem'[s][x] = mem[s][x]
  <2>1. s \in DOMAIN mem
    BY Zenon DEF NewEmpty
  <2>2. DOMAIN mem'[s] = IF s = t THEN DOMAIN mem[s] \cup {j} ELSE DOMAIN mem[s]
    BY <2>1, Zenon DEF NewEmpty
  <2>3. ~(s = t /\ x = j)
    BY <1>3, Zenon DEF NewEmpty
  <2>4. x \in DOMAIN mem[s]
    BY <2>2, <2>3, Zenon
  <2> QED BY <2>1, <2>4, Zenon DEF NewEmpty
<1>4. t1 # p /\ t2 # p /\ t3 # p
  BY <1>1, <1>2, Zenon DEF NewEmpty
<1>5. /\ t2 \in DOMAIN mem /\ Index(va, 2) \in DOMAIN mem[t2] /\ t1 = mem[t2][Index(va, 2)].addr
      /\ t3 \in DOMAIN mem /\ Index(va, 3) \in DOMAIN mem[t3] /\ t2 = mem[t3][Index(va, 3)].addr
      /\ top \in DOMAIN mem /\ Index(va, 4) \in DOMAIN mem[top] /\ t3 = mem[top][Index(va, 4)].addr
  <2>1. top \in DOMAIN mem /\ Index(va, 4) \in DOMAIN mem[top] /\ t3 = mem[top][Index(va, 4)].addr
    BY <1>2, <1>3, <1>4, Zenon
  <2>2. t3 \in DOMAIN mem /\ Index(va, 3) \in DOMAIN mem[t3] /\ t2 = mem[t3][Index(va, 3)].addr
    BY <1>2, <1>3, <1>4, Zenon
  <2>3. t2 \in DOMAIN mem /\ Index(va, 2) \in DOMAIN mem[t2] /\ t1 = mem[t2][Index(va, 2)].addr
    BY <1>2, <1>3, <1>4, Zenon
  <2> QED BY <2>1, <2>2, <2>3, ZenonT(30)
<1>6. t3 = Table3(k, va) /\ t2 = Table2(k, va) /\ t1 = Table1(k, va)
  <2>1. t3 = Table3(k, va)
    BY <1>5, Zenon DEF Table3, NextTable, top
  <2>2. t2 = Table2(k, va)
    BY <2>1, <1>5, Zenon DEF Table2, NextTable
  <2>3. t1 = Table1(k, va)
    BY <2>2, <1>5, Zenon DEF Table1, NextTable
  <2> QED BY <2>1, <2>2, <2>3, Zenon
<1>7. t1 \in DOMAIN mem
  BY <1>1, <1>4, ZenonT(30) DEF NewEmpty
<1>8. home[t1].level = 1
  <2>1. home[Table1(k, va)] = Home(k, 1, Table2(k, va), Index(va, 2))
    BY <1>6, <1>7, WayHomes, Zenon
  <2>2. Home(k, 1, Table2(k, va), Index(va, 2)).level = 1
    BY Zenon DEF Home
  <2> QED BY <2>1, <2>2, <1>6, Zenon
<1>9. DOMAIN mem'[t1] = DOMAIN mem[t1]
  <2>1. t1 # t
    BY <1>8
  <2> QED BY <2>1, <1>7, Zenon DEF NewEmpty
<1> QED BY <1>1, <1>6, <1>7, <1>9, Zenon DEF Present

\* The part of a way that exists stays the same when tables grow.
LEMMA WayStays ==
  ASSUME Inv, Grown, NEW k, NEW va, tops'[k] = tops[k]
  PROVE  /\ Table3(k, va) \in DOMAIN mem => Table3(k, va)' = Table3(k, va)
         /\ Table2(k, va) \in DOMAIN mem => Table2(k, va)' = Table2(k, va)
<1>1. -1 \notin DOMAIN mem
  BY NoTableAtNone, Zenon
<1>2. ASSUME NEW t, NEW j, NextTable(t, j).addr \in DOMAIN mem
      PROVE  t \in DOMAIN mem /\ NextTable(t, j)' = NextTable(t, j)
  BY <1>1, <1>2, Zenon DEF NextTable, None, Grown
<1>3. ASSUME Table3(k, va) \in DOMAIN mem
      PROVE  Table3(k, va)' = Table3(k, va)
  BY <1>2, <1>3, Zenon DEF Table3
<1>4. ASSUME Table2(k, va) \in DOMAIN mem
      PROVE  Table2(k, va)' = Table2(k, va)
  <2> PICK t, j : t = Table3(k, va) /\ j = Index(va, 3)
    BY Zenon
  <2>1. NextTable(t, j).addr \in DOMAIN mem
    BY <1>4, Zenon DEF Table2
  <2>2. t \in DOMAIN mem /\ NextTable(t, j)' = NextTable(t, j)
    BY <2>1, <1>2, Zenon
  <2>3. Table3(k, va)' = t
    BY <2>2, <1>3, Zenon
  <2> QED BY <2>2, <2>3, Zenon DEF Table2
<1> QED BY <1>3, <1>4, Zenon

\* A new entry in a last table changes no way.
LEMMA LeafWays ==
  ASSUME Inv, UNCHANGED tops, NEW t \in DOMAIN mem, home[t].level = 1,
         DOMAIN mem' = DOMAIN mem, \A s \in DOMAIN mem : s # t => mem'[s] = mem[s],
         NEW k, NEW va, InMap(k, va)
  PROVE  Table1(k, va)' = Table1(k, va)
<1>1. ASSUME NEW s, NEW j, s # t PROVE NextTable(s, j)' = NextTable(s, j)
  BY <1>1, Zenon DEF NextTable
<1>2. tops[k] \in DOMAIN mem /\ home[tops[k]].map = k /\ home[tops[k]].level = 4
  <2>1. k \in DOMAIN tops
    BY Zenon DEF InMap
  <2> QED BY ONLY Inv, <2>1, TopHome, Zenon
<1>3. -1 \notin DOMAIN mem
  BY NoTableAtNone, Zenon
<1>4. ASSUME NEW s, NEW j, home[s].map = k, home[s].level > 1,
             home[s].level = 4 => k = 1 \/ j \in Lower, NextTable(s, j).addr \in DOMAIN mem
      PROVE  home[NextTable(s, j).addr] = Home(k, home[s].level - 1, s, j)
  <2>1. s \in DOMAIN mem /\ j \in DOMAIN mem[s] /\ NextTable(s, j) = mem[s][j]
    BY <1>3, <1>4, Zenon DEF NextTable, None
  <2> QED BY <2>1, <1>4 DEF Inv, Tree, Owned
<1>5. Table3(k, va)' = Table3(k, va)
  <2>1. tops[k] # t
    BY <1>2
  <2>2. NextTable(tops[k], Index(va, 4))' = NextTable(tops[k], Index(va, 4))
    BY <2>1, <1>1, Zenon
  <2> QED BY <2>2, Zenon DEF Table3
<1>6. ASSUME Table3(k, va) \in DOMAIN mem
      PROVE  home[Table3(k, va)].map = k /\ home[Table3(k, va)].level = 3
  <2>1. home[Table3(k, va)] = Home(k, home[tops[k]].level - 1, tops[k], Index(va, 4))
    <3> PICK s, j : s = tops[k] /\ j = Index(va, 4)
      BY Zenon
    <3>1. home[s].level > 1
      BY <1>2
    <3>2. home[s].level = 4 => k = 1 \/ j \in Lower
      BY Zenon DEF InMap
    <3>3. NextTable(s, j).addr = Table3(k, va)
      BY Zenon DEF Table3
    <3>4. home[s].map = k /\ NextTable(s, j).addr \in DOMAIN mem
      BY <3>3, <1>2, <1>6, Zenon
    <3>5. home[NextTable(s, j).addr] = Home(k, home[s].level - 1, s, j)
      BY ONLY <3>1, <3>2, <3>4, <1>4, ZenonT(60)
    <3> QED BY <3>3, <3>5, Zenon
  <2>2. home[tops[k]].level - 1 = 3
    BY <1>2
  <2>3. /\ Home(k, 3, tops[k], Index(va, 4)).map = k
        /\ Home(k, 3, tops[k], Index(va, 4)).level = 3
    BY Zenon DEF Home
  <2> QED BY <2>1, <2>2, <2>3, Zenon
<1>7. Table2(k, va)' = Table2(k, va)
  <2>1. Table3(k, va) # t
    BY <1>6
  <2> QED BY <2>1, <1>1, <1>5, Zenon DEF Table2
<1>8. Table2(k, va) # t
  <2> SUFFICES ASSUME Table2(k, va) \in DOMAIN mem PROVE Table2(k, va) # t
    BY Zenon
  <2>1. Table3(k, va) \in DOMAIN mem
    BY <1>3, Zenon DEF Table2, NextTable, None
  <2>2. home[Table3(k, va)].map = k /\ home[Table3(k, va)].level = 3
    BY <2>1, <1>6, Zenon
  <2>3. home[Table2(k, va)] = Home(k, home[Table3(k, va)].level - 1, Table3(k, va), Index(va, 3))
    <3> PICK s, j : s = Table3(k, va) /\ j = Index(va, 3)
      BY Zenon
    <3>1. home[s].map = k /\ home[s].level > 1 /\ home[s].level # 4 /\ NextTable(s, j).addr \in DOMAIN mem
      BY <2>2 DEF Table2
    <3>2. home[NextTable(s, j).addr] = Home(k, home[s].level - 1, s, j)
      BY ONLY <3>1, <1>4, Zenon
    <3> QED BY <3>2, Zenon DEF Table2
  <2>4. home[Table2(k, va)].level = 2
    <3>1. home[Table3(k, va)].level - 1 = 2
      BY <2>2
    <3>2. Home(k, 2, Table3(k, va), Index(va, 3)).level = 2
      BY Zenon DEF Home
    <3> QED BY <3>1, <3>2, <2>3, Zenon
  <2> QED BY <2>4
<1> QED BY <1>1, <1>7, <1>8, Zenon DEF Table1

\* Nothing changes for a page when no table changes.
LEMMA SameMap ==
  ASSUME UNCHANGED <<mem, tops>>, NEW k, NEW va
  PROVE  Table1(k, va)' = Table1(k, va) /\ (Present(k, va)' <=> Present(k, va))
<1>1. \A t, j : NextTable(t, j)' = NextTable(t, j)
  BY Zenon DEF NextTable
<1>2. Table3(k, va)' = Table3(k, va)
  BY <1>1, Zenon DEF Table3
<1>3. Table2(k, va)' = Table2(k, va)
  BY <1>1, <1>2, Zenon DEF Table2
<1>4. Table1(k, va)' = Table1(k, va)
  BY <1>1, <1>3, Zenon DEF Table1
<1> QED BY <1>4, Zenon DEF Present

\* A level of va2pte() makes no page present.
LEMMA WalkGrows ==
  ASSUME Inv, Inv', Walk
  PROVE  /\ Grown
         /\ \A k, va : InMap(k, va) /\ Present(k, va)' => Present(k, va)
         /\ \A k, w : k \in DOMAIN tops /\ w = Head(todo).va /\ OnWay(k, w) => OnWay(k, w)'
<1>1. /\ todo # <<>> /\ level \in 2 .. 4 /\ level' = level - 1 /\ UNCHANGED tops
  BY DEF Walk, Inv, Walking
<1>2. cur \in DOMAIN mem /\ home[cur].level = level /\ cur' \in DOMAIN mem'
  BY <1>1, Zenon DEF Inv, Walking, Walk
<1> PICK w, t, j : w = Head(todo).va /\ t = cur /\ j = Index(w, level)
  BY Zenon
<1>3. /\ Grown /\ cur' = mem'[t][j].addr /\ j \in DOMAIN mem'[t] /\ t \in DOMAIN mem'
      /\ \A k, va : InMap(k, va) /\ Present(k, va)' => Present(k, va)
  <2>1. CASE j \in DOMAIN mem[t]
    <3>1. cur' = mem[t][j].addr /\ UNCHANGED mem
      BY <2>1, Zenon DEF Walk
    <3>2. \A k, va : Present(k, va)' => Present(k, va)
      BY <3>1, <1>1, SameMap, Zenon
    <3> QED BY <3>1, <3>2, <2>1, <1>2, Zenon DEF Grown
  <2>2. CASE j \notin DOMAIN mem[t]
    <3>1. PICK p \in Frames : NewLevel(p, Len(tops), level - 1, t, j) /\ cur' = p
      BY <2>2, Zenon DEF Walk
    <3>2. NewEmpty(p, t, j) /\ Grown
      BY <3>1, <2>2, <1>2, NewLevelEmpty, Zenon
    <3>3. home[t].level > 1
      BY <1>1, <1>2
    <3>4. \A k, va : InMap(k, va) /\ Present(k, va)' => Present(k, va)
      BY <3>2, <3>3, <1>1, NotYet, Zenon
    <3>5. cur' = mem'[t][j].addr /\ j \in DOMAIN mem'[t] /\ t \in DOMAIN mem'
      BY <3>1, <3>2, <1>2, ZenonT(60) DEF NewEmpty
    <3> QED BY <3>2, <3>4, <3>5, Zenon
  <2> QED BY <2>1, <2>2, Zenon
<1>4. ASSUME NEW k \in DOMAIN tops, OnWay(k, w) PROVE OnWay(k, w)'
  <2>1. cur' = NextTable(t, j)'.addr /\ tops'[k] = tops[k]
    BY <1>1, <1>3, Zenon DEF NextTable
  <2>2. CASE level = 4
    <3>1. cur' = Table3(k, w)'
      BY <1>1, <1>4, <2>1, <2>2, Zenon DEF OnWay, Table3
    <3> QED BY <3>1, <2>2, <1>1 DEF OnWay
  <2>3. CASE level = 3
    <3>1. t = Table3(k, w)'
      BY <1>2, <1>3, <1>4, <2>1, <2>3, WayStays, Zenon DEF OnWay
    <3>2. cur' = Table2(k, w)'
      BY <2>1, <2>3, <3>1, Zenon DEF Table2
    <3> QED BY <3>2, <2>3, <1>1 DEF OnWay
  <2>4. CASE level = 2
    <3>1. t = Table2(k, w)'
      BY <1>2, <1>3, <1>4, <2>1, <2>4, WayStays, Zenon DEF OnWay
    <3>2. cur' = Table1(k, w)'
      BY <2>1, <2>4, <3>1, Zenon DEF Table1
    <3> QED BY <3>2, <2>4, <1>1 DEF OnWay
  <2> QED BY <2>2, <2>3, <2>4, <1>1
<1> QED BY <1>3, <1>4, Zenon

\* Entry x of table t becomes e unless it is present.
SetEntry(t, x, e) ==
  /\ x \in DOMAIN mem[t] => UNCHANGED mem
  /\ x \notin DOMAIN mem[t] =>
       /\ DOMAIN mem' = DOMAIN mem /\ \A s \in DOMAIN mem : s # t => mem'[s] = mem[s]
       /\ DOMAIN mem'[t] = DOMAIN mem[t] \cup {x} /\ mem'[t][x] = e
       /\ \A y \in DOMAIN mem[t] : mem'[t][y] = mem[t][y]

\* What the end of mappage2() does to the tables.
LEMMA LeafMem ==
  ASSUME Inv, Leaf
  PROVE  Grown /\ SetEntry(cur, Index(Head(todo).va, 1), Entry(Head(todo).pa, Head(todo).flags))
<1> PICK t, x, e : t = cur /\ x = Index(Head(todo).va, 1)
                   /\ e = Entry(Head(todo).pa, Head(todo).flags)
  BY Zenon
<1>1. todo # <<>> /\ tops # <<>> /\ cur \in DOMAIN mem
  BY Zenon DEF Leaf, Inv, Walking
<1>2. /\ x \in DOMAIN mem[t] => UNCHANGED mem
      /\ x \notin DOMAIN mem[t] => mem' = With(mem, t, With(mem[t], x, e))
  BY Zenon DEF Leaf
<1>3. ASSUME x \notin DOMAIN mem[t]
      PROVE  /\ DOMAIN mem' = DOMAIN mem /\ \A s \in DOMAIN mem : s # t => mem'[s] = mem[s]
             /\ DOMAIN mem'[t] = DOMAIN mem[t] \cup {x} /\ mem'[t][x] = e
             /\ \A y \in DOMAIN mem[t] : mem'[t][y] = mem[t][y]
  <2>1. /\ DOMAIN mem' = DOMAIN mem /\ \A s \in DOMAIN mem : s # t => mem'[s] = mem[s]
        /\ mem'[t] = With(mem[t], x, e)
    BY <1>1, <1>2, <1>3, Zenon DEF With
  <2> QED BY <2>1, <1>3, Zenon DEF With
<1>4. SetEntry(t, x, e)
  BY <1>2, <1>3, Zenon DEF SetEntry
<1> QED BY <1>2, <1>3, <1>4, Zenon DEF Grown

\* The end of mappage2() makes one page present, as it was asked to.
LEMMA LeafGrows ==
  ASSUME Inv, Leaf, NEW k, NEW w, w = Head(todo).va, InMap(k, w), OnWay(k, w),
         NEW e, e = Entry(Head(todo).pa, Head(todo).flags)
  PROVE  /\ \A va : InMap(k, va) /\ Present(k, va)' => Present(k, va) \/ SameIndices(va, w)
         /\ ~Present(k, w) => Maps(k, w, e)'
<1>1. todo # <<>> /\ level = 1 /\ UNCHANGED tops
  BY Zenon DEF Leaf
<1>2. cur \in DOMAIN mem /\ home[cur].level = 1
  BY <1>1, Zenon DEF Inv, Walking
<1> PICK t, x : t = cur /\ x = Index(w, 1)
  BY Zenon
<1>3. t = Table1(k, w)
  BY <1>1, Zenon DEF OnWay
<1>4. /\ x \notin DOMAIN mem[t] =>
              /\ DOMAIN mem' = DOMAIN mem /\ \A s \in DOMAIN mem : s # t => mem'[s] = mem[s]
              /\ DOMAIN mem'[t] = DOMAIN mem[t] \cup {x} /\ mem'[t][x] = e
      /\ x \in DOMAIN mem[t] => UNCHANGED mem
  <2>1. SetEntry(cur, Index(Head(todo).va, 1), Entry(Head(todo).pa, Head(todo).flags))
    BY ONLY Inv, Leaf, LeafMem, Zenon
  <2>2. SetEntry(t, x, e)
    BY <2>1, Zenon
  <2> QED BY <2>2, Zenon DEF SetEntry
<1>5. CASE x \in DOMAIN mem[t]
  <2>1. Present(k, w)
    BY <1>2, <1>3, <1>5, Zenon DEF Present
  <2> QED BY <2>1, <1>1, <1>4, <1>5, SameMap, Zenon
<1>6. CASE x \notin DOMAIN mem[t]
  <2>1. \A va : InMap(k, va) => Table1(k, va)' = Table1(k, va)
    BY <1>1, <1>2, <1>4, <1>6, LeafWays, Zenon
  <2>2. ASSUME NEW va, InMap(k, va), Present(k, va)', ~Present(k, va)
        PROVE  SameIndices(va, w)
    <3>1. Table1(k, va) \in DOMAIN mem' /\ Index(va, 1) \in DOMAIN mem'[Table1(k, va)]
      BY <2>1, <2>2, Zenon DEF Present
    <3>2. Table1(k, va) \in DOMAIN mem /\ Index(va, 1) \notin DOMAIN mem[Table1(k, va)]
      BY <3>1, <1>4, <1>6, <2>2, Zenon DEF Present
    <3>3. Table1(k, va) = t /\ Index(va, 1) = x
      BY <3>1, <3>2, <1>4, <1>6, Zenon
    <3> QED BY <3>2, <3>3, <2>2, <1>3, SameTable, Zenon
  <2>3. Maps(k, w, e)'
    <3>1. Table1(k, w)' = t /\ t \in DOMAIN mem' /\ x \in DOMAIN mem'[t] /\ mem'[t][x] = e
      BY <2>1, <1>2, <1>3, <1>4, <1>6, Zenon
    <3> QED BY <3>1, Zenon DEF Maps, Present
  <2> QED BY <2>2, <2>3, Zenon
<1> QED BY <1>5, <1>6, Zenon

\* Nothing is mapped at the start.
LEMMA InitShared == InitExec => SharedInv
<1> SUFFICES ASSUME InitExec PROVE SharedInv
  BY Zenon
<1>1. DOMAIN mem = {} /\ tops = <<>> /\ pc = "off"
  BY Zenon DEF InitExec, InitVmm, NoTable
<1>2. UserMaps = {}
  BY <1>1 DEF UserMaps
<1> QED BY <1>1, <1>2, Zenon DEF SharedInv, Early, MappingKernel, KernelMapped, UpperShared, Present

\* Every step keeps the invariant.
LEMMA NextShared == Inv /\ Inv' /\ SharedInv /\ [NextExec]_allVars => SharedInv'
\* A page of the kernel that is mapped stays mapped.
<1>StaysMapped. ASSUME Inv, Grown, tops'[1] = tops[1], NEW a, MappedAs(a)
                PROVE  MappedAs(a)'
  <2> USE <1>StaysMapped
  <2> PICK va, e : va = KernelTodo[a].va /\ e = Entry(KernelTodo[a].pa, KernelTodo[a].flags)
    BY Zenon
  <2>1. Maps(1, va, e)'
    BY MapsStays, Zenon DEF MappedAs
  <2>2. Table1(1, KernelTodo[a].va)' = Table1(1, va)'
    BY Zenon
  <2> QED BY <2>1, <2>2, Zenon DEF MappedAs, Maps, Present
\* The first step of init_vm().
<1>InitTopShared. ASSUME Inv, pc = "off", InitTop, UNCHANGED pc
                  PROVE  SharedInv'
  <2> USE <1>InitTopShared
  <2>1. PICK p \in Frames :
          mem' = With(mem, p, NoTable) /\ tops' = <<p>> /\ cur' = p /\ tops = <<>>
    BY Zenon DEF InitTop
  <2>2. DOMAIN mem = {}
    <3>1. \A f \in DOMAIN home : home[f].map \in 1 .. 0
      BY <2>1, Zenon DEF Inv, Homes
    <3>2. DOMAIN mem \subseteq DOMAIN home
      BY Zenon DEF Inv, Homes
    <3>3. 1 .. 0 = {}
      OBVIOUS
    <3> QED BY <3>1, <3>2, <3>3, Zenon
  <2>3. \A t \in DOMAIN mem' : DOMAIN mem'[t] = {}
    BY <2>1, <2>2, Zenon DEF With, NoTable
  <2>4. Early'
    BY <2>1, <2>3, Zenon DEF Early, Present
  <2>5. UserMaps' = {}
    BY <2>1 DEF UserMaps
  <2> QED BY <2>4, <2>5, Zenon DEF SharedInv, MappingKernel, KernelMapped, UpperShared
\* init_vm() fills the upper half of the top level.
<1>HigherHalfShared. ASSUME Inv, Inv', SharedInv, pc = "off", NEW j, HigherHalf(j), UNCHANGED pc
                     PROVE  SharedInv'
  <2> USE <1>HigherHalfShared
  <2>1. PICK p \in Frames : NewLevel(p, 1, 3, cur, j)
    BY Zenon DEF HigherHalf
  <2>2. /\ tops # <<>> /\ Len(tops) = 1 /\ cur \in DOMAIN mem /\ home[cur].level = 4 /\ level = 4
        /\ j \notin DOMAIN mem[cur] /\ UNCHANGED <<tops, cur>>
    <3>1. Len(tops) = 1 /\ j \notin DOMAIN mem[cur] /\ UNCHANGED <<tops, cur>>
      BY Zenon DEF HigherHalf
    <3>2. tops # <<>>
      BY <3>1
    <3>3. todo = <<>>
      BY Zenon DEF Inv, Control
    <3> QED BY <3>1, <3>2, <3>3, Zenon DEF Inv, Walking
  <2> PICK t : t = cur
    BY Zenon
  <2>3. NewEmpty(p, t, j)
    BY <2>1, <2>2, NewLevelEmpty, Zenon
  <2>4. home[t].level > 1 /\ tops'[1] = tops[1]
    BY <2>2
  <2>5. \A va \in Int : ~Present(1, va)'
    <3>1. \A va : InMap(1, va)
      <4>1. tops \in Seq(Frames)
        BY Zenon DEF Inv, Tops
      <4>2. 1 \in DOMAIN tops
        BY ONLY <4>1, <2>2
      <4> QED BY <4>2, Zenon DEF InMap
    <3> QED BY <3>1, <2>3, <2>4, NotYet, ZenonT(30) DEF SharedInv, Early
  <2>6. Early'
    BY <2>2, <2>5, Zenon DEF SharedInv, Early
  <2>7. UserMaps' = {}
    <3>1. tops \in Seq(Frames)
      BY Zenon DEF Inv, Tops
    <3>2. Len(tops) = 1 /\ tops' = tops
      BY <2>2, Zenon
    <3> QED BY ONLY <3>1, <3>2 DEF UserMaps
  <2> QED BY <2>6, <2>7, Zenon DEF SharedInv, MappingKernel, KernelMapped, UpperShared
\* The list of the pages of the kernel is made.
<1>MapKernelShared. ASSUME Inv, SharedInv, pc = "off", MapKernel, pc' = "kernel"
                    PROVE  SharedInv'
  <2> USE <1>MapKernelShared
  <2>1. /\ Len(tops) = 1 /\ tops # <<>> /\ Upper \subseteq DOMAIN mem[cur] /\ todo' = KernelTodo
        /\ UNCHANGED <<mem, tops, level, cur>> /\ level = 4
    <3>1. /\ Len(tops) = 1 /\ Upper \subseteq DOMAIN mem[cur] /\ todo' = KernelTodo
          /\ UNCHANGED <<mem, tops, level, cur>>
      BY Zenon DEF MapKernel
    <3>2. tops # <<>>
      BY <3>1
    <3>3. todo = <<>>
      BY ZenonT(60) DEF Inv, Control
    <3> QED BY <3>1, <3>2, <3>3, Zenon DEF Inv, Walking
  <2>2. cur = tops[1] /\ \A va \in Int : ~Present(1, va)
    BY <2>1, Zenon DEF SharedInv, Early
  <2>3. Len(KernelTodo) \in Nat
    BY KernelTodoParts
  <2>4. Mapped' = 0
    BY <2>1, <2>3 DEF Mapped
  <2>5. \A va \in Int : ~Present(1, va)'
    BY <2>1, <2>2, SameMap, Zenon
  <2>6. MappingKernel'
    <3>1. \A b \in DOMAIN todo' : todo'[b] = KernelTodo[Mapped' + b]
      BY <2>1, <2>4, KernelTodoParts
    <3>2. OnWay(1, Head(todo).va)'
      BY <2>1, <2>2 DEF OnWay
    <3>3. \A a \in 1 .. Mapped' : FALSE
      BY <2>4
    <3> QED BY <2>1, <2>3, <2>5, <3>1, <3>2, <3>3 DEF MappingKernel
  <2>7. UserMaps' = {}
    BY <2>1 DEF UserMaps, Inv, Tops
  <2>8. UpperShared'
    <3>1. Upper \subseteq DOMAIN mem'[tops'[1]]
      BY <2>1, <2>2, Zenon
    <3> QED BY <3>1, <2>7, Zenon DEF UpperShared, Upper, Lower, Idx
  <2> QED BY <2>6, <2>8, Zenon DEF SharedInv, Early, KernelMapped
\* What all later steps keep.
<1>GrownShared. ASSUME Inv, SharedInv, Grown, UNCHANGED tops,
                       pc # "off", pc' # "off", pc' = "kernel" \/ pc # "kernel"
                PROVE  KernelMapped' /\ UpperShared'
  <2> USE <1>GrownShared
  <2>1. tops \in Seq(Frames) /\ \A k \in DOMAIN tops : tops[k] \in DOMAIN mem
    BY Zenon DEF Inv, Tops
  <2>2. 1 \in DOMAIN tops
    BY <2>1 DEF Inv, Control
  <2>3. KernelMapped'
    BY <1>StaysMapped, Zenon DEF SharedInv, KernelMapped
  <2>4. Upper \subseteq DOMAIN mem'[tops[1]] /\ \A j \in Upper : mem'[tops[1]][j] = mem[tops[1]][j]
    BY <2>1, <2>2, Zenon DEF SharedInv, UpperShared, Grown
  <2>5. ASSUME NEW k \in UserMaps, NEW j \in Upper
        PROVE  j \in DOMAIN mem'[tops[k]] /\ mem'[tops[k]][j] = mem'[tops[1]][j]
    BY <2>1, <2>4 DEF SharedInv, UpperShared, Grown, UserMaps
  <2>6. UserMaps' = UserMaps
    BY Zenon DEF UserMaps
  <2>7. UpperShared'
    BY <2>4, <2>5, <2>6 DEF UpperShared, Upper, Lower, Idx
  <2> QED BY <2>3, <2>7, Zenon
\* A level of va2pte().
<1>WalkShared. ASSUME Inv, Inv', SharedInv, Walk, UNCHANGED pc
               PROVE  SharedInv'
  <2> USE <1>WalkShared
  <2>1. /\ todo # <<>> /\ UNCHANGED <<tops, todo>> /\ pc # "off"
    BY Zenon DEF Walk, Inv, Control
  <2>2. /\ Grown /\ \A k, va : InMap(k, va) /\ Present(k, va)' => Present(k, va)
        /\ \A k, w : k \in DOMAIN tops /\ w = Head(todo).va /\ OnWay(k, w) => OnWay(k, w)'
    BY WalkGrows, Zenon
  <2>3. 1 \in DOMAIN tops
    BY <2>1 DEF Inv, Tops, Control
  <2>4. KernelMapped' /\ UpperShared'
    BY <2>1, <2>2, <1>GrownShared, Zenon
  <2>5. MappingKernel'
    <3> SUFFICES ASSUME pc = "kernel" PROVE MappingKernel'
      BY Zenon DEF MappingKernel
    <3>1. OnWay(1, Head(todo).va)'
      <4> PICK w : w = Head(todo).va
        BY Zenon
      <4>1. OnWay(1, w)'
        BY <2>1, <2>2, <2>3, Zenon DEF SharedInv, MappingKernel
      <4> QED BY <4>1, <2>1, Zenon
    <3>2. Mapped' = Mapped
      BY <2>1, Zenon DEF Mapped
    <3>3. \A a \in 1 .. Mapped : MappedAs(a)'
      BY <2>1, <2>2, <1>StaysMapped, Zenon DEF SharedInv, MappingKernel
    <3>4. \A va \in Int : Present(1, va)' => \E a \in 1 .. Mapped : SameIndices(va, KernelTodo[a].va)
      BY <2>2, <2>3, Zenon DEF SharedInv, MappingKernel, InMap
    <3>5. Len(todo') <= Len(KernelTodo) /\ \A b \in DOMAIN todo' : todo'[b] = KernelTodo[Mapped' + b]
      BY <2>1, <3>2, Zenon DEF SharedInv, MappingKernel
    <3> QED BY <3>1, <3>2, <3>3, <3>4, <3>5, Zenon DEF MappingKernel
  <2> QED BY <2>1, <2>4, <2>5, Zenon DEF SharedInv, Early
\* The end of mappage2().
<1>LeafShared. ASSUME Inv, Inv', SharedInv, Leaf, UNCHANGED pc
               PROVE  SharedInv'
  <2> USE <1>LeafShared
  <2>1. /\ todo # <<>> /\ level = 1 /\ todo' = Tail(todo) /\ level' = 4
        /\ cur' = tops[Len(tops)] /\ UNCHANGED tops /\ pc # "off"
    BY Zenon DEF Leaf, Inv, Control
  <2>2. 1 \in DOMAIN tops /\ tops # <<>>
    BY <2>1 DEF Inv, Tops, Control
  <2> PICK w, e : w = Head(todo).va /\ e = Entry(Head(todo).pa, Head(todo).flags)
    BY Zenon
  <2>5. Grown
    BY LeafMem, Zenon
  <2>6. KernelMapped' /\ UpperShared'
    BY <2>1, <2>5, <1>GrownShared, Zenon
  <2>7. MappingKernel'
    <3> SUFFICES ASSUME pc = "kernel" PROVE MappingKernel'
      BY Zenon DEF MappingKernel
    <3>1. todo \in Seq([va : Int, pa : Int, flags : SUBSET {"RW", "USER", "NX"}])
      BY Zenon DEF Inv, Todo
    <3>2. /\ Head(todo) = todo[1] /\ 1 \in DOMAIN todo /\ Len(todo) \in Nat \ {0}
          /\ Len(todo') = Len(todo) - 1 /\ DOMAIN todo' = 1 .. Len(todo) - 1
          /\ DOMAIN todo = 1 .. Len(todo)
          /\ \A b \in DOMAIN todo' : b + 1 \in DOMAIN todo /\ todo'[b] = todo[b + 1]
      BY <3>1, <2>1
    <3>3. Len(KernelTodo) \in Nat /\ DOMAIN KernelTodo = 1 .. Len(KernelTodo)
      BY KernelTodoParts
    <3>4. /\ Len(todo) <= Len(KernelTodo)
          /\ \A b \in DOMAIN todo : todo[b] = KernelTodo[Mapped + b]
          /\ OnWay(1, w)
          /\ \A va \in Int : Present(1, va) => \E a \in 1 .. Mapped : SameIndices(va, KernelTodo[a].va)
          /\ \A a \in 1 .. Mapped : MappedAs(a)
      BY <2>1, Zenon DEF SharedInv, MappingKernel
    <3>5. Mapped \in Nat /\ Mapped' = Mapped + 1 /\ Mapped + 1 \in DOMAIN KernelTodo
      BY <3>2, <3>3, <3>4 DEF Mapped
    <3>6. Head(todo) = KernelTodo[Mapped + 1]
      BY <3>2, <3>4, Zenon
    <3>7. ~Present(1, w)
      <4> SUFFICES ASSUME Present(1, w) PROVE FALSE
        BY Zenon
      <4>1. Head(todo) \in [va : Int, pa : Int, flags : SUBSET {"RW", "USER", "NX"}]
        <5> PICK P : P = [va : Int, pa : Int, flags : SUBSET {"RW", "USER", "NX"}]
          BY Zenon
        <5>1. todo \in Seq(P)
          BY <3>1, Zenon
        <5>2. todo[1] \in P
          BY ONLY <5>1, <3>2
        <5> QED BY <5>2, <3>2, Zenon
      <4>2. w \in Int
        BY <4>1, Zenon
      <4>3. PICK a \in 1 .. Mapped : SameIndices(w, KernelTodo[a].va)
        BY <4>2, <3>4, Zenon
      <4>4. a \in DOMAIN KernelTodo /\ a # Mapped + 1
        BY <3>3, <3>5
      <4> QED BY <4>3, <4>4, <3>5, <3>6, KernelVas, Zenon
    <3>8. \A va : InMap(1, va)
      BY <2>2, Zenon DEF InMap
    <3>11. /\ \A va : Present(1, va)' => Present(1, va) \/ SameIndices(va, w)
           /\ Maps(1, w, e)'
      BY <3>4, <3>7, <3>8, LeafGrows, Zenon
    <3>12. \A va \in Int : Present(1, va)' => \E a \in 1 .. Mapped' : SameIndices(va, KernelTodo[a].va)
      <4> SUFFICES ASSUME NEW va \in Int, Present(1, va)'
                   PROVE  \E a \in 1 .. Mapped' : SameIndices(va, KernelTodo[a].va)
        BY Zenon
      <4>1. CASE Present(1, va)
        <5>1. PICK a \in 1 .. Mapped : SameIndices(va, KernelTodo[a].va)
          BY <4>1, <3>4, Zenon
        <5>2. a \in 1 .. Mapped'
          BY <3>5
        <5> QED BY <5>1, <5>2, Zenon
      <4>2. CASE SameIndices(va, w)
        <5>1. Mapped + 1 \in 1 .. Mapped'
          BY <3>5
        <5> QED BY <4>2, <5>1, <3>6, Zenon
      <4> QED BY <4>1, <4>2, <3>11, Zenon
    <3>13. \A a \in 1 .. Mapped' : MappedAs(a)'
      <4> SUFFICES ASSUME NEW a \in 1 .. Mapped' PROVE MappedAs(a)'
        BY Zenon
      <4>1. CASE a \in 1 .. Mapped
        BY <4>1, <3>4, <2>1, <2>5, <1>StaysMapped, Zenon
      <4>2. CASE a = Mapped + 1
        <5>1. KernelTodo[a].va = w /\ e = Entry(KernelTodo[a].pa, KernelTodo[a].flags)
          BY <4>2, <3>6, Zenon
        <5>2. Table1(1, KernelTodo[a].va)' = Table1(1, w)'
          BY <5>1, Zenon
        <5> QED BY <5>1, <5>2, <3>11, Zenon DEF MappedAs, Maps, Present
      <4> QED BY <4>1, <4>2, <3>5
    <3>14. \A b \in DOMAIN todo' : todo'[b] = KernelTodo[Mapped' + b]
      <4> SUFFICES ASSUME NEW b \in DOMAIN todo' PROVE todo'[b] = KernelTodo[Mapped' + b]
        BY Zenon
      <4>1. b + 1 \in DOMAIN todo /\ todo'[b] = todo[b + 1] /\ b \in Nat
        BY <3>2
      <4>2. todo[b + 1] = KernelTodo[Mapped + (b + 1)]
        BY <4>1, <3>4, Zenon
      <4>3. Mapped + (b + 1) = Mapped' + b
        BY <4>1, <3>5
      <4> QED BY <4>1, <4>2, <4>3, Zenon
    <3>15. cur' = tops'[1]
      <4>1. Len(tops) = 1
        <5>1. tops \in Seq(Frames) /\ Len(tops) <= 1
          BY Zenon DEF Inv, Control, Tops
        <5>2. Len(tops) \in Nat \ {0}
          BY <5>1, <2>2
        <5>3. \A m \in Nat \ {0} : m <= 1 => m = 1
          OBVIOUS
        <5> QED BY <5>1, <5>2, <5>3, Zenon
      <4> QED BY <4>1, <2>1, Zenon
    <3>16. OnWay(1, Head(todo).va)'
      BY <3>15, <2>1 DEF OnWay
    <3>17. Len(todo') <= Len(KernelTodo)
      BY <3>2, <3>3, <3>4
    <3> QED BY <3>12, <3>13, <3>14, <3>16, <3>17, Zenon DEF MappingKernel
  <2> QED BY <2>1, <2>6, <2>7, Zenon DEF SharedInv, Early
\* newvm_map() copies the upper half of the kernel's top level.
<1>ExecShared. ASSUME Inv, SharedInv, NEW q, NEW argv, exec(q, argv)
               PROVE  SharedInv'
  <2> USE <1>ExecShared
  <2>1. PICK p \in Frames :
          /\ palloc(p, 1) /\ mem' = With(mem, p, [j \in Upper |-> mem[tops[1]][j]])
          /\ tops' = Append(tops, p)
    BY Zenon DEF exec, NewvmMap
  <2>2. pc = "idle" /\ pc' = "phdrs" /\ p \notin DOMAIN mem
    BY <2>1, Fresh, Zenon DEF exec, Inv, Homes
  <2>3. tops \in Seq(Frames) /\ tops # <<>> /\ \A k \in DOMAIN tops : tops[k] \in DOMAIN mem
    BY <2>2, Zenon DEF Inv, Tops, Control
  <2>4. /\ 1 \in DOMAIN tops /\ \A k \in DOMAIN tops : tops'[k] = tops[k]
        /\ DOMAIN tops' = DOMAIN tops \cup {Len(tops) + 1} /\ tops'[Len(tops) + 1] = p
    BY <2>1, <2>3
  <2>5. /\ p \in DOMAIN mem' /\ mem'[p] = [j \in Upper |-> mem[tops[1]][j]]
        /\ \A t \in DOMAIN mem : t \in DOMAIN mem' /\ mem'[t] = mem[t]
    BY <2>1, <2>2, Zenon DEF With
  <2>6. Grown
    BY <2>5, Zenon DEF Grown
  <2>7. \A a \in DOMAIN KernelTodo : MappedAs(a)'
    BY <2>2, <2>4, <2>6, <1>StaysMapped, Zenon DEF SharedInv, KernelMapped
  <2>8. ASSUME NEW k \in UserMaps', NEW j \in Upper
        PROVE  j \in DOMAIN mem'[tops'[k]] /\ mem'[tops'[k]][j] = mem'[tops'[1]][j]
    <3>1. mem'[tops'[1]] = mem[tops[1]]
      BY <2>3, <2>4, <2>5, Zenon
    <3>2. CASE k \in DOMAIN tops
      <4>1. k \in UserMaps /\ mem'[tops'[k]] = mem[tops[k]]
        BY <3>2, <2>3, <2>4, <2>5, Zenon DEF UserMaps
      <4> QED BY <4>1, <3>1, Zenon DEF SharedInv, UpperShared
    <3>3. CASE k = Len(tops) + 1
      <4>1. mem'[tops'[k]] = [x \in Upper |-> mem[tops[1]][x]]
        BY <3>3, <2>4, <2>5, Zenon
      <4>2. j \in DOMAIN mem'[tops'[k]] /\ mem'[tops'[k]][j] = mem[tops[1]][j]
        BY <4>1, Zenon
      <4> QED BY <3>1, <4>2, Zenon
    <3> QED BY <3>2, <3>3, <2>4, Zenon DEF UserMaps
  <2>9. Upper \subseteq DOMAIN mem'[tops'[1]]
    BY <2>2, <2>3, <2>4, <2>5, Zenon DEF SharedInv, UpperShared
  <2>10. UpperShared'
    BY <2>8, <2>9, Zenon DEF UpperShared, Upper, Lower, Idx
  <2> QED BY <2>2, <2>7, <2>10, Zenon DEF SharedInv, Early, MappingKernel, KernelMapped
\* The steps of exec() that leave the tables alone.
<1>OtherShared. ASSUME Inv, SharedInv, UNCHANGED <<mem, tops>>, pc \notin {"off", "kernel"},
                       pc' \notin {"off", "kernel"}
                PROVE  SharedInv'
  <2> USE <1>OtherShared
  <2>1. Grown
    BY Zenon DEF Grown
  <2>2. KernelMapped' /\ UpperShared'
    BY <2>1, <1>GrownShared, Zenon
  <2> QED BY <2>2, Zenon DEF SharedInv, Early, MappingKernel
<1> SUFFICES ASSUME Inv, Inv', SharedInv, [NextExec]_allVars PROVE SharedInv'
  BY Zenon
<1>1. CASE Boot
  BY <1>1, <1>InitTopShared, <1>HigherHalfShared, <1>MapKernelShared, Zenon DEF Boot
<1>2. CASE Map
  BY <1>2, <1>WalkShared, <1>LeafShared, Zenon DEF Map, execVars
<1>3. CASE BootDone
  <2>1. pc = "kernel" /\ todo = <<>> /\ pc' = "idle" /\ UNCHANGED <<mem, tops>>
    BY <1>3, Zenon DEF BootDone, vmVars
  <2>2. Mapped = Len(KernelTodo) /\ DOMAIN KernelTodo = 1 .. Len(KernelTodo)
    BY <2>1, KernelTodoParts DEF Mapped
  <2>3. \A a \in DOMAIN KernelTodo : MappedAs(a)
    BY <2>1, <2>2, Zenon DEF SharedInv, MappingKernel
  <2>4. Grown
    BY <2>1, Zenon DEF Grown
  <2>5. KernelMapped'
    BY <2>1, <2>3, <2>4, <1>StaysMapped, Zenon DEF KernelMapped
  <2>6. UpperShared'
    BY <2>1, Zenon DEF SharedInv, UpperShared, UserMaps, Upper, Lower, Idx
  <2> QED BY <2>1, <2>5, <2>6, Zenon DEF SharedInv, Early, MappingKernel
<1>4. ASSUME NEW q \in DOMAIN Programs, NEW argv \in Argvs, exec(q, argv) PROVE SharedInv'
  BY <1>4, <1>ExecShared, Zenon
<1>5. CASE PtLoad
  BY <1>5, <1>OtherShared, Zenon DEF PtLoad, AllocAndMap
<1>6. CASE ReadSegment
  BY <1>6, <1>OtherShared, Zenon DEF ReadSegment, vmVars
<1>7. CASE OtherPhdr
  BY <1>7, <1>OtherShared, Zenon DEF OtherPhdr, vmVars
<1>8. CASE Stack
  BY <1>8, <1>OtherShared, Zenon DEF Stack, AllocAndMap
<1>9. CASE CopyString \/ PushAuxv \/ PushPointer \/ PushArgc
  <2>1. pc \in {"args", "ptrs"} /\ pc' \in {"args", "ptrs", "switch"} /\ UNCHANGED vmVars
    BY <1>9, Zenon DEF CopyString, PushAuxv, PushPointer, PushArgc
  <2> QED BY <2>1, <1>OtherShared, Zenon DEF vmVars
<1>10. CASE Start
  BY <1>10, <1>OtherShared, Zenon DEF Start
<1>11. CASE ExecOnStale \/ CopyNoList
  <2>1. pc \in {"idle", "args"} /\ pc' = "wild" /\ UNCHANGED vmVars
    BY <1>11, Zenon DEF ExecOnStale, CopyNoList
  <2> QED BY <2>1, <1>OtherShared, Zenon DEF vmVars
<1>12. CASE UNCHANGED allVars
  <2>1. UNCHANGED <<mem, tops, todo, level, cur, pc>>
    BY <1>12, Zenon DEF allVars, vmVars, execVars
  <2>2. \A va : Table1(1, va)' = Table1(1, va) /\ (Present(1, va)' <=> Present(1, va))
    BY <2>1, SameMap, Zenon
  <2>3. CASE pc \notin {"off", "kernel"}
    BY <2>1, <2>3, <1>OtherShared, SMTT(20)
  <2>4. CASE pc = "off"
    BY <2>1, <2>2, <2>4, Zenon
       DEF SharedInv, Early, MappingKernel, KernelMapped, UpperShared, UserMaps, Upper, Lower, Idx
  <2>5. CASE pc = "kernel"
    <3>1. Grown
      BY <2>1, Zenon DEF Grown
    <3>2. KernelMapped' /\ UpperShared'
      BY <2>1, <2>5, <3>1, <1>GrownShared, Zenon
    <3>3. Mapped' = Mapped
      BY <2>1, Zenon DEF Mapped
    <3>4. \A a \in 1 .. Mapped : MappedAs(a)'
      BY <2>1, <2>5, <3>1, <1>StaysMapped, Zenon DEF SharedInv, MappingKernel
    <3>5. todo # <<>> => OnWay(1, Head(todo).va)'
      <4> PICK w : w = Head(todo).va
        BY Zenon
      <4>1. \A t, j : NextTable(t, j)' = NextTable(t, j)
        BY <2>1, Zenon DEF NextTable
      <4>2. Table3(1, w)' = Table3(1, w)
        BY <4>1, <2>1, Zenon DEF Table3
      <4>3. Table2(1, w)' = Table2(1, w)
        BY <4>1, <4>2, Zenon DEF Table2
      <4>4. OnWay(1, w) => OnWay(1, w)'
        BY <4>2, <4>3, <2>1, <2>2, Zenon DEF OnWay
      <4>5. OnWay(1, Head(todo).va)' <=> OnWay(1, w)'
        BY <2>1, Zenon
      <4> QED BY <4>4, <4>5, <2>5, Zenon DEF SharedInv, MappingKernel
    <3>6. /\ Len(todo) <= Len(KernelTodo)
          /\ \A b \in DOMAIN todo : todo[b] = KernelTodo[Mapped + b]
          /\ \A va \in Int : Present(1, va) => \E a \in 1 .. Mapped : SameIndices(va, KernelTodo[a].va)
      BY <2>5, Zenon DEF SharedInv, MappingKernel
    <3>7. MappingKernel'
      BY <2>1, <2>2, <3>3, <3>4, <3>5, <3>6, Zenon DEF MappingKernel
    <3> QED BY <2>1, <2>5, <3>2, <3>7, Zenon DEF SharedInv, Early
  <2> QED BY <2>3, <2>4, <2>5, Zenon
<1> QED BY <1>1, <1>2, <1>3, <1>4, <1>5, <1>6, <1>7, <1>8, <1>9, <1>10, <1>11, <1>12,
       Zenon DEF NextExec

\* The invariant is strong enough.
LEMMA InvShared == Inv /\ SharedInv => KernelShared
\* A page of the list that is in the upper half is in every map.
<1>SharedPage. ASSUME Inv, SharedInv, NEW k \in UserMaps, NEW a \in DOMAIN KernelTodo,
                      KernelTodo[a].va >= HHDM
               PROVE  Translate(tops[k], KernelTodo[a].va) = Entry(KernelTodo[a].pa, KernelTodo[a].flags)
  <2> USE <1>SharedPage
  <2> PICK va, e : va = KernelTodo[a].va /\ e = Entry(KernelTodo[a].pa, KernelTodo[a].flags)
    BY Zenon
  <2>1. pc \notin {"off", "kernel"}
    <3>1. Len(tops) > 1
      BY DEF Inv, Tops, UserMaps
    <3> QED BY <3>1 DEF Inv, Control, Tops
  <2>2. /\ Table1(1, va) \in DOMAIN mem /\ Index(va, 1) \in DOMAIN mem[Table1(1, va)]
        /\ mem[Table1(1, va)][Index(va, 1)] = e
    BY <2>1, Zenon DEF SharedInv, KernelMapped, MappedAs, Maps, Present
  <2>3. Index(va, 4) \in Upper
    BY KernelVas, TopIndex, Zenon
  <2>4. tops[k] \in DOMAIN mem /\ Index(va, 4) \in DOMAIN mem[tops[k]]
        /\ mem[tops[k]][Index(va, 4)] = mem[tops[1]][Index(va, 4)]
    BY <2>3, Zenon DEF SharedInv, UpperShared, Inv, Tops, UserMaps
  <2>5. Table3(k, va) = Table3(1, va)
    BY <2>2, <2>4, Steps, Zenon DEF Table3, NextTable
  <2>6. Table1(k, va) = Table1(1, va)
    BY <2>5, Zenon DEF Table1, Table2
  <2>7. Translate(tops[k], va) = NextTable(Table1(k, va), Index(va, 1))
    BY Zenon DEF Translate, Table1, Table2, Table3
  <2> QED BY <2>2, <2>6, <2>7, Zenon DEF NextTable
<1> SUFFICES ASSUME Inv, SharedInv, NEW k \in UserMaps
             PROVE  /\ \A f \in Frames \ {0} : Translate(tops[k], P2V(f)) = Entry(f, {"RW", "USER", "NX"})
                    /\ \A j \in DOMAIN KernelPages :
                         Translate(tops[k], KernelPages[j][1]) = Entry(KernelPages[j][2], KernelPages[j][3])
  BY Zenon DEF KernelShared
<1>1. HHDM \in Int /\ NFrames \in Nat /\ Len(KernelPages) \in Nat
      /\ DOMAIN KernelPages = 1 .. Len(KernelPages)
      /\ DOMAIN KernelTodo = 1 .. Len(KernelPages) + 2 * (NFrames - 1)
  <2>1. HHDM \in Int
    BY Halves
  <2>2. NFrames \in Nat
    BY VmmAssumption
  <2>3. KernelPages \in Seq(Int \X Int \X SUBSET {"RW", "USER", "NX"})
    BY VmmAssumption, Zenon
  <2>4. Len(KernelPages) \in Nat /\ DOMAIN KernelPages = 1 .. Len(KernelPages)
    BY <2>3
  <2> QED BY <2>1, <2>2, <2>4, KernelTodoParts, Zenon
<1>2. ASSUME NEW f \in Frames \ {0}
      PROVE  Translate(tops[k], P2V(f)) = Entry(f, {"RW", "USER", "NX"})
  <2> PICK a : a = Len(KernelPages) + 2 * f
    BY Zenon
  <2>1. f \in 1 .. NFrames - 1 /\ a \in DOMAIN KernelTodo
    BY <1>1 DEF Frames
  <2>2. KernelTodo[a] = [va |-> P2V(f), pa |-> f, flags |-> {"RW", "USER", "NX"}]
    BY <2>1, KernelTodoParts, Zenon
  <2>3. P2V(f) >= HHDM
    BY <2>1, <1>1 DEF P2V
  <2>4. KernelTodo[a].va = P2V(f) /\ KernelTodo[a].pa = f /\ KernelTodo[a].flags = {"RW", "USER", "NX"}
    BY <2>2
  <2>5. Translate(tops[k], KernelTodo[a].va) = Entry(KernelTodo[a].pa, KernelTodo[a].flags)
    BY <2>1, <2>3, <2>4, <1>SharedPage, Zenon
  <2> QED BY <2>4, <2>5, Zenon
<1>3. ASSUME NEW j \in DOMAIN KernelPages
      PROVE  Translate(tops[k], KernelPages[j][1]) = Entry(KernelPages[j][2], KernelPages[j][3])
  <2>1. j \in 1 .. Len(KernelPages) /\ j \in DOMAIN KernelTodo
    BY <1>1, VmmAssumption
  <2>2. KernelTodo[j] = [va |-> KernelPages[j][1], pa |-> KernelPages[j][2], flags |-> KernelPages[j][3]]
    BY <2>1, KernelTodoParts, Zenon
  <2>3. KernelPages[j][1] >= HHDM
    BY <1>1, KernelLayout
  <2>4. KernelTodo[j].va = KernelPages[j][1] /\ KernelTodo[j].pa = KernelPages[j][2]
        /\ KernelTodo[j].flags = KernelPages[j][3]
    BY <2>2
  <2>5. Translate(tops[k], KernelTodo[j].va) = Entry(KernelTodo[j].pa, KernelTodo[j].flags)
    BY <2>1, <2>3, <2>4, <1>SharedPage, Zenon
  <2> QED BY <2>4, <2>5, Zenon
<1> QED BY <1>2, <1>3, Zenon

\* The kernel is in every address space: init_vm() fills the upper half of the
\* top level and maps its pages there, newvm_map() copies it, and mappage2()
\* never changes an entry.
THEOREM KernelInEveryMap == ExecSpec => []KernelShared
<1>1. InitExec => Inv /\ SharedInv
  BY InitInv, InitShared, Zenon
<1>2. Inv /\ SharedInv /\ [NextExec]_allVars => (Inv /\ SharedInv)'
  BY NextInv, NextShared, Zenon
<1>3. Inv /\ SharedInv => KernelShared
  BY InvShared, Zenon
<1> QED BY <1>1, <1>2, <1>3, PTL DEF ExecSpec
=============================================================================

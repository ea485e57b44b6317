----------------------------- MODULE ProcProofs -----------------------------
(***************************************************************************)
(* Proofs about Proc for every set of CPUs and every table size: the       *)
(* inductive invariant, that every step of a CPU keeps it, and the         *)
(* theorems that follow from it.                                           *)
(*                                                                         *)
(* NoSharedStack is not inductive.  Why it holds: CPU c only ever runs the *)
(* process of slot c (Own), because the only RUNNABLE process a CPU can    *)
(* meet under ptable.lock is the one it has just interrupted (Runnable),   *)
(* and a stack page is written to one slot only (Pages).  That in turn     *)
(* needs the lock to have one holder, across the switc() of startproc()    *)
(* and out of the interrupt handler (Frames), and init_plock() to clear a  *)
(* lock that nobody holds (Boot).                                          *)
(***************************************************************************)
EXTENDS Proc, TLAPS

TickLabels == {"tick_acq", "scheduler", "tick_r"}
AllocLabels == {"ap_getproc", "ap_stack"}
StartLabels == {"sp_acq", "sp_switc"}

\* The code CPU c runs, or will run when the timer handler returns.
Code(c) == IF pc[c] \in TickLabels THEN saved[c] ELSE pc[c]

\* The part of TypeOK that an update of one entry needs.
Shapes ==
  /\ lock \in {0, 1}
  /\ DOMAIN pc = CPUs /\ DOMAIN cur = CPUs /\ DOMAIN iflag = CPUs /\ DOMAIN saved = CPUs
  /\ DOMAIN p = CPUs /\ DOMAIN timer = CPUs
  /\ DOMAIN state = Slots /\ DOMAIN rip = Slots

\* CPU c and slot c.
Own ==
  /\ \A c \in CPUs : cur[c] \in {NoProc, c}
  /\ \A c \in CPUs : Code(c) \in StartLabels => cur[c] = c /\ p[c] = c
  /\ \A c \in CPUs : Code(c) = "ap_stack" => p[c] \in Slots

\* What is on the stacks.
Frames ==
  /\ \A c \in CPUs : pc[c] \in TickLabels => saved[c] \notin TickLabels
  /\ \A c \in CPUs : pc[c] \in {"scheduler", "tick_r"} => saved[c] \notin LockedLabels
  /\ \A c \in CPUs : iflag[c] => pc[c] \notin TickLabels
  /\ \A s \in Slots :
       \/ stack[s] = NullStack
       \/ stack[s].ret = "ret" /\ stack[s].at = "none" /\ rip[s] \in Threads

\* Until init_plock() has run, CPU 0 is alone.
Boot ==
  /\ booted < 4 => \A c \in CPUs : IF c = 0 THEN pc[c] \in AllocLabels \cup {"kmain"}
                                            ELSE pc[c] = "off"
  /\ booted < 4 => \A c \in CPUs : ~iflag[c]
  /\ \A c \in CPUs : Code(c) \in AllocLabels \cup {"kmain"} => booted < 4
  /\ \A c \in CPUs : Code(c) \in AllocLabels => booted # 0

\* Scheduling states.
Runnable ==
  /\ \A s \in Slots : state[s] = "RUNNABLE" => \E c \in CPUs : pc[c] = "scheduler" /\ cur[c] = s
  /\ \A s \in Slots : state[s] = "RUNNING" => s \in CPUs /\ cur[s] = s

\* Stack pages.
Pages ==
  /\ \A s \in Slots : stack[s].page \in 0 .. npage
  /\ \A c \in CPUs : page[c] \in 0 .. npage
  /\ \A s, t \in Slots : s # t /\ stack[s].page # 0 => stack[s].page # stack[t].page
  /\ \A c \in CPUs, s \in Slots : s # c /\ page[c] # 0 => page[c] # stack[s].page
  /\ NoSharedStack

IInv == TypeOK /\ LockHasOneHolder /\ Own /\ Frames /\ Boot /\ Runnable /\ Pages
-----------------------------------------------------------------------------
(* The steps of the boot                                                   *)

\* Every CPU has the slot of its own number; NoProc is no slot.
LEMMA CpuSlots ==
  /\ CPUs \subseteq Slots
  /\ 0 \in CPUs
  /\ NoProc \notin Slots
BY CPUsAssumption, NPROCAssumption DEF Slots, NoProc

\* The allocproc() calls of kmain() run before any other CPU is up.
LEMMA KmainAllocInv ==
  ASSUME NEW c \in CPUs, IInv, KmainAlloc(c)
  PROVE  IInv'
<1> USE CpuSlots DEF IInv, Shapes, KmainAlloc, Goto, procVars
<1>t. Shapes
  BY Zenon DEF TypeOK
<1>1. TypeOK'
  BY DEF TypeOK, Own, Code, Labels, States, Threads, TickLabels, StartLabels
<1>2. LockHasOneHolder'
  BY <1>t DEF LockHasOneHolder, Holds, LockedLabels, Threads, Frames, TickLabels
<1>3. Own'
  BY <1>t DEF Own, Code, Threads, TickLabels, StartLabels, Frames
<1>4. Frames'
  BY <1>t DEF Frames, LockedLabels, Threads, TickLabels, LockHasOneHolder, Holds
<1>5. Boot'
  BY <1>t DEF Boot, Code, TickLabels, AllocLabels, Threads, Own, TypeOK
<1>6. Runnable'
  BY <1>t DEF Runnable, Own, TickLabels, Code
<1>7. Pages'
  BY ZenonT(30) DEF TypeOK, Pages, NoSharedStack, Own
<1> QED
  BY <1>1, <1>2, <1>3, <1>4, <1>5, <1>6, <1>7, Zenon

\* allocproc() holds the lock through getproc() and drops it on both ways out.
LEMMA AllocGetprocInv ==
  ASSUME NEW c \in CPUs, IInv, AllocGetproc(c)
  PROVE  IInv'
<1> USE CpuSlots DEF IInv, Shapes, AllocGetproc, Goto, procVars
<1>t. Shapes
  BY Zenon DEF TypeOK
<1>1. TypeOK'
  <2>1. p' \in [CPUs -> Slots \cup {NoProc}] /\ pc' \in [CPUs -> Labels]
    BY DEF TypeOK, Labels
  <2> QED
    BY <2>1, Zenon DEF TypeOK
<1>2. LockHasOneHolder'
  BY <1>t DEF LockHasOneHolder, Holds, LockedLabels, Threads, Frames, TickLabels
<1>3. Own'
  BY <1>t DEF Own, Code, Threads, TickLabels, AllocLabels, StartLabels, Frames
<1>4. Frames'
  BY <1>t DEF Frames, LockedLabels, Threads, TickLabels
<1>5. Boot'
  BY <1>t DEF Boot, Code, TickLabels, AllocLabels, Threads, Own
<1>6. Runnable'
  BY <1>t DEF Runnable, Own, TickLabels, Code
<1>7. Pages'
  BY ZenonT(30) DEF TypeOK, Pages, NoSharedStack, Own
<1> QED
  BY <1>1, <1>2, <1>3, <1>4, <1>5, <1>6, <1>7, Zenon

\* The new stack is a fresh page, and the state of the slot stays as it is.
LEMMA AllocStackInv ==
  ASSUME NEW c \in CPUs, IInv, AllocStack(c)
  PROVE  IInv'
<1> USE CpuSlots DEF IInv, Shapes
<1> DEFINE entry == BootThreads[booted]
<1>a. pc[c] = "ap_stack" /\ p[c] \in Slots
  BY Zenon DEF AllocStack, Own, Code, TickLabels
<1>b. /\ pc' = [pc EXCEPT ![c] = "kmain"]
      /\ nextpid' = nextpid + 1
      /\ pid' = [pid EXCEPT ![p[c]] = nextpid + 1]
      /\ npage' = npage + 1
      /\ stack' = [stack EXCEPT ![p[c]] = NewStack(npage + 1)]
      /\ rip' = [rip EXCEPT ![p[c]] = entry]
      /\ UNCHANGED <<lock, state, idx, booted, timer, cur, page, iflag, saved, p>>
  BY Zenon DEF AllocStack, Goto
<1>c. entry \in Threads
  <2>1. booted \in {1, 2, 3}
    BY <1>a DEF TypeOK, Boot, Code, TickLabels, AllocLabels
  <2> QED
    BY <2>1 DEF BootThreads, Threads
<1> HIDE DEF entry
<1>t. Shapes
  BY Zenon DEF TypeOK
<1>1. TypeOK'
  <2>1. NewStack(npage + 1) \in Stacks
    BY DEF TypeOK, NewStack, Stacks, Labels
  <2>2. "kmain" \in Labels
    BY Zenon DEF Labels
  <2> QED
    BY <1>a, <1>b, <1>c, <2>1, <2>2 DEF TypeOK
<1>2. LockHasOneHolder'
  BY <1>t, <1>a, <1>b, <1>c
    DEF LockHasOneHolder, Holds, LockedLabels, Threads
<1>3. Own'
  BY <1>t, <1>a, <1>b, <1>c
    DEF Own, Code, Threads, TickLabels, AllocLabels, StartLabels
<1>4. Frames'
  <2>1. \A d \in CPUs :
          /\ pc'[d] \in TickLabels => saved'[d] \notin TickLabels
          /\ pc'[d] \in {"scheduler", "tick_r"} => saved'[d] \notin LockedLabels
          /\ iflag'[d] => pc'[d] \notin TickLabels
    BY <1>a, <1>b, <1>c DEF TypeOK, Frames, TickLabels
  <2>2. \A s \in Slots :
          \/ stack'[s] = NullStack
          \/ /\ stack'[s].ret = "ret" /\ stack'[s].at = "none"
             /\ rip'[s] \in Threads
    BY <1>a, <1>b, <1>c, ZenonT(60) DEF TypeOK, Frames, NewStack
  <2> QED
    BY <2>1, <2>2, Zenon DEF Frames
<1>5. Boot'
  BY <1>t, <1>a, <1>b, <1>c
    DEF Boot, Code, TickLabels, AllocLabels
<1>6. Runnable'
  BY <1>t, <1>a, <1>b, <1>c
    DEF Runnable, Own, TickLabels
<1>7. Pages'
  <2>1. NewStack(npage + 1).page = npage + 1 /\ npage \in Nat
    BY Zenon DEF NewStack, TypeOK
  <2>2. ASSUME NEW s \in Slots
        PROVE  stack'[s].page = IF s = p[c] THEN npage + 1 ELSE stack[s].page
    BY <1>a, <1>b, <2>1, Zenon DEF TypeOK
  <2> QED
    BY <1>b, <2>1, <2>2 DEF Pages, NoSharedStack
<1> QED
  BY <1>1, <1>2, <1>3, <1>4, <1>5, <1>6, <1>7, Zenon

\* The end of kmain() clears a lock that nobody holds.
LEMMA KmainInitInv ==
  ASSUME NEW c \in CPUs, IInv, KmainInit(c)
  PROVE  IInv'
<1> USE CpuSlots DEF IInv, Shapes, KmainInit, Goto, procVars
<1>t. Shapes
  BY Zenon DEF TypeOK
<1>1. TypeOK'
  BY DEF TypeOK, Own, Code, Labels, States, Threads, TickLabels, StartLabels
<1>2. LockHasOneHolder'
  BY <1>t DEF LockHasOneHolder, Holds, LockedLabels, Threads, Frames, TickLabels, Boot, AllocLabels
<1>3. Own'
  BY <1>t DEF Own, Code, Threads, TickLabels, StartLabels, Frames
<1>4. Frames'
  BY <1>t DEF Frames, LockedLabels, Threads, TickLabels, LockHasOneHolder, Holds
<1>5. Boot'
  BY <1>t DEF Boot, Code, TickLabels, AllocLabels, Threads, Own, TypeOK
<1>6. Runnable'
  BY <1>t DEF Runnable, Own, TickLabels, Code
<1>7. Pages'
  BY ZenonT(30) DEF TypeOK, Pages, NoSharedStack, Own
<1> QED
  BY <1>1, <1>2, <1>3, <1>4, <1>5, <1>6, <1>7, Zenon

\* A timer is started.
LEMMA init_apicInv ==
  ASSUME NEW c \in CPUs, IInv, init_apic(c)
  PROVE  IInv'
<1> USE CpuSlots DEF IInv, Shapes, init_apic, Goto, procVars
<1>t. Shapes
  BY Zenon DEF TypeOK
<1>1. TypeOK'
  BY ZenonT(30) DEF TypeOK, Own, Code, Labels, States, Threads, TickLabels, StartLabels
<1>2. LockHasOneHolder'
  BY <1>t DEF LockHasOneHolder, Holds, LockedLabels, Threads, Frames, TickLabels
<1>3. Own'
  BY <1>t DEF Own, Code, Threads, TickLabels, StartLabels, Frames
<1>4. Frames'
  BY <1>t DEF Frames, LockedLabels, Threads, TickLabels, LockHasOneHolder, Holds
<1>5. Boot'
  BY <1>t DEF Boot, Code, TickLabels, AllocLabels, Threads, Own, TypeOK
<1>6. Runnable'
  BY <1>t DEF Runnable, Own, TickLabels, Code
<1>7. Pages'
  BY ZenonT(30) DEF TypeOK, Pages, NoSharedStack, Own
<1> QED
  BY <1>1, <1>2, <1>3, <1>4, <1>5, <1>6, <1>7, Zenon

\* The other CPUs may start.
LEMMA init_cpuInv ==
  ASSUME NEW c \in CPUs, IInv, init_cpu(c)
  PROVE  IInv'
<1> USE CpuSlots DEF IInv, Shapes, init_cpu, Goto, procVars
<1>t. Shapes
  BY Zenon DEF TypeOK
<1>1. TypeOK'
  BY DEF TypeOK, Own, Code, Labels, States, Threads, TickLabels, StartLabels
<1>2. LockHasOneHolder'
  BY <1>t DEF LockHasOneHolder, Holds, LockedLabels, Threads, Frames, TickLabels
<1>3. Own'
  BY <1>t DEF Own, Code, Threads, TickLabels, StartLabels, Frames
<1>4. Frames'
  BY <1>t DEF Frames, LockedLabels, Threads, TickLabels, LockHasOneHolder, Holds
<1>5. Boot'
  BY <1>t DEF Boot, Code, TickLabels, AllocLabels, Threads, Own, TypeOK
<1>6. Runnable'
  BY <1>t DEF Runnable, Own, TickLabels, Code
<1>7. Pages'
  BY ZenonT(30) DEF TypeOK, Pages, NoSharedStack, Own
<1> QED
  BY <1>1, <1>2, <1>3, <1>4, <1>5, <1>6, <1>7, Zenon

\* A CPU that starts touches only its own program counter.
LEMMA StartCpuInv ==
  ASSUME NEW c \in CPUs, IInv, StartCpu(c)
  PROVE  IInv'
<1> USE CpuSlots DEF IInv, Shapes, StartCpu, Goto, procVars
<1>t. Shapes
  BY Zenon DEF TypeOK
<1>1. TypeOK'
  BY ZenonT(30) DEF TypeOK, Own, Code, Labels, States, Threads, TickLabels, StartLabels
<1>2. LockHasOneHolder'
  BY <1>t DEF LockHasOneHolder, Holds, LockedLabels, Threads, Frames, TickLabels
<1>3. Own'
  BY <1>t DEF Own, Code, Threads, TickLabels, StartLabels, Frames
<1>4. Frames'
  BY <1>t DEF Frames, LockedLabels, Threads, TickLabels, LockHasOneHolder, Holds
<1>5. Boot'
  BY <1>t DEF Boot, Code, TickLabels, AllocLabels, Threads, Own, TypeOK
<1>6. Runnable'
  BY <1>t DEF Runnable, Own, TickLabels, Code
<1>7. Pages'
  BY ZenonT(30) DEF TypeOK, Pages, NoSharedStack, Own
<1> QED
  BY <1>1, <1>2, <1>3, <1>4, <1>5, <1>6, <1>7, Zenon

\* init_proc() sets the current process of its own CPU only.
LEMMA init_procInv ==
  ASSUME NEW c \in CPUs, IInv, init_proc(c)
  PROVE  IInv'
<1> USE CpuSlots DEF IInv, Shapes, init_proc, Goto, procVars
<1>t. Shapes
  BY Zenon DEF TypeOK
<1>1. TypeOK'
  BY ZenonT(30) DEF TypeOK, Own, Code, Labels, States, Threads, TickLabels, StartLabels
<1>2. LockHasOneHolder'
  BY <1>t DEF LockHasOneHolder, Holds, LockedLabels, Threads, Frames, TickLabels
<1>3. Own'
  BY <1>t DEF Own, Code, Threads, TickLabels, StartLabels, Frames
<1>4. Frames'
  BY <1>t DEF Frames, LockedLabels, Threads, TickLabels, LockHasOneHolder, Holds
<1>5. Boot'
  BY <1>t DEF Boot, Code, TickLabels, AllocLabels, Threads, Own, TypeOK
<1>6. Runnable'
  BY <1>t DEF Runnable, Own, TickLabels, Code
<1>7. Pages'
  BY ZenonT(30) DEF TypeOK, Pages, NoSharedStack, Own
<1> QED
  BY <1>1, <1>2, <1>3, <1>4, <1>5, <1>6, <1>7, Zenon

-----------------------------------------------------------------------------
(* The first switch of a CPU, the tick, and the theorems                   *)

\* startproc() takes a free lock.
LEMMA StartAcquireInv ==
  ASSUME NEW c \in CPUs, IInv, StartAcquire(c)
  PROVE  IInv'
<1> USE CpuSlots DEF IInv, Shapes, StartAcquire, Goto, procVars
<1>t. Shapes
  BY Zenon DEF TypeOK
<1>1. TypeOK'
  BY ZenonT(30) DEF TypeOK, Own, Code, Labels, States, Threads, TickLabels, StartLabels
<1>2. LockHasOneHolder'
  BY <1>t DEF LockHasOneHolder, Holds, LockedLabels, Threads, Frames, TickLabels
<1>3. Own'
  BY <1>t DEF Own, Code, Threads, TickLabels, StartLabels, Frames
<1>4. Frames'
  BY <1>t DEF Frames, LockedLabels, Threads, TickLabels, LockHasOneHolder, Holds
<1>5. Boot'
  BY <1>t DEF Boot, Code, TickLabels, AllocLabels, Threads, Own, TypeOK
<1>6. Runnable'
  BY <1>t DEF Runnable, Own, TickLabels, Code
<1>7. Pages'
  BY ZenonT(30) DEF TypeOK, Pages, NoSharedStack, Own
<1> QED
  BY <1>1, <1>2, <1>3, <1>4, <1>5, <1>6, <1>7, Zenon

\* The first switch of a CPU: the stack it loads is the one of its own slot.
LEMMA StartSwitchInv ==
  ASSUME NEW c \in CPUs, IInv, StartSwitch(c)
  PROVE  IInv'
<1> USE CpuSlots DEF IInv, Shapes, StartSwitch, Goto, procVars
<1> DEFINE new == pc'[c]
<1>a. p[c] = c /\ cur[c] = c /\ c \in Slots
  BY Zenon DEF Own, Code, TickLabels, StartLabels
<1>b. /\ pc' = [pc EXCEPT ![c] = new]
      /\ new \in {"wild"} \cup Threads
      /\ saved' = [saved EXCEPT ![c] = "none"]
      /\ iflag' = [iflag EXCEPT ![c] = iflag'[c]] /\ iflag'[c] \in BOOLEAN
      /\ page' = [page EXCEPT ![c] = stack[c].page]
  <2>1. CASE stack[c] = NullStack
    BY <1>a, <2>1 DEF NullStack, switc, TypeOK
  <2>2. CASE stack[c] # NullStack
    <3>1. stack[c].ret = "ret" /\ stack[c].at = "none" /\ rip[c] \in Threads
      BY <1>a, <2>2, Zenon DEF Frames
    <3> QED
      BY <1>a, <3>1, Zenon DEF switc, TypeOK
  <2> QED
    BY <2>1, <2>2, Zenon
<1>c. cur' = cur /\ state' = [state EXCEPT ![c] = "RUNNING"]
  BY <1>a, Zenon DEF TypeOK
<1> HIDE DEF new, StartSwitch
<1>d. UNCHANGED <<lock, pid, stack, rip, idx, nextpid, npage, booted, timer, p>> /\ pc[c] = "sp_switc"
  BY Zenon DEF StartSwitch
<1>t. Shapes
  BY Zenon DEF TypeOK
<1>1. TypeOK'
  <2>1. stack[c].page \in Nat
    BY <1>a, Zenon DEF TypeOK, Stacks
  <2>2. new \in Labels /\ "none" \in Labels /\ "RUNNING" \in States
    BY <1>b, Zenon DEF Labels, Threads, States
  <2> QED
    BY <1>a, <1>b, <1>c, <1>d, <2>1, <2>2, Zenon DEF TypeOK
<1>2. LockHasOneHolder'
  BY <1>t, <1>a, <1>b, <1>c, <1>d
    DEF LockHasOneHolder, Holds, LockedLabels, Threads, Frames,
        TickLabels
<1>3. Own'
  BY <1>t, <1>a, <1>b, <1>c, <1>d
    DEF Own, Code, Threads, TickLabels, AllocLabels, StartLabels,
        Frames
<1>4. Frames'
  BY <1>t, <1>a, <1>b, <1>c, <1>d
    DEF Frames, LockedLabels, Threads, TickLabels
<1>5. Boot'
  BY <1>t, <1>a, <1>b, <1>c, <1>d
    DEF Boot, Code, TickLabels, AllocLabels, Threads, Own
<1>6. Runnable'
  BY <1>t, <1>a, <1>b, <1>c, <1>d
    DEF Runnable, Own, TickLabels, Threads
<1>7. Pages'
  BY <1>a, <1>b, <1>c, <1>d DEF TypeOK, Pages, NoSharedStack, Own
<1> QED
  BY <1>1, <1>2, <1>3, <1>4, <1>5, <1>6, <1>7, Zenon

\* A new thread releases the lock that the switch handed to it.
LEMMA ThreadReleaseInv ==
  ASSUME NEW c \in CPUs, IInv, ThreadRelease(c)
  PROVE  IInv'
<1> USE CpuSlots DEF IInv, Shapes, ThreadRelease, Goto, procVars
<1>t. Shapes
  BY Zenon DEF TypeOK
<1>1. TypeOK'
  BY ZenonT(30) DEF TypeOK, Own, Code, Labels, States, Threads, TickLabels, StartLabels
<1>2. LockHasOneHolder'
  BY <1>t DEF LockHasOneHolder, Holds, LockedLabels, Threads, Frames, TickLabels
<1>3. Own'
  BY <1>t DEF Own, Code, Threads, TickLabels, StartLabels, Frames
<1>4. Frames'
  BY <1>t DEF Frames, LockedLabels, Threads, TickLabels, LockHasOneHolder, Holds
<1>5. Boot'
  BY <1>t DEF Boot, Code, TickLabels, AllocLabels, Threads, Own, TypeOK
<1>6. Runnable'
  BY <1>t DEF Runnable, Own, TickLabels, Code
<1>7. Pages'
  BY ZenonT(30) DEF TypeOK, Pages, NoSharedStack, Own
<1> QED
  BY <1>1, <1>2, <1>3, <1>4, <1>5, <1>6, <1>7, Zenon

\* The tick takes a free lock and makes the interrupted process, if there is one,
\* RUNNABLE.
LEMMA apic_timerInv ==
  ASSUME NEW c \in CPUs, IInv, apic_timer(c)
  PROVE  IInv'
<1> USE CpuSlots DEF IInv, Shapes, apic_timer, Goto, procVars
<1>t. Shapes
  BY Zenon DEF TypeOK
<1>1. TypeOK'
  BY ZenonT(30) DEF TypeOK, Own, Code, Labels, States, Threads, TickLabels, StartLabels
<1>2. LockHasOneHolder'
  BY <1>t DEF LockHasOneHolder, Holds, LockedLabels, Threads, Frames, TickLabels
<1>3. Own'
  BY <1>t DEF Own, Code, Threads, TickLabels, StartLabels, Frames
<1>4. Frames'
  BY <1>t DEF Frames, LockedLabels, Threads, TickLabels, LockHasOneHolder, Holds
<1>5. Boot'
  BY <1>t DEF Boot, Code, TickLabels, AllocLabels, Threads, Own, TypeOK
<1>6. Runnable'
  BY <1>t DEF Runnable, Own, TickLabels, Code
<1>7. Pages'
  BY ZenonT(30) DEF TypeOK, Pages, NoSharedStack, Own
<1> QED
  BY <1>1, <1>2, <1>3, <1>4, <1>5, <1>6, <1>7, Zenon

\* The switch loads a stack that no other CPU runs on.
LEMMA schedulerInv ==
  ASSUME NEW c \in CPUs, IInv, scheduler(c)
  PROVE  IInv'
<1> USE CpuSlots DEF IInv, Shapes, scheduler, procVars
<1>a. PICK s \in Slots :
        /\ state[s] = "RUNNABLE"
        /\ idx' = s
        /\ cur' = [cur EXCEPT ![c] = s]
        /\ state' = [state EXCEPT ![s] = "RUNNING"]
        /\ pid[cur[c]] = pid[s] => Goto(c, "tick_r") /\ UNCHANGED <<stack, page, iflag, saved>>
  BY Zenon DEF getproc
<1>b. s = c /\ cur[c] = c
  <2>1. PICK d \in CPUs : pc[d] = "scheduler" /\ cur[d] = s
    BY <1>a, Zenon DEF Runnable
  <2>2. Holds(c) /\ Holds(d)
    BY <2>1, Zenon DEF Holds, LockedLabels
  <2>3. d = c
    BY <2>2, Zenon DEF LockHasOneHolder
  <2>4. cur[c] = c
    BY <1>a, <2>1, <2>3, Zenon DEF Own
  <2> QED
    BY <2>1, <2>3, <2>4, Zenon
<1>c. /\ cur' = cur /\ idx' = c
      /\ state' = [state EXCEPT ![c] = "RUNNING"]
      /\ pc' = [pc EXCEPT ![c] = "tick_r"]
      /\ UNCHANGED <<stack, page, iflag, saved>>
  BY <1>a, <1>b DEF TypeOK, Goto
<1>d. pc[c] = "scheduler" /\ UNCHANGED <<lock, pid, rip, nextpid, npage, booted, timer, p>>
  BY Zenon
<1> HIDE DEF scheduler
<1>t. Shapes
  BY Zenon DEF TypeOK
<1>1. TypeOK'
  BY <1>b, <1>c, <1>d, Zenon
    DEF TypeOK, Own, Code, Labels, States, Stacks, Threads, TickLabels,
        StartLabels
<1>2. LockHasOneHolder'
  BY <1>b, <1>c, <1>d, <1>t
    DEF LockHasOneHolder, Holds, LockedLabels, Threads, Frames,
        TickLabels
<1>3. Own'
  BY <1>b, <1>c, <1>d, <1>t
    DEF Own, Code, Threads, TickLabels, AllocLabels, StartLabels,
        Frames
<1>4. Frames'
  BY <1>b, <1>c, <1>d, <1>t
    DEF Frames, LockedLabels, Threads, TickLabels
<1>5. Boot'
  BY <1>b, <1>c, <1>d, <1>t
    DEF Boot, Code, TickLabels, AllocLabels, Threads, Own
<1>6. Runnable'
  BY <1>b, <1>c, <1>d, <1>t
    DEF Runnable, Own, TickLabels, Code
<1>7. Pages'
  BY <1>b, <1>c, <1>d, Zenon DEF TypeOK, Pages, NoSharedStack, Own
<1> QED
  BY <1>1, <1>2, <1>3, <1>4, <1>5, <1>6, <1>7, Zenon

\* The thread that a tick returned to releases the lock.
LEMMA TickReturnInv ==
  ASSUME NEW c \in CPUs, IInv, TickReturn(c)
  PROVE  IInv'
<1> USE CpuSlots DEF IInv, Shapes, TickReturn, Goto, procVars
<1>t. Shapes
  BY Zenon DEF TypeOK
<1>1. TypeOK'
  BY ZenonT(30) DEF TypeOK, Own, Code, Labels, States, Threads, TickLabels, StartLabels
<1>2. LockHasOneHolder'
  BY <1>t, SMTT(20) DEF LockHasOneHolder, Holds, LockedLabels, Threads, Frames, TickLabels
<1>3. Own'
  BY <1>t, SMTT(20) DEF Own, Code, Threads, TickLabels, StartLabels, Frames
<1>4. Frames'
  BY <1>t, SMTT(20) DEF Frames, LockedLabels, Threads, TickLabels, LockHasOneHolder, Holds
<1>5. Boot'
  BY <1>t, SMTT(20) DEF Boot, Code, TickLabels, AllocLabels
<1>6. Runnable'
  BY <1>t, SMTT(20) DEF Runnable, Frames, TickLabels
<1>7. Pages'
  BY ZenonT(30) DEF TypeOK, Pages, NoSharedStack, Own
<1> QED
  BY <1>1, <1>2, <1>3, <1>4, <1>5, <1>6, <1>7, Zenon

\* A tick leaves the lock and the table alone.
LEMMA TickInv ==
  ASSUME NEW c \in CPUs, IInv, Tick(c)
  PROVE  IInv'
<1> USE CpuSlots DEF IInv, Shapes, Tick, Goto, procVars
<1>t. Shapes
  BY Zenon DEF TypeOK
<1>1. TypeOK'
  BY ZenonT(30) DEF TypeOK, Own, Code, Labels, States, Threads, TickLabels, StartLabels
<1>2. LockHasOneHolder'
  BY <1>t, SMTT(20) DEF LockHasOneHolder, Holds, LockedLabels, Threads, Frames, TickLabels
<1>3. Own'
  BY <1>t, SMTT(20) DEF Own, Code, Threads, TickLabels, StartLabels, Frames
<1>4. Frames'
  BY <1>t, SMTT(20) DEF Frames, LockedLabels, Threads, TickLabels, LockHasOneHolder, Holds
<1>5. Boot'
  BY <1>t, SMTT(20) DEF Boot, Code, TickLabels, AllocLabels
<1>6. Runnable'
  BY <1>t, SMTT(20) DEF Runnable, Frames, TickLabels
<1>7. Pages'
  BY ZenonT(30) DEF TypeOK, Pages, NoSharedStack, Own
<1> QED
  BY <1>1, <1>2, <1>3, <1>4, <1>5, <1>6, <1>7, Zenon

\* Init establishes the invariant.
LEMMA InitInv == Init => IInv
<1> SUFFICES ASSUME Init PROVE IInv
  BY Zenon
<1> USE CpuSlots DEF Init, IInv
<1>1. TypeOK
  BY NPROCAssumption DEF TypeOK, Slots, States, Labels, Stacks, Threads, NullStack
<1>2. LockHasOneHolder
  BY DEF LockHasOneHolder, Holds, LockedLabels, Threads
<1>3. Own /\ Frames
  BY Zenon DEF Own, Frames, Code, TickLabels, AllocLabels, StartLabels, Threads
<1>4. Boot /\ Runnable
  BY DEF Boot, Runnable, Code, TickLabels, AllocLabels
<1>5. Pages
  BY DEF Pages, NoSharedStack, NullStack
<1> QED
  BY <1>1, <1>2, <1>3, <1>4, <1>5, Zenon

\* A stuttering step keeps the invariant.
LEMMA StutterInv == IInv /\ UNCHANGED vars => IInv'
<1> SUFFICES ASSUME IInv, UNCHANGED vars PROVE IInv'
  BY Zenon
<1> USE DEF IInv, vars, procVars, cpuVars
<1>0. TypeOK'
  BY Zenon DEF TypeOK
<1>1. LockHasOneHolder'
  BY Zenon DEF LockHasOneHolder, Holds
<1>2. Own'
  BY ZenonT(60) DEF Own, Code
<1>3. Frames'
  BY ZenonT(60) DEF Frames
<1>4. Boot'
  BY ZenonT(60) DEF Boot, Code
<1>5. Runnable'
  BY ZenonT(60) DEF Runnable
<1>6. Pages'
  BY ZenonT(60) DEF Pages, NoSharedStack
<1> QED
  BY <1>0, <1>1, <1>2, <1>3, <1>4, <1>5, <1>6, Zenon

\* Every step keeps the invariant: one case per action.
LEMMA NextInv == IInv /\ [Next]_vars => IInv'
<1> SUFFICES ASSUME IInv, [Next]_vars PROVE IInv'
  BY Zenon
<1>1. CASE Next
  <2>1. PICK c \in CPUs : CpuStep(c) \/ Tick(c)
    BY <1>1, Zenon DEF Next
  <2>2. CASE CpuStep(c)
    BY <2>2, KmainAllocInv, AllocGetprocInv, AllocStackInv, KmainInitInv,
       init_apicInv, init_cpuInv, StartCpuInv, init_procInv, StartAcquireInv,
       StartSwitchInv, ThreadReleaseInv, apic_timerInv, schedulerInv,
       TickReturnInv, Zenon DEF CpuStep
  <2> QED
    BY <2>1, <2>2, TickInv, Zenon
<1>2. CASE UNCHANGED vars
  BY <1>2, StutterInv, Zenon
<1> QED
  BY <1>1, <1>2, Zenon

\* The inductive invariant holds in every reachable state.
THEOREM Invariance == Spec => []IInv
BY InitInv, NextInv, PTL DEF Spec

-----------------------------------------------------------------------------
(* Theorems *)

\* The process table and the CPUs' locals stay well typed, scheduler()'s index
\* included, whatever the interleaving.
THEOREM TypeCorrect == Spec => []TypeOK
<1>1. IInv => TypeOK
  BY Zenon DEF IInv
<1> QED
  BY <1>1, Invariance, PTL

\* ptable.lock excludes: it has one holder, through every hand-over by switc().
THEOREM LockExclusion == Spec => []LockHasOneHolder
<1>1. IInv => LockHasOneHolder
  BY Zenon DEF IInv
<1> QED
  BY <1>1, Invariance, PTL

\* The comment of apic_timer(): two CPUs never run on the same stack.
THEOREM StacksAreExclusive == Spec => []NoSharedStack
<1>1. IInv => NoSharedStack
  BY Zenon DEF IInv, Pages
<1> QED
  BY <1>1, Invariance, PTL

\* A RUNNING process is current on exactly one CPU.
THEOREM RunningOnOneCpu == Spec => []RunningIsCurrent
<1>1. IInv => RunningIsCurrent
  <2> SUFFICES ASSUME IInv PROVE RunningIsCurrent
    BY Zenon
  <2>1. \A s \in Slots : state[s] = "RUNNING" => \E c \in CPUs : cur[c] = s
    BY Zenon DEF IInv, Runnable
  <2>2. \A c, d \in CPUs : cur[c] = cur[d] /\ cur[c] # NoProc => c = d
    BY Zenon DEF IInv, Own
  <2> QED
    BY <2>1, <2>2, Zenon DEF RunningIsCurrent
<1> QED
  BY <1>1, Invariance, PTL

=============================================================================

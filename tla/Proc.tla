-------------------------------- MODULE Proc --------------------------------
(***************************************************************************)
(* Kernel threads: the process table, its spinlock, the boot sequence that *)
(* fills it, the LAPIC timer interrupt and the scheduler it runs           *)
(* (kernel/proc.c, kernel/apic.c, kernel/switch.asm, kernel/isr.asm,       *)
(* kernel/kernel.c, kernel/cpu.c), with the calls of init_apic() and       *)
(* init_cpu() that kmain() has commented out.                              *)
(*                                                                         *)
(* Each CPU is a process with a program counter.  A step is what a CPU     *)
(* does between two points at which another CPU or an interrupt can be     *)
(* noticed: code under ptable.lock is one step.  A spinning acquire() is a *)
(* disabled step.  allocproc() is called by kmain() only, before any other *)
(* CPU runs and with interrupts off, so that palloc() returns a page that  *)
(* nobody has: pages are numbered in the order they are handed out.        *)
(*                                                                         *)
(* "wild" is a CPU that went on through a pointer nobody set; what it does *)
(* then is not followed.                                                   *)
(***************************************************************************)
EXTENDS Integers, FiniteSets

CONSTANTS
  CPUs,   \* the CPUs that run the kernel, 0 and 1; CPU c calls init_proc(c)
  NPROC   \* number of slots of ptable.proc

ASSUME CPUsAssumption == CPUs \subseteq 0 .. NPROC - 1 /\ 0 \in CPUs

\* scheduler() starts its search at slot 2; slot indexes are uint8_t.
ASSUME NPROCAssumption == NPROC \in 3 .. 255

Slots == 0 .. NPROC - 1
NoProc == -1

\* The three allocproc() calls of kmain().
BootThreads == <<"thread1", "thread2", "thread3">>
Threads == {"thread1", "thread2", "thread3"}

VARIABLES
  lock,     \* ptable.lock
  state,    \* state, pid, stack and regs->rip of ptable.proc[s]
  pid,
  stack,
  rip,
  idx,      \* the static i of scheduler()
  nextpid,  \* the static nextpid of allocproc()
  npage,    \* stack pages handed out so far
  booted,   \* allocproc() calls kmain() has made; 4 after sti, 5 after init_cpu()
  timer,    \* the LAPIC timer of CPU c is started
  pc,       \* where CPU c is
  cur,      \* its MSR_GS: the slot of its current process, NoProc while unset
  page,     \* the kernel stack page it runs on (0: the boot stack)
  iflag,    \* its interrupt flag
  saved,    \* where the interrupted code resumes after iretq
  p         \* local variable p of allocproc()/startproc()

procVars == <<state, pid, stack, rip>>
cpuVars == <<pc, cur, page, iflag, saved>>
vars == <<lock, procVars, idx, nextpid, npage, booted, timer, cpuVars, p>>

(***************************************************************************)
(* A saved kernel stack is its page and the place switc() returns to:      *)
(* "ret" (iretq through regs, a thread that has not run yet), "scheduler"  *)
(* (back in apic_timer(), whose iretq resumes at `at`).  A slot that       *)
(* allocproc() never filled has a null stack pointer.                      *)
(***************************************************************************)
NullStack == [page |-> 0, ret |-> "null", at |-> "none"]
NewStack(pg) == [page |-> pg, ret |-> "ret", at |-> "none"]
TrapStack(pg, at) == [page |-> pg, ret |-> "scheduler", at |-> at]

Init ==
  /\ lock = 0
  /\ state = [s \in Slots |-> "UNUSED"]
  /\ pid = [s \in Slots |-> 0]
  /\ stack = [s \in Slots |-> NullStack]
  /\ rip = [s \in Slots |-> "none"]
  /\ idx = 2
  /\ nextpid = 0
  /\ npage = 0
  /\ booted = 0
  /\ timer = [c \in CPUs |-> FALSE]
  /\ pc = [c \in CPUs |-> IF c = 0 THEN "kmain" ELSE "off"]
  /\ cur = [c \in CPUs |-> NoProc]
  /\ page = [c \in CPUs |-> 0]
  /\ iflag = [c \in CPUs |-> FALSE]
  /\ saved = [c \in CPUs |-> "none"]
  /\ p = [c \in CPUs |-> NoProc]

Goto(c, l) == pc' = [pc EXCEPT ![c] = l]

\* s is the slot getproc(st, &k) stops at.
getproc(s, st, k) ==
  /\ s >= k
  /\ state[s] = st
  /\ \A t \in Slots : k <= t /\ t < s => state[t] # st

NoneFrom(st, k) == \A t \in Slots : t >= k => state[t] # st

(***************************************************************************)
(* switc(_, stk) of CPU c, where slot s is the process switched to.  A     *)
(* null stack pointer makes the CPU return to whatever address 0 holds.    *)
(***************************************************************************)
switc(c, s, stk) ==
  /\ page' = [page EXCEPT ![c] = stk.page]
  /\ Goto(c, CASE stk.ret = "null" -> "wild"
               [] stk.ret = "ret" -> rip[s]
               [] stk.ret = "scheduler" -> "tick_r")
  /\ iflag' = [iflag EXCEPT ![c] = stk.ret = "ret"]
  /\ saved' = [saved EXCEPT ![c] = stk.at]

-----------------------------------------------------------------------------
(* Boot *)

\* kmain() calls allocproc(thread1), allocproc(thread2), allocproc(thread3);
\* each begins with acquire(&ptable.lock).
KmainAlloc(c) ==
  /\ pc[c] = "kmain" /\ booted < 3
  /\ lock = 0
  /\ lock' = 1
  /\ booted' = booted + 1
  /\ Goto(c, "ap_getproc")
  /\ UNCHANGED <<procVars, idx, nextpid, npage, timer, cur, page, iflag, saved, p>>

\* getproc(UNUSED, &index) and the release(); a full table ends the call.
AllocGetproc(c) ==
  /\ pc[c] = "ap_getproc"
  /\ lock' = 0
  /\ IF NoneFrom("UNUSED", 0) THEN Goto(c, "kmain") /\ UNCHANGED p
     ELSE \E s \in Slots :
            /\ getproc(s, "UNUSED", 0)
            /\ p' = [p EXCEPT ![c] = s]
            /\ Goto(c, "ap_stack")
  /\ UNCHANGED <<procVars, idx, nextpid, npage, booted, timer, cur, page, iflag, saved>>

\* The pid, the stack page, the initial registers and the frame that returns
\* to ret.  The state of the slot is left as it is.
AllocStack(c) ==
  /\ pc[c] = "ap_stack"
  /\ nextpid' = nextpid + 1
  /\ pid' = [pid EXCEPT ![p[c]] = nextpid + 1]
  /\ npage' = npage + 1
  /\ stack' = [stack EXCEPT ![p[c]] = NewStack(npage + 1)]
  /\ rip' = [rip EXCEPT ![p[c]] = BootThreads[booted]]
  /\ Goto(c, "kmain")
  /\ UNCHANGED <<lock, state, idx, booted, timer, cur, page, iflag, saved, p>>

\* init_plock(), the rest of the boot up to sti.
KmainInit(c) ==
  /\ pc[c] = "kmain" /\ booted = 3
  /\ booted' = 4
  /\ lock' = 0
  /\ iflag' = [iflag EXCEPT ![c] = TRUE]
  /\ Goto(c, "init_apic")
  /\ UNCHANGED <<procVars, idx, nextpid, npage, timer, cur, page, saved, p>>

\* init_apic() of kmain() and of cpu().
init_apic(c) ==
  /\ pc[c] = "init_apic"
  /\ timer' = [timer EXCEPT ![c] = TRUE]
  /\ Goto(c, IF c = 0 THEN "init_cpu" ELSE "init_proc")
  /\ UNCHANGED <<lock, procVars, idx, nextpid, npage, booted, cur, page, iflag, saved, p>>

\* init_cpu() gives the other CPU the address of cpu(); ramfs_t(), initramfs()
\* and init_vm() follow.
init_cpu(c) ==
  /\ pc[c] = "init_cpu"
  /\ booted' = 5
  /\ Goto(c, "init_proc")
  /\ UNCHANGED <<lock, procVars, idx, nextpid, npage, timer, cur, page, iflag, saved, p>>

\* cpu() starts with cli and never gets to its sti.
StartCpu(c) ==
  /\ pc[c] = "off" /\ booted = 5
  /\ Goto(c, "init_apic")
  /\ UNCHANGED <<lock, procVars, idx, nextpid, npage, booted, timer, cur, page, iflag, saved, p>>

\* Mutant: cpu() starts slot 0 as kmain() does.
init_procZero(c) ==
  /\ pc[c] = "init_proc"
  /\ cur' = [cur EXCEPT ![c] = 0]
  /\ p' = [p EXCEPT ![c] = 0]
  /\ Goto(c, "sp_acq")
  /\ UNCHANGED <<lock, procVars, idx, nextpid, npage, booted, timer, page, iflag, saved>>

init_proc(c) ==
  /\ pc[c] = "init_proc"
  /\ cur' = [cur EXCEPT ![c] = c]
  /\ p' = [p EXCEPT ![c] = c]
  /\ Goto(c, "sp_acq")
  /\ UNCHANGED <<lock, procVars, idx, nextpid, npage, booted, timer, page, iflag, saved>>

-----------------------------------------------------------------------------
(* startproc(), reached from init_proc() *)

StartAcquire(c) ==
  /\ pc[c] = "sp_acq"
  /\ lock = 0
  /\ lock' = 1
  /\ Goto(c, "sp_switc")
  /\ UNCHANGED <<procVars, idx, nextpid, npage, booted, timer, cur, page, iflag, saved, p>>

StartSwitch(c) ==
  /\ pc[c] = "sp_switc"
  /\ cur' = [cur EXCEPT ![c] = p[c]]
  /\ state' = [state EXCEPT ![p[c]] = "RUNNING"]
  /\ switc(c, p[c], stack[p[c]])
  /\ UNCHANGED <<lock, pid, stack, rip, idx, nextpid, npage, booted, timer, p>>

\* thread3(), as thread2(): sti, then r() gives up the lock startproc() or
\* scheduler() took, then an empty loop.
ThreadRelease(c) ==
  /\ pc[c] \in {"thread2", "thread3"}
  /\ lock' = 0
  /\ Goto(c, "loop")
  /\ UNCHANGED <<procVars, idx, nextpid, npage, booted, timer, cur, page, iflag, saved, p>>

-----------------------------------------------------------------------------
(* The LAPIC timer interrupt *)

Tick(c) ==
  /\ iflag[c] /\ timer[c]
  /\ iflag' = [iflag EXCEPT ![c] = FALSE]
  /\ saved' = [saved EXCEPT ![c] = pc[c]]
  /\ Goto(c, "tick_acq")
  /\ UNCHANGED <<lock, procVars, idx, nextpid, npage, booted, timer, cur, page, p>>

\* Mutant: the timer handler does not wait for the lock.
apic_timerUnlocked(c) ==
  /\ pc[c] = "tick_acq"
  /\ lock' = 1
  /\ state' = [state EXCEPT ![cur[c]] = "RUNNABLE"]
  /\ Goto(c, "scheduler")
  /\ UNCHANGED <<pid, stack, rip, idx, nextpid, npage, booted, timer, cur, page, iflag,
                 saved, p>>

\* acq() and the state of the current process.  Before init_proc() MSR_GS is
\* not set: the state is written through whatever it holds, which is not in
\* the table or faults.
apic_timer(c) ==
  /\ pc[c] = "tick_acq"
  /\ lock = 0
  /\ lock' = 1
  /\ \/ /\ cur[c] # NoProc
        /\ state' = [state EXCEPT ![cur[c]] = "RUNNABLE"]
        /\ Goto(c, "scheduler")
     \/ /\ cur[c] = NoProc
        /\ Goto(c, "scheduler") \/ Goto(c, "wild")
        /\ UNCHANGED state
  /\ UNCHANGED <<pid, stack, rip, idx, nextpid, npage, booted, timer, cur, page, iflag,
                 saved, p>>

\* The search starts at the static index and wraps around; with no runnable
\* slot at all it never ends, which is a disabled step.
scheduler(c) ==
  /\ pc[c] = "scheduler"
  /\ \E s \in Slots :
       /\ \/ getproc(s, "RUNNABLE", idx)
          \/ NoneFrom("RUNNABLE", idx) /\ getproc(s, "RUNNABLE", 0)
       /\ idx' = s
       /\ cur' = [cur EXCEPT ![c] = s]
       /\ state' = [state EXCEPT ![s] = "RUNNING"]
       /\ IF pid[cur[c]] # pid[s]
          THEN /\ stack' = [stack EXCEPT ![cur[c]] = TrapStack(page[c], saved[c])]
               /\ switc(c, s, stack[s])
          ELSE /\ Goto(c, "tick_r")
               /\ UNCHANGED <<stack, page, iflag, saved>>
  /\ UNCHANGED <<lock, pid, rip, nextpid, npage, booted, timer, p>>

\* Mutant: the handler returns without r().
TickReturnForgets(c) ==
  /\ pc[c] = "tick_r"
  /\ iflag' = [iflag EXCEPT ![c] = TRUE]
  /\ saved' = [saved EXCEPT ![c] = "none"]
  /\ Goto(c, saved[c])
  /\ UNCHANGED <<lock, procVars, idx, nextpid, npage, booted, timer, cur, page, p>>

\* r() and iretq.
TickReturn(c) ==
  /\ pc[c] = "tick_r"
  /\ lock' = 0
  /\ iflag' = [iflag EXCEPT ![c] = TRUE]
  /\ saved' = [saved EXCEPT ![c] = "none"]
  /\ Goto(c, saved[c])
  /\ UNCHANGED <<procVars, idx, nextpid, npage, booted, timer, cur, page, p>>

-----------------------------------------------------------------------------
CpuStep(c) ==
  \/ KmainAlloc(c) \/ AllocGetproc(c) \/ AllocStack(c)
  \/ KmainInit(c) \/ init_apic(c) \/ init_cpu(c) \/ StartCpu(c) \/ init_proc(c)
  \/ StartAcquire(c) \/ StartSwitch(c) \/ ThreadRelease(c)
  \/ apic_timer(c) \/ scheduler(c) \/ TickReturn(c)

Next == \E c \in CPUs : CpuStep(c) \/ Tick(c)

Spec == Init /\ [][Next]_vars

\* A CPU keeps executing, and its LAPIC timer, programmed in periodic mode, keeps
\* firing while interrupts are enabled.
FairSpec ==
  /\ Spec
  /\ \A c \in CPUs : WF_vars(CpuStep(c)) /\ WF_vars(Tick(c))

-----------------------------------------------------------------------------
States == {"UNUSED", "RUNNABLE", "RUNNING"}
Labels ==
  {"off", "kmain", "ap_getproc", "ap_stack", "init_apic", "init_cpu", "init_proc",
   "sp_acq", "sp_switc", "loop", "tick_acq", "scheduler", "tick_r", "wild", "none"}
    \cup Threads
Stacks == [page : Nat, ret : {"null", "ret", "scheduler"}, at : Labels]

\* Type invariant.
TypeOK ==
  /\ lock \in {0, 1}
  /\ state \in [Slots -> States]
  /\ pid \in [Slots -> Nat]
  /\ stack \in [Slots -> Stacks]
  /\ rip \in [Slots -> Threads \cup {"none"}]
  /\ idx \in Slots
  /\ nextpid \in Nat
  /\ npage \in Nat
  /\ booted \in 0 .. 5
  /\ timer \in [CPUs -> BOOLEAN]
  /\ pc \in [CPUs -> Labels]
  /\ cur \in [CPUs -> Slots \cup {NoProc}]
  /\ page \in [CPUs -> Nat]
  /\ iflag \in [CPUs -> BOOLEAN]
  /\ saved \in [CPUs -> Labels]
  /\ p \in [CPUs -> Slots \cup {NoProc}]

\* Where CPU c holds ptable.lock.  A new thread is entered with the lock held.
LockedLabels ==
  {"ap_getproc", "sp_switc", "scheduler", "tick_r", "wild"} \cup Threads
Holds(c) ==
  \/ pc[c] \in LockedLabels
  \/ pc[c] = "tick_acq" /\ saved[c] \in LockedLabels

\* ptable.lock is set exactly while one CPU is between an acquire() and the
\* release() that may follow in another thread, on the other side of switc().
LockHasOneHolder ==
  /\ lock = 1 => \E c \in CPUs : Holds(c)
  /\ \A c \in CPUs : Holds(c) => lock = 1
  /\ \A c, d \in CPUs : Holds(c) /\ Holds(d) => c = d

\* What the comment in apic_timer() asks for: no two CPUs run on the same
\* kernel stack.
NoSharedStack ==
  \A c, d \in CPUs : c # d /\ page[c] # 0 => page[c] # page[d]

\* A RUNNING process is the current process of a CPU, and of one only.
RunningIsCurrent ==
  /\ \A s \in Slots : state[s] = "RUNNING" => \E c \in CPUs : cur[c] = s
  /\ \A c, d \in CPUs : cur[c] = cur[d] /\ cur[c] # NoProc => c = d

\* The three ways in which the lock is never given up: a CPU is lost, the timer
\* interrupted the code that holds the lock and its handler waits for it, or
\* the handler came before init_proc() and searches a table in which nothing
\* is RUNNABLE.
Hung ==
  \E c \in CPUs :
    \/ pc[c] = "wild"
    \/ pc[c] = "tick_acq" /\ saved[c] \in LockedLabels
    \/ pc[c] = "scheduler" /\ cur[c] = NoProc

\* A timer interrupt is served and the interrupted code goes on, unless the
\* kernel hangs in one of those three ways: apic_timer() gets the lock, the
\* for(;;) of scheduler() finds a process, and the lock is given back.
TicksServed ==
  \A c \in CPUs : pc[c] = "tick_acq" ~> (iflag[c] \/ Hung)

-----------------------------------------------------------------------------
(* What comments say and the code does not do *)

\* CPU c is in the for(;;) of scheduler() and no process is RUNNABLE.
SearchesInVain(c) == pc[c] = "scheduler" /\ NoneFrom("RUNNABLE", 0)

\* proc.c, in scheduler(): "let other CPUs gain entry to scheduler".  While a
\* CPU searches in vain, another one that waits for ptable.lock gets it.
OthersGainEntry ==
  \A c, d \in CPUs :
    c # d /\ pc[c] \in {"sp_acq", "tick_acq"} /\ SearchesInVain(d) ~>
      pc[c] \notin {"sp_acq", "tick_acq"}

\* proc.c, below scheduler(): what happens when a thread that the timer
\* switches to "is new".  Every thread that kmain() makes is run, unless the
\* kernel hangs.
ThreadsRun ==
  \A t \in Threads : <>(Hung \/ \E c \in CPUs : pc[c] = t)
=============================================================================

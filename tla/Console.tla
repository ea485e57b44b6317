------------------------------ MODULE Console ------------------------------
(***************************************************************************)
(* The global spinlock of the console: print() of kernel/kernel.c, sleep() *)
(* of kernel/time.c with the counter of the timer interrupt, and the       *)
(* keyboard interrupt of kernel/kbd.c, which prints as well.               *)
(*                                                                         *)
(* CPU 0 takes the interrupts of the timer and of the keyboard, and it is  *)
(* the one that sleeps (configure_timer() runs on the first CPU only).  An *)
(* interrupt gate clears IF: a handler runs to its end before CPU 0 does   *)
(* anything else, while the other CPUs go on.                              *)
(*                                                                         *)
(* The keyboard sends scan codes of set 2: the code of a key when it goes  *)
(* down, and the prefix "F0" before the code when it comes up.  What the   *)
(* person at the keyboard means by a byte travels with it as a ghost.      *)
(***************************************************************************)
EXTENDS Integers, Sequences

CONSTANTS
  CPUs,       \* CPU 0 and others
  PitMod,     \* PIT_COUNTER counts modulo this, 2^32 in the kernel
  SleepArgs,  \* arguments of sleep()
  Prompt,     \* TRUE: sleep() looks at the counter between any two ticks
  Letters,    \* the keys that print
  MaxCalls,   \* bound on the calls of print() and sleep() by a CPU
  MaxEvents   \* bound on the keys that go down or come up

ASSUME ConsoleAssumption ==
  /\ 0 \in CPUs
  /\ PitMod \in Nat \ {0} /\ SleepArgs \subseteq 1 .. PitMod - 1
  /\ Prompt \in BOOLEAN
  /\ Letters \cap {"Shift", "Caps", "F0", "none"} = {}
  /\ MaxCalls \in Nat /\ MaxEvents \in Nat

Keys == Letters \cup {"Shift", "Caps"}
Codes == Keys \cup {"F0"}

\* What is printed: the letter of a key, upper case or not.
Chars == [key : Letters, upper : BOOLEAN]
NoChar == [key |-> "none", upper |-> FALSE]

\* What a byte of the keyboard is meant to print: a letter and the cases that are
\* right for it, or nothing.
Wants == [key : Letters \cup {"none"}, upper : SUBSET BOOLEAN]
NoWant == [key |-> "none", upper |-> {FALSE}]
Fits(char, w) == char.key = w.key /\ char.upper \in w.upper

VARIABLES
  lock,        \* the global spinlock
  pc,          \* what the thread on each CPU does
  calls,       \* calls made by each CPU
  arg,         \* argument of the sleep() in progress
  PIT_COUNTER,
  waited,      \* ghost: ticks since sleep() set the counter
  fresh,       \* a tick came since sleep() read the counter
  irq,         \* where CPU 0 is in the keyboard handler
  ch,          \* the character the handler prints
  key_release, \* static variables of kbd_press()
  flags,
  line,        \* bytes the keyboard sends: [code, before, want]
  down,        \* keys that are down
  caps,        \* caps lock is meant to be on
  muddled,     \* ghost: a shift or caps lock key that is held has been sent again
  want,        \* ghost: what the byte in the handler is meant to print
  events       \* number of keys that went down or came up

threadVars == <<pc, calls, arg>>
timeVars == <<PIT_COUNTER, waited, fresh>>
driver == <<key_release, flags>>
keyboard == <<line, down, caps, muddled, events>>
vars == <<lock, threadVars, timeVars, irq, ch, driver, keyboard, want>>

Unlocked == {"idle", "print_acq", "sleep_acq"}
Locked == {"write", "sleep_set", "sleeping", "sleep_rel"}

\* The state of the driver in which a byte is meant to be read.
DriverState == [rel : BOOLEAN, shift : BOOLEAN, caps : BOOLEAN]

Init ==
  /\ lock = 0 /\ pc = [c \in CPUs |-> "idle"] /\ calls = [c \in CPUs |-> 0]
  /\ arg = 0 /\ PIT_COUNTER = 0 /\ waited = 0 /\ fresh = FALSE
  /\ irq = "none" /\ ch = NoChar /\ want = NoWant
  /\ key_release = FALSE /\ flags = [shift |-> FALSE, caps |-> FALSE]
  /\ line = <<>> /\ down = {} /\ caps = FALSE /\ muddled = FALSE /\ events = 0

-----------------------------------------------------------------------------
(* Threads                                                                 *)

\* A thread on CPU 0 stands still while a handler runs there.
Runs(c, label) == pc[c] = label /\ (c = 0 => irq = "none")
Goto(c, label) == pc' = [pc EXCEPT ![c] = label]

CallPrint(c) ==
  /\ Runs(c, "idle") /\ calls[c] < MaxCalls
  /\ calls' = [calls EXCEPT ![c] = @ + 1]
  /\ Goto(c, "print_acq")
  /\ UNCHANGED <<lock, arg, timeVars, irq, ch, driver, keyboard, want>>

\* Mutant: the terminal is written whether the lock is free or not.
PrintAcquireAnyway(c) ==
  /\ Runs(c, "print_acq")
  /\ lock' = 1 /\ Goto(c, "write")
  /\ UNCHANGED <<calls, arg, timeVars, irq, ch, driver, keyboard, want>>

PrintAcquire(c) ==
  /\ Runs(c, "print_acq") /\ lock = 0
  /\ lock' = 1 /\ Goto(c, "write")
  /\ UNCHANGED <<calls, arg, timeVars, irq, ch, driver, keyboard, want>>

\* The end of terminal_res->write(), and release().
PrintRelease(c) ==
  /\ Runs(c, "write")
  /\ lock' = 0 /\ Goto(c, "idle")
  /\ UNCHANGED <<calls, arg, timeVars, irq, ch, driver, keyboard, want>>

CallSleep(us) ==
  /\ Runs(0, "idle") /\ calls[0] < MaxCalls
  /\ calls' = [calls EXCEPT ![0] = @ + 1]
  /\ arg' = us /\ Goto(0, "sleep_acq")
  /\ UNCHANGED <<lock, timeVars, irq, ch, driver, keyboard, want>>

SleepAcquire ==
  /\ Runs(0, "sleep_acq") /\ lock = 0
  /\ lock' = 1 /\ Goto(0, "sleep_set")
  /\ UNCHANGED <<calls, arg, timeVars, irq, ch, driver, keyboard, want>>

\* PIT_COUNTER = us
SleepSet ==
  /\ Runs(0, "sleep_set")
  /\ PIT_COUNTER' = arg /\ waited' = 0 /\ fresh' = FALSE
  /\ Goto(0, "sleeping")
  /\ UNCHANGED <<lock, calls, arg, irq, ch, driver, keyboard, want>>

\* Mutant: the loop ends one tick early.
SleepReadEarly ==
  /\ Runs(0, "sleeping")
  /\ fresh' = FALSE
  /\ IF PIT_COUNTER > 1 THEN UNCHANGED pc ELSE Goto(0, "sleep_rel")
  /\ UNCHANGED <<lock, calls, arg, PIT_COUNTER, waited, irq, ch, driver, keyboard, want>>

\* A turn of while (PIT_COUNTER > 0).
SleepRead ==
  /\ Runs(0, "sleeping")
  /\ fresh' = FALSE
  /\ IF PIT_COUNTER > 0 THEN UNCHANGED pc ELSE Goto(0, "sleep_rel")
  /\ UNCHANGED <<lock, calls, arg, PIT_COUNTER, waited, irq, ch, driver, keyboard, want>>

\* Mutant: sleep() returns without release().
SleepReleaseForgets ==
  /\ Runs(0, "sleep_rel")
  /\ Goto(0, "idle")
  /\ arg' = 0 /\ waited' = 0
  /\ UNCHANGED <<lock, calls, PIT_COUNTER, fresh, irq, ch, driver, keyboard, want>>

SleepRelease ==
  /\ Runs(0, "sleep_rel")
  /\ lock' = 0 /\ Goto(0, "idle")
  /\ arg' = 0 /\ waited' = 0
  /\ UNCHANGED <<calls, PIT_COUNTER, fresh, irq, ch, driver, keyboard, want>>

Step(c) == PrintAcquire(c) \/ PrintRelease(c)
SleepStep == SleepAcquire \/ SleepSet \/ SleepRead \/ SleepRelease

-----------------------------------------------------------------------------
(* The timer interrupt                                                     *)

\* The ghost counts up to PitMod, which no sleep() asks for.
Counted(n) == IF n > PitMod THEN PitMod ELSE n

\* Mutant: the handler counts two ticks.
timerhTwice ==
  /\ irq = "none"
  /\ Prompt /\ pc[0] = "sleeping" => ~fresh
  /\ PIT_COUNTER' = (PIT_COUNTER + PitMod - 2) % PitMod
  /\ IF pc[0] = "sleeping" THEN waited' = Counted(waited + 1) /\ fresh' = TRUE
     ELSE UNCHANGED <<waited, fresh>>
  /\ UNCHANGED <<lock, threadVars, irq, ch, driver, keyboard, want>>

\* timerh(), from its interrupt to its iretq.  The counter is unsigned and
\* goes on below 0 when nobody sleeps.
timerh ==
  /\ irq = "none"
  /\ Prompt /\ pc[0] = "sleeping" => ~fresh
  /\ PIT_COUNTER' = (PIT_COUNTER + PitMod - 1) % PitMod
  /\ IF pc[0] = "sleeping" THEN waited' = Counted(waited + 1) /\ fresh' = TRUE
     ELSE UNCHANGED <<waited, fresh>>
  /\ UNCHANGED <<lock, threadVars, irq, ch, driver, keyboard, want>>

-----------------------------------------------------------------------------
(* The keyboard                                                            *)

\* What kbd_press() makes of its static variables, given a byte.
Released(s, code) == code # "F0" /\ s.rel

\* Mutant: the code of the shift key changes the state only when it goes down.
AfterShiftSticks(s, code) ==
  [rel |-> code = "F0",
   shift |-> IF code = "Shift" /\ ~s.rel THEN ~s.shift ELSE s.shift,
   caps |-> IF code = "Caps" /\ ~s.rel THEN ~s.caps ELSE s.caps]

After(s, code) ==
  [rel |-> code = "F0",
   shift |-> IF code = "Shift" THEN ~s.shift ELSE s.shift,
   caps |-> IF code = "Caps" /\ ~s.rel THEN ~s.caps ELSE s.caps]

\* The state the driver will be in when it has read the whole line.
Last == line[Len(line)]
Driver == [rel |-> key_release, shift |-> flags.shift, caps |-> flags.caps]
Meant == IF line = <<>> THEN Driver ELSE After(Last.before, Last.code)

Byte(s, code, w) == [code |-> code, before |-> s, want |-> w]

\* What a letter means depends on what is down and on caps lock when it is sent.
Means(k) ==
  IF k \in Letters
  THEN [key |-> k, upper |-> IF muddled THEN BOOLEAN ELSE {caps \/ "Shift" \in down}]
  ELSE NoWant

\* A key goes down.
Press(k) ==
  /\ k \notin down /\ events < MaxEvents
  /\ events' = events + 1
  /\ down' = down \cup {k}
  /\ caps' = IF k = "Caps" THEN ~caps ELSE caps
  /\ line' = Append(line, Byte(Meant, k, Means(k)))
  /\ UNCHANGED <<lock, threadVars, timeVars, irq, ch, driver, muddled, want>>

\* A key that is held down is sent again.  The driver takes the code of a shift
\* or caps lock key for a change, which nobody meant: from then on either case
\* of a letter is allowed.
Repeat(k) ==
  /\ k \in down /\ events < MaxEvents
  /\ events' = events + 1
  /\ muddled' = (muddled \/ k \notin Letters)
  /\ line' = Append(line, Byte(Meant, k, Means(k)))
  /\ UNCHANGED <<lock, threadVars, timeVars, irq, ch, driver, down, caps, want>>

Lift(k) ==
  /\ k \in down /\ events < MaxEvents
  /\ events' = events + 1
  /\ down' = down \ {k}
  /\ line' = line \o <<Byte(Meant, "F0", NoWant), Byte(After(Meant, "F0"), k, NoWant)>>
  /\ UNCHANGED <<lock, threadVars, timeVars, irq, ch, driver, caps, muddled, want>>

\* kbd_press() up to print_char() or to its end.
KbdPress ==
  /\ irq = "none" /\ line # <<>>
  /\ LET code == Head(line).code
         s == After(Driver, code)
     IN  /\ line' = Tail(line) /\ want' = Head(line).want
         /\ key_release' = s.rel /\ flags' = [shift |-> s.shift, caps |-> s.caps]
         /\ IF code \in Letters /\ ~Released(Driver, code)
            THEN irq' = "acq" /\ ch' = [key |-> code, upper |-> flags.caps \/ flags.shift]
            ELSE irq' = "eoi" /\ ch' = NoChar
  /\ UNCHANGED <<lock, threadVars, timeVars, down, caps, muddled, events>>

KbdAcquire ==
  /\ irq = "acq" /\ lock = 0
  /\ lock' = 1 /\ irq' = "write"
  /\ UNCHANGED <<threadVars, timeVars, ch, driver, keyboard, want>>

KbdRelease ==
  /\ irq = "write"
  /\ lock' = 0 /\ irq' = "eoi" /\ ch' = NoChar /\ want' = NoWant
  /\ UNCHANGED <<threadVars, timeVars, driver, keyboard>>

\* out(0x20, 0x20) and iretq.
KbdReturn ==
  /\ irq = "eoi"
  /\ irq' = "none"
  /\ UNCHANGED <<lock, threadVars, timeVars, ch, driver, keyboard, want>>

Handler == KbdPress \/ KbdAcquire \/ KbdRelease \/ KbdReturn

-----------------------------------------------------------------------------
Next ==
  \/ \E c \in CPUs : CallPrint(c) \/ Step(c)
  \/ \E us \in SleepArgs : CallSleep(us)
  \/ SleepStep
  \/ timerh
  \/ \E k \in Keys : Press(k) \/ Repeat(k) \/ Lift(k)
  \/ Handler

Spec == Init /\ [][Next]_vars

\* A CPU goes on with the call or the handler it is in; the timer, which is
\* periodic, goes on; a byte of the keyboard raises its interrupt.
FairSpec ==
  /\ Spec
  /\ \A c \in CPUs : WF_vars(Step(c))
  /\ WF_vars(SleepStep) /\ WF_vars(timerh) /\ WF_vars(Handler)

-----------------------------------------------------------------------------
\* Type invariant.
TypeOK ==
  /\ lock \in {0, 1} /\ pc \in [CPUs -> Unlocked \cup Locked]
  /\ calls \in [CPUs -> 0 .. MaxCalls] /\ arg \in SleepArgs \cup {0}
  /\ PIT_COUNTER \in 0 .. PitMod - 1 /\ waited \in 0 .. PitMod /\ fresh \in BOOLEAN
  /\ irq \in {"none", "acq", "write", "eoi"}
  /\ ch \in Chars \cup {NoChar} /\ want \in Wants
  /\ key_release \in BOOLEAN /\ flags \in [shift : BOOLEAN, caps : BOOLEAN]
  /\ line \in Seq([code : Codes, before : DriverState, want : Wants])
  /\ down \subseteq Keys /\ caps \in BOOLEAN /\ muddled \in BOOLEAN /\ events \in 0 .. MaxEvents

\* The terminal has one writer at a time, and the lock is taken exactly while
\* one thread or the keyboard handler is between acquire() and release(): it
\* is never lost by a path that forgets it (print(), sleep(), print_char()).
OneWriter ==
  /\ lock = 1 <=> (irq = "write" \/ \E c \in CPUs : pc[c] \in Locked)
  /\ \A c, d \in CPUs : pc[c] \in Locked /\ pc[d] \in Locked => c = d
  /\ irq = "write" => \A c \in CPUs : pc[c] \in Unlocked

\* sleep(n) returns after exactly n timer interrupts, wherever the free
\* running counter stood when it was called and whatever interrupts come in
\* between, as long as the loop sees every value of the counter.
SleepExact == pc[0] = "sleep_rel" => waited = arg

\* kbd_press() prints what was meant when the byte was sent: each letter that
\* goes down or is held, and nothing for a key that comes up, however far the
\* handler is behind the keyboard.  Until a held shift or caps lock key is sent
\* again, the letter has the case that the two had then.
Echo ==
  /\ irq \in {"acq", "write"} => Fits(ch, want)
  /\ irq = "eoi" => Fits(NoChar, want)

\* The keyboard interrupt came while the thread on CPU 0 held the lock: the
\* handler waits for a thread that cannot run until the handler returns.
SelfDeadlock == irq = "acq" /\ pc[0] \in Locked

\* sleep() returns, although the counter wraps around, unless CPU 0 stops on
\* its own lock.
SleepEnds ==
  pc[0] \in {"sleep_acq", "sleep_set", "sleeping", "sleep_rel"} ~>
    (pc[0] = "idle" \/ SelfDeadlock)

\* Every byte of the keyboard is served and CPU 0 goes back to its thread,
\* unless CPU 0 stops on its own lock: print() on another CPU delays the
\* handler and does not block it for good, as long as the other CPUs make a
\* finite number of calls.
KeysServed ==
  (line # <<>> \/ irq # "none") ~> ((line = <<>> /\ irq = "none") \/ SelfDeadlock)
=============================================================================

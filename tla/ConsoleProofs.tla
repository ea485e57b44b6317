--------------------------- MODULE ConsoleProofs ---------------------------
(***************************************************************************)
(* Proofs about Console for every number of CPUs, every width of the       *)
(* counter, every set of letters and any number of calls and keys.         *)
(*                                                                         *)
(* OneWriter is inductive with the types.  SleepExact and Echo are not:    *)
(*   - while sleep() waits, the counter is what is left of its argument,   *)
(*     and a counter at 0 has not been read yet (Countdown), so that no    *)
(*     tick makes it wrap around;                                          *)
(*   - the ghosts that travel with the bytes of the keyboard are a chain   *)
(*     from the state of the driver to what the keys that are down and     *)
(*     caps lock mean now, as long as no shift or caps lock key that is    *)
(*     held has been sent again (Chain).                                   *)
(***************************************************************************)
EXTENDS Console, TLAPS

Sleep == {"sleep_acq", "sleep_set", "sleeping", "sleep_rel"}

Countdown ==
  /\ pc[0] \in Sleep => arg \in SleepArgs
  /\ pc[0] = "sleeping" => PIT_COUNTER = arg - waited /\ (PIT_COUNTER = 0 => fresh = TRUE)
  /\ pc[0] = "sleep_rel" => waited = arg

\* What the driver prints for a byte, from its state and the byte.
Printed(s, code) ==
  IF code \in Letters /\ ~s.rel THEN [key |-> code, upper |-> s.caps \/ s.shift] ELSE NoChar

\* The bytes of l fit together, and the first one the state d: each is meant to
\* be read in the state that the one before it leaves, and prints what it means.
Linked(l, d) ==
  /\ l # <<>> => l[1].before = d
  /\ \A i \in 1 .. Len(l) - 1 : l[i + 1].before = After(l[i].before, l[i].code)
  /\ \A i \in 1 .. Len(l) : Fits(Printed(l[i].before, l[i].code), l[i].want)

\* The state that the bytes of l leave.
End(l, d) == IF l = <<>> THEN d ELSE After(l[Len(l)].before, l[Len(l)].code)

\* What the keys that are down and caps lock mean now.
Settled == [rel |-> FALSE, shift |-> "Shift" \in down, caps |-> caps]

Chain ==
  /\ Linked(line, Driver)
  /\ Meant.rel = FALSE /\ (~muddled => Meant = Settled)

-----------------------------------------------------------------------------
(* Types and the lock                                                      *)

\* A byte on the line.
Bytes == [code : Codes, before : DriverState, want : Wants]

\* The driver's states, and what it makes of them.
LEMMA AfterType ==
  ASSUME NEW s \in DriverState, NEW code
  PROVE  After(s, code) \in DriverState
  BY Zenon DEF After, DriverState

LEMMA DriverType == TypeOK => Driver \in DriverState
  BY Zenon DEF TypeOK, Driver, DriverState

LEMMA MeantType == TypeOK => Meant \in DriverState
<1> SUFFICES ASSUME TypeOK PROVE Meant \in DriverState
  BY Zenon
<1>1. CASE line = <<>>
  BY <1>1, DriverType, Zenon DEF Meant
<1>2. CASE line # <<>>
  <2>1. line \in Seq(Bytes)
    BY Zenon DEF TypeOK, Bytes
  <2>2. Last \in Bytes
    BY <1>2, <2>1 DEF Last
  <2>3. Last.before \in DriverState
    BY <2>2, Zenon DEF Bytes
  <2> QED
    BY <1>2, <2>3, AfterType, Zenon DEF Meant
<1> QED BY <1>1, <1>2, Zenon

\* What a letter prints, and what it means.
LEMMA CharType ==
  ASSUME NEW k \in Letters, NEW b \in BOOLEAN
  PROVE  [key |-> k, upper |-> b] \in Chars
  BY Zenon DEF Chars

LEMMA MeansType == \A k : Means(k) \in Wants
<1> SUFFICES ASSUME NEW k PROVE Means(k) \in Wants
  BY Zenon
<1>1. NoWant \in Wants
  BY Zenon DEF NoWant, Wants
<1> DEFINE u == IF muddled THEN BOOLEAN ELSE {caps \/ "Shift" \in down}
<1>2. (caps \/ "Shift" \in down) \in BOOLEAN
  BY Zenon
<1>3. {caps \/ "Shift" \in down} \in SUBSET BOOLEAN /\ BOOLEAN \in SUBSET BOOLEAN
  BY <1>2, Zenon
<1>4. u \in SUBSET BOOLEAN
  BY <1>3, Zenon
<1> QED BY <1>1, <1>4, Zenon DEF Means, Wants

LEMMA NoWantType == NoWant \in Wants
  BY Zenon DEF NoWant, Wants

LEMMA ByteType ==
  ASSUME NEW s \in DriverState, NEW k \in Codes, NEW w \in Wants
  PROVE  Byte(s, k, w) \in Bytes
  BY Zenon DEF Byte, Bytes

\* The threads and the timer leave the keyboard alone, and the keyboard the
\* threads and the timer.
ThreadStep ==
  \/ \E c \in CPUs : CallPrint(c) \/ Step(c)
  \/ \E us \in SleepArgs : CallSleep(us)
  \/ SleepStep
  \/ timerh
KeyStep == (\E k \in Keys : Press(k) \/ Repeat(k) \/ Lift(k)) \/ KbdPress

LEMMA Split == Next => \/ ThreadStep /\ UNCHANGED <<irq, ch, driver, keyboard, want>>
                       \/ KeyStep /\ UNCHANGED <<lock, threadVars, timeVars>>
                       \/ KbdAcquire \/ KbdRelease \/ KbdReturn
<1> SUFFICES ASSUME Next
             PROVE  \/ ThreadStep /\ UNCHANGED <<irq, ch, driver, keyboard, want>>
                    \/ KeyStep /\ UNCHANGED <<lock, threadVars, timeVars>>
                    \/ KbdAcquire \/ KbdRelease \/ KbdReturn
  BY Zenon
<1>1. CASE ThreadStep
  BY <1>1, Zenon DEF ThreadStep, CallPrint, Step, PrintAcquire, PrintRelease, CallSleep, SleepStep,
              SleepAcquire, SleepSet, SleepRead, SleepRelease, timerh
<1>2. CASE KeyStep
  BY <1>2, Zenon DEF KeyStep, Press, Repeat, Lift, KbdPress
<1> QED
  BY <1>1, <1>2, Zenon DEF Next, Handler, ThreadStep, KeyStep

LEMMA TypeInv == TypeOK /\ [Next]_vars => TypeOK'
<1> SUFFICES ASSUME TypeOK, [Next]_vars PROVE TypeOK'
  BY Zenon
<1> USE ConsoleAssumption
<1>1. CASE ThreadStep /\ UNCHANGED <<irq, ch, driver, keyboard, want>>
  <2>1. UNCHANGED <<irq, ch, key_release, flags, line, down, caps, muddled, events, want>>
    BY <1>1, Zenon DEF driver, keyboard
  <2> DEFINE T == /\ lock \in {0, 1} /\ pc \in [CPUs -> Unlocked \cup Locked]
                  /\ calls \in [CPUs -> 0 .. MaxCalls] /\ arg \in SleepArgs \cup {0}
                  /\ PIT_COUNTER \in 0 .. PitMod - 1 /\ waited \in 0 .. PitMod
                  /\ fresh \in BOOLEAN
  <2> SUFFICES T'
    BY <2>1 DEF TypeOK
  <2>t. T
    BY Zenon DEF TypeOK
  <2> USE DEF Unlocked, Locked, Runs, Goto, timeVars
  <2>2. ASSUME NEW c \in CPUs, CallPrint(c) \/ Step(c) PROVE T'
    BY <2>t, <2>2 DEF CallPrint, Step, PrintAcquire, PrintRelease
  <2>3. ASSUME NEW us \in SleepArgs, CallSleep(us) PROVE T'
    BY <2>t, <2>3 DEF CallSleep
  <2>4. CASE SleepAcquire \/ SleepRelease
    BY <2>t, <2>4 DEF SleepAcquire, SleepRelease
  <2>5. CASE SleepSet \/ SleepRead
    <3>1. fresh' = FALSE /\ UNCHANGED <<lock, calls, arg>>
      BY <2>5, Zenon DEF SleepSet, SleepRead
    <3>2. fresh' \in BOOLEAN
      BY <3>1, Zenon
    <3>3. pc' \in [CPUs -> Unlocked \cup Locked]
      BY <2>t, <2>5, Zenon DEF SleepSet, SleepRead
    <3>4. PIT_COUNTER' \in 0 .. PitMod - 1 /\ waited' \in 0 .. PitMod
      BY <2>t, <2>5 DEF SleepSet, SleepRead
    <3> QED BY <2>t, <3>1, <3>2, <3>3, <3>4, Zenon
  <2>6. CASE timerh
    <3>1. (PIT_COUNTER + PitMod - 1) % PitMod \in 0 .. PitMod - 1
      BY <2>t
    <3>2. Counted(waited + 1) \in 0 .. PitMod
      BY <2>t DEF Counted
    <3> QED BY <2>t, <2>6, <3>1, <3>2, Zenon DEF timerh, threadVars
  <2> QED
    BY <1>1, <2>2, <2>3, <2>4, <2>5, <2>6, Zenon DEF ThreadStep, SleepStep
<1>2. CASE KeyStep /\ UNCHANGED <<lock, threadVars, timeVars>>
  <2>0. line \in Seq(Bytes) /\ Meant \in DriverState /\ Driver \in DriverState
    BY MeantType, DriverType, Zenon DEF TypeOK, Bytes
  <2>1. UNCHANGED <<lock, pc, calls, arg, PIT_COUNTER, waited, fresh>>
    BY <1>2, Zenon DEF threadVars, timeVars
  <2>2. ASSUME NEW k \in Keys, Press(k) PROVE TypeOK'
    <3>2. Byte(Meant, k, Means(k)) \in Bytes
      BY <2>0, MeansType, ByteType, Zenon DEF Codes
    <3>3. line' \in Seq(Bytes)
      BY <2>0, <2>2, <3>2 DEF Press
    <3>4. caps' \in BOOLEAN
      BY <2>2, Zenon DEF Press, TypeOK
    <3>6. down' \subseteq Keys /\ events' \in 0 .. MaxEvents
      BY <2>2 DEF Press, TypeOK
    <3>5. UNCHANGED <<irq, ch, key_release, flags, muddled, want>>
      BY <2>2, Zenon DEF Press, driver
    <3> QED BY <2>1, <3>3, <3>4, <3>5, <3>6 DEF TypeOK, Bytes
  <2>3. ASSUME NEW k \in Keys, Repeat(k) PROVE TypeOK'
    <3>1. muddled' \in BOOLEAN
      BY <2>3, Zenon DEF Repeat
    <3>2. Byte(Meant, k, Means(k)) \in Bytes
      BY <2>0, MeansType, ByteType, Zenon DEF Codes
    <3>3. line' \in Seq(Bytes)
      BY <2>0, <2>3, <3>2 DEF Repeat
    <3>4. events' \in 0 .. MaxEvents /\ UNCHANGED <<irq, ch, key_release, flags, want, down, caps>>
      BY <2>3 DEF Repeat, TypeOK, driver
    <3> QED BY <2>1, <3>1, <3>3, <3>4 DEF TypeOK, Bytes
  <2>4. ASSUME NEW k \in Keys, Lift(k) PROVE TypeOK'
    <3>1. Byte(Meant, "F0", NoWant) \in Bytes /\ Byte(After(Meant, "F0"), k, NoWant) \in Bytes
      BY <2>0, AfterType, NoWantType, ByteType, Zenon DEF Codes
    <3>2. line' \in Seq(Bytes)
      BY <2>0, <2>4, <3>1 DEF Lift
    <3>3. /\ events' \in 0 .. MaxEvents /\ down' \subseteq Keys
          /\ UNCHANGED <<irq, ch, key_release, flags, want, caps, muddled>>
      BY <2>4 DEF Lift, TypeOK, driver
    <3> QED BY <2>1, <3>2, <3>3 DEF TypeOK, Bytes
  <2>5. CASE KbdPress
    <3> DEFINE s == After(Driver, Head(line).code)
    <3>1. Head(line) \in Bytes /\ line' \in Seq(Bytes)
      BY <2>0, <2>5 DEF KbdPress
    <3>2. s \in DriverState
      BY <2>0, AfterType, Zenon
    <3>3. key_release' \in BOOLEAN /\ flags' \in [shift : BOOLEAN, caps : BOOLEAN]
      <4>1. key_release' = s.rel /\ flags' = [shift |-> s.shift, caps |-> s.caps]
        BY <2>5, Zenon DEF KbdPress
      <4> HIDE DEF s
      <4> QED BY <4>1, <3>2, Zenon DEF DriverState
    <3>4. want' \in Wants
      BY <2>5, <3>1, Zenon DEF KbdPress, Bytes
    <3>5. irq' \in {"acq", "eoi"} /\ ch' \in Chars \cup {NoChar}
      BY <2>5, CharType, Zenon DEF KbdPress
    <3>6. UNCHANGED <<down, caps, muddled, events>>
      BY <2>5, Zenon DEF KbdPress
    <3> QED BY <2>1, <3>1, <3>3, <3>4, <3>5, <3>6, Zenon DEF TypeOK, Bytes
  <2> QED
    BY <1>2, <2>2, <2>3, <2>4, <2>5, Zenon DEF KeyStep
<1>3. CASE KbdAcquire \/ KbdRelease \/ KbdReturn
  BY <1>3, NoWantType DEF TypeOK, KbdAcquire, KbdRelease, KbdReturn, threadVars, timeVars, driver, keyboard
<1>4. CASE UNCHANGED vars
  BY <1>4 DEF TypeOK, vars, threadVars, timeVars, driver, keyboard
<1> QED
  BY <1>1, <1>2, <1>3, <1>4, Split, Zenon

\* The lock is taken only when it is free, and released by its only holder.
LEMMA WriterInv == TypeOK /\ OneWriter /\ [Next]_vars => OneWriter'
<1> SUFFICES ASSUME TypeOK, OneWriter, [Next]_vars PROVE OneWriter'
  BY Zenon
<1> USE ConsoleAssumption
<1>t. lock \in {0, 1} /\ pc \in [CPUs -> Unlocked \cup Locked]
  BY Zenon DEF TypeOK
<1>1. CASE ThreadStep /\ UNCHANGED <<irq, ch, driver, keyboard, want>>
  <2> USE DEF OneWriter, Unlocked, Locked, Runs, Goto
  <2>2. ASSUME NEW c \in CPUs, CallPrint(c) \/ Step(c) PROVE OneWriter'
    <3>1. CASE CallPrint(c)
      BY <1>1, <1>t, <3>1 DEF CallPrint
    <3>2. CASE PrintAcquire(c)
      BY <1>1, <1>t, <3>2 DEF PrintAcquire
    <3>3. CASE PrintRelease(c)
      BY <1>1, <1>t, <3>3 DEF PrintRelease
    <3> QED BY <2>2, <3>1, <3>2, <3>3, Zenon DEF Step
  <2>3. ASSUME NEW us \in SleepArgs, CallSleep(us) PROVE OneWriter'
    BY <1>1, <1>t, <2>3 DEF CallSleep
  <2>4. CASE SleepAcquire
    BY <1>1, <1>t, <2>4 DEF SleepAcquire
  <2>5. CASE SleepSet \/ SleepRead
    BY <1>1, <1>t, <2>5 DEF SleepSet, SleepRead
  <2>6. CASE SleepRelease
    BY <1>1, <1>t, <2>6 DEF SleepRelease
  <2>7. CASE timerh
    BY <1>1, <1>t, <2>7, Zenon DEF timerh, threadVars
  <2> QED
    BY <1>1, <2>2, <2>3, <2>4, <2>5, <2>6, <2>7, Zenon DEF ThreadStep, SleepStep
<1>2. CASE KeyStep /\ UNCHANGED <<lock, threadVars, timeVars>>
  <2>1. irq' = irq \/ (irq = "none" /\ irq' \in {"acq", "eoi"})
    BY <1>2, Zenon DEF KeyStep, Press, Repeat, Lift, KbdPress
  <2>2. UNCHANGED <<lock, pc>>
    BY <1>2, Zenon DEF threadVars
  <2> QED BY <2>1, <2>2, Zenon DEF OneWriter
<1>3. CASE KbdAcquire \/ KbdRelease \/ KbdReturn
  BY <1>3, <1>t DEF OneWriter, KbdAcquire, KbdRelease, KbdReturn, threadVars, Unlocked, Locked
<1>4. CASE UNCHANGED vars
  BY <1>4, Zenon DEF OneWriter, vars, threadVars
<1> QED
  BY <1>1, <1>2, <1>3, <1>4, Split, Zenon

-----------------------------------------------------------------------------
(* sleep()                                                                 *)

\* An unsigned counter that is not 0 goes down by one.
LEMMA CountsDown ==
  ASSUME NEW n \in 1 .. PitMod - 1
  PROVE  (n + PitMod - 1) % PitMod = n - 1
<1> USE ConsoleAssumption
<1>1. n + PitMod - 1 = PitMod * 1 + (n - 1) /\ n - 1 \in 0 .. PitMod - 1
  OBVIOUS
<1> QED BY <1>1

LEMMA CountdownInv ==
  ASSUME Prompt
  PROVE  TypeOK /\ Countdown /\ [Next]_vars => Countdown'
<1> SUFFICES ASSUME TypeOK, Countdown, [Next]_vars PROVE Countdown'
  BY Zenon
<1> USE ConsoleAssumption
<1>t. /\ pc \in [CPUs -> Unlocked \cup Locked] /\ arg \in SleepArgs \cup {0}
      /\ PIT_COUNTER \in 0 .. PitMod - 1 /\ waited \in 0 .. PitMod
  BY Zenon DEF TypeOK
<1>1. CASE ThreadStep
  <2> USE DEF Countdown, Sleep, Runs, Goto
  <2>2. ASSUME NEW c \in CPUs, CallPrint(c) \/ Step(c) PROVE Countdown'
    BY <1>t, <2>2 DEF CallPrint, Step, PrintAcquire, PrintRelease, timeVars
  <2>3. ASSUME NEW us \in SleepArgs, CallSleep(us) PROVE Countdown'
    BY <1>t, <2>3, Zenon DEF CallSleep
  <2>4. CASE SleepAcquire
    BY <1>t, <2>4, Zenon DEF SleepAcquire, timeVars
  <2>5. CASE SleepSet
    BY <1>t, <2>5 DEF SleepSet
  <2>6. CASE SleepRead
    BY <1>t, <2>6 DEF SleepRead
  <2>7. CASE SleepRelease
    BY <1>t, <2>7, Zenon DEF SleepRelease
  <2>8. CASE timerh
    <3>1. CASE pc[0] = "sleeping"
      <4>1. ~fresh /\ fresh' = TRUE /\ waited' = Counted(waited + 1) /\ UNCHANGED <<pc, arg>>
        BY <2>8, <3>1, Zenon DEF timerh, threadVars
      <4>2. PIT_COUNTER # 0
        BY <3>1, <4>1, Zenon
      <4>3. PIT_COUNTER' = PIT_COUNTER - 1
        BY <1>t, <2>8, <4>2, CountsDown DEF timerh
      <4>4. PIT_COUNTER = arg - waited /\ arg \in 1 .. PitMod - 1
        BY <3>1, Zenon
      <4>5. waited' = waited + 1
        BY <1>t, <4>1, <4>4 DEF Counted
      <4> QED BY <1>t, <3>1, <4>1, <4>3, <4>4, <4>5
    <3>2. CASE pc[0] # "sleeping"
      BY <2>8, <3>2, Zenon DEF timerh, threadVars
    <3> QED BY <3>1, <3>2, Zenon
  <2> QED
    BY <1>1, <2>2, <2>3, <2>4, <2>5, <2>6, <2>7, <2>8, Zenon DEF ThreadStep, SleepStep
<1>2. CASE UNCHANGED <<threadVars, timeVars>>
  BY <1>2, Zenon DEF Countdown, threadVars, timeVars
<1> QED
  BY <1>1, <1>2, Split, Zenon DEF KbdAcquire, KbdRelease, KbdReturn, vars

-----------------------------------------------------------------------------
(* The keyboard                                                            *)

\* A byte more on the line.
LEMMA AppendLinked ==
  ASSUME NEW l \in Seq(Bytes), NEW d, NEW code, NEW w, Linked(l, d),
         Fits(Printed(End(l, d), code), w), Byte(End(l, d), code, w) \in Bytes
  PROVE  LET m == Append(l, Byte(End(l, d), code, w))
         IN  m \in Seq(Bytes) /\ Linked(m, d) /\ End(m, d) = After(End(l, d), code)
<1> DEFINE s == End(l, d)
           b == Byte(s, code, w)
           m == Append(l, b)
<1>b. b.before = s /\ b.code = code /\ b.want = w
  BY Zenon DEF Byte
<1>s. l = <<>> => s = d
  BY Zenon DEF End
<1>f. Fits(Printed(s, code), w)
  BY Zenon
<1>e. l # <<>> => s = After(l[Len(l)].before, l[Len(l)].code)
  BY Zenon DEF End
<1> HIDE DEF s, b
<1>1. /\ m \in Seq(Bytes) /\ m # <<>> /\ Len(m) = Len(l) + 1 /\ m[Len(l) + 1] = b
      /\ \A i \in 1 .. Len(l) : m[i] = l[i]
  BY DEF s, b
<1> HIDE DEF m
<1>2. End(m, d) = After(s, code)
  BY <1>1, <1>b, Zenon DEF End
<1>3. m[1].before = d
  BY <1>1, <1>b, <1>s DEF Linked
<1>4. ASSUME NEW i \in 1 .. Len(m) - 1 PROVE m[i + 1].before = After(m[i].before, m[i].code)
  <2>1. CASE i = Len(l)
    BY <1>1, <1>b, <1>e, <2>1
  <2>2. CASE i # Len(l)
    BY <1>1, <2>2 DEF Linked
  <2> QED BY <2>1, <2>2, Zenon
<1>5. ASSUME NEW i \in 1 .. Len(m) PROVE Fits(Printed(m[i].before, m[i].code), m[i].want)
  <2>1. CASE i = Len(l) + 1
    BY <1>1, <1>b, <1>f, <2>1, Zenon
  <2>2. CASE i # Len(l) + 1
    BY <1>1, <2>2 DEF Linked
  <2> QED BY <2>1, <2>2, Zenon
<1> QED BY <1>1, <1>2, <1>3, <1>4, <1>5, Zenon DEF Linked, m, b, s

\* A byte less.
LEMMA TailLinked ==
  ASSUME NEW l \in Seq(Bytes), NEW d, l # <<>>, Linked(l, d)
  PROVE  /\ Linked(Tail(l), After(d, Head(l).code))
         /\ End(Tail(l), After(d, Head(l).code)) = End(l, d)
<1> DEFINE t == Tail(l)
<1>1. /\ t \in Seq(Bytes) /\ Len(t) = Len(l) - 1 /\ Head(l) = l[1] /\ Len(l) >= 1
      /\ \A i \in 1 .. Len(t) : t[i] = l[i + 1]
  OBVIOUS
<1>2. l[1].before = d
  BY Zenon DEF Linked
<1> HIDE DEF t
<1>3. t # <<>> => Len(t) >= 1
  BY <1>1
<1>4. t = <<>> => Len(l) = 1
  BY <1>1
<1>5. t # <<>> => t[1].before = After(d, Head(l).code)
  BY <1>1, <1>2, <1>3 DEF Linked
<1>6. ASSUME NEW i \in 1 .. Len(t) - 1 PROVE t[i + 1].before = After(t[i].before, t[i].code)
  BY <1>1, SMTT(30) DEF Linked
<1>7. ASSUME NEW i \in 1 .. Len(t) PROVE Fits(Printed(t[i].before, t[i].code), t[i].want)
  BY <1>1 DEF Linked
<1>8. End(t, After(d, Head(l).code)) = End(l, d)
  <2>1. CASE t = <<>>
    BY <1>1, <1>2, <1>4, <2>1, Zenon DEF End
  <2>2. CASE t # <<>>
    BY <1>1, <1>3, <2>2 DEF End
  <2> QED BY <2>1, <2>2, Zenon
<1> QED BY <1>5, <1>6, <1>7, <1>8, Zenon DEF Linked, t

LEMMA MeantEnd == Meant = End(line, Driver)
  BY Zenon DEF Meant, End, Last

\* What the driver prints for a key that goes down, or nothing, fits.
LEMMA NothingFits == Fits(NoChar, NoWant)
  BY Zenon DEF Fits, NoChar, NoWant

LEMMA CaseFits ==
  ASSUME NEW k, NEW u, NEW v, u \in v
  PROVE  Fits([key |-> k, upper |-> u], [key |-> k, upper |-> v])
  BY Zenon DEF Fits

LEMMA KeyFits ==
  ASSUME NEW s, s.rel = FALSE, ~muddled => s = Settled, NEW k
  PROVE  Fits(Printed(s, k), Means(k))
<1>1. CASE k \in Letters
  <2> DEFINE u == s.caps \/ s.shift
             v == IF muddled THEN BOOLEAN ELSE {caps \/ "Shift" \in down}
  <2>1. Printed(s, k) = [key |-> k, upper |-> u]
    BY <1>1, Zenon DEF Printed
  <2>2. Means(k) = [key |-> k, upper |-> v]
    BY <1>1, Zenon DEF Means
  <2>3. CASE muddled
    <3>1. u \in BOOLEAN
      BY Zenon
    <3>2. u \in v
      BY <2>3, <3>1, Zenon
    <3> HIDE DEF u, v
    <3> QED BY <2>1, <2>2, <3>2, CaseFits, Zenon
  <2>4. CASE ~muddled
    <3>0. s = [rel |-> FALSE, shift |-> "Shift" \in down, caps |-> caps]
      BY <2>4, Zenon DEF Settled
    <3>1. s.shift = ("Shift" \in down) /\ s.caps = caps
      BY <3>0, Zenon
    <3>2. u = (caps \/ "Shift" \in down)
      BY <3>1, Zenon
    <3>3. u \in v
      BY <2>4, <3>2, Zenon
    <3> HIDE DEF u, v
    <3> QED BY <2>1, <2>2, <3>3, CaseFits, Zenon
  <2> QED BY <2>3, <2>4, Zenon
<1>2. CASE k \notin Letters
  BY <1>2, NothingFits, Zenon DEF Printed, Means
<1> QED BY <1>1, <1>2, Zenon

\* A key that goes down, one that is sent again and one that comes up leave the
\* driver where the keys that are down and caps lock say.
LEMMA PressSettles ==
  ASSUME NEW k \in Keys, k \notin down, down' = down \cup {k},
         caps \in BOOLEAN, caps' = (IF k = "Caps" THEN ~caps ELSE caps)
  PROVE  After(Settled, k) = Settled'
<1> DEFINE sh == "Shift" \in down
<1>1. k # "F0"
  BY ConsoleAssumption, Zenon DEF Keys
<1>2. (k = "F0") = FALSE
  BY <1>1, Zenon
<1>3. (IF k = "Shift" THEN ~sh ELSE sh) = ("Shift" \in down')
  <2>1. CASE k = "Shift"
    <3>1. sh = FALSE /\ ("Shift" \in down') = TRUE
      BY <2>1
    <3> QED BY <2>1, <3>1, Zenon
  <2>2. CASE k # "Shift"
    <3>1. ("Shift" \in down') = sh
      BY <2>2
    <3> QED BY <2>2, <3>1, Zenon
  <2> QED BY <2>1, <2>2, Zenon
<1>4. (IF k = "Caps" /\ ~FALSE THEN ~caps ELSE caps) = caps'
  BY Zenon
<1>5. After(Settled, k) = [rel |-> k = "F0", shift |-> IF k = "Shift" THEN ~sh ELSE sh,
                           caps |-> IF k = "Caps" /\ ~FALSE THEN ~caps ELSE caps]
  BY Zenon DEF After, Settled
<1>6. Settled' = [rel |-> FALSE, shift |-> "Shift" \in down', caps |-> caps']
  BY Zenon DEF Settled
<1> QED BY <1>2, <1>3, <1>4, <1>5, <1>6, Zenon

LEMMA RepeatSettles ==
  ASSUME NEW k \in Letters
  PROVE  After(Settled, k) = Settled
<1>1. k \notin {"F0", "Shift", "Caps"}
  BY ConsoleAssumption, Zenon
<1>2. (k = "F0") = FALSE
  BY <1>1, Zenon
<1>3. After(Settled, k) = [rel |-> k = "F0", shift |-> "Shift" \in down, caps |-> caps]
  BY <1>1, Zenon DEF After, Settled
<1> QED BY <1>2, <1>3, Zenon DEF Settled

LEMMA LiftSettles ==
  ASSUME NEW k \in Keys, k \in down, down' = down \ {k}, caps' = caps
  PROVE  After(After(Settled, "F0"), k) = Settled'
<1> DEFINE sh == "Shift" \in down
<1>1. k # "F0"
  BY ConsoleAssumption, Zenon DEF Keys
<1>2. (k = "F0") = FALSE
  BY <1>1, Zenon
<1>3. (IF k = "Shift" THEN ~sh ELSE sh) = ("Shift" \in down')
  <2>1. CASE k = "Shift"
    <3>1. sh = TRUE /\ ("Shift" \in down') = FALSE
      BY <2>1
    <3> QED BY <2>1, <3>1, Zenon
  <2>2. CASE k # "Shift"
    <3>1. ("Shift" \in down') = sh
      BY <2>2
    <3> QED BY <2>2, <3>1, Zenon
  <2> QED BY <2>1, <2>2, Zenon
<1>4. After(Settled, "F0") = [rel |-> TRUE, shift |-> sh, caps |-> caps]
  BY Zenon DEF After, Settled
<1>5. After(After(Settled, "F0"), k) = [rel |-> k = "F0", shift |-> IF k = "Shift" THEN ~sh ELSE sh,
                                        caps |-> caps]
  BY <1>4, Zenon DEF After
<1>6. Settled' = [rel |-> FALSE, shift |-> "Shift" \in down', caps |-> caps']
  BY Zenon DEF Settled
<1> QED BY <1>2, <1>3, <1>5, <1>6, Zenon

LEMMA ChainInv == TypeOK /\ Chain /\ [Next]_vars => Chain'
<1> SUFFICES ASSUME TypeOK, Chain, [Next]_vars PROVE Chain'
  BY Zenon
<1> USE ConsoleAssumption
<1>0. /\ line \in Seq(Bytes) /\ Meant \in DriverState /\ Driver \in DriverState
      /\ Linked(line, Driver) /\ Meant.rel = FALSE /\ (~muddled => Meant = Settled)
      /\ Meant = End(line, Driver)
  BY MeantType, DriverType, MeantEnd, Zenon DEF TypeOK, Bytes, Chain
<1>m. Meant' = End(line', Driver')
  BY MeantEnd, Zenon DEF Meant, End, Last, Driver
<1>n. "F0" \in Codes /\ Keys \subseteq Codes
  BY Zenon DEF Codes
<1>r. ASSUME NEW s, NEW k \in Keys PROVE After(s, k).rel = FALSE
  BY Zenon DEF After, Keys
<1>1. CASE UNCHANGED <<driver, keyboard>>
  BY <1>1, Zenon DEF Chain, Linked, Settled, Meant, Last, Driver, driver, keyboard
<1>2. ASSUME NEW k \in Keys, Press(k) PROVE Chain'
  <2> DEFINE w == Means(k)
  <2>1. Fits(Printed(Meant, k), w)
    BY <1>0, KeyFits, Zenon
  <2>2. w \in Wants
    BY MeansType, Zenon
  <2>3. line' = Append(line, Byte(Meant, k, w)) /\ Driver' = Driver /\ muddled' = muddled
    BY <1>2, Zenon DEF Press, driver, Driver
  <2> HIDE DEF w
  <2>4. Byte(Meant, k, w) \in Bytes
    BY <1>0, <1>n, <2>2, ByteType, Zenon
  <2>5. Linked(line', Driver') /\ End(line', Driver') = After(Meant, k)
    BY <1>0, <2>1, <2>3, <2>4, AppendLinked
  <2>6. /\ k \notin down /\ down' = down \cup {k} /\ caps' = (IF k = "Caps" THEN ~caps ELSE caps)
    BY <1>2, Zenon DEF Press
  <2>7. caps \in BOOLEAN
    BY Zenon DEF TypeOK
  <2>8. After(Settled, k) = Settled'
    BY <2>6, <2>7, PressSettles, Zenon
  <2> QED BY <1>0, <1>m, <1>r, <2>3, <2>5, <2>8, Zenon DEF Chain
<1>3. ASSUME NEW k \in Keys, Repeat(k) PROVE Chain'
  <2> DEFINE w == Means(k)
  <2>1. Fits(Printed(Meant, k), w)
    BY <1>0, KeyFits, Zenon
  <2>2. w \in Wants
    BY MeansType, Zenon
  <2>3. /\ line' = Append(line, Byte(Meant, k, w)) /\ Driver' = Driver /\ Settled' = Settled
        /\ (~muddled' => ~muddled /\ k \in Letters)
    BY <1>3, Zenon DEF Repeat, driver, Driver, Settled
  <2> HIDE DEF w
  <2>4. Byte(Meant, k, w) \in Bytes
    BY <1>0, <1>n, <2>2, ByteType, Zenon
  <2>5. Linked(line', Driver') /\ End(line', Driver') = After(Meant, k)
    BY <1>0, <2>1, <2>3, <2>4, AppendLinked
  <2> QED BY <1>0, <1>m, <1>r, <2>3, <2>5, RepeatSettles, Zenon DEF Chain
<1>4. ASSUME NEW k \in Keys, Lift(k) PROVE Chain'
  <2> DEFINE a == Byte(Meant, "F0", NoWant)
             s == After(Meant, "F0")
             b == Byte(s, k, NoWant)
  <2>1. a \in Bytes /\ b \in Bytes /\ s \in DriverState
    BY <1>0, <1>n, AfterType, ByteType, NoWantType, Zenon
  <2>2. line' = line \o <<a, b>> /\ Driver' = Driver
    BY <1>4, Zenon DEF Lift, driver, Driver
  <2>3. Fits(Printed(Meant, "F0"), NoWant)
    BY NothingFits, Zenon DEF Printed
  <2>4. Fits(Printed(s, k), NoWant)
    BY NothingFits, Zenon DEF Printed, After
  <2> HIDE DEF s
  <2>5. a = Byte(End(line, Driver), "F0", NoWant) /\ Fits(Printed(End(line, Driver), "F0"), NoWant)
    BY <1>0, <2>3, Zenon
  <2> HIDE DEF a
  <2> DEFINE m == Append(line, a)
  <2>6. m \in Seq(Bytes) /\ Linked(m, Driver) /\ End(m, Driver) = s
    BY <1>0, <2>1, <2>5, AppendLinked DEF s
  <2>7. b = Byte(End(m, Driver), k, NoWant) /\ Fits(Printed(End(m, Driver), k), NoWant)
    BY <2>4, <2>6, Zenon
  <2> HIDE DEF b
  <2>8. line' = Append(m, b)
    BY <1>0, <2>1, <2>2
  <2> HIDE DEF m
  <2>9. Linked(line', Driver') /\ End(line', Driver') = After(s, k)
    <3>1. Linked(Append(m, b), Driver) /\ End(Append(m, b), Driver) = After(s, k)
      BY <2>1, <2>6, <2>7, AppendLinked
    <3> QED BY <2>2, <2>8, <3>1, Zenon
  <2>10. k \in down /\ down' = down \ {k} /\ caps' = caps /\ muddled' = muddled
    BY <1>4, Zenon DEF Lift
  <2> QED BY <1>0, <1>m, <1>r, <2>9, <2>10, LiftSettles, Zenon DEF Chain, s
<1>5. CASE KbdPress
  <2> DEFINE s == After(Driver, Head(line).code)
  <2>1. line # <<>> /\ line' = Tail(line) /\ UNCHANGED <<down, caps, muddled>>
    BY <1>5, Zenon DEF KbdPress
  <2>2. key_release' = s.rel /\ flags' = [shift |-> s.shift, caps |-> s.caps]
    BY <1>5, Zenon DEF KbdPress
  <2>3. s \in DriverState
    BY <1>0, AfterType, Zenon
  <2> HIDE DEF s
  <2>4. Driver' = s
    BY <2>2, <2>3, Zenon DEF Driver, DriverState
  <2>5. Linked(line', Driver') /\ End(line', Driver') = Meant
    BY <1>0, <2>1, <2>4, TailLinked, Zenon DEF s
  <2> QED BY <1>0, <1>m, <2>1, <2>5, Zenon DEF Chain, Settled
<1>6. ThreadStep /\ UNCHANGED <<irq, ch, driver, keyboard, want>> => Chain'
  BY <1>1, Zenon
<1>7. KbdAcquire \/ KbdRelease \/ KbdReturn \/ UNCHANGED vars => UNCHANGED <<driver, keyboard>>
  BY Zenon DEF KbdAcquire, KbdRelease, KbdReturn, vars
<1> QED
  BY <1>1, <1>2, <1>3, <1>4, <1>5, <1>6, <1>7, Split, Zenon DEF KeyStep

\* The handler prints what the byte it has read was meant to print.
LEMMA EchoInv == TypeOK /\ Chain /\ Echo /\ [Next]_vars => Echo'
<1> SUFFICES ASSUME TypeOK, Chain, Echo, [Next]_vars PROVE Echo'
  BY Zenon
<1> USE ConsoleAssumption
<1>1. CASE UNCHANGED <<irq, ch, want>>
  BY <1>1, Zenon DEF Echo
<1>2. CASE KbdPress
  <2> DEFINE code == Head(line).code
  <2>1. line \in Seq(Bytes) /\ line # <<>>
    BY <1>2, Zenon DEF TypeOK, Bytes, KbdPress
  <2>2. Fits(Printed(Driver, code), Head(line).want)
    BY <2>1 DEF Chain, Linked
  <2>3. want' = Head(line).want /\ Fits(Printed(Driver, code), want')
    BY <1>2, <2>2, Zenon DEF KbdPress
  <2>4. Driver.rel = key_release /\ Driver.caps = flags.caps /\ Driver.shift = flags.shift
    BY Zenon DEF Driver
  <2>5. CASE code \in Letters /\ ~Driver.rel
    <3>1. irq' = "acq" /\ ch' = [key |-> code, upper |-> flags.caps \/ flags.shift]
      BY <1>2, <2>5, Zenon DEF KbdPress, Released
    <3>2. Printed(Driver, code) = [key |-> code, upper |-> flags.caps \/ flags.shift]
      BY <2>4, <2>5, Zenon DEF Printed
    <3> QED BY <2>3, <3>1, <3>2, Zenon DEF Echo
  <2>6. CASE ~(code \in Letters /\ ~Driver.rel)
    <3>1. irq' = "eoi"
      BY <1>2, <2>6, Zenon DEF KbdPress, Released
    <3>2. Fits(NoChar, want')
      BY <2>3, <2>6, Zenon DEF Printed
    <3> QED BY <3>1, <3>2, Zenon DEF Echo
  <2> QED BY <2>5, <2>6, Zenon
<1>3. CASE KbdAcquire
  BY <1>3, Zenon DEF KbdAcquire, Echo
<1>4. CASE KbdRelease
  BY <1>4, NothingFits, Zenon DEF KbdRelease, Echo
<1>5. CASE KbdReturn
  BY <1>5, Zenon DEF KbdReturn, Echo
<1>6. KeyStep /\ ~KbdPress => UNCHANGED <<irq, ch, want>>
  BY Zenon DEF KeyStep, Press, Repeat, Lift
<1> QED
  BY <1>1, <1>2, <1>3, <1>4, <1>5, <1>6, Split, Zenon DEF vars

-----------------------------------------------------------------------------
(* The theorems                                                            *)

\* The types hold in every state.
THEOREM TypeCorrect == Spec => []TypeOK
<1>1. Init => TypeOK
  BY ConsoleAssumption DEF Init, TypeOK, Unlocked
<1> QED BY <1>1, TypeInv, PTL DEF Spec

\* The terminal has one writer at a time, for any number of CPUs, and no path of
\* print(), sleep() or print_char() loses the lock.
THEOREM TerminalHasOneWriter == Spec => []OneWriter
<1>1. Init => OneWriter
  BY DEF Init, OneWriter, Locked, Unlocked
<1> QED BY <1>1, WriterInv, TypeCorrect, PTL DEF Spec

\* sleep(n) returns after exactly n ticks, for every width of the counter and
\* every n it can hold, when its loop sees every value of the counter.
THEOREM SleepCountsTicks ==
  ASSUME Prompt
  PROVE  Spec => []SleepExact
<1>1. Init => Countdown
  BY ConsoleAssumption, Zenon DEF Init, Countdown, Sleep
<1>2. Countdown => SleepExact
  BY Zenon DEF Countdown, SleepExact
<1> QED BY <1>1, <1>2, CountdownInv, TypeCorrect, PTL DEF Spec

\* kbd_press() prints what was meant when the byte was sent, for every set of
\* letters and however many bytes the handler is behind the keyboard; the case
\* of a letter is right until a held shift or caps lock key is sent again.
THEOREM KeysEcho == Spec => []Echo
<1>1. ASSUME Init PROVE Chain /\ Echo
  <2>1. Linked(line, Driver) /\ Echo
    BY <1>1 DEF Init, Linked, Echo
  <2>2. Meant = [rel |-> FALSE, shift |-> FALSE, caps |-> FALSE]
    BY <1>1, Zenon DEF Init, Meant, Driver
  <2>3. ("Shift" \in down) = FALSE /\ caps = FALSE
    BY <1>1 DEF Init
  <2>4. Settled = [rel |-> FALSE, shift |-> FALSE, caps |-> FALSE]
    BY <2>3, Zenon DEF Settled
  <2>5. Meant.rel = FALSE
    BY <2>2, Zenon
  <2> QED BY <2>1, <2>2, <2>4, <2>5, Zenon DEF Chain
<1> QED BY <1>1, ChainInv, EchoInv, TypeCorrect, PTL DEF Spec

=============================================================================

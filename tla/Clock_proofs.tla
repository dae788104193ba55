---------------------------- MODULE Clock_proofs ----------------------------
(***************************************************************************)
(* Proofs about the clock: for every quantum, width of the registers,      *)
(* divisor, measured count and set of requested frequencies, on machines   *)
(* with and without a PIC.                                                 *)
(***************************************************************************)
EXTENDS Clock, TLAPS

Labels == {"irq_init", "keyboard_init", "idle", "sleep", "measure", "set_freq", "set_mode",
           "start", "mask", "register", "unmask", "flag", "restore", "clear"}

\* Nothing returns to the code of the boot, and the handlers are those of two lines.
Control ==
    /\ pc \in Labels
    /\ ret \in {"idle", "measure"}
    /\ g_irq_handler \in [Lines -> {"NULL", "clkhandler", "clkhandler_two", "kbhandler"}]

\* Between apic_timer_init's first and last division the divisor is set, and the
\* frequency it divides by is not zero.
Measured ==
    /\ pc = "measure" \/ (pc = "sleep" /\ ret = "measure") => divisor = DIVISOR
    /\ pc = "set_freq" => divisor = DIVISOR /\ base_frequency # 0

\* Before irq_init the boot has started no timer and no keyboard.
Untouched == pc = "irq_init" => apic.masked /\ g_irq_handler[1] = "NULL"

\* The line of the PIT is masked before the APIC timer is unmasked, and nothing opens
\* it again, not even the restore of apic_timer_stop.
PitMasked ==
    pic_present /\ (~apic.masked \/ pc \in {"register", "unmask"}) => 0 \in imr

IInv ==
    /\ TypeOK
    /\ Control
    /\ Measured
    /\ Untouched
    /\ MaskCacheExact
    /\ PitMasked
    /\ KeyboardStaysOpen

\* The wraps of the registers stay below their width.
LEMMA ModRange ==
    ASSUME NEW a \in Int, NEW n \in Nat \ {0}
    PROVE  a % n \in 0..n-1
  OBVIOUS

\* apic_timer_set_freq does not divide by zero.
LEMMA ProductPositive ==
    ASSUME NEW a \in Nat \ {0}, NEW b \in Nat \ {0}
    PROVE  a * b \in Nat \ {0}
  OBVIOUS

\* The count that apic_timer_set_freq writes fits the register.
LEMMA CountRange ==
    ASSUME NEW b \in Nat, NEW f \in Nat \ {0}, NEW d \in Nat \ {0}
    PROVE  (b \div (f * d)) % WORD \in 0..WORD-1
<1>1. f * d \in Nat \ {0}
  BY ProductPositive
<1>2. b \div (f * d) \in Int
  BY <1>1
<1>. QED  BY <1>2, ModRange, ClockAssumption

\* The boot loader has left everything masked.
LEMMA InitIInv == Init => IInv
<1>. SUFFICES ASSUME Init PROVE IInv
  OBVIOUS
<1>1. TypeOK
  <2>1. apic \in [masked : BOOLEAN, periodic : BOOLEAN, count : 0..WORD-1,
                  pending : BOOLEAN, in_service : BOOLEAN]
    BY ClockAssumption DEF Init
  <2>2. pic_present \in BOOLEAN
    BY ClockAssumption DEF Init
  <2>3. {imr, irr, g_pic_mask} \subseteq SUBSET Lines
    BY DEF Init
  <2>4. {interrupt_flag, pic_present, obf, apic_timer_enabled} \subseteq BOOLEAN
    BY <2>2 DEF Init
  <2>5. /\ g_irq_handler[0] \in {"NULL", "clkhandler", "clkhandler_two"}
        /\ g_irq_handler[1] \in {"NULL", "kbhandler"}
    BY DEF Init, Lines
  <2>6. /\ left \in 0..MaxSleep /\ system_time \in 0..TIME_WORD-1
        /\ preempt_quantum \in 1..QUANTUM /\ base_frequency \in 0..WORD-1
        /\ divisor \in {0, DIVISOR}
    BY ClockAssumption DEF Init
  <2>. QED  BY <2>1, <2>3, <2>4, <2>5, <2>6 DEF TypeOK
<1>2. Control /\ Measured /\ Untouched
  BY DEF Init, Control, Measured, Untouched, Labels, Lines
<1>3. MaskCacheExact /\ PitMasked /\ KeyboardStaysOpen
  BY DEF Init, MaskCacheExact, PitMasked, KeyboardStaysOpen, Lines
<1>. QED  BY <1>1, <1>2, <1>3 DEF IInv

\* Either handler counts time, quantum and sleep in their ranges.
LEMMA CountTickType ==
    ASSUME TypeOK, CountTick
    PROVE  /\ left' \in 0..MaxSleep
           /\ system_time' \in 0..TIME_WORD-1
           /\ preempt_quantum' \in 1..QUANTUM
<1>1. system_time' \in 0..TIME_WORD-1
  <2>1. system_time + 1 \in Int
    BY ClockAssumption DEF TypeOK
  <2>. QED  BY <2>1, ModRange, ClockAssumption DEF CountTick
<1>. QED  BY <1>1, ClockAssumption DEF TypeOK, CountTick

\* A handler acknowledges, reads or counts: it changes no mask and no handler.
LEMMA DeliverIInv == ASSUME IInv, Deliver PROVE IInv'
<1>1. CASE PitInterrupt
  <2>1. TypeOK'
    BY <1>1, CountTickType DEF IInv, PitInterrupt, TypeOK, EndOfInterrupt, tmr
  <2>. QED  BY <1>1, <2>1 DEF IInv, PitInterrupt, Control, Measured, Untouched, MaskCacheExact,
              PitMasked, KeyboardStaysOpen, tmr
<1>2. CASE KeyboardInterrupt
  <2>1. TypeOK'
    BY <1>2 DEF IInv, KeyboardInterrupt, TypeOK, cpu, tick, tmr
  <2>. QED  BY <1>2, <2>1 DEF IInv, KeyboardInterrupt, Control, Measured, Untouched,
              MaskCacheExact, PitMasked, KeyboardStaysOpen, cpu, tick, tmr
<1>3. CASE ApicInterrupt
  <2>1. TypeOK'
    BY <1>3, CountTickType DEF IInv, ApicInterrupt, TypeOK, EndOfInterrupt, pic, tmr
  <2>. QED  BY <1>3, <2>1 DEF IInv, ApicInterrupt, Control, Measured, Untouched, MaskCacheExact,
              PitMasked, KeyboardStaysOpen, pic, tmr
<1>. QED  BY <1>1, <1>2, <1>3 DEF Deliver

\* A tick or a key only waits to be delivered.
LEMMA DeviceIInv == ASSUME IInv, PitTick \/ Key \/ ApicTick PROVE IInv'
<1>1. CASE PitTick
  <2>1. TypeOK'
    BY <1>1 DEF IInv, PitTick, TypeOK, Lines, cpu, tick, tmr
  <2>. QED  BY <1>1, <2>1 DEF IInv, PitTick, Control, Measured, Untouched, MaskCacheExact,
              PitMasked, KeyboardStaysOpen, cpu, tick, tmr
<1>2. CASE Key
  <2>1. TypeOK'
    BY <1>2 DEF IInv, Key, TypeOK, Lines, cpu, tick, tmr
  <2>. QED  BY <1>2, <2>1 DEF IInv, Key, Control, Measured, Untouched, MaskCacheExact,
              PitMasked, KeyboardStaysOpen, cpu, tick, tmr
<1>3. CASE ApicTick
  <2>1. TypeOK'
    BY <1>3 DEF IInv, ApicTick, TypeOK, cpu, pic, tick, tmr
  <2>. QED  BY <1>3, <2>1 DEF IInv, ApicTick, Control, Measured, Untouched, MaskCacheExact,
              PitMasked, KeyboardStaysOpen, cpu, pic, tick, tmr
<1>. QED  BY <1>1, <1>2, <1>3

\* Steps of the boot: irq_init and keyboard_init, which alone open lines.
LEMMA BootIInv == ASSUME IInv, IrqInit \/ KeyboardInit PROVE IInv'
<1>1. CASE IrqInit
  <2>1. TypeOK'
    <3>1. /\ g_irq_handler'[0] \in {"NULL", "clkhandler", "clkhandler_two"}
          /\ g_irq_handler'[1] \in {"NULL", "kbhandler"}
      BY <1>1 DEF IInv, IrqInit, TypeOK, Control, Lines
    <3>2. {imr', irr', g_pic_mask'} \subseteq SUBSET Lines
      BY <1>1 DEF IInv, IrqInit, TypeOK, Lines
    <3>3. interrupt_flag' \in BOOLEAN
      BY <1>1 DEF IrqInit
    <3>. QED  BY <1>1, <3>1, <3>2, <3>3 DEF IInv, IrqInit, Goto, TypeOK, tick, tmr
  <2>0. Control'
    BY <1>1 DEF IInv, IrqInit, Goto, Control, Labels, Lines
  <2>2. Measured' /\ Untouched' /\ MaskCacheExact' /\ PitMasked' /\ KeyboardStaysOpen'
    BY <1>1 DEF IInv, IrqInit, At, Goto, TypeOK, Control, Measured, Untouched, MaskCacheExact,
         PitMasked, KeyboardStaysOpen, Lines, tick, tmr
  <2>. QED  BY <2>0, <2>1, <2>2 DEF IInv
<1>2. CASE KeyboardInit
  <2>1. TypeOK' /\ Control'
    BY <1>2 DEF IInv, KeyboardInit, At, Goto, TypeOK, Control, Labels, Lines, pic_unmask,
         pic_set_mask, tick, tmr
  <2>2. Measured' /\ Untouched' /\ MaskCacheExact' /\ PitMasked' /\ KeyboardStaysOpen'
    BY <1>2 DEF IInv, KeyboardInit, At, Goto, TypeOK, Control, Measured, Untouched,
         MaskCacheExact, PitMasked, KeyboardStaysOpen, Lines, pic_unmask, pic_set_mask,
         tick, tmr
  <2>. QED  BY <2>1, <2>2 DEF IInv
<1>. QED  BY <1>1, <1>2

\* Steps of a sleep, of a caller or of apic_timer_init.
LEMMA SleepIInv ==
    ASSUME IInv,
           \/ Wake
           \/ \E offset \in 1..MaxSleep : CallSleep(offset)
           \/ divisor = 0 /\ TimerEnable
    PROVE  IInv'
<1>1. CASE Wake
  <2>1. TypeOK' /\ Control'
    BY <1>1 DEF IInv, Wake, At, TypeOK, Control, Labels, pic, tick, tmr
  <2>. QED  BY <1>1, <2>1 DEF IInv, Wake, At, Control, Measured, Untouched, MaskCacheExact,
              PitMasked, KeyboardStaysOpen, pic, tick, tmr
<1>2. CASE \E offset \in 1..MaxSleep : CallSleep(offset)
  <2>1. PICK offset \in 1..MaxSleep : CallSleep(offset)
    BY <1>2
  <2>2. TypeOK' /\ Control'
    BY <2>1, ClockAssumption
    DEF IInv, CallSleep, BeginSleep, At, TypeOK, Control, Labels, pic, tick, tmr
  <2>. QED  BY <2>1, <2>2 DEF IInv, CallSleep, BeginSleep, At, Control, Measured, Untouched,
              MaskCacheExact, PitMasked, KeyboardStaysOpen, pic, tick, tmr
<1>3. CASE TimerEnable
  <2>0. /\ apic' \in [masked : BOOLEAN, periodic : BOOLEAN, count : 0..WORD-1,
                      pending : BOOLEAN, in_service : BOOLEAN]
        /\ divisor' \in {0, DIVISOR} /\ left' \in 0..MaxSleep
    <3>1. WORD - 1 \in 0..WORD-1 /\ 1 \in 0..MaxSleep
      BY ClockAssumption
    <3>. QED  BY <1>3, <3>1 DEF IInv, TimerEnable, apic_timer_enable, BeginSleep, TypeOK
  <2>1. TypeOK' /\ Control'
    BY <1>3, <2>0
    DEF IInv, TimerEnable, BeginSleep, At, TypeOK, Control, Labels, pic, tick
  <2>2. apic'.masked = TRUE
    BY <1>3 DEF IInv, TypeOK, TimerEnable, apic_timer_enable
  <2>. QED  BY <1>3, <2>1, <2>2 DEF IInv, TimerEnable, BeginSleep, At, Control, Measured,
              Untouched, MaskCacheExact, PitMasked, KeyboardStaysOpen, pic, tick
<1>. QED  BY <1>1, <1>2, <1>3

\* Steps of apic_timer_init, and of callers, that compute frequencies and counts.
LEMMA FrequencyIInv ==
    ASSUME IInv,
           \/ Measure \/ SetBaseFreq \/ SetPeriodic
           \/ \E freq \in Freqs : CallSetFreq(freq)
    PROVE  IInv'
<1>1. CASE Measure
  <2>1. PICK e \in Elapsed : base_frequency' = (e * 2 * divisor) % WORD
    BY <1>1 DEF Measure
  <2>2. divisor = DIVISOR
    BY <1>1 DEF IInv, Measured, Measure, At
  <2>3. base_frequency' \in 0..WORD-1 /\ base_frequency' # 0
    <3>1. e \in Nat /\ e * 2 * DIVISOR \in Int
      BY ClockAssumption
    <3>2. (e * 2 * DIVISOR) % WORD \in 0..WORD-1
      BY <3>1, ModRange, ClockAssumption
    <3>. QED  BY <2>1, <2>2, <3>2, ClockAssumption
  <2>4. TypeOK' /\ Control'
    BY <1>1, <2>3 DEF IInv, Measure, Goto, At, TypeOK, Control, Labels, pic, tick
  <2>. QED  BY <1>1, <2>2, <2>3, <2>4 DEF IInv, Measure, Goto, At, Control, Measured, Untouched,
              MaskCacheExact, PitMasked, KeyboardStaysOpen, pic, tick
<1>2. CASE SetBaseFreq
  <2>1. base_frequency \in Nat \ {0} /\ divisor \in Nat \ {0}
    BY <1>2, ClockAssumption DEF IInv, TypeOK, Measured, SetBaseFreq, At
  <2>2. (base_frequency \div (base_frequency * divisor)) % WORD \in 0..WORD-1
    BY <2>1, CountRange
  <2>3. TypeOK' /\ Control' /\ apic'.masked = apic.masked
    BY <1>2, <2>2
    DEF IInv, SetBaseFreq, apic_timer_set_freq, Goto, At, TypeOK, Control, Labels, pic, tick, tmr
  <2>. QED  BY <1>2, <2>3 DEF IInv, SetBaseFreq, Goto, At, Control, Measured, Untouched,
              MaskCacheExact, PitMasked, KeyboardStaysOpen, pic, tick, tmr
<1>3. CASE SetPeriodic
  <2>1. TypeOK' /\ Control' /\ apic'.masked = apic.masked
    BY <1>3 DEF IInv, SetPeriodic, Goto, At, TypeOK, Control, Labels, pic, tick, tmr
  <2>. QED  BY <1>3, <2>1 DEF IInv, SetPeriodic, Goto, At, Control, Measured, Untouched,
              MaskCacheExact, PitMasked, KeyboardStaysOpen, pic, tick, tmr
<1>4. CASE \E freq \in Freqs : CallSetFreq(freq)
  <2>1. PICK freq \in Freqs : CallSetFreq(freq)
    BY <1>4
  <2>2. base_frequency \in Nat /\ freq \in Nat \ {0} /\ divisor \in Nat \ {0}
    BY <2>1, ClockAssumption DEF IInv, TypeOK, CallSetFreq
  <2>3. (base_frequency \div (freq * divisor)) % WORD \in 0..WORD-1
    BY <2>2, CountRange
  <2>4. TypeOK' /\ Control' /\ apic'.masked = apic.masked
    BY <2>1, <2>3
    DEF IInv, CallSetFreq, apic_timer_set_freq, At, TypeOK, Control, Labels, cpu, pic, tick, tmr
  <2>. QED  BY <2>1, <2>4 DEF IInv, CallSetFreq, At, Control, Measured, Untouched,
              MaskCacheExact, PitMasked, KeyboardStaysOpen, cpu, pic, tick, tmr
<1>. QED  BY <1>1, <1>2, <1>3, <1>4

\* Steps of apic_timer_start: the line of the PIT is masked first.
LEMMA StartIInv ==
    ASSUME IInv, StartSave \/ StartMask \/ StartRegister \/ StartUnmask \/ StartFlag \/ CallStart
    PROVE  IInv'
<1>1. CASE StartSave
  <2>1. g_pic_mask' \subseteq Lines /\ (pic_present => g_pic_mask' = imr)
    BY <1>1 DEF IInv, TypeOK, MaskCacheExact, StartSave, pic_save_mask, pic_get_mask
  <2>2. pc' = "mask" \/ (pc' = "register" /\ (pic_present => imr = Lines))
    BY <1>1 DEF StartSave, Goto, pic_get_mask
  <2>3. TypeOK' /\ Control'
    BY <1>1, <2>1, <2>2 DEF IInv, StartSave, Goto, TypeOK, Control, Labels, tick, tmr
  <2>. QED  BY <1>1, <2>1, <2>2, <2>3 DEF IInv, StartSave, Goto, Control, Measured, Untouched,
              MaskCacheExact, PitMasked, KeyboardStaysOpen, Lines, tick, tmr
<1>2. CASE StartMask
  <2>1. TypeOK' /\ Control'
    BY <1>2 DEF IInv, StartMask, pic_mask, pic_set_mask, Goto, TypeOK, Control, Labels, Lines,
         tick, tmr
  <2>. QED  BY <1>2, <2>1 DEF IInv, StartMask, pic_mask, pic_set_mask, Goto, TypeOK, Control,
              Measured, Untouched, MaskCacheExact, PitMasked, KeyboardStaysOpen, tick, tmr
<1>3. CASE StartRegister
  <2>1. TypeOK' /\ Control'
    BY <1>3 DEF IInv, StartRegister, Goto, TypeOK, Control, Labels, Lines, pic, tick, tmr
  <2>2. g_irq_handler'[1] = g_irq_handler[1]
    BY <1>3 DEF IInv, StartRegister, Control, Lines
  <2>. QED  BY <1>3, <2>1, <2>2 DEF IInv, StartRegister, At, Goto, Control, Measured, Untouched,
              MaskCacheExact, PitMasked, KeyboardStaysOpen, pic, tick, tmr
<1>4. CASE StartUnmask
  <2>1. TypeOK' /\ Control'
    BY <1>4 DEF IInv, StartUnmask, Goto, TypeOK, Control, Labels, pic, tick, tmr
  <2>. QED  BY <1>4, <2>1 DEF IInv, StartUnmask, At, Goto, Control, Measured, Untouched,
              MaskCacheExact, PitMasked, KeyboardStaysOpen, pic, tick, tmr
<1>5. CASE StartFlag
  <2>1. TypeOK' /\ Control'
    BY <1>5 DEF IInv, StartFlag, Goto, TypeOK, Control, Labels, pic, tick
  <2>. QED  BY <1>5, <2>1 DEF IInv, StartFlag, Goto, Control, Measured, Untouched,
              MaskCacheExact, PitMasked, KeyboardStaysOpen, pic, tick
<1>6. CASE CallStart
  <2>1. TypeOK' /\ Control'
    BY <1>6 DEF IInv, CallStart, Goto, TypeOK, Control, Labels, pic, tick, tmr
  <2>. QED  BY <1>6, <2>1 DEF IInv, CallStart, Goto, Control, Measured, Untouched,
              MaskCacheExact, PitMasked, KeyboardStaysOpen, pic, tick, tmr
<1>. QED  BY <1>1, <1>2, <1>3, <1>4, <1>5, <1>6

\* Steps of apic_timer_stop: what it restores is the mask of the hardware already.
LEMMA StopIInv == ASSUME IInv, StopMask \/ StopRestore \/ StopFlag PROVE IInv'
<1>1. CASE StopMask
  <2>1. TypeOK' /\ Control' /\ apic'.masked = TRUE
    BY <1>1 DEF IInv, StopMask, Goto, TypeOK, Control, Labels, pic, tick, tmr
  <2>. QED  BY <1>1, <2>1 DEF IInv, StopMask, Goto, Control, Measured, Untouched,
              MaskCacheExact, PitMasked, KeyboardStaysOpen, pic, tick, tmr
<1>2. CASE StopRestore
  <2>1. g_pic_mask' = g_pic_mask /\ imr' = imr
    BY <1>2 DEF IInv, MaskCacheExact, StopRestore, pic_restore_mask, pic_set_mask
  <2>2. TypeOK' /\ Control'
    BY <1>2, <2>1 DEF IInv, StopRestore, Goto, TypeOK, Control, Labels, tick, tmr
  <2>. QED  BY <1>2, <2>1, <2>2 DEF IInv, StopRestore, Goto, Control, Measured, Untouched,
              MaskCacheExact, PitMasked, KeyboardStaysOpen, tick, tmr
<1>3. CASE StopFlag
  <2>1. TypeOK' /\ Control'
    BY <1>3 DEF IInv, StopFlag, Goto, TypeOK, Control, Labels, pic, tick
  <2>. QED  BY <1>3, <2>1 DEF IInv, StopFlag, Goto, Control, Measured, Untouched,
              MaskCacheExact, PitMasked, KeyboardStaysOpen, pic, tick
<1>. QED  BY <1>1, <1>2, <1>3

\* Every step keeps the invariant.
LEMMA NextIInv == IInv /\ [Next]_vars => IInv'
<1>. SUFFICES ASSUME IInv, [Next]_vars PROVE IInv'
  OBVIOUS
<1>1. CASE Next
  BY <1>1, DeliverIInv, DeviceIInv, BootIInv, SleepIInv, FrequencyIInv, StartIInv, StopIInv
  DEF Next, Running, Calls
<1>2. CASE UNCHANGED vars
  <2>1. TypeOK' /\ Control'
    BY <1>2 DEF IInv, TypeOK, Control, vars, cpu, pic, tick, tmr
  <2>. QED  BY <1>2, <2>1 DEF IInv, Control, Measured, Untouched, MaskCacheExact, PitMasked,
              KeyboardStaysOpen, vars, cpu, pic, tick, tmr
<1>. QED  BY <1>1, <1>2

\* The invariant holds of every state of the clock, however it is scheduled.
LEMMA IInvAlways == Spec => []IInv
  BY InitIInv, NextIInv, PTL DEF Spec

\* Time, quantum and the counts of the timer stay in their registers, and
\* apic_timer_set_freq never divides by zero (clkhandler, clkhandler_two, apic.c).
THEOREM TypeCorrect == Spec => []TypeOK
<1>1. IInv => TypeOK
  BY DEF IInv
<1>. QED  BY <1>1, IInvAlways, PTL

\* g_pic_mask is the mask of the PICs after every pic_mask, pic_unmask, pic_save_mask
\* and pic_restore_mask.
THEOREM CacheExact == Spec => []MaskCacheExact
<1>1. IInv => MaskCacheExact
  BY DEF IInv
<1>. QED  BY <1>1, IInvAlways, PTL

\* apic_timer_start has closed the line of the PIT before its own timer can tick, and
\* apic_timer_stop, which restores the mask, does not open it behind a new start.
THEOREM NeverTwoClocks == Spec => []OneClock
<1>1. IInv => OneClock
  BY DEF IInv, PitMasked, OneClock
<1>. QED  BY <1>1, IInvAlways, PTL

\* No start or stop of the APIC timer closes the line that keyboard_init opened.
THEOREM KeyboardOpen == Spec => []KeyboardStaysOpen
<1>1. IInv => KeyboardStaysOpen
  BY DEF IInv
<1>. QED  BY <1>1, IInvAlways, PTL

-----------------------------------------------------------------------------
(* The end of interrupt of the APIC timer *)

\* While the timer runs, or one of its ticks waits, the handler is the one that can
\* acknowledge it, and does so once the flag is set.
WillAcknowledge ==
    ~apic.masked \/ (apic.pending /\ ~apic.in_service) =>
        g_irq_handler[0] = "clkhandler_two" /\ (apic_timer_enabled \/ pc = "flag")

\* Interrupts are on after keyboard_init, so that a tick that waits is delivered before
\* the next step; apic_timer_start registers its handler before it unmasks the timer, and
\* apic_timer_stop masks it before it clears the flag.
AckInv ==
    /\ WillAcknowledge
    /\ pc \notin {"irq_init", "keyboard_init"} => interrupt_flag
    /\ pc = "irq_init" => g_irq_handler[0] = "NULL"
    /\ pc = "unmask" => g_irq_handler[0] = "clkhandler_two"
    /\ pc \in {"restore", "clear"} => apic.masked

\* Every step keeps it.
LEMMA AckStep == ASSUME IInv, AckInv, [Next]_vars PROVE AckInv'
<1>. USE DEF IInv, TypeOK, AckInv, WillAcknowledge
<1>1. CASE PitInterrupt
  BY <1>1 DEF PitInterrupt, EndOfInterrupt, tmr
<1>2. CASE KeyboardInterrupt
  BY <1>2 DEF KeyboardInterrupt, cpu, tmr
<1>3. CASE ApicInterrupt
  BY <1>3 DEF ApicInterrupt, EndOfInterrupt, tmr
<1>4. CASE PitTick \/ Key
  BY <1>4 DEF PitTick, Key, cpu, tmr
<1>5. CASE ApicTick
  BY <1>5 DEF ApicTick, cpu, tmr
<1>6. CASE IrqInit
  BY <1>6 DEF IrqInit, At, Goto, tmr
<1>7. CASE KeyboardInit
  <2>1. g_irq_handler'[0] = g_irq_handler[0]
    BY <1>7 DEF KeyboardInit, Control, Lines
  <2>. QED  BY <1>7, <2>1 DEF KeyboardInit, At, Goto, tmr
<1>8. CASE Wake
  BY <1>8 DEF Wake, At, Control, tmr
<1>9. CASE \E offset \in 1..MaxSleep : CallSleep(offset)
  BY <1>9 DEF CallSleep, BeginSleep, At, tmr
<1>10. CASE TimerEnable
  <2>1. apic'.pending = apic.pending /\ apic'.in_service = apic.in_service /\ apic'.masked
    BY <1>10 DEF TimerEnable, apic_timer_enable
  <2>. QED  BY <1>10, <2>1 DEF TimerEnable, BeginSleep, At
<1>11. CASE Measure
  BY <1>11 DEF Measure, At, Goto
<1>12. CASE SetBaseFreq \/ SetPeriodic \/ \E freq \in Freqs : CallSetFreq(freq)
  <2>1. /\ apic'.pending = apic.pending /\ apic'.in_service = apic.in_service
        /\ apic'.masked = apic.masked
    BY <1>12 DEF SetBaseFreq, SetPeriodic, CallSetFreq, apic_timer_set_freq
  <2>. QED  BY <1>12, <2>1 DEF SetBaseFreq, SetPeriodic, CallSetFreq, At, Goto, cpu, tmr
<1>13. CASE StartSave \/ StartMask \/ CallStart
  BY <1>13 DEF StartSave, StartMask, CallStart, At, Goto, tmr
<1>14. CASE StartRegister
  BY <1>14 DEF StartRegister, Control, Lines, At, Goto, tmr
<1>15. CASE StartUnmask
  BY <1>15 DEF StartUnmask, At, Goto, tmr
<1>16. CASE StartFlag
  BY <1>16 DEF StartFlag, At, Goto
<1>17. CASE StopMask
  BY <1>17 DEF StopMask, At, Goto, tmr
<1>18. CASE StopRestore
  BY <1>18 DEF StopRestore, At, Goto, tmr
<1>19. CASE StopFlag
  <2>1. ~(apic.pending /\ ~apic.in_service)
    BY <1>19 DEF StopFlag, At, Quiet, ApicCanDeliver
  <2>. QED  BY <1>19, <2>1 DEF StopFlag, At, Goto
<1>20. CASE UNCHANGED vars
  BY <1>20 DEF vars, cpu, tmr
<1>. QED
  BY <1>1, <1>2, <1>3, <1>4, <1>5, <1>6, <1>7, <1>8, <1>9, <1>10, <1>11, <1>12, <1>13, <1>14,
     <1>15, <1>16, <1>17, <1>18, <1>19, <1>20 DEF Next, Deliver, Running, Calls

\* clkhandler_two sends the end of interrupt of every tick of the APIC timer, but of
\* one that comes before apic_timer_start has set apic_timer_enabled.
THEOREM TicksReachTheirEnd == Spec => TicksAcknowledged
<1>1. Init => AckInv
  BY DEF Init, AckInv, WillAcknowledge, Lines
<1>2. IInv /\ AckInv /\ [Next]_vars => AckInv'
  BY AckStep
<1>3. IInv /\ AckInv /\ [Next]_vars => [apic.in_service' /\ ~apic.in_service => pc = "flag"]_vars
  <2>. SUFFICES ASSUME IInv, AckInv, Next, apic.in_service', ~apic.in_service PROVE pc = "flag"
    OBVIOUS
  <2>1. CASE ApicInterrupt
    BY <2>1 DEF ApicInterrupt, ApicCanDeliver, EndOfInterrupt, IInv, TypeOK, AckInv, WillAcknowledge
  <2>2. CASE PitInterrupt
    BY <2>2 DEF PitInterrupt, EndOfInterrupt, IInv, TypeOK
  <2>3. CASE ~ApicInterrupt /\ ~PitInterrupt
    <3>1. apic'.in_service = apic.in_service
      BY <2>3
      DEF Next, Deliver, Running, Calls, KeyboardInterrupt, PitTick, Key, ApicTick, IrqInit,
          KeyboardInit, Wake, CallSleep, TimerEnable, apic_timer_enable, Measure, SetBaseFreq,
          SetPeriodic, CallSetFreq, apic_timer_set_freq, StartSave, StartMask, StartRegister,
          StartUnmask, StartFlag, StopMask, StopRestore, StopFlag, CallStart, IInv, TypeOK
    <3>. QED  BY <3>1
  <2>. QED  BY <2>1, <2>2, <2>3
<1>. QED  BY <1>1, <1>2, <1>3, IInvAlways, PTL DEF Spec, TicksAcknowledged

=============================================================================

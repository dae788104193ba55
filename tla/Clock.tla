--------------------------------- MODULE Clock ---------------------------------
(***************************************************************************)
(* The clock of the kernel: PIC and PIT (sys/tick/pic.c, pit.c), the tick  *)
(* handlers (clkhandler.c), irq_init, keyboard_init's use of the PIC, and  *)
(* the local APIC timer that can take the clock over (sys/acpi/apic.c).    *)
(*                                                                         *)
(* The main code runs step by step; an interrupt can come between any two  *)
(* steps while IF is set.  Handlers run to their end, IF being clear in    *)
(* them, and code between cli and sti is one step.  An interrupt that can  *)
(* be delivered is delivered before the next step of the main code.        *)
(*                                                                         *)
(* A mask is the set of the lines masked; only IRQ 0 (PIT) and IRQ 1       *)
(* (keyboard) are modelled, the others are masked at all times.  The PIC   *)
(* acknowledges by itself (g_auto_eoi).  ICW programming, port delays and  *)
(* log output are left out.                                                *)
(***************************************************************************)
EXTENDS Integers

CONSTANTS
    PicPresent,       \* whether the machine may have a PIC: a subset of BOOLEAN
    EARLY_KEYS,       \* whether a key may be pressed before keyboard_init
    QUANTUM,          \* ticks of a quantum
    TIME_WORD,        \* system_time wraps here (2^64)
    WORD,             \* modulus of a 32-bit register (2^32)
    DIVISOR,          \* divisor that apic_timer_init sets (4)
    Elapsed,          \* APIC ticks in one PIT tick, as the machine may show them
    Freqs,            \* frequencies that callers give apic_timer_set_freq
    MaxSleep          \* bound on the ticks a caller sleeps

VARIABLES
    pc,               \* the next step of the main code
    ret,              \* where system_timer_sleep returns to
    left,             \* ticks until start + offset, while sleeping
    interrupt_flag,   \* IF
    pic_present,
    imr,              \* mask registers of the PICs
    irr,              \* lines that wait in the PICs
    g_pic_mask,
    g_irq_handler,
    obf,              \* the keyboard controller has a byte to read
    system_time,
    preempt_quantum,
    apic,             \* LVT mask and mode, initial count, pending, in service
    apic_timer_enabled,
    base_frequency,
    divisor

cpu  == <<pc, ret, left>>
pic  == <<imr, irr, g_pic_mask>>
tick == <<system_time, preempt_quantum>>
tmr  == <<apic_timer_enabled, base_frequency, divisor>>
vars == <<cpu, interrupt_flag, pic_present, pic, g_irq_handler, obf, tick, apic, tmr>>

Lines == {0, 1}

ASSUME ClockAssumption ==
    /\ PicPresent \subseteq BOOLEAN
    /\ EARLY_KEYS \in BOOLEAN
    /\ QUANTUM \in 1..255
    /\ {TIME_WORD, WORD, DIVISOR, MaxSleep} \subseteq Nat \ {0}
    /\ \A e \in Elapsed : e \in Nat /\ (e * 2 * DIVISOR) % WORD # 0
    /\ Freqs \subseteq Nat \ {0}

-----------------------------------------------------------------------------
(* PIC *)

\* Mutant of pic_set_mask: the cached mask is not updated.
pic_set_mask_Uncached(mask) ==
    /\ g_pic_mask' = g_pic_mask
    /\ imr' = IF pic_present THEN mask ELSE imr

\* pic_set_mask: without a PIC the ports take nothing.
pic_set_mask(mask) ==
    /\ g_pic_mask' = mask
    /\ imr' = IF pic_present THEN mask ELSE imr

\* Mutants of pic_mask: every line is masked; the line is unmasked.
pic_mask_All(line) == pic_set_mask(Lines)

pic_mask_Unmasks(line) == pic_set_mask(g_pic_mask \ {line})

pic_mask(line) == pic_set_mask(g_pic_mask \cup {line})

pic_unmask(line) == pic_set_mask(g_pic_mask \ {line})

\* A machine without a PIC reads 0xFF from its ports.
pic_get_mask == IF pic_present THEN imr ELSE Lines

\* The mask register into the cache, and the cache into the mask register.
pic_save_mask == g_pic_mask' = pic_get_mask

pic_restore_mask == pic_set_mask(g_pic_mask)

-----------------------------------------------------------------------------
(* Handlers *)

\* Mutants of CountTick: the quantum is renewed one tick late; time stands still.
CountTick_LateQuantum ==
    /\ system_time' = (system_time + 1) % TIME_WORD
    /\ preempt_quantum' = IF preempt_quantum > 0 THEN preempt_quantum - 1 ELSE QUANTUM
    /\ left' = IF left > 0 THEN left - 1 ELSE 0

CountTick_NoTime ==
    /\ preempt_quantum' = IF preempt_quantum > 1 THEN preempt_quantum - 1 ELSE QUANTUM
    /\ UNCHANGED <<system_time, left>>

\* clkhandler, and what clkhandler_two does besides its end of interrupt.
CountTick ==
    /\ system_time' = (system_time + 1) % TIME_WORD
    /\ preempt_quantum' = IF preempt_quantum > 1 THEN preempt_quantum - 1 ELSE QUANTUM
    /\ left' = IF left > 0 THEN left - 1 ELSE 0

\* apic_send_end_of_interrupt, called by clkhandler_two only.
EndOfInterrupt(in_service) ==
    in_service /\ ~(g_irq_handler[0] = "clkhandler_two" /\ apic_timer_enabled)

PicCanDeliver(line) == interrupt_flag /\ line \in irr \ imr

ApicCanDeliver == interrupt_flag /\ apic.pending /\ ~apic.in_service

\* IRQ 0 of the PIC
PitInterrupt ==
    /\ PicCanDeliver(0)
    /\ irr' = irr \ {0}
    /\ CountTick
    /\ apic' = [apic EXCEPT !.in_service = EndOfInterrupt(@)]
    /\ UNCHANGED <<pc, ret, interrupt_flag, pic_present, imr, g_pic_mask, g_irq_handler, obf, tmr>>

\* Mutant of KeyboardInterrupt: the byte stays in the controller.
KeyboardInterrupt_Unread ==
    /\ PicCanDeliver(1)
    /\ irr' = irr \ {1}
    /\ UNCHANGED <<cpu, obf, interrupt_flag, pic_present, imr, g_pic_mask, g_irq_handler, tick, apic, tmr>>

\* IRQ 1: kbhandler reads the byte.
KeyboardInterrupt ==
    /\ PicCanDeliver(1)
    /\ irr' = irr \ {1}
    /\ obf' = FALSE
    /\ UNCHANGED <<cpu, interrupt_flag, pic_present, imr, g_pic_mask, g_irq_handler, tick, apic, tmr>>

\* The vector of the APIC timer is that of IRQ 0 (APIC_HW_INT_NUM).
ApicInterrupt ==
    /\ ApicCanDeliver
    /\ CountTick
    /\ apic' = [apic EXCEPT !.pending = FALSE, !.in_service = EndOfInterrupt(TRUE)]
    /\ UNCHANGED <<pc, ret, interrupt_flag, pic_present, pic, g_irq_handler, obf, tmr>>

Deliver == PitInterrupt \/ KeyboardInterrupt \/ ApicInterrupt

-----------------------------------------------------------------------------
(* Devices *)

\* The PIT's output rises; the line is latched even while it is masked.
PitTick ==
    /\ pc # "irq_init"
    /\ pic_present
    /\ irr' = irr \cup {0}
    /\ UNCHANGED <<cpu, interrupt_flag, pic_present, imr, g_pic_mask, g_irq_handler, obf, tick, apic, tmr>>

\* A key is pressed and the controller's buffer was empty.
Key ==
    /\ EARLY_KEYS \/ pc \notin {"irq_init", "keyboard_init"}
    /\ ~obf
    /\ obf' = TRUE
    /\ irr' = irr \cup {1}
    /\ UNCHANGED <<cpu, interrupt_flag, pic_present, imr, g_pic_mask, g_irq_handler, tick, apic, tmr>>

\* The APIC timer reaches zero; an initial count of 0 stops it.
ApicTick ==
    /\ ~apic.masked
    /\ apic.periodic
    /\ apic.count > 0
    /\ apic' = [apic EXCEPT !.pending = TRUE]
    /\ UNCHANGED <<cpu, interrupt_flag, pic_present, pic, g_irq_handler, obf, tick, tmr>>

-----------------------------------------------------------------------------
(* Main code *)

\* No interrupt is about to be delivered.
Quiet == ~ApicCanDeliver /\ \A line \in Lines : ~PicCanDeliver(line)

At(label) == pc = label /\ Quiet

Goto(label) == pc' = label /\ UNCHANGED <<ret, left>>

\* irq_init, between cli and sti.  pic_probe has masked nothing when it finds no
\* PIC, and irq_init returns with IF clear; pic_configure forgets what waited.
IrqInit ==
    /\ At("irq_init")
    /\ IF pic_present
       THEN /\ g_pic_mask' = Lines \ {0}
            /\ imr' = Lines \ {0}
            /\ irr' = {}
            /\ g_irq_handler' = [g_irq_handler EXCEPT ![0] = "clkhandler"]
            /\ interrupt_flag' = TRUE
       ELSE /\ g_pic_mask' = {}
            /\ interrupt_flag' = FALSE
            /\ UNCHANGED <<imr, irr, g_irq_handler>>
    /\ Goto("keyboard_init")
    /\ UNCHANGED <<pic_present, obf, tick, apic, tmr>>

\* keyboard_init, between cli and sti.  The loop that flushes the buffer reads the
\* status port again and again: it ends only when the buffer was empty before.
KeyboardInit ==
    /\ At("keyboard_init")
    /\ ~obf
    /\ g_irq_handler' = [g_irq_handler EXCEPT ![1] = "kbhandler"]
    /\ pic_unmask(1)
    /\ interrupt_flag' = TRUE
    /\ Goto("idle")
    /\ UNCHANGED <<pic_present, irr, obf, tick, apic, tmr>>

\* The call of system_timer_sleep reads system_time.
BeginSleep(offset, label) ==
    /\ pc' = "sleep"
    /\ ret' = label
    /\ left' = offset

CallSleep(offset) ==
    /\ At("idle")
    /\ BeginSleep(offset, "idle")
    /\ UNCHANGED <<interrupt_flag, pic_present, pic, g_irq_handler, obf, tick, apic, tmr>>

\* start + offset <= system_time
Wake ==
    /\ At("sleep")
    /\ left = 0
    /\ pc' = ret
    /\ UNCHANGED <<ret, left, interrupt_flag, pic_present, pic, g_irq_handler, obf, tick, apic, tmr>>

\* The vector with the mask, the divider and the highest initial count.
apic_timer_enable == apic' = [apic EXCEPT !.masked = TRUE, !.periodic = FALSE, !.count = WORD - 1]

\* apic_timer_init: divisor, apic_timer_enable, and the start of the sleep.
TimerEnable ==
    /\ At("idle")
    /\ divisor' = DIVISOR
    /\ apic_timer_enable
    /\ BeginSleep(1, "measure")
    /\ UNCHANGED <<interrupt_flag, pic_present, pic, g_irq_handler, obf, tick,
                   apic_timer_enabled, base_frequency>>

\* base_frequency from the current count, in 32 bits.
Measure ==
    /\ At("measure")
    /\ \E e \in Elapsed : base_frequency' = (e * 2 * divisor) % WORD
    /\ Goto("set_freq")
    /\ UNCHANGED <<interrupt_flag, pic_present, pic, g_irq_handler, obf, tick, apic,
                   apic_timer_enabled, divisor>>

apic_timer_set_freq(freq) ==
    apic' = [apic EXCEPT !.count = (base_frequency \div (freq * divisor)) % WORD]

\* apic_timer_set_freq(base_frequency)
SetBaseFreq ==
    /\ At("set_freq")
    /\ apic_timer_set_freq(base_frequency)
    /\ Goto("set_mode")
    /\ UNCHANGED <<interrupt_flag, pic_present, pic, g_irq_handler, obf, tick, tmr>>

SetPeriodic ==
    /\ At("set_mode")
    /\ apic' = [apic EXCEPT !.periodic = TRUE]
    /\ Goto("start")
    /\ UNCHANGED <<interrupt_flag, pic_present, pic, g_irq_handler, obf, tick, tmr>>

\* apic_timer_start: pic_save_mask, unless everything is masked.
StartSave ==
    /\ At("start")
    /\ IF pic_get_mask # Lines
       THEN pic_save_mask /\ Goto("mask")
       ELSE UNCHANGED g_pic_mask /\ Goto("register")
    /\ UNCHANGED <<interrupt_flag, pic_present, imr, irr, g_irq_handler, obf, tick, apic, tmr>>

StartMask ==
    /\ At("mask")
    /\ pic_mask(0)
    /\ Goto("register")
    /\ UNCHANGED <<interrupt_flag, pic_present, irr, g_irq_handler, obf, tick, apic, tmr>>

StartRegister ==
    /\ At("register")
    /\ g_irq_handler' = [g_irq_handler EXCEPT ![0] = "clkhandler_two"]
    /\ Goto("unmask")
    /\ UNCHANGED <<interrupt_flag, pic_present, pic, obf, tick, apic, tmr>>

StartUnmask ==
    /\ At("unmask")
    /\ apic' = [apic EXCEPT !.masked = FALSE]
    /\ Goto("flag")
    /\ UNCHANGED <<interrupt_flag, pic_present, pic, g_irq_handler, obf, tick, tmr>>

StartFlag ==
    /\ At("flag")
    /\ apic_timer_enabled' = TRUE
    /\ Goto("idle")
    /\ UNCHANGED <<interrupt_flag, pic_present, pic, g_irq_handler, obf, tick, apic,
                   base_frequency, divisor>>

\* Mutant of StopMask: the timer goes on.
StopMask_Unmasked ==
    /\ At("idle")
    /\ apic_timer_enabled
    /\ Goto("restore")
    /\ UNCHANGED <<interrupt_flag, pic_present, pic, g_irq_handler, obf, tick, apic, tmr>>

\* apic_timer_stop
StopMask ==
    /\ At("idle")
    /\ apic_timer_enabled
    /\ apic' = [apic EXCEPT !.masked = TRUE]
    /\ Goto("restore")
    /\ UNCHANGED <<interrupt_flag, pic_present, pic, g_irq_handler, obf, tick, tmr>>

StopRestore ==
    /\ At("restore")
    /\ pic_restore_mask
    /\ Goto("clear")
    /\ UNCHANGED <<interrupt_flag, pic_present, irr, g_irq_handler, obf, tick, apic, tmr>>

StopFlag ==
    /\ At("clear")
    /\ apic_timer_enabled' = FALSE
    /\ Goto("idle")
    /\ UNCHANGED <<interrupt_flag, pic_present, pic, g_irq_handler, obf, tick, apic,
                   base_frequency, divisor>>

\* A caller sets another frequency, once apic_timer_init has measured.
CallSetFreq(freq) ==
    /\ At("idle")
    /\ divisor # 0
    /\ apic_timer_set_freq(freq)
    /\ UNCHANGED <<cpu, interrupt_flag, pic_present, pic, g_irq_handler, obf, tick, tmr>>

\* A caller starts the timer again after it stopped it.
CallStart ==
    /\ At("idle")
    /\ divisor # 0
    /\ ~apic_timer_enabled
    /\ Goto("start")
    /\ UNCHANGED <<interrupt_flag, pic_present, pic, g_irq_handler, obf, tick, apic, tmr>>

Running ==
    \/ IrqInit \/ KeyboardInit
    \/ Wake
    \/ Measure \/ SetBaseFreq \/ SetPeriodic
    \/ StartSave \/ StartMask \/ StartRegister \/ StartUnmask \/ StartFlag
    \/ StopRestore \/ StopFlag

Calls ==
    \/ \E offset \in 1..MaxSleep : CallSleep(offset)
    \/ divisor = 0 /\ TimerEnable
    \/ StopMask
    \/ \E freq \in Freqs : CallSetFreq(freq)
    \/ CallStart

\* Before irq_init the boot loader has left every line masked and IF is set.
Init ==
    /\ pc = "irq_init" /\ ret = "idle" /\ left = 0
    /\ interrupt_flag = TRUE
    /\ pic_present \in PicPresent
    /\ imr = Lines /\ irr = {} /\ g_pic_mask = Lines
    /\ g_irq_handler = [line \in Lines |-> "NULL"]
    /\ obf = FALSE
    /\ system_time = 0 /\ preempt_quantum = QUANTUM
    /\ apic = [masked |-> TRUE, periodic |-> FALSE, count |-> 0,
               pending |-> FALSE, in_service |-> FALSE]
    /\ apic_timer_enabled = FALSE /\ base_frequency = 0 /\ divisor = 0

Next == Deliver \/ PitTick \/ Key \/ ApicTick \/ Running \/ Calls

Spec == Init /\ [][Next]_vars

\* Every pending interrupt is delivered, the timers tick, and the CPU goes on with
\* the function it is in.  Ticks and keys are milliseconds apart: now and then no
\* interrupt waits, and they do not keep the CPU from its next step for ever (hence
\* SF).  Nobody has to press keys or to call anything.
Fairness ==
    /\ []<>Quiet
    /\ WF_vars(PitInterrupt) /\ WF_vars(KeyboardInterrupt) /\ WF_vars(ApicInterrupt)
    /\ WF_vars(PitTick) /\ WF_vars(ApicTick)
    /\ SF_vars(Running)

FairSpec == Spec /\ Fairness

-----------------------------------------------------------------------------
(* Properties *)

\* The variables have their types; the quantum never leaves 1..QUANTUM, whichever
\* handler counts it down.
TypeOK ==
    /\ left \in 0..MaxSleep
    /\ {imr, irr, g_pic_mask} \subseteq SUBSET Lines
    /\ {interrupt_flag, pic_present, obf, apic_timer_enabled} \subseteq BOOLEAN
    /\ g_irq_handler[0] \in {"NULL", "clkhandler", "clkhandler_two"}
    /\ g_irq_handler[1] \in {"NULL", "kbhandler"}
    /\ system_time \in 0..TIME_WORD-1
    /\ preempt_quantum \in 1..QUANTUM
    /\ apic \in [masked : BOOLEAN, periodic : BOOLEAN, count : 0..WORD-1,
                 pending : BOOLEAN, in_service : BOOLEAN]
    /\ base_frequency \in 0..WORD-1
    /\ divisor \in {0, DIVISOR}

\* The mask the driver remembers is the mask of the hardware, whoever masks, saves
\* or restores: no later pic_mask or pic_unmask opens or closes another line.
MaskCacheExact == pic_present => g_pic_mask = imr

\* PIT and APIC timer share a vector and a handler: never do both of them tick, in
\* no order of start, stop and frequency changes, so that no millisecond counts twice.
OneClock ==
    ~ /\ pic_present /\ 0 \notin imr
      /\ ~apic.masked /\ apic.periodic /\ apic.count > 0

\* The take-over of the clock leaves the keyboard usable: its line stays open once
\* keyboard_init has opened it.
KeyboardStaysOpen == pic_present /\ g_irq_handler[1] = "kbhandler" => 1 \notin imr

\* Every tick of the APIC timer is acknowledged, in every order of start, stop, restart
\* and frequency changes, but for one that comes between the unmasking of the timer and
\* apic_timer_enabled = 1: the handler sends that one's end of interrupt nowhere.
TicksAcknowledged ==
    [][apic.in_service' /\ ~apic.in_service => pc = "flag"]_vars

\* Asleep with the PIT's line open and interrupts on.
SleepsOnPit == pc = "sleep" /\ interrupt_flag /\ 0 \notin imr

\* system_timer_sleep returns as long as the PIT is the clock.
SleepEndsOnPit == SleepsOnPit ~> pc # "sleep"

\* Every key is read from the controller, whatever happens to the clock.
KeysAreRead == (obf /\ pc = "idle" /\ pic_present) ~> ~obf

\* What the documentation says, and the code does not do:

\* "Start timer (disables PIT as main system timer)": the APIC timer then keeps the
\* time, and a sleep ends.
SleepEnds == pc = "sleep" ~> pc # "sleep"

\* "Flush device's buffer": keyboard_init gets past it.
FlushEnds == pc = "keyboard_init" ~> pc # "keyboard_init"

=============================================================================

------------------------------ MODULE Boot_proofs ------------------------------
(***************************************************************************)
(* Proofs about the boot sequence: for every machine, firmware, boot       *)
(* loader and person at the keyboard that the constants describe.          *)
(***************************************************************************)
EXTENDS Boot, Numbers, FiniteSetTheorems, SequenceTheorems, TLAPS

-----------------------------------------------------------------------------
(* Which handler an interrupt reaches *)

\* Only the sixteen vectors of the PICs have irq_handler, and only line 1 has kbhandler.
Dispatch ==
    /\ g_isr_handlers \in [Vectors -> {"NULL", "irq_handler"}]
    /\ \A v \in Vectors : g_isr_handlers[v] # "NULL" => v \in 32..47
    /\ g_irq_handler \in [0..15 -> {"NULL", "clkhandler", "kbhandler"}]
    /\ \A irq \in 0..15 : g_irq_handler[irq] = "kbhandler" => irq = 1

\* No handler is registered at first.
LEMMA DispatchInit == Init => Dispatch
  BY DEF Init, InterruptInit, Dispatch, NUM_HARDWARE_INTERRUPTS

\* irq_init and keyboard_init register handlers, and nothing else in the boot does.
LEMMA DispatchStep ==
    ASSUME Dispatch, [Next]_vars
    PROVE  Dispatch'
<1>1. CASE UNCHANGED handlers
  BY <1>1 DEF Dispatch, handlers
<1>2. CASE IrqInit
  <2>1. HardwareVectors \subseteq 32..47
    BY DEF HardwareVectors, NUM_HARDWARE_INTERRUPTS, PIC_REMAP_OFFSET
  <2>2. CASE IrqFound
    <3>1. g_isr_handlers' =
             [v \in Vectors |-> IF v \in HardwareVectors THEN "irq_handler" ELSE g_isr_handlers[v]]
      BY <2>2 DEF IrqFound, isr_register_handler
    <3>2. g_irq_handler' = [g_irq_handler EXCEPT ![0] = "clkhandler"]
      BY <2>2 DEF IrqFound, irq_register_handler
    <3>. QED
      BY <2>1, <3>1, <3>2 DEF Dispatch
  <2>3. CASE IrqNotFound
    BY <2>3 DEF Dispatch, IrqNotFound, handlers
  <2>. QED
    BY <1>2, <2>2, <2>3 DEF IrqInit, irq_init
<1>3. CASE KeyboardReady
  BY <1>3 DEF Dispatch, KeyboardReady, RegisterKeyboard, irq_register_handler
<1>4. CASE CheckBootLoader \/ SerialPort \/ GdtInit \/ IdtInit \/ CpuInit
  BY <1>1, <1>4 DEF CheckBootLoader, SerialPort, GdtInit, IdtInit, CpuInit, InterruptVars, handlers
<1>5. CASE IsrInit \/ PmInit \/ VmInit \/ AcpiTables \/ StartHpet
  BY <1>1, <1>5 DEF IsrInit, PmInit, VmInit, AcpiTables, StartHpet, InterruptVars, handlers
<1>6. CASE ReadClock \/ ClockRuns \/ ScanPci \/ Show \/ KeyboardOff \/ ApicInit \/ UseKeyboard
  BY <1>1, <1>6 DEF ReadClock, ClockRuns, ScanPci, Show, KeyboardOff, ApicInit, UseKeyboard, InterruptVars, handlers
<1>7. CASE PageFault \/ \E v \in Vectors : Interrupt(v)
  BY <1>1, <1>7 DEF PageFault, Interrupt, Taken, handlers
<1>8. CASE UNCHANGED vars
  BY <1>1, <1>8 DEF vars, InterruptVars, handlers
<1>. QED
  BY <1>2, <1>3, <1>4, <1>5, <1>6, <1>7, <1>8 DEF Next, SystemInit

-----------------------------------------------------------------------------
(* The keyboard *)

\* Whether a byte is about a key, and whether it says that the key is down.
About(byte, k) == byte % 128 = k
SaysDown(byte) == byte < 128

\* The bytes under way about a key end with what the person did last to it; when
\* there are none the driver's map has it.
KeysInv ==
    /\ held \subseteq Keys /\ key_pressed \subseteq 0..127
    /\ kb_bytes \in Seq(0..255)
    /\ \A k \in 0..127 :
          (\A i \in 1..Len(kb_bytes) : ~About(kb_bytes[i], k)) => (k \in key_pressed <=> k \in held)
    /\ \A k \in 0..127 : \A i \in 1..Len(kb_bytes) :
          About(kb_bytes[i], k) /\ (\A j \in 1..Len(kb_bytes) : j > i => ~About(kb_bytes[j], k)) =>
             (SaysDown(kb_bytes[i]) <=> k \in held)

\* At first no key is down and no byte waits.
LEMMA KeysInit == Init => KeysInv
  BY DEF Init, KeyboardInit, KeysInv

\* A press or a release puts one byte behind the others.
LEMMA UseKeyboardKeys ==
    ASSUME KeysInv, NEW k \in Keys, PressKey(k) \/ ReleaseKey(k)
    PROVE  KeysInv'
<1>. DEFINE byte == IF k \in held THEN k + 128 ELSE k
<1>1. k \in 0..127 /\ byte \in 0..255 /\ About(byte, k) /\ \A c \in 0..127 : About(byte, c) => c = k
  BY KeyboardAssumption DEF About
<1>2. /\ kb_bytes' = Append(kb_bytes, byte) /\ key_pressed' = key_pressed
      /\ held' = IF k \in held THEN held \ {k} ELSE held \cup {k}
  BY DEF PressKey, ReleaseKey, driver
<1>3. SaysDown(byte) <=> k \in held'
  BY <1>1, <1>2 DEF SaysDown
<1>. HIDE DEF byte
<1>4. /\ Len(kb_bytes') = Len(kb_bytes) + 1 /\ Len(kb_bytes) \in Nat
      /\ kb_bytes'[Len(kb_bytes) + 1] = byte
      /\ \A i \in 1..Len(kb_bytes) : kb_bytes'[i] = kb_bytes[i]
      /\ kb_bytes' \in Seq(0..255)
  <2>1. kb_bytes \in Seq(0..255) /\ byte \in 0..255
    BY <1>1 DEF KeysInv
  <2>. QED
    BY ONLY <1>2, <2>1
<1>5. held' \subseteq Keys /\ key_pressed' \subseteq 0..127
  BY <1>2 DEF KeysInv
<1>6. ASSUME NEW c \in 0..127, \A i \in 1..Len(kb_bytes') : ~About(kb_bytes'[i], c)
      PROVE  c \in key_pressed' <=> c \in held'
  <2>1. c # k
    BY <1>1, <1>4, <1>6
  <2>2. \A i \in 1..Len(kb_bytes) : ~About(kb_bytes[i], c)
    BY <1>4, <1>6
  <2>. QED
    BY <1>2, <2>1, <2>2 DEF KeysInv
<1>7. ASSUME NEW c \in 0..127, NEW i \in 1..Len(kb_bytes'), About(kb_bytes'[i], c),
             \A j \in 1..Len(kb_bytes') : j > i => ~About(kb_bytes'[j], c)
      PROVE  SaysDown(kb_bytes'[i]) <=> c \in held'
  <2>1. CASE i = Len(kb_bytes) + 1
    BY <1>1, <1>3, <1>4, <1>7, <2>1
  <2>2. CASE i \in 1..Len(kb_bytes)
    <3>1. c # k
      BY <1>1, <1>4, <1>7, <2>2
    <3>2. \A j \in 1..Len(kb_bytes) : j > i => ~About(kb_bytes[j], c)
      BY <1>4, <1>7
    <3>3. SaysDown(kb_bytes[i]) <=> c \in held
      BY <1>4, <1>7, <2>2, <3>2 DEF KeysInv
    <3>. QED
      BY <1>2, <1>4, <2>2, <3>1, <3>3
  <2>. QED
    BY <1>4, <2>1, <2>2
<1>. QED
  BY <1>4, <1>5, <1>6, <1>7 DEF KeysInv

\* Taking the first byte from the controller.
LEMMA FirstAndRest ==
    ASSUME NEW S, NEW s \in Seq(S), s # <<>>
    PROVE  /\ Len(s) \in Nat \ {0} /\ Head(s) = s[1] /\ Head(s) \in S
           /\ Len(Tail(s)) = Len(s) - 1 /\ Tail(s) \in Seq(S)
           /\ \A i \in 1..Len(s) - 1 : Tail(s)[i] = s[i + 1]
<1>1. Len(s) \in Nat \ {0}
  OBVIOUS
<1>2. Head(s) = s[1] /\ Head(s) \in S
  BY <1>1
<1>3. Len(Tail(s)) = Len(s) - 1 /\ Tail(s) \in Seq(S)
  BY <1>1
<1>. QED
  BY <1>1, <1>2, <1>3

\* kbhandler takes the first byte to the map.
LEMMA KbhandlerKeys ==
    ASSUME KeysInv, kb_bytes # <<>>, kbhandler
    PROVE  KeysInv'
<1>. DEFINE byte == Head(kb_bytes)  k == byte % 128
<1>1. /\ Len(kb_bytes) \in Nat \ {0} /\ byte = kb_bytes[1] /\ byte \in 0..255
      /\ Len(Tail(kb_bytes)) = Len(kb_bytes) - 1 /\ Tail(kb_bytes) \in Seq(0..255)
      /\ \A i \in 1..Len(kb_bytes) - 1 : Tail(kb_bytes)[i] = kb_bytes[i + 1]
  <2>1. kb_bytes \in Seq(0..255) /\ kb_bytes # <<>>
    BY DEF KeysInv
  <2>. QED
    BY ONLY <2>1, FirstAndRest
<1>2. /\ key_pressed' = IF byte < 128 THEN key_pressed \cup {k} ELSE key_pressed \ {k}
      /\ kb_bytes' = Tail(kb_bytes) /\ held' = held
  BY DEF kbhandler, keyboard_set_key
<1>3. k \in 0..127 /\ About(byte, k) /\ \A c \in 0..127 : c # k => ~About(byte, c)
  <2>1. \A b \in 0..255 : b % 128 \in 0..127
    OBVIOUS
  <2>. QED
    BY <1>1, <2>1 DEF About
<1>. HIDE DEF byte, k
<1>4. held' \subseteq Keys /\ key_pressed' \subseteq 0..127
  BY <1>2, <1>3 DEF KeysInv
<1>5. ASSUME NEW c \in 0..127, \A i \in 1..Len(kb_bytes') : ~About(kb_bytes'[i], c)
      PROVE  c \in key_pressed' <=> c \in held'
  <2>1. \A i \in 1..Len(kb_bytes) : i > 1 => ~About(kb_bytes[i], c)
    <3>1. SUFFICES ASSUME NEW i \in 2..Len(kb_bytes) PROVE ~About(kb_bytes[i], c)
      BY <1>1
    <3>2. i - 1 \in 1..Len(kb_bytes') /\ kb_bytes'[i - 1] = kb_bytes[i]
      BY <1>1, <1>2
    <3>. QED
      BY <1>5, <3>2
  <2>2. CASE c = k
    <3>1. 1 \in 1..Len(kb_bytes) /\ About(kb_bytes[1], c)
      BY <1>1, <1>3, <2>2
    <3>2. \A j \in 1..Len(kb_bytes) : j > 1 => ~About(kb_bytes[j], c)
      BY <2>1
    <3>3. SaysDown(byte) <=> c \in held
      BY <1>1, <3>1, <3>2 DEF KeysInv
    <3>. QED
      BY <1>2, <2>2, <3>3 DEF SaysDown
  <2>3. CASE c # k
    <3>1. \A i \in 1..Len(kb_bytes) : ~About(kb_bytes[i], c)
      <4>1. ~About(kb_bytes[1], c)
        BY <1>1, <1>3, <2>3
      <4>2. \A i \in 1..Len(kb_bytes) : i = 1 \/ i > 1
        BY <1>1
      <4>. QED
        BY <2>1, <4>1, <4>2
    <3>. QED
      BY <1>2, <2>3, <3>1 DEF KeysInv
  <2>. QED
    BY <2>2, <2>3
<1>6. ASSUME NEW c \in 0..127, NEW i \in 1..Len(kb_bytes'), About(kb_bytes'[i], c),
             \A j \in 1..Len(kb_bytes') : j > i => ~About(kb_bytes'[j], c)
      PROVE  SaysDown(kb_bytes'[i]) <=> c \in held'
  <2>1. i + 1 \in 1..Len(kb_bytes) /\ kb_bytes'[i] = kb_bytes[i + 1]
    BY <1>1, <1>2
  <2>2. ASSUME NEW j \in 1..Len(kb_bytes), j > i + 1 PROVE ~About(kb_bytes[j], c)
    <3>1. j - 1 \in 1..Len(kb_bytes') /\ kb_bytes'[j - 1] = kb_bytes[j] /\ j - 1 > i
      BY <1>1, <1>2, <2>2
    <3>. QED
      BY <1>6, <3>1
  <2>. QED
    BY <1>2, <1>6, <2>1, <2>2 DEF KeysInv
<1>. QED
  BY <1>1, <1>2, <1>4, <1>5, <1>6 DEF KeysInv

\* What an interrupt does to the keyboard: nothing, unless it is the keyboard's own.
LEMMA HandlerKeys ==
    ASSUME Dispatch, NEW v \in Vectors, isr_handler(v)
    PROVE  (v = 33 /\ kbhandler) \/ UNCHANGED KeyboardVars
<1>1. CASE g_isr_handlers[v] = "NULL"
  BY <1>1 DEF isr_handler
<1>2. CASE g_isr_handlers[v] # "NULL"
  <2>1. v - 32 \in 0..15 /\ irq_handler(v - 32)
    BY <1>2, BootAssumption DEF Dispatch, isr_handler, PIC_REMAP_OFFSET
  <2>2. g_irq_handler[v - 32] = "kbhandler" => v = 33
    BY <2>1, BootAssumption DEF Dispatch
  <2>. QED
    BY <2>1, <2>2 DEF irq_handler
<1>. QED
  BY <1>1, <1>2

\* Only the keyboard and kbhandler change what the map is about.
LEMMA KeysStep ==
    ASSUME Dispatch, KeysInv, [Next]_vars
    PROVE  KeysInv'
<1>1. CASE UNCHANGED KeyboardVars
  BY <1>1 DEF KeysInv, KeyboardVars, driver
<1>2. CASE UseKeyboard
  BY <1>2, UseKeyboardKeys DEF UseKeyboard
<1>3. ASSUME NEW v \in Vectors, Interrupt(v) PROVE KeysInv'
  BY <1>1, <1>3, HandlerKeys, KbhandlerKeys DEF Interrupt, Taken
<1>4. CASE PageFault
  BY <1>1, <1>4, HandlerKeys, BootAssumption DEF PageFault, Taken
<1>5. CASE CheckBootLoader \/ SerialPort \/ GdtInit \/ IdtInit \/ CpuInit \/ IsrInit
  BY <1>1, <1>5 DEF CheckBootLoader, SerialPort, GdtInit, IdtInit, CpuInit, IsrInit
<1>6. CASE PmInit \/ VmInit \/ AcpiTables \/ StartHpet \/ ReadClock \/ ClockRuns
  BY <1>1, <1>6 DEF PmInit, VmInit, AcpiTables, StartHpet, ReadClock, ClockRuns
<1>7. CASE ScanPci \/ Show \/ IrqInit \/ KeyboardOff \/ KeyboardReady \/ ApicInit
  BY <1>1, <1>7 DEF ScanPci, Show, IrqInit, KeyboardOff, KeyboardReady, ApicInit
<1>8. CASE UNCHANGED vars
  BY <1>1, <1>8 DEF vars
<1>. QED
  BY <1>2, <1>3, <1>4, <1>5, <1>6, <1>7, <1>8 DEF Next, SystemInit

\* For any keys pressed and released in any order, between which interrupts come whenever
\* they can: once the controller is empty, the driver's map says which keys are down.
THEOREM KeyMapStaysTrue == Spec => []KeysHeldTrue
<1>1. Init => Dispatch /\ KeysInv
  BY DispatchInit, KeysInit
<1>2. Dispatch /\ KeysInv /\ [Next]_vars => Dispatch' /\ KeysInv'
  BY DispatchStep, KeysStep
<1>3. KeysInv => KeysHeldTrue
  <2>. SUFFICES ASSUME KeysInv, kb_bytes = <<>> PROVE key_pressed = held
    BY DEF KeysHeldTrue
  <2>1. \A k \in 0..127 : \A i \in 1..Len(kb_bytes) : ~About(kb_bytes[i], k)
    <3>1. Len(kb_bytes) = 0
      OBVIOUS
    <3>. QED
      BY <3>1
  <2>2. \A k \in 0..127 : k \in key_pressed <=> k \in held
    BY <2>1 DEF KeysInv
  <2>. QED
    BY <2>2, KeyboardAssumption DEF KeysInv
<1>. QED
  BY <1>1, <1>2, <1>3, PTL DEF Spec

-----------------------------------------------------------------------------
(* The real time clock *)

Names == {"seconds", "minutes", "hours", "weekdays", "day", "month", "year", "century"}

\* The first n registers of GET_TIME have been read from one time.
ReadFrom(time, n) ==
    \A i \in 1..n : cur[Registers[i]] = Content(time, Registers[i])

\* What is read belongs to the present time, which does not end while the registers are
\* read; a complete reading, and the boot time, to one that has been.
TimeInv ==
    /\ rtc \in 1..Len(Instants) /\ (uip => rtc < Len(Instants))
    /\ status_b \in Modes /\ reading \in 0..9
    /\ DOMAIN cur = Names
    /\ reading \in 1..8 => clean /\ ReadFrom(Instants[rtc], reading - 1)
    /\ reading = 9 => \E i \in 1..rtc : ReadFrom(Instants[i], 8)
    /\ BootTimeTrue

\* read_time reads each of the eight registers by its name.
LEMMA NamesOfRegisters ==
    /\ Names = {Registers[i] : i \in 1..8}
    /\ \A i \in 1..8 : Registers[i] \in Names
    /\ \A i, j \in 1..8 : Registers[i] = Registers[j] => i = j
<1>1. /\ Registers[1] = "seconds" /\ Registers[2] = "minutes" /\ Registers[3] = "hours"
      /\ Registers[4] = "weekdays" /\ Registers[5] = "day" /\ Registers[6] = "month"
      /\ Registers[7] = "year" /\ Registers[8] = "century"
  BY DEF Registers
<1>2. \A i \in 1..8 : i = 1 \/ i = 2 \/ i = 3 \/ i = 4 \/ i = 5 \/ i = 6 \/ i = 7 \/ i = 8
  OBVIOUS
<1>3. \A i \in 1..8 : Registers[i] \in Names
  BY <1>1, <1>2 DEF Names
<1>4. \A n \in Names : \E i \in 1..8 : n = Registers[i]
  BY <1>1 DEF Names
<1>5. \A i, j \in 1..8 : Registers[i] = Registers[j] => i = j
  BY <1>1, <1>2
<1>. QED
  BY <1>3, <1>4, <1>5

\* TO_BINARY undoes the coding of two decimal digits.
LEMMA DecimalDigits ==
    ASSUME NEW v \in 0..99
    PROVE  TO_BINARY(16 * (v \div 10) + (v % 10)) = v
<1>1. PICK d \in 0..9, m \in 0..9 : d = v \div 10 /\ m = v % 10 /\ v = 10 * d + m
  <2>1. v \div 10 \in 0..9 /\ v % 10 \in 0..9 /\ v = 10 * (v \div 10) + (v % 10)
    OBVIOUS
  <2>. QED
    BY <2>1
<1>2. (16 * d + m) % 16 = m /\ (16 * d + m) \div 16 = d
  OBVIOUS
<1>. QED
  BY <1>1, <1>2 DEF TO_BINARY

\* read_time converts the registers of a time, in a 24-hour mode, back to the time.
LEMMA ConvertedIsTime ==
    ASSUME NEW time \in Time, NEW read, DOMAIN read = Names, status_b.is_24_hours,
           \A i \in 1..8 : read[Registers[i]] = Content(time, Registers[i])
    PROVE  /\ DOMAIN Converted(read) = Names
           /\ \A r \in Names \ {"century"} : Converted(read)[r] = time[r]
<1>. DEFINE binary == IF status_b.is_binary THEN read
                      ELSE [r \in DOMAIN read |-> TO_BINARY(read[r])]
<1>1. \A r \in Names \ {"century"} : Value(time, r) \in 0..99
  BY DEF Names, Time, Value, CURRENT_YEAR
<1>2. \A r \in Names : read[r] = Content(time, r)
  BY NamesOfRegisters
<1>3. DOMAIN binary = Names /\ \A r \in Names \ {"century"} : binary[r] = Value(time, r)
  <2>1. CASE status_b.is_binary
    BY <1>1, <1>2, <2>1 DEF Content
  <2>2. CASE ~status_b.is_binary
    <3>1. \A r \in Names \ {"century"} :
             read[r] = 16 * (Value(time, r) \div 10) + (Value(time, r) % 10)
      BY <1>1, <1>2, <2>2 DEF Content
    <3>. QED
      BY <1>1, <2>2, <3>1, DecimalDigits
  <2>. QED
    BY <2>1, <2>2
<1>. DEFINE full == binary.year + (CURRENT_YEAR \div 100) * 100
            year == IF binary.year >= 100 THEN binary.year
                    ELSE IF full < CURRENT_YEAR THEN full + 100 ELSE full
<1>4. Converted(read) = [binary EXCEPT !.hours = binary.hours, !.year = year]
  BY Zenon DEF Converted
<1>5. binary.year = time.year % 100 /\ time.year \in 2024..2123
  <2>1. "year" \in Names \ {"century"} /\ Value(time, "year") = time.year % 100
    BY DEF Names, Value
  <2>2. time.year \in 2024..2123
    BY DEF Time, CURRENT_YEAR
  <2>. QED
    BY <1>3, <2>1, <2>2
<1>6. year = time.year
  BY <1>5 DEF CURRENT_YEAR
<1>7. \A r \in Names \ {"year", "century"} : binary[r] = time[r]
  BY <1>3 DEF Names, Value
<1>. HIDE DEF binary, year
<1>. QED
  BY <1>3, <1>4, <1>6, <1>7 DEF Names

\* No instant has been read yet.
LEMMA TimeInit == Init => TimeInv
  BY CmosAssumption, NamesOfRegisters
     DEF Init, CmosInit, TimeInv, BootTimeTrue, Nothing

\* Waiting for the update-in-progress bit to clear reads no register.
LEMMA WaitTime == ASSUME TimeInv, Wait PROVE TimeInv'
<1>1. reading' = 1 /\ clean' = TRUE
  BY DEF Wait
<1>2. UNCHANGED <<rtc, uip, status_b, cur, boot_time>>
  BY DEF Wait
<1>3. (reading' \in 1..8 => clean' /\ ReadFrom(Instants[rtc], reading - 1)') /\ reading' # 9
  BY <1>1 DEF ReadFrom
<1>. QED
  BY <1>1, <1>2, <1>3 DEF TimeInv, BootTimeTrue

\* One more register is read from the same time.
LEMMA ReadRegisterTime == ASSUME TimeInv, ReadRegister PROVE TimeInv'
<1>. DEFINE now == Instants[rtc]
<1>1. reading \in 1..8 /\ reading' = reading + 1
  BY DEF ReadRegister
<1>2. UNCHANGED <<rtc, uip, status_b, clean, boot_time>>
  BY DEF ReadRegister
<1>3. cur' = [cur EXCEPT ![Registers[reading]] = Content(now, Registers[reading])]
  BY DEF ReadRegister
<1>4. clean /\ DOMAIN cur = Names /\ rtc \in 1..Len(Instants)
      /\ \A i \in 1..reading - 1 : cur[Registers[i]] = Content(now, Registers[i])
  BY <1>1 DEF TimeInv, ReadFrom
<1>5. DOMAIN cur' = Names
  BY <1>3, <1>4
<1>6. ASSUME NEW i \in 1..reading PROVE cur'[Registers[i]] = Content(now, Registers[i])
  <2>1. i \in 1..8 /\ Registers[i] \in DOMAIN cur
    BY <1>1, <1>4, NamesOfRegisters
  <2>2. CASE i = reading
    BY <1>3, <2>1, <2>2
  <2>3. CASE i # reading
    <3>1. Registers[i] # Registers[reading] /\ i \in 1..reading - 1
      BY <1>1, <2>1, <2>3, NamesOfRegisters
    <3>. QED
      BY <1>3, <1>4, <3>1
  <2>. QED
    BY <2>2, <2>3
<1>7. \A r : Content(Instants[rtc], r)' = Content(now, r)
  BY <1>2 DEF Content, Value
<1>8. reading' - 1 = reading
  BY <1>1
<1>9. (\A i \in 1..reading - 1 : cur[Registers[i]] = Content(Instants[rtc], Registers[i]))'
  BY <1>6, <1>7, <1>8
<1>10. ReadFrom(Instants[rtc], reading - 1)'
  BY <1>9, Zenon DEF ReadFrom
<1>11. ASSUME reading' = 9 PROVE (\E i \in 1..rtc : ReadFrom(Instants[i], 8))'
  <2>1. ReadFrom(Instants[rtc], 8)'
    BY <1>8, <1>9, <1>11 DEF ReadFrom
  <2>2. rtc' \in 1..rtc'
    BY <1>2 DEF TimeInv
  <2>. QED
    BY <2>1, <2>2
<1>12. BootTimeTrue'
  BY <1>2 DEF TimeInv, BootTimeTrue
<1>. QED
  BY <1>1, <1>2, <1>4, <1>5, <1>10, <1>11, <1>12 DEF TimeInv

\* The two readings are compared, and the registers read again.
LEMMA NextReadingTime == ASSUME TimeInv, NextReading PROVE TimeInv'
  BY DEF NextReading, TimeInv, BootTimeTrue

\* read_time returns a time that has been.
LEMMA TimeIsReadTime == ASSUME TimeInv, TimeIsRead PROVE TimeInv'
<1>1. reading = 9 /\ reading' = 0 /\ boot_time' = <<Converted(cur)>> /\ uip' = FALSE
  BY DEF TimeIsRead
<1>2. UNCHANGED <<rtc, status_b>> /\ cur' = Nothing
  BY DEF TimeIsRead
<1>3. PICK i \in 1..rtc : ReadFrom(Instants[i], 8)
  BY <1>1 DEF TimeInv
<1>4. Instants[i] \in Time
  BY <1>3, CmosAssumption DEF TimeInv
<1>5. \A k \in 1..8 : cur[Registers[k]] = Content(Instants[i], Registers[k])
  BY <1>3 DEF ReadFrom
<1>6. ASSUME status_b.is_24_hours
      PROVE  /\ DOMAIN Converted(cur) = Names
             /\ \A r \in Names \ {"century"} : Converted(cur)[r] = Instants[i][r]
  BY <1>4, <1>5, <1>6, ConvertedIsTime DEF TimeInv
<1>7. BootTimeTrue'
  BY <1>1, <1>2, <1>3, <1>6 DEF BootTimeTrue
<1>8. DOMAIN cur' = Names
  BY <1>2, NamesOfRegisters DEF Nothing
<1>. QED
  BY <1>1, <1>2, <1>7, <1>8 DEF TimeInv

\* The clock announces an update, and makes it when no clean reading is under way.
LEMMA ClockRunsTime == ASSUME TimeInv, Announce \/ Update PROVE TimeInv'
<1>1. CASE Announce
  BY <1>1 DEF Announce, TimeInv, BootTimeTrue, ReadFrom, Content, Value
<1>2. CASE Update
  <2>1. /\ uip /\ uip' = FALSE /\ rtc' = rtc + 1 /\ rtc' \in 1..Len(Instants)
        /\ reading \notin 1..8
    BY <1>2, CmosAssumption DEF Update, TimeInv
  <2>2. UNCHANGED <<status_b, reading, clean, cur, boot_time>>
    BY <1>2 DEF Update
  <2>3. \A i, n : ReadFrom(Instants[i], n) => ReadFrom(Instants[i], n)'
    BY <2>2 DEF ReadFrom, Content, Value
  <2>4. 1..rtc \subseteq 1..rtc'
    BY <2>1 DEF TimeInv
  <2>5. ASSUME reading' = 9 PROVE (\E i \in 1..rtc : ReadFrom(Instants[i], 8))'
    <3>1. PICK i \in 1..rtc : ReadFrom(Instants[i], 8)
      BY <2>2, <2>5 DEF TimeInv
    <3>2. i \in 1..rtc' /\ ReadFrom(Instants[i], 8)'
      BY <2>3, <2>4, <3>1
    <3>. QED
      BY <3>2
  <2>6. BootTimeTrue'
    BY <2>2, <2>4 DEF TimeInv, BootTimeTrue
  <2>. QED
    BY <2>1, <2>2, <2>5, <2>6 DEF TimeInv
<1>. QED
  BY <1>1, <1>2

\* Only cmos_init and the clock itself change what the time is made of.
LEMMA TimeStep ==
    ASSUME TimeInv, [Next]_vars
    PROVE  TimeInv'
<1>1. CASE UNCHANGED CmosVars
  BY <1>1 DEF TimeInv, BootTimeTrue, ReadFrom, Content, Value, CmosVars
<1>2. CASE ReadClock
  BY <1>2, WaitTime, ReadRegisterTime, NextReadingTime, TimeIsReadTime DEF ReadClock, ReadTime
<1>3. CASE ClockRuns
  BY <1>3, ClockRunsTime DEF ClockRuns
<1>4. CASE CheckBootLoader \/ SerialPort \/ GdtInit \/ IdtInit \/ CpuInit \/ IsrInit
  BY <1>1, <1>4 DEF CheckBootLoader, SerialPort, GdtInit, IdtInit, CpuInit, IsrInit
<1>5. CASE PmInit \/ VmInit \/ AcpiTables \/ StartHpet \/ ScanPci \/ Show
  BY <1>1, <1>5 DEF PmInit, VmInit, AcpiTables, StartHpet, ScanPci, Show
<1>6. CASE IrqInit \/ KeyboardOff \/ KeyboardReady \/ ApicInit \/ UseKeyboard
  BY <1>1, <1>6 DEF IrqInit, KeyboardOff, KeyboardReady, ApicInit, UseKeyboard
<1>7. CASE PageFault \/ \E v \in Vectors : Interrupt(v)
  BY <1>1, <1>7 DEF PageFault, Interrupt, Taken
<1>8. CASE UNCHANGED vars
  BY <1>1, <1>8 DEF vars
<1>. QED
  BY <1>2, <1>3, <1>4, <1>5, <1>6, <1>7, <1>8 DEF Next, SystemInit

\* For every clock in a 24-hour mode, BCD or binary, every sequence of times that it goes
\* through, and however its updates fall
\* between the reads of the eight registers: the boot time is one of those times.
THEOREM BootTimeIsATime == Spec => []BootTimeTrue
<1>1. TimeInv => BootTimeTrue
  BY DEF TimeInv
<1>. QED
  BY <1>1, TimeInit, TimeStep, PTL DEF Spec

-----------------------------------------------------------------------------
(* The HPET *)

\* The loop of acpi_get_sdt ends at a table of the list that has the signature.
LEMMA SdtFound ==
    ASSUME NEW list \in Seq(ACPI_SDT), NEW signature, acpi_get_sdt(list, signature) # NULL
    PROVE  /\ acpi_get_sdt(list, signature) \in ACPI_SDT
           /\ acpi_get_sdt(list, signature).signature = signature
<1>. DEFINE matches == {i \in 1..Len(list) : list[i].signature = signature}
            first   == IF matches # {} THEN Min(matches) ELSE 0
<1>1. list # NULL /\ first # 0 /\ acpi_get_sdt(list, signature) = list[first]
  BY DEF acpi_get_sdt, SelectInSeq
<1>2. matches \in SUBSET Nat /\ matches # {}
  BY <1>1
<1>3. PICK m \in matches : \A k \in matches : m <= k
  BY <1>2, LeastExists
<1>4. first \in matches
  BY <1>2, <1>3 DEF Min
<1>. HIDE DEF first
<1>. QED
  BY <1>1, <1>4

\* hpet_reset_comparators leaves no timer with its interrupt or its FSB route on.
LEMMA ResetSilences ==
    ASSUME NEW num \in Nat, NEW timers, DOMAIN timers = 1..num
    PROVE  LET after == hpet_reset_comparators(timers, num)
           IN  \A i \in DOMAIN after : after[i] \cap {TMR_FSB_EN_CNF, TMR_INT_ENB_CNF} = {}
<1>. DEFINE after == hpet_reset_comparators(timers, num)
<1>1. DOMAIN after = 1..num
  BY DEF hpet_reset_comparators
<1>2. ASSUME NEW i \in 1..num PROVE after[i] \cap {TMR_FSB_EN_CNF, TMR_INT_ENB_CNF} = {}
  <2>1. after[i] = IF IsLoud(timers[i]) THEN timers[i] \cap ReadOnly ELSE timers[i]
    BY DEF hpet_reset_comparators
  <2>2. TMR_FSB_EN_CNF \notin ReadOnly /\ TMR_INT_ENB_CNF \notin ReadOnly
    BY DEF TMR_FSB_EN_CNF, TMR_INT_ENB_CNF, ReadOnly
  <2>. QED
    BY <2>1, <2>2 DEF IsLoud, HPET_TIMER_READ_CONFIG_CAP
<1>. QED
  BY <1>1, <1>2

HpetInv ==
    /\ sdt = NULL \/ sdt \in Seq(ACPI_SDT)
    /\ EnabledHpetIsQuiet

\* No HPET has been found yet.
LEMMA HpetInvInit == Init => HpetInv
  BY DEF Init, AcpiInit, HpetInit, HpetInv, EnabledHpetIsQuiet

\* The table names as many timers as the device has, and all of them are reset.
LEMMA StartHpetQuiet == ASSUME HpetInv, StartHpet PROVE HpetInv'
<1>. DEFINE found == acpi_get_sdt(sdt, "HPET")
<1>1. UNCHANGED sdt
  BY DEF StartHpet, hpet_init, AcpiVars, tables
<1>2. CASE found = NULL
  BY <1>1, <1>2 DEF HpetInv, EnabledHpetIsQuiet, StartHpet, hpet_init, HpetVars
<1>3. CASE found # NULL
  <2>. DEFINE num == found.comparator_count + 1
  <2>1. sdt # NULL /\ sdt \in Seq(ACPI_SDT)
    BY <1>3 DEF HpetInv, acpi_get_sdt
  <2>2. num \in 1..HPET_MAX_COMPARATOR
    <3>1. PICK t \in ACPI_SDT : t = found /\ t.signature = "HPET"
      BY <1>3, <2>1, SdtFound
    <3>2. t \in HPET_SDT
      BY <3>1 DEF ACPI_SDT, MADT
    <3>3. t.comparator_count \in 0..31
      BY <3>2 DEF HPET_SDT
    <3>. QED
      BY <3>1, <3>3 DEF HPET_MAX_COMPARATOR
  <2>3. PICK d \in HpetStates(num) : HpetFound(found, d)
    BY <1>3 DEF StartHpet, hpet_init
  <2>4. d \in HPET /\ DOMAIN d.timers = 1..num /\ num \in Nat
    <3>1. d \in HPET /\ Len(d.timers) = num
      BY <2>2, <2>3, HpetAssumption
    <3>2. d.timers \in Seq(Bits)
      BY <3>1 DEF HPET
    <3>3. DOMAIN d.timers = 1..Len(d.timers)
      BY <3>2
    <3>. QED
      BY <2>2, <3>1, <3>3 DEF HPET_MAX_COMPARATOR
  <2>. DEFINE after == hpet_reset_comparators(d.timers, num)
  <2>5. hpet' # NULL => hpet_regs'.timers = after
    BY <2>3, <2>4 DEF HpetFound, HPET
  <2>6. \A i \in DOMAIN after : after[i] \cap {TMR_FSB_EN_CNF, TMR_INT_ENB_CNF} = {}
    BY <2>4, ResetSilences
  <2>. HIDE DEF after
  <2>. QED
    BY <1>1, <2>1, <2>5, <2>6 DEF HpetInv, EnabledHpetIsQuiet
<1>. QED
  BY <1>2, <1>3

\* Of the steps of the boot only acpi_init and hpet_init touch the table and the HPET.
LEMMA HpetInvStep ==
    ASSUME HpetInv, [Next]_vars
    PROVE  HpetInv'
<1>1. CASE UNCHANGED <<sdt, HpetVars>>
  BY <1>1 DEF HpetInv, EnabledHpetIsQuiet, HpetVars
<1>2. CASE StartHpet
  BY <1>2, StartHpetQuiet
<1>3. CASE AcpiTables
  <2>1. UNCHANGED HpetVars
    BY <1>3 DEF AcpiTables
  <2>2. PICK rsdp \in Firmwares : acpi_init(rsdp)
    BY <1>3 DEF AcpiTables
  <2>3. rsdp.xsdt \in Seq(ACPI_SDT) /\ rsdp.rsdt \in Seq(ACPI_SDT)
    BY <2>2, AcpiAssumption DEF XSDP
  <2>4. sdt' = sdt \/ sdt' = rsdp.xsdt \/ sdt' = rsdp.rsdt
    BY <2>2 DEF acpi_init, tables
  <2>. QED
    BY <2>1, <2>3, <2>4 DEF HpetInv, EnabledHpetIsQuiet, HpetVars
<1>4. CASE CheckBootLoader \/ SerialPort \/ GdtInit \/ IdtInit \/ CpuInit \/ IsrInit
  BY <1>1, <1>4
     DEF CheckBootLoader, SerialPort, GdtInit, IdtInit, CpuInit, IsrInit, AcpiVars, tables
<1>5. CASE PmInit \/ VmInit \/ ReadClock \/ ClockRuns \/ ScanPci \/ Show
  BY <1>1, <1>5 DEF PmInit, VmInit, ReadClock, ClockRuns, ScanPci, Show, AcpiVars, tables
<1>6. CASE IrqInit \/ KeyboardOff \/ KeyboardReady \/ UseKeyboard
  BY <1>1, <1>6 DEF IrqInit, KeyboardOff, KeyboardReady, UseKeyboard, AcpiVars, tables
<1>7. CASE ApicInit
  <2>1. UNCHANGED HpetVars
    BY <1>7 DEF ApicInit
  <2>2. UNCHANGED sdt
    BY <1>7 DEF ApicInit, apic_find, apic_reset_error_reg, apic_map, apic_enable,
                apic_check_error_reg, AcpiVars, tables
  <2>. QED
    BY <1>1, <2>1, <2>2
<1>8. CASE PageFault \/ \E v \in Vectors : Interrupt(v)
  BY <1>1, <1>8 DEF PageFault, Interrupt, Taken, AcpiVars, tables
<1>9. CASE UNCHANGED vars
  BY <1>1, <1>9 DEF vars, AcpiVars, tables
<1>. QED
  BY <1>2, <1>3, <1>4, <1>5, <1>6, <1>7, <1>8, <1>9 DEF Next, SystemInit

\* For every list of tables and every device that the table of an HPET describes, from
\* one timer to 32, in whatever state the firmware left it.
THEOREM StartedHpetStaysQuiet == Spec => []EnabledHpetIsQuiet
<1>1. HpetInv => EnabledHpetIsQuiet
  BY DEF HpetInv
<1>. QED
  BY <1>1, HpetInvInit, HpetInvStep, PTL DEF Spec

-----------------------------------------------------------------------------
(* Interrupts leave the boot alone *)

\* The steps before gdt_init, those before isr_init has set IF, and those after irq_init.
NoGdt == {"start", "serial", "gdt"}
Early == NoGdt \cup {"idt", "cpu", "isr"}
Late  == {"keyboard", "flush", "apic", "apic_reset", "apic_map", "apic_enable", "apic_check", "idle"}

CHIP == [mask : Int, offset : Int, cascade : Int, auto_eoi : BOOLEAN]

\* The gate is open and leads to the stub of its vector, in 64-bit kernel code.
GateMade(gate, v) ==
    gate.isr = v /\ gate.selector = GDT_KERNEL_CODE_64_BIT /\ Bit(gate.type, 7) = 1

\* What the PICs may raise has a handler.
Armed ==
    chips[1].offset = PIC_REMAP_OFFSET /\ \A v \in 32..47 : g_isr_handlers[v] = "irq_handler"

\* While IF may be set every gate but that of 0x80 is made; the PICs raise nothing before
\* irq_init, and afterwards only what has a handler.
InterruptInv ==
    /\ pc \in Stages
    /\ pc \in Early => ~interrupt_flag /\ halted # "fault"
    /\ pc \notin NoGdt => gdt = GdtTable
    /\ pc \notin Early => \A v \in Vectors \ {128} : GateMade(idt[v], v)
    /\ chips \in [{1, 2} -> CHIP] /\ g_pic_mask \in Int
    /\ pc \notin Late => chips[1].mask = 255
    /\ pc \in Late /\ pic_present => Armed
    /\ DOMAIN registers \subseteq ToSet(REGISTERS)
    /\ InterruptsTransparent

\* The boot loader leaves interrupts off and all lines masked.
LEMMA InterruptInvInit == Init => InterruptInv
  BY DEF Init, InterruptInit, MachineInit, InterruptInv, InterruptsTransparent, Stages, Early,
         NoGdt, Late, CHIP

\* Steps of the same part of the boot that touch nothing an interrupt needs.
LEMMA SamePart ==
    ASSUME InterruptInv, UNCHANGED <<gdt, idt, handlers, interrupt_flag, timing, registers>>,
           pc' \in Stages, pc' \in NoGdt <=> pc \in NoGdt, pc' \in Early <=> pc \in Early,
           pc' \in Late <=> pc \in Late,
           \/ halted' \in {halted, "report"}
           \/ halted' = "fault" /\ pc' \notin Early
    PROVE  InterruptInv'
  BY DEF InterruptInv, InterruptsTransparent, Armed, handlers, timing

\* Everything that is on the stack.
Words ==
    {"r15", "r14", "r13", "r12", "r11", "r10", "r9", "r8", "rsi", "rdi", "rbp", "rdx", "rcx",
     "rbx", "rax", "interrupt", "error_code", "rip", "cs", "rflags", "rsp", "ss"}

\* The m words of s, and after them the n words of t, are u.
Follows(s, m, t, n, u) ==
    /\ s \in Seq(Words) /\ t \in Seq(Words) /\ u \in Seq(Words)
    /\ Len(s) = m /\ Len(t) = n /\ Len(u) = m + n
    /\ \A i \in 1..m : u[i] = s[i]
    /\ \A i \in 1..n : u[m + i] = t[i]

\* What is pushed after other words lies behind them.
LEMMA ConcatIs ==
    ASSUME NEW s, NEW m \in Nat, NEW t, NEW n \in Nat, NEW u, Follows(s, m, t, n, u)
    PROVE  s \o t = u
<1>1. s \in Seq(Words) /\ t \in Seq(Words) /\ u \in Seq(Words)
      /\ Len(s) = m /\ Len(t) = n /\ Len(u) = m + n
  BY DEF Follows
<1>2. s \o t \in Seq(Words) /\ Len(s \o t) = m + n
  BY ONLY <1>1
<1>3. ASSUME NEW i \in 1..m + n PROVE (s \o t)[i] = u[i]
  <2>1. CASE i \in 1..m
    <3>1. (s \o t)[i] = s[i]
      BY ONLY <1>1, <2>1
    <3>. QED
      BY <2>1, <3>1 DEF Follows
  <2>2. CASE i > m
    <3>1. PICK k \in 1..n : i = m + k
      <4>1. i - m \in 1..n /\ i = m + (i - m)
        BY <2>2
      <4>. QED
        BY <4>1
    <3>2. (s \o t)[m + k] = t[k]
      BY ONLY <1>1, k \in 1..n, m \in Nat, n \in Nat
    <3>. QED
      BY <3>1, <3>2 DEF Follows
  <2>3. i \in 1..m \/ i > m
    OBVIOUS
  <2>. QED
    BY <2>1, <2>2, <2>3
<1>. QED
  BY <1>1, <1>2, <1>3, SeqEqual

\* What isr_handler finds on the stack, from its top on.
OnStack ==
    <<"r15", "r14", "r13", "r12", "r11", "r10", "r9", "r8", "rsi", "rdi", "rbp", "rdx", "rcx",
      "rbx", "rax", "interrupt", "error_code", "rip", "cs", "rflags", "rsp", "ss">>

Pushed ==
    <<"ss", "rsp", "rflags", "cs", "rip", "error_code", "interrupt", "rax", "rbx", "rcx", "rdx",
      "rbp", "rdi", "rsi", "r8", "r9", "r10", "r11", "r12", "r13", "r14", "r15">>

\* The words of the struct REGISTERS, in order.
LEMMA StructOnStack == REGISTERS = OnStack
<1>. DEFINE rest == <<"interrupt", "error_code", "rip", "cs", "rflags", "rsp", "ss">>
<1>1. popall \in Seq(Words)
  BY DEF popall, Words
<1>2. rest \in Seq(Words)
  BY DEF Words
<1>3. OnStack \in Seq(Words)
  BY DEF OnStack, Words
<1>4. Len(popall) = 15 /\ Len(rest) = 7 /\ Len(OnStack) = 15 + 7
  BY DEF popall, OnStack
<1>5. \A i \in 1..15 : OnStack[i] = popall[i]
  BY DEF popall, OnStack
<1>6. \A i \in 1..7 : OnStack[15 + i] = rest[i]
  BY DEF OnStack
<1>. HIDE DEF rest
<1>7. Follows(popall, 15, rest, 7, OnStack)
  BY ONLY <1>1, <1>2, <1>3, <1>4, <1>5, <1>6 DEF Follows
<1>8. popall \o rest = OnStack
  BY <1>7, ConcatIs
<1>. QED
  BY <1>8 DEF REGISTERS, rest

\* The words that the CPU and a stub push.
Trap == <<"ss", "rsp", "rflags", "cs", "rip", "error_code", "interrupt">>

\* The stub of a vector pushes an error code exactly when the CPU does not.
LEMMA TrapFits == ASSUME NEW v \in Vectors PROVE CpuPushes(v) \o StubPushes(v) = Trap
<1>. DEFINE five == <<"ss", "rsp", "rflags", "cs", "rip">>
            six  == <<"ss", "rsp", "rflags", "cs", "rip", "error_code">>
<1>1. PushesErrorCode(v) <=> v \in ISR_ERRORCODE
  BY BootAssumption DEF PushesErrorCode, ISR_ERRORCODE
<1>2. five \in Seq(Words) /\ six \in Seq(Words) /\ Trap \in Seq(Words)
  BY DEF Words, Trap
<1>3. /\ Len(five) = 5 /\ Len(six) = 6 /\ Len(six) = 5 + 1 /\ Len(Trap) = 6 + 1
      /\ Len(Trap) = 5 + 2 /\ Len(<<"error_code">>) = 1 /\ Len(<<"interrupt">>) = 1
      /\ Len(<<"error_code", "interrupt">>) = 2
  BY DEF Trap
<1>4. /\ \A i \in 1..5 : six[i] = five[i] /\ Trap[i] = five[i]
      /\ \A i \in 1..6 : Trap[i] = six[i]
  BY DEF Trap
<1>5. /\ <<"error_code">> \in Seq(Words) /\ <<"interrupt">> \in Seq(Words)
      /\ <<"error_code", "interrupt">> \in Seq(Words) /\ <<>> \in Seq(Words)
  BY DEF Words
<1>6. /\ \A i \in 1..1 : six[5 + i] = <<"error_code">>[i]
      /\ \A i \in 1..1 : Trap[6 + i] = <<"interrupt">>[i]
      /\ \A i \in 1..2 : Trap[5 + i] = <<"error_code", "interrupt">>[i]
  BY DEF Trap
<1>. HIDE DEF five, six
<1>7. five \o <<"error_code">> = six
  <2>1. Follows(five, 5, <<"error_code">>, 1, six)
    BY ONLY <1>2, <1>3, <1>4, <1>5, <1>6 DEF Follows
  <2>. QED
    BY <2>1, ConcatIs
<1>8. six \o <<"interrupt">> = Trap
  <2>1. Follows(six, 6, <<"interrupt">>, 1, Trap)
    BY ONLY <1>2, <1>3, <1>4, <1>5, <1>6 DEF Follows
  <2>. QED
    BY <2>1, ConcatIs
<1>9. five \o <<"error_code", "interrupt">> = Trap
  <2>1. Follows(five, 5, <<"error_code", "interrupt">>, 2, Trap)
    BY ONLY <1>2, <1>3, <1>4, <1>5, <1>6 DEF Follows
  <2>. QED
    BY <2>1, ConcatIs
<1>10. five \o <<>> = five
  BY <1>2, <1>5
<1>. QED
  BY <1>1, <1>7, <1>8, <1>9, <1>10 DEF CpuPushes, StubPushes, five

\* What CPU, stub and pushall have pushed is what the struct REGISTERS describes.
LEMMA FrameFits == ASSUME NEW v \in Vectors, idt[v].isr = v PROVE Frame(v) = REGISTERS
<1>1. Trap \in Seq(Words)
  BY DEF Trap, Words
<1>2. pushall \in Seq(Words)
  BY DEF pushall, Words
<1>3. Pushed \in Seq(Words)
  BY DEF Pushed, Words
<1>4. Len(Trap) = 7 /\ Len(pushall) = 15 /\ Len(Pushed) = 7 + 15
  BY DEF Trap, pushall, Pushed
<1>5. \A i \in 1..7 : Pushed[i] = Trap[i]
  BY DEF Pushed, Trap
<1>6. \A i \in 1..15 : Pushed[7 + i] = pushall[i]
  BY DEF Pushed, pushall
<1>7. Follows(Trap, 7, pushall, 15, Pushed)
  BY ONLY <1>1, <1>2, <1>3, <1>4, <1>5, <1>6 DEF Follows
<1>8. Trap \o pushall = Pushed
  BY <1>7, ConcatIs
<1>9. Reverse(Pushed) = OnStack
  BY DEF Reverse, Pushed, OnStack
<1>. QED
  BY <1>8, <1>9, TrapFits, StructOnStack DEF Frame

\* A register of the main code comes back with the value that was saved for it.
LEMMA RegistersBack ==
    ASSUME InterruptInv, NEW v \in Vectors, idt[v].isr = v
    PROVE  DOMAIN ValueAfter(v) = DOMAIN registers /\ \A r \in DOMAIN registers : ValueAfter(v)[r] = r
<1>. DEFINE at(r) == CHOOSE i \in DOMAIN REGISTERS : REGISTERS[i] = r
<1>1. ValueAfter(v) = [r \in DOMAIN registers |-> registers[REGISTERS[at(r)]]]
  <2>1. ValueAfter(v) = [r \in DOMAIN registers |-> registers[Frame(v)[at(r)]]]
    BY DEF ValueAfter
  <2>2. Frame(v) = REGISTERS
    BY FrameFits
  <2>. QED
    BY <2>1, <2>2, Zenon
<1>2. ASSUME NEW r \in DOMAIN registers PROVE REGISTERS[at(r)] = r
  <2>1. \E i \in DOMAIN REGISTERS : REGISTERS[i] = r
    BY DEF InterruptInv, ToSet
  <2>. QED
    BY <2>1
<1>3. \A r \in DOMAIN registers : registers[r] = r
  BY DEF InterruptInv, InterruptsTransparent
<1>. HIDE DEF at
<1>. QED
  BY <1>1, <1>2, <1>3

\* The kernel's code segment.
LEMMA CodeSegment == IsKernelCode64(GdtTable, GDT_KERNEL_CODE_64_BIT)
<1>1. 40 \div 8 + 1 = 6 /\ 6 \in DOMAIN GdtTable
  BY DEF GdtTable
<1>2. GdtTable[6] = [access |-> 154, flags |-> 160]
  BY DEF GdtTable, gdt_init_entry, KernelCode
<1>3. /\ Bit(154, 7) = 1 /\ Bit(154, 4) = 1 /\ Bit(154, 3) = 1 /\ (154 \div 32) % 4 = 0
      /\ Bit(160, 5) = 1 /\ Bit(160, 6) = 0
  BY DEF Bit
<1>. QED
  BY <1>1, <1>2, <1>3 DEF IsKernelCode64, Descriptor, GDT_KERNEL_CODE_64_BIT

\* From isr_init on each gate leads to its own stub, in 64-bit kernel code.
LEMMA GateIsUsable ==
    ASSUME InterruptInv, pc \notin Early, NEW v \in Vectors \ {128}
    PROVE  GateUsable(v) /\ idt[v].isr = v
<1>1. gdt = GdtTable /\ GateMade(idt[v], v)
  BY DEF InterruptInv, Early
<1>. QED
  BY <1>1, CodeSegment DEF GateUsable, GateMade

\* The timer's line, the keyboard's, and the spurious one.
LEMMA PicVectorsArmed ==
    ASSUME InterruptInv, NEW v \in PicVectors
    PROVE  v \in 32..47 /\ g_isr_handlers[v] = "irq_handler"
<1>1. pic_present /\ chips[1].mask # 255
  BY DEF PicVectors
<1>2. Armed
  BY <1>1 DEF InterruptInv
<1>3. v \in {32, 33, 39}
  BY <1>1, <1>2 DEF PicVectors, Armed, PIC_REMAP_OFFSET
<1>. QED
  BY <1>2, <1>3 DEF Armed

\* An interrupt of the PICs goes through gate, stub and handler, and back.
LEMMA InterruptTransparent ==
    ASSUME InterruptInv, Dispatch, NEW v \in Vectors, Interrupt(v)
    PROVE  InterruptInv'
<1>1. pc \notin Early /\ v \in 32..47 /\ g_isr_handlers[v] = "irq_handler"
  BY PicVectorsArmed DEF Interrupt, InterruptInv
<1>2. GateUsable(v) /\ idt[v].isr = v
  BY <1>1, GateIsUsable
<1>3. halted' = halted /\ registers' = ValueAfter(v)
  BY <1>1, <1>2 DEF Interrupt, Taken, isr_handler, GoesOn
<1>4. UNCHANGED <<pc, gdt, idt, handlers, interrupt_flag, timing>>
  BY DEF Interrupt, Taken, segments
<1>5. DOMAIN registers' = DOMAIN registers /\ \A r \in DOMAIN registers' : registers'[r] = r
  BY <1>2, <1>3, RegistersBack
<1>. QED
  BY <1>3, <1>4, <1>5 DEF InterruptInv, InterruptsTransparent, Armed, handlers, timing

\* The page fault has a gate and no handler: it is reported.
LEMMA PageFaultReported == ASSUME InterruptInv, Dispatch, PageFault PROVE InterruptInv'
<1>1. pc \notin Early /\ 14 \in Vectors \ {128} /\ g_isr_handlers[14] = "NULL"
  BY BootAssumption DEF PageFault, InterruptInv, Dispatch
<1>2. GateUsable(14) /\ idt[14].isr = 14
  BY <1>1, GateIsUsable
<1>3. halted' = "exception" /\ registers' = ValueAfter(14)
  BY <1>1, <1>2 DEF PageFault, Taken, isr_handler, halt
<1>4. UNCHANGED <<pc, gdt, idt, handlers, interrupt_flag, timing>>
  BY DEF PageFault, Taken, segments
<1>5. DOMAIN registers' = DOMAIN registers /\ \A r \in DOMAIN registers' : registers'[r] = r
  BY <1>1, <1>2, <1>3, RegistersBack
<1>. QED
  BY <1>3, <1>4, <1>5 DEF InterruptInv, InterruptsTransparent, Armed, handlers, timing

\* gdt_init, idt_init and isr_init make the way for interrupts before IF is set.
LEMMA GdtInitStep == ASSUME InterruptInv, GdtInit PROVE InterruptInv'
<1>1. pc = "gdt" /\ pc' = "idt" /\ halted = "no" /\ halted' = "no" /\ gdt' = GdtTable
  BY DEF GdtInit, Step, gdt_init, MachineVars
<1>2. UNCHANGED <<idt, handlers, interrupt_flag, timing, registers>>
  BY DEF GdtInit
<1>. QED
  BY <1>1, <1>2
     DEF InterruptInv, InterruptsTransparent, Early, NoGdt, Late, Stages, handlers, timing

\* idt_init empties the table while interrupts are off.
LEMMA IdtInitStep == ASSUME InterruptInv, IdtInit PROVE InterruptInv'
<1>1. pc = "idt" /\ pc' = "cpu" /\ halted = "no" /\ halted' = "no"
  BY DEF IdtInit, Step, MachineVars
<1>2. UNCHANGED <<gdt, handlers, interrupt_flag, timing, registers>>
  BY DEF IdtInit, segments
<1>. QED
  BY <1>1, <1>2
     DEF InterruptInv, InterruptsTransparent, Early, NoGdt, Late, Stages, handlers, timing

\* isr_init makes every gate before it sets IF.
LEMMA IsrInitStep == ASSUME InterruptInv, IsrInit PROVE InterruptInv'
<1>1. pc = "isr" /\ pc' = "pm" /\ halted = "no" /\ halted' = "no"
  BY DEF IsrInit, Step, MachineVars
<1>2. UNCHANGED <<gdt, handlers, timing, registers>>
  BY DEF IsrInit, segments
<1>3. ASSUME NEW v \in Vectors \ {128} PROVE GateMade(idt'[v], v)
  <2>1. idt_enable_gate(isr_init_entries, v)[v] =
           [isr |-> v, selector |-> GDT_KERNEL_CODE_64_BIT, type |-> WithBit(142, 7)]
    BY DEF idt_enable_gate, isr_init_entries, idt_init_entry, IDT_FLAG_GATE_64BIT_INT
  <2>2. idt'[v] = idt_enable_gate(isr_init_entries, v)[v]
    BY DEF IsrInit, isr_init, idt_disable_gate
  <2>3. Bit(WithBit(142, 7), 7) = 1
    BY DEF Bit, WithBit
  <2>. QED
    BY <2>1, <2>2, <2>3 DEF GateMade
<1>. QED
  BY <1>1, <1>2, <1>3
     DEF InterruptInv, InterruptsTransparent, Early, NoGdt, Late, Stages, handlers, timing

\* What the bytes written by pic_probe, pic_configure and pic_set_mask make of a chip.
LEMMA MaskWritten ==
    ASSUME NEW chip \in CHIP, NEW mask \in Int, NEW c \in {1, 2}
    PROVE  Programmed(chip, <<pic_set_mask(mask, c)>>) = [chip EXCEPT !.mask = pic_set_mask(mask, c)[2]]
<1>. DEFINE writes == <<pic_set_mask(mask, c)>>
<1>1. /\ DOMAIN writes = {1} /\ Len(writes) = 1 /\ ~IsICW1(writes[1])
      /\ writes[1] = pic_set_mask(mask, c)
  BY DEF IsICW1, pic_set_mask
<1>2. {i \in DOMAIN writes : IsICW1(writes[i])} = {}
  BY <1>1
<1>. HIDE DEF writes
<1>3. Programmed(chip, writes) = [chip EXCEPT !.mask = writes[1][2]]
  BY <1>1, <1>2 DEF Programmed
<1>. QED
  BY <1>1, <1>3 DEF writes

\* The offset stays.
LEMMA MaskProgrammed ==
    ASSUME NEW chip \in CHIP, NEW mask \in Int, NEW c \in {1, 2}
    PROVE  LET after == Programmed(chip, <<pic_set_mask(mask, c)>>)
           IN  after \in CHIP /\ after.offset = chip.offset
<1>1. Programmed(chip, <<pic_set_mask(mask, c)>>) = [chip EXCEPT !.mask = pic_set_mask(mask, c)[2]]
  BY MaskWritten
<1>2. pic_set_mask(mask, c)[2] \in Int
  BY DEF pic_set_mask
<1>. QED
  BY <1>1, <1>2 DEF CHIP

\* pic_probe: a chip that is there shows the mask 0.
LEMMA Probed ==
    ASSUME NEW chip \in CHIP, NEW c \in {1, 2}
    PROVE  LET after == Programmed(chip, ProbeWrites(c))
           IN  after \in CHIP /\ after.mask = 0
<1>. DEFINE writes == ProbeWrites(c)
<1>1. /\ DOMAIN writes = {1, 2} /\ Len(writes) = 2 /\ ~IsICW1(writes[1]) /\ ~IsICW1(writes[2])
      /\ writes[2][2] = 0
  BY DEF ProbeWrites, pic_disable, IsICW1, pic_set_mask
<1>2. {i \in DOMAIN writes : IsICW1(writes[i])} = {}
  BY <1>1
<1>. HIDE DEF writes
<1>3. Programmed(chip, writes) = [chip EXCEPT !.mask = 0]
  BY <1>1, <1>2 DEF Programmed
<1>. QED
  BY <1>3 DEF writes, CHIP

\* A chip of a pair that raises vectors from 32 to 47 and acknowledges by itself.
Remapped(chip, c) ==
    /\ chip.offset = IF c = 1 THEN PIC_REMAP_OFFSET ELSE PIC_REMAP_OFFSET + 8
    /\ chip.cascade = IF c = 1 THEN 4 ELSE 2
    /\ chip.auto_eoi

\* pic_configure: what the four control words make of a chip.
LEMMA Configured ==
    ASSUME NEW chip \in CHIP, NEW c \in {1, 2}
    PROVE  LET after == Programmed(chip, ConfigureWrites(c))
           IN  after \in CHIP /\ Remapped(after, c)
<1>. DEFINE writes == ConfigureWrites(c)
            after  == Programmed(chip, writes)
<1>1. /\ DOMAIN writes = 1..6 /\ Len(writes) = 6
      /\ writes[1][1] = 1 /\ writes[2] = <<0, 17>>
      /\ writes[3] = <<1, IF c = 1 THEN 32 ELSE 40>> /\ writes[4] = <<1, IF c = 1 THEN 4 ELSE 2>>
      /\ writes[5] = <<1, 3>> /\ writes[6][1] = 1 /\ writes[6][2] \in Int
  BY DEF ConfigureWrites, pic_disable, pic_set_mask, ICW1, ICW4, PIC_REMAP_OFFSET
<1>2. IsICW1(writes[2]) /\ \A i \in 1..6 : i # 2 => ~IsICW1(writes[i])
  BY <1>1 DEF IsICW1, Bit
<1>3. {i \in DOMAIN writes : IsICW1(writes[i])} = {2}
  BY <1>1, <1>2
<1>. HIDE DEF writes
<1>4. (CHOOSE i \in {2} : \A j \in {2} : j <= i) = 2
  OBVIOUS
<1>5. after = [offset |-> writes[3][2], cascade |-> writes[4][2],
               auto_eoi |-> Bit(writes[5][2], 1) = 1, mask |-> writes[6][2]]
  BY <1>1, <1>3, <1>4 DEF Programmed
<1>6. Bit(writes[5][2], 1) = 1
  BY <1>1 DEF Bit
<1>7. after \in CHIP
  BY <1>1, <1>5 DEF CHIP
<1>8. after.auto_eoi
  <2>1. after.auto_eoi = (Bit(writes[5][2], 1) = 1)
    BY <1>5
  <2>. QED
    BY <1>6, <2>1, Zenon
<1>9. after.offset = IF c = 1 THEN 32 ELSE 40
  BY <1>1, <1>5
<1>10. after.cascade = IF c = 1 THEN 4 ELSE 2
  BY <1>1, <1>5
<1>. QED
  BY <1>7, <1>8, <1>9, <1>10 DEF writes, Remapped, PIC_REMAP_OFFSET

\* irq_init: with a PIC it is found, remapped, and all its vectors have handlers before
\* interrupts are on again.
LEMMA IrqInitStep == ASSUME InterruptInv, IrqInit PROVE InterruptInv'
<1>1. pc = "irq" /\ pc' = "keyboard" /\ halted = "no" /\ halted' = "no"
  BY DEF IrqInit, Step, MachineVars
<1>2. UNCHANGED <<gdt, registers, pic_present>>
  BY DEF IrqInit, irq_init, segments
<1>3. chips \in [{1, 2} -> CHIP]
  BY DEF InterruptInv
<1>4. AfterProbe \in [{1, 2} -> CHIP] /\ (pic_present => \A c \in {1, 2} : AfterProbe[c].mask = 0)
  BY <1>3, Probed DEF AfterProbe, AfterWrites
<1>5. AfterConfigure \in [{1, 2} -> CHIP] /\ (pic_present => AfterConfigure[1].offset = PIC_REMAP_OFFSET)
  BY <1>4, Configured DEF AfterConfigure, AfterWrites, Remapped
<1>6. pic_present => IrqFound
  BY <1>4 DEF pic_get_mask, IrqInit, irq_init
<1>7. IrqFound \/ IrqNotFound
  BY DEF IrqInit, irq_init
<1>8. chips' \in [{1, 2} -> CHIP] /\ g_pic_mask' \in Int
  <2>1. CASE IrqFound
    <3>1. WithoutBit(65535, 0) \in Int
      BY DEF WithoutBit, Bit
    <3>. QED
      BY <2>1, <3>1, <1>5, MaskProgrammed DEF IrqFound, AfterMask, AfterWrites
  <2>. QED
    BY <1>4, <1>7, <2>1 DEF IrqNotFound
<1>9. pic_present' => Armed'
  <2>. SUFFICES ASSUME pic_present PROVE Armed'
    BY <1>2
  <2>1. chips'[1].offset = PIC_REMAP_OFFSET
    <3>1. WithoutBit(65535, 0) \in Int
      BY DEF WithoutBit, Bit
    <3>. QED
      BY <3>1, <1>5, <1>6, MaskProgrammed DEF IrqFound, AfterMask, AfterWrites
  <2>2. ASSUME NEW v \in 32..47 PROVE v \in HardwareVectors
    <3>1. v \in Vectors /\ v - 32 \in 0..15 /\ v = 32 + (v - 32)
      BY BootAssumption
    <3>. QED
      BY <3>1 DEF HardwareVectors, PIC_REMAP_OFFSET, NUM_HARDWARE_INTERRUPTS
  <2>3. ASSUME NEW v \in 32..47 PROVE g_isr_handlers'[v] = "irq_handler"
    BY <1>6, <2>2, BootAssumption DEF IrqFound, isr_register_handler
  <2>. QED
    BY <2>1, <2>3 DEF Armed, PIC_REMAP_OFFSET
<1>10. ASSUME NEW v \in Vectors \ {128} PROVE GateMade(idt'[v], v)
  <2>1. GateMade(idt[v], v)
    BY <1>1 DEF InterruptInv, Early, NoGdt
  <2>2. idt'[v] = idt[v] \/ idt'[v] = idt_enable_gate(idt, v)[v]
    BY <1>7 DEF IrqFound, IrqNotFound, isr_register_handler
  <2>3. WithBit(idt[v].type, 7) = idt[v].type
    BY <2>1 DEF GateMade, WithBit
  <2>4. idt_enable_gate(idt, v)[v] = idt[v] \/ idt_enable_gate(idt, v)[v] = [idt[v] EXCEPT !.type = WithBit(@, 7)]
    BY DEF idt_enable_gate
  <2>5. GateMade([idt[v] EXCEPT !.type = WithBit(@, 7)], v)
    BY <2>1, <2>3 DEF GateMade
  <2>. QED
    BY <2>1, <2>2, <2>4, <2>5
<1>. QED
  BY <1>1, <1>2, <1>8, <1>9, <1>10
     DEF InterruptInv, InterruptsTransparent, Early, NoGdt, Late, Stages

\* keyboard_init keeps interrupts away while it asks for bytes.
LEMMA KeyboardOffStep == ASSUME InterruptInv, KeyboardOff PROVE InterruptInv'
<1>1. pc = "keyboard" /\ pc' = "flush" /\ halted = "no" /\ halted' = "no"
  BY DEF KeyboardOff, Step, MachineVars
<1>2. UNCHANGED <<gdt, registers, pic_present, chips, g_pic_mask, idt, g_isr_handlers>>
  BY DEF KeyboardOff, segments, handlers, timing
<1>. QED
  BY <1>1, <1>2 DEF InterruptInv, InterruptsTransparent, Armed, Early, NoGdt, Late, Stages

\* pic_unmask of the keyboard's line leaves the chips where irq_init has put them.
LEMMA KeyboardReadyStep == ASSUME InterruptInv, KeyboardReady PROVE InterruptInv'
<1>1. pc = "flush" /\ pc' = "apic" /\ halted = "no" /\ halted' = "no"
  BY DEF KeyboardReady, Step, MachineVars
<1>2. UNCHANGED <<gdt, registers, pic_present, idt, g_isr_handlers>>
  BY DEF KeyboardReady, RegisterKeyboard, segments
<1>3. chips \in [{1, 2} -> CHIP] /\ g_pic_mask \in Int
  BY DEF InterruptInv
<1>4. WithoutBit(g_pic_mask, 1) \in Int
  BY <1>3 DEF WithoutBit, Bit
<1>5. chips' = AfterMask(chips, WithoutBit(g_pic_mask, 1)) /\ g_pic_mask' = WithoutBit(g_pic_mask, 1)
  BY DEF KeyboardReady, RegisterKeyboard
<1>6. chips' \in [{1, 2} -> CHIP] /\ chips'[1].offset = chips[1].offset
  BY <1>3, <1>4, <1>5, MaskProgrammed DEF AfterMask, AfterWrites
<1>. QED
  BY <1>1, <1>2, <1>4, <1>5, <1>6
     DEF InterruptInv, InterruptsTransparent, Armed, Early, NoGdt, Late, Stages

\* The steps that only use memory, devices and tables.
LEMMA OtherSteps ==
    ASSUME InterruptInv,
           \/ CheckBootLoader \/ SerialPort \/ CpuInit \/ PmInit \/ VmInit \/ AcpiTables
           \/ StartHpet \/ ReadClock \/ ClockRuns \/ ScanPci \/ Show \/ ApicInit \/ UseKeyboard
    PROVE  InterruptInv'
<1>. DEFINE Same == UNCHANGED <<gdt, idt, handlers, interrupt_flag, timing, registers>>
            Stays == halted' \in {halted, "report"}
            Moves(from, to) == pc = from /\ pc' = to
<1>1. CASE CheckBootLoader
  <2>1. Same /\ Stays /\ Moves("start", "serial")
    BY <1>1 DEF CheckBootLoader, Step, InterruptVars, segments, halt, GoesOn
  <2>. QED
    BY <2>1, SamePart DEF Stages, NoGdt, Early, Late
<1>2. CASE SerialPort
  <2>1. Same /\ Stays /\ Moves("serial", "gdt")
    BY <1>2 DEF SerialPort, Step, InterruptVars, segments, MachineVars
  <2>. QED
    BY <2>1, SamePart DEF Stages, NoGdt, Early, Late
<1>3. CASE CpuInit
  <2>1. Same /\ Stays /\ Moves("cpu", "isr")
    BY <1>3 DEF CpuInit, Step, InterruptVars, segments, GoesOn
  <2>. QED
    BY <2>1, SamePart DEF Stages, NoGdt, Early, Late
<1>4. CASE PmInit
  <2>1. Same /\ Stays /\ Moves("pm", "vm")
    BY <1>4 DEF PmInit, Step, InterruptVars, segments, halt, GoesOn
  <2>. QED
    BY <2>1, SamePart DEF Stages, NoGdt, Early, Late
<1>5. CASE VmInit
  <2>1. Same /\ Stays /\ Moves("vm", "acpi")
    BY <1>5 DEF VmInit, Step, InterruptVars, segments, halt, GoesOn
  <2>. QED
    BY <2>1, SamePart DEF Stages, NoGdt, Early, Late
<1>6. CASE AcpiTables
  <2>1. Same /\ Moves("acpi", "hpet")
    BY <1>6 DEF AcpiTables, Step, InterruptVars, segments
  <2>2. Stays
    BY <1>6 DEF AcpiTables, acpi_init, madt_init, halt, GoesOn
  <2>. QED
    BY <2>1, <2>2, SamePart DEF Stages, NoGdt, Early, Late
<1>7. CASE StartHpet
  <2>1. Same /\ Stays /\ Moves("hpet", "cmos")
    BY <1>7 DEF StartHpet, Step, InterruptVars, segments, hpet_init, GoesOn
  <2>. QED
    BY <2>1, SamePart DEF Stages, NoGdt, Early, Late
<1>8. CASE ReadClock
  <2>1. Same /\ Stays /\ (Moves("cmos", "cmos") \/ Moves("cmos", "pci"))
    BY <1>8 DEF ReadClock, Step, InterruptVars, segments, MachineVars
  <2>. QED
    BY <2>1, SamePart DEF Stages, NoGdt, Early, Late
<1>9. CASE ClockRuns \/ UseKeyboard
  <2>1. Same /\ Stays /\ pc' = pc
    BY <1>9 DEF ClockRuns, UseKeyboard, InterruptVars, segments, MachineVars
  <2>2. pc \in Stages
    BY DEF InterruptInv
  <2>. QED
    BY <2>1, <2>2, SamePart
<1>10. CASE ScanPci
  <2>1. Same /\ Stays /\ Moves("pci", "fb")
    BY <1>10 DEF ScanPci, Step, InterruptVars, segments, MachineVars
  <2>. QED
    BY <2>1, SamePart DEF Stages, NoGdt, Early, Late
<1>11. CASE Show
  <2>1. Same /\ (Moves("fb", "font") \/ Moves("font", "terminal") \/ Moves("terminal", "irq"))
    BY <1>11 DEF Show, Step, InterruptVars, segments
  <2>2. Stays
    BY <1>11 DEF Show, fb_init, psf1_font_init, init_terminal, halt, GoesOn
  <2>. QED
    BY <2>1, <2>2, SamePart DEF Stages, NoGdt, Early, Late
<1>12. CASE ApicInit
  <2>1. Same /\ pc \in Late /\ pc' \in Late
    BY <1>12 DEF ApicInit, Step, InterruptVars, segments, Late
  <2>2. halted' \in {halted, "report", "fault"}
    BY <1>12 DEF ApicInit, apic_find, apic_reset_error_reg, apic_map, apic_enable,
                 apic_check_error_reg, apic_write_reg, apic_access, halt, GoesOn, page_fault
  <2>3. Late \subseteq Stages /\ Late \cap Early = {} /\ Late \cap NoGdt = {}
    BY DEF Stages, NoGdt, Early, Late
  <2>. QED
    BY <2>1, <2>2, <2>3, SamePart
<1>. QED
  BY <1>1, <1>2, <1>3, <1>4, <1>5, <1>6, <1>7, <1>8, <1>9, <1>10, <1>11, <1>12

\* Every step of the boot, of a device or of an interrupt keeps it.
LEMMA InterruptInvStep ==
    ASSUME InterruptInv, Dispatch, [Next]_vars
    PROVE  InterruptInv'
<1>1. CASE GdtInit \/ IdtInit \/ IsrInit
  BY <1>1, GdtInitStep, IdtInitStep, IsrInitStep
<1>2. CASE IrqInit \/ KeyboardOff \/ KeyboardReady
  BY <1>2, IrqInitStep, KeyboardOffStep, KeyboardReadyStep
<1>3. CASE PageFault \/ \E v \in Vectors : Interrupt(v)
  BY <1>3, PageFaultReported, InterruptTransparent
<1>4. CASE UNCHANGED vars
  <2>1. UNCHANGED <<pc, halted, gdt, idt, handlers, interrupt_flag, timing, registers>>
    BY <1>4 DEF vars, InterruptVars, MachineVars, segments
  <2>. QED
    BY <2>1, SamePart DEF InterruptInv
<1>. QED
  BY <1>1, <1>2, <1>3, <1>4, OtherSteps DEF Next, SystemInit

\* For every machine, with PICs and without, and wherever in the boot they interrupt it:
\* the PICs' interrupts, the spurious one included, find gate and handler and give control
\* back with the registers as they were, and a page fault is reported.
THEOREM InterruptsStayTransparent == Spec => []InterruptsTransparent
<1>1. Init => Dispatch /\ InterruptInv
  BY DispatchInit, InterruptInvInit
<1>2. Dispatch /\ InterruptInv /\ [Next]_vars => Dispatch' /\ InterruptInv'
  BY DispatchStep, InterruptInvStep
<1>3. InterruptInv => InterruptsTransparent
  BY DEF InterruptInv
<1>. QED
  BY <1>1, <1>2, <1>3, PTL DEF Spec

-----------------------------------------------------------------------------
(* What works when system_init returns *)

\* The steps before a part is set up, and those after.
NoSerial   == {"start", "serial"}
BeforeHpet == Early \cup {"pm", "vm", "acpi", "hpet"}
WithScreen == {"font", "terminal", "irq"} \cup Late
WithFont   == WithScreen \ {"font"}
WithTerm   == WithFont \ {"terminal"}
NoKeyboard == {"keyboard", "flush"}
ApicFound  == {"apic_reset", "apic_map", "apic_enable", "apic_check", "idle"}
ApicMapped == {"apic_enable", "apic_check", "idle"}
ApicOn     == {"apic_check", "idle"}

SegmentsLoaded == pc \notin NoGdt => cs = 40 /\ ds = 48

UartRegisters ==
    {"data", "interrupts", "fifo", "line", "modem", "divisor_low", "divisor_high"}

\* The serial port is set up, or reported faulty.
SerialSet ==
    IF pc \in NoSerial THEN DOMAIN uart = UartRegisters
    ELSE serial_enabled = "ERR_NO_ERR" => SerialReady

MemoryTypes == {"WB", "WT", "WP", "WC", "UC-", "UC"}

\* The entry of the table that VM_MMIO selects.
DevicesUncached ==
    /\ pat.low \in Seq(MemoryTypes) /\ Len(pat.low) = 4 /\ pat.low[4] = "UC"
    /\ pat.high \in Seq(MemoryTypes)

\* The page of an HPET in use is mapped as a device.
HpetMapped ==
    /\ DOMAIN page_flags = DevicePages
    /\ pc \in BeforeHpet => hpet = NULL
    /\ hpet # NULL => hpet \in DevicePages /\ page_flags[hpet] = VM_MMIO

\* The PICs remapped, with a mask for the first and all lines of the second masked.
PicsSet(mask) ==
    /\ Remapped(chips[1], 1) /\ Remapped(chips[2], 2)
    /\ chips[1].mask = mask /\ chips[2].mask = 255
    /\ g_pic_mask = mask + 65280

\* irq_init has opened the line of the timer, keyboard_init that of the keyboard.
TimersSet ==
    pc \in Late =>
        /\ pic_present =>
              /\ PicsSet(IF pc \in NoKeyboard THEN 254 ELSE 252)
              /\ TicksEveryMillisecond
              /\ g_irq_handler[0] = "clkhandler"
        /\ pc \notin NoKeyboard => interrupt_flag /\ g_irq_handler[1] = "kbhandler"

\* A running boot has the font and the terminal of the steps behind it, a screen of the
\* size that the boot loader gave or none.
DisplaySet ==
    /\ DOMAIN font = {"header", "glyph_buffer"}
    /\ initial_fb \in FRAMEBUFFER
    /\ halted = "no" /\ pc \in WithFont /\ font.header # NULL =>
          font.header \in 1..255 /\ font.glyph_buffer # NULL
    /\ halted = "no" /\ pc \in WithTerm /\ font.header # NULL /\ HasRoom =>
          term.height > 0 /\ term.width > 0

\* And the local APIC that the MADT names.
ApicSet ==
    /\ madt # NULL => madt \in MADT
    /\ DOMAIN local_apic = {"base", "esr", "svr", "enabled"}
    /\ halted = "no" /\ pc \in ApicFound => madt # NULL /\ local_apic.base = madt.lapic_address
    /\ halted = "no" /\ pc \in ApicMapped => page_flags[local_apic.base] = VM_MMIO
    /\ halted = "no" /\ pc \in ApicOn => local_apic.enabled

ReadyInv ==
    /\ SegmentsLoaded
    /\ SerialSet
    /\ DevicesUncached
    /\ HpetMapped
    /\ TimersSet
    /\ DisplaySet
    /\ ApicSet

\* Before the first step only what the boot loader has set up is there.
LEMMA ReadyInvInit == Init => ReadyInv
<1>. SUFFICES ASSUME Init PROVE ReadyInv
  OBVIOUS
<1>1. pc = "start"
  BY DEF Init
<1>2. SegmentsLoaded /\ TimersSet
  BY <1>1 DEF SegmentsLoaded, NoGdt, TimersSet, Late
<1>3. SerialSet
  BY <1>1 DEF SerialSet, NoSerial, Init, SerialInit, UartRegisters
<1>4. DevicesUncached
  <2>1. <<"WB", "WT", "UC-", "UC">> \in Seq(MemoryTypes) /\ <<"WP", "WC", "UC-", "UC">> \in Seq(MemoryTypes)
    BY DEF MemoryTypes
  <2>. QED
    BY <2>1 DEF DevicesUncached, Init, MachineInit, LiminePat
<1>5. HpetMapped
  BY DEF HpetMapped, Init, MachineInit, HpetInit
<1>6. DisplaySet
  BY <1>1 DEF DisplaySet, Init, DisplayInit, FRAMEBUFFER, WithScreen, WithFont, WithTerm, Late
<1>7. ApicSet
  BY <1>1 DEF ApicSet, Init, AcpiInit, ApicFound, ApicMapped, ApicOn
<1>. QED
  BY <1>2, <1>3, <1>4, <1>5, <1>6, <1>7 DEF ReadyInv

\* A part that a step does not touch stays set up, unless the step should have done it.
LEMMA PartsKept ==
    ASSUME ReadyInv, pc \in Stages, halted' = "no" => halted = "no"
    PROVE  /\ UNCHANGED <<cs, ds>> /\ (pc \in NoGdt => pc' \in NoGdt) => SegmentsLoaded'
           /\ UNCHANGED SerialVars /\ (pc \in NoSerial <=> pc' \in NoSerial) => SerialSet'
           /\ UNCHANGED pat => DevicesUncached'
           /\ UNCHANGED <<page_flags, hpet>> /\ (pc' \in BeforeHpet => pc \in BeforeHpet) => HpetMapped'
           /\ /\ UNCHANGED <<timing, handlers, interrupt_flag>>
              /\ pc' \in Late => pc \in Late /\ (pc \in NoKeyboard <=> pc' \in NoKeyboard)
              => TimersSet'
           /\ /\ UNCHANGED DisplayVars
              /\ pc' \in WithFont => pc \in WithFont
              /\ pc' \in WithTerm => pc \in WithTerm
              => DisplaySet'
           /\ /\ UNCHANGED <<madt, local_apic>>
              /\ pc' \in ApicMapped => UNCHANGED page_flags
              /\ pc' \in ApicFound => pc \in ApicFound
              /\ pc' \in ApicMapped => pc \in ApicMapped
              /\ pc' \in ApicOn => pc \in ApicOn
              => ApicSet'
<1>1. UNCHANGED <<cs, ds>> /\ (pc \in NoGdt => pc' \in NoGdt) => SegmentsLoaded'
  BY DEF ReadyInv, SegmentsLoaded
<1>2. UNCHANGED SerialVars /\ (pc \in NoSerial <=> pc' \in NoSerial) => SerialSet'
  BY DEF ReadyInv, SerialSet, SerialVars, SerialReady
<1>3. UNCHANGED pat => DevicesUncached'
  BY DEF ReadyInv, DevicesUncached
<1>4. UNCHANGED <<page_flags, hpet>> /\ (pc' \in BeforeHpet => pc \in BeforeHpet) => HpetMapped'
  BY DEF ReadyInv, HpetMapped
<1>5. ASSUME UNCHANGED <<timing, handlers, interrupt_flag>>,
             pc' \in Late => pc \in Late /\ (pc \in NoKeyboard <=> pc' \in NoKeyboard)
      PROVE  TimersSet'
  <2>1. UNCHANGED <<pic_present, chips, g_pic_mask, pit, g_irq_handler, interrupt_flag>>
    BY <1>5 DEF timing, handlers
  <2>2. PicsSet(IF pc \in NoKeyboard THEN 254 ELSE 252)' =
           PicsSet(IF pc' \in NoKeyboard THEN 254 ELSE 252)
    BY <2>1 DEF PicsSet, Remapped
  <2>3. TicksEveryMillisecond' <=> TicksEveryMillisecond
    BY <2>1 DEF TicksEveryMillisecond
  <2>. QED
    BY <1>5, <2>1, <2>2, <2>3 DEF ReadyInv, TimersSet
<1>6. ASSUME UNCHANGED DisplayVars,
             pc' \in WithFont => pc \in WithFont, pc' \in WithTerm => pc \in WithTerm
      PROVE  DisplaySet'
  BY <1>6 DEF ReadyInv, DisplaySet, DisplayVars, HasRoom
<1>7. ASSUME UNCHANGED <<madt, local_apic>>, pc' \in ApicMapped => UNCHANGED page_flags,
             pc' \in ApicFound => pc \in ApicFound, pc' \in ApicMapped => pc \in ApicMapped,
             pc' \in ApicOn => pc \in ApicOn
      PROVE  ApicSet'
  BY <1>7 DEF ReadyInv, ApicSet
<1>. QED
  BY <1>1, <1>2, <1>3, <1>4, <1>5, <1>6, <1>7

\* Nothing that has stopped goes on.
LEMMA StoppedStays == ASSUME [Next]_vars, halted' = "no" PROVE halted = "no"
<1>1. CASE PageFault \/ \E v \in Vectors : Interrupt(v)
  BY <1>1 DEF PageFault, Interrupt, Taken, isr_handler, halt, GoesOn
<1>2. CASE ClockRuns \/ UseKeyboard \/ UNCHANGED vars
  BY <1>2 DEF ClockRuns, UseKeyboard, vars, MachineVars
<1>3. CASE CheckBootLoader \/ SerialPort \/ GdtInit \/ IdtInit \/ CpuInit \/ IsrInit \/ PmInit \/ VmInit
  BY <1>3 DEF CheckBootLoader, SerialPort, GdtInit, IdtInit, CpuInit, IsrInit, PmInit, VmInit, Step
<1>4. CASE AcpiTables \/ StartHpet \/ ReadClock \/ ScanPci \/ Show \/ IrqInit \/ KeyboardOff
           \/ KeyboardReady \/ ApicInit
  BY <1>4 DEF AcpiTables, StartHpet, ReadClock, ScanPci, Show, IrqInit, KeyboardOff, KeyboardReady,
              ApicInit, Step
<1>. QED
  BY <1>1, <1>2, <1>3, <1>4 DEF Next, SystemInit

\* The register that each of the writes of serial_init goes to, and the last write to it.
LEMMA SerialPrograms ==
    ASSUME NEW before, DOMAIN before = UartRegisters
    PROVE  LET after == RegistersAfter(before, TestWrites)
           IN  /\ DOMAIN after = UartRegisters
               /\ after.divisor_low = 3 /\ after.divisor_high = 0
               /\ after.line = 3 /\ after.interrupts = 0
<1>. DEFINE w == TestWrites
            own(r) == {i \in DOMAIN w : Target(w, i) = r}
            after == RegistersAfter(before, w)
<1>1. /\ DOMAIN w = 1..9
      /\ w[1] = <<1, 0>> /\ w[2] = <<3, 128>> /\ w[3] = <<0, 3>> /\ w[4] = <<1, 0>>
      /\ w[5] = <<3, 3>> /\ w[6] = <<2, 199>> /\ w[7] = <<4, 11>> /\ w[8] = <<4, 174>>
      /\ w[9] = <<0, 174>>
  <2>1. Divisor = 3
    BY DEF Divisor, MAX_RATE, BAUD_RATE
  <2>. QED
    BY <2>1 DEF TestWrites
<1>. HIDE DEF w
<1>. DEFINE open(i) == \E j \in 1..i-1 : /\ w[j][1] = 3 /\ w[j][2] >= 128
                                         /\ \A k \in j+1..i-1 : w[k][1] # 3
<1>2. ~open(1) /\ open(3) /\ open(4) /\ ~open(9)
  <2>1. ~open(1)
    OBVIOUS
  <2>2. open(3)
    <3>1. 2 \in 1..3-1 /\ w[2][1] = 3 /\ w[2][2] >= 128 /\ \A k \in 2+1..3-1 : w[k][1] # 3
      BY <1>1
    <3>. QED
      BY <3>1
  <2>3. open(4)
    <3>1. 2 \in 1..4-1 /\ w[2][1] = 3 /\ w[2][2] >= 128 /\ \A k \in 2+1..4-1 : w[k][1] # 3
      BY <1>1
    <3>. QED
      BY <3>1
  <2>4. ~open(9)
    BY <1>1, 1..8 = {1, 2, 3, 4, 5, 6, 7, 8}
  <2>. QED
    BY <2>1, <2>2, <2>3, <2>4
<1>3. \A i \in 1..9 :
         Target(w, i) = CASE w[i][1] = 0 -> IF open(i) THEN "divisor_low" ELSE "data"
                          [] w[i][1] = 1 -> IF open(i) THEN "divisor_high" ELSE "interrupts"
                          [] w[i][1] = 2 -> "fifo"
                          [] w[i][1] = 3 -> "line"
                          [] w[i][1] = 4 -> "modem"
  BY DEF Target
<1>. HIDE DEF open
<1>4. /\ Target(w, 1) = "interrupts" /\ Target(w, 2) = "line" /\ Target(w, 3) = "divisor_low"
      /\ Target(w, 4) = "divisor_high" /\ Target(w, 5) = "line" /\ Target(w, 6) = "fifo"
      /\ Target(w, 7) = "modem" /\ Target(w, 8) = "modem" /\ Target(w, 9) = "data"
  BY <1>1, <1>2, <1>3
<1>5. own("divisor_low") = {3} /\ own("divisor_high") = {4} /\ own("interrupts") = {1} /\ own("line") = {2, 5}
  BY <1>1, <1>4
<1>6. ASSUME NEW r \in UartRegisters, NEW last \in Int, last \in own(r), \A j \in own(r) : j <= last
      PROVE  after[r] = w[last][2]
  <2>1. after[r] = w[CHOOSE i \in own(r) : \A j \in own(r) : j <= i][2]
    BY <1>6 DEF RegistersAfter
  <2>2. own(r) \subseteq 1..9
    BY <1>1
  <2>3. (CHOOSE i \in own(r) : \A j \in own(r) : j <= i) = last
    BY <1>6, <2>2
  <2>. QED
    BY <2>1, <2>3
<1>7. DOMAIN after = UartRegisters
  BY DEF RegistersAfter
<1>8. {"divisor_low", "divisor_high", "line", "interrupts"} \subseteq UartRegisters
  BY DEF UartRegisters
<1>. HIDE DEF own, after
<1>9. after["divisor_low"] = w[3][2]
  BY <1>5, <1>6, <1>8
<1>10. after["divisor_high"] = w[4][2]
  BY <1>5, <1>6, <1>8
<1>11. after["interrupts"] = w[1][2]
  BY <1>5, <1>6, <1>8
<1>12. after["line"] = w[5][2]
  BY <1>5, <1>6, <1>8
<1>. QED
  BY <1>1, <1>7, <1>9, <1>10, <1>11, <1>12 DEF after, w

\* serial_init ends with the chip set up and out of the test, or reports it.
LEMMA SerialPortSet == ASSUME SerialSet, SerialPort PROVE SerialSet'
<1>. DEFINE tested == RegistersAfter(uart, TestWrites)
<1>1. DOMAIN uart = UartRegisters /\ pc' = "gdt"
  BY DEF SerialSet, SerialPort, Step, NoSerial
<1>2. /\ DOMAIN tested = UartRegisters
      /\ tested.divisor_low = 3 /\ tested.divisor_high = 0 /\ tested.line = 3 /\ tested.interrupts = 0
  BY <1>1, SerialPrograms
<1>. HIDE DEF tested
<1>3. serial_enabled' = "ERR_SERIAL_FAULTY" \/ uart' = [tested EXCEPT !.modem = 15]
  BY DEF SerialPort, serial_init, tested
<1>4. ASSUME uart' = [tested EXCEPT !.modem = 15] PROVE SerialReady'
  <2>1. uart'.divisor_low = 3 /\ uart'.divisor_high = 0 /\ uart'.line = 3 /\ uart'.interrupts = 0 /\ uart'.modem = 15
    BY <1>2, <1>4 DEF UartRegisters
  <2>. QED
    BY <2>1 DEF SerialReady, InLoopback, BAUD_RATE, MAX_RATE
<1>. QED
  BY <1>1, <1>3, <1>4 DEF SerialSet, NoSerial

\* cpu_init leaves the entries 0 to 3 of the page attribute table as they were.
LEMMA CpuInitUncached == ASSUME DevicesUncached, CpuInit PROVE DevicesUncached'
<1>1. CASE UNCHANGED pat
  BY <1>1 DEF DevicesUncached
<1>2. CASE write_msr(SubSeq(read_msr, 1, 4) \o <<"WC", "UC", "UC", "UC">>)
  <2>. DEFINE table == pat.low \o pat.high
              kept  == SubSeq(table, 1, 4)
              rest  == <<"WC", "UC", "UC", "UC">>
              value == kept \o rest
  <2>1. pat.low \in Seq(MemoryTypes) /\ Len(pat.low) = 4 /\ pat.high \in Seq(MemoryTypes)
        /\ pat.low[4] = "UC"
    BY DEF DevicesUncached
  <2>2. table \in Seq(MemoryTypes) /\ Len(table) >= 4 /\ table[4] = "UC"
    <3>1. Len(pat.high) \in Nat
      BY <2>1
    <3>2. /\ table \in Seq(MemoryTypes) /\ Len(table) = Len(pat.low) + Len(pat.high)
          /\ \A i \in 1..Len(pat.low) + Len(pat.high) :
                table[i] = IF i <= Len(pat.low) THEN pat.low[i] ELSE pat.high[i - Len(pat.low)]
      BY <2>1, ConcatProperties, Zenon
    <3>. HIDE DEF table
    <3>. QED
      BY <2>1, <3>1, <3>2
  <2>. HIDE DEF table
  <2>3. kept \in Seq(MemoryTypes) /\ Len(kept) = 4 /\ kept[4] = "UC"
    BY <2>2
  <2>4. rest \in Seq(MemoryTypes) /\ Len(rest) = 4
    BY DEF MemoryTypes
  <2>. HIDE DEF kept, rest
  <2>5. value \in Seq(MemoryTypes) /\ Len(value) = 8 /\ value[4] = "UC"
    <3>1. /\ value \in Seq(MemoryTypes) /\ Len(value) = Len(kept) + Len(rest)
          /\ \A i \in 1..Len(kept) + Len(rest) :
                value[i] = IF i <= Len(kept) THEN kept[i] ELSE rest[i - Len(kept)]
      BY <2>3, <2>4, ConcatProperties, Zenon
    <3>. QED
      BY <2>3, <2>4, <3>1
  <2>6. pat' = [low |-> SubSeq(value, 1, 4), high |-> SubSeq(value, 5, 8)]
    BY <1>2 DEF write_msr, read_msr, table, kept, rest
  <2>. HIDE DEF value
  <2>7. /\ SubSeq(value, 1, 4) \in Seq(MemoryTypes) /\ Len(SubSeq(value, 1, 4)) = 4
        /\ SubSeq(value, 1, 4)[4] = "UC" /\ SubSeq(value, 5, 8) \in Seq(MemoryTypes)
    BY <2>5
  <2>. QED
    BY <2>6, <2>7 DEF DevicesUncached
<1>. QED
  BY <1>1, <1>2 DEF CpuInit, cpu_init

\* vm_init maps what it maps before there is an HPET.
LEMMA VmInitMapped == ASSUME HpetMapped, VmInit PROVE HpetMapped'
<1>1. pc = "vm" /\ pc' = "acpi" /\ UNCHANGED hpet /\ (page_flags' = page_flags \/ page_flags' = DirectMap(limit))
  BY DEF VmInit, Step, HpetVars
<1>2. hpet = NULL
  BY <1>1 DEF HpetMapped, BeforeHpet
<1>. QED
  BY <1>1, <1>2 DEF HpetMapped, DirectMap

\* What acpi_init leaves in sdt and madt.
LEMMA AcpiInitSet ==
    ASSUME AcpiTables, madt # NULL => madt \in MADT
    PROVE  /\ madt' # NULL => madt' \in MADT
           /\ UNCHANGED <<local_apic, page_flags>>
<1>1. PICK rsdp \in Firmwares : acpi_init(rsdp)
  BY DEF AcpiTables
<1>. DEFINE list == IF rsdp.revision = 2 THEN rsdp.xsdt ELSE rsdp.rsdt
<1>2. list \in Seq(ACPI_SDT)
  BY AcpiAssumption DEF XSDP
<1>. HIDE DEF list
<1>3. madt' = madt \/ madt' = acpi_get_sdt(list, "APIC")
  BY <1>1 DEF acpi_init, tables, madt_init, list
<1>4. acpi_get_sdt(list, "APIC") # NULL => acpi_get_sdt(list, "APIC") \in MADT
  <2>. SUFFICES ASSUME acpi_get_sdt(list, "APIC") # NULL PROVE acpi_get_sdt(list, "APIC") \in MADT
    OBVIOUS
  <2>1. PICK t \in ACPI_SDT : t = acpi_get_sdt(list, "APIC") /\ t.signature = "APIC"
    BY <1>2, SdtFound
  <2>. QED
    BY <2>1 DEF ACPI_SDT, HPET_SDT
<1>. QED
  BY <1>3, <1>4 DEF AcpiTables

\* hpet_init maps the page of the device that it takes.
LEMMA StartHpetMapped == ASSUME HpetInv, HpetMapped, StartHpet PROVE HpetMapped'
<1>. DEFINE found == acpi_get_sdt(sdt, "HPET")
<1>1. pc = "hpet" /\ pc' = "cmos" /\ hpet = NULL
  BY DEF StartHpet, Step, HpetMapped, BeforeHpet
<1>2. CASE found = NULL
  BY <1>1, <1>2 DEF HpetMapped, StartHpet, hpet_init, HpetVars, BeforeHpet, Early, NoGdt
<1>3. CASE found # NULL
  <2>1. sdt \in Seq(ACPI_SDT)
    BY <1>3 DEF HpetInv, acpi_get_sdt
  <2>2. PICK t \in ACPI_SDT : t = found /\ t.signature = "HPET"
    BY <1>3, <2>1, SdtFound
  <2>3. t.address \in DevicePages
    BY <2>2 DEF ACPI_SDT, MADT, HPET_SDT
  <2>4. page_flags' = [page_flags EXCEPT ![t.address] = VM_MMIO] /\ hpet' \in {NULL, t.address}
    BY <1>3, <2>2 DEF StartHpet, hpet_init, HpetFound, vm_map
  <2>. QED
    BY <1>1, <2>3, <2>4 DEF HpetMapped, BeforeHpet, Early, NoGdt
<1>. QED
  BY <1>2, <1>3

\* irq_init: the count for a thousand ticks a second, and the PICs remapped with the
\* timer's line open.
LEMMA IrqInitSet == ASSUME InterruptInv, Dispatch, IrqInit PROVE TimersSet'
<1>1. pc' = "keyboard" /\ UNCHANGED pic_present /\ chips \in [{1, 2} -> CHIP]
  BY DEF IrqInit, Step, irq_init, InterruptInv
<1>2. pic_present => IrqFound
  <2>. SUFFICES ASSUME pic_present PROVE IrqFound
    OBVIOUS
  <2>1. AfterProbe = [c \in {1, 2} |-> Programmed(chips[c], ProbeWrites(c))]
    BY DEF AfterProbe, AfterWrites
  <2>2. AfterProbe[1].mask = 0 /\ AfterProbe[2].mask = 0
    BY <1>1, <2>1, Probed
  <2>. QED
    BY <2>2 DEF pic_get_mask, IrqInit, irq_init
<1>. SUFFICES ASSUME pic_present, IrqFound
                    PROVE PicsSet(254)' /\ TicksEveryMillisecond' /\ g_irq_handler'[0] = "clkhandler"
  BY <1>1, <1>2 DEF TimersSet, PicsSet, NoKeyboard
<1>3. WithoutBit(65535, 0) = 65534
  BY DEF WithoutBit, Bit
<1>4. PicsSet(254)'
  <2>1. AfterConfigure \in [{1, 2} -> CHIP] /\ \A c \in {1, 2} : Remapped(AfterConfigure[c], c)
    <3>1. AfterProbe \in [{1, 2} -> CHIP]
      BY <1>1, Probed DEF AfterProbe, AfterWrites
    <3>. QED
      BY <3>1, Configured DEF AfterConfigure, AfterWrites
  <2>2. chips' = [c \in {1, 2} |-> Programmed(AfterConfigure[c], <<pic_set_mask(65534, c)>>)]
    BY <1>3 DEF IrqFound, AfterMask, AfterWrites
  <2>3. ASSUME NEW c \in {1, 2} PROVE chips'[c] = [AfterConfigure[c] EXCEPT !.mask = pic_set_mask(65534, c)[2]]
    <3>1. PICK mask \in Int : mask = 65534
      OBVIOUS
    <3>2. chips'[c] = Programmed(AfterConfigure[c], <<pic_set_mask(mask, c)>>)
      BY <2>2, <3>1
    <3>3. Programmed(AfterConfigure[c], <<pic_set_mask(mask, c)>>) = [AfterConfigure[c] EXCEPT !.mask = pic_set_mask(mask, c)[2]]
      BY <2>1, MaskWritten
    <3>. QED
      BY <3>1, <3>2, <3>3
  <2>4. g_pic_mask' = 65534
    BY <1>3 DEF IrqFound
  <2>. QED
    BY <2>1, <2>3, <2>4 DEF PicsSet, Remapped, pic_set_mask, CHIP
<1>5. TicksEveryMillisecond'
  <2>1. pit_count(PIT_1MS) = 1193
    BY DEF pit_count, PIT_1MS, PIT_MAX_FREQ, PIT_DEFAULT_FREQ
  <2>2. pit' = [mode |-> 54, count |-> 1193]
    BY <2>1 DEF IrqFound, pit_init, PIT_BINARY_MODE, PIT_MODE_COMMAND, PIT_MODE_3, PIT_LO_AND_HIGH,
                PIT_CHANNEL_0
  <2>. QED
    BY <2>2 DEF TicksEveryMillisecond, PIT_MAX_FREQ
<1>6. g_irq_handler'[0] = "clkhandler"
  BY DEF IrqFound, irq_register_handler, Dispatch
<1>. QED
  BY <1>4, <1>5, <1>6

\* The first half of keyboard_init leaves the timer as it is.
LEMMA KeyboardOffSet == ASSUME TimersSet, KeyboardOff PROVE TimersSet'
<1>1. /\ pc = "keyboard" /\ pc' = "flush"
      /\ UNCHANGED <<pic_present, chips, g_pic_mask, pit, g_irq_handler>>
  BY DEF KeyboardOff, Step, handlers, timing
<1>2. PicsSet(254)' <=> PicsSet(254)
  BY <1>1 DEF PicsSet, Remapped
<1>3. TicksEveryMillisecond' <=> TicksEveryMillisecond
  BY <1>1 DEF TicksEveryMillisecond
<1>4. TimersSet' <=>
         (pic_present' => PicsSet(254)' /\ TicksEveryMillisecond' /\ g_irq_handler'[0] = "clkhandler")
  BY <1>1 DEF TimersSet, PicsSet, NoKeyboard, Late
<1>. QED
  BY <1>1, <1>2, <1>3, <1>4 DEF TimersSet, NoKeyboard, Late

\* keyboard_init: the second line open, and interrupts on.
LEMMA KeyboardReadySet == ASSUME InterruptInv, Dispatch, TimersSet, KeyboardReady PROVE TimersSet'
<1>1. pc = "flush" /\ pc' = "apic" /\ UNCHANGED <<pic_present, pit>>
  BY DEF KeyboardReady, Step, RegisterKeyboard
<1>2. interrupt_flag' /\ g_irq_handler'[1] = "kbhandler" /\ g_irq_handler'[0] = g_irq_handler[0]
  BY DEF KeyboardReady, RegisterKeyboard, enable_interrupts, irq_register_handler, Dispatch
<1>3. ASSUME pic_present PROVE PicsSet(252)' /\ TicksEveryMillisecond' /\ g_irq_handler[0] = "clkhandler"
  <2>1. PicsSet(254) /\ TicksEveryMillisecond /\ g_irq_handler[0] = "clkhandler"
    BY <1>1, <1>3 DEF TimersSet, NoKeyboard, Late
  <2>2. WithoutBit(g_pic_mask, 1) = 65532
    BY <2>1 DEF PicsSet, WithoutBit, Bit
  <2>3. chips \in [{1, 2} -> CHIP]
    BY DEF InterruptInv
  <2>4. chips' = [c \in {1, 2} |-> Programmed(chips[c], <<pic_set_mask(65532, c)>>)] /\ g_pic_mask' = 65532
    BY <1>3, <2>2 DEF KeyboardReady, RegisterKeyboard, AfterMask, AfterWrites
  <2>5. ASSUME NEW c \in {1, 2} PROVE chips'[c] = [chips[c] EXCEPT !.mask = pic_set_mask(65532, c)[2]]
    <3>1. PICK mask \in Int : mask = 65532
      OBVIOUS
    <3>2. chips'[c] = Programmed(chips[c], <<pic_set_mask(mask, c)>>)
      BY <2>4, <3>1
    <3>3. Programmed(chips[c], <<pic_set_mask(mask, c)>>) = [chips[c] EXCEPT !.mask = pic_set_mask(mask, c)[2]]
      BY <2>3, MaskWritten
    <3>. QED
      BY <3>1, <3>2, <3>3
  <2>6. PicsSet(252)'
    BY <2>1, <2>3, <2>4, <2>5 DEF PicsSet, Remapped, pic_set_mask, CHIP
  <2>. QED
    BY <1>1, <2>1, <2>6 DEF TicksEveryMillisecond
<1>. QED
  BY <1>1, <1>2, <1>3 DEF TimersSet, PicsSet, NoKeyboard

\* get_iso_file returns one of the modules, or NULL.
LEMMA IsoFileFound ==
    ASSUME NEW modules \in Seq(LIMINE_FILE), NEW name, get_iso_file(modules, name) # NULL
    PROVE  \E i \in 1..Len(modules) : get_iso_file(modules, name) = modules[i]
<1>. DEFINE matches == {i \in 1..Len(modules) : check_string_ending(modules[i].path, name)}
            first   == IF matches # {} THEN Min(matches) ELSE 0
<1>1. first # 0 /\ get_iso_file(modules, name) = modules[first]
  BY DEF get_iso_file, SelectInSeq
<1>2. matches \in SUBSET Nat /\ matches # {}
  BY <1>1
<1>3. PICK m \in matches : \A k \in matches : m <= k
  BY <1>2, LeastExists
<1>4. first \in matches
  BY <1>2, <1>3 DEF Min
<1>. HIDE DEF first
<1>. QED
  BY <1>1, <1>4

\* A screen or none, then a font, then a terminal with rows if they fit.
LEMMA ShowSet == ASSUME ReadyInv, Show PROVE DisplaySet'
<1>1. DisplaySet
  BY DEF ReadyInv
<1>2. CASE Step("fb", "font") /\ \E response \in FbResponses : fb_init(response)
  <2>1. PICK response \in FbResponses : fb_init(response)
    BY <1>2
  <2>2. pc' = "font" /\ UNCHANGED <<font, term>>
    BY <1>2, <2>1 DEF Step, fb_init
  <2>3. initial_fb' \in FRAMEBUFFER
    <3>1. CASE response = NULL \/ response = <<>>
      BY <1>1, <2>1, <3>1 DEF fb_init, DisplaySet
    <3>2. CASE response # NULL /\ response # <<>>
      <4>1. response[1] \in FRAMEBUFFER \cup {NULL}
        <5>1. response \in Seq(FRAMEBUFFER \cup {NULL})
          BY <3>2, DisplayAssumption
        <5>2. Len(response) \in Nat \ {0}
          BY <3>2, <5>1
        <5>. QED
          BY <5>1, <5>2
      <4>2. initial_fb' = IF response[1] = NULL THEN initial_fb ELSE response[1]
        BY <2>1, <3>2 DEF fb_init
      <4>. QED
        BY <1>1, <4>1, <4>2 DEF DisplaySet
    <3>. QED
      BY <3>1, <3>2
  <2>. QED
    BY <1>1, <2>2, <2>3 DEF DisplaySet, WithFont, WithTerm, WithScreen, Late
<1>3. CASE Step("font", "terminal") /\ \E response \in ModuleResponses, memory \in BOOLEAN :
              psf1_font_init(response, memory)
  <2>1. PICK response \in ModuleResponses, memory \in BOOLEAN : psf1_font_init(response, memory)
    BY <1>3
  <2>2. pc = "font" /\ pc' = "terminal" /\ halted = "no" /\ UNCHANGED <<initial_fb, term>>
    BY <1>3, <2>1 DEF Step, psf1_font_init
  <2>3. DOMAIN font' = {"header", "glyph_buffer"}
    BY <1>1, <2>1 DEF psf1_font_init, DisplaySet
  <2>4. ASSUME halted' = "no", font'.header # NULL
        PROVE  font'.header \in 1..255 /\ font'.glyph_buffer # NULL
    <3>. DEFINE file == get_iso_file(response, FontPath)
    <3>1. response # NULL /\ memory
      BY <1>1, <2>1, <2>4 DEF psf1_font_init, halt, DisplaySet
    <3>2. file # NULL /\ file.magic
      BY <2>1, <2>4, <3>1 DEF psf1_font_init, halt
    <3>3. font' = [header |-> file.character_size, glyph_buffer |-> file.path]
      BY <2>1, <3>1, <3>2 DEF psf1_font_init
    <3>4. response \in Seq(LIMINE_FILE)
      BY <3>1, DisplayAssumption
    <3>5. PICK i \in 1..Len(response) : file = response[i]
      BY <3>2, <3>4, IsoFileFound
    <3>6. file \in LIMINE_FILE
      BY <3>4, <3>5
    <3>7. file.character_size \in 1..255 /\ file.path \in Seq(STRING)
      BY <3>6 DEF LIMINE_FILE
    <3>. HIDE DEF file
    <3>8. file.path # NULL
      BY <3>7, DisplayAssumption
    <3>9. font'.header = file.character_size /\ font'.glyph_buffer = file.path
      <4>1. \A s, p : [header |-> s, glyph_buffer |-> p].header = s
                      /\ [header |-> s, glyph_buffer |-> p].glyph_buffer = p
        OBVIOUS
      <4>. QED
        BY <3>3, <4>1, Zenon
    <3>10. font'.header \in 1..255
      BY <3>7, <3>9
    <3>11. font'.glyph_buffer # NULL
      BY <3>8, <3>9, Zenon
    <3>. QED
      BY <3>10, <3>11
  <2>. QED
    BY <1>1, <2>2, <2>3, <2>4 DEF DisplaySet, WithTerm, WithFont
<1>4. CASE Step("terminal", "irq") /\ init_terminal
  <2>1. /\ pc = "terminal" /\ pc' = "irq" /\ halted = "no" /\ UNCHANGED <<initial_fb, font>>
        /\ font.header # NULL =>
              term' = [height |-> initial_fb.height \div font.header,
                       width  |-> initial_fb.width \div PSF1_FONT_WIDTH]
    BY <1>4 DEF Step, init_terminal
  <2>2. font.header # NULL => font.header \in 1..255 /\ font.glyph_buffer # NULL
    BY <1>1, <2>1 DEF DisplaySet, WithFont, WithScreen
  <2>3. ASSUME font.header # NULL, HasRoom PROVE term'.height > 0 /\ term'.width > 0
    <3>1. /\ initial_fb.height \in Nat /\ initial_fb.width \in Nat /\ initial_fb.width >= 8
          /\ font.header \in Nat \ {0} /\ font.header <= initial_fb.height
      BY <1>1, <2>2, <2>3 DEF HasRoom, DisplaySet, FRAMEBUFFER, PSF1_FONT_WIDTH
    <3>2. \A h \in Nat, n \in Nat \ {0} : n <= h => h \div n > 0
      OBVIOUS
    <3>3. initial_fb.height \div font.header > 0 /\ initial_fb.width \div 8 > 0
      BY <3>1, <3>2
    <3>. QED
      BY <2>1, <2>3, <3>3 DEF PSF1_FONT_WIDTH
  <2>4. HasRoom' <=> HasRoom
    BY <2>1 DEF HasRoom
  <2>. QED
    BY <1>1, <2>1, <2>2, <2>3, <2>4 DEF DisplaySet
<1>. QED
  BY <1>2, <1>3, <1>4 DEF Show

\* The steps of apic_init, of which none goes on unless it has worked.
LEMMA ApicInitSet == ASSUME ReadyInv, ApicInit PROVE ApicSet' /\ HpetMapped'
<1>1. ApicSet /\ HpetMapped
  BY DEF ReadyInv
<1>2. halted = "no" /\ UNCHANGED <<madt, hpet>> /\ pc \in Late /\ pc' \in Late
  BY DEF ApicInit, Step, HpetVars, apic_find, apic_reset_error_reg, apic_map, apic_enable,
         apic_check_error_reg, tables, AcpiVars, Late
<1>3. Late \cap BeforeHpet = {}
  BY DEF Late, BeforeHpet, Early, NoGdt
<1>4. CASE Step("apic", "apic_reset") /\ \E a \in ApicStates : apic_find(a)
  <2>1. PICK a \in ApicStates : apic_find(a)
    BY <1>4
  <2>2. pc' = "apic_reset" /\ UNCHANGED page_flags
    BY <1>4, <2>1 DEF Step, apic_find
  <2>3. \/ halted' # "no" /\ UNCHANGED local_apic
        \/ /\ madt # NULL
           /\ local_apic' = [base |-> madt.lapic_address, esr |-> a.esr, svr |-> 255, enabled |-> FALSE]
    BY <2>1 DEF apic_find, halt, page_fault, madt_get_local_apic_base
  <2>. QED
    BY <1>1, <1>2, <1>3, <2>2, <2>3 DEF ApicSet, HpetMapped, ApicMapped, ApicOn
<1>5. CASE Step("apic_reset", "apic_map") /\ apic_reset_error_reg
  <2>1. /\ pc = "apic_reset" /\ pc' = "apic_map" /\ UNCHANGED page_flags
        /\ local_apic' \in {local_apic, [local_apic EXCEPT !.esr = 0]}
    BY <1>5 DEF Step, apic_reset_error_reg, apic_write_reg, apic_access
  <2>. QED
    BY <1>1, <1>2, <1>3, <2>1 DEF ApicSet, HpetMapped, ApicFound, ApicMapped, ApicOn
<1>6. CASE Step("apic_map", "apic_enable") /\ apic_map
  <2>1. /\ pc = "apic_map" /\ pc' = "apic_enable" /\ UNCHANGED local_apic
        /\ page_flags' = [page_flags EXCEPT ![local_apic.base] = VM_MMIO]
    BY <1>6 DEF Step, apic_map, vm_map, AcpiVars
  <2>2. local_apic.base \in DevicePages /\ madt # NULL /\ local_apic.base = madt.lapic_address
    BY <1>1, <1>2, <2>1 DEF ApicSet, ApicFound, MADT
  <2>. QED
    BY <1>1, <1>2, <1>3, <2>1, <2>2 DEF ApicSet, HpetMapped, ApicOn
<1>7. CASE Step("apic_enable", "apic_check") /\ apic_enable
  <2>1. pc = "apic_enable" /\ pc' = "apic_check" /\ UNCHANGED page_flags
    BY <1>7 DEF Step, apic_enable
  <2>2. /\ local_apic.base \in DevicePages /\ local_apic.base # 0 /\ madt # NULL
        /\ local_apic.base = madt.lapic_address /\ page_flags[local_apic.base] = VM_MMIO
    BY <1>1, <1>2, <2>1, MachineAssumption DEF ApicSet, ApicFound, ApicMapped, MADT
  <2>3. local_apic' = [local_apic EXCEPT !.svr = APIC_SPURIOUS_INT_NUM, !.enabled = TRUE]
    BY <1>7, <2>2 DEF apic_enable, apic_write_reg, apic_access, IsMapped, VM_MMIO
  <2>. QED
    BY <1>1, <1>2, <1>3, <2>1, <2>2, <2>3 DEF ApicSet, HpetMapped
<1>8. CASE Step("apic_check", "idle") /\ apic_check_error_reg
  <2>1. pc = "apic_check" /\ pc' = "idle" /\ UNCHANGED <<page_flags, local_apic>>
    BY <1>8 DEF Step, apic_check_error_reg, apic_access
  <2>. QED
    BY <1>1, <1>2, <1>3, <2>1 DEF ApicSet, HpetMapped, ApicFound, ApicMapped, ApicOn
<1>. QED
  BY <1>4, <1>5, <1>6, <1>7, <1>8 DEF ApicInit

\* The kernel's data segment.
LEMMA DataSegment == IsKernelData(GdtTable, 48)
<1>1. 48 \div 8 + 1 = 7 /\ 7 \in DOMAIN GdtTable
  BY DEF GdtTable
<1>2. GdtTable[7] = [access |-> 146, flags |-> 160]
  BY DEF GdtTable, gdt_init_entry, KernelData
<1>3. /\ Bit(146, 7) = 1 /\ Bit(146, 4) = 1 /\ Bit(146, 3) = 0 /\ Bit(146, 1) = 1
      /\ (146 \div 32) % 4 = 0
  BY DEF Bit
<1>. QED
  BY <1>1, <1>2, <1>3 DEF IsKernelData, Descriptor

\* Each step of the boot sets up its own part and leaves the others as they are.
LEMMA ReadyInvStep ==
    ASSUME InterruptInv, Dispatch, HpetInv, ReadyInv, [Next]_vars
    PROVE  ReadyInv'
<1>. USE DEF NoSerial, NoGdt, Early, BeforeHpet, WithScreen, WithFont, WithTerm, NoKeyboard,
             ApicFound, ApicMapped, ApicOn, Late
<1>1. pc \in Stages /\ (halted' = "no" => halted = "no")
  BY StoppedStays DEF InterruptInv
<1>2. CASE CheckBootLoader \/ PmInit \/ IdtInit
  <2>1. UNCHANGED <<cs, ds, SerialVars, pat, page_flags, hpet, timing, handlers, interrupt_flag,
                    DisplayVars, madt, local_apic>>
    BY <1>2 DEF CheckBootLoader, PmInit, IdtInit, InterruptVars, MachineVars, segments, HpetVars,
                AcpiVars, tables
  <2>2. <<pc, pc'>> \in {<<"start", "serial">>, <<"pm", "vm">>, <<"idt", "cpu">>}
    BY <1>2 DEF CheckBootLoader, PmInit, IdtInit, Step
  <2>. QED
    BY <1>1, <2>1, <2>2, PartsKept DEF ReadyInv
<1>3. CASE SerialPort
  <2>1. UNCHANGED <<cs, ds, pat, page_flags, hpet, timing, handlers, interrupt_flag,
                    DisplayVars, madt, local_apic>>
    BY <1>3 DEF SerialPort, InterruptVars, MachineVars, segments, HpetVars, AcpiVars, tables
  <2>2. pc = "serial" /\ pc' = "gdt"
    BY <1>3 DEF SerialPort, Step
  <2>3. SerialSet'
    BY <1>3, SerialPortSet DEF ReadyInv
  <2>. QED
    BY <1>1, <2>1, <2>2, <2>3, PartsKept DEF ReadyInv
<1>4. CASE GdtInit
  <2>1. UNCHANGED <<SerialVars, pat, page_flags, hpet, timing, handlers, interrupt_flag,
                    DisplayVars, madt, local_apic>>
    BY <1>4 DEF GdtInit, MachineVars, HpetVars, AcpiVars, tables, handlers
  <2>2. pc = "gdt" /\ pc' = "idt"
    BY <1>4 DEF GdtInit, Step
  <2>3. SegmentsLoaded'
    BY <1>4 DEF GdtInit, gdt_init, SegmentsLoaded
  <2>. QED
    BY <1>1, <2>1, <2>2, <2>3, PartsKept DEF ReadyInv
<1>5. CASE CpuInit
  <2>1. UNCHANGED <<cs, ds, SerialVars, page_flags, hpet, timing, handlers, interrupt_flag,
                    DisplayVars, madt, local_apic>>
    BY <1>5 DEF CpuInit, cpu_init, InterruptVars, segments, HpetVars, AcpiVars, tables
  <2>2. pc = "cpu" /\ pc' = "isr"
    BY <1>5 DEF CpuInit, Step
  <2>3. DevicesUncached'
    BY <1>5, CpuInitUncached DEF ReadyInv
  <2>. QED
    BY <1>1, <2>1, <2>2, <2>3, PartsKept DEF ReadyInv
<1>6. CASE IsrInit
  <2>1. UNCHANGED <<cs, ds, SerialVars, pat, page_flags, hpet, timing, handlers,
                    DisplayVars, madt, local_apic>>
    BY <1>6 DEF IsrInit, MachineVars, segments, HpetVars, AcpiVars, tables
  <2>2. pc = "isr" /\ pc' = "pm"
    BY <1>6 DEF IsrInit, Step
  <2>3. TimersSet'
    BY <2>2 DEF TimersSet
  <2>. QED
    BY <1>1, <2>1, <2>2, <2>3, PartsKept DEF ReadyInv
<1>7. CASE VmInit
  <2>1. UNCHANGED <<cs, ds, SerialVars, pat, timing, handlers, interrupt_flag,
                    DisplayVars, madt, local_apic>>
    BY <1>7 DEF VmInit, InterruptVars, segments, HpetVars, AcpiVars, tables
  <2>2. pc = "vm" /\ pc' = "acpi"
    BY <1>7 DEF VmInit, Step
  <2>3. HpetMapped'
    BY <1>7, VmInitMapped DEF ReadyInv
  <2>. QED
    BY <1>1, <2>1, <2>2, <2>3, PartsKept DEF ReadyInv
<1>8. CASE AcpiTables
  <2>1. UNCHANGED <<cs, ds, SerialVars, pat, page_flags, hpet, timing, handlers, interrupt_flag,
                    DisplayVars, local_apic>>
    BY <1>8 DEF AcpiTables, InterruptVars, segments, HpetVars
  <2>2. pc = "acpi" /\ pc' = "hpet"
    BY <1>8 DEF AcpiTables, Step
  <2>3. madt' # NULL => madt' \in MADT
    BY <1>8, AcpiInitSet DEF ReadyInv, ApicSet
  <2>4. ApicSet'
    BY <2>1, <2>2, <2>3 DEF ReadyInv, ApicSet
  <2>. QED
    BY <1>1, <2>1, <2>2, <2>4, PartsKept DEF ReadyInv
<1>9. CASE StartHpet
  <2>1. UNCHANGED <<cs, ds, SerialVars, pat, timing, handlers, interrupt_flag,
                    DisplayVars, madt, local_apic>>
    BY <1>9 DEF StartHpet, hpet_init, InterruptVars, segments, AcpiVars, tables
  <2>2. pc = "hpet" /\ pc' = "cmos"
    BY <1>9 DEF StartHpet, Step
  <2>3. HpetMapped'
    BY <1>9, StartHpetMapped DEF ReadyInv
  <2>. QED
    BY <1>1, <2>1, <2>2, <2>3, PartsKept DEF ReadyInv
<1>10. CASE ReadClock \/ ClockRuns \/ ScanPci \/ UseKeyboard
  <2>1. UNCHANGED <<cs, ds, SerialVars, pat, page_flags, hpet, timing, handlers, interrupt_flag,
                    DisplayVars, madt, local_apic>>
    BY <1>10 DEF ReadClock, ClockRuns, ScanPci, UseKeyboard, InterruptVars, MachineVars, segments,
                 HpetVars, AcpiVars, tables
  <2>2. \/ <<pc, pc'>> \in {<<"cmos", "cmos">>, <<"cmos", "pci">>, <<"pci", "fb">>}
        \/ pc' = pc
    BY <1>10 DEF ReadClock, ClockRuns, ScanPci, UseKeyboard, Step
  <2>. QED
    BY <1>1, <2>1, <2>2, PartsKept DEF ReadyInv
<1>11. CASE Show
  <2>1. UNCHANGED <<cs, ds, SerialVars, pat, page_flags, hpet, timing, handlers, interrupt_flag,
                    madt, local_apic>>
    BY <1>11 DEF Show, InterruptVars, segments, HpetVars, AcpiVars, tables
  <2>2. <<pc, pc'>> \in {<<"fb", "font">>, <<"font", "terminal">>, <<"terminal", "irq">>}
    BY <1>11 DEF Show, Step
  <2>3. DisplaySet'
    BY <1>11, ShowSet
  <2>. QED
    BY <1>1, <2>1, <2>2, <2>3, PartsKept DEF ReadyInv
<1>12. CASE IrqInit
  <2>1. UNCHANGED <<cs, ds, SerialVars, pat, page_flags, hpet, DisplayVars, madt, local_apic>>
    BY <1>12 DEF IrqInit, MachineVars, segments, HpetVars, AcpiVars, tables
  <2>2. pc = "irq" /\ pc' = "keyboard"
    BY <1>12 DEF IrqInit, Step
  <2>3. TimersSet'
    BY <1>12, IrqInitSet
  <2>. QED
    BY <1>1, <2>1, <2>2, <2>3, PartsKept DEF ReadyInv
<1>13. CASE KeyboardReady
  <2>1. UNCHANGED <<cs, ds, SerialVars, pat, page_flags, hpet, DisplayVars, madt, local_apic>>
    BY <1>13 DEF KeyboardReady, MachineVars, segments, HpetVars, AcpiVars, tables
  <2>2. pc = "flush" /\ pc' = "apic"
    BY <1>13 DEF KeyboardReady, Step
  <2>3. TimersSet'
    BY <1>13, KeyboardReadySet DEF ReadyInv
  <2>. QED
    BY <1>1, <2>1, <2>2, <2>3, PartsKept DEF ReadyInv
<1>14. CASE ApicInit
  <2>1. UNCHANGED <<cs, ds, SerialVars, timing, handlers, interrupt_flag, DisplayVars>>
    BY <1>14 DEF ApicInit, InterruptVars, segments
  <2>2. UNCHANGED pat
    BY <1>14 DEF ApicInit, apic_find, apic_reset_error_reg, apic_map, apic_enable,
                 apic_check_error_reg
  <2>3. <<pc, pc'>> \in {<<"apic", "apic_reset">>, <<"apic_reset", "apic_map">>,
                         <<"apic_map", "apic_enable">>, <<"apic_enable", "apic_check">>,
                         <<"apic_check", "idle">>}
    BY <1>14 DEF ApicInit, Step
  <2>4. ApicSet' /\ HpetMapped'
    BY <1>14, ApicInitSet
  <2>. QED
    BY <1>1, <2>1, <2>2, <2>3, <2>4, PartsKept DEF ReadyInv
<1>15. CASE PageFault \/ (\E v \in Vectors : Interrupt(v)) \/ UNCHANGED vars
  <2>1. UNCHANGED <<pc, cs, ds, SerialVars, pat, page_flags, hpet, timing, handlers,
                    interrupt_flag, DisplayVars, madt, local_apic>>
    BY <1>15 DEF PageFault, Interrupt, Taken, vars, InterruptVars, MachineVars, segments, HpetVars, AcpiVars, tables
  <2>. QED
    BY <1>1, <2>1, PartsKept DEF ReadyInv
<1>16. CASE KeyboardOff
  <2>1. UNCHANGED <<cs, ds, SerialVars, pat, page_flags, hpet, DisplayVars, madt, local_apic>>
    BY <1>16 DEF KeyboardOff, MachineVars, segments, HpetVars, AcpiVars, tables
  <2>2. pc = "keyboard" /\ pc' = "flush"
    BY <1>16 DEF KeyboardOff, Step
  <2>3. TimersSet'
    BY <1>16, KeyboardOffSet DEF ReadyInv
  <2>. QED
    BY <1>1, <2>1, <2>2, <2>3, PartsKept DEF ReadyInv
<1>. QED
  BY <1>2, <1>3, <1>4, <1>5, <1>6, <1>7, <1>8, <1>9, <1>10, <1>11, <1>12, <1>13, <1>14, <1>15, <1>16
     DEF Next, SystemInit

\* The parts at the end of the boot are what is meant by ready.
LEMMA SetIsReady == ASSUME InterruptInv, ReadyInv PROVE ReadyMeansReady
<1>. SUFFICES ASSUME pc = "idle", halted = "no" PROVE ReadyMeansReady
  BY DEF ReadyMeansReady
<1>1. IsKernelCode64(gdt, cs) /\ IsKernelData(gdt, ds)
  <2>1. gdt = GdtTable /\ cs = GDT_KERNEL_CODE_64_BIT /\ ds = 48
    BY DEF InterruptInv, ReadyInv, SegmentsLoaded, NoGdt, GDT_KERNEL_CODE_64_BIT
  <2>. QED
    BY <2>1, CodeSegment, DataSegment
<1>2. \A p : page_flags[p] = VM_MMIO => MemoryType(p) = "UC"
  <2>1. 2 * ((27 \div 16) % 2) + ((27 \div 8) % 2) + 1 = 4
    OBVIOUS
  <2>2. pat.low[4] = "UC"
    BY DEF ReadyInv, DevicesUncached
  <2>. QED
    BY <2>1, <2>2 DEF MemoryType, VM_MMIO
<1>3. /\ madt # NULL /\ local_apic.enabled /\ local_apic.base = madt.lapic_address
      /\ MemoryType(local_apic.base) = "UC"
  BY <1>2 DEF ReadyInv, ApicSet, ApicFound, ApicMapped, ApicOn
<1>4. hpet # NULL => MemoryType(hpet) = "UC"
  BY <1>2 DEF ReadyInv, HpetMapped
<1>5. /\ font.header # NULL => font.glyph_buffer # NULL
      /\ font.header # NULL /\ HasRoom => term.height > 0 /\ term.width > 0
  BY DEF ReadyInv, DisplaySet, WithTerm, WithFont, WithScreen, Late
<1>6. interrupt_flag /\ (pic_present => PicsReady /\ TicksEveryMillisecond)
  <2>1. /\ interrupt_flag /\ g_irq_handler[1] = "kbhandler"
        /\ pic_present =>
              PicsSet(252) /\ TicksEveryMillisecond /\ g_irq_handler[0] = "clkhandler"
    BY DEF ReadyInv, TimersSet, NoKeyboard, Late
  <2>2. PicsSet(252) /\ g_irq_handler[0] = "clkhandler" /\ g_irq_handler[1] = "kbhandler" => PicsReady
    BY DEF PicsSet, Remapped, PicsReady, PIC_REMAP_OFFSET
  <2>. QED
    BY <2>1, <2>2
<1>7. serial_enabled = "ERR_NO_ERR" => SerialReady
  BY DEF ReadyInv, SerialSet, NoSerial
<1>. QED
  BY <1>1, <1>3, <1>4, <1>5, <1>6, <1>7 DEF ReadyMeansReady

\* For every machine, firmware, boot loader and interleaving of interrupts, also without a
\* screen and with one lower than a character: system_init returns only into a system whose
\* segments, interrupts, local APIC, device pages, serial port and timers work, and whose
\* terminal has rows when the screen has room for one.
THEOREM SystemInitReturnsReady == Spec => []ReadyMeansReady
<1>1. Init => Dispatch /\ InterruptInv /\ HpetInv /\ ReadyInv
  BY DispatchInit, InterruptInvInit, HpetInvInit, ReadyInvInit
<1>2. Dispatch /\ InterruptInv /\ HpetInv /\ ReadyInv /\ [Next]_vars
      => Dispatch' /\ InterruptInv' /\ HpetInv' /\ ReadyInv'
  BY DispatchStep, InterruptInvStep, HpetInvStep, ReadyInvStep
<1>3. InterruptInv /\ ReadyInv => ReadyMeansReady
  BY SetIsReady
<1>. QED
  BY <1>1, <1>2, <1>3, PTL DEF Spec

-----------------------------------------------------------------------------
(* The devices are listed once *)

\* The ranks of n places are the numbers from 1 to n.
LEMMA Ranks ==
    ASSUME NEW places \in SUBSET Int, IsFiniteSet(places)
    PROVE  /\ Cardinality(places) \in Nat
           /\ \A i \in places : Rank(places, i) \in 1..Cardinality(places)
           /\ \A i, j \in places : Rank(places, i) = Rank(places, j) => i = j
           /\ \A k \in 1..Cardinality(places) : \E i \in places : Rank(places, i) = k
<1>. DEFINE n == Cardinality(places)
            UpTo(i) == {j \in places : j <= i}
            rank == [i \in places |-> Cardinality(UpTo(i))]
<1>1. n \in Nat
  BY FS_CardinalityType
<1>2. \A i \in places : IsFiniteSet(UpTo(i)) /\ Cardinality(UpTo(i)) \in Nat /\ Cardinality(UpTo(i)) <= n
  <2>. SUFFICES ASSUME NEW i \in places
                PROVE  IsFiniteSet(UpTo(i)) /\ Cardinality(UpTo(i)) \in Nat /\ Cardinality(UpTo(i)) <= n
    OBVIOUS
  <2>1. UpTo(i) \in SUBSET places
    OBVIOUS
  <2>. HIDE DEF UpTo
  <2>. QED
    BY <2>1, FS_Subset, FS_CardinalityType
<1>3. \A i \in places : Cardinality(UpTo(i)) \in 1..n
  <2>. SUFFICES ASSUME NEW i \in places PROVE Cardinality(UpTo(i)) # 0
    BY <1>1, <1>2
  <2>1. UpTo(i) # {}
    OBVIOUS
  <2>. HIDE DEF UpTo
  <2>. QED
    BY <1>2, <2>1, FS_EmptySet
<1>4. ASSUME NEW i \in places, NEW j \in places, i < j
      PROVE  Cardinality(UpTo(i)) # Cardinality(UpTo(j))
  <2>1. UpTo(i) \in SUBSET UpTo(j)
    <3>1. \A k \in places : k <= i => k <= j
      BY <1>4
    <3>. QED
      BY <3>1
  <2>2. j \in UpTo(j) /\ j \notin UpTo(i)
    BY <1>4
  <2>. HIDE DEF UpTo
  <2>. QED
    BY <1>2, <2>1, <2>2, FS_Subset
<1>5. rank \in Injection(places, 1..n)
  <2>1. rank \in [places -> 1..n]
    BY <1>3
  <2>2. \A i, j \in places : rank[i] = rank[j] => i = j
    BY <1>4
  <2>. HIDE DEF rank, n
  <2>. QED
    BY <2>1, <2>2 DEF Injection, IsInjective
<1>6. rank \in Surjection(places, 1..n)
  <2>1. IsFiniteSet(1..n) /\ Cardinality(1..n) = Cardinality(places)
    BY <1>1, FS_Interval
  <2>. HIDE DEF rank, n
  <2>. QED
    BY <1>5, <2>1, FS_Injection
<1>7. \A k \in 1..n : \E i \in places : rank[i] = k
  <2>. HIDE DEF rank, n
  <2>. QED
    BY <1>6 DEF Surjection
<1>. QED
  <2>1. \A i, j \in places : Cardinality(UpTo(i)) = Cardinality(UpTo(j)) => i = j
    BY <1>4
  <2>. QED
    BY <1>1, <1>3, <1>7, <2>1 DEF Rank

DistinctAt(s, places) == \A i, j \in places : i # j => s[i] # s[j]
Distinct(s) == DistinctAt(s, DOMAIN s)
ElementsAt(s, places) == {s[i] : i \in places}

\* Chosen gives the elements at the places, each once.
LEMMA ChosenAre ==
    ASSUME NEW S, NEW s \in Seq(S), NEW places \in SUBSET (1..Len(s)),
           NEW chosen, chosen = Chosen(s, places)
    PROVE  /\ chosen \in Seq(S)
           /\ ToSet(chosen) = ElementsAt(s, places)
           /\ DistinctAt(s, places) => Distinct(chosen)
<1>. DEFINE n == Cardinality(places)
            place(k) == CHOOSE i \in places : Rank(places, i) = k
<1>1. places \in SUBSET Int /\ IsFiniteSet(places)
  <2>1. Len(s) \in Int /\ 1 \in Int
    OBVIOUS
  <2>2. IsFiniteSet(1..Len(s))
    BY <2>1, FS_Interval
  <2>3. IsFiniteSet(places)
    BY <2>2, FS_Subset
  <2>4. places \in SUBSET Int
    OBVIOUS
  <2>. QED
    BY <2>3, <2>4
<1>2. /\ n \in Nat
      /\ \A i \in places : Rank(places, i) \in 1..n
      /\ \A i, j \in places : Rank(places, i) = Rank(places, j) => i = j
      /\ \A k \in 1..n : \E i \in places : Rank(places, i) = k
  BY <1>1, Ranks
<1>3. \A k \in 1..n : place(k) \in places /\ Rank(places, place(k)) = k
  <2>. HIDE DEF n
  <2>. QED
    BY <1>2
<1>4. chosen = [k \in 1..n |-> s[place(k)]]
  BY DEF Chosen, n, place
<1>. HIDE DEF n, place
<1>5. \A k \in 1..n : s[place(k)] \in S
  <2>1. \A i \in places : s[i] \in S
    OBVIOUS
  <2>. QED
    BY <1>3, <2>1
<1>6. chosen \in Seq(S) /\ Len(chosen) = n
  <2>1. chosen \in [1..n -> S]
    BY <1>4, <1>5
  <2>2. DOMAIN chosen = 1..n
    BY <1>4
  <2>3. chosen \in Seq(S)
    BY <1>2, <2>1, SeqDef
  <2>. QED
    BY <1>2, <2>2, <2>3, LenProperties
<1>7. ASSUME NEW i \in places PROVE \E k \in 1..n : chosen[k] = s[i]
  <2>. DEFINE k == Rank(places, i)
  <2>1. k \in 1..n /\ place(k) \in places /\ Rank(places, place(k)) = k
    BY <1>2, <1>3
  <2>2. place(k) = i
    BY <1>2, <2>1
  <2>. QED
    BY <1>4, <2>1, <2>2
<1>. QED
  <2>1. \A k \in 1..n : \E i \in places : chosen[k] = s[i]
    BY <1>3, <1>4
  <2>2. DOMAIN chosen = 1..n
    BY <1>4
  <2>3. ToSet(chosen) = ElementsAt(s, places)
    <3>1. ToSet(chosen) = {chosen[k] : k \in 1..n}
      BY <2>2 DEF ToSet
    <3>2. \A k \in 1..n : chosen[k] \in ElementsAt(s, places)
      BY <2>1 DEF ElementsAt
    <3>3. \A i \in places : s[i] \in {chosen[k] : k \in 1..n}
      BY <1>7
    <3>4. {chosen[k] : k \in 1..n} = {s[i] : i \in places}
      BY <3>2, <3>3 DEF ElementsAt
    <3>. QED
      BY <3>1, <3>4 DEF ElementsAt
  <2>4. ASSUME DistinctAt(s, places) PROVE Distinct(chosen)
    <3>1. ASSUME NEW k \in 1..n, NEW l \in 1..n, k # l PROVE chosen[k] # chosen[l]
      <4>1. place(k) \in places /\ place(l) \in places /\ place(k) # place(l)
        BY <1>3, <3>1
      <4>2. chosen[k] = s[place(k)] /\ chosen[l] = s[place(l)]
        BY <1>4
      <4>. QED
        BY <2>4, <4>1, <4>2, Zenon DEF DistinctAt
    <3>. QED
      BY <2>2, <3>1, Zenon DEF Distinct, DistinctAt
  <2>. QED
    BY <1>6, <2>3, <2>4

\* vector_append makes room for what it appends.
LEMMA RoomForAll ==
    ASSUME NEW vec, NEW elems, Len(elems) \in Nat, vec.length \in Nat, vec.capacity \in Nat,
           vec.length <= vec.capacity
    PROVE  /\ vector_append(vec, elems).capacity \in Nat
           /\ vec.length + Len(elems) <= vector_append(vec, elems).capacity
<1>. DEFINE N == Len(elems)
            Grown(n, c) == IF c < vec.length + n THEN (vec.length + n) * RESIZE ELSE c
            Made(f, m) == f = [n \in 0..m |-> IF n = 0 THEN vec.capacity ELSE Grown(n, f[n - 1])]
            capacity == CHOOSE f : Made(f, N)
            made == {m \in 0..N : \E f : Made(f, m)}
            large == {n \in 0..N : capacity[n] \in Nat /\ vec.length + n <= capacity[n]}
<1>1. 0 \in made
  <2>1. Made([n \in 0..0 |-> vec.capacity], 0)
    OBVIOUS
  <2>. HIDE DEF Made
  <2>. QED
    BY <2>1
<1>2. \A m \in 1..N : m - 1 \in made => m \in made
  <2>. SUFFICES ASSUME NEW m \in 1..N, m - 1 \in made PROVE m \in made
    OBVIOUS
  <2>1. PICK f : Made(f, m - 1)
    OBVIOUS
  <2>. DEFINE g == [n \in 0..m |-> IF n < m THEN f[n] ELSE Grown(m, f[m - 1])]
  <2>2. Made(g, m)
    <3>. HIDE DEF Grown
    <3>1. \A n \in 0..m : g[n] = IF n = 0 THEN vec.capacity ELSE Grown(n, g[n - 1])
      BY <2>1
    <3>. HIDE DEF g
    <3>2. g = [n \in 0..m |-> g[n]]
      BY DEF g
    <3>. QED
      BY <3>1, <3>2
  <2>. HIDE DEF Made, g
  <2>. QED
    BY <2>2
<1>3. N \in made
  <2>. HIDE DEF made
  <2>1. \A m \in 0..N : m \in made
    BY <1>1, <1>2, CountUp, Zenon
  <2>. QED
    BY <2>1
<1>4. Made(capacity, N)
  <2>. HIDE DEF Made
  <2>. QED
    BY <1>3
<1>5. \A n \in 0..N : capacity[n] = IF n = 0 THEN vec.capacity ELSE Grown(n, capacity[n - 1])
  <2>. HIDE DEF capacity, Grown
  <2>. QED
    BY <1>4
<1>. HIDE DEF capacity
<1>6. 0 \in large
  BY <1>5
<1>7. \A n \in 1..N : n - 1 \in large => n \in large
  <2>. SUFFICES ASSUME NEW n \in 1..N, n - 1 \in large PROVE n \in large
    OBVIOUS
  <2>1. capacity[n] = Grown(n, capacity[n - 1]) /\ capacity[n - 1] \in Nat
    BY <1>5
  <2>. QED
    BY <2>1 DEF RESIZE
<1>8. N \in large
  <2>. HIDE DEF large
  <2>1. \A n \in 0..N : n \in large
    BY <1>6, <1>7, CountUp, Zenon
  <2>. QED
    BY <2>1
<1>9. vector_append(vec, elems).capacity = capacity[N]
  BY DEF vector_append, capacity
<1>. QED
  BY <1>8, <1>9

Bus0 == {f \in PCI_DEVICE_INFO : f[1] = 0}

\* The functions of a bus are known by the numbers of their device and their own.
LEMMA PlacesOfBus0 ==
    /\ \A device \in 0..31, func \in 0..7 : <<0, device, func>> \in Bus0
    /\ \A f \in Bus0 : f[2] \in 0..31 /\ f[3] \in 0..7 /\ f = <<0, f[2], f[3]>>
<1>1. ASSUME NEW device \in 0..31, NEW func \in 0..7 PROVE <<0, device, func>> \in Bus0
  BY DEF Bus0, PCI_DEVICE_INFO
<1>2. ASSUME NEW f \in Bus0 PROVE f[2] \in 0..31 /\ f[3] \in 0..7 /\ f = <<0, f[2], f[3]>>
  BY DEF Bus0, PCI_DEVICE_INFO
<1>. QED
  BY <1>1, <1>2, Zenon

\* The 256 steps of the scan look at the functions of bus 0, at each of them once.
LEMMA ScanReachesAll ==
    /\ ScanOrder \in Seq(Bus0) /\ Len(ScanOrder) = 256 /\ DOMAIN ScanOrder = 1..256
    /\ \A n \in 1..256 : ScanOrder[n] \in Bus0
    /\ \A f \in Bus0 : \E n \in 1..256 : ScanOrder[n] = f
    /\ \A m, n \in 1..256 : m # n => ScanOrder[m] # ScanOrder[n]
<1>1. \A n \in 1..256 : /\ (n - 1) \div 256 = 0 /\ ((n - 1) \div 8) % 32 = (n - 1) \div 8
                        /\ (n - 1) \div 8 \in 0..31 /\ (n - 1) % 8 \in 0..7
  OBVIOUS
<1>2. ScanOrder = [n \in 1..256 |-> <<(n - 1) \div 256, ((n - 1) \div 8) % 32, (n - 1) % 8>>]
  BY DEF ScanOrder, MAX_BUS_NUM, MAX_DEVICE_NUM, MAX_FUNCTION_NUM
<1>3. \A n \in 1..256 : ScanOrder[n] = <<0, (n - 1) \div 8, (n - 1) % 8>>
  BY <1>1, <1>2
<1>4. \A n \in 1..256 : ScanOrder[n] \in Bus0
  BY <1>1, <1>3, PlacesOfBus0, Zenon
<1>5. ScanOrder \in [1..256 -> Bus0]
  BY <1>2, <1>4
<1>6. ScanOrder \in Seq(Bus0) /\ Len(ScanOrder) = 256
  <2>1. ScanOrder \in Seq(Bus0)
    <3>1. 256 \in Nat
      OBVIOUS
    <3>2. \A s, S : s \in [1..256 -> S] => s \in Seq(S)
      BY <3>1, SeqDef
    <3>. QED
      BY <1>5, <3>2, Zenon
  <2>2. DOMAIN ScanOrder = 1..256
    BY <1>2
  <2>. QED
    BY <2>1, <2>2, LenProperties
<1>7. \A device \in 0..31, func \in 0..7 :
         /\ device * 8 + func + 1 \in 1..256
         /\ (device * 8 + func) \div 8 = device /\ (device * 8 + func) % 8 = func
  OBVIOUS
<1>8. ASSUME NEW device \in 0..31, NEW func \in 0..7
      PROVE  \E n \in 1..256 : ScanOrder[n] = <<0, device, func>>
  <2>1. \A n \in Nat : n + 1 - 1 = n
    OBVIOUS
  <2>. DEFINE n == device * 8 + func
  <2>2. n \in Nat /\ n + 1 \in 1..256 /\ n \div 8 = device /\ n % 8 = func
    BY <1>7
  <2>3. n + 1 - 1 = n
    BY <2>1, <2>2
  <2>. HIDE DEF n
  <2>4. \A m \in 1..256 : m - 1 = n => ScanOrder[m] = <<0, device, func>>
    BY <1>3, <2>2, Zenon
  <2>5. ScanOrder[n + 1] = <<0, device, func>>
    BY <2>2, <2>3, <2>4
  <2>. QED
    BY <2>2, <2>5
<1>9. ASSUME NEW m \in 1..256, NEW n \in 1..256, m # n PROVE ScanOrder[m] # ScanOrder[n]
  <2>. DEFINE device(i) == (i - 1) \div 8
              func(i) == (i - 1) % 8
  <2>1. \A i \in 1..256 : i = device(i) * 8 + func(i) + 1
    OBVIOUS
  <2>2. ScanOrder[m] = <<0, device(m), func(m)>> /\ ScanOrder[n] = <<0, device(n), func(n)>>
    BY <1>3
  <2>. HIDE DEF device, func
  <2>3. device(m) # device(n) \/ func(m) # func(n)
    <3>1. m = device(m) * 8 + func(m) + 1 /\ n = device(n) * 8 + func(n) + 1
      BY <2>1, Zenon
    <3>. QED
      BY <1>9, <3>1, Zenon
  <2>. QED
    BY <2>2, <2>3
<1>10. ASSUME NEW f \in Bus0 PROVE \E n \in 1..256 : ScanOrder[n] = f
  <2>1. f[2] \in 0..31 /\ f[3] \in 0..7 /\ f = <<0, f[2], f[3]>>
    BY PlacesOfBus0, Zenon
  <2>2. \E n \in 1..256 : ScanOrder[n] = <<0, f[2], f[3]>>
    BY <1>8, <2>1, Zenon
  <2>. QED
    BY <2>1, <2>2, Zenon
<1>. QED
  BY <1>2, <1>4, <1>6, <1>9, <1>10, Zenon

\* scan_device finds a function if and only if it is there: one that a device with a single
\* function answers for is not looked for.
LEMMA ScanFinds ==
    ASSUME NEW space \in PciMachines, NEW f \in Bus0
    PROVE  scan_device(space, f[1], f[2], f[3]) <=> f \in DOMAIN space
<1>. DEFINE first == <<0, f[2], 0>>
<1>1. f[1] = 0 /\ f = <<0, f[2], f[3]>>
  BY PlacesOfBus0, Zenon DEF Bus0
<1>2. \A e \in DOMAIN space : space[e].vendor # 65535
  BY PciAssumption
<1>3. f \in DOMAIN space => first \in DOMAIN space
  <2>1. f \in DOMAIN space => <<f[1], f[2], 0>> \in DOMAIN space
    BY PciAssumption
  <2>. QED
    BY <1>1, <2>1
<1>4. f \in DOMAIN space => f[3] = 0 \/ IsMultifunction(space, 0, f[2])
  <2>1. f \in DOMAIN space => f[3] = 0 \/ IsMultifunction(space, f[1], f[2])
    BY PciAssumption
  <2>. QED
    BY <1>1, <2>1
<1>5. PCI_FUNCTION_EXISTS(space, 0, f[2], 0) <=> first \in DOMAIN space
  BY <1>2 DEF PCI_FUNCTION_EXISTS, PCI_READ_VENDOR_ID, pci_ind
<1>6. IsMultifunction(space, 0, f[2]) =>
         (PCI_FUNCTION_EXISTS(space, 0, f[2], f[3]) <=> f \in DOMAIN space)
  BY <1>1, <1>2 DEF PCI_FUNCTION_EXISTS, PCI_READ_VENDOR_ID, pci_ind
<1>7. f[3] = 0 => f = first
  BY <1>1
<1>. HIDE DEF first
<1>8. scan_device(space, 0, f[2], f[3]) <=> f \in DOMAIN space
  BY <1>3, <1>4, <1>5, <1>6, <1>7, Zenon DEF scan_device
<1>. QED
  BY <1>1, <1>8

\* What the scan of a machine finds is what is there on bus 0, each function once.
LEMMA ScanIsExact ==
    ASSUME NEW space \in PciMachines,
           NEW found, \A n : n \in found <=>
               /\ n \in DOMAIN ScanOrder
               /\ scan_device(space, ScanOrder[n][1], ScanOrder[n][2], ScanOrder[n][3]),
           NEW elems, elems = Chosen(ScanOrder, found)
    PROVE  /\ elems \in Seq(PCI_DEVICE_INFO)
           /\ Distinct(elems)
           /\ ToSet(elems) = {f \in DOMAIN space : f[1] = 0}
<1>1. ScanOrder \in Seq(Bus0) /\ Len(ScanOrder) = 256 /\ DOMAIN ScanOrder = 1..256
  BY ScanReachesAll, Zenon
<1>2. \A n \in 1..256 : ScanOrder[n] \in Bus0
  BY ScanReachesAll, Zenon
<1>3. \A f \in Bus0 : \E n \in 1..256 : ScanOrder[n] = f
  BY ScanReachesAll, Zenon
<1>4. \A m, n \in 1..256 : m # n => ScanOrder[m] # ScanOrder[n]
  BY ScanReachesAll, Zenon
<1>5. \A i \in found : i \in 1..256
  BY <1>1, Zenon
<1>6. found \in SUBSET (1..Len(ScanOrder))
  BY <1>1, <1>5
<1>7. ASSUME NEW n \in 1..256 PROVE n \in found <=> ScanOrder[n] \in DOMAIN space
  <2>1. n \in found <=> scan_device(space, ScanOrder[n][1], ScanOrder[n][2], ScanOrder[n][3])
    <3>1. n \in DOMAIN ScanOrder
      BY <1>1
    <3>. QED
      BY <3>1, Zenon
  <2>2. ScanOrder[n] \in Bus0
    BY <1>2, Zenon
  <2>. QED
    BY <2>1, <2>2, ScanFinds, Zenon
<1>8. /\ elems \in Seq(Bus0)
      /\ ToSet(elems) = ElementsAt(ScanOrder, found)
      /\ DistinctAt(ScanOrder, found) => Distinct(elems)
  BY <1>1, <1>6, ChosenAre
<1>9. Distinct(elems)
  <2>1. DistinctAt(ScanOrder, found)
    BY <1>4, <1>5, Zenon DEF DistinctAt
  <2>. QED
    BY <1>8, <2>1
<1>10. \A i \in found : ScanOrder[i] \in {f \in DOMAIN space : f[1] = 0}
  BY <1>2, <1>5, <1>7, Zenon DEF Bus0
<1>11. ASSUME NEW f \in DOMAIN space, f[1] = 0 PROVE \E i \in found : ScanOrder[i] = f
  <2>1. f \in PCI_DEVICE_INFO
    BY PciAssumption
  <2>2. f \in Bus0
    BY <1>11, <2>1, Zenon DEF Bus0
  <2>3. PICK n \in 1..256 : ScanOrder[n] = f
    BY <1>3, <2>2, Zenon
  <2>4. n \in found
    BY <1>7, <2>3, Zenon
  <2>. QED
    BY <2>3, <2>4, Zenon
<1>12. ElementsAt(ScanOrder, found) = {f \in DOMAIN space : f[1] = 0}
  BY <1>10, <1>11 DEF ElementsAt
<1>13. ToSet(elems) = {f \in DOMAIN space : f[1] = 0}
  BY <1>8, <1>12
<1>14. elems \in Seq(PCI_DEVICE_INFO)
  <2>1. \A f \in Bus0 : f \in PCI_DEVICE_INFO
    BY DEF Bus0
  <2>. QED
    BY <1>8, <2>1
<1>. QED
  BY <1>9, <1>13, <1>14

BeforeScan == Early \cup {"pm", "vm", "acpi", "hpet", "cmos", "pci"}

\* The vector has room for the devices that are in it.
DevicesFit ==
    /\ device_list.data \in Seq(PCI_DEVICE_INFO)
    /\ device_list.length = Len(device_list.data)
    /\ device_list.capacity \in Nat /\ device_list.length <= device_list.capacity

\* Nothing is listed before the scan, and the scan happens once.
PciInv ==
    /\ pc \in BeforeScan => pci_space = <<>> /\ device_list = NoDevices
    /\ DevicesFit
    /\ RootBusListedOnce

\* Before the boot nothing is listed.
LEMMA PciInvInit == Init => PciInv
<1>. SUFFICES ASSUME Init PROVE PciInv
  OBVIOUS
<1>1. pci_space = <<>> /\ device_list = NoDevices
  BY DEF Init, PciInit
<1>2. RootBusListedOnce
  BY <1>1 DEF RootBusListedOnce
<1>3. DevicesFit
  BY <1>1 DEF DevicesFit, NoDevices
<1>. QED
  BY <1>1, <1>2, <1>3 DEF PciInv

\* The scan of a machine lists what is there, once.
LEMMA ScanPciLists == ASSUME PciInv, ScanPci PROVE PciInv'
<1>1. pc = "pci" /\ pc' = "fb"
  BY DEF ScanPci, Step
<1>2. device_list = NoDevices
  BY <1>1 DEF PciInv, BeforeScan
<1>3. PICK space \in PciMachines : pci_init(space)
  BY DEF ScanPci
<1>. DEFINE found == {n \in DOMAIN ScanOrder :
                        scan_device(space, ScanOrder[n][1], ScanOrder[n][2], ScanOrder[n][3])}
            elems == Chosen(ScanOrder, found)
<1>4. pci_space' = space /\ device_list' = vector_append(NoDevices, elems)
  BY <1>2, <1>3 DEF pci_init
<1>5. /\ elems \in Seq(PCI_DEVICE_INFO)
      /\ Distinct(elems)
      /\ ToSet(elems) = {f \in DOMAIN space : f[1] = 0}
  <2>1. \A n : n \in found <=>
           /\ n \in DOMAIN ScanOrder
           /\ scan_device(space, ScanOrder[n][1], ScanOrder[n][2], ScanOrder[n][3])
    OBVIOUS
  <2>. HIDE DEF found, elems
  <2>2. elems = Chosen(ScanOrder, found)
    BY DEF elems
  <2>. QED
    BY <2>1, <2>2, ScanIsExact
<1>. HIDE DEF found
<1>. HIDE DEF elems
<1>6. /\ device_list'.length = Len(elems) /\ device_list'.data = elems
      /\ Len(elems) \in Nat
  <2>1. Len(elems) \in Nat /\ <<>> \o elems = elems
    BY <1>5
  <2>. QED
    BY <1>4, <2>1 DEF vector_append, NoDevices
<1>7. device_list'.capacity \in Nat /\ Len(elems) <= device_list'.capacity
  <2>1. NoDevices.length = 0 /\ NoDevices.capacity = 0
    BY DEF NoDevices
  <2>2. vector_append(NoDevices, elems).capacity \in Nat
        /\ NoDevices.length + Len(elems) <= vector_append(NoDevices, elems).capacity
    BY <1>6, <2>1, RoomForAll
  <2>. QED
    BY <1>4, <1>6, <2>1, <2>2
<1>8. DevicesFit'
  BY <1>5, <1>6, <1>7 DEF DevicesFit
<1>9. RootBusListedOnce'
  BY <1>4, <1>5, <1>6 DEF RootBusListedOnce, Distinct, DistinctAt
<1>. QED
  <2>1. pc' \notin BeforeScan
    BY <1>1 DEF BeforeScan, Early, NoGdt
  <2>. QED
    BY <1>8, <1>9, <2>1 DEF PciInv

\* No other step touches the list, and none goes back to before the scan.
LEMMA PciInvStep == ASSUME PciInv, [Next]_vars PROVE PciInv'
<1>1. CASE ScanPci
  BY <1>1, ScanPciLists
<1>2. CASE ~ScanPci
  <2>1. pci_space' = pci_space /\ device_list' = device_list
    BY <1>2 DEF Next, SystemInit, vars, PciVars, CheckBootLoader, SerialPort, GdtInit, IdtInit, CpuInit,
                IsrInit, PmInit, VmInit, AcpiTables, StartHpet, ReadClock, ClockRuns, Show, IrqInit,
                KeyboardOff, KeyboardReady, ApicInit, PageFault, Interrupt, Taken, UseKeyboard
  <2>2. pc' \in BeforeScan => pc \in BeforeScan
    BY <1>2 DEF Next, SystemInit, vars, Step, CheckBootLoader, SerialPort, GdtInit, IdtInit, CpuInit,
                IsrInit, PmInit, VmInit, AcpiTables, StartHpet, ReadClock, ClockRuns, Show, IrqInit,
                KeyboardOff, KeyboardReady, ApicInit, PageFault, Interrupt, Taken, UseKeyboard, BeforeScan, Early, NoGdt
  <2>. QED
    BY <2>1, <2>2 DEF PciInv, DevicesFit, RootBusListedOnce
<1>. QED
  BY <1>1, <1>2

\* For every configuration space, pci_init lists each function of bus 0 once, and nothing
\* that is not there.
THEOREM ScanListsRootBusOnce == Spec => []RootBusListedOnce
<1>1. PciInv => RootBusListedOnce
  BY DEF PciInv
<1>. QED
  BY <1>1, PciInvInit, PciInvStep, PTL DEF Spec

-----------------------------------------------------------------------------
(* Arrays and records hold what is put into them *)

Reasons == {"no", "fault", "report", "interrupt", "exception", "reset"}

\* What the parts write into their arrays and records.
TypeInv ==
    /\ halted \in Reasons
    /\ gdt \in Seq(GDT_ENTRY)
    /\ idt \in [Vectors -> IDT_ENTRY]
    /\ hpet_regs \in HPET
    /\ initial_fb \in FRAMEBUFFER /\ term \in TERMINAL
    /\ Len(io_apics) <= 4 /\ Len(local_apics) <= MAX_CPUS
    /\ last_keystroke \in 0..255 /\ typed \in {0, 8} \cup 32..126

\* Everything is empty, or zero.
LEMMA TypeInvInit == Init => TypeInv
<1>. SUFFICES ASSUME Init PROVE TypeInv
  OBVIOUS
<1>1. halted \in Reasons
  BY DEF Init, MachineInit, Reasons
<1>2. gdt \in Seq(GDT_ENTRY)
  BY DEF Init, InterruptInit
<1>3. idt \in [Vectors -> IDT_ENTRY]
  BY DEF Init, InterruptInit, idt_init_entry, IDT_ENTRY, Stubs, Selectors
<1>4. hpet_regs \in HPET
  <2>1. <<>> \in Seq(Bits) /\ {} \in Bits
    BY DEF Bits
  <2>. QED
    BY <2>1 DEF Init, HpetInit, HPET
<1>5. initial_fb \in FRAMEBUFFER /\ term \in TERMINAL
  BY DEF Init, DisplayInit, FRAMEBUFFER, TERMINAL
<1>6. Len(io_apics) <= 4 /\ Len(local_apics) <= MAX_CPUS
  BY AcpiAssumption DEF Init, AcpiInit
<1>7. last_keystroke \in 0..255 /\ typed \in {0, 8} \cup 32..126
  BY DEF Init, KeyboardInit
<1>. QED
  BY <1>1, <1>2, <1>3, <1>4, <1>5, <1>6, <1>7 DEF TypeInv

\* Whatever stops the machine has a name.
LEMMA StopsForAReason == ASSUME halted \in Reasons, [Next]_vars PROVE halted' \in Reasons
<1>1. CASE CheckBootLoader \/ SerialPort \/ GdtInit \/ IdtInit \/ CpuInit \/ IsrInit
  BY <1>1 DEF CheckBootLoader, SerialPort, GdtInit, IdtInit, CpuInit, IsrInit, MachineVars,
              halt, GoesOn, Reasons
<1>2. CASE PmInit \/ VmInit \/ StartHpet \/ ReadClock \/ ScanPci \/ ClockRuns
  BY <1>2 DEF PmInit, VmInit, StartHpet, hpet_init, ReadClock, ScanPci, ClockRuns, MachineVars,
              halt, GoesOn, Reasons
<1>3. CASE AcpiTables
  BY <1>3 DEF AcpiTables, acpi_init, madt_init, halt, GoesOn, Reasons
<1>4. CASE Show
  BY <1>4 DEF Show, fb_init, psf1_font_init, init_terminal, halt, GoesOn, Reasons
<1>5. CASE IrqInit \/ KeyboardOff \/ KeyboardReady \/ UseKeyboard
  BY <1>5 DEF IrqInit, KeyboardOff, KeyboardReady, UseKeyboard, MachineVars
<1>6. CASE ApicInit
  BY <1>6 DEF ApicInit, apic_find, apic_reset_error_reg, apic_map, apic_enable, apic_check_error_reg,
              apic_write_reg, apic_access, page_fault, halt, GoesOn, Reasons
<1>7. CASE PageFault \/ \E v \in Vectors : Interrupt(v)
  BY <1>7 DEF PageFault, Interrupt, Taken, isr_handler, halt, GoesOn, Reasons
<1>8. CASE UNCHANGED vars
  BY <1>8 DEF vars, MachineVars
<1>. QED
  BY <1>1, <1>2, <1>3, <1>4, <1>5, <1>6, <1>7, <1>8 DEF Next, SystemInit

\* The nine descriptors of the kernel.
LEMMA GdtEntries == GdtTable \in Seq(GDT_ENTRY)
<1>. DEFINE entry(access, flags) == [access |-> access, flags |-> flags]
<1>1. GdtTable = << entry(0, 0), entry(154, 0), entry(146, 0), entry(154, 192), entry(146, 192),
                    entry(154, 160), entry(146, 160), entry(250, 160), entry(242, 160) >>
  BY DEF GdtTable, gdt_init_entry, KernelCode, KernelData, Ring3
<1>2. \A access, flags \in 0..255 : entry(access, flags) \in GDT_ENTRY
  BY DEF GDT_ENTRY
<1>. HIDE DEF entry
<1>. QED
  BY <1>1, <1>2

\* An entry of a stub, a selector and a type.
LEMMA EntryMade ==
    ASSUME NEW stub \in Stubs, NEW sel \in Selectors, NEW flags \in 0..255
    PROVE  idt_init_entry(stub, sel, flags) \in IDT_ENTRY
  BY DEF idt_init_entry, IDT_ENTRY

\* Opening and closing a gate leaves it an entry.
LEMMA GateStaysEntry ==
    ASSUME NEW gate \in IDT_ENTRY
    PROVE  /\ [gate EXCEPT !.type = WithBit(@, 7)] \in IDT_ENTRY
           /\ [gate EXCEPT !.type = WithoutBit(@, 7)] \in IDT_ENTRY
<1>1. \A t \in 0..255 : WithBit(t, 7) \in 0..255 /\ WithoutBit(t, 7) \in 0..255
  BY DEF WithBit, WithoutBit, Bit
<1>2. gate.type \in 0..255
  BY DEF IDT_ENTRY
<1>. DEFINE with == WithBit(gate.type, 7)
            without == WithoutBit(gate.type, 7)
<1>3. with \in 0..255 /\ without \in 0..255
  BY <1>1, <1>2
<1>. HIDE DEF with, without
<1>4. [gate EXCEPT !.type = with] \in IDT_ENTRY /\ [gate EXCEPT !.type = without] \in IDT_ENTRY
  <2>1. gate.isr \in Stubs /\ gate.selector \in Selectors
    BY DEF IDT_ENTRY
  <2>2. /\ [gate EXCEPT !.type = with] = idt_init_entry(gate.isr, gate.selector, with)
        /\ [gate EXCEPT !.type = without] = idt_init_entry(gate.isr, gate.selector, without)
    BY DEF IDT_ENTRY, idt_init_entry
  <2>. QED
    BY <1>3, <2>1, <2>2, EntryMade
<1>. QED
  BY <1>4 DEF with, without

\* Gates are emptied, made, opened and closed.
LEMMA GatesAreEntries ==
    ASSUME idt \in [Vectors -> IDT_ENTRY], IdtInit \/ IsrInit \/ IrqInit
    PROVE  idt' \in [Vectors -> IDT_ENTRY]
<1>1. CASE IdtInit
  <2>1. 0 \in Stubs /\ 0 \in Selectors /\ 0 \in 0..255
    BY DEF Stubs, Selectors
  <2>2. idt_init_entry(0, 0, 0) \in IDT_ENTRY
    BY <2>1, EntryMade, Zenon
  <2>. QED
    BY <1>1, <2>2 DEF IdtInit, idt_init
<1>2. CASE IsrInit
  <2>. DEFINE made == isr_init_entries
              open == [v \in Vectors |-> idt_enable_gate(made, v)[v]]
  <2>1. made \in [Vectors -> IDT_ENTRY]
    <3>1. GDT_KERNEL_CODE_64_BIT \in Selectors /\ IDT_FLAG_GATE_64BIT_INT \in 0..255
      BY DEF Selectors, GDT_KERNEL_CODE_64_BIT, IDT_FLAG_GATE_64BIT_INT
    <3>2. \A v \in Vectors : v \in Stubs
      BY BootAssumption DEF Stubs
    <3>3. \A v \in Vectors :
             idt_init_entry(v, GDT_KERNEL_CODE_64_BIT, IDT_FLAG_GATE_64BIT_INT) \in IDT_ENTRY
      BY <3>1, <3>2, EntryMade, Zenon
    <3>. QED
      BY <3>3 DEF isr_init_entries
  <2>. HIDE DEF made
  <2>2. ASSUME NEW v \in Vectors PROVE idt_enable_gate(made, v)[v] \in IDT_ENTRY
    <3>1. idt_enable_gate(made, v)[v] = [made[v] EXCEPT !.type = WithBit(@, 7)]
      BY <2>1 DEF idt_enable_gate
    <3>2. made[v] \in IDT_ENTRY
      BY <2>1
    <3>. QED
      BY <3>1, <3>2, GateStaysEntry
  <2>3. open \in [Vectors -> IDT_ENTRY]
    BY <2>2
  <2>4. idt' = IF 128 \in Vectors THEN idt_disable_gate(open, 128) ELSE open
    BY <1>2 DEF IsrInit, isr_init, made
  <2>. HIDE DEF open
  <2>5. ASSUME 128 \in Vectors PROVE idt_disable_gate(open, 128) \in [Vectors -> IDT_ENTRY]
    <3>1. open[128] \in IDT_ENTRY
      BY <2>3, <2>5
    <3>. DEFINE closed == [open[128] EXCEPT !.type = WithoutBit(@, 7)]
    <3>2. closed \in IDT_ENTRY
      BY <3>1, GateStaysEntry
    <3>3. idt_disable_gate(open, 128) = [open EXCEPT ![128] = closed]
      BY <2>3, <2>5 DEF idt_disable_gate
    <3>. HIDE DEF closed
    <3>. QED
      BY <2>3, <3>2, <3>3
  <2>. QED
    BY <2>3, <2>4, <2>5
<1>3. CASE IrqInit
  <2>1. CASE UNCHANGED idt
    BY <2>1
  <2>2. CASE idt' = [v \in Vectors |-> IF v \in HardwareVectors THEN idt_enable_gate(idt, v)[v]
                                       ELSE idt[v]]
    <3>1. ASSUME NEW v \in Vectors PROVE idt_enable_gate(idt, v)[v] \in IDT_ENTRY
      <4>1. idt_enable_gate(idt, v)[v] = [idt[v] EXCEPT !.type = WithBit(@, 7)]
        BY DEF idt_enable_gate
      <4>. QED
        BY <4>1, GateStaysEntry
    <3>. QED
      BY <2>2, <3>1
  <2>. QED
    BY <1>3, <2>1, <2>2 DEF IrqInit, irq_init, IrqFound, IrqNotFound, isr_register_handler
<1>. QED
  BY <1>1, <1>2, <1>3

\* The registers of the HPET are those of a device, with timers reset and a bit set.
LEMMA HpetStaysHpet ==
    ASSUME hpet_regs \in HPET, HpetInv, StartHpet
    PROVE  hpet_regs' \in HPET
<1>. DEFINE found == acpi_get_sdt(sdt, "HPET")
<1>1. CASE found = NULL
  BY <1>1 DEF StartHpet, hpet_init, HpetVars
<1>2. CASE found # NULL
  <2>. DEFINE num == found.comparator_count + 1
  <2>1. sdt # NULL /\ sdt \in Seq(ACPI_SDT)
    BY <1>2 DEF HpetInv, acpi_get_sdt
  <2>2. num \in 1..HPET_MAX_COMPARATOR
    <3>1. PICK t \in ACPI_SDT : t = found /\ t.signature = "HPET"
      BY <1>2, <2>1, SdtFound
    <3>2. t \in HPET_SDT
      BY <3>1 DEF ACPI_SDT, MADT
    <3>3. t.comparator_count \in 0..31
      BY <3>2 DEF HPET_SDT
    <3>. QED
      BY <3>1, <3>3 DEF HPET_MAX_COMPARATOR
  <2>3. PICK d \in HpetStates(num) : HpetFound(found, d)
    BY <1>2 DEF StartHpet, hpet_init
  <2>4. d \in HPET
    BY <2>2, <2>3, HpetAssumption
  <2>. DEFINE after == hpet_reset_comparators(d.timers, num)
              config == hpet_enable(d.config)
  <2>5. after \in Seq(Bits)
    <3>1. d.timers \in Seq(Bits)
      BY <2>4 DEF HPET
    <3>2. \A t \in Bits : t \cap ReadOnly \in Bits
      BY DEF Bits
    <3>3. DOMAIN after = 1..Len(d.timers) /\ Len(d.timers) \in Nat
      BY <3>1 DEF hpet_reset_comparators
    <3>4. ASSUME NEW i \in 1..Len(d.timers) PROVE after[i] \in Bits
      <4>1. d.timers[i] \in Bits
        BY <3>1
      <4>2. after[i] = d.timers[i] \cap ReadOnly \/ after[i] = d.timers[i]
        BY <3>3 DEF hpet_reset_comparators
      <4>. QED
        BY <3>2, <4>1, <4>2, Zenon
    <3>5. after = [i \in 1..Len(d.timers) |-> after[i]]
      BY <3>3 DEF hpet_reset_comparators
    <3>. HIDE DEF after
    <3>6. after \in [1..Len(d.timers) -> Bits]
      BY <3>4, <3>5
    <3>. QED
      BY <3>3, <3>6, SeqDef
  <2>6. config \in Bits
    BY <2>4 DEF hpet_enable, GEN_CONFIG_SET, ENABLE_CNF, HPET, Bits
  <2>7. hpet_regs' = d \/ hpet_regs' = [d EXCEPT !.timers = after, !.config = config]
    <3>1. [d EXCEPT !.timers = hpet_reset_comparators(@, num), !.config = hpet_enable(@)]
            = [d EXCEPT !.timers = after, !.config = config]
      BY <2>4 DEF HPET
    <3>. HIDE DEF after, config
    <3>. QED
      BY <2>3, <3>1, Zenon DEF HpetFound, num
  <2>. HIDE DEF after, config
  <2>. QED
    BY <2>4, <2>5, <2>6, <2>7 DEF HPET
<1>. QED
  BY <1>1, <1>2

\* The screen and the terminal have sizes.
LEMMA SizesAreNumbers ==
    ASSUME initial_fb \in FRAMEBUFFER, term \in TERMINAL, ReadyInv, Show
    PROVE  initial_fb' \in FRAMEBUFFER /\ term' \in TERMINAL
<1>1. CASE \E response \in FbResponses : fb_init(response)
  <2>1. PICK response \in FbResponses : fb_init(response)
    BY <1>1
  <2>2. CASE response = NULL \/ response = <<>>
    BY <2>1, <2>2 DEF fb_init
  <2>3. CASE response # NULL /\ response # <<>>
    <3>1. response[1] \in FRAMEBUFFER \cup {NULL}
      <4>1. response \in Seq(FRAMEBUFFER \cup {NULL})
        BY <2>3, DisplayAssumption
      <4>2. Len(response) \in Nat \ {0}
        BY <2>3, <4>1
      <4>. QED
        BY <4>1, <4>2
    <3>. QED
      BY <2>1, <2>3, <3>1 DEF fb_init
  <2>. QED
    BY <2>2, <2>3
<1>2. CASE \E response \in ModuleResponses, memory \in BOOLEAN : psf1_font_init(response, memory)
  BY <1>2 DEF psf1_font_init
<1>3. CASE Step("terminal", "irq") /\ init_terminal
  <2>1. initial_fb' = initial_fb
    BY <1>3 DEF init_terminal
  <2>2. CASE font.header = NULL
    BY <1>3, <2>1, <2>2 DEF init_terminal
  <2>3. CASE font.header # NULL
    <3>. DEFINE rows == initial_fb.height \div font.header
                columns == initial_fb.width \div PSF1_FONT_WIDTH
    <3>1. initial_fb.height \in Nat /\ initial_fb.width \in Nat
      BY DEF FRAMEBUFFER
    <3>2. font.header \in 1..255
      BY <1>3, <2>3 DEF Step, ReadyInv, DisplaySet, WithFont, WithScreen
    <3>3. rows \in Nat /\ columns \in Nat
      BY <3>1, <3>2 DEF PSF1_FONT_WIDTH
    <3>4. term' = [height |-> rows, width |-> columns]
      BY <1>3, <2>3 DEF init_terminal
    <3>. HIDE DEF rows, columns
    <3>. QED
      BY <2>1, <3>3, <3>4 DEF TERMINAL
  <2>. QED
    BY <2>2, <2>3
<1>. QED
  BY <1>1, <1>2, <1>3 DEF Show

\* Taking the first elements of a sequence, up to so many.
LEMMA FirstOnes ==
    ASSUME NEW S, NEW list \in Seq(S), NEW n \in Nat
    PROVE  FirstUpTo(list, n) \in Seq(S) /\ Len(FirstUpTo(list, n)) <= n
<1>. DEFINE m == IF Len(list) < n THEN Len(list) ELSE n
<1>1. m \in 0..Len(list) /\ m <= n
  OBVIOUS
<1>. HIDE DEF m
<1>2. SubSeq(list, 1, m) \in Seq(S) /\ Len(SubSeq(list, 1, m)) = m
  BY <1>1
<1>. QED
  BY <1>1, <1>2 DEF FirstUpTo, m

\* The two lists of APICs stay within their arrays.
LEMMA ApicsFit ==
    ASSUME Len(io_apics) <= 4, Len(local_apics) <= MAX_CPUS, AcpiTables
    PROVE  Len(io_apics') <= 4 /\ Len(local_apics') <= MAX_CPUS
<1>1. PICK rsdp \in Firmwares : acpi_init(rsdp)
  BY DEF AcpiTables
<1>. DEFINE list == IF rsdp.revision = 2 THEN rsdp.xsdt ELSE rsdp.rsdt
            found == acpi_get_sdt(list, "APIC")
<1>2. list \in Seq(ACPI_SDT)
  BY AcpiAssumption DEF XSDP
<1>3. CASE UNCHANGED <<local_apics, io_apics>>
  BY <1>3
<1>4. CASE /\ found # NULL
           /\ local_apics' = LocalApicsOf(found.records) /\ io_apics' = IoApicsOf(found.records)
  <2>. HIDE DEF list
  <2>1. found \in MADT
    <3>1. PICK t \in ACPI_SDT : t = found /\ t.signature = "APIC"
      BY <1>2, <1>4, SdtFound
    <3>. QED
      BY <3>1 DEF ACPI_SDT, HPET_SDT
  <2>. DEFINE records == found.records
  <2>2. records \in Seq(MADT_RECORD)
    BY <2>1 DEF MADT
  <2>. HIDE DEF found, records
  <2>3. ASSUME NEW type PROVE RecordsOf(records, type) \in Seq(MADT_RECORD)
    <3>. DEFINE places == {i \in DOMAIN records : records[i].type = type}
    <3>1. places \in SUBSET (1..Len(records))
      BY <2>2
    <3>. HIDE DEF places
    <3>2. Chosen(records, places) \in Seq(MADT_RECORD)
      BY <2>2, <3>1, ChosenAre
    <3>. QED
      BY <3>2 DEF RecordsOf, places
  <2>4. Len(LocalApicsOf(records)) <= MAX_CPUS
    BY <2>3, AcpiAssumption, FirstOnes DEF LocalApicsOf
  <2>5. Len(IoApicsOf(records)) <= 3 /\ Len(IoApicsOf(records)) \in Nat
    <3>1. MAX_IO_APICS + 1 \in Nat /\ MAX_IO_APICS + 1 = 3
      BY DEF MAX_IO_APICS
    <3>. DEFINE found3 == FirstUpTo(RecordsOf(records, MADT_RECORD_TYPE_IO_APIC), MAX_IO_APICS + 1)
    <3>2. found3 \in Seq(MADT_RECORD) /\ Len(found3) <= MAX_IO_APICS + 1
      BY <2>3, <3>1, FirstOnes
    <3>. HIDE DEF found3
    <3>3. Len(found3) \in Nat /\ Len(found3) <= 3
      BY <3>1, <3>2
    <3>. QED
      BY <3>3 DEF IoApicsOf, found3
  <2>. QED
    BY <1>4, <2>4, <2>5 DEF records
<1>. QED
  BY <1>1, <1>3, <1>4 DEF acpi_init, tables, madt_init

\* What kbhandler keeps of a byte.
LEMMA KeystrokeTypes ==
    ASSUME KeysInv, last_keystroke \in 0..255, typed \in {0, 8} \cup 32..126, kbhandler
    PROVE  last_keystroke' \in 0..255 /\ typed' \in {0, 8} \cup 32..126
<1>. DEFINE byte == IF kb_bytes = <<>> THEN 0 ELSE Head(kb_bytes)
            k == byte % 128
<1>1. byte \in 0..255
  <2>1. kb_bytes \in Seq(0..255)
    BY DEF KeysInv
  <2>2. ASSUME kb_bytes # <<>> PROVE Head(kb_bytes) \in 0..255
    BY ONLY <2>1, <2>2, FirstAndRest
  <2>. QED
    BY <2>2
<1>2. k \in 0..127
  <2>1. \A b \in 0..255 : b % 128 \in 0..127
    OBVIOUS
  <2>. HIDE DEF byte
  <2>. QED
    BY <1>1, <2>1
<1>3. last_keystroke' = k \/ last_keystroke' = 0
  BY DEF kbhandler, keyboard_set_key
<1>. HIDE DEF byte, k
<1>4. last_keystroke' \in 0..255
  BY <1>2, <1>3
<1>5. typed' = typed \/ typed' \in 32..126 \/ typed' = 8
  BY DEF kbhandler
<1>. QED
  BY <1>4, <1>5

\* A step that is not the one that writes something leaves it alone.
LEMMA OthersKeep ==
    ASSUME [Next]_vars
    PROVE  /\ ~GdtInit => UNCHANGED gdt
           /\ ~(IdtInit \/ IsrInit \/ IrqInit) => UNCHANGED idt
           /\ ~StartHpet => UNCHANGED hpet_regs
           /\ ~Show => UNCHANGED <<initial_fb, term>>
           /\ ~AcpiTables => UNCHANGED <<io_apics, local_apics>>
<1>1. CASE CheckBootLoader \/ SerialPort \/ GdtInit \/ IdtInit \/ CpuInit \/ IsrInit
  BY <1>1 DEF CheckBootLoader, SerialPort, GdtInit, IdtInit, CpuInit, IsrInit, InterruptVars, segments,
              HpetVars, DisplayVars, AcpiVars, tables
<1>2. CASE PmInit \/ VmInit \/ AcpiTables \/ StartHpet
  BY <1>2 DEF PmInit, VmInit, AcpiTables, StartHpet, hpet_init, InterruptVars, segments,
              HpetVars, DisplayVars, AcpiVars, tables
<1>3. CASE ReadClock \/ ClockRuns \/ ScanPci \/ Show
  BY <1>3 DEF ReadClock, ClockRuns, ScanPci, Show, InterruptVars, segments, HpetVars, DisplayVars,
              AcpiVars, tables
<1>4. CASE IrqInit \/ KeyboardOff \/ KeyboardReady \/ UseKeyboard
  BY <1>4 DEF IrqInit, KeyboardOff, KeyboardReady, RegisterKeyboard, UseKeyboard, InterruptVars, segments, HpetVars,
              DisplayVars, AcpiVars, tables
<1>5. CASE ApicInit
  BY <1>5 DEF ApicInit, apic_find, apic_reset_error_reg, apic_map, apic_enable, apic_check_error_reg,
              InterruptVars, segments, HpetVars, DisplayVars, AcpiVars, tables
<1>6. CASE PageFault \/ \E v \in Vectors : Interrupt(v)
  BY <1>6 DEF PageFault, Interrupt, Taken, segments, HpetVars, DisplayVars, AcpiVars, tables
<1>7. CASE UNCHANGED vars
  BY <1>7 DEF vars, InterruptVars, segments, HpetVars, DisplayVars, AcpiVars, tables
<1>. QED
  BY <1>1, <1>2, <1>3, <1>4, <1>5, <1>6, <1>7 DEF Next, SystemInit

\* The keystroke changes only when kbhandler runs.
LEMMA OnlyKbhandlerTypes ==
    ASSUME [Next]_vars
    PROVE  kbhandler \/ UNCHANGED <<last_keystroke, typed>>
<1>1. CASE PageFault \/ \E v \in Vectors : Interrupt(v)
  BY <1>1 DEF PageFault, Interrupt, Taken, isr_handler, irq_handler, KeyboardVars, driver
<1>2. CASE UseKeyboard
  BY <1>2 DEF UseKeyboard, PressKey, ReleaseKey, driver
<1>3. CASE CheckBootLoader \/ SerialPort \/ GdtInit \/ IdtInit \/ CpuInit \/ IsrInit \/ PmInit \/ VmInit
  BY <1>3 DEF CheckBootLoader, SerialPort, GdtInit, IdtInit, CpuInit, IsrInit, PmInit, VmInit,
              KeyboardVars, driver
<1>4. CASE AcpiTables \/ StartHpet \/ ReadClock \/ ClockRuns \/ ScanPci \/ Show \/ IrqInit
           \/ KeyboardOff \/ KeyboardReady \/ ApicInit
  BY <1>4 DEF AcpiTables, StartHpet, ReadClock, ClockRuns, ScanPci, Show, IrqInit, KeyboardOff,
              KeyboardReady, ApicInit, KeyboardVars, driver
<1>5. CASE UNCHANGED vars
  BY <1>5 DEF vars, KeyboardVars, driver
<1>. QED
  BY <1>1, <1>2, <1>3, <1>4, <1>5 DEF Next, SystemInit

\* Each part writes what belongs into its own.
LEMMA TypeInvStep ==
    ASSUME TypeInv, KeysInv, HpetInv, ReadyInv, [Next]_vars
    PROVE  TypeInv'
<1>1. halted' \in Reasons
  BY StopsForAReason DEF TypeInv
<1>2. gdt' \in Seq(GDT_ENTRY)
  <2>1. CASE GdtInit
    BY <2>1, GdtEntries DEF GdtInit, gdt_init
  <2>2. CASE ~GdtInit
    BY <2>2, OthersKeep DEF TypeInv
  <2>. QED
    BY <2>1, <2>2
<1>3. idt' \in [Vectors -> IDT_ENTRY]
  <2>1. CASE IdtInit \/ IsrInit \/ IrqInit
    BY <2>1, GatesAreEntries DEF TypeInv
  <2>2. CASE ~(IdtInit \/ IsrInit \/ IrqInit)
    BY <2>2, OthersKeep DEF TypeInv
  <2>. QED
    BY <2>1, <2>2
<1>4. hpet_regs' \in HPET
  BY HpetStaysHpet, OthersKeep DEF TypeInv
<1>5. initial_fb' \in FRAMEBUFFER /\ term' \in TERMINAL
  BY SizesAreNumbers, OthersKeep DEF TypeInv
<1>6. Len(io_apics') <= 4 /\ Len(local_apics') <= MAX_CPUS
  <2>1. CASE AcpiTables
    BY <2>1, ApicsFit DEF TypeInv
  <2>2. CASE ~AcpiTables
    <3>1. io_apics' = io_apics /\ local_apics' = local_apics
      BY <2>2, OthersKeep
    <3>. QED
      BY <3>1 DEF TypeInv
  <2>. QED
    BY <2>1, <2>2
<1>7. last_keystroke' \in 0..255 /\ typed' \in {0, 8} \cup 32..126
  BY KeystrokeTypes, OnlyKbhandlerTypes DEF TypeInv
<1>. QED
  BY <1>1, <1>2, <1>3, <1>4, <1>5, <1>6, <1>7 DEF TypeInv

\* For every machine, firmware, boot loader and use of the keyboard: the kernel's arrays
\* and records hold what is put into them, and pc is at a step of system_init.
THEOREM ArraysHold == Spec => []BootTypeOK
<1>1. Init => /\ Dispatch /\ KeysInv /\ TimeInv /\ HpetInv
              /\ InterruptInv /\ ReadyInv /\ PciInv /\ TypeInv
  BY DispatchInit, KeysInit, TimeInit, HpetInvInit, InterruptInvInit, ReadyInvInit, PciInvInit,
     TypeInvInit
<1>2. ASSUME Dispatch, KeysInv, TimeInv, HpetInv, InterruptInv, ReadyInv, PciInv, TypeInv, [Next]_vars
      PROVE  /\ Dispatch' /\ KeysInv' /\ TimeInv' /\ HpetInv'
             /\ InterruptInv' /\ ReadyInv' /\ PciInv' /\ TypeInv'
  BY <1>2, DispatchStep, KeysStep, TimeStep, HpetInvStep, InterruptInvStep, ReadyInvStep, PciInvStep,
     TypeInvStep
<1>3. ASSUME KeysInv, TimeInv, InterruptInv, PciInv, TypeInv PROVE BootTypeOK
  <2>1. pc \in Stages /\ halted \in Reasons
    BY <1>3 DEF InterruptInv, TypeInv
  <2>2. [key_pressed |-> key_pressed, last_keystroke |-> last_keystroke] \in KEYBOARD_MOUSE
    BY <1>3 DEF KeysInv, TypeInv, KEYBOARD_MOUSE
  <2>3. reading \in 0..9
    BY <1>3 DEF TimeInv
  <2>4. /\ device_list.data \in Seq(PCI_DEVICE_INFO)
        /\ device_list.length = Len(device_list.data) /\ device_list.length <= device_list.capacity
    BY <1>3 DEF PciInv, DevicesFit
  <2>. QED
    BY <1>3, <2>1, <2>2, <2>3, <2>4 DEF BootTypeOK, TypeInv, Reasons
<1>. QED
  BY <1>1, <1>2, <1>3, PTL DEF Spec

=============================================================================

--------------------------------- MODULE Serial ---------------------------------
(***************************************************************************)
(* serial_init (dev/serial.c): the chip behind COM1 is programmed and      *)
(* tested.  A write is an offset from COM1 and a byte.  Nothing is sent    *)
(* later: serial_write and serial_read have no caller.                     *)
(***************************************************************************)
EXTENDS Integers, Sequences, SequencesExt

CONSTANTS
    Received          \* the bytes the chip may hold as received (255 without a chip)

VARIABLES
    serial_enabled,   \* ERR_NO_ERR or ERR_SERIAL_FAULTY
    uart              \* the registers of the chip

SerialVars == <<serial_enabled, uart>>

ASSUME SerialAssumption == Received \subseteq 0..255

BAUD_RATE == 38400
MAX_RATE == 115200

Divisor == MAX_RATE \div BAUD_RATE

\* Steps 1 to 8, up to the byte that is to come back.
TestWrites ==
    << <<1, 0>>, <<3, 128>>, <<0, Divisor % 256>>, <<1, Divisor \div 256>>, <<3, 3>>,
       <<2, 199>>, <<4, 11>>, <<4, 174>>, <<0, 174>> >>

\* The register that the i-th of some writes goes to: the divisor's latch while bit 7
\* of the line control register is 1, and otherwise data or interrupt enable.
Target(writes, i) ==
    LET open == \E j \in 1..i-1 : /\ writes[j][1] = 3 /\ writes[j][2] >= 128
                                  /\ \A k \in j+1..i-1 : writes[k][1] # 3
    IN  CASE writes[i][1] = 0 -> IF open THEN "divisor_low" ELSE "data"
          [] writes[i][1] = 1 -> IF open THEN "divisor_high" ELSE "interrupts"
          [] writes[i][1] = 2 -> "fifo"
          [] writes[i][1] = 3 -> "line"
          [] writes[i][1] = 4 -> "modem"

RegistersAfter(before, writes) ==
    [r \in DOMAIN before |->
        LET own == {i \in DOMAIN writes : Target(writes, i) = r}
        IN  IF own = {} THEN before[r]
            ELSE writes[CHOOSE i \in own : \A j \in own : j <= i][2]]

\* Bit 4 of the modem control register connects the chip to itself.
InLoopback(chip) == (chip.modem \div 16) % 2 = 1

\* The byte that is read back: the one written, in loopback, or one that has arrived.
serial_init ==
    LET tested == RegistersAfter(uart, TestWrites)
    IN  \E byte \in IF InLoopback(tested) THEN {tested.data} ELSE Received :
           IF byte # 174
           THEN /\ serial_enabled' = "ERR_SERIAL_FAULTY"
                /\ uart' = tested
           ELSE /\ uart' = [tested EXCEPT !.modem = 15]
                /\ UNCHANGED serial_enabled

SerialInit ==
    /\ serial_enabled = "ERR_NO_ERR"
    /\ uart = [data |-> 0, interrupts |-> 0, fifo |-> 0, line |-> 0, modem |-> 0,
               divisor_low |-> 1, divisor_high |-> 0]

=============================================================================

--------------------------------- MODULE Cmos ---------------------------------
(***************************************************************************)
(* read_time (sys/cmos.c) against the real time clock.  The clock announces*)
(* an update (UIP) at least 244 us before it makes it, longer than a       *)
(* reading of the eight registers takes: a reading that begins while UIP   *)
(* is clear ends before the update.                                        *)
(***************************************************************************)
EXTENDS Integers, Sequences

CONSTANTS
    Instants,         \* the times of the clock, one second apart
    Modes             \* what status register B may say: is_24_hours, is_binary

VARIABLES
    rtc,              \* the index of the time it is
    uip,              \* update in progress
    status_b,
    reading,          \* 0: waits; 1..8: the register that is read next; 9: all read
    again,            \* in the do-while loop
    clean,            \* the reading began with UIP clear
    cur, prev,
    boot_time         \* a time, or <<>> when it is not set

CmosVars == <<rtc, uip, status_b, reading, again, clean, cur, prev, boot_time>>

CURRENT_YEAR == 2024

\* Times that the chip counts through.  A year of two digits is one of the hundred that
\* begin with the one the kernel was written in.
Time == [seconds : 0..59, minutes : 0..59, hours : 0..23, weekdays : 1..7, day : 1..31,
         month : 1..12, year : CURRENT_YEAR .. CURRENT_YEAR + 99, century : 0..99]

ASSUME CmosAssumption ==
    /\ Instants \in Seq(Time) /\ Instants # <<>>
    /\ Modes \subseteq [is_24_hours : BOOLEAN, is_binary : BOOLEAN]

\* GET_TIME reads the registers in this order.
Registers == <<"seconds", "minutes", "hours", "weekdays", "day", "month", "year", "century">>

Nothing == [r \in {Registers[i] : i \in 1..8} |-> 0]

\* The content of a register: BCD or binary; the PM bit of the hours in 12-hour mode.
Hour12(h) == IF h % 12 = 0 THEN 12 ELSE h % 12

Value(time, r) ==
    CASE r = "year" -> time.year % 100
      [] r = "century" -> time.year \div 100
      [] r = "hours" /\ ~status_b.is_24_hours -> Hour12(time.hours)
      [] OTHER -> time[r]

Content(time, r) ==
    (IF status_b.is_binary THEN Value(time, r)
     ELSE 16 * (Value(time, r) \div 10) + (Value(time, r) % 10))
    + (IF r = "hours" /\ ~status_b.is_24_hours /\ time.hours >= 12 THEN 128 ELSE 0)

TO_BINARY(val) == (val % 16) + (val \div 16) * 10

\* The conversions of read_time: BCD first, then the PM bit, then the year, century_register
\* being 0.
Converted(read) ==
    LET binary == IF status_b.is_binary THEN read
                  ELSE [r \in DOMAIN read |-> TO_BINARY(read[r])]
        hours  == IF ~status_b.is_24_hours /\ binary.hours >= 128
                  THEN ((binary.hours % 128) + 12) % 24 ELSE binary.hours
        full   == binary.year + (CURRENT_YEAR \div 100) * 100
        year   == IF binary.year >= 100 THEN binary.year
                  ELSE IF full < CURRENT_YEAR THEN full + 100 ELSE full
    IN  [binary EXCEPT !.hours = hours, !.year = year]

\* Mutant of ReadAgain: the loop goes on while the two readings match.
ReadAgain_WhileEqual == cur = prev

\* !CHECK_TIME_EQ(cur, prev): the ! applies to the first comparison only.
ReadAgain ==
    /\ cur.seconds # prev.seconds
    /\ \A r \in DOMAIN cur \ {"seconds"} : cur[r] = prev[r]

-----------------------------------------------------------------------------

\* Mutant of Wait: an update in progress is not waited for.
Wait_Not ==
    /\ reading = 0
    /\ reading' = 1 /\ clean' = ~uip
    /\ UNCHANGED <<rtc, uip, status_b, again, cur, prev, boot_time>>

\* The end of while (wait()).
Wait ==
    /\ reading = 0 /\ ~uip
    /\ reading' = 1 /\ clean' = TRUE
    /\ UNCHANGED <<rtc, uip, status_b, again, cur, prev, boot_time>>

\* get_reg_value of the next register of GET_TIME.
ReadRegister ==
    /\ reading \in 1..8
    /\ cur' = [cur EXCEPT ![Registers[reading]] = Content(Instants[rtc], Registers[reading])]
    /\ reading' = reading + 1
    /\ UNCHANGED <<rtc, uip, status_b, again, clean, prev, boot_time>>

\* The first reading is over, or the loop is repeated: cur is copied to prev.
NextReading ==
    /\ reading = 9 /\ (again => ReadAgain)
    /\ prev' = cur /\ again' = TRUE /\ reading' = 0
    /\ UNCHANGED <<rtc, uip, status_b, clean, cur, boot_time>>

\* read_time returns, its variables are gone, and cmos_init keeps the time.  Nobody looks
\* at the clock any more.
TimeIsRead ==
    /\ reading = 9 /\ again /\ ~ReadAgain
    /\ boot_time' = <<Converted(cur)>>
    /\ reading' = 0 /\ again' = FALSE /\ clean' = FALSE /\ uip' = FALSE
    /\ cur' = Nothing /\ prev' = Nothing
    /\ UNCHANGED <<rtc, status_b>>

ReadTime == Wait \/ ReadRegister \/ NextReading

\* The clock.
Announce ==
    /\ ~uip /\ rtc < Len(Instants)
    /\ uip' = TRUE
    /\ UNCHANGED <<rtc, status_b, reading, again, clean, cur, prev, boot_time>>

Update ==
    /\ uip /\ ~(reading \in 1..8 /\ clean)
    /\ uip' = FALSE /\ rtc' = rtc + 1
    /\ UNCHANGED <<status_b, reading, again, clean, cur, prev, boot_time>>

CmosInit ==
    /\ rtc = 1 /\ uip = FALSE /\ status_b \in Modes
    /\ reading = 0 /\ again = FALSE /\ clean = FALSE /\ boot_time = <<>>
    /\ cur = Nothing /\ prev = Nothing

=============================================================================

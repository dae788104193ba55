-------------------------------- MODULE Keyboard --------------------------------
(***************************************************************************)
(* The keyboard driver (dev/keyboard): kbhandler and what it keeps.  The   *)
(* person at the keyboard presses and releases keys; the controller keeps  *)
(* the bytes until IRQ 1 is taken.  Scancodes with an 0xE0 prefix are left *)
(* out; caps lock is a key like the others to the code.                    *)
(***************************************************************************)
EXTENDS Integers, Sequences

CONSTANTS
    Keys,             \* scancodes of the keys that are pressed
    MaxKeyEvents      \* bound on the presses and releases

VARIABLES
    held,             \* keys that are down
    kb_bytes,         \* bytes in the controller
    key_events,       \* presses and releases so far
    key_pressed,      \* keyboard.key_pressed, as the set of keys that are set
    last_keystroke,
    typed             \* the last character given to terminal_putc, 0 for none

\* A scancode has seven bits; the eighth tells a release from a press.
ASSUME KeyboardAssumption == Keys \subseteq 0..127 /\ MaxKeyEvents \in Nat

driver == <<key_pressed, last_keystroke, typed>>
KeyboardVars == <<held, kb_bytes, key_events, driver>>

\* The map of the driver; the mouse is not used.
KEYBOARD_MOUSE == [key_pressed : SUBSET (0..127), last_keystroke : 0..255]

LEFT_SHIFT == 42
RIGHT_SHIFT == 54
CAPS_LOCK == 58

Letters(codes) == [i \in DOMAIN codes |-> <<codes[i], codes[i] - 32>>]

\* The table of scancodes.c: the character of a key, and the one with shift, 0 for none.
scancodes ==
    LET None  == <<0, 0>>
        first ==
            << None, <<27, 0>>, <<49, 33>>, <<50, 64>>, <<51, 35>>, <<52, 36>>, <<53, 37>>,
               <<54, 94>>, <<55, 38>>, <<56, 42>>, <<57, 40>>, <<48, 41>>, <<45, 95>>,
               <<61, 43>>, <<8, 0>>, <<9, 0>> >>
            \o Letters(<<113, 119, 101, 114, 116, 121, 117, 105, 111, 112>>)
            \o << <<91, 123>>, <<93, 125>>, <<10, 0>>, None >>
            \o Letters(<<97, 115, 100, 102, 103, 104, 106, 107, 108>>)
            \o << <<59, 58>>, <<39, 34>>, <<96, 126>>, None, <<92, 124>> >>
            \o Letters(<<122, 120, 99, 118, 98, 110, 109>>)
            \o << <<44, 60>>, <<46, 62>>, <<47, 63>>, None, <<42, 0>>, None, <<32, 0>> >>
    IN  [code \in 0..127 |->
            CASE code < Len(first) -> first[code + 1]
              [] code = 74         -> <<45, 0>>
              [] code = 78         -> <<43, 0>>
              [] OTHER             -> None]

get_character_from_scancode(scancode, shift, caps_lock) ==
    IF (caps_lock \/ shift) /\ scancodes[scancode][2] # 0
    THEN scancodes[scancode][2] ELSE scancodes[scancode][1]

\* Mutant of keyboard_set_key: a release clears the last key instead of its own.
keyboard_set_key_Last(state, scancode) ==
    /\ key_pressed' = IF state THEN key_pressed \cup {scancode} ELSE key_pressed \ {last_keystroke}
    /\ last_keystroke' = IF state THEN scancode ELSE 0

\* ptr_to_update is never set.
keyboard_set_key(state, scancode) ==
    /\ key_pressed' = IF state THEN key_pressed \cup {scancode} ELSE key_pressed \ {scancode}
    /\ last_keystroke' = IF state THEN scancode ELSE 0

\* kbhandler, on the byte that is read: the character is looked up before the key is set.
kbhandler ==
    LET keycode   == IF kb_bytes = <<>> THEN 0 ELSE Head(kb_bytes)
        scancode  == keycode % 128
        key_state == keycode < 128
        c         == get_character_from_scancode(scancode,
                         key_pressed \cap {LEFT_SHIFT, RIGHT_SHIFT} # {}, CAPS_LOCK \in key_pressed)
    IN  /\ keyboard_set_key(key_state, scancode)
        /\ typed' = IF key_state /\ (c \in 32..126 \/ c = 8) THEN c ELSE typed
        /\ kb_bytes' = IF kb_bytes = <<>> THEN <<>> ELSE Tail(kb_bytes)
        /\ UNCHANGED <<held, key_events>>

\* The keyboard sends the scancode on a press, with bit 7 on a release.
PressKey(k) ==
    /\ k \notin held /\ key_events < MaxKeyEvents
    /\ held' = held \cup {k} /\ kb_bytes' = Append(kb_bytes, k)
    /\ key_events' = key_events + 1
    /\ UNCHANGED driver

ReleaseKey(k) ==
    /\ k \in held /\ key_events < MaxKeyEvents
    /\ held' = held \ {k} /\ kb_bytes' = Append(kb_bytes, k + 128)
    /\ key_events' = key_events + 1
    /\ UNCHANGED driver

KeyboardInit ==
    /\ held = {} /\ kb_bytes = <<>> /\ key_events = 0
    /\ key_pressed = {} /\ last_keystroke = 0 /\ typed = 0

=============================================================================

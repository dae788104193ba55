------------------------------ MODULE Terminal ------------------------------
(***************************************************************************)
(* The text terminal (src/dev/terminal.c) while the main code prints with  *)
(* terminal_printf and the keyboard handler calls terminal_putc from an    *)
(* interrupt.  The handler runs to its end, with interrupts off, between   *)
(* any two steps of the main code: a step is a write of the cursor, the    *)
(* drawing of a character, or the copying or blanking of a row.            *)
(*                                                                         *)
(* Cells stand for the pixels of a character.  Column WIDTH is no column   *)
(* of the screen: a character drawn there spills into the next pixel line. *)
(* The handler never passes a newline (keyboard.c:52).                     *)
(***************************************************************************)
EXTENDS Integers

CONSTANTS
    WIDTH,       \* characters in a row
    HEIGHT,      \* rows
    MaxPrinted,  \* bound: characters and newlines the main code prints
    MaxKeys      \* bound: keys pressed

ASSUME TerminalAssumption ==
    /\ WIDTH \in Nat /\ WIDTH >= 3
    /\ HEIGHT \in Nat /\ HEIGHT >= 3
    /\ MaxPrinted \in Nat
    /\ MaxKeys \in Nat

Rows    == 0..HEIGHT - 1
Columns == 0..WIDTH

VARIABLES
    pc,        \* the next step of the main code
    at,        \* the position it has passed to fb_putc
    reg,       \* cursor_pos.x as terminal_push_cursor has read it
    row,       \* the row terminal_scroll has come to
    x, y,      \* term.cursor_pos
    screen,    \* what each cell shows
    last,      \* the last thing printed
    printed, keys,   \* counters for the bounds
    disturbed  \* has a key ever interrupted a terminal_putc of the main code?

main   == <<pc, at, reg, row, last, printed>>
vars   == <<main, x, y, screen, keys, disturbed>>

BLANK    == " "
TERMINAL_LEFT_OFFSET == 1
BlankRow == [c \in Columns |-> BLANK]

-----------------------------------------------------------------------------
(* The screen *)

\* fb_putc drops the pixels below the last row.
Drawn(scr, c, r, glyph) == IF r \in Rows THEN [scr EXCEPT ![r][c] = glyph] ELSE scr

\* What terminal_scroll copies: fb_getpixel reads black below the last row.
RowAt(scr, r) == IF r \in Rows THEN scr[r] ELSE BlankRow

\* terminal_scroll with the cursor in row curs
Scrolled(scr, curs) ==
    [r \in Rows |-> IF r < curs - 1 THEN RowAt(scr, r + 1) ELSE BlankRow]

\* Mutant of EndOfRow: the last column is passed.
EndOfRow_Late(c) == c > WIDTH

\* The tests of terminal_push_cursor.
EndOfRow(c) == c + 1 >= WIDTH

\* Mutant of BelowScreen: off by one.
BelowScreen_Late(c, r) == r > HEIGHT

BelowScreen(c, r) == r >= HEIGHT /\ ~(r = HEIGHT /\ c = 0)

Back(c) == IF c - 1 < 1 THEN c ELSE c - 1

-----------------------------------------------------------------------------
(* The keyboard handler: terminal_putc in one go *)

Disturb ==
    /\ keys < MaxKeys
    /\ keys' = keys + 1
    /\ disturbed' = (disturbed \/ pc \notin {"print", "idle"})
    /\ UNCHANGED main

KeyPutc ==
    /\ Disturb
    /\ LET scr == Drawn(screen, x, y, "key")
       IN  \/ /\ EndOfRow(x)
              /\ x' = TERMINAL_LEFT_OFFSET
              /\ y' = y + 1
              /\ screen' = scr
           \/ /\ ~EndOfRow(x) /\ BelowScreen(x, y)
              /\ screen' = Scrolled(scr, y)
              /\ y' = y - 1
              /\ UNCHANGED x
           \/ /\ ~EndOfRow(x) /\ ~BelowScreen(x, y)
              /\ x' = x + 1
              /\ screen' = scr
              /\ UNCHANGED y

KeyBackspace ==
    /\ Disturb
    /\ x' = Back(x)
    /\ screen' = Drawn(screen, x', y, BLANK)
    /\ UNCHANGED y

-----------------------------------------------------------------------------
(* The main code: terminal_printf, one character after the other *)

Init ==
    /\ pc = "print"
    /\ at = [x |-> 1, y |-> 1]
    /\ reg = 1
    /\ row = 0
    /\ x = 1 /\ y = 1
    /\ screen = [r \in Rows |-> BlankRow]
    /\ last = "newline"
    /\ printed = 0 /\ keys = 0
    /\ disturbed = FALSE

Take(what) ==
    /\ pc = "print"
    /\ printed < MaxPrinted
    /\ printed' = printed + 1
    /\ last' = what

Unprinted == UNCHANGED <<last, printed, keys, disturbed>>

\* The text has no empty lines, like the one text the kernel prints.
PrintNewline ==
    /\ last # "newline"
    /\ Take("newline")
    /\ y' = y + 1
    /\ pc' = "newline"
    /\ UNCHANGED <<at, reg, row, x, screen, keys, disturbed>>

Newline ==
    /\ pc = "newline"
    /\ x' = 1
    /\ pc' = "print"
    /\ Unprinted /\ UNCHANGED <<at, reg, row, y, screen>>

PrintChar ==
    /\ Take("char")
    /\ at' = [x |-> x, y |-> y]
    /\ pc' = "draw"
    /\ UNCHANGED <<reg, row, x, y, screen, keys, disturbed>>

Draw ==
    /\ pc = "draw"
    /\ screen' = Drawn(screen, at.x, at.y, "char")
    /\ pc' = "push"
    /\ Unprinted /\ UNCHANGED <<at, reg, row, x, y>>

\* terminal_push_cursor: the tests, then the branch taken.
PushWraps ==
    /\ pc = "push"
    /\ EndOfRow(x)
    /\ x' = TERMINAL_LEFT_OFFSET
    /\ pc' = "wrap"
    /\ Unprinted /\ UNCHANGED <<at, reg, row, y, screen>>

Wrap ==
    /\ pc = "wrap"
    /\ y' = y + 1
    /\ pc' = "print"
    /\ Unprinted /\ UNCHANGED <<at, reg, row, x, screen>>

PushScrolls ==
    /\ pc = "push"
    /\ ~EndOfRow(x) /\ BelowScreen(x, y)
    /\ row' = 0
    /\ pc' = "copy"
    /\ Unprinted /\ UNCHANGED <<at, reg, x, y, screen>>

PushAdvances ==
    /\ pc = "push"
    /\ ~EndOfRow(x) /\ ~BelowScreen(x, y)
    /\ reg' = x
    /\ pc' = "advance"
    /\ Unprinted /\ UNCHANGED <<at, row, x, y, screen>>

\* x++ from memory or from what the test has read, as the compiler likes it.
Advance ==
    /\ pc = "advance"
    /\ x' \in {x + 1, reg + 1}
    /\ pc' = "print"
    /\ Unprinted /\ UNCHANGED <<at, reg, row, y, screen>>

\* terminal_scroll of the main code reads the cursor before every row.
CopyRow ==
    /\ pc = "copy"
    /\ row < y - 1
    /\ screen' = IF row \in Rows THEN [screen EXCEPT ![row] = RowAt(screen, row + 1)] ELSE screen
    /\ row' = row + 1
    /\ Unprinted /\ UNCHANGED <<pc, at, reg, x, y>>

CopyEnds ==
    /\ pc = "copy"
    /\ row >= y - 1
    /\ row' = y - 1
    /\ pc' = "blank"
    /\ Unprinted /\ UNCHANGED <<at, reg, x, y, screen>>

\* Mutant of BlankRows: nothing is blanked.
BlankRows_None ==
    /\ pc = "blank"
    /\ row < HEIGHT
    /\ row' = row + 1
    /\ Unprinted /\ UNCHANGED <<pc, at, reg, x, y, screen>>

BlankRows ==
    /\ pc = "blank"
    /\ row < HEIGHT
    /\ screen' = [screen EXCEPT ![row] = BlankRow]
    /\ row' = row + 1
    /\ Unprinted /\ UNCHANGED <<pc, at, reg, x, y>>

ScrollEnds ==
    /\ pc = "blank"
    /\ row >= HEIGHT
    /\ y' = y - 1
    /\ pc' = "print"
    /\ Unprinted /\ UNCHANGED <<at, reg, row, x, screen>>

\* The text ends; the main code idles for ever.
PrintEnds ==
    /\ pc = "print"
    /\ pc' = "idle"
    /\ Unprinted /\ UNCHANGED <<at, reg, row, x, y, screen>>

MainStep ==
    \/ PrintNewline \/ Newline \/ PrintChar \/ Draw
    \/ PushWraps \/ Wrap \/ PushScrolls \/ PushAdvances \/ Advance
    \/ CopyRow \/ CopyEnds \/ BlankRows \/ ScrollEnds \/ PrintEnds

Next == MainStep \/ KeyPutc \/ KeyBackspace

Spec == Init /\ [][Next]_vars

-----------------------------------------------------------------------------
(* Properties *)

\* The variables have their types: whatever a key disturbs, the cursor never
\* leaves the columns 1..WIDTH, the spilling one included.
TypeOK ==
    /\ pc \in {"print", "newline", "draw", "push", "wrap", "copy", "blank", "advance", "idle"}
    /\ at \in [x : 1..WIDTH, y : Nat]
    /\ reg \in 1..WIDTH
    /\ row \in Nat
    /\ x \in 1..WIDTH
    /\ y \in Nat
    /\ screen \in [Rows -> [Columns -> {BLANK, "char", "key"}]]
    /\ last \in {"newline", "char"}
    /\ printed \in 0..MaxPrinted /\ keys \in 0..MaxKeys
    /\ disturbed \in BOOLEAN

\* Scrolling keeps up: terminal_push_cursor scrolls after every character below
\* the screen.  The cursor of a text without empty lines gets to the row under the
\* screen, and one further when a newline follows a full row; keys that interrupt
\* a terminal_putc push it one more row down, however many come.
CursorNearScreen == y <= HEIGHT + (IF disturbed THEN 2 ELSE 1)

\* terminal_putc appends: as long as no key has come in the middle of one, the
\* cells from the cursor on are blank and those before it in its row are not, so
\* that no character on the screen is drawn over and no cell is skipped, through
\* wraps, scrolls and backspaces.  (A character drawn below the screen is lost.)
TextIsContiguous ==
    ~disturbed /\ pc \in {"print", "idle"} =>
        \A r \in Rows, c \in 1..WIDTH :
            /\ r > y \/ (r = y /\ c >= x) => screen[r][c] = BLANK
            /\ r = y /\ c < x => screen[r][c] # BLANK

=============================================================================

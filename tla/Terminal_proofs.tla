-------------------------- MODULE Terminal_proofs --------------------------
(***************************************************************************)
(* Proofs about the terminal's cursor, for screens of every size, texts of *)
(* every length and any number of keys.                                    *)
(***************************************************************************)
EXTENDS Terminal, TLAPS

\* In the last column, or beside it: the next character wraps.
High == x >= WIDTH - 1

\* How far below row HEIGHT the cursor can be, in and before the last column.
Reach(low, high) == IF High THEN y <= HEIGHT + high ELSE y <= HEIGHT + low

\* A text that no key has disturbed stays one row higher.
Slack == IF disturbed THEN 0 ELSE 1

\* The reach of the cursor at every step of the main code.  Below the screen only
\* a character in the last column moves it down, and it comes there by a newline
\* after such a character, or by a wrap or an x++ that a key has overtaken.
CursorReach ==
    /\ pc = "newline" => last = "newline"
    /\ pc \notin {"print", "newline", "idle"} => last = "char"
    /\ pc = "print" /\ last = "char" => Reach(1 - Slack, 0 - Slack)
    /\ pc = "print" /\ last = "newline" => Reach(2 - Slack, -1)
    /\ pc = "newline" => Reach(2 - Slack, 1 - Slack)
    /\ pc \in {"draw", "push", "idle"} => Reach(2 - Slack, 0 - Slack)
    /\ pc = "wrap" => Reach(0 - Slack, -1 - Slack)
    /\ pc = "advance" => Reach(0 - Slack, -1) /\ x <= WIDTH - 1 /\ reg <= WIDTH - 2
    /\ pc \in {"copy", "blank"} => Reach(2 - Slack, -1) /\ y >= HEIGHT - 1

IInv == TypeOK /\ CursorReach

Glyphs  == {BLANK, "char", "key"}
Screens == [Rows -> [Columns -> Glyphs]]

(* ------------------------------------------------------------------------ *)
(* The screen                                                               *)

\* A blank row is a row of cells.
LEMMA BlankRowType == BlankRow \in [Columns -> Glyphs]
  BY DEF BlankRow, Glyphs

\* Drawing a character, on the screen or below it, leaves a screen.
LEMMA DrawnType ==
    ASSUME NEW scr \in Screens, NEW c \in Columns, NEW r \in Nat, NEW g \in Glyphs
    PROVE  Drawn(scr, c, r, g) \in Screens
  BY DEF Drawn, Screens

\* So does terminal_scroll, whatever row the cursor is in.
LEMMA ScrolledType ==
    ASSUME NEW scr \in Screens, NEW curs \in Nat
    PROVE  Scrolled(scr, curs) \in Screens
<1>1. \A r \in Nat : RowAt(scr, r) \in [Columns -> Glyphs]
  BY BlankRowType DEF RowAt, Screens
<1>2. \A r \in Rows : r + 1 \in Nat
  BY TerminalAssumption DEF Rows
<1>. QED  BY <1>1, <1>2, BlankRowType DEF Scrolled, Screens

(* ------------------------------------------------------------------------ *)
(* Slack                                                                    *)

\* The slack is one row or none.
LEMMA SlackType == Slack \in {0, 1}
  BY DEF Slack

\* A key never adds to it, and one in the middle of a terminal_putc takes it.
LEMMA SlackFalls ==
    ASSUME Disturb
    PROVE  Slack' \in {0, 1} /\ Slack' <= Slack /\ (pc \notin {"print", "idle"} => Slack' = 0)
<1>1. CASE disturbed
  <2>1. disturbed'
    BY <1>1, Zenon DEF Disturb
  <2>. QED  BY <1>1, <2>1 DEF Slack
<1>2. CASE ~disturbed
  <2>1. pc \notin {"print", "idle"} => disturbed'
    BY <1>2, Zenon DEF Disturb
  <2>. QED  BY <1>2, <2>1 DEF Slack
<1>. QED  BY <1>1, <1>2

(* ------------------------------------------------------------------------ *)
(* The moves of the cursor when a key is typed                              *)

\* Where terminal_push_cursor takes the cursor.
KeyMove ==
    \/ EndOfRow(x) /\ x' = 1 /\ y' = y + 1
    \/ ~EndOfRow(x) /\ BelowScreen(x, y) /\ x' = x /\ y' = y - 1
    \/ ~EndOfRow(x) /\ ~BelowScreen(x, y) /\ x' = x + 1 /\ y' = y

\* It keeps the cursor in its reach, if that is a row deeper before the last column
\* than in it, and lets the last column have all rows of the screen.
LEMMA KeyMoveReach ==
    ASSUME x \in 1..WIDTH, y \in Nat, KeyMove,
           NEW low \in Int, NEW high \in Int, Reach(low, high),
           NEW low2 \in Int, NEW high2 \in Int, low <= low2, high <= high2,
           low2 >= high2 + 1, high2 >= -1
    PROVE  IF x' >= WIDTH - 1 THEN y' <= HEIGHT + high2 ELSE y' <= HEIGHT + low2
<1>1. IF x >= WIDTH - 1 THEN y <= HEIGHT + high ELSE y <= HEIGHT + low
  BY DEF Reach, High
<1>2. CASE EndOfRow(x) /\ x' = 1 /\ y' = y + 1
  BY <1>1, <1>2, TerminalAssumption DEF EndOfRow
<1>3. CASE ~EndOfRow(x) /\ BelowScreen(x, y) /\ x' = x /\ y' = y - 1
  BY <1>1, <1>3, TerminalAssumption DEF EndOfRow
<1>4. CASE ~EndOfRow(x) /\ ~BelowScreen(x, y) /\ x' = x + 1 /\ y' = y
  BY <1>1, <1>4, TerminalAssumption DEF EndOfRow, BelowScreen
<1>. QED  BY <1>2, <1>3, <1>4 DEF KeyMove

(* ------------------------------------------------------------------------ *)
(* The inductive invariant                                                  *)

\* The terminal starts in the second row and column.
LEMMA InitIInv == Init => IInv
<1>. SUFFICES ASSUME Init PROVE IInv
  OBVIOUS
<1>1. TypeOK
  <2>1. screen \in Screens
    BY BlankRowType DEF Init, Screens
  <2>2. at \in [x : 1..WIDTH, y : Nat]
    BY TerminalAssumption DEF Init
  <2>3. x \in 1..WIDTH /\ y \in Nat /\ reg \in 1..WIDTH /\ row \in Nat
    BY TerminalAssumption DEF Init
  <2>4. printed \in 0..MaxPrinted /\ keys \in 0..MaxKeys
    BY TerminalAssumption DEF Init
  <2>5. /\ pc \in {"print", "newline", "draw", "push", "wrap", "copy", "blank", "advance", "idle"}
        /\ last \in {"newline", "char"} /\ disturbed \in BOOLEAN
    BY Zenon DEF Init
  <2>. QED  BY <2>1, <2>2, <2>3, <2>4, <2>5 DEF TypeOK, Screens, Glyphs
<1>2. CursorReach
  BY TerminalAssumption DEF Init, CursorReach, Reach, High, Slack
<1>. QED  BY <1>1, <1>2 DEF IInv

\* A character typed: wraps in the last column, scrolls below the screen,
\* advances otherwise.
LEMMA KeyPutcStep == IInv /\ KeyPutc => IInv'
<1>. SUFFICES ASSUME IInv, KeyPutc PROVE IInv'
  OBVIOUS
<1>. DEFINE scr == Drawn(screen, x, y, "key")
<1>1. scr \in Screens
  <2>1. screen \in Screens /\ "key" \in Glyphs
    BY DEF IInv, TypeOK, Screens, Glyphs
  <2>2. x \in Columns /\ y \in Nat
    BY TerminalAssumption DEF IInv, TypeOK, Columns
  <2>. QED  BY <2>1, <2>2, DrawnType
<1>2. Scrolled(scr, y) \in Screens
  BY <1>1, ScrolledType DEF IInv, TypeOK
<1>3. TypeOK'
  <2>1. screen' \in Screens
    BY <1>1, <1>2 DEF KeyPutc
  <2>2. x' \in 1..WIDTH /\ y' \in Nat
    BY TerminalAssumption
    DEF KeyPutc, EndOfRow, BelowScreen, TERMINAL_LEFT_OFFSET, IInv, TypeOK
  <2>3. keys' \in 0..MaxKeys /\ disturbed' \in BOOLEAN
    BY TerminalAssumption DEF KeyPutc, Disturb, IInv, TypeOK
  <2>. QED  BY <2>1, <2>2, <2>3 DEF KeyPutc, Disturb, main, IInv, TypeOK, Screens, Glyphs
<1>4. pc' = pc /\ last' = last /\ reg' = reg
  BY DEF KeyPutc, Disturb, main
<1>5. /\ Slack \in {0, 1} /\ Slack' \in {0, 1} /\ Slack' <= Slack
      /\ pc \notin {"print", "idle"} => Slack' = 0
  BY SlackFalls, SlackType DEF KeyPutc
<1>6. KeyMove
  BY DEF KeyPutc, KeyMove, TERMINAL_LEFT_OFFSET
<1>7. x \in 1..WIDTH /\ y \in Nat /\ reg \in 1..WIDTH
  BY DEF IInv, TypeOK
<1>8. CursorReach'
  <2>1. ASSUME pc = "print" /\ last = "char"
      PROVE  Reach(1 - Slack, 0 - Slack)'
    <3>1. Reach(1 - Slack, 0 - Slack)
      BY <2>1, Zenon DEF IInv, CursorReach
    <3>. QED  BY <1>5, <1>6, <1>7, <2>1, <3>1, KeyMoveReach DEF Reach, High
  <2>2. ASSUME pc = "print" /\ last = "newline"
      PROVE  Reach(2 - Slack, -1)'
    <3>1. Reach(2 - Slack, -1)
      BY <2>2, Zenon DEF IInv, CursorReach
    <3>. QED  BY <1>5, <1>6, <1>7, <2>2, <3>1, KeyMoveReach DEF Reach, High
  <2>3. ASSUME pc = "newline"
      PROVE  Reach(2 - Slack, 1 - Slack)'
    <3>1. Reach(2 - Slack, 1 - Slack)
      BY <2>3, Zenon DEF IInv, CursorReach
    <3>. QED  BY <1>5, <1>6, <1>7, <2>3, <3>1, KeyMoveReach DEF Reach, High
  <2>4. ASSUME pc \in {"draw", "push", "idle"}
      PROVE  Reach(2 - Slack, 0 - Slack)'
    <3>1. Reach(2 - Slack, 0 - Slack)
      BY <2>4, Zenon DEF IInv, CursorReach
    <3>. QED  BY <1>5, <1>6, <1>7, <2>4, <3>1, KeyMoveReach DEF Reach, High
  <2>5. ASSUME pc = "wrap"
      PROVE  Reach(0 - Slack, -1 - Slack)'
    <3>1. Reach(0 - Slack, -1 - Slack)
      BY <2>5, Zenon DEF IInv, CursorReach
    <3>. QED  BY <1>5, <1>6, <1>7, <2>5, <3>1, KeyMoveReach DEF Reach, High
  <2>6. ASSUME pc = "advance"
      PROVE  Reach(0 - Slack, -1)'
    <3>1. Reach(0 - Slack, -1)
      BY <2>6, Zenon DEF IInv, CursorReach
    <3>. QED  BY <1>5, <1>6, <1>7, <2>6, <3>1, KeyMoveReach DEF Reach, High
  <2>7. ASSUME pc \in {"copy", "blank"}
      PROVE  Reach(2 - Slack, -1)'
    <3>1. Reach(2 - Slack, -1)
      BY <2>7, Zenon DEF IInv, CursorReach
    <3>. QED  BY <1>5, <1>6, <1>7, <2>7, <3>1, KeyMoveReach DEF Reach, High
  <2>8. pc = "advance" => x' <= WIDTH - 1
    <3>1. pc = "advance" => x <= WIDTH - 1
      BY Zenon DEF IInv, CursorReach
    <3>. QED  BY <1>6, <1>7, <3>1, TerminalAssumption DEF KeyMove, EndOfRow
  <2>9. pc \in {"copy", "blank"} => y' >= HEIGHT - 1
    <3>1. pc \in {"copy", "blank"} => y >= HEIGHT - 1
      BY Zenon DEF IInv, CursorReach
    <3>. QED  BY <1>6, <1>7, <3>1, TerminalAssumption DEF KeyMove, BelowScreen
  <2>10. /\ pc = "newline" => last = "newline"
         /\ pc \notin {"print", "newline", "idle"} => last = "char"
         /\ pc = "advance" => reg <= WIDTH - 2
    BY Zenon DEF IInv, CursorReach
  <2>. QED  BY <1>4, <2>1, <2>2, <2>3, <2>4, <2>5, <2>6, <2>7, <2>8, <2>9, <2>10, Zenon
            DEF CursorReach
<1>. QED  BY <1>3, <1>8 DEF IInv

\* A backspace: the cursor moves back in its row, or stays.
LEMMA KeyBackspaceStep == IInv /\ KeyBackspace => IInv'
<1>. SUFFICES ASSUME IInv, KeyBackspace PROVE IInv'
  OBVIOUS
<1>1. x' \in 1..WIDTH /\ x' <= x /\ y' = y
  BY TerminalAssumption DEF KeyBackspace, Back, IInv, TypeOK
<1>2. TypeOK'
  <2>1. screen' \in Screens
    BY <1>1, DrawnType, TerminalAssumption
    DEF KeyBackspace, IInv, TypeOK, Screens, Glyphs, Columns
  <2>2. keys' \in 0..MaxKeys /\ disturbed' \in BOOLEAN
    BY TerminalAssumption DEF KeyBackspace, Disturb, IInv, TypeOK
  <2>. QED  BY <1>1, <2>1, <2>2 DEF KeyBackspace, Disturb, main, IInv, TypeOK, Screens, Glyphs
<1>3. CursorReach'
  BY <1>1, TerminalAssumption
  DEF KeyBackspace, Disturb, main, IInv, TypeOK, CursorReach, Reach, High, Slack
<1>. QED  BY <1>2, <1>3 DEF IInv

\* The main code takes the next thing of its text.
LEMMA PrintStep == IInv /\ (PrintNewline \/ PrintChar \/ PrintEnds) => IInv'
<1>1. ASSUME IInv, PrintNewline PROVE IInv'
  <2>1. TypeOK'
    BY <1>1, TerminalAssumption DEF PrintNewline, Take, IInv, TypeOK
  <2>2. CursorReach'
    BY <1>1, TerminalAssumption
    DEF PrintNewline, Take, IInv, TypeOK, CursorReach, Reach, High, Slack
  <2>. QED  BY <2>1, <2>2 DEF IInv
<1>2. ASSUME IInv, PrintChar PROVE IInv'
  <2>1. TypeOK'
    BY <1>2, TerminalAssumption DEF PrintChar, Take, IInv, TypeOK
  <2>2. CursorReach'
    BY <1>2, TerminalAssumption
    DEF PrintChar, Take, IInv, TypeOK, CursorReach, Reach, High, Slack
  <2>. QED  BY <2>1, <2>2 DEF IInv
<1>3. ASSUME IInv, PrintEnds PROVE IInv'
  <2>1. TypeOK'
    BY <1>3 DEF PrintEnds, Unprinted, IInv, TypeOK
  <2>2. CursorReach'
    BY <1>3, TerminalAssumption
    DEF PrintEnds, Unprinted, IInv, TypeOK, CursorReach, Reach, High, Slack
  <2>. QED  BY <2>1, <2>2 DEF IInv
<1>. QED  BY <1>1, <1>2, <1>3

\* The rest of terminal_putc up to the branches of terminal_push_cursor.
LEMMA PutcStep ==
    IInv /\ (Newline \/ Draw \/ PushWraps \/ PushScrolls \/ PushAdvances) => IInv'
<1>1. ASSUME IInv, Newline PROVE IInv'
  <2>1. TypeOK'
    BY <1>1, TerminalAssumption DEF Newline, Unprinted, IInv, TypeOK
  <2>2. CursorReach'
    BY <1>1, TerminalAssumption
    DEF Newline, Unprinted, IInv, TypeOK, CursorReach, Reach, High, Slack
  <2>. QED  BY <2>1, <2>2 DEF IInv
<1>2. ASSUME IInv, Draw PROVE IInv'
  <2>1. screen' \in Screens
    BY <1>2, DrawnType, TerminalAssumption DEF Draw, IInv, TypeOK, Screens, Glyphs, Columns
  <2>2. TypeOK'
    BY <1>2, <2>1 DEF Draw, Unprinted, IInv, TypeOK, Screens, Glyphs
  <2>3. CursorReach'
    BY <1>2 DEF Draw, Unprinted, IInv, CursorReach, Reach, High, Slack
  <2>. QED  BY <2>2, <2>3 DEF IInv
<1>3. ASSUME IInv, PushWraps PROVE IInv'
  <2>1. TypeOK'
    BY <1>3, TerminalAssumption DEF PushWraps, TERMINAL_LEFT_OFFSET, Unprinted, IInv, TypeOK
  <2>2. CursorReach'
    BY <1>3, TerminalAssumption
    DEF PushWraps, EndOfRow, TERMINAL_LEFT_OFFSET, Unprinted, IInv, TypeOK,
        CursorReach, Reach, High, Slack
  <2>. QED  BY <2>1, <2>2 DEF IInv
<1>4. ASSUME IInv, PushScrolls PROVE IInv'
  <2>1. TypeOK'
    BY <1>4 DEF PushScrolls, Unprinted, IInv, TypeOK
  <2>2. CursorReach'
    BY <1>4, TerminalAssumption
    DEF PushScrolls, EndOfRow, BelowScreen, Unprinted, IInv, TypeOK,
        CursorReach, Reach, High, Slack
  <2>. QED  BY <2>1, <2>2 DEF IInv
<1>5. ASSUME IInv, PushAdvances PROVE IInv'
  <2>1. TypeOK'
    BY <1>5 DEF PushAdvances, Unprinted, IInv, TypeOK
  <2>2. CursorReach'
    BY <1>5, TerminalAssumption
    DEF PushAdvances, EndOfRow, BelowScreen, Unprinted, IInv, TypeOK,
        CursorReach, Reach, High, Slack
  <2>. QED  BY <2>1, <2>2 DEF IInv
<1>. QED  BY <1>1, <1>2, <1>3, <1>4, <1>5

\* The branches that wrap and advance.
LEMMA WrapAdvanceStep == IInv /\ (Wrap \/ Advance) => IInv'
<1>1. ASSUME IInv, Wrap PROVE IInv'
  <2>1. TypeOK'
    BY <1>1 DEF Wrap, Unprinted, IInv, TypeOK
  <2>2. CursorReach'
    BY <1>1, TerminalAssumption
    DEF Wrap, Unprinted, IInv, TypeOK, CursorReach, Reach, High, Slack
  <2>. QED  BY <2>1, <2>2 DEF IInv
<1>2. ASSUME IInv, Advance PROVE IInv'
  <2>1. TypeOK'
    BY <1>2, TerminalAssumption DEF Advance, Unprinted, IInv, TypeOK, CursorReach
  <2>2. CursorReach'
    BY <1>2, TerminalAssumption
    DEF Advance, Unprinted, IInv, TypeOK, CursorReach, Reach, High, Slack
  <2>. QED  BY <2>1, <2>2 DEF IInv
<1>. QED  BY <1>1, <1>2

\* terminal_scroll copies and blanks rows, then moves the cursor up.
LEMMA ScrollStep == IInv /\ (CopyRow \/ CopyEnds \/ BlankRows \/ ScrollEnds) => IInv'
<1>1. ASSUME IInv, CopyRow PROVE IInv'
  <2>1. screen \in Screens /\ row \in Nat
    BY <1>1 DEF IInv, TypeOK, Screens, Glyphs
  <2>2. RowAt(screen, row + 1) \in [Columns -> Glyphs]
    BY <2>1, BlankRowType DEF RowAt, Screens
  <2>3. screen' \in Screens
    BY <1>1, <2>1, <2>2 DEF CopyRow, Screens
  <2>4. TypeOK'
    BY <1>1, <2>1, <2>3 DEF CopyRow, Unprinted, IInv, TypeOK, Screens, Glyphs
  <2>5. CursorReach'
    BY <1>1 DEF CopyRow, Unprinted, IInv, CursorReach, Reach, High, Slack
  <2>. QED  BY <2>4, <2>5 DEF IInv
<1>2. ASSUME IInv, CopyEnds PROVE IInv'
  <2>1. y - 1 \in Nat
    BY <1>2, TerminalAssumption DEF CopyEnds, IInv, TypeOK, CursorReach
  <2>2. TypeOK'
    BY <1>2, <2>1 DEF CopyEnds, Unprinted, IInv, TypeOK
  <2>3. CursorReach'
    BY <1>2 DEF CopyEnds, Unprinted, IInv, CursorReach, Reach, High, Slack
  <2>. QED  BY <2>2, <2>3 DEF IInv
<1>3. ASSUME IInv, BlankRows PROVE IInv'
  <2>1. screen \in Screens /\ row \in Nat
    BY <1>3 DEF IInv, TypeOK, Screens, Glyphs
  <2>2. screen' \in Screens
    BY <1>3, <2>1, BlankRowType DEF BlankRows, Screens
  <2>3. TypeOK'
    BY <1>3, <2>1, <2>2 DEF BlankRows, Unprinted, IInv, TypeOK, Screens, Glyphs
  <2>4. CursorReach'
    BY <1>3 DEF BlankRows, Unprinted, IInv, CursorReach, Reach, High, Slack
  <2>. QED  BY <2>3, <2>4 DEF IInv
<1>4. ASSUME IInv, ScrollEnds PROVE IInv'
  <2>1. y - 1 \in Nat
    BY <1>4, TerminalAssumption DEF ScrollEnds, IInv, TypeOK, CursorReach
  <2>2. TypeOK'
    BY <1>4, <2>1 DEF ScrollEnds, Unprinted, IInv, TypeOK
  <2>3. CursorReach'
    BY <1>4, TerminalAssumption
    DEF ScrollEnds, Unprinted, IInv, TypeOK, CursorReach, Reach, High, Slack
  <2>. QED  BY <2>2, <2>3 DEF IInv
<1>. QED  BY <1>1, <1>2, <1>3, <1>4

\* Every step of the main code and of the handler keeps the invariant.
LEMMA NextIInv == IInv /\ [Next]_vars => IInv'
<1>1. ASSUME IInv, Next PROVE IInv'
  BY <1>1, PrintStep, PutcStep, WrapAdvanceStep, ScrollStep, KeyPutcStep, KeyBackspaceStep
  DEF Next, MainStep
<1>2. ASSUME IInv, UNCHANGED vars PROVE IInv'
  BY <1>2, Zenon DEF vars, main, IInv, TypeOK, CursorReach, Reach, High, Slack
<1>. QED  BY <1>1, <1>2

\* The invariant holds in every state of every behaviour.
LEMMA IInvAlways == Spec => []IInv
  BY InitIInv, NextIInv, PTL DEF Spec

(* ------------------------------------------------------------------------ *)
(* The theorems                                                             *)

\* Whatever the screen's size and whenever keys come, terminal_push_cursor and
\* terminal_scroll keep the cursor in the columns 1..WIDTH and never take it
\* above the screen.
THEOREM TypeCorrect == Spec => []TypeOK
<1>1. IInv => TypeOK
  BY DEF IInv
<1>. QED  BY <1>1, IInvAlways, PTL

\* The scrolling of terminal_push_cursor keeps up with any text without empty
\* lines and any number of keys: the cursor is never lower than the second row
\* below the screen, or one more once a key has come within a terminal_putc.
THEOREM CursorStaysNear == Spec => []CursorNearScreen
<1>1. IInv => CursorNearScreen
  <2>. SUFFICES ASSUME IInv PROVE CursorNearScreen
    OBVIOUS
  <2>1. y <= HEIGHT + 2 - Slack
    BY SlackType, TerminalAssumption DEF IInv, TypeOK, CursorReach, Reach, High
  <2>. QED  BY <2>1 DEF Slack, CursorNearScreen, IInv, TypeOK
<1>. QED  BY <1>1, IInvAlways, PTL

(* ------------------------------------------------------------------------ *)
(* The text on the screen                                                   *)

\* The cells from column cx of row cy on are blank.
BlankFrom(cx, cy) ==
    \A r \in Rows, c \in 1..WIDTH : r > cy \/ (r = cy /\ c >= cx) => screen[r][c] = BLANK

\* Those before it in its row are not.
FullBefore(cx, cy) ==
    \A r \in Rows, c \in 1..WIDTH : r = cy /\ c < cx => screen[r][c] # BLANK

Contiguous(cx, cy) == BlankFrom(cx, cy) /\ FullBefore(cx, cy)

\* What is drawn at every step of an undisturbed terminal_putc.  Below the screen the
\* cursor is in the first column, so that a scroll puts it at the start of a blank row.
TextKept ==
    /\ pc # "newline" /\ y >= HEIGHT => x = 1
    /\ pc \in {"print", "idle", "draw"} => Contiguous(x, y)
    /\ pc = "draw" => at = [x |-> x, y |-> y]
    /\ pc \in {"push", "advance"} => Contiguous(x + 1, y)
    /\ pc = "advance" => reg = x /\ y < HEIGHT
    /\ pc = "newline" => BlankFrom(1, y)
    /\ pc = "wrap" => x = 1 /\ BlankFrom(1, y + 1)
    /\ pc \in {"copy", "blank"} => y >= HEIGHT
    /\ pc = "blank" =>
          /\ row >= y - 1
          /\ \A r \in Rows, c \in 1..WIDTH : r >= y - 1 /\ r < row => screen[r][c] = BLANK

TextInv == ~disturbed => TextKept

\* Cells have the numbers of rows and columns.
LEMMA CellRange ==
    /\ Rows \subseteq Nat /\ 1..WIDTH \subseteq Columns /\ Columns \subseteq Nat
    /\ \A r \in Rows : r < HEIGHT
  BY TerminalAssumption DEF Rows, Columns

\* A character drawn changes its cell and no other.
LEMMA DrawnCell ==
    ASSUME NEW scr \in Screens, NEW c \in Columns, NEW r \in Nat, NEW g \in Glyphs,
           NEW r2 \in Rows, NEW c2 \in Columns
    PROVE  Drawn(scr, c, r, g)[r2][c2] = IF r2 = r /\ c2 = c THEN g ELSE scr[r2][c2]
  BY DEF Drawn, Screens

\* A scroll leaves the rows from the one above the cursor on blank.
LEMMA ScrolledCell ==
    ASSUME NEW scr, NEW curs \in Nat, NEW r \in Rows, NEW c \in Columns, r >= curs - 1
    PROVE  Scrolled(scr, curs)[r][c] = BLANK
<1>1. ~(r < curs - 1)
  BY CellRange
<1>. QED  BY <1>1 DEF Scrolled, BlankRow

\* Drawing at the cursor makes the text one cell longer.
LEMMA DrawnText ==
    ASSUME IInv, Contiguous(x, y), NEW g \in {"char", "key"},
           screen' = Drawn(screen, x, y, g)
    PROVE  \A r \in Rows, c \in 1..WIDTH :
              /\ r > y \/ (r = y /\ c >= x + 1) => screen'[r][c] = BLANK
              /\ r = y /\ c < x + 1 => screen'[r][c] # BLANK
<1>. TAKE r \in Rows, c \in 1..WIDTH
<1>1. /\ screen \in Screens /\ g \in Glyphs /\ g # BLANK
      /\ x \in Columns /\ x \in Nat /\ y \in Nat /\ c \in Columns
  BY CellRange DEF IInv, TypeOK, Screens, Glyphs, BLANK
<1>2. screen'[r][c] = IF r = y /\ c = x THEN g ELSE screen[r][c]
  BY <1>1, DrawnCell
<1>. QED  BY <1>1, <1>2, CellRange DEF Contiguous, BlankFrom, FullBefore

\* A key typed between two characters appends.
LEMMA KeyPutcText == IInv /\ TextInv /\ KeyPutc => TextInv'
<1>. SUFFICES ASSUME IInv, TextInv, KeyPutc, ~disturbed' PROVE TextKept'
  BY DEF TextInv
<1>1. ~disturbed /\ pc \in {"print", "idle"} /\ pc' = pc
  BY Zenon DEF KeyPutc, Disturb, main
<1>2. (y >= HEIGHT => x = 1) /\ Contiguous(x, y)
  BY <1>1, Zenon DEF TextInv, TextKept
<1>3. x \in 1..WIDTH /\ y \in Nat /\ screen \in Screens
  BY DEF IInv, TypeOK, Screens, Glyphs
<1>. SUFFICES (y' >= HEIGHT => x' = 1) /\ Contiguous(x, y)'
  BY <1>1 DEF TextKept
<1>. DEFINE
       Wraps   == EndOfRow(x) /\ x' = 1 /\ y' = y + 1 /\ screen' = Drawn(screen, x, y, "key")
       Scrolls == ~EndOfRow(x) /\ BelowScreen(x, y) /\ x' = x /\ y' = y - 1
                  /\ screen' = Scrolled(Drawn(screen, x, y, "key"), y)
       Moves   == ~EndOfRow(x) /\ ~BelowScreen(x, y) /\ x' = x + 1 /\ y' = y
                  /\ screen' = Drawn(screen, x, y, "key")
<1>4. Wraps \/ Scrolls \/ Moves
  BY DEF KeyPutc, TERMINAL_LEFT_OFFSET
<1>5. CASE Wraps
  <2>1. \A r \in Rows, c \in 1..WIDTH : r > y => screen'[r][c] = BLANK
    BY <1>2, <1>5, DrawnText
  <2>2. BlankFrom(x, y)'
    <3>. SUFFICES ASSUME NEW r \in Rows, NEW c \in 1..WIDTH, r > y' \/ (r = y' /\ c >= x')
                  PROVE  screen'[r][c] = BLANK
      BY DEF BlankFrom
    <3>1. r > y
      BY <1>3, <1>5, CellRange
    <3>. QED  BY <2>1, <3>1
  <2>3. FullBefore(x, y)'
    BY <1>5, CellRange DEF FullBefore
  <2>. QED  BY <1>5, <2>2, <2>3 DEF Contiguous
<1>6. CASE Scrolls
  <2>1. y >= HEIGHT /\ x = 1
    BY <1>2, <1>6 DEF BelowScreen
  <2>2. \A r \in Rows, c \in 1..WIDTH : r >= y - 1 => screen'[r][c] = BLANK
    <3>. TAKE r \in Rows, c \in 1..WIDTH
    <3>. HAVE r >= y - 1
    <3>1. c \in Columns
      BY CellRange
    <3>. QED  BY <1>3, <1>6, <3>1, ScrolledCell
  <2>. QED  BY <1>3, <1>6, <2>1, <2>2, CellRange DEF Contiguous, BlankFrom, FullBefore
<1>7. CASE Moves
  <2>1. y < HEIGHT
    BY <1>3, <1>7, TerminalAssumption DEF BelowScreen
  <2>2. \A r \in Rows, c \in 1..WIDTH :
           /\ r > y \/ (r = y /\ c >= x + 1) => screen'[r][c] = BLANK
           /\ r = y /\ c < x + 1 => screen'[r][c] # BLANK
    BY <1>2, <1>7, DrawnText
  <2>3. Contiguous(x, y)'
    BY <1>7, <2>2 DEF Contiguous, BlankFrom, FullBefore
  <2>4. ~(y' >= HEIGHT)
    BY <1>3, <1>7, <2>1, TerminalAssumption
  <2>. QED  BY <2>3, <2>4
<1>. HIDE DEF Wraps, Scrolls, Moves
<1>. QED  BY <1>4, <1>5, <1>6, <1>7

\* A backspace between two characters takes the last cell of the row back.
LEMMA KeyBackspaceText == IInv /\ TextInv /\ KeyBackspace => TextInv'
<1>. SUFFICES ASSUME IInv, TextInv, KeyBackspace, ~disturbed' PROVE TextKept'
  BY DEF TextInv
<1>1. ~disturbed /\ pc \in {"print", "idle"} /\ pc' = pc
  BY Zenon DEF KeyBackspace, Disturb, main
<1>2. (y >= HEIGHT => x = 1) /\ Contiguous(x, y)
  BY <1>1, Zenon DEF TextInv, TextKept
<1>3. x \in 1..WIDTH /\ y \in Nat /\ screen \in Screens /\ BLANK \in Glyphs
  BY DEF IInv, TypeOK, Screens, Glyphs
<1>4. x' \in 1..WIDTH /\ y' = y /\ (x' = x \/ x' = x - 1) /\ (x = 1 => x' = 1)
  BY <1>3, TerminalAssumption DEF KeyBackspace, Back
<1>5. \A r \in Rows, c \in 1..WIDTH :
         screen'[r][c] = IF r = y /\ c = x' THEN BLANK ELSE screen[r][c]
  <2>. TAKE r \in Rows, c \in 1..WIDTH
  <2>1. c \in Columns /\ x' \in Columns
    BY <1>4, CellRange
  <2>2. screen' = Drawn(screen, x', y, BLANK)
    BY DEF KeyBackspace
  <2>3. Drawn(screen, x', y, BLANK)[r][c] = IF r = y /\ c = x' THEN BLANK ELSE screen[r][c]
    BY ONLY <1>3, <2>1, DrawnCell
  <2>. QED  BY <2>2, <2>3
<1>6. BlankFrom(x, y)'
  <2>. SUFFICES ASSUME NEW r \in Rows, NEW c \in 1..WIDTH, r > y \/ (r = y /\ c >= x')
                PROVE  screen'[r][c] = BLANK
    BY <1>4 DEF BlankFrom
  <2>1. screen'[r][c] = BLANK \/ (screen'[r][c] = screen[r][c] /\ (r = y => c > x'))
    <3>1. CASE r = y /\ c = x'
      BY <1>5, <3>1
    <3>2. CASE ~(r = y /\ c = x')
      <4>1. r = y => c > x'
        BY <1>3, <1>4, <3>2, CellRange
      <4>2. screen'[r][c] = screen[r][c]
        BY <1>5, <3>2
      <4>. QED  BY <4>1, <4>2
    <3>. QED  BY <3>1, <3>2
  <2>2. r > y \/ (r = y /\ c > x') => r > y \/ (r = y /\ c >= x)
    BY <1>3, <1>4
  <2>. QED  BY <1>2, <2>1, <2>2 DEF Contiguous, BlankFrom
<1>7. FullBefore(x, y)'
  <2>. SUFFICES ASSUME NEW r \in Rows, NEW c \in 1..WIDTH, r = y, c < x'
                PROVE  screen'[r][c] # BLANK
    BY <1>4 DEF FullBefore
  <2>1. screen'[r][c] = screen[r][c] /\ c < x
    BY <1>3, <1>4, <1>5
  <2>. QED  BY <1>2, <2>1 DEF Contiguous, FullBefore
<1>. QED  BY <1>1, <1>2, <1>4, <1>6, <1>7 DEF TextKept, Contiguous

\* The main code draws the character and goes to terminal_push_cursor's branches.
LEMMA DrawText == IInv /\ TextInv /\ Draw => TextInv'
<1>. SUFFICES ASSUME IInv, TextInv, Draw, ~disturbed' PROVE TextKept'
  BY DEF TextInv
<1>1. ~disturbed /\ pc = "draw" /\ pc' = "push" /\ x' = x /\ y' = y
  BY DEF Draw, Unprinted
<1>2. (y >= HEIGHT => x = 1) /\ Contiguous(x, y) /\ at = [x |-> x, y |-> y]
  BY <1>1, Zenon DEF TextInv, TextKept
<1>3. screen' = Drawn(screen, x, y, "char")
  BY <1>2 DEF Draw
<1>4. Contiguous(x + 1, y)'
  BY <1>1, <1>2, <1>3, DrawnText DEF Contiguous, BlankFrom, FullBefore
<1>. QED  BY <1>1, <1>2, <1>4 DEF TextKept

\* Steps that leave the screen alone.
LEMMA CursorText ==
    ASSUME IInv, TextInv,
           \/ PrintNewline \/ Newline \/ PrintChar \/ PrintEnds
           \/ PushWraps \/ Wrap \/ PushScrolls \/ PushAdvances \/ Advance \/ CopyEnds
    PROVE  TextInv'
<1>. SUFFICES ASSUME ~disturbed' PROVE TextKept'
  BY DEF TextInv
<1>1. ~disturbed /\ screen' = screen
  BY DEF PrintNewline, Newline, PrintChar, PrintEnds, PushWraps, Wrap, PushScrolls,
         PushAdvances, Advance, CopyEnds, Take, Unprinted
<1>2. TextKept
  BY <1>1 DEF TextInv
<1>3. x \in 1..WIDTH /\ y \in Nat /\ reg \in 1..WIDTH
  BY DEF IInv, TypeOK
<1>4. CASE PrintNewline
  BY <1>1, <1>2, <1>3, <1>4, CellRange DEF PrintNewline, Take, TextKept, Contiguous, BlankFrom
<1>5. CASE Newline
  <2>1. y' = y /\ x' = 1 /\ pc' = "print" /\ BlankFrom(1, y)
    BY <1>2, <1>5 DEF Newline, TextKept
  <2>2. Contiguous(x, y)'
    BY <1>1, <2>1 DEF Contiguous, BlankFrom, FullBefore
  <2>. QED  BY <2>1, <2>2 DEF TextKept
<1>6. CASE PrintChar
  BY <1>1, <1>2, <1>6 DEF PrintChar, Take, TextKept, Contiguous, BlankFrom, FullBefore
<1>7. CASE PrintEnds
  BY <1>1, <1>2, <1>7 DEF PrintEnds, Unprinted, TextKept, Contiguous, BlankFrom, FullBefore
<1>8. CASE PushWraps
  <2>1. y' = y /\ x' = 1 /\ pc' = "wrap"
    BY <1>8 DEF PushWraps, TERMINAL_LEFT_OFFSET, Unprinted
  <2>2. BlankFrom(x + 1, y)
    BY <1>2, <1>8 DEF PushWraps, TextKept, Contiguous
  <2>3. BlankFrom(1, y + 1)'
    BY <1>1, <1>3, <2>1, <2>2, CellRange DEF BlankFrom
  <2>. QED  BY <2>1, <2>3 DEF TextKept
<1>9. CASE Wrap
  <2>1. pc = "wrap" /\ BlankFrom(1, y + 1) /\ x = 1
    BY <1>2, <1>9 DEF Wrap, TextKept
  <2>2. y' = y + 1 /\ x' = x /\ pc' = "print"
    BY <1>9 DEF Wrap, Unprinted
  <2>3. Contiguous(x, y)'
    BY <1>1, <2>1, <2>2 DEF Contiguous, BlankFrom, FullBefore
  <2>. QED  BY <2>1, <2>2, <2>3 DEF TextKept
<1>10. CASE PushScrolls
  BY <1>1, <1>2, <1>3, <1>10, TerminalAssumption
  DEF PushScrolls, BelowScreen, Unprinted, TextKept
<1>11. CASE PushAdvances
  <2>1. y < HEIGHT
    BY <1>3, <1>11, TerminalAssumption DEF PushAdvances, BelowScreen
  <2>2. Contiguous(x + 1, y)'
    BY <1>1, <1>2, <1>11 DEF PushAdvances, Unprinted, TextKept, Contiguous, BlankFrom, FullBefore
  <2>. QED  BY <1>2, <1>3, <1>11, <2>1, <2>2, TerminalAssumption
            DEF PushAdvances, Unprinted, TextKept
<1>12. CASE Advance
  <2>1. x' = x + 1 /\ y' = y /\ pc' = "print" /\ y < HEIGHT /\ Contiguous(x + 1, y)
    BY <1>2, <1>12 DEF Advance, Unprinted, TextKept
  <2>2. Contiguous(x, y)'
    BY <1>1, <2>1 DEF Contiguous, BlankFrom, FullBefore
  <2>. QED  BY <1>3, <2>1, <2>2, TerminalAssumption DEF TextKept
<1>13. CASE CopyEnds
  <2>1. /\ pc = "copy" /\ pc' = "blank" /\ x' = x /\ y' = y /\ row' = y - 1
        /\ y >= HEIGHT
    BY <1>2, <1>13 DEF CopyEnds, Unprinted, TextKept
  <2>2. x = 1
    BY <1>2, <2>1 DEF TextKept
  <2>3. \A r \in Rows : ~(r >= y' - 1 /\ r < row')
    BY <1>3, <2>1, CellRange
  <2>. QED  BY <1>3, <2>1, <2>2, <2>3 DEF TextKept
<1>. QED  BY <1>4, <1>5, <1>6, <1>7, <1>8, <1>9, <1>10, <1>11, <1>12, <1>13

\* The rows that the main code's scroll copies and blanks.
LEMMA ScrollText ==
    ASSUME IInv, TextInv, CopyRow \/ BlankRows \/ ScrollEnds
    PROVE  TextInv'
<1>. SUFFICES ASSUME ~disturbed' PROVE TextKept'
  BY DEF TextInv
<1>1. ~disturbed /\ TextKept
  BY DEF TextInv, CopyRow, BlankRows, ScrollEnds, Unprinted
<1>2. y \in Nat /\ row \in Nat /\ screen \in Screens
  BY DEF IInv, TypeOK, Screens, Glyphs
<1>3. CASE CopyRow
  BY <1>1, <1>3 DEF CopyRow, Unprinted, TextKept
<1>4. CASE BlankRows
  <2>1. /\ pc = "blank" /\ pc' = pc /\ x' = x /\ y' = y /\ row' = row + 1
        /\ screen' = [screen EXCEPT ![row] = BlankRow]
    BY <1>4 DEF BlankRows, Unprinted
  <2>2. /\ y >= HEIGHT /\ x = 1 /\ row >= y - 1
        /\ \A r \in Rows, c \in 1..WIDTH : r >= y - 1 /\ r < row => screen[r][c] = BLANK
    BY <1>1, <2>1 DEF TextKept
  <2>3. \A r \in Rows, c \in 1..WIDTH : r >= y - 1 /\ r < row + 1 => screen'[r][c] = BLANK
    <3>. TAKE r \in Rows, c \in 1..WIDTH
    <3>. HAVE r >= y - 1 /\ r < row + 1
    <3>1. c \in Columns /\ r \in Nat
      BY CellRange
    <3>2. CASE r = row
      BY <1>2, <2>1, <3>1, <3>2 DEF Screens, BlankRow
    <3>3. CASE r < row
      BY <1>2, <2>1, <2>2, <3>1, <3>3 DEF Screens
    <3>. QED  BY <1>2, <3>1, <3>2, <3>3
  <2>. QED  BY <1>2, <2>1, <2>2, <2>3, TerminalAssumption DEF TextKept
<1>5. CASE ScrollEnds
  <2>1. pc = "blank" /\ pc' = "print" /\ x' = x /\ y' = y - 1 /\ screen' = screen /\ row >= HEIGHT
    BY <1>5 DEF ScrollEnds, Unprinted
  <2>2. /\ y >= HEIGHT /\ x = 1
        /\ \A r \in Rows, c \in 1..WIDTH : r >= y - 1 /\ r < row => screen[r][c] = BLANK
    BY <1>1, <2>1 DEF TextKept
  <2>3. \A r \in Rows : r < row
    BY <1>2, <2>1, CellRange, TerminalAssumption
  <2>4. Contiguous(x, y)'
    BY <1>2, <2>1, <2>2, <2>3, CellRange DEF Contiguous, BlankFrom, FullBefore
  <2>. QED  BY <1>2, <2>1, <2>2, <2>4 DEF TextKept
<1>. QED  BY <1>3, <1>4, <1>5

\* No step draws over the text or leaves a cell out.
LEMMA NextTextInv == IInv /\ TextInv /\ [Next]_vars => TextInv'
<1>1. ASSUME IInv, TextInv, Next PROVE TextInv'
  BY <1>1, KeyPutcText, KeyBackspaceText, DrawText, CursorText, ScrollText
  DEF Next, MainStep
<1>2. ASSUME TextInv, UNCHANGED vars PROVE TextInv'
  BY <1>2, Zenon DEF vars, main, TextInv, TextKept, Contiguous, BlankFrom, FullBefore
<1>. QED  BY <1>1, <1>2

\* An undisturbed terminal_putc appends to the text: the cells from the cursor on are
\* blank and those before it in its row are not, through wraps, scrolls and backspaces,
\* on a screen of any size and for a text of any length.
THEOREM TextStaysContiguous == Spec => []TextIsContiguous
<1>1. Init => TextInv
  <2>. SUFFICES ASSUME Init PROVE TextKept
    BY DEF TextInv
  <2>1. x = 1 /\ y = 1 /\ pc = "print" /\ y < HEIGHT
    BY TerminalAssumption DEF Init
  <2>2. \A r \in Rows, c \in 1..WIDTH : screen[r][c] = BLANK
    BY CellRange DEF Init, BlankRow
  <2>3. Contiguous(1, 1)
    BY <2>2 DEF Contiguous, BlankFrom, FullBefore
  <2>. QED  BY <2>1, <2>3, TerminalAssumption DEF TextKept
<1>2. TextInv => TextIsContiguous
  BY DEF TextInv, TextKept, TextIsContiguous, Contiguous, BlankFrom, FullBefore
<1>3. Spec => []TextInv
  BY <1>1, NextTextInv, IInvAlways, PTL DEF Spec
<1>. QED  BY <1>2, <1>3, PTL

=============================================================================

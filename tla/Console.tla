------------------------------- MODULE Console -------------------------------
(***************************************************************************)
(* The text screen, core/screen/screen_basic.c: characters that are        *)
(* printed, the scrolling of full screens, and the characters the game of  *)
(* life draws (core/misc/conway.c).                                        *)
(*                                                                         *)
(* The driver never goes to the next line by itself: what is printed past  *)
(* the right edge lands in the row below, and a backspace in the first     *)
(* column makes the column wrap around.                                    *)
(***************************************************************************)
EXTENDS Integers, Sequences, SequencesExt

CONSTANTS
    Width, Height,  \* SCREEN_BASIC_WIDTH and _HEIGHT
    Mod,            \* 2^16, of the column and the cursor position
    TabWidth,       \* 4
    Chars,          \* characters without a meaning of their own
    Blank,          \* character 0
    Drawn           \* where screen_basic_putchar is called for: [x, y]

ASSUME ConsoleAssumption ==
    /\ Width \in Nat \ {0} /\ Height \in Nat \ {0, 1}
    /\ TabWidth \in Nat \ {0}
    /\ Mod \in Nat /\ Mod > Width * Height /\ Mod > Width + TabWidth
    /\ Blank \notin Chars
    /\ Drawn \subseteq [x : Nat, y : Nat]

VARIABLES
    cells,  \* video memory, as far as it is seen
    cursorX, cursorY,
    hwCursor,   \* the position the VGA controller was given
    text,   \* the lines printed since the screen was cleared, as many as are shown
    astray  \* something was drawn, or printed beyond an edge, since then

vars == <<cells, cursorX, cursorY, hwCursor, text, astray>>

Cells == 0..Width * Height - 1
Position(x, y) == y * Width + x

\* screen_basic_move_cursor, and _internal.
Shown(x, y) == Position(x, y) % Mod

\* screen_basic_clear_line.
Cleared(mem, from, to) == [p \in Cells |-> IF p >= from * Width /\ p < to * Width THEN Blank ELSE mem[p]]

\* A byte of video memory; what is written behind the last row is not seen.
Written(mem, p, c) == [q \in Cells |-> IF q = p THEN c ELSE mem[q]]

\* screen_basic_scroll(1): the last row moves up too, and is then cleared where it
\* arrives.
Raised(mem) == [p \in Cells |-> IF p < Width * (Height - 1) THEN mem[p + Width] ELSE mem[p]]
ScrolledTooFar(mem) == Cleared(Raised(mem), Height - 3, Height - 1)
Scrolled(mem) == Cleared(Raised(mem), Height - 2, Height - 1)

\* screen_basic_init, screen_basic_clear_screen.
AllBlank == [p \in Cells |-> Blank]
Init == /\ cells = AllBlank
        /\ cursorX = 0 /\ cursorY = 0 /\ hwCursor = 0
        /\ text = <<<<>>>> /\ astray = FALSE
Clear == /\ cells' = AllBlank
         /\ cursorX' = 0 /\ cursorY' = 0 /\ hwCursor' = 0
         /\ text' = <<<<>>>> /\ astray' = FALSE

\* The end of screen_basic_char_put_on_screen, when the cursor is to be at <<x, y>>
\* with mem in the video memory (screen_basic_linecheck).
Full(y) == y >= Height - 1
MovedBefore(x, y) == Shown(x, y)
Moved(x, y) == Shown(x, IF Full(y) THEN y - 1 ELSE y)
Put(mem, x, y) ==
    /\ cursorX' = x
    /\ IF Full(y) THEN cells' = Scrolled(mem) /\ cursorY' = y - 1
       ELSE cells' = mem /\ cursorY' = y
    /\ hwCursor' = Moved(x, y)

Line == Last(text)
Says(line) == text' = Append(Front(text), line)

Character(c) ==
    /\ Put(Written(cells, Position(cursorX, cursorY), c), (cursorX + 1) % Mod, cursorY)
    /\ IF cursorX < Width /\ ~astray THEN Says(Append(Line, c)) /\ UNCHANGED astray
       ELSE text' = <<<<>>>> /\ astray' = TRUE

Tab ==
    /\ Put(cells, (cursorX + TabWidth) % Mod, cursorY)
    /\ IF cursorX < Width /\ ~astray
       THEN Says(Line \o [i \in 1..TabWidth |-> Blank]) /\ UNCHANGED astray
       ELSE text' = <<<<>>>> /\ astray' = TRUE

\* '\b' blanks the cell the cursor moves back to.
BeforeSigned(x) == x - 1
Before(x) == (x + Mod - 1) % Mod
Backspace ==
    /\ Put(Written(cells, Position(Before(cursorX), cursorY), Blank), Before(cursorX), cursorY)
    /\ IF cursorX > 0 /\ ~astray THEN Says(Front(Line)) /\ UNCHANGED astray
       ELSE text' = <<<<>>>> /\ astray' = TRUE

NewLine ==
    /\ Put(cells, 0, cursorY + 1)
    /\ text' = IF astray THEN text
               ELSE IF Len(text) < Height - 1 THEN Append(text, <<>>) ELSE Append(Tail(text), <<>>)
    /\ UNCHANGED astray

\* print and print_value, character by character.
PutOnScreen == NewLine \/ Tab \/ Backspace \/ \E c \in Chars : Character(c)

\* screen_basic_putchar, which lets the first column and row behind the screen through.
Draw(x, y, c) == /\ x <= Width /\ y <= Height
                 /\ cells' = Written(cells, Position(x, y), c)
                 /\ text' = <<<<>>>> /\ astray' = TRUE
                 /\ UNCHANGED <<cursorX, cursorY, hwCursor>>

Next == Clear \/ PutOnScreen \/ \E at \in Drawn, c \in Chars : Draw(at.x, at.y, c)
Spec == Init /\ [][Next]_vars
-----------------------------------------------------------------------------
\* The type invariant.
TypeOK == /\ cells \in [Cells -> Chars \cup {Blank}]
          /\ cursorX \in 0..Mod - 1 /\ cursorY \in 0..Height - 2
          /\ hwCursor \in 0..Mod - 1
          /\ astray \in BOOLEAN

\* The blinking cursor is where the next character goes, after every character and
\* every scroll, and even then never in the last row, which scrolling keeps free.
CursorShown == cursorY < Height - 1 /\ hwCursor = Shown(cursorX, cursorY)

\* The screen shows the last lines that were printed, one in a row, with nothing of
\* older text beside or below them, as long as every line fits its row and nobody
\* draws: no line is lost or doubled when the screen is full (screen_basic_scroll).
Column(line, x) == IF x < Len(line) THEN line[x + 1] ELSE Blank
ShowsText ==
    ~astray =>
       /\ Len(text) = cursorY + 1 /\ Len(Line) = cursorX
       /\ \A y \in 0..Height - 1, x \in 0..Width - 1 :
             cells[Position(x, y)] = IF y > cursorY THEN Blank ELSE Column(text[y + 1], x)

\* Whatever is printed, be it past an edge of the screen, the rows above the cursor
\* stay as they are or all move up by one.
LinesStay ==
    [][PutOnScreen => \/ \A p \in Cells : p < cursorY * Width => cells'[p] = cells[p]
                \/ \A p \in Cells : p < cursorY * Width => cells'[p] = cells[p + Width]]_vars
==============================================================================

---------------------------- MODULE ConsoleProofs ----------------------------
(***************************************************************************)
(* Proofs about Console, for screens of every size.  The row a cell is in  *)
(* is a matter of multiplication, which the first lemmas settle; after     *)
(* them the cells are only spoken of by row and column.                    *)
(***************************************************************************)
EXTENDS Console, SequenceTheorems, TLAPS

Glyphs == Chars \cup {Blank}

\* Rows are in ascending order, and as wide as the screen.
LEMMA RowsAscend ==
    ASSUME NEW y \in Nat, NEW z \in Nat, y < z
    PROVE  /\ y * Width \in Nat /\ z * Width \in Nat
           /\ y * Width + Width <= z * Width
<1> DEFINE k == z - y - 1
<1>1. k \in Nat /\ z = y + 1 + k
  OBVIOUS
<1>2. Width \in Nat
  BY ConsoleAssumption
<1>3. k * Width \in Nat /\ y * Width \in Nat
  BY <1>1, <1>2
<1>4. z * Width = y * Width + Width + k * Width
  <2> HIDE DEF k
  <2> QED  BY <1>1, <1>2
<1> QED
  BY <1>2, <1>3, <1>4

\* The cells of the screen are those of its rows and columns, and no two of these
\* are the same cell.
LEMMA InCells ==
    ASSUME NEW x \in 0..Width - 1, NEW y \in 0..Height - 1
    PROVE  Position(x, y) \in Cells
<1>1. Height \in Nat /\ Width \in Nat /\ y < Height
  BY ConsoleAssumption
<1>2. y * Width \in Nat /\ Height * Width \in Nat /\ y * Width + Width <= Height * Width
  BY <1>1, RowsAscend
<1>3. Width * Height = Height * Width
  BY <1>1
<1> QED
  BY <1>1, <1>2, <1>3 DEF Position, Cells

LEMMA Distinct ==
    ASSUME NEW x \in 0..Width - 1, NEW y \in Nat,
           NEW v \in 0..Width - 1, NEW w \in Nat,
           Position(x, y) = Position(v, w)
    PROVE  x = v /\ y = w
<1>1. Width \in Nat /\ y * Width \in Nat /\ w * Width \in Nat
  BY ConsoleAssumption
<1>2. ~ y < w
  BY <1>1, RowsAscend DEF Position
<1>3. ~ w < y
  BY <1>1, RowsAscend DEF Position
<1> QED
  BY <1>1, <1>2, <1>3 DEF Position
-----------------------------------------------------------------------------
(* Every cell holds a glyph, and the cursor stays above the last row.        *)

LEMMA WrittenType ==
    ASSUME NEW mem \in [Cells -> Glyphs], NEW p, NEW c \in Glyphs
    PROVE  Written(mem, p, c) \in [Cells -> Glyphs]
BY DEF Written

LEMMA RaisedType ==
    ASSUME NEW mem \in [Cells -> Glyphs]
    PROVE  Raised(mem) \in [Cells -> Glyphs]
<1>1. /\ Width \in Nat /\ Width * (Height - 1) \in Nat
      /\ Width * Height = Width * (Height - 1) + Width
  BY ConsoleAssumption
<1>2. \A p \in Cells : p < Width * (Height - 1) => p + Width \in Cells
  BY <1>1 DEF Cells
<1> QED
  BY <1>2 DEF Raised

LEMMA ScrolledType ==
    ASSUME NEW mem \in [Cells -> Glyphs]
    PROVE  Scrolled(mem) \in [Cells -> Glyphs]
<1>1. Raised(mem) \in [Cells -> Glyphs]
  BY RaisedType
<1> QED
  BY <1>1 DEF Scrolled, Cleared, Glyphs

\* What the end of screen_basic_char_put_on_screen leaves.
LEMMA PutLeaves ==
    ASSUME NEW mem \in [Cells -> Glyphs], NEW x \in 0..Mod - 1, NEW y \in 0..Height - 1,
           Put(mem, x, y)
    PROVE  /\ cells' \in [Cells -> Glyphs]
           /\ cursorX' = x /\ cursorY' \in 0..Height - 2
           /\ hwCursor' = Shown(cursorX', cursorY')
<1>1. Height \in Nat /\ Height > 1
  BY ConsoleAssumption
<1>2. CASE Full(y)
  BY <1>1, <1>2, ScrolledType DEF Put, Full, Moved
<1>3. CASE ~Full(y)
  BY <1>1, <1>3 DEF Put, Full, Moved
<1> QED
  BY <1>2, <1>3

LEMMA ShownType ==
    ASSUME NEW x \in Nat, NEW y \in Nat
    PROVE  Shown(x, y) \in 0..Mod - 1
<1>1. Width \in Nat /\ Mod \in Nat /\ Mod > 0
  BY ConsoleAssumption
<1>2. y * Width \in Nat
  BY <1>1
<1> QED
  BY <1>1, <1>2 DEF Shown, Position

CursorInv == TypeOK /\ CursorShown

\* The corner of an empty screen.
LEMMA Corner == /\ 0 \in 0..Mod - 1 /\ 0 \in 0..Height - 2 /\ 0 < Height - 1
                /\ Shown(0, 0) = 0
                /\ AllBlank \in [Cells -> Chars \cup {Blank}]
<1>1. /\ Width \in Nat /\ Height \in Nat /\ Height > 1
      /\ Mod \in Nat /\ Mod > 0 /\ 0 * Width = 0 /\ 0 % Mod = 0
  BY ConsoleAssumption
<1> QED
  BY <1>1 DEF AllBlank, Shown, Position

LEMMA CursorInit == Init => CursorInv
BY Corner DEF Init, CursorInv, TypeOK, CursorShown

\* Each way to print a character ends in Put, below no row the cursor may not be in.
LEMMA PrintedByPut ==
    ASSUME CursorInv, PutOnScreen
    PROVE  /\ \E mem \in [Cells -> Glyphs], x \in 0..Mod - 1, y \in {cursorY, cursorY + 1} : Put(mem, x, y)
           /\ astray' \in BOOLEAN
<1>1. /\ Height \in Nat /\ Mod \in Nat /\ Mod > 0 /\ TabWidth \in Nat
      /\ cursorX \in 0..Mod - 1 /\ cells \in [Cells -> Glyphs] /\ astray \in BOOLEAN
  BY ConsoleAssumption DEF CursorInv, TypeOK, Glyphs
<1>2. \A c \in Glyphs : \A p : Written(cells, p, c) \in [Cells -> Glyphs]
  BY <1>1, WrittenType
<1>3. Blank \in Glyphs /\ Chars \subseteq Glyphs
  BY DEF Glyphs
<1>4. /\ (cursorX + 1) % Mod \in 0..Mod - 1 /\ (cursorX + TabWidth) % Mod \in 0..Mod - 1
      /\ Before(cursorX) \in 0..Mod - 1 /\ 0 \in 0..Mod - 1
  BY <1>1 DEF Before
<1>5. ASSUME NEW c \in Chars, Character(c)
      PROVE  /\ Put(Written(cells, Position(cursorX, cursorY), c), (cursorX + 1) % Mod, cursorY)
             /\ astray' \in BOOLEAN
  BY <1>1, <1>5 DEF Character
<1>6. ASSUME Backspace
      PROVE  /\ Put(Written(cells, Position(Before(cursorX), cursorY), Blank), Before(cursorX), cursorY)
             /\ astray' \in BOOLEAN
  BY <1>1, <1>6 DEF Backspace
<1>7. ASSUME Tab PROVE Put(cells, (cursorX + TabWidth) % Mod, cursorY) /\ astray' \in BOOLEAN
  BY <1>1, <1>7 DEF Tab
<1>8. ASSUME NewLine PROVE Put(cells, 0, cursorY + 1) /\ astray' \in BOOLEAN
  BY <1>1, <1>8 DEF NewLine
<1> QED
  <2>1. CASE NewLine
    BY <1>1, <1>4, <1>8, <2>1
  <2>2. CASE Tab
    BY <1>1, <1>4, <1>7, <2>2
  <2>3. CASE Backspace
    BY <1>2, <1>3, <1>4, <1>6, <2>3
  <2>4. ASSUME NEW c \in Chars, Character(c)
        PROVE  /\ \E mem \in [Cells -> Glyphs], x \in 0..Mod - 1, y \in {cursorY, cursorY + 1} : Put(mem, x, y)
               /\ astray' \in BOOLEAN
    BY <1>2, <1>3, <1>4, <1>5, <2>4
  <2> QED
    BY <2>1, <2>2, <2>3, <2>4 DEF PutOnScreen

LEMMA CursorStep == CursorInv /\ [Next]_vars => CursorInv'
<1> SUFFICES ASSUME CursorInv, [Next]_vars PROVE CursorInv'
  OBVIOUS
<1>1. /\ Width \in Nat /\ Height \in Nat /\ Height > 1 /\ Mod \in Nat /\ Mod > 0
      /\ cursorY \in 0..Height - 2 /\ cells \in [Cells -> Glyphs] /\ hwCursor \in 0..Mod - 1
      /\ cursorX \in 0..Mod - 1 /\ hwCursor = Shown(cursorX, cursorY)
  BY ConsoleAssumption DEF CursorInv, TypeOK, CursorShown, Glyphs
<1>2. CASE Clear
  <2>1. Shown(cursorX', cursorY') = Shown(0, 0)
    BY <1>2 DEF Clear
  <2>2. TypeOK'
    BY <1>2, Corner DEF Clear, TypeOK
  <2>3. CursorShown'
    BY <1>2, <2>1, Corner DEF Clear, CursorShown, Shown, Position
  <2> QED
    BY <2>2, <2>3 DEF CursorInv
<1>3. CASE PutOnScreen
  <2>1. PICK mem \in [Cells -> Glyphs], x \in 0..Mod - 1, y \in {cursorY, cursorY + 1} : Put(mem, x, y)
    BY <1>3, PrintedByPut
  <2>2. y \in 0..Height - 1
    BY <1>1
  <2>3. /\ cells' \in [Cells -> Glyphs] /\ cursorX' = x /\ cursorY' \in 0..Height - 2
        /\ hwCursor' = Shown(cursorX', cursorY')
    BY <2>1, <2>2, PutLeaves
  <2>4. hwCursor' \in 0..Mod - 1
    BY <1>1, <2>3, ShownType
  <2>5. astray' \in BOOLEAN
    BY <1>3, PrintedByPut
  <2>6. TypeOK'
    BY <1>1, <2>3, <2>4, <2>5 DEF TypeOK, Glyphs
  <2>7. CursorShown'
    BY <1>1, <2>3 DEF CursorShown, Shown, Position
  <2> QED
    BY <2>6, <2>7 DEF CursorInv
<1>4. ASSUME NEW at \in Drawn, NEW c \in Chars, Draw(at.x, at.y, c) PROVE CursorInv'
  <2>1. cells' \in [Cells -> Glyphs]
    BY <1>1, <1>4, WrittenType DEF Draw, Glyphs
  <2> QED
    BY <1>1, <1>4, <2>1 DEF Draw, CursorInv, TypeOK, CursorShown, Glyphs, Shown, Position
<1>5. CASE UNCHANGED vars
  BY <1>1, <1>5 DEF vars, CursorInv, TypeOK, CursorShown, Shown, Position
<1> QED
  BY <1>2, <1>3, <1>4, <1>5 DEF Next

\* The type invariant, for every screen (screen_basic.c).
THEOREM TypeCorrect == Spec => []TypeOK
<1>1. CursorInv => TypeOK
  BY DEF CursorInv
<1> QED
  BY <1>1, CursorInit, CursorStep, PTL DEF Spec

\* The blinking cursor is where the next character goes, and above the last row, on
\* every screen (screen_basic_char_put_on_screen).
THEOREM CursorShownAlways == Spec => []CursorShown
<1>1. CursorInv => CursorShown
  BY DEF CursorInv
<1> QED
  BY <1>1, CursorInit, CursorStep, PTL DEF Spec
-----------------------------------------------------------------------------
(* The rows above the cursor.                                               *)

\* Only a new line fills the screen.
LEMMA RoomAtCursor ==
    ASSUME CursorInv
    PROVE  /\ ~Full(cursorY)
           /\ Full(cursorY + 1) => cursorY = Height - 2
<1>1. Height \in Nat /\ cursorY \in 0..Height - 2
  BY ConsoleAssumption DEF CursorInv, TypeOK
<1> QED
  BY <1>1 DEF Full

LEMMA ScrolledUp ==
    ASSUME NEW p \in Cells, p < (Height - 2) * Width
    PROVE  Scrolled(cells)[p] = cells[p + Width]
<1>1. /\ Width \in Nat /\ Height \in Nat /\ Height > 1
      /\ (Height - 2) * Width \in Nat /\ Width * (Height - 1) \in Nat
      /\ Width * (Height - 1) = (Height - 2) * Width + Width
  BY ConsoleAssumption
<1>2. Raised(cells)[p] = cells[p + Width]
  BY <1>1 DEF Raised, Cells
<1> QED
  BY <1>1, <1>2 DEF Scrolled, Cleared, Cells

LEMMA LinesStep ==
    ASSUME CursorInv, PutOnScreen
    PROVE  \/ \A p \in Cells : p < cursorY * Width => cells'[p] = cells[p]
           \/ \A p \in Cells : p < cursorY * Width => cells'[p] = cells[p + Width]
<1>1. /\ Width \in Nat /\ Height \in Nat /\ Mod \in Nat /\ Mod > 0
      /\ cursorX \in 0..Mod - 1 /\ cursorY \in 0..Height - 2 /\ cursorY * Width \in Nat
  BY ConsoleAssumption DEF CursorInv, TypeOK
<1>2. ASSUME NEW x \in Nat, NEW c, cells' = Written(cells, Position(x, cursorY), c)
      PROVE  \A p \in Cells : p < cursorY * Width => cells'[p] = cells[p]
  BY <1>1, <1>2 DEF Written, Position, Cells
<1>3. CASE NewLine
  <2>1. CASE Full(cursorY + 1)
    BY <1>3, <2>1, RoomAtCursor, ScrolledUp DEF NewLine, Put
  <2>2. CASE ~Full(cursorY + 1)
    BY <1>3, <2>2 DEF NewLine, Put
  <2> QED
    BY <2>1, <2>2
<1>4. CASE Tab
  BY <1>4, RoomAtCursor DEF Tab, Put
<1>5. CASE Backspace
  <2>1. Before(cursorX) \in Nat
    BY <1>1 DEF Before
  <2> QED
    BY <1>2, <1>5, <2>1, RoomAtCursor DEF Backspace, Put
<1>6. ASSUME NEW c \in Chars, Character(c)
      PROVE  \A p \in Cells : p < cursorY * Width => cells'[p] = cells[p]
  BY <1>1, <1>2, <1>6, RoomAtCursor DEF Character, Put
<1> QED
  BY <1>3, <1>4, <1>5, <1>6 DEF PutOnScreen

\* Whatever is printed, the rows above the cursor stay or all move up by one, on every
\* screen (screen_basic_scroll, screen_basic_char_put_on_screen).
THEOREM LinesStayAlways == Spec => LinesStay
<1>1. CursorInv /\ [Next]_vars =>
         [PutOnScreen => \/ \A p \in Cells : p < cursorY * Width => cells'[p] = cells[p]
                         \/ \A p \in Cells : p < cursorY * Width => cells'[p] = cells[p + Width]]_vars
  BY LinesStep
<1> QED
  BY <1>1, CursorInit, CursorStep, PTL DEF Spec, LinesStay
-----------------------------------------------------------------------------
(* What the screen shows.                                                   *)

\* A cell that is written, on the screen and beyond its right edge.
LEMMA WrittenCell ==
    ASSUME NEW mem \in [Cells -> Glyphs], NEW x \in Nat, NEW y \in Nat, NEW c,
           NEW v \in 0..Width - 1, NEW w \in 0..Height - 1
    PROVE  /\ w < y => Written(mem, Position(x, y), c)[Position(v, w)] = mem[Position(v, w)]
           /\ w = y => Written(mem, Position(x, y), c)[Position(v, w)] =
                           IF v = x THEN c ELSE mem[Position(v, w)]
           /\ x < Width /\ w > y =>
                 Written(mem, Position(x, y), c)[Position(v, w)] = mem[Position(v, w)]
           /\ Written(mem, Position(x, y), c)[Position(v, w)] \in {c, mem[Position(v, w)]}
<1>1. /\ Width \in Nat /\ Height \in Nat /\ w \in Nat
      /\ y * Width \in Nat /\ w * Width \in Nat
      /\ Position(v, w) \in Cells
  BY ConsoleAssumption, InCells
<1>2. w < y => Position(v, w) # Position(x, y)
  BY <1>1, RowsAscend DEF Position
<1>3. w = y => (Position(v, w) = Position(x, y) <=> v = x)
  BY <1>1 DEF Position
<1>4. x < Width /\ w > y => Position(v, w) # Position(x, y)
  BY <1>1, RowsAscend DEF Position
<1> QED
  BY <1>1, <1>2, <1>3, <1>4 DEF Written

\* A screen that scrolls loses its first row and gets an empty one before the last.
LEMMA ScrolledCell ==
    ASSUME NEW mem \in [Cells -> Glyphs],
           NEW v \in 0..Width - 1, NEW w \in 0..Height - 1
    PROVE  /\ w < Height - 2 => Scrolled(mem)[Position(v, w)] = mem[Position(v, w + 1)]
           /\ w = Height - 2 => Scrolled(mem)[Position(v, w)] = Blank
           /\ w = Height - 1 => Scrolled(mem)[Position(v, w)] = mem[Position(v, w)]
<1>1. /\ Width \in Nat /\ Height \in Nat /\ Height > 1 /\ w \in Nat
      /\ Height - 2 \in Nat /\ Height - 1 \in Nat
      /\ w * Width \in Nat /\ (Height - 2) * Width \in Nat /\ (Height - 1) * Width \in Nat
      /\ (Height - 1) * Width = (Height - 2) * Width + Width
      /\ Width * (Height - 1) = (Height - 1) * Width
      /\ (w + 1) * Width = w * Width + Width
      /\ Position(v, w) \in Cells
  BY ConsoleAssumption, InCells
<1>2. w < Height - 2 => w * Width + Width <= (Height - 2) * Width
  BY <1>1, RowsAscend
<1>3. CASE w < Height - 2
  BY <1>1, <1>2, <1>3 DEF Scrolled, Raised, Cleared, Position
<1>4. CASE w = Height - 2
  BY <1>1, <1>4 DEF Scrolled, Raised, Cleared, Position
<1>5. CASE w = Height - 1
  BY <1>1, <1>5 DEF Scrolled, Raised, Cleared, Position
<1> QED
  BY <1>1, <1>3, <1>4, <1>5

TextInv == /\ CursorInv
           /\ text \in Seq(Seq(Glyphs)) /\ Len(text) > 0
           /\ ShowsText

LEMMA FrontIsPrefix ==
    ASSUME NEW T, NEW t \in Seq(T), Len(t) > 0
    PROVE  /\ Front(t) \in Seq(T) /\ Len(Front(t)) = Len(t) - 1
           /\ \A i \in 1..Len(t) - 1 : Front(t)[i] = t[i]
<1> DEFINE n == Len(t) - 1
<1>0. n \in Nat /\ \A i \in 1..n : t[i] \in T
  OBVIOUS
<1> HIDE DEF n
<1>1. /\ 1 \in Int /\ n \in Nat /\ n - 1 + 1 = n /\ \A i \in 1..n : t[i] \in T
      /\ \A i \in 1..n : 1 + i - 1 = i
      /\ (IF 1 <= n THEN n - 1 + 1 ELSE 0) = n
  BY <1>0
<1>2. /\ SubSeq(t, 1, n) \in Seq(T)
      /\ Len(SubSeq(t, 1, n)) = (IF 1 <= n THEN n - 1 + 1 ELSE 0)
      /\ \A i \in 1..n - 1 + 1 : SubSeq(t, 1, n)[i] = t[1 + i - 1]
  <2>1. n \in Int
    BY <1>1
  <2> QED
    BY ONLY <1>1, <2>1, SubSeqProperties
<1>3. /\ SubSeq(t, 1, n) \in Seq(T) /\ Len(SubSeq(t, 1, n)) = n
      /\ \A i \in 1..n : SubSeq(t, 1, n)[i] = t[i]
  BY <1>1, <1>2
<1> QED
  BY <1>3 DEF Front, n

\* The last line is replaced.
LEMMA SaysLine ==
    ASSUME NEW t \in Seq(Seq(Glyphs)), Len(t) > 0, NEW line \in Seq(Glyphs)
    PROVE  LET u == Append(Front(t), line) IN
           /\ u \in Seq(Seq(Glyphs)) /\ Len(u) = Len(t)
           /\ \A i \in 1..Len(t) - 1 : u[i] = t[i]
           /\ u[Len(t)] = line /\ Last(u) = line
<1>1. /\ Front(t) \in Seq(Seq(Glyphs)) /\ Len(Front(t)) = Len(t) - 1
      /\ \A i \in 1..Len(t) - 1 : Front(t)[i] = t[i]
  BY FrontIsPrefix
<1> QED
  BY <1>1 DEF Last

\* A step that changes the cursor's row only, and there shows the new line.
LEMMA RowStep ==
    ASSUME TextInv, CursorInv', ~astray, NEW line \in Seq(Glyphs), Says(line),
           cursorY' = cursorY, cursorX' = Len(line),
           \A w \in 0..Height - 1, v \in 0..Width - 1 :
              cells'[Position(v, w)] = IF w = cursorY THEN Column(line, v)
                                       ELSE IF w > cursorY THEN Blank ELSE cells[Position(v, w)]
    PROVE  TextInv'
<1>1. /\ text \in Seq(Seq(Glyphs)) /\ Len(text) > 0 /\ Len(text) = cursorY + 1
      /\ Height \in Nat /\ cursorY \in Nat
      /\ \A w \in 0..Height - 1, v \in 0..Width - 1 :
            cells[Position(v, w)] = IF w > cursorY THEN Blank ELSE Column(text[w + 1], v)
  BY ConsoleAssumption DEF TextInv, ShowsText, CursorInv, TypeOK
<1>2. /\ text' \in Seq(Seq(Glyphs)) /\ Len(text') = Len(text)
      /\ \A i \in 1..Len(text) - 1 : text'[i] = text[i]
      /\ text'[Len(text)] = line /\ Line' = line
  BY <1>1, SaysLine DEF Says, Line
<1>3. \A w \in 0..Height - 1, v \in 0..Width - 1 :
         cells'[Position(v, w)] = IF w > cursorY' THEN Blank ELSE Column(text'[w + 1], v)
  <2> SUFFICES ASSUME NEW w \in 0..Height - 1, NEW v \in 0..Width - 1
               PROVE  cells'[Position(v, w)] = IF w > cursorY' THEN Blank ELSE Column(text'[w + 1], v)
    OBVIOUS
  <2>1. CASE w < cursorY
    <3>1. w + 1 \in 1..Len(text) - 1
      BY <1>1, <2>1
    <3> QED
      BY <1>1, <1>2, <2>1, <3>1
  <2>2. CASE w = cursorY
    BY <1>1, <1>2, <2>2
  <2>3. CASE w > cursorY
    BY <1>1, <2>3
  <2> QED
    BY <1>1, <2>1, <2>2, <2>3
<1> QED
  BY <1>1, <1>2, <1>3 DEF TextInv, ShowsText, Position, Column

LEMMA LineAtCursor ==
    ASSUME TextInv, ~astray
    PROVE  /\ Line \in Seq(Glyphs) /\ Len(Line) = cursorX /\ cursorX \in Nat
           /\ cursorY \in 0..Height - 2 /\ cells \in [Cells -> Glyphs]
           /\ \A w \in 0..Height - 1, v \in 0..Width - 1 :
                 /\ w > cursorY => cells[Position(v, w)] = Blank
                 /\ w = cursorY => cells[Position(v, w)] = Column(Line, v)
<1>1. /\ Height \in Nat /\ Height > 1 /\ Mod \in Nat
      /\ cursorX \in 0..Mod - 1 /\ cursorY \in 0..Height - 2 /\ cells \in [Cells -> Glyphs]
      /\ text \in Seq(Seq(Glyphs)) /\ Len(text) = cursorY + 1 /\ Len(Line) = cursorX
  BY ConsoleAssumption DEF TextInv, ShowsText, CursorInv, TypeOK, Glyphs
<1>2. Line = text[cursorY + 1] /\ Line \in Seq(Glyphs)
  BY <1>1 DEF Line, Last
<1> QED
  BY <1>1, <1>2 DEF TextInv, ShowsText

LEMMA SmallMod ==
    ASSUME NEW a \in Nat, a < Mod
    PROVE  a % Mod = a
BY ConsoleAssumption

LEMMA CharacterStep ==
    ASSUME TextInv, CursorInv', NEW c \in Chars, Character(c), ~astray, cursorX < Width
    PROVE  TextInv'
<1> DEFINE line == Append(Line, c)
<1>1. /\ Width \in Nat /\ Height \in Nat /\ Mod \in Nat /\ Mod > Width /\ c \in Glyphs
      /\ cursorX \in Nat /\ cursorY \in 0..Height - 2 /\ cells \in [Cells -> Glyphs]
      /\ Line \in Seq(Glyphs) /\ Len(Line) = cursorX
  BY LineAtCursor, ConsoleAssumption DEF Glyphs
<1>2. (cursorX + 1) % Mod = cursorX + 1
  BY <1>1, SmallMod
<1>3. ~Full(cursorY)
  BY RoomAtCursor DEF TextInv
<1>4. /\ line \in Seq(Glyphs) /\ Len(line) = cursorX + 1
      /\ line[cursorX + 1] = c /\ \A i \in 1..cursorX : line[i] = Line[i]
  BY <1>1
<1>5. /\ cells' = Written(cells, Position(cursorX, cursorY), c)
      /\ cursorX' = Len(line) /\ cursorY' = cursorY /\ Says(line)
  BY <1>2, <1>3, <1>4 DEF Character, Put
<1>6. ASSUME NEW w \in 0..Height - 1, NEW v \in 0..Width - 1
      PROVE  cells'[Position(v, w)] = IF w = cursorY THEN Column(line, v)
                                      ELSE IF w > cursorY THEN Blank ELSE cells[Position(v, w)]
  <2>1. CASE w = cursorY
    <3>1. cells'[Position(v, w)] = IF v = cursorX THEN c ELSE Column(Line, v)
      <4>1. cells[Position(v, w)] = Column(Line, v)
        BY <2>1, LineAtCursor
      <4>2. cursorY \in Nat
        BY <1>1
      <4> QED
        BY <1>1, <1>5, <2>1, <4>1, <4>2, WrittenCell
    <3> HIDE DEF line
    <3> QED
      BY <1>1, <1>4, <2>1, <3>1 DEF Column
  <2>2. CASE w # cursorY
    BY <1>1, <1>5, <2>2, WrittenCell, LineAtCursor
  <2> QED
    BY <2>1, <2>2
<1> HIDE DEF line
<1> QED
  BY <1>4, <1>5, <1>6, RowStep

LEMMA TabStep ==
    ASSUME TextInv, CursorInv', Tab, ~astray, cursorX < Width
    PROVE  TextInv'
<1> DEFINE blanks == [i \in 1..TabWidth |-> Blank]
           line == Line \o blanks
<1>1. /\ Width \in Nat /\ Height \in Nat /\ TabWidth \in Nat
      /\ Mod \in Nat /\ Mod > Width + TabWidth /\ Blank \in Glyphs
      /\ cursorX \in Nat /\ cursorY \in 0..Height - 2
      /\ Line \in Seq(Glyphs) /\ Len(Line) = cursorX
  BY LineAtCursor, ConsoleAssumption DEF Glyphs
<1>2. (cursorX + TabWidth) % Mod = cursorX + TabWidth
  BY <1>1, SmallMod
<1>3. ~Full(cursorY)
  BY RoomAtCursor DEF TextInv
<1>4. /\ blanks \in Seq(Glyphs) /\ Len(blanks) = TabWidth
      /\ \A i \in 1..TabWidth : blanks[i] = Blank
  BY <1>1
<1>5. /\ line \in Seq(Glyphs) /\ Len(line) = cursorX + TabWidth
      /\ \A i \in 1..cursorX : line[i] = Line[i]
      /\ \A i \in cursorX + 1..cursorX + TabWidth : line[i] = Blank
  <2> HIDE DEF blanks
  <2> QED  BY <1>1, <1>4
<1>6. /\ cells' = cells /\ cursorX' = Len(line) /\ cursorY' = cursorY /\ Says(line)
  BY <1>2, <1>3, <1>5 DEF Tab, Put
<1>7. ASSUME NEW v \in 0..Width - 1
      PROVE  Column(line, v) = Column(Line, v)
  <2> HIDE DEF line
  <2> QED  BY <1>1, <1>5 DEF Column
<1> HIDE DEF line
<1>8. ASSUME NEW w \in 0..Height - 1, NEW v \in 0..Width - 1
      PROVE  cells'[Position(v, w)] = IF w = cursorY THEN Column(line, v)
                                      ELSE IF w > cursorY THEN Blank ELSE cells[Position(v, w)]
  BY <1>1, <1>6, <1>7, LineAtCursor
<1> QED
  BY <1>5, <1>6, <1>8, RowStep

LEMMA BackspaceStep ==
    ASSUME TextInv, CursorInv', Backspace, ~astray, cursorX > 0
    PROVE  TextInv'
<1> DEFINE line == Front(Line)
<1>1. /\ Width \in Nat /\ Height \in Nat /\ Mod \in Nat /\ Blank \in Glyphs
      /\ cursorX \in Nat /\ cursorX < Mod /\ cursorY \in 0..Height - 2
      /\ cells \in [Cells -> Glyphs]
      /\ Line \in Seq(Glyphs) /\ Len(Line) = cursorX
  BY LineAtCursor, ConsoleAssumption DEF Glyphs, TextInv, CursorInv, TypeOK
<1>2. Before(cursorX) = cursorX - 1
  <2>1. cursorX - 1 \in 0..Mod - 1
    BY <1>1
  <2>2. (cursorX - 1 + Mod) % Mod = cursorX - 1
    BY <1>1, <2>1
  <2> QED
    BY <1>1, <2>2 DEF Before
<1>3. ~Full(cursorY)
  BY RoomAtCursor DEF TextInv
<1>4. /\ line \in Seq(Glyphs) /\ Len(line) = cursorX - 1
      /\ \A i \in 1..cursorX - 1 : line[i] = Line[i]
  BY <1>1, FrontIsPrefix
<1>5. /\ cells' = Written(cells, Position(cursorX - 1, cursorY), Blank)
      /\ cursorX' = Len(line) /\ cursorY' = cursorY /\ Says(line)
  BY <1>2, <1>3, <1>4 DEF Backspace, Put
<1>6. ASSUME NEW w \in 0..Height - 1, NEW v \in 0..Width - 1
      PROVE  cells'[Position(v, w)] = IF w = cursorY THEN Column(line, v)
                                      ELSE IF w > cursorY THEN Blank ELSE cells[Position(v, w)]
  <2>1. CASE w = cursorY
    <3>1. cells'[Position(v, w)] = IF v = cursorX - 1 THEN Blank ELSE Column(Line, v)
      <4>1. cells[Position(v, w)] = Column(Line, v)
        BY <2>1, LineAtCursor
      <4>2. cursorY \in Nat /\ cursorX - 1 \in Nat
        BY <1>1
      <4> QED
        BY <1>1, <1>5, <2>1, <4>1, <4>2, WrittenCell
    <3> HIDE DEF line
    <3> QED
      BY <1>1, <1>4, <2>1, <3>1 DEF Column
  <2>2. CASE w < cursorY
    BY <1>1, <1>5, <2>2, WrittenCell
  <2>3. CASE w > cursorY
    <3>1. cells[Position(v, w)] = Blank
      BY <2>3, LineAtCursor
    <3>2. cursorY \in Nat /\ cursorX - 1 \in Nat
      BY <1>1
    <3>3. cells'[Position(v, w)] \in {Blank, cells[Position(v, w)]}
      BY <1>1, <1>5, <3>2, WrittenCell
    <3> QED
      BY <1>1, <2>3, <3>1, <3>3
  <2> QED
    BY <1>1, <2>1, <2>2, <2>3
<1> HIDE DEF line
<1> QED
  BY <1>4, <1>5, <1>6, RowStep

LEMMA OneEmptyLine ==
    /\ <<<<>>>> \in Seq(Seq(Glyphs)) /\ Len(<<<<>>>>) = 1 /\ Last(<<<<>>>>) = <<>>
    /\ Len(<<>>) = 0 /\ \A v \in 0..Width - 1 : Column(<<>>, v) = Blank
<1>1. <<>> \in Seq(Glyphs) /\ Len(<<>>) = 0
  OBVIOUS
<1> QED
  BY <1>1 DEF Last, Column

LEMMA NewLineStep ==
    ASSUME TextInv, CursorInv', NewLine, ~astray
    PROVE  TextInv'
<1>1. /\ Width \in Nat /\ Height \in Nat /\ Height > 1
      /\ cursorY \in 0..Height - 2 /\ cells \in [Cells -> Glyphs]
      /\ text \in Seq(Seq(Glyphs)) /\ Len(text) > 0 /\ Len(text) = cursorY + 1
      /\ <<>> \in Seq(Glyphs)
      /\ \A w \in 0..Height - 1, v \in 0..Width - 1 :
            cells[Position(v, w)] = IF w > cursorY THEN Blank ELSE Column(text[w + 1], v)
  BY ConsoleAssumption DEF TextInv, ShowsText, CursorInv, TypeOK, Glyphs
<1>2. \A v \in 0..Width - 1 : Column(<<>>, v) = Blank
  BY DEF Column
<1>3. CASE ~Full(cursorY + 1)
  <2>1. /\ cells' = cells /\ cursorX' = 0 /\ cursorY' = cursorY + 1
        /\ cursorY + 1 < Height - 1
    BY <1>1, <1>3 DEF NewLine, Put, Full
  <2>2. text' = Append(text, <<>>)
    BY <1>1, <2>1 DEF NewLine
  <2>3. /\ text' \in Seq(Seq(Glyphs)) /\ Len(text') = cursorY + 2
        /\ \A i \in 1..cursorY + 1 : text'[i] = text[i]
        /\ text'[cursorY + 2] = <<>>
    BY <1>1, <2>2
  <2>4. Line' = <<>>
    BY <1>1, <2>3 DEF Line, Last
  <2>5. ASSUME NEW w \in 0..Height - 1, NEW v \in 0..Width - 1
        PROVE  cells'[Position(v, w)] = IF w > cursorY' THEN Blank ELSE Column(text'[w + 1], v)
    <3>1. CASE w < cursorY + 1
      BY <1>1, <2>1, <2>3, <3>1
    <3>2. CASE w = cursorY + 1
      BY <1>1, <1>2, <2>1, <2>3, <3>2
    <3>3. CASE w > cursorY + 1
      BY <1>1, <2>1, <3>3
    <3> QED
      BY <1>1, <3>1, <3>2, <3>3
  <2> QED
    <3>1. Len(text') = cursorY' + 1 /\ Len(Line') = cursorX'
      BY <1>1, <2>1, <2>3, <2>4, OneEmptyLine
    <3>2. ShowsText'
      BY <2>5, <3>1 DEF ShowsText, Position, Column
    <3>3. text' \in Seq(Seq(Glyphs)) /\ Len(text') > 0
      BY <1>1, <2>3
    <3> QED
      BY <3>2, <3>3 DEF TextInv
<1>4. CASE Full(cursorY + 1)
  <2>1. /\ cells' = Scrolled(cells) /\ cursorX' = 0 /\ cursorY' = cursorY
        /\ cursorY = Height - 2
    BY <1>1, <1>4, RoomAtCursor DEF NewLine, Put, TextInv
  <2>2. text' = Append(Tail(text), <<>>)
    BY <1>1, <2>1 DEF NewLine
  <2>3. /\ Tail(text) \in Seq(Seq(Glyphs)) /\ Len(Tail(text)) = cursorY
        /\ \A i \in 1..cursorY : Tail(text)[i] = text[i + 1]
    BY <1>1
  <2>4. /\ text' \in Seq(Seq(Glyphs)) /\ Len(text') = cursorY + 1
        /\ \A i \in 1..cursorY : text'[i] = text[i + 1]
        /\ text'[cursorY + 1] = <<>>
    BY <1>1, <2>2, <2>3
  <2>5. Line' = <<>>
    BY <1>1, <2>4 DEF Line, Last
  <2>6. ASSUME NEW w \in 0..Height - 1, NEW v \in 0..Width - 1
        PROVE  cells'[Position(v, w)] = IF w > cursorY' THEN Blank ELSE Column(text'[w + 1], v)
    <3>1. CASE w < cursorY
      <4>1. cells'[Position(v, w)] = cells[Position(v, w + 1)]
        BY <1>1, <2>1, <3>1, ScrolledCell
      <4>2. w + 1 \in 1..cursorY /\ w + 1 \in 0..Height - 1
        BY <1>1, <3>1
      <4>3. cells[Position(v, w + 1)] = Column(text[w + 1 + 1], v)
        BY <1>1, <4>2
      <4>4. text'[w + 1] = text[w + 1 + 1]
        BY <2>4, <4>2
      <4>5. ~ w > cursorY'
        BY <1>1, <2>1, <3>1
      <4> QED
        BY <4>1, <4>3, <4>4, <4>5
    <3>2. CASE w = cursorY
      <4>1. cells'[Position(v, w)] = Blank
        BY <1>1, <2>1, <3>2, ScrolledCell
      <4>2. ~ w > cursorY' /\ text'[w + 1] = <<>>
        BY <1>1, <2>1, <2>4, <3>2
      <4> QED
        BY <1>2, <4>1, <4>2
    <3>3. CASE w > cursorY
      <4>1. w = Height - 1
        BY <1>1, <2>1, <3>3
      <4>2. Scrolled(cells)[Position(v, w)] = cells[Position(v, w)]
        BY <1>1, <4>1, ScrolledCell
      <4> QED
        BY <1>1, <2>1, <3>3, <4>2
    <3> QED
      BY <1>1, <3>1, <3>2, <3>3
  <2> QED
    <3>1. Len(text') = cursorY' + 1 /\ Len(Line') = cursorX'
      BY <1>1, <2>1, <2>4, <2>5, OneEmptyLine
    <3>2. ShowsText'
      BY <2>6, <3>1 DEF ShowsText, Position, Column
    <3>3. text' \in Seq(Seq(Glyphs)) /\ Len(text') > 0
      BY <1>1, <2>4
    <3> QED
      BY <3>2, <3>3 DEF TextInv
<1> QED
  BY <1>3, <1>4

\* Nothing is said of a screen on which something was drawn or printed beyond an edge.
LEMMA AstrayStep ==
    ASSUME CursorInv', astray', text' \in Seq(Seq(Glyphs)), Len(text') > 0
    PROVE  TextInv'
BY DEF TextInv, ShowsText

LEMMA BlankScreen ==
    \A w \in 0..Height - 1, v \in 0..Width - 1 : AllBlank[Position(v, w)] = Blank
BY InCells DEF AllBlank

LEMMA TextInit == Init => TextInv
<1> SUFFICES ASSUME Init PROVE TextInv
  OBVIOUS
<1>1. ASSUME NEW w \in 0..Height - 1, NEW v \in 0..Width - 1
      PROVE  cells[Position(v, w)] = IF w > cursorY THEN Blank ELSE Column(text[w + 1], v)
  <2>1. cells[Position(v, w)] = Blank
    BY BlankScreen DEF Init
  <2>2. w > 0 \/ w + 1 = 1
    BY ConsoleAssumption
  <2> QED
    BY <2>1, <2>2, OneEmptyLine DEF Init
<1> QED
  BY <1>1, CursorInit, OneEmptyLine DEF Init, TextInv, ShowsText, Line, Position

LEMMA TextStep == TextInv /\ [Next]_vars => TextInv'
<1> SUFFICES ASSUME TextInv, [Next]_vars PROVE TextInv'
  OBVIOUS
<1>1. CursorInv' /\ astray \in BOOLEAN
  BY CursorStep DEF TextInv, CursorInv, TypeOK
<1>2. CASE Clear
  <2>1. ASSUME NEW w \in 0..Height - 1, NEW v \in 0..Width - 1
        PROVE  cells'[Position(v, w)] = IF w > cursorY' THEN Blank ELSE Column(text'[w + 1], v)
    <3>1. cells'[Position(v, w)] = Blank
      BY <1>2, BlankScreen DEF Clear
    <3>2. w > 0 \/ w + 1 = 1
      BY ConsoleAssumption
    <3> QED
      BY <1>2, <3>1, <3>2, OneEmptyLine DEF Clear
  <2> QED
    BY <1>1, <1>2, <2>1, OneEmptyLine DEF Clear, TextInv, ShowsText, Line, Position, Column
<1>3. CASE NewLine
  <2>1. CASE astray
    BY <1>1, <1>3, <2>1, AstrayStep DEF NewLine, TextInv
  <2> QED
    BY <1>1, <1>3, <2>1, NewLineStep
<1>4. CASE Tab
  <2>1. CASE cursorX < Width /\ ~astray
    BY <1>1, <1>4, <2>1, TabStep
  <2>2. CASE ~(cursorX < Width /\ ~astray)
    <3>1. text' = <<<<>>>> /\ astray'
      BY <1>4, <2>2 DEF Tab
    <3> QED
      BY <1>1, <3>1, AstrayStep, OneEmptyLine
  <2> QED
    BY <2>1, <2>2
<1>5. CASE Backspace
  <2>1. CASE cursorX > 0 /\ ~astray
    BY <1>1, <1>5, <2>1, BackspaceStep
  <2>2. CASE ~(cursorX > 0 /\ ~astray)
    <3>1. text' = <<<<>>>> /\ astray'
      BY <1>5, <2>2 DEF Backspace
    <3> QED
      BY <1>1, <3>1, AstrayStep, OneEmptyLine
  <2> QED
    BY <2>1, <2>2
<1>6. ASSUME NEW c \in Chars, Character(c) PROVE TextInv'
  <2>1. CASE cursorX < Width /\ ~astray
    BY <1>1, <1>6, <2>1, CharacterStep
  <2>2. CASE ~(cursorX < Width /\ ~astray)
    <3>1. text' = <<<<>>>> /\ astray'
      BY <1>6, <2>2 DEF Character
    <3> QED
      BY <1>1, <3>1, AstrayStep, OneEmptyLine
  <2> QED
    BY <2>1, <2>2
<1>7. ASSUME NEW at \in Drawn, NEW c \in Chars, Draw(at.x, at.y, c) PROVE TextInv'
  BY <1>1, <1>7, AstrayStep, OneEmptyLine DEF Draw
<1>8. CASE UNCHANGED vars
  BY <1>1, <1>8 DEF vars, TextInv, ShowsText, Line, Position, Column
<1> QED
  BY <1>2, <1>3, <1>4, <1>5, <1>6, <1>7, <1>8 DEF Next, PutOnScreen

\* The screen shows the last lines that were printed, one in a row, on every screen:
\* screen_basic_scroll neither loses nor doubles one.
THEOREM ShowsTextAlways == Spec => []ShowsText
<1>1. TextInv => ShowsText
  BY DEF TextInv
<1> QED
  BY <1>1, TextInit, TextStep, PTL DEF Spec
=============================================================================

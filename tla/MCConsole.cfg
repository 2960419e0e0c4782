\* A screen of four rows of two columns; a position wraps behind its end.
SPECIFICATION Spec
CONSTANTS
    Width = 2
    Height = 4
    Mod = 11
    TabWidth = 2
    Chars = {"x", "y"}
    Blank = "."
    Drawn <- DrawnAt
INVARIANTS CursorShown ShowsText
PROPERTY LinesStay

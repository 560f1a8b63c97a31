SPECIFICATION Spec
CONSTANTS
    x = x
    Blank = Blank
    End = End
    Rows = 2
    Cols = 2
    MaxText = 7
    Char <- MCChar
    Words <- MCWords
    Results <- MCResults
INVARIANTS
    DisplayBufferFilled

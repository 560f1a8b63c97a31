SPECIFICATION MCSpec
CONSTANTS
    x = x
    eq = eq
    gt = gt
    f1 = f1
    f2 = f2
    l1 = l1
    l2 = l2
    msg = msg
    Blank = Blank
    End = End
    LineRows = 2
    LineCols = 2
    LineMaxText = 7
    LineWords <- MCLineWords
    Results <- MCResults
    FormRows = 2
    FormCols = 6
    MaxText = 5
    MaxCursor = 5
    Field = {f1, f2}
    Label = {l1, l2, msg}
    Message = msg
    Char <- MCChar
    Arrow <- MCArrow
    Words <- MCWords
    LabelText <- MCLabelText
    FormLists <- MCFormLists
    FirstTexts <- MCFirstTexts
    InitialList <- MCInitialList
    InitialTexts <- MCInitialTexts
    m1 = m1
    m2 = m2
    m3 = m3
    m4 = m4
    m5 = m5
    m6 = m6
    NoItem = NoItem
    Rows = 3
    Item <- MCItem
    MenuLists <- MCMenuLists
    Width = 2
    LcdPages = 2
    Columns = 3
    Half = 2
    Byte = {0, 1}
    Level = {3}
    Places <- MCPlaces
    Sizes <- MCSizes
    Word = 9
    Unknown = Unknown
    Buffers <- MCBuffers
INVARIANTS
    ScreenFaithful
    DriverCorrect
    FormFaithful
    TextFaithful
PROPERTIES
    SelectorSpec
    CursorStaysInField
    CursorStaysShown
    EditorSpec

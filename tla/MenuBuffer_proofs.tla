---- MODULE MenuBuffer_proofs ----
(***************************************************************************)
(* Proofs about MenuBuffer for every number of rows, every set of entries  *)
(* and all lists of them, and about the display driver St7565 for every    *)
(* size of the display and of a half byte.                                 *)
(***************************************************************************)
EXTENDS Display, TLAPS

(* update_buffer keeps the window size that update computed, and a repaint *)
(* of a menu with entries never asks for a row outside of the window.      *)
WindowInv ==
    /\ menu_display_size = WindowSize(menu_list)
    /\ menu_list # <<>> => /\ 0 <= refresh_rows[1]
                           /\ refresh_rows[2] <= menu_display_size

(* The inductive invariant: CursorInWindow and ScreenFaithful need each    *)
(* other's strengthening WindowInv.                                        *)
IInv == /\ TypeOK
        /\ WindowInv
        /\ CursorInWindow
        /\ ScreenFaithful
        /\ FailsOnlyWhenEmpty
-----------------------------------------------------------------------------
(* Python's slice of a list of entries is a list of entries.               *)
LEMMA SliceType ==
    ASSUME NEW s \in Seq(Item), NEW a \in Nat, NEW b \in Int
    PROVE  PySlice(s, a, b) \in Seq(Item)
<1> DEFINE n == IF a < MinOf(b, Len(s)) THEN MinOf(b, Len(s)) - a ELSE 0
<1>1. n \in Nat /\ \A k \in 1 .. n : a + k \in 1 .. Len(s)
  BY DEF WindowSize, MinOf
<1>2. \A k \in 1 .. n : s[a + k] \in Item
  BY <1>1
<1>3. PySlice(s, a, b) = [k \in 1 .. n |-> s[a + k]]
  BY DEF PySlice
<1> HIDE DEF n
<1>4. [k \in 1 .. n |-> s[a + k]] \in [1 .. n -> Item]
  BY <1>2
<1> QED
  BY <1>1, <1>3, <1>4

(* A slice that lies inside the list has exactly the asked-for entries.    *)
LEMMA SliceInside ==
    ASSUME NEW s \in Seq(Item), NEW a \in Nat, NEW n \in Nat,
           a + n <= Len(s)
    PROVE  /\ Len(PySlice(s, a, a + n)) = n
           /\ \A r \in 0 .. n - 1 : PySlice(s, a, a + n)[r + 1] = s[a + r + 1]
<1>1. MinOf(a + n, Len(s)) = a + n
  BY DEF WindowSize, MinOf
<1>2. PySlice(s, a, a + n) = [k \in 1 .. n |-> s[a + k]]
  BY <1>1 DEF PySlice
<1> QED
  BY <1>2

(* The slice of the empty list is empty.                                   *)
LEMMA SliceEmpty ==
    ASSUME NEW a \in Nat, NEW b \in Int
    PROVE  Len(PySlice(<<>>, a, b)) = 0
<1>1. ~(a < MinOf(b, Len(<<>>)))
  BY DEF WindowSize, MinOf
<1>2. PySlice(<<>>, a, b) = [k \in 1 .. 0 |-> <<>>[a + k]]
  BY <1>1 DEF PySlice
<1> QED
  BY <1>2

(* Painting rows of entries gives a well-formed display.                   *)
LEMMA PaintType ==
    ASSUME NEW scr \in [Pages -> Row], NEW buf \in Seq(Item),
           NEW cur \in Int, NEW rows \in Int \X Int
    PROVE  Paint(scr, buf, cur, rows) \in [Pages -> Row]
<1> SUFFICES ASSUME NEW r \in Pages
             PROVE  Paint(scr, buf, cur, rows)[r] \in Row
  BY DEF Paint
<1>1. r \in Nat
  BY RowsAssumption DEF Pages
<1>2. r < Len(buf) => buf[r + 1] \in Item
  BY <1>1
<1> QED
  BY <1>2 DEF Paint, Row
(* A repaint that covers every row which is not yet what a full redraw of  *)
(* the window shows yields exactly the full redraw, and raises nothing.    *)
LEMMA PaintIsRedraw ==
    ASSUME NEW scr \in [Pages -> Row], NEW L \in Seq(Item), NEW p \in Nat,
           NEW n \in 0 .. Rows, NEW c \in Int, NEW rows \in Int \X Int,
           p + n <= Len(L), rows[2] <= n,
           \A r \in Pages : ~(rows[1] <= r /\ r < rows[2])
                              => scr[r] = FullRedraw(L, p, n, c)[r]
    PROVE  /\ Paint(scr, PySlice(L, p, p + n), c - p, rows)
                 = FullRedraw(L, p, n, c)
           /\ ~RaisesIndexError(PySlice(L, p, p + n), rows)
<1> DEFINE buf == PySlice(L, p, p + n)
<1>1. n \in Nat /\ \A r \in Pages : r \in Nat
  BY RowsAssumption DEF Pages
<1>2. /\ Len(buf) = n
      /\ \A r \in 0 .. n - 1 : buf[r + 1] = L[p + r + 1]
  BY <1>1, SliceInside
<1>3. ~RaisesIndexError(buf, rows)
  BY <1>1, <1>2 DEF RaisesIndexError
<1> HIDE DEF buf
<1>4. ASSUME NEW r \in Pages
      PROVE  Paint(scr, buf, c - p, rows)[r] = FullRedraw(L, p, n, c)[r]
  <2>1. CASE rows[1] <= r /\ r < rows[2]
    <3>1. r < n /\ r \in 0 .. n - 1
      BY <1>1, <2>1
    <3> QED
      BY <1>2, <2>1, <3>1 DEF Paint, FullRedraw
  <2>2. CASE ~(rows[1] <= r /\ r < rows[2])
    BY <2>2 DEF Paint
  <2> QED
    BY <2>1, <2>2
<1>5. Paint(scr, buf, c - p, rows) = FullRedraw(L, p, n, c)
  BY <1>4 DEF Paint, FullRedraw
<1> QED
  BY <1>3, <1>5 DEF buf
-----------------------------------------------------------------------------
(* What a key must do to the fields for the invariant to survive: the new  *)
(* cursor is in the new window and every row whose content changes is      *)
(* among the rows to refresh.                                              *)
LEMMA KeyPreserves ==
    ASSUME IInv, mode = "open",
           UNCHANGED <<menu_list, menu_display_size, chosen>>,
           SetWindow, Refresh(screen),
           menu_cursor' \in Int, menu_display_position' \in Nat,
           refresh_rows' \in Int \X Int,
           menu_list # <<>> =>
              /\ CursorInWindow'
              /\ 0 <= refresh_rows'[1] /\ refresh_rows'[2] <= menu_display_size
              /\ \A r \in Pages :
                    ~(refresh_rows'[1] <= r /\ r < refresh_rows'[2])
                    => screen[r] = FullRedraw(menu_list, menu_display_position',
                                        menu_display_size, menu_cursor')[r]
    PROVE  IInv'
<1>1. /\ menu_list' = menu_list /\ menu_list \in Seq(Item)
      /\ menu_display_size' = menu_display_size
      /\ menu_display_size \in 0 .. Rows
      /\ screen \in [Pages -> Row]
      /\ chosen' \in Item \cup {NoItem}
  BY DEF IInv, TypeOK
<1>2. /\ display_buffer' = PySlice(menu_list, menu_display_position',
                                menu_display_position' + menu_display_size)
      /\ display_cursor' = menu_cursor' - menu_display_position'
  BY <1>1 DEF SetWindow
<1>3. display_buffer' \in Seq(Item) /\ display_cursor' \in Int
  <2>1. /\ menu_display_position' + menu_display_size \in Int
        /\ menu_cursor' - menu_display_position' \in Int
    BY <1>1, RowsAssumption
  <2> QED
    BY <1>1, <1>2, <2>1, SliceType
<1>4. screen' \in [Pages -> Row] /\ mode' \in {"open", "failed"}
  BY <1>1, <1>3, PaintType DEF Refresh
<1>5. TypeOK'
  BY <1>1, <1>3, <1>4 DEF TypeOK
<1>6. WindowInv' /\ CursorInWindow'
  BY <1>1 DEF IInv, WindowInv, CursorInWindow
<1>7. ScreenFaithful' /\ FailsOnlyWhenEmpty'
  <2>1. CASE menu_list = <<>>
    BY <1>1, <2>1 DEF ScreenFaithful, FailsOnlyWhenEmpty
  <2>2. CASE menu_list # <<>>
    <3>1. menu_display_position' + menu_display_size <= Len(menu_list)
      BY <1>1, <2>2 DEF CursorInWindow
    <3>2. PICK p \in Nat, c \in Int, rows \in Int \X Int :
             /\ p = menu_display_position' /\ c = menu_cursor'
             /\ rows = refresh_rows'
      OBVIOUS
    <3>3. /\ p + menu_display_size <= Len(menu_list)
          /\ rows[2] <= menu_display_size
          /\ \A r \in Pages : ~(rows[1] <= r /\ r < rows[2])
                => screen[r] = FullRedraw(menu_list, p, menu_display_size, c)[r]
      BY <2>2, <3>1, <3>2
    <3>4. /\ Paint(screen, PySlice(menu_list, p, p + menu_display_size), c - p, rows)
               = FullRedraw(menu_list, p, menu_display_size, c)
          /\ ~RaisesIndexError(PySlice(menu_list, p, p + menu_display_size), rows)
      <4>1. /\ p \in Nat /\ c \in Int /\ rows \in Int \X Int
            /\ screen \in [Pages -> Row] /\ menu_list \in Seq(Item)
            /\ menu_display_size \in 0 .. Rows
        BY <1>1
      <4> QED
        BY ONLY <3>3, <4>1, PaintIsRedraw
    <3>5. /\ screen' = FullRedraw(menu_list, p, menu_display_size, c)
          /\ mode' = "open"
      BY <1>2, <3>2, <3>4 DEF Refresh
    <3> QED
      BY <1>1, <3>2, <3>5 DEF ScreenFaithful, FailsOnlyWhenEmpty
  <2> QED
    BY <2>1, <2>2
<1> QED
  BY <1>5, <1>6, <1>7 DEF IInv

(* Opening or replacing a list establishes the invariant, whatever was on  *)
(* the display, provided that the rows below the window are blank.         *)
LEMMA UpdateEstablishes ==
    ASSUME NEW L \in Seq(Item), NEW base \in [Pages -> Row],
           Update(L), Refresh(base), chosen' = NoItem,
           L # <<>> => \A r \in Pages : WindowSize(L) <= r => base[r] = BlankRow
    PROVE  IInv'
<1> DEFINE n == WindowSize(L)
<1>1. n \in 0 .. Rows /\ n <= Len(L) /\ (L # <<>> => 0 < n)
  <2>1. Len(L) \in Nat /\ (L # <<>> => Len(L) > 0)
    OBVIOUS
  <2> QED
    BY <2>1, RowsAssumption DEF WindowSize, MinOf
<1>2. /\ menu_list' = L /\ menu_cursor' = 0 /\ menu_display_position' = 0
      /\ menu_display_size' = n /\ refresh_rows' = <<0, n>>
  BY DEF Update
<1> HIDE DEF n
<1>3. display_buffer' = PySlice(L, 0, 0 + n) /\ display_cursor' = 0 - 0
  BY <1>2 DEF Update, SetWindow
<1>4. display_buffer' \in Seq(Item) /\ display_cursor' \in Int
  BY <1>1, <1>3, SliceType, RowsAssumption
<1>5. screen' \in [Pages -> Row] /\ mode' \in {"open", "failed"}
  <2>1. refresh_rows' \in Int \X Int
    BY <1>1, <1>2, RowsAssumption
  <2> QED
    BY <1>4, <2>1, PaintType DEF Refresh
<1>6. TypeOK'
  BY <1>1, <1>2, <1>4, <1>5, RowsAssumption DEF TypeOK
<1>7. WindowInv' /\ CursorInWindow'
  BY <1>1, <1>2, RowsAssumption DEF WindowInv, CursorInWindow, n
<1>8. ScreenFaithful' /\ FailsOnlyWhenEmpty'
  <2>1. CASE L = <<>>
    BY <1>2, <2>1 DEF ScreenFaithful, FailsOnlyWhenEmpty
  <2>2. CASE L # <<>>
    <3>1. \A r \in Pages : ~(0 <= r /\ r < n) => base[r] = FullRedraw(L, 0, n, 0)[r]
      BY <1>1, <2>2, RowsAssumption DEF FullRedraw, Pages, n
    <3>2. \A r \in Pages : ~(<<0, n>>[1] <= r /\ r < <<0, n>>[2])
                         => base[r] = FullRedraw(L, 0, n, 0)[r]
      BY <3>1
    <3>3. <<0, n>> \in Int \X Int /\ <<0, n>>[2] <= n /\ 0 + n <= Len(L) /\ 0 \in Nat
      BY <1>1, RowsAssumption
    <3>4. /\ Paint(base, PySlice(L, 0, 0 + n), 0 - 0, <<0, n>>) = FullRedraw(L, 0, n, 0)
          /\ ~RaisesIndexError(PySlice(L, 0, 0 + n), <<0, n>>)
      BY <1>1, <3>2, <3>3, PaintIsRedraw
    <3>5. screen' = FullRedraw(L, 0, n, 0) /\ mode' = "open"
      BY <1>2, <1>3, <3>4 DEF Refresh
    <3> QED
      BY <1>2, <3>5 DEF ScreenFaithful, FailsOnlyWhenEmpty
  <2> QED
    BY <2>1, <2>2
<1> QED
  BY <1>6, <1>7, <1>8 DEF IInv
-----------------------------------------------------------------------------
(* The hypotheses of KeyPreserves, as one formula on the step.             *)
GoodMove ==
    /\ menu_cursor' \in Int /\ menu_display_position' \in Nat
    /\ refresh_rows' \in Int \X Int
    /\ menu_list # <<>> =>
         /\ menu_display_position' <= menu_cursor'
         /\ menu_cursor' < menu_display_position' + menu_display_size
         /\ menu_display_position' + menu_display_size <= Len(menu_list)
         /\ 0 <= refresh_rows'[1] /\ refresh_rows'[2] <= menu_display_size
         /\ \A r \in Pages :
               ~(refresh_rows'[1] <= r /\ r < refresh_rows'[2])
               => screen[r] = FullRedraw(menu_list, menu_display_position',
                                   menu_display_size, menu_cursor')[r]

(* What the invariant says of an open menu, with the definitions open.     *)
LEMMA OpenFacts ==
    ASSUME IInv, mode = "open"
    PROVE  /\ menu_list \in Seq(Item) /\ Len(menu_list) \in Nat
           /\ menu_cursor \in Int /\ menu_display_position \in Nat
           /\ menu_display_size \in Nat /\ menu_display_size <= Rows
           /\ menu_display_size = WindowSize(menu_list)
           /\ refresh_rows \in Int \X Int
           /\ \A r \in Pages : r \in Nat
           /\ menu_list # <<>> =>
                /\ menu_display_position <= menu_cursor
                /\ menu_cursor < menu_display_position + menu_display_size
                /\ menu_display_position + menu_display_size <= Len(menu_list)
                /\ 0 <= refresh_rows[1] /\ refresh_rows[2] <= menu_display_size
                /\ screen = FullRedraw(menu_list, menu_display_position,
                                       menu_display_size, menu_cursor)
BY RowsAssumption
   DEF IInv, TypeOK, WindowInv, CursorInWindow, ScreenFaithful, Pages

(* A move that repaints the whole window is good wherever it puts it.      *)
LEMMA FullMoveGood ==
    ASSUME IInv, mode = "open",
           NEW p \in Nat, NEW c \in Int,
           menu_display_position' = p, menu_cursor' = c,
           refresh_rows' = <<0, menu_display_size>>,
           menu_list # <<>> => /\ p <= c /\ c < p + menu_display_size
                               /\ p + menu_display_size <= Len(menu_list)
    PROVE  GoodMove
<1>1. /\ menu_display_size \in Nat /\ menu_cursor \in Int
      /\ menu_display_position \in Nat /\ \A r \in Pages : r \in Nat
      /\ menu_list # <<>> => screen = FullRedraw(menu_list, menu_display_position,
                                          menu_display_size, menu_cursor)
  BY OpenFacts
<1>2. ASSUME menu_list # <<>>, NEW r \in Pages, ~(0 <= r /\ r < menu_display_size)
      PROVE  screen[r] = FullRedraw(menu_list, p, menu_display_size, c)[r]
  <2>1. r \in Nat /\ menu_display_size <= r
    BY <1>1, <1>2
  <2>2. FullRedraw(menu_list, menu_display_position, menu_display_size, menu_cursor)[r]
          = FullRedraw(menu_list, p, menu_display_size, c)[r]
    BY <1>1, <2>1 DEF FullRedraw
  <2> QED
    BY <1>1, <1>2, <2>2
<1> QED
  BY <1>1, <1>2 DEF GoodMove

(* A move inside an unmoved window is good when the rows it repaints hold  *)
(* the old and the new cursor.                                             *)
LEMMA SameWindowGood ==
    ASSUME IInv, mode = "open",
           NEW c \in Int, NEW lo \in Int, NEW hi \in Int,
           menu_display_position' = menu_display_position, menu_cursor' = c,
           refresh_rows' = <<lo, hi>>,
           menu_list # <<>> =>
              /\ menu_display_position <= c
              /\ c < menu_display_position + menu_display_size
              /\ 0 <= lo /\ hi <= menu_display_size
              /\ \/ c = menu_cursor
                 \/ /\ lo <= c - menu_display_position
                    /\ c - menu_display_position < hi
                    /\ lo <= menu_cursor - menu_display_position
                    /\ menu_cursor - menu_display_position < hi
    PROVE  GoodMove
<1>1. /\ menu_display_size \in Nat /\ menu_cursor \in Int
      /\ menu_display_position \in Nat /\ \A r \in Pages : r \in Nat
      /\ menu_list # <<>> =>
           /\ menu_display_position + menu_display_size <= Len(menu_list)
           /\ screen = FullRedraw(menu_list, menu_display_position,
                                  menu_display_size, menu_cursor)
  BY OpenFacts
<1>2. ASSUME menu_list # <<>>, NEW r \in Pages, ~(lo <= r /\ r < hi)
      PROVE  screen[r] = FullRedraw(menu_list, menu_display_position,
                                    menu_display_size, c)[r]
  <2>1. /\ r \in Nat
        /\ \/ c = menu_cursor
           \/ r # c - menu_display_position /\ r # menu_cursor - menu_display_position
    BY <1>1, <1>2
  <2>2. FullRedraw(menu_list, menu_display_position, menu_display_size, menu_cursor)[r]
          = FullRedraw(menu_list, menu_display_position, menu_display_size, c)[r]
    <3>1. CASE c = menu_cursor
      BY <3>1
    <3>2. CASE /\ r # c - menu_display_position
               /\ r # menu_cursor - menu_display_position
      <4>1. /\ (r = c - menu_display_position) = FALSE
            /\ (r = menu_cursor - menu_display_position) = FALSE
        BY <3>2
      <4> QED
        BY <4>1 DEF FullRedraw
    <3> QED
      BY <2>1, <3>1, <3>2
  <2> QED
    BY <1>1, <1>2, <2>2
<1> QED
  BY <1>1, <1>2 DEF GoodMove

(* nav_d moves well, whether it wraps, scrolls or stays in the window.     *)
LEMMA NavDownGood ==
    ASSUME IInv, mode = "open", NavDown
    PROVE  GoodMove
<1> USE OpenFacts
<1>1. CASE menu_cursor + 1 = Len(menu_list)
  BY <1>1, FullMoveGood DEF NavDown, WindowRows, CursorBelow, BelowWindow, TwoRows
<1>2. CASE /\ menu_cursor + 1 # Len(menu_list)
           /\ BelowWindow(menu_cursor + 1)
  BY <1>2, FullMoveGood DEF NavDown, WindowRows, CursorBelow, BelowWindow, TwoRows
<1>3. CASE /\ menu_cursor + 1 # Len(menu_list)
           /\ ~BelowWindow(menu_cursor + 1)
  <2>1. /\ menu_display_position' = menu_display_position
        /\ menu_cursor' = menu_cursor + 1
        /\ refresh_rows' = <<menu_cursor - menu_display_position,
                             menu_cursor - menu_display_position + 2>>
    BY <1>3 DEF NavDown, CursorBelow, TwoRows
  <2>2. /\ menu_cursor + 1 \in Int
        /\ menu_cursor - menu_display_position \in Int
        /\ menu_cursor - menu_display_position + 2 \in Int
    OBVIOUS
  <2>3. menu_list # <<>> =>
           menu_cursor - menu_display_position + 2 <= menu_display_size
    BY <1>3 DEF BelowWindow
  <2>4. PICK c \in Int, lo \in Int, hi \in Int :
           /\ c = menu_cursor + 1 /\ lo = menu_cursor - menu_display_position
           /\ hi = lo + 2
    BY <2>2
  <2>5. /\ menu_display_position' = menu_display_position /\ menu_cursor' = c
        /\ refresh_rows' = <<lo, hi>>
        /\ menu_list # <<>> =>
              /\ menu_display_position <= c
              /\ c < menu_display_position + menu_display_size
              /\ 0 <= lo /\ hi <= menu_display_size
              /\ lo <= c - menu_display_position
              /\ c - menu_display_position < hi
              /\ lo <= menu_cursor - menu_display_position
              /\ menu_cursor - menu_display_position < hi
    <3>1. /\ menu_display_position \in Nat /\ menu_display_size \in Nat
          /\ menu_cursor \in Int
          /\ menu_list # <<>> =>
               /\ menu_display_position <= menu_cursor
               /\ menu_cursor < menu_display_position + menu_display_size
      OBVIOUS
    <3>2. refresh_rows' = <<lo, hi>>
      BY ONLY <2>1, <2>4
    <3> QED
      BY ONLY <2>1, <2>3, <2>4, <3>1, <3>2, c \in Int, lo \in Int, hi \in Int
  <2> QED
    BY ONLY <2>5, IInv, mode = "open", SameWindowGood,
            c \in Int, lo \in Int, hi \in Int
<1> QED
  BY <1>1, <1>2, <1>3

(* So does nav_u.                                                          *)
LEMMA NavUpGood ==
    ASSUME IInv, mode = "open", NavUp
    PROVE  GoodMove
<1> USE OpenFacts
<1>1. CASE menu_cursor - 1 < 0
  BY <1>1, FullMoveGood DEF NavUp, WindowRows, CursorAbove, BottomPosition, TwoRows
<1>2. CASE menu_cursor - 1 >= 0 /\ menu_cursor - 1 < menu_display_position
  BY <1>2, FullMoveGood DEF NavUp, WindowRows, CursorAbove, BottomPosition, TwoRows
<1>3. CASE menu_cursor - 1 >= 0 /\ menu_cursor - 1 >= menu_display_position
  <2>1. /\ menu_display_position' = menu_display_position
        /\ menu_cursor' = menu_cursor - 1
        /\ refresh_rows' = <<menu_cursor - 1 - menu_display_position,
                             menu_cursor - 1 - menu_display_position + 2>>
    BY <1>3 DEF NavUp, CursorAbove, BottomPosition, TwoRows
  <2>2. /\ menu_cursor - 1 \in Int
        /\ menu_cursor - 1 - menu_display_position \in Int
        /\ menu_cursor - 1 - menu_display_position + 2 \in Int
    OBVIOUS
  <2>3. PICK c \in Int, lo \in Int, hi \in Int :
           /\ c = menu_cursor - 1 /\ lo = menu_cursor - 1 - menu_display_position
           /\ hi = lo + 2
    BY <2>2
  <2>4. /\ menu_display_position' = menu_display_position /\ menu_cursor' = c
        /\ refresh_rows' = <<lo, hi>>
        /\ menu_list # <<>> =>
              /\ menu_display_position <= c
              /\ c < menu_display_position + menu_display_size
              /\ 0 <= lo /\ hi <= menu_display_size
              /\ lo <= c - menu_display_position
              /\ c - menu_display_position < hi
              /\ lo <= menu_cursor - menu_display_position
              /\ menu_cursor - menu_display_position < hi
    <3>1. /\ menu_display_position \in Nat /\ menu_display_size \in Nat
          /\ menu_cursor \in Int
          /\ menu_list # <<>> =>
               /\ menu_display_position <= menu_cursor
               /\ menu_cursor < menu_display_position + menu_display_size
      OBVIOUS
    <3>2. refresh_rows' = <<lo, hi>>
      BY ONLY <2>1, <2>3
    <3> QED
      BY ONLY <1>3, <2>1, <2>3, <3>1, <3>2, c \in Int, lo \in Int, hi \in Int
  <2> QED
    BY ONLY <2>4, IInv, mode = "open", SameWindowGood,
            c \in Int, lo \in Int, hi \in Int
<1> QED
  BY <1>1, <1>2, <1>3

(* Any other text repaints the rows of the previous key.                   *)
LEMMA OtherTextGood ==
    ASSUME IInv, mode = "open", OtherText
    PROVE  GoodMove
<1>1. PICK lo \in Int, hi \in Int : refresh_rows = <<lo, hi>>
  BY OpenFacts
<1> QED
  BY <1>1, OpenFacts, SameWindowGood DEF OtherText

(* A good move followed by the tail of update_buffer and a refresh keeps   *)
(* the invariant.                                                          *)
LEMMA GoodKey ==
    ASSUME IInv, GoodMove, Key(TRUE)
    PROVE  IInv'
<1>1. /\ mode = "open" /\ UNCHANGED <<menu_list, menu_display_size, chosen>>
      /\ SetWindow /\ Refresh(screen)
  BY DEF Key
<1>2. menu_list # <<>> => CursorInWindow'
  BY <1>1 DEF GoodMove, CursorInWindow
<1> QED
  BY <1>1, <1>2, KeyPreserves DEF GoodMove
-----------------------------------------------------------------------------
(* A new menu on a cleared display satisfies the invariant.                *)
LEMMA InitIInv == Init => IInv
<1> SUFFICES ASSUME Init PROVE IInv
  OBVIOUS
<1>1. menu_list \in Seq(Item) /\ Len(menu_list) \in Nat
      /\ (menu_list # <<>> => Len(menu_list) > 0)
  BY ListsAssumption DEF Init
<1>2. menu_display_size \in 0 .. Rows /\ menu_display_size <= Len(menu_list)
      /\ (menu_list # <<>> => menu_display_size > 0)
  BY <1>1, RowsAssumption DEF Init, WindowSize, MinOf
<1>3. display_buffer \in Seq(Item)
  BY <1>1, <1>2, SliceType, RowsAssumption DEF Init
<1>4. screen \in [Pages -> Row]
  BY DEF Init, ClearedScreen, BlankRow, Row
<1>5. TypeOK
  BY <1>1, <1>2, <1>3, <1>4, RowsAssumption DEF Init, TypeOK
<1>6. WindowInv /\ CursorInWindow
  BY <1>1, <1>2, RowsAssumption DEF Init, WindowInv, CursorInWindow
<1> QED
  BY <1>5, <1>6 DEF Init, IInv, ScreenFaithful, FailsOnlyWhenEmpty

(* Every step of the application and of its menu keeps the invariant.      *)
LEMMA NextIInv == IInv /\ [Next]_vars => IInv'
<1> SUFFICES ASSUME IInv, [Next]_vars PROVE IInv'
  OBVIOUS
<1>1. ASSUME NEW L \in MenuLists, Open(L) PROVE IInv'
  <2>1. L \in Seq(Item) /\ ClearedScreen \in [Pages -> Row]
        /\ \A r \in Pages : ClearedScreen[r] = BlankRow
    BY ListsAssumption DEF ClearedScreen, BlankRow, Row
  <2> QED
    BY <1>1, <2>1, UpdateEstablishes DEF Open
<1>2. ASSUME NEW L \in MenuLists, Replace(L) PROVE IInv'
  <2>1. /\ L \in Seq(Item) /\ Len(L) \in Nat /\ (L # <<>> => Len(L) >= 1)
        /\ screen \in [Pages -> Row] /\ menu_list # <<>>
        /\ menu_display_size = 1
    <3>1. L \in Seq(Item)
      BY ListsAssumption
    <3>2. Len(L) \in Nat /\ (L # <<>> => Len(L) >= 1)
      BY <3>1
    <3>3. /\ screen \in [Pages -> Row] /\ Len(menu_list) = 1
          /\ menu_display_size = WindowSize(menu_list)
      BY <1>2 DEF IInv, TypeOK, WindowInv, Replace
    <3>4. menu_display_size = 1
      BY <3>3, RowsAssumption DEF WindowSize, MinOf
    <3>5. menu_list # <<>>
      BY <3>3
    <3> QED
      BY <3>1, <3>2, <3>3, <3>4, <3>5
  <2>2. screen = FullRedraw(menu_list, menu_display_position, 1, menu_cursor)
    BY <1>2, <2>1 DEF IInv, ScreenFaithful, Replace
  <2>3. L # <<>> => \A r \in Pages : WindowSize(L) <= r => screen[r] = BlankRow
    BY <2>1, <2>2, RowsAssumption DEF FullRedraw, Pages, WindowSize, MinOf
  <2> QED
    BY <1>2, <2>1, <2>3, UpdateEstablishes DEF Replace
<1>3. CASE KeyDown
  BY <1>3, NavDownGood, GoodKey DEF KeyDown, Key
<1>4. CASE KeyUp
  BY <1>4, NavUpGood, GoodKey DEF KeyUp, Key
<1>5. CASE KeyOther
  BY <1>5, OtherTextGood, GoodKey DEF KeyOther, Key
<1>6. CASE Ok
  <2>1. /\ UNCHANGED <<menu_list, menu_cursor, menu_display_position,
                       menu_display_size, display_buffer, display_cursor,
                       refresh_rows, screen>>
        /\ mode = "open" /\ mode' \in {"closed", "failed"}
    BY <1>6 DEF Ok, menuVars
  <2>2. chosen' \in Item \cup {NoItem}
    BY <1>6 DEF Ok, IInv, TypeOK
  <2>3. menu_list # <<>> => mode' = "closed"
    BY <1>6, OpenFacts DEF Ok
  <2> QED
    BY <2>1, <2>2, <2>3
       DEF IInv, TypeOK, WindowInv, CursorInWindow, ScreenFaithful, FailsOnlyWhenEmpty
<1>7. CASE Back
  BY <1>7 DEF Back, menuVars,
       IInv, TypeOK, WindowInv, CursorInWindow, ScreenFaithful, FailsOnlyWhenEmpty
<1>8. CASE UNCHANGED vars
  BY <1>8 DEF vars, menuVars,
       IInv, TypeOK, WindowInv, CursorInWindow, ScreenFaithful, FailsOnlyWhenEmpty
<1> QED
  BY <1>1, <1>2, <1>3, <1>4, <1>5, <1>6, <1>7, <1>8 DEF Next

(* In every behaviour of the menu, for every number of rows and every set  *)
(* of lists, the inductive invariant holds.                                *)
THEOREM InductiveInvariant == Spec => []IInv
BY InitIInv, NextIInv, PTL DEF Spec

(* Partial repaints never leave a stale row, a second highlight or no      *)
(* highlight on the display of a menu with entries.                        *)
THEOREM ScreenAlwaysFaithful == Spec => []ScreenFaithful
<1>1. IInv => ScreenFaithful
  BY DEF IInv
<1> QED
  BY <1>1, InductiveInvariant, PTL

(* The cursor never leaves the window, nor the window the list.            *)
THEOREM CursorAlwaysInWindow == Spec => []CursorInWindow
<1>1. IInv => CursorInWindow
  BY DEF IInv
<1> QED
  BY <1>1, InductiveInvariant, PTL

(* IndexError is possible with an empty menu only.                         *)
THEOREM FailureMeansEmpty == Spec => []FailsOnlyWhenEmpty
<1>1. IInv => FailsOnlyWhenEmpty
  BY DEF IInv
<1> QED
  BY <1>1, InductiveInvariant, PTL

(* The fields of Menu and the display keep their types.                    *)
THEOREM TypeCorrect == Spec => []TypeOK
<1>1. IInv => TypeOK
  BY DEF IInv
<1> QED
  BY <1>1, InductiveInvariant, PTL
-----------------------------------------------------------------------------
(* Exactly the entry under the cursor is highlighted on a faithful         *)
(* display.                                                                *)
LEMMA RedrawHighlight ==
    ASSUME NEW L \in Seq(Item), NEW p \in Nat, NEW n \in 0 .. Rows,
           NEW c \in Int, p <= c, c < p + n
    PROVE  HighlightOf(FullRedraw(L, p, n, c)) = {L[c + 1]}
<1> DEFINE scr == FullRedraw(L, p, n, c)
<1>1. c - p \in Pages /\ c - p < n /\ n \in Nat
  BY RowsAssumption DEF Pages
<1>2. ASSUME NEW r \in Pages PROVE scr[r].inv <=> r = c - p
  <2>1. CASE r < n
    BY <1>1, <2>1 DEF FullRedraw
  <2>2. CASE ~(r < n)
    BY <1>1, <2>2 DEF FullRedraw, BlankRow
  <2> QED
    BY <2>1, <2>2
<1>3. scr[c - p].text = L[c + 1]
  <2>1. p + (c - p) + 1 = c + 1
    OBVIOUS
  <2> QED
    BY <1>1, <2>1 DEF FullRedraw
<1> QED
  BY <1>1, <1>2, <1>3 DEF HighlightOf

(* The same for an open menu.                                              *)
LEMMA HighlightIsCursor ==
    ASSUME IInv, mode = "open", menu_list # <<>>
    PROVE  Highlighted = {menu_list[menu_cursor + 1]}
<1>1. menu_display_size \in 0 .. Rows
  BY DEF IInv, TypeOK
<1> QED
  BY <1>1, OpenFacts, RedrawHighlight DEF Highlighted

(* The same for an open menu after a step.                                 *)
LEMMA HighlightIsNextCursor ==
    ASSUME IInv', mode' = "open", menu_list' # <<>>
    PROVE  Highlighted' = {menu_list'[menu_cursor' + 1]}
<1>1. /\ menu_list' \in Seq(Item) /\ menu_display_position' \in Nat
      /\ menu_display_size' \in 0 .. Rows /\ menu_cursor' \in Int
      /\ menu_display_position' <= menu_cursor'
      /\ menu_cursor' < menu_display_position' + menu_display_size'
      /\ screen' = FullRedraw(menu_list', menu_display_position',
                              menu_display_size', menu_cursor')
  BY DEF IInv, TypeOK, CursorInWindow, ScreenFaithful
<1>2. HighlightOf(FullRedraw(menu_list', menu_display_position',
                              menu_display_size', menu_cursor'))
        = {menu_list'[menu_cursor' + 1]}
  BY ONLY <1>1, RedrawHighlight
<1> QED
  BY <1>1, <1>2 DEF Highlighted, HighlightOf

(* A key on an empty menu paints nothing.                                  *)
LEMMA EmptyPaintsNothing ==
    ASSUME NEW scr \in [Pages -> Row], NEW buf \in Seq(Item), Len(buf) = 0,
           NEW cur, NEW rows
    PROVE  Paint(scr, buf, cur, rows) = scr
<1>1. ASSUME NEW r \in Pages PROVE ~(r < Len(buf))
  BY RowsAssumption DEF Pages
<1> QED
  BY <1>1 DEF Paint

(* A key of the menu is a step of the selector.                            *)
LEMMA KeyRefines ==
    ASSUME IInv, IInv', Key(TRUE), NEW i \in Int, menu_cursor' = i,
           NEW Step, menu_list # <<>> /\ Selector!Move(i) => Step
    PROVE  (menu_list # <<>> => Step) /\ (menu_list = <<>> => Selector!EmptyMenu)
<1>1. /\ mode = "open" /\ menu_list' = menu_list /\ chosen' = chosen
      /\ menu_display_size' = menu_display_size
      /\ SetWindow /\ Refresh(screen) /\ mode' \in {"open", "failed"}
  BY DEF Key, Refresh
<1>2. ASSUME menu_list # <<>> PROVE Step
  <2>1. mode' = "open"
    BY <1>1, <1>2 DEF IInv, FailsOnlyWhenEmpty
  <2>2. Highlighted' = {menu_list[i + 1]}
    BY <1>1, <1>2, <2>1, HighlightIsNextCursor
  <2> QED
    BY <1>1, <1>2, <2>1, <2>2 DEF Selector!Move
<1>3. ASSUME menu_list = <<>> PROVE Selector!EmptyMenu
  <2>1. /\ display_buffer' \in Seq(Item) /\ screen \in [Pages -> Row]
        /\ menu_display_position' \in Nat
        /\ menu_display_position' + menu_display_size' \in Int
        /\ display_buffer' = PySlice(<<>>, menu_display_position',
                                 menu_display_position' + menu_display_size')
    BY <1>1, <1>3, RowsAssumption DEF IInv, TypeOK, SetWindow
  <2>2. Len(display_buffer') = 0
    BY <2>1, SliceEmpty
  <2>3. screen' = screen
    BY <1>1, <2>1, <2>2, EmptyPaintsNothing DEF Refresh
  <2> QED
    BY <1>1, <1>3, <2>3 DEF Selector!EmptyMenu, Highlighted
<1> QED
  BY <1>2, <1>3

(* Opening or replacing a list is opening it in the selector.              *)
LEMMA OpenRefines ==
    ASSUME IInv', NEW L \in Seq(Item), Update(L), chosen' = NoItem,
           NEW base \in {screen, ClearedScreen}, Refresh(base),
           screen \in [Pages -> Row]
    PROVE  Selector!Open(L)
<1>1. menu_list' = L /\ menu_cursor' = 0 /\ mode' \in {"open", "failed"}
  BY DEF Update, Refresh
<1>2. menu_display_size' = WindowSize(L) /\ refresh_rows' = <<0, menu_display_size'>>
  BY DEF Update
<1>3. CASE L # <<>>
  <2>1. mode' = "open"
    BY <1>1, <1>3 DEF IInv, FailsOnlyWhenEmpty
  <2>2. Highlighted' = {L[1]}
    BY <1>1, <1>3, <2>1, HighlightIsNextCursor
  <2> QED
    BY <1>1, <1>3, <2>1, <2>2 DEF Selector!Open
<1>4. CASE L = <<>>
  <2>1. /\ display_buffer' \in Seq(Item) /\ menu_display_size' = 0
        /\ display_buffer' = PySlice(<<>>, 0, 0 + 0)
    BY <1>1, <1>2, <1>4, RowsAssumption DEF IInv, TypeOK, Update, SetWindow, WindowSize, MinOf
  <2>2. Len(display_buffer') = 0
    BY <2>1, SliceEmpty
  <2>3. base \in [Pages -> Row]
    <3>1. ClearedScreen \in [Pages -> Row]
      BY DEF ClearedScreen, BlankRow, Row
    <3> QED
      BY <3>1
  <2>4. screen' = base /\ mode' = "open"
    <3>1. screen' = base
      BY <2>1, <2>2, <2>3, EmptyPaintsNothing DEF Refresh
    <3>2. refresh_rows'[1] = 0 /\ refresh_rows'[2] = 0
      BY <1>2, <2>1
    <3> QED
      BY <2>2, <3>1, <3>2 DEF Refresh, RaisesIndexError
  <2>5. HighlightOf(ClearedScreen) = {}
    BY DEF HighlightOf, ClearedScreen, BlankRow
  <2>6. Highlighted' \in {{}, Highlighted}
    <3>1. CASE base = screen
      BY <2>4, <3>1 DEF Highlighted, HighlightOf
    <3>2. CASE base = ClearedScreen
      BY <2>4, <2>5, <3>2 DEF Highlighted, HighlightOf
    <3> QED
      BY <3>1, <3>2
  <2> QED
    BY <1>1, <1>4, <2>4, <2>6 DEF Selector!Open
<1> QED
  BY <1>3, <1>4

(* Every step of the menu is a step of the selector or changes nothing of  *)
(* what the selector speaks of.                                            *)
LEMMA StepRefines ==
    ASSUME IInv, IInv', [Next]_vars
    PROVE  [Selector!Next]_(Selector!vars)
<1>0. screen \in [Pages -> Row] /\ menu_cursor \in Int /\ Len(menu_list) \in Int
  BY DEF IInv, TypeOK
<1>1. ASSUME NEW L \in MenuLists, Open(L) PROVE Selector!Next
  <2>1. L \in Seq(Item)
    BY ListsAssumption
  <2>2. Selector!Open(L)
    BY <1>0, <1>1, <2>1, OpenRefines DEF Open
  <2> QED
    BY <2>2 DEF Selector!Next
<1>2. ASSUME NEW L \in MenuLists, Replace(L) PROVE Selector!Next
  <2>1. L \in Seq(Item)
    BY ListsAssumption
  <2>2. Selector!Open(L)
    BY <1>0, <1>2, <2>1, OpenRefines DEF Replace
  <2> QED
    BY <2>2 DEF Selector!Next
<1>3. CASE KeyDown
  <2> DEFINE i == IF menu_cursor + 1 = Len(menu_list) THEN 0 ELSE menu_cursor + 1
  <2>1. menu_cursor' = i /\ Key(TRUE) /\ mode = "open" /\ i \in Int
    BY <1>0, <1>3 DEF KeyDown, Key, NavDown, CursorBelow, BelowWindow, TwoRows
  <2>2. menu_list # <<>> /\ Selector!Move(i) => Selector!Down
    BY <2>1 DEF Selector!Down
  <2>3. (menu_list # <<>> => Selector!Down) /\ (menu_list = <<>> => Selector!EmptyMenu)
    BY <2>1, <2>2, KeyRefines
  <2> QED
    BY <2>3 DEF Selector!Next
<1>4. CASE KeyUp
  <2> DEFINE i == IF menu_cursor = 0 THEN Len(menu_list) - 1 ELSE menu_cursor - 1
  <2>1. Key(TRUE) /\ mode = "open" /\ menu_cursor' \in Int
    BY <1>0, <1>4 DEF KeyUp, Key, NavUp, CursorAbove, BottomPosition, TwoRows
  <2>2. menu_list # <<>> => menu_cursor' = i
    BY <1>0, <1>4, <2>1, OpenFacts DEF KeyUp, Key, NavUp, CursorAbove, BottomPosition, TwoRows
  <2>3. menu_list # <<>> /\ Selector!Move(menu_cursor') => Selector!Up
    BY <2>1, <2>2 DEF Selector!Up
  <2>4. (menu_list # <<>> => Selector!Up) /\ (menu_list = <<>> => Selector!EmptyMenu)
    BY <2>1, <2>3, KeyRefines
  <2> QED
    BY <2>4 DEF Selector!Next
<1>5. CASE KeyOther
  <2>1. /\ Key(TRUE) /\ mode = "open" /\ menu_cursor' = menu_cursor
        /\ menu_list' = menu_list /\ chosen' = chosen
    BY <1>5 DEF KeyOther, Key, OtherText
  <2>2. CASE menu_list = <<>>
    BY <1>0, <2>1, <2>2, KeyRefines DEF Selector!Next
  <2>3. CASE menu_list # <<>>
    <3>1. mode' = "open"
      BY <2>1, <2>3 DEF IInv, FailsOnlyWhenEmpty, Key, Refresh
    <3>2. Highlighted' = Highlighted
      BY <2>1, <2>3, <3>1, HighlightIsCursor, HighlightIsNextCursor
    <3> QED
      BY <2>1, <3>1, <3>2 DEF Selector!vars
  <2> QED
    BY <2>2, <2>3
<1>6. CASE Ok
  <2>1. /\ menu_list' = menu_list /\ menu_cursor' = menu_cursor /\ screen' = screen
        /\ mode = "open"
    BY <1>6 DEF Ok, menuVars
  <2>2. CASE menu_list = <<>>
    BY <1>0, <1>6, <2>1, <2>2 DEF Ok, Selector!EmptyMenu, Selector!Next, Highlighted
  <2>3. CASE menu_list # <<>>
    <3>1. chosen' = menu_list[menu_cursor + 1] /\ mode' = "closed"
      BY <1>6, <2>3, OpenFacts DEF Ok
    <3>2. Highlighted = {menu_list[menu_cursor + 1]}
      BY <2>1, <2>3, HighlightIsCursor
    <3>3. Highlighted' = Highlighted
      BY <2>1 DEF Highlighted, HighlightOf
    <3>4. Selector!Choose
      BY <2>1, <2>3, <3>1, <3>2, <3>3 DEF Selector!Choose
    <3> QED
      BY <3>4 DEF Selector!Next
  <2> QED
    BY <2>2, <2>3
<1>7. CASE Back
  BY <1>7 DEF Back, menuVars, Selector!Leave, Selector!Next, Highlighted, HighlightOf
<1>8. CASE UNCHANGED vars
  BY <1>8 DEF vars, menuVars, Selector!vars, Highlighted, HighlightOf
<1> QED
  BY <1>1, <1>2, <1>3, <1>4, <1>5, <1>6, <1>7, <1>8 DEF Next

(* The menu implements the cyclic selector: windows, scrolling and partial *)
(* repaints are invisible to the user.                                     *)
THEOREM MenuImplementsSelector == Spec => SelectorSpec
<1>1. Init => Selector!Init
  <2>1. HighlightOf(ClearedScreen) = {}
    BY DEF HighlightOf, ClearedScreen, BlankRow
  <2> QED
    BY <2>1 DEF Init, Selector!Init, Highlighted
<1> QED
  BY <1>1, StepRefines, InductiveInvariant, PTL
     DEF Spec, SelectorSpec, Selector!Spec

-----------------------------------------------------------------------------
(* The display driver.  A number and its halves: the column that is set is *)
(* the one given, whatever the lower half of the register held.            *)
LEMMA Halves ==
    ASSUME NEW h \in Nat \ {0}, NEW c \in Nat
    PROVE  /\ c \div h \in Nat /\ c % h \in 0 .. h - 1 /\ c = (c \div h) * h + (c % h)
  OBVIOUS

(* The upper half of a column is what the first command sets.              *)
LEMMA UpperHalf ==
    ASSUME NEW h \in Nat \ {0}, NEW q \in Nat, NEW r \in 0 .. h - 1
    PROVE  (q * h + r) \div h = q
<1>1. PICK n \in Nat : n = q * h + r
  OBVIOUS
<1>2. PICK a \in Nat, b \in 0 .. h - 1 : a = n \div h /\ n = a * h + b
  BY <1>1, Halves
<1>3. a * h + b = q * h + r
  BY <1>1, <1>2
<1>4. ~(a > q)
  <2> SUFFICES ASSUME a > q PROVE FALSE
    OBVIOUS
  <2>1. PICK e \in Nat : a = q + 1 + e
    <3>1. a - q - 1 \in Nat /\ a = q + 1 + (a - q - 1)
      OBVIOUS
    <3> QED
      BY <3>1
  <2>2. a * h = q * h + h + e * h /\ e * h >= 0
    BY <2>1
  <2> QED
    BY <1>3, <2>2
<1>5. ~(a < q)
  <2> SUFFICES ASSUME a < q PROVE FALSE
    OBVIOUS
  <2>1. PICK e \in Nat : q = a + 1 + e
    <3>1. q - a - 1 \in Nat /\ q = a + 1 + (q - a - 1)
      OBVIOUS
    <3> QED
      BY <3>1
  <2>2. q * h = a * h + h + e * h /\ e * h >= 0
    BY <2>1
  <2> QED
    BY <1>3, <2>2
<1> QED
  BY <1>1, <1>2, <1>4, <1>5

(* Cutting an int leaves a number below the modulus.                       *)
LEMMA Rest ==
    ASSUME NEW m \in Nat \ {0}, NEW n \in Int
    PROVE  n % m \in 0 .. m - 1
  OBVIOUS

(* A number below the modulus is its own rest.                             *)
LEMMA SmallRest ==
    ASSUME NEW m \in Nat \ {0}, NEW n \in 0 .. m - 1
    PROVE  n % m = n
  OBVIOUS
-----------------------------------------------------------------------------
(* The byte at row p, column i of a buffer of n rows of w bytes.           *)
LEMMA ByteInBuffer ==
    ASSUME NEW w \in Nat, NEW n \in Nat, NEW r \in Nat, NEW k \in Nat, r < n, k < w
    PROVE  r * w + k + 1 \in 1 .. w * n
<1>1. PICK e \in Nat : n = r + 1 + e
  <2>1. n - r - 1 \in Nat /\ n = r + 1 + (n - r - 1)
    OBVIOUS
  <2> QED
    BY <2>1
<1>2. w * n = r * w + w + e * w /\ e * w >= 0 /\ r * w >= 0
  BY <1>1
<1>3. PICK x \in Nat, y \in Nat : x = r * w /\ y = e * w
  <2>1. r * w \in Nat /\ e * w \in Nat
    OBVIOUS
  <2> QED
    BY <2>1
<1> QED
  BY <1>2, <1>3

(* Fewer and shorter rows do not need a longer buffer.                     *)
LEMMA SmallerProduct ==
    ASSUME NEW w \in Nat, NEW n \in Nat, NEW v \in 0 .. w, NEW m \in 0 .. n
    PROVE  v * m <= w * n
<1>1. PICK d \in Nat, e \in Nat : w = v + d /\ n = m + e
  <2>1. w - v \in Nat /\ n - m \in Nat /\ w = v + (w - v) /\ n = m + (n - m)
    OBVIOUS
  <2> QED
    BY <2>1
<1>2. w * n = v * m + v * e + d * m + d * e
  BY <1>1
<1>3. v * m \in Nat /\ v * e \in Nat /\ d * m \in Nat /\ d * e \in Nat
  OBVIOUS
<1> QED
  BY <1>2, <1>3

(* The controller between two commands.                                    *)
Chip == [ram : [D!Cells -> Byte], page : 0 .. Half - 1, column : 0 .. Half * Half - 1,
         double : {FALSE}, level : 0 .. 4 * Half - 1, invert : {0, 1}, power : {0, 1}]

(* The byte that becomes of an int.                                        *)
LEMMA ByteOfInt ==
    /\ Half \in Nat \ {0} /\ Half * Half \in Nat \ {0} /\ Half * Half >= 2 * Half
    /\ \A n \in Int : D!U8(n) \in 0 .. Half * Half - 1
<1>1. Half \in Nat \ {0} /\ Half * Half \in Nat \ {0} /\ Half * Half >= 2 * Half
  BY DisplayAssumption
<1> QED
  BY <1>1, Rest DEF D!U8

(* A number that fits into a byte is passed on as it is, and a page of the *)
(* display into the half of a byte that its command has.                   *)
LEMMA FitsByte ==
    /\ \A k \in 0 .. Columns - 1 : D!U8(k) = k
    /\ \A k \in 0 .. LcdPages : D!U8(k) = k
    /\ \A k \in 0 .. LcdPages - 1 : D!U8(k) % Half = k
<1> DEFINE m == Half * Half
<1>1. m \in Nat \ {0} /\ m >= 2 * Half /\ Half \in Nat \ {0}
  BY ByteOfInt
<1>2. Columns <= m
  BY DisplayAssumption
<1> HIDE DEF m
<1>3. \A k \in 0 .. Columns - 1 : k \in 0 .. m - 1
  BY <1>1, <1>2, DisplayAssumption
<1>4. \A k \in 0 .. LcdPages : k \in 0 .. m - 1
  BY <1>1, DisplayAssumption
<1>5. \A k \in 0 .. m - 1 : D!U8(k) = k
  BY <1>1, SmallRest DEF D!U8, m
<1>6. \A k \in 0 .. LcdPages - 1 : D!U8(k) = k /\ k % Half = k
  BY <1>1, <1>4, <1>5, SmallRest, DisplayAssumption
<1> QED
  BY <1>3, <1>4, <1>5, <1>6

(* set_page_address(): a page is cut to what the command holds.            *)
LEMMA SetPage ==
    ASSUME NEW l \in Chip, NEW q \in Int
    PROVE  /\ D!st7565_set_page_address(l, q) = [l EXCEPT !.page = D!U8(q) % Half]
           /\ D!st7565_set_page_address(l, q) \in Chip
<1>1. D!U8(q) % Half \in 0 .. Half - 1
  <2>1. D!U8(q) \in Int /\ Half \in Nat \ {0}
    BY ByteOfInt
  <2> QED
    BY <2>1, Rest
<1>2. ~l.double
  BY DEF Chip
<1>3. D!st7565_set_page_address(l, q) = [l EXCEPT !.page = D!U8(q) % Half]
  BY <1>2 DEF D!st7565_set_page_address, D!Command
<1> QED
  BY <1>1, <1>3 DEF Chip

(* set_column_address(): two commands, the second of which keeps what the  *)
(* first has set: the register is the byte asked for.                      *)
LEMMA SetColumn ==
    ASSUME NEW l \in Chip, NEW k \in Int
    PROVE  /\ D!st7565_set_column_address(l, k) = [l EXCEPT !.column = D!U8(k)]
           /\ D!st7565_set_column_address(l, k) \in Chip
<1> DEFINE c == D!U8(k)
<1>1. c \in 0 .. Half * Half - 1 /\ Half * Half \in Nat \ {0} /\ Half \in Nat \ {0}
  BY ByteOfInt
<1>2. D!st7565_set_column_address(l, k)
          = D!Command(D!Command(l, "high", c \div Half), "low", c % Half)
  BY DEF D!st7565_set_column_address
<1> HIDE DEF c
<1>3. PICK a \in Nat, r \in 0 .. Half - 1 : a = c \div Half /\ r = c % Half /\ c = a * Half + r
  <2>1. c \in Nat
    BY <1>1
  <2> QED
    BY <1>1, <2>1, Halves
<1>4. PICK s \in 0 .. Half - 1 : s = l.column % Half
  <2>1. l.column \in Int
    BY <1>1 DEF Chip
  <2> QED
    BY <1>1, <2>1, Rest
<1>5. (a * Half + s) \div Half = a
  BY <1>1, UpperHalf
<1>6. ~l.double
  BY DEF Chip
<1>7. D!Command(l, "high", a) = [l EXCEPT !.column = a * Half + s]
  BY <1>4, <1>6 DEF D!Command
<1> DEFINE m == [l EXCEPT !.column = a * Half + s]
<1>8. m.double = FALSE /\ m.column = a * Half + s
  BY DEF Chip
<1>9. D!Command(m, "low", r) = [m EXCEPT !.column = (m.column \div Half) * Half + r]
  <2> HIDE DEF m
  <2> QED
    BY <1>8 DEF D!Command
<1>10. (m.column \div Half) * Half + r = c
  BY <1>3, <1>5, <1>8
<1>11. [m EXCEPT !.column = c] = [l EXCEPT !.column = c]
  BY DEF Chip
<1>12. D!st7565_set_column_address(l, k) = [l EXCEPT !.column = c]
  BY <1>2, <1>3, <1>7, <1>9, <1>10, <1>11
<1> QED
  BY <1>1, <1>12 DEF Chip, c

(* A byte of data goes to the cell of the registers, if there is one.      *)
LEMMA DataGoes ==
    ASSUME NEW l \in Chip, NEW b \in Byte
    PROVE  /\ D!Data(l, b) \in Chip
           /\ \A x \in D!Cells : D!Data(l, b).ram[x]
                  = IF x = <<l.page, l.column>> THEN b ELSE l.ram[x]
           /\ D!Data(l, b).page = l.page
           /\ D!Data(l, b).column = D!Advance(l.column)
<1>1. l.column \in 0 .. Half * Half - 1 /\ Half * Half \in Nat \ {0}
  BY ByteOfInt DEF Chip
<1>2. D!Advance(l.column) \in 0 .. Half * Half - 1
  <2>1. Columns - 1 <= Half * Half - 1 /\ Columns \in Nat
    BY <1>1, DisplayAssumption
  <2> QED
    BY <1>1, <2>1 DEF D!Advance
<1> DEFINE r == [x \in D!Cells |-> IF x = <<l.page, l.column>> THEN b ELSE l.ram[x]]
<1>3. r \in [D!Cells -> Byte]
  BY DEF Chip
<1>4. D!Data(l, b) = [l EXCEPT !.ram = r, !.column = D!Advance(l.column)]
  BY DEF D!Data
<1>5. \A x \in D!Cells : r[x] = IF x = <<l.page, l.column>> THEN b ELSE l.ram[x]
  OBVIOUS
<1> HIDE DEF r
<1> QED
  BY <1>2, <1>3, <1>4, <1>5 DEF Chip

(* The other calls do not touch the memory and the address.                *)
SameAddress(l, m) == m.ram = l.ram /\ m.page = l.page /\ m.column = l.column

(* set_contrast(), invert() and power: no two-byte command stays open.     *)
LEMMA ModeCalls ==
    ASSUME NEW l \in Chip, NEW v \in {0, 1}, NEW lvl \in Int
    PROVE  /\ D!st7565_invert(l, v) \in Chip /\ SameAddress(l, D!st7565_invert(l, v))
           /\ D!st7565_power(l, v) \in Chip /\ SameAddress(l, D!st7565_power(l, v))
           /\ D!st7565_contrast(l, lvl) \in Chip /\ SameAddress(l, D!st7565_contrast(l, lvl))
<1>1. ~l.double
  BY DEF Chip
<1>2. D!st7565_invert(l, v) = [l EXCEPT !.invert = v]
  BY <1>1 DEF D!st7565_invert, D!Command
<1>3. D!st7565_power(l, v) = [l EXCEPT !.power = v]
  BY <1>1 DEF D!st7565_power, D!Command
<1> DEFINE m == [l EXCEPT !.double = TRUE]
           x == D!U8(lvl) % (4 * Half)
<1>4. D!Command(l, "contrast", 0) = m
  BY <1>1 DEF D!Command
<1>5. m.double
  BY DEF Chip
<1>6. D!Command(m, "level", x) = [m EXCEPT !.level = x, !.double = FALSE]
  BY <1>5 DEF D!Command
<1>7. x \in 0 .. 4 * Half - 1
  <2>1. 4 * Half \in Nat \ {0} /\ D!U8(lvl) \in Int
    BY ByteOfInt
  <2> HIDE DEF x
  <2> QED
    BY <2>1, Rest DEF x
<1> HIDE DEF x
<1>8. D!st7565_contrast(l, lvl) = [m EXCEPT !.level = x, !.double = FALSE]
  BY <1>4, <1>6 DEF D!st7565_contrast, x
<1>9. D!st7565_contrast(l, lvl) \in Chip /\ SameAddress(l, D!st7565_contrast(l, lvl))
  BY <1>7, <1>8 DEF Chip, SameAddress
<1> QED
  BY <1>2, <1>3, <1>9 DEF Chip, SameAddress

(* init(): the reset ends an open command and takes the address to 0.      *)
LEMMA InitCall ==
    ASSUME NEW l \in Chip
    PROVE  /\ D!st7565_init(l) \in Chip /\ D!st7565_init(l).ram = l.ram
           /\ D!st7565_init(l).page = 0 /\ D!st7565_init(l).column = 0
<1> DEFINE a == D!Reset(l)
           b == D!st7565_power(a, 0)
           c == D!st7565_invert(b, 0)
           d == D!st7565_contrast(c, 2)
<1>1. a \in Chip /\ a.ram = l.ram /\ a.page = 0 /\ a.column = 0
  <2>1. 0 \in 0 .. Half - 1 /\ 0 \in 0 .. Half * Half - 1
    BY ByteOfInt
  <2>2. a = [l EXCEPT !.page = 0, !.column = 0, !.double = FALSE]
    BY DEF D!Reset
  <2> HIDE DEF a
  <2> QED
    BY <2>1, <2>2 DEF Chip
<1> HIDE DEF a
<1>2. b \in Chip /\ SameAddress(a, b)
  BY <1>1, ModeCalls
<1> HIDE DEF b
<1>3. c \in Chip /\ SameAddress(b, c)
  BY <1>2, ModeCalls
<1> HIDE DEF c
<1>4. d \in Chip /\ SameAddress(c, d)
  BY <1>3, ModeCalls
<1> HIDE DEF d
<1>5. D!st7565_power(d, 1) \in Chip /\ SameAddress(d, D!st7565_power(d, 1))
  BY <1>4, ModeCalls
<1>6. D!st7565_init(l) = D!st7565_power(d, 1)
  BY DEF D!st7565_init, a, b, c, d
<1> QED
  BY <1>1, <1>2, <1>3, <1>4, <1>5, <1>6 DEF SameAddress
-----------------------------------------------------------------------------
Inside(x) == D!Inside(x, draw_arg.page, draw_arg.column, draw_arg.width, draw_arg.pages)

(* The cells of the rectangle that the loops have still to write.          *)
Pending(x) ==
    /\ Inside(x)
    /\ \/ x[1] > draw_arg.page + draw_p
       \/ x[1] = draw_arg.page + draw_p /\ x[2] >= draw_arg.column + draw_i

(* In the loops, wherever they write: the buffer has the bytes of the      *)
(* rectangle, after the sizes were cut, unless it passed the check by an   *)
(* overflow or by negative sizes.                                          *)
Buffered ==
    /\ D!Sane(draw_arg.given[1], draw_arg.given[2]) =>
           draw_arg.width * draw_arg.pages <= Len(draw_arg.buf)
    /\ draw_pc = "data" => draw_p < draw_arg.pages
    /\ draw_pc = "row" => draw_i = 0

(* While a rectangle off the display is drawn nothing is specified.        *)
Stray == picture = D!NoPicture /\ position = <<Unknown, Unknown>>

(* The registers are where the calls have led, as far as these say.        *)
AddressRight(l) == position[1] \in {l.page, Unknown} /\ position[2] \in {l.column, Unknown}

(* While a rectangle is drawn on the display: the buffer has its size; the *)
(* bytes of the buffer are what the picture is to show there; every cell   *)
(* that is specified and not pending shows the picture already; the        *)
(* registers are at the next byte, and are to end up beyond the last one.  *)
Drawing ==
    /\ draw_arg.page + draw_arg.pages <= LcdPages
    /\ draw_arg.column + draw_arg.width <= Width
    /\ Len(draw_arg.buf) = draw_arg.width * draw_arg.pages
    /\ \A x \in D!Cells : Inside(x) =>
           picture[x] = draw_arg.buf[(x[1] - draw_arg.page) * draw_arg.width
                                         + (x[2] - draw_arg.column) + 1]
    /\ \A x \in D!Cells : ~Pending(x) => picture[x] \in {lcd.ram[x], Unknown}
    /\ draw_arg.pages = 0 => AddressRight(lcd)
    /\ draw_arg.pages # 0 =>
           position = <<draw_arg.page + draw_arg.pages - 1, draw_arg.column + draw_arg.width>>
    /\ draw_pc = "data" => /\ lcd.page = draw_arg.page + draw_p
                           /\ lcd.column = draw_arg.column + draw_i
    /\ draw_pc = "row" /\ draw_p > 0 =>
           /\ lcd.page = draw_arg.page + draw_p - 1
           /\ lcd.column = draw_arg.column + draw_arg.width

(* The inductive invariant.                                                *)
LcdInv ==
    /\ D!TypeOK /\ D!PictureRight
    /\ draw_pc # "idle" => Buffered /\ (Stray \/ Drawing)

Pictures == [D!Cells -> Byte \cup {Unknown}]
Positions == ((0 .. LcdPages - 1) \cup {Unknown}) \X ((0 .. Columns - 1) \cup {Unknown})
ArgTypes == [buf : Seq(Byte), page : Nat, column : Nat, width : Nat, pages : Nat,
             given : Int \X Int]

(* The types under their names here.                                       *)
LEMMA LcdTypes ==
    D!TypeOK <=> /\ lcd \in Chip /\ draw_pc \in {"idle", "row", "data"}
                 /\ draw_arg \in ArgTypes
                 /\ draw_p \in 0 .. draw_arg.pages /\ draw_i \in 0 .. draw_arg.width
                 /\ picture \in Pictures /\ position \in Positions
  BY DEF D!TypeOK, Chip, ArgTypes, Pictures, Positions

(* The next byte is in a buffer that has the bytes of the rectangle.       *)
LEMMA LcdReads == LcdInv => D!ReadsInside
<1> SUFFICES ASSUME LcdInv, draw_pc = "data", draw_i < draw_arg.width,
                    D!Sane(draw_arg.given[1], draw_arg.given[2])
             PROVE  D!NextByte <= Len(draw_arg.buf)
  BY DEF D!ReadsInside
<1>1. draw_arg \in ArgTypes /\ draw_p \in 0 .. draw_arg.pages /\ draw_i \in 0 .. draw_arg.width
  BY LcdTypes DEF LcdInv
<1>2. Buffered
  BY DEF LcdInv
<1>3. /\ draw_arg.width * draw_arg.pages <= Len(draw_arg.buf) /\ draw_p < draw_arg.pages
      /\ draw_arg.width \in Nat /\ draw_arg.pages \in Nat /\ draw_p \in Nat /\ draw_i \in Nat
      /\ Len(draw_arg.buf) \in Nat
  BY <1>1, <1>2 DEF Buffered, ArgTypes
<1>4. D!NextByte \in 1 .. draw_arg.width * draw_arg.pages
  BY <1>3, ByteInBuffer DEF D!NextByte
<1>5. draw_arg.width * draw_arg.pages \in Int
  BY <1>3
<1> QED
  BY <1>3, <1>4, <1>5

(* After power-up the display shows what its memory holds.                 *)
LEMMA LcdInit == D!Init => LcdInv
<1> SUFFICES ASSUME D!Init PROVE LcdInv
  OBVIOUS
<1> DEFINE l == [ram |-> picture, page |-> 0, column |-> 0, double |-> FALSE,
                 level |-> 0, invert |-> 0, power |-> 0]
<1>1. l \in Chip
  BY ByteOfInt DEF D!Init, Chip
<1>2. lcd = D!st7565_init(l)
  BY DEF D!Init
<1>3. l.ram = picture
  OBVIOUS
<1> HIDE DEF l
<1>4. lcd \in Chip /\ lcd.ram = picture /\ lcd.page = 0 /\ lcd.column = 0
  BY <1>1, <1>2, <1>3, InitCall
<1>5. position \in Positions /\ position[1] = 0 /\ position[2] = 0
  BY DisplayAssumption DEF Positions, D!Init
<1>6. D!NoArgs \in ArgTypes
  BY DEF D!NoArgs, ArgTypes
<1>7. draw_p \in 0 .. draw_arg.pages /\ draw_i \in 0 .. draw_arg.width
  BY DEF D!Init, D!NoArgs
<1>8. picture \in Pictures
  BY DEF D!Init, Pictures
<1>9. draw_pc = "idle" /\ draw_arg = D!NoArgs
  BY DEF D!Init
<1>10. D!TypeOK
  BY <1>4, <1>5, <1>6, <1>7, <1>8, <1>9, LcdTypes
<1> QED
  BY <1>4, <1>5, <1>9, <1>10 DEF LcdInv, D!PictureRight

(* A call of one step.                                                     *)
LEMMA LcdCall ==
    ASSUME LcdInv, NEW l \in Chip, D!Call(l), picture' \in Pictures, position' \in Positions,
           \A x \in D!Cells : picture'[x] \in {l.ram[x], Unknown},
           position'[1] \in {l.page, Unknown}, position'[2] \in {l.column, Unknown}
    PROVE  LcdInv'
<1>1. lcd' = l /\ draw_pc = "idle" /\ UNCHANGED <<draw_pc, draw_arg, draw_p, draw_i>>
  BY DEF D!Call, D!loop
<1>2. D!TypeOK'
  BY <1>1 DEF LcdInv, D!TypeOK, Chip, Pictures, Positions
<1> QED
  BY <1>1, <1>2 DEF LcdInv, D!PictureRight

(* The calls that do not loop: each does to the memory and the registers   *)
(* what is asked for.                                                      *)
LEMMA LcdOneStep ==
    ASSUME LcdInv, D!mp_st7565_init
                   \/ (\E q \in Places : D!mp_st7565_set_page(q) \/ D!mp_st7565_set_col(q))
                   \/ (\E b \in Byte : D!mp_st7565_data(b))
                   \/ (\E v \in Level : D!mp_st7565_contrast(v))
                   \/ (\E v \in {0, 1} : D!mp_st7565_invert(v) \/ D!mp_st7565_power(v))
    PROVE  LcdInv'
<1>1. lcd \in Chip /\ picture \in Pictures /\ position \in Positions
  BY LcdTypes DEF LcdInv
<1>2. draw_pc = "idle"
  BY DEF D!mp_st7565_init, D!mp_st7565_set_page, D!mp_st7565_set_col, D!mp_st7565_data,
         D!mp_st7565_contrast, D!mp_st7565_invert, D!mp_st7565_power, D!Call
<1>3. /\ \A x \in D!Cells : picture[x] \in {lcd.ram[x], Unknown}
      /\ position[1] \in {lcd.page, Unknown} /\ position[2] \in {lcd.column, Unknown}
  BY <1>2 DEF LcdInv, D!PictureRight
<1>4. /\ position[1] \in (0 .. LcdPages - 1) \cup {Unknown}
      /\ position[2] \in (0 .. Columns - 1) \cup {Unknown}
      /\ position = <<position[1], position[2]>>
  BY <1>1 DEF Positions
<1>5. \A q \in (0 .. LcdPages - 1) \cup {Unknown}, c \in (0 .. Columns - 1) \cup {Unknown} :
          <<q, c>> \in Positions /\ <<q, c>>[1] = q /\ <<q, c>>[2] = c
  BY DEF Positions
<1>6. /\ 0 \in 0 .. LcdPages - 1 /\ 0 \in 0 .. Columns - 1
      /\ Unknown \notin 0 .. LcdPages - 1 /\ Unknown \notin 0 .. Columns - 1
  BY DisplayAssumption
<1>7. CASE D!mp_st7565_init
  <2>1. D!Call(D!st7565_init(lcd)) /\ position' = <<0, 0>> /\ picture' = picture
    BY <1>7 DEF D!mp_st7565_init
  <2> QED
    BY <1>1, <1>3, <1>5, <1>6, <2>1, InitCall, LcdCall
<1>8. CASE \E q \in Places : D!mp_st7565_set_page(q)
  <2>1. PICK q \in Places : D!mp_st7565_set_page(q)
    BY <1>8
  <2>2. q \in Int
    BY DisplayAssumption
  <2> DEFINE l == D!st7565_set_page_address(lcd, q)
             k == D!Known(q, 0 .. LcdPages - 1)
  <2>3. l \in Chip /\ l = [lcd EXCEPT !.page = D!U8(q) % Half]
    BY <1>1, <2>2, SetPage
  <2>4. D!Call(l) /\ position' = <<k, position[2]>> /\ picture' = picture
    BY <2>1 DEF D!mp_st7565_set_page
  <2> HIDE DEF l
  <2>5. l.ram = lcd.ram /\ l.page = D!U8(q) % Half /\ l.column = lcd.column
    BY <1>1, <2>3 DEF Chip
  <2>6. k \in (0 .. LcdPages - 1) \cup {Unknown} /\ k \in {l.page, Unknown}
    <3>1. CASE q \in 0 .. LcdPages - 1
      <4>1. k = q
        BY <3>1 DEF D!Known
      <4>2. l.page = q
        BY <2>5, <3>1, FitsByte
      <4> QED
        BY <3>1, <4>1, <4>2
    <3>2. CASE q \notin 0 .. LcdPages - 1
      <4>1. k = Unknown
        BY <3>2 DEF D!Known
      <4> QED
        BY <4>1
    <3> QED
      BY <3>1, <3>2
  <2> HIDE DEF k
  <2>7. position' \in Positions /\ position'[1] = k /\ position'[2] = position[2]
    BY <1>4, <1>5, <2>4, <2>6
  <2> QED
    BY <1>1, <1>3, <2>3, <2>4, <2>5, <2>6, <2>7, LcdCall
<1>9. CASE \E q \in Places : D!mp_st7565_set_col(q)
  <2>1. PICK c \in Places : D!mp_st7565_set_col(c)
    BY <1>9
  <2>2. c \in Int
    BY DisplayAssumption
  <2> DEFINE l == D!st7565_set_column_address(lcd, c)
             k == D!Known(c, 0 .. Columns - 1)
  <2>3. l \in Chip /\ l = [lcd EXCEPT !.column = D!U8(c)]
    BY <1>1, <2>2, SetColumn
  <2>4. D!Call(l) /\ position' = <<position[1], k>> /\ picture' = picture
    BY <2>1 DEF D!mp_st7565_set_col
  <2> HIDE DEF l
  <2>5. l.ram = lcd.ram /\ l.page = lcd.page /\ l.column = D!U8(c)
    BY <1>1, <2>3 DEF Chip
  <2>6. k \in (0 .. Columns - 1) \cup {Unknown} /\ k \in {l.column, Unknown}
    <3>1. CASE c \in 0 .. Columns - 1
      <4>1. k = c
        BY <3>1 DEF D!Known
      <4>2. l.column = c
        BY <2>5, <3>1, FitsByte
      <4> QED
        BY <3>1, <4>1, <4>2
    <3>2. CASE c \notin 0 .. Columns - 1
      <4>1. k = Unknown
        BY <3>2 DEF D!Known
      <4> QED
        BY <4>1
    <3> QED
      BY <3>1, <3>2
  <2> HIDE DEF k
  <2>7. position' \in Positions /\ position'[1] = position[1] /\ position'[2] = k
    BY <1>4, <1>5, <2>4, <2>6
  <2> QED
    BY <1>1, <1>3, <2>3, <2>4, <2>5, <2>6, <2>7, LcdCall
<1>10. CASE \E b \in Byte : D!mp_st7565_data(b)
  <2>1. PICK b \in Byte : D!mp_st7565_data(b)
    BY <1>10
  <2> DEFINE l == D!Data(lcd, b)
             k == IF position[2] = Unknown THEN Unknown ELSE D!Advance(position[2])
  <2>2. /\ l \in Chip /\ l.page = lcd.page /\ l.column = D!Advance(lcd.column)
        /\ \A x \in D!Cells : l.ram[x] = IF x = <<lcd.page, lcd.column>> THEN b ELSE lcd.ram[x]
    BY <1>1, DataGoes
  <2>3. /\ D!Call(l) /\ position' = <<position[1], k>>
        /\ picture' = IF position \in D!Cells THEN [picture EXCEPT ![position] = b]
                      ELSE D!NoPicture
    BY <2>1 DEF D!mp_st7565_data
  <2> HIDE DEF l
  <2>4. k \in (0 .. Columns - 1) \cup {Unknown} /\ k \in {l.column, Unknown}
    <3>1. CASE position[2] = Unknown
      BY <3>1
    <3>2. CASE position[2] # Unknown
      <4>1. position[2] = lcd.column /\ position[2] \in 0 .. Columns - 1
        BY <1>3, <1>4, <3>2
      <4>2. D!Advance(position[2]) \in 0 .. Columns - 1
        BY <4>1, DisplayAssumption DEF D!Advance
      <4> QED
        BY <2>2, <3>2, <4>1, <4>2
    <3> QED
      BY <3>1, <3>2
  <2> HIDE DEF k
  <2>5. position' \in Positions /\ position'[1] = position[1] /\ position'[2] = k
    BY <1>4, <1>5, <2>3, <2>4
  <2>6. picture' \in Pictures /\ \A x \in D!Cells : picture'[x] \in {l.ram[x], Unknown}
    <3>1. CASE position \in D!Cells
      <4>1. picture' = [picture EXCEPT ![position] = b]
        BY <2>3, <3>1
      <4>2. position = <<lcd.page, lcd.column>>
        <5>1. position[1] \in 0 .. LcdPages - 1 /\ position[2] \in 0 .. Columns - 1
          BY <3>1 DEF D!Cells
        <5> QED
          BY <1>3, <1>4, <1>6, <5>1
      <4>3. picture' \in Pictures
        BY <1>1, <4>1 DEF Pictures
      <4>4. ASSUME NEW x \in D!Cells PROVE picture'[x] \in {l.ram[x], Unknown}
        <5>1. CASE x = position
          BY <1>1, <2>2, <4>1, <4>2, <5>1 DEF Pictures
        <5>2. CASE x # position
          BY <1>1, <1>3, <2>2, <4>1, <4>2, <5>2 DEF Pictures
        <5> QED
          BY <5>1, <5>2
      <4> QED
        BY <4>3, <4>4
    <3>2. CASE position \notin D!Cells
      BY <2>3, <3>2 DEF D!NoPicture, Pictures
    <3> QED
      BY <3>1, <3>2
  <2> QED
    BY <1>3, <2>2, <2>3, <2>4, <2>5, <2>6, LcdCall
<1>11. CASE \E v \in Level : D!mp_st7565_contrast(v)
  <2>1. PICK v \in Level : D!mp_st7565_contrast(v)
    BY <1>11
  <2>2. v \in Int
    BY DisplayAssumption
  <2>3. /\ D!st7565_contrast(lcd, v) \in Chip
        /\ SameAddress(lcd, D!st7565_contrast(lcd, v))
    BY <1>1, <2>2, ModeCalls
  <2>4. D!Call(D!st7565_contrast(lcd, v)) /\ picture' = picture /\ position' = position
    BY <2>1 DEF D!mp_st7565_contrast
  <2> QED
    BY <1>1, <1>3, <2>3, <2>4, LcdCall DEF SameAddress
<1>12. CASE \E v \in {0, 1} : D!mp_st7565_invert(v) \/ D!mp_st7565_power(v)
  <2>1. PICK v \in {0, 1} : D!mp_st7565_invert(v) \/ D!mp_st7565_power(v)
    BY <1>12
  <2>2. PICK l : /\ l \in {D!st7565_invert(lcd, v), D!st7565_power(lcd, v)}
                 /\ D!Call(l) /\ picture' = picture /\ position' = position
    BY <2>1 DEF D!mp_st7565_invert, D!mp_st7565_power
  <2>3. l \in Chip /\ SameAddress(lcd, l)
    BY <1>1, <2>2, ModeCalls
  <2> QED
    BY <1>1, <1>3, <2>2, <2>3, LcdCall DEF SameAddress
<1> QED
  BY <1>7, <1>8, <1>9, <1>10, <1>11, <1>12

(* A rectangle on the display has sizes that neither are negative nor      *)
(* overflow, and that are passed on as they are.                           *)
LEMMA DisplaySane ==
    ASSUME NEW q \in Int, NEW c \in Int, NEW w \in Int, NEW n \in Int, D!OnDisplay(q, c, w, n)
    PROVE  /\ q \in Nat /\ c \in Nat /\ w \in Nat /\ n \in Nat
           /\ q + n <= LcdPages /\ c + w <= Width /\ c + w < Columns
           /\ D!U8(q) = q /\ D!U8(c) = c /\ D!U8(w) = w /\ D!U8(n) = n
           /\ D!Sane(w, n)
<1>1. /\ q \in Nat /\ c \in Nat /\ w \in Nat /\ n \in Nat
      /\ q + n <= LcdPages /\ c + w <= Width /\ c + w < Columns
  BY DisplayAssumption DEF D!OnDisplay
<1>2. /\ q \in 0 .. LcdPages /\ n \in 0 .. LcdPages /\ w \in 0 .. Width
      /\ c \in 0 .. Columns - 1 /\ w \in 0 .. Columns - 1
  BY <1>1, DisplayAssumption
<1>3. w * n <= Width * LcdPages
  BY <1>2, SmallerProduct, DisplayAssumption
<1>4. w * n < Word
  <2>1. w * n \in Int /\ Width * LcdPages \in Int /\ Width * LcdPages < Word /\ Word \in Int
    BY <1>1, DisplayAssumption
  <2> QED
    BY <1>3, <2>1
<1>5. w >= 0 /\ n >= 0
  BY <1>1
<1>6. D!Sane(w, n)
  BY <1>4, <1>5 DEF D!Sane
<1> QED
  BY <1>1, <1>2, <1>6, FitsByte

(* The sizes as bytes need no longer buffer than the sizes given.          *)
LEMMA CutSizes ==
    ASSUME NEW w \in Nat, NEW n \in Nat
    PROVE  D!U8(w) * D!U8(n) <= w * n
<1>1. \A k \in Nat : D!U8(k) \in 0 .. k
  <2> SUFFICES ASSUME NEW k \in Nat PROVE D!U8(k) \in 0 .. k
    OBVIOUS
  <2> DEFINE m == Half * Half
  <2>1. m \in Nat \ {0}
    BY ByteOfInt
  <2> HIDE DEF m
  <2>2. k \div m \in Nat /\ k % m \in 0 .. m - 1 /\ k = (k \div m) * m + (k % m)
    BY <2>1, Halves
  <2>3. (k \div m) * m \in Nat
    BY <2>1, <2>2
  <2>4. k % m \in 0 .. k
    BY <2>1, <2>2, <2>3
  <2> QED
    BY <2>4 DEF D!U8, m
<1>2. D!U8(w) \in 0 .. w /\ D!U8(n) \in 0 .. n
  BY <1>1
<1> QED
  BY <1>2, SmallerProduct

(* The loops begin: on the display the rectangle of the picture is all     *)
(* that is pending.                                                        *)
LEMMA LcdBegin ==
    ASSUME LcdInv, NEW buf \in Seq(Byte), NEW q \in Int, NEW c \in Int,
           NEW w \in Int, NEW n \in Int, D!Sane(w, n) => Len(buf) = w * n,
           draw_pc = "idle", D!Ask(buf, q, c, w, n), D!Begin(buf, q, c, w, n)
    PROVE  LcdInv'
<1> DEFINE new == [buf |-> buf, page |-> D!U8(q), column |-> D!U8(c), width |-> D!U8(w),
                   pages |-> D!U8(n), given |-> <<w, n>>]
<1>1. /\ draw_pc' = "row" /\ draw_p' = 0 /\ draw_i' = 0 /\ draw_arg' = new /\ lcd' = lcd
  BY DEF D!Begin
<1>2. /\ draw_arg'.buf = buf /\ draw_arg'.page = D!U8(q) /\ draw_arg'.column = D!U8(c)
      /\ draw_arg'.width = D!U8(w) /\ draw_arg'.pages = D!U8(n)
      /\ draw_arg'.given[1] = w /\ draw_arg'.given[2] = n
  BY <1>1
<1>3. /\ D!U8(q) \in Nat /\ D!U8(c) \in Nat /\ D!U8(w) \in Nat /\ D!U8(n) \in Nat
  BY ByteOfInt
<1>4. draw_arg' \in ArgTypes
  BY <1>1, <1>3 DEF ArgTypes
<1> HIDE DEF new
<1>5. /\ lcd \in Chip /\ picture \in Pictures /\ position \in Positions
      /\ \A x \in D!Cells : picture[x] \in {lcd.ram[x], Unknown}
      /\ AddressRight(lcd)
  BY LcdTypes DEF LcdInv, D!PictureRight, AddressRight
<1>6. Buffered'
  <2>1. ASSUME D!Sane(w, n) PROVE D!U8(w) * D!U8(n) <= Len(buf)
    <3>1. w \in Nat /\ n \in Nat /\ Len(buf) = w * n
      BY <2>1 DEF D!Sane
    <3> QED
      BY <3>1, CutSizes
  <2> QED
    BY <1>1, <1>2, <2>1 DEF Buffered, D!Sane
<1>7. draw_p' \in 0 .. draw_arg'.pages /\ draw_i' \in 0 .. draw_arg'.width
  BY <1>1, <1>2, <1>3
<1>8. ASSUME picture' \in Pictures, position' \in Positions PROVE D!TypeOK'
  <2>1. lcd' \in Chip /\ draw_pc' \in {"idle", "row", "data"}
    BY <1>1, <1>5
  <2> QED
    BY <1>4, <1>7, <1>8, <2>1 DEF D!TypeOK, Chip, ArgTypes, Pictures, Positions
<1>9. CASE ~D!OnDisplay(q, c, w, n)
  <2>1. picture' = D!NoPicture /\ position' = <<Unknown, Unknown>>
    BY <1>9 DEF D!Ask
  <2>2. picture' \in Pictures /\ position' \in Positions
    BY <2>1 DEF D!NoPicture, Pictures, Positions
  <2>3. Stray'
    BY <2>1 DEF Stray, D!NoPicture, D!Cells
  <2> QED
    BY <1>1, <1>6, <1>8, <2>2, <2>3 DEF LcdInv, D!PictureRight
<1>10. CASE D!OnDisplay(q, c, w, n)
  <2>1. /\ q \in Nat /\ c \in Nat /\ w \in Nat /\ n \in Nat
        /\ q + n <= LcdPages /\ c + w <= Width /\ c + w < Columns
        /\ D!U8(q) = q /\ D!U8(c) = c /\ D!U8(w) = w /\ D!U8(n) = n
        /\ Len(buf) = w * n
    BY <1>10, DisplaySane
  <2>2. /\ draw_arg'.page = q /\ draw_arg'.column = c
        /\ draw_arg'.width = w /\ draw_arg'.pages = n /\ draw_arg'.buf = buf
    BY <1>2, <2>1
  <2>3. ASSUME NEW x \in D!Cells, D!Inside(x, q, c, w, n)
        PROVE  (x[1] - q) * w + (x[2] - c) + 1 \in 1 .. Len(buf)
    <3>1. x[1] - q \in Nat /\ x[1] - q < n /\ x[2] - c \in Nat /\ x[2] - c < w
      BY <2>1, <2>3 DEF D!Inside, D!Cells
    <3> QED
      BY <2>1, <3>1, ByteInBuffer
  <2>4. /\ picture' = [x \in D!Cells |->
              IF D!Inside(x, q, c, w, n)
              THEN buf[(x[1] - q) * w + (x[2] - c) + 1] ELSE picture[x]]
        /\ position' = IF n = 0 THEN position ELSE <<q + n - 1, c + w>>
    BY <1>10 DEF D!Ask, D!Painted
  <2>5. picture' \in Pictures
    <3>1. ASSUME NEW x \in D!Cells
          PROVE  (IF D!Inside(x, q, c, w, n)
                  THEN buf[(x[1] - q) * w + (x[2] - c) + 1] ELSE picture[x])
                 \in Byte \cup {Unknown}
      BY <1>5, <2>3 DEF Pictures
    <3> QED
      BY <2>4, <3>1 DEF Pictures
  <2>6. position' \in Positions
    <3>1. CASE n = 0
      BY <1>5, <2>4, <3>1
    <3>2. CASE n # 0
      <4>1. q + n - 1 \in 0 .. LcdPages - 1 /\ c + w \in 0 .. Columns - 1
        BY <2>1, <3>2, DisplayAssumption
      <4> QED
        BY <2>4, <3>2, <4>1 DEF Positions
    <3> QED
      BY <3>1, <3>2
  <2>7. \A x \in D!Cells : Inside(x)' <=> D!Inside(x, q, c, w, n)
    BY <2>2 DEF Inside, D!Inside
  <2>8. \A x \in D!Cells : Inside(x)' => Pending(x)'
    BY <1>1, <2>1, <2>2 DEF Pending, Inside, D!Inside, D!Cells
  <2>9. Drawing'
    <3>1. \A x \in D!Cells : Inside(x)' =>
             picture'[x] = draw_arg'.buf[(x[1] - draw_arg'.page) * draw_arg'.width
                                           + (x[2] - draw_arg'.column) + 1]
      BY <2>2, <2>4, <2>7
    <3>2. \A x \in D!Cells : ~Pending(x)' => picture'[x] \in {lcd'.ram[x], Unknown}
      BY <1>1, <1>5, <2>4, <2>7, <2>8
    <3>3. /\ draw_arg'.pages = 0 => AddressRight(lcd)'
          /\ draw_arg'.pages # 0 => position' = <<draw_arg'.page + draw_arg'.pages - 1,
                                                  draw_arg'.column + draw_arg'.width>>
      BY <1>1, <1>5, <2>2, <2>4 DEF AddressRight
    <3>4. D!Cells' = D!Cells
      BY DEF D!Cells
    <3> QED
      BY <1>1, <2>1, <2>2, <3>1, <3>2, <3>3, <3>4 DEF Drawing
  <2> QED
    BY <1>1, <1>6, <1>8, <2>5, <2>6, <2>9 DEF LcdInv, D!PictureRight
<1> QED
  BY <1>9, <1>10

(* clear_display() and an accepted graphics() begin the loops with what is *)
(* asked for.                                                              *)
LEMMA LcdBegins == ASSUME LcdInv, D!Draws PROVE LcdInv'
<1>1. CASE D!mp_st7565_clear
  <2> DEFINE zeros == [k \in 1 .. Width * LcdPages |-> 0]
  <2>1. Width * LcdPages \in Nat
    BY DisplayAssumption
  <2>2. zeros \in Seq(Byte) /\ Len(zeros) = Width * LcdPages
    BY <2>1, DisplayAssumption
  <2>3. /\ draw_pc = "idle" /\ D!Ask(zeros, 0, 0, Width, LcdPages)
        /\ D!Begin(zeros, 0, 0, Width, LcdPages)
    BY <1>1 DEF D!mp_st7565_clear
  <2> HIDE DEF zeros
  <2>4. Width \in Int /\ LcdPages \in Int /\ 0 \in Int
    BY DisplayAssumption
  <2> QED
    BY <2>2, <2>3, <2>4, LcdBegin
<1>2. CASE \E q \in Places, c \in Places, w \in Sizes, n \in Sizes, buf \in Buffers :
               D!mp_st7565_draw(buf, q, c, w, n)
  <2>1. PICK q \in Places, c \in Places, w \in Sizes, n \in Sizes, buf \in Buffers :
               D!mp_st7565_draw(buf, q, c, w, n)
    BY <1>2
  <2>2. q \in Int /\ c \in Int /\ w \in Int /\ n \in Int /\ buf \in Seq(Byte)
    BY DisplayAssumption
  <2>3. /\ draw_pc = "idle" /\ Len(buf) = (w * n) % Word
        /\ D!Ask(buf, q, c, w, n) /\ D!Begin(buf, q, c, w, n)
    BY <2>1 DEF D!mp_st7565_draw, D!Accepted
  <2>4. ASSUME D!Sane(w, n) PROVE Len(buf) = w * n
    <3>1. w \in Nat /\ n \in Nat /\ w * n < Word
      BY <2>2, <2>4 DEF D!Sane
    <3>2. w * n \in Nat /\ Word \in Nat
      BY <3>1, DisplayAssumption
    <3>3. Word \in Nat \ {0} /\ w * n \in 0 .. Word - 1
      BY <3>1, <3>2
    <3> QED
      BY <2>3, <3>3, SmallRest
  <2> QED
    BY <2>2, <2>3, <2>4, LcdBegin
<1> QED
  BY <1>1, <1>2 DEF D!Draws

(* A row begins: whatever the registers held, they are at its first cell.  *)
LEMMA LcdStartRow == ASSUME LcdInv, D!StartRow PROVE LcdInv'
<1>1. /\ draw_pc = "row" /\ draw_pc' = "data" /\ draw_p < draw_arg.pages
      /\ UNCHANGED <<draw_arg, draw_p, draw_i, picture, position>>
  BY DEF D!StartRow
<1>2. D!TypeOK /\ Buffered /\ (Stray \/ Drawing) /\ lcd \in Chip
  BY <1>1 DEF LcdInv, D!TypeOK, Chip
<1>3. draw_i = 0 /\ draw_p \in Nat /\ draw_arg.pages \in Nat /\ draw_arg.page \in Nat
      /\ draw_arg.column \in Nat /\ draw_arg.width \in Nat
  BY <1>1, <1>2 DEF D!TypeOK, Buffered
<1> DEFINE l == D!st7565_set_page_address(lcd, draw_arg.page + draw_p)
<1>4. l \in Chip /\ l = [lcd EXCEPT !.page = D!U8(draw_arg.page + draw_p) % Half]
  <2>1. draw_arg.page + draw_p \in Int
    BY <1>3
  <2> QED
    BY <1>2, <2>1, SetPage
<1>5. lcd' = D!st7565_set_column_address(l, draw_arg.column)
  BY DEF D!StartRow
<1> HIDE DEF l
<1>6. lcd' \in Chip /\ lcd' = [l EXCEPT !.column = D!U8(draw_arg.column)]
  <2>1. draw_arg.column \in Int
    BY <1>3
  <2> QED
    BY <1>4, <1>5, <2>1, SetColumn
<1>7. /\ lcd'.ram = lcd.ram /\ lcd'.page = D!U8(draw_arg.page + draw_p) % Half
      /\ lcd'.column = D!U8(draw_arg.column)
  <2>1. l.ram = lcd.ram /\ l.page = D!U8(draw_arg.page + draw_p) % Half
    BY <1>2, <1>4 DEF Chip
  <2> QED
    BY <1>4, <1>6, <2>1 DEF Chip
<1>8. D!TypeOK'
  BY <1>1, <1>2, <1>6 DEF D!TypeOK, Chip
<1>9. Buffered'
  BY <1>1, <1>2 DEF Buffered, D!Sane
<1>10. CASE Stray
  <2>1. Stray'
    BY <1>1, <1>10 DEF Stray, D!NoPicture, D!Cells
  <2> QED
    BY <1>1, <1>8, <1>9, <2>1 DEF LcdInv, D!PictureRight
<1>11. CASE Drawing
  <2>1. draw_arg.page + draw_p \in 0 .. LcdPages - 1 /\ draw_arg.column \in 0 .. Columns - 1
    <3>1. /\ draw_arg.page + draw_arg.pages <= LcdPages
          /\ draw_arg.column + draw_arg.width <= Width
      BY <1>11 DEF Drawing
    <3>2. draw_p < draw_arg.pages
      BY <1>1
    <3>3. draw_arg.page + draw_p \in 0 .. LcdPages - 1
      BY <1>3, <3>1, <3>2, DisplayAssumption, SMTT(30)
    <3>4. draw_arg.column \in 0 .. Columns - 1
      BY <1>3, <3>1, DisplayAssumption, SMTT(30)
    <3> QED
      BY <3>3, <3>4
  <2>2. lcd'.page = draw_arg.page + draw_p /\ lcd'.column = draw_arg.column
    BY <1>7, <2>1, FitsByte
  <2>3. \A x \in D!Cells : /\ Inside(x)' <=> Inside(x)
                           /\ Pending(x)' <=> Pending(x)
    BY <1>1 DEF Pending, Inside, D!Inside
  <2>4. Drawing'
    <3>1. \A x \in D!Cells : ~Pending(x)' => picture'[x] \in {lcd'.ram[x], Unknown}
      BY <1>1, <1>7, <1>11, <2>3 DEF Drawing
    <3>2. \A x \in D!Cells : Inside(x)' =>
             picture'[x] = draw_arg'.buf[(x[1] - draw_arg'.page) * draw_arg'.width
                                           + (x[2] - draw_arg'.column) + 1]
      BY <1>1, <1>11, <2>3 DEF Drawing
    <3>3. D!Cells' = D!Cells
      BY DEF D!Cells
    <3>4. position' = <<draw_arg.page + draw_arg.pages - 1, draw_arg.column + draw_arg.width>>
          /\ draw_arg.pages # 0
      BY <1>1, <1>3, <1>11 DEF Drawing
    <3>5. lcd'.column = draw_arg.column + draw_i
      BY <1>3, <2>2
    <3> QED
      BY <1>1, <1>11, <2>2, <3>1, <3>2, <3>3, <3>4, <3>5 DEF Drawing
  <2> QED
    BY <1>1, <1>8, <1>9, <2>4 DEF LcdInv, D!PictureRight
<1> QED
  BY <1>2, <1>10, <1>11

(* The byte written is inside the buffer, goes to the next cell, and is    *)
(* what the picture has there.                                             *)
LEMMA LcdWriteByte == ASSUME LcdInv, D!WriteByte PROVE LcdInv'
<1> DEFINE k == draw_p * draw_arg.width + draw_i + 1
           at == <<draw_arg.page + draw_p, draw_arg.column + draw_i>>
<1>1. /\ draw_pc = "data" /\ draw_i < draw_arg.width /\ draw_i' = draw_i + 1
      /\ UNCHANGED <<draw_pc, draw_arg, draw_p, picture, position>>
  BY DEF D!WriteByte
<1>2. D!TypeOK /\ Buffered /\ (Stray \/ Drawing) /\ lcd \in Chip
  BY <1>1 DEF LcdInv, D!TypeOK, Chip
<1>3. draw_i \in Nat /\ draw_p \in Nat /\ draw_arg.pages \in Nat /\ draw_arg.page \in Nat
      /\ draw_arg.column \in Nat /\ draw_arg.width \in Nat /\ draw_arg.buf \in Seq(Byte)
      /\ picture \in Pictures
  BY <1>1, <1>2 DEF D!TypeOK, Pictures
<1>4. PICK b \in Byte : (k <= Len(draw_arg.buf) => b = draw_arg.buf[k]) /\ lcd' = D!Data(lcd, b)
  BY DEF D!WriteByte, D!NextByte
<1>5. /\ lcd' \in Chip /\ lcd'.page = lcd.page /\ lcd'.column = D!Advance(lcd.column)
      /\ \A x \in D!Cells : lcd'.ram[x] = IF x = <<lcd.page, lcd.column>> THEN b ELSE lcd.ram[x]
  BY <1>2, <1>4, DataGoes
<1>6. D!TypeOK'
  <2>1. draw_i' \in 0 .. draw_arg'.width
    BY <1>1, <1>3
  <2> QED
    BY <1>1, <1>2, <1>5, <2>1 DEF D!TypeOK, Chip
<1>7. Buffered'
  BY <1>1, <1>2 DEF Buffered, D!Sane
<1>8. CASE Stray
  <2>1. Stray'
    BY <1>1, <1>8 DEF Stray, D!NoPicture, D!Cells
  <2> QED
    BY <1>1, <1>6, <1>7, <2>1 DEF LcdInv, D!PictureRight
<1>9. CASE Drawing
  <2>1. draw_p < draw_arg.pages /\ lcd.page = at[1] /\ lcd.column = at[2]
        /\ at[1] = draw_arg.page + draw_p /\ at[2] = draw_arg.column + draw_i
        /\ <<lcd.page, lcd.column>> = at
    BY <1>1, <1>2, <1>9 DEF Drawing, Buffered
  <2>2. k \in 1 .. Len(draw_arg.buf)
    <3>1. k \in 1 .. draw_arg.width * draw_arg.pages
      BY <1>1, <1>3, <2>1, ByteInBuffer
    <3> QED
      BY <1>9, <3>1 DEF Drawing
  <2>3. b = draw_arg.buf[k]
    <3>1. k <= Len(draw_arg.buf)
      BY <1>3, <2>2
    <3> QED
      BY <1>4, <3>1
  <2>4. at \in D!Cells
    <3>1. /\ draw_arg.page + draw_arg.pages <= LcdPages
          /\ draw_arg.column + draw_arg.width <= Width
      BY <1>9 DEF Drawing
    <3>2. draw_arg.page + draw_p \in 0 .. LcdPages - 1
      BY <1>3, <2>1, <3>1, DisplayAssumption, SMTT(30)
    <3>3. draw_arg.column + draw_i \in 0 .. Columns - 1
      BY <1>1, <1>3, <3>1, DisplayAssumption, SMTT(30)
    <3> QED
      BY <3>2, <3>3 DEF D!Cells
  <2>5. lcd'.column = draw_arg.column + draw_i + 1 /\ lcd'.page = draw_arg.page + draw_p
    <3>1. lcd.column < Columns - 1
      <4>1. lcd.column = draw_arg.column + draw_i
        BY <2>1
      <4>2. draw_arg.column + draw_arg.width <= Width
        BY <1>9 DEF Drawing
      <4>3. draw_i < draw_arg.width
        BY <1>1
      <4> QED
        BY <1>3, <4>1, <4>2, <4>3, DisplayAssumption
    <3> QED
      BY <1>3, <1>5, <2>1, <3>1 DEF D!Advance
  <2>6. Inside(at)
    <3> HIDE DEF at
    <3>1. draw_i < draw_arg.width
      BY <1>1
    <3>2. draw_arg.page + draw_p \in draw_arg.page .. draw_arg.page + draw_arg.pages - 1
      BY <1>3, <2>1, SMTT(30)
    <3>3. draw_arg.column + draw_i \in draw_arg.column .. draw_arg.column + draw_arg.width - 1
      BY <1>3, <3>1, SMTT(30)
    <3> QED
      BY <2>1, <3>2, <3>3 DEF Inside, D!Inside
  <2>7. picture[at] = b
    <3>1. (at[1] - draw_arg.page) * draw_arg.width + (at[2] - draw_arg.column) + 1 = k
      <4>1. at[1] - draw_arg.page = draw_p /\ at[2] - draw_arg.column = draw_i
        BY <1>3, <2>1
      <4> QED
        BY <4>1
    <3> QED
      BY <1>9, <2>3, <2>4, <2>6, <3>1 DEF Drawing
  <2> HIDE DEF k
  <2>8. \A x \in D!Cells : Inside(x)' <=> Inside(x)
    BY <1>1 DEF Inside, D!Inside
  <2>9. ASSUME NEW x \in D!Cells, ~Pending(x)', x # at PROVE ~Pending(x)
    <3>1. x[1] \in Int /\ x[2] \in Int /\ x = <<x[1], x[2]>>
      BY DEF D!Cells
    <3>2. x[1] # draw_arg.page + draw_p \/ x[2] # draw_arg.column + draw_i
      BY <2>9, <3>1
    <3>3. CASE ~Inside(x)
      BY <3>3 DEF Pending
    <3>4. CASE Inside(x)
      <4>1. /\ ~(x[1] > draw_arg.page + draw_p)
            /\ ~(x[1] = draw_arg.page + draw_p /\ x[2] >= draw_arg.column + draw_i + 1)
        <5>1. Inside(x)' /\ ~Pending(x)'
          BY <2>8, <2>9, <3>4
        <5>2. ~(\/ x[1] > draw_arg'.page + draw_p'
                \/ x[1] = draw_arg'.page + draw_p' /\ x[2] >= draw_arg'.column + draw_i')
          BY <5>1 DEF Pending
        <5>3. draw_arg'.column + draw_i' = draw_arg.column + draw_i + 1
          BY <1>1, <1>3
        <5> QED
          BY <1>1, <5>2, <5>3
      <4>2. ~(x[1] = draw_arg.page + draw_p /\ x[2] >= draw_arg.column + draw_i)
        BY <1>3, <3>1, <3>2, <4>1, SMTT(30)
      <4> QED
        BY <4>1, <4>2 DEF Pending
    <3> QED
      BY <3>3, <3>4
  <2> HIDE DEF at
  <2>10. \A x \in D!Cells : ~Pending(x)' => picture'[x] \in {lcd'.ram[x], Unknown}
    <3> SUFFICES ASSUME NEW x \in D!Cells, ~Pending(x)'
                 PROVE  picture'[x] \in {lcd'.ram[x], Unknown}
      OBVIOUS
    <3>1. CASE x = at
      BY <1>1, <1>5, <2>1, <2>7, <3>1
    <3>2. CASE x # at
      <4>1. picture[x] \in {lcd.ram[x], Unknown}
        BY <1>9, <2>9, <3>2 DEF Drawing
      <4> QED
        BY <1>1, <1>5, <2>1, <3>2, <4>1
    <3> QED
      BY <3>1, <3>2
  <2>11. Drawing'
    <3>1. \A x \in D!Cells : Inside(x)' =>
             picture'[x] = draw_arg'.buf[(x[1] - draw_arg'.page) * draw_arg'.width
                                           + (x[2] - draw_arg'.column) + 1]
      BY <1>1, <1>9, <2>8 DEF Drawing
    <3>2. D!Cells' = D!Cells
      BY DEF D!Cells
    <3>3. position' = <<draw_arg.page + draw_arg.pages - 1, draw_arg.column + draw_arg.width>>
          /\ draw_arg.pages # 0
      <4>1. position' = position /\ draw_arg.pages # 0
        BY <1>1, <1>3, <2>1
      <4> QED
        BY <1>9, <4>1 DEF Drawing
    <3>4. lcd'.column = draw_arg'.column + draw_i' /\ lcd'.page = draw_arg'.page + draw_p'
      <4>1. draw_arg' = draw_arg /\ draw_p' = draw_p /\ draw_i' = draw_i + 1
        BY <1>1
      <4>2. draw_arg.column + (draw_i + 1) = draw_arg.column + draw_i + 1
        BY <1>3
      <4> QED
        BY <2>5, <4>1, <4>2
    <3> QED
      BY <1>1, <1>9, <2>10, <3>1, <3>2, <3>3, <3>4 DEF Drawing
  <2> QED
    BY <1>1, <1>6, <1>7, <2>11 DEF LcdInv, D!PictureRight
<1> QED
  BY <1>2, <1>8, <1>9

(* At the end of a row nothing of it is pending.                           *)
LEMMA LcdEndRow == ASSUME LcdInv, D!EndRow PROVE LcdInv'
<1>1. /\ draw_pc = "data" /\ draw_i = draw_arg.width
      /\ draw_pc' = "row" /\ draw_p' = draw_p + 1 /\ draw_i' = 0
      /\ UNCHANGED <<lcd, draw_arg, picture, position>>
  BY DEF D!EndRow
<1>2. D!TypeOK /\ Buffered /\ (Stray \/ Drawing)
  BY <1>1 DEF LcdInv
<1>3. draw_i \in Nat /\ draw_p \in Nat /\ draw_arg.pages \in Nat /\ draw_arg.page \in Nat
      /\ draw_arg.column \in Nat /\ draw_arg.width \in Nat /\ draw_p < draw_arg.pages
  BY <1>1, <1>2 DEF D!TypeOK, Buffered
<1>4. D!TypeOK'
  <2>1. draw_p' \in 0 .. draw_arg'.pages /\ draw_i' \in 0 .. draw_arg'.width
    BY <1>1, <1>3
  <2> QED
    BY <1>1, <1>2, <2>1 DEF D!TypeOK
<1>5. Buffered'
  BY <1>1, <1>2 DEF Buffered, D!Sane
<1>6. CASE Stray
  <2>1. Stray'
    BY <1>1, <1>6 DEF Stray, D!NoPicture, D!Cells
  <2> QED
    BY <1>1, <1>4, <1>5, <2>1 DEF LcdInv, D!PictureRight
<1>7. CASE Drawing
  <2>1. lcd.page = draw_arg.page + draw_p /\ lcd.column = draw_arg.column + draw_i
    BY <1>1, <1>7 DEF Drawing
  <2>2. \A x \in D!Cells : Inside(x)' <=> Inside(x)
    BY <1>1 DEF Inside, D!Inside
  <2>3. \A x \in D!Cells : Pending(x) => Pending(x)'
    <3> SUFFICES ASSUME NEW x \in D!Cells, Pending(x) PROVE Pending(x)'
      OBVIOUS
    <3>1. x[1] \in Int /\ x[2] \in Int
      BY DEF D!Cells
    <3>2. /\ Inside(x) /\ x[2] >= draw_arg.column
          /\ x[2] < draw_arg.column + draw_arg.width
      BY <1>3, <3>1 DEF Pending, Inside, D!Inside
    <3>3. x[1] > draw_arg.page + draw_p
      BY <1>1, <1>3, <3>1, <3>2 DEF Pending
    <3>4. \/ x[1] > draw_arg.page + (draw_p + 1)
          \/ x[1] = draw_arg.page + (draw_p + 1) /\ x[2] >= draw_arg.column + 0
      <4>1. x[2] >= draw_arg.column + 0
        BY <1>3, <3>2
      <4>2. \/ x[1] > draw_arg.page + (draw_p + 1)
            \/ x[1] = draw_arg.page + (draw_p + 1)
        BY <1>3, <3>1, <3>3, SMTT(30)
      <4> QED
        BY <4>1, <4>2
    <3> QED
      BY <1>1, <2>2, <3>2, <3>4 DEF Pending
  <2>4. Drawing'
    <3>1. \A x \in D!Cells : ~Pending(x)' => picture'[x] \in {lcd'.ram[x], Unknown}
      BY <1>1, <1>7, <2>3 DEF Drawing
    <3>2. \A x \in D!Cells : Inside(x)' =>
             picture'[x] = draw_arg'.buf[(x[1] - draw_arg'.page) * draw_arg'.width
                                           + (x[2] - draw_arg'.column) + 1]
      BY <1>1, <1>7, <2>2 DEF Drawing
    <3>3. D!Cells' = D!Cells
      BY DEF D!Cells
    <3>4. position' = <<draw_arg.page + draw_arg.pages - 1, draw_arg.column + draw_arg.width>>
          /\ draw_arg.pages # 0
      BY <1>1, <1>3, <1>7 DEF Drawing
    <3>5. /\ lcd'.page = draw_arg'.page + draw_p' - 1
          /\ lcd'.column = draw_arg'.column + draw_arg'.width
      BY <1>1, <1>3, <2>1
    <3> QED
      BY <1>1, <1>7, <3>1, <3>2, <3>3, <3>4, <3>5 DEF Drawing
  <2> QED
    BY <1>1, <1>4, <1>5, <2>4 DEF LcdInv, D!PictureRight
<1> QED
  BY <1>2, <1>6, <1>7

(* After the last row nothing is pending: what is specified is shown.      *)
LEMMA LcdReturn == ASSUME LcdInv, D!Return PROVE LcdInv'
<1>1. /\ draw_pc = "row" /\ draw_p = draw_arg.pages
      /\ draw_pc' = "idle" /\ draw_arg' = D!NoArgs /\ draw_p' = 0 /\ draw_i' = 0
      /\ UNCHANGED <<lcd, picture, position>>
  BY DEF D!Return
<1>2. D!TypeOK /\ (Stray \/ Drawing) /\ lcd \in Chip /\ picture \in Pictures
  BY <1>1 DEF LcdInv, D!TypeOK, Chip, Pictures
<1>3. draw_p \in Nat /\ draw_arg.pages \in Nat /\ draw_arg.page \in Nat
      /\ draw_arg.column \in Nat /\ draw_arg.width \in Nat
  BY <1>2 DEF D!TypeOK
<1>4. D!TypeOK'
  <2>1. D!NoArgs \in ArgTypes
    BY DEF D!NoArgs, ArgTypes
  <2>2. draw_p' \in 0 .. draw_arg'.pages /\ draw_i' \in 0 .. draw_arg'.width
    BY <1>1 DEF D!NoArgs
  <2> QED
    BY <1>1, <1>2, <2>1, <2>2 DEF D!TypeOK, ArgTypes
<1>5. /\ \A x \in D!Cells : picture[x] \in {lcd.ram[x], Unknown}
      /\ AddressRight(lcd)
  <2>1. CASE Stray
    BY <2>1 DEF Stray, D!NoPicture, AddressRight
  <2>2. CASE Drawing
    <3>1. \A x \in D!Cells : ~Pending(x)
      BY <1>1, <1>3 DEF Pending, Inside, D!Inside, D!Cells
    <3>2. \A x \in D!Cells : picture[x] \in {lcd.ram[x], Unknown}
      BY <2>2, <3>1 DEF Drawing
    <3>3. CASE draw_arg.pages = 0
      BY <2>2, <3>2, <3>3 DEF Drawing
    <3>4. CASE draw_arg.pages # 0
      BY <1>1, <1>3, <2>2, <3>2, <3>4 DEF Drawing, AddressRight
    <3> QED
      BY <3>3, <3>4
  <2> QED
    BY <1>2, <2>1, <2>2
<1>6. D!PictureRight'
  BY <1>1, <1>5 DEF D!PictureRight, AddressRight, D!Cells
<1> QED
  BY <1>1, <1>4, <1>6 DEF LcdInv

(* Every step of the driver preserves the invariant.                       *)
LEMMA LcdNext == LcdInv /\ [D!Next]_(D!vars) => LcdInv'
<1> SUFFICES ASSUME LcdInv, [D!Next]_(D!vars) PROVE LcdInv'
  OBVIOUS
<1>1. CASE D!Others
  <2>1. CASE D!mp_st7565_init
             \/ (\E q \in Places : D!mp_st7565_set_page(q) \/ D!mp_st7565_set_col(q))
             \/ (\E b \in Byte : D!mp_st7565_data(b))
             \/ (\E v \in Level : D!mp_st7565_contrast(v))
             \/ (\E v \in {0, 1} : D!mp_st7565_invert(v) \/ D!mp_st7565_power(v))
    BY <2>1, LcdOneStep
  <2>2. CASE D!StartRow
    BY <2>2, LcdStartRow
  <2>3. CASE D!WriteByte
    BY <2>3, LcdWriteByte
  <2>4. CASE D!EndRow
    BY <2>4, LcdEndRow
  <2>5. CASE D!Return
    BY <2>5, LcdReturn
  <2> QED
    BY <1>1, <2>1, <2>2, <2>3, <2>4, <2>5 DEF D!Others
<1>2. CASE D!Draws
  BY <1>2, LcdBegins
<1>3. CASE UNCHANGED D!vars
  <2>1. UNCHANGED <<lcd, draw_pc, draw_arg, draw_p, draw_i, picture, position>>
    BY <1>3 DEF D!vars, D!loop
  <2>2. D!TypeOK' <=> D!TypeOK
    BY <2>1 DEF D!TypeOK, D!Cells
  <2>3. D!PictureRight' <=> D!PictureRight
    BY <2>1 DEF D!PictureRight, D!Cells
  <2>4. Buffered' <=> Buffered
    BY <2>1 DEF Buffered, D!Sane
  <2>5. Stray' <=> Stray
    BY <2>1 DEF Stray, D!NoPicture, D!Cells
  <2>6. Drawing' <=> Drawing
    BY <2>1 DEF Drawing, AddressRight, Pending, Inside, D!Inside, D!Cells
  <2> QED
    BY <2>1, <2>2, <2>3, <2>4, <2>5, <2>6 DEF LcdInv
<1> QED
  BY <1>1, <1>2, <1>3 DEF D!Next

(* DriverCorrect for every size of the display, every buffer, every        *)
(* rectangle on the display or off it, with any ints for its place and     *)
(* size, and every order of the calls: between two calls the display shows *)
(* what they have specified (st7565.c:22-69); no accepted buffer is read   *)
(* beyond its end unless a size is negative or the product of the sizes    *)
(* overflows (modst7565.c:97-101); and no command is taken for a contrast  *)
(* (st7565.c:73-111).                                                      *)
THEOREM DriverAlwaysCorrect == D!Spec => []DriverCorrect
<1>1. LcdInv => DriverCorrect
  BY LcdReads DEF LcdInv, DriverCorrect
<1> QED
  BY <1>1, LcdInit, LcdNext, PTL DEF D!Spec
====

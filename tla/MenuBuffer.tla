---- MODULE MenuBuffer ----
(***************************************************************************)
(* The scrolling menu of the calculator: class Menu of                     *)
(* process_modules/menu_buffer.py, the uploader that paints it, and the    *)
(* protocol by which every menu application drives the two (clear the      *)
(* display, set the list, update, refresh; then, per key, update_buffer    *)
(* and refresh).  The point of interest is that a key repaints only the    *)
(* rows in refresh_rows: the display is right only if all the others       *)
(* already were.                                                           *)
(*                                                                         *)
(* Python indices start at 0 and TLA+ sequences at 1: menu_list[i] of the  *)
(* code is menu_list[i + 1] here.  The two buffers are driven by one       *)
(* thread, so a key and its repaint are one step.                          *)
(***************************************************************************)
EXTENDS Integers, Sequences

CONSTANTS Rows,       \* Menu.rows: 7 menu rows on the 8-page display
          Item,       \* the texts a menu may list
          MenuLists,  \* the lists the applications open
          NoItem      \* a blank row; also "nothing was chosen"

ASSUME RowsAssumption == Rows \in Nat \ {0}
ASSUME ListsAssumption == \A L \in MenuLists : L \in Seq(Item)
ASSUME NoItemAssumption == NoItem \notin Item

VARIABLES menu_list,              \* Menu.menu_list
          menu_cursor,            \* Menu.menu_cursor
          menu_display_position,  \* Menu.menu_display_position
          menu_display_size,      \* Menu.menu_display_size
          display_buffer,         \* Menu.display_buffer
          display_cursor,         \* Menu.display_cursor
          refresh_rows,           \* Menu.refresh_rows
          screen,                 \* what pages 0..Rows-1 of the display show
          chosen,                 \* the entry the application took on "ok"
          mode                    \* state of the application's key loop

menuVars == <<menu_list, menu_cursor, menu_display_position,
              menu_display_size, display_buffer, display_cursor, refresh_rows>>
vars == <<menuVars, screen, chosen, mode>>

Pages == 0 .. Rows - 1
BlankRow == [text |-> NoItem, inv |-> FALSE]
ClearedScreen == [r \in Pages |-> BlankRow]

MinOf(a, b) == IF a <= b THEN a ELSE b

(* Python's s[a : b] for 0 <= a <= b.                                      *)
PySlice(s, a, b) ==
    [k \in 1 .. (IF a < MinOf(b, Len(s)) THEN MinOf(b, Len(s)) - a ELSE 0)
        |-> s[a + k]]

(* min(self.rows, len(self.menu_list)).                                    *)
WindowSize(L) == MinOf(Rows, Len(L))
-----------------------------------------------------------------------------
(* The uploader: rows refresh_rows[0] .. refresh_rows[1]-1 are rewritten   *)
(* in order, inverted where the row is the cursor's; a row that the buffer *)
(* does not have raises IndexError after the rows before it were painted.  *)
Paint(scr, buf, cur, rows) ==
    [r \in Pages |->
        IF rows[1] <= r /\ r < rows[2] /\ r < Len(buf)
        THEN [text |-> buf[r + 1], inv |-> (r = cur)]
        ELSE scr[r]]

RaisesIndexError(buf, rows) == rows[1] < rows[2] /\ Len(buf) < rows[2]

(* refresh after the menu's fields took their new values; base is the      *)
(* display's content before it.                                            *)
Refresh(base) ==
    /\ screen' = Paint(base, display_buffer', display_cursor', refresh_rows')
    /\ mode' = IF RaisesIndexError(display_buffer', refresh_rows')
               THEN "failed" ELSE "open"

(* The tail shared by update_buffer and update.                            *)
SetWindow ==
    /\ display_buffer' = PySlice(menu_list', menu_display_position',
                                 menu_display_position' + menu_display_size')
    /\ display_cursor' = menu_cursor' - menu_display_position'
-----------------------------------------------------------------------------
(* Menu.__init__ with its default list; the uploader clears the display.   *)
Init ==
    /\ menu_list \in MenuLists
    /\ menu_cursor = 0
    /\ menu_display_position = 0
    /\ menu_display_size = WindowSize(menu_list)
    /\ display_buffer = PySlice(menu_list, 0, menu_display_size)
    /\ display_cursor = 0
    /\ refresh_rows = <<0, menu_display_size>>
    /\ screen = ClearedScreen
    /\ chosen = NoItem
    /\ mode = "closed"

(* Menu.update, after the application assigned menu_list.                  *)
Update(L) ==
    /\ menu_list' = L
    /\ menu_cursor' = 0
    /\ menu_display_position' = 0
    /\ menu_display_size' = WindowSize(L)
    /\ refresh_rows' = <<0, menu_display_size'>>
    /\ SetWindow

(* An application opens a menu: clear_display, menu_list = L, update,      *)
(* refresh.                                                                *)
Open(L) ==
    /\ mode # "open"
    /\ Update(L)
    /\ Refresh(ClearedScreen)
    /\ chosen' = NoItem

(* An application replaces the list of its open menu without clearing the  *)
(* display ("Scanning..." by the networks found, one installation step by  *)
(* the next).  The one-line list is replaced by any list.                  *)
Replace(L) ==
    /\ mode = "open" /\ Len(menu_list) = 1
    /\ Update(L)
    /\ Refresh(screen)
    /\ chosen' = NoItem

(* The rows to repaint: the whole window, or row r and the one below it.   *)
WindowRows == <<0, menu_display_size>>

OneRowOnly(r) == <<r, r + 1>>
TwoRows(r) == <<r, r + 2>>

(* Wrap to top if at the bottom, and to bottom if at the top.              *)
StopAtBottom(c) == IF c + 1 = Len(menu_list) THEN c ELSE c + 1
CursorBelow(c) == IF c + 1 = Len(menu_list) THEN 0 ELSE c + 1
CursorAbove(c) == IF c - 1 < 0 THEN Len(menu_list) - 1 ELSE c - 1

BottomPosition == IF Len(menu_list) > menu_display_size
                  THEN Len(menu_list) - menu_display_size ELSE 0

(* nav_d to cursor c has left the window below.                            *)
BelowWindow(c) == c - menu_display_position = menu_display_size

NavDown ==
    /\ menu_cursor' = CursorBelow(menu_cursor)
    /\ \/ /\ menu_cursor + 1 = Len(menu_list)
          /\ menu_display_position' = 0
          /\ refresh_rows' = WindowRows
       \/ /\ menu_cursor + 1 # Len(menu_list)
          /\ BelowWindow(menu_cursor + 1)
          /\ menu_display_position' = menu_display_position + 1
          /\ refresh_rows' = WindowRows
       \/ /\ menu_cursor + 1 # Len(menu_list)
          /\ ~BelowWindow(menu_cursor + 1)
          /\ menu_display_position' = menu_display_position
          /\ refresh_rows' = TwoRows(menu_cursor - menu_display_position)

NavUp ==
    /\ menu_cursor' = CursorAbove(menu_cursor)
    /\ \/ /\ menu_cursor - 1 < 0
          /\ menu_display_position' = BottomPosition
          /\ refresh_rows' = WindowRows
       \/ /\ menu_cursor - 1 >= 0
          /\ menu_cursor - 1 < menu_display_position
          /\ menu_display_position' = menu_display_position - 1
          /\ refresh_rows' = WindowRows
       \/ /\ menu_cursor - 1 >= 0
          /\ menu_cursor - 1 >= menu_display_position
          /\ menu_display_position' = menu_display_position
          /\ refresh_rows' = TwoRows(menu_cursor - 1 - menu_display_position)

(* update_buffer with any other text only recomputes the window.           *)
OtherText == UNCHANGED <<menu_cursor, menu_display_position, refresh_rows>>

(* One turn of the application's key loop: update_buffer(key), refresh.    *)
Key(move) ==
    /\ mode = "open"
    /\ move
    /\ UNCHANGED <<menu_list, menu_display_size, chosen>>
    /\ SetWindow
    /\ Refresh(screen)

KeyDown == Key(NavDown)
KeyUp == Key(NavUp)
KeyOther == Key(OtherText)

(* "ok": the application takes menu_list[menu_cursor]; Python raises       *)
(* IndexError when the list is empty.                                      *)
Ok ==
    /\ mode = "open"
    /\ IF 0 <= menu_cursor /\ menu_cursor < Len(menu_list)
       THEN chosen' = menu_list[menu_cursor + 1] /\ mode' = "closed"
       ELSE chosen' = chosen /\ mode' = "failed"
    /\ UNCHANGED <<menuVars, screen>>

(* "back": the application leaves its loop.                                *)
Back ==
    /\ mode = "open"
    /\ mode' = "closed"
    /\ UNCHANGED <<menuVars, screen, chosen>>

Next ==
    \/ \E L \in MenuLists : Open(L)
    \/ \E L \in MenuLists : Replace(L)
    \/ KeyDown
    \/ KeyUp
    \/ KeyOther
    \/ Ok
    \/ Back

Spec == Init /\ [][Next]_vars
-----------------------------------------------------------------------------
Row == [text : Item \cup {NoItem}, inv : BOOLEAN]

(* Type invariant of Menu's fields (menu_buffer.py:2-11) and the display.  *)
TypeOK ==
    /\ menu_list \in Seq(Item)
    /\ menu_cursor \in Int
    /\ menu_display_position \in Nat
    /\ menu_display_size \in 0 .. Rows
    /\ display_buffer \in Seq(Item)
    /\ display_cursor \in Int
    /\ refresh_rows \in Int \X Int
    /\ screen \in [Pages -> Row]
    /\ chosen \in Item \cup {NoItem}
    /\ mode \in {"closed", "open", "failed"}

(* The cursor of a menu with entries stays inside the window, and the      *)
(* window inside the list, through wrapping and scrolling in both          *)
(* directions (menu_buffer.py:14-35).                                      *)
CursorInWindow ==
    menu_list # <<>> =>
        /\ menu_display_position <= menu_cursor
        /\ menu_cursor < menu_display_position + menu_display_size
        /\ menu_display_position + menu_display_size <= Len(menu_list)

(* What a complete redraw of n rows of L from position p would show.       *)
FullRedraw(L, p, n, c) ==
    [r \in Pages |->
        IF r < n THEN [text |-> L[p + r + 1], inv |-> (r = c - p)]
        ELSE BlankRow]

(* Painting only refresh_rows (menu_buffer_uploader.py:10-27) leaves the   *)
(* display as a complete redraw would: no stale entry, no second           *)
(* highlight, no highlight lost, after any sequence of keys.               *)
ScreenFaithful ==
    mode = "open" /\ menu_list # <<>> =>
        screen = FullRedraw(menu_list, menu_display_position,
                            menu_display_size, menu_cursor)

(* The IndexError paths (menu_buffer_uploader.py:14, and the applications' *)
(* menu_list[menu_cursor]) are reached only with an empty menu.            *)
FailsOnlyWhenEmpty == mode = "failed" => menu_list = <<>>

(* The texts of the rows shown inverted: what the user sees selected.      *)
HighlightOf(scr) == {scr[r].text : r \in {q \in Pages : scr[q].inv}}
Highlighted == HighlightOf(screen)

(* The menu implements the cyclic selector: what is highlighted on the     *)
(* display moves cyclically through the list, and "ok" takes it.           *)
Selector == INSTANCE MenuSelector
    WITH items <- menu_list, sel <- menu_cursor, highlighted <- Highlighted

SelectorSpec == Selector!Spec
=============================================================================

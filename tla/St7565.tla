---- MODULE St7565 ----
(***************************************************************************)
(* The display driver (c_modules/display): each Python call becomes a      *)
(* stream of commands and data bytes for the controller, which is a chip   *)
(* with a page and a column register, modelled from the commands it is     *)
(* sent.  A call keeps the GIL; graphics() and clear_display() go through  *)
(* their loops step by step, the other calls are one step.                 *)
(***************************************************************************)
EXTENDS Integers, Sequences

CONSTANTS Width, Pages,  \* ST7565_WIDTH 128, ST7565_PAGES 8
          Columns,       \* columns of the controller: 132
          Half,          \* values of half a byte: 16
          Byte,          \* values of a cell
          Level,         \* what set_contrast() is given
          Places,        \* what a call is given for a page or a column
          Sizes,         \* what graphics() is given for a width or height
          Buffers,       \* and for a buffer
          Word,          \* values of an int: 2^32
          Unknown        \* a cell or an address that no call has specified

VARIABLES lcd,               \* the controller
          pc, arg, p, i,     \* the loops of a call: arguments, page, byte
          picture, cursor    \* history: what the calls so far have asked for

loop == <<pc, arg, p, i>>
vars == <<lcd, loop, picture, cursor>>
Cells == (0 .. Pages - 1) \X (0 .. Columns - 1)
U8(n) == n % (Half * Half)
-----------------------------------------------------------------------------
(* The controller.  After 0x81 the next command byte is the contrast.      *)
Command(l, x, v) ==
    IF l.double THEN [l EXCEPT !.level = v, !.double = FALSE]
    ELSE CASE x = "page" -> [l EXCEPT !.page = v]
           [] x = "high" -> [l EXCEPT !.column = v * Half + (@ % Half)]
           [] x = "low" -> [l EXCEPT !.column = (@ \div Half) * Half + v]
           [] x = "contrast" -> [l EXCEPT !.double = TRUE]
           [] x = "invert" -> [l EXCEPT !.invert = v]
           [] x = "power" -> [l EXCEPT !.power = v]
           [] OTHER -> l

(* A byte of data goes to the cell of the registers, which take more pages *)
(* and columns than the display has: there it is not seen.  The column     *)
(* stays at the last one.                                                  *)
Advance(c) == IF c < Columns - 1 THEN c + 1 ELSE c
Data(l, b) ==
    [l EXCEPT !.ram = [x \in Cells |-> IF x = <<l.page, l.column>> THEN b ELSE @[x]],
              !.column = Advance(@)]

(* What the driver's functions send it.                                    *)
st7565_set_page_address(l, q) == Command(l, "page", U8(q) % Half)

st7565_set_column_address_low(l, c) == Command(l, "low", U8(c) % Half)
st7565_set_column_address(l, c) ==
    Command(Command(l, "high", U8(c) \div Half), "low", U8(c) % Half)

st7565_contrast(l, lvl) ==
    Command(Command(l, "contrast", 0), "level", U8(lvl) % (4 * Half))
st7565_invert(l, inv) == Command(l, "invert", inv)
st7565_power(l, on) == Command(l, "power", on)

(* The reset pulse, then the power-up sequence.                            *)
Reset(l) == [l EXCEPT !.page = 0, !.column = 0, !.double = FALSE]
st7565_init(l) ==
    st7565_power(st7565_contrast(st7565_invert(st7565_power(Reset(l), 0), 0), 2), 1)
-----------------------------------------------------------------------------
NoArgs == [buf |-> <<>>, page |-> 0, column |-> 0, width |-> 0, pages |-> 0,
           given |-> <<0, 0>>]

(* The controller after power-up; its memory holds anything.               *)
Init ==
    /\ picture \in [Cells -> Byte]
    /\ lcd = st7565_init([ram |-> picture, page |-> 0, column |-> 0, double |-> FALSE,
                          level |-> 0, invert |-> 0, power |-> 0])
    /\ cursor = <<0, 0>>
    /\ pc = "idle" /\ arg = NoArgs /\ p = 0 /\ i = 0

(* A call of one step.                                                     *)
Call(l) == pc = "idle" /\ lcd' = l /\ UNCHANGED loop

(* What the calls ask for: a page or column that the display does not have *)
(* leaves the address unspecified, and a byte written at an unspecified    *)
(* address the picture.                                                    *)
Known(x, S) == IF x \in S THEN x ELSE Unknown
NoPicture == [x \in Cells |-> Unknown]

mp_st7565_init == Call(st7565_init(lcd)) /\ cursor' = <<0, 0>> /\ UNCHANGED picture

mp_st7565_set_page(q) ==
    /\ Call(st7565_set_page_address(lcd, q))
    /\ cursor' = <<Known(q, 0 .. Pages - 1), cursor[2]>> /\ UNCHANGED picture

mp_st7565_set_col(c) ==
    /\ Call(st7565_set_column_address(lcd, c))
    /\ cursor' = <<cursor[1], Known(c, 0 .. Columns - 1)>> /\ UNCHANGED picture

mp_st7565_data(b) ==
    /\ Call(Data(lcd, b))
    /\ picture' = IF cursor \in Cells THEN [picture EXCEPT ![cursor] = b] ELSE NoPicture
    /\ cursor' = <<cursor[1], IF cursor[2] = Unknown THEN Unknown ELSE Advance(cursor[2])>>

mp_st7565_contrast(v) == Call(st7565_contrast(lcd, v)) /\ UNCHANGED <<picture, cursor>>
mp_st7565_invert(v) == Call(st7565_invert(lcd, v)) /\ UNCHANGED <<picture, cursor>>
mp_st7565_power(v) == Call(st7565_power(lcd, v)) /\ UNCHANGED <<picture, cursor>>
-----------------------------------------------------------------------------
(* What a rectangle of bytes is to leave on the display; one that is not   *)
(* on the display leaves it unspecified.                                   *)
OnDisplay(page, column, width, pages) ==
    /\ page >= 0 /\ column >= 0 /\ width >= 0 /\ pages >= 0
    /\ page + pages <= Pages /\ column + width <= Width

Inside(x, page, column, width, pages) ==
    x[1] \in page .. page + pages - 1 /\ x[2] \in column .. column + width - 1
Painted(buf, page, column, width, pages) ==
    [x \in Cells |-> IF Inside(x, page, column, width, pages)
                     THEN buf[(x[1] - page) * width + (x[2] - column) + 1]
                     ELSE picture[x]]

Ask(buf, page, column, width, pages) ==
    IF OnDisplay(page, column, width, pages)
    THEN /\ picture' = Painted(buf, page, column, width, pages)
         /\ cursor' = IF pages = 0 THEN cursor ELSE <<page + pages - 1, column + width>>
    ELSE picture' = NoPicture /\ cursor' = <<Unknown, Unknown>>

(* The loops begin, with the sizes that they are given and cut to bytes.   *)
Begin(buf, page, column, width, pages) ==
    /\ pc' = "row" /\ p' = 0 /\ i' = 0
    /\ arg' = [buf |-> buf, page |-> U8(page), column |-> U8(column),
               width |-> U8(width), pages |-> U8(pages), given |-> <<width, pages>>]
    /\ UNCHANGED lcd

(* graphics(): the sizes are multiplied as ints and passed on as bytes.    *)
Accepted(size, width, pages) == size = (width * pages) % Word

mp_st7565_draw(buf, page, column, width, pages) ==
    /\ pc = "idle" /\ Accepted(Len(buf), width, pages)
    /\ Ask(buf, page, column, width, pages)
    /\ Begin(buf, page, column, width, pages)

(* clear_display(): the same loops, with zeros.                            *)
mp_st7565_clear ==
    LET zeros == [k \in 1 .. Width * Pages |-> 0]
    IN  pc = "idle" /\ Ask(zeros, 0, 0, Width, Pages) /\ Begin(zeros, 0, 0, Width, Pages)

StartRow ==
    /\ pc = "row" /\ p < arg.pages
    /\ lcd' = st7565_set_column_address(st7565_set_page_address(lcd, arg.page + p), arg.column)
    /\ pc' = "data"
    /\ UNCHANGED <<arg, p, i, picture, cursor>>

(* The next byte of the buffer; beyond its end lies any byte.              *)
NextByte == p * arg.width + i + 1
WriteByte ==
    /\ pc = "data" /\ i < arg.width
    /\ \E b \in Byte : /\ NextByte <= Len(arg.buf) => b = arg.buf[NextByte]
                       /\ lcd' = Data(lcd, b)
    /\ i' = i + 1
    /\ UNCHANGED <<pc, arg, p, picture, cursor>>

EndRow ==
    /\ pc = "data" /\ i = arg.width
    /\ pc' = "row" /\ p' = p + 1 /\ i' = 0
    /\ UNCHANGED <<lcd, arg, picture, cursor>>

Return ==
    /\ pc = "row" /\ p = arg.pages
    /\ pc' = "idle" /\ arg' = NoArgs /\ p' = 0 /\ i' = 0
    /\ UNCHANGED <<lcd, picture, cursor>>

Draws ==
    \/ mp_st7565_clear
    \/ \E q, c \in Places, w, n \in Sizes, buf \in Buffers : mp_st7565_draw(buf, q, c, w, n)

Others ==
    \/ StartRow \/ WriteByte \/ EndRow \/ Return
    \/ mp_st7565_init
    \/ \E q \in Places : mp_st7565_set_page(q) \/ mp_st7565_set_col(q)
    \/ \E b \in Byte : mp_st7565_data(b)
    \/ \E v \in Level : mp_st7565_contrast(v)
    \/ \E v \in {0, 1} : mp_st7565_invert(v) \/ mp_st7565_power(v)

Next == Draws \/ Others

Spec == Init /\ [][Next]_vars
-----------------------------------------------------------------------------
(* Type correctness; between two calls no two-byte command is open.        *)
TypeOK ==
    /\ lcd \in [ram : [Cells -> Byte], page : 0 .. Half - 1, column : 0 .. Half * Half - 1,
                double : {FALSE}, level : 0 .. 4 * Half - 1, invert : {0, 1}, power : {0, 1}]
    /\ pc \in {"idle", "row", "data"}
    /\ arg \in [buf : Seq(Byte), page : Nat, column : Nat, width : Nat, pages : Nat,
                given : Int \X Int]
    /\ p \in 0 .. arg.pages /\ i \in 0 .. arg.width
    /\ picture \in [Cells -> Byte \cup {Unknown}]
    /\ cursor \in ((0 .. Pages - 1) \cup {Unknown}) \X ((0 .. Columns - 1) \cup {Unknown})

(* Between two calls the display shows what the calls have asked for,      *)
(* whatever the registers held before: graphics() has changed the cells of *)
(* its rectangle, each to its byte of the buffer, and no other,            *)
(* clear_display() those of the whole display, write_data() the one that   *)
(* set_page_address(), set_column_address() and the bytes since then have  *)
(* led to.  A rectangle that is not on the display makes every cell and    *)
(* the address unspecified, until later calls specify them.                *)
PictureRight ==
    pc = "idle" => /\ \A x \in Cells : picture[x] \in {lcd.ram[x], Unknown}
                   /\ cursor[1] \in {lcd.page, Unknown}
                   /\ cursor[2] \in {lcd.column, Unknown}

(* "Sanity check" (modst7565.c:97): if the width and the number of pages   *)
(* are not negative and their product is an int, then the buffer that      *)
(* graphics() has accepted is not read beyond its end, on the display and  *)
(* off it, and whatever becomes of the sizes as bytes.  (For two negative  *)
(* sizes, or a product that overflows, the check passes too, and the code  *)
(* does read on.)                                                          *)
Sane(width, pages) == width >= 0 /\ pages >= 0 /\ width * pages < Word
ReadsInside ==
    pc = "data" /\ i < arg.width /\ Sane(arg.given[1], arg.given[2]) =>
        NextByte <= Len(arg.buf)
====

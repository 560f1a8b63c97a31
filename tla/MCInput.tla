---- MODULE MCInput ----
(***************************************************************************)
(* What the user sees and types into, in small instances: the menu, the    *)
(* form, the calculator's input line, and the driver of the display below  *)
(* them.  "part" says which a behaviour is about; it never changes, and    *)
(* what the others keep stays as it is initially.                          *)
(***************************************************************************)
EXTENDS MCFormBuffer, Input, Display

CONSTANTS m1, m2, m3, m4, m5, m6

(* The line: a display of two rows of two characters and texts of up to    *)
(* seven, so that three and four rows are scrolled.                        *)
MCLineWords == {<<>>, <<x>>, <<Blank>>, <<Blank, x, Blank>>}
MCResults == {<<x>>, <<x, x, Blank, x, x>>}

(* Menus shorter than, as long as and longer than the display, the empty   *)
(* menu, and one with equal entries.                                       *)
MCItem == {m1, m2, m3, m4, m5, m6}
MCMenuLists ==
    {<<>>, <<m1>>, <<m1, m2>>, <<m1, m2, m3>>, <<m1, m2, m3, m4>>,
     <<m1, m2, m3, m4, m5, m6>>, <<m2, m1, m1, m3, m1>>}

(* Two pages of two columns and one hidden one.  Half a byte has two       *)
(* values, so that a column needs both halves, the register has a column   *)
(* that the display has not, and sizes are cut to less than 4.  Buffers of *)
(* every size, and told apart when shifted by a byte or a row.             *)
MCBuffers == {[k \in 1 .. n |-> IF k % 3 = 1 THEN v ELSE 0] : n \in 0 .. 7, v \in {0, 1}}

(* On and off the display.  An int has nine values: -1 * -1 and 5 * 2 pass *)
(* for the size of a buffer that is too short.                             *)
MCPlaces == {-1, 0, 1, 2, 4}
MCSizes == {-1, 0, 1, 2, 5}

VARIABLE part

textVars == <<text, menu_buffer_cursor, display_buffer_position, text_screen, text_app>>
lcdVars == <<lcd, draw_pc, draw_arg, draw_p, draw_i, picture, position>>
mcVars == <<part, vars, formVars, textVars, lcdVars>>

MCInit ==
    /\ part \in {"menu", "form", "text", "display"}
    /\ Init /\ FormInit /\ T!Init /\ D!Init
    /\ part # "menu" => menu_list = <<>>
    /\ part # "display" => \A cell \in D!Cells : lcd.ram[cell] = 0

MenuSteps == part = "menu" /\ Next /\ UNCHANGED <<part, formVars, textVars, lcdVars>>
FormSteps == part = "form" /\ FormNext /\ UNCHANGED <<part, vars, textVars, lcdVars>>
TextSteps == part = "text" /\ T!Next /\ UNCHANGED <<part, vars, formVars, lcdVars>>

(* No loop reads the display, the address or the mode: it is enough that   *)
(* they begin on a blank or black display, with all of it specified or     *)
(* nothing, at the first address or one off the display, and in the mode   *)
(* of power-up; and that the other modes meet displays of one colour.      *)
Plain(r) == \A k, l \in D!Cells : r[k] = r[l]
AsPoweredUp(l) == l.level = 2 /\ l.invert = 0 /\ l.power = 1
LoopsBegin ==
    /\ Plain(lcd.ram) /\ Plain(picture)
    /\ <<lcd.page, lcd.column>> \in {<<0, 0>>, <<1, 3>>}
    /\ AsPoweredUp(lcd)

DisplaySteps ==
    /\ part = "display" /\ UNCHANGED <<part, vars, formVars, textVars>>
    /\ \/ LoopsBegin /\ D!Draws
       \/ D!Others
    /\ AsPoweredUp(lcd)' \/ (Plain(lcd.ram) /\ Plain(picture))'

MCNext == MenuSteps \/ FormSteps \/ TextSteps \/ DisplaySteps

MCSpec == MCInit /\ [][MCNext]_mcVars
====

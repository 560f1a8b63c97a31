---- MODULE Display ----
(***************************************************************************)
(* The menu, which this module extends, and the driver of the display.     *)
(* They share no state: the driver has variables of its own here, and its  *)
(* properties under the name the run checks.                               *)
(***************************************************************************)
EXTENDS MenuBuffer

CONSTANTS Width, LcdPages, Columns, Half, Byte, Level, Places, Sizes, Buffers, Word, Unknown

(* 128 < 132 <= 256 columns, 8 <= 16 pages, 128 * 8 bytes to an int, and   *)
(* buffers of bytes; places and sizes are any ints.                        *)
ASSUME DisplayAssumption ==
    /\ Half \in Nat /\ Half >= 2
    /\ Width \in Nat /\ Columns \in Nat /\ Width < Columns /\ Columns <= Half * Half
    /\ LcdPages \in Nat \ {0} /\ LcdPages <= Half
    /\ Word \in Nat /\ Width * LcdPages < Word
    /\ 0 \in Byte /\ Buffers \subseteq Seq(Byte)
    /\ Places \subseteq Int /\ Sizes \subseteq Int /\ Level \subseteq Int
    /\ Unknown \notin Byte /\ Unknown \notin Int

VARIABLES lcd, draw_pc, draw_arg, draw_p, draw_i, picture, position

D == INSTANCE St7565 WITH
        Pages <- LcdPages, pc <- draw_pc, arg <- draw_arg, p <- draw_p, i <- draw_i,
        cursor <- position
-----------------------------------------------------------------------------
(* The driver, from every picture and every state of the registers: no     *)
(* command is taken for the level of the contrast command                  *)
(* (st7565.c:73-111), no buffer of sizes that are not negative and do not  *)
(* overflow is read beyond its end (modst7565.c:97-101), graphics() and    *)
(* clear_display() on the display change the cells of their rectangle and  *)
(* no others (st7565.c:32-69), and set_page_address, set_column_address    *)
(* and write_data byte by byte write where they say (st7565.c:22-29).      *)
DriverCorrect == D!TypeOK /\ D!ReadsInside /\ D!PictureRight
====

-------------------------------- MODULE Vga ---------------------------------
(***************************************************************************)
(* The text display (devices/vga.c).  The state v holds the frame buffer   *)
(* fb by row and column, the cursor cx, cy and the cursor of the hardware. *)
(* A character is written with one attribute only, which is left out.      *)
(***************************************************************************)
EXTENDS Integers

CONSTANTS COL_CNT, ROW_CNT,
          TAB_WIDTH    \* 8 in the code

Blank == " "

Rows == 0..(ROW_CNT - 1)

Cols == 0..(COL_CNT - 1)

BlankRow == [x \in Cols |-> Blank]

(* init: the cursor is found where the hardware has it.                    *)
find_cursor(fb, hardware) ==
    [fb |-> fb, hardware |-> hardware, cx |-> hardware % COL_CNT, cy |-> hardware \div COL_CNT]

move_cursor(v) == [v EXCEPT !.hardware = v.cx + COL_CNT * v.cy]

clear_row(v, y) == [v EXCEPT !.fb[y] = BlankRow]

cls(v) == move_cursor([v EXCEPT !.fb = [y \in Rows |-> BlankRow], !.cx = 0, !.cy = 0])

(* Mutant: the row that scrolls in is not cleared.                         *)
NewlineUncleared(v) ==
    IF v.cy + 1 < ROW_CNT THEN [v EXCEPT !.cx = 0, !.cy = @ + 1]
    ELSE [v EXCEPT !.cx = 0, !.cy = ROW_CNT - 1,
                   !.fb = [y \in Rows |-> IF y < ROW_CNT - 1 THEN @[y + 1] ELSE @[y]]]

newline(v) ==
    IF v.cy + 1 < ROW_CNT THEN [v EXCEPT !.cx = 0, !.cy = @ + 1]
    ELSE clear_row([v EXCEPT !.cx = 0, !.cy = ROW_CNT - 1,
                             !.fb = [y \in Rows |-> IF y < ROW_CNT - 1 THEN @[y + 1] ELSE @[y]]],
                   ROW_CNT - 1)

Wrapped(v) == IF v.cx >= COL_CNT THEN newline(v) ELSE v

(* The cursor of the hardware is moved last; a bell changes nothing.       *)
vga_putc(v, c) ==
    move_cursor(
        CASE c = "newline" -> newline(v)
          [] c = "form feed" -> cls(v)
          [] c = "backspace" -> [v EXCEPT !.cx = IF @ > 0 THEN @ - 1 ELSE @]
          [] c = "return" -> [v EXCEPT !.cx = 0]
          [] c = "tab" -> Wrapped([v EXCEPT !.cx = (@ \div TAB_WIDTH + 1) * TAB_WIDTH])
          [] c = "bell" -> v
          [] OTHER -> Wrapped([v EXCEPT !.fb[v.cy][v.cx] = c, !.cx = @ + 1]))
=============================================================================

------------------------------- MODULE VgaText -------------------------------
(***************************************************************************)
(* The VGA text driver, src/src/kernel/drivers/pc/vga_text.c, as operators *)
(* on the driver's state v: the cells of the screen, the cursor, and the   *)
(* editable text with the screen position of each of its characters.      *)
(* Colours are left out.                                                   *)
(***************************************************************************)
EXTENDS Integers, Sequences, SequencesExt

CONSTANTS
    Width, Height,   \* VGA_WIDTH, VGA_HEIGHT
    PathMax          \* VGA_TEXT_PATH_MAX

ASSUME ScreenAssumption == Width \in Nat \ {0} /\ Height \in Nat \ {0} /\ PathMax \in Nat

Cells == 0 .. Width * Height - 1
Blank == "_"
Newline == "\n"

\* pc_vga_init; pos stands for row * Width + col, path[i] for text_path[i - 1].
VgaInit ==
    [cells |-> [p \in Cells |-> Blank], pos |-> 0,
     data |-> <<>>, path |-> <<0>>, cursor |-> 0, insert |-> TRUE]

\* vga_scroll_up.
ScrollUp(cells) ==
    [p \in Cells |-> IF p + Width \in Cells THEN cells[p + Width] ELSE Blank]

\* pc_vga_putc, with vga_ensure_row_visible.
Putc(v, c) ==
    LET cells == IF c = Newline THEN v.cells ELSE [v.cells EXCEPT ![v.pos] = c]
        next  == IF c = Newline THEN (v.pos \div Width + 1) * Width ELSE v.pos + 1
    IN  IF next \in Cells
        THEN [v EXCEPT !.cells = cells, !.pos = next]
        ELSE [v EXCEPT !.cells = ScrollUp(cells), !.pos = next - Width]

\* vga_text_rerender: blank the screen from the start of the text, put every
\* character again and note where each ends, then place the cursor.
Rerender(v) ==
    LET start == [v EXCEPT !.cells = [p \in Cells |-> IF p < v.path[1] THEN @[p] ELSE Blank],
                           !.pos = v.path[1], !.path = <<v.path[1]>>]
        PutText(w, c) == LET x == Putc(w, c) IN [x EXCEPT !.path = Append(@, x.pos)]
        done == FoldLeft(PutText, start, v.data)
    IN  [done EXCEPT !.pos = done.path[v.cursor + 1]]

TextBegin(v, pos) ==
    Rerender([v EXCEPT !.path = <<pos>>, !.data = <<>>, !.cursor = 0, !.insert = TRUE])

\* Mutant: overwriting inserts.
TextPutcInserts(v, c) ==
    IF Len(v.data) >= PathMax THEN v
    ELSE Rerender([v EXCEPT !.data = InsertAt(@, v.cursor + 1, c), !.cursor = @ + 1])

TextPutc(v, c) ==
    IF Len(v.data) >= PathMax THEN v
    ELSE IF ~v.insert /\ v.cursor < Len(v.data)
         THEN Rerender([v EXCEPT !.data[v.cursor + 1] = c, !.cursor = @ + 1])
         ELSE Rerender([v EXCEPT !.data = InsertAt(@, v.cursor + 1, c), !.cursor = @ + 1])

TextBackspace(v) ==
    IF v.cursor = 0 THEN v
    ELSE Rerender([v EXCEPT !.data = RemoveAt(@, v.cursor), !.cursor = @ - 1])

TextDelete(v) ==
    IF v.cursor >= Len(v.data) THEN v
    ELSE Rerender([v EXCEPT !.data = RemoveAt(@, v.cursor + 1)])

\* Mutant: the cursor of the screen is left where it was.
TextLeftUnseen(v) == IF v.cursor = 0 THEN v ELSE [v EXCEPT !.cursor = @ - 1]

TextLeft(v) ==
    IF v.cursor = 0 THEN v ELSE [v EXCEPT !.cursor = @ - 1, !.pos = v.path[v.cursor]]

TextRight(v) ==
    IF v.cursor >= Len(v.data) THEN v
    ELSE [v EXCEPT !.cursor = @ + 1, !.pos = v.path[v.cursor + 2]]

TextToggleInsert(v) == [v EXCEPT !.insert = ~@]
=============================================================================

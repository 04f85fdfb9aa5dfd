-------------------------------- MODULE Vga --------------------------------
(***************************************************************************)
(* The text screen of src/vga.c.  A screen s is a record: its cells (a     *)
(* function from 0 .. VGA_WIDTH * VGA_HEIGHT - 1 to characters, colours    *)
(* left out) and the row and column of the next character.                 *)
(***************************************************************************)
EXTENDS Naturals, Sequences, SequencesExt

CONSTANTS VGA_WIDTH, VGA_HEIGHT   \* 80 and 25

ASSUME VgaAssumption == VGA_WIDTH \in Nat \ {0} /\ VGA_HEIGHT \in Nat \ {0}

Blank == " "
BS    == "BS"    \* '\b', which TLA+ strings have no escape for
Size  == VGA_WIDTH * VGA_HEIGHT
Here(s) == s.row * VGA_WIDTH + s.col

vga_clear == [cells |-> [i \in 0..Size-1 |-> Blank], row |-> 0, col |-> 0]

\* Every row moves up by one and the last one is blank; "row" stays the last.
scroll(s) ==
  [s EXCEPT !.cells = [i \in 0..Size-1 |-> IF i < Size - VGA_WIDTH
                                           THEN s.cells[i + VGA_WIDTH] ELSE Blank]]

\* A mistaken NextRow, which nothing uses: the last row is written over.
NextRow_overwrites(s) ==
  IF s.row + 1 >= VGA_HEIGHT THEN [s EXCEPT !.col = 0]
  ELSE [s EXCEPT !.col = 0, !.row = @ + 1]

NextRow(s) ==
  IF s.row + 1 >= VGA_HEIGHT THEN [scroll(s) EXCEPT !.col = 0]
  ELSE [s EXCEPT !.col = 0, !.row = @ + 1]

Put(s, c) == [s EXCEPT !.cells[Here(s)] = c]

\* On to the next column, or the next row after the last one.
Forward(s) ==
  IF s.col + 1 >= VGA_WIDTH THEN NextRow(s) ELSE [s EXCEPT !.col = @ + 1]

\* A backspace stays in its row: in column 0 it does nothing.
Back(s) == IF s.col = 0 THEN s
           ELSE LET t == [s EXCEPT !.col = @ - 1] IN Put(t, Blank)

\* A tab blanks up to the next multiple of 4, or to the end of the row.
Tab(s) ==
  LET to == s.col + 4 - (s.col % 4)
      end == IF to < VGA_WIDTH THEN to ELSE VGA_WIDTH
      t == [s EXCEPT !.cells = [i \in 0..Size-1 |->
               IF i \in Here(s)..(Here(s) + end - s.col - 1) THEN Blank ELSE @[i]]]
  IN  IF end = VGA_WIDTH THEN NextRow(t) ELSE [t EXCEPT !.col = end]

vga_putchar(s, c) ==
  CASE c = "\n" -> NextRow(s)
    [] c = "\t" -> Tab(s)
    [] c = "\r" -> [s EXCEPT !.col = 0]
    [] c = BS  -> Back(s)
    [] OTHER    -> Forward(Put(s, c))

vga_print(s, text) ==
  LET printed[i \in 0..Len(text)] ==
        IF i = 0 THEN s ELSE vga_putchar(printed[i-1], text[i])
  IN  printed[Len(text)]
=============================================================================

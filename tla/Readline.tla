------------------------------ MODULE Readline ------------------------------
(***************************************************************************)
(* Line editing and history: sh_readline and the loop of shell_run in      *)
(* src/shell.c, with sh_getc on the keyboard, over the screen of Vga.  The *)
(* prompt has been printed; keys come one at a time.                       *)
(*                                                                         *)
(* buf, up to pos, is a sequence of characters.  The branches of           *)
(* sh_readline for Ctrl-C and Ctrl-D are not modelled: sh_getc returns -1  *)
(* for both, so that they are never taken.  What a command line does is    *)
(* what it prints; strdup finds the memory it asks for.                    *)
(***************************************************************************)
EXTENDS Vga

CONSTANTS
  Glyphs,    \* the characters that take a cell of the screen
  Chars,     \* those of them that can be typed
  MAX,       \* size of the line's buffer, 1024
  HIST_MAX,  \* 32
  Prompt,    \* what prompt() prints
  Outputs,   \* what a command line prints
  MaxLines   \* bound on the lines entered

ASSUME ReadlineAssumption ==
  /\ MAX \in Nat \ {0} /\ HIST_MAX \in Nat \ {0} /\ MaxLines \in Nat
  /\ Glyphs \cap {"\n", "\t", "\r", BS} = {} /\ Blank \in Glyphs
  /\ Chars \subseteq Glyphs /\ Prompt \in Seq(Glyphs)
  /\ Outputs \subseteq Seq(Glyphs \union {"\n", "\t", BS})   \* no key gives, no command prints '\r'

VARIABLES
  pc,                \* "read", "exec", or "done" when the shell has ended
  buf, screen,
  history, hist_pos, \* hist_count is Len(history)
  entered,           \* history variable: every line entered so far
  depth, recalled,   \* history variables: how many lines back the user has
                     \* gone, and whether nothing was edited since
  intact             \* history variable: no backspace was lost in column 0

watch == <<entered, depth, recalled, intact>>
vars  == <<pc, buf, screen, history, hist_pos, watch>>

hist_count == Len(history)

\* The prompt on whatever row the cursor is in, and a new line to edit.
NewPrompt(s) ==
  /\ pc' = "read"
  /\ buf' = <<>>
  /\ screen' = vga_print(s, Prompt)
  /\ depth' = 0 /\ recalled' = FALSE /\ intact' = TRUE

\* Backspace, blank, backspace, n times.
Rubout(s, n) ==
  LET rubbed[i \in 0..n] ==
        IF i = 0 THEN s ELSE vga_print(rubbed[i-1], <<BS, Blank, BS>>)
  IN  rubbed[n]

-----------------------------------------------------------------------------
(* sh_readline, one action per kind of key.                                *)

\* A mistaken Type, which nothing uses: no room is left for the NUL.
Type_full(c) ==
  /\ pc = "read"
  /\ IF Len(buf) < MAX
     THEN buf' = Append(buf, c) /\ screen' = vga_putchar(screen, c)
     ELSE UNCHANGED <<buf, screen>>
  /\ recalled' = FALSE
  /\ UNCHANGED <<pc, history, hist_pos, entered, depth, intact>>

Type(c) ==
  /\ pc = "read"
  /\ IF Len(buf) < MAX - 1
     THEN buf' = Append(buf, c) /\ screen' = vga_putchar(screen, c)
     ELSE UNCHANGED <<buf, screen>>
  /\ recalled' = FALSE
  /\ UNCHANGED <<pc, history, hist_pos, entered, depth, intact>>

\* A mistaken Erase, which nothing uses: at the start of the line too.
Erase_prompt ==
  /\ pc = "read"
  /\ buf' = IF buf = <<>> THEN <<>> ELSE Front(buf)
  /\ screen' = Rubout(screen, 1)
  /\ intact' = (intact /\ screen.col > 0)
  /\ recalled' = FALSE
  /\ UNCHANGED <<pc, history, hist_pos, entered, depth>>

Erase ==
  /\ pc = "read"
  /\ IF buf # <<>>
     THEN /\ buf' = Front(buf)
          /\ screen' = Rubout(screen, 1)
          /\ intact' = (intact /\ screen.col > 0)
     ELSE UNCHANGED <<buf, screen, intact>>
  /\ recalled' = FALSE
  /\ UNCHANGED <<pc, history, hist_pos, entered, depth>>

\* The line is rubbed out and "line", cut to the buffer, takes its place.
Replace(line) ==
  /\ buf' = SubSeq(line, 1, IF Len(line) < MAX THEN Len(line) ELSE MAX - 1)
  /\ screen' = vga_print(Rubout(screen, Len(buf)), buf')
  /\ intact' = (intact /\ screen.col >= Len(buf))

\* At the oldest line nothing happens, whatever stands in buf.
KeyUp ==
  /\ pc = "read"
  /\ IF hist_pos > 0
     THEN /\ hist_pos' = hist_pos - 1
          /\ Replace(history[hist_pos])
          /\ depth' = depth + 1 /\ recalled' = TRUE
     ELSE UNCHANGED <<hist_pos, buf, screen, intact, depth, recalled>>
  /\ UNCHANGED <<pc, history, entered>>

\* Below the newest line is an empty one, to which what was typed is lost.
KeyDown ==
  /\ pc = "read"
  /\ IF hist_pos + 1 < hist_count
     THEN hist_pos' = hist_pos + 1 /\ Replace(history[hist_pos + 2])
     ELSE hist_pos' = hist_count   /\ Replace(<<>>)
  /\ depth' = IF depth = 0 THEN 0 ELSE depth - 1
  /\ recalled' = TRUE
  /\ UNCHANGED <<pc, history, entered>>

\* Cursor left, right, home, end, page up and down, and control characters.
OtherKey == pc = "read" /\ UNCHANGED vars

\* A mistaken Remember, which nothing uses: the shift of a full history starts
\* one too late.
Remember_late(h, line) ==
  IF Len(h) < HIST_MAX THEN Append(h, line)
  ELSE [i \in 1..HIST_MAX |-> IF i = HIST_MAX THEN line
                              ELSE IF i = 1 THEN h[1] ELSE h[i+1]]

\* history with the line at its end; a full one loses the oldest.
Remember(h, line) ==
  IF Len(h) < HIST_MAX THEN Append(h, line)
  ELSE [i \in 1..HIST_MAX |-> IF i = HIST_MAX THEN line ELSE h[i+1]]

\* An empty line gets a new prompt; another one is remembered and executed.
Enter ==
  /\ pc = "read"
  /\ IF buf = <<>>
     THEN /\ NewPrompt(vga_putchar(screen, "\n"))
          /\ hist_pos' = hist_count
          /\ UNCHANGED <<history, entered>>
     ELSE /\ Len(entered) < MaxLines
          /\ history' = Remember(history, buf)
          /\ entered' = Append(entered, buf)
          /\ screen' = vga_putchar(screen, "\n")
          /\ pc' = "exec"
          /\ UNCHANGED <<buf, hist_pos, depth, recalled, intact>>

\* Ctrl-C or Ctrl-D: sh_getc, sh_readline and the shell end.
EndOfInput ==
  /\ pc = "read"
  /\ pc' = "done"
  /\ screen' = vga_putchar(screen, "\n")
  /\ UNCHANGED <<buf, history, hist_pos, watch>>

-----------------------------------------------------------------------------
(* shell_run around it.                                                    *)

\* A mistaken shell_exec_line, which nothing uses: hist_pos is not set.
shell_exec_line_stays(s) ==
  /\ pc = "exec"
  /\ NewPrompt(s)
  /\ hist_pos' = hist_pos
  /\ UNCHANGED <<history, entered>>

\* The line is executed, which leaves the screen s, and the loop starts over.
shell_exec_line(s) ==
  /\ pc = "exec"
  /\ NewPrompt(s)
  /\ hist_pos' = hist_count
  /\ UNCHANGED <<history, entered>>

Init ==
  /\ pc = "read" /\ buf = <<>>
  /\ screen = vga_print(vga_clear, Prompt)
  /\ history = <<>> /\ hist_pos = 0
  /\ entered = <<>> /\ depth = 0 /\ recalled = FALSE /\ intact = TRUE

sh_readline ==
  \/ \E c \in Chars : Type(c)
  \/ Erase \/ KeyUp \/ KeyDown \/ OtherKey \/ Enter \/ EndOfInput

Next ==
  \/ sh_readline
  \/ \E out \in Outputs : shell_exec_line(vga_print(screen, out))
  \/ shell_exec_line(vga_clear)

Spec == Init /\ [][Next]_vars

-----------------------------------------------------------------------------
(* Properties.                                                             *)

TypeOK ==
  /\ pc \in {"read", "exec", "done"}
  /\ buf \in Seq(Chars) /\ Len(buf) < MAX
  /\ screen.row \in 0..VGA_HEIGHT-1 /\ screen.col \in 0..VGA_WIDTH-1
  /\ DOMAIN screen.cells = 0..Size-1
  /\ history \in Seq(Seq(Chars) \ {<<>>}) /\ hist_count <= HIST_MAX
  /\ hist_pos \in 0..hist_count

\* The history array holds the lines entered last, however often it was
\* shifted, and recalling n lines back (the cursor keys, in any order, across
\* edits) gives the n-th last line that was ever entered, of the HIST_MAX
\* last: not the one hist_pos meant before the array was shifted.
RecallsEntered ==
  pc = "read" /\ recalled =>
    buf = IF depth = 0 THEN <<>>
          ELSE entered[Len(entered) + 1 - depth]

\* As long as no backspace was lost at the left edge, the cells before the
\* cursor are the prompt and the line that Enter will execute, over row ends
\* and scrolling, and nothing stands after the cursor.
ScreenShowsLine ==
  pc = "read" =>
    /\ \A i \in Here(screen)..Size-1 : screen.cells[i] = Blank
    /\ intact =>
         LET shown == Prompt \o buf
             n == IF Len(shown) < Here(screen) THEN Len(shown) ELSE Here(screen)
         IN  \A k \in 0..n-1 :
               screen.cells[Here(screen) - 1 - k] = shown[Len(shown) - k]
=============================================================================

-------------------------- MODULE Readline_proofs --------------------------
(***************************************************************************)
(* The line editor, for every size of the buffer, the history and the      *)
(* screen and every number of lines: what the cursor keys bring back is    *)
(* the line entered so many lines ago, and what stands before the cursor   *)
(* is the line that Enter executes.                                        *)
(***************************************************************************)
EXTENDS Readline, NatInduct, SequenceTheorems

\* What can be entered.
Line == {s \in Seq(Chars) : s # <<>> /\ Len(s) < MAX}

\* h is the end of e, all of it or HIST_MAX lines.
IsEnd(h, e) ==
  /\ h \in Seq(Line) /\ e \in Seq(Line)
  /\ Len(h) <= Len(e) /\ Len(h) <= HIST_MAX
  /\ Len(h) < HIST_MAX => Len(h) = Len(e)
  /\ \A i \in 1..Len(h) : h[i] = e[Len(e) - Len(h) + i]

\* Where the cursor keys stand, and what they last brought.
AtDepth ==
  /\ depth \in 0..hist_count
  /\ hist_pos = hist_count - depth
  /\ recalled => buf = IF depth = 0 THEN <<>> ELSE entered[Len(entered) + 1 - depth]

\* The inductive invariant of recall.
RecInv ==
  /\ buf \in Seq(Chars) /\ Len(buf) < MAX
  /\ IsEnd(history, entered)
  /\ pc = "read" => AtDepth

\* A line from the history fits the buffer and is copied whole.
LEMMA CopiedWhole ==
  ASSUME NEW line \in Seq(Chars), Len(line) < MAX
  PROVE  SubSeq(line, 1, IF Len(line) < MAX THEN Len(line) ELSE MAX - 1) = line
OBVIOUS

\* Remembering a line at the end of the lines entered leaves their end.
LEMMA RememberKeepsEnd ==
  ASSUME NEW h, NEW e, NEW line \in Line, IsEnd(h, e)
  PROVE  IsEnd(Remember(h, line), Append(e, line))
<1> DEFINE g == Remember(h, line)
           f == Append(e, line)
<1>1. HIST_MAX \in Nat \ {0} /\ h \in Seq(Line) /\ e \in Seq(Line)
  BY ReadlineAssumption DEF IsEnd
<1>2. Len(h) \in Nat /\ Len(e) \in Nat /\ Len(h) <= Len(e) /\ Len(h) <= HIST_MAX
  BY <1>1 DEF IsEnd
<1>3. /\ f \in Seq(Line) /\ Len(f) = Len(e) + 1 /\ f[Len(e) + 1] = line
      /\ \A i \in 1..Len(e) : f[i] = e[i]
  BY <1>1
<1>4. CASE Len(h) < HIST_MAX
  <2>1. /\ g \in Seq(Line) /\ Len(g) = Len(h) + 1 /\ g[Len(h) + 1] = line
        /\ \A i \in 1..Len(h) : g[i] = h[i]
    BY <1>1, <1>4 DEF Remember
  <2>2. Len(h) = Len(e)
    BY <1>4 DEF IsEnd
  <2>3. ASSUME NEW i \in 1..Len(g) PROVE g[i] = f[Len(f) - Len(g) + i]
    <3>1. CASE i = Len(h) + 1
      BY <1>2, <1>3, <2>1, <2>2, <3>1
    <3>2. CASE i # Len(h) + 1
      <4>1. i \in 1..Len(h) /\ i \in 1..Len(e) /\ Len(f) - Len(g) + i = i
        BY <1>2, <1>3, <2>1, <2>2, <3>2
      <4>2. h[i] = e[i]
        <5>1. Len(e) - Len(h) + i = i
          BY <1>2, <2>2, <4>1
        <5> QED BY <4>1, <5>1 DEF IsEnd
      <4> QED BY <1>3, <2>1, <4>1, <4>2
    <3> QED BY <3>1, <3>2
  <2> HIDE DEF g, f
  <2>4. IsEnd(g, f)
    BY <1>1, <1>2, <1>3, <1>4, <2>1, <2>2, <2>3 DEF IsEnd
  <2> QED BY <2>4 DEF g, f
<1>5. CASE Len(h) = HIST_MAX
  <2>1. g = [i \in 1..HIST_MAX |-> IF i = HIST_MAX THEN line ELSE h[i+1]]
    BY <1>1, <1>5 DEF Remember
  <2>2. ASSUME NEW i \in 1..HIST_MAX, i # HIST_MAX
        PROVE  i + 1 \in 1..Len(h) /\ h[i+1] \in Line
    <3>1. i + 1 \in 1..Len(h)
      BY <1>1, <1>5, <2>2
    <3> QED BY <1>1, <3>1
  <2>3. g \in Seq(Line) /\ Len(g) = HIST_MAX
    <3>1. \A i \in 1..HIST_MAX : (IF i = HIST_MAX THEN line ELSE h[i+1]) \in Line
      BY <2>2
    <3> HIDE DEF g
    <3> QED BY <1>1, <2>1, <3>1
  <2>4. ASSUME NEW i \in 1..Len(g) PROVE g[i] = f[Len(f) - Len(g) + i]
    <3>0. i \in 1..HIST_MAX
      BY <2>3
    <3>1. CASE i = HIST_MAX
      BY <1>1, <1>2, <1>3, <2>1, <2>3, <3>0, <3>1
    <3>2. CASE i # HIST_MAX
      <4>1. g[i] = h[i+1] /\ i + 1 \in 1..Len(h)
        BY <2>1, <2>2, <3>0, <3>2
      <4>2. h[i+1] = e[Len(e) - Len(h) + (i + 1)]
        BY <4>1 DEF IsEnd
      <4>3. /\ Len(e) - Len(h) + (i + 1) = Len(f) - Len(g) + i
            /\ Len(e) - Len(h) + (i + 1) \in 1..Len(e)
        BY <1>1, <1>2, <1>3, <1>5, <2>3, <3>0, <4>1
      <4> QED BY <1>3, <4>1, <4>2, <4>3
    <3> QED BY <3>1, <3>2
  <2> HIDE DEF g, f
  <2>5. IsEnd(g, f)
    BY <1>1, <1>2, <1>3, <1>5, <2>3, <2>4 DEF IsEnd
  <2> QED BY <2>5 DEF g, f
<1> QED BY <1>1, <1>2, <1>4, <1>5

\* Nothing is remembered when the shell starts.
LEMMA RecInvInit == Init => RecInv
<1> SUFFICES ASSUME Init PROVE RecInv
  OBVIOUS
<1>1. MAX \in Nat \ {0} /\ HIST_MAX \in Nat \ {0}
  BY ReadlineAssumption
<1>2. /\ history = <<>> /\ entered = <<>> /\ buf = <<>> /\ recalled = FALSE
      /\ hist_pos = 0 /\ depth = 0
  BY DEF Init
<1> QED BY <1>1, <1>2 DEF RecInv, IsEnd, AtDepth, hist_count

\* A cursor key brings the line of its depth.
LEMMA KeyUpKeeps == RecInv /\ KeyUp => RecInv'
<1> SUFFICES ASSUME RecInv, KeyUp PROVE RecInv'
  OBVIOUS
<1>1. /\ UNCHANGED <<pc, history, entered>> /\ pc = "read" /\ hist_count' = hist_count
      /\ hist_count \in Nat /\ AtDepth /\ IsEnd(history, entered)
      /\ history \in Seq(Line) /\ Len(entered) \in Nat /\ entered \in Seq(Line)
  BY DEF RecInv, KeyUp, IsEnd, hist_count
<1>2. depth \in Nat /\ depth <= hist_count /\ hist_pos = hist_count - depth
  BY <1>1 DEF AtDepth
<1>3. CASE hist_pos > 0
  <2>1. hist_pos \in 1..Len(history)
    BY <1>1, <1>2, <1>3 DEF hist_count
  <2>2. history[hist_pos] \in Seq(Chars) /\ Len(history[hist_pos]) < MAX
    BY <1>1, <2>1 DEF Line
  <2>3. /\ buf' = history[hist_pos] /\ depth' = depth + 1
        /\ hist_pos' = hist_pos - 1
    BY <1>3, <2>2, CopiedWhole DEF KeyUp, Replace
  <2>4. history[hist_pos] = entered[Len(entered) - Len(history) + hist_pos]
    BY <1>1, <2>1 DEF IsEnd
  <2>5. /\ Len(entered) - Len(history) + hist_pos = Len(entered) + 1 - depth'
        /\ depth' \in 0..hist_count /\ depth' # 0 /\ hist_pos' = hist_count - depth'
    BY <1>1, <1>2, <2>1, <2>3 DEF hist_count
  <2>6. AtDepth'
    BY <1>1, <2>3, <2>4, <2>5 DEF AtDepth
  <2> QED BY <1>1, <2>2, <2>3, <2>6 DEF RecInv
<1>4. CASE ~(hist_pos > 0)
  <2>1. UNCHANGED <<hist_pos, buf, depth, recalled>>
    BY <1>4 DEF KeyUp
  <2> QED BY <1>1, <2>1 DEF RecInv, AtDepth
<1> QED BY <1>3, <1>4

\* So does the other one, and below the newest line nothing.
LEMMA KeyDownKeeps == RecInv /\ KeyDown => RecInv'
<1> SUFFICES ASSUME RecInv, KeyDown PROVE RecInv'
  OBVIOUS
<1>1. /\ UNCHANGED <<pc, history, entered>> /\ pc = "read" /\ hist_count' = hist_count
      /\ hist_count \in Nat /\ AtDepth /\ IsEnd(history, entered)
      /\ history \in Seq(Line) /\ Len(entered) \in Nat /\ entered \in Seq(Line)
  BY DEF RecInv, KeyDown, IsEnd, hist_count
<1>2. depth \in Nat /\ depth <= hist_count /\ hist_pos = hist_count - depth
  BY <1>1 DEF AtDepth
<1>3. depth' = (IF depth = 0 THEN 0 ELSE depth - 1)
  BY DEF KeyDown
<1>4. CASE hist_pos + 1 < hist_count
  <2>1. hist_pos + 2 \in 1..Len(history)
    BY <1>1, <1>2, <1>4 DEF hist_count
  <2>2. history[hist_pos + 2] \in Seq(Chars) /\ Len(history[hist_pos + 2]) < MAX
    BY <1>1, <2>1 DEF Line
  <2>3. buf' = history[hist_pos + 2] /\ hist_pos' = hist_pos + 1
    BY <1>4, <2>2, CopiedWhole DEF KeyDown, Replace
  <2>4. history[hist_pos + 2] = entered[Len(entered) - Len(history) + (hist_pos + 2)]
    BY <1>1, <2>1 DEF IsEnd
  <2>5. /\ Len(entered) - Len(history) + (hist_pos + 2) = Len(entered) + 1 - depth'
        /\ depth' \in 0..hist_count /\ depth' # 0 /\ hist_pos' = hist_count - depth'
    BY <1>1, <1>2, <1>3, <1>4, <2>1, <2>3 DEF hist_count
  <2>6. AtDepth'
    BY <1>1, <2>3, <2>4, <2>5 DEF AtDepth
  <2> QED BY <1>1, <2>2, <2>3, <2>6 DEF RecInv
<1>5. CASE ~(hist_pos + 1 < hist_count)
  <2>1. MAX \in Nat \ {0}
    BY ReadlineAssumption
  <2>2. <<>> \in Seq(Chars) /\ Len(<<>>) < MAX
    BY <2>1
  <2>3. buf' = <<>> /\ hist_pos' = hist_count
    BY <1>5, <2>2, CopiedWhole DEF KeyDown, Replace
  <2>4. depth' = 0
    BY <1>1, <1>2, <1>3, <1>5
  <2> QED BY <1>1, <2>2, <2>3, <2>4 DEF RecInv, AtDepth
<1> QED BY <1>4, <1>5

\* Editing keeps the buffer in its bounds and forgets that it was recalled.
LEMMA EditKeeps ==
  ASSUME RecInv, Erase \/ \E c \in Chars : Type(c)
  PROVE  RecInv'
<1>1. MAX \in Nat \ {0} /\ buf \in Seq(Chars) /\ Len(buf) \in Nat /\ Len(buf) < MAX
  BY ReadlineAssumption DEF RecInv
<1>2. buf' \in Seq(Chars) /\ Len(buf') < MAX
  <2>1. CASE Erase
    <3>1. CASE buf # <<>>
      <4>1. buf' = SubSeq(buf, 1, Len(buf) - 1)
        BY <2>1, <3>1 DEF Erase, Front
      <4>2. Len(buf) - 1 \in 0..Len(buf)
        BY <1>1, <3>1
      <4> QED BY <1>1, <4>1, <4>2
    <3>2. CASE buf = <<>>
      BY <1>1, <2>1, <3>2 DEF Erase
    <3> QED BY <3>1, <3>2
  <2>2. ASSUME NEW c \in Chars, Type(c) PROVE buf' \in Seq(Chars) /\ Len(buf') < MAX
    <3>1. CASE Len(buf) < MAX - 1
      BY <1>1, <2>2, <3>1 DEF Type
    <3>2. CASE ~(Len(buf) < MAX - 1)
      BY <1>1, <2>2, <3>2 DEF Type
    <3> QED BY <3>1, <3>2
  <2> QED BY <2>1, <2>2
<1>3. UNCHANGED <<pc, history, hist_pos, entered, depth>> /\ recalled' = FALSE
  BY DEF Erase, Type
<1> QED BY <1>2, <1>3 DEF RecInv, AtDepth, hist_count

\* A line that is not empty goes to the history, and the next prompt looks
\* for it there.
LEMMA EnterKeeps ==
  ASSUME RecInv, Enter \/ \E s : shell_exec_line(s)
  PROVE  RecInv'
<1>1. MAX \in Nat \ {0} /\ buf \in Seq(Chars) /\ Len(buf) < MAX
  BY ReadlineAssumption DEF RecInv
<1>2. IsEnd(history, entered) /\ Len(history) \in Nat
  BY DEF RecInv, IsEnd
<1>3. ASSUME NEW s, NewPrompt(s), hist_pos' = hist_count, UNCHANGED <<history, entered>>
      PROVE  RecInv'
  <2>1. buf' = <<>> /\ depth' = 0 /\ recalled' = FALSE
    BY <1>3 DEF NewPrompt
  <2>2. AtDepth'
    BY <1>2, <1>3, <2>1 DEF AtDepth, hist_count
  <2> QED BY <1>1, <1>2, <1>3, <2>1, <2>2 DEF RecInv
<1>4. CASE Enter
  <2>1. CASE buf = <<>>
    BY <1>3, <1>4, <2>1 DEF Enter
  <2>2. CASE buf # <<>>
    <3>1. /\ history' = Remember(history, buf) /\ entered' = Append(entered, buf)
          /\ pc' = "exec" /\ UNCHANGED buf
      BY <1>4, <2>2 DEF Enter
    <3>2. buf \in Line
      BY <1>1, <2>2 DEF Line
    <3>3. IsEnd(history', entered')
      BY <1>2, <3>1, <3>2, RememberKeepsEnd
    <3> QED BY <1>1, <3>1, <3>3 DEF RecInv
  <2> QED BY <2>1, <2>2
<1>5. CASE \E s : shell_exec_line(s)
  BY <1>3, <1>5 DEF shell_exec_line
<1> QED BY <1>4, <1>5

\* Every step keeps the end of the lines entered and the place in it.
LEMMA RecInvStep == RecInv /\ [Next]_vars => RecInv'
<1> SUFFICES ASSUME RecInv, [Next]_vars PROVE RecInv'
  OBVIOUS
<1>1. CASE \E c \in Chars : Type(c)
  BY <1>1, EditKeeps
<1>2. CASE Erase
  BY <1>2, EditKeeps
<1>3. CASE KeyUp
  BY <1>3, KeyUpKeeps
<1>4. CASE KeyDown
  BY <1>4, KeyDownKeeps
<1>5. CASE OtherKey
  BY <1>5 DEF OtherKey, vars, watch, RecInv, AtDepth, hist_count
<1>6. CASE Enter
  BY <1>6, EnterKeeps
<1>7. CASE EndOfInput
  <2>1. UNCHANGED <<buf, history, entered>> /\ pc' = "done"
    BY <1>7 DEF EndOfInput, watch
  <2> QED BY <2>1 DEF RecInv
<1>8. CASE \/ \E out \in Outputs : shell_exec_line(vga_print(screen, out))
           \/ shell_exec_line(vga_clear)
  <2>1. \E s : shell_exec_line(s)
    BY <1>8
  <2> QED BY <2>1, EnterKeeps
<1>9. CASE UNCHANGED vars
  BY <1>9 DEF vars, watch, RecInv, AtDepth, hist_count
<1> QED BY <1>1, <1>2, <1>3, <1>4, <1>5, <1>6, <1>7, <1>8, <1>9 DEF Next, sh_readline

\* Recalling a line gives the one entered so many lines ago, of however many
\* (src/shell.c, sh_readline, and the shift of a full history in shell_run).
THEOREM RecallIsWhatWasEntered == Spec => []RecallsEntered
<1>1. RecInv => RecallsEntered
  BY DEF RecInv, AtDepth, RecallsEntered
<1> QED BY <1>1, RecInvInit, RecInvStep, PTL DEF Spec

-----------------------------------------------------------------------------
(* The screen.                                                             *)

\* A screen with nothing at the cursor nor after it.
ScreenType == [cells : [0..Size-1 -> Glyphs],
               row : 0..VGA_HEIGHT-1, col : 0..VGA_WIDTH-1]
Clean(s)   == \A i \in 0..Size-1 : i >= Here(s) => s.cells[i] = Blank
Screens    == {s \in ScreenType : Clean(s)}

\* The cells before the cursor are the end of the text, as far as they go.
Shows(s, text) ==
  \A k \in Nat : k < Len(text) /\ k < Here(s) =>
                   s.cells[Here(s) - 1 - k] = text[Len(text) - k]

\* The cell of the cursor lies on the screen, and rows follow each other.
LEMMA CursorCell ==
  ASSUME NEW r \in 0..VGA_HEIGHT-1, NEW c \in 0..VGA_WIDTH-1
  PROVE  /\ VGA_WIDTH \in Nat \ {0} /\ VGA_HEIGHT \in Nat \ {0}
         /\ r * VGA_WIDTH \in Nat /\ (r + 1) * VGA_WIDTH = r * VGA_WIDTH + VGA_WIDTH
         /\ Size \in Nat /\ r * VGA_WIDTH + VGA_WIDTH <= Size
         /\ r + 1 >= VGA_HEIGHT => r * VGA_WIDTH + VGA_WIDTH = Size
<1>1. VGA_WIDTH \in Nat \ {0} /\ VGA_HEIGHT \in Nat \ {0} /\ r \in Nat
  BY VgaAssumption
<1>2. Size \in Nat /\ r * VGA_WIDTH \in Nat
      /\ (r + 1) * VGA_WIDTH = r * VGA_WIDTH + VGA_WIDTH
  BY <1>1 DEF Size
<1>3. CASE r + 1 >= VGA_HEIGHT
  <2>1. r + 1 = VGA_HEIGHT
    BY <1>1, <1>3
  <2>2. (r + 1) * VGA_WIDTH = Size
    BY <1>1, <2>1 DEF Size
  <2> QED BY <1>1, <1>2, <2>1, <2>2
<1>4. CASE ~(r + 1 >= VGA_HEIGHT)
  <2>1. PICK d \in Nat : VGA_HEIGHT = r + 1 + d
    <3>1. VGA_HEIGHT - (r + 1) \in Nat
      BY <1>1, <1>4
    <3> QED BY <1>1, <3>1
  <2>2. Size = (r + 1) * VGA_WIDTH + d * VGA_WIDTH /\ d * VGA_WIDTH \in Nat
    BY <1>1, <2>1 DEF Size
  <2> QED BY <1>1, <1>2, <1>4, <2>2
<1> QED BY <1>3, <1>4

\* A screen and its parts.
LEMMA ScreenParts ==
  ASSUME NEW s \in ScreenType
  PROVE  /\ s = [cells |-> s.cells, row |-> s.row, col |-> s.col]
         /\ s.cells \in [0..Size-1 -> Glyphs]
         /\ s.row \in 0..VGA_HEIGHT-1 /\ s.col \in 0..VGA_WIDTH-1
         /\ s.row \in Nat /\ s.col \in Nat /\ s.row < VGA_HEIGHT /\ s.col < VGA_WIDTH
         /\ VGA_WIDTH \in Nat \ {0} /\ VGA_HEIGHT \in Nat \ {0} /\ Size \in Nat
         /\ s.row * VGA_WIDTH \in Nat /\ Here(s) \in 0..Size-1
         /\ s.row * VGA_WIDTH <= Here(s) /\ Here(s) < s.row * VGA_WIDTH + VGA_WIDTH
<1>1. /\ s = [cells |-> s.cells, row |-> s.row, col |-> s.col]
      /\ s.cells \in [0..Size-1 -> Glyphs]
      /\ s.row \in 0..VGA_HEIGHT-1 /\ s.col \in 0..VGA_WIDTH-1
  BY DEF ScreenType
<1>2. /\ VGA_WIDTH \in Nat \ {0} /\ VGA_HEIGHT \in Nat \ {0} /\ Size \in Nat
      /\ s.row * VGA_WIDTH \in Nat /\ s.row * VGA_WIDTH + VGA_WIDTH <= Size
  BY <1>1, CursorCell
<1>3. s.row \in Nat /\ s.col \in Nat /\ s.row < VGA_HEIGHT /\ s.col < VGA_WIDTH
  BY <1>1, <1>2
<1>4. Here(s) = s.row * VGA_WIDTH + s.col
  BY DEF Here
<1> QED BY <1>1, <1>2, <1>3, <1>4

\* The next row: with it blank below, everything stays before the cursor, moved
\* up by a row when the screen scrolls.
LEMMA NextRowIs ==
  ASSUME NEW s \in ScreenType, NEW h, h = s.row * VGA_WIDTH + VGA_WIDTH,
         \A i \in 0..Size-1 : i >= h => s.cells[i] = Blank
  PROVE  /\ NextRow(s) \in Screens /\ Here(NextRow(s)) <= h
         /\ \A k \in 1..Here(NextRow(s)) :
              NextRow(s).cells[Here(NextRow(s)) - k] = s.cells[h - k]
<1> DEFINE t == NextRow(s)
           R == s.row * VGA_WIDTH
           W == VGA_WIDTH
<1> SUFFICES /\ t \in Screens /\ Here(t) <= h
             /\ \A k \in 1..Here(t) : t.cells[Here(t) - k] = s.cells[h - k]
  BY Zenon
<1>0. h = R + W
  OBVIOUS
<1>1. /\ s = [cells |-> s.cells, row |-> s.row, col |-> s.col]
      /\ s.cells \in [0..Size-1 -> Glyphs] /\ s.row \in 0..VGA_HEIGHT-1
      /\ s.row \in Nat /\ W \in Nat \ {0} /\ VGA_HEIGHT \in Nat \ {0}
      /\ Size \in Nat /\ R \in Nat /\ s.row < VGA_HEIGHT
  BY ScreenParts
<1>2. 0 \in 0..W-1
  BY <1>1
<1>3. (s.row + 1) * W = h /\ h <= Size /\ (s.row + 1 >= VGA_HEIGHT => h = Size)
  BY <1>0, <1>1, <1>2, CursorCell
<1>4. CASE s.row + 1 >= VGA_HEIGHT
  <2> DEFINE c == [i \in 0..Size-1 |-> IF i < Size - W THEN s.cells[i + W] ELSE Blank]
  <2>1. t = [cells |-> c, row |-> s.row, col |-> 0]
    <3>1. scroll(s) = [cells |-> c, row |-> s.row, col |-> s.col]
      <4>1. scroll(s) = [s EXCEPT !.cells = c]
        BY Zenon DEF scroll
      <4> HIDE DEF c
      <4> QED BY <1>1, <4>1
    <3> HIDE DEF c
    <3> QED BY <1>4, <3>1 DEF NextRow
  <2>2. c \in [0..Size-1 -> Glyphs]
    <3>1. ASSUME NEW i \in 0..Size-1, i < Size - W PROVE s.cells[i + W] \in Glyphs
      <4>1. Size \in Nat /\ W \in Nat
        BY <1>1
      <4> HIDE DEF W
      <4>2. i + W \in 0..Size-1
        BY <3>1, <4>1
      <4> QED BY <1>1, <4>2
    <3>2. Blank \in Glyphs
      BY ReadlineAssumption
    <3> QED BY <3>1, <3>2
  <2>3. Here(t) = R /\ R = Size - W
    <3>1. t.row = s.row /\ t.col = 0
      BY <2>1
    <3> HIDE DEF t, c
    <3> QED BY <1>1, <1>0, <1>3, <1>4, <3>1 DEF Here
  <2>4. \A i \in 0..Size-1 : i >= R => c[i] = Blank
    BY <1>0, <1>1, <2>3
  <2>5. \A k \in 1..R : c[R - k] = s.cells[h - k]
    <3> SUFFICES ASSUME NEW k \in 1..R PROVE c[R - k] = s.cells[h - k]
      OBVIOUS
    <3>1. R - k \in 0..Size-1 /\ R - k < Size - W /\ (R - k) + W = h - k
      <4> HIDE DEF c, t, R, W
      <4> QED BY <1>0, <1>1, <2>3
    <3> QED BY <3>1
  <2>6. t \in ScreenType /\ t.cells = c
    <3> HIDE DEF c, t
    <3> QED BY <1>1, <1>2, <2>1, <2>2 DEF ScreenType
  <2> HIDE DEF c, t
  <2>7. Clean(t)
    BY <2>3, <2>4, <2>6 DEF Clean
  <2>8. Here(t) <= h
    <3> HIDE DEF c, t
    <3> QED BY <1>0, <1>1, <2>3
  <2> QED BY <2>3, <2>5, <2>6, <2>7, <2>8 DEF Screens
<1>5. CASE ~(s.row + 1 >= VGA_HEIGHT)
  <2>1. t = [cells |-> s.cells, row |-> s.row + 1, col |-> 0]
    BY <1>1, <1>5 DEF NextRow
  <2>2. t \in ScreenType /\ t.cells = s.cells
    <3>1. s.row + 1 \in 0..VGA_HEIGHT-1
      BY <1>1, <1>5
    <3> HIDE DEF t
    <3> QED BY <1>1, <1>2, <2>1, <3>1 DEF ScreenType
  <2>3. Here(t) = h
    <3>1. t.row = s.row + 1 /\ t.col = 0
      BY <2>1
    <3>2. Here(t) = (s.row + 1) * W + 0
      BY <3>1 DEF Here
    <3> HIDE DEF t
    <3> QED BY <1>0, <1>1, <1>3, <3>2
  <2> HIDE DEF t
  <2>4. Clean(t)
    BY <2>2, <2>3 DEF Clean
  <2> QED BY <1>1, <2>2, <2>3, <2>4 DEF Screens
<1> QED BY <1>4, <1>5

\* A character of the screen is put at the cursor, and what was before it stays
\* before it.  Within a row the cursor moves by one column.
LEMMA PutForward ==
  ASSUME NEW s \in Screens, NEW c \in Glyphs
  PROVE  LET t == Forward(Put(s, c))
         IN  /\ t \in Screens
             /\ Here(t) <= Here(s) + 1
             /\ Here(t) >= 1 => t.cells[Here(t) - 1] = c
             /\ \A k \in 2..Here(t) : t.cells[Here(t) - k] = s.cells[(Here(s) + 1) - k]
             /\ s.col + 1 < VGA_WIDTH =>
                  t = [cells |-> [s.cells EXCEPT ![Here(s)] = c],
                       row |-> s.row, col |-> s.col + 1]
<1> DEFINE h == Here(s)
           W == VGA_WIDTH
           f == [s.cells EXCEPT ![h] = c]
           p == Put(s, c)
           t == Forward(p)
<1> SUFFICES /\ t \in Screens
             /\ Here(t) <= h + 1
             /\ Here(t) >= 1 => t.cells[Here(t) - 1] = c
             /\ \A k \in 2..Here(t) : t.cells[Here(t) - k] = s.cells[(h + 1) - k]
             /\ s.col + 1 < W => t = [cells |-> f, row |-> s.row, col |-> s.col + 1]
  OBVIOUS
<1>1. s \in ScreenType /\ Clean(s)
  BY DEF Screens
<1>2. /\ s = [cells |-> s.cells, row |-> s.row, col |-> s.col]
      /\ s.cells \in [0..Size-1 -> Glyphs] /\ s.row \in 0..VGA_HEIGHT-1
      /\ s.col \in 0..W-1 /\ s.col \in Nat /\ W \in Nat \ {0} /\ s.col < W
      /\ Size \in Nat /\ s.row * W \in Nat /\ h \in 0..Size-1
  BY <1>1, ScreenParts
<1>3. h = s.row * W + s.col
  BY DEF Here
<1>4. /\ f \in [0..Size-1 -> Glyphs] /\ f[h] = c
      /\ \A i \in 0..Size-1 : i # h => f[i] = s.cells[i]
  BY <1>2
<1>5. p = [cells |-> f, row |-> s.row, col |-> s.col]
  <2>1. p = [s EXCEPT !.cells = [s.cells EXCEPT ![h] = c]]
    BY <1>2 DEF Put
  <2> HIDE DEF f, h
  <2>2. p = [s EXCEPT !.cells = f]
    BY <2>1 DEF f
  <2> HIDE DEF p
  <2> QED BY <1>2, <2>2
<1>6. p \in ScreenType /\ p.cells = f /\ p.row = s.row /\ p.col = s.col
  <2> HIDE DEF p, f
  <2> QED BY <1>2, <1>4, <1>5 DEF ScreenType
<1>7. \A i \in 0..Size-1 : i > h => f[i] = Blank
  BY <1>1, <1>2, <1>4 DEF Clean
<1> HIDE DEF p, f, h
<1>8. CASE s.col + 1 >= W
  <2>1. t = NextRow(p)
    BY <1>6, <1>8 DEF Forward
  <2>2. h + 1 = s.row * W + W
    BY <1>2, <1>3, <1>8
  <2>3. \A i \in 0..Size-1 : i >= h + 1 => p.cells[i] = Blank
    BY <1>2, <1>6, <1>7
  <2>4. /\ NextRow(p) \in Screens /\ Here(NextRow(p)) <= h + 1
        /\ \A k \in 1..Here(NextRow(p)) :
             NextRow(p).cells[Here(NextRow(p)) - k] = p.cells[(h + 1) - k]
    <3>1. p \in ScreenType /\ h + 1 = p.row * W + W
      BY <1>6, <2>2
    <3> HIDE DEF t
    <3> QED BY <2>3, <3>1, NextRowIs
  <2> HIDE DEF t
  <2>5. /\ t \in Screens /\ Here(t) <= h + 1 /\ Here(t) \in Nat
        /\ \A k \in 1..Here(t) : t.cells[Here(t) - k] = f[(h + 1) - k]
    <3>1. Here(NextRow(p)) \in Nat
      <4>1. NextRow(p) \in ScreenType
        BY <2>4 DEF Screens
      <4> QED BY <4>1, ScreenParts
    <3> QED BY <1>6, <2>1, <2>4, <3>1
  <2>6. Here(t) >= 1 => t.cells[Here(t) - 1] = c
    <3> SUFFICES ASSUME Here(t) >= 1 PROVE t.cells[Here(t) - 1] = c
      OBVIOUS
    <3>1. 1 \in 1..Here(t) /\ (h + 1) - 1 = h
      BY <1>2, <2>5
    <3> QED BY <1>4, <2>5, <3>1
  <2>7. ASSUME NEW k \in 2..Here(t) PROVE t.cells[Here(t) - k] = s.cells[(h + 1) - k]
    <3>1. k \in 1..Here(t) /\ (h + 1) - k \in 0..Size-1 /\ (h + 1) - k # h
      BY <1>2, <2>5
    <3> QED BY <1>4, <2>5, <3>1
  <2>8. ~(s.col + 1 < W)
    BY <1>2, <1>8
  <2> QED BY <2>5, <2>6, <2>7, <2>8
<1>9. CASE ~(s.col + 1 >= W)
  <2>1. t = [cells |-> f, row |-> s.row, col |-> s.col + 1]
    <3>1. t = [p EXCEPT !.col = s.col + 1]
      BY <1>6, <1>9 DEF Forward
    <3> HIDE DEF t
    <3> QED BY <1>5, <3>1
  <2>2. t \in ScreenType /\ t.cells = f /\ t.row = s.row /\ t.col = s.col + 1
    <3>1. s.col + 1 \in 0..W-1
      BY <1>2, <1>9
    <3> HIDE DEF t
    <3> QED BY <1>2, <1>4, <2>1, <3>1 DEF ScreenType
  <2> HIDE DEF t
  <2>3. Here(t) = h + 1
    BY <1>2, <1>3, <2>2 DEF Here
  <2>4. Clean(t)
    BY <1>2, <1>7, <2>2, <2>3 DEF Clean
  <2>5. Here(t) >= 1 => t.cells[Here(t) - 1] = c
    <3>1. Here(t) - 1 = h
      BY <1>2, <2>3
    <3> QED BY <1>4, <2>2, <3>1
  <2>6. ASSUME NEW k \in 2..Here(t) PROVE t.cells[Here(t) - k] = s.cells[(h + 1) - k]
    <3>1. Here(t) - k = (h + 1) - k /\ (h + 1) - k \in 0..Size-1 /\ (h + 1) - k # h
      BY <1>2, <2>3
    <3> QED BY <1>4, <2>2, <3>1
  <2> QED BY <1>2, <2>1, <2>2, <2>3, <2>4, <2>5, <2>6 DEF Screens
<1> QED BY <1>8, <1>9

\* A backspace within the row blanks the cell before the cursor and stays on it.
LEMMA BackIs ==
  ASSUME NEW s \in Screens
  PROVE  /\ Back(s) \in Screens
         /\ s.col > 0 => Back(s) = [cells |-> [s.cells EXCEPT ![Here(s) - 1] = Blank],
                                    row |-> s.row, col |-> s.col - 1]
<1> DEFINE h == Here(s) - 1
           f == [s.cells EXCEPT ![h] = Blank]
           t == [cells |-> f, row |-> s.row, col |-> s.col - 1]
<1>1. s \in ScreenType /\ Clean(s)
  BY DEF Screens
<1>2. /\ s = [cells |-> s.cells, row |-> s.row, col |-> s.col]
      /\ s.cells \in [0..Size-1 -> Glyphs] /\ s.row \in 0..VGA_HEIGHT-1
      /\ s.col \in 0..VGA_WIDTH-1 /\ s.col \in Nat /\ VGA_WIDTH \in Nat \ {0}
      /\ Size \in Nat /\ s.row * VGA_WIDTH \in Nat /\ Here(s) \in 0..Size-1
      /\ Here(s) = s.row * VGA_WIDTH + s.col
  BY <1>1, ScreenParts DEF Here
<1>3. CASE s.col = 0
  BY <1>3 DEF Back
<1>4. CASE s.col # 0
  <2>1. s.col > 0 /\ h \in 0..Size-1 /\ s.col - 1 \in 0..VGA_WIDTH-1
    BY <1>2, <1>4
  <2>2. /\ f \in [0..Size-1 -> Glyphs] /\ f[h] = Blank
        /\ \A i \in 0..Size-1 : i # h => f[i] = s.cells[i]
    <3>1. Blank \in Glyphs
      BY ReadlineAssumption
    <3> QED BY <1>2, <2>1, <3>1
  <2>3. Back(s) = t
    <3> DEFINE u == [cells |-> s.cells, row |-> s.row, col |-> s.col - 1]
    <3>1. [s EXCEPT !.col = @ - 1] = u
      BY <1>2
    <3>2. Here(u) = h
      <4>1. Here(u) = s.row * VGA_WIDTH + (s.col - 1)
        BY DEF Here
      <4> QED BY <1>2, <4>1
    <3>3. Back(s) = Put(u, Blank)
      BY <1>4, <3>1, Zenon DEF Back
    <3>4. Put(u, Blank) = [u EXCEPT !.cells = [s.cells EXCEPT ![Here(u)] = Blank]]
      BY DEF Put
    <3> QED BY <3>2, <3>3, <3>4
  <2> HIDE DEF f
  <2>4. t \in ScreenType /\ t.cells = f
    BY <1>2, <2>1, <2>2 DEF ScreenType
  <2>5. Here(t) = h
    <3>1. Here(t) = s.row * VGA_WIDTH + (s.col - 1)
      BY DEF Here
    <3> QED BY <1>2, <3>1
  <2> HIDE DEF t
  <2>6. Clean(t)
    <3> SUFFICES ASSUME NEW i \in 0..Size-1, i >= h PROVE f[i] = Blank
      BY <2>4, <2>5 DEF Clean
    <3>1. i = h \/ i >= Here(s)
      BY <1>2, <2>1
    <3> QED BY <1>1, <2>2, <3>1 DEF Clean
  <2> QED BY <2>3, <2>4, <2>6 DEF Screens, t, f
<1> QED BY <1>3, <1>4

\* A tab leaves the screen clean after the cursor.
LEMMA TabClean ==
  ASSUME NEW s \in Screens
  PROVE  Tab(s) \in Screens
<1> DEFINE W == VGA_WIDTH
           to == s.col + 4 - (s.col % 4)
           end == IF to < W THEN to ELSE W
           f == [i \in 0..Size-1 |-> IF i \in Here(s)..(Here(s) + end - s.col - 1)
                                     THEN Blank ELSE s.cells[i]]
           t == [cells |-> f, row |-> s.row, col |-> s.col]
<1>1. s \in ScreenType /\ Clean(s)
  BY DEF Screens
<1>2. /\ s = [cells |-> s.cells, row |-> s.row, col |-> s.col]
      /\ s.cells \in [0..Size-1 -> Glyphs] /\ s.row \in 0..VGA_HEIGHT-1
      /\ s.col \in 0..W-1 /\ s.col \in Nat /\ W \in Nat \ {0}
      /\ Size \in Nat /\ s.row * W \in Nat /\ Here(s) \in 0..Size-1
      /\ Here(s) = s.row * W + s.col
  BY <1>1, ScreenParts DEF Here
<1>3. end \in 0..W /\ end >= s.col
  BY <1>2
<1> HIDE DEF to
<1>4. f \in [0..Size-1 -> Glyphs]
  <2>1. Blank \in Glyphs
    BY ReadlineAssumption
  <2> HIDE DEF end
  <2> QED BY <1>2, <2>1
<1>5. \A i \in 0..Size-1 : i >= Here(s) => f[i] = Blank
  <2> HIDE DEF end
  <2> QED BY <1>1 DEF Clean
<1>6. Tab(s) = IF end = W THEN NextRow(t) ELSE [t EXCEPT !.col = end]
  <2>1. [s EXCEPT !.cells = [i \in 0..Size-1 |->
           IF i \in Here(s)..(Here(s) + end - s.col - 1) THEN Blank ELSE @[i]]] = t
    <3>1. [s EXCEPT !.cells = [i \in 0..Size-1 |->
             IF i \in Here(s)..(Here(s) + end - s.col - 1) THEN Blank ELSE @[i]]]
            = [s EXCEPT !.cells = f]
      BY Zenon
    <3> HIDE DEF f
    <3>2. [s EXCEPT !.cells = f] = t
      BY <1>2
    <3> HIDE DEF t
    <3> QED BY <3>1, <3>2, Zenon
  <2> QED BY <2>1, Zenon DEF Tab, to
<1> HIDE DEF f
<1>7. t \in ScreenType /\ t.cells = f /\ t.row = s.row
  BY <1>2, <1>4 DEF ScreenType
<1>8. CASE end = W
  <2>1. \A i \in 0..Size-1 : i >= t.row * W + W => t.cells[i] = Blank
    <3> HIDE DEF t
    <3> QED BY <1>2, <1>5, <1>7
  <2> HIDE DEF t, end
  <2>2. NextRow(t) \in Screens
    BY <1>7, <2>1, NextRowIs
  <2> QED BY <1>6, <1>8, <2>2
<1>9. CASE end # W
  <2> HIDE DEF end
  <2> DEFINE u == [cells |-> f, row |-> s.row, col |-> end]
  <2>1. Tab(s) = u
    BY <1>6, <1>9
  <2>2. end \in 0..W-1
    BY <1>2, <1>3, <1>9
  <2>3. u \in ScreenType /\ u.cells = f
    BY <1>2, <1>4, <2>2 DEF ScreenType
  <2>4. Here(u) >= Here(s) /\ Here(u) \in Nat
    <3>1. Here(u) = s.row * W + end
      BY DEF Here
    <3> QED BY <1>2, <1>3, <3>1
  <2> HIDE DEF u
  <2>5. Clean(u)
    BY <1>2, <1>5, <2>3, <2>4 DEF Clean
  <2> QED BY <2>1, <2>3, <2>5 DEF Screens
<1> QED BY <1>8, <1>9

\* The characters that leave nothing after the cursor: all but the return.
Codes == Glyphs \union {"\n", "\t", BS}

\* What vga_putchar does with a character of the screen and with a backspace,
\* and that none of these leaves anything after the cursor.
LEMMA PutcharIs ==
  ASSUME NEW s \in Screens
  PROVE  /\ \A c \in Glyphs : vga_putchar(s, c) = Forward(Put(s, c))
         /\ vga_putchar(s, BS) = Back(s)
         /\ \A c \in Codes : vga_putchar(s, c) \in Screens
<1>1. ASSUME NEW c \in Glyphs PROVE vga_putchar(s, c) = Forward(Put(s, c))
  <2>1. c # "\n" /\ c # "\t" /\ c # "\r" /\ c # BS
    BY ReadlineAssumption
  <2> QED BY <2>1, Zenon DEF vga_putchar
<1>2. vga_putchar(s, BS) = Back(s)
  <2>1. BS # "\n" /\ BS # "\t" /\ BS # "\r"
    BY DEF BS
  <2> QED BY <2>1 DEF vga_putchar
<1>3. vga_putchar(s, "\n") \in Screens
  <2>1. vga_putchar(s, "\n") = NextRow(s)
    <3>1. "\n" # "\t" /\ "\n" # "\r" /\ "\n" # BS
      BY DEF BS
    <3> QED BY <3>1 DEF vga_putchar
  <2> DEFINE h == s.row * VGA_WIDTH + VGA_WIDTH
  <2>2. s \in ScreenType /\ Clean(s)
    BY DEF Screens
  <2>3. h \in Nat /\ Here(s) < h /\ Here(s) \in Nat /\ Size \in Nat
    BY <2>2, ScreenParts
  <2>4. h = s.row * VGA_WIDTH + VGA_WIDTH
    OBVIOUS
  <2> HIDE DEF h
  <2>5. \A i \in 0..Size-1 : i >= h => s.cells[i] = Blank
    BY <2>2, <2>3 DEF Clean
  <2>6. NextRow(s) \in Screens
    BY <2>2, <2>4, <2>5, NextRowIs
  <2> QED BY <2>1, <2>6
<1>4. vga_putchar(s, "\t") \in Screens
  <2>1. vga_putchar(s, "\t") = Tab(s)
    <3>1. "\t" # "\n" /\ "\t" # "\r" /\ "\t" # BS
      BY DEF BS
    <3> QED BY <3>1 DEF vga_putchar
  <2> QED BY <2>1, TabClean
<1>5. vga_putchar(s, BS) \in Screens
  BY <1>2, BackIs
<1>6. ASSUME NEW c \in Glyphs PROVE vga_putchar(s, c) \in Screens
  <2>1. Forward(Put(s, c)) \in Screens
    BY PutForward, Zenon
  <2> QED BY <1>1, <2>1
<1> QED BY <1>1, <1>2, <1>3, <1>4, <1>5, <1>6 DEF Codes

\* One screen for every character printed.
Drawn(s, text, f) ==
  /\ \A i \in 0..Len(text) : f[i] \in Screens
  /\ f[0] = s
  /\ \A i \in 1..Len(text) : f[i] = vga_putchar(f[i-1], text[i])

\* vga_print puts the characters one after the other.
LEMMA PrintDraws ==
  ASSUME NEW s \in Screens, NEW text \in Seq(Codes)
  PROVE  \E f : Drawn(s, text, f) /\ vga_print(s, text) = f[Len(text)]
<1> DEFINE D == Screens
           L == Len(text)
           st == [x \in D \X (1..L) |-> vga_putchar(x[1], text[x[2]])]
           drawn == CHOOSE g : g = [i \in 0..L |->
                      IF i = 0 THEN s ELSE vga_putchar(g[i-1], text[i])]
<1>1. L \in Nat /\ \A i \in 1..L : text[i] \in Codes
  OBVIOUS
<1>2. st \in [D \X (1..L) -> D]
  <2>1. \A x \in D \X (1..L) : vga_putchar(x[1], text[x[2]]) \in D
    <3> SUFFICES ASSUME NEW x \in D \X (1..L)
                 PROVE  vga_putchar(x[1], text[x[2]]) \in D
      OBVIOUS
    <3>1. x[1] \in D /\ text[x[2]] \in Codes
      <4> HIDE DEF D, L
      <4> QED BY <1>1
    <3> QED BY <3>1, PutcharIs
  <2> HIDE DEF D, L
  <2> QED BY <2>1
<1>3. PICK g \in [0..L -> D] : g[0] = s /\ \A i \in 1..L : g[i] = st[<<g[i-1], i>>]
  <2>1. s \in D
    OBVIOUS
  <2> HIDE DEF D, L, st
  <2>2. Walks(D, s, L, st) # {}
    BY <1>1, <1>2, <2>1, Iterate
  <2> QED BY <2>2 DEF Walks
<1>4. \A i \in 1..L : g[i] = vga_putchar(g[i-1], text[i])
  <2> SUFFICES ASSUME NEW i \in 1..L PROVE g[i] = vga_putchar(g[i-1], text[i])
    OBVIOUS
  <2> HIDE DEF D, L
  <2>1. i - 1 \in 0..L
    BY <1>1
  <2>2. <<g[i-1], i>> \in D \X (1..L)
    BY <2>1
  <2> QED BY <1>3, <2>2
<1> HIDE DEF st
<1>5. g = [i \in 0..L |-> IF i = 0 THEN s ELSE vga_putchar(g[i-1], text[i])]
  <2> HIDE DEF D, L
  <2>1. \A i \in 0..L : i # 0 => i \in 1..L
    BY <1>1
  <2>2. \A i \in 0..L : g[i] = IF i = 0 THEN s ELSE vga_putchar(g[i-1], text[i])
    BY <1>3, <1>4, <2>1
  <2> QED BY <2>2
<1>6. drawn = [i \in 0..L |-> IF i = 0 THEN s ELSE vga_putchar(drawn[i-1], text[i])]
  BY <1>5
<1>7. vga_print(s, text) = drawn[L]
  BY DEF vga_print
<1> HIDE DEF drawn, L, D
<1>8. 0 \in 0..L /\ \A i \in 1..L : i \in 0..L /\ i # 0
  BY <1>1
<1>9. drawn[0] = s /\ \A i \in 1..L : drawn[i] = vga_putchar(drawn[i-1], text[i])
  BY <1>6, <1>8
<1> DEFINE T == {i \in 0..L : drawn[i] \in Screens}
<1>10. 0 \in T
  BY <1>8, <1>9
<1>11. ASSUME NEW i \in 1..L, i - 1 \in T PROVE i \in T
  <2>1. drawn[i-1] \in Screens /\ text[i] \in Codes /\ i \in 0..L
    BY <1>1, <1>8, <1>11
  <2>2. vga_putchar(drawn[i-1], text[i]) \in Screens
    BY <2>1, PutcharIs
  <2> QED BY <1>9, <2>1, <2>2
<1>12. 0..L \subseteq T
  <2> HIDE DEF T
  <2> QED BY <1>1, <1>10, <1>11, InductTo
<1>13. Drawn(s, text, drawn)
  BY <1>9, <1>12 DEF Drawn, L
<1> QED BY <1>7, <1>13 DEF L

\* What is printed leaves nothing after the cursor.
LEMMA PrintClean ==
  ASSUME NEW s \in Screens, NEW text \in Seq(Codes)
  PROVE  vga_print(s, text) \in Screens
<1>1. PICK f : Drawn(s, text, f) /\ vga_print(s, text) = f[Len(text)]
  BY PrintDraws
<1>2. Len(text) \in 0..Len(text)
  OBVIOUS
<1> QED BY <1>1, <1>2 DEF Drawn

\* A character put on a screen that shows a text is the end of that text.
LEMMA ShowsPut ==
  ASSUME NEW s \in Screens, NEW text \in Seq(Glyphs), Shows(s, text), NEW c \in Glyphs
  PROVE  vga_putchar(s, c) \in Screens /\ Shows(vga_putchar(s, c), Append(text, c))
<1> DEFINE t == Forward(Put(s, c))
           a == Append(text, c)
<1>1. vga_putchar(s, c) = t
  BY PutcharIs
<1>2. t \in Screens
  BY PutForward
<1>3. Here(t) <= Here(s) + 1 /\ (Here(t) >= 1 => t.cells[Here(t) - 1] = c)
  BY PutForward
<1>4. \A k \in 2..Here(t) : t.cells[Here(t) - k] = s.cells[(Here(s) + 1) - k]
  BY PutForward
<1>5. Here(t) \in Nat /\ Here(s) \in Nat
  <2>1. s \in ScreenType /\ t \in ScreenType
    BY <1>2 DEF Screens
  <2> HIDE DEF t
  <2> QED BY <2>1, ScreenParts
<1>6. /\ Len(text) \in Nat /\ Len(a) = Len(text) + 1 /\ a[Len(text) + 1] = c
      /\ \A i \in 1..Len(text) : a[i] = text[i]
  OBVIOUS
<1> HIDE DEF t, a
<1>7. ASSUME NEW k \in Nat, k < Len(a), k < Here(t)
      PROVE  t.cells[Here(t) - 1 - k] = a[Len(a) - k]
  <2>1. CASE k = 0
    <3>1. Here(t) >= 1 /\ Here(t) - 1 - k = Here(t) - 1 /\ Len(a) - k = Len(text) + 1
      BY <1>5, <1>6, <1>7, <2>1
    <3> QED BY <1>3, <1>6, <3>1
  <2>2. CASE k # 0
    <3>1. /\ k + 1 \in 2..Here(t) /\ Here(t) - (k + 1) = Here(t) - 1 - k
          /\ (Here(s) + 1) - (k + 1) = Here(s) - 1 - (k - 1)
          /\ k - 1 \in Nat /\ k - 1 < Len(text) /\ k - 1 < Here(s)
          /\ Len(text) - (k - 1) = Len(a) - k /\ Len(a) - k \in 1..Len(text)
      <4> DEFINE m == Here(t)
                 h == Here(s)
                 l == Len(a)
      <4>1. m \in Nat /\ h \in Nat /\ m <= h + 1 /\ k \in Nat /\ k < m /\ k # 0
        BY <1>3, <1>5, <1>7, <2>2
      <4>2. l \in Nat /\ Len(text) \in Nat /\ l = Len(text) + 1 /\ k < l
        BY <1>6, <1>7
      <4> HIDE DEF m, h, l
      <4>3. /\ k + 1 \in 2..m /\ m - (k + 1) = m - 1 - k
            /\ (h + 1) - (k + 1) = h - 1 - (k - 1)
            /\ k - 1 \in Nat /\ k - 1 < h
        BY <4>1
      <4>4. k - 1 < Len(text) /\ Len(text) - (k - 1) = l - k /\ l - k \in 1..Len(text)
        BY <4>1, <4>2
      <4> QED BY <4>3, <4>4 DEF m, h, l
    <3>2. t.cells[Here(t) - 1 - k] = s.cells[Here(s) - 1 - (k - 1)]
      BY <1>4, <3>1
    <3>3. s.cells[Here(s) - 1 - (k - 1)] = text[Len(text) - (k - 1)]
      BY <3>1 DEF Shows
    <3> QED BY <1>6, <3>1, <3>2, <3>3
  <2> QED BY <2>1, <2>2
<1>8. Shows(t, a)
  BY <1>7 DEF Shows
<1> QED BY <1>1, <1>2, <1>8 DEF a

\* What is printed without codes stands after what the screen shows.
LEMMA PrintShows ==
  ASSUME NEW s \in Screens, NEW p \in Seq(Glyphs), Shows(s, p), NEW text \in Seq(Glyphs)
  PROVE  vga_print(s, text) \in Screens /\ Shows(vga_print(s, text), p \o text)
<1> DEFINE L == Len(text)
           q(i) == p \o SubSeq(text, 1, i)
<1>1. text \in Seq(Codes) /\ L \in Nat
  BY DEF Codes
<1>2. PICK f : Drawn(s, text, f) /\ vga_print(s, text) = f[L]
  BY <1>1, PrintDraws
<1>3. /\ \A i \in 0..L : f[i] \in Screens
      /\ f[0] = s /\ \A i \in 1..L : f[i] = vga_putchar(f[i-1], text[i])
  BY <1>2 DEF Drawn
<1> DEFINE T == {i \in 0..L : Shows(f[i], q(i))}
<1>4. 0 \in T
  <2>1. q(0) = p /\ 0 \in 0..L
    BY <1>1
  <2> HIDE DEF q, L
  <2> QED BY <1>3, <2>1
<1>5. ASSUME NEW i \in 1..L, i - 1 \in T PROVE i \in T
  <2>1. i \in 0..L /\ i - 1 \in 0..L /\ text[i] \in Glyphs
    BY <1>1
  <2>2. q(i-1) \in Seq(Glyphs) /\ q(i) = Append(q(i-1), text[i])
    <3>1. /\ SubSeq(text, 1, i-1) \in Seq(Glyphs)
          /\ SubSeq(text, 1, i) = Append(SubSeq(text, 1, i-1), text[i])
      BY <2>1
    <3> DEFINE u == SubSeq(text, 1, i-1)
    <3>2. u \in Seq(Glyphs) => p \o Append(u, text[i]) = Append(p \o u, text[i])
      <4> HIDE DEF u
      <4> QED BY <2>1
    <3> QED BY <3>1, <3>2
  <2>3. Shows(f[i-1], q(i-1)) /\ f[i-1] \in Screens /\ f[i] = vga_putchar(f[i-1], text[i])
    BY <1>3, <1>5, <2>1
  <2> HIDE DEF q
  <2>4. Shows(f[i], Append(q(i-1), text[i]))
    BY <2>1, <2>2, <2>3, ShowsPut
  <2> QED BY <2>1, <2>2, <2>4
<1>6. 0..L \subseteq T
  <2> HIDE DEF T, L
  <2> QED BY <1>1, <1>4, <1>5, InductTo
<1>7. L \in T /\ q(L) = p \o text
  BY <1>1, <1>6
<1> QED BY <1>2, <1>3, <1>7

\* A backspace, a blank and a backspace: the character before the cursor is gone.
Rub == <<BS, Blank, BS>>

\* One rubout in the row takes the cursor back by one and leaves what was before.
LEMMA RubOnce ==
  ASSUME NEW s \in Screens
  PROVE  /\ vga_print(s, Rub) \in Screens
         /\ s.col > 0 => /\ vga_print(s, Rub).row = s.row
                         /\ vga_print(s, Rub).col = s.col - 1
                         /\ \A j \in 0..Size-1 : j < Here(s) - 1 =>
                              vga_print(s, Rub).cells[j] = s.cells[j]
<1> DEFINE r == vga_print(s, Rub)
           b == Back(s)
           t == Forward(Put(b, Blank))
           h == Here(s)
<1>1. Rub \in Seq(Codes) /\ Len(Rub) = 3 /\ Rub[1] = BS /\ Rub[2] = Blank /\ Rub[3] = BS
  BY ReadlineAssumption DEF Rub, Codes
<1>2. r \in Screens
  BY <1>1, PrintClean
<1>3. b \in Screens /\ Blank \in Glyphs
  BY BackIs, ReadlineAssumption
<1>4. t \in Screens
  BY <1>3, PutForward
<1>5. r = Back(t)
  <2>1. PICK f : Drawn(s, Rub, f) /\ r = f[Len(Rub)]
    BY <1>1, PrintDraws
  <2>2. f[0] = s /\ \A i \in 1..3 : f[i] = vga_putchar(f[i-1], Rub[i])
    BY <1>1, <2>1 DEF Drawn
  <2> HIDE DEF b, t, r
  <2>3. f[1] = b
    <3>1. f[1] = vga_putchar(s, BS)
      BY <1>1, <2>2
    <3> QED BY <3>1, PutcharIs DEF b
  <2>4. f[2] = t
    <3>1. f[2] = vga_putchar(b, Blank)
      BY <1>1, <2>2, <2>3
    <3> QED BY <1>3, <3>1, PutcharIs DEF t
  <2>5. f[3] = Back(t)
    <3>1. f[3] = vga_putchar(t, BS)
      BY <1>1, <2>2, <2>4
    <3> QED BY <1>4, <3>1, PutcharIs
  <2> QED BY <1>1, <2>1, <2>5
<1>6. ASSUME s.col > 0
      PROVE  /\ r.row = s.row /\ r.col = s.col - 1
             /\ \A j \in 0..Size-1 : j < h - 1 => r.cells[j] = s.cells[j]
  <2> DEFINE u == h - 1
             f == [s.cells EXCEPT ![u] = Blank]
             g == [f EXCEPT ![u] = Blank]
             v == (s.col - 1) + 1
  <2>1. s \in ScreenType
    BY DEF Screens
  <2>2. /\ s.cells \in [0..Size-1 -> Glyphs] /\ s.row \in 0..VGA_HEIGHT-1
        /\ s.col \in 0..VGA_WIDTH-1 /\ s.col \in Nat /\ VGA_WIDTH \in Nat
        /\ Size \in Nat /\ s.row * VGA_WIDTH \in Nat /\ h \in 0..Size-1
        /\ h = s.row * VGA_WIDTH + s.col
    <3>1. h = s.row * VGA_WIDTH + s.col
      BY DEF Here
    <3> QED BY <2>1, <3>1, ScreenParts
  <2>3. b = [cells |-> f, row |-> s.row, col |-> s.col - 1]
    BY <1>6, BackIs
  <2>4. b.cells = f /\ b.row = s.row /\ b.col = s.col - 1
    <3> HIDE DEF b, f
    <3> QED BY <2>3
  <2>5. Here(b) = u
    <3> DEFINE R == s.row * VGA_WIDTH
    <3>1. Here(b) = R + (s.col - 1)
      <4> HIDE DEF b
      <4> QED BY <2>4 DEF Here
    <3>2. R \in Nat /\ s.col \in Nat /\ h = R + s.col
      BY <2>2
    <3> HIDE DEF b, R, h
    <3> QED BY <3>1, <3>2
  <2>6. t = [cells |-> [b.cells EXCEPT ![Here(b)] = Blank], row |-> b.row, col |-> b.col + 1]
    <3>1. b.col + 1 < VGA_WIDTH
      <4> HIDE DEF b
      <4> QED BY <2>2, <2>4
    <3> HIDE DEF b
    <3> QED BY <1>3, <3>1, PutForward
  <2>7. t.cells = g /\ t.row = s.row /\ t.col = s.col
    <3>1. t = [cells |-> g, row |-> s.row, col |-> v]
      <4> HIDE DEF b, t, f
      <4> QED BY <2>4, <2>5, <2>6
    <3>2. v = s.col
      BY <2>2
    <3> HIDE DEF t, g, v
    <3> QED BY <3>1, <3>2
  <2>8. Here(t) = h
    <3> HIDE DEF t
    <3> QED BY <2>2, <2>7 DEF Here
  <2>9. Back(t) = [cells |-> [t.cells EXCEPT ![Here(t) - 1] = Blank],
                   row |-> t.row, col |-> t.col - 1]
    <3>1. t.col > 0
      BY <1>6, <2>7
    <3> HIDE DEF t
    <3> QED BY <1>4, <3>1, BackIs
  <2>10. r.cells = [g EXCEPT ![u] = Blank] /\ r.row = s.row /\ r.col = s.col - 1
    <3> HIDE DEF r, t, g
    <3> QED BY <1>5, <2>7, <2>8, <2>9
  <2>11. ASSUME NEW j \in 0..Size-1, j < h - 1 PROVE r.cells[j] = s.cells[j]
    <3>1. j # u
      BY <2>2, <2>11
    <3> HIDE DEF r, u
    <3> QED BY <2>2, <2>10, <3>1
  <2> QED BY <2>10, <2>11
<1> QED BY <1>2, <1>6

\* One screen for every character rubbed out.
Rubbed(s, n, f) ==
  /\ \A i \in 0..n : f[i] \in Screens
  /\ f[0] = s
  /\ \A i \in 1..n : f[i] = vga_print(f[i-1], Rub)

\* Rubout takes the characters one after the other.
LEMMA RuboutDraws ==
  ASSUME NEW s \in Screens, NEW n \in Nat
  PROVE  \E f : Rubbed(s, n, f) /\ Rubout(s, n) = f[n]
<1> DEFINE D == Screens
           st == [x \in D \X (1..n) |-> vga_print(x[1], Rub)]
           rubbed == CHOOSE g : g = [i \in 0..n |->
                       IF i = 0 THEN s ELSE vga_print(g[i-1], Rub)]
<1>1. st \in [D \X (1..n) -> D]
  <2>1. \A x \in D \X (1..n) : vga_print(x[1], Rub) \in D
    <3> SUFFICES ASSUME NEW x \in D \X (1..n)
                 PROVE  vga_print(x[1], Rub) \in D
      OBVIOUS
    <3>1. x[1] \in D
      <4> HIDE DEF D
      <4> QED OBVIOUS
    <3> QED BY <3>1, RubOnce
  <2> HIDE DEF D
  <2> QED BY <2>1
<1>2. PICK g \in [0..n -> D] : g[0] = s /\ \A i \in 1..n : g[i] = st[<<g[i-1], i>>]
  <2>1. s \in D
    OBVIOUS
  <2> HIDE DEF D, st
  <2>2. Walks(D, s, n, st) # {}
    BY <1>1, <2>1, Iterate
  <2> QED BY <2>2 DEF Walks
<1>3. \A i \in 1..n : g[i] = vga_print(g[i-1], Rub)
  <2> SUFFICES ASSUME NEW i \in 1..n PROVE g[i] = vga_print(g[i-1], Rub)
    OBVIOUS
  <2> HIDE DEF D
  <2>1. i - 1 \in 0..n
    OBVIOUS
  <2>2. <<g[i-1], i>> \in D \X (1..n)
    BY <2>1
  <2> QED BY <1>2, <2>2
<1> HIDE DEF st
<1>4. g = [i \in 0..n |-> IF i = 0 THEN s ELSE vga_print(g[i-1], Rub)]
  <2> HIDE DEF D
  <2>1. \A i \in 0..n : i # 0 => i \in 1..n
    OBVIOUS
  <2>2. \A i \in 0..n : g[i] = IF i = 0 THEN s ELSE vga_print(g[i-1], Rub)
    BY <1>2, <1>3, <2>1
  <2> QED BY <2>2
<1>5. rubbed = [i \in 0..n |-> IF i = 0 THEN s ELSE vga_print(rubbed[i-1], Rub)]
  BY <1>4
<1>6. Rubout(s, n) = rubbed[n]
  BY DEF Rubout, Rub
<1> HIDE DEF rubbed, D
<1>7. 0 \in 0..n /\ \A i \in 1..n : i \in 0..n /\ i # 0
  OBVIOUS
<1>8. rubbed[0] = s /\ \A i \in 1..n : rubbed[i] = vga_print(rubbed[i-1], Rub)
  BY <1>5, <1>7
<1> DEFINE T == {i \in 0..n : rubbed[i] \in Screens}
<1>9. 0 \in T
  BY <1>7, <1>8
<1>10. ASSUME NEW i \in 1..n, i - 1 \in T PROVE i \in T
  BY <1>7, <1>8, <1>10, RubOnce
<1>11. 0..n \subseteq T
  <2> HIDE DEF T
  <2> QED BY <1>9, <1>10, InductTo
<1>12. Rubbed(s, n, rubbed)
  BY <1>8, <1>11 DEF Rubbed
<1> QED BY <1>6, <1>12

\* In its row, Rubout takes the cursor back by n and leaves what was before.
LEMMA RuboutKeeps ==
  ASSUME NEW s \in Screens, NEW n \in Nat
  PROVE  /\ Rubout(s, n) \in Screens
         /\ n <= s.col => /\ Here(Rubout(s, n)) = Here(s) - n
                          /\ \A j \in 0..Size-1 : j < Here(s) - n =>
                               Rubout(s, n).cells[j] = s.cells[j]
<1>1. PICK f : Rubbed(s, n, f) /\ Rubout(s, n) = f[n]
  BY RuboutDraws
<1>2. /\ \A i \in 0..n : f[i] \in Screens
      /\ f[0] = s /\ \A i \in 1..n : f[i] = vga_print(f[i-1], Rub)
  BY <1>1 DEF Rubbed
<1>3. Rubout(s, n) \in Screens
  BY <1>1, <1>2
<1>4. ASSUME n <= s.col
      PROVE  /\ Here(f[n]) = Here(s) - n
             /\ \A j \in 0..Size-1 : j < Here(s) - n => f[n].cells[j] = s.cells[j]
  <2> DEFINE Kept(i) == /\ f[i].row = s.row /\ f[i].col = s.col - i
                        /\ \A j \in 0..Size-1 : j < Here(s) - i => f[i].cells[j] = s.cells[j]
             T == {i \in 0..n : Kept(i)}
             R == s.row * VGA_WIDTH
  <2>1. s.col \in Nat /\ Here(s) \in Nat /\ R \in Nat /\ Here(s) = R + s.col /\ Size \in Nat
    <3>1. s \in ScreenType /\ Here(s) = s.row * VGA_WIDTH + s.col
      BY DEF Screens, Here
    <3> QED BY <3>1, ScreenParts
  <2>2. 0 \in T
    <3>1. s.col - 0 = s.col
      BY <2>1
    <3> QED BY <1>2, <3>1
  <2>3. ASSUME NEW i \in 1..n, i - 1 \in T PROVE i \in T
    <3> DEFINE b == f[i-1]
    <3>1. /\ i - 1 \in 0..n /\ b \in Screens /\ b.row = s.row /\ b.col = s.col - (i - 1)
          /\ \A j \in 0..Size-1 : j < Here(s) - (i - 1) => b.cells[j] = s.cells[j]
      BY <1>2, <2>3
    <3>2. f[i] = vga_print(b, Rub)
      BY <1>2
    <3> HIDE DEF b
    <3>3. /\ b.col > 0 /\ b.col - 1 = s.col - i
      BY <1>4, <2>1, <3>1
    <3>4. Here(b) = R + b.col
      BY <3>1 DEF Here
    <3>5. /\ f[i].row = b.row /\ f[i].col = b.col - 1
          /\ \A j \in 0..Size-1 : j < Here(b) - 1 => f[i].cells[j] = b.cells[j]
      BY <3>1, <3>2, <3>3, RubOnce
    <3> HIDE DEF R
    <3>6. Here(b) - 1 = Here(s) - i /\ Here(s) - i < Here(s) - (i - 1)
      BY <2>1, <3>3, <3>4, <3>1
    <3>7. ASSUME NEW j \in 0..Size-1, j < Here(s) - i PROVE f[i].cells[j] = s.cells[j]
      <4>1. j < Here(b) - 1 /\ j < Here(s) - (i - 1)
        BY <2>1, <3>6, <3>7
      <4> QED BY <3>1, <3>5, <4>1
    <3>8. i \in 0..n
      OBVIOUS
    <3> QED BY <3>1, <3>3, <3>5, <3>7, <3>8
  <2>4. 0..n \subseteq T
    <3> HIDE DEF T
    <3> QED BY <2>2, <2>3, InductTo
  <2>5. Kept(n)
    <3>1. n \in 0..n
      OBVIOUS
    <3> QED BY <2>4, <3>1
  <2>6. Here(f[n]) = R + (s.col - n)
    BY <2>5 DEF Here
  <2> HIDE DEF R
  <2> QED BY <2>1, <2>5, <2>6
<1> QED BY <1>1, <1>3, <1>4

\* In its row, Rubout takes the end of the text away and leaves the rest shown.
LEMMA RuboutShows ==
  ASSUME NEW s \in Screens, NEW p \in Seq(Glyphs), NEW q \in Seq(Glyphs),
         Shows(s, p \o q), Len(q) <= s.col
  PROVE  Shows(Rubout(s, Len(q)), p)
<1> DEFINE r == Rubout(s, Len(q))
           n == Len(q)
           m == Here(r)
           h == Here(s)
<1>1. /\ m = h - n
      /\ \A j \in 0..Size-1 : j < h - n => r.cells[j] = s.cells[j]
  <2>1. n \in Nat
    OBVIOUS
  <2> QED BY <2>1, RuboutKeeps
<1>2. h \in 0..Size-1 /\ Size \in Nat /\ n \in Nat /\ Len(p) \in Nat
  <2>1. s \in ScreenType
    BY DEF Screens
  <2> QED BY <2>1, ScreenParts
<1>3. Len(p \o q) = Len(p) + n /\ \A i \in 1..Len(p) : (p \o q)[i] = p[i]
  OBVIOUS
<1> HIDE DEF r
<1>4. ASSUME NEW k \in Nat, k < Len(p), k < m
      PROVE  r.cells[m - 1 - k] = p[Len(p) - k]
  <2> DEFINE j == m - 1 - k
  <2>1. /\ j \in 0..Size-1 /\ j < h - n /\ j = h - 1 - (n + k) /\ n + k \in Nat /\ n + k < h
    <3> HIDE DEF m, h, n
    <3> QED BY <1>1, <1>2, <1>4
  <2>2. n + k < Len(p \o q) /\ Len(p \o q) - (n + k) = Len(p) - k /\ Len(p) - k \in 1..Len(p)
    <3> HIDE DEF m, h, n
    <3> QED BY <1>2, <1>3, <1>4
  <2>3. s.cells[j] = (p \o q)[Len(p) - k]
    BY <2>1, <2>2 DEF Shows
  <2> HIDE DEF j, m, h, n
  <2>4. r.cells[j] = s.cells[j]
    BY <1>1, <2>1
  <2> QED BY <1>3, <2>2, <2>3, <2>4 DEF j
<1>5. Shows(r, p)
  BY <1>4 DEF Shows
<1> QED BY <1>5 DEF r

-----------------------------------------------------------------------------
(* The line and the screen.                                                *)

\* The inductive invariant of the screen, next to that of recall.
ScrInv ==
  /\ pc \in {"read", "exec", "done"} /\ hist_pos \in 0..hist_count
  /\ screen \in Screens
  /\ pc = "read" /\ intact => Shows(screen, Prompt \o buf)

\* The shell starts on a blank screen.
LEMMA ClearScreen == vga_clear \in Screens
<1>1. VGA_WIDTH \in Nat \ {0} /\ VGA_HEIGHT \in Nat \ {0} /\ Blank \in Glyphs
  BY VgaAssumption, ReadlineAssumption
<1>2. 0 \in 0..VGA_WIDTH-1 /\ 0 \in 0..VGA_HEIGHT-1
  BY <1>1
<1> DEFINE f == [i \in 0..Size-1 |-> Blank]
<1>3. f \in [0..Size-1 -> Glyphs] /\ \A i \in 0..Size-1 : f[i] = Blank
  BY <1>1
<1>4. vga_clear = [cells |-> f, row |-> 0, col |-> 0]
  BY DEF vga_clear
<1> HIDE DEF f
<1>5. vga_clear \in ScreenType
  BY <1>2, <1>3, <1>4 DEF ScreenType
<1>6. Clean(vga_clear)
  BY <1>3, <1>4 DEF Clean
<1> QED BY <1>5, <1>6 DEF Screens

\* A prompt printed on any screen is what that screen then shows.
LEMMA PromptShows ==
  ASSUME NEW s \in Screens, NewPrompt(s)
  PROVE  screen' \in Screens /\ Shows(screen', Prompt \o buf') /\ pc' = "read"
<1>1. screen' = vga_print(s, Prompt) /\ buf' = <<>> /\ pc' = "read"
  BY DEF NewPrompt
<1>2. Prompt \in Seq(Glyphs) /\ <<>> \in Seq(Glyphs)
  BY ReadlineAssumption
<1>3. Shows(s, <<>>)
  BY DEF Shows
<1>4. <<>> \o Prompt = Prompt /\ Prompt \o <<>> = Prompt
  BY <1>2
<1>5. vga_print(s, Prompt) \in Screens /\ Shows(vga_print(s, Prompt), <<>> \o Prompt)
  BY <1>2, <1>3, PrintShows
<1> QED BY <1>1, <1>4, <1>5

\* The line that takes the place of another is shown, if the rubout reached
\* back to its start.
LEMMA ReplaceShows ==
  ASSUME RecInv, ScrInv, pc = "read", NEW line \in Seq(Chars), Len(line) < MAX,
         Replace(line)
  PROVE  screen' \in Screens /\ (intact' => Shows(screen', Prompt \o buf'))
<1> DEFINE s == Rubout(screen, Len(buf))
<1>1. /\ screen \in Screens /\ buf \in Seq(Glyphs) /\ line \in Seq(Glyphs)
      /\ Prompt \in Seq(Glyphs) /\ Len(buf) \in Nat
  BY ReadlineAssumption DEF RecInv, ScrInv
<1>2. buf' = line
  BY CopiedWhole DEF Replace
<1>3. screen' = vga_print(s, line) /\ intact' = (intact /\ screen.col >= Len(buf))
  BY <1>2 DEF Replace
<1>4. s \in Screens
  BY <1>1, RuboutKeeps
<1>5. screen' \in Screens
  <2>1. line \in Seq(Codes)
    BY <1>1 DEF Codes
  <2> HIDE DEF s
  <2> QED BY <1>3, <1>4, <2>1, PrintClean
<1>6. ASSUME intact' PROVE Shows(screen', Prompt \o buf')
  <2>1. intact /\ screen.col >= Len(buf)
    BY <1>3, <1>6, Zenon
  <2>2. Shows(screen, Prompt \o buf)
    BY <2>1 DEF ScrInv
  <2>3. Len(buf) <= screen.col
    <3>1. screen \in ScreenType
      BY <1>1 DEF Screens
    <3>2. screen.col \in Nat
      BY <3>1, ScreenParts
    <3> QED BY <1>1, <2>1, <3>2
  <2>4. Shows(s, Prompt)
    BY <1>1, <2>2, <2>3, RuboutShows
  <2> HIDE DEF s
  <2>5. Shows(vga_print(s, line), Prompt \o line)
    BY <1>1, <1>4, <2>4, PrintShows
  <2> QED BY <1>2, <1>3, <2>5
<1> QED BY <1>5, <1>6

\* A character typed stands at the end of the line, or is not taken.
LEMMA TypeShows ==
  ASSUME RecInv, ScrInv, NEW c \in Chars, Type(c)
  PROVE  ScrInv'
<1>1. UNCHANGED <<pc, hist_pos, history, intact>> /\ pc = "read" /\ hist_count' = hist_count
  BY DEF Type, hist_count
<1>2. /\ screen \in Screens /\ Prompt \o buf \in Seq(Glyphs) /\ c \in Glyphs
      /\ Prompt \in Seq(Glyphs) /\ buf \in Seq(Glyphs)
  BY ReadlineAssumption DEF RecInv, ScrInv
<1>3. CASE Len(buf) < MAX - 1
  <2>1. buf' = Append(buf, c) /\ screen' = vga_putchar(screen, c)
    BY <1>3 DEF Type
  <2>2. Prompt \o buf' = Append(Prompt \o buf, c)
    BY <1>2, <2>1
  <2>3. screen' \in Screens
    <3>1. c \in Codes
      BY <1>2 DEF Codes
    <3> QED BY <1>2, <2>1, <3>1, PutcharIs
  <2>4. ASSUME intact PROVE Shows(screen', Prompt \o buf')
    <3>1. Shows(screen, Prompt \o buf)
      BY <1>1, <2>4 DEF ScrInv
    <3> QED BY <1>2, <2>1, <2>2, <3>1, ShowsPut
  <2> QED BY <1>1, <2>3, <2>4 DEF ScrInv
<1>4. CASE ~(Len(buf) < MAX - 1)
  <2>1. UNCHANGED <<buf, screen>>
    BY <1>4 DEF Type
  <2> QED BY <1>1, <2>1 DEF ScrInv
<1> QED BY <1>3, <1>4

\* The character before the cursor goes, from the line and from the screen.
LEMMA EraseShows ==
  ASSUME RecInv, ScrInv, Erase
  PROVE  ScrInv'
<1>1. UNCHANGED <<pc, hist_pos, history>> /\ pc = "read" /\ hist_count' = hist_count
  BY DEF Erase, hist_count
<1>2. CASE buf # <<>>
  <2>1. /\ buf' = SubSeq(buf, 1, Len(buf) - 1) /\ screen' = Rubout(screen, 1)
        /\ intact' = (intact /\ screen.col > 0)
    BY <1>2 DEF Erase, Front
  <2> DEFINE last == <<buf[Len(buf)]>>
  <2>2. /\ screen \in Screens /\ buf \in Seq(Glyphs) /\ Prompt \in Seq(Glyphs)
    BY ReadlineAssumption DEF RecInv, ScrInv
  <2>3. /\ buf' \in Seq(Glyphs) /\ last \in Seq(Glyphs) /\ Len(last) = 1
        /\ buf = buf' \o last
    BY <1>2, <2>1, <2>2
  <2> HIDE DEF last
  <2>4. screen' \in Screens
    BY <2>1, <2>2, RuboutKeeps
  <2>5. ASSUME intact' PROVE Shows(screen', Prompt \o buf')
    <3>1. intact /\ screen.col > 0
      BY <2>1, <2>5, Zenon
    <3>2. Shows(screen, Prompt \o buf)
      BY <1>1, <3>1 DEF ScrInv
    <3>3. Prompt \o buf = (Prompt \o buf') \o last /\ Prompt \o buf' \in Seq(Glyphs)
      <4>1. Prompt \o (buf' \o last) = (Prompt \o buf') \o last
        <5>1. buf' \in Seq(Glyphs) /\ last \in Seq(Glyphs) /\ Prompt \in Seq(Glyphs)
          BY <2>2, <2>3
        <5> QED BY <5>1, ConcatAssociative
      <4> QED BY <2>2, <2>3, <4>1
    <3>4. Len(last) <= screen.col
      <4>1. screen \in ScreenType
        BY <2>2 DEF Screens
      <4>2. screen.col \in Nat
        BY <4>1, ScreenParts
      <4> QED BY <2>3, <3>1, <4>2
    <3>5. Shows(screen, (Prompt \o buf') \o last)
      BY <3>2, <3>3
    <3> DEFINE p == Prompt \o buf'
    <3> HIDE DEF p
    <3>6. Shows(Rubout(screen, Len(last)), p)
      <4>1. p \in Seq(Glyphs) /\ Shows(screen, p \o last)
        BY <3>3, <3>5 DEF p
      <4> QED BY <2>2, <2>3, <3>4, <4>1, RuboutShows
    <3> QED BY <2>1, <2>3, <3>6 DEF p
  <2> QED BY <1>1, <2>4, <2>5 DEF ScrInv
<1>3. CASE buf = <<>>
  <2>1. UNCHANGED <<buf, screen, intact>>
    BY <1>3 DEF Erase
  <2> QED BY <1>1, <2>1 DEF ScrInv
<1> QED BY <1>2, <1>3

\* A shorter history only ever grows.
LEMMA RememberGrows ==
  ASSUME NEW h \in Seq(Line), Len(h) <= HIST_MAX, NEW line \in Line
  PROVE  Len(Remember(h, line)) \in Nat /\ Len(h) <= Len(Remember(h, line))
<1>1. HIST_MAX \in Nat \ {0} /\ Len(h) \in Nat
  BY ReadlineAssumption
<1>2. CASE Len(h) < HIST_MAX
  BY <1>1, <1>2 DEF Remember
<1>3. CASE ~(Len(h) < HIST_MAX)
  <2> DEFINE g == [i \in 1..HIST_MAX |-> IF i = HIST_MAX THEN line ELSE h[i+1]]
  <2>1. Remember(h, line) = g
    BY <1>3 DEF Remember
  <2>2. Len(g) = HIST_MAX
    BY <1>1
  <2> HIDE DEF g
  <2> QED BY <1>1, <2>1, <2>2
<1> QED BY <1>2, <1>3

\* The shell starts with its prompt on a blank screen.
LEMMA ScrInvInit == Init => ScrInv
<1> SUFFICES ASSUME Init PROVE ScrInv
  OBVIOUS
<1>1. /\ pc = "read" /\ buf = <<>> /\ history = <<>> /\ hist_pos = 0
      /\ screen = vga_print(vga_clear, Prompt)
  BY DEF Init
<1>2. Prompt \in Seq(Glyphs) /\ <<>> \in Seq(Glyphs)
  BY ReadlineAssumption
<1>3. Shows(vga_clear, <<>>)
  BY DEF Shows
<1>4. <<>> \o Prompt = Prompt /\ Prompt \o <<>> = Prompt
  BY <1>2
<1>5. /\ vga_print(vga_clear, Prompt) \in Screens
      /\ Shows(vga_print(vga_clear, Prompt), <<>> \o Prompt)
  BY <1>2, <1>3, ClearScreen, PrintShows
<1> QED BY <1>1, <1>4, <1>5 DEF ScrInv, hist_count

\* A cursor key leaves the line it brings on the screen.
LEMMA CursorKeyShows ==
  ASSUME RecInv, ScrInv, KeyUp \/ KeyDown
  PROVE  ScrInv'
<1>1. /\ UNCHANGED <<pc, history>> /\ pc = "read" /\ hist_count' = hist_count
      /\ hist_count \in Nat /\ hist_pos \in 0..hist_count /\ history \in Seq(Line)
  BY DEF RecInv, ScrInv, KeyUp, KeyDown, IsEnd, hist_count
<1>2. ASSUME NEW line \in Seq(Chars), Len(line) < MAX, Replace(line),
             hist_pos' \in 0..hist_count
      PROVE  ScrInv'
  <2>1. screen' \in Screens /\ (intact' => Shows(screen', Prompt \o buf'))
    BY <1>1, <1>2, ReplaceShows
  <2> QED BY <1>1, <1>2, <2>1 DEF ScrInv
<1>3. ASSUME NEW i \in 1..hist_count
      PROVE  history[i] \in Seq(Chars) /\ Len(history[i]) < MAX
  BY <1>1, <1>3 DEF Line, hist_count
<1>4. <<>> \in Seq(Chars) /\ Len(<<>>) < MAX
  BY ReadlineAssumption
<1>5. CASE KeyUp
  <2>1. CASE hist_pos > 0
    <3>1. hist_pos \in 1..hist_count /\ hist_pos - 1 \in 0..hist_count
      BY <1>1, <2>1
    <3>2. hist_pos' = hist_pos - 1 /\ Replace(history[hist_pos])
      BY <1>5, <2>1 DEF KeyUp
    <3> QED BY <1>2, <1>3, <3>1, <3>2
  <2>2. CASE ~(hist_pos > 0)
    <3>1. UNCHANGED <<hist_pos, buf, screen, intact>>
      BY <1>5, <2>2 DEF KeyUp
    <3> QED BY <1>1, <3>1 DEF ScrInv
  <2> QED BY <2>1, <2>2
<1>6. CASE KeyDown
  <2>1. CASE hist_pos + 1 < hist_count
    <3>1. hist_pos + 2 \in 1..hist_count /\ hist_pos + 1 \in 0..hist_count
      BY <1>1, <2>1
    <3>2. hist_pos' = hist_pos + 1 /\ Replace(history[hist_pos + 2])
      BY <1>6, <2>1 DEF KeyDown
    <3> QED BY <1>2, <1>3, <3>1, <3>2
  <2>2. CASE ~(hist_pos + 1 < hist_count)
    <3>1. hist_pos' = hist_count /\ Replace(<<>>)
      BY <1>6, <2>2 DEF KeyDown
    <3>2. hist_count \in 0..hist_count
      BY <1>1
    <3> QED BY <1>2, <1>4, <3>1, <3>2
  <2> QED BY <2>1, <2>2
<1> QED BY <1>5, <1>6

\* A new prompt is shown after whatever stands on the screen.
LEMMA LineShows ==
  ASSUME RecInv, ScrInv,
         Enter \/ EndOfInput \/ \E s \in Screens : shell_exec_line(s)
  PROVE  ScrInv'
<1>1. /\ screen \in Screens /\ hist_pos \in 0..hist_count
      /\ hist_count \in Nat /\ history \in Seq(Line) /\ hist_count <= HIST_MAX
      /\ buf \in Seq(Chars) /\ Len(buf) < MAX
  BY DEF RecInv, ScrInv, IsEnd, hist_count
<1>2. vga_putchar(screen, "\n") \in Screens
  <2>1. "\n" \in Codes
    BY DEF Codes
  <2> QED BY <1>1, <2>1, PutcharIs
<1>3. ASSUME NEW s \in Screens, NewPrompt(s), hist_pos' = hist_count, UNCHANGED history
      PROVE  ScrInv'
  <2>1. screen' \in Screens /\ Shows(screen', Prompt \o buf') /\ pc' = "read"
    BY <1>3, PromptShows
  <2>2. hist_pos' \in 0..hist_count'
    BY <1>1, <1>3 DEF hist_count
  <2> QED BY <2>1, <2>2 DEF ScrInv
<1>4. CASE Enter
  <2>1. CASE buf = <<>>
    <3>1. /\ NewPrompt(vga_putchar(screen, "\n")) /\ hist_pos' = hist_count
          /\ UNCHANGED history
      BY <1>4, <2>1 DEF Enter
    <3> QED BY <1>2, <1>3, <3>1
  <2>2. CASE buf # <<>>
    <3>1. /\ history' = Remember(history, buf) /\ pc' = "exec" /\ UNCHANGED hist_pos
          /\ screen' = vga_putchar(screen, "\n")
      BY <1>4, <2>2 DEF Enter
    <3>2. buf \in Line
      BY <1>1, <2>2 DEF Line
    <3>3. Len(history') \in Nat /\ Len(history) <= Len(history')
      <4>1. Len(history) <= HIST_MAX
        BY <1>1 DEF hist_count
      <4> QED BY <1>1, <3>1, <3>2, <4>1, RememberGrows
    <3>4. hist_pos' \in 0..hist_count'
      BY <1>1, <3>1, <3>3 DEF hist_count
    <3> QED BY <1>2, <3>1, <3>4 DEF ScrInv
  <2> QED BY <2>1, <2>2
<1>5. CASE EndOfInput
  <2>1. /\ pc' = "done" /\ screen' = vga_putchar(screen, "\n")
        /\ UNCHANGED <<history, hist_pos>>
    BY <1>5 DEF EndOfInput
  <2> QED BY <1>1, <1>2, <2>1 DEF ScrInv, hist_count
<1>6. CASE \E s \in Screens : shell_exec_line(s)
  BY <1>3, <1>6 DEF shell_exec_line
<1> QED BY <1>4, <1>5, <1>6

\* Every step keeps what the screen shows.
LEMMA ScrInvStep == RecInv /\ ScrInv /\ [Next]_vars => ScrInv'
<1> SUFFICES ASSUME RecInv, ScrInv, [Next]_vars PROVE ScrInv'
  OBVIOUS
<1>1. CASE \E c \in Chars : Type(c)
  BY <1>1, TypeShows
<1>2. CASE Erase
  BY <1>2, EraseShows
<1>3. CASE KeyUp \/ KeyDown
  BY <1>3, CursorKeyShows
<1>4. CASE Enter \/ EndOfInput
  BY <1>4, LineShows
<1>5. CASE OtherKey \/ UNCHANGED vars
  BY <1>5 DEF OtherKey, vars, watch, ScrInv, hist_count
<1>6. CASE \E out \in Outputs : shell_exec_line(vga_print(screen, out))
  <2>1. PICK out \in Outputs : shell_exec_line(vga_print(screen, out))
    BY <1>6
  <2>2. out \in Seq(Codes)
    BY ReadlineAssumption DEF Codes
  <2>3. vga_print(screen, out) \in Screens
    BY <2>2, PrintClean DEF ScrInv
  <2> QED BY <2>1, <2>3, LineShows
<1>7. CASE shell_exec_line(vga_clear)
  BY <1>7, ClearScreen, LineShows
<1> QED BY <1>1, <1>2, <1>3, <1>4, <1>5, <1>6, <1>7 DEF Next, sh_readline

\* What both invariants say of the line, the history and the screen.
LEMMA EditorInvariant == Spec => [](RecInv /\ ScrInv)
<1> QED BY RecInvInit, RecInvStep, ScrInvInit, ScrInvStep, PTL DEF Spec

\* The buffer, the history and the cursor stay in their bounds, however long
\* the line, the prompt and what the commands print (src/shell.c, sh_readline;
\* src/vga.c, vga_putchar and vga_scroll).
THEOREM EditorTypeCorrect == Spec => []TypeOK
<1>1. RecInv /\ ScrInv => TypeOK
  <2> SUFFICES ASSUME RecInv, ScrInv PROVE TypeOK
    OBVIOUS
  <2>1. history \in Seq(Line) /\ hist_count <= HIST_MAX
    BY DEF RecInv, IsEnd, hist_count
  <2>2. history \in Seq(Seq(Chars) \ {<<>>})
    BY <2>1 DEF Line
  <2>3. screen \in ScreenType
    BY DEF ScrInv, Screens
  <2>4. /\ screen.row \in 0..VGA_HEIGHT-1 /\ screen.col \in 0..VGA_WIDTH-1
        /\ DOMAIN screen.cells = 0..Size-1
    BY <2>3 DEF ScreenType
  <2> QED BY <2>1, <2>2, <2>4 DEF TypeOK, RecInv, ScrInv
<1> QED BY <1>1, EditorInvariant, PTL

\* What stands before the cursor is the line that Enter executes, over row
\* ends, scrolling, rubouts and recalled lines (src/shell.c, sh_readline, and
\* src/vga.c under it).
THEOREM ScreenIsTheLine == Spec => []ScreenShowsLine
<1>1. RecInv /\ ScrInv => ScreenShowsLine
  <2> SUFFICES ASSUME RecInv, ScrInv, pc = "read"
               PROVE  /\ \A i \in Here(screen)..Size-1 : screen.cells[i] = Blank
                      /\ intact =>
                           LET shown == Prompt \o buf
                               n == IF Len(shown) < Here(screen) THEN Len(shown)
                                    ELSE Here(screen)
                           IN  \A k \in 0..n-1 :
                                 screen.cells[Here(screen) - 1 - k] = shown[Len(shown) - k]
    BY DEF ScreenShowsLine
  <2>1. Here(screen) \in 0..Size-1 /\ Size \in Nat
    <3>1. screen \in ScreenType
      BY DEF ScrInv, Screens
    <3> QED BY <3>1, ScreenParts
  <2>2. \A i \in Here(screen)..Size-1 : screen.cells[i] = Blank
    <3>1. Clean(screen)
      BY DEF ScrInv, Screens
    <3> QED BY <2>1, <3>1 DEF Clean
  <2> DEFINE shown == Prompt \o buf
             n == IF Len(shown) < Here(screen) THEN Len(shown) ELSE Here(screen)
  <2>3. ASSUME intact, NEW k \in 0..n-1
        PROVE  screen.cells[Here(screen) - 1 - k] = shown[Len(shown) - k]
    <3>1. Len(shown) \in Nat
      BY ReadlineAssumption DEF RecInv
    <3>2. Shows(screen, shown)
      BY <2>3 DEF ScrInv
    <3> HIDE DEF shown
    <3>3. k \in Nat /\ k < Len(shown) /\ k < Here(screen)
      BY <2>1, <3>1
    <3> QED BY <3>2, <3>3 DEF Shows
  <2> QED BY <2>2, <2>3
<1> QED BY <1>1, EditorInvariant, PTL
=============================================================================

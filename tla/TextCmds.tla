------------------------------ MODULE TextCmds ------------------------------
(***************************************************************************)
(* Commands on text, src/cmds.c: split_lines, head, tail, sort, uniq and   *)
(* diff.  One action runs one command on a file and leaves what it prints  *)
(* in "out"; the heap has room for its arrays.  What each promises is      *)
(* stated below without following the code.                                *)
(*                                                                         *)
(* A text is a sequence of character codes other than 0.  Options count    *)
(* only before the file name, and are those here.                          *)
(***************************************************************************)
EXTENDS Integers, SequencesExt, FiniteSetsExt, Functions

CONSTANTS
  Texts,    \* contents a file may have
  Others,   \* contents of the second file of diff
  Counts,   \* operands of head and tail, an int
  WORD16    \* 2^16, where diff's table wraps

NL == 10

ASSUME TextAssumption ==
  /\ Texts \subseteq Seq(1..255) /\ Others \subseteq Seq(1..255)
  /\ Counts \subseteq Int /\ WORD16 \in Nat \ {0}

VARIABLES
  file,    \* the text the command reads
  cmd,     \* the command that ran last, with its options
  out, rc  \* what it printed, its exit status

textVars == <<file, cmd, out, rc>>

-----------------------------------------------------------------------------
(* Lines.                                                                  *)

\* The loop of split_lines before character i + 1: the lines that have ended,
\* and where the one that has not begins.
Cut(text) ==
  LET cut[i \in 0..Len(text)] ==
        IF i = 0 THEN [lines |-> <<>>, start |-> 1]
        ELSE IF text[i] # NL THEN cut[i-1]
        ELSE LET before == cut[i-1]
             IN  [lines |-> Append(before.lines, SubSeq(text, before.start, i - 1)),
                  start |-> i + 1]
  IN  cut

\* split_lines: what stands before each newline, and after the last one if
\* that is not empty.
split_lines(text) ==
  LET end == Cut(text)[Len(text)]
  IN  IF end.start > Len(text) THEN end.lines
      ELSE Append(end.lines, SubSeq(text, end.start, Len(text)))

Newlines(text, from, to) == Cardinality({i \in from..to : text[i] = NL})

\* One command runs: none of them leaves anything to a later one.
Ran(c, status, printed) ==
  /\ cmd.name = "none"
  /\ cmd' = c /\ rc' = status /\ out' = printed /\ UNCHANGED file

\* head: up to the n-th newline; as a size_t a negative n is no limit.
cmd_head(n) ==
  LET end == IF n < 0 THEN Len(file)
             ELSE Min({Len(file)} \union
                      {i \in 0..Len(file) : Newlines(file, 1, i) >= n})
  IN  Ran([name |-> "head", n |-> n], 0, SubSeq(file, 1, end))

\* A mistaken cmd_tail, which nothing uses: from the n-th newline, not after it.
cmd_tail_newline(n) ==
  LET nth == {i \in DOMAIN file : file[i] = NL /\ Newlines(file, i, Len(file)) = n}
      start == IF nth = {} THEN 1 ELSE Max(nth)
  IN  Ran([name |-> "tail", n |-> n], 0, SubSeq(file, start, Len(file)))

\* tail: after the n-th newline from the end, if there is one.
cmd_tail(n) ==
  LET nth == {i \in DOMAIN file : file[i] = NL /\ Newlines(file, i, Len(file)) = n}
      start == IF nth = {} THEN 0 ELSE Max(nth)
  IN  Ran([name |-> "tail", n |-> n], 0, SubSeq(file, start + 1, Len(file)))

-----------------------------------------------------------------------------
(* sort and uniq.                                                          *)

\* atoi: white space, a sign and digits, whose value is taken to fit an int.
atoi(s) ==
  LET to(from, C) == Min({i \in from..Len(s) : i < Len(s) => s[i + 1] \notin C})
      blank == to(0, {32} \union 9..13)
      sign  == IF blank < Len(s) /\ s[blank + 1] \in {43, 45} THEN s[blank + 1] ELSE 0
      first == IF sign = 0 THEN blank ELSE blank + 1
      value[i \in 0..Len(s)] ==
        IF i <= first THEN 0 ELSE value[i - 1] * 10 + s[i] - 48
  IN  IF sign = 45 THEN -value[to(first, 48..57)] ELSE value[to(first, 48..57)]

\* The sign of strcmp, by the first character that differs; the NUL is the least.
strcmp(x, y) ==
  LET at(s, i) == IF i > Len(s) THEN 0 ELSE s[i]
      diff == {i \in 1..Len(x) + Len(y) : at(x, i) # at(y, i)}
  IN  IF diff = {} THEN 0
      ELSE IF at(x, Min(diff)) < at(y, Min(diff)) THEN -1 ELSE 1

\* A mistaken cmp_str_num, which nothing uses: equal numbers are equal lines.
cmp_str_num_only(x, y) ==
  IF atoi(x) < atoi(y) THEN -1 ELSE IF atoi(x) > atoi(y) THEN 1 ELSE 0

cmp_str_num(x, y) ==
  IF atoi(x) < atoi(y) THEN -1 ELSE IF atoi(x) > atoi(y) THEN 1 ELSE strcmp(x, y)

Compare(opts, x, y) ==
  LET c == IF "n" \in opts THEN cmp_str_num(x, y) ELSE strcmp(x, y)
  IN  IF "r" \in opts THEN -c ELSE c

\* The inner loop of the insertion sort: "key" goes behind the last line it
\* does not belong before.
Insert(opts, sorted, key) ==
  LET stays == {j \in DOMAIN sorted : Compare(opts, key, sorted[j]) >= 0}
  IN  InsertAt(sorted, Max({0} \union stays) + 1, key)

\* The first i lines in order, for every i.
SortedTo(opts, lines) ==
  LET sorted[i \in 0..Len(lines)] ==
        IF i = 0 THEN <<>> ELSE Insert(opts, sorted[i - 1], lines[i])
  IN  sorted

\* What is printed of them: with -u a line is compared with the one printed last.
PrintedTo(unique, lines) ==
  LET printed[i \in 0..Len(lines)] ==
        IF i = 0 THEN <<>>
        ELSE LET o == printed[i - 1]
             IN  IF unique /\ o # <<>> /\ Last(o) = lines[i] THEN o
                 ELSE Append(o, lines[i])
  IN  printed

cmd_sort(opts) ==
  LET lines == split_lines(file)
      sorted == SortedTo(opts, lines)[Len(lines)]
  IN  Ran([name |-> "sort", opts |-> opts], 0,
          PrintedTo("u" \in opts, sorted)[Len(sorted)])

\* uniq: a line and, with -c, how many stood in a row.
RunsTo(lines) ==
  LET runs[i \in 0..Len(lines)] ==
        IF i = 0 THEN <<>>
        ELSE LET o == runs[i - 1]
             IN  IF o # <<>> /\ Last(o).line = lines[i] THEN [o EXCEPT ![Len(o)].run = @ + 1]
                 ELSE Append(o, [line |-> lines[i], run |-> 1])
  IN  runs

cmd_uniq ==
  LET lines == split_lines(file)
  IN  Ran([name |-> "uniq"], 0, RunsTo(lines)[Len(lines)])

-----------------------------------------------------------------------------
(* diff.                                                                   *)

\* A mistaken Distances, which nothing uses: a line is never changed into another.
Distances_unchanged(la, lb) ==
  LET na == Len(la)  nb == Len(lb)
      d[p \in (0..na) \X (0..nb)] ==
        LET i == p[1]  j == p[2]
        IN  (IF i = na \/ j = nb THEN (na - i) + (nb - j)
             ELSE IF la[i+1] = lb[j+1] THEN d[<<i+1, j+1>>]
             ELSE Min({d[<<i+1, j>>] + 1, d[<<i, j+1>>] + 1})) % WORD16
  IN  d

\* The table: how many lines have to be changed, removed or added behind the
\* first i of one file and the first j of the other, as a uint16_t.
Distances(la, lb) ==
  LET na == Len(la)  nb == Len(lb)
      d[p \in (0..na) \X (0..nb)] ==
        LET i == p[1]  j == p[2]
        IN  (IF i = na \/ j = nb THEN (na - i) + (nb - j)
             ELSE Min({d[<<i+1, j+1>>] + (IF la[i+1] = lb[j+1] THEN 0 ELSE 1),
                       d[<<i+1, j>>] + 1, d[<<i, j+1>>] + 1})) % WORD16
  IN  d

\* The walk from the table's first entry to its last.  A hunk says which lines
\* it takes from each file; lines that are kept are not printed.
Walk(la, lb, d) ==
  LET na == Len(la)  nb == Len(lb)
      hunk(old, new) == <<[old |-> old, new |-> new]>>
      walk[p \in (0..na) \X (0..nb)] ==
        LET i == p[1]  j == p[2]
        IN  IF i = na /\ j = nb THEN <<>>
            ELSE IF i < na /\ j < nb /\ la[i+1] = lb[j+1]
              THEN hunk(<<la[i+1]>>, <<lb[j+1]>>) \o walk[<<i+1, j+1>>]
            ELSE IF j < nb /\ (i = na \/ d[p] = d[<<i, j+1>>] + 1)
              THEN hunk(<<>>, <<lb[j+1]>>) \o walk[<<i, j+1>>]
            ELSE IF i < na /\ (j = nb \/ d[p] = d[<<i+1, j>>] + 1)
              THEN hunk(<<la[i+1]>>, <<>>) \o walk[<<i+1, j>>]
            ELSE hunk(<<la[i+1]>>, <<lb[j+1]>>) \o walk[<<i+1, j+1>>]
  IN  walk[<<0, 0>>]

cmd_diff(other) ==
  LET la == split_lines(file)
      lb == split_lines(other)
      d == Distances(la, lb)
      c == [name |-> "diff", other |-> other]
  IN  IF d[<<0, 0>>] = 0 THEN Ran(c, 0, <<>>) ELSE Ran(c, 1, Walk(la, lb, d))

-----------------------------------------------------------------------------
TextInit == file \in Texts /\ cmd = [name |-> "none"] /\ out = <<>> /\ rc = 0

TextNext ==
  \/ \E n \in Counts : cmd_head(n) \/ cmd_tail(n)
  \/ \E opts \in SUBSET {"r", "n", "u"} : cmd_sort(opts)
  \/ cmd_uniq
  \/ \E other \in Others : cmd_diff(other)

TextSpec == TextInit /\ [][TextNext]_textVars

-----------------------------------------------------------------------------
(* Properties.                                                             *)

Count(s, x) == Cardinality({i \in DOMAIN s : s[i] = x})

\* sort prints every line as often as it was there, or once with -u, and each
\* line not before one that should precede it; -u, which looks at neighbours
\* only, can rely on that even with -n, where different lines have one number.
\* uniq prints no line twice in a row, and its counts give the text back.
SortOrders ==
  LET lines == split_lines(file)
  IN /\ cmd.name = "sort" =>
          /\ \A i, j \in DOMAIN out : i < j => Compare(cmd.opts, out[i], out[j]) <= 0
          /\ Range(out) = Range(lines)
          /\ \A l \in Range(lines) :
               Count(out, l) = IF "u" \in cmd.opts THEN 1 ELSE Count(lines, l)
     /\ cmd.name = "uniq" =>
          /\ \A i \in 1..Len(out) - 1 : out[i].line # out[i+1].line
          /\ FlattenSeq([i \in DOMAIN out |-> [k \in 1..out[i].run |-> out[i].line]]) = lines

\* The least number of lines to change, remove or add: some k lines of one
\* file, in their order, stand for k lines of the other.
LeastEdits(la, lb) ==
  LET sorted(S) == SetToSortSeq(S, <)
      cost(A, B) == (Len(la) - Cardinality(A)) + (Len(lb) - Cardinality(B))
        + Cardinality({k \in 1..Cardinality(A) : la[sorted(A)[k]] # lb[sorted(B)[k]]})
  IN  Min({cost(kept[1], kept[2]) : kept \in
             UNION {kSubset(k, DOMAIN la) \X kSubset(k, DOMAIN lb) : k \in 0..Len(la)}})

\* What diff prints, with the lines both files keep, is the first file on its
\* "<" side and the second on its ">" side.  As long as neither has the 2^16
\* lines that wrap the table, it calls files identical just when their lines are.
DiffRebuilds ==
  cmd.name = "diff" =>
    LET la == split_lines(file)
        lb == split_lines(cmd.other)
    IN /\ rc = 1 => /\ FlattenSeq([k \in DOMAIN out |-> out[k].old]) = la
                    /\ FlattenSeq([k \in DOMAIN out |-> out[k].new]) = lb
       /\ Len(la) < WORD16 /\ Len(lb) < WORD16 => (rc = 0 <=> la = lb)

\* It does both, and then prints no more edits than it takes.
DiffEdits ==
  /\ DiffRebuilds
  /\ cmd.name = "diff" /\ rc = 1 =>
       LET la == split_lines(file)
           lb == split_lines(cmd.other)
       IN  Len(la) < WORD16 /\ Len(lb) < WORD16 =>
             Cardinality({k \in DOMAIN out : out[k].old # out[k].new}) = LeastEdits(la, lb)

\* head n prints the first n lines, tail n the last n lines of a text without
\* a newline at its end, but only n - 1 of one with: that newline counts as one
\* before a line.  Zero and less are all of the text for tail.
HeadTailCut ==
  LET lines == split_lines(file)
      atMost(n) == IF n < Len(lines) THEN n ELSE Len(lines)
      ended == file # <<>> /\ Last(file) = NL
  IN /\ cmd.name = "head" =>
          /\ IsPrefix(out, file)
          /\ split_lines(out) =
               IF cmd.n < 0 THEN lines ELSE SubSeq(lines, 1, atMost(cmd.n))
     /\ cmd.name = "tail" =>
          LET k == IF cmd.n <= 0 \/ cmd.n > Newlines(file, 1, Len(file)) THEN Len(lines)
                   ELSE IF ended THEN cmd.n - 1 ELSE cmd.n
          IN  /\ IsSuffix(out, file)
              /\ split_lines(out) = SubSeq(lines, Len(lines) - k + 1, Len(lines))
=============================================================================

----------------------------- MODULE Tokenizer -----------------------------
(***************************************************************************)
(* tokenize of src/shell.c, on characters: a segment of the command line   *)
(* is cut into words inside its own buffer.  p reads, out writes behind    *)
(* it, quotes disappear, and $? becomes the digits of the last status.     *)
(* The words are pointers into the buffer, so that what is written for one *)
(* must spare both the earlier ones and what is still to be read.          *)
(*                                                                         *)
(* Shell does the same on whole tokens, for the lines it executes.         *)
(***************************************************************************)
EXTENDS Naturals, Sequences, SequencesExt

CONSTANTS
  SIZE,       \* size of the buffer, 1024
  MAX_ITEMS,  \* 63
  Characters, \* what can be typed
  Segments,   \* the segments to cut up
  Codes       \* what last_exit may be

VARIABLES
  pc,         \* "token", "word", "done"; "overrun" out of the buffer
  typed,      \* the segment as typed
  last_exit,
  mem,        \* the buffer
  p, out, start, quote,
  items,      \* words: a position in mem, or a copy with the ~ expanded
  has_out, out_file, out_append, has_in, in_file   \* redirections, copied

redirs == <<has_out, out_file, out_append, has_in, in_file>>
vars == <<pc, typed, last_exit, mem, p, out, start, quote, items, redirs>>

NUL   == "NUL"
DQ    == "DQ"     \* the double quote
BLANK == " "
ROOT  == "/root"  \* taken for one character
REST  == "REST"   \* what stands in the buffer after the segment and its NUL

ASSUME TokenizerAssumption ==
  /\ SIZE \in Nat /\ MAX_ITEMS \in Nat \ {0} /\ Codes \subseteq 0..255
  /\ NUL \notin Characters
  /\ \A s \in Segments : s \in Seq(Characters) \ {<<>>} /\ Len(s) < SIZE

Delimiters == {BLANK, ">", "<"}

\* The first position from i on in the string m whose character is in S.
Find(m, i, S) == CHOOSE j \in DOMAIN m : /\ j >= i /\ m[j] \in S
                                         /\ \A k \in i..j-1 : m[k] \notin S
SkipBlanks(i) == CHOOSE j \in i..SIZE-1 : /\ mem[j] # BLANK
                                          /\ \A k \in i..j-1 : mem[k] = BLANK

\* The characters from i up to j.
Chars(m, i, j) == [k \in 1..(j - i) |-> m[i + k - 1]]
String(m, i) == Chars(m, i, Find(m, i, {NUL}))

Digit(n) == <<"0", "1", "2", "3", "4", "5", "6", "7", "8", "9">>[n + 1]
Digits(n) == IF n < 10 THEN <<Digit(n)>>
             ELSE IF n < 100 THEN <<Digit(n \div 10), Digit(n % 10)>>
             ELSE <<Digit(n \div 100), Digit((n \div 10) % 10), Digit(n % 10)>>

-----------------------------------------------------------------------------
(* The loop over tokens.                                                   *)

First == SkipBlanks(p)
More  == pc = "token" /\ Len(items) < MAX_ITEMS /\ mem[First] # NUL

\* The end of the line, or as many words as there is room for.
Stop ==
  /\ pc = "token" /\ ~More
  /\ pc' = "done"
  /\ UNCHANGED <<typed, last_exit, mem, p, out, start, quote, items, redirs>>

\* The name is cut off, copied, and the character after it put back and
\* passed over.
Redirect ==
  LET append == mem[First] = ">" /\ mem[First + 1] = ">"
      from == SkipBlanks(First + (IF append THEN 2 ELSE 1))
      end  == Find(mem, from, Delimiters \union {NUL})
      name == Chars(mem, from, end)
  IN  /\ More /\ mem[First] \in {">", "<"}
      /\ p' = IF mem[end] = NUL THEN end ELSE end + 1
      /\ IF mem[First] = ">"
         THEN /\ has_out' = TRUE /\ out_file' = name /\ out_append' = append
              /\ UNCHANGED <<has_in, in_file>>
         ELSE /\ has_in' = TRUE /\ in_file' = name
              /\ UNCHANGED <<has_out, out_file, out_append>>
      /\ UNCHANGED <<pc, typed, last_exit, mem, out, start, quote, items>>

StartWord ==
  /\ More /\ mem[First] \notin {">", "<"}
  /\ pc' = "word"
  /\ p' = First /\ out' = First /\ start' = First /\ quote' = 0
  /\ UNCHANGED <<typed, last_exit, mem, items, redirs>>

-----------------------------------------------------------------------------
(* The loop over the characters of a word.                                 *)

Single == mem[p] = "'" /\ quote # 2
Double == mem[p] = DQ  /\ quote # 1
Ends   == mem[p] = NUL \/ (quote = 0 /\ mem[p] \in Delimiters)
Status == quote = 0 /\ mem[p] = "$" /\ mem[p + 1] = "?"

\* A quote inside quotes of the other kind is copied like any character.
ToggleQuote ==
  /\ pc = "word" /\ (Single \/ Double)
  /\ quote' = IF quote # 0 THEN 0 ELSE IF Single THEN 1 ELSE 2
  /\ p' = p + 1
  /\ UNCHANGED <<pc, typed, last_exit, mem, out, start, items, redirs>>

\* "text" goes to where out points, if that is in the buffer.
Write(text) ==
  IF out + Len(text) <= SIZE
  THEN /\ mem' = [i \in 0..SIZE-1 |-> IF i \in out..(out + Len(text) - 1)
                                      THEN text[i - out + 1] ELSE mem[i]]
       /\ out' = out + Len(text)
       /\ UNCHANGED pc
  ELSE /\ pc' = "overrun" /\ UNCHANGED <<mem, out>>

\* A mistaken ExpandStatus, which nothing uses: only the $ is passed over.
ExpandStatus_dollar ==
  /\ pc = "word" /\ ~Ends /\ Status
  /\ Write(Digits(last_exit))
  /\ p' = p + 1
  /\ UNCHANGED <<typed, last_exit, start, quote, items, redirs>>

ExpandStatus ==
  /\ pc = "word" /\ ~Ends /\ Status
  /\ Write(Digits(last_exit))
  /\ p' = p + 2
  /\ UNCHANGED <<typed, last_exit, start, quote, items, redirs>>

Copy ==
  /\ pc = "word" /\ ~Ends /\ ~Single /\ ~Double /\ ~Status
  /\ Write(<<mem[p]>>)
  /\ p' = p + 1
  /\ UNCHANGED <<typed, last_exit, start, quote, items, redirs>>

\* expand_tilde: ~ and ~/... become a copy; anything else stays in place.
HasTilde(s) == s # <<>> /\ s[1] = "~" /\ (Len(s) = 1 \/ s[2] = "/")
Home(s) == <<ROOT>> \o Tail(s)
Item(m, i) == IF HasTilde(String(m, i))
              THEN [copy |-> Home(String(m, i)), at |-> 0]
              ELSE [copy |-> <<>>, at |-> i]

\* A mistaken EndWord, which nothing uses: the NUL goes where reading stopped.
EndWord_untrimmed ==
  /\ pc = "word" /\ Ends
  /\ mem' = [mem EXCEPT ![p] = NUL]
  /\ p' = IF mem[p] = NUL THEN p ELSE p + 1
  /\ items' = Append(items, Item(mem', start))
  /\ pc' = "token"
  /\ UNCHANGED <<typed, last_exit, out, start, quote, redirs>>

\* The character that ends the word becomes a NUL and is passed over, and so
\* the word ends where writing stopped.
EndWord ==
  /\ pc = "word" /\ Ends
  /\ mem' = [mem EXCEPT ![p] = NUL, ![out] = NUL]
  /\ p' = IF mem[p] = NUL THEN p ELSE p + 1
  /\ items' = Append(items, Item(mem', start))
  /\ pc' = "token"
  /\ UNCHANGED <<typed, last_exit, out, start, quote, redirs>>

-----------------------------------------------------------------------------
\* run_segment calls tokenize on a segment that a NUL cuts off from the rest
\* of the line, which is still to be executed.
Uncut(s) == [i \in 0..SIZE-1 |-> IF i < Len(s) THEN s[i + 1]
                                 ELSE IF i = Len(s) THEN NUL ELSE REST]

Init ==
  /\ typed \in Segments /\ last_exit \in Codes
  /\ mem = Uncut(typed)
  /\ pc = "token" /\ p = 0 /\ out = 0 /\ start = 0 /\ quote = 0
  /\ items = <<>>
  /\ has_out = FALSE /\ out_file = <<>> /\ out_append = FALSE
  /\ has_in = FALSE /\ in_file = <<>>

tokenize ==
  \/ Stop \/ Redirect \/ StartWord
  \/ ToggleQuote \/ ExpandStatus \/ Copy \/ EndWord

Spec == Init /\ [][tokenize]_vars

-----------------------------------------------------------------------------
(* What a line means, by position and without a buffer.                    *)

\* The quote that is open behind each position of a word that starts at i.
OpenQuote(s, i) ==
  LET q[j \in 0..Len(s)] ==
        IF j < i THEN 0
        ELSE IF s[j] = "'" /\ q[j-1] # 2 THEN 1 - q[j-1]
        ELSE IF s[j] = DQ  /\ q[j-1] # 1 THEN 2 - q[j-1]
        ELSE q[j-1]
  IN  q

\* $? outside quotes.
Expands(s, i, j) ==
  /\ j \in i..Len(s)-1 /\ OpenQuote(s, i)[j-1] = 0
  /\ s[j] = "$" /\ s[j+1] = "?"

\* What the character at j of the word stands for.
Meaning(s, i, j, code) ==
  IF \/ s[j] = "'" /\ OpenQuote(s, i)[j-1] # 2
     \/ s[j] = DQ  /\ OpenQuote(s, i)[j-1] # 1
     \/ Expands(s, i, j - 1)
  THEN <<>>
  ELSE IF Expands(s, i, j) THEN Digits(code) ELSE <<s[j]>>

\* What the word stands for up to each position.
Spelt(s, i, code) ==
  LET w[j \in 0..Len(s)] ==
        IF j < i THEN <<>> ELSE w[j-1] \o Meaning(s, i, j, code)
  IN  w

\* The first position from i on that is in S, or the one behind the segment.
FirstIn(s, i, S) ==
  CHOOSE j \in i..Len(s)+1 : j \in S \union {Len(s)+1} /\ \A k \in i..j-1 : k \notin S

Closes(s, i) == {j \in i..Len(s) : OpenQuote(s, i)[j-1] = 0 /\ s[j] \in Delimiters}
Cuts(s)      == {j \in 1..Len(s) : s[j] \in Delimiters}
NoBlanks(s)  == {j \in 1..Len(s) : s[j] # BLANK}

\* The word, or the redirection, that starts at i.
WordAt(s, i, code) ==
  LET e == FirstIn(s, i, Closes(s, i))
      w == Spelt(s, i, code)[e-1]
  IN  [end |-> e, t |-> "word", v |-> IF HasTilde(w) THEN Home(w) ELSE w]

RedirAt(s, i) ==
  LET two == s[i] = ">" /\ i < Len(s) /\ s[i+1] = ">"
      b == FirstIn(s, IF two THEN i + 2 ELSE i + 1, NoBlanks(s))
      e == FirstIn(s, b, Cuts(s))
  IN  [end |-> e, t |-> IF two THEN ">>" ELSE s[i], v |-> SubSeq(s, b, e - 1)]

TokenAt(s, i, code) == IF s[i] \in {">", "<"} THEN RedirAt(s, i) ELSE WordAt(s, i, code)

NoToken == [end |-> 0, t |-> "none", v |-> <<>>]

\* One blank or token more, after r: the words so far, the last redirection of
\* each direction, and where to go on.
Read(s, code, r) ==
  LET tok == TokenAt(s, r.at, code)
  IN  IF r.at > Len(s) THEN r
      ELSE IF s[r.at] = BLANK THEN [r EXCEPT !.at = @ + 1]
      ELSE [at    |-> tok.end,
            words |-> IF tok.t = "word" THEN Append(r.words, tok.v) ELSE r.words,
            out   |-> IF tok.t \in {">", ">>"} THEN tok ELSE r.out,
            inp   |-> IF tok.t = "<" THEN tok ELSE r.inp]

\* What is read of s in each number of steps; with as many as s is long, all.
Reading(s, code) ==
  LET r[k \in 0..Len(s)] ==
        IF k = 0 THEN [at |-> 1, words |-> <<>>, out |-> NoToken, inp |-> NoToken]
        ELSE Read(s, code, r[k-1])
  IN  r

-----------------------------------------------------------------------------
(* Properties.                                                             *)

\* What has not been read is as it was typed, and so is the rest of the line
\* after the segment: out never passes p, and the NULs fall behind p, however
\* quotes, $? and delimiters follow each other.
\* A status of three digits is longer than $? and not covered; see
\* StatusExpands.
UnreadIntact ==
  last_exit < 100 =>
    /\ pc = "word" => start <= out /\ out <= p
    /\ p <= Len(typed)
    /\ \A i \in p..SIZE-1 : mem[i] = Uncut(typed)[i]

Cut(item) == IF item.copy # <<>> THEN item.copy ELSE String(mem, item.at)

\* No > or < stands right after a word or a name, where it would be swallowed.
Spaced(s, code) ==
  LET r == Reading(s, code)
      token(at) == at <= Len(s) /\ s[at] # BLANK
      end(at) == TokenAt(s, at, code).end
  IN  \A k \in 0..Len(s) :
        token(r[k].at) => end(r[k].at) > Len(s) \/ s[end(r[k].at)] = BLANK

MeansTyped ==
  LET r == Reading(typed, last_exit)[Len(typed)]
  IN  Len(r.words) <= MAX_ITEMS =>
        /\ [i \in 1..Len(items) |-> Cut(items[i])] = r.words
        /\ Len(r.words) < MAX_ITEMS =>
             /\ has_out <=> r.out # NoToken
             /\ has_out => out_file = r.out.v /\ (out_append <=> r.out.t = ">>")
             /\ has_in <=> r.inp # NoToken
             /\ has_in => in_file = r.inp.v

\* With the whole segment cut up, every word, read from the buffer where its
\* pointer says, is what the quotes, $? and ~ of the typed line mean, words
\* that came after it included, and the last redirection of each direction
\* has the name and the mode that was typed.
WordsAsTyped ==
  pc = "done" /\ last_exit < 100 /\ Spaced(typed, last_exit) => MeansTyped

\* "$?  last exit status" (README.md): for every status there is.
StatusExpands ==
  /\ pc # "overrun"
  /\ pc = "done" /\ Spaced(typed, last_exit) => MeansTyped
=============================================================================

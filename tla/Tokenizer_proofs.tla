-------------------------- MODULE Tokenizer_proofs --------------------------
(***************************************************************************)
(* tokenize never writes where it has still to read, and the words and     *)
(* redirections it finds are those that the segment means as it was typed, *)
(* for every size of the buffer, every segment and every status of at most *)
(* two digits.                                                             *)
(***************************************************************************)
EXTENDS Tokenizer, NatInduct, SequenceTheorems

\* The length of the segment.
N == Len(typed)

\* Where reading, writing and the word stand, and what lies ahead of them.
Ahead ==
  /\ typed \in Segments
  /\ pc \in {"token", "word", "done"}
  /\ p \in Nat /\ out \in Nat /\ start \in Nat
  /\ p <= N
  /\ pc = "word" => start <= out /\ out <= p
  /\ DOMAIN mem = 0..SIZE-1
  /\ \A i \in p..SIZE-1 : mem[i] = Uncut(typed)[i]

\* The inductive invariant: while the status has two digits at most.
TokInv == last_exit \in Codes /\ (last_exit < 100 => Ahead)

\* The segment ends with the first NUL at or after p that it had at the start.
LEMMA NulAhead ==
  ASSUME Ahead
  PROVE  /\ N \in Nat /\ SIZE \in Nat /\ N < SIZE /\ N \in p..SIZE-1
         /\ mem[N] = NUL
<1>1. typed \in Seq(Characters) /\ N < SIZE /\ SIZE \in Nat
  BY TokenizerAssumption DEF Ahead, N
<1>2. N \in Nat
  BY <1>1 DEF N
<1>3. N \in p..SIZE-1
  BY <1>1, <1>2 DEF Ahead
<1>4. Uncut(typed)[N] = NUL
  BY <1>1, <1>2 DEF Uncut, N
<1> QED BY <1>1, <1>2, <1>3, <1>4 DEF Ahead

\* Looking on from a position that is not past the NUL stops there at the latest.
LEMMA FindStops ==
  ASSUME Ahead, NEW S, NUL \in S, NEW i \in Nat, p <= i, i <= N
  PROVE  /\ Find(mem, i, S) \in i..N /\ mem[Find(mem, i, S)] \in S
         /\ \A k \in i..Find(mem, i, S)-1 : mem[k] \notin S
<1> DEFINE T == {j \in Nat : i <= j /\ j <= SIZE-1 /\ mem[j] \in S}
           Is(j) == /\ j \in DOMAIN mem /\ j >= i /\ mem[j] \in S
                    /\ \A k \in i..j-1 : mem[k] \notin S
<1>1. N \in Nat /\ SIZE \in Nat /\ N < SIZE /\ mem[N] = NUL
  BY NulAhead
<1>2. T \subseteq Nat /\ N \in T
  BY <1>1
<1>3. PICK x \in T : \A y \in T : x <= y
  <2> HIDE DEF T
  <2> QED BY <1>2, LeastNatural
<1>4. Is(x)
  <2>1. ASSUME NEW k \in i..x-1 PROVE mem[k] \notin S
    BY <1>1, <1>3, <2>1
  <2> QED BY <1>1, <1>3, <2>1 DEF Ahead
<1>5. Find(mem, i, S) = CHOOSE j : Is(j)
  BY DEF Find
<1>6. Is(Find(mem, i, S))
  <2> HIDE DEF Is
  <2> QED BY <1>4, <1>5
<1>7. Find(mem, i, S) <= N
  BY <1>1, <1>6 DEF Ahead
<1> QED BY <1>1, <1>6, <1>7 DEF Ahead

\* So does passing over blanks, at what is not one.
LEMMA SkipStops ==
  ASSUME Ahead, NEW i \in Nat, p <= i, i <= N
  PROVE  /\ SkipBlanks(i) \in i..N /\ mem[SkipBlanks(i)] # BLANK
         /\ \A k \in i..SkipBlanks(i)-1 : mem[k] = BLANK
<1> DEFINE T == {j \in Nat : i <= j /\ j <= SIZE-1 /\ mem[j] # BLANK}
           Is(j) == /\ j \in i..SIZE-1 /\ mem[j] # BLANK
                    /\ \A k \in i..j-1 : mem[k] = BLANK
<1>1. N \in Nat /\ SIZE \in Nat /\ N < SIZE /\ mem[N] = NUL /\ NUL # BLANK
  BY NulAhead DEF NUL, BLANK
<1>2. T \subseteq Nat /\ N \in T
  BY <1>1
<1>3. PICK x \in T : \A y \in T : x <= y
  <2> HIDE DEF T
  <2> QED BY <1>2, LeastNatural
<1>4. Is(x)
  <2>1. ASSUME NEW k \in i..x-1 PROVE mem[k] = BLANK
    BY <1>1, <1>3, <2>1
  <2> QED BY <1>1, <1>3, <2>1
<1>5. SkipBlanks(i) = CHOOSE j : Is(j)
  BY DEF SkipBlanks
<1>6. Is(SkipBlanks(i))
  <2> HIDE DEF Is
  <2> QED BY <1>4, <1>5
<1>7. SkipBlanks(i) <= N
  BY <1>1, <1>6
<1> QED BY <1>1, <1>6, <1>7

\* What is not NUL can be passed over.
LEMMA PassOver ==
  ASSUME Ahead, NEW i \in Nat, p <= i, i <= N, mem[i] # NUL
  PROVE  i + 1 <= N
BY NulAhead

\* Text that ends not after q leaves everything from q on.
LEMMA WriteBehind ==
  ASSUME Ahead, NEW text, NEW q \in Nat, Len(text) \in Nat,
         p <= q, q <= N, out + Len(text) <= q, Write(text)
  PROVE  /\ pc' = pc /\ out' = out + Len(text) /\ out' \in Nat
         /\ DOMAIN mem' = 0..SIZE-1
         /\ \A i \in q..SIZE-1 : mem'[i] = Uncut(typed)[i]
<1>1. N \in Nat /\ SIZE \in Nat /\ N < SIZE /\ p \in Nat /\ out \in Nat
  BY NulAhead DEF Ahead
<1>2. out + Len(text) <= SIZE
  BY <1>1
<1>3. /\ mem' = [i \in 0..SIZE-1 |-> IF i \in out..(out + Len(text) - 1)
                                     THEN text[i - out + 1] ELSE mem[i]]
      /\ out' = out + Len(text) /\ pc' = pc
  BY <1>2 DEF Write
<1>4. ASSUME NEW i \in q..SIZE-1 PROVE mem'[i] = mem[i] /\ i \in p..SIZE-1
  BY <1>1, <1>3
<1> QED BY <1>1, <1>3, <1>4 DEF Ahead

\* A status below 100 is no longer than the $? it replaces.
LEMMA DigitsShort ==
  ASSUME NEW n \in Nat, n < 100
  PROVE  Len(Digits(n)) \in {1, 2}
BY DEF Digits

\* The whole segment lies ahead when tokenize begins.
LEMMA TokInvInit == Init => TokInv
<1> SUFFICES ASSUME Init PROVE TokInv
  OBVIOUS
<1>1. typed \in Seq(Characters) /\ Len(typed) \in Nat
  BY TokenizerAssumption DEF Init
<1> QED BY <1>1, TokenizerAssumption DEF Init, TokInv, Ahead, N, Uncut

-----------------------------------------------------------------------------
(* The steps, for a status of at most two digits.                          *)

\* What stays the same for the whole call, and what a move of p ahead keeps.
LEMMA MoveAhead ==
  ASSUME Ahead, UNCHANGED typed, UNCHANGED mem, NEW q \in p..N
  PROVE  /\ q \in Nat /\ N' = N
         /\ DOMAIN mem' = 0..SIZE-1
         /\ \A i \in q..SIZE-1 : mem'[i] = Uncut(typed')[i]
<1>1. N \in Nat /\ SIZE \in Nat /\ p \in Nat
  BY NulAhead DEF Ahead
<1>2. ASSUME NEW i \in q..SIZE-1 PROVE i \in p..SIZE-1
  BY <1>1
<1> QED BY <1>1, <1>2 DEF Ahead, N

\* A name after > or < is read up to the NUL at most.
LEMMA RedirectKeeps == Ahead /\ Redirect => Ahead'
<1> SUFFICES ASSUME Ahead, Redirect PROVE Ahead'
  OBVIOUS
<1> DEFINE append == mem[First] = ">" /\ mem[First + 1] = ">"
           after  == First + (IF append THEN 2 ELSE 1)
           from   == SkipBlanks(after)
           end    == Find(mem, from, Delimiters \union {NUL})
<1>1. N \in Nat /\ p \in Nat /\ p <= N
  BY NulAhead DEF Ahead
<1>2. First \in p..N
  BY <1>1, SkipStops DEF First
<1>3. First \in Nat /\ p <= First /\ First <= N
  BY <1>1, <1>2
<1>4. mem[First] # NUL /\ ">" # NUL
  BY DEF Redirect, More, NUL
<1>5. First + 1 <= N
  BY <1>3, <1>4, PassOver
<1>6. First + 1 \in Nat /\ p <= First + 1
  BY <1>1, <1>3
<1>7. append => (First + 1) + 1 <= N
  BY <1>4, <1>5, <1>6, PassOver
<1>8. after \in Nat /\ p <= after /\ after <= N
  BY <1>1, <1>3, <1>5, <1>7
<1> HIDE DEF append, after
<1>9. from \in after..N
  BY <1>8, SkipStops
<1>10. from \in Nat /\ p <= from /\ from <= N
  BY <1>1, <1>8, <1>9
<1> HIDE DEF from
<1>11. end \in from..N
  BY <1>10, FindStops
<1>12. end \in Nat /\ p <= end /\ end <= N
  BY <1>1, <1>10, <1>11
<1> HIDE DEF end
<1>13. mem[end] # NUL => end + 1 <= N
  BY <1>12, PassOver
<1>14. p' = (IF mem[end] = NUL THEN end ELSE end + 1)
  BY DEF Redirect, append, after, from, end
<1>15. p' \in p..N
  BY <1>1, <1>12, <1>13, <1>14
<1>16. UNCHANGED <<pc, typed, mem, out, start>> /\ pc = "token"
  BY DEF Redirect, More
<1>17. /\ p' \in Nat /\ N' = N /\ DOMAIN mem' = 0..SIZE-1
       /\ \A i \in p'..SIZE-1 : mem'[i] = Uncut(typed')[i]
  BY <1>15, <1>16, MoveAhead
<1> QED BY <1>1, <1>15, <1>16, <1>17 DEF Ahead

\* A word is written from where it is read.
LEMMA StartWordKeeps == Ahead /\ StartWord => Ahead'
<1> SUFFICES ASSUME Ahead, StartWord PROVE Ahead'
  OBVIOUS
<1>1. N \in Nat /\ p \in Nat /\ p <= N
  BY NulAhead DEF Ahead
<1>2. First \in p..N
  BY <1>1, SkipStops DEF First
<1>3. p' = First /\ out' = First /\ start' = First /\ pc' = "word"
  BY DEF StartWord
<1>4. UNCHANGED <<typed, mem>>
  BY DEF StartWord
<1>5. /\ First \in Nat /\ N' = N /\ DOMAIN mem' = 0..SIZE-1
      /\ \A i \in First..SIZE-1 : mem'[i] = Uncut(typed')[i]
  BY <1>2, <1>4, MoveAhead
<1> QED BY <1>1, <1>2, <1>3, <1>4, <1>5 DEF Ahead

\* A quote is not the NUL and is passed over without writing.
LEMMA ToggleQuoteKeeps == Ahead /\ ToggleQuote => Ahead'
<1> SUFFICES ASSUME Ahead, ToggleQuote PROVE Ahead'
  OBVIOUS
<1>1. N \in Nat /\ p \in Nat /\ p <= N
  BY NulAhead DEF Ahead
<1>2. mem[p] # NUL
  BY DEF ToggleQuote, Single, Double, NUL, DQ
<1>3. p + 1 \in p..N
  BY <1>1, <1>2, PassOver
<1>4. /\ p' = p + 1 /\ pc = "word" /\ pc' = "word"
      /\ UNCHANGED <<typed, mem, out, start>>
  BY DEF ToggleQuote
<1>5. /\ p' \in Nat /\ N' = N /\ DOMAIN mem' = 0..SIZE-1
      /\ \A i \in p'..SIZE-1 : mem'[i] = Uncut(typed')[i]
  BY <1>3, <1>4, MoveAhead
<1> QED BY <1>1, <1>3, <1>4, <1>5 DEF Ahead

\* A character is written no further than it was read.
LEMMA CopyKeeps == Ahead /\ Copy => Ahead'
<1> SUFFICES ASSUME Ahead, Copy PROVE Ahead'
  OBVIOUS
<1>1. /\ N \in Nat /\ p \in Nat /\ p <= N /\ pc = "word"
      /\ out \in Nat /\ start \in Nat /\ start <= out /\ out <= p
  BY NulAhead DEF Ahead, Copy
<1>2. mem[p] # NUL
  BY DEF Copy, Ends
<1>3. p + 1 <= N /\ p + 1 \in Nat
  BY <1>1, <1>2, PassOver
<1>4. Len(<<mem[p]>>) = 1
  OBVIOUS
<1>5. Write(<<mem[p]>>) /\ p' = p + 1 /\ UNCHANGED <<typed, start>>
  BY DEF Copy
<1> DEFINE text == <<mem[p]>>
<1>6. /\ Len(text) \in Nat /\ out + Len(text) <= p + 1 /\ p <= p + 1 /\ Write(text)
      /\ Len(text) = 1
  BY <1>1, <1>4, <1>5
<1> HIDE DEF text
<1>7. /\ pc' = pc /\ out' = out + Len(text) /\ out' \in Nat
      /\ DOMAIN mem' = 0..SIZE-1
      /\ \A i \in p+1..SIZE-1 : mem'[i] = Uncut(typed)[i]
  BY <1>3, <1>6, WriteBehind
<1> QED BY <1>1, <1>3, <1>5, <1>6, <1>7 DEF Ahead, N

\* Two digits at most take the place of the two characters of $?.
LEMMA ExpandStatusKeeps ==
  ASSUME Ahead, ExpandStatus, last_exit \in Nat, last_exit < 100
  PROVE  Ahead'
<1> DEFINE text == Digits(last_exit)
<1>1. /\ N \in Nat /\ p \in Nat /\ p <= N /\ pc = "word"
      /\ out \in Nat /\ start \in Nat /\ start <= out /\ out <= p
  BY NulAhead DEF Ahead, ExpandStatus
<1>2. mem[p] # NUL /\ mem[p + 1] # NUL
  BY DEF ExpandStatus, Status, Ends, NUL
<1>3. p + 1 <= N /\ p + 1 \in Nat /\ p <= p + 1
  BY <1>1, <1>2, PassOver
<1>4. (p + 1) + 1 <= N
  BY <1>2, <1>3, PassOver
<1>5. p + 2 <= N /\ p + 2 \in Nat
  BY <1>1, <1>4
<1>6. Len(text) = 1 \/ Len(text) = 2
  BY DigitsShort
<1>7. Write(text) /\ p' = p + 2 /\ UNCHANGED <<typed, start>>
  BY DEF ExpandStatus
<1> HIDE DEF text
<1>8. Len(text) \in Nat /\ out + Len(text) <= p + 2 /\ p <= p + 2
  <2>1. CASE Len(text) = 1
    BY <1>1, <2>1
  <2>2. CASE Len(text) = 2
    BY <1>1, <2>2
  <2> QED BY <1>6, <2>1, <2>2
<1>9. /\ pc' = pc /\ out' = out + Len(text) /\ out' \in Nat
      /\ DOMAIN mem' = 0..SIZE-1
      /\ \A i \in p+2..SIZE-1 : mem'[i] = Uncut(typed)[i]
  BY <1>5, <1>7, <1>8, WriteBehind
<1> QED BY <1>1, <1>5, <1>7, <1>8, <1>9 DEF Ahead, N

\* The NULs fall at p and behind it, and at p only if it is then passed over
\* or was the NUL.
LEMMA EndWordKeeps == Ahead /\ EndWord => Ahead'
<1> SUFFICES ASSUME Ahead, EndWord PROVE Ahead'
  OBVIOUS
<1>1. /\ N \in Nat /\ p \in Nat /\ p <= N /\ pc = "word" /\ SIZE \in Nat /\ N < SIZE
      /\ out \in Nat /\ start \in Nat /\ start <= out /\ out <= p
      /\ DOMAIN mem = 0..SIZE-1
  BY NulAhead DEF Ahead, EndWord
<1>2. /\ mem' = [mem EXCEPT ![p] = NUL, ![out] = NUL]
      /\ p' = (IF mem[p] = NUL THEN p ELSE p + 1)
      /\ pc' = "token" /\ UNCHANGED <<typed, out, start>>
  BY DEF EndWord
<1>3. mem[p] # NUL => p + 1 <= N
  BY <1>1, PassOver
<1>4. p' \in Nat /\ p <= p' /\ p' <= N
  BY <1>1, <1>2, <1>3
<1>5. DOMAIN mem' = 0..SIZE-1
  BY <1>1, <1>2
<1>6. ASSUME NEW i \in p'..SIZE-1 PROVE mem'[i] = Uncut(typed)[i]
  <2>1. i \in p..SIZE-1 /\ i \in 0..SIZE-1
    BY <1>1, <1>4
  <2>2. mem[i] = Uncut(typed)[i]
    BY <2>1 DEF Ahead
  <2>3. CASE mem[p] = NUL
    <3>1. i = p \/ i = out => i = p
      BY <1>1, <2>1
    <3> QED BY <1>1, <1>2, <2>1, <2>2, <2>3, <3>1
  <2>4. CASE mem[p] # NUL
    <3>1. i # p /\ i # out
      BY <1>1, <1>2, <1>4, <2>4
    <3> QED BY <1>1, <1>2, <2>1, <2>2, <3>1
  <2> QED BY <2>3, <2>4
<1> QED BY <1>1, <1>2, <1>4, <1>5, <1>6 DEF Ahead, N

\* Every step keeps what lies ahead.
LEMMA TokInvStep == TokInv /\ [tokenize]_vars => TokInv'
<1> SUFFICES ASSUME TokInv, [tokenize]_vars PROVE TokInv'
  OBVIOUS
<1>1. last_exit \in Codes /\ last_exit \in Nat
  BY TokenizerAssumption DEF TokInv
<1>2. UNCHANGED last_exit
  BY DEF tokenize, vars, Stop, Redirect, StartWord, ToggleQuote, ExpandStatus,
         Copy, EndWord
<1> SUFFICES ASSUME last_exit < 100 PROVE Ahead'
  BY <1>1, <1>2 DEF TokInv
<1>3. Ahead
  BY DEF TokInv
<1>4. CASE Stop
  BY <1>3, <1>4 DEF Stop, Ahead, N, Uncut
<1>5. CASE Redirect
  BY <1>3, <1>5, RedirectKeeps
<1>6. CASE StartWord
  BY <1>3, <1>6, StartWordKeeps
<1>7. CASE ToggleQuote
  BY <1>3, <1>7, ToggleQuoteKeeps
<1>8. CASE ExpandStatus
  BY <1>1, <1>3, <1>8, ExpandStatusKeeps
<1>9. CASE Copy
  BY <1>3, <1>9, CopyKeeps
<1>10. CASE EndWord
  BY <1>3, <1>10, EndWordKeeps
<1>11. CASE UNCHANGED vars
  BY <1>3, <1>11 DEF vars, Ahead, N, Uncut
<1> QED BY <1>4, <1>5, <1>6, <1>7, <1>8, <1>9, <1>10, <1>11 DEF tokenize

\* Cutting up a segment leaves what is still to be read, and the rest of the
\* command line behind it, as it was typed (src/shell.c, tokenize).
THEOREM UnreadStaysIntact == Spec => []UnreadIntact
<1>1. TokInv => UnreadIntact
  BY DEF TokInv, Ahead, N, UnreadIntact
<1> QED BY <1>1, TokInvInit, TokInvStep, PTL DEF Spec

-----------------------------------------------------------------------------
(* What a segment means, read by position.                                 *)

\* What words are made of, and what with a ~ expanded.
Text == Characters \union {"0", "1", "2", "3", "4", "5", "6", "7", "8", "9"}
Alphabet == Text \union {ROOT}

\* The quote is one of three, none before the word, and changes at a quote that
\* is not inside the other kind.
LEMMA QuoteIs ==
  ASSUME NEW s \in Seq(Characters), NEW i \in Nat \ {0}
  PROVE  LET q == OpenQuote(s, i)
         IN  /\ q \in [0..Len(s) -> 0..2]
             /\ \A j \in 0..Len(s) : j < i => q[j] = 0
             /\ \A j \in 1..Len(s) : j >= i =>
                  q[j] = IF s[j] = "'" /\ q[j-1] # 2 THEN 1 - q[j-1]
                         ELSE IF s[j] = DQ  /\ q[j-1] # 1 THEN 2 - q[j-1]
                         ELSE q[j-1]
<1> DEFINE n == Len(s)
           Then(c, j) == IF j < i THEN 0
                         ELSE IF s[j] = "'" /\ c # 2 THEN 1 - c
                         ELSE IF s[j] = DQ  /\ c # 1 THEN 2 - c
                         ELSE c
           st == [x \in (0..2) \X (1..n) |-> Then(x[1], x[2])]
           q == OpenQuote(s, i)
<1>1. n \in Nat
  OBVIOUS
<1>2. ASSUME NEW c \in 0..2, NEW j PROVE Then(c, j) \in 0..2
  OBVIOUS
<1>3. st \in [(0..2) \X (1..n) -> 0..2]
  <2> HIDE DEF Then
  <2> QED BY <1>2
<1>4. PICK g \in [0..n -> 0..2] : g[0] = 0 /\ \A j \in 1..n : g[j] = st[<<g[j-1], j>>]
  <2> HIDE DEF st
  <2>1. 0 \in 0..2
    OBVIOUS
  <2>2. Walks(0..2, 0, n, st) # {}
    BY <1>1, <1>3, <2>1, Iterate
  <2> QED BY <2>2 DEF Walks
<1>5. ASSUME NEW j \in 1..n PROVE g[j] = Then(g[j-1], j)
  <2>1. g[j-1] \in 0..2
    BY <1>1
  <2> HIDE DEF Then
  <2> QED BY <1>4, <2>1
<1>6. g = [j \in 0..n |-> Then(g[j-1], j)]
  <2>1. \A j \in 0..n : j = 0 \/ j \in 1..n
    BY <1>1
  <2>2. Then(g[0-1], 0) = 0
    OBVIOUS
  <2> HIDE DEF Then
  <2> QED BY <1>4, <1>5, <2>1, <2>2
<1>7. q = CHOOSE h : h = [j \in 0..n |-> Then(h[j-1], j)]
  BY DEF OpenQuote
<1>8. q = [j \in 0..n |-> Then(q[j-1], j)]
  <2> HIDE DEF Then, q
  <2> QED BY <1>6, <1>7
<1> HIDE DEF q
<1>9. ASSUME NEW j \in 0..n PROVE q[j] = Then(q[j-1], j)
  BY <1>8
<1>10. \A j \in 0..n : j < i => q[j] = 0
  BY <1>9
<1>11. 0..n \subseteq {j \in 0..n : q[j] \in 0..2}
  <2> DEFINE S == {j \in 0..n : q[j] \in 0..2}
  <2>1. 0 \in S
    BY <1>1, <1>10
  <2>2. ASSUME NEW j \in 1..n, j - 1 \in S PROVE j \in S
    <3> HIDE DEF Then
    <3>1. j \in 0..n /\ q[j-1] \in 0..2
      BY <2>2
    <3> QED BY <1>2, <1>9, <3>1
  <2> HIDE DEF S
  <2>3. 0..n \subseteq S
    BY <1>1, <2>1, <2>2, InductTo
  <2> QED BY <2>3 DEF S
<1>12. q \in [0..n -> 0..2]
  <2> HIDE DEF Then
  <2> QED BY <1>8, <1>11
<1>13. ASSUME NEW j \in 1..n, j >= i
       PROVE  q[j] = IF s[j] = "'" /\ q[j-1] # 2 THEN 1 - q[j-1]
                     ELSE IF s[j] = DQ  /\ q[j-1] # 1 THEN 2 - q[j-1]
                     ELSE q[j-1]
  <2>1. j \in 0..n /\ ~(j < i)
    BY <1>1, <1>13
  <2>2. q[j] = Then(q[j-1], j)
    BY <1>9, <2>1
  <2> QED BY <2>1, <2>2
<1> QED BY <1>10, <1>12, <1>13 DEF q

\* What stands for a character is made of characters that words are made of.
LEMMA MeaningType ==
  ASSUME NEW s \in Seq(Characters), NEW i, NEW j \in 1..Len(s), NEW code \in Nat, code < 100
  PROVE  Meaning(s, i, j, code) \in Seq(Text)
<1>1. s[j] \in Text
  BY DEF Text
<1>2. Digits(code) \in Seq(Text)
  <2>1. ASSUME NEW d \in 0..9 PROVE Digit(d) \in Text
    BY DEF Digit, Text
  <2> HIDE DEF Text
  <2>2. CASE code < 10
    BY <2>1, <2>2 DEF Digits
  <2>3. CASE ~(code < 10)
    <3>1. code \div 10 \in 0..9 /\ code % 10 \in 0..9
      BY <2>3
    <3> QED BY <2>1, <2>3, <3>1 DEF Digits
  <2> QED BY <2>2, <2>3
<1>3. <<>> \in Seq(Text) /\ <<s[j]>> \in Seq(Text)
  BY <1>1
<1> QED BY <1>2, <1>3 DEF Meaning

\* A word is empty before it starts and longer by what each character means.
LEMMA SpeltIs ==
  ASSUME NEW s \in Seq(Characters), NEW i \in Nat \ {0}, NEW code \in Nat, code < 100
  PROVE  LET w == Spelt(s, i, code)
         IN  /\ w \in [0..Len(s) -> Seq(Text)]
             /\ \A j \in 0..Len(s) : j < i => w[j] = <<>>
             /\ \A j \in 1..Len(s) : j >= i => w[j] = w[j-1] \o Meaning(s, i, j, code)
<1> DEFINE n == Len(s)
           D == Seq(Text)
           M(j) == Meaning(s, i, j, code)
           Then(c, j) == IF j < i THEN <<>> ELSE c \o M(j)
           st == [x \in D \X (1..n) |-> Then(x[1], x[2])]
           w == Spelt(s, i, code)
<1>1. n \in Nat /\ <<>> \in D
  OBVIOUS
<1>2. ASSUME NEW c \in D, NEW j \in 1..n PROVE Then(c, j) \in D
  <2>1. M(j) \in Seq(Text)
    BY MeaningType
  <2> HIDE DEF M
  <2> QED BY <2>1
<1>3. st \in [D \X (1..n) -> D]
  <2> HIDE DEF Then, D
  <2> QED BY <1>2
<1>4. PICK g \in [0..n -> D] : g[0] = <<>> /\ \A j \in 1..n : g[j] = st[<<g[j-1], j>>]
  <2> HIDE DEF st, D
  <2>1. Walks(D, <<>>, n, st) # {}
    BY <1>1, <1>3, Iterate
  <2> QED BY <2>1 DEF Walks
<1> HIDE DEF D
<1>5. ASSUME NEW j \in 1..n PROVE g[j] = Then(g[j-1], j)
  <2>1. g[j-1] \in D
    BY <1>1
  <2> HIDE DEF Then
  <2> QED BY <1>4, <2>1
<1>6. g = [j \in 0..n |-> Then(g[j-1], j)]
  <2>1. \A j \in 0..n : j = 0 \/ j \in 1..n
    BY <1>1
  <2>2. Then(g[0-1], 0) = <<>>
    OBVIOUS
  <2> HIDE DEF Then
  <2> QED BY <1>4, <1>5, <2>1, <2>2
<1>7. w = CHOOSE h : h = [j \in 0..n |-> Then(h[j-1], j)]
  BY DEF Spelt
<1>8. w = [j \in 0..n |-> Then(w[j-1], j)]
  <2> HIDE DEF Then, w
  <2> QED BY <1>6, <1>7
<1> HIDE DEF w
<1>9. ASSUME NEW j \in 0..n PROVE w[j] = Then(w[j-1], j)
  BY <1>8
<1>10. \A j \in 0..n : j < i => w[j] = <<>>
  BY <1>9
<1>11. 0..n \subseteq {j \in 0..n : w[j] \in D}
  <2> DEFINE S == {j \in 0..n : w[j] \in D}
  <2>1. 0 \in S
    BY <1>1, <1>10
  <2>2. ASSUME NEW j \in 1..n, j - 1 \in S PROVE j \in S
    <3> HIDE DEF Then
    <3>1. j \in 0..n /\ w[j-1] \in D
      BY <2>2
    <3> QED BY <1>2, <1>9, <3>1
  <2> HIDE DEF S
  <2>3. 0..n \subseteq S
    BY <1>1, <2>1, <2>2, InductTo
  <2> QED BY <2>3 DEF S
<1>12. w \in [0..n -> D]
  <2> HIDE DEF Then
  <2> QED BY <1>8, <1>11
<1>13. ASSUME NEW j \in 1..n, j >= i PROVE w[j] = w[j-1] \o M(j)
  <2>1. j \in 0..n /\ ~(j < i)
    BY <1>1, <1>13
  <2>2. w[j] = Then(w[j-1], j)
    BY <1>9, <2>1
  <2> QED BY <2>1, <2>2
<1> QED BY <1>10, <1>12, <1>13 DEF w, D

\* The first position of a set, or the end, is there and is the only one.
LEMMA FirstInIs ==
  ASSUME NEW s, Len(s) \in Nat, NEW i \in 1..Len(s)+1, NEW S
  PROVE  LET f == FirstIn(s, i, S)
         IN  /\ f \in i..Len(s)+1 /\ f \in S \union {Len(s)+1}
             /\ \A k \in i..f-1 : k \notin S
             /\ \A j \in i..Len(s)+1 :
                  j \in S \union {Len(s)+1} /\ (\A k \in i..j-1 : k \notin S) => j = f
<1> DEFINE n == Len(s)
           T == {j \in i..n+1 : j \in S \union {n+1}}
           Is(j) == j \in S \union {n+1} /\ \A k \in i..j-1 : k \notin S
           f == FirstIn(s, i, S)
<1>1. T \subseteq Nat /\ n + 1 \in T
  OBVIOUS
<1>2. PICK x \in T : \A y \in T : x <= y
  <2> HIDE DEF T
  <2> QED BY <1>1, LeastNatural
<1>3. x \in i..n+1 /\ Is(x)
  <2>1. ASSUME NEW k \in i..x-1 PROVE k \notin S
    BY <1>2, <2>1
  <2> QED BY <1>2, <2>1
<1>4. f = CHOOSE j \in i..n+1 : Is(j)
  BY DEF FirstIn
<1>5. f \in i..n+1 /\ Is(f)
  <2> HIDE DEF Is, f
  <2> QED BY <1>3, <1>4
<1> HIDE DEF f
<1>6. ASSUME NEW j \in i..n+1, Is(j) PROVE j = f
  <2>1. ASSUME NEW a \in i..n+1, NEW b \in i..n+1, Is(a), Is(b), a < b PROVE FALSE
    <3>1. a \in S /\ a \in i..b-1
      BY <2>1
    <3> QED BY <2>1, <3>1
  <2>2. j < f \/ f < j \/ j = f
    BY <1>5
  <2> HIDE DEF Is
  <2> QED BY <1>5, <1>6, <2>1, <2>2
<1> QED BY <1>5, <1>6 DEF f

\* A token, and what is read of a segment.
Tok == [end : Nat, t : {"word", ">", ">>", "<", "none"}, v : Seq(Alphabet)]
Readings(n) == [at : 1..n+1, words : Seq(Seq(Alphabet)), out : Tok, inp : Tok]

\* A word is made of what its characters mean, and has more than one or none.
LEMMA WordIs ==
  ASSUME NEW s \in Seq(Characters), NEW i \in 1..Len(s), NEW code \in Nat, code < 100,
         s[i] \notin Delimiters
  PROVE  LET tok == WordAt(s, i, code)
         IN  tok \in Tok /\ tok.end \in i+1..Len(s)+1 /\ tok.t = "word"
<1> DEFINE n == Len(s)
           e == FirstIn(s, i, Closes(s, i))
           w == Spelt(s, i, code)[e-1]
<1>1. n \in Nat /\ i \in 1..n+1 /\ i \in Nat \ {0}
  OBVIOUS
<1>2. e \in i..n+1 /\ e \in Closes(s, i) \union {n+1}
  BY <1>1, FirstInIs
<1>3. i \notin Closes(s, i)
  BY DEF Closes
<1> HIDE DEF e
<1>4. e \in i+1..n+1 /\ e - 1 \in 0..n /\ e \in Nat
  BY <1>1, <1>2, <1>3
<1>5. w \in Seq(Text)
  <2>1. Spelt(s, i, code) \in [0..n -> Seq(Text)]
    BY <1>1, SpeltIs
  <2> QED BY <1>4, <2>1
<1>6. (IF HasTilde(w) THEN Home(w) ELSE w) \in Seq(Alphabet)
  <2> HIDE DEF w
  <2>1. w \in Seq(Alphabet) /\ ROOT \in Alphabet
    BY <1>5 DEF Alphabet
  <2>2. ASSUME HasTilde(w) PROVE Home(w) \in Seq(Alphabet)
    <3>1. w # <<>>
      BY <2>2 DEF HasTilde
    <3>2. Tail(w) \in Seq(Alphabet)
      BY <2>1, <3>1
    <3>3. <<ROOT>> \in Seq(Alphabet)
      BY <2>1
    <3> HIDE DEF ROOT
    <3> QED BY <3>2, <3>3 DEF Home
  <2> QED BY <2>1, <2>2
<1>7. WordAt(s, i, code) = [end |-> e, t |-> "word", v |-> IF HasTilde(w) THEN Home(w) ELSE w]
  BY DEF WordAt, e
<1> HIDE DEF w
<1> QED BY <1>4, <1>6, <1>7 DEF Tok

\* The name of a redirection stands behind it.
LEMMA RedirIs ==
  ASSUME NEW s \in Seq(Characters), NEW i \in 1..Len(s), s[i] \in {">", "<"}
  PROVE  LET tok == RedirAt(s, i)
         IN  /\ tok \in Tok /\ tok.end \in i+1..Len(s)+1 /\ tok.t \in {">", ">>", "<"}
             /\ tok.t = "<" <=> s[i] = "<"
<1> DEFINE n == Len(s)
           two == s[i] = ">" /\ i < n /\ s[i+1] = ">"
           a == IF two THEN i + 2 ELSE i + 1
           b == FirstIn(s, a, NoBlanks(s))
           e == FirstIn(s, b, Cuts(s))
<1>1. n \in Nat /\ a \in i+1..n+1 /\ a \in 1..n+1
  OBVIOUS
<1>2. b \in a..n+1
  <2> HIDE DEF a
  <2> QED BY <1>1, FirstInIs
<1>3. b \in i+1..n+1 /\ b \in 1..n+1
  <2> HIDE DEF a, b
  <2> QED BY <1>1, <1>2
<1>4. e \in b..n+1
  <2> HIDE DEF b
  <2> QED BY <1>1, <1>3, FirstInIs
<1>5. e \in i+1..n+1 /\ e \in Nat /\ e - 1 <= n
  <2> HIDE DEF b, e
  <2> QED BY <1>1, <1>3, <1>4
<1>6. SubSeq(s, b, e - 1) \in Seq(Alphabet)
  <2> HIDE DEF b, e
  <2>1. b \in Int /\ e - 1 \in Int
    BY <1>3, <1>5
  <2>2. ASSUME NEW j \in b..e-1 PROVE s[j] \in Alphabet
    <3>1. j \in 1..n
      BY <1>1, <1>3, <1>5
    <3>2. s[j] \in Characters
      BY <3>1
    <3> QED BY <3>2 DEF Alphabet, Text
  <2> QED BY <2>1, <2>2, SubSeqProperties
<1>7. RedirAt(s, i) = [end |-> e, t |-> IF two THEN ">>" ELSE s[i], v |-> SubSeq(s, b, e - 1)]
  BY DEF RedirAt
<1>8. (IF two THEN ">>" ELSE s[i]) \in {">", ">>", "<"}
  OBVIOUS
<1>9. (IF two THEN ">>" ELSE s[i]) = "<" <=> s[i] = "<"
  OBVIOUS
<1> HIDE DEF two, b, e
<1> QED BY <1>5, <1>6, <1>7, <1>8, <1>9 DEF Tok

\* One step more stays in the segment, and goes on in it unless it is at its end.
LEMMA ReadIs ==
  ASSUME NEW s \in Seq(Characters), NEW code \in Nat, code < 100,
         NEW r \in Readings(Len(s))
  PROVE  LET x == Read(s, code, r)
         IN  /\ x \in Readings(Len(s))
             /\ r.at = Len(s) + 1 => x = r
             /\ r.at <= Len(s) => x.at > r.at
             /\ Len(x.words) >= Len(r.words)
             /\ \A i \in 1..Len(r.words) : x.words[i] = r.words[i]
<1> DEFINE n == Len(s)
           tok == TokenAt(s, r.at, code)
<1>1. /\ n \in Nat /\ r.at \in 1..n+1 /\ r.words \in Seq(Seq(Alphabet))
      /\ r.out \in Tok /\ r.inp \in Tok
  BY DEF Readings
<1>2. CASE r.at > n
  <2>1. Read(s, code, r) = r
    BY <1>2 DEF Read
  <2>2. Len(r.words) \in Nat
    BY <1>1
  <2> QED BY <1>1, <1>2, <2>1, <2>2
<1>3. CASE r.at <= n /\ s[r.at] = BLANK
  <2> DEFINE x == [r EXCEPT !.at = r.at + 1]
  <2>1. Read(s, code, r) = x
    BY <1>1, <1>3 DEF Read
  <2>2. r.at + 1 \in 1..n+1
    BY <1>1, <1>3
  <2>3. x \in Readings(n) /\ x.at = r.at + 1 /\ x.words = r.words
    BY <2>2 DEF Readings
  <2>4. Len(r.words) \in Nat
    BY <1>1
  <2> HIDE DEF x
  <2> QED BY <1>1, <1>3, <2>1, <2>3, <2>4
<1>4. CASE r.at <= n /\ s[r.at] # BLANK
  <2> DEFINE x == [at    |-> tok.end,
                   words |-> IF tok.t = "word" THEN Append(r.words, tok.v) ELSE r.words,
                   out   |-> IF tok.t \in {">", ">>"} THEN tok ELSE r.out,
                   inp   |-> IF tok.t = "<" THEN tok ELSE r.inp]
  <2>1. Read(s, code, r) = x
    BY <1>1, <1>4 DEF Read
  <2>2. tok \in Tok /\ tok.end \in r.at+1..n+1
    <3>1. r.at \in 1..n
      BY <1>1, <1>4
    <3>2. CASE s[r.at] \in {">", "<"}
      BY <3>1, <3>2, RedirIs DEF TokenAt
    <3>3. CASE s[r.at] \notin {">", "<"}
      BY <1>4, <3>1, <3>3, WordIs DEF TokenAt, Delimiters
    <3> QED BY <3>2, <3>3
  <2> HIDE DEF tok
  <2>3. x.words \in Seq(Seq(Alphabet)) /\ Len(x.words) >= Len(r.words)
        /\ \A i \in 1..Len(r.words) : x.words[i] = r.words[i]
    <3>1. tok.v \in Seq(Alphabet)
      BY <2>2 DEF Tok
    <3> QED BY <1>1, <3>1
  <2>4. x.at \in 1..n+1 /\ x.at > r.at /\ x.at = tok.end
    BY <1>1, <2>2
  <2>5. x.out \in Tok /\ x.inp \in Tok
    BY <1>1, <2>2
  <2>6. x \in Readings(n)
    BY <2>3, <2>4, <2>5 DEF Readings
  <2> HIDE DEF x
  <2> QED BY <1>1, <1>4, <2>1, <2>3, <2>4, <2>6
<1> QED BY <1>1, <1>2, <1>3, <1>4

\* Reading starts before the segment with nothing found and goes on step by step.
LEMMA ReadingIs ==
  ASSUME NEW s \in Seq(Characters), NEW code \in Nat, code < 100
  PROVE  LET r == Reading(s, code)
         IN  /\ r \in [0..Len(s) -> Readings(Len(s))]
             /\ r[0] = [at |-> 1, words |-> <<>>, out |-> NoToken, inp |-> NoToken]
             /\ \A k \in 1..Len(s) : r[k] = Read(s, code, r[k-1])
<1> DEFINE n == Len(s)
           D == Readings(n)
           a == [at |-> 1, words |-> <<>>, out |-> NoToken, inp |-> NoToken]
           Then(c, j) == IF j = 0 THEN a ELSE Read(s, code, c)
           st == [x \in D \X (1..n) |-> Read(s, code, x[1])]
           r == Reading(s, code)
<1>1. n \in Nat /\ a \in D
  <2>1. NoToken \in Tok
    BY DEF NoToken, Tok
  <2> HIDE DEF NoToken
  <2> QED BY <2>1 DEF Readings
<1>2. \A c \in D : Read(s, code, c) \in D
  BY ReadIs
<1>3. st \in [D \X (1..n) -> D]
  <2> HIDE DEF D
  <2> QED BY <1>2
<1> HIDE DEF D, a
<1>4. PICK g \in [0..n -> D] : g[0] = a /\ \A j \in 1..n : g[j] = st[<<g[j-1], j>>]
  <2> HIDE DEF st
  <2>1. Walks(D, a, n, st) # {}
    BY <1>1, <1>3, Iterate
  <2> QED BY <2>1 DEF Walks
<1>5. ASSUME NEW j \in 1..n PROVE g[j] = Read(s, code, g[j-1])
  <2>1. g[j-1] \in D
    BY <1>1
  <2> QED BY <1>4, <2>1
<1>6. g = [j \in 0..n |-> Then(g[j-1], j)]
  <2>1. \A j \in 0..n : j = 0 \/ j \in 1..n
    BY <1>1
  <2> QED BY <1>4, <1>5, <2>1
<1>7. r = CHOOSE h : h = [j \in 0..n |-> Then(h[j-1], j)]
  BY DEF Reading, a
<1>8. r = [j \in 0..n |-> Then(r[j-1], j)]
  <2> HIDE DEF Then, r
  <2> QED BY <1>6, <1>7
<1> HIDE DEF r
<1>9. ASSUME NEW j \in 0..n PROVE r[j] = Then(r[j-1], j)
  BY <1>8
<1>10. r[0] = a /\ \A k \in 1..n : r[k] = Read(s, code, r[k-1])
  <2>1. 0 \in 0..n /\ \A k \in 1..n : k \in 0..n /\ k # 0
    BY <1>1
  <2> QED BY <1>9, <2>1
<1>11. 0..n \subseteq {j \in 0..n : r[j] \in D}
  <2> DEFINE S == {j \in 0..n : r[j] \in D}
  <2>1. 0 \in S
    BY <1>1, <1>10
  <2>2. ASSUME NEW j \in 1..n, j - 1 \in S PROVE j \in S
    <3>1. j \in 0..n /\ r[j-1] \in D
      BY <2>2
    <3> QED BY <1>2, <1>10, <3>1
  <2> HIDE DEF S
  <2>3. 0..n \subseteq S
    BY <1>1, <2>1, <2>2, InductTo
  <2> QED BY <2>3 DEF S
<1>12. r \in [0..n -> D]
  <2> HIDE DEF Then
  <2> QED BY <1>8, <1>11
<1> QED BY <1>10, <1>12 DEF r, a, D

\* One step on from a place that j steps led to.
LEMMA Further ==
  ASSUME NEW n \in Nat, NEW j \in 1..n, NEW u \in 1..n+1, NEW v \in 1..n+1,
         u = n + 1 => v = u, u <= n => v > u, u >= (j - 1) + 1 \/ u = n + 1
  PROVE  v >= j + 1 \/ v = n + 1
OBVIOUS

\* Until it is at the end, every step gets it further.
LEMMA GoesOn ==
  ASSUME NEW s \in Seq(Characters), NEW code \in Nat, code < 100,
         NEW k \in 0..Len(s), Reading(s, code)[k].at <= Len(s)
  PROVE  /\ k + 1 \in 0..Len(s)
         /\ Reading(s, code)[k+1] = Read(s, code, Reading(s, code)[k])
<1> DEFINE n == Len(s)
           r == Reading(s, code)
           S == {j \in 0..n : r[j].at >= j + 1 \/ r[j].at = n + 1}
<1>1. /\ n \in Nat /\ r \in [0..n -> Readings(n)] /\ r[0].at = 1
      /\ \A j \in 1..n : r[j] = Read(s, code, r[j-1])
  BY ReadingIs
<1> HIDE DEF r
<1>2. ASSUME NEW j \in 0..n PROVE r[j].at \in 1..n+1
  BY <1>1 DEF Readings
<1>3. 0 \in S
  BY <1>1
<1>4. ASSUME NEW j \in 1..n, j - 1 \in S PROVE j \in S
  <2>1. j - 1 \in 0..n /\ j \in 0..n /\ r[j-1] \in Readings(n) /\ r[j] = Read(s, code, r[j-1])
    BY <1>1, <1>4
  <2>2. r[j-1].at = n + 1 => r[j] = r[j-1]
    BY <2>1, ReadIs
  <2>3. r[j-1].at <= n => r[j].at > r[j-1].at
    BY <2>1, ReadIs
  <2>4. r[j-1].at \in 1..n+1 /\ r[j].at \in 1..n+1
    BY <1>2, <2>1
  <2>5. r[j-1].at >= (j - 1) + 1 \/ r[j-1].at = n + 1
    BY <1>4
  <2> DEFINE u == r[j-1].at
             v == r[j].at
  <2>6. /\ u \in 1..n+1 /\ v \in 1..n+1 /\ (u = n + 1 => v = u) /\ (u <= n => v > u)
        /\ u >= (j - 1) + 1 \/ u = n + 1
    BY <2>2, <2>3, <2>4, <2>5
  <2> HIDE DEF u, v
  <2>7. v >= j + 1 \/ v = n + 1
    BY <1>1, <2>6, Further
  <2> QED BY <2>1, <2>7 DEF v
<1>5. 0..n \subseteq S
  <2> HIDE DEF S
  <2> QED BY <1>1, <1>3, <1>4, InductTo
<1>6. r[k].at <= n
  BY DEF r
<1>7. r[k].at >= k + 1
  BY <1>1, <1>5, <1>6
<1>8. k + 1 \in 1..n
  BY <1>1, <1>2, <1>6, <1>7
<1>9. (k + 1) - 1 = k /\ k + 1 \in 0..n
  BY <1>8
<1> QED BY <1>1, <1>8, <1>9 DEF r

\* What is found stays found, and nothing is found behind the end.
LEMMA Grows ==
  ASSUME NEW s \in Seq(Characters), NEW code \in Nat, code < 100, NEW k \in 0..Len(s)
  PROVE  LET r == Reading(s, code)
         IN  /\ Len(r[Len(s)].words) >= Len(r[k].words)
             /\ \A i \in 1..Len(r[k].words) : r[Len(s)].words[i] = r[k].words[i]
             /\ r[k].at = Len(s) + 1 => r[Len(s)] = r[k]
<1> DEFINE n == Len(s)
           r == Reading(s, code)
           Has(x) == /\ Len(x.words) >= Len(r[k].words)
                     /\ \A i \in 1..Len(r[k].words) : x.words[i] = r[k].words[i]
                     /\ r[k].at = n + 1 => x = r[k]
           S == {j \in 0..n-k : Has(r[k+j])}
<1>1. /\ n \in Nat /\ k \in Nat /\ n - k \in Nat /\ r \in [0..n -> Readings(n)]
      /\ \A j \in 1..n : r[j] = Read(s, code, r[j-1])
  BY ReadingIs
<1> HIDE DEF r
<1>2. ASSUME NEW j \in 0..n
      PROVE  r[j].words \in Seq(Seq(Alphabet)) /\ Len(r[j].words) \in Nat /\ r[j] \in Readings(n)
  <2>1. r[j] \in Readings(n)
    BY <1>1
  <2>2. r[j].words \in Seq(Seq(Alphabet))
    BY <2>1 DEF Readings
  <2> QED BY <2>1, <2>2
<1>3. 0 \in S
  <2>1. k + 0 = k
    BY <1>1
  <2>2. Len(r[k].words) >= Len(r[k].words)
    BY <1>2
  <2> QED BY <1>1, <2>1, <2>2
<1>4. ASSUME NEW j \in 1..n-k, j - 1 \in S PROVE j \in S
  <2> DEFINE x == r[k + (j - 1)]
             y == r[k + j]
  <2>1. k + (j - 1) \in 0..n /\ k + j \in 1..n /\ k + j \in 0..n /\ (k + j) - 1 = k + (j - 1)
    BY <1>1
  <2>2. x \in Readings(n) /\ y = Read(s, code, x)
    BY <1>1, <1>2, <2>1
  <2>3. Has(x)
    BY <1>4
  <2>4. Len(x.words) \in Nat /\ Len(y.words) \in Nat /\ Len(r[k].words) \in Nat
    BY <1>2, <2>1
  <2> HIDE DEF x, y
  <2>5. /\ x.at = n + 1 => y = x
        /\ Len(y.words) >= Len(x.words)
        /\ \A i \in 1..Len(x.words) : y.words[i] = x.words[i]
    BY <2>2, ReadIs
  <2>6. Has(y)
    <3>1. \A i \in 1..Len(r[k].words) : i \in 1..Len(x.words)
      BY <2>3, <2>4
    <3> QED BY <2>3, <2>4, <2>5, <3>1
  <2> HIDE DEF Has
  <2>7. j \in 0..n-k
    BY <1>1
  <2> QED BY <2>6, <2>7 DEF y
<1>5. n - k \in S
  <2> HIDE DEF S
  <2>1. 0..n-k \subseteq S
    BY <1>1, <1>3, <1>4, InductTo
  <2> QED BY <1>1, <2>1
<1>6. k + (n - k) = n
  BY <1>1
<1>7. Has(r[n])
  BY <1>5, <1>6
<1> QED BY <1>7 DEF r

\* Blanks are read over one by one.
LEMMA Blanks ==
  ASSUME NEW s \in Seq(Characters), NEW code \in Nat, code < 100, NEW k \in 0..Len(s),
         NEW b \in Nat, Reading(s, code)[k].at <= b, b <= Len(s) + 1,
         \A j \in Reading(s, code)[k].at..b-1 : s[j] = BLANK
  PROVE  \E m \in 0..Len(s) : Reading(s, code)[m] = [Reading(s, code)[k] EXCEPT !.at = b]
<1> DEFINE n == Len(s)
           r == Reading(s, code)
           a == r[k].at
           At(x) == [r[k] EXCEPT !.at = x]
           S == {d \in 0..b-a : \E m \in 0..n : r[m] = At(a + d)}
<1>1. /\ n \in Nat /\ r \in [0..n -> Readings(n)]
  BY ReadingIs
<1>2. r[k] \in Readings(n)
  <2> HIDE DEF r
  <2> QED BY <1>1
<1> HIDE DEF r
<1>3. a \in 1..n+1 /\ b - a \in Nat /\ a \in Nat /\ a <= b
  BY <1>1, <1>2 DEF Readings, r
<1>4. \A x : x \in 1..n+1 => At(x).at = x /\ At(x) \in Readings(n)
  BY <1>2 DEF Readings
<1>5. At(a) = r[k]
  BY <1>2 DEF Readings
<1>6. 0 \in S
  <2>1. a + 0 = a /\ 0 \in 0..b-a
    BY <1>3
  <2> HIDE DEF At, a
  <2> QED BY <1>5, <2>1
<1>7. ASSUME NEW d \in 1..b-a, d - 1 \in S PROVE d \in S
  <2> DEFINE c == a + (d - 1)
  <2>1. PICK m \in 0..n : r[m] = At(c)
    BY <1>7
  <2>2. c \in a..b-1 /\ c \in 1..n /\ c + 1 = a + d /\ c + 1 \in 1..n+1
    <3> HIDE DEF a
    <3> QED BY <1>1, <1>3
  <2>3. s[c] = BLANK
    <3> HIDE DEF c
    <3> QED BY <2>2 DEF r
  <2> HIDE DEF c
  <2>4. r[m].at = c /\ c <= n
    <3> HIDE DEF At
    <3> QED BY <1>1, <1>4, <2>1, <2>2
  <2>5. m + 1 \in 0..n /\ r[m+1] = Read(s, code, r[m])
    BY <2>4, GoesOn DEF r
  <2>6. Read(s, code, r[m]) = [r[m] EXCEPT !.at = c + 1]
    BY <1>1, <2>2, <2>3, <2>4 DEF Read
  <2>7. [r[m] EXCEPT !.at = c + 1] = At(c + 1)
    BY <2>1
  <2>8. d \in 0..b-a
    <3> HIDE DEF a
    <3> QED BY <1>3
  <2> HIDE DEF At, a
  <2> QED BY <2>2, <2>5, <2>6, <2>7, <2>8
<1>8. b - a \in S
  <2> HIDE DEF S, a
  <2>1. 0..b-a \subseteq S
    BY <1>3, <1>6, <1>7, InductTo
  <2> QED BY <1>3, <2>1
<1>9. a + (b - a) = b
  <2> HIDE DEF a
  <2> QED BY <1>3
<1> HIDE DEF At, a
<1>10. \E m \in 0..n : r[m] = At(b)
  BY <1>8, <1>9
<1> QED BY <1>10 DEF At, r

\* The first position of a string that is in a set is found.
LEMMA FindIs ==
  ASSUME NEW m, DOMAIN m = 0..SIZE-1, NEW S, NEW i \in Nat, NEW z \in i..SIZE-1,
         m[z] \in S, \A k \in i..z-1 : m[k] \notin S
  PROVE  Find(m, i, S) = z
<1> DEFINE Is(j) == j >= i /\ m[j] \in S /\ \A k \in i..j-1 : m[k] \notin S
           f == Find(m, i, S)
<1>1. SIZE \in Nat
  BY TokenizerAssumption
<1>2. z \in DOMAIN m /\ Is(z)
  BY <1>1
<1>3. f = CHOOSE j \in DOMAIN m : Is(j)
  BY DEF Find
<1>4. f \in DOMAIN m /\ Is(f)
  <2> HIDE DEF Is, f
  <2> QED BY <1>2, <1>3
<1> HIDE DEF f
<1>5. f \in Nat /\ z \in Nat /\ f >= i /\ z >= i
  BY <1>1, <1>2, <1>4
<1>6. ~(f < z) /\ ~(z < f)
  <2>1. f < z => f \in i..z-1
    BY <1>5
  <2>2. z < f => z \in i..f-1
    BY <1>5
  <2> QED BY <1>2, <1>4, <2>1, <2>2
<1> QED BY <1>5, <1>6 DEF f

-----------------------------------------------------------------------------
(* The words that have been found.                                         *)

R == Reading(typed, last_exit)
Q == OpenQuote(typed, start + 1)
W == Spelt(typed, start + 1, last_exit)

\* Everything before this stays as it is.
Limit == IF pc = "word" THEN start
         ELSE IF pc = "token" /\ p < N THEN p ELSE N + 1

\* The string at a position of the buffer m, up to its NUL at z, is w.
Spells(m, at, z, w) ==
  /\ m[z] = NUL /\ Chars(m, at, z) = w
  /\ \A j \in at..z-1 : m[j] # NUL

\* An item is the word w, and ends before l if it is in the buffer.
Stands(m, item, w, l) ==
  IF item.copy # <<>> THEN item.copy = w
  ELSE \E z \in item.at..l-1 : Spells(m, item.at, z, w)

\* The redirections are those that r says.
SameRedirs(r) ==
  /\ has_out <=> r.out # NoToken
  /\ has_out => out_file = r.out.v /\ (out_append <=> r.out.t = ">>")
  /\ has_in <=> r.inp # NoToken
  /\ has_in => in_file = r.inp.v

\* r is what a part of the segment means, and what was found.
Found(r) ==
  /\ \E k \in 0..N : r = R[k]
  /\ Len(items) = Len(r.words)
  /\ \A i \in 1..Len(items) : Stands(mem, items[i], r.words[i], Limit)
  /\ SameRedirs(r)

\* The word that is being read is spelt up to p.
InWord ==
  /\ start < N /\ typed[start + 1] \notin Delimiters
  /\ quote = Q[p] /\ quote \in 0..2
  /\ Chars(mem, start, out) = W[p]
  /\ \A j \in start+1..p : j \notin Closes(typed, start + 1)
  /\ ~Expands(typed, start + 1, p)
  /\ \A j \in start..out-1 : mem[j] # NUL

\* Between two tokens, in a word and at the end, what was found is what the
\* segment means up to there.
Follows ==
  /\ items \in Seq([copy : Seq(Alphabet), at : Nat]) /\ Len(items) <= MAX_ITEMS
  /\ pc = "token" => \E r : Found(r) /\ r.at = p + 1
  /\ pc = "word" => /\ InWord /\ Len(items) < MAX_ITEMS
                    /\ \E r : Found(r) /\ r.at = start + 1
  /\ pc = "done" => \E r : Found(r) /\ (r.at = N + 1 \/ Len(items) = MAX_ITEMS)

\* The inductive invariant, while the status has two digits at most.
WordInv == last_exit < 100 /\ Spaced(typed, last_exit) => Follows

\* What is still to be read, in the segment's own characters.
LEMMA Unread ==
  ASSUME Ahead
  PROVE  /\ typed \in Seq(Characters) /\ Len(typed) = N /\ N \in Nat /\ N < SIZE /\ SIZE \in Nat
         /\ p \in 0..N /\ mem[N] = NUL /\ DOMAIN mem = 0..SIZE-1
         /\ \A j \in p..N-1 : mem[j] = typed[j+1] /\ typed[j+1] \in Characters /\ mem[j] # NUL
<1>1. /\ typed \in Seq(Characters) /\ Len(typed) = N /\ N \in Nat /\ N < SIZE /\ SIZE \in Nat
      /\ p \in Nat /\ p <= N /\ mem[N] = NUL /\ DOMAIN mem = 0..SIZE-1 /\ NUL \notin Characters
  BY NulAhead, TokenizerAssumption DEF Ahead, N
<1>2. ASSUME NEW j \in p..N-1 PROVE mem[j] = typed[j+1] /\ typed[j+1] \in Characters
  <2>1. j \in p..SIZE-1 /\ j \in 0..SIZE-1 /\ j < N /\ j + 1 \in 1..N
    BY <1>1
  <2>2. mem[j] = Uncut(typed)[j]
    BY <2>1 DEF Ahead
  <2>3. Uncut(typed)[j] = typed[j+1]
    BY <1>1, <2>1 DEF Uncut
  <2> QED BY <1>1, <2>1, <2>2, <2>3
<1> QED BY <1>1, <1>2

\* The segment that is cut up and what it means stay what they are.
LEMMA SameSegment ==
  ASSUME UNCHANGED <<typed, last_exit>>
  PROVE  N' = N /\ R' = R
BY DEF N, R

\* What a part of the segment means.
LEMMA FoundIs ==
  ASSUME Ahead, last_exit \in Nat, last_exit < 100, NEW r, Found(r)
  PROVE  r \in Readings(N) /\ Len(r.words) \in Nat /\ r.at \in 1..N+1
<1>1. typed \in Seq(Characters) /\ Len(typed) = N
  BY Unread
<1>2. R \in [0..N -> Readings(N)]
  BY <1>1, ReadingIs DEF R
<1>3. r \in Readings(N)
  BY <1>2 DEF Found
<1>4. r.words \in Seq(Seq(Alphabet)) /\ r.at \in 1..N+1
  BY <1>3 DEF Readings
<1> QED BY <1>3, <1>4

\* What a token stands for is read with it and with the blank behind it.
LEMMA TokenRead ==
  ASSUME NEW s \in Seq(Characters), NEW code \in Nat, code < 100, Spaced(s, code),
         NEW k \in 0..Len(s), NEW r, r = Reading(s, code)[k],
         r.at <= Len(s), s[r.at] # BLANK
  PROVE  LET tok == TokenAt(s, r.at, code)
         IN  /\ tok \in Tok /\ tok.end \in r.at+1..Len(s)+1
             /\ \E m \in 0..Len(s) :
                  Reading(s, code)[m] =
                    [at    |-> IF tok.end > Len(s) THEN tok.end ELSE tok.end + 1,
                     words |-> IF tok.t = "word" THEN Append(r.words, tok.v) ELSE r.words,
                     out   |-> IF tok.t \in {">", ">>"} THEN tok ELSE r.out,
                     inp   |-> IF tok.t = "<" THEN tok ELSE r.inp]
<1> DEFINE n == Len(s)
           tok == TokenAt(s, r.at, code)
           ws == IF tok.t = "word" THEN Append(r.words, tok.v) ELSE r.words
           o == IF tok.t \in {">", ">>"} THEN tok ELSE r.out
           i == IF tok.t = "<" THEN tok ELSE r.inp
           x == [at |-> tok.end, words |-> ws, out |-> o, inp |-> i]
           b == IF tok.end > n THEN tok.end ELSE tok.end + 1
<1>1. n \in Nat /\ r \in Readings(n) /\ r.at \in 1..n
  <2>1. r \in Readings(n)
    BY ReadingIs
  <2>2. r.at \in 1..n+1
    BY <2>1 DEF Readings
  <2> QED BY <2>1, <2>2
<1>2. tok \in Tok /\ tok.end \in r.at+1..n+1
  <2>1. CASE s[r.at] \in {">", "<"}
    BY <1>1, <2>1, RedirIs DEF TokenAt
  <2>2. CASE s[r.at] \notin {">", "<"}
    BY <1>1, <2>2, WordIs DEF TokenAt, Delimiters
  <2> QED BY <2>1, <2>2
<1>3. k + 1 \in 0..n /\ Reading(s, code)[k+1] = Read(s, code, r)
  BY GoesOn
<1>4. Read(s, code, r) = x
  BY <1>1 DEF Read
<1>5. tok.end > n \/ s[tok.end] = BLANK
  BY DEF Spaced
<1> HIDE DEF tok, ws, o, i
<1>6. tok.end \in Nat /\ b \in Nat /\ tok.end <= b /\ b <= n + 1
  BY <1>1, <1>2
<1>7. \A j \in tok.end..b-1 : s[j] = BLANK
  BY <1>1, <1>2, <1>5
<1>8. x.at = tok.end /\ [x EXCEPT !.at = b] = [at |-> b, words |-> ws, out |-> o, inp |-> i]
  OBVIOUS
<1> HIDE DEF b, x
<1>9. \E m \in 0..n : Reading(s, code)[m] = [Reading(s, code)[k+1] EXCEPT !.at = b]
  <2> DEFINE q == k + 1
             y == Reading(s, code)[q]
  <2>1. q \in 0..n /\ y = x /\ y.at = tok.end
    BY <1>3, <1>4, <1>8
  <2> HIDE DEF q
  <2>2. \A j \in y.at..b-1 : s[j] = BLANK
    BY <1>7, <2>1
  <2>3. y.at <= b
    BY <1>6, <2>1
  <2>4. \E m \in 0..n : Reading(s, code)[m] = [y EXCEPT !.at = b]
    BY <1>6, <2>1, <2>2, <2>3, Blanks
  <2> QED BY <2>4 DEF q
<1>10. \E m \in 0..n : Reading(s, code)[m] = [at |-> b, words |-> ws, out |-> o, inp |-> i]
  BY <1>3, <1>4, <1>8, <1>9
<1> QED BY <1>2, <1>10 DEF tok, ws, o, i, b

\* Where the limit moves on and nothing is written before it, items stand.
LEMMA StandsOn ==
  ASSUME NEW m, NEW mm, NEW l \in Nat, NEW ll \in Nat, l <= ll,
         \A j \in 0..l-1 : mm[j] = m[j],
         NEW item, item.at \in Nat, NEW w, Stands(m, item, w, l)
  PROVE  Stands(mm, item, w, ll)
<1>1. CASE item.copy # <<>>
  BY <1>1 DEF Stands
<1>2. CASE ~(item.copy # <<>>)
  <2>1. PICK z \in item.at..l-1 : Spells(m, item.at, z, w)
    BY <1>2 DEF Stands
  <2>2. \A j \in item.at..z : j \in 0..l-1
    BY <2>1
  <2>3. z \in item.at..ll-1 /\ z \in item.at..z
    BY <2>1
  <2>4. Chars(mm, item.at, z) = Chars(m, item.at, z)
    <3>1. \A j \in 1..(z - item.at) : item.at + j - 1 \in item.at..z
      BY <2>1
    <3>2. \A j \in 1..(z - item.at) : mm[item.at + j - 1] = m[item.at + j - 1]
      BY <2>2, <3>1
    <3> QED BY <3>2 DEF Chars
  <2>5. \A j \in item.at..z-1 : j \in item.at..z
    BY <2>1
  <2>6. Spells(mm, item.at, z, w)
    BY <2>1, <2>2, <2>3, <2>4, <2>5 DEF Spells
  <2> QED BY <1>2, <2>3, <2>6 DEF Stands
<1> QED BY <1>1, <1>2

\* And what was found still says the same.
LEMMA FoundStays ==
  ASSUME NEW r, Found(r), items \in Seq([copy : Seq(Alphabet), at : Nat]),
         UNCHANGED <<typed, last_exit, items, redirs>>,
         Limit \in Nat, Limit' \in Nat, Limit <= Limit',
         \A j \in 0..Limit-1 : mem'[j] = mem[j]
  PROVE  Found(r)'
<1>1. N' = N /\ R' = R
  BY SameSegment
<1>2. ASSUME NEW i \in 1..Len(items)
      PROVE  Stands(mem', items[i], r.words[i], Limit')
  <2>1. items[i] \in [copy : Seq(Alphabet), at : Nat]
    BY ElementOfSeq
  <2>2. items[i].at \in Nat
    BY <2>1
  <2>3. Stands(mem, items[i], r.words[i], Limit)
    BY DEF Found
  <2> DEFINE w == r.words[i]
             it == items[i]
  <2>4. it.at \in Nat /\ Stands(mem, it, w, Limit)
    BY <2>2, <2>3
  <2> HIDE DEF w, it
  <2>5. Stands(mem', it, w, Limit')
    BY <2>4, StandsOn
  <2> QED BY <2>5 DEF w, it
<1>3. SameRedirs(r)'
  BY DEF Found, SameRedirs, redirs
<1> QED BY <1>1, <1>2, <1>3 DEF Found

\* What the steps start from.
Good ==
  /\ Ahead /\ last_exit \in Nat /\ last_exit < 100 /\ Spaced(typed, last_exit)
  /\ Follows

\* Blanks before the next token mean nothing.
LEMMA PassBlanks ==
  ASSUME Ahead, last_exit \in Nat, last_exit < 100, NEW r, Found(r), r.at = p + 1,
         NEW b \in p..N, \A j \in p..b-1 : mem[j] = BLANK
  PROVE  \E x : Found(x) /\ x.at = b + 1
<1>1. /\ typed \in Seq(Characters) /\ Len(typed) = N /\ N \in Nat /\ p \in 0..N
      /\ \A j \in p..N-1 : mem[j] = typed[j+1]
  BY Unread
<1>2. PICK k \in 0..N : r = R[k]
  BY DEF Found
<1>3. \A j \in p+1..(b+1)-1 : typed[j] = BLANK
  <2> TAKE j \in p+1..(b+1)-1
  <2>1. j - 1 \in p..b-1 /\ j - 1 \in p..N-1 /\ (j - 1) + 1 = j
    BY <1>1
  <2> QED BY <1>1, <2>1
<1> DEFINE c == b + 1
<1>4. c \in Nat /\ p + 1 <= c /\ c <= N + 1 /\ \A j \in p+1..c-1 : typed[j] = BLANK
  BY <1>1, <1>3
<1> HIDE DEF c
<1>5. \E m \in 0..N : R[m] = [R[k] EXCEPT !.at = c]
  BY <1>1, <1>2, <1>4, Blanks DEF R
<1>6. PICK m \in 0..N : R[m] = [r EXCEPT !.at = c]
  BY <1>2, <1>5
<1> DEFINE x == [r EXCEPT !.at = c]
<1>7. r \in Readings(N)
  BY FoundIs
<1>8. x.words = r.words /\ x.out = r.out /\ x.inp = r.inp /\ x.at = c /\ x = R[m]
  BY <1>6, <1>7 DEF Readings
<1> HIDE DEF x
<1>9. Found(x)
  BY <1>8 DEF Found, SameRedirs
<1> QED BY <1>8, <1>9 DEF c

\* The next word or redirection begins where there is no blank any more.
LEMMA FirstIs ==
  ASSUME Ahead
  PROVE  /\ First \in p..N /\ First \in Nat /\ mem[First] # BLANK
         /\ \A j \in p..First-1 : mem[j] = BLANK
         /\ mem[First] = NUL <=> First = N
<1>1. /\ N \in Nat /\ p \in 0..N /\ mem[N] = NUL
      /\ \A j \in p..N-1 : mem[j] # NUL
  BY Unread
<1>2. /\ First \in p..N /\ mem[First] # BLANK
      /\ \A j \in p..First-1 : mem[j] = BLANK
  BY <1>1, SkipStops DEF First
<1>3. First # N => First \in p..N-1
  BY <1>1, <1>2
<1> QED BY <1>1, <1>2, <1>3

\* At the end of the segment nothing is left that means anything.
LEMMA StopFollows == Good /\ Ahead' /\ Stop => Follows'
<1> SUFFICES ASSUME Good, Ahead', Stop PROVE Follows'
  OBVIOUS
<1>1. /\ Ahead /\ last_exit \in Nat /\ last_exit < 100 /\ Follows /\ pc = "token" /\ pc' = "done"
      /\ UNCHANGED <<typed, last_exit, items, redirs, mem>> /\ ~More
  BY DEF Good, Stop
<1>2. /\ items \in Seq([copy : Seq(Alphabet), at : Nat]) /\ Len(items) <= MAX_ITEMS
  BY <1>1 DEF Follows
<1>3. PICK r : Found(r) /\ r.at = p + 1
  BY <1>1 DEF Follows
<1>4. N \in Nat /\ p \in 0..N /\ N' = N /\ MAX_ITEMS \in Nat /\ Len(items) \in Nat
  BY <1>1, <1>2, Unread, SameSegment, TokenizerAssumption
<1>5. Limit \in Nat /\ Limit' \in Nat /\ Limit <= Limit'
  BY <1>1, <1>4 DEF Limit
<1>6. ASSUME NEW x, Found(x) PROVE Found(x)'
  BY <1>1, <1>2, <1>5, <1>6, FoundStays
<1>7. \E x : Found(x) /\ (x.at = N + 1 \/ Len(items) = MAX_ITEMS)
  <2>1. CASE Len(items) < MAX_ITEMS
    <3>1. First = N /\ \A j \in p..First-1 : mem[j] = BLANK
      BY <1>1, <2>1, FirstIs DEF More
    <3>2. N \in p..N
      BY <1>4
    <3> QED BY <1>1, <1>3, <3>1, <3>2, PassBlanks
  <2>2. CASE ~(Len(items) < MAX_ITEMS)
    BY <1>2, <1>3, <1>4, <2>2
  <2> QED BY <2>1, <2>2
<1>8. PICK x : Found(x) /\ (x.at = N + 1 \/ Len(items) = MAX_ITEMS)
  BY <1>7
<1>9. Found(x)' /\ (x.at = N' + 1 \/ Len(items') = MAX_ITEMS)
  BY <1>1, <1>4, <1>6, <1>8
<1>10. items' = items
  BY <1>1
<1> QED BY <1>1, <1>2, <1>9, <1>10 DEF Follows

\* A word begins empty, outside quotes, and behind what was found.
LEMMA StartWordFollows == Good /\ Ahead' /\ StartWord => Follows'
<1> SUFFICES ASSUME Good, Ahead', StartWord PROVE Follows'
  OBVIOUS
<1>1. /\ Ahead /\ last_exit \in Nat /\ last_exit < 100 /\ Follows /\ pc = "token" /\ pc' = "word"
      /\ UNCHANGED <<typed, last_exit, items, redirs, mem>> /\ More
      /\ p' = First /\ out' = First /\ start' = First /\ quote' = 0
      /\ mem[First] \notin {">", "<"}
  BY DEF Good, StartWord, More
<1>2. /\ items \in Seq([copy : Seq(Alphabet), at : Nat]) /\ Len(items) < MAX_ITEMS
  BY <1>1 DEF Follows, More
<1>3. PICK r : Found(r) /\ r.at = p + 1
  BY <1>1 DEF Follows
<1>4. N \in Nat /\ p \in 0..N /\ N' = N /\ MAX_ITEMS \in Nat /\ Len(items) \in Nat
      /\ typed \in Seq(Characters) /\ Len(typed) = N
      /\ \A j \in p..N-1 : mem[j] = typed[j+1]
  BY <1>1, <1>2, Unread, SameSegment, TokenizerAssumption
<1>5. /\ First \in p..N-1 /\ First \in Nat /\ mem[First] # BLANK
      /\ \A j \in p..First-1 : mem[j] = BLANK
  <2>1. First # N
    BY <1>1, FirstIs DEF More
  <2> QED BY <1>1, <1>4, <2>1, FirstIs
<1> DEFINE f == First
<1>6. f \in p..N-1 /\ f \in Nat /\ f \in p..N /\ f < N /\ f + 1 \in Nat \ {0} /\ f \in 0..N
  BY <1>4, <1>5
<1>7. Limit = p /\ Limit' = f
  BY <1>1, <1>4, <1>6 DEF Limit
<1>8. PICK x : Found(x) /\ x.at = f + 1
  BY <1>1, <1>3, <1>5, <1>6, PassBlanks
<1>9. Limit \in Nat /\ Limit' \in Nat /\ Limit <= Limit'
  BY <1>4, <1>6, <1>7
<1>10. Found(x)'
  BY <1>1, <1>2, <1>8, <1>9, FoundStays
<1> HIDE DEF f
<1>11. typed[f + 1] = mem[f] /\ mem[f] \notin Delimiters
  BY <1>1, <1>4, <1>5, <1>6 DEF f, Delimiters
<1> DEFINE q == OpenQuote(typed, f + 1)
           w == Spelt(typed, f + 1, last_exit)
<1>12. start' = f /\ p' = f /\ out' = f /\ Q' = q /\ W' = w
  BY <1>1 DEF f, Q, W
<1>13. q[f] = 0 /\ w[f] = <<>>
  <2>1. f < f + 1
    BY <1>6
  <2>2. q[f] = 0
    BY <1>4, <1>6, <2>1, QuoteIs
  <2>3. w[f] = <<>>
    BY <1>1, <1>4, <1>6, <2>1, SpeltIs
  <2> QED BY <2>2, <2>3
<1> HIDE DEF q, w
<1>14. Chars(mem', f, f) = <<>>
  <2>1. 1..(f - f) = {}
    BY <1>6
  <2> QED BY <2>1 DEF Chars
<1>15. InWord'
  <2>1. f < N' /\ typed'[f + 1] \notin Delimiters /\ quote' = q[f] /\ quote' \in 0..2
    BY <1>1, <1>4, <1>6, <1>11, <1>13
  <2>2. \A j \in f+1..f : j \notin Closes(typed', f + 1)
    BY <1>6
  <2>3. ~Expands(typed', f + 1, f)
    BY <1>6 DEF Expands
  <2>4. \A j \in f..f-1 : mem'[j] # NUL
    BY <1>6
  <2> QED BY <1>12, <1>13, <1>14, <2>1, <2>2, <2>3, <2>4 DEF InWord
<1>16. Found(x)' /\ x.at = start' + 1
  BY <1>8, <1>10, <1>12
<1>17. items' = items /\ pc' = "word"
  BY <1>1
<1>18. Len(items) <= MAX_ITEMS
  BY <1>2, <1>4
<1> QED BY <1>2, <1>15, <1>16, <1>17, <1>18 DEF Follows

-----------------------------------------------------------------------------
(* The steps, and the words they find.                                     *)

\* While a word is read, what was found before it stays.
LEMMA WordStays ==
  ASSUME Good, pc = "word", pc' = "word", UNCHANGED <<typed, last_exit, start, items, redirs>>,
         \A j \in 0..start-1 : mem'[j] = mem[j], InWord'
  PROVE  Follows'
<1>1. /\ Ahead /\ Follows /\ start \in Nat /\ items' = items
      /\ items \in Seq([copy : Seq(Alphabet), at : Nat]) /\ Len(items) < MAX_ITEMS
      /\ Len(items) <= MAX_ITEMS
  BY DEF Good, Ahead, Follows
<1>2. PICK r : Found(r) /\ r.at = start + 1
  BY <1>1 DEF Follows
<1>3. Limit = start /\ Limit' = start
  BY DEF Limit
<1>4. Limit \in Nat /\ Limit' \in Nat /\ Limit <= Limit'
  BY <1>1, <1>3
<1>5. Found(r)'
  BY <1>1, <1>2, <1>3, <1>4, FoundStays
<1>6. Found(r)' /\ r.at = start' + 1
  BY <1>2, <1>5
<1> QED BY <1>1, <1>6 DEF Follows

\* The next character of a word, what it means and where it leads.
LEMMA NextCharacter ==
  ASSUME Good, pc = "word", mem[p] # NUL
  PROVE  /\ Ahead /\ InWord /\ typed \in Seq(Characters) /\ Len(typed) = N /\ N \in Nat
         /\ start \in Nat /\ out \in Nat /\ p \in Nat /\ p + 1 \in Nat /\ start <= out /\ out <= p
         /\ p + 1 \in 1..N /\ p + 1 \in start+1..N /\ typed[p + 1] = mem[p] /\ N < SIZE
         /\ Q[p + 1] = (IF mem[p] = "'" /\ quote # 2 THEN 1 - quote
                        ELSE IF mem[p] = DQ /\ quote # 1 THEN 2 - quote ELSE quote)
         /\ W[p + 1] = W[p] \o Meaning(typed, start + 1, p + 1, last_exit)
         /\ Meaning(typed, start + 1, p + 1, last_exit) \in Seq(Text)
         /\ p + 1 \in Closes(typed, start + 1) <=> quote = 0 /\ mem[p] \in Delimiters
         /\ Expands(typed, start + 1, p + 1) <=> Status
<1>1. /\ Ahead /\ InWord /\ typed \in Seq(Characters) /\ Len(typed) = N /\ N \in Nat
      /\ start \in Nat /\ out \in Nat /\ p \in Nat /\ start <= out /\ out <= p /\ N < SIZE
      /\ p \in 0..N /\ mem[N] = NUL /\ \A j \in p..N-1 : mem[j] = typed[j+1] /\ mem[j] # NUL
      /\ last_exit \in Nat /\ last_exit < 100
  BY Unread DEF Good, Ahead, Follows
<1>2. /\ p + 1 \in 1..N /\ p + 1 \in start+1..N /\ p \in p..N-1
      /\ p + 1 \in Nat /\ start + 1 \in Nat \ {0}
      /\ (p + 1) - 1 = p /\ p + 1 >= start + 1
  BY <1>1
<1>3. typed[p + 1] = mem[p] /\ quote = Q[p]
  BY <1>1, <1>2 DEF InWord
<1>4. Q[p + 1] = (IF mem[p] = "'" /\ quote # 2 THEN 1 - quote
                  ELSE IF mem[p] = DQ /\ quote # 1 THEN 2 - quote ELSE quote)
  BY <1>1, <1>2, <1>3, QuoteIs DEF Q
<1>5. W[p + 1] = W[p] \o Meaning(typed, start + 1, p + 1, last_exit)
  <2> DEFINE q == p + 1
  <2>1. q \in 1..Len(typed) /\ q >= start + 1 /\ q - 1 = p
    BY <1>1, <1>2
  <2>2. \A j \in 1..Len(typed) : j >= start + 1 =>
          W[j] = W[j-1] \o Meaning(typed, start + 1, j, last_exit)
    BY <1>1, <1>2, SpeltIs DEF W
  <2> HIDE DEF q
  <2>3. W[q] = W[q-1] \o Meaning(typed, start + 1, q, last_exit)
    BY <2>1, <2>2
  <2> QED BY <2>1, <2>3 DEF q
<1>6. Meaning(typed, start + 1, p + 1, last_exit) \in Seq(Text)
  BY <1>1, <1>2, MeaningType
<1>7. p + 1 \in Closes(typed, start + 1) <=> quote = 0 /\ mem[p] \in Delimiters
  BY <1>1, <1>2, <1>3 DEF Closes, Q
<1>8. Expands(typed, start + 1, p + 1) <=> Status
  <2>1. Expands(typed, start + 1, p + 1) <=>
          p + 1 <= N - 1 /\ quote = 0 /\ mem[p] = "$" /\ typed[(p + 1) + 1] = "?"
    BY <1>1, <1>2, <1>3 DEF Expands, Q
  <2>2. p + 1 <= N - 1 => p + 1 \in p..N-1 /\ mem[p + 1] = typed[(p + 1) + 1]
    BY <1>1, <1>2
  <2>3. mem[p + 1] = "?" => p + 1 <= N - 1
    <3>1. p + 1 = N \/ p + 1 <= N - 1
      BY <1>1, <1>2
    <3> QED BY <1>1, <3>1 DEF NUL
  <2> QED BY <2>1, <2>2, <2>3 DEF Status
<1> QED BY <1>1, <1>2, <1>3, <1>4, <1>5, <1>6, <1>7, <1>8

\* A quote that opens or closes stands for nothing.
LEMMA ToggleQuoteFollows == Good /\ Ahead' /\ ToggleQuote => Follows'
<1> SUFFICES ASSUME Good, Ahead', ToggleQuote PROVE Follows'
  OBVIOUS
<1>1. /\ pc = "word" /\ pc' = "word" /\ p' = p + 1 /\ (Single \/ Double)
      /\ UNCHANGED <<typed, last_exit, start, items, redirs, mem, out>>
      /\ quote' = (IF quote # 0 THEN 0 ELSE IF Single THEN 1 ELSE 2)
  BY DEF ToggleQuote
<1>2. mem[p] # NUL /\ mem[p] \notin Delimiters /\ mem[p] # "$"
  BY <1>1 DEF Single, Double, NUL, DQ, Delimiters, BLANK
<1>3. /\ InWord /\ p \in Nat /\ start \in Nat /\ p + 1 \in start+1..N
      /\ typed[p + 1] = mem[p] /\ N \in Nat
      /\ Q[p + 1] = (IF mem[p] = "'" /\ quote # 2 THEN 1 - quote
                     ELSE IF mem[p] = DQ /\ quote # 1 THEN 2 - quote ELSE quote)
      /\ W[p + 1] = W[p] \o Meaning(typed, start + 1, p + 1, last_exit)
      /\ p + 1 \notin Closes(typed, start + 1) /\ ~Expands(typed, start + 1, p + 1)
  BY <1>1, <1>2, NextCharacter DEF Status
<1>4. Meaning(typed, start + 1, p + 1, last_exit) = <<>>
  <2>1. (p + 1) - 1 = p /\ quote = Q[p]
    BY <1>3 DEF InWord
  <2> QED BY <1>1, <1>3, <2>1 DEF Meaning, Single, Double, Q
<1>5. W[p + 1] = W[p]
  <2>1. W[p] \in Seq(Text)
    <3>1. p \in 0..N /\ start + 1 \in Nat \ {0}
      BY <1>3
    <3>2. typed \in Seq(Characters) /\ Len(typed) = N /\ last_exit \in Nat /\ last_exit < 100
      BY Unread DEF Good
    <3>3. W \in [0..N -> Seq(Text)]
      BY <3>1, <3>2, SpeltIs DEF W
    <3> QED BY <3>1, <3>3
  <2>2. W[p] \o <<>> = W[p]
    BY <2>1
  <2> QED BY <1>3, <1>4, <2>2
<1>6. quote' = Q[p + 1] /\ quote' \in 0..2
  <2>1. quote \in 0..2
    BY <1>3 DEF InWord
  <2>2. quote = 0 \/ quote = 1 \/ quote = 2
    BY <2>1
  <2> QED BY <1>1, <1>3, <2>2 DEF Single, Double, DQ
<1>7. Q' = Q /\ W' = W /\ N' = N
  BY <1>1 DEF Q, W, N
<1>8. \A j \in start+1..p+1 : j = p + 1 \/ j \in start+1..p
  BY <1>3
<1>9. InWord'
  BY <1>1, <1>3, <1>5, <1>6, <1>7, <1>8 DEF InWord
<1> QED BY <1>1, <1>9, WordStays

\* What is written is added to the word.
LEMMA Written ==
  ASSUME SIZE \in Nat, DOMAIN mem = 0..SIZE-1, start \in Nat, out \in Nat, start <= out,
         NEW text \in Seq(Text), out + Len(text) <= SIZE, Write(text),
         Chars(mem, start, out) \in Seq(Text)
  PROVE  /\ pc' = pc /\ out' = out + Len(text)
         /\ \A j \in 0..start-1 : mem'[j] = mem[j]
         /\ Chars(mem', start, out') = Chars(mem, start, out) \o text
         /\ (\A j \in start..out-1 : mem[j] # NUL) => \A j \in start..out'-1 : mem'[j] # NUL
<1> DEFINE l == Len(text)
           x == Chars(mem, start, out)
           y == Chars(mem', start, out')
           n == out - start
<1>1. /\ pc' = pc /\ out' = out + l /\ l \in Nat /\ n \in Nat
      /\ mem' = [i \in 0..SIZE-1 |-> IF i \in out..(out + l - 1) THEN text[i - out + 1] ELSE mem[i]]
  BY DEF Write
<1>2. \A j \in 0..out-1 : mem'[j] = mem[j]
  BY <1>1
<1>3. ASSUME NEW j \in out..out+l-1
      PROVE  j - out + 1 \in 1..l /\ mem'[j] = text[j - out + 1] /\ mem'[j] \in Text
  <2>1. j - out + 1 \in 1..l /\ j \in 0..SIZE-1
    BY <1>1
  <2>2. text[j - out + 1] \in Text
    BY <2>1
  <2> QED BY <1>1, <2>1, <2>2
<1>4. \A j \in 0..start-1 : mem'[j] = mem[j]
  BY <1>2
<1>5. x = [k \in 1..n |-> mem[start + k - 1]] /\ y = [k \in 1..n+l |-> mem'[start + k - 1]]
  <2>1. out' - start = n + l
    BY <1>1
  <2> QED BY <2>1 DEF Chars
<1> HIDE DEF x, y, l
<1>6. x \in Seq(Text) /\ Len(x) = n
  <2>1. x \in Seq(Text)
    BY DEF x
  <2>2. DOMAIN x = 1..Len(x) /\ DOMAIN x = 1..n /\ Len(x) \in Nat
    BY <1>5, <2>1, LenProperties
  <2> QED BY <1>1, <2>1, <2>2
<1>7. /\ x \o text \in Seq(Text) /\ Len(x \o text) = n + l
      /\ \A k \in 1..n+l : (x \o text)[k] = IF k <= n THEN x[k] ELSE text[k - n]
  <2>1. Len(text) = l
    BY DEF l
  <2>2. /\ x \o text \in Seq(Text) /\ Len(x \o text) = Len(x) + Len(text)
        /\ \A k \in 1..Len(x)+Len(text) : (x \o text)[k] =
             IF k <= Len(x) THEN x[k] ELSE text[k - Len(x)]
    BY <1>6, ConcatProperties
  <2> QED BY <1>6, <2>1, <2>2
<1> DEFINE c == x \o text
<1>8. DOMAIN c = 1..n+l /\ c = [k \in 1..n+l |-> c[k]]
  <2>1. c \in [1..n+l -> Text]
    BY <1>7, LenProperties
  <2> QED BY <2>1
<1>9. ASSUME NEW k \in 1..n+l PROVE c[k] = mem'[start + k - 1]
  <2>1. CASE k <= n
    <3>1. k \in 1..n /\ start + k - 1 \in 0..out-1
      BY <1>1, <2>1
    <3>2. x[k] = mem[start + k - 1]
      BY <1>5, <3>1
    <3> QED BY <1>2, <1>7, <2>1, <3>1, <3>2
  <2>2. CASE ~(k <= n)
    <3>1. start + k - 1 \in out..out+l-1 /\ (start + k - 1) - out + 1 = k - n
      BY <1>1, <2>2
    <3> QED BY <1>3, <1>7, <2>2, <3>1
  <2> QED BY <2>1, <2>2
<1> HIDE DEF c
<1>10. y = c
  BY <1>5, <1>8, <1>9
<1>11. (\A j \in start..out-1 : mem[j] # NUL) => \A j \in start..out'-1 : mem'[j] # NUL
  <2> SUFFICES ASSUME \A j \in start..out-1 : mem[j] # NUL, NEW j \in start..out'-1
               PROVE  mem'[j] # NUL
    OBVIOUS
  <2>1. CASE j < out
    <3>1. j \in start..out-1 /\ j \in 0..out-1
      BY <1>1, <2>1
    <3> QED BY <1>2, <3>1
  <2>2. CASE ~(j < out)
    <3>1. j \in out..out+l-1
      BY <1>1, <2>2
    <3>2. NUL \notin Text
      BY TokenizerAssumption DEF NUL, Text
    <3> QED BY <1>3, <3>1, <3>2
  <2> QED BY <2>1, <2>2
<1> QED BY <1>1, <1>4, <1>10, <1>11 DEF x, y, c, l

\* A character that is copied stands for itself.
LEMMA CopyFollows == Good /\ Ahead' /\ Copy => Follows'
<1> SUFFICES ASSUME Good, Ahead', Copy PROVE Follows'
  OBVIOUS
<1>1. /\ pc = "word" /\ p' = p + 1 /\ ~Ends /\ ~Single /\ ~Double /\ ~Status
      /\ UNCHANGED <<typed, last_exit, start, quote, items, redirs>>
      /\ Write(<<mem[p]>>) /\ mem[p] # NUL
  BY DEF Copy, Ends
<1>2. /\ Ahead /\ InWord /\ p \in Nat /\ start \in Nat /\ out \in Nat /\ p + 1 \in start+1..N
      /\ p + 1 \in 1..N /\ start <= out /\ out <= p /\ N < SIZE
      /\ typed \in Seq(Characters) /\ Len(typed) = N /\ typed[p + 1] = mem[p] /\ N \in Nat
      /\ Q[p + 1] = (IF mem[p] = "'" /\ quote # 2 THEN 1 - quote
                     ELSE IF mem[p] = DQ /\ quote # 1 THEN 2 - quote ELSE quote)
      /\ W[p + 1] = W[p] \o Meaning(typed, start + 1, p + 1, last_exit)
      /\ p + 1 \notin Closes(typed, start + 1) /\ ~Expands(typed, start + 1, p + 1)
  BY <1>1, NextCharacter DEF Ends
<1>3. quote' = Q[p + 1] /\ quote' \in 0..2
  BY <1>1, <1>2 DEF Single, Double, InWord
<1>4. Meaning(typed, start + 1, p + 1, last_exit) = <<mem[p]>>
  <2>1. (p + 1) - 1 = p /\ quote = Q[p] /\ ~Expands(typed, start + 1, p)
    BY <1>2 DEF InWord
  <2> QED BY <1>1, <1>2, <2>1 DEF Meaning, Single, Double, Q
<1> DEFINE text == <<mem[p]>>
<1>5. text \in Seq(Text) /\ Len(text) = 1
  BY <1>2 DEF Text
<1>6. SIZE \in Nat /\ DOMAIN mem = 0..SIZE-1 /\ out + Len(text) <= SIZE /\ Write(text)
  <2>1. SIZE \in Nat /\ DOMAIN mem = 0..SIZE-1 /\ out + 1 <= SIZE
    BY <1>2, Unread
  <2> QED BY <1>1, <1>5, <2>1
<1>7. Chars(mem, start, out) \in Seq(Text) /\ Chars(mem, start, out) = W[p]
      /\ \A j \in start..out-1 : mem[j] # NUL
  <2>1. p \in 0..N /\ start + 1 \in Nat \ {0} /\ last_exit \in Nat /\ last_exit < 100
    BY <1>2 DEF Good
  <2>2. W \in [0..N -> Seq(Text)]
    BY <1>2, <2>1, SpeltIs DEF W
  <2> QED BY <1>2, <2>1, <2>2 DEF InWord
<1> HIDE DEF text
<1>8. /\ pc' = pc /\ \A j \in 0..start-1 : mem'[j] = mem[j]
      /\ Chars(mem', start, out') = Chars(mem, start, out) \o text
      /\ \A j \in start..out'-1 : mem'[j] # NUL
  BY <1>2, <1>5, <1>6, <1>7, Written
<1>9. Chars(mem', start, out') = W[p + 1]
  BY <1>2, <1>4, <1>7, <1>8 DEF text
<1>10. Q' = Q /\ W' = W /\ N' = N
  BY <1>1 DEF Q, W, N
<1>11. \A j \in start+1..p+1 : j = p + 1 \/ j \in start+1..p
  BY <1>2
<1>12. InWord'
  <2>1. /\ start < N /\ typed[start + 1] \notin Delimiters
        /\ \A j \in start+1..p+1 : j \notin Closes(typed, start + 1)
    BY <1>2, <1>11 DEF InWord
  <2> QED BY <1>1, <1>2, <1>3, <1>8, <1>9, <1>10, <2>1 DEF InWord
<1> QED BY <1>1, <1>8, <1>12, WordStays

\* $? outside quotes stands for the digits, and both its characters are read.
LEMMA ExpandStatusFollows == Good /\ Ahead' /\ ExpandStatus => Follows'
<1> SUFFICES ASSUME Good, Ahead', ExpandStatus PROVE Follows'
  OBVIOUS
<1>1. /\ pc = "word" /\ p' = p + 2 /\ ~Ends /\ Status
      /\ UNCHANGED <<typed, last_exit, start, quote, items, redirs>>
      /\ Write(Digits(last_exit)) /\ mem[p] # NUL
      /\ quote = 0 /\ mem[p] = "$" /\ mem[p + 1] = "?"
  BY DEF ExpandStatus, Ends, Status
<1>2. /\ Ahead /\ InWord /\ p \in Nat /\ start \in Nat /\ out \in Nat /\ p + 1 \in start+1..N
      /\ p + 1 \in 1..N /\ start <= out /\ out <= p /\ N < SIZE /\ p + 1 \in Nat
      /\ typed \in Seq(Characters) /\ Len(typed) = N /\ typed[p + 1] = mem[p] /\ N \in Nat
      /\ Q[p + 1] = 0
      /\ W[p + 1] = W[p] \o Meaning(typed, start + 1, p + 1, last_exit)
      /\ Meaning(typed, start + 1, p + 1, last_exit) \in Seq(Text)
      /\ p + 1 \notin Closes(typed, start + 1) /\ Expands(typed, start + 1, p + 1)
      /\ start + 1 \in Nat \ {0} /\ last_exit \in Nat /\ last_exit < 100
  <2>1. Q[p + 1] = 0
    BY <1>1, NextCharacter DEF DQ
  <2>2. mem[p] \notin Delimiters
    BY <1>1 DEF Delimiters, BLANK
  <2>3. start + 1 \in Nat \ {0} /\ last_exit \in Nat /\ last_exit < 100
    BY DEF Good, Ahead
  <2> QED BY <1>1, <2>1, <2>2, <2>3, NextCharacter
<1>3. p \in Nat /\ start \in Nat /\ out \in Nat /\ N \in Nat /\ p + 1 >= start + 1 /\ out <= p
       /\ N < SIZE
  BY <1>2
<1> DEFINE a == p + 1
           z == p + 2
<1>4. z \in 1..N /\ z \in start+1..N /\ z - 1 = a /\ z >= start + 1 /\ a - 1 = p /\ z \in 0..N
      /\ a \in 0..N /\ p \in 0..N /\ z <= N /\ z \in Nat
  <2>1. a + 1 <= N
    BY <1>1, <1>2, PassOver DEF NUL
  <2> QED BY <1>3, <2>1
<1>5. typed[a] = "$" /\ typed[z] = "?"
  <2>1. a \in p..N-1 /\ a + 1 = z
    BY <1>2, <1>4
  <2> QED BY <1>1, <1>2, <2>1, Unread
<1>6. Meaning(typed, start + 1, a, last_exit) = Digits(last_exit)
  <2>1. ~Expands(typed, start + 1, a - 1)
    BY <1>2, <1>4 DEF InWord
  <2> HIDE DEF a
  <2> QED BY <1>2, <1>5, <2>1 DEF Meaning, DQ, a
<1> HIDE DEF a, z
<1>7. Expands(typed, start + 1, z - 1)
  BY <1>2, <1>4 DEF a
<1>8. Meaning(typed, start + 1, z, last_exit) = <<>>
  BY <1>7 DEF Meaning
<1>9. Q[z] = 0
  <2>1. \A j \in 1..Len(typed) : j >= start + 1 =>
          Q[j] = IF typed[j] = "'" /\ Q[j-1] # 2 THEN 1 - Q[j-1]
                 ELSE IF typed[j] = DQ  /\ Q[j-1] # 1 THEN 2 - Q[j-1]
                 ELSE Q[j-1]
    BY <1>2, QuoteIs DEF Q
  <2>2. z \in 1..Len(typed)
    BY <1>2, <1>4
  <2>3. Q[a] = 0
    BY <1>2 DEF a
  <2> QED BY <1>4, <1>5, <2>1, <2>2, <2>3 DEF DQ
<1>10. W \in [0..N -> Seq(Text)] /\ W[z] = W[z-1] \o Meaning(typed, start + 1, z, last_exit)
  <2>1. \A j \in 1..Len(typed) : j >= start + 1 =>
          W[j] = W[j-1] \o Meaning(typed, start + 1, j, last_exit)
    BY <1>2, SpeltIs DEF W
  <2>2. z \in 1..Len(typed)
    BY <1>2, <1>4
  <2>3. W \in [0..N -> Seq(Text)]
    BY <1>2, SpeltIs DEF W
  <2> QED BY <1>4, <2>1, <2>2, <2>3
<1> DEFINE text == Digits(last_exit)
<1>11. W[z] = W[p] \o text
  <2>1. W[z] = W[a] \o <<>> /\ W[a] = W[p] \o text
    BY <1>2, <1>4, <1>6, <1>8, <1>10 DEF a
  <2>2. W[a] \o <<>> = W[a]
    <3>1. W[a] \in Seq(Text)
      BY <1>4, <1>10
    <3> QED BY <3>1
  <2> QED BY <2>1, <2>2
<1>12. text \in Seq(Text) /\ (Len(text) = 1 \/ Len(text) = 2)
  <2>1. Len(text) = 1 \/ Len(text) = 2
    BY <1>2, DigitsShort
  <2> QED BY <1>2, <1>6, <2>1 DEF a
<1>13. SIZE \in Nat /\ DOMAIN mem = 0..SIZE-1 /\ out + Len(text) <= SIZE /\ Write(text)
  <2>1. SIZE \in Nat /\ DOMAIN mem = 0..SIZE-1
    BY <1>2, Unread
  <2>2. p + 2 <= N
    BY <1>4 DEF z
  <2>3. Write(text)
    BY <1>1
  <2> DEFINE l == Len(text)
  <2>4. l = 1 \/ l = 2
    BY <1>12
  <2> HIDE DEF text, l
  <2>5. out + l <= SIZE
    BY <1>3, <2>1, <2>2, <2>4
  <2> QED BY <2>1, <2>3, <2>5 DEF l
<1>14. Chars(mem, start, out) \in Seq(Text) /\ Chars(mem, start, out) = W[p]
       /\ \A j \in start..out-1 : mem[j] # NUL
  BY <1>2, <1>4, <1>10 DEF InWord
<1> HIDE DEF text
<1>15. /\ pc' = pc /\ \A j \in 0..start-1 : mem'[j] = mem[j]
       /\ Chars(mem', start, out') = Chars(mem, start, out) \o text
       /\ \A j \in start..out'-1 : mem'[j] # NUL
  BY <1>2, <1>12, <1>13, <1>14, Written
<1>16. Chars(mem', start, out') = W[z]
  BY <1>11, <1>14, <1>15
<1>17. Q' = Q /\ W' = W /\ N' = N /\ p' = z
  BY <1>1 DEF Q, W, N, z
<1>18. \A j \in start+1..z : j \notin Closes(typed, start + 1)
  <2>1. \A j \in start+1..z : j = z \/ j = a \/ j \in start+1..p
    BY <1>2, <1>4 DEF z, a
  <2>2. z \notin Closes(typed, start + 1)
    BY <1>5 DEF Closes, Delimiters, BLANK
  <2>3. a \notin Closes(typed, start + 1)
    BY <1>2 DEF a
  <2> QED BY <1>2, <2>1, <2>2, <2>3 DEF InWord
<1>19. ~Expands(typed, start + 1, z)
  BY <1>5 DEF Expands
<1>20. InWord'
  <2>1. start < N /\ typed[start + 1] \notin Delimiters
    BY <1>2 DEF InWord
  <2>2. quote' = Q[z] /\ quote' \in 0..2
    BY <1>1, <1>9
  <2> QED BY <1>1, <1>15, <1>16, <1>17, <1>18, <1>19, <2>1, <2>2 DEF InWord
<1> QED BY <1>1, <1>15, <1>20, WordStays

\* Where the word ends, its characters have been spelt.
LEMMA WordEnds ==
  ASSUME Good, pc = "word", Ends
  PROVE  LET tok == TokenAt(typed, start + 1, last_exit)
             w == W[p]
         IN  /\ tok.end = p + 1 /\ tok.t = "word"
             /\ tok.v = IF HasTilde(w) THEN Home(w) ELSE w
             /\ w \in Seq(Text) /\ p \in 0..N
<1>1. /\ Ahead /\ InWord /\ typed \in Seq(Characters) /\ Len(typed) = N /\ N \in Nat
      /\ start \in Nat /\ p \in Nat /\ start <= p /\ p <= N
      /\ \A j \in p..N-1 : mem[j] = typed[j+1] /\ mem[j] # NUL
      /\ last_exit \in Nat /\ last_exit < 100 /\ start < N
  <2>1. Ahead /\ InWord /\ last_exit \in Nat /\ last_exit < 100 /\ start < N
    BY DEF Good, Follows, InWord
  <2>2. /\ typed \in Seq(Characters) /\ Len(typed) = N /\ N \in Nat
        /\ \A j \in p..N-1 : mem[j] = typed[j+1] /\ mem[j] # NUL
    BY <2>1, Unread
  <2>3. start \in Nat /\ p \in Nat /\ start <= p /\ p <= N
    BY <2>1, <2>2 DEF Ahead
  <2> QED BY <2>1, <2>2, <2>3
<1> DEFINE e == p + 1
           S == Closes(typed, start + 1)
           f == FirstIn(typed, start + 1, S)
<1>2. e \in start+1..N+1 /\ start + 1 \in 1..N+1 /\ e - 1 = p /\ p \in 0..N
      /\ start + 1 \in Nat \ {0}
  BY <1>1
<1>3. e \in S \union {N + 1}
  <2>1. CASE mem[p] = NUL
    <3>1. ~(p \in p..N-1)
      BY <1>1, <2>1
    <3>2. p = N
      BY <1>1, <3>1
    <3> QED BY <3>2
  <2>2. CASE mem[p] # NUL
    <3>1. e \in start+1..N
      BY <1>1, <1>2, <2>2, PassOver
    <3>2. p \in p..N-1
      BY <1>1, <3>1
    <3>3. quote = 0 /\ mem[p] \in Delimiters /\ mem[p] = typed[e]
      BY <1>1, <2>2, <3>2 DEF Ends
    <3>4. OpenQuote(typed, start + 1)[e-1] = 0
      BY <1>1, <1>2, <3>3 DEF InWord, Q
    <3> HIDE DEF e
    <3> QED BY <1>1, <3>1, <3>3, <3>4 DEF Closes
  <2> QED BY <2>1, <2>2
<1>4. \A j \in start+1..e-1 : j \notin S
  BY <1>1, <1>2 DEF InWord
<1> HIDE DEF e, S
<1>5. e = f
  <2>1. /\ e \in start+1..Len(typed)+1 /\ e \in S \union {Len(typed)+1}
        /\ start + 1 \in 1..Len(typed)+1 /\ Len(typed) \in Nat
    BY <1>1, <1>2, <1>3
  <2> QED BY <1>4, <2>1, FirstInIs
<1>6. W \in [0..N -> Seq(Text)]
  BY <1>1, <1>2, SpeltIs DEF W
<1>7. TokenAt(typed, start + 1, last_exit) = WordAt(typed, start + 1, last_exit)
  BY <1>1 DEF InWord, TokenAt, Delimiters
<1>8. Spelt(typed, start + 1, last_exit)[f - 1] = W[p]
  BY <1>2, <1>5 DEF W
<1>9. WordAt(typed, start + 1, last_exit) =
        [end |-> e, t |-> "word", v |-> IF HasTilde(W[p]) THEN Home(W[p]) ELSE W[p]]
  BY <1>5, <1>8 DEF WordAt, S
<1>10. W[p] \in Seq(Text)
  BY <1>2, <1>6
<1> QED BY <1>2, <1>7, <1>9, <1>10 DEF e

\* The item that is kept is the word that was written.
LEMMA ItemStands ==
  ASSUME SIZE \in Nat, NEW m, DOMAIN m = 0..SIZE-1, NEW a \in Nat, NEW z \in a..SIZE-1,
         NEW l \in Nat, z < l, NEW w \in Seq(Text), Spells(m, a, z, w)
  PROVE  /\ Item(m, a) \in [copy : Seq(Alphabet), at : Nat]
         /\ Stands(m, Item(m, a), IF HasTilde(w) THEN Home(w) ELSE w, l)
<1>1. m[z] \in {NUL} /\ \A j \in a..z-1 : m[j] \notin {NUL}
  BY DEF Spells
<1>2. Find(m, a, {NUL}) = z
  BY <1>1, FindIs
<1>3. String(m, a) = w
  BY <1>2 DEF String, Spells
<1>4. CASE HasTilde(w)
  <2>1. w # <<>>
    BY <1>4 DEF HasTilde
  <2>2. Tail(w) \in Seq(Alphabet) /\ <<ROOT>> \in Seq(Alphabet)
    <3>1. w \in Seq(Alphabet) /\ ROOT \in Alphabet
      BY DEF Alphabet
    <3> QED BY <2>1, <3>1
  <2>3. Home(w) \in Seq(Alphabet) /\ Home(w) # <<>>
    <3> HIDE DEF ROOT
    <3>1. Home(w) = <<ROOT>> \o Tail(w)
      BY DEF Home
    <3>2. Home(w) \in Seq(Alphabet) /\ Len(Home(w)) = Len(<<ROOT>>) + Len(Tail(w))
      BY <2>2, <3>1, ConcatProperties
    <3>3. Len(<<ROOT>>) = 1 /\ Len(Tail(w)) \in Nat
      BY <2>2
    <3>4. Len(Home(w)) # 0
      BY <3>2, <3>3
    <3> QED BY <3>2, <3>4
  <2>4. Item(m, a) = [copy |-> Home(w), at |-> 0]
    BY <1>3, <1>4 DEF Item
  <2> QED BY <1>4, <2>3, <2>4 DEF Stands
<1>5. CASE ~HasTilde(w)
  <2>1. Item(m, a) = [copy |-> <<>>, at |-> a]
    BY <1>3, <1>5 DEF Item
  <2>2. z \in a..l-1
    OBVIOUS
  <2>3. <<>> \in Seq(Alphabet)
    OBVIOUS
  <2> QED BY <1>5, <2>1, <2>2, <2>3 DEF Stands
<1> QED BY <1>4, <1>5

\* The word ends where writing stopped, and is the next that the segment means.
LEMMA EndWordFollows == Good /\ Ahead' /\ EndWord => Follows'
<1> SUFFICES ASSUME Good, Ahead', EndWord PROVE Follows'
  OBVIOUS
<1> DEFINE IT == [copy : Seq(Alphabet), at : Nat]
           tok == TokenAt(typed, start + 1, last_exit)
           w == W[p]
           item == Item(mem', start)
<1>1. /\ pc = "word" /\ pc' = "token" /\ Ends
      /\ UNCHANGED <<typed, last_exit, out, start, redirs>>
      /\ mem' = [mem EXCEPT ![p] = NUL, ![out] = NUL]
      /\ p' = (IF mem[p] = NUL THEN p ELSE p + 1) /\ items' = Append(items, item)
  BY DEF EndWord
<1>2. /\ Ahead /\ InWord /\ Follows /\ last_exit \in Nat /\ last_exit < 100
      /\ Spaced(typed, last_exit) /\ typed \in Seq(Characters) /\ Len(typed) = N
      /\ items \in Seq(IT) /\ Len(items) < MAX_ITEMS /\ MAX_ITEMS \in Nat /\ Len(items) \in Nat
      /\ DOMAIN mem = 0..SIZE-1 /\ N' = N /\ R' = R
  BY <1>1, Unread, SameSegment, TokenizerAssumption DEF Good, Follows
<1>3. /\ N \in Nat /\ p \in Nat /\ start \in Nat /\ out \in Nat /\ SIZE \in Nat
      /\ start <= out /\ out <= p /\ p <= N /\ N < SIZE /\ start < N
      /\ mem[N] = NUL /\ \A j \in p..N-1 : mem[j] # NUL
  BY <1>1, <1>2, Unread DEF Ahead, InWord
<1>4. mem[p] = NUL <=> p = N
  <2>1. p = N \/ p \in p..N-1
    BY <1>3
  <2> QED BY <1>3, <2>1
<1>5. p' = (IF p = N THEN p ELSE p + 1)
  BY <1>1, <1>4
<1>6. Limit = start /\ Limit' = (IF p' < N THEN p' ELSE N + 1)
  BY <1>1, <1>2 DEF Limit
<1>7. start \in Nat /\ Limit' \in Nat /\ start <= Limit' /\ out < Limit'
  BY <1>3, <1>5, <1>6
<1>8. /\ tok.end = p + 1 /\ tok.t = "word" /\ w \in Seq(Text)
      /\ tok.v = IF HasTilde(w) THEN Home(w) ELSE w
  BY <1>1, WordEnds
<1>9. PICK r : Found(r) /\ r.at = start + 1
  BY <1>1, <1>2 DEF Follows
<1>10. r \in Readings(N) /\ r.words \in Seq(Seq(Alphabet))
  BY <1>2, <1>9, FoundIs DEF Readings
<1> HIDE DEF tok, w, item, IT
<1>11. \E m \in 0..N : R[m] = [at |-> IF tok.end > N THEN tok.end ELSE tok.end + 1,
                               words |-> Append(r.words, tok.v), out |-> r.out, inp |-> r.inp]
  <2>1. PICK k \in 0..N : r = R[k]
    BY <1>9 DEF Found
  <2>2. r.at <= Len(typed) /\ typed[r.at] # BLANK
    BY <1>2, <1>3, <1>9 DEF InWord, Delimiters
  <2>3. TokenAt(typed, r.at, last_exit) = tok
    BY <1>9 DEF tok
  <2>4. k \in 0..Len(typed) /\ r = Reading(typed, last_exit)[k]
    BY <1>2, <2>1 DEF R
  <2> DEFINE tk == TokenAt(typed, r.at, last_exit)
  <2>5. \E m \in 0..Len(typed) :
           Reading(typed, last_exit)[m] =
             [at    |-> IF tk.end > Len(typed) THEN tk.end ELSE tk.end + 1,
              words |-> IF tk.t = "word" THEN Append(r.words, tk.v) ELSE r.words,
              out   |-> IF tk.t \in {">", ">>"} THEN tk ELSE r.out,
              inp   |-> IF tk.t = "<" THEN tk ELSE r.inp]
    <3>1. /\ typed \in Seq(Characters) /\ last_exit \in Nat /\ last_exit < 100
          /\ Spaced(typed, last_exit)
      BY <1>2
    <3>2. r.at <= Len(typed) /\ typed[r.at] # BLANK
      BY <2>2
    <3> QED BY <2>4, <3>1, <3>2, TokenRead
  <2> HIDE DEF tk
  <2>6. tk = tok
    BY <2>3 DEF tk
  <2> QED BY <1>2, <1>8, <2>5, <2>6 DEF R
<1>12. PICK x : /\ \E m \in 0..N : x = R[m]
                /\ x.at = (IF tok.end > N THEN tok.end ELSE tok.end + 1)
                /\ x.words = Append(r.words, tok.v) /\ x.out = r.out /\ x.inp = r.inp
  BY <1>11
<1>13. x.at = p' + 1
  BY <1>3, <1>5, <1>8, <1>12
<1>14. DOMAIN mem' = 0..SIZE-1 /\ mem'[out] = NUL /\ \A j \in 0..out-1 : mem'[j] = mem[j]
  BY <1>1, <1>2, <1>3
<1>15. Spells(mem', start, out, w)
  <2>1. Chars(mem', start, out) = Chars(mem, start, out)
    <3>1. \A j \in 1..(out - start) : start + j - 1 \in 0..out-1
      BY <1>3
    <3>2. \A j \in 1..(out - start) : mem'[start + j - 1] = mem[start + j - 1]
      BY <1>14, <3>1
    <3> QED BY <3>2 DEF Chars
  <2>2. \A j \in start..out-1 : j \in 0..out-1 /\ mem[j] # NUL
    BY <1>2, <1>3 DEF InWord
  <2>3. Chars(mem, start, out) = w
    BY <1>2 DEF InWord, w
  <2> QED BY <1>14, <2>1, <2>2, <2>3 DEF Spells
<1>16. item \in IT /\ Stands(mem', item, tok.v, Limit')
  <2>1. out \in start..SIZE-1
    BY <1>3
  <2> QED BY <1>3, <1>7, <1>8, <1>14, <1>15, <2>1, ItemStands DEF item, IT
<1>17. items' \in Seq(IT) /\ Len(items') = Len(items) + 1 /\ Len(items') <= MAX_ITEMS
       /\ items'[Len(items) + 1] = item /\ \A i \in 1..Len(items) : items'[i] = items[i]
  BY <1>1, <1>2, <1>16
<1>18. Len(items) = Len(r.words)
  BY <1>9 DEF Found
<1>19. tok.v \in Seq(Alphabet)
  <2>1. start + 1 \in 1..Len(typed) /\ typed[start + 1] \notin Delimiters
    BY <1>2, <1>3 DEF InWord
  <2>2. tok = WordAt(typed, start + 1, last_exit)
    BY <2>1 DEF tok, TokenAt, Delimiters
  <2>3. tok \in Tok
    BY <1>2, <2>1, <2>2, WordIs
  <2> QED BY <2>3 DEF Tok
<1>20. /\ Len(x.words) = Len(items) + 1 /\ x.words[Len(items) + 1] = tok.v
       /\ \A i \in 1..Len(items) : x.words[i] = r.words[i]
  BY <1>10, <1>12, <1>18, <1>19
<1>21. \A j \in 0..start-1 : mem'[j] = mem[j]
  BY <1>3, <1>14
<1>22. ASSUME NEW i \in 1..Len(items') PROVE Stands(mem', items'[i], x.words[i], Limit')
  <2>1. CASE i = Len(items) + 1
    BY <1>16, <1>17, <1>20, <2>1
  <2>2. CASE i # Len(items) + 1
    <3>1. i \in 1..Len(items)
      BY <1>2, <1>17, <2>2
    <3>2. items[i] \in IT
      BY <1>2, <3>1, ElementOfSeq
    <3>3. items[i].at \in Nat
      BY <3>2 DEF IT
    <3>4. Stands(mem, items[i], r.words[i], start)
      BY <1>6, <1>9, <3>1 DEF Found
    <3> DEFINE v == r.words[i]
               it == items[i]
    <3>5. it.at \in Nat /\ Stands(mem, it, v, start)
      BY <3>3, <3>4
    <3> HIDE DEF v, it
    <3>6. Stands(mem', it, v, Limit')
      BY <1>7, <1>21, <3>5, StandsOn
    <3> QED BY <1>17, <1>20, <3>1, <3>6 DEF v, it
  <2> QED BY <2>1, <2>2
<1>23. SameRedirs(x)'
  BY <1>1, <1>9, <1>12 DEF Found, SameRedirs, redirs
<1>24. Len(items') = Len(x.words)
  BY <1>17, <1>20
<1>25. \E m \in 0..N' : x = R'[m]
  BY <1>2, <1>12
<1>26. Found(x)'
  BY <1>22, <1>23, <1>24, <1>25 DEF Found
<1>27. Found(x)' /\ x.at = p' + 1
  BY <1>13, <1>26
<1> QED BY <1>1, <1>17, <1>27 DEF Follows, IT

\* A redirection is the last of its direction, and nothing is written for it.
LEMMA RedirectFollows == Good /\ Ahead' /\ Redirect => Follows'
<1> SUFFICES ASSUME Good, Ahead', Redirect PROVE Follows'
  OBVIOUS
<1> DEFINE append == mem[First] = ">" /\ mem[First + 1] = ">"
           from == SkipBlanks(First + (IF append THEN 2 ELSE 1))
           end  == Find(mem, from, Delimiters \union {NUL})
           name == Chars(mem, from, end)
           two == typed[First + 1] = ">" /\ First + 1 < Len(typed) /\ typed[(First + 1) + 1] = ">"
           b == FirstIn(typed, IF two THEN (First + 1) + 2 ELSE (First + 1) + 1, NoBlanks(typed))
           e == FirstIn(typed, b, Cuts(typed))
           tok == TokenAt(typed, First + 1, last_exit)
<1>1. /\ pc = "token" /\ pc' = "token" /\ More /\ mem[First] \in {">", "<"}
      /\ UNCHANGED <<typed, last_exit, mem, items>>
      /\ p' = (IF mem[end] = NUL THEN end ELSE end + 1)
      /\ IF mem[First] = ">"
         THEN /\ has_out' = TRUE /\ out_file' = name /\ out_append' = append
              /\ UNCHANGED <<has_in, in_file>>
         ELSE /\ has_in' = TRUE /\ in_file' = name
              /\ UNCHANGED <<has_out, out_file, out_append>>
  BY DEF Redirect, More
<1>2. /\ Ahead /\ Follows /\ last_exit \in Nat /\ last_exit < 100
      /\ Spaced(typed, last_exit) /\ typed \in Seq(Characters) /\ Len(typed) = N
      /\ items \in Seq([copy : Seq(Alphabet), at : Nat]) /\ Len(items) <= MAX_ITEMS
      /\ N' = N /\ R' = R
  BY <1>1, Unread, SameSegment DEF Good, Follows
<1>3. /\ N \in Nat /\ p \in Nat /\ p <= N /\ mem[N] = NUL /\ SIZE \in Nat /\ N < SIZE
      /\ \A j \in p..N-1 : mem[j] = typed[j+1] /\ mem[j] # NUL
  <2>1. Ahead
    BY <1>2
  <2>2. /\ N \in Nat /\ p \in 0..N /\ mem[N] = NUL /\ SIZE \in Nat /\ N < SIZE
        /\ \A j \in p..N-1 : mem[j] = typed[j+1] /\ mem[j] # NUL
    BY <2>1, Unread
  <2> QED BY <2>2
<1>4. First \in p..N-1 /\ First \in Nat /\ \A j \in p..First-1 : mem[j] = BLANK
  <2>1. First # N
    BY <1>1, <1>2, FirstIs DEF More
  <2> QED BY <1>2, <1>3, <2>1, FirstIs
<1> DEFINE f == First
<1>5. f \in Nat /\ p <= f /\ f < N /\ f \in p..N
  BY <1>3, <1>4
<1>6. typed[f + 1] = mem[f]
  BY <1>3, <1>4
<1>7. append <=> two
  <2>1. f + 1 \in p..N /\ f + 1 \in Nat
    BY <1>3, <1>5
  <2>2. f + 1 < N => mem[f + 1] = typed[(f + 1) + 1]
    BY <1>3, <2>1
  <2>3. f + 1 < N \/ f + 1 = N
    BY <1>3, <1>5
  <2>4. NUL # ">"
    BY DEF NUL
  <2> QED BY <1>2, <1>3, <1>6, <2>2, <2>3, <2>4
<1> DEFINE after == f + (IF append THEN 2 ELSE 1)
<1>8. /\ (IF two THEN (f + 1) + 2 ELSE (f + 1) + 1) = after + 1
      /\ after \in Nat /\ p <= after /\ after <= N
  <2>1. append => (f + 1) + 1 <= N
    BY <1>2, <1>3, <1>5, <1>7
  <2> HIDE DEF append, two
  <2>2. CASE append
    BY <1>3, <1>5, <1>7, <2>1, <2>2
  <2>3. CASE ~append
    BY <1>3, <1>5, <1>7, <2>3
  <2> QED BY <2>2, <2>3
<1>9. from = SkipBlanks(after) /\ b = FirstIn(typed, after + 1, NoBlanks(typed))
  BY <1>8
<1> HIDE DEF after
<1>10. /\ from \in after..N /\ mem[from] # BLANK
       /\ \A j \in after..from-1 : mem[j] = BLANK
  BY <1>2, <1>8, <1>9, SkipStops
<1> HIDE DEF from
<1>11. from \in Nat /\ p <= from /\ from <= N
  BY <1>3, <1>8, <1>10
<1>12. b = from + 1
  <2> DEFINE c == from + 1
             S == NoBlanks(typed)
  <2>1. c \in after+1..N+1 /\ after + 1 \in 1..N+1
    BY <1>3, <1>8, <1>10
  <2>2. c \in S \union {N + 1}
    <3>1. from = N \/ from \in p..N-1
      BY <1>3, <1>11
    <3>2. from \in p..N-1 => typed[c] # BLANK /\ c \in 1..Len(typed)
      BY <1>2, <1>3, <1>10
    <3> HIDE DEF c
    <3> QED BY <3>1, <3>2 DEF NoBlanks, c
  <2>3. ASSUME NEW k \in after+1..c-1 PROVE k \notin S
    <3>1. k - 1 \in after..from-1 /\ k - 1 \in p..N-1 /\ (k - 1) + 1 = k
      BY <1>3, <1>8, <1>10, <1>11
    <3>2. typed[k] = BLANK
      BY <1>3, <1>10, <3>1
    <3> QED BY <3>2 DEF NoBlanks
  <2> HIDE DEF c, S
  <2>4. /\ c \in after+1..Len(typed)+1 /\ c \in S \union {Len(typed)+1}
        /\ after + 1 \in 1..Len(typed)+1 /\ Len(typed) \in Nat
    BY <1>2, <1>3, <2>1, <2>2
  <2>5. c = FirstIn(typed, after + 1, S)
    BY <2>3, <2>4, FirstInIs
  <2> QED BY <1>9, <2>5 DEF c, S
<1> HIDE DEF b
<1>13. /\ end \in from..N /\ mem[end] \in Delimiters \union {NUL}
       /\ \A j \in from..end-1 : mem[j] \notin Delimiters \union {NUL}
  BY <1>2, <1>11, FindStops
<1> HIDE DEF end
<1>14. end \in Nat /\ p <= end /\ end <= N
  BY <1>3, <1>11, <1>13
<1>15. e = end + 1
  <2> DEFINE c == end + 1
             S == Cuts(typed)
  <2>1. c \in from+1..N+1 /\ from + 1 \in 1..N+1
    BY <1>3, <1>11, <1>13, <1>14
  <2>2. c \in S \union {N + 1}
    <3>1. end = N \/ end \in p..N-1
      BY <1>3, <1>14
    <3>2. end \in p..N-1 => typed[c] \in Delimiters /\ c \in 1..Len(typed)
      BY <1>2, <1>3, <1>13
    <3> HIDE DEF c
    <3> QED BY <3>1, <3>2 DEF Cuts, c
  <2>3. ASSUME NEW k \in from+1..c-1 PROVE k \notin S
    <3>1. k - 1 \in from..end-1 /\ k - 1 \in p..N-1 /\ (k - 1) + 1 = k
      BY <1>3, <1>11, <1>14
    <3>2. typed[k] \notin Delimiters
      BY <1>3, <1>13, <3>1
    <3> QED BY <3>2 DEF Cuts
  <2> HIDE DEF c, S
  <2>4. /\ c \in from+1..Len(typed)+1 /\ c \in S \union {Len(typed)+1}
        /\ from + 1 \in 1..Len(typed)+1 /\ Len(typed) \in Nat
    BY <1>2, <1>3, <2>1, <2>2
  <2>5. c = FirstIn(typed, from + 1, S)
    BY <2>3, <2>4, FirstInIs
  <2> QED BY <1>12, <2>5 DEF c, S
<1> HIDE DEF e
<1>16. name = SubSeq(typed, b, e - 1)
  <2> DEFINE n == end - from
             y == SubSeq(typed, b, e - 1)
  <2>1. n \in Nat /\ b \in Int /\ e - 1 \in Int /\ (e - 1) - b + 1 = n
        /\ (b <= e - 1 <=> n > 0)
    BY <1>11, <1>12, <1>13, <1>14, <1>15
  <2>2. ASSUME NEW i \in b..e-1 PROVE typed[i] \in Characters
    <3>1. i \in 1..Len(typed)
      BY <1>2, <1>3, <1>11, <1>12, <1>14, <1>15
    <3> QED BY <1>2, <3>1, ElementOfSeq
  <2>3. /\ y \in Seq(Characters) /\ Len(y) = (IF b <= e - 1 THEN (e - 1) - b + 1 ELSE 0)
        /\ \A i \in 1..(e - 1) - b + 1 : y[i] = typed[b + i - 1]
    BY <2>1, <2>2, SubSeqProperties
  <2> HIDE DEF y, n
  <2>4. Len(y) = n /\ \A i \in 1..n : y[i] = typed[b + i - 1]
    BY <2>1, <2>3
  <2>5. y = [i \in 1..n |-> y[i]]
    BY <2>3, <2>4, LenProperties
  <2>6. ASSUME NEW i \in 1..n PROVE mem[from + i - 1] = typed[b + i - 1]
    <3>1. from + i - 1 \in p..N-1 /\ (from + i - 1) + 1 = b + i - 1
      BY <1>3, <1>11, <1>12, <1>13, <1>14 DEF n
    <3> QED BY <1>3, <3>1
  <2>7. name = [i \in 1..n |-> mem[from + i - 1]]
    BY DEF Chars, n
  <2>8. name = y
    BY <2>4, <2>5, <2>6, <2>7
  <2> QED BY <2>8 DEF y
<1> HIDE DEF name
<1>17. tok = [end |-> e, t |-> IF two THEN ">>" ELSE mem[f], v |-> name]
  BY <1>1, <1>6, <1>16 DEF TokenAt, RedirAt, b, e
<1>18. tok.end = e /\ tok.v = name /\ tok.t = (IF two THEN ">>" ELSE mem[f])
  BY <1>17
<1>19. mem[f] = ">" \/ (mem[f] = "<" /\ ~two)
  BY <1>1, <1>6
<1>20. mem[end] = NUL <=> end = N
  <2>1. end = N \/ end \in p..N-1
    BY <1>3, <1>14
  <2> QED BY <1>3, <2>1
<1> HIDE DEF tok, two, append
<1>21. PICK r : Found(r) /\ r.at = f + 1
  <2>1. PICK y : Found(y) /\ y.at = p + 1
    BY <1>1, <1>2 DEF Follows
  <2> QED BY <1>2, <1>4, <1>5, <2>1, PassBlanks
<1>22. \E m \in 0..N : R[m] = [at |-> IF tok.end > N THEN tok.end ELSE tok.end + 1,
                               words |-> r.words,
                               out |-> IF mem[f] = ">" THEN tok ELSE r.out,
                               inp |-> IF mem[f] = ">" THEN r.inp ELSE tok]
  <2>1. PICK k \in 0..N : r = R[k]
    BY <1>21 DEF Found
  <2>2. r.at <= Len(typed) /\ typed[r.at] # BLANK
    <3>1. r.at = f + 1 /\ typed[f + 1] \in {">", "<"}
      BY <1>1, <1>6, <1>21
    <3>2. f + 1 <= Len(typed)
      BY <1>2, <1>3, <1>5
    <3> QED BY <3>1, <3>2 DEF BLANK
  <2>3. TokenAt(typed, r.at, last_exit) = tok
    BY <1>21 DEF tok
  <2>4. k \in 0..Len(typed) /\ r = Reading(typed, last_exit)[k]
    BY <1>2, <2>1 DEF R
  <2> DEFINE tk == TokenAt(typed, r.at, last_exit)
  <2>5. \E m \in 0..Len(typed) :
           Reading(typed, last_exit)[m] =
             [at    |-> IF tk.end > Len(typed) THEN tk.end ELSE tk.end + 1,
              words |-> IF tk.t = "word" THEN Append(r.words, tk.v) ELSE r.words,
              out   |-> IF tk.t \in {">", ">>"} THEN tk ELSE r.out,
              inp   |-> IF tk.t = "<" THEN tk ELSE r.inp]
    <3>1. /\ typed \in Seq(Characters) /\ last_exit \in Nat /\ last_exit < 100
          /\ Spaced(typed, last_exit)
      BY <1>2
    <3>2. r.at <= Len(typed) /\ typed[r.at] # BLANK
      BY <2>2
    <3> QED BY <2>4, <3>1, <3>2, TokenRead
  <2> HIDE DEF tk
  <2>6. tk = tok
    BY <2>3 DEF tk
  <2>7. /\ tok.t # "word" /\ (mem[f] = ">" => tok.t \in {">", ">>"} /\ tok.t # "<")
        /\ (mem[f] # ">" => tok.t = "<")
    BY <1>18, <1>19
  <2> QED BY <1>2, <2>5, <2>6, <2>7 DEF R
<1>23. PICK x : /\ \E m \in 0..N : x = R[m]
                /\ x.at = (IF tok.end > N THEN tok.end ELSE tok.end + 1) /\ x.words = r.words
                /\ x.out = (IF mem[f] = ">" THEN tok ELSE r.out)
                /\ x.inp = (IF mem[f] = ">" THEN r.inp ELSE tok)
  BY <1>22
<1>24. p' = (IF end = N THEN end ELSE end + 1)
  BY <1>1, <1>20
<1>25. x.at = p' + 1
  BY <1>3, <1>14, <1>15, <1>18, <1>23, <1>24
<1>26. Limit \in Nat /\ Limit' \in Nat /\ Limit <= Limit'
  <2>1. Limit = p /\ Limit' = IF p' < N THEN p' ELSE N + 1
    BY <1>1, <1>2, <1>3, <1>5 DEF Limit
  <2> QED BY <1>3, <1>14, <1>24, <2>1
<1>27. ASSUME NEW i \in 1..Len(items) PROVE Stands(mem', items[i], x.words[i], Limit')
  <2>1. items[i] \in [copy : Seq(Alphabet), at : Nat]
    BY <1>2, ElementOfSeq
  <2>2. items[i].at \in Nat /\ Stands(mem, items[i], r.words[i], Limit)
    BY <1>21, <2>1 DEF Found
  <2> DEFINE v == r.words[i]
             it == items[i]
  <2>3. it.at \in Nat /\ Stands(mem, it, v, Limit) /\ \A j \in 0..Limit-1 : mem'[j] = mem[j]
    BY <1>1, <2>2
  <2> HIDE DEF v, it
  <2>4. Stands(mem', it, v, Limit')
    BY <1>26, <2>3, StandsOn
  <2> QED BY <1>23, <2>4 DEF v, it
<1>28. SameRedirs(x)'
  <2>1. SameRedirs(r)
    BY <1>21 DEF Found
  <2>2. tok # NoToken
    BY <1>18, <1>19 DEF NoToken
  <2>3. CASE mem[f] = ">"
    <3>1. append <=> tok.t = ">>"
      BY <1>7, <1>18, <2>3
    <3>2. /\ has_out' = TRUE /\ out_file' = name /\ (out_append' <=> append)
          /\ has_in' = has_in /\ in_file' = in_file
      BY <1>1, <2>3
    <3> QED BY <1>18, <1>23, <2>1, <2>2, <2>3, <3>1, <3>2 DEF SameRedirs
  <2>4. CASE ~(mem[f] = ">")
    <3>1. /\ has_in' = TRUE /\ in_file' = name /\ has_out' = has_out /\ out_file' = out_file
          /\ (out_append' <=> out_append)
      BY <1>1, <2>4
    <3> QED BY <1>18, <1>23, <2>1, <2>2, <2>4, <3>1 DEF SameRedirs
  <2> QED BY <2>3, <2>4
<1>29. Len(items) = Len(r.words) /\ items' = items
  BY <1>1, <1>21 DEF Found
<1>30. Found(x)'
  BY <1>2, <1>23, <1>27, <1>28, <1>29 DEF Found
<1>31. Found(x)' /\ x.at = p' + 1
  BY <1>25, <1>30
<1> QED BY <1>1, <1>2, <1>29, <1>31 DEF Follows

\* Before anything is read nothing is found and nothing is meant.
LEMMA WordInvInit == Init => WordInv
<1> SUFFICES ASSUME Init, last_exit < 100 PROVE Follows
  BY DEF WordInv
<1>1. /\ typed \in Segments /\ last_exit \in Nat /\ pc = "token" /\ p = 0 /\ items = <<>>
      /\ has_out = FALSE /\ has_in = FALSE
  BY TokenizerAssumption DEF Init
<1>2. typed \in Seq(Characters) /\ Len(typed) = N /\ N \in Nat /\ MAX_ITEMS \in Nat
  BY <1>1, TokenizerAssumption DEF N
<1> DEFINE r == [at |-> 1, words |-> <<>>, out |-> NoToken, inp |-> NoToken]
<1>3. R[0] = r /\ 0 \in 0..N
  BY <1>1, <1>2, ReadingIs DEF R
<1>4. r.at = p + 1 /\ r.words = <<>> /\ r.out = NoToken /\ r.inp = NoToken
  BY <1>1
<1> HIDE DEF r
<1>5. Len(items) = 0 /\ Len(r.words) = 0 /\ 1..0 = {}
  BY <1>1, <1>4
<1>6. Found(r)
  BY <1>1, <1>3, <1>4, <1>5 DEF Found, SameRedirs
<1>7. items \in Seq([copy : Seq(Alphabet), at : Nat]) /\ Len(items) <= MAX_ITEMS
  BY <1>1, <1>2, <1>5
<1> QED BY <1>1, <1>4, <1>6, <1>7 DEF Follows

\* Every step keeps what was found and what is spelt.
LEMMA WordInvStep == TokInv /\ TokInv' /\ WordInv /\ [tokenize]_vars => WordInv'
<1> SUFFICES ASSUME TokInv, TokInv', WordInv, [tokenize]_vars PROVE WordInv'
  OBVIOUS
<1>1. UNCHANGED <<typed, last_exit>>
  BY DEF tokenize, vars, Stop, Redirect, StartWord, ToggleQuote, ExpandStatus,
         Copy, EndWord
<1> SUFFICES ASSUME last_exit < 100, Spaced(typed, last_exit) PROVE Follows'
  BY <1>1 DEF WordInv
<1>2. Good /\ Ahead'
  <2>1. last_exit \in Nat
    BY TokenizerAssumption DEF TokInv
  <2> QED BY <1>1, <2>1 DEF TokInv, WordInv, Good
<1>3. CASE Stop
  BY <1>2, <1>3, StopFollows
<1>4. CASE Redirect
  BY <1>2, <1>4, RedirectFollows
<1>5. CASE StartWord
  BY <1>2, <1>5, StartWordFollows
<1>6. CASE ToggleQuote
  BY <1>2, <1>6, ToggleQuoteFollows
<1>7. CASE ExpandStatus
  BY <1>2, <1>7, ExpandStatusFollows
<1>8. CASE Copy
  BY <1>2, <1>8, CopyFollows
<1>9. CASE EndWord
  BY <1>2, <1>9, EndWordFollows
<1>10. CASE UNCHANGED vars
  <2>1. UNCHANGED <<pc, typed, last_exit, mem, p, out, start, quote, items, has_out, out_file,
                    out_append, has_in, in_file>>
    BY <1>10 DEF vars, redirs
  <2>2. N' = N /\ R' = R /\ Q' = Q /\ W' = W /\ Limit' = Limit
    BY <2>1 DEF N, R, Q, W, Limit
  <2>3. ASSUME NEW r, Found(r) PROVE Found(r)'
    BY <2>1, <2>2, <2>3 DEF Found, SameRedirs
  <2>4. InWord => InWord'
    BY <2>1, <2>2 DEF InWord
  <2>5. Follows
    BY <1>2 DEF Good
  <2> QED BY <2>1, <2>2, <2>3, <2>4, <2>5 DEF Follows
<1> QED BY <1>3, <1>4, <1>5, <1>6, <1>7, <1>8, <1>9, <1>10 DEF tokenize

\* With everything read, what was found is what the whole segment means.
LEMMA AllFound == TokInv /\ WordInv => WordsAsTyped
<1> SUFFICES ASSUME TokInv, WordInv, pc = "done", last_exit < 100, Spaced(typed, last_exit)
             PROVE  MeansTyped
  BY DEF WordsAsTyped
<1>1. Ahead /\ Follows /\ last_exit \in Nat
  BY TokenizerAssumption DEF TokInv, WordInv
<1>2. /\ typed \in Seq(Characters) /\ Len(typed) = N /\ N \in Nat /\ N < SIZE /\ SIZE \in Nat
      /\ DOMAIN mem = 0..SIZE-1
  BY <1>1, Unread
<1>3. items \in Seq([copy : Seq(Alphabet), at : Nat]) /\ Len(items) <= MAX_ITEMS
      /\ MAX_ITEMS \in Nat /\ Len(items) \in Nat
  BY <1>1, TokenizerAssumption DEF Follows
<1>4. PICK x : Found(x) /\ (x.at = N + 1 \/ Len(items) = MAX_ITEMS)
  BY <1>1 DEF Follows
<1>5. PICK k \in 0..N : x = R[k]
  BY <1>4 DEF Found
<1> DEFINE r == R[N]
<1>6. /\ Len(r.words) >= Len(x.words) /\ \A i \in 1..Len(x.words) : r.words[i] = x.words[i]
      /\ x.at = N + 1 => r = x
  BY <1>1, <1>2, <1>5, Grows DEF R
<1>7. r.words \in Seq(Seq(Alphabet)) /\ Len(r.words) \in Nat /\ Len(x.words) = Len(items)
  <2>1. R \in [0..N -> Readings(N)] /\ N \in 0..N
    BY <1>1, <1>2, ReadingIs DEF R
  <2>2. r \in Readings(N)
    BY <2>1
  <2>3. r.words \in Seq(Seq(Alphabet))
    BY <2>2 DEF Readings
  <2> QED BY <1>4, <2>3, LenProperties DEF Found
<1>8. r = Reading(typed, last_exit)[Len(typed)]
  BY <1>2 DEF R
<1> HIDE DEF r
<1> SUFFICES ASSUME Len(r.words) <= MAX_ITEMS
             PROVE  /\ [i \in 1..Len(items) |-> Cut(items[i])] = r.words
                    /\ Len(r.words) < MAX_ITEMS => SameRedirs(r)
  BY <1>8 DEF MeansTyped, SameRedirs
<1>9. Len(r.words) = Len(items)
  <2>1. CASE x.at = N + 1
    BY <1>6, <1>7, <2>1
  <2>2. CASE Len(items) = MAX_ITEMS
    BY <1>6, <1>7, <2>2, <1>3
  <2> QED BY <1>4, <2>1, <2>2
<1>10. ASSUME NEW i \in 1..Len(items) PROVE Cut(items[i]) = r.words[i]
  <2> DEFINE it == items[i]
  <2>1. it.at \in Nat
    <3>1. items[i] \in [copy : Seq(Alphabet), at : Nat]
      BY <1>3, ElementOfSeq
    <3> QED BY <3>1
  <2>2. Stands(mem, it, r.words[i], Limit)
    BY <1>4, <1>6, <1>7 DEF Found
  <2>3. Limit = N + 1
    BY DEF Limit
  <2> HIDE DEF it
  <2>4. CASE it.copy # <<>>
    BY <2>2, <2>4 DEF Cut, Stands, it
  <2>5. CASE ~(it.copy # <<>>)
    <3>1. PICK z \in it.at..Limit-1 : Spells(mem, it.at, z, r.words[i])
      BY <2>2, <2>5 DEF Stands
    <3>2. z \in it.at..SIZE-1
      BY <1>2, <2>1, <2>3, <3>1
    <3>3. mem[z] \in {NUL} /\ \A j \in it.at..z-1 : mem[j] \notin {NUL}
      BY <3>1 DEF Spells
    <3>4. Find(mem, it.at, {NUL}) = z
      BY <1>2, <2>1, <3>2, <3>3, FindIs
    <3>5. String(mem, it.at) = r.words[i]
      BY <3>1, <3>4 DEF String, Spells
    <3> QED BY <2>5, <3>5 DEF Cut, it
  <2> QED BY <2>4, <2>5
<1>11. [i \in 1..Len(items) |-> Cut(items[i])] = r.words
  <2>1. r.words = [i \in 1..Len(items) |-> r.words[i]]
    BY <1>7, <1>9, LenProperties
  <2> QED BY <1>10, <2>1
<1>12. ASSUME Len(r.words) < MAX_ITEMS PROVE SameRedirs(r)
  <2>1. x.at = N + 1
    BY <1>3, <1>4, <1>9, <1>12
  <2>2. r = x
    BY <1>6, <2>1
  <2> QED BY <1>4, <2>2 DEF Found
<1> QED BY <1>11, <1>12

\* With the whole segment cut up, every word and the last redirection of each
\* direction are what the line as typed means, by quotes, $?, ~ and blanks,
\* for every segment and every status of at most two digits
\* (src/shell.c, tokenize).
THEOREM WordsMeanTyped == Spec => []WordsAsTyped
BY TokInvInit, TokInvStep, WordInvInit, WordInvStep, AllFound, PTL DEF Spec
=============================================================================

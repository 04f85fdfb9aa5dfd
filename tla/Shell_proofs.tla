---------------------------- MODULE Shell_proofs ----------------------------
(***************************************************************************)
(* How a line is run, for every set of lines, commands, files and          *)
(* characters and every size of the pipes.  The inductive invariant has    *)
(* four parts: the line stays a sequence of tokens that ends with a NUL    *)
(* (LineInv), the redirections and pipe pointers are what the place in the *)
(* pipeline says (StageInv), what they lead to is made of characters       *)
(* (DataInv), and the pipes, the status and the screen are those of what   *)
(* ran (FlowInv).  A second one, CmdInv, says for lines without && and ||  *)
(* which of their commands have run so far, and what of the line still     *)
(* stands as it was typed.                                                 *)
(***************************************************************************)
EXTENDS Shell, NatInduct, SequenceTheorems

\* The characters of a token, and the words of a command.
Token == Typed \union {NUL}
Texts == Cmds \union Files \union {"", NONE}

\* What a segment that ran leaves in the history.
Entry == [cmd : Texts, status : Nat, first : BOOLEAN,
          from : {NONE, "file", "pipe", "keyboard"}, input : Seq(Chars),
          to : {"file", "pipe", "screen"}, output : Seq(Chars)]

\* What the stage after e finds in its pipe.
Passed(e) == IF e.to = "pipe" THEN Clip(e.output) ELSE <<>>

\* What e shows.
Piece(e) == IF e.to = "screen" THEN e.output ELSE <<>>

\* Everything the entries of r show, in order.
Shown(r) ==
  LET shown[i \in 0..Len(r)] ==
        IF i = 0 THEN <<>>
        ELSE shown[i-1] \o (IF r[i].to = "screen" THEN r[i].output ELSE <<>>)
  IN  shown[Len(r)]

\* What a stage that prints data gets from Output.
StageOutput(data, to, fs, ps) == Output(data, to, ~IsLast, which, fs, ps)

\* Where do_line and run_segment stand in the line.
LineInv ==
  /\ line \in Seq(Token) /\ line # <<>> /\ line[Len(line)] = NUL
  /\ start \in 1..Len(line) /\ p \in start..Len(line)
  /\ seg \in 0..Len(line)

\* The variables of a pipeline, at each of its stages.
StageInv ==
  /\ pc \in {"prompt", "scan", "segment", "run", "next"}
  /\ which \in 0..1 /\ pipe_reader \in 0..2 /\ pipe_writer \in 0..2
  /\ pipe_writing \in BOOLEAN
  /\ pc \in {"prompt", "scan", "next"} => seg = 0
  /\ pc = "run" => /\ seg # 0
                   /\ pipe_writing <=> ~IsLast
                   /\ ~IsLast => pipe_writer = which
  /\ pc # "run" => out_file = NONE /\ in_file = NONE /\ ~pipe_writing
  /\ seg = 0 => pipe_reader = NOPIPE /\ pipe_writer = NOPIPE

\* Every file holds characters.
FilesOK(fs) == fs \in [DOMAIN fs -> Seq(Chars)]

\* The types of what commands read and leave.
DataInv ==
  /\ FilesOK(files)
  /\ out_file \in DOMAIN files \union {NONE}
  /\ in_file \in DOMAIN files \union {NONE}
  /\ pipes \in [0..1 -> Seq(Chars)]
  /\ screen \in Seq(Chars)
  /\ ran \in Seq(Entry)
  /\ cl.cmd \in Texts
  /\ rc \in Nat /\ last_exit \in 0..255 /\ count \in 0..MaxLines
  /\ in_off \in Nat /\ pipe_in_off \in Nat

\* What the history says of the pipes, the status and the screen.
FlowInv ==
  /\ seg # 0 => pipes[which] = <<>>
  /\ pipe_reader # NOPIPE =>
       /\ pipe_reader = 1 - which /\ pipe_in_off = 0
       /\ ran # <<>> /\ pipes[pipe_reader] = Passed(ran[Len(ran)])
  /\ seg = 0 /\ ran # <<>> =>
       rc = ran[Len(ran)].status /\ last_exit = rc % 256
  /\ PipeFlow /\ \A i \in 1..Len(ran) : ran[i].from = "pipe" => i > 1
  /\ screen = Shown(ran)

\* The inductive invariant.
IInv == LineInv /\ StageInv /\ DataInv /\ FlowInv

-----------------------------------------------------------------------------
(* The line.                                                               *)

\* The loops over the line stop at the first token of the kinds they look
\* for: a NUL, which is one of them, ends the line.
LEMMA NextOfIs ==
  ASSUME LineInv, NEW i \in 1..Len(line), NEW T, "nul" \in T
  PROVE  /\ NextOf(i, T) \in i..Len(line) /\ line[NextOf(i, T)].t \in T
         /\ \A k \in i..NextOf(i, T) - 1 : line[k].t \notin T
<1> DEFINE J == {j \in i..Len(line) : line[j].t \in T}
<1>1. Len(line) \in Nat /\ line[Len(line)].t = "nul" /\ Len(line) \in i..Len(line)
  <2>1. line \in Seq(Token) /\ line[Len(line)] = NUL
    BY DEF LineInv
  <2>2. NUL.t = "nul"
    BY DEF NUL
  <2>3. Len(line) \in Nat
    BY <2>1
  <2> QED BY <2>1, <2>2, <2>3
<1>2. J \subseteq Nat /\ Len(line) \in J
  BY <1>1
<1>3. PICK j \in J : \A k \in J : j <= k
  BY <1>2, LeastNatural
<1>4. j \in i..Len(line) /\ line[j].t \in T /\ \A k \in i..j-1 : line[k].t \notin T
  BY <1>1, <1>3
<1> QED BY <1>4 DEF NextOf

\* Cutting the line with a NUL leaves a line of the same length.
LEMMA CutLine ==
  ASSUME LineInv, NEW k \in 1..Len(line)
  PROVE  LET cut == [line EXCEPT ![k] = NUL]
         IN  /\ cut \in Seq(Token) /\ cut # <<>> /\ Len(cut) = Len(line)
             /\ cut[Len(line)] = NUL
<1>1. line \in Seq(Token) /\ line[Len(line)] = NUL /\ Len(line) \in Nat /\ line # <<>>
  BY DEF LineInv
<1>2. NUL \in Token
  BY DEF Token
<1> HIDE DEF NUL
<1>3. [line EXCEPT ![k] = NUL] \in Seq(Token) /\ Len([line EXCEPT ![k] = NUL]) = Len(line)
  BY <1>1, <1>2
<1>4. [line EXCEPT ![k] = NUL][Len(line)] = NUL
  BY <1>1
<1>5. Len(line) > 0
  BY <1>1
<1>6. [line EXCEPT ![k] = NUL] # <<>>
  BY <1>1, <1>3, <1>5
<1> QED BY <1>3, <1>4, <1>6

-----------------------------------------------------------------------------
(* Files and output.                                                       *)

\* A clipped text is a text.
LEMMA ClipType ==
  ASSUME NEW data \in Seq(Chars)
  PROVE  Clip(data) \in Seq(Chars)
BY ShellAssumption DEF Clip

\* Opening an output makes a file and changes no other.
LEMMA OpenedType ==
  ASSUME NEW out \in Token, out.t \in {"nul", ">", ">>"}, FilesOK(files)
  PROVE  /\ FilesOK(Opened(out))
         /\ OutFile(out) \in DOMAIN Opened(out) \union {NONE}
<1>1. CASE out.t = "nul" \/ ~Openable(out)
  <2>1. Opened(out) = files /\ OutFile(out) = NONE
    BY <1>1 DEF Opened, OutFile
  <2> QED BY <2>1
<1>2. CASE ~(out.t = "nul" \/ ~Openable(out))
  <2> DEFINE g == [f \in DOMAIN files \union {out.v} |->
                     IF f \in DOMAIN files /\ (f = out.v => out.t = ">>")
                     THEN files[f] ELSE <<>>]
  <2>1. Opened(out) = g /\ OutFile(out) = out.v
    BY <1>2 DEF Opened, OutFile
  <2>2. g \in [DOMAIN files \union {out.v} -> Seq(Chars)]
    BY DEF FilesOK
  <2> QED BY <2>1, <2>2 DEF FilesOK
<1> QED BY <1>1, <1>2

-----------------------------------------------------------------------------
(* What tokenize finds.                                                    *)

\* The first and the last of some positions are among them.
LEMMA FirstAndLast ==
  ASSUME NEW n \in Nat, NEW S \in SUBSET (1..n), S # {}
  PROVE  Min(S) \in S /\ Max(S) \in S
<1>1. PICK x \in S : \A y \in S : x <= y
  <2>1. S \subseteq Nat
    OBVIOUS
  <2> QED BY <2>1, LeastNatural
<1>2. Min(S) \in S
  BY <1>1 DEF Min
<1>3. PICK z \in S : \A y \in S : z >= y
  <2> DEFINE B == {n - y : y \in S}
  <2>1. B \subseteq Nat /\ B # {}
    OBVIOUS
  <2>2. PICK b \in B : \A w \in B : b <= w
    <3> HIDE DEF B
    <3> QED BY <2>1, LeastNatural
  <2>3. PICK z \in S : b = n - z
    BY <2>2
  <2>4. ASSUME NEW y \in S PROVE z >= y
    <3>1. n - z <= n - y
      BY <2>2, <2>3
    <3> QED BY <3>1
  <2> QED BY <2>4
<1>4. Max(S) \in S
  BY <1>3 DEF Max
<1> QED BY <1>2, <1>4

\* What the swallowed characters leave are tokens.
LEMMA SwallowType ==
  ASSUME NEW s \in Seq(Token)
  PROVE  Swallow(s) \in Seq(Token)
<1>1. Len(s) \in Nat
  OBVIOUS
<1>2. ASSUME NEW tok \in Token, IsRedir(tok)
      PROVE  [tok EXCEPT !.t = IF @ = ">>" THEN ">" ELSE "word"] \in Token
  <2>1. tok # NUL
    <3>1. NUL.t = "nul"
      BY DEF NUL
    <3>2. NUL.t \notin {">", ">>", "<"}
      BY <3>1
    <3> QED BY <1>2, <3>2 DEF IsRedir
  <2>2. tok \in [t : Kinds, v : Cmds \union Files \union {""}]
    BY <2>1 DEF Token, Typed
  <2>3. {">", "word"} \subseteq Kinds
    BY DEF Kinds
  <2>4. [tok EXCEPT !.t = IF @ = ">>" THEN ">" ELSE "word"] \in Typed
    BY <2>2, <2>3 DEF Typed
  <2> QED BY <2>4 DEF Token
<1>3. ASSUME NEW i \in 1..Len(s)
      PROVE  (IF IsRedir(s[i]) /\ i > 1 /\ s[i-1].t # "blank"
              THEN [s[i] EXCEPT !.t = IF @ = ">>" THEN ">" ELSE "word"] ELSE s[i]) \in Token
  <2>1. s[i] \in Token
    OBVIOUS
  <2> QED BY <1>2, <2>1
<1> QED BY <1>1, <1>3 DEF Swallow

\* A segment's command is one of the words there may be, its redirections are
\* redirections of their direction or none.
LEMMA TokenizeType ==
  ASSUME NEW s \in Seq(Token)
  PROVE  /\ tokenize(s).cmd \in Texts
         /\ tokenize(s).out \in Token /\ tokenize(s).out.t \in {"nul", ">", ">>"}
         /\ tokenize(s).inp \in Token /\ tokenize(s).inp.t \in {"nul", "<"}
<1> DEFINE tokens == Swallow(s)
           at(T) == {i \in 1..Len(tokens) : tokens[i].t \in T}
           last(T) == IF at(T) = {} THEN NUL ELSE tokens[Max(at(T))]
<1>1. tokens \in Seq(Token) /\ Len(tokens) \in Nat
  BY SwallowType
<1> HIDE DEF tokens
<1>2. ASSUME NEW T, at(T) # {}
      PROVE  /\ Min(at(T)) \in 1..Len(tokens)
             /\ Max(at(T)) \in 1..Len(tokens) /\ tokens[Max(at(T))].t \in T
  <2>1. Min(at(T)) \in at(T) /\ Max(at(T)) \in at(T)
    <3>1. at(T) \in SUBSET (1..Len(tokens))
      OBVIOUS
    <3> HIDE DEF at
    <3> QED BY <1>1, <1>2, <3>1, FirstAndLast
  <2> QED BY <2>1
<1>3. NUL \in Token /\ NUL.t = "nul"
  BY DEF Token, NUL
<1>4. ASSUME NEW T PROVE last(T) \in Token /\ last(T).t \in T \union {"nul"}
  <2>1. CASE at(T) = {}
    BY <1>3, <2>1
  <2>2. CASE at(T) # {}
    <3> HIDE DEF at
    <3> QED BY <1>1, <1>2, <2>2
  <2> QED BY <2>1, <2>2
<1>5. tokenize(s).out = last({">", ">>"}) /\ tokenize(s).inp = last({"<"})
  BY DEF tokenize, tokens
<1>6. tokenize(s).cmd = IF at({"word"}) = {} THEN NONE ELSE tokens[Min(at({"word"}))].v
  BY DEF tokenize, tokens
<1>7. \A tok \in Token : tok.v \in Texts
  <2>1. NUL.v = "" /\ "" \in Texts
    BY DEF NUL, Texts
  <2>2. ASSUME NEW tok \in Typed PROVE tok.v \in Texts
    BY DEF Typed, Texts
  <2> QED BY <2>1, <2>2 DEF Token
<1> HIDE DEF at, last
<1>8. tokenize(s).cmd \in Texts
  <2>1. NONE \in Texts
    BY DEF Texts
  <2> QED BY <1>1, <1>2, <1>6, <1>7, <2>1
<1> QED BY <1>4, <1>5, <1>8

-----------------------------------------------------------------------------
(* What is shown.                                                          *)

\* Nothing is shown before anything ran; a segment that ran last adds what it
\* shows at the end.
LEMMA ShownAppend ==
  ASSUME NEW r \in Seq(Entry), NEW e \in Entry
  PROVE  Shown(Append(r, e)) = Shown(r) \o Piece(e)
<1> DEFINE q == Append(r, e)
           n == Len(r)
           G(s) == CHOOSE g : g = [i \in 0..Len(s) |->
                     IF i = 0 THEN <<>>
                     ELSE g[i-1] \o (IF s[i].to = "screen" THEN s[i].output ELSE <<>>)]
<1>1. ASSUME NEW s \in Seq(Entry)
      PROVE  /\ G(s)[0] = <<>>
             /\ \A i \in 1..Len(s) : G(s)[i] = G(s)[i-1] \o Piece(s[i])
  <2> DEFINE D == Seq(Chars)
             st == [x \in D \X (1..Len(s)) |-> x[1] \o Piece(s[x[2]])]
  <2>1. Len(s) \in Nat /\ <<>> \in D
    OBVIOUS
  <2>2. \A i \in 1..Len(s) : Piece(s[i]) \in D
    <3> TAKE i \in 1..Len(s)
    <3>1. s[i] \in Entry
      OBVIOUS
    <3> QED BY <3>1 DEF Entry, Piece
  <2>3. st \in [D \X (1..Len(s)) -> D]
    <3>1. ASSUME NEW x \in D \X (1..Len(s)) PROVE st[x] \in D
      <4>1. x[1] \in D /\ Piece(s[x[2]]) \in D
        BY <2>2
      <4> HIDE DEF Piece
      <4> QED BY <4>1
    <3> QED BY <3>1
  <2>4. PICK g \in [0..Len(s) -> D] :
          g[0] = <<>> /\ \A i \in 1..Len(s) : g[i] = st[<<g[i-1], i>>]
    <3> HIDE DEF D, st
    <3>1. Walks(D, <<>>, Len(s), st) # {}
      BY <2>1, <2>3, Iterate
    <3> QED BY <3>1 DEF Walks
  <2>5. \A i \in 1..Len(s) : g[i] = g[i-1] \o Piece(s[i])
    <3> TAKE i \in 1..Len(s)
    <3>1. i - 1 \in 0..Len(s)
      BY <2>1
    <3>2. <<g[i-1], i>> \in D \X (1..Len(s))
      <4> HIDE DEF D
      <4> QED BY <2>4, <3>1
    <3> QED BY <2>4, <3>2
  <2>6. g = [i \in 0..Len(s) |->
               IF i = 0 THEN <<>>
               ELSE g[i-1] \o (IF s[i].to = "screen" THEN s[i].output ELSE <<>>)]
    <3> HIDE DEF D, st
    <3>1. \A i \in 1..Len(s) :
            g[i] = g[i-1] \o (IF s[i].to = "screen" THEN s[i].output ELSE <<>>)
      BY <2>5 DEF Piece
    <3>2. \A i \in 0..Len(s) : i = 0 \/ i \in 1..Len(s)
      BY <2>1
    <3> QED BY <2>4, <3>1, <3>2
  <2> DEFINE h == G(s)
  <2>7. h = [i \in 0..Len(s) |->
               IF i = 0 THEN <<>>
               ELSE h[i-1] \o (IF s[i].to = "screen" THEN s[i].output ELSE <<>>)]
    BY <2>6
  <2> HIDE DEF h
  <2>8. 0 \in 0..Len(s) /\ \A i \in 1..Len(s) : i \in 0..Len(s) /\ i # 0
    BY <2>1
  <2>9. h[0] = <<>>
    BY <2>7, <2>8
  <2>10. ASSUME NEW i \in 1..Len(s) PROVE h[i] = h[i-1] \o Piece(s[i])
    BY <2>7, <2>8 DEF Piece
  <2> QED BY <2>9, <2>10 DEF h
<1>2. ASSUME NEW s PROVE Shown(s) = G(s)[Len(s)]
  BY DEF Shown
<1>3. /\ n \in Nat /\ q \in Seq(Entry) /\ Len(q) = n + 1 /\ q[n + 1] = e
      /\ \A i \in 1..n : q[i] = r[i]
  OBVIOUS
<1> HIDE DEF q, G
<1>4. /\ G(r)[0] = <<>> /\ \A i \in 1..n : G(r)[i] = G(r)[i-1] \o Piece(r[i])
      /\ G(q)[0] = <<>> /\ \A i \in 1..n + 1 : G(q)[i] = G(q)[i-1] \o Piece(q[i])
  <2>1. r \in Seq(Entry)
    OBVIOUS
  <2>2. G(r)[0] = <<>> /\ \A i \in 1..n : G(r)[i] = G(r)[i-1] \o Piece(r[i])
    BY <1>1, <2>1
  <2>3. G(q)[0] = <<>> /\ \A i \in 1..Len(q) : G(q)[i] = G(q)[i-1] \o Piece(q[i])
    BY <1>1, <1>3
  <2> QED BY <1>3, <2>2, <2>3
<1> DEFINE gr == G(r)
           gq == G(q)
           Same == {i \in 0..n : gq[i] = gr[i]}
<1> HIDE DEF gr, gq
<1>5. /\ 0 \in Same
      /\ \A i \in 1..n : i - 1 \in Same => i \in Same
  <2>1. 0 \in Same
    <3>1. gq[0] = gr[0]
      BY <1>4 DEF gr, gq
    <3> QED BY <1>3, <3>1
  <2>2. ASSUME NEW i \in 1..n, i - 1 \in Same PROVE i \in Same
    <3>1. gq[i] = gq[i-1] \o Piece(r[i])
      <4>1. i \in 1..n + 1 /\ q[i] = r[i]
        BY <1>3
      <4> QED BY <1>4, <4>1 DEF gq
    <3>2. gr[i] = gr[i-1] \o Piece(r[i])
      BY <1>4 DEF gr
    <3>3. gq[i-1] = gr[i-1] /\ i \in 0..n
      BY <1>3, <2>2
    <3> QED BY <3>1, <3>2, <3>3
  <2> QED BY <2>1, <2>2
<1>6. n \in Same
  <2>1. 0..n \subseteq Same
    <3> HIDE DEF Same
    <3> QED BY <1>3, <1>5, InductTo
  <2> QED BY <1>3, <2>1
<1>7. G(q)[n + 1] = G(q)[n] \o Piece(e)
  <2>1. n + 1 \in 1..Len(q) /\ (n + 1) - 1 = n
    BY <1>3
  <2> QED BY <1>3, <1>4, <2>1
<1> QED BY <1>2, <1>3, <1>6, <1>7 DEF q, gr, gq

\* Nothing ran, nothing is shown.
LEMMA ShownNothing == Shown(<<>>) = <<>>
<1> DEFINE G == CHOOSE g : g = [i \in 0..0 |->
                  IF i = 0 THEN <<>>
                  ELSE g[i-1] \o (IF <<>>[i].to = "screen" THEN <<>>[i].output ELSE <<>>)]
           k == [i \in 0..0 |-> <<>>]
<1>1. k = [i \in 0..0 |->
             IF i = 0 THEN <<>>
             ELSE k[i-1] \o (IF <<>>[i].to = "screen" THEN <<>>[i].output ELSE <<>>)]
  OBVIOUS
<1>2. G = [i \in 0..0 |->
             IF i = 0 THEN <<>>
             ELSE G[i-1] \o (IF <<>>[i].to = "screen" THEN <<>>[i].output ELSE <<>>)]
  <2> HIDE DEF k
  <2> QED BY <1>1
<1>3. Shown(<<>>) = G[0]
  BY DEF Shown
<1> HIDE DEF G
<1> QED BY <1>2, <1>3

-----------------------------------------------------------------------------
(* The end of a stage.                                                     *)

\* A stage that is over leaves the invariant, if what it did is what its entry
\* in the history says.
LEMMA StageEnds ==
  ASSUME IInv, seg # 0, NEW s \in Nat, NEW out, NEW off \in Nat, NEW e \in Entry,
         Finish(s, out, off), ran' = Append(ran, e), cl'.cmd \in Texts, in_off' \in Nat,
         FilesOK(out.files), out.pipes \in [0..1 -> Seq(Chars)],
         out.screen = screen \o Piece(e), e.status = s,
         ~IsLast => out.pipes[which] = Passed(e),
         e.from = "pipe" =>
           ~e.first /\ ran # <<>> /\ e.input = Passed(ran[Len(ran)])
  PROVE  IInv'
<1>1. /\ rc' = s /\ files' = out.files /\ screen' = out.screen
      /\ out_file' = NONE /\ in_file' = NONE /\ pipe_writing' = FALSE
      /\ UNCHANGED <<typed, count, start, p>>
  BY DEF Finish, restore_redirs
<1>2. Bar \in seg..Len(line) /\ seg \in 1..Len(line) /\ Len(line) \in Nat
  <2>1. LineInv /\ seg \in 1..Len(line) /\ Len(line) \in Nat
    BY DEF IInv, LineInv
  <2> QED BY <2>1, NextOfIs DEF Bar
<1>3. /\ IsLast => /\ pc' = "next" /\ seg' = 0 /\ last_exit' = s % 256
                   /\ pipe_reader' = NOPIPE /\ pipe_writer' = NOPIPE
                   /\ pipe_in_off' = off /\ pipes' = out.pipes /\ UNCHANGED <<line, which>>
      /\ ~IsLast => /\ pc' = "segment" /\ seg' = SkipBlank(Bar + 1)
                    /\ line' = [line EXCEPT ![Bar] = NUL]
                    /\ pipe_reader' = which /\ pipe_writer' = which
                    /\ pipe_in_off' = 0 /\ which' = 1 - which
                    /\ pipes' = [out.pipes EXCEPT ![1 - which] = <<>>]
                    /\ UNCHANGED last_exit
  BY DEF Finish, Other
<1>4. LineInv' /\ (~IsLast => seg' # 0)
  <2>1. CASE IsLast
    BY <1>1, <1>3, <2>1 DEF IInv, LineInv
  <2>2. CASE ~IsLast
    <3>1. /\ line' \in Seq(Token) /\ line' # <<>> /\ Len(line') = Len(line)
          /\ line'[Len(line)] = NUL
      <4>1. LineInv /\ Bar \in 1..Len(line)
        BY <1>2 DEF IInv
      <4>2. line' = [line EXCEPT ![Bar] = NUL]
        BY <1>3, <2>2
      <4> QED BY <4>1, <4>2, CutLine
    <3>2. Bar # Len(line) /\ line[Len(line)].t = "nul"
      <4>1. line[Len(line)] = NUL /\ NUL.t = "nul"
        BY DEF IInv, LineInv, NUL
      <4>2. line[Bar].t # "nul"
        BY <2>2 DEF IsLast
      <4> QED BY <4>1, <4>2
    <3>3. Bar + 1 \in 1..Len(line)
      BY <1>2, <3>2
    <3>4. line[Bar + 1].t = "blank" => Bar + 1 # Len(line)
      BY <3>2
    <3>5. seg' \in 1..Len(line)
      BY <1>2, <1>3, <2>2, <3>3, <3>4 DEF SkipBlank
    <3> QED BY <1>1, <3>1, <3>5 DEF IInv, LineInv
  <2> QED BY <2>1, <2>2
<1>5. StageInv'
  <2>1. which \in 0..1 /\ 1 - which \in 0..1 /\ NOPIPE \in 0..2 /\ \A w \in 0..1 : w \in 0..2
    BY DEF IInv, StageInv, NOPIPE
  <2>2. CASE IsLast
    <3>1. /\ pc' = "next" /\ seg' = 0 /\ pipe_reader' = NOPIPE /\ pipe_writer' = NOPIPE
          /\ which' \in 0..1
      BY <1>3, <2>1, <2>2
    <3> QED BY <1>1, <2>1, <3>1 DEF StageInv
  <2>3. CASE ~IsLast
    <3>1. /\ pc' = "segment" /\ seg' # 0 /\ which' \in 0..1
          /\ pipe_reader' \in 0..2 /\ pipe_writer' \in 0..2
      BY <1>3, <1>4, <2>1, <2>3
    <3> QED BY <1>1, <3>1 DEF StageInv
  <2> QED BY <2>2, <2>3
<1>6. DataInv'
  <2>1. ran \in Seq(Entry) /\ screen \in Seq(Chars) /\ count \in 0..MaxLines /\ last_exit \in 0..255
    BY DEF IInv, DataInv
  <2>2. ran' \in Seq(Entry)
    BY <2>1
  <2>3. screen' \in Seq(Chars)
    <3>1. Piece(e) \in Seq(Chars)
      BY DEF Piece, Entry
    <3> QED BY <1>1, <2>1, <3>1
  <2>4. pipes' \in [0..1 -> Seq(Chars)]
    <3>1. <<>> \in Seq(Chars)
      OBVIOUS
    <3> QED BY <1>3, <3>1
  <2>5. last_exit' \in 0..255 /\ pipe_in_off' \in Nat
    <3>1. s % 256 \in 0..255 /\ 0 \in Nat
      OBVIOUS
    <3>2. CASE IsLast
      <4>1. last_exit' = s % 256 /\ pipe_in_off' = off
        BY <1>3, <3>2
      <4> QED BY <3>1, <4>1
    <3>3. CASE ~IsLast
      <4>1. last_exit' = last_exit /\ pipe_in_off' = 0
        BY <1>3, <3>3
      <4> QED BY <2>1, <3>1, <4>1
    <3> QED BY <3>2, <3>3
  <2>6. FilesOK(files)'
    BY <1>1 DEF FilesOK
  <2>7. rc' \in Nat /\ count' \in 0..MaxLines /\ out_file' = NONE /\ in_file' = NONE
    BY <1>1, <2>1
  <2> QED BY <2>2, <2>3, <2>4, <2>5, <2>6, <2>7 DEF DataInv
<1>7. FlowInv'
  <2> DEFINE n == Len(ran)
  <2>1. /\ ran \in Seq(Entry) /\ n \in Nat /\ Len(ran') = n + 1 /\ ran'[n + 1] = e
        /\ ran' # <<>> /\ \A i \in 1..n : ran'[i] = ran[i]
    BY DEF IInv, DataInv
  <2>2. (seg # 0 => pipes[which] = <<>>)'
    BY <1>3, <1>5 DEF IInv, StageInv
  <2>3. (pipe_reader # NOPIPE =>
           /\ pipe_reader = 1 - which /\ pipe_in_off = 0
           /\ ran # <<>> /\ pipes[pipe_reader] = Passed(ran[Len(ran)]))'
    <3> SUFFICES ASSUME ~IsLast
                 PROVE  /\ pipe_reader' = 1 - which' /\ pipe_in_off' = 0
                        /\ ran' # <<>> /\ pipes'[pipe_reader'] = Passed(ran'[Len(ran')])
      BY <1>3 DEF Passed, Clip
    <3>1. which \in 0..1
      BY DEF IInv, StageInv
    <3>2. pipes'[which] = out.pipes[which]
      BY <1>3, <3>1
    <3> QED BY <1>3, <2>1, <3>1, <3>2
  <2>4. (seg = 0 /\ ran # <<>> =>
           rc = ran[Len(ran)].status /\ last_exit = rc % 256)'
    BY <1>1, <1>3, <1>4, <2>1
  <2>5. ASSUME NEW i \in 1..Len(ran'), ran'[i].from = "pipe"
        PROVE  /\ i > 1 /\ ~ran'[i].first
               /\ ran'[i].input =
                    IF ran'[i-1].to = "pipe" THEN Clip(ran'[i-1].output) ELSE <<>>
    <3>1. CASE i \in 1..n
      <4>1. /\ ran[i].from = "pipe" /\ i > 1 /\ ~ran[i].first
            /\ ran[i].input = IF ran[i-1].to = "pipe" THEN Clip(ran[i-1].output) ELSE <<>>
        BY <2>1, <2>5, <3>1 DEF IInv, FlowInv, PipeFlow
      <4>2. ran'[i] = ran[i] /\ ran'[i-1] = ran[i-1]
        BY <2>1, <3>1, <4>1
      <4> QED BY <4>1, <4>2
    <3>2. CASE i = n + 1
      <4>1. ran # <<>> /\ ~e.first /\ e.input = Passed(ran[n])
        BY <2>1, <2>5, <3>2
      <4>2. n > 0
        BY <2>1, <4>1
      <4>3. i > 1 /\ ran'[i] = e /\ ran'[i-1] = ran[n]
        BY <2>1, <3>2, <4>2
      <4> QED BY <4>1, <4>3 DEF Passed
    <3> QED BY <2>1, <3>1, <3>2
  <2>6. PipeFlow' /\ (\A i \in 1..Len(ran) : ran[i].from = "pipe" => i > 1)'
    BY <2>5 DEF PipeFlow, Clip
  <2>7. (screen = Shown(ran))'
    <3>1. screen' = screen \o Piece(e) /\ screen = Shown(ran)
      BY <1>1 DEF IInv, FlowInv
    <3>2. Shown(ran') = Shown(ran) \o Piece(e)
      BY <2>1, ShownAppend
    <3> QED BY <3>1, <3>2
  <2> QED BY <2>2, <2>3, <2>4, <2>6, <2>7 DEF FlowInv
<1> QED BY <1>4, <1>5, <1>6, <1>7 DEF IInv

-----------------------------------------------------------------------------
(* One lemma per action.                                                   *)

\* What a stage is made of, wherever the pipeline stands.
LEMMA StageType ==
  ASSUME IInv, seg # 0
  PROVE  /\ Stage.cmd \in Texts
         /\ Stage.out \in Token /\ Stage.out.t \in {"nul", ">", ">>"}
         /\ Stage.inp \in Token /\ Stage.inp.t \in {"nul", "<"}
<1>1. LineInv /\ seg \in 1..Len(line) /\ line \in Seq(Token) /\ Len(line) \in Nat
  BY DEF IInv, LineInv
<1>2. Bar \in seg..Len(line)
  BY <1>1, NextOfIs DEF Bar
<1>3. Bar - 1 <= Len(line) /\ Bar - 1 \in Nat
  BY <1>1, <1>2
<1>4. SubSeq(line, seg, Bar - 1) \in Seq(Token)
  <2> HIDE DEF Bar
  <2> QED BY <1>1, <1>3, SubSeqProperties
<1> QED BY <1>4, TokenizeType DEF Stage

\* A stage without a word only passes an empty pipe on.
LEMMA EmptyStageKeeps ==
  ASSUME IInv, EmptyStage
  PROVE  IInv'
<1> DEFINE out == [files |-> files, pipes |-> pipes, screen |-> screen]
           e == [cmd |-> NONE, status |-> 0, first |-> pipe_reader = NOPIPE,
                 from |-> NONE, input |-> <<>>, to |-> Goes(NONE), output |-> <<>>]
<1>1. /\ seg # 0 /\ cl' = Stage /\ Finish(0, out, pipe_in_off)
      /\ ran' = Append(ran, e) /\ in_off' = in_off
  BY DEF EmptyStage, Record
<1>2. Goes(NONE) = IF IsLast THEN "screen" ELSE "pipe"
  BY DEF Goes
<1>3. <<>> \in Seq(Chars) /\ NONE \in Texts /\ 0 \in Nat
  BY DEF Texts
<1>4. e \in Entry
  <2>1. Goes(NONE) \in {"file", "pipe", "screen"}
    BY <1>2
  <2>2. (pipe_reader = NOPIPE) \in BOOLEAN
    OBVIOUS
  <2> QED BY <1>3, <2>1, <2>2 DEF Entry
<1>5. /\ e.status = 0 /\ e.from = NONE /\ e.output = <<>> /\ e.to = Goes(NONE)
      /\ out.files = files /\ out.pipes = pipes /\ out.screen = screen
  OBVIOUS
<1>6. cl'.cmd \in Texts
  BY <1>1, StageType
<1>7. Piece(e) = <<>> /\ Passed(e) = <<>>
  <2>1. Clip(<<>>) = <<>>
    <3>1. Clip(<<>>) = SubSeq(<<>>, 1, IF 0 < PIPE_MAX THEN 0 ELSE PIPE_MAX)
      BY DEF Clip
    <3>2. ~(0 < PIPE_MAX) => PIPE_MAX = 0
      BY ShellAssumption
    <3>3. Clip(<<>>) = SubSeq(<<>>, 1, 0)
      BY <3>1, <3>2
    <3> QED BY <3>3
  <2> HIDE DEF e
  <2> QED BY <1>5, <2>1 DEF Piece, Passed
<1> HIDE DEF e, out
<1>8. /\ in_off' \in Nat /\ pipe_in_off \in Nat /\ FilesOK(out.files)
      /\ out.pipes \in [0..1 -> Seq(Chars)]
  BY <1>1, <1>5 DEF IInv, DataInv
<1>9. out.screen = screen \o Piece(e)
  <2>1. screen \in Seq(Chars)
    BY DEF IInv, DataInv
  <2>2. screen \o <<>> = screen
    BY <2>1
  <2> QED BY <1>5, <1>7, <2>2
<1>10. out.pipes[which] = Passed(e)
  BY <1>1, <1>5, <1>7 DEF IInv, FlowInv
<1>11. e.from # "pipe"
  BY <1>5 DEF NONE
<1> QED BY <1>1, <1>3, <1>4, <1>5, <1>6, <1>8, <1>9, <1>10, <1>11, StageEnds

\* What a stage prints is shown or passed on as its entry says, and nowhere
\* else.
LEMMA OutputGoes ==
  ASSUME NEW data, NEW to, NEW fs, NEW ps,
         data \in Seq(Chars), screen \in Seq(Chars), FilesOK(fs), to \in DOMAIN fs \union {NONE},
         ps \in [0..1 -> Seq(Chars)], which \in 0..1, ps[which] = <<>>
  PROVE  /\ FilesOK(StageOutput(data, to, fs, ps).files)
         /\ StageOutput(data, to, fs, ps).pipes \in [0..1 -> Seq(Chars)]
         /\ StageOutput(data, to, fs, ps).screen =
              screen \o (IF Goes(to) = "screen" THEN data ELSE <<>>)
         /\ ~IsLast => StageOutput(data, to, fs, ps).pipes[which] =
                         IF Goes(to) = "pipe" THEN Clip(data) ELSE <<>>
<1> DEFINE r == StageOutput(data, to, fs, ps)
<1>1. /\ r.files = IF to = NONE THEN fs ELSE [fs EXCEPT ![to] = @ \o data]
      /\ r.pipes = IF to = NONE /\ ~IsLast THEN [ps EXCEPT ![which] = Clip(@ \o data)] ELSE ps
      /\ r.screen = IF to = NONE /\ ~~IsLast THEN screen \o data ELSE screen
  BY DEF Output, StageOutput
<1> HIDE DEF r
<1>2. FilesOK(r.files)
  <2>1. CASE to = NONE
    BY <1>1, <2>1
  <2>2. CASE to # NONE
    <3>1. to \in DOMAIN fs /\ fs \in [DOMAIN fs -> Seq(Chars)]
      BY <2>2 DEF FilesOK
    <3>2. fs[to] \o data \in Seq(Chars)
      BY <3>1
    <3>3. [fs EXCEPT ![to] = fs[to] \o data] \in [DOMAIN fs -> Seq(Chars)]
      BY <3>1, <3>2
    <3> QED BY <1>1, <2>2, <3>3 DEF FilesOK
  <2> QED BY <2>1, <2>2
<1>3. screen \o <<>> = screen /\ <<>> \o data = data /\ Clip(data) \in Seq(Chars)
  BY ClipType
<1>4. r.screen = screen \o (IF Goes(to) = "screen" THEN data ELSE <<>>)
  <2>1. CASE to = NONE /\ IsLast
    BY <1>1, <2>1 DEF Goes
  <2>2. CASE ~(to = NONE /\ IsLast)
    <3>1. Goes(to) # "screen"
      BY <2>2 DEF Goes
    <3> QED BY <1>1, <1>3, <2>2, <3>1
  <2> QED BY <2>1, <2>2
<1>5. /\ r.pipes \in [0..1 -> Seq(Chars)]
      /\ ~IsLast => r.pipes[which] = IF Goes(to) = "pipe" THEN Clip(data) ELSE <<>>
  <2>1. CASE to = NONE /\ ~IsLast
    <3>1. r.pipes = [ps EXCEPT ![which] = Clip(data)]
      BY <1>1, <1>3, <2>1
    <3>2. r.pipes[which] = Clip(data) /\ r.pipes \in [0..1 -> Seq(Chars)]
      BY <1>3, <3>1
    <3>3. Goes(to) = "pipe"
      BY <2>1 DEF Goes
    <3> QED BY <3>2, <3>3
  <2>2. CASE ~(to = NONE /\ ~IsLast)
    <3>1. r.pipes = ps
      BY <1>1, <2>2
    <3>2. ~IsLast => Goes(to) # "pipe"
      BY <2>2 DEF Goes
    <3> QED BY <3>1, <3>2
  <2> QED BY <2>1, <2>2
<1> QED BY <1>2, <1>4, <1>5 DEF r

\* The pipe a stage is to write is empty, before it is emptied and after.
LEMMA EmptiedIs ==
  ASSUME IInv, seg # 0
  PROVE  Emptied = pipes /\ pipes \in [0..1 -> Seq(Chars)] /\ which \in 0..1 /\ pipes[which] = <<>>
<1>1. /\ pipes \in [0..1 -> Seq(Chars)] /\ which \in 0..1 /\ pipes[which] = <<>>
  BY DEF IInv, DataInv, StageInv, FlowInv
<1>2. [pipes EXCEPT ![which] = <<>>] = pipes
  BY <1>1
<1> QED BY <1>1, <1>2 DEF Emptied

\* A redirection that cannot be opened ends its stage with a message.
LEMMA BadRedirectionKeeps ==
  ASSUME IInv, BadRedirection
  PROVE  IInv'
<1> DEFINE to == OutFile(Stage.out)
           out == Output(Message, to, ~IsLast, which, Opened(Stage.out), Emptied)
           e == [cmd |-> Stage.cmd, status |-> 1, first |-> pipe_reader = NOPIPE,
                 from |-> NONE, input |-> <<>>, to |-> Goes(to), output |-> Message]
<1>1. /\ seg # 0 /\ cl' = Stage /\ Finish(1, out, pipe_in_off)
      /\ ran' = Append(ran, e) /\ in_off' = 0
  BY DEF BadRedirection, Record
<1>2. FilesOK(files) /\ screen \in Seq(Chars) /\ pipe_in_off \in Nat /\ 1 \in Nat /\ 0 \in Nat
  BY DEF IInv, DataInv
<1>3. /\ Stage.cmd \in Texts /\ FilesOK(Opened(Stage.out))
      /\ to \in DOMAIN Opened(Stage.out) \union {NONE}
  BY <1>1, <1>2, StageType, OpenedType
<1>4. /\ e.status = 1 /\ e.from = NONE /\ e.output = Message /\ e.to = Goes(to)
  OBVIOUS
<1>5. e \in Entry
  <2>1. Goes(to) \in {"file", "pipe", "screen"}
    BY DEF Goes
  <2>2. (pipe_reader = NOPIPE) \in BOOLEAN /\ <<>> \in Seq(Chars) /\ Message \in Seq(Chars)
    BY ShellAssumption
  <2> HIDE DEF to
  <2> QED BY <1>2, <1>3, <2>1, <2>2 DEF Entry
<1> HIDE DEF e, to
<1>6. /\ FilesOK(out.files) /\ out.pipes \in [0..1 -> Seq(Chars)]
      /\ out.screen = screen \o Piece(e)
      /\ ~IsLast => out.pipes[which] = Passed(e)
  <2>1. Message \in Seq(Chars)
    BY ShellAssumption
  <2>2. Emptied \in [0..1 -> Seq(Chars)] /\ which \in 0..1 /\ Emptied[which] = <<>>
    BY <1>1, EmptiedIs
  <2>3. out = StageOutput(Message, to, Opened(Stage.out), Emptied)
    BY DEF StageOutput
  <2>4. /\ Piece(e) = IF Goes(to) = "screen" THEN Message ELSE <<>>
        /\ Passed(e) = IF Goes(to) = "pipe" THEN Clip(Message) ELSE <<>>
    BY <1>4 DEF Piece, Passed
  <2> DEFINE r == StageOutput(Message, to, Opened(Stage.out), Emptied)
  <2>5. /\ FilesOK(r.files) /\ r.pipes \in [0..1 -> Seq(Chars)]
        /\ r.screen = screen \o (IF Goes(to) = "screen" THEN Message ELSE <<>>)
        /\ ~IsLast => r.pipes[which] = IF Goes(to) = "pipe" THEN Clip(Message) ELSE <<>>
    <3> HIDE DEF out
    <3> QED BY <1>2, <1>3, <2>1, <2>2, OutputGoes
  <2> HIDE DEF out, r
  <2>6. out = r
    BY <2>3 DEF r
  <2> QED BY <2>4, <2>5, <2>6
<1>7. cl'.cmd \in Texts /\ in_off' \in Nat
  BY <1>1, <1>2, <1>3
<1>8. e.from # "pipe"
  BY <1>4 DEF NONE
<1> HIDE DEF out
<1> QED BY <1>1, <1>2, <1>4, <1>5, <1>6, <1>7, <1>8, StageEnds

\* What the two loops see is what the line and their position are.
LEMMA SameStage ==
  ASSUME line' = line, seg' = seg
  PROVE  IsLast' <=> IsLast
BY DEF IsLast, Bar, NextOf

\* The redirections of a stage lead to files there are; its pipes are the ones
\* its place in the pipeline gives it.
LEMMA OpenStageKeeps ==
  ASSUME IInv, OpenStage
  PROVE  IInv'
<1>1. /\ pc = "segment" /\ seg # 0 /\ CanOpen(Stage)
      /\ cl' = Stage /\ out_file' = OutFile(Stage.out)
      /\ in_file' = IF Stage.inp.t = "nul" THEN NONE ELSE Stage.inp.v
      /\ in_off' = 0 /\ files' = Opened(Stage.out) /\ pipes' = Emptied
      /\ pipe_writer' = IF IsLast THEN NOPIPE ELSE which
      /\ pipe_writing' = ~IsLast /\ pc' = "run"
      /\ UNCHANGED <<lineVars, seg, which, pipe_reader, pipe_in_off, last_exit, screen, ran>>
  BY DEF OpenStage
<1>2. /\ line' = line /\ start' = start /\ p' = p /\ rc' = rc /\ count' = count /\ seg' = seg
      /\ which' = which /\ pipe_reader' = pipe_reader /\ pipe_in_off' = pipe_in_off
      /\ last_exit' = last_exit /\ screen' = screen /\ ran' = ran
  BY <1>1 DEF lineVars
<1>3. pipes' = pipes /\ which \in 0..1
  BY <1>1, EmptiedIs
<1>4. LineInv'
  BY <1>2 DEF IInv, LineInv
<1>5. StageInv'
  <2>1. IsLast' <=> IsLast
    BY <1>2, SameStage
  <2>2. pipe_writer' \in 0..2 /\ pipe_reader' \in 0..2
    BY <1>1, <1>2, <1>3 DEF IInv, StageInv, NOPIPE
  <2>3. pipe_writing' \in BOOLEAN /\ (pipe_writing' <=> ~IsLast)
    BY <1>1
  <2>4. ~IsLast => pipe_writer' = which
    BY <1>1
  <2> QED BY <1>1, <1>2, <1>3, <2>1, <2>2, <2>3, <2>4 DEF StageInv
<1>6. DataInv'
  <2>1. FilesOK(files) /\ screen \in Seq(Chars) /\ ran \in Seq(Entry)
        /\ rc \in Nat /\ last_exit \in 0..255 /\ count \in 0..MaxLines /\ pipe_in_off \in Nat
        /\ pipes \in [0..1 -> Seq(Chars)]
    BY DEF IInv, DataInv
  <2>2. cl'.cmd \in Texts /\ FilesOK(files)' /\ out_file' \in DOMAIN files' \union {NONE}
    <3>1. /\ Stage.cmd \in Texts /\ FilesOK(Opened(Stage.out))
          /\ OutFile(Stage.out) \in DOMAIN Opened(Stage.out) \union {NONE}
      BY <1>1, <2>1, StageType, OpenedType
    <3>2. FilesOK(files)'
      BY <1>1, <3>1 DEF FilesOK
    <3> QED BY <1>1, <3>1, <3>2
  <2>3. in_file' \in DOMAIN files' \union {NONE}
    <3>1. Stage.inp.t # "nul" => Stage.inp.v \in DOMAIN Opened(Stage.out)
      BY <1>1 DEF CanOpen
    <3> QED BY <1>1, <3>1
  <2> QED BY <1>1, <1>2, <1>3, <2>1, <2>2, <2>3 DEF DataInv
<1>7. FlowInv'
  BY <1>2, <1>3 DEF IInv, FlowInv, PipeFlow, Shown, Passed, Clip
<1> QED BY <1>4, <1>5, <1>6, <1>7 DEF IInv

\* What a command reads are characters; what it reads from its pipe is all
\* the stage before it left there.
LEMMA InputIs ==
  ASSUME IInv, pc = "run"
  PROVE  /\ Input \in Seq(Chars) /\ Source \in {"file", "pipe", "keyboard"}
         /\ Source = "pipe" => /\ pipe_reader # NOPIPE /\ ran # <<>>
                               /\ Input = Passed(ran[Len(ran)])
<1>1. /\ in_off \in Nat /\ pipes \in [0..1 -> Seq(Chars)] /\ pipe_reader \in 0..2
      /\ FilesOK(files) /\ in_file \in DOMAIN files \union {NONE} /\ which \in 0..1
  BY DEF IInv, DataInv, StageInv
<1>2. Source \in {"file", "pipe", "keyboard"}
  BY DEF Source
<1>3. CASE Source = "file"
  <2>1. in_file \in DOMAIN files
    BY <1>1, <1>3 DEF Source
  <2>2. files[in_file] \in Seq(Chars) /\ Len(files[in_file]) \in Nat
    BY <1>1, <2>1 DEF FilesOK
  <2>3. SubSeq(files[in_file], in_off + 1, Len(files[in_file])) \in Seq(Chars)
    <3> DEFINE s == files[in_file]
               m == in_off + 1
               n == Len(s)
    <3>1. m \in Nat /\ m >= 1 /\ n \in Nat /\ n = Len(s) /\ s \in Seq(Chars)
      BY <1>1, <2>2
    <3> HIDE DEF s, m, n
    <3>2. SubSeq(s, m, n) \in Seq(Chars)
      BY <3>1, SubSeqProperties
    <3> QED BY <3>2 DEF s, m, n
  <2> QED BY <1>3, <2>3 DEF Input
<1>4. CASE Source = "pipe"
  <2>1. pipe_reader # NOPIPE
    BY <1>4 DEF Source
  <2>2. /\ pipe_in_off = 0 /\ ran # <<>>
        /\ pipe_reader \in 0..1 /\ pipes[pipe_reader] = Passed(ran[Len(ran)])
    BY <1>1, <2>1 DEF IInv, FlowInv, NOPIPE
  <2>3. pipes[pipe_reader] \in Seq(Chars)
    BY <1>1, <2>2
  <2>4. SubSeq(pipes[pipe_reader], 0 + 1, Len(pipes[pipe_reader])) = pipes[pipe_reader]
    BY <2>3
  <2>5. Input = pipes[pipe_reader]
    BY <1>4, <2>2, <2>4 DEF Input
  <2> QED BY <1>2, <2>1, <2>2, <2>3, <2>5
<1>5. CASE Source = "keyboard"
  BY <1>5, ShellAssumption DEF Input
<1> QED BY <1>2, <1>3, <1>4, <1>5

\* A command prints where its stage's place says and its status is kept.
LEMMA RunCommandKeeps ==
  ASSUME IInv, RunCommand
  PROVE  IInv'
<1> DEFINE reads == cl.cmd \in Reads
           input == IF reads THEN Input ELSE <<>>
           data == IF cl.cmd \in Builtins THEN input \o Prints[cl.cmd] ELSE Message
           s == IF cl.cmd \in Builtins THEN Status[cl.cmd] ELSE 127
           out == Output(data, out_file, pipe_writing, pipe_writer, files, pipes)
           off == IF Source = "pipe" THEN pipe_in_off + Len(input) ELSE pipe_in_off
           from == IF reads THEN Source ELSE NONE
           e == [cmd |-> cl.cmd, status |-> s, first |-> pipe_reader = NOPIPE,
                 from |-> from, input |-> input, to |-> Goes(out_file), output |-> data]
<1>1. /\ pc = "run" /\ Finish(s, out, off) /\ ran' = Append(ran, e) /\ cl' = cl
      /\ in_off' = IF Source = "file" THEN in_off + Len(input) ELSE in_off
  BY DEF RunCommand, Record
<1>2. /\ seg # 0 /\ which \in 0..1 /\ (pipe_writing <=> ~IsLast) /\ pipe_writing \in BOOLEAN
      /\ ~IsLast => pipe_writer = which
  BY <1>1 DEF IInv, StageInv
<1>3. /\ FilesOK(files) /\ out_file \in DOMAIN files \union {NONE} /\ screen \in Seq(Chars)
      /\ pipes \in [0..1 -> Seq(Chars)] /\ pipes[which] = <<>> /\ cl.cmd \in Texts
      /\ in_off \in Nat /\ pipe_in_off \in Nat
  BY <1>2 DEF IInv, DataInv, FlowInv
<1>4. input \in Seq(Chars)
  BY <1>1, InputIs
<1>5. data \in Seq(Chars) /\ s \in Nat
  <2> HIDE DEF input
  <2>1. cl.cmd \in Builtins => Prints[cl.cmd] \in Seq(Chars) /\ Status[cl.cmd] \in Nat
    BY ShellAssumption
  <2> QED BY <1>4, <2>1, ShellAssumption
<1>6. /\ e.status = s /\ e.from = from /\ e.output = data /\ e.to = Goes(out_file)
      /\ e.input = input /\ (e.first <=> pipe_reader = NOPIPE)
  OBVIOUS
<1>7. e \in Entry
  <2>1. Goes(out_file) \in {"file", "pipe", "screen"}
    BY DEF Goes
  <2>2. from \in {NONE, "file", "pipe", "keyboard"}
    BY <1>1, InputIs
  <2>3. (pipe_reader = NOPIPE) \in BOOLEAN
    OBVIOUS
  <2> HIDE DEF s, data, input, from
  <2> QED BY <1>3, <1>4, <1>5, <2>1, <2>2, <2>3 DEF Entry
<1>8. e.from = "pipe" => ~e.first /\ ran # <<>> /\ e.input = Passed(ran[Len(ran)])
  <2> SUFFICES ASSUME from = "pipe"
               PROVE  pipe_reader # NOPIPE /\ ran # <<>> /\ input = Passed(ran[Len(ran)])
    BY <1>6
  <2>1. reads /\ Source = "pipe"
    BY DEF NONE
  <2>2. input = Input
    BY <2>1
  <2> HIDE DEF input
  <2> QED BY <1>1, <2>1, <2>2, InputIs
<1>9. off \in Nat /\ in_off' \in Nat
  <2> HIDE DEF input
  <2>1. Len(input) \in Nat
    BY <1>4
  <2> QED BY <1>1, <1>3, <2>1
<1>10. cl'.cmd \in Texts
  BY <1>1, <1>3
<1>11. out = StageOutput(data, out_file, files, pipes)
  <2> HIDE DEF data
  <2>1. CASE IsLast
    <3>1. ~pipe_writing
      BY <1>2, <2>1
    <3> QED BY <2>1, <3>1 DEF Output, StageOutput
  <2>2. CASE ~IsLast
    <3>1. pipe_writing /\ pipe_writer = which
      BY <1>2, <2>2
    <3> QED BY <2>2, <3>1 DEF Output, StageOutput
  <2> QED BY <2>1, <2>2
<1>12. /\ Piece(e) = IF Goes(out_file) = "screen" THEN data ELSE <<>>
       /\ Passed(e) = IF Goes(out_file) = "pipe" THEN Clip(data) ELSE <<>>
  <2> HIDE DEF data
  <2> QED BY <1>6 DEF Piece, Passed
<1> HIDE DEF e, out, off, s, data, input, from
<1>13. /\ FilesOK(out.files) /\ out.pipes \in [0..1 -> Seq(Chars)]
       /\ out.screen = screen \o Piece(e)
       /\ ~IsLast => out.pipes[which] = Passed(e)
  <2> DEFINE r == StageOutput(data, out_file, files, pipes)
  <2>1. /\ FilesOK(r.files) /\ r.pipes \in [0..1 -> Seq(Chars)]
        /\ r.screen = screen \o (IF Goes(out_file) = "screen" THEN data ELSE <<>>)
        /\ ~IsLast => r.pipes[which] = IF Goes(out_file) = "pipe" THEN Clip(data) ELSE <<>>
    BY <1>2, <1>3, <1>5, OutputGoes
  <2> HIDE DEF r
  <2>2. out = r
    BY <1>11 DEF r
  <2> QED BY <1>12, <2>1, <2>2
<1> QED BY <1>1, <1>2, <1>5, <1>6, <1>7, <1>8, <1>9, <1>10, <1>13, StageEnds

\* A new line finds the console free, and the pipes and the history of the
\* line before it gone.
LEMMA PromptKeeps ==
  ASSUME IInv, NEW l \in Lines, Prompt(l)
  PROVE  IInv'
<1>1. /\ pc = "prompt" /\ count < MaxLines /\ count' = count + 1 /\ line' = Append(l, NUL)
      /\ start' = (IF l[1].t = "blank" THEN 2 ELSE 1) /\ p' = start' /\ rc' = 0
      /\ ran' = <<>> /\ screen' = <<>>
      /\ pc' = IF line'[start'].t \in {"nul", "#"} THEN "prompt" ELSE "scan"
      /\ UNCHANGED <<seg, which, cl, pipeVars, redirs, last_exit, files>>
  BY DEF Prompt
<1>2. seg' = 0 /\ seg = 0 /\ pc' \in {"prompt", "scan"}
  BY <1>1 DEF IInv, StageInv
<1>3. LineInv'
  <2>1. l \in Seq(Token) /\ l # <<>> /\ NUL \in Token
    <3>1. l \in Seq(Typed) /\ l # <<>>
      BY ShellAssumption
    <3>2. Typed \subseteq Token /\ NUL \in Token
      BY DEF Token
    <3> QED BY <3>1, <3>2, SeqMonotonic
  <2>2. /\ line' \in Seq(Token) /\ Len(line') = Len(l) + 1 /\ Len(l) \in Nat /\ Len(l) >= 1
        /\ line'[Len(line')] = NUL /\ line' # <<>>
    <3> HIDE DEF NUL
    <3>1. Len(l) \in Nat /\ Len(l) >= 1
      BY <2>1
    <3>2. Append(l, NUL) \in Seq(Token) /\ Len(Append(l, NUL)) = Len(l) + 1
          /\ Append(l, NUL)[Len(l) + 1] = NUL
      BY <2>1
    <3>3. Len(line') # 0
      BY <1>1, <3>1, <3>2
    <3> QED BY <1>1, <3>1, <3>2, <3>3
  <2>3. start' \in 1..Len(line') /\ p' \in start'..Len(line')
    BY <1>1, <2>2
  <2> QED BY <1>2, <2>2, <2>3 DEF LineInv
<1>4. StageInv'
  BY <1>1, <1>2 DEF IInv, StageInv, pipeVars, redirs
<1>5. DataInv'
  <2>1. count' \in 0..MaxLines
    BY <1>1, ShellAssumption DEF IInv, DataInv
  <2>2. <<>> \in Seq(Chars) /\ <<>> \in Seq(Entry) /\ 0 \in Nat
    OBVIOUS
  <2> QED BY <1>1, <2>1, <2>2 DEF IInv, DataInv, FilesOK, pipeVars, redirs
<1>6. FlowInv'
  <2>1. pipe_reader' = NOPIPE
    BY <1>1, <1>2 DEF IInv, StageInv, pipeVars
  <2>2. (screen = Shown(ran))'
    BY <1>1, ShownNothing
  <2>3. PipeFlow' /\ (\A i \in 1..Len(ran) : ran[i].from = "pipe" => i > 1)'
    BY <1>1 DEF PipeFlow
  <2> QED BY <1>1, <1>2, <2>1, <2>2, <2>3 DEF FlowInv
<1> QED BY <1>3, <1>4, <1>5, <1>6 DEF IInv

\* What the steps between pipelines leave alone.
Between == <<which, cl, pipeVars, redirs, files, screen, ran, count, rc>>

\* A step between two pipelines that changes only where the line is read, and
\* leaves $? what the last segment returned, keeps the invariant.
LEMMA BetweenKeeps ==
  ASSUME IInv, seg = 0, seg' = 0, UNCHANGED Between, LineInv',
         pc' \in {"prompt", "scan", "segment", "next"}, pc # "run",
         last_exit' \in {last_exit, rc % 256}
  PROVE  IInv'
<1>1. /\ which' = which /\ cl' = cl /\ pipes' = pipes /\ pipe_reader' = pipe_reader
      /\ pipe_writer' = pipe_writer /\ pipe_writing' = pipe_writing /\ pipe_in_off' = pipe_in_off
      /\ out_file' = out_file /\ in_file' = in_file /\ in_off' = in_off /\ files' = files
      /\ screen' = screen /\ ran' = ran /\ count' = count /\ rc' = rc
  BY DEF Between, pipeVars, redirs
<1>2. StageInv'
  BY <1>1 DEF IInv, StageInv
<1>3. DataInv'
  <2>1. rc % 256 \in 0..255
    BY DEF IInv, DataInv
  <2> QED BY <1>1, <2>1 DEF IInv, DataInv, FilesOK
<1>4. FlowInv'
  <2>1. seg = 0 /\ ran # <<>> => rc = ran[Len(ran)].status /\ last_exit = rc % 256
    BY DEF IInv, FlowInv
  <2>2. (seg = 0 /\ ran # <<>> => rc = ran[Len(ran)].status /\ last_exit = rc % 256)'
    BY <1>1, <2>1
  <2>3. pipe_reader' = NOPIPE
    BY <1>1 DEF IInv, StageInv
  <2>4. PipeFlow' /\ (\A i \in 1..Len(ran) : ran[i].from = "pipe" => i > 1)'
    BY <1>1 DEF IInv, FlowInv, PipeFlow, Clip
  <2>5. (screen = Shown(ran))'
    BY <1>1 DEF IInv, FlowInv, Shown
  <2> QED BY <2>2, <2>3, <2>4, <2>5 DEF FlowInv
<1> QED BY <1>2, <1>3, <1>4 DEF IInv

\* Finding a segment, and skipping it.
LEMMA ScanKeeps ==
  ASSUME IInv, Scan \/ SkipSegment
  PROVE  IInv'
<1>1. LineInv /\ (pc \in {"scan", "next", "prompt"} => seg = 0)
  BY DEF IInv, StageInv
<1>2. CASE Scan
  <2>1. /\ pc = "scan" /\ p' = NextOf(p, Separators \union {"#", "nul"})
        /\ line' = (IF line[p'].t = "#" THEN [line EXCEPT ![p'] = NUL] ELSE line)
        /\ pc' = "segment" /\ start' = start /\ seg' = seg /\ last_exit' = last_exit
        /\ UNCHANGED Between
    BY <1>2 DEF Scan, Between
  <2>2. p \in 1..Len(line) /\ start \in 1..Len(line) /\ Len(line) \in Nat /\ start <= p
    BY <1>1 DEF LineInv
  <2>3. p' \in p..Len(line)
    BY <1>1, <2>1, <2>2, NextOfIs
  <2>4. p' \in 1..Len(line) /\ p' \in start..Len(line)
    BY <2>2, <2>3
  <2>5. /\ line' \in Seq(Token) /\ line' # <<>> /\ Len(line') = Len(line)
        /\ line'[Len(line)] = NUL
    <3>1. CASE line[p'].t = "#"
      <4>1. line' = [line EXCEPT ![p'] = NUL]
        BY <2>1, <3>1
      <4> QED BY <1>1, <2>4, <4>1, CutLine
    <3>2. CASE line[p'].t # "#"
      BY <1>1, <2>1, <3>2 DEF LineInv
    <3> QED BY <3>1, <3>2
  <2>6. LineInv'
    BY <1>1, <2>1, <2>2, <2>4, <2>5 DEF LineInv
  <2> QED BY <1>1, <2>1, <2>6, BetweenKeeps
<1>3. CASE SkipSegment
  <2>1. /\ pc = "segment" /\ seg = 0 /\ pc' = "next" /\ seg' = seg
        /\ last_exit' \in {last_exit, rc % 256} /\ UNCHANGED lineVars /\ UNCHANGED Between
    BY <1>3 DEF SkipSegment, Between, lineVars
  <2>2. LineInv'
    BY <1>1, <2>1 DEF LineInv, lineVars
  <2> QED BY <2>1, <2>2, BetweenKeeps
<1> QED BY <1>2, <1>3

\* Going on after the separator, which is not the NUL that ends the line.
LEMMA NextSegmentKeeps ==
  ASSUME IInv, NextSegment
  PROVE  IInv'
<1>1. LineInv /\ seg = 0 /\ pc = "next"
  BY DEF IInv, StageInv, NextSegment
<1>2. line' = line /\ seg' = seg /\ last_exit' = last_exit /\ UNCHANGED Between
  BY DEF NextSegment, Between
<1>3. CASE line[p].t = "nul"
  <2>1. pc' = "prompt" /\ start' = start /\ p' = p
    BY <1>3 DEF NextSegment
  <2>2. LineInv'
    BY <1>1, <1>2, <2>1 DEF LineInv
  <2> QED BY <1>1, <1>2, <2>1, <2>2, BetweenKeeps
<1>4. CASE line[p].t # "nul"
  <2>1. pc' = "scan" /\ start' = SkipBlank(p + 1) /\ p' = start'
    BY <1>4 DEF NextSegment
  <2>2. line[Len(line)].t = "nul" /\ p \in 1..Len(line) /\ Len(line) \in Nat
    <3>1. line \in Seq(Token) /\ line[Len(line)] = NUL /\ p \in start..Len(line) /\ start \in 1..Len(line)
      BY <1>1 DEF LineInv
    <3>2. NUL.t = "nul"
      BY DEF NUL
    <3>3. Len(line) \in Nat
      BY <3>1
    <3> QED BY <3>1, <3>2, <3>3
  <2>3. p + 1 \in 1..Len(line) /\ (line[p + 1].t = "blank" => p + 1 # Len(line))
    BY <1>4, <2>2
  <2>4. start' \in 1..Len(line)
    BY <2>1, <2>2, <2>3 DEF SkipBlank
  <2>5. LineInv'
    BY <1>1, <1>2, <2>1, <2>4 DEF LineInv
  <2> QED BY <1>1, <1>2, <2>1, <2>5, BetweenKeeps
<1> QED BY <1>3, <1>4

\* A pipeline starts with no redirection, no reader and two empty pipes.
LEMMA StartPipelineKeeps ==
  ASSUME IInv, StartPipeline
  PROVE  IInv'
<1>1. /\ pc = "segment" /\ seg = 0 /\ End > start /\ line' = [line EXCEPT ![End] = NUL]
      /\ seg' = start /\ which' = 0 /\ pipes' = [w \in 0..1 |-> <<>>]
      /\ pipe_reader' = NOPIPE /\ pipe_writer' = NOPIPE /\ pipe_writing' = FALSE
      /\ pipe_in_off' = 0
      /\ UNCHANGED <<pc, typed, count, start, p, rc, cl, redirs, last_exit, files, screen, ran>>
  BY DEF StartPipeline
<1>2. LineInv /\ start \in 1..Len(line) /\ p \in start..Len(line) /\ Len(line) \in Nat
  BY DEF IInv, LineInv
<1>3. End \in 1..Len(line)
  BY <1>1, <1>2 DEF End
<1>4. LineInv'
  <2>1. /\ line' \in Seq(Token) /\ line' # <<>> /\ Len(line') = Len(line)
        /\ line'[Len(line)] = NUL
    BY <1>1, <1>2, <1>3, CutLine
  <2> QED BY <1>1, <1>2, <2>1 DEF LineInv
<1>5. seg' # 0
  BY <1>1, <1>2
<1>6. StageInv'
  BY <1>1, <1>5 DEF IInv, StageInv, NOPIPE, redirs
<1>7. DataInv'
  <2>1. pipes' \in [0..1 -> Seq(Chars)] /\ 0 \in Nat
    BY <1>1
  <2> QED BY <1>1, <2>1 DEF IInv, DataInv, FilesOK, redirs
<1>8. FlowInv'
  <2>1. pipes'[which'] = <<>> /\ pipe_reader' = NOPIPE
    BY <1>1
  <2>2. PipeFlow' /\ (\A i \in 1..Len(ran) : ran[i].from = "pipe" => i > 1)'
    BY <1>1 DEF IInv, FlowInv, PipeFlow, Clip
  <2>3. (screen = Shown(ran))'
    BY <1>1 DEF IInv, FlowInv, Shown
  <2> QED BY <1>5, <2>1, <2>2, <2>3 DEF FlowInv
<1> QED BY <1>4, <1>6, <1>7, <1>8 DEF IInv

-----------------------------------------------------------------------------
(* The invariant, and what follows from it.                                *)

\* The prompt of a fresh shell.
LEMMA InitKeeps == Init => IInv
<1> SUFFICES ASSUME Init PROVE IInv
  OBVIOUS
<1>1. /\ pc = "prompt" /\ count = 0 /\ line = <<NUL>> /\ start = 1 /\ p = 1 /\ rc = 0 /\ seg = 0
      /\ which = 0 /\ cl = [cmd |-> NONE, out |-> NUL, inp |-> NUL]
      /\ pipes = [w \in 0..1 |-> <<>>] /\ pipe_reader = NOPIPE /\ pipe_writer = NOPIPE
      /\ pipe_writing = FALSE /\ pipe_in_off = 0 /\ out_file = NONE /\ in_file = NONE
      /\ in_off = 0 /\ last_exit = 0 /\ files = <<>> /\ screen = <<>> /\ ran = <<>>
  BY DEF Init
<1>2. LineInv
  <2>1. NUL \in Token
    BY DEF Token
  <2> HIDE DEF NUL
  <2>2. <<NUL>> \in Seq(Token) /\ Len(<<NUL>>) = 1 /\ <<NUL>>[1] = NUL /\ <<NUL>> # <<>>
    BY <2>1
  <2> QED BY <1>1, <2>2 DEF LineInv
<1>3. StageInv
  <2>1. pipe_reader = NOPIPE /\ pipe_writer = NOPIPE /\ NOPIPE \in 0..2
    <3>1. NOPIPE \in 0..2
      BY DEF NOPIPE
    <3> QED BY <1>1, <3>1
  <2>3. which \in 0..1 /\ ~pipe_writing /\ pipe_writing \in BOOLEAN
    <3>1. which \in 0..1
      BY <1>1
    <3>2. pipe_writing = FALSE
      BY <1>1
    <3>3. ~pipe_writing /\ pipe_writing \in BOOLEAN
      BY <3>2
    <3> QED BY <3>1, <3>3
  <2>2. /\ pc \in {"prompt", "scan", "segment", "run", "next"} /\ pc # "run"
        /\ out_file = NONE /\ in_file = NONE /\ seg = 0
    BY <1>1
  <2> QED BY <2>1, <2>2, <2>3 DEF StageInv
<1>4. DataInv
  <2>1. FilesOK(files) /\ pipes \in [0..1 -> Seq(Chars)]
    BY <1>1 DEF FilesOK
  <2>2. cl.cmd \in Texts /\ count \in 0..MaxLines
    BY <1>1, ShellAssumption DEF Texts
  <2>3. screen \in Seq(Chars) /\ ran \in Seq(Entry)
    BY <1>1
  <2> QED BY <1>1, <2>1, <2>2, <2>3 DEF DataInv
<1>5. FlowInv
  BY <1>1, ShownNothing DEF FlowInv, PipeFlow
<1> QED BY <1>2, <1>3, <1>4, <1>5 DEF IInv

\* A step that changes nothing keeps everything.
LEMMA StutterKeeps == IInv /\ UNCHANGED vars => IInv'
<1> SUFFICES ASSUME IInv, UNCHANGED vars PROVE IInv'
  OBVIOUS
<1>1. /\ UNCHANGED lineVars /\ UNCHANGED pipeVars /\ UNCHANGED redirs
      /\ UNCHANGED <<pc, seg, which, cl, last_exit, files, screen, ran>>
  BY DEF vars
<1>2. LineInv'
  BY <1>1 DEF IInv, LineInv, lineVars
<1>3. StageInv'
  <2>1. IsLast' <=> IsLast
    BY <1>1, SameStage DEF lineVars
  <2> QED BY <1>1, <2>1 DEF IInv, StageInv, pipeVars, redirs
<1>4. DataInv'
  BY <1>1 DEF IInv, DataInv, FilesOK, lineVars, pipeVars, redirs
<1>5. FlowInv'
  BY <1>1 DEF IInv, FlowInv, PipeFlow, Passed, Clip, Shown, lineVars, pipeVars
<1> QED BY <1>2, <1>3, <1>4, <1>5 DEF IInv

\* Every step keeps it.
LEMMA NextKeeps == IInv /\ [Next]_vars => IInv'
<1> SUFFICES ASSUME IInv, [Next]_vars PROVE IInv'
  OBVIOUS
<1>1. ASSUME NEW l \in Lines, Prompt(l) PROVE IInv'
  BY <1>1, PromptKeeps
<1>2. CASE Scan \/ SkipSegment
  BY <1>2, ScanKeeps
<1>3. CASE StartPipeline
  BY <1>3, StartPipelineKeeps
<1>4. CASE NextSegment
  BY <1>4, NextSegmentKeeps
<1>5. CASE EmptyStage
  BY <1>5, EmptyStageKeeps
<1>6. CASE BadRedirection
  BY <1>6, BadRedirectionKeeps
<1>7. CASE OpenStage
  BY <1>7, OpenStageKeeps
<1>8. CASE RunCommand
  BY <1>8, RunCommandKeeps
<1>9. CASE UNCHANGED vars
  BY <1>9, StutterKeeps
<1> QED BY <1>1, <1>2, <1>3, <1>4, <1>5, <1>6, <1>7, <1>8, <1>9 DEF Next, shell_exec_line

\* The line is a sequence of tokens that ends with a NUL, the redirections and
\* pipe pointers are those of the place in the pipeline, and the pipes, the
\* status and the screen those of what ran (shell_exec_line, exec_pipeline,
\* run_segment), in every behaviour of the shell.
THEOREM Invariant == Spec => []IInv
<1>1. Init => IInv
  BY InitKeeps
<1>2. IInv /\ [Next]_vars => IInv'
  BY NextKeeps
<1> QED BY <1>1, <1>2, PTL DEF Spec

\* Every position in the line lies in it, every redirection leads to a file
\* there is, and $? is a byte.
THEOREM ShellTypeCorrect == Spec => []TypeOK
<1>1. IInv => TypeOK
  BY DEF IInv, LineInv, StageInv, DataInv, TypeOK
<1> QED BY <1>1, Invariant, PTL

\* Whenever the prompt is shown no redirection and no pipe is left: the
\* restore_redirs and the end of exec_pipeline are reached on every way there.
THEOREM ConsoleAtPrompt == Spec => []PromptOnConsole
<1>1. IInv => PromptOnConsole
  BY DEF IInv, StageInv, PromptOnConsole
<1> QED BY <1>1, Invariant, PTL

\* What a stage reads from its pipe is what the stage right before it wrote
\* there, whatever either of them is and however either of them ended.
THEOREM PipesCarryOutput == Spec => []PipeFlow
<1>1. IInv => PipeFlow
  BY DEF IInv, FlowInv
<1> QED BY <1>1, Invariant, PTL

\* The screen shows what went neither to a file nor into a pipe, in order.
THEOREM ScreenIsOutput == Spec => []ScreenShows
<1>1. IInv => ScreenShows
  BY DEF IInv, FlowInv, ScreenShows, Shown
<1> QED BY <1>1, Invariant, PTL

\* $? at the prompt is the status of the last segment that ran, skipped ones
\* and empty ones after it notwithstanding.
THEOREM StatusOfLast == Spec => []ExitIsLast
<1>1. IInv => ExitIsLast
  BY DEF IInv, StageInv, FlowInv, ExitIsLast, Last
<1> QED BY <1>1, Invariant, PTL

-----------------------------------------------------------------------------
(* Which commands run.                                                     *)

\* The line as it was when it was read.
Whole == Append(typed, NUL)

\* What ends a segment.
Stops == Separators \union {"#", "nul"}

\* The commands the first k tokens of l name.
Names(l) == [i \in 1..Len(l) |-> NameAt(l, i)]
NamedTo(l, k) == Words(SubSeq(Names(l), 1, k))

\* The line holds from a to b what was typed.
Intact(a, b) == \A j \in a..b : line[j] = Whole[j]

\* A stage begins at c, and the commands named before it are those that ran.
StageAt(c) ==
  /\ c \in 1..Len(line)
  /\ \A j \in 1..c-1 : /\ typed[j].t # "#"
                       /\ typed[j].t = "word" =>
                            \E k \in j..c-1 : typed[k].t \in Separators \union {"|"}
  /\ Ran = NamedTo(typed, c - 1)

\* p is at what ends a segment, which is a NUL by now if the line ends there.
AtStop ==
  /\ Whole[p].t \in Stops
  /\ line[p].t = "nul" <=> Whole[p].t \in {"#", "nul"}
  /\ line[p].t # "nul" => line[p] = Whole[p]
  /\ Intact(p + 1, Len(line))

\* From c on the segment that p has found the end of.
SegmentFrom(c) ==
  /\ StageAt(c) /\ AtStop
  /\ \A j \in c..p-1 : Whole[j].t \notin Stops

\* The pipeline's NUL stands at e, and between it and p a blank at most.
CutAt(e) ==
  /\ e \in seg..p /\ line[e].t = "nul"
  /\ Intact(seg, e - 1)
  /\ \A j \in e..p-1 : Whole[j].t = "blank"

\* Where a plain line is read, what ran is what it names up to there.
Progress ==
  /\ pc = "scan" => StageAt(start) /\ p = start /\ Intact(start, Len(line))
  /\ pc = "segment" /\ seg = 0 => SegmentFrom(start) /\ Intact(start, p - 1)
  /\ seg # 0 => SegmentFrom(seg) /\ \E e \in seg..p : CutAt(e)
  /\ pc = "run" => cl.cmd = Stage.cmd
  /\ pc = "next" => /\ AtStop /\ Ran = NamedTo(typed, p - 1)
                    /\ \A j \in 1..p-1 : typed[j].t # "#"
  /\ pc = "prompt" => Ran = Named(typed)

\* What runs, for lines without && and || and with blanks where they count.
CmdInv ==
  /\ typed \in Seq(Typed) /\ Len(line) = Len(typed) + 1
  /\ Unconditional(typed) /\ Spaced(typed) => Progress


\* A word at the end of a sequence is the last of its words; NONE is none.
LEMMA WordsAppend ==
  ASSUME NEW r \in Seq(Texts), NEW e \in Texts
  PROVE  Words(Append(r, e)) = IF e = NONE THEN Words(r) ELSE Append(Words(r), e)
<1> DEFINE q == Append(r, e)
           n == Len(r)
           G(s) == CHOOSE g : g = [i \in 0..Len(s) |->
                     IF i = 0 THEN <<>>
                     ELSE IF s[i] = NONE THEN g[i-1] ELSE Append(g[i-1], s[i])]
           More(w, x) == IF x = NONE THEN w ELSE Append(w, x)
<1>1. ASSUME NEW s \in Seq(Texts)
      PROVE  /\ G(s)[0] = <<>>
             /\ \A i \in 1..Len(s) : G(s)[i] = More(G(s)[i-1], s[i])
  <2> DEFINE D == Seq(Texts)
             st == [x \in D \X (1..Len(s)) |-> More(x[1], s[x[2]])]
  <2>1. Len(s) \in Nat /\ <<>> \in D
    OBVIOUS
  <2>2. st \in [D \X (1..Len(s)) -> D]
    <3>1. ASSUME NEW x \in D \X (1..Len(s)) PROVE st[x] \in D
      <4>1. x[1] \in D /\ s[x[2]] \in Texts
        OBVIOUS
      <4> HIDE DEF NONE
      <4> QED BY <4>1
    <3> QED BY <3>1
  <2>3. PICK g \in [0..Len(s) -> D] :
          g[0] = <<>> /\ \A i \in 1..Len(s) : g[i] = st[<<g[i-1], i>>]
    <3> HIDE DEF D, st
    <3>1. Walks(D, <<>>, Len(s), st) # {}
      BY <2>1, <2>2, Iterate
    <3> QED BY <3>1 DEF Walks
  <2>4. \A i \in 1..Len(s) : g[i] = More(g[i-1], s[i])
    <3> TAKE i \in 1..Len(s)
    <3>1. i - 1 \in 0..Len(s)
      BY <2>1
    <3>2. <<g[i-1], i>> \in D \X (1..Len(s))
      <4> HIDE DEF D
      <4> QED BY <2>3, <3>1
    <3> QED BY <2>3, <3>2
  <2>5. g = [i \in 0..Len(s) |->
               IF i = 0 THEN <<>>
               ELSE IF s[i] = NONE THEN g[i-1] ELSE Append(g[i-1], s[i])]
    <3> HIDE DEF D, st
    <3>1. \A i \in 0..Len(s) : i = 0 \/ i \in 1..Len(s)
      BY <2>1
    <3> QED BY <2>3, <2>4, <3>1
  <2> DEFINE h == G(s)
  <2>6. h = [i \in 0..Len(s) |->
               IF i = 0 THEN <<>>
               ELSE IF s[i] = NONE THEN h[i-1] ELSE Append(h[i-1], s[i])]
    BY <2>5
  <2> HIDE DEF h
  <2>7. 0 \in 0..Len(s) /\ \A i \in 1..Len(s) : i \in 0..Len(s) /\ i # 0
    BY <2>1
  <2>8. h[0] = <<>>
    BY <2>6, <2>7
  <2>9. ASSUME NEW i \in 1..Len(s) PROVE h[i] = More(h[i-1], s[i])
    BY <2>6, <2>7
  <2> QED BY <2>8, <2>9 DEF h
<1>2. ASSUME NEW s PROVE Words(s) = G(s)[Len(s)]
  BY DEF Words
<1>3. /\ n \in Nat /\ q \in Seq(Texts) /\ Len(q) = n + 1 /\ q[n + 1] = e
      /\ \A i \in 1..n : q[i] = r[i]
  OBVIOUS
<1> HIDE DEF q, G, More
<1>4. /\ G(r)[0] = <<>> /\ \A i \in 1..n : G(r)[i] = More(G(r)[i-1], r[i])
      /\ G(q)[0] = <<>> /\ \A i \in 1..n + 1 : G(q)[i] = More(G(q)[i-1], q[i])
  <2>1. r \in Seq(Texts)
    OBVIOUS
  <2>2. G(r)[0] = <<>> /\ \A i \in 1..n : G(r)[i] = More(G(r)[i-1], r[i])
    BY <1>1, <2>1
  <2>3. G(q)[0] = <<>> /\ \A i \in 1..Len(q) : G(q)[i] = More(G(q)[i-1], q[i])
    BY <1>1, <1>3
  <2> QED BY <1>3, <2>2, <2>3
<1> DEFINE gr == G(r)
           gq == G(q)
           Same == {i \in 0..n : gq[i] = gr[i]}
<1> HIDE DEF gr, gq
<1>5. 0 \in Same
  BY <1>3, <1>4 DEF gr, gq
<1>6. ASSUME NEW i \in 1..n, i - 1 \in Same PROVE i \in Same
  <2>1. gq[i] = More(gq[i-1], r[i])
    <3>1. i \in 1..n + 1 /\ q[i] = r[i]
      BY <1>3
    <3> QED BY <1>4, <3>1 DEF gq
  <2>2. gr[i] = More(gr[i-1], r[i])
    BY <1>4 DEF gr
  <2>3. gq[i-1] = gr[i-1] /\ i \in 0..n
    BY <1>3, <1>6
  <2> QED BY <2>1, <2>2, <2>3
<1>7. n \in Same
  <2>1. 0..n \subseteq Same
    <3> HIDE DEF Same
    <3> QED BY <1>3, <1>5, <1>6, InductTo
  <2> QED BY <1>3, <2>1
<1>8. G(q)[n + 1] = More(G(q)[n], e)
  <2>1. n + 1 \in 1..n + 1 /\ (n + 1) - 1 = n
    BY <1>3
  <2> QED BY <1>3, <1>4, <2>1
<1> QED BY <1>2, <1>3, <1>7, <1>8 DEF q, gr, gq, More

\* A sequence of nothing has no words.
LEMMA WordsNothing == Words(<<>>) = <<>>
<1> DEFINE G == CHOOSE g : g = [i \in 0..0 |->
                  IF i = 0 THEN <<>>
                  ELSE IF <<>>[i] = NONE THEN g[i-1] ELSE Append(g[i-1], <<>>[i])]
           k == [i \in 0..0 |-> <<>>]
<1>1. k = [i \in 0..0 |->
             IF i = 0 THEN <<>>
             ELSE IF <<>>[i] = NONE THEN k[i-1] ELSE Append(k[i-1], <<>>[i])]
  OBVIOUS
<1>2. G = [i \in 0..0 |->
             IF i = 0 THEN <<>>
             ELSE IF <<>>[i] = NONE THEN G[i-1] ELSE Append(G[i-1], <<>>[i])]
  <2> HIDE DEF k
  <2> QED BY <1>1
<1>3. Words(<<>>) = G[0]
  BY DEF Words
<1> HIDE DEF G
<1> QED BY <1>2, <1>3

\* The next token of a line adds its name, if it is a command.
LEMMA NamedStep ==
  ASSUME NEW l \in Seq(Typed), NEW k \in 1..Len(l)
  PROVE  NamedTo(l, k) = IF NameAt(l, k) = NONE THEN NamedTo(l, k - 1)
                         ELSE Append(NamedTo(l, k - 1), NameAt(l, k))
<1> DEFINE N == Names(l)
<1>1. ASSUME NEW i \in 1..Len(l) PROVE NameAt(l, i) \in Texts
  <2>1. l[i] \in Typed
    OBVIOUS
  <2> QED BY <2>1 DEF NameAt, Typed, Texts
<1>2. N \in Seq(Texts) /\ Len(N) = Len(l) /\ Len(l) \in Nat /\ N[k] = NameAt(l, k)
  BY <1>1 DEF Names
<1> HIDE DEF N
<1>3. SubSeq(N, 1, k - 1) \in Seq(Texts) /\ SubSeq(N, 1, k) = Append(SubSeq(N, 1, k - 1), N[k])
  <2>1. k - 1 \in Nat /\ k - 1 <= Len(N) /\ k <= Len(N) /\ k \in Nat
    BY <1>2
  <2>2. /\ SubSeq(N, 1, k - 1) \in Seq(Texts) /\ Len(SubSeq(N, 1, k - 1)) = k - 1
        /\ \A i \in 1..k-1 : SubSeq(N, 1, k - 1)[i] = N[i]
    BY <1>2, <2>1, SubSeqProperties
  <2>3. /\ SubSeq(N, 1, k) \in Seq(Texts) /\ Len(SubSeq(N, 1, k)) = k
        /\ \A i \in 1..k : SubSeq(N, 1, k)[i] = N[i]
    BY <1>2, <2>1, SubSeqProperties
  <2> DEFINE a == SubSeq(N, 1, k - 1)
             b == SubSeq(N, 1, k)
  <2> HIDE DEF a, b
  <2>4. /\ a \in Seq(Texts) /\ Len(a) = k - 1 /\ \A i \in 1..k-1 : a[i] = N[i]
        /\ b \in Seq(Texts) /\ Len(b) = k /\ \A i \in 1..k : b[i] = N[i]
    BY <2>2, <2>3 DEF a, b
  <2>5. N[k] \in Texts
    BY <1>2
  <2>6. b = Append(a, N[k])
    BY <2>1, <2>4, <2>5
  <2> QED BY <2>4, <2>6 DEF a, b
<1>4. N[k] \in Texts
  BY <1>2
<1> QED BY <1>2, <1>3, <1>4, WordsAppend DEF NamedTo, N

\* Tokens that are no commands add nothing.
LEMMA NamedSame ==
  ASSUME NEW l \in Seq(Typed), NEW a \in Nat, NEW b \in Nat, a <= b, b <= Len(l),
         \A i \in a+1..b : NameAt(l, i) = NONE
  PROVE  NamedTo(l, b) = NamedTo(l, a)
<1> DEFINE S == {i \in 0..b-a : NamedTo(l, a + i) = NamedTo(l, a)}
<1>1. Len(l) \in Nat /\ b - a \in Nat
  OBVIOUS
<1>2. 0 \in S
  BY <1>1
<1>3. ASSUME NEW n \in 1..b-a, n - 1 \in S PROVE n \in S
  <2>1. a + n \in 1..Len(l) /\ a + n \in a+1..b /\ (a + n) - 1 = a + (n - 1)
    BY <1>1
  <2>2. NamedTo(l, a + n) = NamedTo(l, a + (n - 1))
    BY <2>1, NamedStep
  <2>3. n \in 0..b-a
    BY <1>1
  <2> QED BY <1>3, <2>2, <2>3
<1>4. b - a \in S
  <2> HIDE DEF S
  <2>1. 0..b-a \subseteq S
    BY <1>1, <1>2, <1>3, InductTo
  <2>2. b - a \in 0..b-a
    BY <1>1
  <2> QED BY <2>1, <2>2
<1> QED BY <1>4

\* All of a line is its first Len(l) tokens, and none names nothing.
LEMMA NamedEnds ==
  ASSUME NEW l \in Seq(Typed)
  PROVE  NamedTo(l, Len(l)) = Named(l) /\ NamedTo(l, 0) = <<>>
<1>1. SubSeq(Names(l), 1, Len(l)) = Names(l) /\ SubSeq(Names(l), 1, 0) = <<>>
  <2>1. \A i \in 1..Len(l) : NameAt(l, i) \in Texts
    <3> TAKE i \in 1..Len(l)
    <3>1. l[i] \in Typed
      OBVIOUS
    <3> QED BY <3>1 DEF NameAt, Typed, Texts
  <2>2. Names(l) \in Seq(Texts) /\ Len(Names(l)) = Len(l)
    BY <2>1 DEF Names
  <2> QED BY <2>2
<1> QED BY <1>1, WordsNothing DEF NamedTo, Named, Names

\* The tokens of the line as typed, with the NUL behind them.
LEMMA WholeIs ==
  ASSUME CmdInv
  PROVE  /\ Len(typed) \in Nat /\ Len(line) = Len(typed) + 1
         /\ \A j \in 1..Len(typed) : /\ Whole[j] = typed[j] /\ typed[j] \in Typed
                                     /\ typed[j].t # "nul"
         /\ Whole[Len(line)].t = "nul"
<1>1. typed \in Seq(Typed) /\ Len(line) = Len(typed) + 1
  BY DEF CmdInv
<1>2. \A tok \in Typed : tok.t # "nul"
  BY DEF Typed, Kinds, Separators
<1>3. NUL.t = "nul"
  BY DEF NUL
<1> HIDE DEF NUL
<1>4. Len(typed) \in Nat /\ Whole[Len(typed) + 1] = NUL
  BY <1>1 DEF Whole
<1>5. \A j \in 1..Len(typed) : Whole[j] = typed[j] /\ typed[j] \in Typed
  BY <1>1 DEF Whole
<1> QED BY <1>1, <1>2, <1>3, <1>4, <1>5

\* A stage ends at the pipeline's NUL or at a bar before it, and stands in the
\* line as it was typed.
LEMMA BarIs ==
  ASSUME IInv, CmdInv, Progress, seg # 0
  PROVE  /\ seg \in 1..Len(line) /\ p \in 1..Len(line) /\ Bar \in seg..p
         /\ \A j \in seg..Bar-1 : /\ line[j] = typed[j] /\ j \in 1..Len(typed)
                                  /\ typed[j].t \notin Stops \union {"|"}
         /\ IsLast => CutAt(Bar)
         /\ ~IsLast => /\ Bar \in 1..Len(typed) /\ typed[Bar].t = "|"
                       /\ \E e \in Bar+1..p : CutAt(e)
<1>1. /\ Len(typed) \in Nat /\ Len(line) = Len(typed) + 1
      /\ \A j \in 1..Len(typed) : Whole[j] = typed[j] /\ typed[j].t # "nul"
  BY WholeIs
<1>2. LineInv /\ seg \in 1..Len(line) /\ p \in 1..Len(line)
  <2>1. LineInv
    BY DEF IInv
  <2> QED BY <1>1, <2>1 DEF LineInv
<1>3. /\ Bar \in seg..Len(line) /\ line[Bar].t \in {"|", "nul"}
      /\ \A k \in seg..Bar-1 : line[k].t \notin {"|", "nul"}
  BY <1>2, NextOfIs DEF Bar
<1>4. PICK e \in seg..p : CutAt(e)
  BY DEF Progress
<1>5. /\ line[e].t = "nul" /\ \A j \in seg..e-1 : line[j] = Whole[j]
      /\ \A j \in seg..p-1 : Whole[j].t \notin Stops
  BY <1>4 DEF CutAt, Intact, Progress, SegmentFrom
<1> HIDE DEF Bar
<1>6. Bar <= e
  <2> SUFFICES ASSUME e < Bar PROVE FALSE
    BY <1>1, <1>2, <1>3
  <2>1. e \in seg..Bar-1
    BY <1>1, <1>2, <1>3
  <2> QED BY <1>3, <1>5, <2>1
<1>7. ASSUME NEW j \in seg..Bar-1
      PROVE  line[j] = typed[j] /\ j \in 1..Len(typed) /\ typed[j].t \notin Stops \union {"|"}
  <2>1. j \in seg..e-1 /\ j \in seg..p-1 /\ j \in 1..Len(typed)
    BY <1>1, <1>2, <1>3, <1>6
  <2> QED BY <1>1, <1>3, <1>5, <2>1
<1>8. ASSUME Bar # e PROVE Bar \in 1..Len(typed) /\ line[Bar] = typed[Bar]
  <2>1. Bar \in seg..e-1 /\ Bar \in 1..Len(typed)
    BY <1>1, <1>2, <1>3, <1>6, <1>8
  <2> QED BY <1>1, <1>5, <2>1
<1>9. IsLast => Bar = e
  BY <1>1, <1>8 DEF IsLast
<1>10. ~IsLast => Bar # e /\ line[Bar].t = "|"
  BY <1>3, <1>5 DEF IsLast
<1>11. ~IsLast => e \in Bar+1..p
  BY <1>1, <1>2, <1>3, <1>6, <1>10
<1>12. Bar \in seg..p
  BY <1>1, <1>2, <1>3, <1>6
<1> QED BY <1>2, <1>4, <1>7, <1>8, <1>9, <1>10, <1>11, <1>12

\* With blanks before redirections nothing of a stage is swallowed.
LEMMA StageTokens ==
  ASSUME IInv, CmdInv, Progress, Spaced(typed), seg # 0
  PROVE  LET s == SubSeq(line, seg, Bar - 1)
         IN  /\ Len(s) = Bar - seg /\ Swallow(s) = s
             /\ \A i \in 1..Bar-seg : s[i] = typed[seg + i - 1]
<1> DEFINE s == SubSeq(line, seg, Bar - 1)
<1>1. /\ seg \in 1..Len(line) /\ p \in 1..Len(line) /\ Bar \in seg..p /\ Len(line) \in Nat
      /\ Len(line) = Len(typed) + 1 /\ Len(typed) \in Nat
      /\ \A j \in seg..Bar-1 : line[j] = typed[j] /\ j \in 1..Len(typed)
  BY BarIs, WholeIs
<1>2. line \in Seq(Token)
  BY DEF IInv, LineInv
<1> HIDE DEF Bar
<1>3. Bar - 1 <= Len(line) /\ Bar - 1 \in Nat /\ seg \in Nat /\ seg >= 1 /\ Bar - seg \in Nat
  BY <1>1
<1>4. s \in Seq(Token) /\ Len(s) = Bar - seg /\ \A i \in 1..Bar-seg : s[i] = line[seg + i - 1]
  <2>1. /\ s \in Seq(Token)
        /\ Len(s) = (IF seg <= Bar - 1 THEN (Bar - 1) - seg + 1 ELSE 0)
        /\ \A i \in 1..(Bar - 1) - seg + 1 : s[i] = line[seg + i - 1]
    <3>1. seg \in Int /\ Bar - 1 \in Int
      BY <1>1
    <3>2. \A j \in seg..Bar-1 : line[j] \in Token
      <4>1. \A j \in 1..Len(line) : line[j] \in Token
        BY <1>2
      <4>2. \A j \in seg..Bar-1 : j \in 1..Len(line)
        BY <1>1
      <4> QED BY <4>1, <4>2
    <3> QED BY <3>1, <3>2, SubSeqProperties
  <2> HIDE DEF s
  <2>2. Len(s) = Bar - seg /\ (Bar - 1) - seg + 1 = Bar - seg
    BY <1>1, <1>3, <2>1
  <2> QED BY <2>1, <2>2
<1> HIDE DEF s
<1>5. ASSUME NEW i \in 1..Bar-seg
      PROVE  s[i] = typed[seg + i - 1] /\ seg + i - 1 \in 1..Len(typed)
  <2> PICK w : w = seg + i - 1
    OBVIOUS
  <2>1. w \in seg..Bar-1
    BY <1>1
  <2>2. line[w] = typed[w] /\ w \in 1..Len(typed)
    BY <1>1, <2>1
  <2> QED BY <1>4, <2>2
<1>6. ASSUME NEW i \in 1..Bar-seg, IsRedir(s[i]), i > 1 PROVE s[i-1].t = "blank"
  <2>1. i - 1 \in 1..Bar-seg /\ seg + i - 1 \in 2..Len(typed)
    BY <1>1, <1>5, <1>6
  <2>2. s[i-1] = typed[seg + (i - 1) - 1] /\ seg + (i - 1) - 1 = (seg + i - 1) - 1
    BY <1>1, <1>5, <2>1
  <2>3. s[i] = typed[seg + i - 1]
    BY <1>5
  <2> QED BY <1>6, <2>1, <2>2, <2>3 DEF Spaced
<1>7. Swallow(s) = s
  <2>1. Swallow(s) = [i \in 1..Len(s) |-> s[i]]
    BY <1>4, <1>6 DEF Swallow
  <2> QED BY <1>4, <2>1
<1> QED BY <1>4, <1>5, <1>7 DEF s

\* A stage names one command, its first word, or none.
LEMMA StageNames ==
  ASSUME IInv, CmdInv, Progress, Spaced(typed), seg # 0
  PROVE  NamedTo(typed, Bar - 1) =
           IF Stage.cmd = NONE THEN NamedTo(typed, seg - 1)
           ELSE Append(NamedTo(typed, seg - 1), Stage.cmd)
<1> DEFINE s == SubSeq(line, seg, Bar - 1)
           W == {i \in 1..Len(s) : s[i].t \in {"word"}}
<1>1. /\ seg \in 1..Len(line) /\ p \in 1..Len(line) /\ Bar \in seg..p /\ Len(line) \in Nat
      /\ Len(line) = Len(typed) + 1 /\ Len(typed) \in Nat /\ typed \in Seq(Typed)
      /\ \A j \in seg..Bar-1 : j \in 1..Len(typed) /\ typed[j].t \notin Stops \union {"|"}
  BY BarIs, WholeIs DEF CmdInv
<1>2. /\ Len(s) = Bar - seg /\ Swallow(s) = s
      /\ \A i \in 1..Bar-seg : s[i] = typed[seg + i - 1]
  BY StageTokens
<1>3. Stage.cmd = IF W = {} THEN NONE ELSE s[Min(W)].v
  BY <1>2 DEF Stage, tokenize
<1>4. /\ \A j \in 1..seg-1 : /\ typed[j].t # "#"
                             /\ typed[j].t = "word" =>
                                  \E k \in j..seg-1 : typed[k].t \in Separators \union {"|"}
  BY DEF Progress, SegmentFrom, StageAt
<1> HIDE DEF Bar, Stage, s
<1>5. \A i \in 1..Bar-seg : seg + i - 1 \in seg..Bar-1
  BY <1>1
<1>6. CASE W = {}
  <2>1. ASSUME NEW j \in seg..Bar-1 PROVE NameAt(typed, j) = NONE
    <3>1. j - seg + 1 \in 1..Bar-seg /\ seg + (j - seg + 1) - 1 = j
      BY <1>1
    <3>2. s[j - seg + 1] = typed[j]
      BY <1>2, <3>1
    <3>3. typed[j].t # "word"
      BY <1>2, <1>6, <3>1, <3>2
    <3> QED BY <3>3 DEF NameAt, CommandAt
  <2>2. NamedTo(typed, Bar - 1) = NamedTo(typed, seg - 1)
    <3>1. /\ seg - 1 \in Nat /\ Bar - 1 \in Nat /\ seg - 1 <= Bar - 1 /\ Bar - 1 <= Len(typed)
          /\ (seg - 1) + 1 = seg
      BY <1>1
    <3> QED BY <1>1, <2>1, <3>1, NamedSame
  <2> QED BY <1>3, <1>6, <2>2
<1>7. CASE W # {}
  <2>1. PICK m \in W : \A i \in W : m <= i
    <3>1. W \subseteq Nat
      OBVIOUS
    <3> HIDE DEF W
    <3> QED BY <1>7, <3>1, LeastNatural
  <2>2. Min(W) = m
    <3>1. \A i \in W : i \in Nat
      OBVIOUS
    <3> HIDE DEF W
    <3> QED BY <2>1, <3>1 DEF Min
  <2> DEFINE w == seg + m - 1
  <2>3. m \in 1..Bar-seg /\ w \in seg..Bar-1 /\ w \in 1..Len(typed) /\ s[m] = typed[w]
        /\ typed[w].t = "word"
    BY <1>1, <1>2, <1>5, <2>1
  <2>4. Stage.cmd = typed[w].v
    <3> HIDE DEF w, W
    <3> QED BY <1>3, <1>7, <2>2, <2>3
  <2> HIDE DEF w
  <2>5. ASSUME NEW j \in seg..w-1 PROVE typed[j].t # "word"
    <3>1. j - seg + 1 \in 1..Bar-seg /\ seg + (j - seg + 1) - 1 = j /\ j - seg + 1 < m
      BY <1>1, <2>3 DEF w
    <3>2. s[j - seg + 1] = typed[j]
      BY <1>2, <3>1
    <3>3. j - seg + 1 \notin W
      <4>1. m \in Nat /\ j - seg + 1 \in Nat
        BY <2>3, <3>1
      <4> HIDE DEF W
      <4> QED BY <2>1, <3>1, <4>1
    <3> QED BY <1>2, <3>1, <3>2, <3>3
  <2>6. CommandAt(typed, w)
    <3>1. ASSUME NEW j \in 1..w-1
          PROVE  /\ typed[j].t # "#"
                 /\ typed[j].t = "word" =>
                      \E k \in j..w-1 : typed[k].t \in Separators \union {"|"}
      <4>1. CASE j \in 1..seg-1
        <5>1. j..seg-1 \subseteq j..w-1
          BY <1>1, <2>3
        <5> QED BY <1>4, <4>1, <5>1
      <4>2. CASE j \in seg..w-1
        <5>1. j \in seg..Bar-1
          BY <1>1, <2>3, <4>2
        <5> QED BY <1>1, <2>5, <4>2, <5>1 DEF Stops
      <4> QED BY <1>1, <2>3, <4>1, <4>2
    <3> QED BY <2>3, <3>1 DEF CommandAt
  <2>7. ASSUME NEW j \in seg..Bar-1, j # w PROVE NameAt(typed, j) = NONE
    <3>1. CASE j < w
      <4>1. j \in seg..w-1
        BY <1>1, <2>3, <3>1
      <4> QED BY <2>5, <4>1 DEF NameAt, CommandAt
    <3>2. CASE w < j
      <4>1. w \in 1..j-1
        BY <1>1, <2>3, <3>2
      <4>2. \A k \in w..j-1 : k \in seg..Bar-1
        BY <1>1, <2>3, <3>2
      <4>3. \A k \in w..j-1 : typed[k].t \notin Separators \union {"|"}
        BY <1>1, <4>2 DEF Stops
      <4>4. ~CommandAt(typed, j)
        BY <2>3, <4>1, <4>3 DEF CommandAt
      <4> QED BY <4>4 DEF NameAt
    <3> QED BY <1>1, <2>3, <2>7, <3>1, <3>2
  <2>8. NamedTo(typed, w - 1) = NamedTo(typed, seg - 1)
    <3>1. /\ seg - 1 \in Nat /\ w - 1 \in Nat /\ seg - 1 <= w - 1 /\ w - 1 <= Len(typed)
          /\ \A j \in (seg - 1)+1..w-1 : j \in seg..Bar-1 /\ j # w
      BY <1>1, <2>3
    <3> QED BY <1>1, <2>7, <3>1, NamedSame
  <2>9. NamedTo(typed, Bar - 1) = NamedTo(typed, w)
    <3>1. /\ w \in Nat /\ Bar - 1 \in Nat /\ w <= Bar - 1 /\ Bar - 1 <= Len(typed)
          /\ \A j \in w+1..Bar-1 : j \in seg..Bar-1 /\ j # w
      BY <1>1, <2>3
    <3> QED BY <1>1, <2>7, <3>1, NamedSame
  <2>10. NameAt(typed, w) = Stage.cmd
    BY <2>4, <2>6 DEF NameAt
  <2> QED BY <1>1, <2>3, <2>8, <2>9, <2>10, NamedStep
<1> QED BY <1>6, <1>7

\* A stage that ran adds its command to those that ran, if it had one.
LEMMA RanAppend ==
  ASSUME ran \in Seq(Entry), NEW e \in Entry, ran' = Append(ran, e)
  PROVE  Ran' = IF e.cmd = NONE THEN Ran ELSE Append(Ran, e.cmd)
<1> DEFINE c == [i \in 1..Len(ran) |-> ran[i].cmd]
           d == [i \in 1..Len(ran') |-> ran'[i].cmd]
<1>1. /\ Len(ran) \in Nat /\ Len(ran') = Len(ran) + 1 /\ ran'[Len(ran) + 1] = e
      /\ \A i \in 1..Len(ran) : ran'[i] = ran[i] /\ ran[i].cmd \in Texts
  <2>1. \A i \in 1..Len(ran) : ran[i] \in Entry
    OBVIOUS
  <2>2. \A x \in Entry : x.cmd \in Texts
    BY DEF Entry
  <2>3. /\ Len(ran) \in Nat /\ Len(ran') = Len(ran) + 1 /\ ran'[Len(ran) + 1] = e
        /\ \A i \in 1..Len(ran) : ran'[i] = ran[i]
    OBVIOUS
  <2> QED BY <2>1, <2>2, <2>3
<1>2. e.cmd \in Texts
  BY DEF Entry
<1>3. c \in Seq(Texts) /\ Len(c) = Len(ran)
  BY <1>1
<1>4. d = Append(c, e.cmd)
  <2>1. \A i \in 1..Len(ran) + 1 : i \in 1..Len(ran) \/ i = Len(ran) + 1
    BY <1>1
  <2>2. d = [i \in 1..Len(ran) + 1 |-> IF i = Len(ran) + 1 THEN e.cmd ELSE ran[i].cmd]
    BY <1>1, <2>1
  <2>3. Append(c, e.cmd) = [i \in 1..Len(ran) + 1 |-> IF i = Len(ran) + 1 THEN e.cmd ELSE ran[i].cmd]
    BY <1>1, <1>2, <1>3, <2>1
  <2> QED BY <2>2, <2>3
<1>5. Ran = Words(c) /\ Ran' = Words(d)
  BY DEF Ran
<1> HIDE DEF c, d
<1> QED BY <1>2, <1>3, <1>4, <1>5, WordsAppend

\* A position past a bar, or past a bar and the blank behind it, is where a
\* stage begins, and nothing is named between the two.
LEMMA Skipped ==
  ASSUME NEW l \in Seq(Typed), NEW b \in 1..Len(l), NEW c \in Nat, c = b + 1 \/ c = b + 2,
         c <= Len(l) + 1, c = b + 2 => l[b + 1].t = "blank",
         l[b].t \in Separators \union {"|"}
  PROVE  NamedTo(l, c - 1) = NamedTo(l, b - 1)
<1>1. ASSUME NEW j \in b..c-1 PROVE NameAt(l, j) = NONE
  <2>1. j = b \/ (j = b + 1 /\ c = b + 2)
    OBVIOUS
  <2>2. l[j].t # "word"
    BY <2>1 DEF Separators
  <2> QED BY <2>2 DEF NameAt, CommandAt
<1>2. b - 1 \in Nat /\ c - 1 \in Nat /\ b - 1 <= c - 1 /\ c - 1 <= Len(l) /\ (b - 1) + 1 = b
  OBVIOUS
<1> QED BY <1>1, <1>2, NamedSame

\* What lies before the position after next.
LEMMA BeforeNext ==
  ASSUME NEW b \in Nat, NEW c \in Nat, c <= b + 2, NEW j \in 1..c-1
  PROVE  j <= b \/ j = b + 1
OBVIOUS

\* What lies behind a position lies behind those before it.
LEMMA Behind ==
  ASSUME NEW n \in Nat, NEW a \in 1..n, NEW b \in a..n, NEW j \in b+1..n
  PROVE  j \in 1..n /\ j \in a..n /\ j # b
OBVIOUS

\* A position before c is one up to b, and b one from there to c, if b is.
LEMMA UpTo ==
  ASSUME NEW b \in Nat, NEW c \in Nat, b + 1 <= c, NEW j \in 1..c-1
  PROVE  /\ j < b => j \in 1..b-1 /\ b \in j..c-1
         /\ j = b => b \in j..c-1
OBVIOUS

\* A stage that is over has added its command.
LEMMA StageCounts ==
  ASSUME IInv, CmdInv, seg # 0, NEW e \in Entry, ran' = Append(ran, e),
         Unconditional(typed) /\ Spaced(typed) => e.cmd = Stage.cmd,
         NEW s, NEW out, NEW off, Finish(s, out, off)
  PROVE  CmdInv'
<1>1. /\ typed' = typed /\ start' = start /\ p' = p
      /\ IsLast => pc' = "next" /\ seg' = 0 /\ line' = line
      /\ ~IsLast => /\ pc' = "segment" /\ seg' = SkipBlank(Bar + 1)
                    /\ line' = [line EXCEPT ![Bar] = NUL]
  BY DEF Finish
<1>2. /\ Len(typed) \in Nat /\ Len(line) = Len(typed) + 1 /\ Len(line) \in Nat
      /\ typed \in Seq(Typed) /\ line \in Seq(Token)
      /\ \A j \in 1..Len(typed) : Whole[j] = typed[j]
  BY WholeIs DEF CmdInv, IInv, LineInv
<1>3. Len(line') = Len(line)
  <2>1. CASE IsLast
    BY <1>1, <2>1
  <2>2. CASE ~IsLast
    BY <1>1, <1>2, <2>2
  <2> QED BY <2>1, <2>2
<1> SUFFICES ASSUME Unconditional(typed), Spaced(typed) PROVE Progress'
  BY <1>1, <1>2, <1>3 DEF CmdInv
<1>4. Progress
  BY DEF CmdInv
<1>5. /\ seg \in 1..Len(line) /\ p \in 1..Len(line) /\ Bar \in seg..p
      /\ \A j \in seg..Bar-1 : j \in 1..Len(typed) /\ typed[j].t \notin Stops \union {"|"}
      /\ IsLast => CutAt(Bar)
      /\ ~IsLast => /\ Bar \in 1..Len(typed) /\ typed[Bar].t = "|"
                    /\ \E x \in Bar+1..p : CutAt(x)
  BY <1>4, BarIs
<1>6. Whole' = Whole
  BY <1>1 DEF Whole
<1>7. /\ SegmentFrom(seg) /\ StageAt(seg) /\ AtStop /\ \A j \in seg..p-1 : Whole[j].t \notin Stops
  BY <1>4 DEF Progress, SegmentFrom
<1>8. /\ Ran = NamedTo(typed, seg - 1)
      /\ \A j \in 1..seg-1 : /\ typed[j].t # "#"
                             /\ typed[j].t = "word" =>
                                  \E k \in j..seg-1 : typed[k].t \in Separators \union {"|"}
  BY <1>7 DEF StageAt
<1>9. Ran' = NamedTo(typed, Bar - 1)
  <2>1. ran \in Seq(Entry)
    BY DEF IInv, DataInv
  <2>2. Ran' = IF e.cmd = NONE THEN Ran ELSE Append(Ran, e.cmd)
    BY <2>1, RanAppend
  <2>3. NamedTo(typed, Bar - 1) = IF Stage.cmd = NONE THEN NamedTo(typed, seg - 1)
                                  ELSE Append(NamedTo(typed, seg - 1), Stage.cmd)
    BY <1>4, StageNames
  <2> QED BY <1>8, <2>2, <2>3
<1> HIDE DEF Bar, Stage
<1>10. \A j \in 1..p-1 : j \in 1..Len(typed) /\ typed[j].t # "#"
  <2> TAKE j \in 1..p-1
  <2>1. CASE j < seg
    BY <1>2, <1>5, <1>8, <2>1
  <2>2. CASE seg <= j
    <3>1. j \in seg..p-1 /\ j \in 1..Len(typed)
      BY <1>2, <1>5, <2>2
    <3> QED BY <1>2, <1>7, <3>1 DEF Stops
  <2> QED BY <1>2, <1>5, <2>1, <2>2
<1>11. CASE IsLast
  <2>1. \A j \in Bar..p-1 : Whole[j].t = "blank"
    BY <1>5, <1>11 DEF CutAt
  <2>2. NamedTo(typed, p - 1) = NamedTo(typed, Bar - 1)
    <3>1. /\ Bar - 1 \in Nat /\ p - 1 \in Nat /\ Bar - 1 <= p - 1 /\ p - 1 <= Len(typed)
          /\ (Bar - 1) + 1 = Bar /\ \A j \in Bar..p-1 : j \in 1..Len(typed)
      BY <1>2, <1>5
    <3>2. ASSUME NEW j \in Bar..p-1 PROVE NameAt(typed, j) = NONE
      BY <1>2, <2>1, <3>1 DEF NameAt, CommandAt
    <3> QED BY <1>2, <3>1, <3>2, NamedSame
  <2>3. AtStop'
    BY <1>1, <1>6, <1>7, <1>11 DEF AtStop, Intact
  <2>4. /\ AtStop' /\ Ran' = NamedTo(typed', p' - 1)
        /\ \A j \in 1..p'-1 : typed'[j].t # "#"
    BY <1>1, <1>9, <1>10, <2>2, <2>3
  <2>5. pc' = "next" /\ seg' = 0
    BY <1>1, <1>11
  <2> QED BY <2>4, <2>5 DEF Progress
<1>12. CASE ~IsLast
  <2>1. PICK x \in Bar+1..p : CutAt(x)
    BY <1>5, <1>12
  <2>2. /\ line[x].t = "nul" /\ \A j \in x..p-1 : Whole[j].t = "blank"
        /\ \A j \in seg..x-1 : line[j] = Whole[j]
    BY <2>1 DEF CutAt, Intact
  <2>3. /\ line' = [line EXCEPT ![Bar] = NUL] /\ pc' = "segment" /\ seg' = SkipBlank(Bar + 1)
        /\ Bar \in 1..Len(typed) /\ typed[Bar].t = "|"
    BY <1>1, <1>5, <1>12
  <2>4. \A j \in 1..Len(line) : j # Bar => line'[j] = line[j]
    BY <1>2, <2>3
  <2>5. /\ seg' \in Bar+1..x /\ (seg' = Bar + 1 \/ seg' = Bar + 2)
        /\ seg' = Bar + 2 => typed[Bar + 1].t = "blank"
    <3>1. CASE line[Bar + 1].t = "blank"
      <4>1. Bar + 1 # x
        BY <2>2, <3>1
      <4>2. Bar + 1 \in seg..x-1 /\ Bar + 1 \in 1..Len(typed)
        BY <1>2, <1>5, <2>1, <4>1
      <4>3. line[Bar + 1] = typed[Bar + 1]
        BY <1>2, <2>2, <4>2
      <4>4. seg' = Bar + 2
        BY <1>5, <2>3, <3>1 DEF SkipBlank
      <4> QED BY <1>5, <2>1, <3>1, <4>2, <4>3, <4>4
    <3>2. CASE line[Bar + 1].t # "blank"
      <4>1. seg' = Bar + 1
        BY <2>3, <3>2 DEF SkipBlank
      <4> QED BY <1>5, <2>1, <4>1
    <3> QED BY <3>1, <3>2
  <2>6. seg' \in 1..Len(line) /\ seg' \in Nat /\ seg' <= p /\ seg' # 0 /\ seg < seg'
    BY <1>2, <1>5, <2>1, <2>5
  <2>7. StageAt(seg)'
    <3>1. Ran' = NamedTo(typed, seg' - 1)
      <4>1. seg' <= Len(typed) + 1 /\ typed[Bar].t \in Separators \union {"|"}
        BY <1>2, <2>3, <2>6
      <4> QED BY <1>2, <1>9, <2>3, <2>5, <2>6, <4>1, Skipped
    <3> PICK c : c = seg'
      OBVIOUS
    <3>2. ASSUME NEW j \in 1..c-1
          PROVE  /\ typed[j].t # "#"
                 /\ typed[j].t = "word" =>
                      \E k \in j..c-1 : typed[k].t \in Separators \union {"|"}
      <4>1. j \in 1..p-1
        BY <1>5, <2>6
      <4>2. CASE j <= Bar
        <5>1. Bar \in j..c-1
          BY <1>5, <2>5, <2>6, <4>2
        <5> QED BY <1>10, <2>3, <4>1, <5>1
      <4>3. CASE j = Bar + 1
        <5>1. c = Bar + 2
          <6>1. j <= c - 1 /\ ~(Bar + 1 <= (Bar + 1) - 1)
            BY <1>5
          <6> QED BY <2>5, <4>3, <6>1
        <5> QED BY <1>10, <2>5, <4>1, <4>3, <5>1
      <4>4. j <= Bar \/ j = Bar + 1
        <5>1. Bar \in Nat /\ c \in Nat /\ c <= Bar + 2
          BY <1>5, <2>5
        <5> QED BY <5>1, BeforeNext
      <4> QED BY <4>2, <4>3, <4>4
    <3> QED BY <1>1, <1>3, <2>6, <3>1, <3>2 DEF StageAt
  <2>8. AtStop'
    <3>1. Bar < p /\ p \in 1..Len(line) /\ \A j \in p+1..Len(line) : j # Bar /\ j \in 1..Len(line)
      BY <1>2, <1>5, <2>1
    <3>2. line'[p] = line[p] /\ \A j \in p+1..Len(line) : line'[j] = line[j]
      BY <1>5, <2>4, <3>1
    <3> QED BY <1>1, <1>3, <1>6, <1>7, <3>2 DEF AtStop, Intact
  <2>9. SegmentFrom(seg)'
    <3>1. \A j \in seg'..p-1 : j \in seg..p-1
      BY <1>5, <2>6
    <3> QED BY <1>1, <1>6, <1>7, <2>7, <2>8, <3>1 DEF SegmentFrom
  <2>10. x \in seg'..p' /\ CutAt(x)'
    <3>1. /\ x \in seg'..p /\ x # Bar /\ x \in 1..Len(line)
          /\ \A j \in seg'..x-1 : j \in seg..x-1 /\ j # Bar /\ j \in 1..Len(line)
      BY <1>2, <1>5, <2>1, <2>5, <2>6
    <3>2. line'[x] = line[x] /\ \A j \in seg'..x-1 : line'[j] = Whole[j]
      BY <2>2, <2>4, <3>1
    <3> QED BY <1>1, <1>6, <2>2, <3>1, <3>2 DEF CutAt, Intact
  <2>11. SegmentFrom(seg)' /\ (\E y \in seg..p : CutAt(y))'
    BY <2>9, <2>10
  <2> QED BY <2>3, <2>6, <2>11 DEF Progress
<1> QED BY <1>11, <1>12

\* The three ways a stage ends, each with its command in the history.
LEMMA StageStepCounts ==
  ASSUME IInv, IInv', CmdInv, EmptyStage \/ BadRedirection \/ RunCommand
  PROVE  CmdInv'
<1>1. ran \in Seq(Entry) /\ ran' \in Seq(Entry)
  BY DEF IInv, DataInv
<1>2. ASSUME NEW e, ran' = Append(ran, e) PROVE e \in Entry
  <2> DEFINE S == Entry \union {e}
  <2>1. ran \in Seq(S) /\ e \in S
    BY <1>1
  <2>2. Len(Append(ran, e)) = Len(ran) + 1 /\ Append(ran, e)[Len(ran) + 1] = e
    <3> HIDE DEF S
    <3> QED BY <2>1, AppendProperties
  <2>3. Len(ran') = Len(ran) + 1 /\ Len(ran) \in Nat
    BY <1>1, <1>2, <2>2
  <2>4. ran'[Len(ran) + 1] \in Entry
    BY <1>1, <2>3
  <2> QED BY <1>2, <2>2, <2>4
<1>3. CASE EmptyStage
  <2> DEFINE e == [cmd |-> NONE, status |-> 0, first |-> pipe_reader = NOPIPE,
                   from |-> NONE, input |-> <<>>, to |-> Goes(NONE), output |-> <<>>]
             out == [files |-> files, pipes |-> pipes, screen |-> screen]
  <2>1. ran' = Append(ran, e) /\ seg # 0 /\ Finish(0, out, pipe_in_off) /\ Stage.cmd = NONE
    BY <1>3 DEF EmptyStage, Record
  <2>2. e.cmd = NONE
    OBVIOUS
  <2> HIDE DEF e, out
  <2> QED BY <1>2, <2>1, <2>2, StageCounts
<1>4. CASE BadRedirection
  <2> DEFINE to == OutFile(Stage.out)
             out == Output(Message, to, ~IsLast, which, Opened(Stage.out), Emptied)
             e == [cmd |-> Stage.cmd, status |-> 1, first |-> pipe_reader = NOPIPE,
                   from |-> NONE, input |-> <<>>, to |-> Goes(to), output |-> Message]
  <2>1. ran' = Append(ran, e) /\ seg # 0 /\ Finish(1, out, pipe_in_off)
    BY <1>4 DEF BadRedirection, Record
  <2>2. e.cmd = Stage.cmd
    OBVIOUS
  <2> HIDE DEF e, out
  <2> QED BY <1>2, <2>1, <2>2, StageCounts
<1>5. CASE RunCommand
  <2> DEFINE reads == cl.cmd \in Reads
             input == IF reads THEN Input ELSE <<>>
             data  == IF cl.cmd \in Builtins THEN input \o Prints[cl.cmd] ELSE Message
             s     == IF cl.cmd \in Builtins THEN Status[cl.cmd] ELSE 127
             out   == Output(data, out_file, pipe_writing, pipe_writer, files, pipes)
             off   == IF Source = "pipe" THEN pipe_in_off + Len(input) ELSE pipe_in_off
             from  == IF reads THEN Source ELSE NONE
             e == [cmd |-> cl.cmd, status |-> s, first |-> pipe_reader = NOPIPE,
                   from |-> from, input |-> input, to |-> Goes(out_file), output |-> data]
  <2>1. ran' = Append(ran, e) /\ pc = "run" /\ Finish(s, out, off)
    BY <1>5 DEF RunCommand, Record
  <2>2. seg # 0
    BY <2>1 DEF IInv, StageInv
  <2>3. Unconditional(typed) /\ Spaced(typed) => cl.cmd = Stage.cmd
    BY <2>1 DEF CmdInv, Progress
  <2>4. e.cmd = cl.cmd
    OBVIOUS
  <2> HIDE DEF e, out, s, off
  <2> QED BY <1>2, <2>1, <2>2, <2>3, <2>4, StageCounts
<1> QED BY <1>3, <1>4, <1>5

\* The first steps of a line: nothing is named and nothing ran.
LEMMA PromptCounts ==
  ASSUME IInv, NEW l \in Lines, Prompt(l)
  PROVE  CmdInv'
<1>1. /\ typed' = l /\ line' = Append(l, NUL) /\ start' = (IF l[1].t = "blank" THEN 2 ELSE 1)
      /\ p' = start' /\ ran' = <<>> /\ seg' = seg /\ pc = "prompt"
      /\ pc' = IF line'[start'].t \in {"nul", "#"} THEN "prompt" ELSE "scan"
  BY DEF Prompt
<1>2. /\ l \in Seq(Typed) /\ l # <<>> /\ Len(l) \in Nat /\ Len(l) >= 1
      /\ \A j \in 1..Len(l) : l[j] \in Typed /\ l[j].t # "nul"
  <2>1. l \in Seq(Typed) /\ l # <<>>
    BY ShellAssumption
  <2>2. \A tok \in Typed : tok.t # "nul"
    BY DEF Typed, Kinds, Separators
  <2>3. \A j \in 1..Len(l) : l[j] \in Typed
    BY <2>1
  <2> QED BY <2>1, <2>2, <2>3
<1>3. seg' = 0
  BY <1>1 DEF IInv, StageInv
<1>4. Whole' = line'
  BY <1>1 DEF Whole
<1>5. Len(line') = Len(l) + 1 /\ \A j \in 1..Len(l) : line'[j] = l[j]
  <2> HIDE DEF NUL
  <2> QED BY <1>1, <1>2
<1>6. Ran' = <<>>
  <2>1. [i \in 1..Len(ran') |-> ran'[i].cmd] = <<>>
    BY <1>1
  <2> QED BY <2>1, WordsNothing DEF Ran
<1> PICK c : c = start'
  OBVIOUS
<1>7. /\ c \in 1..Len(l) + 1 /\ c - 1 \in Nat /\ c - 1 <= Len(l)
      /\ c = 1 \/ (c = 2 /\ l[1].t = "blank")
  BY <1>1, <1>2
<1>8. \A j \in 1..c-1 : j \in 1..Len(l) /\ l[j].t = "blank"
  <2>1. CASE c = 1
    BY <2>1
  <2>2. CASE c = 2 /\ l[1].t = "blank"
    <3>1. \A j \in 1..2-1 : j = 1
      OBVIOUS
    <3> QED BY <1>2, <2>2, <3>1
  <2> QED BY <1>7, <2>1, <2>2
<1>9. NamedTo(l, c - 1) = <<>>
  <2>1. \A j \in 0+1..c-1 : NameAt(l, j) = NONE
    <3> TAKE j \in 0+1..c-1
    <3>1. l[j].t = "blank"
      BY <1>8
    <3> QED BY <3>1 DEF NameAt, CommandAt
  <2>2. 0 <= c - 1 /\ 0 \in Nat
    <3>1. \A n \in Nat : 0 <= n
      OBVIOUS
    <3> QED BY <1>7, <3>1, Zenon
  <2>3. NamedTo(l, c - 1) = NamedTo(l, 0)
    BY <1>2, <1>7, <2>1, <2>2, NamedSame
  <2> QED BY <1>2, <2>3, NamedEnds
<1>10. CASE pc' = "scan"
  <2>1. StageAt(start)'
    BY <1>1, <1>2, <1>5, <1>6, <1>7, <1>8, <1>9 DEF StageAt
  <2>2. Intact(start, Len(line))'
    BY <1>4 DEF Intact
  <2> QED BY <1>1, <1>2, <1>3, <1>5, <1>10, <2>1, <2>2 DEF CmdInv, Progress
<1>11. CASE pc' = "prompt"
  <2>1. c = Len(l) + 1 \/ l[c].t = "#"
    <3>1. line'[c].t \in {"nul", "#"}
      BY <1>1, <1>11
    <3> QED BY <1>2, <1>5, <1>7, <3>1
  <2>2. \A j \in c..Len(l) : NameAt(l, j) = NONE
    <3> TAKE j \in c..Len(l)
    <3>1. l[c].t = "#" /\ (j = c \/ c \in 1..j-1)
      BY <1>2, <1>7, <2>1
    <3> QED BY <3>1 DEF NameAt, CommandAt
  <2>3. NamedTo(l, Len(l)) = NamedTo(l, c - 1)
    <3>1. c - 1 <= Len(l) /\ (c - 1) + 1 = c /\ Len(l) <= Len(l)
      BY <1>2, <1>7
    <3> QED BY <1>2, <1>7, <2>2, <3>1, NamedSame
  <2>4. Ran' = Named(typed')
    BY <1>1, <1>2, <1>6, <1>9, <2>3, NamedEnds
  <2> QED BY <1>1, <1>2, <1>3, <1>5, <1>11, <2>4 DEF CmdInv, Progress
<1> QED BY <1>1, <1>10, <1>11

\* The end of a segment is found.
LEMMA ScanCounts ==
  ASSUME IInv, CmdInv, Scan
  PROVE  CmdInv'
<1>1. /\ pc = "scan" /\ p' = NextOf(p, Stops) /\ pc' = "segment" /\ seg' = seg
      /\ line' = (IF line[p'].t = "#" THEN [line EXCEPT ![p'] = NUL] ELSE line)
      /\ typed' = typed /\ start' = start /\ ran' = ran
  BY DEF Scan, Stops
<1>2. /\ Len(typed) \in Nat /\ Len(line) = Len(typed) + 1 /\ Len(line) \in Nat
      /\ typed \in Seq(Typed) /\ line \in Seq(Token) /\ LineInv /\ seg = 0
      /\ start \in 1..Len(line) /\ p \in 1..Len(line)
  BY <1>1, WholeIs DEF CmdInv, IInv, LineInv, StageInv
<1> PICK q : q = p'
  OBVIOUS
<1>3. /\ q \in p..Len(line) /\ line[q].t \in Stops
      /\ \A k \in p..q-1 : line[k].t \notin Stops
  BY <1>1, <1>2, NextOfIs DEF Stops
<1>4. Len(line') = Len(line) /\ \A j \in 1..Len(line) : j # q => line'[j] = line[j]
  BY <1>1, <1>2
<1> SUFFICES ASSUME Unconditional(typed), Spaced(typed) PROVE Progress'
  BY <1>1, <1>2, <1>4 DEF CmdInv
<1>5. StageAt(start) /\ p = start /\ \A j \in start..Len(line) : line[j] = Whole[j]
  BY <1>1 DEF CmdInv, Progress, Intact
<1>6. Whole' = Whole /\ Ran' = Ran
  BY <1>1 DEF Whole, Ran
<1>7. StageAt(start)'
  BY <1>1, <1>4, <1>5, <1>6 DEF StageAt
<1>8. q \in start..Len(line) /\ q \in 1..Len(line) /\ line[q] = Whole[q]
  BY <1>2, <1>3, <1>5
<1>9. AtStop'
  <2>1. \A j \in q+1..Len(line) : line'[j] = Whole[j]
    <3> TAKE j \in q+1..Len(line)
    <3>1. j \in 1..Len(line) /\ j \in start..Len(line) /\ j # q
      BY <1>2, <1>8, Behind
    <3> QED BY <1>4, <1>5, <3>1
  <2>2. CASE line[q].t = "#"
    <3>1. line'[q] = NUL
      <4> HIDE DEF NUL
      <4> QED BY <1>1, <1>2, <1>8, <2>2
    <3>2. NUL.t = "nul"
      BY DEF NUL
    <3>3. line'[q].t = "nul"
      <4> HIDE DEF NUL
      <4> QED BY <3>1, <3>2
    <3> QED BY <1>3, <1>4, <1>6, <1>8, <2>1, <2>2, <3>3 DEF AtStop, Intact
  <2>3. CASE line[q].t # "#"
    <3>1. line'[q] = line[q]
      BY <1>1, <2>3
    <3> QED BY <1>3, <1>4, <1>6, <1>8, <2>1, <2>3, <3>1 DEF AtStop, Intact
  <2> QED BY <2>2, <2>3
<1>10. \A j \in start..q-1 : line'[j] = Whole[j] /\ Whole[j].t \notin Stops
  <2> TAKE j \in start..q-1
  <2>1. j \in p..q-1 /\ j \in start..Len(line) /\ j \in 1..Len(line) /\ j # q
    BY <1>2, <1>5, <1>8
  <2> QED BY <1>3, <1>4, <1>5, <2>1
<1>11. SegmentFrom(start)' /\ Intact(start, p - 1)'
  BY <1>1, <1>6, <1>7, <1>9, <1>10 DEF SegmentFrom, Intact
<1> QED BY <1>1, <1>2, <1>11 DEF Progress

\* Nothing of a plain line is skipped but what names nothing.
LEMMA SkipCounts ==
  ASSUME IInv, CmdInv, SkipSegment
  PROVE  CmdInv'
<1>1. /\ pc = "segment" /\ seg = 0 /\ (End = start \/ ~Runs) /\ pc' = "next" /\ seg' = seg
      /\ line' = line /\ typed' = typed /\ start' = start /\ p' = p /\ ran' = ran
  BY DEF SkipSegment, lineVars
<1>2. /\ Len(typed) \in Nat /\ Len(line) = Len(typed) + 1
      /\ start \in 1..Len(line) /\ p \in start..Len(line)
      /\ \A j \in 1..Len(typed) : Whole[j] = typed[j]
      /\ Whole[Len(line)].t = "nul"
  BY WholeIs DEF IInv, LineInv
<1> SUFFICES ASSUME Unconditional(typed), Spaced(typed) PROVE Progress'
  BY <1>1 DEF CmdInv
<1>3. /\ StageAt(start) /\ AtStop /\ \A j \in start..p-1 : line[j] = Whole[j] /\ Whole[j].t \notin Stops
  BY <1>1 DEF CmdInv, Progress, SegmentFrom, Intact
<1>4. Whole' = Whole /\ Ran' = Ran /\ (AtStop' <=> AtStop)
  BY <1>1 DEF Whole, Ran, AtStop, Intact
<1>5. p = Len(line) \/ p \in 1..Len(typed)
  BY <1>2
<1>6. Runs
  <2>1. line[p].t = "nul" \/ line[p] = Whole[p]
    BY <1>3 DEF AtStop
  <2>2. Whole[p].t \notin {"&&", "||"}
    BY <1>2, <1>5 DEF Unconditional
  <2> QED BY <2>1, <2>2 DEF Runs
<1>7. p = start \/ (p = start + 1 /\ Whole[start].t = "blank" /\ start \in 1..Len(typed))
  <2>1. CASE p > start /\ line[p-1].t = "blank"
    <3>1. p - 1 = start
      BY <1>1, <1>6, <2>1 DEF End
    <3>2. p = start + 1 /\ start \in start..p-1 /\ start \in 1..Len(typed)
      BY <1>2, <3>1
    <3> QED BY <1>3, <2>1, <3>1, <3>2
  <2>2. CASE ~(p > start /\ line[p-1].t = "blank")
    BY <1>1, <1>6, <2>2 DEF End
  <2> QED BY <2>1, <2>2
<1>8. NamedTo(typed, p - 1) = NamedTo(typed, start - 1)
  <2>1. CASE p = start
    BY <2>1
  <2>2. CASE p = start + 1 /\ Whole[start].t = "blank" /\ start \in 1..Len(typed)
    <3>1. NameAt(typed, start) = NONE
      BY <1>2, <2>2 DEF NameAt, CommandAt
    <3>2. p - 1 = start
      BY <2>2
    <3> QED BY <2>2, <3>1, <3>2, NamedStep DEF CmdInv
  <2> QED BY <1>7, <2>1, <2>2
<1>9. \A j \in 1..p-1 : typed[j].t # "#"
  <2> TAKE j \in 1..p-1
  <2>1. CASE j \in 1..start-1
    BY <1>3, <2>1 DEF StageAt
  <2>2. CASE j = start /\ Whole[start].t = "blank" /\ start \in 1..Len(typed)
    BY <1>2, <2>2
  <2>3. j \in 1..start-1 \/ (j = start /\ p # start)
    BY <1>2, <1>7
  <2> QED BY <1>7, <2>1, <2>2, <2>3
<1>10. Ran = NamedTo(typed, p - 1)
  BY <1>3, <1>8 DEF StageAt
<1> QED BY <1>1, <1>3, <1>4, <1>9, <1>10 DEF Progress

\* The NUL that ends a pipeline falls on no separator of a line with blanks
\* before its separators.
LEMMA StartCounts ==
  ASSUME IInv, CmdInv, StartPipeline
  PROVE  CmdInv'
<1>1. /\ pc = "segment" /\ seg = 0 /\ End > start /\ pc' = pc /\ seg' = start
      /\ line' = [line EXCEPT ![End] = NUL]
      /\ typed' = typed /\ start' = start /\ p' = p /\ ran' = ran
  BY DEF StartPipeline
<1>2. /\ Len(typed) \in Nat /\ Len(line) = Len(typed) + 1 /\ line \in Seq(Token)
      /\ start \in 1..Len(line) /\ p \in start..Len(line)
      /\ \A j \in 1..Len(typed) : Whole[j] = typed[j]
  BY WholeIs DEF IInv, LineInv
<1>3. End \in start..p /\ End \in 1..Len(line) /\ (End = p \/ End = p - 1) /\ p > start
  BY <1>1, <1>2 DEF End
<1>4. Len(line') = Len(line)
  BY <1>1, <1>2
<1> SUFFICES ASSUME Unconditional(typed), Spaced(typed) PROVE Progress'
  BY <1>1, <1>4 DEF CmdInv
<1>5. /\ StageAt(start) /\ AtStop
      /\ \A j \in start..p-1 : line[j] = Whole[j] /\ Whole[j].t \notin Stops
  BY <1>1 DEF CmdInv, Progress, SegmentFrom, Intact
<1>6. Whole' = Whole /\ Ran' = Ran
  BY <1>1 DEF Whole, Ran
<1>7. /\ line'[End].t = "nul"
      /\ \A j \in 1..Len(line) : j # End => line'[j] = line[j]
  <2>1. NUL.t = "nul"
    BY DEF NUL
  <2> HIDE DEF NUL, End
  <2> QED BY <1>1, <1>2, <1>3, <2>1
<1>8. p - 1 \in start..p-1 /\ p - 1 \in 1..Len(typed) /\ p \in 1..Len(line) /\ p # p - 1
  BY <1>2, <1>3
<1>9. ASSUME End = p PROVE Whole[p].t \in {"#", "nul"}
  <2>1. line[p-1].t # "blank"
    BY <1>3, <1>8, <1>9 DEF End
  <2>2. typed[p-1].t # "blank"
    BY <1>2, <1>5, <1>8, <2>1
  <2>3. Whole[p].t \in Stops
    BY <1>5 DEF AtStop
  <2>4. ASSUME p \in 1..Len(typed) PROVE Whole[p].t \notin Separators
    <3>1. p \in 2..Len(typed)
      BY <1>2, <1>3, <2>4
    <3>2. typed[p].t # ";" /\ typed[p].t \notin {"&&", "||"}
      BY <2>2, <2>4, <3>1 DEF Spaced, Unconditional
    <3> QED BY <1>2, <2>4, <3>2 DEF Separators
  <2>5. ASSUME p \notin 1..Len(typed) PROVE Whole[p].t = "nul"
    <3>1. p = Len(line)
      BY <1>2, <1>3, <2>5
    <3> QED BY <3>1, WholeIs
  <2> QED BY <2>3, <2>4, <2>5 DEF Stops
<1>10. ASSUME End # p PROVE End = p - 1 /\ Whole[p-1].t = "blank"
  <2>1. line[p-1].t = "blank"
    BY <1>10 DEF End
  <2> QED BY <1>3, <1>5, <1>8, <1>10, <2>1
<1> HIDE DEF End
<1>11. AtStop'
  <2>1. \A j \in p+1..Len(line) : line'[j] = Whole[j]
    <3> TAKE j \in p+1..Len(line)
    <3>1. j \in 1..Len(line) /\ j # End
      BY <1>2, <1>3
    <3> QED BY <1>5, <1>7, <3>1 DEF AtStop, Intact
  <2>2. CASE End = p
    BY <1>4, <1>5, <1>6, <1>1, <1>7, <1>9, <2>1, <2>2 DEF AtStop, Intact
  <2>3. CASE End # p
    <3>1. line'[p] = line[p]
      BY <1>7, <1>8, <2>3
    <3> QED BY <1>4, <1>5, <1>6, <1>1, <2>1, <3>1 DEF AtStop, Intact
  <2> QED BY <2>2, <2>3
<1>12. StageAt(seg)'
  BY <1>1, <1>4, <1>5, <1>6 DEF StageAt
<1>13. SegmentFrom(seg)'
  BY <1>1, <1>5, <1>6, <1>11, <1>12 DEF SegmentFrom
<1>14. (\E e \in seg..p : CutAt(e))'
  <2> PICK e : e = End
    OBVIOUS
  <2>1. \A j \in start..e-1 : j \in start..p-1 /\ j \in 1..Len(line) /\ j # e
    BY <1>2, <1>3
  <2>2. \A j \in start..e-1 : line'[j] = Whole[j]
    BY <1>5, <1>7, <2>1
  <2>3. \A j \in e..p-1 : Whole[j].t = "blank"
    <3>1. CASE e = p
      BY <1>2, <3>1
    <3>2. CASE e # p
      <4>1. \A j \in e..p-1 : j = p - 1
        BY <1>2, <1>10, <3>2
      <4> QED BY <1>10, <3>2, <4>1
    <3> QED BY <3>1, <3>2
  <2>4. CutAt(e)'
    BY <1>1, <1>3, <1>6, <1>7, <2>2, <2>3 DEF CutAt, Intact
  <2>5. e \in seg'..p'
    BY <1>1, <1>3
  <2> QED BY <2>4, <2>5
<1>15. seg' # 0
  BY <1>1, <1>2
<1> QED BY <1>1, <1>13, <1>14, <1>15 DEF Progress

\* Behind a separator the next stage begins; at the end of the line, or at a
\* comment, all that the line names has run.
LEMMA NextCounts ==
  ASSUME IInv, CmdInv, NextSegment
  PROVE  CmdInv'
<1>1. /\ pc = "next" /\ line' = line /\ typed' = typed /\ ran' = ran /\ seg' = seg
      /\ IF line[p].t = "nul" THEN pc' = "prompt" /\ start' = start /\ p' = p
         ELSE pc' = "scan" /\ start' = SkipBlank(p + 1) /\ p' = start'
  BY DEF NextSegment
<1>2. /\ Len(typed) \in Nat /\ Len(line) = Len(typed) + 1 /\ typed \in Seq(Typed)
      /\ p \in 1..Len(line) /\ seg = 0
      /\ \A j \in 1..Len(typed) : Whole[j] = typed[j] /\ typed[j].t # "nul"
      /\ Whole[Len(line)].t = "nul"
  BY <1>1, WholeIs DEF CmdInv, IInv, LineInv, StageInv
<1> SUFFICES ASSUME Unconditional(typed), Spaced(typed) PROVE Progress'
  BY <1>1 DEF CmdInv
<1>3. /\ AtStop /\ Ran = NamedTo(typed, p - 1) /\ \A j \in 1..p-1 : typed[j].t # "#"
  BY <1>1 DEF CmdInv, Progress
<1>4. Whole' = Whole /\ Ran' = Ran
  BY <1>1 DEF Whole, Ran
<1>5. p = Len(line) \/ p \in 1..Len(typed)
  BY <1>2
<1>6. CASE line[p].t = "nul"
  <2>1. p = Len(line) \/ (p \in 1..Len(typed) /\ typed[p].t = "#")
    BY <1>2, <1>3, <1>5, <1>6 DEF AtStop
  <2>2. \A j \in p..Len(typed) : NameAt(typed, j) = NONE
    <3> TAKE j \in p..Len(typed)
    <3>1. p # Len(line)
      BY <1>2
    <3>2. typed[p].t = "#" /\ (j = p \/ p \in 1..j-1)
      BY <1>2, <2>1, <3>1
    <3> QED BY <3>2 DEF NameAt, CommandAt
  <2>3. NamedTo(typed, Len(typed)) = NamedTo(typed, p - 1)
    <3>1. p - 1 \in Nat /\ p - 1 <= Len(typed) /\ (p - 1) + 1 = p /\ Len(typed) <= Len(typed)
      BY <1>2
    <3> QED BY <1>2, <2>2, <3>1, NamedSame
  <2>4. Ran' = Named(typed')
    BY <1>1, <1>2, <1>3, <1>4, <2>3, NamedEnds
  <2> QED BY <1>1, <1>2, <1>6, <2>4 DEF Progress
<1>7. CASE line[p].t # "nul"
  <2> PICK c : c = start'
    OBVIOUS
  <2>1. p \in 1..Len(typed) /\ typed[p].t \in Separators
    <3>1. Whole[p].t \in Stops /\ Whole[p].t \notin {"#", "nul"}
      BY <1>3, <1>7 DEF AtStop
    <3>2. p \in 1..Len(typed)
      BY <1>2, <1>5, <3>1
    <3> QED BY <1>2, <3>1, <3>2 DEF Stops
  <2>2. p + 1 \in p+1..Len(line) /\ \A j \in p+1..Len(line) : line[j] = Whole[j]
    BY <1>2, <1>3, <2>1 DEF AtStop, Intact
  <2>3. c = p + 1 \/ (c = p + 2 /\ p + 1 \in 1..Len(typed) /\ typed[p+1].t = "blank")
    <3>1. CASE line[p+1].t = "blank"
      <4>1. Whole[p+1].t = "blank"
        BY <2>2, <3>1
      <4>2. p + 1 # Len(line)
        BY <1>2, <4>1
      <4>3. p + 1 \in 1..Len(typed)
        BY <1>2, <2>1, <4>2
      <4>4. c = (p + 1) + 1
        BY <1>1, <1>7, <3>1 DEF SkipBlank
      <4> QED BY <1>2, <4>1, <4>3, <4>4
    <3>2. CASE line[p+1].t # "blank"
      BY <1>1, <1>7, <3>2 DEF SkipBlank
    <3> QED BY <3>1, <3>2
  <2>4. c \in 1..Len(line) /\ c \in Nat /\ c <= p + 2 /\ p + 1 <= c /\ c <= Len(typed) + 1
    BY <1>2, <2>1, <2>3
  <2>5. Ran' = NamedTo(typed, c - 1)
    <3>1. NamedTo(typed, c - 1) = NamedTo(typed, p - 1)
      BY <1>2, <2>1, <2>3, <2>4, Skipped
    <3> QED BY <1>3, <1>4, <3>1
  <2>6. ASSUME NEW j \in 1..c-1
        PROVE  /\ typed[j].t # "#"
               /\ typed[j].t = "word" =>
                    \E k \in j..c-1 : typed[k].t \in Separators \union {"|"}
    <3>4. p \in Nat /\ p + 1 <= c /\ c \in Nat /\ c <= p + 2
      BY <2>1, <2>4
    <3>1. CASE j < p
      <4>1. j \in 1..p-1 /\ p \in j..c-1
        BY <3>1, <3>4, UpTo
      <4> QED BY <1>3, <2>1, <4>1
    <3>2. CASE j = p
      <4>1. p \in j..c-1
        BY <3>2, <3>4, UpTo
      <4> QED BY <2>1, <3>2, <4>1 DEF Separators
    <3>3. CASE j = p + 1
      <4>1. c # p + 1
        BY <2>4, <3>3
      <4> QED BY <2>3, <3>3, <4>1
    <3>5. j < p \/ j = p \/ j = p + 1
      <4>1. j <= p \/ j = p + 1
        BY <3>4, BeforeNext
      <4>2. j \in Nat
        OBVIOUS
      <4> QED BY <3>4, <4>1, <4>2
    <3> QED BY <3>1, <3>2, <3>3, <3>5
  <2>7. StageAt(start)'
    BY <1>1, <2>4, <2>5, <2>6 DEF StageAt
  <2>8. Intact(start, Len(line))'
    <3>1. \A j \in c..Len(line) : j \in p+1..Len(line)
      BY <2>1, <2>4
    <3> QED BY <1>1, <1>4, <2>2, <3>1 DEF Intact
  <2> QED BY <1>1, <1>2, <1>7, <2>7, <2>8 DEF Progress
<1> QED BY <1>6, <1>7

\* A stage that is opened is the one that runs.
LEMMA OpenCounts ==
  ASSUME IInv, CmdInv, OpenStage
  PROVE  CmdInv'
<1>1. /\ pc = "segment" /\ seg # 0 /\ pc' = "run" /\ cl' = Stage /\ ran' = ran
      /\ typed' = typed /\ line' = line /\ start' = start /\ p' = p /\ seg' = seg
  BY DEF OpenStage, lineVars
<1>2. Stage' = Stage
  BY <1>1 DEF Stage, Bar, NextOf
<1>3. /\ Whole' = Whole /\ Ran' = Ran /\ (SegmentFrom(seg)' <=> SegmentFrom(seg))
      /\ \A e : CutAt(e)' <=> CutAt(e)
  BY <1>1 DEF Whole, Ran, SegmentFrom, StageAt, AtStop, Intact, CutAt
<1> SUFFICES ASSUME Unconditional(typed), Spaced(typed) PROVE Progress'
  BY <1>1 DEF CmdInv
<1>4. SegmentFrom(seg) /\ \E e \in seg..p : CutAt(e)
  BY <1>1 DEF CmdInv, Progress
<1> QED BY <1>1, <1>2, <1>3, <1>4 DEF Progress

\* Before the first line nothing is named and nothing ran.
LEMMA InitCounts == Init => CmdInv
<1> SUFFICES ASSUME Init PROVE CmdInv
  OBVIOUS
<1>1. pc = "prompt" /\ typed = <<>> /\ line = <<NUL>> /\ seg = 0 /\ ran = <<>>
  BY DEF Init
<1>2. Ran = <<>> /\ Named(typed) = <<>>
  <2>1. [i \in 1..Len(ran) |-> ran[i].cmd] = <<>>
    BY <1>1
  <2>2. [i \in 1..Len(typed) |-> NameAt(typed, i)] = <<>>
    BY <1>1
  <2> QED BY <2>1, <2>2, WordsNothing DEF Ran, Named
<1>3. typed \in Seq(Typed) /\ Len(line) = Len(typed) + 1
  <2> HIDE DEF NUL
  <2> QED BY <1>1
<1> QED BY <1>1, <1>2, <1>3 DEF CmdInv, Progress

\* Every step keeps it.
LEMMA NextCountsAll == IInv /\ IInv' /\ CmdInv /\ [Next]_vars => CmdInv'
<1> SUFFICES ASSUME IInv, IInv', CmdInv, [Next]_vars PROVE CmdInv'
  OBVIOUS
<1>1. ASSUME NEW l \in Lines, Prompt(l) PROVE CmdInv'
  BY <1>1, PromptCounts
<1>2. CASE Scan
  BY <1>2, ScanCounts
<1>3. CASE SkipSegment
  BY <1>3, SkipCounts
<1>4. CASE StartPipeline
  BY <1>4, StartCounts
<1>5. CASE NextSegment
  BY <1>5, NextCounts
<1>6. CASE EmptyStage \/ BadRedirection \/ RunCommand
  BY <1>6, StageStepCounts
<1>7. CASE OpenStage
  BY <1>7, OpenCounts
<1>8. CASE UNCHANGED vars
  <2>1. /\ typed' = typed /\ line' = line /\ start' = start /\ p' = p /\ seg' = seg
        /\ pc' = pc /\ ran' = ran /\ cl' = cl
    BY <1>8 DEF vars, lineVars
  <2>2. Whole' = Whole /\ Ran' = Ran /\ Stage' = Stage
    BY <2>1 DEF Whole, Ran, Stage, Bar, NextOf
  <2> QED BY <2>1, <2>2 DEF CmdInv, Progress, SegmentFrom, StageAt, AtStop, Intact, CutAt
<1> QED BY <1>1, <1>2, <1>3, <1>4, <1>5, <1>6, <1>7, <1>8 DEF Next, shell_exec_line

\* Every command of a line without && and ||, with a blank before each ; and
\* redirection, runs once and in order, whatever fails before it: the loop of
\* shell_exec_line loses no segment and exec_pipeline no stage.
THEOREM CommandsRun == Spec => []EveryCommandRuns
<1>1. Init => CmdInv
  BY InitCounts
<1>2. IInv /\ IInv' /\ CmdInv /\ [Next]_vars => CmdInv'
  BY NextCountsAll
<1>3. CmdInv => EveryCommandRuns
  BY DEF CmdInv, Progress, EveryCommandRuns
<1> QED BY <1>1, <1>2, <1>3, Invariant, PTL DEF Spec
=============================================================================

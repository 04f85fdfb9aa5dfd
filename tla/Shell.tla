------------------------------- MODULE Shell -------------------------------
(***************************************************************************)
(* How the shell runs a command line: shell_exec_line, exec_pipeline,      *)
(* run_segment and apply_redirs of src/shell.c, on the state they share,   *)
(* the two pipe buffers and the redirections, and on the line itself,      *)
(* which they cut up in place by writing NULs into it.                     *)
(*                                                                         *)
(* A line is a sequence of tokens [t, v]: a word (v is its text), a run of *)
(* blanks, one of ; && || | #, a redirection > >> < (v is its file), or    *)
(* the NUL.  A token stands for the characters it is made of; what a NUL   *)
(* does to the first of these, it does to the token.  Files have fixed     *)
(* names here, and the heap does not run out: see FileCmds for both.       *)
(***************************************************************************)
EXTENDS Naturals, Sequences, SequencesExt

CONSTANTS
  Chars,     \* what commands print and files hold
  Cmds,      \* words that may be commands
  Builtins,  \* those cmd_lookup knows
  Reads,     \* those that read all of their standard input and print it
  Prints,    \* what each prints, after that, as a sequence
  Status,    \* what each returns
  Files,     \* names in redirections
  Unopenable,\* those that cannot be made, or are not files
  PIPE_MAX,  \* 65536
  Message,   \* an error message of the shell
  Keys,      \* what the user types at a command that reads the keyboard
  Lines,     \* the lines the user types
  MaxLines   \* bound on how many

Separators == {";", "&&", "||"}
Kinds == Separators \union {"word", "blank", "|", "#", ">", ">>", "<"}

\* What a typed line is made of; only the shell writes a NUL into it.
Typed == [t : Kinds, v : Cmds \union Files \union {""}]

ASSUME ShellAssumption ==
  /\ Builtins \subseteq Cmds /\ Reads \subseteq Builtins
  /\ Unopenable \subseteq Files
  /\ PIPE_MAX \in Nat
  /\ Status \in [Builtins -> Nat] /\ Prints \in [Builtins -> Seq(Chars)]
  /\ Message \in Seq(Chars) /\ Keys \in Seq(Chars)
  /\ \A l \in Lines : l \in Seq(Typed) /\ l # <<>>
  /\ MaxLines \in Nat

VARIABLES
  pc,            \* "prompt", "scan", "segment", "run" or "next"
  typed, count,  \* the line as typed, and how many there were
  line, start, p, rc,       \* shell_exec_line
  seg, which,               \* exec_pipeline
  cl,                       \* run_segment: what tokenize found
  pipes, pipe_reader, pipe_writer, pipe_writing, pipe_in_off,
  out_file, in_file, in_off,
  last_exit,
  files, screen, \* the files there are, and what was shown
  ran            \* history: every segment of this line, and what it did

lineVars == <<typed, count, line, start, p, rc>>
pipeVars == <<pipes, pipe_reader, pipe_writer, pipe_writing, pipe_in_off>>
redirs   == <<out_file, in_file, in_off>>
vars == <<pc, lineVars, seg, which, cl, pipeVars, redirs, last_exit,
          files, screen, ran>>

NONE == "none"   \* no file, no command
NOPIPE == 2      \* a null pipe pointer; the pipes are 0 and 1
NUL  == [t |-> "nul", v |-> ""]

\* The first position from i on whose token is one of the kinds in T.
NextOf(i, T) == CHOOSE j \in i..Len(line) :
                  /\ line[j].t \in T
                  /\ \A k \in i..j-1 : line[k].t \notin T

SkipBlank(i) == IF line[i].t = "blank" THEN i + 1 ELSE i

-----------------------------------------------------------------------------
(* Where output goes and input comes from.                                 *)

Clip(data) == SubSeq(data, 1, IF Len(data) < PIPE_MAX THEN Len(data) ELSE PIPE_MAX)

\* A mistaken Output, which nothing uses: what goes into a pipe is shown too.
Output_tee(data, out, writing, writer, fs, ps) ==
  [files  |-> IF out = NONE THEN fs ELSE [fs EXCEPT ![out] = @ \o data],
   pipes  |-> IF out = NONE /\ writing
              THEN [ps EXCEPT ![writer] = Clip(@ \o data)] ELSE ps,
   screen |-> IF out = NONE THEN screen \o data ELSE screen]

\* out_raw for everything a command prints, with the files fs and pipes ps:
\* to the file "out", else to the pipe being written, else to the screen.
Output(data, out, writing, writer, fs, ps) ==
  [files  |-> IF out = NONE THEN fs ELSE [fs EXCEPT ![out] = @ \o data],
   pipes  |-> IF out = NONE /\ writing
              THEN [ps EXCEPT ![writer] = Clip(@ \o data)] ELSE ps,
   screen |-> IF out = NONE /\ ~writing THEN screen \o data ELSE screen]

\* What sh_getc has to give before it says -1.
Source == IF in_file # NONE THEN "file"
          ELSE IF pipe_reader # NOPIPE THEN "pipe" ELSE "keyboard"
Input  == CASE Source = "file" -> SubSeq(files[in_file], in_off + 1, Len(files[in_file]))
            [] Source = "pipe" -> SubSeq(pipes[pipe_reader], pipe_in_off + 1,
                                         Len(pipes[pipe_reader]))
            [] Source = "keyboard" -> Keys

-----------------------------------------------------------------------------
(* tokenize, on the tokens of a segment: its first word, and the last      *)
(* redirection of each direction.                                          *)

IsRedir(tok) == tok.t \in {">", ">>", "<"}

\* The character that ends a word or a file name is swallowed.  When that is
\* the first of a redirection, > and < vanish, which leaves the file name as
\* a word, and >> becomes >.
Swallow(s) ==
  [i \in 1..Len(s) |->
     IF IsRedir(s[i]) /\ i > 1 /\ s[i-1].t # "blank"
     THEN [s[i] EXCEPT !.t = IF @ = ">>" THEN ">" ELSE "word"]
     ELSE s[i]]

tokenize(s) ==
  LET tokens == Swallow(s)
      at(T) == {i \in 1..Len(tokens) : tokens[i].t \in T}
      last(T) == IF at(T) = {} THEN NUL ELSE tokens[Max(at(T))]
  IN  [cmd |-> IF at({"word"}) = {} THEN NONE ELSE tokens[Min(at({"word"}))].v,
       out |-> last({">", ">>"}),
       inp |-> last({"<"})]

-----------------------------------------------------------------------------
(* shell_exec_line.                                                        *)

\* shell_run reads a line that is not empty and has it executed; one that is
\* blank or a comment leaves everything as it is.
Prompt(l) ==
  /\ pc = "prompt" /\ count < MaxLines
  /\ count' = count + 1
  /\ typed' = l
  /\ line' = Append(l, NUL)
  /\ start' = IF l[1].t = "blank" THEN 2 ELSE 1
  /\ p' = start'
  /\ rc' = 0
  /\ ran' = <<>>
  /\ screen' = <<>>
  /\ pc' = IF line'[start'].t \in {"nul", "#"} THEN "prompt" ELSE "scan"
  /\ UNCHANGED <<seg, which, cl, pipeVars, redirs, last_exit, files>>

\* On to the next separator or the end; a # ends the line where it stands.
Scan ==
  /\ pc = "scan"
  /\ p' = NextOf(p, Separators \union {"#", "nul"})
  /\ line' = IF line[p'].t = "#" THEN [line EXCEPT ![p'] = NUL] ELSE line
  /\ pc' = "segment"
  /\ UNCHANGED <<typed, count, start, rc, seg, which, cl, pipeVars, redirs,
                 last_exit, files, screen, ran>>

\* A mistaken End, which nothing uses: the blank is not trimmed.
End_untrimmed == p

\* The segment before p ends before this position, its trailing blank trimmed.
End == IF p > start /\ line[p-1].t = "blank" THEN p - 1 ELSE p

\* The separator AFTER a segment decides, with the status of what ran before,
\* whether the segment runs.
Runs == CASE line[p].t = "&&" -> rc = 0
          [] line[p].t = "||" -> rc # 0
          [] OTHER            -> TRUE

\* A mistaken SkipSegment, which nothing uses: what is skipped succeeds.
SkipSegment_succeeds ==
  /\ pc = "segment" /\ seg = 0
  /\ End = start \/ ~Runs
  /\ last_exit' = IF End = start THEN last_exit ELSE 0
  /\ pc' = "next"
  /\ UNCHANGED <<lineVars, seg, which, cl, pipeVars, redirs, files, screen, ran>>

SkipSegment ==
  /\ pc = "segment" /\ seg = 0
  /\ End = start \/ ~Runs
  /\ last_exit' = IF End = start THEN last_exit ELSE rc % 256
  /\ pc' = "next"
  /\ UNCHANGED <<lineVars, seg, which, cl, pipeVars, redirs, files, screen, ran>>

\* exec_pipeline ends the segment with a NUL, which falls on the separator
\* itself if no blank stands before it, and starts with both pipes empty.
StartPipeline ==
  /\ pc = "segment" /\ seg = 0
  /\ End > start /\ Runs
  /\ line' = [line EXCEPT ![End] = NUL]
  /\ seg' = start
  /\ which' = 0
  /\ pipes' = [w \in 0..1 |-> <<>>]
  /\ pipe_reader' = NOPIPE /\ pipe_writer' = NOPIPE
  /\ pipe_writing' = FALSE /\ pipe_in_off' = 0
  /\ UNCHANGED <<pc, typed, count, start, p, rc, cl, redirs, last_exit,
                 files, screen, ran>>

\* A mistaken NextSegment, which nothing uses: it stays at the separator.
NextSegment_stays ==
  /\ pc = "next"
  /\ IF line[p].t = "nul"
     THEN pc' = "prompt" /\ UNCHANGED start
     ELSE pc' = "scan" /\ start' = p
  /\ UNCHANGED <<typed, count, line, p, rc, seg, which, cl, pipeVars, redirs,
                 last_exit, files, screen, ran>>

\* After a pipeline or a skipped segment, unless the line has ended, on to
\* what follows the separator.
NextSegment ==
  /\ pc = "next"
  /\ IF line[p].t = "nul"
     THEN /\ pc' = "prompt"
          /\ UNCHANGED <<start, p>>
     ELSE /\ pc' = "scan"
          /\ start' = SkipBlank(p + 1)
          /\ p' = start'
  /\ UNCHANGED <<typed, count, line, rc, seg, which, cl, pipeVars, redirs,
                 last_exit, files, screen, ran>>

-----------------------------------------------------------------------------
(* exec_pipeline and run_segment, one stage of a pipeline.                 *)

Bar    == NextOf(seg, {"|", "nul"})
IsLast == line[Bar].t = "nul"
Stage  == tokenize(SubSeq(line, seg, Bar - 1))

\* Mistaken forms of the next two, which nothing uses: the input stays; the
\* pipes do not alternate.
restore_redirs_out == out_file' = NONE /\ UNCHANGED in_file
Other_same == which

restore_redirs == out_file' = NONE /\ in_file' = NONE
Other == 1 - which

\* A stage that has printed what "out" says, and read its pipe up to "off",
\* is over with status s.  The pipe it wrote is the next one's to read, and the other one is emptied and
\* written next; or the pipeline is over, and its status is the last one's.
Finish(s, out, off) ==
  /\ rc' = s
  /\ files' = out.files
  /\ screen' = out.screen
  /\ restore_redirs
  /\ pipe_writing' = FALSE
  /\ IF IsLast
     THEN /\ pc' = "next" /\ seg' = 0
          /\ last_exit' = s % 256
          /\ pipe_reader' = NOPIPE /\ pipe_writer' = NOPIPE
          /\ pipe_in_off' = off
          /\ pipes' = out.pipes
          /\ UNCHANGED <<line, which>>
     ELSE /\ pc' = "segment" /\ seg' = SkipBlank(Bar + 1)
          /\ line' = [line EXCEPT ![Bar] = NUL]
          /\ pipe_reader' = which /\ pipe_writer' = which
          /\ pipe_in_off' = 0
          /\ which' = Other
          /\ pipes' = [out.pipes EXCEPT ![Other] = <<>>]
          /\ UNCHANGED last_exit
  /\ UNCHANGED <<typed, count, start, p>>

Record(cmd, status, from, input, to, output) ==
  ran' = Append(ran, [cmd |-> cmd, status |-> status, first |-> pipe_reader = NOPIPE,
                      from |-> from, input |-> input, to |-> to, output |-> output])

Goes(out) == IF out # NONE THEN "file" ELSE IF IsLast THEN "screen" ELSE "pipe"

\* run_segment returns at once, with 0, when there is no word.
EmptyStage ==
  /\ pc = "segment" /\ seg # 0
  /\ Stage.cmd = NONE
  /\ cl' = Stage
  /\ Finish(0, [files |-> files, pipes |-> pipes, screen |-> screen], pipe_in_off)
  /\ Record(NONE, 0, NONE, <<>>, Goes(NONE), <<>>)
  /\ UNCHANGED in_off

\* apply_redirs.  The output is made if it is not there, and emptied unless
\* it is appended to; the input is looked up after that.
Openable(out) == out.t = "nul" \/ out.v \notin Unopenable
\* A mistaken Opened, which nothing uses: the file is not made.
Opened_missing(out) == files

Opened(out) ==
  IF out.t = "nul" \/ ~Openable(out) THEN files
  ELSE [f \in DOMAIN files \union {out.v} |->
          IF f \in DOMAIN files /\ (f = out.v => out.t = ">>") THEN files[f] ELSE <<>>]
OutFile(out) == IF out.t = "nul" \/ ~Openable(out) THEN NONE ELSE out.v
CanOpen(c) ==
  /\ Openable(c.out)
  /\ c.inp.t = "nul" \/ c.inp.v \in DOMAIN Opened(c.out) \ Unopenable

\* The pipe a stage writes is emptied first.
Emptied == IF IsLast THEN pipes ELSE [pipes EXCEPT ![which] = <<>>]

\* The message goes where the output goes so far: to the output file if it
\* was the input that could not be opened, to the next stage in a pipeline.
BadRedirection ==
  /\ pc = "segment" /\ seg # 0
  /\ Stage.cmd # NONE /\ ~CanOpen(Stage)
  /\ cl' = Stage
  /\ LET to == OutFile(Stage.out)
     IN  /\ Finish(1, Output(Message, to, ~IsLast, which, Opened(Stage.out), Emptied),
                   pipe_in_off)
         /\ Record(Stage.cmd, 1, NONE, <<>>, Goes(to), Message)
  /\ in_off' = 0

OpenStage ==
  /\ pc = "segment" /\ seg # 0
  /\ Stage.cmd # NONE /\ CanOpen(Stage)
  /\ cl' = Stage
  /\ out_file' = OutFile(Stage.out)
  /\ in_file' = IF Stage.inp.t = "nul" THEN NONE ELSE Stage.inp.v
  /\ in_off' = 0
  /\ files' = Opened(Stage.out)
  /\ pipes' = Emptied
  /\ pipe_writer' = IF IsLast THEN NOPIPE ELSE which
  /\ pipe_writing' = ~IsLast
  /\ pc' = "run"
  /\ UNCHANGED <<lineVars, seg, which, pipe_reader, pipe_in_off, last_exit,
                 screen, ran>>

\* shell_run_builtin, and run_segment's end.  in_off and pipe_in_off move as
\* sh_getc hands out what there is.
RunCommand ==
  LET reads == cl.cmd \in Reads
      input == IF reads THEN Input ELSE <<>>
      data  == IF cl.cmd \in Builtins THEN input \o Prints[cl.cmd] ELSE Message
      s     == IF cl.cmd \in Builtins THEN Status[cl.cmd] ELSE 127
  IN  /\ pc = "run"
      /\ Finish(s, Output(data, out_file, pipe_writing, pipe_writer, files, pipes),
                IF Source = "pipe" THEN pipe_in_off + Len(input) ELSE pipe_in_off)
      /\ in_off' = IF Source = "file" THEN in_off + Len(input) ELSE in_off
      /\ Record(cl.cmd, s, IF reads THEN Source ELSE NONE, input, Goes(out_file), data)
      /\ UNCHANGED cl

-----------------------------------------------------------------------------
Init ==
  /\ pc = "prompt" /\ typed = <<>> /\ count = 0
  /\ line = <<NUL>> /\ start = 1 /\ p = 1 /\ rc = 0
  /\ seg = 0 /\ which = 0
  /\ cl = [cmd |-> NONE, out |-> NUL, inp |-> NUL]
  /\ pipes = [w \in 0..1 |-> <<>>]
  /\ pipe_reader = NOPIPE /\ pipe_writer = NOPIPE
  /\ pipe_writing = FALSE /\ pipe_in_off = 0
  /\ out_file = NONE /\ in_file = NONE /\ in_off = 0
  /\ last_exit = 0
  /\ files = <<>> /\ screen = <<>> /\ ran = <<>>

shell_exec_line ==
  \/ Scan \/ SkipSegment \/ StartPipeline \/ NextSegment
  \/ EmptyStage \/ BadRedirection \/ OpenStage \/ RunCommand

Next == shell_exec_line \/ \E l \in Lines : Prompt(l)

\* Once it has a line, the one kernel thread goes on with it.
Spec == Init /\ [][Next]_vars /\ WF_vars(shell_exec_line)

-----------------------------------------------------------------------------
(* Properties.                                                             *)

TypeOK ==
  /\ pc \in {"prompt", "scan", "segment", "run", "next"}
  /\ count \in 0..MaxLines
  /\ start \in 1..Len(line) /\ p \in start..Len(line)
  /\ seg \in 0..Len(line) /\ which \in 0..1
  /\ pipe_reader \in 0..2 /\ pipe_writer \in 0..2 /\ pipe_writing \in BOOLEAN
  /\ out_file \in DOMAIN files \union {NONE}
  /\ in_file \in DOMAIN files \union {NONE}
  /\ last_exit \in 0..255

\* However a line ends (a redirection that fails, an empty stage, a skipped
\* segment), the prompt is printed to the screen and the next line is read
\* from the keyboard: no redirection and no pipe is left behind.
PromptOnConsole ==
  pc = "prompt" =>
    /\ out_file = NONE /\ in_file = NONE
    /\ ~pipe_writing /\ pipe_writer = NOPIPE /\ pipe_reader = NOPIPE

\* A stage that reads its pipe reads what the stage right before it wrote
\* there, from the start and up to PIPE_MAX, and nothing of an older stage or
\* pipeline; the first stage of a pipeline never reads a pipe.
PipeFlow ==
  \A i \in 1..Len(ran) :
    ran[i].from = "pipe" =>
      /\ ~ran[i].first
      /\ ran[i].input = IF ran[i-1].to = "pipe" THEN Clip(ran[i-1].output) ELSE <<>>

\* The screen shows, in order, what the stages printed that neither went to
\* a file nor into a pipe.
ScreenShows ==
  LET shown[i \in 0..Len(ran)] ==
        IF i = 0 THEN <<>>
        ELSE shown[i-1] \o (IF ran[i].to = "screen" THEN ran[i].output ELSE <<>>)
  IN  screen = shown[Len(ran)]

\* $? is the status of the last stage that ran, as one byte.
ExitIsLast ==
  pc = "prompt" /\ ran # <<>> => last_exit = Last(ran).status % 256

\* The words of a sequence, those other than NONE, in order.
Words(s) ==
  LET words[i \in 0..Len(s)] ==
        IF i = 0 THEN <<>>
        ELSE IF s[i] = NONE THEN words[i-1] ELSE Append(words[i-1], s[i])
  IN  words[Len(s)]

\* The commands a line names: in every segment before a # its first word.
CommandAt(l, i) ==
  /\ l[i].t = "word"
  /\ \A j \in 1..i-1 : /\ l[j].t # "#"
                       /\ l[j].t = "word" => \E k \in j..i-1 : l[k].t \in Separators \union {"|"}
NameAt(l, i) == IF CommandAt(l, i) THEN l[i].v ELSE NONE
Named(l) == Words([i \in 1..Len(l) |-> NameAt(l, i)])
Ran == Words([i \in 1..Len(ran) |-> ran[i].cmd])

Unconditional(l) == \A i \in 1..Len(l) : l[i].t \notin {"&&", "||"}
Spaced(l) ==
  \A i \in 2..Len(l) : l[i].t = ";" \/ IsRedir(l[i]) => l[i-1].t = "blank"

\* With a blank before each ; and each redirection, every command of a line
\* without && and || has its turn, once and in order, whatever fails before it:
\* it runs, or its redirection fails.
EveryCommandRuns ==
  pc = "prompt" /\ Unconditional(typed) /\ Spaced(typed) => Ran = Named(typed)

\* ";  command separator" (README.md): what follows it runs too.
SemicolonSeparates ==
  pc = "prompt" /\ Unconditional(typed) /\ (\A i \in 1..Len(typed) : ~IsRedir(typed[i]))
    => Ran = Named(typed)

\* "&&  ||  conditional execution" (README.md): the second of two commands
\* runs if the first succeeded, or if it failed.
ConditionalExecution ==
  pc = "prompt" /\ Len(typed) = 5 /\ Len(Named(typed)) = 2
    /\ typed[3].t \in {"&&", "||"} /\ typed[2].t = "blank" /\ ran # <<>> =>
      (Len(Ran) = 2 <=> (typed[3].t = "&&" <=> ran[1].status = 0))

\* Every line comes to an end and the shell back to its prompt.
LineEnds == pc # "prompt" ~> pc = "prompt"
=============================================================================

----------------------------- MODULE MCTextCmds -----------------------------
(* Texts of up to three lines out of six, some alike as numbers and not as   *)
(* text, and of four, with and without a newline at the end; with one, what  *)
(* they are compared with.                                                   *)
EXTENDS TextCmds

Text(lines, ended) ==
  LET all == FlattenSeq([i \in DOMAIN lines |-> Append(lines[i], NL)])
  IN  IF ended \/ all = <<>> THEN all ELSE Front(all)

\* "", "a", "1", "01", "-1" and " 10".
Words == { <<>>, <<97>>, <<49>>, <<48, 49>>, <<45, 49>>, <<32, 49, 48>> }
Few   == { <<>>, <<49>>, <<48, 49>> }

MCTexts  == { Text(ls, e) : ls \in BoundedSeq(Words, 3) \union [1..4 -> Few], e \in BOOLEAN }
MCOthers == { Text(ls, TRUE) : ls \in BoundedSeq(Few, 3) }
MCCounts == -1..3
=============================================================================

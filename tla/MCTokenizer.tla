---------------------------- MODULE MCTokenizer ----------------------------
(* Every segment of up to five characters.                                   *)
EXTENDS Tokenizer

Letters == {"a", BLANK, "'", DQ, "$", "?", ">", "<", "~", "/"}
MCSegments == UNION { [1..n -> Letters] : n \in 1..5 }
=============================================================================

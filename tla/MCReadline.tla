----------------------------- MODULE MCReadline -----------------------------
(* A screen of two rows of three cells, lines of up to two characters.       *)
(* The prompt takes one cell; a command prints nothing, two rows, or a tab   *)
(* and a character, after which the prompt does not start a row.             *)
EXTENDS Readline

MCPrompt == <<"#">>
MCOutputs == { <<>>, <<"o", "\n", "o", "\n">>, <<"\t", "o">>, <<"o", "o">> }
=============================================================================

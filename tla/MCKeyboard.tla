----------------------------- MODULE MCKeyboard -----------------------------
(* Both shift keys, Ctrl, the letter d and the up arrow. *)
EXTENDS Keyboard

MCkeymap       == [k \in 0..127 |-> IF k = D THEN 100 ELSE 0]
MCkeymap_shift == [k \in 0..127 |-> IF k = D THEN 68 ELSE 0]
=============================================================================

------------------------------ MODULE MCTuring ------------------------------
(***************************************************************************)
(* Turing with a 3-byte keystream buffer: calls of 0..4 bytes reach every *)
(* case of cipher()'s loop (inside one buffer, ending exactly at its end,  *)
(* crossing one or two regenerations) from every position.                *)
(***************************************************************************)
EXTENDS Turing

=============================================================================

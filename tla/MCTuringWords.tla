---------------------------- MODULE MCTuringWords ----------------------------
(***************************************************************************)
(* TuringWords over 16-bit words (bytes of 4 bits).  SBOX is a byte        *)
(* permutation, as Turing's is; Q_BOX and MULT_TAB are fixed arbitrary     *)
(* words, MULT_TAB[0] = 0 as in the code.  Keys: one of every length       *)
(* Turing accepts (4 .. 32 bytes, a multiple of 4) and four more short     *)
(* ones; IVs: the valid lengths 0, 4, 8, 16 and the refused 6, 20, 36.     *)
(***************************************************************************)
EXTENDS TuringWords

MCSBOX    == [j \in 0 .. 15 |-> (j * 7 + 3) % 16]
MCQ_BOX   == [j \in 0 .. 15 |-> (j * 40503 + 11) % 65536]
MCMULT_TAB == [j \in 0 .. 15 |-> (j * 53761) % 65536]

KeyOf(n, c) == [i \in 1 .. 4 * n |-> (i * 5 + c) % 16]
MCKeys == {KeyOf(n, 0) : n \in 1 .. 8} \cup {KeyOf(1, 1), KeyOf(1, 9), KeyOf(2, 3), KeyOf(4, 7)}

IVOf(n) == [i \in 1 .. n |-> (i * 3 + 1) % 16]
MCIVs == {IVOf(n) : n \in {0, 4, 8, 16, 6, 20, 36}}

=============================================================================

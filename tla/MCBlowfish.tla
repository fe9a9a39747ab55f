---------------------------- MODULE MCBlowfish ----------------------------
(* Blowfish over 2-bit bytes (8-bit words, 4-entry S-boxes).              *)
EXTENDS Blowfish

(* Fixed initial tables standing for PBOX and SBOX1..SBOX4. *)
MCPBOX == [j \in 0 .. 17 |-> (j * 167 + 36) % 256]
MCSBOX == [b \in 1 .. 4 |-> [e \in 0 .. 3 |-> (b * 89 + e * 53 + 17) % 256]]

(* Every key of one, two and three bytes, and four-byte keys over three   *)
(* byte values: the key bytes are read cyclically, four to a word, and a *)
(* 3-byte key starts each word at another key byte while 1, 2 and 4 do   *)
(* not.                                                                    *)
MCKeys == UNION {[1 .. n -> 0 .. 3] : n \in 1 .. 3} \cup [1 .. 4 -> {0, 1, 3}]

(* Blocks of two alternating bytes, and blocks counting up from a byte.   *)
MCBlocks == {[i \in 1 .. 8 |-> IF i % 2 = 1 THEN x ELSE y] : x, y \in 0 .. 3}
            \cup {[i \in 1 .. 8 |-> (x + i) % 4] : x \in 0 .. 3}
============================================================================

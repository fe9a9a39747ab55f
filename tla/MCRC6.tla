------------------------------- MODULE MCRC6 -------------------------------
(* RC6 over 2-bit bytes (8-bit words).                                    *)
EXTENDS RC6

(* The low bytes of 0xB7E15163 and 0x9E3779B9. *)
MCPw == 99
MCQw == 185

(* Every key of one byte; keys of two, four and five bytes, so that the   *)
(* last word is short, exactly full, or a second word of one byte; and     *)
(* keys of 29 and 32 bytes, whose words fill all 8 words of K.             *)
MCKeys == [1 .. 1 -> 0 .. 3] \cup [1 .. 2 -> 0 .. 3]
          \cup [1 .. 4 -> {0, 2, 3}] \cup {<<a, 1, 2, 3, b>> : a, b \in 0 .. 3}
          \cup {[i \in 1 .. n |-> (i * c) % 4] : n \in {29, 32}, c \in {1, 3}}

(* Blocks of one repeated byte, of two alternating bytes, and counting up. *)
MCBlocks == {[i \in 1 .. 16 |-> IF i % 2 = 1 THEN x ELSE y] : x, y \in 0 .. 3}
            \cup {[i \in 1 .. 16 |-> (x + i) % 4] : x \in 0 .. 3}
============================================================================

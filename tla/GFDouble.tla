------------------------------ MODULE GFDouble ------------------------------
(***************************************************************************)
(* CMAC's subkey doubling, poly_double() in src/Botan-1.6.1/src/cmac.cpp,  *)
(* next to the reference it must agree with: multiplication by x in        *)
(* GF(2^(8*OUTPUT_LENGTH)) reduced by the polynomial whose low byte is     *)
(* Polynomial (0x87 for 16-byte blocks, 0x1B for 8-byte blocks).           *)
(***************************************************************************)
EXTENDS Naturals, Bitwise

CONSTANTS
  OUTPUT_LENGTH,  \* block size in bytes
  Polynomial      \* low byte of the reduction polynomial

Byte  == 0 .. 255
Block == [1 .. OUTPUT_LENGTH -> Byte]

(* A block read as a big-endian number, and back. *)
BlockToNat(b) ==
  LET RECURSIVE Val(_)
      Val(i) == IF i = 0 THEN 0 ELSE Val(i - 1) * 256 + b[i]
  IN Val(OUTPUT_LENGTH)
NatToBlock(n) ==
  [j \in 1 .. OUTPUT_LENGTH |-> (n \div 256 ^ (OUTPUT_LENGTH - j)) % 256]

(* Reference: x * v mod the polynomial, on the block read as a number.     *)
Double(b) ==
  LET v    == BlockToNat(b)
      top  == 2 ^ (8 * OUTPUT_LENGTH - 1)
      shl  == (2 * v) % (2 * top)
  IN NatToBlock(IF v >= top THEN shl ^^ Polynomial ELSE shl)

(* poly_double with the reduction tested on the last byte's top bit.       *)
PolyDoubleLowBit(in) ==
  LET carry(j) == IF j < OUTPUT_LENGTH THEN in[j + 1] \div 128 ELSE 0
      out      == [j \in 1 .. OUTPUT_LENGTH |-> ((2 * in[j]) % 256) + carry(j)]
  IN IF in[OUTPUT_LENGTH] >= 128
       THEN [out EXCEPT ![OUTPUT_LENGTH] = @ ^^ Polynomial]
       ELSE out

(* poly_double: do_xor is the top bit of the first byte; the loop runs    *)
(* from the last byte down, each byte shifted left with the carry of the  *)
(* byte after it; then the polynomial is XORed into the last byte.         *)
PolyDouble(in) ==
  LET carry(j) == IF j < OUTPUT_LENGTH THEN in[j + 1] \div 128 ELSE 0
      out      == [j \in 1 .. OUTPUT_LENGTH |-> ((2 * in[j]) % 256) + carry(j)]
  IN IF in[1] >= 128
       THEN [out EXCEPT ![OUTPUT_LENGTH] = @ ^^ Polynomial]
       ELSE out

=============================================================================

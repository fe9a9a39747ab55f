------------------------------- MODULE SHA160 -------------------------------
(***************************************************************************)
(* The C++ part of SHA_160 in src/Botan-1.6.3/modules/alg_ia32/sha160.cpp: *)
(* the five digest words, clear() and copy_out().  A 32-bit word is the   *)
(* sequence of its four bytes, most significant first, so get_byte(n, w)  *)
(* of bit_ops.h is w[n + 1].  A byte of known value v is <<v>>, so that   *)
(* it compares with the symbolic bytes below.                              *)
(*                                                                         *)
(* The compression function sha160_core is IA-32 assembly that is not     *)
(* translated: compressing the bytes s into the digest d gives the         *)
(* symbolic bytes <<d, s, word, byte>>, equal exactly when d and s are.    *)
(* MDx_HashFunction::final (not in the repository) pads the message,       *)
(* compresses it, copy_out()s the digest and clear()s the object; here the *)
(* message fed since the last clear() is compressed as one unit.           *)
(***************************************************************************)
EXTENDS Naturals, Sequences

(* MDx_HashFunction(20, 64, ...): OUTPUT_LENGTH. *)
OUTPUT_LENGTH == 20

(* The five words clear() stores: 67452301 EFCDAB89 98BADCFE 10325476     *)
(* C3D2E1F0, as bytes.                                                     *)
IV == LET Word(b1, b2, b3, b4) == << <<b1>>, <<b2>>, <<b3>>, <<b4>> >>
      IN << Word(\h67, \h45, \h23, \h01), Word(\hEF, \hCD, \hAB, \h89),
            Word(\h98, \hBA, \hDC, \hFE), Word(\h10, \h32, \h54, \h76),
            Word(\hC3, \hD2, \hE1, \hF0) >>

(* get_byte(n, w): byte n of w counting from the most significant. *)
GetByte(n, w) == w[n + 1]

(* hash(input): sha160_core(digest, input, W). *)
Compress(d, s) == [w \in 1 .. 5 |-> [n \in 1 .. 4 |-> <<d, s, w, n>>]]

(* copy_out() taking the bytes of each word least significant first. *)
CopyOutLittleEndian(d) ==
  [j \in 1 .. OUTPUT_LENGTH |-> GetByte(3 - ((j - 1) % 4), d[(j - 1) \div 4 + 1])]

(* copy_out(): output[j] = get_byte(j % 4, digest[j/4]) for j < 20. *)
CopyOut(d) ==
  [j \in 1 .. OUTPUT_LENGTH |-> GetByte((j - 1) % 4, d[(j - 1) \div 4 + 1])]

(* clear(): the digest words set back to their initial values (the        *)
(* buffer, length count and W, also cleared, are not modelled).           *)
ClearDigest(d) == [w \in 1 .. 5 |-> IV[w]]

=============================================================================

------------------------------- MODULE MACSpec -------------------------------
(***************************************************************************)
(* What a message authentication code object promises its caller, stated *)
(* for CMAC over a block cipher: the caller loads a key, feeds the message *)
(* in chunks of any size, and final_result returns CMAC_k(message), the    *)
(* whole-message definition (RFC 4493 / NIST SP 800-38B) that section 4.4  *)
(* of the specification describes; the object is then ready for a fresh   *)
(* message under the same key.  Nothing is promised for a MAC computed     *)
(* before any key was loaded, or after clear().                            *)
(***************************************************************************)
EXTENDS Sequences, GFDouble

CONSTANTS
  Keys,           \* keys a caller may load
  Encrypt(_, _),  \* the block cipher under a key: a permutation of blocks
  MsgBytes,       \* byte values a caller feeds
  MaxChunk,       \* longest chunk fed in one call
  NoKey,          \* no key loaded
  NoMac           \* no MAC produced yet

VARIABLES key, msg, mac

Zeros == [j \in 1 .. OUTPUT_LENGTH |-> 0]

XorBlocks(a, b) == [j \in 1 .. OUTPUT_LENGTH |-> a[j] ^^ b[j]]

(* CBC chaining of the complete blocks of m into the running value st. *)
RECURSIVE CBC(_, _, _)
CBC(k, st, m) ==
  IF m = <<>> THEN st
  ELSE CBC(k, Encrypt(k, XorBlocks(st, SubSeq(m, 1, OUTPUT_LENGTH))),
           SubSeq(m, OUTPUT_LENGTH + 1, Len(m)))

(* CMAC_k(m): the last block is complete (and m non-empty), XORed with  *)
(* K1; or it is padded with 0x80 then zeros and XORed with K2.           *)
CMACRef(k, m) ==
  LET K1       == Double(Encrypt(k, Zeros))
      K2       == Double(K1)
      complete == Len(m) > 0 /\ Len(m) % OUTPUT_LENGTH = 0
      headLen  == IF complete THEN Len(m) - OUTPUT_LENGTH
                  ELSE Len(m) - (Len(m) % OUTPUT_LENGTH)
      tail     == SubSeq(m, headLen + 1, Len(m))
      padded   == [j \in 1 .. OUTPUT_LENGTH |->
                     IF j <= Len(tail) THEN tail[j]
                     ELSE IF j = Len(tail) + 1 THEN 128 ELSE 0]
      lastBlk  == IF complete THEN XorBlocks(tail, K1) ELSE XorBlocks(padded, K2)
  IN Encrypt(k, XorBlocks(CBC(k, Zeros, SubSeq(m, 1, headLen)), lastBlk))

Init ==
  /\ key = NoKey
  /\ msg = <<>>
  /\ mac = NoMac

SetKey ==
  /\ key' \in Keys
  /\ msg' = <<>>
  /\ UNCHANGED mac

Update ==
  /\ \E n \in 0 .. MaxChunk : \E bytes \in [1 .. n -> MsgBytes] : msg' = msg \o bytes
  /\ UNCHANGED <<key, mac>>

Final ==
  /\ IF key = NoKey THEN mac' \in Block ELSE mac' = CMACRef(key, msg)
  /\ msg' = <<>>
  /\ UNCHANGED key

Clear ==
  /\ key' = NoKey
  /\ msg' = <<>>
  /\ UNCHANGED mac

Next == SetKey \/ Update \/ Final \/ Clear

Spec == Init /\ [][Next]_<<key, msg, mac>>

=============================================================================

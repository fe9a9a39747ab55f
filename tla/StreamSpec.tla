----------------------------- MODULE StreamSpec -----------------------------
(***************************************************************************)
(* What a stream cipher object promises (section 4.3 of the specification):*)
(* after key() or resync(iv) the keystream starts over from its first     *)
(* byte, and cipher() XORs the next bytes of that keystream into its      *)
(* input, so that however the data is cut into calls the bytes used are   *)
(* consecutive: none skipped, none used twice.  Keystream byte n of a key *)
(* and IV is the value <<key, iv, n>>; the XOR with the caller's data is   *)
(* left out, since it is the same for every chunking.  A resync() with an *)
(* IV length that is not a multiple of 4 or exceeds 16 bytes is refused   *)
(* and changes nothing.  Nothing is promised of an unkeyed object.        *)
(***************************************************************************)
EXTENDS Integers, Sequences

CONSTANTS
  Keys,          \* keys a caller may load
  IVLens,        \* IV lengths a caller may pass to resync(), in bytes
  MaxCipherLen,  \* longest input of one cipher() call
  NoKey          \* no key loaded

VARIABLES key, iv, offset, out

(* key() resynchronises with the empty IV. *)
EmptyIV == 0

ValidIV(len) == len % 4 = 0 /\ len <= 16

Init ==
  /\ key = NoKey
  /\ out = <<>>

SetKey ==
  /\ key' \in Keys
  /\ iv' = EmptyIV
  /\ offset' = 0
  /\ UNCHANGED out

Resync ==
  /\ \E len \in IVLens : ValidIV(len) /\ iv' = len
  /\ offset' = 0
  /\ UNCHANGED <<key, out>>

Cipher ==
  /\ \E n \in 0 .. MaxCipherLen :
       IF key = NoKey
         THEN offset' \in Int
         ELSE /\ out' = [i \in 1 .. n |-> <<key, iv, offset + i - 1>>]
              /\ offset' = offset + n
  /\ UNCHANGED <<key, iv>>

Clear ==
  /\ key' = NoKey
  /\ offset' \in Int
  /\ UNCHANGED <<iv, out>>

Next == SetKey \/ Resync \/ Cipher \/ Clear

Spec == Init /\ [][Next]_<<key, iv, offset, out>>

=============================================================================

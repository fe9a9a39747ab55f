------------------------------- MODULE Turing -------------------------------
(***************************************************************************)
(* The Turing stream cipher object of src/Botan-1.6.1/src/turing.cpp: key *)
(* words K, the four key-dependent S-boxes S0..S3, the 17-word register R,*)
(* a keystream buffer of buffer.size() bytes and the cursor position.     *)
(*                                                                         *)
(* Data is abstracted to where it comes from.  sbox names the key the      *)
(* S-boxes were derived from (Zero when cleared); R is the seed it was     *)
(* loaded from by resync() -- the key words, the S-boxes and the IV -- and *)
(* the number g of generate() passes since; a buffer is the register and  *)
(* S-boxes that generate() filled it from, and a keystream byte is a       *)
(* buffer and an index into it.  The arithmetic of the rounds (mul, the   *)
(* S-box layer, PHT) is left out: what is checked is which register,      *)
(* which S-boxes and which byte each output byte comes from.  The buffer   *)
(* length is the constant BufSize (340 in the code).                       *)
(***************************************************************************)
EXTENDS Integers, Sequences

CONSTANTS
  Keys,          \* keys a caller may pass to key()
  IVLens,        \* IV lengths passed to resync(), valid and invalid
  BufSize,       \* buffer.size()
  MaxCipherLen,  \* longest input of one cipher() call
  MaxGen,        \* bound on generate() passes since a resync (model bound)
  NoKey,         \* K of an object never keyed (empty)
  Zero           \* S-boxes of an unkeyed or cleared object (all zero)

ASSUME BufSize \in Nat \ {0} /\ MaxCipherLen \in Nat /\ MaxGen \in Nat

VARIABLES
  K,         \* key words
  sbox,      \* S0..S3
  R,         \* the register
  buffer,    \* the keystream buffer
  position,  \* bytes of buffer already used
  out        \* keystream bytes XORed into the data by the last cipher()

vars == <<K, sbox, R, buffer, position, out>>

EmptyIV == 0

(* The register of a new object: all seventeen words zero, loaded by no   *)
(* resync (NoIV).  generate() leaves it zero (mul(0) = 0) and fills the   *)
(* buffer with zeros.  A resync() never yields it: the framing word of    *)
(* R[K.size() + IV.size()] is never zero.                                  *)
NoIV == -1
ZeroR == [seed |-> [k |-> NoKey, s |-> Zero, iv |-> NoIV], g |-> 0]
ZeroBuffer == [r |-> ZeroR, s |-> Zero]

(* generate(): 17 rounds fill the whole buffer from R and the S-boxes,     *)
(* step R forward, and set position to 0.                                  *)
Generate(r, s) ==
  [buffer   |-> [r |-> r, s |-> s],
   R        |-> IF r = ZeroR THEN r ELSE [r EXCEPT !.g = @ + 1],
   position |-> 0]

(* n keystream bytes of buf starting at index from. *)
StreamBytes(buf, from, n) == [i \in 1 .. n |-> <<buf, from + i - 1>>]

(* resync(iv, len) after its length check: R loaded from the IV words,    *)
(* K, the framing word and S-box output, PHT, then one generate().         *)
ResyncState(k, s, len) ==
  Generate([seed |-> [k |-> k, s |-> s, iv |-> len], g |-> 0], s)

(* cipher() regenerating only when the input passes the end of the buffer *)
(* (> for >=), so that a call ending exactly there leaves position at the *)
(* end of a used-up buffer.                                                *)
RECURSIVE CipherLoopStrict(_, _, _, _, _, _)
CipherLoopStrict(r, s, buf, pos, length, acc) ==
  IF length > BufSize - pos
    THEN LET gen == Generate(r, s)
         IN CipherLoopStrict(gen.R, s, gen.buffer, gen.position,
                             length - (BufSize - pos),
                             acc \o StreamBytes(buf, pos, BufSize - pos))
    ELSE [R |-> r, buffer |-> buf, position |-> pos + length,
          out |-> acc \o StreamBytes(buf, pos, length)]

(* cipher() taking a whole buffer's length off the input on every         *)
(* regeneration, instead of the part of the buffer that was left.          *)
RECURSIVE CipherLoopWholeBuffer(_, _, _, _, _, _)
CipherLoopWholeBuffer(r, s, buf, pos, length, acc) ==
  IF length >= BufSize - pos
    THEN LET gen == Generate(r, s)
         IN CipherLoopWholeBuffer(gen.R, s, gen.buffer, gen.position,
                                  length - BufSize,
                                  acc \o StreamBytes(buf, pos, BufSize - pos))
    ELSE [R |-> r, buffer |-> buf, position |-> pos + length,
          out |-> acc \o StreamBytes(buf, pos, length)]

(* The loop of cipher(): while the input reaches the end of the buffer,   *)
(* use the rest of the buffer and regenerate; then use length bytes and   *)
(* advance position.                                                      *)
RECURSIVE CipherLoop(_, _, _, _, _, _)
CipherLoop(r, s, buf, pos, length, acc) ==
  IF length >= BufSize - pos
    THEN LET gen == Generate(r, s)
         IN CipherLoop(gen.R, s, gen.buffer, gen.position,
                       length - (BufSize - pos),
                       acc \o StreamBytes(buf, pos, BufSize - pos))
    ELSE [R |-> r, buffer |-> buf, position |-> pos + length,
          out |-> acc \o StreamBytes(buf, pos, length)]

(* A new object: nothing keyed, every buffer zero. *)
Init ==
  /\ K = NoKey
  /\ sbox = Zero
  /\ R = ZeroR
  /\ buffer = ZeroBuffer
  /\ position = 0
  /\ out = <<>>

(* cipher(in, out, length). *)
Cipher(length) ==
  LET res == CipherLoop(R, sbox, buffer, position, length, <<>>)
  IN /\ res.R.g <= MaxGen
     /\ R' = res.R
     /\ buffer' = res.buffer
     /\ position' = res.position
     /\ out' = res.out
     /\ UNCHANGED <<K, sbox>>

(* resync(iv, length): refused with Invalid_IV_Length before any change if *)
(* the length is not a multiple of 4 or exceeds 16.                        *)
Resync(len) ==
  \/ /\ len % 4 = 0 /\ len <= 16
     /\ LET res == ResyncState(K, sbox, len)
        IN /\ R' = res.R
           /\ buffer' = res.buffer
           /\ position' = res.position
     /\ UNCHANGED <<K, sbox, out>>
  \/ /\ len % 4 # 0 \/ len > 16
     /\ UNCHANGED vars

(* key(key, length): K from the key bytes through fixedS and PHT, the four *)
(* S-boxes from K, then resync(0, 0).                                      *)
Key(k) ==
  LET res == ResyncState(k, k, EmptyIV)
  IN /\ K' = k
     /\ sbox' = k
     /\ R' = res.R
     /\ buffer' = res.buffer
     /\ position' = res.position
     /\ UNCHANGED out

(* clear(): S0..S3 and the buffer zeroed, position 0.  K and R are kept.   *)
Clear ==
  /\ sbox' = Zero
  /\ buffer' = ZeroBuffer
  /\ position' = 0
  /\ UNCHANGED <<K, R, out>>

Next ==
  \/ \E k \in Keys : Key(k)
  \/ \E len \in IVLens : Resync(len)
  \/ \E n \in 0 .. MaxCipherLen : Cipher(n)
  \/ Clear

Spec == Init /\ [][Next]_vars

-----------------------------------------------------------------------------
(* Properties *)

Seed   == [k : Keys \cup {NoKey}, s : Keys \cup {Zero}, iv : IVLens \cup {EmptyIV, NoIV}]
Reg    == [seed : Seed, g : 0 .. MaxGen]
Buffer == [r : Reg, s : Keys \cup {Zero}]

TypeOK ==
  /\ K \in Keys \cup {NoKey}
  /\ sbox \in Keys \cup {Zero}
  /\ R \in Reg
  /\ buffer \in Buffer
  /\ position \in 0 .. BufSize - 1
  /\ out \in Seq(Buffer \X (0 .. BufSize - 1))

(* The refinement mapping: the object is keyed while its S-boxes are; the *)
(* keystream offset is the bytes of the buffers generated since the last  *)
(* resync before the current one, plus position; byte i of buffer g is     *)
(* keystream byte g * BufSize + i.                                         *)
AbsByte(b) == <<b[1].s, b[1].r.seed.iv, b[1].r.g * BufSize + b[2]>>

Abs == INSTANCE StreamSpec
         WITH key    <- IF sbox = Zero THEN NoKey ELSE sbox,
              iv     <- R.seed.iv,
              offset <- (R.g - 1) * BufSize + position,
              out    <- [i \in DOMAIN out |-> AbsByte(out[i])]

(* cipher() uses the keystream of the current key and IV without gaps or  *)
(* repeats whatever the lengths of the calls, regenerating the buffer     *)
(* exactly when it runs out; key() and a valid resync() restart it; an    *)
(* invalid resync() changes nothing.                                       *)
ImplementsStreamSpec == Abs!Spec

(* After clear(), and until the next key(), no output of cipher() is      *)
(* keystream derived from the key that was loaded before: the object is   *)
(* back to a zeroed state (section 3 of the specification).               *)
KeyFree(b) == b[1].r.seed.k = NoKey /\ b[1].s = Zero
ClearedOutputKeyFree ==
  [][sbox = Zero /\ out' # out => \A i \in DOMAIN out' : KeyFree(out'[i])]_vars

=============================================================================

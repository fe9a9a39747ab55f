----------------------------- MODULE TuringWords -----------------------------
(***************************************************************************)
(* The word-level state of the Turing object of                            *)
(* src/Botan-1.6.1/src/turing.cpp: the key words K, the keyed S-boxes      *)
(* S0..S3, the 17-word register R and the keystream buffer, as key(),      *)
(* resync() and clear() leave them.  Where module Turing records only      *)
(* where keystream comes from, this one computes the words: the key       *)
(* loading, fixedS, PHT and gen_sbox of key(), the register layout of      *)
(* resync() and the rounds of generate(), mul included.                    *)
(*                                                                         *)
(* A word has four bytes of ByteBits bits (8 in the code); every shift and *)
(* rotation by a multiple of 8 bits is scaled to ByteBits, and the shift   *)
(* by 4 of the framing word to ByteBits / 2.  The tables SBOX and Q_BOX    *)
(* (not in the repository) and MULT_TAB (lines 32-75, of 32-bit words)    *)
(* are constants of the reduced width.  cipher() is modelled in Turing;   *)
(* position stays 0 here, as generate() and clear() leave it.             *)
(***************************************************************************)
EXTENDS Naturals, Sequences, FiniteSets, Bitwise

CONSTANTS
  ByteBits,  \* bits of a byte
  SBOX,      \* Turing::SBOX: Byte -> Byte
  Q_BOX,     \* Turing::Q_BOX: Byte -> Word
  MULT_TAB,  \* the table of mul(): Byte -> Word
  Keys,      \* keys passed to key(), as byte sequences
  IVs        \* IVs passed to resync(), valid and invalid lengths

ByteMod == 2^ByteBits
WordMod == 2^(4 * ByteBits)
Byte    == 0 .. ByteMod - 1
Word    == 0 .. WordMod - 1
RegSize == 17
BufSize == 20 * RegSize

WordBits == 4 * ByteBits

Size(buf)    == Cardinality(DOMAIN buf)
AddW(x, y)   == (x + y) % WordMod
Shl(x, n)    == (x * 2^n) % WordMod
RotL(x, n)   == Shl(x, n % WordBits) + (x \div 2^(WordBits - (n % WordBits)))
RotR(x, n)   == RotL(x, WordBits - (n % WordBits))
GetByte(n, x) == (x \div 2^(ByteBits * (3 - n))) % ByteMod
WordBytes(x) == <<GetByte(0, x), GetByte(1, x), GetByte(2, x), GetByte(3, x)>>

(* 0x00FFFFFF: every byte but the top one. *)
LowBytes == 2^(3 * ByteBits) - 1

VARIABLES
  K,       \* key words, 0 .. K.size()-1
  S,       \* S[0..3] for S0..S3
  R,       \* the register R[0..16]
  buffer,  \* the keystream buffer, byte i at index i + 1
  iv,      \* history: the IV bytes of the last resync()
  ivS      \* history: the S-boxes that resync() used

vars == <<K, S, R, buffer, iv, ivS>>

ZeroBox == [j \in Byte |-> 0]
ZeroS   == [w \in 0 .. 3 |-> ZeroBox]

(* PHT(buf): the sum of all words but the last added to the last, and the  *)
(* new last word added to every other.                                     *)
RECURSIVE SumBelow(_, _)
SumBelow(buf, j) == IF j = 0 THEN 0 ELSE AddW(SumBelow(buf, j - 1), buf[j - 1])

PHT(buf) ==
  LET last == Size(buf) - 1
      top  == AddW(buf[last], SumBelow(buf, last))
  IN [j \in DOMAIN buf |-> IF j = last THEN top ELSE AddW(buf[j], top)]

(* mul(X) = (X << 8) ^ MULT_TAB[X >> 24]. *)
Mul(X) == Shl(X, ByteBits) ^^ MULT_TAB[GetByte(0, X)]

(* fixedS(W): for each byte j, from the top, XOR in a rotated Q_BOX entry *)
(* of its S-box image, then put the image itself in byte j.              *)
RECURSIVE FixedSLoop(_, _)
FixedSLoop(W, j) ==
  IF j = 4 THEN W
  ELSE LET B == SBOX[GetByte(j, W)]
       IN FixedSLoop(((W ^^ RotL(Q_BOX[B], j * ByteBits))
                        & RotR(LowBytes, j * ByteBits))
                     | Shl(B, (3 - j) * ByteBits), j + 1)

fixedS(W) == FixedSLoop(W, 0)

(* The words of a byte string, K[j/4] = (K[j/4] << 8) + key[j], over      *)
(* length/4 words.                                                         *)
RECURSIVE LoadWords(_, _, _)
LoadWords(w, bytes, j) ==
  IF j = Len(bytes) THEN w
  ELSE LoadWords([w EXCEPT ![j \div 4] = AddW(Shl(@, ByteBits), bytes[j + 1])],
                 bytes, j + 1)

Words(bytes) == LoadWords([i \in 0 .. Len(bytes) \div 4 - 1 |-> 0], bytes, 0)

(* The inner loop of gen_sbox() for entry C = j: chain C through SBOX    *)
(* with byte `which` of each key word, XORing rotated Q_BOX entries into *)
(* W.  Returns <<C, W>>.                                                  *)
RECURSIVE SboxChain(_, _, _, _, _)
SboxChain(which, Kw, k, C, W) ==
  IF k >= Size(Kw) THEN <<C, W>>
  ELSE LET C1 == SBOX[GetByte(which, Kw[k]) ^^ C]
       IN SboxChain(which, Kw, k + 1, C1,
                    W ^^ RotL(Q_BOX[C1], k + ByteBits * which))

(* gen_sbox with the mask rotated the wrong way: byte `which` of W is     *)
(* kept, another byte cleared.                                            *)
GenSboxMaskLeft(which, Kw) ==
  [j \in Byte |->
     LET cw == SboxChain(which, Kw, 0, j, 0)
     IN (cw[2] & RotL(LowBytes, ByteBits * which))
          | Shl(cw[1], (3 - which) * ByteBits)]

(* gen_sbox(S, which, K): S[j] is W with byte `which` replaced by C. *)
GenSbox(which, Kw) ==
  [j \in Byte |->
     LET cw == SboxChain(which, Kw, 0, j, 0)
     IN (cw[2] & RotR(LowBytes, ByteBits * which))
          | Shl(cw[1], (3 - which) * ByteBits)]

(* The S-box layer of generate(): byte (i + r) % 4 of x through S_i.       *)
SLayer(s, x, r) ==
  ((s[0][GetByte(r % 4, x)] ^^ s[1][GetByte((r + 1) % 4, x)])
    ^^ s[2][GetByte((r + 2) % 4, x)]) ^^ s[3][GetByte((r + 3) % 4, x)]

(* OFFSETS[16*j + i]: the register word offset_t of round j, t the tap   *)
(* the code's name gives, (j + t) mod 17 in the 17-word ring.           *)
Off(j, t) == (j + t) % RegSize

(* R[o] = mul(R[o]) ^ R[a] ^ R[b], the ring update of generate(). *)
Step(r, o, a, b) == [r EXCEPT ![o] = (Mul(r[o]) ^^ r[a]) ^^ r[b]]

(* One pass st.j of the loop of generate() over st = [R, out, j]: the five *)
(* tapped words through the S-box layer and two PHTs, four ring updates, *)
(* and A, B, C, D, E appended to the output big-endian.                  *)
Round(s, st) ==
  LET o(t) == Off(st.j, t)
      R0 == Step(st.R, o(0), o(15), o(4))
      E1 == AddW(R0[o(1)], R0[o(0)] + R0[o(14)] + R0[o(7)] + R0[o(2)])
      A2 == SLayer(s, AddW(R0[o(0)], E1), 0)
      B2 == SLayer(s, AddW(R0[o(14)], E1), 1)
      C2 == SLayer(s, AddW(R0[o(7)], E1), 2)
      D2 == SLayer(s, AddW(R0[o(2)], E1), 3)
      E3 == AddW(SLayer(s, E1, 0), A2 + B2 + C2 + D2)
      R1 == Step(R0, o(1), o(16), o(5))
      R2 == Step(R1, o(2), o(0), o(6))
      R3 == Step(R2, o(3), o(1), o(7))
      R4 == Step(R3, o(4), o(2), o(8))
  IN [R   |-> R4,
      out |-> st.out \o WordBytes(AddW(AddW(A2, E3), R4[o(1)]))
                     \o WordBytes(AddW(AddW(B2, E3), R4[o(16)]))
                     \o WordBytes(AddW(AddW(C2, E3), R4[o(12)]))
                     \o WordBytes(AddW(AddW(D2, E3), R4[o(5)]))
                     \o WordBytes(AddW(E3, R3[o(4)])),
      j   |-> st.j + 1]

RECURSIVE GenLoop(_, _)
GenLoop(s, st) == IF st.j = RegSize THEN st ELSE GenLoop(s, Round(s, st))

(* generate(): 17 rounds, the buffer refilled, position = 0. *)
Generate(r, s) == GenLoop(s, [R |-> r, out |-> <<>>, j |-> 0])

(* The framing word (0x010203 << 8) | (K.size() << 4) | IV.size(): the  *)
(* bytes 01 02 03 00, the key word count half a byte up, the IV's below. *)
Frame(k, v) ==
  ((ByteMod^3 + 2 * ByteMod^2 + 3 * ByteMod) | Shl(k, ByteBits \div 2)) | v

(* for(j = K.size() + IV.size() + 1; j != 17; ++j): R[j] from the S-box   *)
(* layer of R[j - K.size() - IV.size() - 1] + R[j - 1].  Started past the *)
(* register the loop writes outside R, which is undefined; the model     *)
(* stops there.                                                          *)
RECURSIVE Fill(_, _, _, _)
Fill(r, s, n, j) ==
  IF j >= RegSize THEN r
  ELSE Fill([r EXCEPT ![j] = SLayer(s, AddW(r[j - n - 1], r[j - 1]), 0)], s, n, j + 1)

(* resync() after its length check: the IV words through fixedS, then K, *)
(* then the framing word at K.size() + IV.size(), the rest filled, PHT,  *)
(* generate().  A write past R[16] is lost (the code writes outside R).  *)
ResyncState(Kw, s, r, ivb) ==
  LET ivw == Words(ivb)
      v   == Size(ivw)
      k   == Size(Kw)
      r1  == [j \in 0 .. RegSize - 1 |->
                IF j < v THEN fixedS(ivw[j])
                ELSE IF j < v + k THEN Kw[j - v] ELSE r[j]]
      r2  == [r1 EXCEPT ![k + v] = Frame(k, v)]
  IN Generate(PHT(Fill(r2, s, k + v, k + v + 1)), s)

(* resync() without its length > 16 check: IVs of any multiple of 4. *)
ResyncNoMaxCheck(ivb) ==
  \/ /\ Len(ivb) % 4 = 0
     /\ LET g == ResyncState(K, S, R, ivb)
        IN R' = g.R /\ buffer' = g.out
     /\ iv' = ivb
     /\ ivS' = S
     /\ UNCHANGED <<K, S>>
  \/ /\ Len(ivb) % 4 # 0
     /\ UNCHANGED vars

ZeroR == [j \in 0 .. RegSize - 1 |-> 0]

(* No resync() yet: not a byte string. *)
NoIV == <<ByteMod>>

(* A new object: every SecureBuffer zeroed, K empty. *)
Init ==
  /\ K = <<>>
  /\ S = ZeroS
  /\ R = ZeroR
  /\ buffer = [i \in 1 .. BufSize |-> 0]
  /\ iv = NoIV
  /\ ivS = ZeroS

(* key(key, length): K.create(length/4) loaded from the key bytes, each  *)
(* word through fixedS, PHT(K), S0..S3 from K, then resync(0, 0).  The   *)
(* result depends on the key alone (resync overwrites all of R for the   *)
(* key lengths Turing accepts); it is tabulated once per key.            *)
KeyWords(key) == PHT([j \in DOMAIN Words(key) |-> fixedS(Words(key)[j])])

KeyTable ==
  {LET Kw == KeyWords(k)
       s  == [w \in 0 .. 3 |-> GenSbox(w, Kw)]
       g  == ResyncState(Kw, s, ZeroR, <<>>)
   IN [key |-> k, K |-> Kw, S |-> s, R |-> g.R, out |-> g.out] : k \in Keys}

Key(key) ==
  \E e \in KeyTable :
    /\ e.key = key
    /\ K' = e.K
    /\ S' = e.S
    /\ R' = e.R
    /\ buffer' = e.out
    /\ iv' = <<>>
    /\ ivS' = e.S

(* resync(iv, length): Invalid_IV_Length, before any change, unless the  *)
(* length is a multiple of 4 and at most 16.                              *)
Resync(ivb) ==
  \/ /\ Len(ivb) % 4 = 0 /\ Len(ivb) <= 16
     /\ LET g == ResyncState(K, S, R, ivb)
        IN R' = g.R /\ buffer' = g.out
     /\ iv' = ivb
     /\ ivS' = S
     /\ UNCHANGED <<K, S>>
  \/ /\ Len(ivb) % 4 # 0 \/ Len(ivb) > 16
     /\ UNCHANGED vars

(* clear(): S0..S3 and the buffer zeroed; K and R are kept. *)
Clear ==
  /\ S' = ZeroS
  /\ buffer' = [i \in 1 .. BufSize |-> 0]
  /\ UNCHANGED <<K, R, iv, ivS>>

Next ==
  \/ \E key \in Keys : Key(key)
  \/ \E ivb \in IVs : Resync(ivb)
  \/ Clear

Spec == Init /\ [][Next]_vars

-----------------------------------------------------------------------------
(* Properties *)

(* The register as section 4.3 of the specification lays it out: the IV  *)
(* words (through fixedS), the key words, one framing word of the two     *)
(* word counts, then words from the S-box layer, each of the word n + 1   *)
(* places back plus the one before it, up to exactly 17 words.            *)
RECURSIVE RefFill(_, _, _)
RefFill(seq, s, n) ==
  IF Len(seq) >= RegSize THEN seq
  ELSE RefFill(Append(seq, SLayer(s, AddW(seq[Len(seq) - n], seq[Len(seq)]), 0)), s, n)

RefRegister(Kw, s, ivb) ==
  LET ivw  == Words(ivb)
      head == [i \in 1 .. Size(ivw) |-> fixedS(ivw[i - 1])]
                \o [i \in 1 .. Size(Kw) |-> Kw[i - 1]]
                \o <<Frame(Size(Kw), Size(ivw))>>
      seq  == RefFill(head, s, Size(Kw) + Size(ivw))
  IN [j \in 0 .. Len(seq) - 1 |-> seq[j + 1]]

(* The last key() or resync() loaded a register of exactly 17 words laid *)
(* out as the reference says -- so the framing word at K.size() +        *)
(* IV.size() (line 245) and every fill write landed inside R -- and R    *)
(* and the buffer are what PHT and one generate() made of it (the buffer *)
(* zeroed if clear() came since).                                        *)
RegisterLayout ==
  iv # NoIV =>
  LET g == Generate(PHT(RefRegister(K, ivS, iv)), ivS)
  IN /\ R = g.R
     /\ buffer \in {g.out, [i \in 1 .. BufSize |-> 0]}

(* Each keyed S-box Si carries a permutation of the bytes in byte i: the  *)
(* SBOX chain of gen_sbox lands in the byte its mask clears.             *)
SboxByteIsPermutation ==
  \A w \in 0 .. 3 :
    S[w] # ZeroBox => {GetByte(w, S[w][j]) : j \in Byte} = Byte

=============================================================================

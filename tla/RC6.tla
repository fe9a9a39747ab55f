-------------------------------- MODULE RC6 --------------------------------
(***************************************************************************)
(* The RC6 object of src/Botan-1.6.1/src/rc6.cpp and include/rc6.h: the 44 *)
(* round-key words S, set by key() and zeroed by clear(); enc() and dec()  *)
(* are operators over S, since they change no state.                      *)
(*                                                                         *)
(* Words are reduced to four bytes of ByteBits bits (8 in the code): +, - *)
(* and * wrap mod 2^(4 * ByteBits), and a rotation is by its amount mod   *)
(* the word width.  The 44 round keys, the 20 rounds, the loop bounds,    *)
(* the indices and the little-endian byte order are kept.  The magic      *)
(* constants are the constants Pw and Qw, reduced like the words.        *)
(***************************************************************************)
EXTENDS Naturals, Sequences, Bitwise

CONSTANTS
  ByteBits,  \* bits of a byte
  Pw,        \* 0xB7E15163, reduced
  Qw,        \* 0x9E3779B9, reduced
  Keys,      \* keys a caller may pass to key(), 1 .. 32 bytes
  Blocks,    \* 16-byte blocks whose round trip is checked
  NoKey      \* no key loaded since construction or clear()

WordBits == 4 * ByteBits
WordMod  == 2^WordBits
Word     == 0 .. WordMod - 1
SSize    == 44   \* S.size()
KSize    == 8    \* SecureBuffer<u32bit, 8> K

Add(x, y) == (x + y) % WordMod
Sub(x, y) == (x + WordMod - y) % WordMod

RotL(x, n) ==
  LET r == n % WordBits
  IN ((x * 2^r) % WordMod) + (x \div 2^(WordBits - r))

RotR(x, n) == RotL(x, WordBits - (n % WordBits))

(* rotate_left(x * (2x + 1), 5) *)
G(x) == RotL((x * (2 * x + 1)) % WordMod, 5)

(* get_byte(n, x), byte 0 the most significant, and make_u32bit.          *)
GetByte(n, x) == (x \div 2^(ByteBits * (3 - n))) % 2^ByteBits
MakeWord(b0, b1, b2, b3) ==
  ((b0 * 2^ByteBits + b1) * 2^ByteBits + b2) * 2^ByteBits + b3

(* A word read from, and written to, four bytes least significant first.  *)
LoadLE(in, i) == MakeWord(in[i + 3], in[i + 2], in[i + 1], in[i])
StoreLE(x) == <<GetByte(3, x), GetByte(2, x), GetByte(1, x), GetByte(0, x)>>

VARIABLES
  S,       \* S[0..43]
  loaded   \* history: the key of the last key(), NoKey after clear()

vars == <<S, loaded>>

(* Two lines of a quarter of a round of enc(): T1 = G(x), T2 = G(y);      *)
(* u = rotl(u ^ T1, T2 % 32) + k1; v = rotl(v ^ T2, T1 % 32) + k2.        *)
Half(x, y, u, v, k1, k2) ==
  LET T1 == G(x)
      T2 == G(y)
  IN <<Add(RotL(u ^^ T1, T2 % 32), k1), Add(RotL(v ^^ T2, T1 % 32), k2)>>

(* The inverse lines of dec(): u = rotr(u - k1, T1 % 32) ^ T2, and v.     *)
InvHalf(x, y, u, v, k1, k2) ==
  LET T1 == G(x)
      T2 == G(y)
  IN <<RotR(Sub(u, k1), T1 % 32) ^^ T2, RotR(Sub(v, k2), T2 % 32) ^^ T1>>

(* One pass of the loop of enc(), j = 0, 4, .., 16, over w = <<A, B, C, D>>. *)
EncRound(s, w, j) ==
  LET ac == Half(w[2], w[4], w[1], w[3], s[2 * j + 2], s[2 * j + 3])
      bd == Half(ac[2], ac[1], w[2], w[4], s[2 * j + 4], s[2 * j + 5])
      ca == Half(bd[2], bd[1], ac[2], ac[1], s[2 * j + 6], s[2 * j + 7])
      db == Half(ca[2], ca[1], bd[2], bd[1], s[2 * j + 8], s[2 * j + 9])
  IN <<ca[2], db[2], ca[1], db[1]>>

RECURSIVE EncLoop(_, _, _)
EncLoop(s, w, j) == IF j = 20 THEN w ELSE EncLoop(s, EncRound(s, w, j), j + 4)

(* A pass of dec() taking the two round keys of each line in the order   *)
(* enc() does.                                                            *)
DecRoundSwapped(s, w, j) ==
  LET bd == InvHalf(w[1], w[3], w[2], w[4], s[40 - 2 * j], s[41 - 2 * j])
      ac == InvHalf(bd[2], bd[1], w[1], w[3], s[38 - 2 * j], s[39 - 2 * j])
      db == InvHalf(ac[2], ac[1], bd[2], bd[1], s[36 - 2 * j], s[37 - 2 * j])
      ca == InvHalf(db[2], db[1], ac[2], ac[1], s[34 - 2 * j], s[35 - 2 * j])
  IN <<ca[2], db[2], ca[1], db[1]>>

(* One pass of the loop of dec(), the round keys from S[41 - 2j] down.    *)
DecRound(s, w, j) ==
  LET bd == InvHalf(w[1], w[3], w[2], w[4], s[41 - 2 * j], s[40 - 2 * j])
      ac == InvHalf(bd[2], bd[1], w[1], w[3], s[39 - 2 * j], s[38 - 2 * j])
      db == InvHalf(ac[2], ac[1], bd[2], bd[1], s[37 - 2 * j], s[36 - 2 * j])
      ca == InvHalf(db[2], db[1], ac[2], ac[1], s[35 - 2 * j], s[34 - 2 * j])
  IN <<ca[2], db[2], ca[1], db[1]>>

RECURSIVE DecLoop(_, _, _)
DecLoop(s, w, j) == IF j = 20 THEN w ELSE DecLoop(s, DecRound(s, w, j), j + 4)

(* enc(in, out): B += S[0], D += S[1], 20 rounds, A += S[42], C += S[43]. *)
Enc(s, in) ==
  LET w == EncLoop(s, <<LoadLE(in, 1), Add(LoadLE(in, 5), s[0]),
                        LoadLE(in, 9), Add(LoadLE(in, 13), s[1])>>, 0)
  IN StoreLE(Add(w[1], s[42])) \o StoreLE(w[2]) \o
     StoreLE(Add(w[3], s[43])) \o StoreLE(w[4])

(* dec(in, out): C -= S[43], A -= S[42], 20 rounds, D -= S[1], B -= S[0]. *)
Dec(s, in) ==
  LET w == DecLoop(s, <<Sub(LoadLE(in, 1), s[42]), LoadLE(in, 5),
                        Sub(LoadLE(in, 9), s[43]), LoadLE(in, 13)>>, 0)
  IN StoreLE(w[1]) \o StoreLE(Sub(w[2], s[0])) \o
     StoreLE(w[3]) \o StoreLE(Sub(w[4], s[1]))

(* The key bytes 0 .. j loaded counting upward, as Blowfish and Turing do. *)
RECURSIVE LoadKeyUpward(_, _, _)
LoadKeyUpward(k, key, j) ==
  IF j < 0 THEN k
  ELSE [LoadKeyUpward(k, key, j - 1) EXCEPT
          ![j \div 4] = ((@ * 2^ByteBits) % WordMod) + key[j + 1]]

(* for(s32bit j = length-1; j >= 0; --j) K[j/4] = (K[j/4] << 8) + key[j]; *)
RECURSIVE LoadKey(_, _, _)
LoadKey(k, key, j) ==
  IF j < 0 THEN k
  ELSE LoadKey([k EXCEPT ![j \div 4] = ((@ * 2^ByteBits) % WordMod) + key[j + 1]],
               key, j - 1)

(* One pass of the mixing loop of key() over st = [s, k, j, A, B]:         *)
(* A = rotl(S[j % 44] + A + B, 3); B = rotl(K[j % c] + A + B, (A+B) % 32).  *)
MixStep(st, c) ==
  LET A1 == RotL(Add(Add(st.s[st.j % SSize], st.A), st.B), 3)
      B1 == RotL(Add(Add(st.k[st.j % c], A1), st.B), Add(A1, st.B) % 32)
  IN [s |-> [st.s EXCEPT ![st.j % SSize] = A1],
      k |-> [st.k EXCEPT ![st.j % c] = B1],
      j |-> st.j + 1, A |-> A1, B |-> B1]

(* for(j = 0, A = 0, B = 0; j != MIX_ROUNDS; ++j) *)
RECURSIVE Mix(_, _, _)
Mix(st, c, rounds) ==
  IF st.j = rounds THEN st.s ELSE Mix(MixStep(st, c), c, rounds)

(* key(key, length): S[0] = P, S[j] = S[j-1] + Q; the key bytes loaded    *)
(* into WORD_KEYLENGTH = (length - 1) / 4 + 1 words; then 3 * max(        *)
(* WORD_KEYLENGTH, 44) mixing steps.                                      *)
KeySchedule(key) ==
  LET c  == ((Len(key) - 1) \div 4) + 1
      s0 == [j \in 0 .. SSize - 1 |-> (Pw + j * Qw) % WordMod]
      k  == LoadKey([j \in 0 .. KSize - 1 |-> 0], key, Len(key) - 1)
  IN Mix([s |-> s0, k |-> k, j |-> 0, A |-> 0, B |-> 0], c,
         3 * (IF c > SSize THEN c ELSE SSize))

(* A new object: S is a zeroed SecureBuffer. *)
Init ==
  /\ S = [j \in 0 .. SSize - 1 |-> 0]
  /\ loaded = NoKey

(* key() depends on the key alone; its result is tabulated once per key.  *)
Schedules == {[key |-> k, s |-> KeySchedule(k)] : k \in Keys}

Key(key) ==
  \E e \in Schedules :
    /\ e.key = key
    /\ S' = e.s
    /\ loaded' = key

(* clear(): S.clear(). *)
Clear ==
  /\ S' = [j \in 0 .. SSize - 1 |-> 0]
  /\ loaded' = NoKey

Next == (\E key \in Keys : Key(key)) \/ Clear

Spec == Init /\ [][Next]_vars

-----------------------------------------------------------------------------
(* Properties *)

(* The RC6 key schedule as the specification (section 4.2) and the RC6    *)
(* definition state it: L holds the key in c = ceil(length / 4) words,     *)
(* little-endian, the last word padded with zero bytes; S[i] = P + i*Q;   *)
(* then 3 * max(c, 44) steps A = S[i] = (S[i] + A + B) <<< 3,              *)
(* B = L[j] = (L[j] + A + B) <<< (A + B), i and j advancing cyclically.   *)
RefWords(key) ==
  LET b(n) == IF n < Len(key) THEN key[n + 1] ELSE 0
  IN [i \in 1 .. (Len(key) + 3) \div 4 |->
        LET n == 4 * (i - 1)
        IN b(n) + 2^ByteBits * b(n + 1) + 2^(2 * ByteBits) * b(n + 2)
             + 2^(3 * ByteBits) * b(n + 3)]

RECURSIVE RefMix(_)
RefMix(m) ==
  IF m.n = 0 THEN m.s
  ELSE LET A1 == RotL((m.s[m.i] + m.A + m.B) % WordMod, 3)
           B1 == RotL((m.l[m.j] + A1 + m.B) % WordMod, A1 + m.B)
       IN RefMix([s |-> [m.s EXCEPT ![m.i] = A1], l |-> [m.l EXCEPT ![m.j] = B1],
                  i |-> (m.i + 1) % SSize, j |-> (m.j % Len(m.l)) + 1,
                  n |-> m.n - 1, A |-> A1, B |-> B1])

RefSchedule(key) ==
  LET l == RefWords(key)
  IN RefMix([s |-> [i \in 0 .. SSize - 1 |-> (Pw + i * Qw) % WordMod], l |-> l,
             i |-> 0, j |-> 1, n |-> 3 * (IF Len(l) > SSize THEN Len(l) ELSE SSize),
             A |-> 0, B |-> 0])

RefSchedules == {[key |-> k, s |-> RefSchedule(k)] : k \in Keys}

(* After key(k), whatever was loaded before, S is the RC6 schedule of k:  *)
(* the bytes of each word taken little-endian, a short last word padded,  *)
(* and as many mixing steps as the definition; after clear(), S is zero.  *)
KeyScheduleMatchesReference ==
  /\ loaded # NoKey => \E e \in RefSchedules : e.key = loaded /\ e.s = S
  /\ loaded = NoKey => S = [j \in 0 .. SSize - 1 |-> 0]

(* dec() inverts enc() under the round keys of every reachable state:    *)
(* each block's ciphertext decrypts to the block.                         *)
RoundTrip ==
  \A pc \in {<<x, Enc(S, x)>> : x \in Blocks} : Dec(S, pc[2]) = pc[1]

=============================================================================

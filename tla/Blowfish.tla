------------------------------ MODULE Blowfish ------------------------------
(***************************************************************************)
(* The Blowfish object of src/Botan-1.6.1/src/blowfish.cpp: the 18 round  *)
(* keys P and the four S-boxes S1..S4, set by key() and reset by clear(); *)
(* enc() and dec() are operators over them, since they change no state.   *)
(*                                                                         *)
(* Words are reduced to four bytes of ByteBits bits (8 in the code), so   *)
(* an S-box has 2^ByteBits entries; every loop bound, index, byte order   *)
(* and the wrap-around of + are kept.  The initial tables PBOX and SBOX   *)
(* (hex digits of pi in the code's table file, which the repository does  *)
(* not contain) are constants.                                            *)
(***************************************************************************)
EXTENDS Naturals, Sequences, Bitwise

CONSTANTS
  ByteBits,  \* bits of a byte
  PBOX,      \* initial round keys: 0..17 -> Word
  SBOX,      \* initial S-boxes: 1..4 -> (Bytes -> Word)
  Keys,      \* keys a caller may pass to key(), as byte sequences
  Blocks,    \* 8-byte blocks whose round trip is checked
  NoKey      \* no key loaded since construction or clear()

Bytes   == 0 .. 2^ByteBits - 1
WordMod == 2^(4 * ByteBits)
Word    == 0 .. WordMod - 1

(* get_byte(n, x): byte n of x, byte 0 the most significant. *)
GetByte(n, x) == (x \div 2^(ByteBits * (3 - n))) % 2^ByteBits

(* make_u32bit(b0, b1, b2, b3), b0 the most significant byte. *)
MakeWord(b0, b1, b2, b3) ==
  ((b0 * 2^ByteBits + b1) * 2^ByteBits + b2) * 2^ByteBits + b3

WordBytes(x) == <<GetByte(0, x), GetByte(1, x), GetByte(2, x), GetByte(3, x)>>

VARIABLES
  P,       \* P[0..17]
  S,       \* S[1..4] for S1..S4
  loaded   \* history: the key of the last key(), NoKey after clear()

vars == <<P, S, loaded>>

(* The round function: ((S1[b0] + S2[b1]) ^ S3[b2]) + S4[b3], mod 2^32.   *)
F(s, x) ==
  ((((s[1][GetByte(0, x)] + s[2][GetByte(1, x)]) % WordMod)
      ^^ s[3][GetByte(2, x)]) + s[4][GetByte(3, x)]) % WordMod

(* The loop of enc() (and of generate_sbox) from round key j to 16.       *)
RECURSIVE EncRounds(_, _, _, _, _)
EncRounds(p, s, L, R, j) ==
  IF j = 16 THEN <<L, R>>
  ELSE LET L1 == L ^^ p[j]
           R1 == (R ^^ F(s, L1)) ^^ p[j + 1]
       IN EncRounds(p, s, L1 ^^ F(s, R1), R1, j + 2)

(* dec() using the round keys of each pair in encryption order.           *)
RECURSIVE DecRoundsForward(_, _, _, _, _)
DecRoundsForward(p, s, L, R, j) ==
  IF j = 1 THEN <<L, R>>
  ELSE LET L1 == L ^^ p[j - 1]
           R1 == (R ^^ F(s, L1)) ^^ p[j]
       IN DecRoundsForward(p, s, L1 ^^ F(s, R1), R1, j - 2)

(* The loop of dec(), round keys 17 down to 2.                            *)
RECURSIVE DecRounds(_, _, _, _, _)
DecRounds(p, s, L, R, j) ==
  IF j = 1 THEN <<L, R>>
  ELSE LET L1 == L ^^ p[j]
           R1 == (R ^^ F(s, L1)) ^^ p[j - 1]
       IN DecRounds(p, s, L1 ^^ F(s, R1), R1, j - 2)

(* enc(in, out): L, R big-endian; the halves are output swapped.          *)
Enc(p, s, in) ==
  LET lr == EncRounds(p, s, MakeWord(in[1], in[2], in[3], in[4]),
                            MakeWord(in[5], in[6], in[7], in[8]), 0)
  IN WordBytes(lr[2] ^^ p[17]) \o WordBytes(lr[1] ^^ p[16])

(* dec(in, out) *)
Dec(p, s, in) ==
  LET lr == DecRounds(p, s, MakeWord(in[1], in[2], in[3], in[4]),
                            MakeWord(in[5], in[6], in[7], in[8]), 17)
  IN WordBytes(lr[2] ^^ p[0]) \o WordBytes(lr[1] ^^ p[1])

(* The first loop of key(): P[j] ^= the key bytes 4j .. 4j+3, read        *)
(* cyclically mod length.                                                 *)
KeyXor(p, key) ==
  LET kb(i) == key[(i % Len(key)) + 1]
  IN [j \in 0 .. 17 |-> p[j] ^^ MakeWord(kb(4 * j), kb(4 * j + 1),
                                         kb(4 * j + 2), kb(4 * j + 3))]

(* generate_sbox(Box, size, L, R) over the tables t = [P, S]; box is 0   *)
(* for P or the number of an S-box.  When Box is P the rounds read the   *)
(* entries already rewritten.  Returns the tables and the final L, R.     *)
RECURSIVE GenerateSbox(_, _, _, _, _, _)
GenerateSbox(t, box, size, j, L, R) ==
  IF j = size THEN [t |-> t, L |-> L, R |-> R]
  ELSE LET lr == EncRounds(t.P, t.S, L, R, 0)
           L1 == lr[2] ^^ t.P[17]
           R1 == lr[1] ^^ t.P[16]
           t1 == IF box = 0 THEN [t EXCEPT !.P[j] = L1, !.P[j + 1] = R1]
                 ELSE [t EXCEPT !.S[box][j] = L1, !.S[box][j + 1] = R1]
       IN GenerateSbox(t1, box, size, j + 2, L1, R1)

(* The tables key() leaves, from the tables t it XORs the key into.       *)
Schedule(t, key) ==
  LET n  == 2^ByteBits
      g0 == GenerateSbox([t EXCEPT !.P = KeyXor(t.P, key)], 0, 18, 0, 0, 0)
      g1 == GenerateSbox(g0.t, 1, n, 0, g0.L, g0.R)
      g2 == GenerateSbox(g1.t, 2, n, 0, g1.L, g1.R)
      g3 == GenerateSbox(g2.t, 3, n, 0, g2.L, g2.R)
      g4 == GenerateSbox(g3.t, 4, n, 0, g3.L, g3.R)
  IN g4.t

(* A new object: its SecureBuffers are zeroed. *)
Init ==
  /\ P = [j \in 0 .. 17 |-> 0]
  /\ S = [i \in 1 .. 4 |-> [e \in Bytes |-> 0]]
  /\ loaded = NoKey

(* key() without its leading clear(): the key is XORed into the tables    *)
(* left by the previous key().                                            *)
KeyNoClear(key) ==
  LET t == Schedule([P |-> P, S |-> S], key)
  IN /\ P' = t.P
     /\ S' = t.S
     /\ loaded' = key

(* key(key, length): clear(), then the key XORed into P, then P and the   *)
(* S-boxes regenerated by the cipher itself, L and R carried throughout.  *)
(* Since clear() comes first, the result depends on the key alone; it is  *)
(* tabulated once per key in KeySchedule.                                 *)
KeySchedule ==
  {[key |-> k, t |-> Schedule([P |-> PBOX, S |-> SBOX], k)] : k \in Keys}

Key(key) ==
  \E e \in KeySchedule :
    /\ e.key = key
    /\ P' = e.t.P
    /\ S' = e.t.S
    /\ loaded' = key

(* clear(): P and S1..S4 copied back from PBOX and SBOX1..SBOX4. *)
Clear ==
  /\ P' = PBOX
  /\ S' = SBOX
  /\ loaded' = NoKey

Next ==
  \/ \E key \in Keys : Key(key)
  \/ Clear

Spec == Init /\ [][Next]_vars

-----------------------------------------------------------------------------
(* Properties *)

(* The key schedule as section 4.2 of the specification describes it: the *)
(* fixed tables, P XORed with the repeating key, then every pair of the    *)
(* 18 + 4 * 256 table words replaced, in order, by the encryption of the   *)
(* previous pair (starting from the zero block) under the tables as they   *)
(* stand at that moment.  The tables are laid out flat: P, S1, .., S4.     *)
Flat(p, s) ==
  LET n == 2^ByteBits
  IN [i \in 0 .. 17 + 4 * n |->
        IF i < 18 THEN p[i] ELSE s[((i - 18) \div n) + 1][(i - 18) % n]]

Tables(T) ==
  LET n == 2^ByteBits
  IN [P |-> [j \in 0 .. 17 |-> T[j]],
      S |-> [b \in 1 .. 4 |-> [e \in Bytes |-> T[18 + (b - 1) * n + e]]]]

RECURSIVE Regenerate(_, _, _)
Regenerate(T, i, x) ==
  IF i \notin DOMAIN T THEN T
  ELSE LET y == Enc(Tables(T).P, Tables(T).S, x)
       IN Regenerate([T EXCEPT ![i] = MakeWord(y[1], y[2], y[3], y[4]),
                               ![i + 1] = MakeWord(y[5], y[6], y[7], y[8])],
                     i + 2, y)

RefSchedule(key) ==
  LET ks   == [i \in 0 .. 71 |-> key[(i % Len(key)) + 1]]
      seed == [j \in 0 .. 17 |-> PBOX[j] ^^ MakeWord(ks[4 * j], ks[4 * j + 1],
                                                     ks[4 * j + 2], ks[4 * j + 3])]
  IN Tables(Regenerate(Flat(seed, SBOX), 0, [i \in 1 .. 8 |-> 0]))

RefScheduleOf == {[key |-> k, t |-> RefSchedule(k)] : k \in Keys}

(* After key(k), whatever keys were loaded before it, the tables are the  *)
(* schedule of k alone; after clear() they are the initial tables.        *)
KeyScheduleMatchesReference ==
  /\ loaded # NoKey => \E e \in RefScheduleOf : e.key = loaded /\ e.t = [P |-> P, S |-> S]
  /\ loaded = NoKey =>
        [P |-> P, S |-> S] \in {[P |-> PBOX, S |-> SBOX],
                                 [P |-> [j \in 0 .. 17 |-> 0],
                                  S |-> [i \in 1 .. 4 |-> [e \in Bytes |-> 0]]]}

(* dec() inverts enc() under the tables of every reachable state.         *)
RoundTrip == \A x \in Blocks : Dec(P, S, Enc(P, S, x)) = x

=============================================================================

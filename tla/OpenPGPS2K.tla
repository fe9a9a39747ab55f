----------------------------- MODULE OpenPGPS2K -----------------------------
(***************************************************************************)
(* OpenPGP_S2K::derive of src/Botan-1.6.5/src/pgp_s2k.cpp, one call, as a *)
(* state machine over its loops: for each digest, pass zero bytes, then   *)
(* whole repetitions of salt ++ passphrase while at least one fits in the *)
(* byte budget left, then the rest of the budget out of the salt first and *)
(* the passphrase after; each digest is copied into the key at generated.  *)
(*                                                                         *)
(* The hash is SHA-160 (module SHA160), the "SHA-1" the specification    *)
(* names: one object, obtained once and reused for every digest.  The     *)
(* bytes fed to it since its last final() are kept in hashed, its digest  *)
(* words in digest; final() compresses hashed into digest, copy_out()s    *)
(* the 20 bytes and clear()s the object for the next pass.                *)
(***************************************************************************)
EXTENDS Naturals, Sequences, SequencesExt, SecureBuffer, SHA160

CONSTANTS
  Passphrases,  \* passphrases a caller may pass, as byte sequences
  Salts,        \* salts a caller may pass
  Iterations,   \* iteration counts
  KeyLens       \* key_len values

VARIABLES
  passphrase, salt, iterations, key_len,  \* the arguments
  pc,         \* the point of derive() reached
  pass,       \* digests computed so far
  generated,  \* key bytes written so far
  left,       \* byte budget left for the current digest
  hashed,     \* bytes fed to the hash since its last final()
  digest,     \* the hash object's digest words
  key         \* the SecureVector<byte> key(key_len)

vars == <<passphrase, salt, iterations, key_len, pc, pass, generated, left,
          hashed, digest, key>>

TotalSize == Len(passphrase) + Len(salt)
ToHash    == IF iterations >= TotalSize THEN iterations ELSE TotalSize

(* hash->OUTPUT_LENGTH *)
HashLen == OUTPUT_LENGTH

(* Entry: key(key_len) zeroed, counters zero, and the hash from get_hash *)
(* cleared by its constructor and by hash->clear().                       *)
Init ==
  /\ passphrase \in Passphrases
  /\ salt \in Salts
  /\ iterations \in Iterations
  /\ key_len \in KeyLens
  /\ key = Zeroed(key_len)
  /\ pass = 0
  /\ generated = 0
  /\ left = 0
  /\ hashed = <<>>
  /\ digest = IV
  /\ pc = "outer"

(* while(key_len > generated) *)
Outer ==
  /\ pc = "outer"
  /\ pc' = IF key_len > generated THEN "zeros" ELSE "done"
  /\ UNCHANGED <<passphrase, salt, iterations, key_len, pass, generated,
                 left, hashed, digest, key>>

(* pass zero bytes, then left = to_hash *)
Zeros ==
  /\ pc = "zeros"
  /\ hashed' = hashed \o [j \in 1 .. pass |-> 0]
  /\ left' = ToHash
  /\ pc' = "full"
  /\ UNCHANGED <<passphrase, salt, iterations, key_len, pass, generated, digest, key>>

(* One repetition of salt ++ passphrase while the budget holds one. *)
Full ==
  /\ pc = "full"
  /\ left >= TotalSize
  /\ hashed' = hashed \o salt \o passphrase
  /\ left' = left - TotalSize
  /\ UNCHANGED <<passphrase, salt, iterations, key_len, pc, pass, generated, digest, key>>

(* The rest of the budget, out of the passphrase first.                     *)
PartialPassphraseFirst ==
  /\ pc = "full"
  /\ left < TotalSize
  /\ \/ /\ left <= Len(passphrase)
        /\ hashed' = hashed \o SubSeq(passphrase, 1, left)
        /\ UNCHANGED left
     \/ /\ left > Len(passphrase)
        /\ left' = left - Len(passphrase)
        /\ hashed' = hashed \o passphrase \o SubSeq(salt, 1, left')
  /\ pc' = "final"
  /\ UNCHANGED <<passphrase, salt, iterations, key_len, pass, generated, digest, key>>

(* The rest of the budget taking total_size, not salt_size, off left.     *)
PartialRepetitionOverDecrement ==
  /\ pc = "full"
  /\ left < TotalSize
  /\ \/ /\ left <= Len(salt)
        /\ hashed' = hashed \o SubSeq(salt, 1, left)
        /\ UNCHANGED left
     \/ /\ left > Len(salt)
        /\ left' = left - TotalSize
        /\ hashed' = hashed \o salt \o SubSeq(passphrase, 1, left - Len(salt))
  /\ pc' = "final"
  /\ UNCHANGED <<passphrase, salt, iterations, key_len, pass, generated, digest, key>>

(* The rest of the budget: from the salt if it fits in it, else the whole *)
(* salt, left -= salt_size, and the first left bytes of the passphrase.   *)
PartialRepetition ==
  /\ pc = "full"
  /\ left < TotalSize
  /\ \/ /\ left <= Len(salt)
        /\ hashed' = hashed \o SubSeq(salt, 1, left)
        /\ UNCHANGED left
     \/ /\ left > Len(salt)
        /\ left' = left - Len(salt)
        /\ hashed' = hashed \o salt \o SubSeq(passphrase, 1, left')
  /\ pc' = "final"
  /\ UNCHANGED <<passphrase, salt, iterations, key_len, pass, generated, digest, key>>

(* hash->final(): the bytes fed compressed into the digest, copied out   *)
(* into key at generated (cut at key_len), and the hash cleared.          *)
Final ==
  /\ pc = "final"
  /\ LET compressed == Compress(digest, hashed)
     IN /\ key' = BufferCopy(key, generated, CopyOut(compressed), HashLen)
        /\ digest' = ClearDigest(compressed)
  /\ generated' = generated + HashLen
  /\ pass' = pass + 1
  /\ hashed' = <<>>
  /\ pc' = "outer"
  /\ UNCHANGED <<passphrase, salt, iterations, key_len, left>>

Next == Outer \/ Zeros \/ Full \/ PartialRepetition \/ Final

Spec == Init /\ [][Next]_vars /\ WF_vars(Next)

-----------------------------------------------------------------------------
(* Properties *)

(* The type invariant; left, a u32bit, never wraps below zero. *)
TypeOK ==
  /\ pc \in {"outer", "zeros", "full", "final", "done"}
  /\ pass \in Nat
  /\ generated \in Nat
  /\ left \in 0 .. ToHash
  /\ DOMAIN key = 1 .. key_len

(* SHA-1 of s as FIPS 180 states it: H0 || H1 || H2 || H3 || H4 after    *)
(* compressing s into the initial value, each word big-endian.            *)
RefDigest(s) == FlattenSeq(Compress(IV, s))

(* The reference of section 4.5: digest p hashes p zero bytes and then the *)
(* first max(iterations, |salt| + |passphrase|) bytes of salt ++ passphrase *)
(* repeated; the digests are concatenated and cut to key_len bytes.        *)
RefKey ==
  LET nDigests == (key_len + HashLen - 1) \div HashLen
      stream   == [i \in 1 .. nDigests * HashLen |->
                     LET p == (i - 1) \div HashLen
                         sp == salt \o passphrase
                         fed == [j \in 1 .. p |-> 0] \o
                                [n \in 1 .. ToHash |-> sp[((n - 1) % Len(sp)) + 1]]
                     IN RefDigest(fed)[((i - 1) % HashLen) + 1]]
  IN [i \in 1 .. key_len |-> stream[i]]

(* When derive() returns, the key is exactly key_len bytes and equals the *)
(* reference: each digest got its pass count of leading zeros, the byte   *)
(* budget was spent salt first, and only the last digest was cut.         *)
DerivedKeyMatchesReference == pc = "done" => key = RefKey

(* derive() returns. *)
Terminates == <>(pc = "done")

=============================================================================

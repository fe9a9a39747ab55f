-------------------------------- MODULE CMAC --------------------------------
(***************************************************************************)
(* The CMAC object of src/Botan-1.6.1/src/cmac.cpp: a MAC over a block     *)
(* cipher e, with a running CBC state, a one-block buffer of bytes not yet *)
(* absorbed, a fill position, and the two subkeys B (K1) and P (K2)        *)
(* derived when the key is loaded.                                         *)
(*                                                                         *)
(* The wrapped cipher is abstracted to the permutation Encrypt(ekey, _)    *)
(* selected by its current schedule ekey (Cleared after e->clear()).      *)
(* Bytes keep their width (0..255) because the doubling and the 0x80       *)
(* padding act on bits; the block length OUTPUT_LENGTH is a constant, as   *)
(* in the code, where every branch depends on it alone.                    *)
(*                                                                         *)
(* msg is a history variable: the bytes fed since the last key(),          *)
(* final_result() or clear().  The code keeps no such record; it is here   *)
(* so that the refinement mapping to MACSpec can name the message.         *)
(***************************************************************************)
EXTENDS Sequences, GFDouble, SecureBuffer

CONSTANTS
  Keys,           \* keys a caller may pass to key()
  Cleared,        \* the schedule of a cipher that is cleared or unkeyed
  Encrypt(_, _),  \* e->encrypt under a schedule: a permutation of blocks
  MsgBytes,       \* byte values of the data passed to add_data()
  MaxChunk,       \* longest input of one add_data() call
  MaxMsgLen,      \* bound on the bytes of one message (model bound)
  NoMac           \* no MAC has been output yet

ASSUME OUTPUT_LENGTH \in Nat \ {0} /\ MaxChunk \in Nat /\ MaxMsgLen \in Nat
ASSUME Cleared \notin Keys

VARIABLES
  state,     \* running CBC value
  buffer,    \* bytes of the block not yet absorbed (stale bytes past position)
  position,  \* number of valid bytes in buffer
  B,         \* subkey for a complete last block
  P,         \* subkey for a padded last block
  ekey,      \* schedule of the wrapped cipher e
  mac,       \* last output of final_result()
  msg        \* history: bytes fed since the last reset

vars == <<state, buffer, position, B, P, ekey, mac, msg>>

(* A freshly created or cleared SecureVector<byte> of OUTPUT_LENGTH.       *)
ZeroBlock == Zeroed(OUTPUT_LENGTH)

(* xor_buf(out, in, OUTPUT_LENGTH): out[j] ^= in[j].                        *)
XorBuf(out, in) == [j \in DOMAIN out |-> out[j] ^^ in[j]]

(* The while loop of add_data(): absorb a block while strictly more than a *)
(* block of input is left.  Returns the new state and the leftover input.  *)
RECURSIVE AbsorbBlocks(_, _, _)
AbsorbBlocks(k, st, input) ==
  IF Len(input) > OUTPUT_LENGTH
    THEN AbsorbBlocks(k, Encrypt(k, XorBuf(st, SubSeq(input, 1, OUTPUT_LENGTH))),
                      SubSeq(input, OUTPUT_LENGTH + 1, Len(input)))
    ELSE <<st, input>>

(* final_result(): the padding of a partial last block, 0x80 then zeros.   *)
Pad(buf, pos) ==
  [j \in 1 .. OUTPUT_LENGTH |->
     IF j = pos + 1 THEN 128 ELSE IF j > pos + 1 THEN 0 ELSE buf[j]]

(* The constructor: buffers created zeroed, position 0, cipher unkeyed.   *)
Init ==
  /\ state = ZeroBlock
  /\ buffer = ZeroBlock
  /\ position = 0
  /\ B = ZeroBlock
  /\ P = ZeroBlock
  /\ ekey = Cleared
  /\ mac = NoMac
  /\ msg = <<>>

(* add_data() absorbing only the buffered block: an if for the while, so  *)
(* the rest of a long input is buffered whole.                              *)
AddDataNoLoop(input) ==
  LET length == Len(input)
      buf1   == BufferCopy(buffer, position, input, length)
      first  == Encrypt(ekey, XorBuf(state, buf1))
      rest   == SubSeq(input, OUTPUT_LENGTH - position + 1, length)
  IN
  /\ Len(msg) + length <= MaxMsgLen
  /\ \/ /\ position + length > OUTPUT_LENGTH
        /\ state' = first
        /\ buffer' = BufferCopy(buf1, 0, rest, Len(rest))
        /\ position' = Len(rest)
     \/ /\ position + length <= OUTPUT_LENGTH
        /\ buffer' = buf1
        /\ position' = position + length
        /\ UNCHANGED state
  /\ msg' = msg \o input
  /\ UNCHANGED <<B, P, ekey, mac>>

(* add_data() absorbing a block as soon as it is full (>= for >).        *)
AddDataEager(input) ==
  LET length == Len(input)
      buf1   == BufferCopy(buffer, position, input, length)
      first  == Encrypt(ekey, XorBuf(state, buf1))
      loop   == AbsorbBlocks(ekey, first,
                             SubSeq(input, OUTPUT_LENGTH - position + 1, length))
  IN
  /\ Len(msg) + length <= MaxMsgLen
  /\ \/ /\ position + length >= OUTPUT_LENGTH
        /\ state' = loop[1]
        /\ buffer' = BufferCopy(buf1, 0, loop[2], Len(loop[2]))
        /\ position' = Len(loop[2])
     \/ /\ position + length < OUTPUT_LENGTH
        /\ buffer' = buf1
        /\ position' = position + length
        /\ UNCHANGED state
  /\ msg' = msg \o input
  /\ UNCHANGED <<B, P, ekey, mac>>

(* add_data(input, length).  The first copy fills the buffer from position;*)
(* only if the input overflows the block is the buffered block absorbed,   *)
(* then every further block but the last, and the leftover is buffered.    *)
AddData(input) ==
  LET length == Len(input)
      buf1   == BufferCopy(buffer, position, input, length)
      first  == Encrypt(ekey, XorBuf(state, buf1))
      loop   == AbsorbBlocks(ekey, first,
                             SubSeq(input, OUTPUT_LENGTH - position + 1, length))
  IN
  /\ Len(msg) + length <= MaxMsgLen
  /\ \/ /\ position + length > OUTPUT_LENGTH
        /\ state' = loop[1]
        /\ buffer' = BufferCopy(buf1, 0, loop[2], Len(loop[2]))
        /\ position' = Len(loop[2])
     \/ /\ position + length <= OUTPUT_LENGTH
        /\ buffer' = buf1
        /\ position' = position + length
        /\ UNCHANGED state
  /\ msg' = msg \o input
  /\ UNCHANGED <<B, P, ekey, mac>>

(* final_result(mac): a full buffered block is XORed with B, a partial one *)
(* is padded and XORed with P; one more encryption gives the MAC, and     *)
(* state, buffer and position are reset for the next message.             *)
FinalResult ==
  LET last == IF position = OUTPUT_LENGTH
                THEN XorBuf(buffer, B)
                ELSE XorBuf(Pad(buffer, position), P)
  IN
  /\ mac' = Encrypt(ekey, XorBuf(state, last))
  /\ state' = ZeroBlock
  /\ buffer' = ZeroBlock
  /\ position' = 0
  /\ msg' = <<>>
  /\ UNCHANGED <<B, P, ekey>>

(* key() without its leading clear(): B is encrypted as it stands.         *)
KeyNoClear(k) ==
  /\ ekey' = k
  /\ B' = PolyDouble(Encrypt(k, B))
  /\ P' = PolyDouble(PolyDouble(Encrypt(k, B)))
  /\ state' = ZeroBlock
  /\ buffer' = ZeroBlock
  /\ position' = 0
  /\ msg' = <<>>
  /\ UNCHANGED mac

(* key(key, length): clear(), e->set_key, then B = double(E(0)), P =       *)
(* double(B).  The zero block encrypted is B itself, zeroed by clear().    *)
Key(k) ==
  /\ ekey' = k
  /\ B' = PolyDouble(Encrypt(k, ZeroBlock))
  /\ P' = PolyDouble(PolyDouble(Encrypt(k, ZeroBlock)))
  /\ state' = ZeroBlock
  /\ buffer' = ZeroBlock
  /\ position' = 0
  /\ msg' = <<>>
  /\ UNCHANGED mac

(* clear(): the cipher's schedule and every buffer zeroed, position 0.     *)
Clear ==
  /\ ekey' = Cleared
  /\ state' = ZeroBlock
  /\ buffer' = ZeroBlock
  /\ B' = ZeroBlock
  /\ P' = ZeroBlock
  /\ position' = 0
  /\ msg' = <<>>
  /\ UNCHANGED mac

Chunks == UNION {[1 .. n -> MsgBytes] : n \in 0 .. MaxChunk}

Next ==
  \/ \E k \in Keys : Key(k)
  \/ \E input \in Chunks : AddData(input)
  \/ FinalResult
  \/ Clear

Spec == Init /\ [][Next]_vars

-----------------------------------------------------------------------------
(* Properties *)

TypeOK ==
  /\ state \in Block
  /\ buffer \in Block
  /\ position \in 0 .. OUTPUT_LENGTH
  /\ B \in Block
  /\ P \in Block
  /\ ekey \in Keys \cup {Cleared}
  /\ mac \in Block \cup {NoMac}
  /\ msg \in Seq(MsgBytes)

Abs == INSTANCE MACSpec
         WITH key <- ekey,
              NoKey <- Cleared

(* add_data() keeps the last block of the message in the buffer: between  *)
(* calls, a non-empty message has 1..OUTPUT_LENGTH bytes buffered (a full  *)
(* block is not absorbed until more data arrives, since final_result()     *)
(* must XOR it with B rather than pad it), the buffered bytes are the tail *)
(* of the message, and state is the CBC chaining of every byte before it.  *)
LastBlockBuffered ==
  LET absorbed == Len(msg) - position
  IN /\ position \in (IF msg = <<>> THEN {0} ELSE 1 .. OUTPUT_LENGTH)
     /\ absorbed % OUTPUT_LENGTH = 0
     /\ [j \in 1 .. position |-> buffer[j]] = SubSeq(msg, absorbed + 1, Len(msg))
     /\ state = Abs!CBC(ekey, ZeroBlock, SubSeq(msg, 1, absorbed))

(* Once a key is loaded, every MAC final_result() outputs is CMAC_k of the *)
(* bytes fed since the key was loaded or the last MAC, however add_data()  *)
(* calls split them, across re-keying, repeated finals and clear().        *)
ImplementsMACSpec == Abs!Spec

=============================================================================

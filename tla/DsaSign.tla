------------------------------- MODULE DsaSign -------------------------------
(***************************************************************************)
(* main() of src/Botan-1.6.1/doc/examples/dsa_sign.cpp: check the         *)
(* arguments, open the message, create the signature file, load the        *)
(* PKCS #8 key, and write the Base64 DSA signature of the message.         *)
(*                                                                         *)
(* The files are keyfile, messagefile and messagefile.sig.  A key file    *)
(* holds a key of some kind encrypted under a passphrase, or data that is  *)
(* no PKCS #8 key.  PKCS8::load_key, not in the repository, throws unless  *)
(* the file holds a key and the passphrase is its own; the signature is    *)
(* the pair of the message and the key.                                    *)
(***************************************************************************)
EXTENDS Naturals

CONSTANTS
  ArgCounts,  \* values of argc a caller may pass
  Passes,     \* passphrases
  Messages,   \* contents of messagefile
  Garbage,    \* a key file that is no PKCS #8 key
  Absent,     \* no such file
  Old,        \* a signature file from an earlier run
  Truncated,  \* the file an ofstream has just created or truncated
  None        \* no exit status yet, no key loaded

KeyKinds == {"dsa", "rsa"}
Keys     == [kind : KeyKinds, pass : Passes]
KeyFiles == Keys \cup {Garbage, Absent}
Sig(m, k) == [msg |-> m, key |-> k]

VARIABLES
  argc,      \* the argument count
  pass,      \* argv[3]
  keyfile,   \* the content of argv[1]
  message,   \* the content of argv[2]
  writable,  \* whether argv[2].sig can be opened for writing
  sig,       \* the content of argv[2].sig
  key,       \* the key load_key returned
  pc,        \* the statement main() is at
  exit       \* main()'s return value

vars == <<argc, pass, keyfile, message, writable, sig, key, pc, exit>>
inputs == <<argc, pass, keyfile, message, writable>>

Init ==
  /\ argc \in ArgCounts
  /\ pass \in Passes
  /\ keyfile \in KeyFiles
  /\ message \in Messages \cup {Absent}
  /\ writable \in BOOLEAN
  /\ sig \in {Absent, Old}
  /\ key = None
  /\ pc = "start"
  /\ exit = None

(* if(argc != 4): print the usage and return 1. *)
Usage ==
  /\ pc = "start"
  /\ argc # 4
  /\ pc' = "done"
  /\ exit' = 1
  /\ UNCHANGED <<inputs, sig, key>>

(* The message check without its return. *)
OpenMessageNoReturn ==
  /\ pc = "start"
  /\ argc = 4
  /\ pc' = "openSig"
  /\ UNCHANGED <<inputs, sig, key, exit>>

(* std::ifstream message(argv[2]); if(!message) return 1. *)
OpenMessage ==
  /\ pc = "start"
  /\ argc = 4
  /\ IF message = Absent
       THEN pc' = "done" /\ exit' = 1
       ELSE pc' = "openSig" /\ UNCHANGED exit
  /\ UNCHANGED <<inputs, sig, key>>

(* std::ofstream sigfile(outfile) creates or truncates the file, or fails *)
(* and main() returns 1.                                                  *)
OpenSig ==
  /\ pc = "openSig"
  /\ IF writable
       THEN sig' = Truncated /\ pc' = "load" /\ UNCHANGED exit
       ELSE pc' = "done" /\ exit' = 1 /\ UNCHANGED sig
  /\ UNCHANGED <<inputs, key>>

LoadFails == IF keyfile \in Keys THEN keyfile.pass # pass ELSE TRUE

(* load_key without the check that the key is a DSA key.                  *)
LoadKeyNoCast ==
  /\ pc = "load"
  /\ IF LoadFails
       THEN pc' = "done" /\ exit' = 0 /\ UNCHANGED key
       ELSE key' = keyfile /\ pc' = "sign" /\ UNCHANGED exit
  /\ UNCHANGED <<inputs, sig>>

(* PKCS8::load_key: a throw is caught at line 74 and main() goes on to    *)
(* return 0; a key that dynamic_cast does not make a DSA key returns 1.   *)
LoadKey ==
  /\ pc = "load"
  /\ \/ /\ LoadFails
        /\ pc' = "done"
        /\ exit' = 0
        /\ UNCHANGED key
     \/ /\ ~LoadFails
        /\ key' = keyfile
        /\ IF keyfile.kind = "dsa"
             THEN pc' = "sign" /\ UNCHANGED exit
             ELSE pc' = "done" /\ exit' = 1
  /\ UNCHANGED <<inputs, sig>>

(* The Pipe of PK_Signer_Filter and Base64_Encoder over the message, then *)
(* sigfile << read_all_as_string(); main() returns 0.                     *)
Sign ==
  /\ pc = "sign"
  /\ sig' = Sig(message, key)
  /\ pc' = "done"
  /\ exit' = 0
  /\ UNCHANGED <<inputs, key>>

Next == Usage \/ OpenMessage \/ OpenSig \/ LoadKey \/ Sign

Spec == Init /\ [][Next]_vars

-----------------------------------------------------------------------------
(* Properties *)

TypeOK ==
  /\ pc \in {"start", "openSig", "load", "sign", "done"}
  /\ sig \in {Absent, Old, Truncated} \cup {Sig(m, k) : m \in Messages, k \in KeyFiles}
  /\ exit \in {None, 0, 1}

(* A signature file holds the signature of the message under the DSA    *)
(* key of keyfile, opened with the passphrase given: never a key that     *)
(* dynamic_cast refused, nor one the passphrase does not open.            *)
SignatureOfMessageAndKey ==
  sig \notin {Absent, Old, Truncated} =>
    /\ sig = Sig(message, keyfile)
    /\ keyfile.kind = "dsa"
    /\ keyfile.pass = pass

(* The program reports success only when it has written the signature:   *)
(* when main() returns 0, messagefile.sig holds a signature.             *)
SuccessMeansSigned ==
  pc = "done" /\ exit = 0 => sig \notin {Absent, Old, Truncated}

(* A run that writes no signature leaves an earlier signature file as it *)
(* was: when main() returns, the file is untouched or holds a signature.  *)
FailureKeepsOldSignature ==
  pc = "done" => sig # Truncated

=============================================================================

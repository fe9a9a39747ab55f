------------------------------- MODULE SelfSig -------------------------------
(***************************************************************************)
(* main() of src/Botan-1.6.1/doc/examples/self_sig.cpp: check the          *)
(* arguments and the CA/user flag, generate a key, write it encrypted      *)
(* under the passphrase to private.pem, and write a self-signed            *)
(* certificate for it to cert.pem.                                         *)
(*                                                                         *)
(* The files are private.pem and cert.pem, in one directory that an        *)
(* ofstream can or cannot open files in; the code never checks the         *)
(* streams.  Each run generates the key NewKey; an earlier run left        *)
(* OldKey.  PKCS8::PEM_encode and X509::create_self_signed_cert are not    *)
(* in the repository; either may throw (an unavailable PBE algorithm, an   *)
(* option the certificate code rejects), and the model lets it.           *)
(***************************************************************************)
EXTENDS Naturals

CONSTANTS
  ArgCounts,  \* values of argc a caller may pass
  CAFlags,    \* values of argv[2]
  Passes,     \* passphrases
  NewKey,     \* the key this run generates
  OldKey,     \* the key of an earlier run
  Absent,     \* no such file
  Truncated,  \* a file an ofstream has just created or truncated
  None        \* no exit status yet

Enc(k, p)  == [key |-> k, pass |-> p]
Cert(k, c) == [subject |-> k, ca |-> c]
PrivFiles  == {Absent, Truncated} \cup {Enc(k, p) : k \in {NewKey, OldKey}, p \in Passes}
CertFiles  == {Absent, Truncated} \cup {Cert(k, c) : k \in {NewKey, OldKey}, c \in BOOLEAN}

VARIABLES
  argc,      \* the argument count
  flag,      \* argv[2]
  pass,      \* argv[1]
  writable,  \* whether the directory takes new files
  priv,      \* the content of private.pem
  cert,      \* the content of cert.pem
  doCA,      \* do_CA
  pc,        \* the statement main() is at
  exit       \* main()'s return value

vars == <<argc, flag, pass, writable, priv, cert, doCA, pc, exit>>
inputs == <<argc, flag, pass, writable>>

(* The files start absent or as the matching pair of an earlier run.      *)
Init ==
  /\ argc \in ArgCounts
  /\ flag \in CAFlags
  /\ pass \in Passes
  /\ writable \in BOOLEAN
  /\ \/ priv = Absent /\ cert = Absent
     \/ \E p \in Passes, c \in BOOLEAN : priv = Enc(OldKey, p) /\ cert = Cert(OldKey, c)
  /\ doCA = FALSE
  /\ pc = "start"
  /\ exit = None

(* if(argc != 7): print the usage and return 1. *)
Usage ==
  /\ pc = "start"
  /\ argc # 7
  /\ pc' = "done"
  /\ exit' = 1
  /\ UNCHANGED <<inputs, priv, cert, doCA>>

(* The flag check with any flag but "CA" taken as "user".                 *)
CheckFlagAnyUser ==
  /\ pc = "start"
  /\ argc = 7
  /\ doCA' = (flag = "CA")
  /\ pc' = "keygen"
  /\ UNCHANGED <<inputs, priv, cert, exit>>

(* do_CA from "CA" or "user"; any other flag returns 1.                   *)
CheckFlag ==
  /\ pc = "start"
  /\ argc = 7
  /\ IF flag \in {"CA", "user"}
       THEN doCA' = (flag = "CA") /\ pc' = "keygen" /\ UNCHANGED exit
       ELSE pc' = "done" /\ exit' = 1 /\ UNCHANGED doCA
  /\ UNCHANGED <<inputs, priv, cert>>

(* Writing the key in the clear: PEM_encode(key) without the passphrase.  *)
SaveKeyPlain ==
  /\ pc = "keygen"
  /\ priv' = IF writable THEN NewKey ELSE priv
  /\ pc' = "cert"
  /\ UNCHANGED <<inputs, cert, doCA, exit>>

(* RSA_PrivateKey key(1024); std::ofstream priv_key("private.pem")        *)
(* truncates the file; then PEM_encode(key, passphrase) is written, or    *)
(* throws and main() returns 1 with the file left truncated.              *)
SaveKey ==
  /\ pc = "keygen"
  /\ \/ /\ priv' = IF writable THEN Enc(NewKey, pass) ELSE priv
        /\ pc' = "cert"
        /\ UNCHANGED exit
     \/ /\ priv' = IF writable THEN Truncated ELSE priv
        /\ pc' = "done"
        /\ exit' = 1
  /\ UNCHANGED <<inputs, cert, doCA>>

(* The options, CA_key() when do_CA, and create_self_signed_cert, which   *)
(* may throw: main() returns 1.                                           *)
MakeCert ==
  /\ pc = "cert"
  /\ \/ pc' = "saveCert" /\ UNCHANGED exit
     \/ pc' = "done" /\ exit' = 1
  /\ UNCHANGED <<inputs, priv, cert, doCA>>

(* std::ofstream cert_file("cert.pem") << cert.PEM_encode(); return 0.    *)
SaveCert ==
  /\ pc = "saveCert"
  /\ cert' = IF writable THEN Cert(NewKey, doCA) ELSE cert
  /\ pc' = "done"
  /\ exit' = 0
  /\ UNCHANGED <<inputs, priv, doCA>>

Next == Usage \/ CheckFlag \/ SaveKey \/ MakeCert \/ SaveCert

Spec == Init /\ [][Next]_vars

-----------------------------------------------------------------------------
(* Properties *)

TypeOK ==
  /\ pc \in {"start", "keygen", "cert", "saveCert", "done"}
  /\ priv \in PrivFiles
  /\ cert \in CertFiles
  /\ exit \in {None, 0, 1}

(* A certificate this run wrote is for the key private.pem holds,          *)
(* encrypted under argv[1], and is a CA certificate exactly when argv[2]   *)
(* is "CA" (and argv[2] was "CA" or "user").                               *)
NewCertMatchesKeyFile ==
  cert \in {Cert(NewKey, c) : c \in BOOLEAN} =>
    /\ priv = Enc(NewKey, pass)
    /\ flag \in {"CA", "user"}
    /\ cert.ca = (flag = "CA")

(* The header comment: the certificate is created with the key that is    *)
(* stored in the other file.  When main() returns, private.pem and        *)
(* cert.pem, if both hold something, hold the same key.                   *)
KeyAndCertMatch ==
  pc = "done" /\ priv \in {Enc(k, p) : k \in {NewKey, OldKey}, p \in Passes}
              /\ cert \in {Cert(k, c) : k \in {NewKey, OldKey}, c \in BOOLEAN}
    => priv.key = cert.subject

(* main() returns 0 only after it has saved the key and the certificate.  *)
SuccessMeansSaved ==
  pc = "done" /\ exit = 0 =>
    priv = Enc(NewKey, pass) /\ cert \in {Cert(NewKey, c) : c \in BOOLEAN}

=============================================================================

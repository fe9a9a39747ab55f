--------------------------- MODULE MCExamples -----------------------------
(***************************************************************************)
(* The example programs of doc/examples/, bzip.cpp, dsa_sign.cpp and       *)
(* self_sig.cpp, checked in one model: a behaviour runs one of them,       *)
(* chosen by name at the start, from its own inputs; the other programs'   *)
(* variables keep their initial values.  They share no files: bzip works   *)
(* on the names of its command line, self_sig writes private.pem and       *)
(* cert.pem, dsa_sign writes <message>.sig.                                *)
(***************************************************************************)
EXTENDS Naturals

CONSTANTS
  DsaArgCounts, SelfArgCounts,  \* argc values a caller may pass to each
  CAFlags,                      \* argv[2] of self_sig
  Passes,                       \* passphrases
  Messages,                     \* contents of dsa_sign's message file
  Garbage, Old,                 \* dsa_sign's non-key file, earlier .sig
  NewKey, OldKey,               \* self_sig's new key, an earlier run's key
  Absent, Truncated, None,
  a, b, p1, p2,                 \* bzip's base names and plain data values
  Empty                         \* the content of a file bzip truncated

VARIABLES
  prog,
  bPc, bArgs, bDecompress, bFiles, bJ, bMsgs, bFs, bCur, bExit, bFed,
  bHandled, bLast,
  dArgc, dPass, dKeyfile, dMessage, dWritable, dSig, dKey, dPc, dExit,
  sArgc, sFlag, sPass, sWritable, sPriv, sCert, sDoCA, sPc, sExit

dVars == <<dArgc, dPass, dKeyfile, dMessage, dWritable, dSig, dKey, dPc, dExit>>
sVars == <<sArgc, sFlag, sPass, sWritable, sPriv, sCert, sDoCA, sPc, sExit>>
bVars == <<bPc, bArgs, bDecompress, bFiles, bJ, bMsgs, bFs, bCur, bExit,
           bFed, bHandled, bLast>>
vars  == <<prog, bVars, dVars, sVars>>

(* bzip's files: a exists plain and compressed; b is missing and b.bz2    *)
(* holds data that is not a bzip2 stream; a.bz2.bz2 cannot be written.    *)
BzipFS0 ==
  [n \in {a, b} \X (0 .. 2) |->
     CASE n = <<a, 0>> -> [data |-> p1, z |-> 0]
       [] n = <<a, 1>> -> [data |-> p1, z |-> 1]
       [] n = <<b, 1>> -> [data |-> p2, z |-> 0]
       [] OTHER        -> Absent]

BZ == INSTANCE BzipExample
        WITH Bases <- {a, b}, MaxArgs <- 3, ArgFlags <- {"-d", "-9"},
             FS0 <- BzipFS0, Unwritable <- {<<a, 2>>}, Plain <- {p1, p2},
             pc <- bPc, args <- bArgs, decompress <- bDecompress,
             files <- bFiles, j <- bJ, msgs <- bMsgs, fs <- bFs, cur <- bCur,
             exit <- bExit, fed <- bFed, handled <- bHandled, last <- bLast

DS == INSTANCE DsaSign
        WITH ArgCounts <- DsaArgCounts, argc <- dArgc, pass <- dPass,
             keyfile <- dKeyfile, message <- dMessage, writable <- dWritable,
             sig <- dSig, key <- dKey, pc <- dPc, exit <- dExit

SS == INSTANCE SelfSig
        WITH ArgCounts <- SelfArgCounts, argc <- sArgc, flag <- sFlag,
             pass <- sPass, writable <- sWritable, priv <- sPriv,
             cert <- sCert, doCA <- sDoCA, pc <- sPc, exit <- sExit

(* A program not run: its variables as at the start of main().            *)
BIdle == /\ bPc = "start" /\ bArgs = <<>> /\ bDecompress = FALSE /\ bFiles = <<>>
         /\ bJ = 0 /\ bMsgs = <<>> /\ bFs = BzipFS0 /\ bCur = BZ!NoFile
         /\ bExit = Absent /\ bFed = <<>> /\ bHandled = {} /\ bLast = BZ!NoLast
DIdle == /\ dArgc = 4 /\ dPass = None /\ dKeyfile = Absent /\ dMessage = Absent
         /\ dWritable = FALSE /\ dSig = Absent /\ dKey = None /\ dPc = "start"
         /\ dExit = None
SIdle == /\ sArgc = 7 /\ sFlag = "CA" /\ sPass = None /\ sWritable = FALSE
         /\ sPriv = Absent /\ sCert = Absent /\ sDoCA = FALSE /\ sPc = "start"
         /\ sExit = None

Init ==
  \/ prog = "bzip" /\ BZ!Init /\ DIdle /\ SIdle
  \/ prog = "dsa_sign" /\ DS!Init /\ BIdle /\ SIdle
  \/ prog = "self_sig" /\ SS!Init /\ BIdle /\ DIdle

Next ==
  \/ prog = "bzip" /\ BZ!Next /\ UNCHANGED <<prog, dVars, sVars>>
  \/ prog = "dsa_sign" /\ DS!Next /\ UNCHANGED <<prog, bVars, sVars>>
  \/ prog = "self_sig" /\ SS!Next /\ UNCHANGED <<prog, bVars, dVars>>

Spec == Init /\ [][Next]_vars

-----------------------------------------------------------------------------
(* Properties: those of each program, for the behaviours that run it.     *)

(* The type invariant of the program that runs. *)
TypeOK ==
  /\ prog = "bzip" => BZ!TypeOK
  /\ prog = "dsa_sign" => DS!TypeOK
  /\ prog = "self_sig" => SS!TypeOK

(* bzip: the file just written holds its own input, filtered: message j  *)
(* of the pipe is file j's message, so set_default_msg(j) picks it.       *)
OutputIsOwnInput == prog = "bzip" => BZ!OutputIsOwnInput

(* dsa_sign: a signature file holds the signature of the message under    *)
(* the DSA key of keyfile opened with the passphrase given, never a key   *)
(* dynamic_cast refused nor one the passphrase does not open.             *)
SignatureOfMessageAndKey == prog = "dsa_sign" => DS!SignatureOfMessageAndKey

(* self_sig: a certificate the run wrote is for the key private.pem      *)
(* holds, encrypted under argv[1], and is a CA certificate exactly when   *)
(* argv[2] is "CA".                                                       *)
NewCertMatchesKeyFile == prog = "self_sig" => SS!NewCertMatchesKeyFile

=============================================================================

----------------------------- MODULE BzipExample -----------------------------
(***************************************************************************)
(* main() of src/Botan-1.6.1/doc/examples/bzip.cpp: parse the flags and   *)
(* file names, then for each file j open infile and outfile, skip the file *)
(* when either cannot be opened, and otherwise push it through one Pipe    *)
(* message and write message j of the pipe to outfile.                     *)
(*                                                                         *)
(* The file system maps a name to its content or Absent.  A name is        *)
(* <<base, n>>: a base name followed by n copies of ".bz2", so that        *)
(* outfile += SUFFIX adds one and replace(find(SUFFIX), ..) removes the    *)
(* first one, or throws std::out_of_range when find returns npos.  A      *)
(* content is [data, z]: plain data compressed z times.                    *)
(*                                                                         *)
(* Pipe, Bzip_Compression and Bzip_Decompression are not in the            *)
(* repository.  Their behaviour is taken from Botan 1.6: a Pipe numbers    *)
(* its messages from 0 in the order start_msg() opens them, and            *)
(* set_default_msg(m) throws Invalid_Argument when m >= message_count();   *)
(* decompression throws Decoding_Error on data that is not a bzip2 stream, *)
(* and an empty input gives an empty output.  The level and -s flags only  *)
(* tune the compressor and are left out.                                   *)
(***************************************************************************)
EXTENDS Naturals, Sequences, SequencesExt

CONSTANTS
  Bases,      \* base names of files
  MaxArgs,    \* longest command line (model bound)
  ArgFlags,   \* the flags a command line may hold, of "-d", "-s", "-9"
  FS0,        \* the file system main() starts from
  Unwritable, \* names an ofstream cannot open
  Plain,      \* plain (uncompressed) data values
  Empty,      \* the content of a file just truncated
  Absent      \* no such file

Name     == Bases \X (0 .. 2)
Content  == [data : Plain \cup {Empty}, z : 0 .. 3]
Flags    == {"-d", "-s", "-9"}
ArgName  == Bases \X (0 .. 1)
Tokens   == ArgFlags \cup ArgName
NoFile   == [in |-> Absent, out |-> Absent, prev |-> Absent]
NoLast   == [out |-> Absent, j |-> 0]
Truncated == [data |-> Empty, z |-> 0]

VARIABLES
  pc,          \* the statement main() is at
  args,        \* argv[1 ..]
  decompress,  \* the -d flag
  files,       \* the names, in order
  j,           \* the loop index (from 0)
  msgs,        \* the pipe's messages, message m at msgs[m + 1]
  fs,          \* the file system
  cur,         \* infile, outfile and outfile's content before opening
  exit,        \* main()'s return value
  fed,         \* history: fed[k] is what file k - 1 put into the pipe
  handled,     \* history: loop indices whose body finished (written or skipped)
  last         \* history: the last outfile written and its loop index

vars == <<pc, args, decompress, files, j, msgs, fs, cur, exit, fed, handled, last>>

(* A Bzip_Compression or Bzip_Decompression filter over one message.       *)
Compressed(c) == [c EXCEPT !.z = @ + 1]
DecodeFails(c) == c.z = 0 /\ c.data # Empty
Decompressed(c) == IF c.z = 0 THEN c ELSE [c EXCEPT !.z = @ - 1]
Transform(d, c) == IF d THEN Decompressed(c) ELSE Compressed(c)

(* outfile: outfile += SUFFIX, or the first ".bz2" removed. *)
OutName(d, f) == IF d THEN <<f[1], f[2] - 1>> ELSE <<f[1], f[2] + 1>>

Init ==
  /\ pc = "start"
  /\ args \in UNION {[1 .. n -> Tokens] : n \in 0 .. MaxArgs}
  /\ decompress = FALSE
  /\ files = <<>>
  /\ j = 0
  /\ msgs = <<>>
  /\ fs = FS0
  /\ cur = NoFile
  /\ exit = Absent
  /\ fed = <<>>
  /\ handled = {}
  /\ last = NoLast

(* if(argc < 2): print the usage and return 1. *)
Usage ==
  /\ pc = "start"
  /\ args = <<>>
  /\ pc' = "done"
  /\ exit' = 1
  /\ UNCHANGED <<args, decompress, files, j, msgs, fs, cur, fed, handled, last>>

(* The argument loop: -d sets decompress, other flags are consumed, every *)
(* other argument is a file; then the filter and the empty Pipe.          *)
Parse ==
  /\ pc = "start"
  /\ args # <<>>
  /\ decompress' = \E k \in DOMAIN args : args[k] = "-d"
  /\ files' = SelectSeq(args, LAMBDA t : t \in ArgName)
  /\ pc' = "loop"
  /\ UNCHANGED <<args, j, msgs, fs, cur, exit, fed, handled, last>>

(* Lines 66-74: compute outfile, then construct the ifstream and the      *)
(* ofstream; the ofstream creates or truncates outfile if it can open it. *)
(* A name without ".bz2" makes replace() throw, ending main() with 1.     *)
Open ==
  /\ pc = "loop"
  /\ j < Len(files)
  /\ LET f == files[j + 1]
     IN \/ /\ decompress /\ f[2] = 0
           /\ pc' = "done"
           /\ exit' = 1
           /\ UNCHANGED <<fs, cur, last>>
        \/ /\ ~(decompress /\ f[2] = 0)
           /\ LET o == OutName(decompress, f)
              IN /\ cur' = [in |-> f, out |-> o, prev |-> fs[o]]
                 /\ fs' = IF o \in Unwritable THEN fs ELSE [fs EXCEPT ![o] = Truncated]
           /\ pc' = "check"
           /\ last' = NoLast
           /\ UNCHANGED exit
  /\ UNCHANGED <<args, decompress, files, j, msgs, fed, handled>>

(* A skip that advances j itself as well as through the loop's j++.      *)
SkipTwice ==
  /\ pc = "check"
  /\ fs[cur.in] = Absent \/ cur.out \in Unwritable
  /\ pc' = "loop"
  /\ j' = j + 2
  /\ handled' = handled \cup {j}
  /\ UNCHANGED <<args, decompress, files, msgs, fs, cur, exit, fed, last>>

(* if(!in) or if(!out): print an error and continue with the next file. *)
Skip ==
  /\ pc = "check"
  /\ fs[cur.in] = Absent \/ cur.out \in Unwritable
  /\ pc' = "loop"
  /\ j' = j + 1
  /\ handled' = handled \cup {j}
  /\ UNCHANGED <<args, decompress, files, msgs, fs, cur, exit, fed, last>>

(* start_msg(); in >> pipe; end_msg(): a new message holding the filtered *)
(* input, unless decompression throws.                                    *)
Feed ==
  /\ pc = "check"
  /\ fs[cur.in] # Absent /\ cur.out \notin Unwritable
  /\ LET c == fs[cur.in]
     IN \/ /\ decompress /\ DecodeFails(c)
           /\ pc' = "done"
           /\ exit' = 1
           /\ UNCHANGED <<msgs, fed>>
        \/ /\ ~(decompress /\ DecodeFails(c))
           /\ msgs' = Append(msgs, Transform(decompress, c))
           /\ fed' = fed @@ (j + 1 :> c)
           /\ pc' = "output"
           /\ UNCHANGED exit
  /\ UNCHANGED <<args, decompress, files, j, fs, cur, handled, last>>

(* out << pipe without set_default_msg(j): always message 0.             *)
OutputFirstMsg ==
  /\ pc = "output"
  /\ \/ /\ j >= Len(msgs)
        /\ pc' = "done"
        /\ exit' = 1
        /\ UNCHANGED <<fs, j, handled, last>>
     \/ /\ j < Len(msgs)
        /\ fs' = [fs EXCEPT ![cur.out] = msgs[1]]
        /\ last' = [out |-> cur.out, j |-> j]
        /\ handled' = handled \cup {j}
        /\ j' = j + 1
        /\ pc' = "loop"
        /\ UNCHANGED exit
  /\ UNCHANGED <<args, decompress, files, msgs, cur, fed>>

(* set_default_msg(j); out << pipe; close both; next file.  The pipe      *)
(* throws when message j does not exist.                                  *)
Output ==
  /\ pc = "output"
  /\ \/ /\ j >= Len(msgs)
        /\ pc' = "done"
        /\ exit' = 1
        /\ UNCHANGED <<fs, j, handled, last>>
     \/ /\ j < Len(msgs)
        /\ fs' = [fs EXCEPT ![cur.out] = msgs[j + 1]]
        /\ last' = [out |-> cur.out, j |-> j]
        /\ handled' = handled \cup {j}
        /\ j' = j + 1
        /\ pc' = "loop"
        /\ UNCHANGED exit
  /\ UNCHANGED <<args, decompress, files, msgs, cur, fed>>

(* The loop ends: return 0. *)
Finish ==
  /\ pc = "loop"
  /\ j = Len(files)
  /\ pc' = "done"
  /\ exit' = 0
  /\ UNCHANGED <<args, decompress, files, j, msgs, fs, cur, fed, handled, last>>

Next == Usage \/ Parse \/ Open \/ Skip \/ Feed \/ Output \/ Finish

Spec == Init /\ [][Next]_vars

-----------------------------------------------------------------------------
(* Properties *)

TypeOK ==
  /\ pc \in {"start", "loop", "check", "output", "done"}
  /\ fs \in [Name -> Content \cup {Absent}]
  /\ msgs \in Seq(Content)
  /\ j \in 0 .. Len(files)
  /\ handled \subseteq 0 .. Len(files) - 1

(* The file just written holds its own input, filtered: message j of the *)
(* pipe is file j's message, so set_default_msg(j) picks the right one.   *)
OutputIsOwnInput ==
  last # NoLast => fs[last.out] = Transform(decompress, fed[last.j + 1])

(* The loop is written to print an error for a file it cannot open and go *)
(* on with the rest: when main() returns, every file has been handled.    *)
EveryFileHandled ==
  pc = "done" => \A k \in 0 .. Len(files) - 1 : k \in handled

(* A file skipped because its input cannot be read leaves the outfile of *)
(* that name as it was.                                                   *)
SkipLeavesOutput ==
  [][Skip => fs[cur.out] = cur.prev]_vars

=============================================================================

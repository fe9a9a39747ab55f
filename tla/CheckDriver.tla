------------------------------ MODULE CheckDriver ------------------------------
(***************************************************************************)
(* The test driver src/Botan-1.6.1/checks/check.cpp: main() parses the     *)
(* options, prints the help, runs validate() or the benchmarks; validate() *)
(* checks the integer types (test_types) and sums the failures of four     *)
(* test-vector files.                                                      *)
(*                                                                         *)
(* The callees are not in the repository (OptionParser, the benchmark and  *)
(* test functions); each is a choice among its outcomes: a test file       *)
(* reports 0 .. MaxErrors failures or throws, parsing the options or the   *)
(* initialiser string may throw, and bench_algo finds exactly the          *)
(* algorithms of SymAlgs.  A benchmark call is recorded as <<what, arg>>.  *)
(* --seconds is kept as the value atof() gives, in hundredths: a word      *)
(* that is no number gives 0, and "nan" gives NaN, which every comparison  *)
(* is false for.  Output text is left out.                                 *)
(***************************************************************************)
EXTENDS Naturals, Sequences

CONSTANTS
  OptionSets,  \* the command lines: records of the options given
  SymAlgs,     \* the names bench_algo knows
  TypeNames,   \* the integer types test_types checks
  MaxErrors,   \* most failures one test file reports (model bound)
  None,        \* an option not given; no exit status yet
  NaN          \* the double atof("nan") returns

(* The four files of validate(), in the order they are read.             *)
Files == <<"validate.dat", "fail.dat", "mp_valid.dat", "pk_valid.dat">>

(* --bench-type, and the benchmark("...") or bench_pk call it makes.     *)
TypeDispatch ==
  [t \in {"all", "block", "stream", "hash", "mac", "rng", "pk"} |->
     CASE t = "all"    -> <<"benchmark", "All">>
       [] t = "block"  -> <<"benchmark", "Block Cipher">>
       [] t = "stream" -> <<"benchmark", "Stream Cipher">>
       [] t = "hash"   -> <<"benchmark", "Hash">>
       [] t = "mac"    -> <<"benchmark", "MAC">>
       [] t = "rng"    -> <<"benchmark", "RNG">>
       [] t = "pk"     -> <<"bench_pk", "All">>]

(* The types the --help text offers for --bench-type.                    *)
HelpTypes == {"block", "mode", "stream", "hash", "mac", "rng", "pk"}

VARIABLES
  opts,      \* the options given, and whether argc > 1
  badTypes,  \* the types whose numeric_limits disagree with types.h
  pc,        \* where main() or validate() is
  k,         \* the next file of validate(), or the next --bench-algo name
  errors,    \* validate()'s u32bit errors
  calls,     \* the benchmark calls made, in order
  exit,      \* the process's exit status
  failed     \* history: some test file reported a failure

vars == <<opts, badTypes, pc, k, errors, calls, exit, failed>>

Init ==
  /\ opts \in OptionSets
  /\ badTypes \in SUBSET TypeNames
  /\ pc = "parse"
  /\ k = 1
  /\ errors = 0
  /\ calls = <<>>
  /\ exit = None
  /\ failed = FALSE

Stop(code) == pc' = "done" /\ exit' = code

(* opts.parse(argv) and the LibraryInitializer: an unknown option or a   *)
(* bad --init string throws, caught at line 109 with return 1.           *)
Parse ==
  /\ pc = "parse"
  /\ \/ Stop(1)
     \/ pc' = "help" /\ UNCHANGED exit
  /\ UNCHANGED <<opts, badTypes, k, errors, calls, failed>>

(* --help, or no argument at all, prints the options and returns 1;      *)
(* --validate returns validate(); otherwise --seconds is checked.         *)
Dispatch ==
  /\ pc = "help"
  /\ CASE opts.help \/ ~opts.args -> Stop(1)
       [] opts.validate            -> pc' = "types" /\ UNCHANGED exit
       [] OTHER                    -> pc' = "seconds" /\ UNCHANGED exit
  /\ UNCHANGED <<opts, badTypes, k, errors, calls, failed>>

(* test_types(): passed = passed && test<T>(...) for each type, so the   *)
(* first wrong type stops the checks; any wrong one makes std::exit(1).  *)
TestTypes ==
  /\ pc = "types"
  /\ IF badTypes # {} THEN Stop(1) ELSE pc' = "files" /\ UNCHANGED exit
  /\ UNCHANGED <<opts, badTypes, k, errors, calls, failed>>

(* errors = the failures of the file alone.                               *)
ValidateFileAssign ==
  /\ pc = "files"
  /\ k <= Len(Files)
  /\ \/ Stop(1) /\ UNCHANGED <<k, errors, failed>>
     \/ \E e \in 0 .. MaxErrors :
          /\ errors' = e
          /\ failed' = (failed \/ e > 0)
          /\ k' = k + 1
          /\ UNCHANGED <<pc, exit>>
  /\ UNCHANGED <<opts, badTypes, calls>>

(* errors += do_..._tests(file) for the next file; any exception is       *)
(* caught and validate() returns 1.                                       *)
ValidateFile ==
  /\ pc = "files"
  /\ k <= Len(Files)
  /\ \/ Stop(1) /\ UNCHANGED <<k, errors, failed>>
     \/ \E e \in 0 .. MaxErrors :
          /\ errors' = errors + e
          /\ failed' = (failed \/ e > 0)
          /\ k' = k + 1
          /\ UNCHANGED <<pc, exit>>
  /\ UNCHANGED <<opts, badTypes, calls>>

(* validate() returning the count of failures.                          *)
ReportCount ==
  /\ pc = "files"
  /\ k > Len(Files)
  /\ Stop(errors)
  /\ UNCHANGED <<opts, badTypes, k, errors, calls, failed>>

(* if(errors) return 1; else "All tests passed!" and return 0.            *)
Report ==
  /\ pc = "files"
  /\ k > Len(Files)
  /\ Stop(IF errors # 0 THEN 1 ELSE 0)
  /\ UNCHANGED <<opts, badTypes, k, errors, calls, failed>>

(* if((seconds < 0.1 || seconds > 30) && seconds != 0) return 2: the test *)
(* fails, and --bench-algo follows, when --seconds is absent, 0, within    *)
(* [0.1, 30], or NaN, for which both comparisons are false.              *)
SecondsOK(s) == s = None \/ s = NaN \/ s = 0 \/ (10 <= s /\ s <= 3000)

CheckSeconds ==
  /\ pc = "seconds"
  /\ IF SecondsOK(opts.seconds)
       THEN pc' = "algos" /\ k' = 1 /\ UNCHANGED exit
       ELSE Stop(2) /\ UNCHANGED k
  /\ UNCHANGED <<opts, badTypes, errors, calls, failed>>

(* One pass of the --bench-algo loop: bench_algo, then bench_pk when the  *)
(* name was not found.                                                    *)
BenchAlgo ==
  /\ pc = "algos"
  /\ k <= Len(opts.algos)
  /\ LET a == opts.algos[k]
     IN calls' = IF a \in SymAlgs THEN Append(calls, <<"bench_algo", a>>)
                 ELSE calls \o <<<<"bench_algo", a>>, <<"bench_pk", a>>>>
  /\ k' = k + 1
  /\ UNCHANGED <<opts, badTypes, pc, errors, exit, failed>>

(* --benchmark, else --bench-type through the dispatch (an unknown type   *)
(* does nothing); main() returns 0.                                       *)
BenchType ==
  /\ pc = "algos"
  /\ k > Len(opts.algos)
  /\ calls' = CASE opts.benchmark -> Append(calls, <<"benchmark", "All">>)
                [] opts.type \in DOMAIN TypeDispatch
                                -> Append(calls, TypeDispatch[opts.type])
                [] OTHER        -> calls
  /\ Stop(0)
  /\ UNCHANGED <<opts, badTypes, k, errors, failed>>

Next == Parse \/ Dispatch \/ TestTypes \/ ValidateFile \/ Report
          \/ CheckSeconds \/ BenchAlgo \/ BenchType

Spec == Init /\ [][Next]_vars

-----------------------------------------------------------------------------
(* Properties *)

TypeOK ==
  /\ pc \in {"parse", "help", "types", "files", "seconds", "algos", "done"}
  /\ errors \in 0 .. Len(Files) * MaxErrors
  /\ exit \in {None, 0, 1, 2}

(* validate() returns 0 only when the types are right and all four files *)
(* were read to the end without any failure: no failure of an earlier    *)
(* file is lost from the sum, and no file is left unread.                 *)
ValidationVerdict ==
  pc = "done" /\ exit = 0 /\ opts.validate /\ ~opts.help /\ opts.args =>
    /\ badTypes = {}
    /\ k = Len(Files) + 1
    /\ ~failed

(* A benchmark runs only with the default time, 0, or a --seconds value   *)
(* between 0.1 and 30 seconds.                                             *)
BenchmarkSecondsChecked ==
  calls # <<>> => opts.seconds \in {None, 0} \cup 10 .. 3000

(* The --help text offers --bench-type={block,mode,stream,hash,mac,rng,pk}: *)
(* each of these, given alone, runs some benchmark.                         *)
HelpTypesRun ==
  pc = "done" /\ exit = 0 /\ opts.type \in HelpTypes
    /\ ~opts.benchmark /\ opts.algos = <<>> => calls # <<>>

=============================================================================

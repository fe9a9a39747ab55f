---------------------------- MODULE MCCheckDriver ----------------------------
(* Command lines with and without --help, --validate and --benchmark;     *)
(* --bench-type absent, "mode", "block" or "pk"; --bench-algo absent, a   *)
(* known name, or an unknown name then a known one; --seconds absent, 0,  *)
(* 0.05, 30, 30.01 and "nan"; and the command line with no argument.      *)
EXTENDS CheckDriver

MCOptionSets ==
  [help : BOOLEAN, args : {TRUE}, validate : BOOLEAN, benchmark : BOOLEAN,
   type : {None, "mode", "block", "pk"},
   algos : {<<>>, <<"AES">>, <<"RSA", "AES">>},
   seconds : {None, 0, 5, 3000, 3001, NaN}]
  \cup {[help |-> FALSE, args |-> FALSE, validate |-> FALSE, benchmark |-> FALSE,
         type |-> None, algos |-> <<>>, seconds |-> None]}
=============================================================================

---------------------------- MODULE MCBzipExample ----------------------------
(* Two base names, a and b.  a exists plain and compressed; b is missing   *)
(* and b.bz2 holds data that is not a bzip2 stream; a.bz2.bz2 cannot be    *)
(* written.                                                                *)
EXTENDS BzipExample

CONSTANTS a, b, p1, p2

MCFS0 ==
  [n \in Name |->
     CASE n = <<a, 0>> -> [data |-> p1, z |-> 0]
       [] n = <<a, 1>> -> [data |-> p1, z |-> 1]
       [] n = <<b, 1>> -> [data |-> p2, z |-> 0]
       [] OTHER        -> Absent]

MCUnwritable == {<<a, 2>>}
=============================================================================

---------------------------- MODULE SecureBuffer ----------------------------
(***************************************************************************)
(* The operations of SecureBuffer / SecureVector (MemoryRegion) that the  *)
(* modelled components use.  The class is not among the repository's      *)
(* sources; these follow section 4.1 of the specification: storage is     *)
(* created zeroed, clear() zeroes it in place, and copy() writes into the  *)
(* existing storage without growing it.                                    *)
(***************************************************************************)
EXTENDS Naturals

(* create(n), or clear() of a region of n elements. *)
Zeroed(n) == [j \in 1 .. n |-> 0]

(* copy(off, in, n): the n elements of in written from offset off, cut at *)
(* the end of the region; the rest of the region keeps its contents.      *)
BufferCopy(buf, off, in, n) ==
  [j \in DOMAIN buf |-> IF off < j /\ j <= off + n THEN in[j - off] ELSE buf[j]]

=============================================================================

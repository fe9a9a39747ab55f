------------------------------- MODULE MCCMAC -------------------------------
(***************************************************************************)
(* CMAC over a toy 2-byte block cipher.  The cipher is an affine           *)
(* permutation of the 16-bit block value whose offset depends on the       *)
(* schedule; key 3 makes E(0) have its top bit set, key 1 does not, so    *)
(* both branches of poly_double are taken when the subkeys are derived.    *)
(***************************************************************************)
EXTENDS CMAC

MCEncrypt(k, b) == NatToBlock((BlockToNat(b) * 26125 + k * 12345) % 65536)

=============================================================================

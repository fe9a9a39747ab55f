---------------------------- MODULE MCOpenPGPS2K ----------------------------
(***************************************************************************)
(* derive() over short passphrases and salts, iteration counts below,     *)
(* between and above |salt| + |passphrase|, and key lengths of 0 to 2.5   *)
(* digests of the 20-byte SHA-1.  MCEmpty* is the call with neither salt *)
(* nor passphrase.                                                        *)
(***************************************************************************)
EXTENDS OpenPGPS2K

MCPassphrases == {<<"p">>, <<"p", "q">>}
MCSalts       == {<<>>, <<"s">>, <<"s", "t">>}

MCEmptyPassphrases == {<<>>}
MCEmptySalts       == {<<>>}

=============================================================================

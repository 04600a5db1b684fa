----------------------------- MODULE EventHash ------------------------------
(***************************************************************************)
(* MLCBConfig::makeHash, computed as the code does on 16-bit node and event *)
(* numbers and an 8-bit result.                                            *)
(***************************************************************************)
EXTENDS Integers, Bitwise

HASH_LENGTH == 128

\* x ^ (x >> 8) of a 16-bit number, cut to the byte the result is stored in.
foldByte(hi, lo) == (hi * 256 + lo) ^^ hi

eventHash(tarr) ==
    LET nn == foldByte(tarr[0], tarr[1]) % 256
        en == foldByte(tarr[2], tarr[3])
        hash == ((7 * nn + en) % 256) % HASH_LENGTH
    IN  IF hash = 0 THEN 255 ELSE hash

=============================================================================

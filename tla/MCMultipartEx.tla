---------------------------- MODULE MCMultipartEx ----------------------------
(***************************************************************************)
(* The instance of MultipartEx that TLC checks: node 1 uses CRCs and sends  *)
(* messages with and without a zero byte, node 2 does not and sends some    *)
(* that are longer than the receiver's buffer.                              *)
(***************************************************************************)
EXTENDS MultipartEx

MCMessages == [s \in Sender |-> IF s \in CrcSenders THEN {<<3, 0>>, <<3, 1>>} ELSE {<<3, 0>>, <<4, 0>>}]

=============================================================================

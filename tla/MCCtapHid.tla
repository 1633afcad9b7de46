---------------------------- MODULE MCCtapHid ----------------------------
(* CtapHid for TLC: both kinds of request, a lenient caller.              *)
EXTENDS CtapHid

MCCommands == {"cbor", "vendor"}
==========================================================================

----------------------------- MODULE MCPkceLogin -----------------------------
(* Two flows, one of which two people sign in over.                         *)
EXTENDS PkceLogin

CONSTANTS f1, f2, p1, p2
MCCodes == {<<f1, p1>>, <<f1, p2>>}
=============================================================================

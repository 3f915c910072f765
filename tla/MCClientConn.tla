---------------------------- MODULE MCClientConn ----------------------------
(* ClientConn for TLC: one object is 55 000 states, two are more than twelve *)
(* million; ViewerSession checks two, as far as the program uses them.       *)
EXTENDS ClientConn
=============================================================================

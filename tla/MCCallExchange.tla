--------------------------- MODULE MCCallExchange ---------------------------
(* Three users and two calls, any client: Carol calls Alice while Alice's   *)
(* call to Bob rings, is answered, ends, or has ended but is still          *)
(* registered.                                                              *)
EXTENDS CallExchange

CONSTANTS alice, bob, carol

MCUsers == {alice, bob, carol}
=============================================================================

----------------------------- MODULE MCFedMail -----------------------------
(***************************************************************************)
(* Two messages of one sender to one peer: m1 to a user there who is on    *)
(* vacation, m2 to nobody.                                                 *)
(***************************************************************************)
EXTENDS FedMail

CONSTANTS m1, m2
=============================================================================

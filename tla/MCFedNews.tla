----------------------------- MODULE MCFedNews -----------------------------
(* An article of a plain group and one of a moderated group, two syncs.    *)
EXTENDS FedNews

CONSTANTS a1, a2
=============================================================================

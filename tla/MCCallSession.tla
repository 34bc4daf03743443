--------------------------- MODULE MCCallSession ---------------------------
(* Alice on one terminal and Bob on two: one of Bob's may answer while the *)
(* other declines, and Alice and Bob may call each other at once.          *)
EXTENDS CallSession

CONSTANTS alice, bob, aliceWeb, bobWeb, bobOther

MCUsers == {alice, bob}
MCSessions == {aliceWeb, bobWeb, bobOther}
MCUserOf == [s \in MCSessions |-> IF s = aliceWeb THEN alice ELSE bob]
MCWeb == MCSessions
=============================================================================

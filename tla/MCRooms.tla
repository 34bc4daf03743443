------------------------------ MODULE MCRooms ------------------------------
(* One talk room of Alice and Bob.  Alice's session has two handles, as    *)
(* when two relays of one pair meet or a second media socket is turned     *)
(* away; Mallory is not a participant.                                     *)
EXTENDS RoomLocks

CONSTANTS a1, a2, b, m, alice, bob, mallory

MCHandles == {a1, a2, b, m}
MCUserOf == [h \in MCHandles |->
    CASE h \in {a1, a2} -> alice [] h = b -> bob [] h = m -> mallory]
MCSessionOf == [h \in MCHandles |-> <<"session of", MCUserOf[h]>>]
MCParticipants == [n \in Names |-> {alice, bob}]
=============================================================================

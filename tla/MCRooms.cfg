CONSTANTS
    a1 = a1
    a2 = a2
    b = b
    m = m
    alice = alice
    bob = bob
    mallory = mallory
    Names = {"talk"}
    Handles <- MCHandles
    SessionOf <- MCSessionOf
    UserOf <- MCUserOf
    Participants <- MCParticipants
    Payloads = {"hi"}
    Cap = 1
    Outside = Outside
    Nothing = Nothing
    Free = Free
SPECIFICATION LocksSpec
INVARIANTS RegistryIsExact HearsOnlyPeers NeverSendsOnClosed
PROPERTIES ImplementsRooms BrokerIsReleased

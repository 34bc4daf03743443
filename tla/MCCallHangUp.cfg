CONSTANTS
    alice = alice
    bob = bob
    aliceWeb = aliceWeb
    bobWeb = bobWeb
    bobOther = bobOther
    Users <- MCUsers
    Sessions <- MCSessions
    UserOf <- MCUserOf
    Web <- MCWeb
    CallIds = {1}
    Nobody = Nobody
    NoCall = NoCall
    ClientReasons = {"declined", "unreachable", "hung up", "canceled", "connection lost", "media link lost"}
SPECIFICATION SessionSpec
PROPERTIES ActiveEndsByHangUp
CHECK_DEADLOCK FALSE

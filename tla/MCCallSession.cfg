\* One call: what a terminal holds of a call is gone before its next command.
CONSTANTS
    alice = alice
    bob = bob
    aliceWeb = aliceWeb
    bobWeb = bobWeb
    bobOther = bobOther
    Users <- MCUsers
    Sessions <- MCSessions
    UserOf <- MCUserOf
    Web <- MCWeb
    CallIds = {1}
    Nobody = Nobody
    ClientReasons = {"declined", "unreachable", "hung up", "canceled", "connection lost", "media link lost"}
    NoCall = NoCall
SPECIFICATION FairSessionSpec
INVARIANTS OneTerminalPerSide LiveCallIsAttended PanelFollowsTerminal
PROPERTIES HangUpReturns
\* Every user may stay at the prompt.
CHECK_DEADLOCK FALSE

CONSTANTS
    alice = alice
    bob = bob
    carol = carol
    Users <- MCUsers
    CallIds = {1, 2}
    Nobody = Nobody
    ClientReasons = {"declined", "hung up"}
SPECIFICATION FairSpec
INVARIANTS Exclusive
PROPERTIES EndedFreesBoth ImplementsTelephone
\* Users may stop calling, and the ids of a bounded run are used up.
CHECK_DEADLOCK FALSE

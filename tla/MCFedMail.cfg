CONSTANTS
    m1 = m1
    m2 = m2
    Messages = {m1, m2}
    Remote = {m1, m2}
    Unknown = {m2}
    MailPerHour = 2
    Terminals = 1
    Failing = {"lookup", "delete", "reschedule", "user", "check", "record", "reply"}
    MaxFaults = 1
    NoMessage = NoMessage
SPECIFICATION FairSpec
INVARIANTS NothingVanishes OneFateUnlessInDoubt OneAutoReply
PROPERTIES ImplementsStoreForward

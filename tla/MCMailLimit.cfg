CONSTANTS
    m1 = m1
    m2 = m2
    Messages = {m1, m2}
    Remote = {m1}
    Unknown = {}
    MailPerHour = 1
    Terminals = 1
    Failing = {}
    MaxFaults = 0
    NoMessage = NoMessage
SPECIFICATION Spec
INVARIANTS HourlyLimit

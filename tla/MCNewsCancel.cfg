CONSTANTS
    a1 = a1
    a2 = a2
    Articles = {a1, a2}
    Moderated = {a2}
    Disliked = {a2}
    Syncs = {"ticker", "added"}
    Hourly = "ticker"
    BatchLimit = 1
    Writers = 2
    MaxTime = 3
    MaxBreaks = 1
SPECIFICATION Spec
INVARIANTS LocalCancelStays

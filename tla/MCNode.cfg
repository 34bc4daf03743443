CONSTANTS
    A = A
    B = B
    t1 = t1
    t2 = t2
    t3 = t3
    p1 = p1
    p2 = p2
    b1 = b1
    b2 = b2
    b3 = b3
    r1 = r1
    r2 = r2
    c1 = c1
    c2 = c2
    s1 = s1
    s2 = s2
    s3 = s3
    s4 = s4
    alice = alice
    bob = bob
    carol = carol
    root = root
    wire = wire
    gate = gate
    Nodes = {A, B}
    Terminals = {t1, t2, t3}
    NodeOf <- MCNodeOf
    Casts <- MCCasts
    Cap = 5
    Nowhere = Nowhere
    NoData = NoData
    Peers = {p1, p2}
    PeerName <- MCPeerName
    Me = alice
    rows = 7
    cols = 2
    Lengths = {1, 3}
    Lines = {b1, b2, b3, r1, r2}
    Owner <- MCOwner
    Web = {b1, r1}
    Wire <- MCWire
    Admins = {root}
    NoticeCap = 1
    Uses <- MCUses
    NoEntry = NoEntry
    Nothing = Nothing
    Clients = {c1, c2}
    Names = {bob}
    MailOf <- MCMailOf
    IpOf <- MCIpOf
    maxConfirmAttempts = 2
    MaxEvents = 2
    Window = 3
    Lag = 1
    MaxTime = 5
    MaxIds = 2
    MaxSlips = 1
    Errands <- MCErrands
    Nobody = Nobody
    NoRow = NoRow
    NoRequest = NoRequest
    Seats = {s1, s2, s3, s4}
    Sitter <- MCSitter
    Chiefs = {root}
    ListNames = {carol}
    Fortunes = {1, 2, 3}
    DailyLimit = 1
    MaxLists = 2
    Agendas <- MCAgendas
    NoList = NoList
    Unsent = Unsent
    Idle = Idle
SPECIFICATION MCSpec
INVARIANTS
    NoEcho NobodyTalksToNobody InkStaysInPane TablesAgree SignupIsBounded CommunityIsOrderly
PROPERTIES OffMeansOff
\* Nobody has to do anything, and bounded matters come to an end.
CHECK_DEADLOCK FALSE

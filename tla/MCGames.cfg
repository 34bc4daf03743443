CONSTANTS
    a1 = a1
    a2 = a2
    b1 = b1
    alice = alice
    bob = bob
    Sessions = {a1, a2, b1}
    UserOf <- MCUserOf
    Games = {"chess", "trade", "wumpus"}
    Guests <- MCGuests
    GameIds = {1}
    MaxOpen = 1
    MaxMoves = 3
    MaxScores = 2
    NoGame = NoGame
    Nobody = Nobody
    Sectors = {1, 2, 3}
    Home = 1
    Warps <- MCWarps
    Ports = {2, 3}
    Dealt = {"ore"}
    BasePrice <- MCBasePrice
    Buys <- MCBuys
    Stock0 <- MCStock
    Holds = 30
    Purse = 700
    Daily = 2
    Quantities = {30}
    Orders <- MCOrders
    NodeZone = 1
    BaseZone = 0
    Pauses = {11, 13}
    FirstHour = 12
    MaxHour = 25
    MaxLate = 2
    NoShip = NoShip
    Caves = {1, 2, 3, 4, 5, 6, 7, 8, 9, 10, 11, 12, 13, 14, 15, 16, 17, 18, 19, 20}
    Tunnels <- MCTunnels
    Lairs <- MCLairs
    Quiver = 5
    MaxWins = 1
    Start <- MCStart
    Published <- MCPublished
    Unset = Unset
SPECIFICATION MCSpec
INVARIANTS
    PositionIsSound CountsAsPublished NotationTellsMovesApart
    StoredListReplays WonGameScoredOnce ShipIsSound BudgetIsKept HuntIsFair
PROPERTIES ListIsTheTruth WarpsFollowTheMap
\* Sessions may stay at the prompt, and a bounded game comes to its end.
CHECK_DEADLOCK FALSE

------------------------------- MODULE Trade --------------------------------
(***************************************************************************)
(* Star Trade, internal/games/trade/trade.go and internal/db/trade.go:     *)
(* ships, ports and the daily budget of turns.  A command is a chain of    *)
(* statements; each statement is a step, and other sessions' statements,   *)
(* hours and midnight may come in between.  The node and the database each *)
(* have a calendar: the node's decides whether a budget is past, the       *)
(* database's is what is written beside it.                                *)
(***************************************************************************)
EXTENDS GamesHost

CONSTANTS
    Sectors, Home,  \* trade_sectors.id; the sector a new ship starts in (1)
    Warps,          \* Warps[n] : the sectors next to n
    Ports,          \* the sectors with a port
    BasePrice,      \* BasePrice[g]
    Buys,           \* Buys[n][g] : the port buys g (else it sells g)
    Stock0,         \* Stock0[n][g] : stock when the universe is charted
    Holds, Purse,   \* a new ship's holds and credits (30, 1000)
    Daily,          \* turns a day (40 unless configured)
    NodeZone, BaseZone, \* hours by which the calendars of the node's time zone
                        \* and of the database session's are ahead of `hour`
    Dealt, Quantities, \* bound: the goods that are dealt in, and how many at once
    Orders,         \* bound: Orders[s], the verbs that s types
    Pauses,         \* bound: hours that pass at once
    FirstHour, MaxHour, \* bound: the hours of a run, counted from a midnight
    MaxLate,        \* bound: the budgets of a user that are written late
    NoShip          \* a user without a row in trade_players

VARIABLES
    charted,        \* whether trade_sectors and trade_ports are filled
    ship,           \* trade_players
    stock, touched, \* trade_ports : stock, and the hour of updated_at
    hour,           \* time, in hours since some midnight
    late,           \* history: how many budgets of u were written under a date
                    \* that the node's calendar had already left
    spent,          \* turns spent since a budget was first granted for the day,
                    \* or since it was first written late
    job             \* where a session is in Play: [at, cmd, sector, stock]

tradeVars == <<charted, ship, stock, touched, hour, late, spent, job>>

today == (hour + NodeZone) \div 24           \* today(), by the node's calendar
current_date == (hour + BaseZone) \div 24    \* CURRENT_DATE, by the database's

Goods == {"ore", "organics", "equipment"}
Verbs == {"look", "board", "arrive", "map", "survey", "warp", "buy", "sell"}

\* Rows of trade_players and of trade_ports.
ShipRow == [sector : Sectors, credits : Int, turns : Int, cargo : [Goods -> Int], day : Int]
PortRow == [Goods -> Int]

ASSUME TradeAssumption ==
    /\ Sectors \subseteq Nat /\ Home \in Sectors /\ Warps \in [Sectors -> SUBSET Sectors] /\ Ports \subseteq Sectors
    /\ BasePrice \in [Goods -> Nat]
    /\ Buys \in [Ports -> [Goods -> BOOLEAN]] /\ Stock0 \in [Ports -> PortRow]
    /\ Holds \in Nat /\ Purse \in Nat /\ Daily \in Nat \ {0}
    /\ Dealt \subseteq Goods /\ Quantities \subseteq Nat /\ Pauses \subseteq Nat
    /\ FirstHour \in Nat /\ NodeZone \in Nat /\ BaseZone \in Nat
    /\ NoShip \notin ShipRow

ASSUME SessionsAssumption == IsFiniteSet(Sessions)

Look  == [verb |-> "look"]
Board == [verb |-> "board"]
Arrive == [verb |-> "arrive"]
Map == [verb |-> "map"]
Survey(left) == [verb |-> "survey", left |-> left]
WarpTo(n) == [verb |-> "warp", to |-> n]
Deal(verb, g, q) == [verb |-> verb, good |-> g, qty |-> q]

Job(at, cmd, sector, held) == [at |-> at, cmd |-> cmd, sector |-> sector, stock |-> held]
Idle == Job("prompt", Look, Home, NoShip)
Proceed(s, at, cmd, sector, held) == job' = [job EXCEPT ![s] = Job(at, cmd, sector, held)]
Prompt(s) == job' = [job EXCEPT ![s] = Idle]

TradeInit ==
    /\ charted = FALSE
    /\ ship = [u \in Users |-> NoShip]
    /\ stock = Stock0
    /\ touched = [n \in Ports |-> FirstHour]
    /\ hour = FirstHour
    /\ spent = [u \in Users |-> 0]
    /\ late = [u \in Users |-> 0]
    /\ job = [s \in Sessions |-> Idle]

-----------------------------------------------------------------------------
\* Arithmetic

Quotient(a, b) == IF a >= 0 THEN a \div b ELSE -((-a) \div b)     \* Go's division
Clamped(n) == IF n < 0 THEN 0 ELSE IF n > 1000 THEN 1000 ELSE n

\* price: 1.2 times base when scarce, 0.8 times when glutted.
price(g, n) ==
    LET p == (BasePrice[g] * (1200 - (Clamped(n) * 400) \div 1000)) \div 1000
    IN IF p < 1 THEN 1 ELSE p

Equilibrium(n, g) == IF Buys[n][g] THEN 200 ELSE 800

\* GetTradePort's lazy drift since updated_at, a day's at most.
Hours(n) == IF hour - touched[n] > 24 THEN 24 ELSE hour - touched[n]
Drifted(n) == [g \in Goods |-> stock[n][g] +
                                Quotient((Equilibrium(n, g) - stock[n][g]) * Hours(n), 12)]

Aboard(p) == p.cargo["ore"] + p.cargo["organics"] + p.cargo["equipment"]

-----------------------------------------------------------------------------
\* Faulty variants, each told from the code by a property of the run

\* Adds the cargo without asking for room.
FitsAnything(p, cost, qty) == p.credits >= cost

\* Takes any sector for a neighbour.
AdjacentAnywhere(n, to) == to \in Sectors

\* Grants the budget again on its own day.
BudgetIsPastToday(p) == p.day <= today

-----------------------------------------------------------------------------
\* Loading the ship: GetOrCreateTradePlayer

\* TurnsDay.Before(today()).
BudgetIsPast(p) == p.day < today

\* The row is read.  A missing ship is inserted and a past budget renewed by a
\* second statement; look asks for a budget of 1, everything else for Daily.
\* (status and port do what a refused warp and a refused deal do.)
Load(s, cmd) ==
    LET p == ship[UserOf[s]]
    IN CASE p = NoShip -> Proceed(s, "minting", cmd, Home, NoShip)
         [] p # NoShip /\ BudgetIsPast(p) -> Proceed(s, "renewing", cmd, p.sector, NoShip)
         [] OTHER -> Proceed(s, "loaded", cmd, p.sector, NoShip)

Grant(cmd) == IF cmd.verb = "look" THEN 1 ELSE Daily

\* What a grant is written under is CURRENT_DATE.
Dated(u) == late' = [late EXCEPT ![u] = IF current_date < today THEN @ + 1 ELSE @]

\* Of two inserts the second fails on the primary key: "could not board".
Mint(s) ==
    LET u == UserOf[s]
    IN /\ job[s].at = "minting"
       /\ IF ship[u] = NoShip
          THEN /\ ship' = [ship EXCEPT ![u] = [sector |-> Home, credits |-> Purse, turns |-> Grant(job[s].cmd),
                                               cargo |-> [g \in Goods |-> 0], day |-> current_date]]
               /\ Dated(u)
               /\ Proceed(s, "loaded", job[s].cmd, Home, NoShip)
               /\ UNCHANGED hostVars
          ELSE Prompt(s) /\ QuitGame(s) /\ UNCHANGED <<ship, late>>
       /\ UNCHANGED <<charted, stock, touched, hour, spent>>

Renew(s) ==
    LET u == UserOf[s]
    IN /\ job[s].at = "renewing"
       /\ current_date < today => late[u] < MaxLate
       /\ ship' = [ship EXCEPT ![u].turns = Grant(job[s].cmd), ![u].day = current_date]
       /\ spent' = [spent EXCEPT ![u] = IF ship[u].day < today /\ late[u] = 0 THEN 0 ELSE @]
       /\ Dated(u)
       /\ Proceed(s, "loaded", job[s].cmd, job[s].sector, NoShip)
       /\ UNCHANGED <<charted, stock, touched, hour, hostVars>>

-----------------------------------------------------------------------------
\* Commands

AtPrompt(s) == playing[s] = "trade" /\ job[s].at = "prompt"

\* Play: of two sessions that chart the universe, one commits and the other
\* finds it charted.
EnterTrade(s) ==
    /\ "trade" \in Games
    /\ RunGame(s, "trade")
    /\ IF charted THEN Load(s, Board) ELSE Proceed(s, "charting", Board, Home, NoShip)
    /\ UNCHANGED <<charted, ship, stock, touched, hour, late, spent>>

GenerateTradeUniverse(s) ==
    /\ job[s].at = "charting"
    /\ charted' = TRUE
    /\ Load(s, Board)
    /\ UNCHANGED <<ship, stock, touched, hour, late, spent, hostVars>>

QuitTrade(s) == AtPrompt(s) /\ QuitGame(s) /\ UNCHANGED tradeVars

Type(s) ==
    /\ AtPrompt(s)
    /\ \E cmd \in {Look, Map} \cup {WarpTo(n) : n \in Sectors}
                  \cup {Deal(v, g, q) : v \in {"buy", "sell"}, g \in Dealt, q \in Quantities} :
          cmd.verb \in Orders[s] /\ Load(s, cmd)
    /\ UNCHANGED <<charted, ship, stock, touched, hour, late, spent, hostVars>>

\* Boarding and warping end with a look at the sector.
LookAround(s) ==
    /\ job[s].at = "loaded" /\ job[s].cmd.verb \in {"board", "arrive"}
    /\ Load(s, Look)
    /\ UNCHANGED <<charted, ship, stock, touched, hour, late, spent, hostVars>>

Adjacent(n, to) == to \in Warps[n]

\* warp: judged by the sector that was read.  TradeWarp's statement asks for a
\* turn, and no more for the sector.
Warp(s) ==
    LET u == UserOf[s]
        to == job[s].cmd.to
    IN /\ job[s].at = "loaded" /\ job[s].cmd.verb = "warp"
       /\ IF Adjacent(job[s].sector, to) /\ ship[u].turns > 0
          THEN /\ ship' = [ship EXCEPT ![u].sector = to, ![u].turns = @ - 1]
               /\ spent' = [spent EXCEPT ![u] = @ + 1]
               /\ Proceed(s, "loaded", Arrive, Home, NoShip)
          ELSE Prompt(s) /\ UNCHANGED <<ship, spent>>
       /\ UNCHANGED <<charted, stock, touched, hour, late, hostVars>>

\* showMap looks at the ports of the sectors around, one after the other.
SurveyNext(s, left) ==
    IF left = {} THEN Prompt(s)
    ELSE LET n == CHOOSE k \in left : \A m \in left : k <= m IN Proceed(s, "loaded", Survey(left \ {n}), n, NoShip)

ShowMap(s) ==
    /\ job[s].at = "loaded" /\ job[s].cmd.verb = "map"
    /\ SurveyNext(s, Warps[job[s].sector])
    /\ UNCHANGED <<charted, ship, stock, touched, hour, late, spent, hostVars>>

\* What is done with a port that has been read: look shows it, a map goes on,
\* buy and sell refuse the wrong direction or go on to the exchange.
WithPort(s, held) ==
    LET cmd == job[s].cmd
        n == job[s].sector
    IN IF cmd.verb = "survey" THEN SurveyNext(s, cmd.left)
       ELSE IF cmd.verb \in {"buy", "sell"} /\ Buys[n][cmd.good] = (cmd.verb = "sell")
       THEN Proceed(s, "dealing", cmd, n, held)
       ELSE Prompt(s)

NoPort(s) == IF job[s].cmd.verb = "survey" THEN SurveyNext(s, job[s].cmd.left) ELSE Prompt(s)

\* GetTradePort: no port, a port touched within the hour, or one whose drifted
\* stock is written back by a second statement.
ReadPort(s) ==
    LET n == job[s].sector
    IN /\ job[s].at = "loaded" /\ job[s].cmd.verb \in {"look", "survey", "buy", "sell"}
       /\ CASE n \notin Ports -> NoPort(s)
            [] n \in Ports /\ Hours(n) = 0 -> WithPort(s, stock[n])
            [] OTHER -> Proceed(s, "restocking", job[s].cmd, n, Drifted(n))
       /\ UNCHANGED <<charted, ship, stock, touched, hour, late, spent, hostVars>>

\* The write is absolute, and a failed one is not noticed.
Restock(s) ==
    LET n == job[s].sector
    IN /\ job[s].at = "restocking"
       /\ \/ /\ stock' = [stock EXCEPT ![n] = job[s].stock]
             /\ touched' = [touched EXCEPT ![n] = hour]
          \/ UNCHANGED <<stock, touched>>
       /\ WithPort(s, job[s].stock)
       /\ UNCHANGED <<charted, ship, hour, late, spent, hostVars>>

\* The guard of the buyer's row.
Fits(p, cost, qty) == p.credits >= cost /\ Aboard(p) + qty <= Holds

\* A sale is a purchase of less than nothing.
Traded(p, g, k, cost) == [p EXCEPT !.credits = @ - cost, !.cargo[g] = @ + k]

\* TradeExchange, one transaction: both rows change, or neither.
TradeExchange(s) ==
    LET u == UserOf[s]
        p == ship[u]
        n == job[s].sector
        g == job[s].cmd.good
        q == job[s].cmd.qty
        cost == price(g, job[s].stock[g]) * q
        trade(k, c) == /\ stock' = [stock EXCEPT ![n][g] = @ - k]
                       /\ touched' = [touched EXCEPT ![n] = hour]
                       /\ ship' = [ship EXCEPT ![u] = Traded(@, g, k, c)]
    IN /\ job[s].at = "dealing"
       /\ \/ job[s].cmd.verb = "buy" /\ stock[n][g] >= q /\ Fits(p, cost, q) /\ trade(q, cost)
          \/ job[s].cmd.verb = "sell" /\ p.cargo[g] >= q /\ trade(-q, -cost)
          \/ UNCHANGED <<ship, stock, touched>>      \* refused, or aborted
       /\ Prompt(s)
       /\ UNCHANGED <<charted, hour, late, spent, hostVars>>

\* A statement fails: the command is given up, boarding with the whole game.
Fails(s) ==
    /\ job[s].at \in {"minting", "renewing", "charting"}
    /\ Prompt(s)
    /\ IF job[s].cmd.verb = "board" THEN QuitGame(s) ELSE UNCHANGED hostVars
    /\ UNCHANGED <<charted, ship, stock, touched, hour, late, spent>>

TimePasses ==
    /\ \E h \in Pauses : hour + h <= MaxHour /\ hour' = hour + h
    /\ UNCHANGED <<charted, ship, stock, touched, late, spent, job, hostVars>>

TradeNext ==
    \/ TimePasses
    \/ \E s \in Sessions :
          \/ EnterTrade(s) \/ GenerateTradeUniverse(s) \/ QuitTrade(s) \/ Type(s) \/ LookAround(s)
          \/ ShowMap(s) \/ Mint(s) \/ Renew(s) \/ Warp(s) \/ ReadPort(s) \/ Restock(s)
          \/ TradeExchange(s) \/ Fails(s)

TradeSpec == HostInit /\ TradeInit /\ [][TradeNext]_<<hostVars, tradeVars>>

-----------------------------------------------------------------------------
\* Properties

Ships == {u \in Users : ship[u] # NoShip}

\* The guards in SQL keep concurrent sessions honest (db/trade.go:231): from
\* whatever stale copies they deal, nobody owes credits, cargo or turns, or
\* carries more than the holds.
ShipIsSound ==
    \A u \in Ships : /\ ship[u].credits >= 0
                     /\ ship[u].turns \in 0..Daily
                     /\ \A g \in Goods : ship[u].cargo[g] >= 0
                     /\ Aboard(ship[u]) <= Holds

\* A ship flies along the warps, for a user who plays in one session.
WarpsFollowTheMap ==
    []["twice" \notin excused' => \A u \in Ships :
            ship'[u].sector \in Warps[ship[u].sector] \cup {ship[u].sector}]_<<hostVars, tradeVars>>

\* Nor does such a user spend more in a day than the day's budget, wherever
\* midnight falls between the statements; and one who plays in several sessions
\* gets at most one budget for each of them.  All this as long as no grant was
\* written under a date already past by the node's calendar, where the
\* database's is behind (db/trade.go:219, 225): it is then granted again at
\* every command.
Seats(u) == {s \in Sessions : UserOf[s] = u}

BudgetIsKept ==
    \A u \in Ships : late[u] = 0 =>
        spent[u] + ship[u].turns <= Daily * (IF "twice" \in excused THEN Cardinality(Seats(u)) ELSE 1)
=============================================================================

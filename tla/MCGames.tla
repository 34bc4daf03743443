------------------------------ MODULE MCGames -------------------------------
(* A user with two sessions and one with a single one: each behaviour is    *)
(* about one of the games, or about the chess engine on its own, so that    *)
(* the state spaces add up.                                                 *)
EXTENDS ChessPositions, ChessGame, Trade, Wumpus, TLC

CONSTANTS a1, a2, b1, alice, bob

VARIABLES arena     \* what this behaviour is about

MCUserOf == (a1 :> alice) @@ (a2 :> alice) @@ (b1 :> bob)
MCGuests == [g \in Games |-> CASE g = "chess" -> {a1, a2, b1} [] g = "trade" -> {a1, a2}
                                [] g = "wumpus" -> {a1}]

\* Star Trade: home has no port, one port sells ore and the next buys it.
MCWarps == [n \in 1..3 |-> CASE n = 1 -> {2} [] n = 2 -> {1, 3} [] n = 3 -> {2}]
MCBasePrice == [g \in Goods |-> CASE g = "ore" -> 25 [] g = "organics" -> 45 [] g = "equipment" -> 90]
MCBuys == [n \in {2, 3} |-> [g \in Goods |-> n = 3]]
MCOrders == (a1 :> {"look", "warp", "buy", "sell"}) @@ (a2 :> {"map", "warp", "buy"}) @@ (b1 :> {})
MCStock == [n \in {2, 3} |-> [g \in Goods |-> IF g = "ore" THEN 899 ELSE Equilibrium(n, g)]]

\* The dodecahedron.
MCTunnels == [r \in 1..20 |->
    <<{2, 5, 8}, {1, 3, 10}, {2, 4, 12}, {3, 5, 14}, {1, 4, 6},
      {5, 7, 15}, {6, 8, 17}, {1, 7, 9}, {8, 10, 18}, {2, 9, 11},
      {10, 12, 19}, {3, 11, 13}, {12, 14, 20}, {4, 13, 15}, {6, 14, 16},
      {15, 17, 20}, {7, 16, 18}, {9, 17, 19}, {11, 18, 20}, {13, 16, 19}>>[r]]
MCLairs == {[player |-> 1, wumpus |-> 12, pits |-> {4, 17}, bats |-> {3, 16}]}

MCInit ==
    /\ arena \in Games \cup {"engine"}
    /\ HostInit /\ ChessInit /\ TradeInit /\ WumpusInit /\ RulesInit

MCNext ==
    \/ arena = "chess"  /\ ChessNext  /\ UNCHANGED <<tradeVars, wumpusVars, rulesVars>>
    \/ arena = "trade"  /\ TradeNext  /\ UNCHANGED <<chessVars, wumpusVars, rulesVars>>
    \/ arena = "wumpus" /\ WumpusNext /\ UNCHANGED <<chessVars, tradeVars, rulesVars>>
    \/ arena = "engine" /\ RulesNext  /\ UNCHANGED <<hostVars, chessVars, tradeVars, wumpusVars>>

MCSpec ==
    MCInit /\ [][MCNext /\ UNCHANGED arena]_<<arena, hostVars, chessVars, tradeVars, wumpusVars, rulesVars>>
=============================================================================

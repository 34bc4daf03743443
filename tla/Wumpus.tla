------------------------------- MODULE Wumpus -------------------------------
(***************************************************************************)
(* Hunt the Wumpus, internal/games/wumpus/wumpus.go: one hunt per session, *)
(* in memory, and a score for each win.  A roll of the dice is a choice    *)
(* over its outcomes.                                                      *)
(***************************************************************************)
EXTENDS GamesHost

CONSTANTS
    Caves,      \* rooms 1..20
    Tunnels,    \* Tunnels[r] : the rooms next to r, each another room
    Lairs,      \* bound: placements [player, wumpus, pits, bats] a hunt starts from
    Quiver,     \* arrows of a hunt (5)
    MaxWins     \* bound: scores of one user

VARIABLES
    hunt,       \* the hunt of a session: a placement, arrows and how it ended
    wins        \* game_scores of kind win, per user

wumpusVars == <<hunt, wins>>

Ends == {"on", "pit", "eaten", "won", "shot", "arrowless"}
Lair == [player : Caves, wumpus : Caves, pits : SUBSET Caves, bats : SUBSET Caves]
HuntRow == [player : Caves, wumpus : Caves, pits : SUBSET Caves, bats : SUBSET Caves,
            arrows : 0..Quiver, end : Ends]

ASSUME WumpusAssumption ==
    /\ Quiver \in Nat \ {0}
    /\ Tunnels \in [Caves -> SUBSET Caves] /\ \A r \in Caves : r \notin Tunnels[r]
    /\ Lairs \subseteq Lair

NoHunt == [end |-> "none"]
Hunts(s) == playing[s] = "wumpus" /\ hunt[s].end = "on"
Ended(h, end) == [h EXCEPT !.end = end]

WumpusInit ==
    /\ hunt = [s \in Sessions |-> NoHunt]
    /\ wins = [u \in Users |-> 0]

-----------------------------------------------------------------------------
\* Faulty variants, each told from the code by a property of the run

\* Sets the player down and looks no further.
EnterRoomOnce(h) ==
    IF h.player \in h.bats THEN {[h EXCEPT !.player = r] : r \in Caves} ELSE {h}

-----------------------------------------------------------------------------

warnings(h) ==
    {hint \in {"smell", "draft", "bats"} : \E r \in Tunnels[h.player] :
        r \in CASE hint = "smell" -> {h.wumpus}
                [] hint = "draft" -> h.pits
                [] hint = "bats" -> h.bats}

\* A bumped wumpus eats the player or shambles off; the bats of the room, if
\* any, are not asked any more.
Bump(h) == {Ended(h, "eaten")} \cup {[h EXCEPT !.wumpus = r] : r \in Tunnels[h.wumpus]}

\* enterRoom: pits before the wumpus before bats.  A ride ends in a room that
\* is not the bats', or that the wumpus shares with them.
Landings(h) ==
    IF h.player \in h.bats \ (h.pits \cup {h.wumpus}) THEN Caves \ (h.bats \ {h.wumpus}) ELSE {h.player}

Land(h) ==
    IF h.player \in h.pits THEN {Ended(h, "pit")} ELSE IF h.player = h.wumpus THEN Bump(h) ELSE {h}

enterRoom(h) == UNION {Land([h EXCEPT !.player = r]) : r \in Landings(h)}

\* newState and the first enterRoom.
Begin(s) ==
    \E lair \in Lairs :
        \E h \in enterRoom([player |-> lair.player, wumpus |-> lair.wumpus, pits |-> lair.pits,
                            bats |-> lair.bats, arrows |-> Quiver, end |-> "on"]) :
            hunt' = [hunt EXCEPT ![s] = h]

EnterWumpus(s) ==
    /\ "wumpus" \in Games
    /\ RunGame(s, "wumpus")
    /\ Begin(s)
    /\ UNCHANGED wins

move(s, to) ==
    /\ Hunts(s) /\ to \in Tunnels[hunt[s].player]
    /\ \E h \in enterRoom([hunt[s] EXCEPT !.player = to]) : hunt' = [hunt EXCEPT ![s] = h]
    /\ UNCHANGED <<wins, hostVars>>

\* Where an arrow that has hit nothing may be after k rooms: a room it cannot
\* reach is replaced by any that it can.
Flight(h) ==
    LET at[k \in 0..5] ==
            IF k = 0 THEN {h.player}
            ELSE UNION {Tunnels[r] : r \in at[k - 1]} \ {h.wumpus, h.player}
    IN at

Hits(h, room, n) == \E k \in 0..n-1 : \E r \in Flight(h)[k] : room \in Tunnels[r]

\* A miss may startle the wumpus; the last arrow ends the hunt.
Miss(h) ==
    {IF r = h.player THEN Ended([h EXCEPT !.wumpus = r], "eaten")
     ELSE [h EXCEPT !.wumpus = r, !.end = IF h.arrows = 0 THEN "arrowless" ELSE "on"] :
        r \in Tunnels[h.wumpus] \cup {h.wumpus}}

shoot(s, n) ==
    LET h == [hunt[s] EXCEPT !.arrows = @ - 1]
    IN /\ Hunts(s)
       /\ \/ Hits(h, h.wumpus, n) /\ hunt' = [hunt EXCEPT ![s] = Ended(h, "won")]
          \/ Hits(h, h.player, n) /\ hunt' = [hunt EXCEPT ![s] = Ended(h, "shot")]
          \/ Flight(h)[n] # {} /\ \E g \in Miss(h) : hunt' = [hunt EXCEPT ![s] = g]
       /\ UNCHANGED <<wins, hostVars>>

\* The end of a hunt: a win is recorded, or its recording fails unseen.
Close(s) ==
    LET u == UserOf[s]
    IN /\ hunt[s].end \notin {"on", "none", "closed"}
       /\ hunt' = [hunt EXCEPT ![s] = [end |-> "closed"]]
       /\ \/ hunt[s].end = "won" /\ wins[u] < MaxWins /\ wins' = [wins EXCEPT ![u] = @ + 1]
          \/ UNCHANGED wins
       /\ UNCHANGED hostVars

PlayAgain(s) ==
    /\ hunt[s].end = "closed"
    /\ Begin(s)
    /\ UNCHANGED <<wins, hostVars>>

QuitWumpus(s) ==
    /\ Hunts(s) \/ hunt[s].end = "closed"
    /\ hunt' = [hunt EXCEPT ![s] = NoHunt]
    /\ QuitGame(s)
    /\ UNCHANGED wins

WumpusNext ==
    \E s \in Sessions :
        \/ EnterWumpus(s) \/ Close(s) \/ PlayAgain(s) \/ QuitWumpus(s)
        \/ \E to \in Caves : move(s, to)
        \/ \E n \in 1..5 : shoot(s, n)

WumpusSpec == HostInit /\ WumpusInit /\ [][WumpusNext]_<<hostVars, wumpusVars>>

-----------------------------------------------------------------------------
\* Properties

\* The loop of Play never prompts a player who is in a pit, faces the wumpus or
\* has no arrow, whatever rides, bumps and misses came before; and what may
\* happen on the next step was announced: a pit by a draft, the wumpus by its
\* smell, and a ride by the bats.
HuntIsFair ==
    \A s \in Sessions : Hunts(s) =>
        LET h == hunt[s]
            ends(to) == {g.end : g \in enterRoom([h EXCEPT !.player = to])}
            hint(w) == w \in warnings(h)
        IN /\ h.player \notin h.pits \cup {h.wumpus} /\ h.arrows \in 1..Quiver
           /\ \A to \in Tunnels[h.player] :
                /\ "pit" \in ends(to) => hint("draft") \/ hint("bats")
                /\ "eaten" \in ends(to) => hint("smell") \/ hint("bats")
                /\ hint("draft") \/ hint("smell") \/ hint("bats")
                      \/ enterRoom([h EXCEPT !.player = to]) = {[h EXCEPT !.player = to]}
=============================================================================

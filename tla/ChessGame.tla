----------------------------- MODULE ChessGame ------------------------------
(***************************************************************************)
(* Chess between two users, internal/games/chess/game.go and               *)
(* internal/db/chess.go.  The row of a game is written as a whole, from    *)
(* the copy that the session read before it waited for a line of input.    *)
(*                                                                         *)
(* A move is known by its author and by what it does to the game (quiet,   *)
(* mate, or a draw of any kind): the rules are ChessRules.  Notices and    *)
(* the room's nudges change nothing here: Hub and Rooms have them.         *)
(***************************************************************************)
EXTENDS GamesHost

CONSTANTS
    GameIds,    \* chess_games.id
    MaxOpen,    \* maxOpenGames, 10 in the code
    MaxMoves,   \* bound: length of a move list
    MaxScores,  \* bound: wins recorded for a game
    NoGame,     \* an id without a row
    Nobody      \* NULL in winner_id and draw_offer

VARIABLES
    row,        \* chess_games
    scores,     \* game_scores of kind win, as a count per game
    board       \* where a session is in Play: [at, id, copy]

chessVars == <<row, scores, board>>

Kinds == {"quiet", "mate", "drawing"}
Statuses == {"pending", "active", "declined", "checkmate", "resigned", "draw"}
GameRow == [white : Users, black : Users, moves : Seq([by : Users, kind : Kinds]), status : Statuses,
            winner : Users \cup {Nobody}, offer : Users \cup {Nobody}]

ASSUME ChessAssumption == NoGame \notin GameRow
Lobby == [at |-> "lobby", id |-> NoGame, copy |-> NoGame]

ChessInit ==
    /\ row = [i \in GameIds |-> NoGame]
    /\ scores = [i \in GameIds |-> 0]
    /\ board = [s \in Sessions |-> Lobby]

Rows == {i \in GameIds : row[i] # NoGame}
IsPlayer(g, u) == u \in {g.white, g.black}
Opponent(g, u) == IF g.white = u THEN g.black ELSE g.white
ToMove(g) == IF Len(g.moves) % 2 = 0 THEN g.white ELSE g.black

Goto(s, at, i, copy) == board' = [board EXCEPT ![s] = [at |-> at, id |-> i, copy |-> copy]]

-----------------------------------------------------------------------------
\* Faulty variants, each told from the code by a property of the run

\* Whoever is named as the winner of any game is taken for its challenger.
ChallengedMeAnyStatus(g, u) == g.winner # Nobody /\ g.winner # u

\* Does not ask whose turn it is.
ViewAnyTurn(s, i, g) ==
    IF g.status # "active" THEN board' = [board EXCEPT ![s] = Lobby]
    ELSE Goto(s, "prompt", i, g)

\* Shows the board once more after the game has ended.
ViewEnded(s, i, g) ==
    IF ToMove(g) # UserOf[s] THEN Goto(s, "waiting", i, NoGame) ELSE Goto(s, "prompt", i, g)

-----------------------------------------------------------------------------
\* What a session sees

\* challengedMe: winner_id holds the challenger while the game is pending.
ChallengedMe(g, u) == g.status = "pending" /\ g.winner # Nobody /\ g.winner # u

\* The game is seen by the players of a row, and by nobody else.
Reads(s, i) == i \in Rows /\ IsPlayer(row[i], UserOf[s])

\* What the loop of playGame shows after GetChessGame: the result and back to
\* the lobby, the opponent's turn, or a prompt with this copy behind it.
View(s, i, g) ==
    IF g.status # "active" THEN board' = [board EXCEPT ![s] = Lobby]
    ELSE IF ToMove(g) # UserOf[s] THEN Goto(s, "waiting", i, NoGame)
    ELSE Goto(s, "prompt", i, g)

-----------------------------------------------------------------------------
\* The lobby

InLobby(s) == playing[s] = "chess" /\ board[s].at = "lobby"

\* challenge: the open games are read ...
Challenge(s) ==
    LET u == UserOf[s]
        open == {i \in Rows : IsPlayer(row[i], u) /\ row[i].status \in {"pending", "active"}}
    IN /\ InLobby(s)
       /\ \E opp \in Users \ {u} :
            /\ \E listed \in BOOLEAN :     \* games that cannot be listed are not looked at
                  listed => /\ ~\E i \in open : row[i].status = "pending" /\ IsPlayer(row[i], opp)
                            /\ Cardinality(open) < MaxOpen
            /\ Goto(s, "challenging", NoGame, opp)
       /\ UNCHANGED <<row, scores, hostVars>>

\* ... and then a row is inserted, with colours by the flip of a coin.
CreateChessGame(s) ==
    /\ board[s].at = "challenging"
    /\ \E i \in GameIds \ Rows, white \in {UserOf[s], board[s].copy} :
          row' = [row EXCEPT ![i] =
                    [white  |-> white,
                     black  |-> IF white = UserOf[s] THEN board[s].copy ELSE UserOf[s],
                     moves  |-> <<>>, status |-> "pending", winner |-> UserOf[s], offer |-> Nobody]]
    /\ board' = [board EXCEPT ![s] = Lobby]
    /\ UNCHANGED <<scores, hostVars>>

\* respondChallenge reads the row and judges it ...
Respond(s, i) ==
    /\ InLobby(s)
    /\ Reads(s, i) /\ ChallengedMe(row[i], UserOf[s])
    /\ Goto(s, "answering", i, row[i])
    /\ UNCHANGED <<row, scores, hostVars>>

\* UpdateChessGame: the mutable fields of a row, whatever it holds by now.
UpdateChessGame(i, moves, status, winner, offer) ==
    row' = [row EXCEPT ![i] = [@ EXCEPT !.moves = moves, !.status = status,
                                        !.winner = winner, !.offer = offer]]

\* ... and writes an empty, active game and shows it, or a declined one.
Answer(s) ==
    LET i == board[s].id
    IN /\ board[s].at = "answering"
       /\ \/ \E status \in {"active", "declined"} :
                /\ UpdateChessGame(i, <<>>, status, Nobody, Nobody)
                /\ View(s, i, row'[i])
          \/ UNCHANGED row /\ board' = [board EXCEPT ![s] = Lobby]     \* it fails
       /\ UNCHANGED <<scores, hostVars>>

-----------------------------------------------------------------------------
\* The board

\* playGame on a game that has been answered, and every Enter at the board.
OpenBoard(s, i) ==
    /\ InLobby(s)
    /\ Reads(s, i) /\ row[i].status # "pending"
    /\ View(s, i, row[i])
    /\ UNCHANGED <<row, scores, hostVars>>

Refresh(s) ==
    /\ board[s].at \in {"waiting", "prompt"}
    /\ View(s, board[s].id, row[board[s].id])
    /\ UNCHANGED <<row, scores, hostVars>>

LeaveBoard(s) ==
    /\ board[s].at \in {"waiting", "prompt"}
    /\ board' = [board EXCEPT ![s] = Lobby]
    /\ UNCHANGED <<row, scores, hostVars>>

\* A write from the copy, and a score, which may fail unseen; the loop then
\* reads the row again.
Commit(s, moves, status, winner, offer, wins) ==
    LET i == board[s].id
    IN /\ scores[i] + wins <= MaxScores
       /\ UpdateChessGame(i, moves, status, winner, offer)
       /\ \/ scores' = [scores EXCEPT ![i] = @ + wins] /\ UNCHANGED excused
          \/ wins > 0 /\ UNCHANGED scores /\ excused' = excused \cup {"unsaved"}
       /\ View(s, i, row'[i])
       /\ UNCHANGED playing

\* The write fails.  A move is given up, but finishGame does not look at the
\* error: it records the score all the same.
CommitFails(s, wins) ==
    LET i == board[s].id
    IN /\ scores[i] + wins <= MaxScores
       /\ scores' = [scores EXCEPT ![i] = @ + wins]
       /\ excused' = IF wins > 0 THEN excused \cup {"unsaved"} ELSE excused
       /\ View(s, i, row[i])
       /\ UNCHANGED <<row, playing>>

Resign(s) ==
    LET g == board[s].copy
    IN /\ board[s].at = "prompt"
       /\ \/ Commit(s, g.moves, "resigned", Opponent(g, UserOf[s]), Nobody, 1)
          \/ CommitFails(s, 1)

\* "draw" accepts the opponent's offer, or makes one.
Draw(s) ==
    LET g == board[s].copy
    IN /\ board[s].at = "prompt"
       /\ \/ /\ g.offer = Opponent(g, UserOf[s])
             /\ Commit(s, g.moves, "draw", Nobody, Nobody, 0)
          \/ /\ g.offer # Opponent(g, UserOf[s])
             /\ Commit(s, g.moves, g.status, g.winner, UserOf[s], 0)
          \/ CommitFails(s, 0)

\* A move sweeps the opponent's offer; the mover's own stands.
KeptOffer(g, u) == IF g.offer = u THEN u ELSE Nobody

StatusAfter(kind) == CASE kind = "quiet" -> "active"
                       [] kind = "mate" -> "checkmate"
                       [] kind = "drawing" -> "draw"

PlayMove(s) ==
    LET g == board[s].copy
        u == UserOf[s]
    IN /\ board[s].at = "prompt"
       /\ Len(g.moves) < MaxMoves
       /\ \/ \E kind \in Kinds :
                Commit(s, Append(g.moves, [by |-> u, kind |-> kind]), StatusAfter(kind),
                       IF kind = "mate" THEN u ELSE Nobody, KeptOffer(g, u),
                       IF kind = "mate" THEN 1 ELSE 0)
          \/ CommitFails(s, 0)

EnterChess(s) == "chess" \in Games /\ RunGame(s, "chess") /\ UNCHANGED chessVars
QuitChess(s) == InLobby(s) /\ QuitGame(s) /\ UNCHANGED chessVars

ChessNext ==
    \E s \in Sessions :
        \/ EnterChess(s) \/ QuitChess(s) \/ Challenge(s) \/ CreateChessGame(s)
        \/ \E i \in GameIds : Respond(s, i) \/ OpenBoard(s, i)
        \/ Answer(s) \/ Refresh(s) \/ LeaveBoard(s) \/ Resign(s) \/ Draw(s) \/ PlayMove(s)

ChessSpec == HostInit /\ ChessInit /\ [][ChessNext]_<<hostVars, chessVars>>

-----------------------------------------------------------------------------
\* Properties

\* replay accepts what is stored: whatever sessions overwrite each other, the
\* players alternate, white first, and nothing follows a mate or a draw.
StoredListReplays ==
    \A i \in Rows : \A k \in DOMAIN row[i].moves :
        /\ row[i].moves[k].by = IF k % 2 = 1 THEN row[i].white ELSE row[i].black
        /\ k < Len(row[i].moves) => row[i].moves[k].kind = "quiet"

\* The move list is always the truth (db/chess.go:12), for users who have a
\* game open once: it only grows, by one move, and a finished game is final.
ListIsTheTruth ==
    []["twice" \notin excused' => \A i \in Rows :
        /\ row'[i].moves \in {row[i].moves} \cup
               {Append(row[i].moves, m) : m \in [by : Users, kind : Kinds]}
        /\ row[i].status \notin {"pending", "active"} => row'[i] = row[i]]_<<hostVars, chessVars>>

\* For them a won game is scored once, and no other is, while the database
\* takes what it is given (finishGame and playGame do not look at the errors).
WonGameScoredOnce ==
    excused = {} => \A i \in Rows :
        scores[i] = IF row[i].status \in {"checkmate", "resigned"} THEN 1 ELSE 0
=============================================================================

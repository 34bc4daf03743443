---------------------------- MODULE Games_proofs -----------------------------
(***************************************************************************)
(* Proofs about the door games: that what sessions read and write behind   *)
(* each other's backs keeps a chess row a game that replays, a trader's    *)
(* ship within its holds and its purse, and a hunt fair; and that the      *)
(* chess engine never leaves the positions its functions rely on.          *)
(***************************************************************************)
EXTENDS ChessRules, ChessGame, Trade, Wumpus, FiniteSetTheorems, WellFoundedInduction, TLAPS

-----------------------------------------------------------------------------
\* The host

Windows == {"shell", "chess", "trade", "wumpus"}

HostType ==
    /\ playing \in [Sessions -> Windows]
    /\ excused \subseteq {"twice", "unsaved"}

\* Unless someone has, no user has the same game open in two sessions.
Once ==
    "twice" \notin excused =>
        \A s, t \in Sessions : UserOf[s] = UserOf[t] /\ playing[s] = playing[t] =>
            s = t \/ playing[s] = "shell"

Hosted == HostType /\ Once

LEMMA HostInitHosted == HostInit => Hosted
<1> SUFFICES ASSUME HostInit PROVE Hosted OBVIOUS
<1>1. HostType BY DEF HostInit, HostType, Windows
<1>2. Once BY DEF HostInit, Once
<1> QED BY <1>1, <1>2 DEF Hosted

\* A game is entered from the shell, and a second window of it is noticed.
LEMMA RunGameKeepsHosted ==
    ASSUME Hosted, NEW s \in Sessions, NEW g \in Windows, RunGame(s, g)
    PROVE  /\ Hosted' /\ playing[s] = "shell" /\ playing'[s] = g
           /\ \A t \in Sessions \ {s} : playing'[t] = playing[t]
           /\ "twice" \in excused => "twice" \in excused'
<1>1. HostType' BY DEF Hosted, HostType, Windows, RunGame
<1>2. Once' BY DEF Hosted, HostType, Windows, Once, RunGame, Twins
<1> QED BY <1>1, <1>2 DEF Hosted, HostType, Windows, RunGame

LEMMA QuitGameKeepsHosted ==
    ASSUME Hosted, NEW s \in Sessions, QuitGame(s)
    PROVE  /\ Hosted' /\ playing'[s] = "shell" /\ excused' = excused
           /\ \A t \in Sessions \ {s} : playing'[t] = playing[t]
<1>1. HostType' BY DEF Hosted, HostType, Windows, QuitGame
<1>2. Once'
  <2> SUFFICES ASSUME "twice" \notin excused', NEW t \in Sessions, NEW r \in Sessions,
                      UserOf[t] = UserOf[r], playing'[t] = playing'[r], t # r, playing'[t] # "shell"
               PROVE  FALSE
    BY DEF Once
  <2>1. playing'[t] = playing[t] /\ playing'[r] = playing[r] BY DEF Hosted, HostType, Windows, QuitGame
  <2> QED BY <2>1 DEF Hosted, Once, QuitGame
<1> QED BY <1>1, <1>2 DEF Hosted, HostType, Windows, QuitGame

-----------------------------------------------------------------------------
\* Chess

\* A list that replays, in a row whose status agrees with how it ends.
Quiet(g) == \A k \in DOMAIN g.moves : g.moves[k].kind = "quiet"

Replays(g) ==
    \A k \in DOMAIN g.moves :
        /\ g.moves[k].by = IF k % 2 = 1 THEN g.white ELSE g.black
        /\ k < Len(g.moves) => g.moves[k].kind = "quiet"

Sound(g) ==
    /\ g.white # g.black
    /\ Replays(g)
    /\ g.status = "active" => Quiet(g)
    /\ g.status = "pending" => g.moves = <<>> /\ IsPlayer(g, g.winner)

SamePlayers(g, h) == g.white = h.white /\ g.black = h.black

Squares == {"lobby", "challenging", "answering", "waiting", "prompt"}

\* Where a session may be, and what it has read there.
BoardOK(s) ==
    LET b == board[s]
        u == UserOf[s]
    IN /\ b.at \in Squares
       /\ b.at # "lobby" => playing[s] = "chess"
       /\ b.at = "challenging" => b.copy \in Users \ {u}
       /\ b.at \in {"answering", "waiting", "prompt"} => b.id \in Rows /\ IsPlayer(row[b.id], u)
       /\ b.at \in {"answering", "prompt"} =>
            b.copy \in GameRow /\ Sound(b.copy) /\ SamePlayers(b.copy, row[b.id])
       /\ b.at = "answering" => ChallengedMe(b.copy, u)
       /\ b.at = "prompt" => b.copy.status = "active" /\ ToMove(b.copy) = u

Tables ==
    /\ row \in [GameIds -> GameRow \cup {NoGame}]
    /\ scores \in [GameIds -> Nat]

ChessTypeOK ==
    /\ Hosted
    /\ Tables
    /\ DOMAIN board = Sessions
    /\ \A s \in Sessions : BoardOK(s)

\* What a session in no company has read before it asks is not stale.
BoardFresh(s) ==
    board[s].at \in {"answering", "prompt"} => board[s].copy = row[board[s].id]

AllSound == \A i \in Rows : Sound(row[i])
BoardsFresh == "twice" \notin excused => \A s \in Sessions : BoardFresh(s)
ScoresOfRows == \A i \in GameIds : i \notin Rows => scores[i] = 0

ChessInv == ChessTypeOK /\ AllSound /\ BoardsFresh /\ ScoresOfRows /\ WonGameScoredOnce

-----------------------------------------------------------------------------
\* Rows

LEMMA NextTurn ==
    ASSUME NEW n \in Nat
    PROVE  /\ (n + 1) % 2 = 1 <=> n % 2 = 0
           /\ \A k \in 1..(n + 1) : k = n + 1 \/ k \in 1..n
           /\ \A k \in 1..n : k < n + 1 /\ k \in 1..(n + 1)
OBVIOUS

USE ChessAssumption

\* What UpdateChessGame makes of a row.
Updated(r, moves, status, winner, offer) ==
    [r EXCEPT !.moves = moves, !.status = status, !.winner = winner, !.offer = offer]

LEMMA UpdatedRow ==
    ASSUME NEW r \in GameRow, NEW moves \in Seq([by : Users, kind : Kinds]), NEW status \in Statuses,
           NEW winner \in Users \cup {Nobody}, NEW offer \in Users \cup {Nobody}
    PROVE  Updated(r, moves, status, winner, offer) \in GameRow
BY DEF GameRow, Updated

\* After row i is written, the row of every game.
LEMMA WrittenRow ==
    ASSUME Tables, NEW i \in GameIds, NEW g \in GameRow, row' = [row EXCEPT ![i] = g]
    PROVE  /\ row'[i] = g /\ \A j \in GameIds \ {i} : row'[j] = row[j]
           /\ row' \in [GameIds -> GameRow \cup {NoGame}]
           /\ Rows' = Rows \cup {i}
BY DEF Tables, Rows

\* The move of the player whose turn it is continues the list.
LEMMA AppendSound ==
    ASSUME NEW g \in GameRow, NEW h \in GameRow, SamePlayers(g, h), Sound(g), Quiet(g),
           NEW kind \in Kinds,
           h.moves = Append(g.moves, [by |-> ToMove(g), kind |-> kind]),
           h.status = StatusAfter(kind)
    PROVE  Sound(h)
<1> DEFINE L == Len(g.moves)
           m == [by |-> ToMove(g), kind |-> kind]
<1>1. /\ g.moves \in Seq([by : Users, kind : Kinds]) /\ g.white \in Users /\ g.black \in Users
  BY DEF GameRow
<1>2. L \in Nat /\ m \in [by : Users, kind : Kinds]
  <2>1. ToMove(g) \in Users BY <1>1 DEF ToMove
  <2> QED BY <1>1, <2>1
<1>3. Len(h.moves) = L + 1 /\ h.moves[L + 1] = m /\ \A k \in 1..L : h.moves[k] = g.moves[k]
  BY <1>1, <1>2
<1>4. DOMAIN h.moves = 1..(L + 1) /\ DOMAIN g.moves = 1..L BY <1>1, <1>2, <1>3
<1>5. m.by = (IF (L + 1) % 2 = 1 THEN g.white ELSE g.black) /\ m.kind = kind
  BY <1>2, NextTurn DEF ToMove
<1> HIDE DEF L, m
<1>6. Replays(h)
  <2> SUFFICES ASSUME NEW k \in 1..(L + 1)
               PROVE  /\ h.moves[k].by = IF k % 2 = 1 THEN h.white ELSE h.black
                      /\ k < L + 1 => h.moves[k].kind = "quiet"
    BY <1>3, <1>4 DEF Replays
  <2>1. CASE k = L + 1 BY <1>2, <1>3, <1>5, <2>1 DEF SamePlayers
  <2>2. CASE k \in 1..L BY <1>3, <1>4, <2>2 DEF SamePlayers, Sound, Replays, Quiet
  <2> QED BY <1>2, <2>1, <2>2, NextTurn
<1>7. h.status = "active" => Quiet(h)
  <2> SUFFICES ASSUME kind = "quiet", NEW k \in 1..(L + 1) PROVE h.moves[k].kind = "quiet"
    BY <1>4 DEF Quiet, StatusAfter, Kinds
  <2>1. CASE k = L + 1 BY <1>3, <1>5, <2>1
  <2>2. CASE k \in 1..L BY <1>3, <1>4, <2>2 DEF Quiet
  <2> QED BY <1>2, <2>1, <2>2, NextTurn
<1>8. h.status # "pending" BY DEF StatusAfter, Kinds
<1> QED BY <1>6, <1>7, <1>8 DEF Sound, SamePlayers

-----------------------------------------------------------------------------
\* Boards

BoardMoves(s) ==
    /\ DOMAIN board' = Sessions
    /\ \A t \in Sessions \ {s} : board'[t] = board[t] /\ playing'[t] = playing[t]

LEMMA OtherBoardsStay ==
    ASSUME ChessTypeOK, NEW s \in Sessions, BoardMoves(s),
           \A i \in Rows : i \in Rows' /\ SamePlayers(row'[i], row[i])
    PROVE  \A t \in Sessions \ {s} : BoardOK(t)'
<1> SUFFICES ASSUME NEW t \in Sessions \ {s} PROVE BoardOK(t)'
  OBVIOUS
<1>1. board'[t] = board[t] /\ playing'[t] = playing[t] /\ BoardOK(t) BY DEF BoardMoves, ChessTypeOK
<1> DEFINE b == board[t]
<1>2. b.at \in {"answering", "waiting", "prompt"} =>
        b.id \in Rows' /\ SamePlayers(row'[b.id], row[b.id])
  BY <1>1 DEF BoardOK
<1>3. b.at \in {"answering", "waiting", "prompt"} => IsPlayer(row'[b.id], UserOf[t])
  BY <1>1, <1>2 DEF BoardOK, IsPlayer, SamePlayers
<1>4. b.at \in {"answering", "prompt"} => SamePlayers(b.copy, row'[b.id])
  BY <1>1, <1>2 DEF BoardOK, SamePlayers
<1>5. BoardOK(t)' <=>
       /\ b.at \in Squares
       /\ b.at # "lobby" => playing[t] = "chess"
       /\ b.at = "challenging" => b.copy \in Users \ {UserOf[t]}
       /\ b.at \in {"answering", "waiting", "prompt"} => b.id \in Rows' /\ IsPlayer(row'[b.id], UserOf[t])
       /\ b.at \in {"answering", "prompt"} =>
            b.copy \in GameRow /\ Sound(b.copy) /\ SamePlayers(b.copy, row'[b.id])
       /\ b.at = "answering" => ChallengedMe(b.copy, UserOf[t])
       /\ b.at = "prompt" => b.copy.status = "active" /\ ToMove(b.copy) = UserOf[t]
  BY <1>1 DEF BoardOK, Sound, Quiet, Replays, SamePlayers, IsPlayer, ChallengedMe, ToMove
<1> QED BY <1>1, <1>2, <1>3, <1>4, <1>5 DEF BoardOK

LEMMA Lobbies ==
    ASSUME ChessTypeOK, NEW s \in Sessions, board' = [board EXCEPT ![s] = Lobby]
    PROVE  /\ DOMAIN board' = Sessions /\ \A t \in Sessions \ {s} : board'[t] = board[t]
           /\ BoardOK(s)' /\ BoardFresh(s)'
BY DEF ChessTypeOK, Lobby, BoardOK, BoardFresh, Squares

\* What the board shows of a row that its reader may see.
LEMMA Views ==
    ASSUME ChessTypeOK, NEW s \in Sessions, NEW i \in GameIds, NEW g \in GameRow,
           Sound(g), IsPlayer(g, UserOf[s]), row'[i] = g, i \in Rows', playing'[s] = "chess",
           View(s, i, g)
    PROVE  /\ DOMAIN board' = Sessions /\ \A t \in Sessions \ {s} : board'[t] = board[t]
           /\ BoardOK(s)' /\ BoardFresh(s)'
<1>0. DOMAIN board = Sessions BY DEF ChessTypeOK
<1>1. CASE g.status # "active" BY <1>1, Lobbies DEF View
<1>2. CASE g.status = "active" /\ ToMove(g) # UserOf[s]
  <2>1. board' = [board EXCEPT ![s] = [at |-> "waiting", id |-> i, copy |-> NoGame]]
    BY <1>2 DEF View, Goto
  <2> QED BY <1>0, <2>1 DEF BoardOK, BoardFresh, Squares
<1>3. CASE g.status = "active" /\ ToMove(g) = UserOf[s]
  <2>1. board' = [board EXCEPT ![s] = [at |-> "prompt", id |-> i, copy |-> g]]
    BY <1>3 DEF View, Goto
  <2> QED BY <1>0, <1>3, <2>1 DEF BoardOK, BoardFresh, Squares, SamePlayers, ToMove
<1> QED BY <1>1, <1>2, <1>3

\* A step that writes no row.
LEMMA ReadingStep ==
    ASSUME ChessInv, NEW s \in Sessions, BoardMoves(s), Hosted', UNCHANGED row,
           scores' \in [GameIds -> Nat], \A i \in GameIds \ Rows : scores'[i] = 0,
           excused \subseteq excused', excused' = {} => scores' = scores,
           BoardOK(s)', BoardFresh(s)'
    PROVE  ChessInv'
<1>1. Rows' = Rows BY DEF Rows
<1>2. ChessTypeOK' BY <1>1, OtherBoardsStay DEF ChessInv, ChessTypeOK, BoardMoves, Tables, SamePlayers
<1>3. AllSound' BY <1>1 DEF ChessInv, AllSound, Sound, Replays, Quiet, IsPlayer
<1>4. BoardsFresh' BY DEF ChessInv, BoardsFresh, BoardFresh, BoardMoves
<1>5. ScoresOfRows' BY <1>1 DEF ScoresOfRows
<1>6. WonGameScoredOnce' BY <1>1 DEF ChessInv, WonGameScoredOnce
<1> QED BY <1>2, <1>3, <1>4, <1>5, <1>6 DEF ChessInv

\* A step that writes row i from a copy of it.  Alone with the game, s is the
\* only one who may write it: the player to move, or the one who was challenged.
LEMMA WritingStep ==
    ASSUME ChessInv, NEW s \in Sessions, board[s].at \in {"answering", "prompt"},
           NEW i \in GameIds, i = board[s].id, NEW g \in GameRow, row' = [row EXCEPT ![i] = g],
           SamePlayers(g, row[i]), Sound(g), Hosted', playing' = playing, excused \subseteq excused',
           scores' \in [GameIds -> Nat], \A j \in GameIds \ {i} : scores'[j] = scores[j],
           excused' = {} => scores'[i] = IF g.status \in {"checkmate", "resigned"} THEN 1 ELSE 0,
           View(s, i, g)
    PROVE  ChessInv'
<1>1. /\ ChessTypeOK /\ Tables /\ BoardOK(s) /\ playing[s] = "chess"
      /\ i \in Rows /\ IsPlayer(row[i], UserOf[s])
  BY DEF ChessInv, ChessTypeOK, BoardOK
<1>2. /\ row'[i] = g /\ \A j \in GameIds \ {i} : row'[j] = row[j]
      /\ row' \in [GameIds -> GameRow \cup {NoGame}] /\ Rows' = Rows
  <2>1. /\ row'[i] = g /\ \A j \in GameIds \ {i} : row'[j] = row[j]
        /\ row' \in [GameIds -> GameRow \cup {NoGame}] /\ Rows' = Rows \cup {i}
    BY <1>1, WrittenRow
  <2> QED BY <1>1, <2>1
<1>3. IsPlayer(g, UserOf[s]) BY <1>1 DEF IsPlayer, SamePlayers
<1>4. /\ DOMAIN board' = Sessions /\ \A t \in Sessions \ {s} : board'[t] = board[t]
      /\ BoardOK(s)' /\ BoardFresh(s)'
  BY <1>1, <1>2, <1>3, Views
<1>5. BoardMoves(s) BY <1>4 DEF BoardMoves
<1>6. \A j \in Rows : j \in Rows' /\ SamePlayers(row'[j], row[j])
  BY <1>2 DEF Rows, SamePlayers
<1>7. ChessTypeOK'
  <2>1. \A t \in Sessions \ {s} : BoardOK(t)'
    <3> HIDE DEF BoardMoves
    <3> QED BY <1>1, <1>5, <1>6, OtherBoardsStay, Zenon
  <2>2. Tables' BY <1>2 DEF Tables
  <2> QED BY <1>4, <2>1, <2>2 DEF ChessTypeOK
<1>8. AllSound'
  <2> SUFFICES ASSUME NEW j \in Rows PROVE Sound(row'[j]) BY <1>2 DEF AllSound, Sound, Quiet, Replays, IsPlayer
  <2>1. CASE j = i BY <1>2, <2>1
  <2>2. CASE j # i BY <1>2, <2>2 DEF ChessInv, AllSound, Rows
  <2> QED BY <2>1, <2>2
<1>9. BoardsFresh'
  <2> SUFFICES ASSUME "twice" \notin excused, NEW t \in Sessions PROVE BoardFresh(t)' BY DEF BoardsFresh
  <2>1. CASE t = s BY <1>4, <2>1
  <2>2. CASE t # s /\ board[t].at \in {"answering", "prompt"} /\ board[t].id = i
    <3>1. /\ BoardOK(t) /\ IsPlayer(row[i], UserOf[t]) /\ board[t].copy = row[i] /\ board[s].copy = row[i]
          /\ Sound(row[i]) /\ playing[t] = "chess"
      BY <1>1, <2>2 DEF ChessInv, ChessTypeOK, BoardsFresh, BoardFresh, BoardOK, AllSound
    <3>2. UserOf[t] = UserOf[s]
      BY <1>1, <2>2, <3>1 DEF BoardOK, ChallengedMe, Sound, IsPlayer
    <3> QED BY <1>1, <2>2, <3>1, <3>2 DEF ChessTypeOK, Hosted, Once
  <2>3. CASE t # s /\ (board[t].at \in {"answering", "prompt"} => board[t].id # i)
    <3>1. board[t].at \in {"answering", "prompt"} => board[t].id \in GameIds
      BY <1>1 DEF ChessTypeOK, BoardOK, Rows
    <3> QED BY <1>2, <1>4, <2>3, <3>1 DEF ChessInv, BoardsFresh, BoardFresh
  <2> QED BY <2>1, <2>2, <2>3
<1>10. ScoresOfRows' BY <1>1, <1>2 DEF ChessInv, ScoresOfRows
<1>11. WonGameScoredOnce'
  <2> SUFFICES ASSUME excused' = {}, NEW j \in Rows
               PROVE  scores'[j] = IF row'[j].status \in {"checkmate", "resigned"} THEN 1 ELSE 0
    BY <1>2 DEF WonGameScoredOnce
  <2>1. CASE j = i BY <1>2, <2>1
  <2>2. CASE j # i BY <1>2, <2>2 DEF ChessInv, WonGameScoredOnce, Rows
  <2> QED BY <2>1, <2>2
<1> QED BY <1>7, <1>8, <1>9, <1>10, <1>11 DEF ChessInv

-----------------------------------------------------------------------------
\* The actions

LEMMA ChessHostStays ==
    ASSUME ChessInv, UNCHANGED hostVars
    PROVE  Hosted' /\ playing' = playing /\ excused' = excused
BY DEF ChessInv, ChessTypeOK, hostVars, Hosted, HostType, Once

LEMMA EnterChessStep ==
    ASSUME ChessInv, NEW s \in Sessions, EnterChess(s)
    PROVE  ChessInv'
<1>1. /\ Hosted /\ RunGame(s, "chess") /\ UNCHANGED <<row, scores, board>> /\ Tables
      /\ DOMAIN board = Sessions /\ BoardOK(s)
  BY DEF EnterChess, chessVars, ChessInv, ChessTypeOK
<1>2. /\ Hosted' /\ playing[s] = "shell" /\ playing'[s] = "chess"
      /\ \A t \in Sessions \ {s} : playing'[t] = playing[t]
  BY <1>1, RunGameKeepsHosted DEF Windows
<1>3. excused \subseteq excused' BY <1>1 DEF RunGame
<1>4. board[s].at = "lobby" BY <1>1, <1>2 DEF BoardOK
<1>5. BoardMoves(s) /\ BoardOK(s)' /\ BoardFresh(s)'
  BY <1>1, <1>2, <1>4 DEF BoardMoves, BoardOK, BoardFresh
<1> QED BY <1>1, <1>2, <1>3, <1>5, ReadingStep DEF Tables, ChessInv, ScoresOfRows

LEMMA QuitChessStep ==
    ASSUME ChessInv, NEW s \in Sessions, QuitChess(s)
    PROVE  ChessInv'
<1>1. /\ Hosted /\ QuitGame(s) /\ UNCHANGED <<row, scores, board>> /\ Tables
      /\ DOMAIN board = Sessions /\ BoardOK(s) /\ board[s].at = "lobby"
  BY DEF QuitChess, InLobby, chessVars, ChessInv, ChessTypeOK
<1>2. /\ Hosted' /\ excused' = excused
      /\ \A t \in Sessions \ {s} : playing'[t] = playing[t]
  BY <1>1, QuitGameKeepsHosted
<1>3. BoardMoves(s) /\ BoardOK(s)' /\ BoardFresh(s)'
  BY <1>1, <1>2 DEF BoardMoves, BoardOK, BoardFresh
<1> QED BY <1>1, <1>2, <1>3, ReadingStep DEF Tables, ChessInv, ScoresOfRows

LEMMA ChallengeStep ==
    ASSUME ChessInv, NEW s \in Sessions, Challenge(s)
    PROVE  ChessInv'
<1>1. PICK opp \in Users \ {UserOf[s]} :
        board' = [board EXCEPT ![s] = [at |-> "challenging", id |-> NoGame, copy |-> opp]]
  BY DEF Challenge, Goto
<1>2. playing[s] = "chess" /\ UNCHANGED <<row, scores, hostVars>> BY DEF Challenge, InLobby
<1>3. Hosted' /\ playing' = playing /\ excused' = excused BY <1>2, ChessHostStays
<1>4. BoardMoves(s) /\ BoardOK(s)' /\ BoardFresh(s)'
  BY <1>1, <1>2, <1>3 DEF ChessInv, ChessTypeOK, BoardMoves, BoardOK, BoardFresh, Squares
<1> QED BY <1>2, <1>3, <1>4, ReadingStep DEF ChessInv, ChessTypeOK, Tables, ScoresOfRows

LEMMA RespondStep ==
    ASSUME ChessInv, NEW s \in Sessions, NEW i \in GameIds, Respond(s, i)
    PROVE  ChessInv'
<1>1. /\ playing[s] = "chess" /\ i \in Rows /\ IsPlayer(row[i], UserOf[s])
      /\ ChallengedMe(row[i], UserOf[s]) /\ UNCHANGED <<row, scores, hostVars>>
      /\ board' = [board EXCEPT ![s] = [at |-> "answering", id |-> i, copy |-> row[i]]]
  BY DEF Respond, InLobby, Reads, Goto
<1>2. Hosted' /\ playing' = playing /\ excused' = excused BY <1>1, ChessHostStays
<1>3. row[i] \in GameRow /\ Sound(row[i]) /\ DOMAIN board = Sessions
  BY <1>1 DEF ChessInv, ChessTypeOK, Tables, Rows, AllSound
<1>4. Rows' = Rows BY <1>1 DEF Rows
<1>5. BoardMoves(s) /\ BoardOK(s)' /\ BoardFresh(s)'
  BY <1>1, <1>2, <1>3, <1>4
  DEF BoardMoves, BoardOK, BoardFresh, Squares, SamePlayers, ChallengedMe, Sound, Replays, Quiet, IsPlayer
<1> QED BY <1>1, <1>2, <1>5, ReadingStep DEF ChessInv, ChessTypeOK, Tables, ScoresOfRows

\* Every look at a row.
LEMMA LookingStep ==
    ASSUME ChessInv, NEW s \in Sessions, NEW i \in Rows, IsPlayer(row[i], UserOf[s]),
           playing[s] = "chess", View(s, i, row[i]), UNCHANGED <<row, playing>>, Hosted',
           scores' \in [GameIds -> Nat], \A j \in GameIds \ Rows : scores'[j] = 0,
           excused \subseteq excused', excused' = {} => scores' = scores
    PROVE  ChessInv'
<1>1. row[i] \in GameRow /\ Sound(row[i]) /\ i \in GameIds
  BY DEF ChessInv, ChessTypeOK, Tables, Rows, AllSound
<1>2. i \in Rows' BY DEF Rows
<1>3. /\ DOMAIN board' = Sessions /\ \A t \in Sessions \ {s} : board'[t] = board[t]
      /\ BoardOK(s)' /\ BoardFresh(s)'
  BY <1>1, <1>2, Views DEF ChessInv
<1> QED BY <1>3, ReadingStep DEF BoardMoves

LEMMA OpenBoardStep ==
    ASSUME ChessInv, NEW s \in Sessions, NEW i \in GameIds, OpenBoard(s, i)
    PROVE  ChessInv'
BY ChessHostStays, LookingStep
DEF OpenBoard, InLobby, Reads, ChessInv, ChessTypeOK, Tables, ScoresOfRows

LEMMA RefreshStep ==
    ASSUME ChessInv, NEW s \in Sessions, Refresh(s)
    PROVE  ChessInv'
<1>1. board[s].id \in Rows /\ IsPlayer(row[board[s].id], UserOf[s]) /\ playing[s] = "chess"
  BY DEF Refresh, ChessInv, ChessTypeOK, BoardOK
<1> QED BY <1>1, ChessHostStays, LookingStep DEF Refresh, ChessInv, ChessTypeOK, Tables, ScoresOfRows

LEMMA LeaveBoardStep ==
    ASSUME ChessInv, NEW s \in Sessions, LeaveBoard(s)
    PROVE  ChessInv'
<1>1. UNCHANGED <<row, scores, hostVars>> /\ board' = [board EXCEPT ![s] = Lobby] BY DEF LeaveBoard
<1>2. Hosted' /\ playing' = playing /\ excused' = excused BY <1>1, ChessHostStays
<1>3. BoardMoves(s) /\ BoardOK(s)' /\ BoardFresh(s)' BY <1>1, <1>2, Lobbies DEF ChessInv, BoardMoves
<1> QED BY <1>1, <1>2, <1>3, ReadingStep DEF ChessInv, ChessTypeOK, Tables, ScoresOfRows

LEMMA CreateChessGameStep ==
    ASSUME ChessInv, NEW s \in Sessions, CreateChessGame(s)
    PROVE  ChessInv'
<1>1. PICK i \in GameIds \ Rows, white \in {UserOf[s], board[s].copy} :
        row' = [row EXCEPT ![i] =
                  [white  |-> white,
                   black  |-> IF white = UserOf[s] THEN board[s].copy ELSE UserOf[s],
                   moves  |-> <<>>, status |-> "pending", winner |-> UserOf[s], offer |-> Nobody]]
  BY DEF CreateChessGame
<1> DEFINE black == IF white = UserOf[s] THEN board[s].copy ELSE UserOf[s]
           g == [white |-> white, black |-> black, moves |-> <<>>, status |-> "pending",
                 winner |-> UserOf[s], offer |-> Nobody]
<1>2. /\ ChessTypeOK /\ Tables /\ board[s].copy \in Users \ {UserOf[s]} /\ UserOf[s] \in Users
      /\ board' = [board EXCEPT ![s] = Lobby] /\ UNCHANGED <<scores, hostVars>>
  BY DEF CreateChessGame, ChessInv, ChessTypeOK, BoardOK, Users
<1>3. white \in Users /\ black \in Users /\ white # black /\ UserOf[s] \in {white, black}
  BY <1>1, <1>2
<1> HIDE DEF black
<1>4. g \in GameRow BY <1>2, <1>3 DEF GameRow, Statuses
<1>5. Sound(g) BY <1>3 DEF Sound, Replays, IsPlayer
<1>6. g.status = "pending" OBVIOUS
<1>7. row' = [row EXCEPT ![i] = g] BY <1>1 DEF black
<1> HIDE DEF g
<1>8. /\ row'[i] = g /\ \A j \in GameIds \ {i} : row'[j] = row[j]
      /\ row' \in [GameIds -> GameRow \cup {NoGame}] /\ Rows' = Rows \cup {i}
  BY <1>2, <1>4, <1>7, WrittenRow
<1>9. Hosted' /\ playing' = playing /\ excused' = excused BY <1>2, ChessHostStays
<1>10. /\ DOMAIN board' = Sessions /\ \A t \in Sessions \ {s} : board'[t] = board[t]
       /\ BoardOK(s)' /\ BoardFresh(s)'
  BY <1>2, Lobbies
<1>11. ChessTypeOK'
  <2>1. \A j \in Rows : j \in Rows' /\ SamePlayers(row'[j], row[j]) BY <1>8 DEF Rows, SamePlayers
  <2>2. \A t \in Sessions \ {s} : BoardOK(t)' BY <1>2, <1>9, <1>10, <2>1, OtherBoardsStay DEF BoardMoves
  <2>3. Tables' BY <1>2, <1>8 DEF Tables
  <2> QED BY <1>9, <1>10, <2>2, <2>3 DEF ChessTypeOK
<1>12. AllSound'
  <2> SUFFICES ASSUME NEW j \in Rows \cup {i} PROVE Sound(row'[j])
    BY <1>8 DEF AllSound, Sound, Quiet, Replays, IsPlayer
  <2>1. CASE j = i BY <1>5, <1>8, <2>1
  <2>2. CASE j # i BY <1>8, <2>2 DEF ChessInv, AllSound, Rows
  <2> QED BY <2>1, <2>2
<1>13. BoardsFresh'
  <2> SUFFICES ASSUME "twice" \notin excused, NEW t \in Sessions PROVE BoardFresh(t)'
    BY <1>9 DEF BoardsFresh
  <2>1. CASE t = s BY <1>10, <2>1
  <2>2. CASE t # s
    <3>1. BoardFresh(t) /\ BoardOK(t) BY <1>2 DEF ChessInv, BoardsFresh, ChessTypeOK
    <3>2. board[t].at \in {"answering", "prompt"} => board[t].id \in GameIds \ {i}
      BY <1>1, <3>1 DEF BoardOK, Rows
    <3> QED BY <1>8, <1>10, <2>2, <3>1, <3>2 DEF BoardFresh
  <2> QED BY <2>1, <2>2
<1>14. ScoresOfRows' BY <1>2, <1>8 DEF ChessInv, ScoresOfRows
<1>15. WonGameScoredOnce'
  <2> SUFFICES ASSUME excused = {}, NEW j \in Rows \cup {i}
               PROVE  scores[j] = IF row'[j].status \in {"checkmate", "resigned"} THEN 1 ELSE 0
    BY <1>2, <1>8, <1>9 DEF WonGameScoredOnce
  <2>1. CASE j = i BY <1>1, <1>6, <1>8, <2>1 DEF ChessInv, ScoresOfRows
  <2>2. CASE j # i BY <1>8, <2>2 DEF ChessInv, WonGameScoredOnce, Rows
  <2> QED BY <2>1, <2>2
<1> QED BY <1>11, <1>12, <1>13, <1>14, <1>15 DEF ChessInv

\* What a session may make of the row it has at the prompt or in an answer.
PlaysOn(moves, c) ==
    moves \in {c.moves} \cup {Append(c.moves, m) : m \in [by : Users, kind : Kinds]}

Continues(g, c) ==
    \/ c.status = "active" /\ PlaysOn(g.moves, c)
    \/ c.status = "pending" /\ g.moves = <<>>

Writes(s) ==
    \E g \in GameRow : row' = [row EXCEPT ![board[s].id] = g] /\ Continues(g, board[s].copy)

\* The score that goes with a status, and what makes its row sound.
Scored(status) == IF status \in {"checkmate", "resigned"} THEN 1 ELSE 0

SoundWith(c, moves, status) ==
    \A g \in GameRow : SamePlayers(g, c) /\ g.moves = moves /\ g.status = status => Sound(g)

LEMMA AnswerWrites ==
    ASSUME ChessInv, NEW s \in Sessions, Answer(s)
    PROVE  (row' = row \/ Writes(s)) /\ ChessInv'
<1> DEFINE i == board[s].id
<1>1. /\ board[s].at = "answering" /\ BoardOK(s) /\ ChessTypeOK /\ Tables /\ i \in GameIds /\ i \in Rows
      /\ playing[s] = "chess" /\ UNCHANGED <<scores, hostVars>>
  BY DEF Answer, ChessInv, ChessTypeOK, BoardOK, Rows
<1>2. Hosted' /\ playing' = playing /\ excused' = excused BY <1>1, ChessHostStays
<1>3. CASE UNCHANGED row /\ board' = [board EXCEPT ![s] = Lobby]
  <2>1. BoardMoves(s) /\ BoardOK(s)' /\ BoardFresh(s)' BY <1>1, <1>2, <1>3, Lobbies DEF BoardMoves
  <2> QED BY <1>1, <1>2, <1>3, <2>1, ReadingStep DEF ChessInv, Tables, ScoresOfRows
<1>4. ASSUME NEW status \in {"active", "declined"}, UpdateChessGame(i, <<>>, status, Nobody, Nobody),
             View(s, i, row'[i])
      PROVE  /\ \E g \in GameRow : row' = [row EXCEPT ![i] = g] /\ Continues(g, board[s].copy)
             /\ ChessInv'
  <2>1. status \in Statuses BY DEF Statuses
  <2>2. PICK g \in GameRow : /\ row' = [row EXCEPT ![i] = g] /\ SamePlayers(g, row[i])
                             /\ g.moves = <<>> /\ g.status = status
    <3>1. PICK r \in GameRow : r = row[i] BY <1>1 DEF Tables, Rows
    <3> DEFINE g == Updated(r, <<>>, status, Nobody, Nobody)
    <3>2. row' = [row EXCEPT ![i] = g] BY <1>4, <3>1 DEF UpdateChessGame, Updated
    <3>3. g \in GameRow
      <4>1. <<>> \in Seq([by : Users, kind : Kinds]) OBVIOUS
      <4> QED BY <2>1, <4>1, UpdatedRow
    <3>4. SamePlayers(g, r) /\ g.moves = <<>> /\ g.status = status BY DEF Updated, GameRow, SamePlayers
    <3> HIDE DEF g
    <3> QED BY <3>1, <3>2, <3>3, <3>4
  <2>3. row'[i] = g BY <1>1, <2>2, WrittenRow
  <2>4. g.white # g.black
    <3>1. Sound(row[i]) BY <1>1 DEF ChessInv, AllSound
    <3> QED BY <2>2, <3>1 DEF Sound, SamePlayers
  <2>5. Sound(g)
    <3>1. DOMAIN g.moves = {} BY <2>2
    <3> QED BY <1>4, <2>2, <2>4, <3>1 DEF Sound, Replays, Quiet
  <2>6. Continues(g, board[s].copy) BY <1>1, <2>2 DEF Continues, BoardOK, ChallengedMe
  <2>7. excused = {} => scores[i] = 0
    BY <1>1 DEF ChessInv, WonGameScoredOnce, BoardsFresh, BoardFresh, BoardOK, ChallengedMe
  <2>8. ChessInv'
    <3>1. View(s, i, g) BY <1>4, <2>3
    <3>2. scores' \in [GameIds -> Nat] /\ \A j \in GameIds \ {i} : scores'[j] = scores[j]
      BY <1>1 DEF Tables
    <3>3. excused' = {} => scores'[i] = IF g.status \in {"checkmate", "resigned"} THEN 1 ELSE 0
      BY <1>1, <1>2, <1>4, <2>2, <2>7
    <3> QED BY <1>1, <1>2, <2>2, <2>5, <3>1, <3>2, <3>3, WritingStep
  <2> QED BY <2>2, <2>6, <2>8
<1> QED BY <1>3, <1>4 DEF Answer, Writes

\* A score that may be lost is noticed.
LEMMA ExcusesHosted ==
    ASSUME Hosted, playing' = playing, excused' = excused \/ excused' = excused \cup {"unsaved"}
    PROVE  Hosted' /\ excused \subseteq excused'
BY DEF Hosted, HostType, Once

LEMMA CommitWrites ==
    ASSUME ChessInv, NEW s \in Sessions, board[s].at = "prompt",
           NEW moves \in Seq([by : Users, kind : Kinds]), NEW status \in Statuses,
           NEW winner \in Users \cup {Nobody}, NEW offer \in Users \cup {Nobody}, NEW won \in {0, 1},
           Commit(s, moves, status, winner, offer, won),
           won = Scored(status), PlaysOn(moves, board[s].copy), SoundWith(board[s].copy, moves, status)
    PROVE  Writes(s) /\ ChessInv'
<1>1. /\ BoardOK(s) /\ ChessTypeOK /\ Tables /\ board[s].id \in Rows /\ board[s].copy.status = "active"
      /\ SamePlayers(board[s].copy, row[board[s].id])
  BY DEF ChessInv, ChessTypeOK, BoardOK
<1>2. PICK i \in GameIds : i = board[s].id /\ i \in Rows BY <1>1 DEF Rows
<1>3. PICK r \in GameRow : r = row[i] BY <1>1, <1>2 DEF Tables, Rows
<1> DEFINE g == Updated(r, moves, status, winner, offer)
<1>4. row' = [row EXCEPT ![i] = g] BY <1>2, <1>3 DEF Commit, UpdateChessGame, Updated
<1>5. g \in GameRow BY UpdatedRow
<1>6. SamePlayers(g, r) /\ g.moves = moves /\ g.status = status BY DEF Updated, GameRow, SamePlayers
<1> HIDE DEF g
<1>7. Sound(g)
  <2>1. SamePlayers(g, board[s].copy) BY <1>1, <1>2, <1>3, <1>6 DEF SamePlayers
  <2> QED BY <1>5, <1>6, <2>1 DEF SoundWith
<1>8. row'[i] = g BY <1>1, <1>4, <1>5, WrittenRow
<1>9. View(s, i, g) BY <1>2, <1>8 DEF Commit
<1>10. /\ playing' = playing /\ Hosted' /\ excused \subseteq excused'
       /\ \/ scores' = [scores EXCEPT ![i] = @ + won] /\ excused' = excused
          \/ won > 0 /\ scores' = scores /\ "unsaved" \in excused'
  <2>1. /\ playing' = playing
        /\ \/ scores' = [scores EXCEPT ![i] = @ + won] /\ excused' = excused
           \/ won > 0 /\ scores' = scores /\ excused' = excused \cup {"unsaved"}
    BY <1>2 DEF Commit
  <2>2. Hosted' /\ excused \subseteq excused' BY <1>1, <2>1, ExcusesHosted DEF ChessTypeOK
  <2> QED BY <2>1, <2>2
<1>11. scores' \in [GameIds -> Nat] /\ \A j \in GameIds \ {i} : scores'[j] = scores[j]
  BY <1>1, <1>10 DEF Tables
<1>12. excused' = {} => scores'[i] = IF g.status \in {"checkmate", "resigned"} THEN 1 ELSE 0
  <2> SUFFICES ASSUME excused' = {} PROVE scores'[i] = won BY <1>6 DEF Scored
  <2>1. scores' = [scores EXCEPT ![i] = @ + won] /\ excused = {} BY <1>10
  <2>2. row[i] = board[s].copy BY <1>2, <2>1 DEF ChessInv, BoardsFresh, BoardFresh
  <2>3. scores[i] = 0 BY <1>1, <1>2, <2>1, <2>2 DEF ChessInv, WonGameScoredOnce
  <2> QED BY <1>1, <2>1, <2>3 DEF Tables
<1>13. SamePlayers(g, row[i]) BY <1>3, <1>6
<1>14. ChessInv'
  BY <1>2, <1>4, <1>5, <1>7, <1>9, <1>10, <1>11, <1>12, <1>13, WritingStep
<1>15. Continues(g, board[s].copy) BY <1>1, <1>6 DEF Continues
<1> QED BY <1>2, <1>4, <1>5, <1>14, <1>15 DEF Writes

LEMMA CommitFailsStep ==
    ASSUME ChessInv, NEW s \in Sessions, board[s].at = "prompt", NEW won \in {0, 1}, CommitFails(s, won)
    PROVE  row' = row /\ ChessInv'
<1>1. /\ BoardOK(s) /\ ChessTypeOK /\ Tables /\ board[s].id \in Rows /\ playing[s] = "chess"
      /\ IsPlayer(row[board[s].id], UserOf[s])
  BY DEF ChessInv, ChessTypeOK, BoardOK
<1>2. PICK i \in GameIds : i = board[s].id /\ i \in Rows BY <1>1 DEF Rows
<1>3. /\ scores' = [scores EXCEPT ![i] = @ + won] /\ View(s, i, row[i]) /\ UNCHANGED <<row, playing>>
      /\ excused' = IF won > 0 THEN excused \cup {"unsaved"} ELSE excused
  BY <1>2 DEF CommitFails
<1>4. Hosted' /\ excused \subseteq excused' BY <1>1, <1>3, ExcusesHosted DEF ChessTypeOK
<1>5. scores' \in [GameIds -> Nat] /\ \A j \in GameIds \ Rows : scores'[j] = 0
  BY <1>1, <1>2, <1>3 DEF Tables, ChessInv, ScoresOfRows
<1>6. excused' = {} => scores' = scores
  <2> SUFFICES ASSUME excused' = {} PROVE scores' = scores OBVIOUS
  <2>1. won = 0 BY <1>3
  <2>2. \A j \in GameIds : scores'[j] = scores[j] BY <1>1, <1>3, <2>1 DEF Tables
  <2>3. DOMAIN scores' = GameIds /\ DOMAIN scores = GameIds BY <1>1, <1>5 DEF Tables
  <2>4. scores \in [GameIds -> Nat] BY <1>1 DEF Tables
  <2> QED BY <1>5, <2>2, <2>4
<1> QED BY <1>1, <1>2, <1>3, <1>4, <1>5, <1>6, LookingStep

\* Who is at the prompt, and what lies before them.
LEMMA AtThePrompt ==
    ASSUME ChessInv, NEW s \in Sessions, board[s].at = "prompt", NEW c, c = board[s].copy
    PROVE  /\ c \in GameRow /\ Sound(c) /\ c.status = "active" /\ Quiet(c) /\ ToMove(c) = UserOf[s]
           /\ c.moves \in Seq([by : Users, kind : Kinds]) /\ Opponent(c, UserOf[s]) \in Users
           /\ c.winner \in Users \cup {Nobody} /\ UserOf[s] \in Users
<1>1. c \in GameRow /\ Sound(c) /\ c.status = "active" /\ ToMove(c) = UserOf[s]
  BY DEF ChessInv, ChessTypeOK, BoardOK
<1> QED BY <1>1 DEF Sound, GameRow, Opponent, Users

\* A row that keeps the moves of an active copy is sound, however it ends.
LEMMA SameMovesSound ==
    ASSUME NEW c \in GameRow, Sound(c), Quiet(c), NEW g \in GameRow, SamePlayers(g, c),
           g.moves = c.moves, g.status # "pending"
    PROVE  Sound(g)
BY DEF Sound, Quiet, Replays, SamePlayers

LEMMA ResignWrites ==
    ASSUME ChessInv, NEW s \in Sessions, Resign(s)
    PROVE  (row' = row \/ Writes(s)) /\ ChessInv'
<1>1. board[s].at = "prompt" BY DEF Resign
<1>2. PICK c \in GameRow :
        /\ c = board[s].copy /\ Sound(c) /\ c.status = "active" /\ Quiet(c)
        /\ c.moves \in Seq([by : Users, kind : Kinds]) /\ Opponent(c, UserOf[s]) \in Users
  BY <1>1, AtThePrompt
<1>3. CASE Commit(s, board[s].copy.moves, "resigned", Opponent(board[s].copy, UserOf[s]), Nobody, 1)
  <2>1. PICK moves \in Seq([by : Users, kind : Kinds]), status \in Statuses, winner \in Users \cup {Nobody} :
          moves = c.moves /\ status = "resigned" /\ winner = Opponent(c, UserOf[s])
    BY <1>2 DEF Statuses
  <2>2. SoundWith(c, moves, status) BY <1>2, <2>1, SameMovesSound DEF SoundWith
  <2>3. Commit(s, moves, status, winner, Nobody, 1)
    <3>1. Commit(s, c.moves, "resigned", Opponent(c, UserOf[s]), Nobody, 1) BY <1>2, <1>3
    <3> QED BY <2>1, <3>1
  <2>4. 1 = Scored(status) /\ PlaysOn(moves, c) BY <2>1 DEF Scored, PlaysOn
  <2> QED BY <1>1, <1>2, <2>2, <2>3, <2>4, CommitWrites
<1>4. CASE CommitFails(s, 1) BY <1>1, <1>4, CommitFailsStep
<1> QED BY <1>3, <1>4 DEF Resign

LEMMA DrawWrites ==
    ASSUME ChessInv, NEW s \in Sessions, Draw(s)
    PROVE  (row' = row \/ Writes(s)) /\ ChessInv'
<1>1. board[s].at = "prompt" BY DEF Draw
<1>2. PICK c \in GameRow :
        /\ c = board[s].copy /\ Sound(c) /\ c.status = "active" /\ Quiet(c)
        /\ c.moves \in Seq([by : Users, kind : Kinds]) /\ c.winner \in Users \cup {Nobody}
        /\ UserOf[s] \in Users
  BY <1>1, AtThePrompt
<1>3. CASE Commit(s, board[s].copy.moves, "draw", Nobody, Nobody, 0)
  <2>1. PICK moves \in Seq([by : Users, kind : Kinds]), status \in Statuses :
          moves = c.moves /\ status = "draw"
    BY <1>2 DEF Statuses
  <2>2. SoundWith(c, moves, status) BY <1>2, <2>1, SameMovesSound DEF SoundWith
  <2>3. Commit(s, moves, status, Nobody, Nobody, 0)
    <3>1. Commit(s, c.moves, "draw", Nobody, Nobody, 0) BY <1>2, <1>3
    <3> QED BY <2>1, <3>1
  <2>4. 0 = Scored(status) /\ PlaysOn(moves, c) BY <2>1 DEF Scored, PlaysOn
  <2> QED BY <1>1, <1>2, <2>2, <2>3, <2>4, CommitWrites
<1>4. CASE Commit(s, board[s].copy.moves, board[s].copy.status, board[s].copy.winner, UserOf[s], 0)
  <2>1. PICK moves \in Seq([by : Users, kind : Kinds]), status \in Statuses,
             winner \in Users \cup {Nobody}, offer \in Users \cup {Nobody} :
          moves = c.moves /\ status = c.status /\ winner = c.winner /\ offer = UserOf[s]
    BY <1>2 DEF Statuses
  <2>2. SoundWith(c, moves, status) BY <1>2, <2>1, SameMovesSound DEF SoundWith
  <2>3. Commit(s, moves, status, winner, offer, 0)
    <3>1. Commit(s, c.moves, c.status, c.winner, UserOf[s], 0) BY <1>2, <1>4
    <3> QED BY <2>1, <3>1
  <2>4. 0 = Scored(status) /\ PlaysOn(moves, c) BY <1>2, <2>1 DEF Scored, PlaysOn
  <2> QED BY <1>1, <1>2, <2>2, <2>3, <2>4, CommitWrites
<1>5. CASE CommitFails(s, 0) BY <1>1, <1>5, CommitFailsStep
<1> QED BY <1>3, <1>4, <1>5 DEF Draw

LEMMA PlayMoveWrites ==
    ASSUME ChessInv, NEW s \in Sessions, PlayMove(s)
    PROVE  (row' = row \/ Writes(s)) /\ ChessInv'
<1>1. board[s].at = "prompt" BY DEF PlayMove
<1>2. PICK c \in GameRow :
        /\ c = board[s].copy /\ Sound(c) /\ c.status = "active" /\ Quiet(c) /\ ToMove(c) = UserOf[s]
        /\ c.moves \in Seq([by : Users, kind : Kinds]) /\ UserOf[s] \in Users
  BY <1>1, AtThePrompt
<1>3. ASSUME NEW kind \in Kinds,
             Commit(s, Append(board[s].copy.moves, [by |-> UserOf[s], kind |-> kind]), StatusAfter(kind),
                    IF kind = "mate" THEN UserOf[s] ELSE Nobody, KeptOffer(board[s].copy, UserOf[s]),
                    IF kind = "mate" THEN 1 ELSE 0)
      PROVE  Writes(s) /\ ChessInv'
  <2> DEFINE m == [by |-> UserOf[s], kind |-> kind]
  <2>0. m \in [by : Users, kind : Kinds] BY <1>2
  <2> HIDE DEF m
  <2>a. Append(c.moves, m) \in Seq([by : Users, kind : Kinds]) BY <1>2, <2>0
  <2>1. PICK moves \in Seq([by : Users, kind : Kinds]) : moves = Append(c.moves, m) BY <2>a
  <2>2. PICK status \in Statuses : status = StatusAfter(kind) BY DEF StatusAfter, Kinds, Statuses
  <2>3. PICK winner \in Users \cup {Nobody} : winner = IF kind = "mate" THEN UserOf[s] ELSE Nobody
    BY <1>2
  <2>4. PICK offer \in Users \cup {Nobody} : offer = KeptOffer(c, UserOf[s]) BY <1>2 DEF KeptOffer
  <2>5. PICK won \in {0, 1} : won = IF kind = "mate" THEN 1 ELSE 0 OBVIOUS
  <2>6. SoundWith(c, moves, status)
    <3> SUFFICES ASSUME NEW g \in GameRow, SamePlayers(c, g), g.moves = moves, g.status = status
                 PROVE  Sound(g)
      BY DEF SoundWith, SamePlayers
    <3>1. g.moves = Append(c.moves, [by |-> ToMove(c), kind |-> kind]) BY <1>2, <2>1 DEF m
    <3> QED BY <1>2, <2>2, <3>1, AppendSound
  <2>7. Commit(s, moves, status, winner, offer, won)
    <3>1. Commit(s, Append(c.moves, m), StatusAfter(kind), IF kind = "mate" THEN UserOf[s] ELSE Nobody,
                 KeptOffer(c, UserOf[s]), IF kind = "mate" THEN 1 ELSE 0)
      BY <1>2, <1>3 DEF m
    <3> QED BY <2>1, <2>2, <2>3, <2>4, <2>5, <3>1
  <2>8. won = Scored(status) BY <2>2, <2>5 DEF Scored, StatusAfter, Kinds
  <2>9. PlaysOn(moves, c) BY <2>0, <2>1 DEF PlaysOn
  <2> QED BY <1>1, <1>2, <2>6, <2>7, <2>8, <2>9, CommitWrites
<1>4. CASE CommitFails(s, 0) BY <1>1, <1>4, CommitFailsStep
<1> QED BY <1>3, <1>4 DEF PlayMove

-----------------------------------------------------------------------------
\* The theorems

LEMMA ChessInitInv == HostInit /\ ChessInit => ChessInv
<1> SUFFICES ASSUME HostInit, ChessInit PROVE ChessInv OBVIOUS
<1>1. Hosted BY HostInitHosted
<1>2. Tables BY DEF ChessInit, Tables
<1>3. DOMAIN board = Sessions /\ \A s \in Sessions : board[s] = Lobby BY DEF ChessInit
<1>4. ChessTypeOK BY <1>1, <1>2, <1>3 DEF ChessTypeOK, BoardOK, Lobby, Squares
<1>5. Rows = {} BY DEF ChessInit, Rows
<1>6. BoardsFresh BY <1>3 DEF BoardsFresh, BoardFresh, Lobby
<1>7. ScoresOfRows BY DEF ChessInit, ScoresOfRows
<1> QED BY <1>4, <1>5, <1>6, <1>7 DEF ChessInv, AllSound, WonGameScoredOnce

LEMMA ChessStep == ChessInv /\ [ChessNext]_<<hostVars, chessVars>> => ChessInv'
<1> SUFFICES ASSUME ChessInv, [ChessNext]_<<hostVars, chessVars>> PROVE ChessInv' OBVIOUS
<1>1. CASE UNCHANGED <<hostVars, chessVars>>
  <2>1. UNCHANGED <<row, scores, board>> /\ Hosted' /\ playing' = playing /\ excused' = excused
    BY <1>1, ChessHostStays DEF chessVars
  <2>2. Rows' = Rows BY <2>1 DEF Rows
  <2>3. ChessTypeOK'
    <3>1. ASSUME NEW s \in Sessions PROVE BoardOK(s)'
      <4>1. BoardOK(s) BY DEF ChessInv, ChessTypeOK
      <4> QED BY <2>1, <2>2, <4>1 DEF BoardOK, Sound, Replays, Quiet, SamePlayers, IsPlayer, ChallengedMe, ToMove
    <3> QED BY <2>1, <3>1 DEF ChessInv, ChessTypeOK, Tables
  <2>4. AllSound' BY <2>1, <2>2 DEF ChessInv, AllSound, Sound, Replays, Quiet, IsPlayer
  <2>5. BoardsFresh' /\ ScoresOfRows' /\ WonGameScoredOnce'
    BY <2>1, <2>2 DEF ChessInv, BoardsFresh, BoardFresh, ScoresOfRows, WonGameScoredOnce
  <2> QED BY <2>3, <2>4, <2>5 DEF ChessInv
<1>2. ASSUME NEW s \in Sessions, NEW i \in GameIds, Respond(s, i) \/ OpenBoard(s, i) PROVE ChessInv'
  BY <1>2, RespondStep, OpenBoardStep
<1>3. ASSUME NEW s \in Sessions,
             \/ EnterChess(s) \/ QuitChess(s) \/ Challenge(s) \/ CreateChessGame(s)
             \/ Answer(s) \/ Refresh(s) \/ LeaveBoard(s) \/ Resign(s) \/ Draw(s) \/ PlayMove(s)
      PROVE  ChessInv'
  BY <1>3, EnterChessStep, QuitChessStep, ChallengeStep, CreateChessGameStep, AnswerWrites, RefreshStep,
     LeaveBoardStep, ResignWrites, DrawWrites, PlayMoveWrites
<1> QED BY <1>1, <1>2, <1>3 DEF ChessNext

\* What a step may do to a stored row.
Grows(i) ==
    /\ row'[i].moves \in {row[i].moves} \cup {Append(row[i].moves, m) : m \in [by : Users, kind : Kinds]}
    /\ row[i].status \notin {"pending", "active"} => row'[i] = row[i]

\* Only a session that is alone with a game writes it, and from what it holds.
LEMMA ListGrows ==
    ASSUME ChessInv, [ChessNext]_<<hostVars, chessVars>>, "twice" \notin excused', NEW i \in Rows
    PROVE  Grows(i)
<1>1. CASE row' = row BY <1>1 DEF Grows
<1>2. ASSUME NEW s \in Sessions, Writes(s), board[s].at \in {"answering", "prompt"}, "twice" \notin excused
      PROVE  Grows(i)
  <2>1. PICK g \in GameRow : row' = [row EXCEPT ![board[s].id] = g] /\ Continues(g, board[s].copy)
    BY <1>2 DEF Writes
  <2>2. BoardOK(s) /\ BoardFresh(s) /\ DOMAIN row = GameIds /\ i \in GameIds
    BY <1>2 DEF ChessInv, ChessTypeOK, BoardsFresh, Tables, Rows
  <2>3. CASE board[s].id = i
    <3>1. row'[i] = g /\ board[s].copy = row[i] BY <1>2, <2>1, <2>2, <2>3 DEF BoardFresh
    <3>2. CASE row[i].status = "active" /\ PlaysOn(g.moves, row[i]) BY <3>1, <3>2 DEF PlaysOn, Grows
    <3>3. CASE row[i].status = "pending" /\ g.moves = <<>>
      BY <3>1, <3>3 DEF ChessInv, AllSound, Sound, Grows
    <3> QED BY <2>1, <3>1, <3>2, <3>3 DEF Continues
  <2>4. CASE board[s].id # i BY <2>1, <2>2, <2>4 DEF Grows
  <2> QED BY <2>3, <2>4
<1>3. ASSUME NEW s \in Sessions, CreateChessGame(s) PROVE Grows(i)
  <2>1. PICK j \in GameIds \ Rows : \E g : row' = [row EXCEPT ![j] = g] BY <1>3 DEF CreateChessGame
  <2>2. DOMAIN row = GameIds /\ i \in GameIds /\ i # j BY <2>1 DEF ChessInv, ChessTypeOK, Tables, Rows
  <2> QED BY <2>1, <2>2 DEF Grows
<1>4. excused \subseteq excused'
  <2>1. ASSUME NEW s \in Sessions, EnterChess(s) \/ QuitChess(s) PROVE excused \subseteq excused'
    BY <2>1 DEF EnterChess, RunGame, QuitChess, QuitGame
  <2>2. ASSUME NEW s \in Sessions, Resign(s) \/ Draw(s) \/ PlayMove(s) PROVE excused \subseteq excused'
    <3>1. CASE Resign(s) BY <3>1 DEF Resign, Commit, CommitFails
    <3>2. CASE Draw(s) BY <3>2 DEF Draw, Commit, CommitFails
    <3>3. CASE PlayMove(s) BY <3>3 DEF PlayMove, Commit, CommitFails
    <3> QED BY <2>2, <3>1, <3>2, <3>3
  <2>3. ASSUME NEW s \in Sessions,
               \/ Challenge(s) \/ CreateChessGame(s) \/ Answer(s) \/ Refresh(s) \/ LeaveBoard(s)
        PROVE  UNCHANGED hostVars
    <3>1. CASE Answer(s) BY <3>1 DEF Answer
    <3> QED BY <2>3, <3>1 DEF Challenge, CreateChessGame, Refresh, LeaveBoard
  <2>4. ASSUME NEW s \in Sessions, NEW j \in GameIds, Respond(s, j) \/ OpenBoard(s, j)
        PROVE  UNCHANGED hostVars
    BY <2>4 DEF Respond, OpenBoard
  <2>5. CASE UNCHANGED hostVars BY <2>5 DEF hostVars
  <2> QED BY <2>1, <2>2, <2>3, <2>4, <2>5 DEF ChessNext
<1>5. ASSUME NEW s \in Sessions, Answer(s) \/ Resign(s) \/ Draw(s) \/ PlayMove(s)
      PROVE  (row' = row \/ Writes(s)) /\ board[s].at \in {"answering", "prompt"}
  <2>1. CASE Answer(s)
    <3>1. board[s].at = "answering" BY <2>1 DEF Answer
    <3> QED BY <2>1, <3>1, AnswerWrites
  <2>2. CASE Resign(s)
    <3>1. board[s].at = "prompt" BY <2>2 DEF Resign
    <3> QED BY <2>2, <3>1, ResignWrites
  <2>3. CASE Draw(s)
    <3>1. board[s].at = "prompt" BY <2>3 DEF Draw
    <3> QED BY <2>3, <3>1, DrawWrites
  <2>4. CASE PlayMove(s)
    <3>1. board[s].at = "prompt" BY <2>4 DEF PlayMove
    <3> QED BY <2>4, <3>1, PlayMoveWrites
  <2> QED BY <1>5, <2>1, <2>2, <2>3, <2>4
<1>6. ASSUME NEW s \in Sessions,
             \/ EnterChess(s) \/ QuitChess(s) \/ Challenge(s) \/ Refresh(s) \/ LeaveBoard(s)
             \/ \E j \in GameIds : Respond(s, j) \/ OpenBoard(s, j)
      PROVE  row' = row
  BY <1>6 DEF EnterChess, QuitChess, chessVars, Challenge, Respond, OpenBoard, Refresh, LeaveBoard
<1>7. CASE UNCHANGED <<hostVars, chessVars>> BY <1>1, <1>7 DEF chessVars
<1>8. ASSUME NEW s \in Sessions, Answer(s) \/ Resign(s) \/ Draw(s) \/ PlayMove(s) PROVE Grows(i)
  BY <1>1, <1>2, <1>4, <1>5, <1>8
<1> QED BY <1>1, <1>3, <1>6, <1>7, <1>8 DEF ChessNext

\* Types of the rows and of what every session has read.
THEOREM ChessTypeCorrect == ChessSpec => []ChessTypeOK
<1>1. ChessInv => ChessTypeOK BY DEF ChessInv
<1> QED BY <1>1, ChessInitInv, ChessStep, PTL DEF ChessSpec

\* Whatever sessions overwrite each other, what is stored replays.
THEOREM StoredListAlwaysReplays == ChessSpec => []StoredListReplays
<1>1. ChessInv => StoredListReplays
  BY DEF ChessInv, AllSound, Sound, Replays, StoredListReplays
<1> QED BY <1>1, ChessInitInv, ChessStep, PTL DEF ChessSpec

\* A won game is scored once, and no other is, as long as writes succeed.
THEOREM WonGameAlwaysScoredOnce == ChessSpec => []WonGameScoredOnce
<1>1. ChessInv => WonGameScoredOnce BY DEF ChessInv
<1> QED BY <1>1, ChessInitInv, ChessStep, PTL DEF ChessSpec

\* The list only grows, by one move, and a finished game is final.
THEOREM ListAlwaysTheTruth == ChessSpec => ListIsTheTruth
<1>1. ChessInv /\ [ChessNext]_<<hostVars, chessVars>>
        => ["twice" \notin excused' => \A i \in Rows :
               /\ row'[i].moves \in {row[i].moves} \cup
                      {Append(row[i].moves, m) : m \in [by : Users, kind : Kinds]}
               /\ row[i].status \notin {"pending", "active"} => row'[i] = row[i]]_<<hostVars, chessVars>>
  BY ListGrows DEF Grows
<1> QED BY <1>1, ChessInitInv, ChessStep, PTL DEF ChessSpec, ListIsTheTruth

HIDE ChessAssumption

-----------------------------------------------------------------------------
\* Star Trade

CmdOK(c) ==
    /\ c.verb \in Verbs
    /\ c.verb = "warp" => c.to \in Sectors
    /\ c.verb = "survey" => c.left \subseteq Sectors
    /\ c.verb \in {"buy", "sell"} => c.good \in Goods /\ c.qty \in Nat

Places == {"prompt", "charting", "minting", "renewing", "loaded", "restocking", "dealing"}

\* Where a session may be, and what it holds there.
JobOK(s) ==
    LET j == job[s]
    IN /\ j.at \in Places /\ j.sector \in Sectors /\ CmdOK(j.cmd)
       /\ j.at # "prompt" => playing[s] = "trade"
       /\ j.at \in {"renewing", "loaded", "restocking", "dealing"} => ship[UserOf[s]] # NoShip
       /\ j.at \in {"restocking", "dealing"} => j.sector \in Ports /\ j.stock \in PortRow
       /\ j.at = "dealing" => j.cmd.verb \in {"buy", "sell"}

Ledgers ==
    /\ charted \in BOOLEAN
    /\ ship \in [Users -> ShipRow \cup {NoShip}]
    /\ stock \in [Ports -> PortRow] /\ touched \in [Ports -> Int]
    /\ hour \in Nat
    /\ late \in [Users -> Nat] /\ spent \in [Users -> Int]

TradeTypeOK ==
    /\ Hosted
    /\ Ledgers
    /\ DOMAIN job = Sessions
    /\ \A s \in Sessions : JobOK(s)

\* What a session in no company holds is not stale.
Fresh(s) ==
    LET j == job[s]
        p == ship[UserOf[s]]
    IN /\ j.at \in {"renewing", "loaded"} /\ j.cmd.verb = "warp" => j.sector = p.sector
       /\ j.at = "renewing" => p.day < today

AllFresh == "twice" \notin excused => \A s \in Sessions : Fresh(s)
SpentOnShips == \A u \in Users : ship[u] = NoShip => spent[u] = 0

\* Budgets that a ship has had, late ones apart: one for a user who plays in
\* one session; else no more than there are sessions, and, once the day's first
\* is granted, than there are sessions that are not about to renew it.
OneBudget ==
    "twice" \notin excused => \A u \in Ships : late[u] = 0 => spent[u] + ship[u].turns <= Daily

Awake(u) == {s \in Seats(u) : job[s].at # "renewing"}

Shared(u) ==
    late[u] = 0 =>
        /\ spent[u] + ship[u].turns <= Daily * Cardinality(Seats(u))
        /\ today <= ship[u].day => spent[u] + ship[u].turns <= Daily * Cardinality(Awake(u))

AllShared == \A u \in Ships : Shared(u)

TradeInv == TradeTypeOK /\ ShipIsSound /\ OneBudget /\ AllShared /\ SpentOnShips /\ AllFresh

LEMMA DaysPass ==
    ASSUME NEW h \in Nat, NEW k \in Nat, NEW zone \in Nat, h <= k
    PROVE  /\ (h + zone) \div 24 \in Int /\ (k + zone) \div 24 \in Int
           /\ (h + zone) \div 24 <= (k + zone) \div 24
OBVIOUS

\* The calendars do not go back.
LEMMA TodayPasses ==
    ASSUME Ledgers, Ledgers', hour <= hour'
    PROVE  today \in Int /\ today' \in Int /\ today <= today' /\ current_date \in Int
<1>1. hour \in Nat /\ hour' \in Nat BY DEF Ledgers
<1>2. NodeZone \in Nat /\ BaseZone \in Nat BY TradeAssumption
<1>3. /\ (hour + NodeZone) \div 24 \in Int /\ (hour' + NodeZone) \div 24 \in Int
      /\ (hour + NodeZone) \div 24 <= (hour' + NodeZone) \div 24
  BY <1>1, <1>2, DaysPass
<1>4. (hour + BaseZone) \div 24 \in Int BY <1>1, <1>2, DaysPass
<1> QED BY <1>3, <1>4 DEF today, current_date

USE TradeAssumption

\* A set of numbers that is not empty has a least one.
LEMMA LeastOfNats ==
    ASSUME NEW S \in SUBSET Nat, S # {}
    PROVE  \E k \in S : \A m \in S : k <= m
<1>1. PICK k \in S : \A m \in S : ~(<<m, k>> \in OpToRel(<, Nat))
  BY WFMin, NatLessThanWellFounded, Zenon
<1>2. ASSUME NEW m \in S PROVE k <= m
  <2> DEFINE pair == <<m, k>>
  <2>1. pair \in Nat \X Nat /\ pair[1] = m /\ pair[2] = k OBVIOUS
  <2> HIDE DEF pair
  <2>2. m < k => pair[1] < pair[2] BY <2>1
  <2>3. pair[1] < pair[2] => pair \in OpToRel(<, Nat) BY <2>1, Zenon DEF OpToRel
  <2>4. pair \notin OpToRel(<, Nat) BY <1>1, Zenon DEF pair
  <2>5. ~(m < k) BY <2>2, <2>3, <2>4
  <2> QED BY <2>5
<1> QED BY <1>2

-----------------------------------------------------------------------------
\* Arithmetic

LEMMA PriceIsPositive ==
    ASSUME NEW g \in Goods, NEW n \in Int, NEW q \in Nat
    PROVE  price(g, n) \in Int /\ price(g, n) * q \in Nat
<1>1. PICK b \in Nat : b = BasePrice[g] OBVIOUS
<1>2. Clamped(n) \in Int BY DEF Clamped
<1>3. PICK k \in Int : k = 1200 - (Clamped(n) * 400) \div 1000 BY <1>2
<1>4. PICK m \in Int : m = b * k BY <1>1, <1>3
<1>5. price(g, n) = IF m \div 1000 < 1 THEN 1 ELSE m \div 1000 BY <1>1, <1>3, <1>4 DEF price
<1>6. PICK c \in Nat : c = price(g, n) BY <1>4, <1>5
<1>7. c * q \in Nat BY <1>6
<1> QED BY <1>6, <1>7

LEMMA DriftIsARow ==
    ASSUME Ledgers, NEW n \in Ports
    PROVE  Drifted(n) \in PortRow /\ stock[n] \in PortRow
<1>1. stock[n] \in PortRow BY DEF Ledgers
<1>2. Hours(n) \in Int BY DEF Ledgers, Hours
<1>3. \A g \in Goods : Drifted(n)[g] \in Int
  <2> TAKE g \in Goods
  <2>1. PICK a \in Int : a = stock[n][g] BY <1>1 DEF PortRow
  <2>2. PICK e \in Int : e = Equilibrium(n, g) - a BY <2>1 DEF Equilibrium
  <2>3. PICK f \in Int : f = e * Hours(n) BY <1>2, <2>2
  <2>4. Quotient(f, 12) \in Int BY <2>3 DEF Quotient
  <2>5. Drifted(n)[g] = a + Quotient(f, 12) BY <2>1, <2>2, <2>3 DEF Drifted
  <2> QED BY <2>1, <2>4, <2>5
<1> QED BY <1>1, <1>3 DEF Drifted, PortRow

-----------------------------------------------------------------------------
\* Budgets by the session

LEMMA Scaled ==
    ASSUME NEW d \in Nat, NEW k \in Nat, NEW m \in Nat, k <= m
    PROVE  d * k \in Nat /\ d * m \in Nat /\ d * k <= d * m
<1>1. PICK j \in Nat : m = k + j BY m - k \in Nat, m = k + (m - k)
<1>2. d * m = d * k + d * j BY <1>1
<1>3. d * j \in Nat /\ d * k \in Nat OBVIOUS
<1> QED BY <1>2, <1>3

LEMMA SeatsCounted ==
    ASSUME NEW u
    PROVE  /\ IsFiniteSet(Seats(u)) /\ IsFiniteSet(Awake(u)) /\ IsFiniteSet(Awake(u)')
           /\ Cardinality(Seats(u)) \in Nat /\ Cardinality(Awake(u)) \in Nat /\ Cardinality(Awake(u)') \in Nat
           /\ Cardinality(Awake(u)) <= Cardinality(Seats(u)) /\ Cardinality(Awake(u)') <= Cardinality(Seats(u))
<1>1. Seats(u) \subseteq Sessions /\ Awake(u) \subseteq Seats(u) /\ Awake(u)' \subseteq Seats(u)
  BY DEF Seats, Awake
<1>2. IsFiniteSet(Seats(u)) BY <1>1, FS_Subset, SessionsAssumption
<1> QED BY <1>1, <1>2, FS_Subset, FS_CardinalityType

\* No budget is granted, and no session is about to renew one that is not past.
LEMMA KeepsShared ==
    ASSUME TradeInv, Ledgers', hour <= hour', NEW u \in Users,
           ship[u] # NoShip, ship'[u] # NoShip, ship'[u].day = ship[u].day, late'[u] = late[u],
           spent'[u] + ship'[u].turns = spent[u] + ship[u].turns,
           \A t \in Sessions : UserOf[t] = u /\ job'[t].at = "renewing" =>
               job[t].at = "renewing" \/ ship'[u].day < today'
    PROVE  Shared(u)'
<1>1. Ledgers /\ Shared(u) BY DEF TradeInv, TradeTypeOK, AllShared, Ships
<1>2. today \in Int /\ today' \in Int /\ today <= today' BY <1>1, TodayPasses
<1>3. ship[u] \in ShipRow /\ ship'[u] \in ShipRow /\ spent[u] \in Int /\ spent'[u] \in Int
  BY <1>1 DEF Ledgers
<1>4. PICK x \in Int : x = spent[u] + ship[u].turns BY <1>3 DEF ShipRow
<1>5. PICK d \in Int : d = ship[u].day BY <1>3 DEF ShipRow
<1>6. Seats(u)' = Seats(u) BY DEF Seats
<1>7. CASE today' <= d
  <2>1. Awake(u) \subseteq Awake(u)' BY <1>2, <1>5, <1>7 DEF Awake, Seats
  <2>2. Cardinality(Awake(u)) <= Cardinality(Awake(u)') BY <2>1, SeatsCounted, FS_Subset
  <2>3. PICK k \in Nat, m \in Nat : k = Cardinality(Awake(u)) /\ m = Cardinality(Awake(u)') /\ k <= m
    BY <2>2, SeatsCounted
  <2>4. Daily * k <= Daily * m /\ Daily * k \in Nat /\ Daily * m \in Nat
    <3>1. Daily \in Nat OBVIOUS
    <3> QED BY <2>3, <3>1, Scaled, Zenon
  <2>5. late[u] = 0 => x <= Daily * k BY <1>1, <1>2, <1>4, <1>5, <1>7, <2>3 DEF Shared
  <2>6. late[u] = 0 => x <= Daily * m BY <2>4, <2>5
  <2>7. late[u] = 0 => x <= Daily * Cardinality(Seats(u)) BY <1>1, <1>4 DEF Shared
  <2> QED BY <1>4, <1>6, <2>3, <2>6, <2>7 DEF Shared
<1>8. CASE ~(today' <= d)
  <2>1. late[u] = 0 => x <= Daily * Cardinality(Seats(u)) BY <1>1, <1>4 DEF Shared
  <2> QED BY <1>4, <1>5, <1>6, <1>8, <2>1 DEF Shared
<1> QED BY <1>7, <1>8

-----------------------------------------------------------------------------
\* The steps of a session

\* Only s has moved.
Moves(s) ==
    /\ DOMAIN job' = Sessions
    /\ \A t \in Sessions \ {s} : job'[t] = job[t] /\ playing'[t] = playing[t]

LEMMA OthersStay ==
    ASSUME TradeTypeOK, NEW s \in Sessions, Moves(s), Ledgers',
           \A u \in Users : ship[u] # NoShip => ship'[u] # NoShip
    PROVE  \A t \in Sessions \ {s} : JobOK(t)'
BY DEF TradeTypeOK, JobOK, Moves, Users

\* A session's step that grants nothing to u.
LEMMA GrantsNothing ==
    ASSUME TradeInv, NEW s \in Sessions, Moves(s), Ledgers', hour' = hour, Fresh(s)', NEW u \in Users,
           ship[u] # NoShip, ship'[u] # NoShip, ship'[u].day = ship[u].day, late'[u] = late[u],
           spent'[u] + ship'[u].turns = spent[u] + ship[u].turns
    PROVE  Shared(u)'
<1>1. \A t \in Sessions : UserOf[t] = u /\ job'[t].at = "renewing" =>
          job[t].at = "renewing" \/ ship'[u].day < today'
  BY DEF Moves, Fresh
<1>2. hour <= hour' BY DEF Ledgers
<1> QED BY <1>1, <1>2, KeepsShared

\* A step that leaves ships and the clock alone.
LEMMA QuietStep ==
    ASSUME TradeInv, NEW s \in Sessions, Moves(s), Hosted', Ledgers',
           "twice" \in excused => "twice" \in excused',
           UNCHANGED <<ship, hour, late, spent>>, JobOK(s)', Fresh(s)'
    PROVE  TradeInv'
<1>1. TradeTypeOK' BY OthersStay DEF TradeInv, TradeTypeOK, Moves
<1>2. AllFresh' BY DEF TradeInv, AllFresh, Fresh, Moves, today
<1>3. ShipIsSound' /\ OneBudget' /\ SpentOnShips'
  BY DEF TradeInv, ShipIsSound, OneBudget, SpentOnShips, Ships, Aboard
<1>4. AllShared' BY GrantsNothing DEF AllShared, Ships
<1> QED BY <1>1, <1>2, <1>3, <1>4 DEF TradeInv

\* A step of a ship's owner, from the game.
LEMMA OwnersStep ==
    ASSUME TradeInv, NEW s \in Sessions, Moves(s), job[s].at # "prompt", Hosted', Ledgers',
           excused' = excused, hour' = hour, JobOK(s)', Fresh(s)',
           ship'[UserOf[s]] # NoShip,
           \A u \in Users \ {UserOf[s]} : ship'[u] = ship[u]
    PROVE  TradeTypeOK' /\ AllFresh'
<1>1. TradeTypeOK' BY OthersStay DEF TradeInv, TradeTypeOK, Moves
<1>2. ASSUME "twice" \notin excused, NEW t \in Sessions PROVE Fresh(t)'
  <2>1. CASE t = s BY <2>1
  <2>2. CASE UserOf[t] # UserOf[s]
    BY <1>2, <2>2 DEF TradeInv, AllFresh, Fresh, Moves, today, Users
  <2>3. CASE t # s /\ UserOf[t] = UserOf[s]
    <3>1. playing[s] = "trade" BY DEF TradeInv, TradeTypeOK, JobOK
    <3>2. playing[t] # "trade" BY <1>2, <2>3, <3>1 DEF TradeInv, TradeTypeOK, Hosted, Once
    <3>3. job[t].at = "prompt" BY <3>2 DEF TradeInv, TradeTypeOK, JobOK
    <3> QED BY <2>3, <3>3 DEF Fresh, Moves
  <2> QED BY <2>1, <2>2, <2>3
<1> QED BY <1>1, <1>2 DEF AllFresh

\* Back at the prompt, or on with a command, nothing is held that is stale.
LEMMA Prompted ==
    ASSUME TradeTypeOK, NEW s \in Sessions, Prompt(s)
    PROVE  /\ DOMAIN job' = Sessions /\ \A t \in Sessions \ {s} : job'[t] = job[t]
           /\ JobOK(s)' /\ Fresh(s)' /\ job'[s].at = "prompt"
BY DEF TradeTypeOK, Prompt, Idle, Job, Look, JobOK, CmdOK, Verbs, Places, Fresh

LEMMA Loads ==
    ASSUME TradeTypeOK, NEW s \in Sessions, NEW cmd, CmdOK(cmd), Load(s, cmd),
           UNCHANGED <<ship, hour>>, playing'[s] = "trade"
    PROVE  /\ DOMAIN job' = Sessions /\ \A t \in Sessions \ {s} : job'[t] = job[t]
           /\ JobOK(s)' /\ Fresh(s)'
<1> DEFINE p == ship[UserOf[s]]
<1>0. UserOf[s] \in Users BY DEF Users
<1>1. p # NoShip => p.sector \in Sectors BY <1>0 DEF TradeTypeOK, Ledgers, ShipRow
<1>2. DOMAIN job = Sessions BY DEF TradeTypeOK
<1>3. CASE p = NoShip
  <2>1. Proceed(s, "minting", cmd, Home, NoShip) BY <1>3 DEF Load
  <2> QED BY <2>1, <1>2 DEF Proceed, Job, JobOK, Fresh, Places
<1>4. CASE p # NoShip /\ BudgetIsPast(p)
  <2>1. Proceed(s, "renewing", cmd, p.sector, NoShip) BY <1>4 DEF Load
  <2> QED BY <2>1, <1>1, <1>2, <1>4 DEF Proceed, Job, JobOK, Fresh, Places, BudgetIsPast, today
<1>5. CASE p # NoShip /\ ~BudgetIsPast(p)
  <2>1. Proceed(s, "loaded", cmd, p.sector, NoShip) BY <1>5 DEF Load
  <2> QED BY <2>1, <1>1, <1>2, <1>5 DEF Proceed, Job, JobOK, Fresh, Places
<1> QED BY <1>3, <1>4, <1>5

-----------------------------------------------------------------------------
\* The actions

LEMMA EnterTradeStep ==
    ASSUME TradeInv, NEW s \in Sessions, EnterTrade(s)
    PROVE  TradeInv'
<1>1. TradeTypeOK /\ RunGame(s, "trade") BY DEF TradeInv, EnterTrade
<1>2. /\ Hosted' /\ playing'[s] = "trade"
      /\ \A t \in Sessions \ {s} : playing'[t] = playing[t]
      /\ "twice" \in excused => "twice" \in excused'
  BY <1>1, RunGameKeepsHosted DEF TradeTypeOK, Windows
<1>3. Ledgers' /\ UNCHANGED <<ship, hour, late, spent>>
  BY <1>1 DEF EnterTrade, TradeTypeOK, Ledgers
<1>4. CmdOK(Board) BY DEF Board, CmdOK, Verbs
<1>5. CASE charted
  <2>1. Load(s, Board) BY <1>5 DEF EnterTrade
  <2> HIDE DEF Board
  <2>2. Moves(s) /\ JobOK(s)' /\ Fresh(s)'
    BY <1>1, <1>2, <1>3, <1>4, <2>1, Loads DEF Moves
  <2> QED BY <1>2, <1>3, <2>2, QuietStep
<1>6. CASE ~charted
  <2>1. job' = [job EXCEPT ![s] = Job("charting", Board, Home, NoShip)]
    BY <1>6 DEF EnterTrade, Proceed
  <2>2. Moves(s) /\ JobOK(s)' /\ Fresh(s)'
    BY <1>1, <1>2, <1>4, <2>1 DEF TradeTypeOK, Moves, Job, Board, JobOK, Fresh, Places
  <2> QED BY <1>2, <1>3, <2>2, QuietStep
<1> QED BY <1>5, <1>6

LEMMA GenerateTradeUniverseStep ==
    ASSUME TradeInv, NEW s \in Sessions, GenerateTradeUniverse(s)
    PROVE  TradeInv'
<1>1. TradeTypeOK BY DEF TradeInv
<1>2. Hosted' /\ excused' = excused /\ playing' = playing
  BY <1>1 DEF TradeTypeOK, GenerateTradeUniverse, hostVars, Hosted, HostType, Once
<1>3. Ledgers' /\ UNCHANGED <<ship, hour, late, spent>>
  BY <1>1 DEF GenerateTradeUniverse, TradeTypeOK, Ledgers
<1>4. playing[s] = "trade" BY <1>1 DEF TradeTypeOK, JobOK, GenerateTradeUniverse
<1>5. CmdOK(Board) BY DEF Board, CmdOK, Verbs
<1>6. Load(s, Board) BY DEF GenerateTradeUniverse
<1>7. Moves(s) /\ JobOK(s)' /\ Fresh(s)'
  BY <1>1, <1>2, <1>3, <1>4, <1>5, <1>6, Loads DEF Moves
<1> QED BY <1>2, <1>3, <1>7, QuietStep

LEMMA QuitTradeStep ==
    ASSUME TradeInv, NEW s \in Sessions, QuitTrade(s)
    PROVE  TradeInv'
<1>1. TradeTypeOK /\ QuitGame(s) /\ UNCHANGED tradeVars /\ job[s].at = "prompt"
  BY DEF TradeInv, QuitTrade, AtPrompt
<1>2. /\ Hosted' /\ excused' = excused
      /\ \A t \in Sessions \ {s} : playing'[t] = playing[t]
  BY <1>1, QuitGameKeepsHosted DEF TradeTypeOK
<1>3. Moves(s) /\ JobOK(s)' /\ Fresh(s)' /\ Ledgers'
  BY <1>1, <1>2 DEF TradeTypeOK, Moves, JobOK, CmdOK, Fresh, Ledgers, tradeVars
<1> QED BY <1>1, <1>2, <1>3, QuietStep DEF tradeVars

LEMMA TypeStep ==
    ASSUME TradeInv, NEW s \in Sessions, Type(s)
    PROVE  TradeInv'
<1>1. TradeTypeOK /\ playing[s] = "trade" BY DEF TradeInv, Type, AtPrompt
<1>2. Hosted' /\ excused' = excused /\ playing' = playing
  BY <1>1 DEF TradeTypeOK, Type, hostVars, Hosted, HostType, Once
<1>3. Ledgers' /\ UNCHANGED <<ship, hour, late, spent>>
  BY <1>1 DEF Type, TradeTypeOK, Ledgers
<1>4. PICK cmd \in {Look, Map} \cup {WarpTo(n) : n \in Sectors}
                     \cup {Deal(v, g, q) : v \in {"buy", "sell"}, g \in Dealt, q \in Quantities} :
        Load(s, cmd)
  BY DEF Type
<1>5. CmdOK(cmd)
  <2>1. CASE cmd \in {Look, Map} BY <2>1 DEF Look, Map, CmdOK, Verbs
  <2>2. CASE cmd \in {WarpTo(n) : n \in Sectors} BY <2>2 DEF WarpTo, CmdOK, Verbs
  <2>3. CASE cmd \in {Deal(v, g, q) : v \in {"buy", "sell"}, g \in Dealt, q \in Quantities}
    BY <2>3 DEF Deal, CmdOK, Verbs
  <2> QED BY <1>4, <2>1, <2>2, <2>3
<1>6. Moves(s) /\ JobOK(s)' /\ Fresh(s)'
  BY <1>1, <1>2, <1>3, <1>4, <1>5, Loads DEF Moves
<1> QED BY <1>2, <1>3, <1>6, QuietStep

LEMMA LookAroundStep ==
    ASSUME TradeInv, NEW s \in Sessions, LookAround(s)
    PROVE  TradeInv'
<1>1. TradeTypeOK /\ playing[s] = "trade" BY DEF TradeInv, TradeTypeOK, LookAround, JobOK
<1>2. Hosted' /\ excused' = excused /\ playing' = playing
  BY <1>1 DEF TradeTypeOK, LookAround, hostVars, Hosted, HostType, Once
<1>3. Ledgers' /\ UNCHANGED <<ship, hour, late, spent>>
  BY <1>1 DEF LookAround, TradeTypeOK, Ledgers
<1>4. CmdOK(Look) BY DEF Look, CmdOK, Verbs
<1>5. Load(s, Look) BY DEF LookAround
<1>6. Moves(s) /\ JobOK(s)' /\ Fresh(s)'
  BY <1>1, <1>2, <1>3, <1>4, <1>5, Loads DEF Moves
<1> QED BY <1>2, <1>3, <1>6, QuietStep

\* A map goes on to the next sector, or back to the prompt.
LEMMA Surveys ==
    ASSUME TradeTypeOK, NEW s \in Sessions, NEW unseen \in SUBSET Sectors, SurveyNext(s, unseen),
           job[s].at # "prompt", ship[UserOf[s]] # NoShip, ship' = ship, playing' = playing
    PROVE  /\ DOMAIN job' = Sessions /\ \A t \in Sessions \ {s} : job'[t] = job[t]
           /\ JobOK(s)' /\ Fresh(s)'
<1>1. CASE unseen = {} BY <1>1, Prompted DEF SurveyNext
<1>2. CASE unseen # {}
  <2> DEFINE n == CHOOSE k \in unseen : \A m \in unseen : k <= m
  <2>1. Proceed(s, "loaded", Survey(unseen \ {n}), n, NoShip) BY <1>2 DEF SurveyNext
  <2>2. n \in unseen BY <1>2, LeastOfNats
  <2>3. playing[s] = "trade" BY DEF TradeTypeOK, JobOK
  <2> HIDE DEF n
  <2>4. n \in Sectors /\ unseen \ {n} \subseteq Sectors BY <2>2
  <2> QED BY <2>1, <2>3, <2>4 DEF TradeTypeOK, Proceed, Job, Survey, JobOK, CmdOK, Verbs, Places, Fresh
<1> QED BY <1>1, <1>2

LEMMA ShowMapStep ==
    ASSUME TradeInv, NEW s \in Sessions, ShowMap(s)
    PROVE  TradeInv'
<1>1. TradeTypeOK /\ job[s].at = "loaded" BY DEF TradeInv, ShowMap
<1>2. Hosted' /\ excused' = excused /\ playing' = playing
  BY <1>1 DEF TradeTypeOK, ShowMap, hostVars, Hosted, HostType, Once
<1>3. Ledgers' /\ UNCHANGED <<ship, hour, late, spent>>
  BY <1>1 DEF ShowMap, TradeTypeOK, Ledgers
<1>4. SurveyNext(s, Warps[job[s].sector]) BY DEF ShowMap
<1>5. Warps[job[s].sector] \in SUBSET Sectors /\ ship[UserOf[s]] # NoShip
  BY <1>1 DEF TradeTypeOK, JobOK
<1>6. Moves(s) /\ JobOK(s)' /\ Fresh(s)'
  BY <1>1, <1>2, <1>3, <1>4, <1>5, Surveys DEF Moves
<1> QED BY <1>2, <1>3, <1>6, QuietStep

\* What follows on a port: the survey's next sector, the exchange, or the prompt.
LEMMA WithPorts ==
    ASSUME TradeTypeOK, NEW s \in Sessions, NEW held \in PortRow, WithPort(s, held),
           job[s].at \in {"loaded", "restocking"}, job[s].sector \in Ports,
           ship' = ship, playing' = playing
    PROVE  /\ DOMAIN job' = Sessions /\ \A t \in Sessions \ {s} : job'[t] = job[t]
           /\ JobOK(s)' /\ Fresh(s)'
<1>1. /\ ship[UserOf[s]] # NoShip /\ CmdOK(job[s].cmd) /\ playing[s] = "trade"
      /\ job[s].sector \in Sectors /\ DOMAIN job = Sessions
  BY DEF TradeTypeOK, JobOK
<1>2. CASE job[s].cmd.verb = "survey"
  <2>1. SurveyNext(s, job[s].cmd.left) /\ job[s].cmd.left \in SUBSET Sectors
    BY <1>1, <1>2 DEF WithPort, CmdOK
  <2> QED BY <1>1, <2>1, Surveys
<1>3. CASE job[s].cmd.verb \in {"buy", "sell"} /\ Proceed(s, "dealing", job[s].cmd, job[s].sector, held)
  BY <1>1, <1>3 DEF Proceed, Job, JobOK, CmdOK, Places, Fresh
<1>4. CASE Prompt(s) BY <1>4, Prompted
<1> QED BY <1>2, <1>3, <1>4 DEF WithPort

LEMMA ReadPortStep ==
    ASSUME TradeInv, NEW s \in Sessions, ReadPort(s)
    PROVE  TradeInv'
<1>1. TradeTypeOK /\ job[s].at = "loaded" BY DEF TradeInv, ReadPort
<1>2. Hosted' /\ excused' = excused /\ playing' = playing
  BY <1>1 DEF TradeTypeOK, ReadPort, hostVars, Hosted, HostType, Once
<1>3. Ledgers' /\ UNCHANGED <<ship, hour, late, spent>>
  BY <1>1 DEF ReadPort, TradeTypeOK, Ledgers
<1>4. /\ ship[UserOf[s]] # NoShip /\ CmdOK(job[s].cmd) /\ playing[s] = "trade"
      /\ job[s].sector \in Sectors /\ DOMAIN job = Sessions
  BY <1>1 DEF TradeTypeOK, JobOK
<1> DEFINE n == job[s].sector
<1>5. CASE n \notin Ports
  <2>1. NoPort(s) BY <1>5 DEF ReadPort
  <2>2. CASE job[s].cmd.verb = "survey"
    <3>1. SurveyNext(s, job[s].cmd.left) /\ job[s].cmd.left \in SUBSET Sectors
      BY <1>4, <2>1, <2>2 DEF NoPort, CmdOK
    <3> QED BY <1>1, <1>2, <1>3, <1>4, <3>1, Surveys, QuietStep DEF Moves
  <2>3. CASE job[s].cmd.verb # "survey"
    <3>1. Prompt(s) BY <2>1, <2>3 DEF NoPort
    <3> QED BY <1>1, <1>2, <1>3, <3>1, Prompted, QuietStep DEF Moves
  <2> QED BY <2>2, <2>3
<1>6. CASE n \in Ports /\ Hours(n) = 0
  <2>1. WithPort(s, stock[n]) BY <1>6 DEF ReadPort
  <2>2. stock[n] \in PortRow BY <1>1, <1>6, DriftIsARow DEF TradeTypeOK
  <2> QED BY <1>1, <1>2, <1>3, <1>6, <2>1, <2>2, WithPorts, QuietStep DEF Moves
<1>7. CASE n \in Ports /\ Hours(n) # 0
  <2>1. Proceed(s, "restocking", job[s].cmd, n, Drifted(n)) BY <1>7 DEF ReadPort
  <2>2. Drifted(n) \in PortRow BY <1>1, <1>7, DriftIsARow DEF TradeTypeOK
  <2> HIDE DEF n
  <2>3. Moves(s) BY <1>2, <1>4, <2>1 DEF Moves, Proceed
  <2>4. job'[s] = Job("restocking", job[s].cmd, n, Drifted(n)) BY <1>4, <2>1 DEF Proceed
  <2>5. JobOK(s)' BY <1>2, <1>3, <1>4, <1>7, <2>2, <2>4 DEF Job, JobOK, CmdOK, Places, n
  <2>6. Fresh(s)' BY <2>4 DEF Job, Fresh
  <2> QED BY <1>2, <1>3, <2>3, <2>5, <2>6, QuietStep
<1> QED BY <1>5, <1>6, <1>7

LEMMA RestockStep ==
    ASSUME TradeInv, NEW s \in Sessions, Restock(s)
    PROVE  TradeInv'
<1>1. TradeTypeOK /\ job[s].at = "restocking" BY DEF TradeInv, Restock
<1>2. Hosted' /\ excused' = excused /\ playing' = playing
  BY <1>1 DEF TradeTypeOK, Restock, hostVars, Hosted, HostType, Once
<1>3. job[s].sector \in Ports /\ job[s].stock \in PortRow /\ WithPort(s, job[s].stock)
  BY <1>1 DEF TradeTypeOK, JobOK, Restock
<1>4. Ledgers' /\ UNCHANGED <<ship, hour, late, spent>>
  BY <1>1, <1>3 DEF Restock, TradeTypeOK, Ledgers
<1> QED BY <1>1, <1>2, <1>3, <1>4, WithPorts, QuietStep DEF Moves

LEMMA FailsStep ==
    ASSUME TradeInv, NEW s \in Sessions, Fails(s)
    PROVE  TradeInv'
<1>1. TradeTypeOK /\ Prompt(s) BY DEF TradeInv, Fails
<1>2. /\ Hosted' /\ excused' = excused
      /\ \A t \in Sessions \ {s} : playing'[t] = playing[t]
  <2>1. CASE QuitGame(s) BY <1>1, <2>1, QuitGameKeepsHosted DEF TradeTypeOK
  <2>2. CASE UNCHANGED hostVars
    BY <1>1, <2>2 DEF TradeTypeOK, hostVars, Hosted, HostType, Once
  <2> QED BY <2>1, <2>2 DEF Fails
<1>3. Ledgers' /\ UNCHANGED <<ship, hour, late, spent>>
  BY <1>1 DEF Fails, TradeTypeOK, Ledgers
<1> QED BY <1>1, <1>2, <1>3, Prompted, QuietStep DEF Moves

\* Loaded: at the place that was read, with a ship.
LEMMA Loaded ==
    ASSUME TradeTypeOK, NEW s \in Sessions, NEW cmd, NEW n \in Sectors, CmdOK(cmd),
           job' = [job EXCEPT ![s] = Job("loaded", cmd, n, NoShip)],
           playing' = playing, job[s].at # "prompt", ship'[UserOf[s]] # NoShip,
           cmd.verb = "warp" => n = ship'[UserOf[s]].sector
    PROVE  Moves(s) /\ JobOK(s)' /\ Fresh(s)'
BY DEF TradeTypeOK, Moves, Job, JobOK, CmdOK, Places, Fresh

LEMMA GrantIsInBudget == ASSUME NEW cmd PROVE Grant(cmd) \in 0..Daily
BY DEF Grant

\* What a grant is written under.
LEMMA DatesWritten ==
    ASSUME TradeTypeOK, NEW u \in Users, Dated(u), hour' = hour
    PROVE  /\ today \in Int /\ current_date \in Int /\ today' = today
           /\ late' \in [Users -> Nat] /\ \A v \in Users \ {u} : late'[v] = late[v]
           /\ late[u] \in Nat
           /\ late'[u] = 0 => late[u] = 0 /\ today <= current_date
<1>1. hour \in Nat /\ late \in [Users -> Nat] BY DEF TradeTypeOK, Ledgers
<1>2. /\ today \in Int /\ current_date \in Int
  <2>1. (hour + NodeZone) \div 24 \in Int /\ (hour + BaseZone) \div 24 \in Int BY <1>1, DaysPass
  <2> QED BY <2>1 DEF today, current_date
<1>3. today' = today BY DEF today
<1>4. CASE current_date < today
  <2>1. PICK k \in Nat : k = late[u] + 1 BY <1>1
  <2>2. late' = [late EXCEPT ![u] = k] BY <1>4, <2>1 DEF Dated
  <2>3. late'[u] = k /\ k # 0 BY <1>1, <2>1, <2>2
  <2> QED BY <1>1, <1>2, <1>3, <2>2, <2>3
<1>5. CASE ~(current_date < today)
  <2>1. late' = late BY <1>1, <1>5 DEF Dated
  <2> QED BY <1>1, <1>2, <1>3, <1>5, <2>1
<1> QED BY <1>4, <1>5

\* The first budget of a day is within any share.
LEMMA FirstGrant ==
    ASSUME NEW u, NEW s \in Sessions, s \in Awake(u)', NEW x \in Int, x = spent'[u] + ship'[u].turns, x <= Daily
    PROVE  Shared(u)'
<1>1. IsFiniteSet(Awake(u)') /\ Cardinality({s}) = 1 /\ {s} \subseteq Awake(u)'
  BY SeatsCounted, FS_Singleton
<1>2. 1 <= Cardinality(Awake(u)') BY <1>1, FS_Subset
<1>3. PICK k \in Nat, m \in Nat :
        /\ k = Cardinality(Awake(u)') /\ m = Cardinality(Seats(u)) /\ 1 <= k /\ k <= m
  BY <1>2, SeatsCounted
<1>4. Daily * 1 <= Daily * k /\ Daily * k <= Daily * m /\ Daily * k \in Nat /\ Daily * m \in Nat
  <2>1. Daily \in Nat OBVIOUS
  <2>2. 1 \in Nat OBVIOUS
  <2> QED BY <1>3, <2>1, <2>2, Scaled, Zenon
<1>5. x <= Daily * k /\ x <= Daily * m BY <1>4
<1>6. Seats(u)' = Seats(u) BY DEF Seats
<1> QED BY <1>3, <1>5, <1>6 DEF Shared

\* A session that grants a second one has taken it out of its own share.
LEMMA NextGrant ==
    ASSUME NEW u, NEW x \in Int, x = spent'[u] + ship'[u].turns, NEW y \in Int,
           y <= Daily * Cardinality(Awake(u)), x <= y + Daily,
           Cardinality(Awake(u)) + 1 <= Cardinality(Awake(u)')
    PROVE  Shared(u)'
<1>1. PICK j \in Nat, k \in Nat, m \in Nat :
        /\ j = Cardinality(Awake(u)) /\ k = Cardinality(Awake(u)') /\ m = Cardinality(Seats(u))
        /\ j + 1 <= k /\ k <= m
  BY SeatsCounted
<1>2. Daily \in Nat /\ j + 1 \in Nat BY <1>1
<1>3. Daily * (j + 1) <= Daily * k /\ Daily * k <= Daily * m /\ Daily * k \in Nat /\ Daily * m \in Nat
  BY <1>1, <1>2, Scaled, Zenon
<1>4. Daily * (j + 1) = Daily * j + Daily /\ Daily * j \in Nat BY <1>2
<1>5. x <= Daily * k /\ x <= Daily * m BY <1>1, <1>2, <1>3, <1>4
<1>6. Seats(u)' = Seats(u) BY DEF Seats
<1> QED BY <1>1, <1>5, <1>6 DEF Shared

LEMMA MintStep ==
    ASSUME TradeInv, NEW s \in Sessions, Mint(s)
    PROVE  TradeInv'
<1> DEFINE u == UserOf[s]
           p == [sector |-> Home, credits |-> Purse, turns |-> Grant(job[s].cmd),
                 cargo |-> [g \in Goods |-> 0], day |-> current_date]
<1>1. TradeTypeOK /\ job[s].at = "minting" /\ u \in Users BY DEF TradeInv, Mint, Users
<1>2. CASE ship[u] = NoShip
  <2>1. /\ ship' = [ship EXCEPT ![u] = p] /\ Proceed(s, "loaded", job[s].cmd, Home, NoShip)
        /\ UNCHANGED <<hostVars, charted, stock, touched, hour, spent>> /\ Dated(u)
    BY <1>2 DEF Mint
  <2>2. Hosted' /\ excused' = excused /\ playing' = playing
    BY <1>1, <2>1 DEF TradeTypeOK, hostVars, Hosted, HostType, Once
  <2>3. /\ today \in Int /\ current_date \in Int /\ today' = today
        /\ late' \in [Users -> Nat] /\ \A v \in Users \ {u} : late'[v] = late[v]
    BY <1>1, <2>1, DatesWritten
  <2>4. p \in ShipRow BY <2>3, GrantIsInBudget DEF ShipRow
  <2>5. Aboard(p) = 0 BY DEF Aboard, Goods
  <2>6. /\ p.credits = Purse /\ p.turns \in 0..Daily /\ \A g \in Goods : p.cargo[g] = 0
        /\ p.sector = Home
    BY GrantIsInBudget
  <2>7. DOMAIN ship = Users BY <1>1 DEF TradeTypeOK, Ledgers
  <2> HIDE DEF p
  <2>8. ship'[u] = p /\ p # NoShip /\ \A v \in Users \ {u} : ship'[v] = ship[v]
    BY <1>1, <2>1, <2>4, <2>7
  <2>9. Ledgers' BY <1>1, <2>1, <2>3, <2>4 DEF TradeTypeOK, Ledgers
  <2>10. Moves(s) /\ JobOK(s)' /\ Fresh(s)'
    BY <1>1, <2>1, <2>2, <2>6, <2>8, Loaded DEF Proceed, TradeTypeOK, JobOK
  <2>11. TradeTypeOK' /\ AllFresh' BY <1>1, <2>1, <2>2, <2>8, <2>9, <2>10, OwnersStep
  <2>12. ShipIsSound' BY <1>1, <2>5, <2>6, <2>8 DEF TradeInv, ShipIsSound, Ships, Aboard
  <2>13. spent' = spent /\ spent[u] = 0 BY <1>1, <1>2, <2>1 DEF TradeInv, SpentOnShips
  <2>14. OneBudget' BY <1>1, <2>2, <2>3, <2>6, <2>8, <2>13 DEF TradeInv, OneBudget, Ships
  <2>15. SpentOnShips' BY <1>1, <2>8, <2>13 DEF TradeInv, SpentOnShips
  <2>16. AllShared'
    <3>1. \A v \in Users \ {u} : ship'[v] # NoShip => Shared(v)'
      BY <2>1, <2>3, <2>8, <2>9, <2>10, <2>13, GrantsNothing
    <3>2. Shared(u)'
      <4>1. \A t \in Sessions : UserOf[t] = u => job'[t].at # "renewing"
        BY <1>1, <1>2, <2>1, <2>10 DEF TradeTypeOK, JobOK, Moves, Proceed, Job
      <4>2. s \in Awake(u)' /\ spent'[u] + ship'[u].turns <= Daily
        BY <1>1, <2>6, <2>8, <2>13, <4>1 DEF Awake, Seats
      <4> QED BY <2>6, <2>8, <2>13, <4>2, FirstGrant
    <3> QED BY <3>1, <3>2 DEF AllShared, Ships
  <2> QED BY <2>11, <2>12, <2>14, <2>15, <2>16 DEF TradeInv
<1>3. CASE ship[u] # NoShip
  <2>1. Prompt(s) /\ QuitGame(s) /\ UNCHANGED <<ship, charted, stock, touched, hour, late, spent>>
    BY <1>3 DEF Mint
  <2>2. Ledgers' BY <1>1, <2>1 DEF TradeTypeOK, Ledgers
  <2> QED BY <1>1, <2>1, <2>2, Prompted, QuitGameKeepsHosted, QuietStep DEF Moves, TradeTypeOK
<1> QED BY <1>2, <1>3

LEMMA RenewStep ==
    ASSUME TradeInv, NEW s \in Sessions, Renew(s)
    PROVE  TradeInv'
<1> DEFINE u == UserOf[s]
           p == [ship[u] EXCEPT !.turns = Grant(job[s].cmd), !.day = current_date]
<1>1. TradeTypeOK /\ job[s].at = "renewing" /\ u \in Users BY DEF TradeInv, Renew, Users
<1>2. /\ ship' = [ship EXCEPT ![u] = p]
      /\ Proceed(s, "loaded", job[s].cmd, job[s].sector, NoShip)
      /\ spent' = [spent EXCEPT ![u] = IF ship[u].day < today /\ late[u] = 0 THEN 0 ELSE @]
      /\ UNCHANGED <<hostVars, charted, stock, touched, hour>> /\ Dated(u)
  BY DEF Renew
<1>3. ship[u] \in ShipRow /\ ship[u] # NoShip /\ job[s].sector \in Sectors /\ CmdOK(job[s].cmd)
  BY <1>1 DEF TradeTypeOK, JobOK, Ledgers
<1>4. Hosted' /\ excused' = excused /\ playing' = playing
  <2>1. UNCHANGED hostVars BY <1>2
  <2> QED BY <1>1, <2>1 DEF TradeTypeOK, hostVars, Hosted, HostType, Once
<1>5. /\ today \in Int /\ current_date \in Int /\ today' = today
      /\ late' \in [Users -> Nat] /\ \A v \in Users \ {u} : late'[v] = late[v]
      /\ late[u] \in Nat
      /\ late'[u] = 0 => late[u] = 0 /\ today <= current_date
  BY <1>1, <1>2, DatesWritten
<1>6. /\ p \in ShipRow /\ p.turns \in 0..Daily
      /\ p.sector = ship[u].sector /\ p.credits = ship[u].credits /\ p.cargo = ship[u].cargo
      /\ p.day = current_date
  <2>1. Grant(job[s].cmd) \in 0..Daily BY GrantIsInBudget
  <2>2. /\ p \in ShipRow /\ p.turns = Grant(job[s].cmd)
        /\ p.sector = ship[u].sector /\ p.credits = ship[u].credits /\ p.cargo = ship[u].cargo
        /\ p.day = current_date
    <3>1. PICK t \in Int, d \in Int : t = Grant(job[s].cmd) /\ d = current_date BY <1>5, <2>1
    <3>2. PICK r \in ShipRow : r = ship[u] BY <1>3
    <3>3. p = [r EXCEPT !.turns = t, !.day = d] BY <3>1, <3>2
    <3> HIDE DEF p
    <3>4. p \in ShipRow /\ p.turns = t /\ p.day = d BY <3>3 DEF ShipRow
    <3>5. p.sector = r.sector /\ p.credits = r.credits /\ p.cargo = r.cargo BY <3>3 DEF ShipRow
    <3> QED BY <3>1, <3>2, <3>4, <3>5
  <2> QED BY <2>1, <2>2
<1>7. DOMAIN ship = Users /\ DOMAIN spent = Users BY <1>1 DEF TradeTypeOK, Ledgers
<1> HIDE DEF p
<1>8. ship'[u] = p /\ p # NoShip /\ \A v \in Users \ {u} : ship'[v] = ship[v] /\ spent'[v] = spent[v]
  BY <1>1, <1>2, <1>6, <1>7
<1>15. /\ ship[u].day < today /\ late[u] = 0 => spent'[u] = 0
       /\ spent' \in [Users -> Int] /\ spent \in [Users -> Int]
       /\ ~(ship[u].day < today) => spent'[u] = spent[u]
  <2>1. spent \in [Users -> Int] BY <1>1 DEF TradeTypeOK, Ledgers
  <2>2. CASE ship[u].day < today /\ late[u] = 0
    <3>1. spent' = [spent EXCEPT ![u] = 0] BY <1>2, <2>2
    <3> QED BY <1>1, <2>1, <2>2, <3>1
  <2>3. CASE ~(ship[u].day < today /\ late[u] = 0)
    <3>1. spent' = spent BY <1>2, <2>1, <2>3
    <3> QED BY <2>1, <2>3, <3>1
  <2> QED BY <2>2, <2>3
<1>9. Ledgers' BY <1>1, <1>2, <1>5, <1>6, <1>15 DEF TradeTypeOK, Ledgers
<1>10. Moves(s) /\ JobOK(s)' /\ TradeTypeOK' /\ AllFresh'
  <2>1. "twice" \notin excused => (job[s].cmd.verb = "warp" => job[s].sector = ship'[u].sector)
    BY <1>1, <1>6, <1>8 DEF TradeInv, AllFresh, Fresh
  <2>2. DOMAIN job = Sessions /\ job' = [job EXCEPT ![s] = Job("loaded", job[s].cmd, job[s].sector, NoShip)]
    BY <1>1, <1>2 DEF Proceed, TradeTypeOK
  <2>3. Moves(s) /\ JobOK(s)'
    BY <1>1, <1>3, <1>4, <1>8, <2>2 DEF Moves, Job, JobOK, TradeTypeOK, CmdOK, Places
  <2>4. CASE "twice" \in excused
    BY <1>1, <1>4, <1>8, <1>9, <2>3, <2>4, OthersStay DEF TradeTypeOK, AllFresh, Moves
  <2>5. CASE "twice" \notin excused
    <3>1. Fresh(s)' BY <2>1, <2>2, <2>5 DEF Job, Fresh
    <3> QED BY <1>1, <1>2, <1>4, <1>8, <1>9, <2>3, <3>1, OwnersStep
  <2> QED BY <2>3, <2>4, <2>5
<1>11. ShipIsSound' BY <1>1, <1>3, <1>6, <1>8 DEF TradeInv, ShipIsSound, Ships, Aboard
<1>12. OneBudget'
  <2>1. "twice" \notin excused => ship[u].day < today BY <1>1 DEF TradeInv, AllFresh, Fresh
  <2>2. "twice" \notin excused /\ late'[u] = 0 => spent'[u] = 0 BY <1>5, <1>15, <2>1
  <2> QED BY <1>1, <1>4, <1>5, <1>6, <1>8, <2>2 DEF TradeInv, OneBudget, Ships
<1>14. AllShared'
  <2>1. \A v \in Users \ {u} : ship'[v] # NoShip => Shared(v)'
    <3> TAKE v \in Users \ {u}
    <3> HAVE ship'[v] # NoShip
    <3>1. \A t \in Sessions : UserOf[t] = v /\ job'[t].at = "renewing" =>
              job[t].at = "renewing" \/ ship'[v].day < today'
      BY <1>10 DEF Moves
    <3>2. hour <= hour' BY <1>1, <1>2 DEF TradeTypeOK, Ledgers
    <3> QED BY <1>5, <1>8, <1>9, <3>1, <3>2, KeepsShared
  <2>2. s \in Awake(u)' /\ s \in Seats(u) /\ s \notin Awake(u)
    BY <1>1, <1>2 DEF Awake, Seats, Proceed, Job, TradeTypeOK
  <2>3. Shared(u)'
    <3> SUFFICES ASSUME late'[u] = 0 PROVE Shared(u)' BY DEF Shared
    <3>1. CASE ship[u].day < today
      <4>1. spent'[u] = 0 BY <1>5, <1>15, <3>1
      <4>2. PICK x \in Int : x = spent'[u] + ship'[u].turns /\ x <= Daily BY <1>6, <1>8, <4>1
      <4> QED BY <2>2, <4>2, FirstGrant
    <3>2. CASE ~(ship[u].day < today)
      <4>1. /\ Shared(u) /\ late[u] = 0 /\ spent'[u] = spent[u] /\ spent[u] \in Int
            /\ ship[u].day \in Int /\ ship[u].turns \in 0..Daily
        BY <1>1, <1>3, <1>5, <1>15, <3>2
        DEF TradeInv, AllShared, ShipIsSound, Ships, TradeTypeOK, Ledgers, ShipRow
      <4>2. spent[u] <= Daily * Cardinality(Awake(u))
        <5>1. spent[u] + ship[u].turns <= Daily * Cardinality(Awake(u)) BY <1>5, <3>2, <4>1 DEF Shared
        <5>2. PICK k \in Nat : k = Cardinality(Awake(u)) BY SeatsCounted
        <5> QED BY <4>1, <5>1, <5>2
      <4>3. Awake(u) \cup {s} \subseteq Awake(u)'
        BY <1>10, <2>2 DEF Awake, Seats, Moves
      <4>4. Cardinality(Awake(u) \cup {s}) = Cardinality(Awake(u)) + 1
        BY <2>2, SeatsCounted, FS_AddElement
      <4>5. Cardinality(Awake(u) \cup {s}) <= Cardinality(Awake(u)')
        BY <4>3, SeatsCounted, FS_Subset
      <4>6. PICK x \in Int : x = spent'[u] + ship'[u].turns /\ x <= spent[u] + Daily BY <1>6, <1>8, <4>1
      <4> QED BY <4>1, <4>2, <4>4, <4>5, <4>6, NextGrant
    <3> QED BY <3>1, <3>2
  <2> QED BY <2>1, <2>3 DEF AllShared, Ships
<1>13. SpentOnShips' BY <1>1, <1>8 DEF TradeInv, SpentOnShips
<1> QED BY <1>10, <1>11, <1>12, <1>13, <1>14 DEF TradeInv

LEMMA WarpStep ==
    ASSUME TradeInv, NEW s \in Sessions, Warp(s)
    PROVE  TradeInv'
<1> DEFINE u == UserOf[s]
           to == job[s].cmd.to
           p == [ship[u] EXCEPT !.sector = to, !.turns = @ - 1]
<1>1. TradeTypeOK /\ job[s].at = "loaded" /\ u \in Users BY DEF TradeInv, Warp, Users
<1>2. /\ Hosted' /\ excused' = excused /\ playing' = playing
      /\ UNCHANGED <<charted, stock, touched, hour, late>>
  BY <1>1 DEF Warp, TradeTypeOK, hostVars, Hosted, HostType, Once
<1>3. /\ ship[u] \in ShipRow /\ ship[u] # NoShip /\ to \in Sectors
      /\ DOMAIN job = Sessions /\ DOMAIN ship = Users /\ spent \in [Users -> Int]
  BY <1>1 DEF TradeTypeOK, JobOK, Ledgers, CmdOK, Warp
<1>4. CASE Adjacent(job[s].sector, to) /\ ship[u].turns > 0
  <2>1. /\ ship' = [ship EXCEPT ![u] = p] /\ spent' = [spent EXCEPT ![u] = @ + 1]
        /\ Proceed(s, "loaded", Arrive, Home, NoShip)
    BY <1>4 DEF Warp
  <2>2. /\ p \in ShipRow /\ p.turns = ship[u].turns - 1 /\ p.sector = to
        /\ p.credits = ship[u].credits /\ p.cargo = ship[u].cargo /\ p.day = ship[u].day
    <3>1. PICK r \in ShipRow : r = ship[u] BY <1>3
    <3>2. PICK t \in Int : t = r.turns - 1 BY DEF ShipRow
    <3>3. p = [r EXCEPT !.sector = to, !.turns = t] BY <3>1, <3>2
    <3> HIDE DEF p
    <3>4. p \in ShipRow /\ p.turns = t /\ p.sector = to BY <1>3, <3>3 DEF ShipRow
    <3>5. p.credits = r.credits /\ p.cargo = r.cargo /\ p.day = r.day BY <3>3 DEF ShipRow
    <3> QED BY <3>1, <3>2, <3>4, <3>5
  <2> HIDE DEF p
  <2>3. ship'[u] = p /\ p # NoShip /\ \A v \in Users \ {u} : ship'[v] = ship[v] /\ spent'[v] = spent[v]
    BY <1>1, <1>3, <2>1, <2>2
  <2>4. Ledgers' BY <1>1, <1>2, <1>3, <2>1, <2>2 DEF TradeTypeOK, Ledgers
  <2>5. Moves(s) /\ JobOK(s)' /\ Fresh(s)'
    <3>1. CmdOK(Arrive) /\ Arrive.verb # "warp" BY DEF Arrive, CmdOK, Verbs
    <3>2. job' = [job EXCEPT ![s] = Job("loaded", Arrive, Home, NoShip)] BY <2>1 DEF Proceed
    <3> HIDE DEF u
    <3> QED BY <1>1, <1>2, <2>3, <3>1, <3>2, Loaded DEF u
  <2>6. TradeTypeOK' /\ AllFresh' BY <1>1, <1>2, <2>3, <2>4, <2>5, OwnersStep
  <2>7. ship[u].turns \in 1..Daily /\ p.turns \in 0..Daily
    BY <1>1, <1>3, <1>4, <2>2 DEF TradeInv, ShipIsSound, Ships, ShipRow
  <2>8. ShipIsSound' BY <1>1, <1>3, <2>2, <2>3, <2>7 DEF TradeInv, ShipIsSound, Ships, Aboard
  <2>9. spent'[u] = spent[u] + 1 /\ spent[u] \in Int BY <1>1, <1>3, <2>1
  <2>10. OneBudget' BY <1>1, <1>2, <1>3, <2>2, <2>3, <2>7, <2>9 DEF TradeInv, OneBudget, Ships
  <2>12. AllShared'
    <3>1. \A v \in Users : ship[v] # NoShip => spent'[v] + ship'[v].turns = spent[v] + ship[v].turns
      BY <1>1, <1>3, <2>2, <2>3, <2>7, <2>9
    <3>2. \A v \in Users : ship'[v] # NoShip => ship[v] # NoShip /\ ship'[v].day = ship[v].day
      BY <1>1, <1>3, <2>2, <2>3
    <3> QED BY <1>2, <2>4, <2>5, <3>1, <3>2, GrantsNothing DEF AllShared, Ships
  <2>11. SpentOnShips' BY <1>1, <2>3 DEF TradeInv, SpentOnShips
  <2> QED BY <2>6, <2>8, <2>10, <2>11, <2>12 DEF TradeInv
<1>5. CASE ~(Adjacent(job[s].sector, to) /\ ship[u].turns > 0)
  <2>1. Prompt(s) /\ UNCHANGED <<ship, spent>> BY <1>5 DEF Warp
  <2>2. Ledgers' BY <1>1, <1>2, <2>1 DEF TradeTypeOK, Ledgers
  <2> QED BY <1>1, <1>2, <2>1, <2>2, Prompted, QuietStep DEF Moves
<1> QED BY <1>4, <1>5

\* What a deal does to the row of a ship that it fits.
LEMMA TradedRow ==
    ASSUME NEW r \in ShipRow, NEW g \in Goods, NEW k \in Int, NEW cost \in Int,
           r.credits - cost >= 0, r.cargo[g] + k >= 0, Aboard(r) + k <= Holds,
           \A h \in Goods : r.cargo[h] >= 0
    PROVE  LET p == Traded(r, g, k, cost)
           IN /\ p \in ShipRow /\ p.sector = r.sector /\ p.turns = r.turns /\ p.day = r.day
              /\ p.credits >= 0 /\ \A h \in Goods : p.cargo[h] >= 0
              /\ Aboard(p) <= Holds
<1> DEFINE p == Traded(r, g, k, cost)
<1>1. PICK b \in [Goods -> Int] : b = r.cargo BY DEF ShipRow
<1>2. PICK v \in Int : v = b[g] + k OBVIOUS
<1>3. PICK c \in [Goods -> Int] : c = [b EXCEPT ![g] = v] OBVIOUS
<1>4. PICK m \in Int : m = r.credits - cost BY DEF ShipRow
<1>5. p = [r EXCEPT !.credits = m, !.cargo = c] BY <1>1, <1>2, <1>3, <1>4 DEF Traded
<1>6. \A h \in Goods : c[h] = IF h = g THEN b[h] + k ELSE b[h] BY <1>2, <1>3
<1> HIDE DEF p
<1>7. p.credits = m /\ p.cargo = c /\ p.sector = r.sector /\ p.turns = r.turns /\ p.day = r.day
  BY <1>5 DEF ShipRow
<1>8. p \in ShipRow BY <1>5 DEF ShipRow
<1>9. \A h \in Goods : c[h] >= 0 BY <1>1, <1>6
<1>10. c["ore"] + c["organics"] + c["equipment"] = Aboard(r) + k BY <1>1, <1>6 DEF Aboard, Goods
<1>11. Aboard(p) <= Holds BY <1>7, <1>10 DEF Aboard
<1> QED BY <1>4, <1>7, <1>8, <1>9, <1>11 DEF p

\* A deal leaves a sound ship sound, and every session as it was.
LEMMA DealtStep ==
    ASSUME TradeInv, NEW s \in Sessions, NEW n \in Ports, NEW g \in Goods, NEW k \in Int, NEW cost \in Int,
           job[s].at = "dealing", Prompt(s), UNCHANGED <<charted, hour, late, spent, hostVars>>,
           ship[UserOf[s]].credits - cost >= 0, ship[UserOf[s]].cargo[g] + k >= 0,
           Aboard(ship[UserOf[s]]) + k <= Holds,
           stock' = [stock EXCEPT ![n][g] = @ - k], touched' = [touched EXCEPT ![n] = hour],
           ship' = [ship EXCEPT ![UserOf[s]] = Traded(@, g, k, cost)]
    PROVE  TradeInv'
<1>1. TradeTypeOK BY DEF TradeInv
<1>2. PICK u \in Users : u = UserOf[s] BY DEF Users
<1>3. PICK r \in ShipRow : r = ship[u] BY <1>1, <1>2 DEF TradeTypeOK, JobOK, Ledgers
<1>4. /\ r # NoShip /\ DOMAIN ship = Users
      /\ stock \in [Ports -> PortRow] /\ touched \in [Ports -> Int] /\ hour \in Nat
  BY <1>1 DEF TradeTypeOK, Ledgers
<1>5. \A h \in Goods : r.cargo[h] >= 0
  BY <1>2, <1>3, <1>4 DEF TradeInv, ShipIsSound, Ships
<1>6. PICK p \in ShipRow :
        /\ p = Traded(r, g, k, cost) /\ p.sector = r.sector /\ p.turns = r.turns /\ p.day = r.day
        /\ p.credits >= 0 /\ \A h \in Goods : p.cargo[h] >= 0 /\ Aboard(p) <= Holds
  <2>1. r.credits - cost >= 0 /\ r.cargo[g] + k >= 0 /\ Aboard(r) + k <= Holds BY <1>2, <1>3
  <2> QED BY <1>5, <2>1, TradedRow
<1>7. ship' = [ship EXCEPT ![u] = p] BY <1>2, <1>3, <1>6
<1>8. ship'[u] = p /\ p # NoShip /\ \A v \in Users \ {u} : ship'[v] = ship[v]
  BY <1>4, <1>7
<1>9. stock' \in [Ports -> PortRow]
  <2>1. PICK d \in Int : d = stock[n][g] - k BY <1>4 DEF PortRow
  <2>2. PICK w \in PortRow : w = [stock[n] EXCEPT ![g] = d] BY <1>4 DEF PortRow
  <2>3. stock' = [stock EXCEPT ![n] = w] BY <1>4, <2>1, <2>2, Zenon
  <2> QED BY <1>4, <2>3
<1>10. touched' \in [Ports -> Int] BY <1>4
<1>11. Ledgers'
  <2>1. Ledgers BY <1>1 DEF TradeTypeOK
  <2>2. ship' \in [Users -> ShipRow \cup {NoShip}] BY <1>7, <2>1 DEF Ledgers
  <2>3. UNCHANGED <<charted, hour, late, spent>> OBVIOUS
  <2> QED BY <1>9, <1>10, <2>1, <2>2, <2>3 DEF Ledgers
<1>12. Hosted' /\ excused' = excused /\ playing' = playing
  BY <1>1 DEF TradeTypeOK, hostVars, Hosted, HostType, Once
<1>13. Moves(s) /\ JobOK(s)' /\ Fresh(s)' BY <1>1, <1>12, Prompted DEF Moves
<1>14. TradeTypeOK' /\ AllFresh' BY <1>2, <1>8, <1>11, <1>12, <1>13, OwnersStep
<1>15. ShipIsSound' BY <1>3, <1>6, <1>8 DEF TradeInv, ShipIsSound, Ships, Aboard
<1>16. OneBudget' BY <1>3, <1>4, <1>6, <1>8, <1>12 DEF TradeInv, OneBudget, Ships
<1>17. SpentOnShips' BY <1>8 DEF TradeInv, SpentOnShips
<1>18. AllShared'
  <2>1. \A v \in Users : ship'[v] # NoShip =>
            ship[v] # NoShip /\ ship'[v].day = ship[v].day /\ ship'[v].turns = ship[v].turns
    BY <1>3, <1>4, <1>6, <1>8
  <2> QED BY <1>11, <1>13, <2>1, GrantsNothing DEF AllShared, Ships
<1> QED BY <1>14, <1>15, <1>16, <1>17, <1>18 DEF TradeInv

LEMMA TradeExchangeStep ==
    ASSUME TradeInv, NEW s \in Sessions, TradeExchange(s)
    PROVE  TradeInv'
<1> DEFINE u == UserOf[s]
           n == job[s].sector
           g == job[s].cmd.good
           q == job[s].cmd.qty
           cost == price(g, job[s].stock[g]) * q
<1>1. TradeTypeOK /\ job[s].at = "dealing" /\ u \in Users BY DEF TradeInv, TradeExchange, Users
<1>2. /\ Hosted' /\ excused' = excused /\ playing' = playing /\ Prompt(s)
      /\ UNCHANGED <<charted, hour, late, spent, hostVars>>
  BY <1>1 DEF TradeExchange, TradeTypeOK, hostVars, Hosted, HostType, Once
<1>3. /\ n \in Ports /\ g \in Goods /\ q \in Nat /\ job[s].stock[g] \in Int
      /\ ship[u] \in ShipRow /\ ship[u] # NoShip
      /\ DOMAIN ship = Users /\ stock \in [Ports -> PortRow] /\ touched \in [Ports -> Int] /\ hour \in Nat
  BY <1>1 DEF TradeTypeOK, JobOK, CmdOK, Ledgers, PortRow
<1>4. cost \in Nat BY <1>3, PriceIsPositive
<1>5. /\ ship[u].credits >= 0 /\ \A h \in Goods : ship[u].cargo[h] >= 0 /\ Aboard(ship[u]) <= Holds
  BY <1>1, <1>3 DEF TradeInv, ShipIsSound, Ships
<1>6. CASE UNCHANGED <<ship, stock, touched>>
  <2>1. Ledgers' BY <1>1, <1>2, <1>6 DEF TradeTypeOK, Ledgers
  <2> QED BY <1>1, <1>2, <1>6, <2>1, Prompted, QuietStep DEF Moves
<1>9. CASE job[s].cmd.verb = "buy"
  <2>1. \/ UNCHANGED <<ship, stock, touched>>
        \/ /\ Fits(ship[u], cost, q)
           /\ stock' = [stock EXCEPT ![n][g] = @ - q] /\ touched' = [touched EXCEPT ![n] = hour]
           /\ ship' = [ship EXCEPT ![u] = Traded(@, g, q, cost)]
    BY <1>9 DEF TradeExchange
  <2> HIDE DEF u, n, g, q, cost
  <2>2. Fits(ship[u], cost, q) => /\ ship[u].credits - cost >= 0 /\ ship[u].cargo[g] + q >= 0
                                  /\ Aboard(ship[u]) + q <= Holds
    BY <1>3, <1>4, <1>5 DEF Fits, ShipRow
  <2>3. q \in Int /\ cost \in Int /\ UserOf[s] = u BY <1>3, <1>4 DEF u
  <2>4. CASE ~UNCHANGED <<ship, stock, touched>> BY <1>1, <1>2, <1>3, <2>1, <2>2, <2>3, <2>4, DealtStep
  <2> QED BY <1>6, <2>4
<1>10. CASE job[s].cmd.verb = "sell"
  <2>1. \/ UNCHANGED <<ship, stock, touched>>
        \/ /\ ship[u].cargo[g] >= q
           /\ stock' = [stock EXCEPT ![n][g] = @ - (-q)] /\ touched' = [touched EXCEPT ![n] = hour]
           /\ ship' = [ship EXCEPT ![u] = Traded(@, g, -q, -cost)]
    BY <1>10 DEF TradeExchange
  <2> HIDE DEF u, n, g, q, cost
  <2>2. PICK k \in Int, c \in Int : k = -q /\ c = -cost BY <1>3, <1>4
  <2>3. Aboard(ship[u]) \in Int BY <1>3 DEF ShipRow, Aboard, Goods
  <2>4. ship[u].cargo[g] >= q => /\ ship[u].credits - c >= 0 /\ ship[u].cargo[g] + k >= 0
                                 /\ Aboard(ship[u]) + k <= Holds
    BY <1>3, <1>4, <1>5, <2>2, <2>3 DEF ShipRow
  <2> QED BY <1>1, <1>2, <1>3, <1>6, <2>1, <2>2, <2>4, DealtStep DEF u
<1> QED BY <1>1, <1>6, <1>9, <1>10 DEF TradeExchange

LEMMA TimePassesStep ==
    ASSUME TradeInv, TimePasses
    PROVE  TradeInv'
<1>1. TradeTypeOK BY DEF TradeInv
<1>2. /\ UNCHANGED <<charted, ship, stock, touched, late, spent, job, playing, excused>>
      /\ hour' \in Nat /\ hour <= hour'
  BY <1>1 DEF TimePasses, hostVars, TradeTypeOK, Ledgers
<1>3. TradeTypeOK' BY <1>1, <1>2 DEF TradeTypeOK, Hosted, HostType, Once, Ledgers, JobOK
<1>4. ShipIsSound' /\ OneBudget' /\ SpentOnShips'
  BY <1>2 DEF TradeInv, ShipIsSound, OneBudget, SpentOnShips, Ships, Aboard
<1>5. today <= today' /\ today \in Int /\ today' \in Int
  BY <1>1, <1>2, <1>3, TodayPasses DEF TradeTypeOK
<1>7. AllShared' BY <1>2, <1>3, KeepsShared DEF AllShared, Ships, TradeTypeOK
<1>6. AllFresh'
  <2> SUFFICES ASSUME "twice" \notin excused, NEW s \in Sessions PROVE Fresh(s)' BY <1>2 DEF AllFresh
  <2>1. Fresh(s) BY DEF TradeInv, AllFresh
  <2>2. job[s].at = "renewing" => ship[UserOf[s]] \in ShipRow
    BY <1>1 DEF TradeTypeOK, JobOK, Ledgers, Users
  <2> QED BY <1>2, <1>5, <2>1, <2>2 DEF Fresh, ShipRow
<1> QED BY <1>3, <1>4, <1>6, <1>7 DEF TradeInv

-----------------------------------------------------------------------------
\* The theorems

LEMMA TradeInitInv == HostInit /\ TradeInit => TradeInv
<1> SUFFICES ASSUME HostInit, TradeInit PROVE TradeInv OBVIOUS
<1>1. Hosted BY HostInitHosted
<1>2. Ledgers
  <2>1. /\ charted = FALSE /\ ship = [u \in Users |-> NoShip] /\ stock = Stock0
        /\ touched = [n \in Ports |-> FirstHour] /\ hour = FirstHour /\ spent = [u \in Users |-> 0]
        /\ late = [u \in Users |-> 0]
    BY DEF TradeInit
  <2>2. ship \in [Users -> ShipRow \cup {NoShip}] /\ late \in [Users -> Nat] /\ spent \in [Users -> Int] BY <2>1
  <2>3. touched \in [Ports -> Int] BY <2>1
  <2> QED BY <2>1, <2>2, <2>3 DEF Ledgers
<1>3. \A s \in Sessions : job[s] = Idle BY DEF TradeInit
<1>4. TradeTypeOK
  <2>1. \A s \in Sessions : JobOK(s)
    BY <1>3 DEF Idle, Job, Look, JobOK, CmdOK, Verbs, Places
  <2> QED BY <1>1, <1>2, <2>1 DEF TradeInit, TradeTypeOK
<1>5. Ships = {} BY DEF TradeInit, Ships
<1>6. \A s \in Sessions : Fresh(s) BY <1>3 DEF Idle, Job, Fresh
<1>7. \A u \in Users : spent[u] = 0 BY DEF TradeInit
<1> QED BY <1>4, <1>5, <1>6, <1>7
     DEF TradeInv, ShipIsSound, OneBudget, AllShared, SpentOnShips, AllFresh

LEMMA TradeStep == TradeInv /\ [TradeNext]_<<hostVars, tradeVars>> => TradeInv'
<1> SUFFICES ASSUME TradeInv, [TradeNext]_<<hostVars, tradeVars>> PROVE TradeInv' OBVIOUS
<1>1. CASE UNCHANGED <<hostVars, tradeVars>>
  <2>1. UNCHANGED <<playing, excused, charted, ship, stock, touched, hour, late, spent, job>>
    BY <1>1 DEF hostVars, tradeVars
  <2>2. TradeTypeOK' BY <2>1 DEF TradeInv, TradeTypeOK, Hosted, HostType, Once, Ledgers, JobOK
  <2>3. ShipIsSound' /\ OneBudget' /\ SpentOnShips'
    BY <2>1 DEF TradeInv, ShipIsSound, OneBudget, SpentOnShips, Ships, Aboard
  <2>4. AllFresh' BY <2>1 DEF TradeInv, AllFresh, Fresh, today
  <2>5. AllShared'
    <3>1. hour <= hour' BY <2>1 DEF TradeInv, TradeTypeOK, Ledgers
    <3> QED BY <2>1, <2>2, <3>1, KeepsShared DEF AllShared, Ships, TradeTypeOK
  <2> QED BY <2>2, <2>3, <2>4, <2>5 DEF TradeInv
<1>2. CASE TimePasses BY <1>2, TimePassesStep
<1>3. ASSUME NEW s \in Sessions,
             \/ EnterTrade(s) \/ GenerateTradeUniverse(s) \/ QuitTrade(s) \/ Type(s) \/ LookAround(s)
             \/ ShowMap(s) \/ Mint(s) \/ Renew(s) \/ Warp(s) \/ ReadPort(s) \/ Restock(s)
             \/ TradeExchange(s) \/ Fails(s)
      PROVE  TradeInv'
  BY <1>3, EnterTradeStep, GenerateTradeUniverseStep, QuitTradeStep, TypeStep, LookAroundStep,
     ShowMapStep, MintStep, RenewStep, WarpStep, ReadPortStep, RestockStep, TradeExchangeStep, FailsStep
<1> QED BY <1>1, <1>2, <1>3 DEF TradeNext

\* Types of the ledgers and of what every session holds, for any universe.
THEOREM TradeTypeCorrect == TradeSpec => []TradeTypeOK
<1>1. TradeInv => TradeTypeOK BY DEF TradeInv
<1> QED BY <1>1, TradeInitInv, TradeStep, PTL DEF TradeSpec

\* No credits, cargo, room or turns are spent twice, for any number of sessions
\* dealing from whatever stale copies, in any universe and at any prices.
THEOREM ShipsStaySound == TradeSpec => []ShipIsSound
<1>1. TradeInv => ShipIsSound BY DEF TradeInv
<1> QED BY <1>1, TradeInitInv, TradeStep, PTL DEF TradeSpec

\* The day's budget, for a user in one session, and as many as there are
\* sessions for any user, unless one was written late: wherever the midnights
\* of the two calendars fall between the statements.
THEOREM BudgetAlwaysKept == TradeSpec => []BudgetIsKept
<1>1. TradeInv => BudgetIsKept
  <2> SUFFICES ASSUME TradeInv, NEW u \in Ships, late[u] = 0
               PROVE  spent[u] + ship[u].turns <=
                        Daily * (IF "twice" \in excused THEN Cardinality(Seats(u)) ELSE 1)
    BY DEF BudgetIsKept
  <2>1. CASE "twice" \in excused BY <2>1 DEF TradeInv, AllShared, Shared
  <2>2. CASE "twice" \notin excused
    <3>1. spent[u] + ship[u].turns <= Daily BY <2>2 DEF TradeInv, OneBudget
    <3>2. Daily * 1 = Daily OBVIOUS
    <3> QED BY <2>2, <3>1, <3>2
  <2> QED BY <2>1, <2>2
<1> QED BY <1>1, TradeInitInv, TradeStep, PTL DEF TradeSpec

LEMMA WarpsFollow ==
    ASSUME TradeInv, [TradeNext]_<<hostVars, tradeVars>>, "twice" \notin excused', NEW u \in Ships
    PROVE  ship'[u].sector \in Warps[ship[u].sector] \cup {ship[u].sector}
<1>0. /\ u \in Users /\ ship[u] # NoShip /\ ship[u] \in ShipRow /\ DOMAIN ship = Users
      /\ TradeTypeOK
  BY DEF Ships, TradeInv, TradeTypeOK, Ledgers
<1>1. CASE ship' = ship BY <1>1
<1>2. ASSUME NEW s \in Sessions, Mint(s) PROVE ship'[u].sector = ship[u].sector
  <2>1. CASE ship[UserOf[s]] = NoShip
    <3>1. PICK p : ship' = [ship EXCEPT ![UserOf[s]] = p] BY <1>2, <2>1 DEF Mint
    <3> QED BY <1>0, <2>1, <3>1
  <2>2. CASE ship[UserOf[s]] # NoShip BY <1>2, <2>2 DEF Mint
  <2> QED BY <2>1, <2>2
<1>3. ASSUME NEW s \in Sessions, Renew(s) PROVE ship'[u].sector = ship[u].sector
  <2>1. ship' = [ship EXCEPT ![UserOf[s]] = [ship[UserOf[s]] EXCEPT !.turns = Grant(job[s].cmd), !.day = current_date]]
    BY <1>3 DEF Renew
  <2>2. CASE UserOf[s] = u
    <3>1. PICK r \in ShipRow : r = ship[u] BY <1>0
    <3>2. ship'[u] = [r EXCEPT !.turns = Grant(job[s].cmd), !.day = current_date] BY <1>0, <2>1, <2>2, <3>1
    <3> QED BY <3>1, <3>2 DEF ShipRow
  <2>3. CASE UserOf[s] # u BY <1>0, <2>1, <2>3
  <2> QED BY <2>2, <2>3
<1>4. ASSUME NEW s \in Sessions, TradeExchange(s) PROVE ship'[u].sector = ship[u].sector
  <2>1. CASE ship' = ship BY <2>1
  <2>2. ASSUME NEW g, NEW k, NEW c, ship' = [ship EXCEPT ![UserOf[s]] = Traded(@, g, k, c)]
        PROVE  ship'[u].sector = ship[u].sector
    <3>1. CASE UserOf[s] = u
      <4>1. PICK r \in ShipRow : r = ship[u] BY <1>0
      <4>2. ship'[u] = Traded(r, g, k, c) BY <1>0, <2>2, <3>1, <4>1
      <4> QED BY <4>1, <4>2 DEF ShipRow, Traded
    <3>2. CASE UserOf[s] # u BY <1>0, <2>2, <3>2
    <3> QED BY <3>1, <3>2
  <2> QED BY <1>4, <2>1, <2>2 DEF TradeExchange
<1>5. ASSUME NEW s \in Sessions, Warp(s)
      PROVE  ship'[u].sector \in Warps[ship[u].sector] \cup {ship[u].sector}
  <2>1. CASE ship' = ship BY <2>1
  <2>2. CASE /\ Adjacent(job[s].sector, job[s].cmd.to)
             /\ ship' = [ship EXCEPT ![UserOf[s]].sector = job[s].cmd.to, ![UserOf[s]].turns = @ - 1]
    <3>1. CASE UserOf[s] = u
      <4>1. job[s].sector = ship[u].sector
        BY <1>5, <3>1 DEF Warp, hostVars, TradeInv, AllFresh, Fresh
      <4>2. PICK r \in ShipRow : r = ship[u] BY <1>0
      <4>3. ship'[u] = [r EXCEPT !.sector = job[s].cmd.to, !.turns = @ - 1] BY <1>0, <2>2, <3>1, <4>2
      <4>4. ship'[u].sector = job[s].cmd.to BY <4>3 DEF ShipRow
      <4> QED BY <2>2, <4>1, <4>4 DEF Adjacent
    <3>2. CASE UserOf[s] # u BY <1>0, <2>2, <3>2
    <3> QED BY <3>1, <3>2
  <2> QED BY <1>5, <2>1, <2>2 DEF Warp
<1>6. CASE TimePasses BY <1>6 DEF TimePasses
<1>7. ASSUME NEW s \in Sessions,
             \/ EnterTrade(s) \/ GenerateTradeUniverse(s) \/ QuitTrade(s) \/ Type(s) \/ LookAround(s)
             \/ ShowMap(s) \/ ReadPort(s) \/ Restock(s) \/ Fails(s)
      PROVE  ship' = ship
  BY <1>7 DEF EnterTrade, GenerateTradeUniverse, QuitTrade, tradeVars, Type, LookAround, ShowMap,
              ReadPort, Restock, Fails
<1>8. CASE UNCHANGED <<hostVars, tradeVars>> BY <1>8 DEF tradeVars
<1> QED BY <1>1, <1>2, <1>3, <1>4, <1>5, <1>6, <1>7, <1>8 DEF TradeNext

\* A ship flies along the warps, for a user who plays in one session.
THEOREM WarpsAlwaysFollow == TradeSpec => WarpsFollowTheMap
<1>1. TradeInv /\ [TradeNext]_<<hostVars, tradeVars>>
        => ["twice" \notin excused' => \A u \in Ships :
                ship'[u].sector \in Warps[ship[u].sector] \cup {ship[u].sector}]_<<hostVars, tradeVars>>
  BY WarpsFollow
<1> QED BY <1>1, TradeInitInv, TradeStep, PTL DEF TradeSpec, WarpsFollowTheMap

HIDE TradeAssumption

-----------------------------------------------------------------------------
\* Hunt the Wumpus

Rest(h) == h.player \notin h.pits \cup {h.wumpus} /\ h.arrows \in 1..Quiver

\* A hunt that goes on rests in a room where the player may be asked.
HuntOK(h) == h \in HuntRow /\ (h.end = "on" => Rest(h))

WumpusTypeOK ==
    /\ Hosted
    /\ DOMAIN hunt = Sessions
    /\ \A s \in Sessions : hunt[s] \in HuntRow \cup {NoHunt, [end |-> "closed"]}
    /\ wins \in [Users -> Nat]

WumpusInv == WumpusTypeOK /\ \A s \in Sessions : hunt[s].end = "on" => HuntOK(hunt[s])

USE WumpusAssumption

LEMMA OnIsAHunt ==
    ASSUME WumpusInv, NEW s \in Sessions, hunt[s].end \in Ends
    PROVE  hunt[s] \in HuntRow
BY DEF WumpusInv, WumpusTypeOK, NoHunt, Ends

\* A hunt whose player was set down in a room.
LEMMA LandIsSound ==
    ASSUME NEW h \in HuntRow, h.end = "on", h.arrows \in 1..Quiver, NEW g \in Land(h)
    PROVE  /\ HuntOK(g) /\ g.end \in {"on", "pit", "eaten"}
           /\ g.end = "pit" => h.player \in h.pits
           /\ g.end = "eaten" => h.player = h.wumpus
<1>1. CASE h.player \in h.pits
  <2>1. g = [h EXCEPT !.end = "pit"] BY <1>1 DEF Land, Ended
  <2> QED BY <1>1, <2>1 DEF HuntOK, HuntRow, Ends
<1>2. CASE h.player \notin h.pits /\ h.player = h.wumpus
  <2>1. g \in Bump(h) BY <1>2 DEF Land
  <2>2. CASE g = [h EXCEPT !.end = "eaten"] BY <1>2, <2>2 DEF HuntOK, HuntRow, Ends
  <2>3. ASSUME NEW r \in Tunnels[h.wumpus], g = [h EXCEPT !.wumpus = r]
        PROVE  HuntOK(g) /\ g.end = "on"
    <3>1. r \in Caves /\ r # h.wumpus BY DEF HuntRow
    <3> QED BY <1>2, <2>3, <3>1 DEF HuntOK, HuntRow, Rest
  <2> QED BY <1>2, <2>1, <2>2, <2>3 DEF Bump, Ended
<1>3. CASE h.player \notin h.pits /\ h.player # h.wumpus
  <2>1. g = h BY <1>3 DEF Land
  <2> QED BY <1>3, <2>1 DEF HuntOK, Rest
<1> QED BY <1>1, <1>2, <1>3

\* The player is where he was set down, or was carried off by bats.
LEMMA EnterRoomIsSound ==
    ASSUME NEW h \in HuntRow, h.end = "on", h.arrows \in 1..Quiver, NEW g \in enterRoom(h)
    PROVE  /\ HuntOK(g) /\ g.end \in {"on", "pit", "eaten"}
           /\ g.end = "pit" => h.player \in h.pits \cup h.bats
           /\ g.end = "eaten" => h.player = h.wumpus \/ h.player \in h.bats
           /\ h.player \notin h.pits \cup h.bats \cup {h.wumpus} => g = h
<1>1. PICK r \in Landings(h) : g \in Land([h EXCEPT !.player = r]) BY DEF enterRoom
<1>2. PICK k \in HuntRow : k = [h EXCEPT !.player = r]
  <2>1. r \in Caves BY DEF Landings, HuntRow
  <2> QED BY <2>1 DEF HuntRow
<1>3. /\ k.player = r /\ k.pits = h.pits /\ k.wumpus = h.wumpus /\ k.bats = h.bats
      /\ k.arrows = h.arrows /\ k.end = "on"
  BY <1>2 DEF HuntRow
<1>4. /\ HuntOK(g) /\ g.end \in {"on", "pit", "eaten"}
      /\ g.end = "pit" => r \in h.pits
      /\ g.end = "eaten" => r = h.wumpus
  BY <1>1, <1>2, <1>3, LandIsSound
<1>5. h.player \notin h.bats => r = h.player BY DEF Landings
<1>6. ASSUME h.player \notin h.pits \cup h.bats \cup {h.wumpus} PROVE g = h
  <2>1. k = h BY <1>2, <1>5, <1>6 DEF HuntRow
  <2> QED BY <1>1, <1>2, <1>6, <2>1 DEF Land
<1> QED BY <1>4, <1>5, <1>6

LEMMA RideEndsSomewhere ==
    ASSUME NEW h \in HuntRow, h.player \notin h.pits \cup h.bats \cup {h.wumpus}
    PROVE  h \in enterRoom(h)
<1>1. h.player \in Landings(h) BY DEF Landings
<1>2. [h EXCEPT !.player = h.player] = h BY DEF HuntRow
<1>3. h \in Land(h) BY DEF Land
<1> QED BY <1>1, <1>2, <1>3 DEF enterRoom

LEMMA MissIsSound ==
    ASSUME NEW h \in HuntRow, h.end = "on", NEW g \in Miss(h), h.player \notin h.pits
    PROVE  HuntOK(g)
<1>1. PICK r \in Tunnels[h.wumpus] \cup {h.wumpus} :
        g = IF r = h.player THEN Ended([h EXCEPT !.wumpus = r], "eaten")
            ELSE [h EXCEPT !.wumpus = r, !.end = IF h.arrows = 0 THEN "arrowless" ELSE "on"]
  BY DEF Miss
<1>2. r \in Caves BY DEF HuntRow
<1>3. CASE r = h.player
  <2>1. g = [[h EXCEPT !.wumpus = r] EXCEPT !.end = "eaten"] BY <1>1, <1>3 DEF Ended
  <2> QED BY <1>2, <2>1 DEF HuntOK, HuntRow, Ends
<1>4. CASE r # h.player
  <2>1. CASE h.arrows = 0
    <3>1. g = [h EXCEPT !.wumpus = r, !.end = "arrowless"] BY <1>1, <1>4, <2>1
    <3> QED BY <1>2, <3>1 DEF HuntOK, HuntRow, Ends
  <2>2. CASE h.arrows # 0
    <3>1. g = [h EXCEPT !.wumpus = r, !.end = "on"] BY <1>1, <1>4, <2>2
    <3>2. h.arrows \in 1..Quiver BY <2>2 DEF HuntRow
    <3> QED BY <1>2, <1>4, <3>1, <3>2 DEF HuntOK, HuntRow, Ends, Rest
  <2> QED BY <2>1, <2>2
<1> QED BY <1>3, <1>4

-----------------------------------------------------------------------------
\* Each step

\* Most steps give one session a sound hunt, or none.
LEMMA HuntUpdated ==
    ASSUME WumpusInv, Hosted', NEW s \in Sessions, NEW h, hunt' = [hunt EXCEPT ![s] = h],
           h \in {NoHunt, [end |-> "closed"]} \/ HuntOK(h), wins' \in [Users -> Nat]
    PROVE  WumpusInv'
<1>1. h \in HuntRow \cup {NoHunt, [end |-> "closed"]} /\ (h.end = "on" => HuntOK(h))
  BY DEF HuntOK, NoHunt
<1>2. DOMAIN hunt' = Sessions /\ hunt'[s] = h /\ \A t \in Sessions \ {s} : hunt'[t] = hunt[t]
  BY DEF WumpusInv, WumpusTypeOK
<1>3. WumpusTypeOK'
  <2>1. ASSUME NEW t \in Sessions PROVE hunt'[t] \in HuntRow \cup {NoHunt, [end |-> "closed"]}
    BY <1>1, <1>2 DEF WumpusInv, WumpusTypeOK
  <2>2. NoHunt' = NoHunt /\ HuntRow' = HuntRow /\ Users' = Users OBVIOUS
  <2> QED BY <1>2, <2>1, <2>2 DEF WumpusTypeOK
<1>4. ASSUME NEW t \in Sessions, hunt'[t].end = "on" PROVE HuntOK(hunt'[t])
  BY <1>1, <1>2, <1>4 DEF WumpusInv
<1>5. \A t \in Sessions : hunt'[t].end = "on" => HuntOK(hunt[t])'
  BY <1>4 DEF HuntOK, Rest
<1> QED BY <1>3, <1>5 DEF WumpusInv

LEMMA WinsStay == WumpusInv /\ UNCHANGED wins => wins' \in [Users -> Nat]
BY DEF WumpusInv, WumpusTypeOK

LEMMA HostStays == WumpusInv /\ UNCHANGED hostVars => Hosted'
BY DEF WumpusInv, WumpusTypeOK, hostVars, Hosted, HostType, Once

LEMMA BeginStep ==
    ASSUME WumpusInv, Hosted', NEW s \in Sessions, Begin(s), UNCHANGED wins
    PROVE  WumpusInv'
<1>1. PICK lair \in Lairs :
        \E h \in enterRoom([player |-> lair.player, wumpus |-> lair.wumpus, pits |-> lair.pits,
                            bats |-> lair.bats, arrows |-> Quiver, end |-> "on"]) :
            hunt' = [hunt EXCEPT ![s] = h]
  BY DEF Begin
<1>2. PICK k \in HuntRow : k = [player |-> lair.player, wumpus |-> lair.wumpus, pits |-> lair.pits,
                                bats |-> lair.bats, arrows |-> Quiver, end |-> "on"]
  <2>1. /\ lair.player \in Caves /\ lair.wumpus \in Caves /\ Quiver \in 0..Quiver
        /\ lair.pits \in SUBSET Caves /\ lair.bats \in SUBSET Caves
    BY DEF Lair
  <2> QED BY <2>1 DEF HuntRow, Ends
<1>3. PICK h \in enterRoom(k) : hunt' = [hunt EXCEPT ![s] = h] BY <1>1, <1>2
<1>4. k.end = "on" /\ k.arrows \in 1..Quiver BY <1>2
<1>5. HuntOK(h) BY <1>3, <1>4, EnterRoomIsSound
<1> QED BY <1>3, <1>5, WinsStay, HuntUpdated

LEMMA EnterWumpusStep == ASSUME WumpusInv, NEW s \in Sessions, EnterWumpus(s) PROVE WumpusInv'
<1>1. Hosted' BY RunGameKeepsHosted DEF EnterWumpus, WumpusInv, WumpusTypeOK, Windows
<1> QED BY <1>1, BeginStep DEF EnterWumpus

LEMMA PlayAgainStep == ASSUME WumpusInv, NEW s \in Sessions, PlayAgain(s) PROVE WumpusInv'
BY HostStays, BeginStep DEF PlayAgain

LEMMA moveStep ==
    ASSUME WumpusInv, NEW s \in Sessions, NEW to \in Caves, move(s, to)
    PROVE  WumpusInv'
<1>1. PICK h \in HuntRow : h = hunt[s] /\ HuntOK(h) /\ h.end = "on"
  BY OnIsAHunt DEF move, Hunts, Ends, WumpusInv
<1>2. PICK k \in HuntRow : k = [h EXCEPT !.player = to] BY DEF HuntRow
<1>3. PICK g \in enterRoom(k) : hunt' = [hunt EXCEPT ![s] = g] BY <1>1, <1>2 DEF move
<1>4. k.end = "on" /\ k.arrows \in 1..Quiver BY <1>1, <1>2 DEF HuntRow, HuntOK, Rest
<1>5. HuntOK(g) BY <1>3, <1>4, EnterRoomIsSound
<1> QED BY <1>3, <1>5, HostStays, WinsStay, HuntUpdated DEF move

LEMMA shootStep ==
    ASSUME WumpusInv, NEW s \in Sessions, NEW n \in 1..5, shoot(s, n)
    PROVE  WumpusInv'
<1>1. PICK c \in HuntRow : c = hunt[s] /\ HuntOK(c) /\ c.end = "on"
  BY OnIsAHunt DEF shoot, Hunts, Ends, WumpusInv
<1>2. PICK k \in 0..Quiver : k = c.arrows - 1 BY <1>1 DEF HuntOK, Rest
<1>3. PICK h \in HuntRow : h = [c EXCEPT !.arrows = k] BY DEF HuntRow
<1>4. h.end = "on" /\ h.player \notin h.pits BY <1>1, <1>3 DEF HuntRow, HuntOK, Rest
<1>5. h = [hunt[s] EXCEPT !.arrows = @ - 1] BY <1>1, <1>2, <1>3 DEF HuntRow
<1>6. \/ hunt' = [hunt EXCEPT ![s] = Ended(h, "won")]
      \/ hunt' = [hunt EXCEPT ![s] = Ended(h, "shot")]
      \/ \E g \in Miss(h) : hunt' = [hunt EXCEPT ![s] = g]
  BY <1>5 DEF shoot
<1>7. HuntOK(Ended(h, "won")) /\ HuntOK(Ended(h, "shot")) BY DEF HuntOK, Ended, HuntRow, Ends
<1>8. \A g \in Miss(h) : HuntOK(g) BY <1>4, MissIsSound
<1>9. Hosted' /\ wins' \in [Users -> Nat] BY HostStays, WinsStay DEF shoot
<1> QED BY <1>6, <1>7, <1>8, <1>9, HuntUpdated

LEMMA CloseStep == ASSUME WumpusInv, NEW s \in Sessions, Close(s) PROVE WumpusInv'
<1>1. hunt' = [hunt EXCEPT ![s] = [end |-> "closed"]] BY DEF Close
<1>2. wins \in [Users -> Nat] BY DEF WumpusInv, WumpusTypeOK
<1>3. wins' = [wins EXCEPT ![UserOf[s]] = @ + 1] \/ UNCHANGED wins BY DEF Close
<1>4. wins' \in [Users -> Nat] BY <1>2, <1>3 DEF Users
<1> QED BY <1>1, <1>4, HostStays, HuntUpdated DEF Close

LEMMA QuitWumpusStep == ASSUME WumpusInv, NEW s \in Sessions, QuitWumpus(s) PROVE WumpusInv'
<1>1. Hosted' BY QuitGameKeepsHosted DEF QuitWumpus, WumpusInv, WumpusTypeOK
<1> QED BY <1>1, WinsStay, HuntUpdated DEF QuitWumpus

-----------------------------------------------------------------------------
\* The theorem

LEMMA WumpusInitInv == HostInit /\ WumpusInit => WumpusInv
<1> SUFFICES ASSUME HostInit, WumpusInit PROVE WumpusInv OBVIOUS
<1>1. Hosted BY HostInitHosted
<1> QED BY <1>1 DEF WumpusInit, WumpusInv, WumpusTypeOK, NoHunt

LEMMA WumpusStep == WumpusInv /\ [WumpusNext]_<<hostVars, wumpusVars>> => WumpusInv'
<1> SUFFICES ASSUME WumpusInv, [WumpusNext]_<<hostVars, wumpusVars>> PROVE WumpusInv' OBVIOUS
<1>1. CASE UNCHANGED <<hostVars, wumpusVars>>
  <2>1. Hosted' BY <1>1, HostStays
  <2> QED BY <1>1, <2>1 DEF wumpusVars, WumpusInv, WumpusTypeOK, HuntOK, Rest
<1>2. ASSUME NEW s \in Sessions, EnterWumpus(s) \/ Close(s) \/ PlayAgain(s) \/ QuitWumpus(s)
      PROVE  WumpusInv'
  BY <1>2, EnterWumpusStep, CloseStep, PlayAgainStep, QuitWumpusStep
<1>3. ASSUME NEW s \in Sessions, NEW to \in Caves, move(s, to) PROVE WumpusInv' BY <1>3, moveStep
<1>4. ASSUME NEW s \in Sessions, NEW n \in 1..5, shoot(s, n) PROVE WumpusInv' BY <1>4, shootStep
<1> QED BY <1>1, <1>2, <1>3, <1>4 DEF WumpusNext

\* What the hints of a room say of the rooms next to it.
LEMMA HintsAreTrue ==
    ASSUME NEW h \in HuntRow, NEW to \in Tunnels[h.player]
    PROVE  /\ to = h.wumpus => "smell" \in warnings(h)
           /\ to \in h.pits => "draft" \in warnings(h)
           /\ to \in h.bats => "bats" \in warnings(h)
BY DEF warnings

LEMMA RestIsFair ==
    ASSUME NEW h \in HuntRow, HuntOK(h), h.end = "on", NEW to \in Tunnels[h.player]
    PROVE  LET ends == {g.end : g \in enterRoom([h EXCEPT !.player = to])}
               hint(w) == w \in warnings(h)
           IN /\ "pit" \in ends => hint("draft") \/ hint("bats")
              /\ "eaten" \in ends => hint("smell") \/ hint("bats")
              /\ hint("draft") \/ hint("smell") \/ hint("bats")
                    \/ enterRoom([h EXCEPT !.player = to]) = {[h EXCEPT !.player = to]}
<1>1. PICK k \in HuntRow : k = [h EXCEPT !.player = to]
  <2>1. to \in Caves BY DEF HuntRow
  <2> QED BY <2>1 DEF HuntRow
<1>2. /\ k.player = to /\ k.pits = h.pits /\ k.wumpus = h.wumpus /\ k.bats = h.bats
      /\ k.end = "on" /\ k.arrows \in 1..Quiver
  BY <1>1 DEF HuntRow, HuntOK, Rest
<1>3. ASSUME NEW g \in enterRoom(k)
      PROVE  /\ g.end = "pit" => to \in h.pits \cup h.bats
             /\ g.end = "eaten" => to = h.wumpus \/ to \in h.bats
             /\ to \notin h.pits \cup h.bats \cup {h.wumpus} => g = k
  BY <1>2, <1>3, EnterRoomIsSound
<1>4. to \notin h.pits \cup h.bats \cup {h.wumpus} => enterRoom(k) = {k}
  BY <1>2, <1>3, RideEndsSomewhere
<1> QED BY <1>1, <1>3, <1>4, HintsAreTrue

\* The player is asked in a safe room only, and nothing that the next step may
\* bring was not announced.
THEOREM HuntAlwaysFair == WumpusSpec => []HuntIsFair
<1>1. ASSUME WumpusInv PROVE HuntIsFair
  <2> SUFFICES ASSUME NEW s \in Sessions, Hunts(s)
               PROVE  LET h == hunt[s]
                          ends(to) == {g.end : g \in enterRoom([h EXCEPT !.player = to])}
                          hint(w) == w \in warnings(h)
                      IN /\ h.player \notin h.pits \cup {h.wumpus} /\ h.arrows \in 1..Quiver
                         /\ \A to \in Tunnels[h.player] :
                              /\ "pit" \in ends(to) => hint("draft") \/ hint("bats")
                              /\ "eaten" \in ends(to) => hint("smell") \/ hint("bats")
                              /\ hint("draft") \/ hint("smell") \/ hint("bats")
                                    \/ enterRoom([h EXCEPT !.player = to]) = {[h EXCEPT !.player = to]}
    BY DEF HuntIsFair
  <2>1. PICK h \in HuntRow : h = hunt[s] /\ HuntOK(h) /\ h.end = "on"
    BY <1>1, OnIsAHunt DEF Hunts, Ends, WumpusInv
  <2>2. h.player \notin h.pits \cup {h.wumpus} /\ h.arrows \in 1..Quiver BY <2>1 DEF HuntOK, Rest
  <2> QED BY <2>1, <2>2, RestIsFair
<1> QED BY <1>1, WumpusInitInv, WumpusStep, PTL DEF WumpusSpec

-----------------------------------------------------------------------------
\* The chess engine: squares and rays

LEMMA CellIs ==
    /\ \A s \in Cells : s[1] \in 0..7 /\ s[2] \in 0..7 /\ s = <<s[1], s[2]>> /\ OnBoard(s)
    /\ \A x, y \in Int : OnBoard(<<x, y>>) <=> <<x, y>> \in Cells
BY DEF Cells, OnBoard

Unit == {-1, 0, 1}

Shift(x, n, a) == x + n * a

\* The directions of a piece come in opposite pairs.
Reach == -2..2
Turns(d, dirs) ==
    /\ d[1] \in Reach /\ d[2] \in Reach /\ d = <<d[1], d[2]>>
    /\ d[1] # 0 \/ d[2] # 0
    /\ <<0 - d[1], 0 - d[2]>> \in dirs

LEMMA Opposite ==
    /\ \A d \in knightSteps : Turns(d, knightSteps)
    /\ \A d \in kingSteps : Turns(d, kingSteps) /\ d[1] \in Unit /\ d[2] \in Unit
    /\ \A dirs \in {rookDirs, bishopDirs} : dirs \subseteq kingSteps /\ \A d \in dirs : Turns(d, dirs)
<1>1. ASSUME NEW d \in rookDirs PROVE Turns(d, rookDirs)
  <2>1. CASE d = <<1, 0>>
    <3>1. d[1] = 1 /\ d[2] = 0 /\ 0 - d[1] = -1 /\ 0 - d[2] = 0 BY <2>1
    <3>2. <<-1, 0>> \in rookDirs BY DEF rookDirs
    <3> QED BY <2>1, <3>1, <3>2 DEF Turns, Reach
  <2>2. CASE d = <<-1, 0>>
    <3>1. d[1] = -1 /\ d[2] = 0 /\ 0 - d[1] = 1 /\ 0 - d[2] = 0 BY <2>2
    <3>2. <<1, 0>> \in rookDirs BY DEF rookDirs
    <3> QED BY <2>2, <3>1, <3>2 DEF Turns, Reach
  <2>3. CASE d = <<0, 1>>
    <3>1. d[1] = 0 /\ d[2] = 1 /\ 0 - d[1] = 0 /\ 0 - d[2] = -1 BY <2>3
    <3>2. <<0, -1>> \in rookDirs BY DEF rookDirs
    <3> QED BY <2>3, <3>1, <3>2 DEF Turns, Reach
  <2>4. CASE d = <<0, -1>>
    <3>1. d[1] = 0 /\ d[2] = -1 /\ 0 - d[1] = 0 /\ 0 - d[2] = 1 BY <2>4
    <3>2. <<0, 1>> \in rookDirs BY DEF rookDirs
    <3> QED BY <2>4, <3>1, <3>2 DEF Turns, Reach
  <2> QED BY <2>1, <2>2, <2>3, <2>4 DEF rookDirs
<1>2. ASSUME NEW d \in bishopDirs PROVE Turns(d, bishopDirs)
  <2>1. CASE d = <<1, 1>>
    <3>1. d[1] = 1 /\ d[2] = 1 /\ 0 - d[1] = -1 /\ 0 - d[2] = -1 BY <2>1
    <3>2. <<-1, -1>> \in bishopDirs BY DEF bishopDirs
    <3> QED BY <2>1, <3>1, <3>2 DEF Turns, Reach
  <2>2. CASE d = <<1, -1>>
    <3>1. d[1] = 1 /\ d[2] = -1 /\ 0 - d[1] = -1 /\ 0 - d[2] = 1 BY <2>2
    <3>2. <<-1, 1>> \in bishopDirs BY DEF bishopDirs
    <3> QED BY <2>2, <3>1, <3>2 DEF Turns, Reach
  <2>3. CASE d = <<-1, 1>>
    <3>1. d[1] = -1 /\ d[2] = 1 /\ 0 - d[1] = 1 /\ 0 - d[2] = -1 BY <2>3
    <3>2. <<1, -1>> \in bishopDirs BY DEF bishopDirs
    <3> QED BY <2>3, <3>1, <3>2 DEF Turns, Reach
  <2>4. CASE d = <<-1, -1>>
    <3>1. d[1] = -1 /\ d[2] = -1 /\ 0 - d[1] = 1 /\ 0 - d[2] = 1 BY <2>4
    <3>2. <<1, 1>> \in bishopDirs BY DEF bishopDirs
    <3> QED BY <2>4, <3>1, <3>2 DEF Turns, Reach
  <2> QED BY <2>1, <2>2, <2>3, <2>4 DEF bishopDirs
<1>3. ASSUME NEW d \in knightSteps PROVE Turns(d, knightSteps)
  <2>1. CASE d = <<1, 2>>
    <3>1. d[1] = 1 /\ d[2] = 2 /\ 0 - d[1] = -1 /\ 0 - d[2] = -2 BY <2>1
    <3>2. <<-1, -2>> \in knightSteps BY DEF knightSteps
    <3> QED BY <2>1, <3>1, <3>2 DEF Turns, Reach
  <2>2. CASE d = <<2, 1>>
    <3>1. d[1] = 2 /\ d[2] = 1 /\ 0 - d[1] = -2 /\ 0 - d[2] = -1 BY <2>2
    <3>2. <<-2, -1>> \in knightSteps BY DEF knightSteps
    <3> QED BY <2>2, <3>1, <3>2 DEF Turns, Reach
  <2>3. CASE d = <<2, -1>>
    <3>1. d[1] = 2 /\ d[2] = -1 /\ 0 - d[1] = -2 /\ 0 - d[2] = 1 BY <2>3
    <3>2. <<-2, 1>> \in knightSteps BY DEF knightSteps
    <3> QED BY <2>3, <3>1, <3>2 DEF Turns, Reach
  <2>4. CASE d = <<1, -2>>
    <3>1. d[1] = 1 /\ d[2] = -2 /\ 0 - d[1] = -1 /\ 0 - d[2] = 2 BY <2>4
    <3>2. <<-1, 2>> \in knightSteps BY DEF knightSteps
    <3> QED BY <2>4, <3>1, <3>2 DEF Turns, Reach
  <2>5. CASE d = <<-1, -2>>
    <3>1. d[1] = -1 /\ d[2] = -2 /\ 0 - d[1] = 1 /\ 0 - d[2] = 2 BY <2>5
    <3>2. <<1, 2>> \in knightSteps BY DEF knightSteps
    <3> QED BY <2>5, <3>1, <3>2 DEF Turns, Reach
  <2>6. CASE d = <<-2, -1>>
    <3>1. d[1] = -2 /\ d[2] = -1 /\ 0 - d[1] = 2 /\ 0 - d[2] = 1 BY <2>6
    <3>2. <<2, 1>> \in knightSteps BY DEF knightSteps
    <3> QED BY <2>6, <3>1, <3>2 DEF Turns, Reach
  <2>7. CASE d = <<-2, 1>>
    <3>1. d[1] = -2 /\ d[2] = 1 /\ 0 - d[1] = 2 /\ 0 - d[2] = -1 BY <2>7
    <3>2. <<2, -1>> \in knightSteps BY DEF knightSteps
    <3> QED BY <2>7, <3>1, <3>2 DEF Turns, Reach
  <2>8. CASE d = <<-1, 2>>
    <3>1. d[1] = -1 /\ d[2] = 2 /\ 0 - d[1] = 1 /\ 0 - d[2] = -2 BY <2>8
    <3>2. <<1, -2>> \in knightSteps BY DEF knightSteps
    <3> QED BY <2>8, <3>1, <3>2 DEF Turns, Reach
  <2> QED BY <2>1, <2>2, <2>3, <2>4, <2>5, <2>6, <2>7, <2>8 DEF knightSteps
<1>4. rookDirs \subseteq kingSteps /\ bishopDirs \subseteq kingSteps BY DEF kingSteps
<1>5. \A d \in kingSteps : Turns(d, kingSteps) BY <1>1, <1>2, <1>4 DEF kingSteps, Turns
<1>6. \A d \in kingSteps : d[1] \in Unit /\ d[2] \in Unit
  BY DEF kingSteps, rookDirs, bishopDirs, Unit
<1> QED BY <1>1, <1>2, <1>3, <1>4, <1>5, <1>6

LEMMA Aligned ==
    \A dirs \in {rookDirs, bishopDirs, kingSteps} : \A d \in dirs :
        \E x, y \in Unit : d = <<x, y>> /\ <<0 - x, 0 - y>> \in dirs /\ (x # 0 \/ y # 0)
<1> SUFFICES ASSUME NEW dirs \in {rookDirs, bishopDirs, kingSteps}, NEW d \in dirs
             PROVE  \E x, y \in Unit : d = <<x, y>> /\ <<0 - x, 0 - y>> \in dirs /\ (x # 0 \/ y # 0)
  OBVIOUS
<1>1. Turns(d, dirs) /\ d \in kingSteps BY Opposite
<1>2. d[1] \in Unit /\ d[2] \in Unit BY <1>1, Opposite
<1>3. d = <<d[1], d[2]>> /\ <<0 - d[1], 0 - d[2]>> \in dirs /\ (d[1] # 0 \/ d[2] # 0)
  BY <1>1 DEF Turns
<1> QED BY <1>2, <1>3, Zenon

\* A walk is walked back in the opposite direction.
LEMMA WalkBack ==
    ASSUME NEW s \in Cells, NEW a \in Unit, NEW b \in Unit, NEW n \in Int, NEW i \in Int
    PROVE  Step(Step(s, <<a, b>>, n), <<0 - a, 0 - b>>, i) = Step(s, <<a, b>>, n - i)
<1>1. s[1] \in Int /\ s[2] \in Int BY CellIs
<1>2. \A q, x, y, k : Step(q, <<x, y>>, k) = <<Shift(q[1], k, x), Shift(q[2], k, y)>> BY DEF Step, Shift
<1>3. \A x, y : <<x, y>>[1] = x /\ <<x, y>>[2] = y OBVIOUS
<1>4. ASSUME NEW x \in Int, NEW d \in Unit PROVE Shift(Shift(x, n, d), i, 0 - d) = Shift(x, n - i, d)
  <2>1. CASE d = -1 BY <2>1 DEF Shift
  <2>2. CASE d = 0 BY <2>2 DEF Shift
  <2>3. CASE d = 1 BY <2>3 DEF Shift
  <2> QED BY <2>1, <2>2, <2>3 DEF Unit
<1>5. Shift(Shift(s[1], n, a), i, 0 - a) = Shift(s[1], n - i, a)
      /\ Shift(Shift(s[2], n, b), i, 0 - b) = Shift(s[2], n - i, b)
  BY <1>1, <1>4, Zenon
<1> QED BY <1>2, <1>3, <1>5

LEMMA NoStep ==
    ASSUME NEW s \in Cells, NEW a \in Unit, NEW b \in Unit
    PROVE  Step(s, <<a, b>>, 0) = s
<1>1. s[1] \in Int /\ s[2] \in Int /\ s = <<s[1], s[2]>> BY CellIs
<1>2. Step(s, <<a, b>>, 0) = <<s[1] + 0 * a, s[2] + 0 * b>> BY DEF Step
<1>3. s[1] + 0 * a = s[1] /\ s[2] + 0 * b = s[2] BY <1>1 DEF Unit
<1> QED BY <1>1, <1>2, <1>3

LEMMA StepLands ==
    ASSUME NEW s \in Cells, NEW a \in Unit, NEW b \in Unit, NEW n \in 1..7,
           OnBoard(Step(s, <<a, b>>, n)), <<a, b>> # <<0, 0>>
    PROVE  Step(s, <<a, b>>, n) \in Cells /\ Step(s, <<a, b>>, n) # s
<1>1. s[1] \in 0..7 /\ s[2] \in 0..7 /\ s = <<s[1], s[2]>> BY CellIs
<1>2. Step(s, <<a, b>>, n) = <<s[1] + n * a, s[2] + n * b>> BY DEF Step
<1>3. n * a \in Int /\ n * b \in Int /\ (a = 0 \/ n * a # 0) /\ (b = 0 \/ n * b # 0)
  <2>1. CASE a = -1 /\ b = -1 BY <2>1
  <2>2. CASE a = -1 /\ b = 0 BY <2>2
  <2>3. CASE a = -1 /\ b = 1 BY <2>3
  <2>4. CASE a = 0 /\ b = -1 BY <2>4
  <2>5. CASE a = 0 /\ b = 0 BY <2>5
  <2>6. CASE a = 0 /\ b = 1 BY <2>6
  <2>7. CASE a = 1 /\ b = -1 BY <2>7
  <2>8. CASE a = 1 /\ b = 0 BY <2>8
  <2>9. CASE a = 1 /\ b = 1 BY <2>9
  <2> QED BY <2>1, <2>2, <2>3, <2>4, <2>5, <2>6, <2>7, <2>8, <2>9 DEF Unit
<1>4. PICK x, y \in Int : x = s[1] + n * a /\ y = s[2] + n * b BY <1>1, <1>3
<1>5. <<x, y>> \in Cells BY <1>2, <1>4, CellIs
<1>6. <<x, y>> # s BY <1>1, <1>3, <1>4
<1> QED BY <1>2, <1>4, <1>5, <1>6

\* What a piece sees along its rays sees it.
LEMMA RayBack ==
    ASSUME NEW b, NEW s \in Cells, NEW dirs \in {rookDirs, bishopDirs, kingSteps}, NEW t \in Rays(b, s, dirs)
    PROVE  t \in Cells /\ t # s /\ s \in Rays(b, t, dirs)
<1>1. PICK d \in dirs : t \in Ray(b, s, d) BY DEF Rays
<1>2. PICK x \in Unit, y \in Unit : d = <<x, y>> /\ <<0 - x, 0 - y>> \in dirs /\ (x # 0 \/ y # 0)
  BY Aligned
<1>3. PICK n \in 1..7 : /\ t = Step(s, <<x, y>>, n) /\ OnBoard(t)
                        /\ \A i \in 1..(n - 1) : Step(s, <<x, y>>, i) \notin DOMAIN b
  BY <1>1, <1>2 DEF Ray
<1> n \in Int OBVIOUS
<1>4. <<x, y>> # <<0, 0>> BY <1>2
<1>5. t \in Cells /\ t # s BY <1>3, <1>4, StepLands
<1>6. \A i \in Int : Step(t, <<0 - x, 0 - y>>, i) = Step(s, <<x, y>>, n - i) BY <1>3, WalkBack
<1>7. Step(t, <<0 - x, 0 - y>>, n) = s
  <2>1. Step(t, <<0 - x, 0 - y>>, n) = Step(s, <<x, y>>, n - n) BY <1>6
  <2>2. n - n = 0 OBVIOUS
  <2> QED BY <2>1, <2>2, NoStep
<1>8. \A i \in 1..(n - 1) : Step(t, <<0 - x, 0 - y>>, i) \notin DOMAIN b
  <2>1. ASSUME NEW i \in 1..(n - 1) PROVE Step(t, <<0 - x, 0 - y>>, i) \notin DOMAIN b
    <3>1. n - i \in 1..(n - 1) /\ i \in Int OBVIOUS
    <3>2. Step(t, <<0 - x, 0 - y>>, i) = Step(s, <<x, y>>, n - i) BY <1>6, <3>1
    <3> QED BY <1>3, <3>1, <3>2
  <2> QED BY <2>1
<1>9. s \in Ray(b, t, <<0 - x, 0 - y>>)
  <2>1. OnBoard(s) BY CellIs
  <2> QED BY <1>7, <1>8, <2>1 DEF Ray
<1> QED BY <1>2, <1>5, <1>9 DEF Rays

\* And so do kings and knights.
LEMMA LeapBack ==
    ASSUME NEW s \in Cells, NEW dirs \in {knightSteps, kingSteps}, NEW t \in Steps(s, dirs)
    PROVE  t \in Cells /\ t # s /\ s \in Steps(t, dirs)
<1>1. PICK d \in dirs : t = Step(s, d, 1) /\ OnBoard(t) BY DEF Steps
<1>2. PICK x \in Reach, y \in Reach : d = <<x, y>> /\ <<0 - x, 0 - y>> \in dirs /\ (x # 0 \/ y # 0)
  <2>1. Turns(d, dirs) BY Opposite
  <2> QED BY <2>1, Zenon DEF Turns
<1> x \in Int /\ y \in Int BY DEF Reach
<1>3. PICK i \in 0..7, j \in 0..7 : s = <<i, j>> BY CellIs
<1>4. t = <<i + x, j + y>> BY <1>1, <1>2, <1>3 DEF Step
<1>5. t \in Cells BY <1>1, <1>4, CellIs
<1>6. t # s BY <1>2, <1>3, <1>4
<1>7. Step(t, <<0 - x, 0 - y>>, 1) = s
  <2>1. (i + x) + 1 * (0 - x) = i /\ (j + y) + 1 * (0 - y) = j OBVIOUS
  <2>2. Step(t, <<0 - x, 0 - y>>, 1) = <<(i + x) + 1 * (0 - x), (j + y) + 1 * (0 - y)>> BY <1>4 DEF Step
  <2> QED BY <1>3, <2>1, <2>2
<1>8. OnBoard(s) BY CellIs
<1> QED BY <1>2, <1>5, <1>6, <1>7, <1>8 DEF Steps

-----------------------------------------------------------------------------
\* The chess engine: what a move may do

LEMMA Sides ==
    ASSUME NEW c \in Colors
    PROVE  /\ Other(c) \in Colors /\ Other(c) # c /\ Other(Other(c)) = c
           /\ \A x \in Colors : x = c \/ x = Other(c)
           /\ Forward(c) \in {-1, 1} /\ Forward(Other(c)) = 0 - Forward(c)
           /\ Rank(c, 1) + Forward(c) \in 1..6 /\ Rank(c, 1) + 2 * Forward(c) \in 1..6
           /\ Rank(c, 0) \in 0..7 /\ Rank(c, 1) \in 1..6 /\ Rank(c, 0) # Rank(Other(c), 0)
BY DEF Colors, Other, Forward, Rank

LEMMA PieceIs ==
    /\ \A t, c, t2, c2 : Piece(t, c) = Piece(t2, c2) <=> t = t2 /\ c = c2
    /\ \A t, c : Piece(t, c).type = t /\ Piece(t, c).color = c
<1>1. \A t, c : Piece(t, c).type = t /\ Piece(t, c).color = c BY DEF Piece
<1>2. ASSUME NEW t, NEW c, NEW t2, NEW c2, Piece(t, c) = Piece(t2, c2) PROVE t = t2 /\ c = c2
  <2>1. Piece(t, c).type = Piece(t2, c2).type /\ Piece(t, c).color = Piece(t2, c2).color BY <1>2
  <2> QED BY <1>1, <2>1
<1> QED BY <1>1, <1>2, Zenon

LEMMA OnTheBoard ==
    ASSUME NEW p, IsPosition(p), NEW s \in DOMAIN p.board
    PROVE  /\ s \in Cells /\ p.board[s].type \in Officers \cup {"K", "P"} /\ p.board[s].color \in Colors
           /\ p.board[s] = Piece(p.board[s].type, p.board[s].color)
BY DEF IsPosition, Piece

LEMMA MoveParts ==
    \A s, t, pr : Move(s, t, pr).from = s /\ Move(s, t, pr).to = t /\ Move(s, t, pr).promo = pr
BY DEF Move

\* The king of the side that has just moved is attacked from nowhere.
LEMMA KingSafe ==
    ASSUME NEW p, IsPosition(p), SoundPosition(p), NEW t, Stands(p.board, t, "K", Other(p.turn))
    PROVE  ~IsAttacked(p.board, t, p.turn)
<1>1. p.turn \in Colors BY DEF IsPosition
<1>2. Other(p.turn) \in Colors /\ Other(Other(p.turn)) = p.turn BY <1>1, Sides
<1>3. PICK k \in DOMAIN p.board : \A s \in DOMAIN p.board : p.board[s] = Piece("K", Other(p.turn)) <=> s = k
  BY <1>2 DEF SoundPosition, OneKingEach
<1>4. \A s : Stands(p.board, s, "K", Other(p.turn)) => s = k BY <1>3 DEF Stands
<1>5. kingSquare(p.board, Other(p.turn)) = t
  <2> DEFINE S == {s \in DOMAIN p.board : Stands(p.board, s, "K", Other(p.turn))}
  <2>1. t \in DOMAIN p.board BY DEF Stands
  <2>2. kingSquare(p.board, Other(p.turn))
          = CHOOSE s \in DOMAIN p.board : Stands(p.board, s, "K", Other(p.turn))
    BY <2>1 DEF kingSquare
  <2>3. \E s \in DOMAIN p.board : Stands(p.board, s, "K", Other(p.turn)) BY <2>1
  <2>4. Stands(p.board, CHOOSE s \in DOMAIN p.board : Stands(p.board, s, "K", Other(p.turn)), "K", Other(p.turn))
    BY <2>3, Zenon
  <2> QED BY <1>4, <2>2, <2>4
<1> QED BY <1>2, <1>5 DEF SoundPosition, InCheck

\* A move by a piece that is no pawn, castling apart.
LEMMA OfficerGoes ==
    ASSUME NEW p, IsPosition(p), SoundPosition(p), NEW s \in DOMAIN p.board, Owns(p.board, s, p.turn),
           p.board[s].type # "P", NEW m \in MovesFrom(p, s),
           p.board[s].type = "K" => m \notin CastlingMoves(p, s)
    PROVE  \E t \in Cells : /\ m = Move(s, t, Empty) /\ t # s /\ ~Owns(p.board, t, p.turn)
                            /\ ~Stands(p.board, t, "K", Other(p.turn))
                            /\ p.board[s].type = "K" => t \in Steps(s, kingSteps)
<1> DEFINE b == p.board  ty == b[s].type
<1>1. s \in Cells /\ ty \in Officers \cup {"K", "P"} /\ b[s] = Piece(ty, p.turn)
  BY OnTheBoard DEF Owns
<1>2. ASSUME NEW t, IsAttacked(b, t, p.turn) PROVE ~Stands(b, t, "K", Other(p.turn))
  BY <1>2, KingSafe
<1>3. Stands(b, s, ty, p.turn) BY <1>1 DEF Stands
<1>4. CASE ty = "N"
  <2>1. PICK t \in Steps(s, knightSteps) : m = Move(s, t, Empty) /\ ~Owns(b, t, p.turn)
    BY <1>4 DEF MovesFrom
  <2>2. t \in Cells /\ t # s /\ s \in Steps(t, knightSteps) BY <1>1, LeapBack
  <2>3. IsAttacked(b, t, p.turn) BY <1>3, <1>4, <2>2 DEF IsAttacked
  <2> QED BY <1>2, <1>4, <2>1, <2>2, <2>3
<1>5. CASE ty = "K"
  <2>1. PICK t \in Steps(s, kingSteps) : m = Move(s, t, Empty) /\ ~Owns(b, t, p.turn)
    BY <1>5 DEF MovesFrom
  <2>2. t \in Cells /\ t # s /\ s \in Steps(t, kingSteps) BY <1>1, LeapBack
  <2>3. IsAttacked(b, t, p.turn) BY <1>3, <1>5, <2>2 DEF IsAttacked
  <2> QED BY <1>2, <1>5, <2>1, <2>2, <2>3
<1>6. CASE ty \in {"R", "B", "Q"}
  <2> DEFINE dirs == DirsOf(ty)
  <2>1. dirs \in {rookDirs, bishopDirs, kingSteps} /\ (ty = "R" => dirs = rookDirs)
          /\ (ty = "B" => dirs = bishopDirs) /\ (ty = "Q" => dirs = kingSteps)
    BY <1>6 DEF DirsOf
  <2>2. PICK t \in Rays(b, s, dirs) : m = Move(s, t, Empty) /\ ~Owns(b, t, p.turn)
    BY <1>6 DEF MovesFrom
  <2>3. t \in Cells /\ t # s /\ s \in Rays(b, t, dirs) BY <1>1, <2>1, RayBack
  <2>4. s \in Rays(b, t, kingSteps) => s \in Rays(b, t, rookDirs) \/ s \in Rays(b, t, bishopDirs)
    BY DEF Rays, kingSteps
  <2>5. IsAttacked(b, t, p.turn) BY <1>3, <1>6, <2>1, <2>3, <2>4 DEF IsAttacked
  <2> QED BY <1>2, <1>6, <2>2, <2>3, <2>5
<1> QED BY <1>1, <1>4, <1>5, <1>6 DEF Officers

\* Castling: which squares the king and the rook leave and reach.
Castles(p, s, t) ==
    LET r == Rank(p.turn, 0)
    IN /\ s = <<4, r>> /\ t \in Cells /\ t \notin DOMAIN p.board
       /\ \/ t = <<6, r>> /\ <<5, r>> \notin DOMAIN p.board /\ Stands(p.board, <<7, r>>, "R", p.turn)
          \/ t = <<2, r>> /\ <<3, r>> \notin DOMAIN p.board /\ Stands(p.board, <<0, r>>, "R", p.turn)

LEMMA KingCastles ==
    ASSUME NEW p, p.turn \in Colors, NEW s, NEW m \in CastlingMoves(p, s)
    PROVE  \E t \in Cells : m = Move(s, t, Empty) /\ Castles(p, s, t)
<1> DEFINE r == Rank(p.turn, 0)
<1>1. r \in 0..7 BY Sides
<1>2. <<6, r>> \in Cells /\ <<2, r>> \in Cells BY <1>1 DEF Cells
<1> HIDE DEF r
<1>3. s = <<4, r>> BY DEF CastlingMoves, r
<1>4. \/ /\ m = Move(s, <<6, r>>, Empty) /\ \A f \in {5, 6} : <<f, r>> \notin DOMAIN p.board
         /\ Stands(p.board, <<7, r>>, "R", p.turn)
      \/ /\ m = Move(s, <<2, r>>, Empty) /\ \A f \in {1, 2, 3} : <<f, r>> \notin DOMAIN p.board
         /\ Stands(p.board, <<0, r>>, "R", p.turn)
  BY DEF CastlingMoves, r
<1>5. CASE /\ m = Move(s, <<6, r>>, Empty) /\ \A f \in {5, 6} : <<f, r>> \notin DOMAIN p.board
           /\ Stands(p.board, <<7, r>>, "R", p.turn)
  BY <1>2, <1>3, <1>5 DEF Castles, r
<1>6. CASE /\ m = Move(s, <<2, r>>, Empty) /\ \A f \in {1, 2, 3} : <<f, r>> \notin DOMAIN p.board
           /\ Stands(p.board, <<0, r>>, "R", p.turn)
  BY <1>2, <1>3, <1>6 DEF Castles, r
<1> QED BY <1>4, <1>5, <1>6

\* A pawn's move: where it lands, what it takes, what it leaves behind.
Doubled(p, s, t) ==
    LET e == <<s[1], (s[2] + t[2]) \div 2>>
    IN /\ e \in Cells /\ e \notin DOMAIN p.board /\ e # t
       /\ Step(e, <<0, Forward(p.turn)>>, 1) = t /\ t[2] \in 1..6

\* Where a pawn comes from: it takes from the next file, and is pushed past nothing.
CameBy(p, s, t) ==
    \/ /\ t \in DOMAIN p.board \/ t = p.enPassant
       /\ s[2] = t[2] - Forward(p.turn)
    \/ /\ t \notin DOMAIN p.board /\ t # p.enPassant /\ s[1] = t[1]
       /\ \/ s[2] = t[2] - Forward(p.turn)
          \/ s[2] = t[2] - 2 * Forward(p.turn) /\ <<t[1], t[2] - Forward(p.turn)>> \notin DOMAIN p.board

LEMMA PawnGoes ==
    ASSUME NEW p, IsPosition(p), SoundPosition(p), NEW s \in DOMAIN p.board, Stands(p.board, s, "P", p.turn),
           NEW m \in PawnMoves(p, s)
    PROVE  \E t \in Cells : /\ m \in PawnTo(s, t) /\ t # s /\ ~Owns(p.board, t, p.turn)
                            /\ ~Stands(p.board, t, "K", Other(p.turn))
                            /\ t = p.enPassant => Stands(p.board, <<t[1], s[2]>>, "P", Other(p.turn))
                            /\ Distance(t[2], s[2]) = 2 => Doubled(p, s, t)
                            /\ CameBy(p, s, t)
<1> DEFINE b == p.board  c == p.turn  o == Other(c)
<1>1. c \in Colors BY DEF IsPosition
<1>2. s \in Cells /\ s[2] \in 1..6 BY OnTheBoard, PieceIs DEF SoundPosition, PawnsInside, Stands
<1>3. PICK i \in 0..7, j \in 1..6 : s = <<i, j>> BY <1>2, CellIs
<1>4. PICK F \in {-1, 1} : Forward(c) = F /\ Forward(o) = 0 - F
        /\ (j = Rank(c, 1) => j + F \in 1..6 /\ j + 2 * F \in 1..6)
  BY <1>1, Sides
<1> DEFINE one == <<i, j + F>>  two == <<i, j + 2 * F>>
<1>5. one = Step(s, <<0, Forward(c)>>, 1) /\ two = Step(s, <<0, Forward(c)>>, 2)
  <2>1. i + 1 * 0 = i /\ i + 2 * 0 = i /\ j + 1 * F = j + F OBVIOUS
  <2> QED BY <1>3, <1>4, <2>1 DEF Step
<1>6. one \in Cells /\ s = <<i, j>> BY <1>3 DEF Cells
<1>7. \E t : /\ m \in PawnTo(s, t)
             /\ \/ t = one /\ one \notin DOMAIN b
                \/ t = two /\ one \notin DOMAIN b /\ two \notin DOMAIN b /\ s[2] = Rank(c, 1)
                \/ /\ t = <<one[1] - 1, one[2]>> \/ t = <<one[1] + 1, one[2]>>
                   /\ OnBoard(t) /\ (Owns(b, t, o) \/ t = p.enPassant)
  <2> HIDE DEF one, two
  <2> QED BY <1>5 DEF PawnMoves
<1>8. PICK t : /\ m \in PawnTo(s, t)
               /\ \/ t = one /\ one \notin DOMAIN b
                  \/ t = two /\ one \notin DOMAIN b /\ two \notin DOMAIN b /\ j = Rank(c, 1)
                  \/ \E g \in {-1, 1} : t = <<i + g, j + F>> /\ OnBoard(t) /\ (Owns(b, t, o) \/ t = p.enPassant)
  BY <1>3, <1>7
\* The pawn that passed stands right behind the square, where a push comes from.
<1>9. p.enPassant # NoSquare => /\ p.enPassant \notin DOMAIN b
                                /\ Stands(b, Step(p.enPassant, <<0, 0 - F>>, 1), "P", o)
  BY <1>4 DEF SoundPosition, EnPassantStands
<1>10. \A x, y \in Int : Step(<<x, y>>, <<0, 0 - F>>, 1) = <<x, y - F>>
  <2>1. ASSUME NEW x \in Int, NEW y \in Int PROVE Step(<<x, y>>, <<0, 0 - F>>, 1) = <<x, y - F>>
    <3>1. x + 1 * 0 = x /\ y + 1 * (0 - F) = y - F OBVIOUS
    <3>2. Step(<<x, y>>, <<0, 0 - F>>, 1) = <<x + 1 * 0, y + 1 * (0 - F)>> BY DEF Step
    <3> QED BY <3>1, <3>2
  <2> QED BY <2>1
<1>11. one # NoSquare /\ two # NoSquare BY DEF NoSquare
<1>12. b[s].color = c /\ s \in DOMAIN b /\ o # c BY <1>1, Sides, PieceIs DEF Stands
<1>13. CASE t = one /\ one \notin DOMAIN b
  <2>1. t \in Cells /\ t # s BY <1>6, <1>13
  <2>2. t # p.enPassant
    <3> SUFFICES ASSUME t = p.enPassant PROVE FALSE OBVIOUS
    <3>1. Step(p.enPassant, <<0, 0 - F>>, 1) = s
      <4>1. PICK y \in Int : y = j + F OBVIOUS
      <4>2. Step(<<i, y>>, <<0, 0 - F>>, 1) = <<i, y - F>> BY <1>10
      <4>3. y - F = j BY <4>1
      <4>4. p.enPassant = <<i, y>> BY <1>13, <4>1
      <4> QED BY <1>3, <4>2, <4>3, <4>4
    <3> QED BY <1>9, <1>11, <1>12, <1>13, <3>1, PieceIs DEF Stands
  <2>3. Distance(t[2], s[2]) # 2 BY <1>3, <1>13 DEF Distance
  <2>4. CameBy(p, s, t)
    <3>1. s[1] = t[1] /\ s[2] = t[2] - F BY <1>3, <1>13
    <3> QED BY <1>4, <1>13, <2>2, <3>1 DEF CameBy
  <2> QED BY <1>8, <1>13, <2>1, <2>2, <2>3, <2>4 DEF Owns, Stands
<1>14. CASE t = two /\ one \notin DOMAIN b /\ two \notin DOMAIN b /\ j = Rank(c, 1)
  <2>1. j + F \in 1..6 /\ j + 2 * F \in 1..6 BY <1>4, <1>14
  <2>2. t \in Cells /\ t # s BY <1>3, <1>14, <2>1 DEF Cells
  <2>3. t # p.enPassant
    <3> SUFFICES ASSUME t = p.enPassant PROVE FALSE OBVIOUS
    <3>1. PICK x \in Int, y \in Int, z \in Int : x = i /\ y = j + 2 * F /\ z = j + F /\ y - F = z
      BY <1>3
    <3>2. p.enPassant = <<x, y>> /\ one = <<x, z>> BY <1>14, <3>1
    <3>3. Step(<<x, y>>, <<0, 0 - F>>, 1) = <<x, y - F>> BY <1>10
    <3>4. Step(p.enPassant, <<0, 0 - F>>, 1) = one BY <3>1, <3>2, <3>3, Zenon
    <3> QED BY <1>9, <1>11, <1>14, <3>4 DEF Stands
  <2>4. Doubled(p, s, t)
    <3>1. (s[2] + t[2]) \div 2 = j + F /\ s[1] = i /\ t[2] \in 1..6 BY <1>3, <1>14, <2>1
    <3>2. Step(one, <<0, F>>, 1) = <<i + 1 * 0, (j + F) + 1 * F>> BY DEF Step
    <3>3. Step(one, <<0, F>>, 1) = t BY <1>14, <3>2
    <3>4. one # t BY <1>14
    <3> QED BY <1>4, <1>6, <1>14, <3>1, <3>3, <3>4 DEF Doubled
  <2>5. CameBy(p, s, t)
    <3>1. s[1] = t[1] /\ s[2] = t[2] - 2 * F /\ <<t[1], t[2] - F>> = one BY <1>3, <1>14
    <3> QED BY <1>4, <1>14, <2>3, <3>1 DEF CameBy
  <2> QED BY <1>8, <1>14, <2>2, <2>3, <2>4, <2>5 DEF Owns, Stands
<1>15. CASE \E g \in {-1, 1} : t = <<i + g, j + F>> /\ OnBoard(t) /\ (Owns(b, t, o) \/ t = p.enPassant)
  <2>1. PICK g \in {-1, 1} : t = <<i + g, j + F>> BY <1>15
  <2>2. t \in Cells /\ t # s BY <1>3, <1>15, <2>1, CellIs
  <2>3. t # NoSquare BY <1>15 DEF OnBoard, NoSquare
  <2>4. ~Owns(b, t, c) BY <1>9, <1>12, <1>15, <2>3 DEF Owns
  <2>5. ~Stands(b, t, "K", o)
    <3>1. 0 - g \in {-1, 1} /\ (i + g) + (0 - g) = i /\ (j + F) - F = j OBVIOUS
    <3>2. <<t[1] + (0 - g), t[2] - Forward(c)>> = s BY <1>3, <1>4, <2>1, <3>1
    <3>3. IsAttacked(b, t, c) BY <3>1, <3>2 DEF IsAttacked
    <3> QED BY <3>3, KingSafe
  <2>6. t = p.enPassant => Stands(b, <<t[1], s[2]>>, "P", o)
    <3>1. Step(t, <<0, 0 - F>>, 1) = <<i + g, j>> BY <1>10, <2>1
    <3> QED BY <1>3, <1>9, <2>1, <2>3, <3>1
  <2>7. Distance(t[2], s[2]) # 2 BY <1>3, <2>1 DEF Distance
  <2>8. CameBy(p, s, t)
    <3>1. s[2] = t[2] - F BY <1>3, <2>1
    <3> QED BY <1>4, <1>15, <3>1 DEF CameBy, Owns
  <2> QED BY <1>8, <2>2, <2>4, <2>5, <2>6, <2>7, <2>8
<1> QED BY <1>8, <1>13, <1>14, <1>15

LEMMA Promoted ==
    ASSUME NEW s, NEW t \in Cells, NEW m \in PawnTo(s, t)
    PROVE  /\ m.from = s /\ m.to = t /\ m.promo \in Officers \cup {Empty}
           /\ m.promo = Empty <=> t[2] \in 1..6
<1>1. t[2] \in 0..7 BY CellIs
<1>2. Empty \notin Officers BY DEF Officers, Empty
<1>3. CASE t[2] \in {0, 7}
  <2>1. \E pr \in Officers : m = Move(s, t, pr) BY <1>3, Zenon DEF PawnTo
  <2>2. m.from = s /\ m.to = t /\ m.promo \in Officers BY <2>1, MoveParts
  <2> QED BY <1>1, <1>2, <1>3, <2>2
<1>4. CASE t[2] \notin {0, 7}
  <2>1. \E pr \in {Empty} : m = Move(s, t, pr) BY <1>4, Zenon DEF PawnTo
  <2>2. m.from = s /\ m.to = t /\ m.promo = Empty BY <2>1, MoveParts
  <2> QED BY <1>1, <1>4, <2>2
<1> QED BY <1>3, <1>4

\* What holds of every move tried from a sound position, king left in check or not.
Goes(p, m) ==
    LET b == p.board  s == m.from  t == m.to
    IN /\ s \in DOMAIN b /\ Owns(b, s, p.turn) /\ t \in Cells /\ t # s
       /\ ~Owns(b, t, p.turn) /\ ~Stands(b, t, "K", Other(p.turn))
       /\ m.promo \in Officers \cup {Empty} /\ (m.promo # Empty => b[s].type = "P")
       /\ b[s].type = "P" /\ m.promo = Empty => t[2] \in 1..6
       /\ IsEnPassant(p, m) => Stands(b, <<t[1], s[2]>>, "P", Other(p.turn))
       /\ IsCastling(b, m) => Castles(p, s, t)
       /\ NewEnPassant(b, m) # NoSquare => b[s].type = "P" /\ m.promo = Empty /\ Doubled(p, s, t)

LEMMA MoveGoes ==
    ASSUME NEW p, IsPosition(p), SoundPosition(p), NEW m \in pseudoMoves(p)
    PROVE  Goes(p, m)
<1> DEFINE b == p.board
<1>1. PICK s \in DOMAIN b : Owns(b, s, p.turn) /\ m \in MovesFrom(p, s) BY DEF pseudoMoves
<1>2. p.turn \in Colors BY DEF IsPosition
<1>3. s \in Cells /\ b[s] = Piece(b[s].type, p.turn) BY <1>1, OnTheBoard DEF Owns
<1>4. CASE b[s].type = "P"
  <2>1. m \in PawnMoves(p, s) BY <1>1, <1>4 DEF MovesFrom
  <2>2. Stands(b, s, "P", p.turn) BY <1>3, <1>4 DEF Stands
  <2>3. PICK t \in Cells : /\ m \in PawnTo(s, t) /\ t # s /\ ~Owns(b, t, p.turn)
                           /\ ~Stands(b, t, "K", Other(p.turn))
                           /\ t = p.enPassant => Stands(b, <<t[1], s[2]>>, "P", Other(p.turn))
                           /\ Distance(t[2], s[2]) = 2 => Doubled(p, s, t)
    BY <2>1, <2>2, PawnGoes
  <2>4. m.from = s /\ m.to = t BY <2>3, Promoted
  <2>6. m.promo \in Officers \cup {Empty} /\ (m.promo = Empty <=> t[2] \in 1..6) BY <2>3, Promoted
  <2>7. ~IsCastling(b, m) BY <1>4, <2>4 DEF IsCastling
  <2>8. IsEnPassant(p, m) => Stands(b, <<t[1], s[2]>>, "P", Other(p.turn)) BY <2>3, <2>4 DEF IsEnPassant
  <2>9. NewEnPassant(b, m) # NoSquare => Doubled(p, s, t) BY <2>3, <2>4 DEF NewEnPassant
  <2>10. NewEnPassant(b, m) # NoSquare => m.promo = Empty BY <2>6, <2>9 DEF Doubled
  <2> QED BY <1>1, <1>4, <2>3, <2>4, <2>6, <2>7, <2>8, <2>9, <2>10 DEF Goes
<1>5. CASE b[s].type = "K" /\ m \in CastlingMoves(p, s)
  <2>1. PICK t \in Cells : m = Move(s, t, Empty) /\ Castles(p, s, t) BY <1>2, <1>5, KingCastles
  <2>2. m.from = s /\ m.to = t /\ m.promo = Empty BY <2>1, MoveParts
  <2>3. t # s /\ ~Owns(b, t, p.turn) /\ ~Stands(b, t, "K", Other(p.turn))
    BY <2>1 DEF Castles, Owns, Stands
  <2>4. ~IsEnPassant(p, m) /\ NewEnPassant(b, m) = NoSquare BY <1>5, <2>2 DEF IsEnPassant, NewEnPassant
  <2> QED BY <1>1, <1>5, <2>1, <2>2, <2>3, <2>4 DEF Goes
<1>6. CASE b[s].type # "P" /\ (b[s].type = "K" => m \notin CastlingMoves(p, s))
  <2>1. PICK t \in Cells : /\ m = Move(s, t, Empty) /\ t # s /\ ~Owns(b, t, p.turn)
                           /\ ~Stands(b, t, "K", Other(p.turn))
                           /\ b[s].type = "K" => t \in Steps(s, kingSteps)
    BY <1>1, <1>6, OfficerGoes
  <2>2. m.from = s /\ m.to = t /\ m.promo = Empty BY <2>1, MoveParts
  <2>3. ~IsEnPassant(p, m) /\ NewEnPassant(b, m) = NoSquare BY <1>6, <2>2 DEF IsEnPassant, NewEnPassant
  <2>4. ~IsCastling(b, m)
    <3> SUFFICES ASSUME b[s].type = "K" PROVE Distance(t[1], s[1]) # 2 BY <2>2 DEF IsCastling
    <3>1. PICK d \in kingSteps : t = Step(s, d, 1) BY <2>1 DEF Steps
    <3>2. d[1] \in Unit BY <3>1, Opposite
    <3>3. s[1] \in 0..7 /\ t[1] = s[1] + 1 * d[1] BY <1>3, <3>1, CellIs DEF Step
    <3> QED BY <3>2, <3>3 DEF Distance, Unit
  <2> QED BY <1>1, <1>6, <2>1, <2>2, <2>3, <2>4 DEF Goes
<1> QED BY <1>4, <1>5, <1>6

\* No two moves have the same squares and the same promotion, and a pawn's
\* squares tell how it came.
LEMMA MoveIs ==
    ASSUME NEW p, IsPosition(p), SoundPosition(p), NEW m \in pseudoMoves(p)
    PROVE  /\ m = Move(m.from, m.to, m.promo)
           /\ p.board[m.from].type = "P" => CameBy(p, m.from, m.to)
<1> DEFINE b == p.board
<1>1. PICK s \in DOMAIN b : Owns(b, s, p.turn) /\ m \in MovesFrom(p, s) BY DEF pseudoMoves
<1>2. p.turn \in Colors BY DEF IsPosition
<1>3. s \in Cells /\ b[s] = Piece(b[s].type, p.turn) BY <1>1, OnTheBoard DEF Owns
<1>4. CASE b[s].type = "P"
  <2>1. m \in PawnMoves(p, s) BY <1>1, <1>4 DEF MovesFrom
  <2>2. Stands(b, s, "P", p.turn) BY <1>3, <1>4 DEF Stands
  <2>3. PICK t \in Cells : m \in PawnTo(s, t) /\ CameBy(p, s, t) BY <2>1, <2>2, PawnGoes
  <2>4. m.from = s /\ m.to = t BY <2>3, Promoted
  <2>5. \E pr : m = Move(s, t, pr) BY <2>3, Zenon DEF PawnTo
  <2> QED BY <2>3, <2>4, <2>5, MoveParts
<1>5. CASE b[s].type = "K" /\ m \in CastlingMoves(p, s)
  <2>1. PICK t \in Cells : m = Move(s, t, Empty) BY <1>2, <1>5, KingCastles
  <2> QED BY <1>5, <2>1, MoveParts
<1>6. CASE b[s].type # "P" /\ (b[s].type = "K" => m \notin CastlingMoves(p, s))
  <2>1. PICK t \in Cells : m = Move(s, t, Empty) BY <1>1, <1>6, OfficerGoes
  <2> QED BY <1>6, <2>1, MoveParts
<1> QED BY <1>4, <1>5, <1>6

-----------------------------------------------------------------------------
\* The chess engine: the board after a move

\* Only the moved piece and a castled rook are new, and only a pawn that is
\* taken in passing or that rook goes from a square the move does not name.
Turned(p, m, b2) ==
    LET b == p.board  s == m.from  t == m.to  c == p.turn
        rook(q) == b[q] = Piece("R", c) /\ s = <<4, Rank(c, 0)>>
    IN /\ s \notin DOMAIN b2 /\ t \in DOMAIN b2
       /\ b2[t] = IF m.promo = Empty THEN b[s] ELSE Piece(m.promo, c)
       /\ \A q \in DOMAIN b2 \ {t} : \/ q \in DOMAIN b /\ b2[q] = b[q]
                                     \/ /\ q \in Cells \ DOMAIN b /\ b2[q] = Piece("R", c)
                                        /\ b[s].type = "K"
       /\ \A q \in DOMAIN b \ {s, t} : \/ q \in DOMAIN b2 /\ b2[q] = b[q]
                                       \/ b[q] = Piece("P", Other(c))
                                       \/ rook(q)

LEMMA WithoutIs ==
    ASSUME NEW b, NEW S
    PROVE  /\ DOMAIN Without(b, S) = DOMAIN b \ S
           /\ \A q \in DOMAIN Without(b, S) : Without(b, S)[q] = b[q]
           /\ Without(b, S) = [q \in DOMAIN Without(b, S) |-> Without(b, S)[q]]
BY DEF Without, Restrict

LEMMA WithIs ==
    ASSUME NEW b, NEW s, NEW pc
    PROVE  /\ DOMAIN With(b, s, pc) = DOMAIN b \cup {s} /\ With(b, s, pc)[s] = pc
           /\ \A q \in DOMAIN b : q # s => With(b, s, pc)[q] = b[q]
BY DEF With

\* Apply: the taken pawn, the castled rook and the moved piece.
LEMMA BoardAfter ==
    ASSUME NEW p, IsPosition(p), NEW m, Goes(p, m)
    PROVE  Turned(p, m, Apply(p, m).board)
<1> DEFINE b == p.board  s == m.from  t == m.to  c == p.turn
           placed == IF m.promo = Empty THEN b[s] ELSE Piece(m.promo, c)
<1>1. c \in Colors /\ b[s].color = c BY DEF IsPosition, Goes, Owns
<1>2. s \in DOMAIN b /\ t # s /\ s \in Cells BY OnTheBoard DEF Goes
<1>3. CASE IsCastling(b, m)
  <2>1. b[s].type = "K" /\ ~IsEnPassant(p, m) BY <1>3 DEF IsCastling, IsEnPassant
  <2>2. Castles(p, s, t) BY <1>3 DEF Goes
  <2>3. PICK r \in 0..7 : r = Rank(c, 0) BY <1>1, Sides
  <2>4. s = <<4, r>> /\ t \notin DOMAIN b BY <2>2, <2>3 DEF Castles
  <2>5. \E out, in \in Cells : /\ Stands(b, out, "R", c) /\ in \notin DOMAIN b /\ in # t /\ in # s /\ out # t /\ out # in
                               /\ RookAcross(b, m) = Without(With(b, in, b[out]), {out})
    <3>1. CASE t = <<6, r>> /\ <<5, r>> \notin DOMAIN b /\ Stands(b, <<7, r>>, "R", c)
      <4>1. <<7, r>> \in Cells /\ <<5, r>> \in Cells BY DEF Cells
      <4>2. s[2] = r /\ t[1] = 6 BY <2>4, <3>1
      <4>3. RookAcross(b, m) = Without(With(b, <<5, r>>, b[<<7, r>>]), {<<7, r>>}) BY <4>2 DEF RookAcross
      <4>4. <<5, r>> # t /\ <<5, r>> # s /\ <<7, r>> # t /\ <<7, r>> # <<5, r>> BY <2>4, <3>1
      <4> QED BY <3>1, <4>1, <4>3, <4>4, Zenon
    <3>2. CASE t = <<2, r>> /\ <<3, r>> \notin DOMAIN b /\ Stands(b, <<0, r>>, "R", c)
      <4>1. <<0, r>> \in Cells /\ <<3, r>> \in Cells BY DEF Cells
      <4>2. s[2] = r /\ t[1] = 2 BY <2>4, <3>2
      <4>3. RookAcross(b, m) = Without(With(b, <<3, r>>, b[<<0, r>>]), {<<0, r>>}) BY <4>2 DEF RookAcross
      <4>4. <<3, r>> # t /\ <<3, r>> # s /\ <<0, r>> # t /\ <<0, r>> # <<3, r>> BY <2>4, <3>2
      <4> QED BY <3>2, <4>1, <4>3, <4>4, Zenon
    <3> QED BY <2>2, <2>3, <3>1, <3>2 DEF Castles
  <2>6. PICK out, in \in Cells : /\ Stands(b, out, "R", c) /\ in \notin DOMAIN b /\ in # t /\ in # s /\ out # t /\ out # in
                                 /\ RookAcross(b, m) = Without(With(b, in, b[out]), {out})
    BY <2>5
  <2> DEFINE w == With(b, in, b[out])  v == Without(w, {out})  u == With(v, t, placed)  b2 == Without(u, {s})
  <2>7. Apply(p, m).board = b2 BY <1>1, <1>3, <2>1, <2>6 DEF Apply
  <2>8. DOMAIN w = DOMAIN b \cup {in} /\ w[in] = b[out] /\ \A q \in DOMAIN b : q # in => w[q] = b[q]
    BY WithIs DEF With
  <2> HIDE DEF w
  <2>9. DOMAIN v = DOMAIN w \ {out} /\ \A q \in DOMAIN v : v[q] = w[q] BY DEF Without, Restrict
  <2> HIDE DEF v
  <2>10. DOMAIN u = DOMAIN v \cup {t} /\ u[t] = placed /\ \A q \in DOMAIN v : q # t => u[q] = v[q] BY WithIs DEF With
  <2> HIDE DEF u
  <2>11. DOMAIN b2 = DOMAIN u \ {s} /\ \A q \in DOMAIN b2 : b2[q] = u[q] BY DEF Without, Restrict
  <2> HIDE DEF b2
  <2>12. b[out] = Piece("R", c) BY <2>6 DEF Stands
  <2>13. s \notin DOMAIN b2 /\ t \in DOMAIN b2 /\ b2[t] = placed BY <1>2, <2>10, <2>11
  <2>14. \A q \in DOMAIN b2 \ {t} : (q \in DOMAIN b /\ b2[q] = b[q]) \/ (q = in /\ b2[q] = b[out])
    BY <2>6, <2>8, <2>9, <2>10, <2>11
  <2>15. \A q \in DOMAIN b \ {s, t} : (q \in DOMAIN b2 /\ b2[q] = b[q]) \/ q = out
    BY <2>6, <2>8, <2>9, <2>10, <2>11
  <2> QED BY <2>1, <2>3, <2>4, <2>6, <2>7, <2>12, <2>13, <2>14, <2>15 DEF Turned
<1>4. CASE ~IsCastling(b, m)
  <2> DEFINE gone == IF IsEnPassant(p, m) THEN {<<t[1], s[2]>>} ELSE {}
             v == IF IsEnPassant(p, m) THEN Without(b, {<<t[1], s[2]>>}) ELSE b
             u == With(v, t, placed)  b2 == Without(u, {s})
  <2>1. Apply(p, m).board = b2 BY <1>1, <1>4 DEF Apply
  <2>2. DOMAIN v = DOMAIN b \ gone /\ \A q \in DOMAIN v : v[q] = b[q]
    <3>1. CASE IsEnPassant(p, m)
      <4>1. v = Without(b, gone) BY <3>1
      <4> HIDE DEF v, gone
      <4>2. DOMAIN Without(b, gone) = DOMAIN b \ gone
              /\ \A q \in DOMAIN Without(b, gone) : Without(b, gone)[q] = b[q]
        BY DEF Without, Restrict
      <4> QED BY <4>1, <4>2, Zenon
    <3>2. CASE ~IsEnPassant(p, m) BY <3>2
    <3> QED BY <3>1, <3>2
  <2>3. \A q \in gone : b[q] = Piece("P", Other(c)) BY DEF Goes, Stands
  <2> HIDE DEF v, gone
  <2>4. DOMAIN u = DOMAIN v \cup {t} /\ u[t] = placed /\ \A q \in DOMAIN v : q # t => u[q] = v[q] BY WithIs DEF With
  <2> HIDE DEF u
  <2>5. DOMAIN b2 = DOMAIN u \ {s} /\ \A q \in DOMAIN b2 : b2[q] = u[q] BY DEF Without, Restrict
  <2> HIDE DEF b2
  <2>6. s \notin DOMAIN b2 /\ t \in DOMAIN b2 /\ b2[t] = placed BY <1>2, <2>4, <2>5
  <2>7. \A q \in DOMAIN b2 \ {t} : q \in DOMAIN b /\ b2[q] = b[q] BY <2>2, <2>4, <2>5
  <2>8. \A q \in DOMAIN b \ {s, t} : (q \in DOMAIN b2 /\ b2[q] = b[q]) \/ q \in gone BY <2>2, <2>4, <2>5
  <2> QED BY <2>1, <2>3, <2>6, <2>7, <2>8 DEF Turned
<1> QED BY <1>3, <1>4

-----------------------------------------------------------------------------
\* The chess engine: a sound position stays one

LEMMA PieceLands ==
    ASSUME NEW p, IsPosition(p), NEW m, Goes(p, m),
           NEW b2, Turned(p, m, b2)
    PROVE  /\ b2[m.to].color = p.turn /\ b2[m.to] = Piece(b2[m.to].type, p.turn)
           /\ b2[m.to].type \in Officers \cup {"K", "P"}
           /\ (b2[m.to].type = "K" <=> p.board[m.from].type = "K")
           /\ b2[m.to].type = "P" => m.to[2] \in 1..6
           /\ m.promo = Empty => b2[m.to] = p.board[m.from]
<1> DEFINE b == p.board  s == m.from
<1>1. s \in DOMAIN b /\ b[s].color = p.turn BY DEF Goes, Owns
<1>2. b[s] = Piece(b[s].type, p.turn) /\ b[s].type \in Officers \cup {"K", "P"} BY <1>1, OnTheBoard
<1>3. CASE m.promo = Empty
  <2>1. b2[m.to] = b[s] BY <1>3 DEF Turned
  <2>2. b[s].type = "P" => m.to[2] \in 1..6 BY <1>3 DEF Goes
  <2> QED BY <1>1, <1>2, <2>1, <2>2
<1>4. CASE m.promo # Empty
  <2>1. m.promo \in Officers /\ b[s].type = "P" BY <1>4 DEF Goes
  <2>2. b2[m.to] = Piece(m.promo, p.turn) BY <1>4 DEF Turned
  <2>3. b2[m.to].type = m.promo /\ b2[m.to].color = p.turn BY <2>2, PieceIs
  <2>4. m.promo # "K" /\ m.promo # "P" BY <2>1 DEF Officers
  <2> QED BY <1>4, <2>1, <2>2, <2>3, <2>4
<1> QED BY <1>3, <1>4

\* No king is taken, and none is made by promotion.
LEMMA KingsStay ==
    ASSUME NEW p, IsPosition(p), SoundPosition(p), NEW m, Goes(p, m), NEW b2, Turned(p, m, b2)
    PROVE  OneKingEach(b2)
<1> DEFINE b == p.board  s == m.from  t == m.to  c == p.turn
<1>1. c \in Colors BY DEF IsPosition
<1>2. s \in DOMAIN b /\ t # s /\ b[s].color = c /\ b[s] = Piece(b[s].type, c)
  <2>1. s \in DOMAIN b /\ t # s /\ b[s].color = c BY DEF Goes, Owns
  <2> QED BY <2>1, OnTheBoard
<1>3. s \notin DOMAIN b2 /\ t \in DOMAIN b2 BY DEF Turned
<1>4. b2[t] = Piece(b2[t].type, c) /\ (b2[t].type = "K" <=> b[s].type = "K") BY PieceLands
<1>5. \A q \in DOMAIN b2 \ {t}, x \in Colors : b2[q] = Piece("K", x) => q \in DOMAIN b /\ b[q] = Piece("K", x)
  BY PieceIs DEF Turned
<1>6. \A q \in DOMAIN b \ {s, t}, x \in Colors : b[q] = Piece("K", x) => q \in DOMAIN b2 /\ b2[q] = b[q]
  BY PieceIs DEF Turned
<1>7. ASSUME NEW x \in Colors
      PROVE  \E k \in DOMAIN b2 : \A q \in DOMAIN b2 : b2[q] = Piece("K", x) <=> q = k
  <2>1. PICK k \in DOMAIN b : \A q \in DOMAIN b : b[q] = Piece("K", x) <=> q = k
    BY DEF SoundPosition, OneKingEach
  <2>2. CASE k = s
    <3>1. b[s] = Piece("K", x) BY <2>1, <2>2
    <3>2. b[s].type = "K" /\ x = c BY <1>2, <3>1, PieceIs
    <3>3. b2[t] = Piece("K", x) BY <1>4, <3>2
    <3>4. \A q \in DOMAIN b2 : b2[q] = Piece("K", x) => q = t BY <1>3, <1>5, <2>1, <2>2
    <3> QED BY <1>3, <3>3, <3>4
  <2>3. CASE k # s
    <3>1. k # t
      <4> SUFFICES ASSUME k = t PROVE FALSE OBVIOUS
      <4>1. t \in DOMAIN b /\ b[t] = Piece("K", x) BY <2>1
      <4>2. x = c \/ x = Other(c) BY <1>1, Sides
      <4>3. b[t].color = x BY <4>1, PieceIs
      <4> QED BY <4>1, <4>2, <4>3 DEF Goes, Owns, Stands
    <3>2. k \in DOMAIN b2 /\ b2[k] = Piece("K", x) BY <1>6, <2>1, <2>3, <3>1
    <3>3. b2[t] # Piece("K", x)
      <4> SUFFICES ASSUME b2[t] = Piece("K", x) PROVE FALSE OBVIOUS
      <4>1. b[s] = Piece("K", x) BY <1>2, <1>4, PieceIs
      <4> QED BY <1>2, <2>1, <2>3, <4>1
    <3>4. \A q \in DOMAIN b2 : b2[q] = Piece("K", x) => q = k BY <1>5, <2>1, <3>3
    <3> QED BY <3>2, <3>4
  <2> QED BY <2>2, <2>3
<1> QED BY <1>7 DEF OneKingEach

LEMMA PawnsStay ==
    ASSUME NEW p, IsPosition(p), SoundPosition(p), NEW m, Goes(p, m), NEW b2, Turned(p, m, b2)
    PROVE  PawnsInside(b2)
<1> SUFFICES ASSUME NEW q \in DOMAIN b2, b2[q].type = "P" PROVE q[2] \in 1..6 BY DEF PawnsInside
<1>1. CASE q = m.to BY <1>1, PieceLands
<1>2. CASE q # m.to
  <2>1. q \in DOMAIN p.board /\ p.board[q] = b2[q] BY <1>2, PieceIs DEF Turned
  <2> QED BY <2>1 DEF SoundPosition, PawnsInside
<1> QED BY <1>1, <1>2

\* Every right hangs on the two squares it names.
LEMMA RightsAtHome ==
    ASSUME NEW c \in Colors, NEW side \in {"king", "queen"}
    PROVE  /\ <<c, side>> \in RightsOn(<<4, Rank(c, 0)>>)
           /\ <<c, side>> \in RightsOn(<<IF side = "king" THEN 7 ELSE 0, Rank(c, 0)>>)
<1>1. RightsOn(<<4, 0>>) = {<<"white", "king">>, <<"white", "queen">>} BY DEF RightsOn
<1>2. RightsOn(<<7, 0>>) = {<<"white", "king">>} BY DEF RightsOn
<1>3. RightsOn(<<0, 0>>) = {<<"white", "queen">>} BY DEF RightsOn
<1>4. RightsOn(<<4, 7>>) = {<<"black", "king">>, <<"black", "queen">>} BY DEF RightsOn
<1>5. RightsOn(<<7, 7>>) = {<<"black", "king">>} BY DEF RightsOn
<1>6. RightsOn(<<0, 7>>) = {<<"black", "queen">>} BY DEF RightsOn
<1>7. CASE c = "white"
  <2>1. Rank(c, 0) = 0 BY <1>7 DEF Rank
  <2> QED BY <1>1, <1>2, <1>3, <1>7, <2>1
<1>8. CASE c = "black"
  <2>1. Rank(c, 0) = 7 BY <1>8 DEF Rank
  <2> QED BY <1>4, <1>5, <1>6, <1>8, <2>1
<1> QED BY <1>7, <1>8 DEF Colors

\* touch strikes the rights of every home square that a move leaves or enters.
LEMMA RightsStay ==
    ASSUME NEW p, IsPosition(p), SoundPosition(p), NEW m, Goes(p, m), NEW q, Turned(p, m, q.board),
           q.rights = p.rights \ UNION {RightsOn(s) : s \in Touched(m)}
    PROVE  RightsStand(q)
<1> DEFINE b == p.board  b2 == q.board  s == m.from  t == m.to
<1> SUFFICES ASSUME NEW x \in q.rights
             PROVE  /\ Stands(b2, <<4, Rank(x[1], 0)>>, "K", x[1])
                    /\ Stands(b2, <<IF x[2] = "king" THEN 7 ELSE 0, Rank(x[1], 0)>>, "R", x[1])
  BY DEF RightsStand
<1>1. x \in p.rights /\ x \notin RightsOn(s) /\ x \notin RightsOn(t) BY DEF Touched
<1>2. x[1] \in Colors /\ x[2] \in {"king", "queen"} /\ x = <<x[1], x[2]>> /\ p.turn \in Colors
  BY <1>1 DEF IsPosition
<1> DEFINE h == <<4, Rank(x[1], 0)>>  g == <<IF x[2] = "king" THEN 7 ELSE 0, Rank(x[1], 0)>>
<1>3. Stands(b, h, "K", x[1]) /\ Stands(b, g, "R", x[1]) BY <1>1 DEF SoundPosition, RightsStand
<1>4. x \in RightsOn(h) /\ x \in RightsOn(g)
  <2>1. <<x[1], x[2]>> \in RightsOn(h) /\ <<x[1], x[2]>> \in RightsOn(g) BY <1>2, RightsAtHome
  <2> QED BY <1>2, <2>1
<1>5. h \in DOMAIN b \ {s, t} /\ g \in DOMAIN b \ {s, t} BY <1>1, <1>3, <1>4 DEF Stands
<1>6. b[h] = Piece("K", x[1]) /\ b[g] = Piece("R", x[1]) BY <1>3 DEF Stands
<1>7. h \in DOMAIN b2 /\ b2[h] = b[h] BY <1>5, <1>6, PieceIs DEF Turned
\* A castled rook leaves with its king, whose square is the other one.
<1>8. g \in DOMAIN b2 /\ b2[g] = b[g]
  <2>1. b[g] # Piece("P", Other(p.turn)) BY <1>6, PieceIs
  <2>2. ~(b[g] = Piece("R", p.turn) /\ s = <<4, Rank(p.turn, 0)>>)
    <3> SUFFICES ASSUME b[g] = Piece("R", p.turn), s = <<4, Rank(p.turn, 0)>> PROVE FALSE OBVIOUS
    <3>1. x[1] = p.turn BY <1>6, PieceIs
    <3> QED BY <1>5, <3>1
  <2> HIDE DEF g
  <2> QED BY <1>5, <2>1, <2>2 DEF Turned
<1> QED BY <1>6, <1>7, <1>8 DEF Stands

\* A new en-passant square lies empty behind the pawn just pushed.
LEMMA PassedStands ==
    ASSUME NEW p, IsPosition(p), NEW m, Goes(p, m), NEW q, Turned(p, m, q.board),
           q.turn = Other(p.turn), q.enPassant = NewEnPassant(p.board, m)
    PROVE  EnPassantStands(q) /\ q.enPassant \in Cells \cup {NoSquare}
<1> DEFINE b == p.board  s == m.from  t == m.to  e == q.enPassant
<1> SUFFICES ASSUME e # NoSquare
             PROVE  e \in Cells /\ e \notin DOMAIN q.board
                    /\ Stands(q.board, Step(e, <<0, Forward(Other(q.turn))>>, 1), "P", Other(q.turn))
  BY DEF EnPassantStands
<1>1. p.turn \in Colors BY DEF IsPosition
<1>2. Other(q.turn) = p.turn BY <1>1, Sides
<1>3. b[s].type = "P" /\ m.promo = Empty /\ Doubled(p, s, t) BY DEF Goes
<1>4. e = <<s[1], (s[2] + t[2]) \div 2>>
  <2>1. Distance(t[2], s[2]) = 2 BY DEF NewEnPassant
  <2>2. (s[2] + t[2]) = (s[2] + t[2]) OBVIOUS
  <2> QED BY <2>1 DEF NewEnPassant
<1>5. e \in Cells /\ e \notin DOMAIN b /\ e # t /\ Step(e, <<0, Forward(p.turn)>>, 1) = t
  BY <1>3, <1>4 DEF Doubled
<1>6. e \notin DOMAIN q.board BY <1>3, <1>5 DEF Turned
<1>7. q.board[t] = Piece("P", p.turn) /\ t \in DOMAIN q.board
  <2>1. q.board[t] = b[s] /\ t \in DOMAIN q.board BY <1>3 DEF Turned
  <2>2. q.board[t] = Piece(q.board[t].type, p.turn) BY PieceLands
  <2> QED BY <1>3, <2>1, <2>2
<1> QED BY <1>2, <1>5, <1>6, <1>7 DEF Stands

Men == [type : Officers \cup {"K", "P"}, color : Colors]

LEMMA StillPosition ==
    ASSUME NEW p, IsPosition(p), NEW m, Goes(p, m)
    PROVE  IsPosition(Apply(p, m))
<1> DEFINE q == Apply(p, m)  b2 == q.board
<1>1. /\ q = [board |-> q.board, turn |-> q.turn, rights |-> q.rights, enPassant |-> q.enPassant,
              halfMove |-> q.halfMove]
      /\ q.turn = Other(p.turn) /\ q.enPassant = NewEnPassant(p.board, m)
      /\ q.rights \subseteq p.rights /\ (q.halfMove = 0 \/ q.halfMove = p.halfMove + 1)
  BY DEF Apply
<1>2. Turned(p, m, b2) BY BoardAfter
<1> HIDE DEF q
<1>3. p.turn \in Colors /\ p.halfMove \in Nat /\ p.rights \subseteq Colors \X {"king", "queen"} BY DEF IsPosition
<1>4. Other(p.turn) \in Colors BY <1>3, Sides
<1>5. q.enPassant \in Cells \cup {NoSquare} BY <1>1, <1>2, PassedStands
<1>6. ASSUME NEW x \in DOMAIN b2
      PROVE  x \in Cells /\ b2[x] = Piece(b2[x].type, b2[x].color)
             /\ b2[x].type \in Officers \cup {"K", "P"} /\ b2[x].color \in Colors
  <2>1. CASE x = m.to
    <3>1. x \in Cells BY <2>1 DEF Goes
    <3> QED BY <1>2, <1>3, <2>1, <3>1, PieceLands
  <2>2. CASE x \in DOMAIN p.board /\ b2[x] = p.board[x] BY <2>2, OnTheBoard
  <2>3. CASE x \in Cells /\ b2[x] = Piece("R", p.turn)
    <3>1. b2[x].type = "R" /\ b2[x].color = p.turn BY <2>3, PieceIs
    <3> QED BY <1>3, <2>3, <3>1 DEF Officers
  <2> QED BY <1>2, <2>1, <2>2, <2>3 DEF Turned
<1>7. b2 \in [DOMAIN b2 -> Men]
  <2>1. PICK u : b2 = Without(u, {m.from}) BY DEF q, Apply
  <2> DEFINE f == [x \in DOMAIN b2 |-> b2[x]]
  <2>2. b2 = f
    <3>1. Without(u, {m.from}) = [x \in DOMAIN Without(u, {m.from}) |-> Without(u, {m.from})[x]]
      BY DEF Without, Restrict
    <3> QED BY <2>1, <3>1, Zenon
  <2>3. ASSUME NEW x \in DOMAIN b2 PROVE b2[x] \in Men
    <3>1. PICK ty \in Officers \cup {"K", "P"}, c \in Colors : b2[x] = Piece(ty, c) BY <1>6, Zenon
    <3> QED BY <3>1 DEF Piece, Men
  <2>4. f \in [DOMAIN b2 -> Men] BY <2>3
  <2> HIDE DEF f
  <2> QED BY <2>2, <2>4, Zenon
<1>8. q.turn \in Colors /\ q.rights \subseteq Colors \X {"king", "queen"} /\ q.halfMove \in Nat
  BY <1>1, <1>3, <1>4
<1>9. DOMAIN q.board \subseteq Cells BY <1>6
<1>10. q.board \in [DOMAIN q.board -> [type : Officers \cup {"K", "P"}, color : Colors]]
  BY <1>7, Zenon DEF Men
<1>11. IsPosition(q) BY <1>1, <1>5, <1>8, <1>9, <1>10, Zenon DEF IsPosition
<1> QED BY <1>11 DEF q

\* Every move playGame accepts, applied by Apply.
LEMMA PlayKeeps ==
    ASSUME NEW p, IsPosition(p), SoundPosition(p), NEW m \in LegalMoves(p)
    PROVE  IsPosition(Apply(p, m)) /\ SoundPosition(Apply(p, m))
<1> DEFINE q == Apply(p, m)
<1>1. m \in pseudoMoves(p) /\ ~InCheck(q.board, p.turn) BY DEF LegalMoves
<1>2. Goes(p, m) BY <1>1, MoveGoes
<1>3. IsPosition(q) BY <1>2, StillPosition
<1>4. q.turn = Other(p.turn) /\ q.enPassant = NewEnPassant(p.board, m)
        /\ q.rights = p.rights \ UNION {RightsOn(s) : s \in Touched(m)}
  BY DEF Apply
<1>5. Turned(p, m, q.board) BY <1>2, BoardAfter
<1>6. p.turn \in Colors BY DEF IsPosition
<1> HIDE DEF q
<1>7. ~InCheck(q.board, Other(q.turn)) BY <1>1, <1>4, <1>6, Sides
<1>8. OneKingEach(q.board) /\ PawnsInside(q.board) BY <1>2, <1>5, KingsStay, PawnsStay
<1>9. RightsStand(q) BY <1>2, <1>4, <1>5, RightsStay
<1>10. EnPassantStands(q) BY <1>2, <1>4, <1>5, PassedStands
<1> QED BY <1>3, <1>7, <1>8, <1>9, <1>10 DEF SoundPosition, q

-----------------------------------------------------------------------------
\* Inductive: without its types, a board could hold what no move expects.
RulesInv == pos = Unset \/ (IsPosition(pos) /\ SoundPosition(pos))

LEMMA RulesInvariant == RulesSpec => []RulesInv
<1>1. RulesInit => RulesInv BY DEF RulesInit, RulesInv
<1>2. ASSUME RulesInv, [RulesNext]_rulesVars PROVE RulesInv'
  <2>1. CASE SetUp
    <3>1. PICK e \in Start : pos' = e.pos BY <2>1 DEF SetUp
    <3> QED BY <3>1, RulesAssumption DEF RulesInv
  <2>2. CASE Play
    <3>1. PICK m \in LegalMoves(pos) : pos' = Apply(pos, m) BY <2>2 DEF Play
    <3>2. IsPosition(pos) /\ SoundPosition(pos) BY <1>2, <2>2 DEF RulesInv, Play
    <3>3. IsPosition(Apply(pos, m)) /\ SoundPosition(Apply(pos, m)) BY <3>2, PlayKeeps
    <3> QED BY <3>1, <3>3 DEF RulesInv
  <2>3. CASE UNCHANGED rulesVars BY <1>2, <2>3 DEF rulesVars, RulesInv
  <2> QED BY <1>2, <2>1, <2>2, <2>3 DEF RulesNext
<1> QED BY <1>1, <1>2, PTL DEF RulesSpec

\* From any sound start, any line of legal play keeps one king each, no side
\* leaves its king to be taken, no pawn reaches a rank it cannot stand on, and
\* the rights and the en-passant square name pieces that stand where they say.
THEOREM PositionStaysSound == RulesSpec => []PositionIsSound
<1>1. RulesInv => PositionIsSound BY DEF RulesInv, PositionIsSound
<1> QED BY <1>1, RulesInvariant, PTL

-----------------------------------------------------------------------------
\* The chess engine: what a move is written as

\* Two pawns that reach a square by the same file, taking or not, are one.
LEMMA OnePawn ==
    ASSUME NEW p, IsPosition(p), NEW s \in DOMAIN p.board, NEW u \in DOMAIN p.board, NEW t \in Cells,
           Stands(p.board, s, "P", p.turn), Stands(p.board, u, "P", p.turn),
           CameBy(p, s, t), CameBy(p, u, t),
           t \in DOMAIN p.board \/ t = p.enPassant => s[1] = u[1]
    PROVE  s = u
<1>1. PICK F \in {-1, 1} : Forward(p.turn) = F BY Sides DEF IsPosition
<1>2. PICK i \in 0..7, j \in 0..7 : s = <<i, j>> BY OnTheBoard, CellIs
<1>3. PICK k \in 0..7, l \in 0..7 : u = <<k, l>> BY OnTheBoard, CellIs
<1>4. PICK x \in 0..7, y \in 0..7 : t = <<x, y>> BY CellIs
<1>5. CASE t \in DOMAIN p.board \/ t = p.enPassant
  <2>1. j = y - F /\ l = y - F BY <1>1, <1>2, <1>3, <1>4, <1>5 DEF CameBy
  <2> QED BY <1>2, <1>3, <1>5, <2>1
<1>6. CASE t \notin DOMAIN p.board /\ t # p.enPassant
  <2>1. i = x /\ (j = y - F \/ (j = y - 2 * F /\ <<x, y - F>> \notin DOMAIN p.board))
    BY <1>1, <1>2, <1>4, <1>6 DEF CameBy
  <2>2. k = x /\ (l = y - F \/ (l = y - 2 * F /\ <<x, y - F>> \notin DOMAIN p.board))
    BY <1>1, <1>3, <1>4, <1>6 DEF CameBy
  <2> QED BY <1>2, <1>3, <2>1, <2>2
<1> QED BY <1>5, <1>6

\* What tells two rivals apart: each is among the other's rivals.
LEMMA DisambTells ==
    ASSUME NEW s, NEW u, NEW S, NEW U, u # s => u \in S /\ s \in U, Disamb(s, S) = Disamb(u, U),
           s = <<s[1], s[2]>>, u = <<u[1], u[2]>>
    PROVE  s = u
<1> SUFFICES ASSUME s # u PROVE FALSE OBVIOUS
<1>1. u \in S /\ s \in U OBVIOUS
<1>2. \/ Disamb(s, S) = <<"file", s[1]>> /\ \A r \in S : r[1] # s[1]
      \/ Disamb(s, S) = <<"rank", s[2]>> /\ \A r \in S : r[2] # s[2]
      \/ Disamb(s, S) = <<"square", s>>
  BY <1>1 DEF Disamb
<1>3. \/ Disamb(u, U) = <<"file", u[1]>> /\ \A r \in U : r[1] # u[1]
      \/ Disamb(u, U) = <<"rank", u[2]>> /\ \A r \in U : r[2] # u[2]
      \/ Disamb(u, U) = <<"square", u>>
  BY <1>1 DEF Disamb
<1> QED BY <1>1, <1>2, <1>3

\* Moves that are written alike are the same move.
LEMMA WrittenApart ==
    ASSUME NEW p, IsPosition(p), SoundPosition(p), NEW m \in LegalMoves(p), NEW n \in LegalMoves(p),
           SAN(p, LegalMoves(p), m) = SAN(p, LegalMoves(p), n)
    PROVE  m = n
<1> DEFINE b == p.board  L == LegalMoves(p)
           taken(x) == x.to \in DOMAIN b \/ IsEnPassant(p, x)
           rivals(x) == {o.from : o \in {y \in L :
                            y.to = x.to /\ y.from # x.from /\ b[y.from].type = b[x.from].type}}
<1>1. m \in pseudoMoves(p) /\ n \in pseudoMoves(p) BY DEF LegalMoves
<1>2. Goes(p, m) /\ Goes(p, n) BY <1>1, MoveGoes
<1>3. m = Move(m.from, m.to, m.promo) /\ n = Move(n.from, n.to, n.promo) BY <1>1, MoveIs
<1>4. ASSUME NEW x \in L, Goes(p, x)
      PROVE  /\ IsCastling(b, x) => SAN(p, L, x) = <<IF x.to[1] = 6 THEN "O-O" ELSE "O-O-O">>
             /\ ~IsCastling(b, x) /\ b[x.from].type = "P" =>
                    SAN(p, L, x) = <<IF taken(x) THEN <<x.from[1]>> ELSE <<>>, x.to, x.promo>>
             /\ ~IsCastling(b, x) /\ b[x.from].type # "P" =>
                    SAN(p, L, x) = <<b[x.from].type, Disamb(x.from, rivals(x)), taken(x), x.to>>
  <2> HIDE DEF L
  <2>1. ASSUME IsCastling(b, x) PROVE SAN(p, L, x) = <<IF x.to[1] = 6 THEN "O-O" ELSE "O-O-O">>
    BY <2>1 DEF SAN
  <2>2. ASSUME ~IsCastling(b, x), b[x.from].type = "P"
        PROVE  SAN(p, L, x) = <<IF taken(x) THEN <<x.from[1]>> ELSE <<>>, x.to, x.promo>>
    BY <2>2 DEF SAN
  <2>3. ASSUME ~IsCastling(b, x), b[x.from].type # "P"
        PROVE  SAN(p, L, x) = <<b[x.from].type, Disamb(x.from, rivals(x)), taken(x), x.to>>
    BY <2>3, Zenon DEF SAN
  <2> QED BY <2>1, <2>2, <2>3
<1> HIDE DEF taken, rivals, L
<1>5. m.from \in DOMAIN b /\ n.from \in DOMAIN b /\ m.to \in Cells /\ n.to \in Cells BY <1>2 DEF Goes
<1>6. CASE IsCastling(b, m) /\ IsCastling(b, n)
  <2>1. (m.to[1] = 6) <=> (n.to[1] = 6) BY <1>2, <1>4, <1>6 DEF L
  <2>2. Castles(p, m.from, m.to) /\ Castles(p, n.from, n.to) BY <1>2, <1>6 DEF Goes
  <2>3. m.from = n.from /\ m.to = n.to BY <2>1, <2>2 DEF Castles
  <2>4. m.promo = Empty /\ n.promo = Empty BY <1>2, <1>6 DEF Goes, IsCastling
  <2> QED BY <1>3, <2>3, <2>4
<1>7. CASE /\ ~IsCastling(b, m) /\ b[m.from].type = "P"
           /\ ~IsCastling(b, n) /\ b[n.from].type = "P"
  <2>1. <<IF taken(m) THEN <<m.from[1]>> ELSE <<>>, m.to, m.promo>>
          = <<IF taken(n) THEN <<n.from[1]>> ELSE <<>>, n.to, n.promo>>
    BY <1>2, <1>4, <1>7 DEF L
  <2>2. /\ m.to = n.to /\ m.promo = n.promo
        /\ (IF taken(m) THEN <<m.from[1]>> ELSE <<>>) = (IF taken(n) THEN <<n.from[1]>> ELSE <<>>)
    BY <2>1
  <2>3. (taken(m) <=> m.to \in DOMAIN b \/ m.to = p.enPassant)
          /\ (taken(n) <=> n.to \in DOMAIN b \/ n.to = p.enPassant)
    BY <1>7 DEF taken, IsEnPassant
  <2>4. taken(m) => m.from[1] = n.from[1] BY <2>2, <2>3
  <2>5. CameBy(p, m.from, m.to) /\ CameBy(p, n.from, m.to) BY <1>1, <1>7, <2>2, MoveIs
  <2>6. Stands(b, m.from, "P", p.turn) /\ Stands(b, n.from, "P", p.turn)
    <3>1. Owns(b, m.from, p.turn) /\ Owns(b, n.from, p.turn) BY <1>2 DEF Goes
    <3> QED BY <1>5, <1>7, <3>1, OnTheBoard DEF Stands, Owns
  <2>7. m.from = n.from BY <1>5, <2>3, <2>4, <2>5, <2>6, OnePawn
  <2> QED BY <1>3, <2>2, <2>7
<1>8. CASE /\ ~IsCastling(b, m) /\ b[m.from].type # "P"
           /\ ~IsCastling(b, n) /\ b[n.from].type # "P"
  <2>1. /\ b[m.from].type = b[n.from].type /\ m.to = n.to
        /\ Disamb(m.from, rivals(m)) = Disamb(n.from, rivals(n))
    BY <1>2, <1>4, <1>8 DEF L
  <2>2. n.from # m.from => n.from \in rivals(m) /\ m.from \in rivals(n) BY <2>1 DEF rivals, L
  <2>3. m.from = <<m.from[1], m.from[2]>> /\ n.from = <<n.from[1], n.from[2]>>
    BY <1>5, OnTheBoard, CellIs
  <2>4. m.from = n.from BY <2>1, <2>2, <2>3, DisambTells
  <2>5. m.promo = Empty /\ n.promo = Empty BY <1>2, <1>8 DEF Goes
  <2> QED BY <1>3, <2>1, <2>4, <2>5
\* One part, three or four: castling, a pawn, an officer.
<1>9. ASSUME NEW x \in L, Goes(p, x)
      PROVE  /\ IsCastling(b, x) => Len(SAN(p, L, x)) = 1
             /\ ~IsCastling(b, x) /\ b[x.from].type = "P" => Len(SAN(p, L, x)) = 3
             /\ ~IsCastling(b, x) /\ b[x.from].type # "P" => Len(SAN(p, L, x)) = 4
  <2>1. \A u, v, w, z : Len(<<u>>) = 1 /\ Len(<<u, v, w>>) = 3 /\ Len(<<u, v, w, z>>) = 4 OBVIOUS
  <2> QED BY <1>4, <1>9, <2>1
<1>10. Len(SAN(p, L, m)) = Len(SAN(p, L, n)) BY DEF L
<1>11. /\ IsCastling(b, m) <=> IsCastling(b, n)
       /\ ~IsCastling(b, m) => (b[m.from].type = "P" <=> b[n.from].type = "P")
  BY <1>2, <1>9, <1>10 DEF L
<1> QED BY <1>6, <1>7, <1>8, <1>11

\* There are finitely many moves: they are told by two squares and a letter.
LEMMA MovesAreFinite ==
    ASSUME NEW p, IsPosition(p), SoundPosition(p)
    PROVE  IsFiniteSet(LegalMoves(p))
<1> DEFINE L == LegalMoves(p)  promos == {"Q", "R", "B", "N", "none"}
           W == (Cells \X Cells) \X promos
           f == [m \in L |-> <<<<m.from, m.to>>, m.promo>>]
<1>1. ASSUME NEW m \in L
      PROVE  m = Move(m.from, m.to, m.promo) /\ m.from \in Cells /\ m.to \in Cells /\ m.promo \in promos
  <2>1. m \in pseudoMoves(p) BY DEF LegalMoves
  <2>2. Goes(p, m) BY <2>1, MoveGoes
  <2>3. m.from \in Cells BY <2>2, OnTheBoard DEF Goes
  <2> QED BY <2>1, <2>2, <2>3, MoveIs DEF Goes, Officers, Empty
<1>2. IsFiniteSet(W)
  <2>1. IsFiniteSet(0..7)
    <3>1. 0 \in Int /\ 7 \in Int OBVIOUS
    <3> QED BY <3>1, FS_Interval, Zenon
  <2>2. IsFiniteSet(Cells) BY <2>1, FS_Product DEF Cells
  <2>3. IsFiniteSet(promos)
    <3>1. IsFiniteSet({}) BY FS_EmptySet
    <3>2. IsFiniteSet({} \cup {"Q"}) BY <3>1, FS_AddElement
    <3>3. IsFiniteSet(({} \cup {"Q"}) \cup {"R"}) BY <3>2, FS_AddElement
    <3>4. IsFiniteSet((({} \cup {"Q"}) \cup {"R"}) \cup {"B"}) BY <3>3, FS_AddElement
    <3>5. IsFiniteSet(((({} \cup {"Q"}) \cup {"R"}) \cup {"B"}) \cup {"N"}) BY <3>4, FS_AddElement
    <3>6. IsFiniteSet((((({} \cup {"Q"}) \cup {"R"}) \cup {"B"}) \cup {"N"}) \cup {"none"})
      BY <3>5, FS_AddElement
    <3>7. (((({} \cup {"Q"}) \cup {"R"}) \cup {"B"}) \cup {"N"}) \cup {"none"} = promos OBVIOUS
    <3> QED BY <3>6, <3>7
  <2>4. IsFiniteSet(Cells \X Cells) BY <2>2, FS_Product
  <2> HIDE DEF promos
  <2> QED BY <2>3, <2>4, FS_Product
<1>3. f \in Injection(L, W)
  <2> HIDE DEF L, promos
  <2>1. f \in [L -> W]
    <3>1. \A m \in L : <<<<m.from, m.to>>, m.promo>> \in W BY <1>1
    <3> QED BY <3>1, Zenon
  <2>2. ASSUME NEW m \in L, NEW n \in L, f[m] = f[n] PROVE m = n
    <3>1. m.from = n.from /\ m.to = n.to /\ m.promo = n.promo BY <2>2
    <3> QED BY <1>1, <3>1
  <2> QED BY <2>1, <2>2 DEF Injection, IsInjective
<1> HIDE DEF f, W
<1> QED BY <1>2, <1>3, FS_Injection

\* What is stored is read back as the move that was made.
LEMMA ReadBack ==
    ASSUME NEW p, IsPosition(p), SoundPosition(p), NEW m \in LegalMoves(p)
    PROVE  /\ ParseMove(LegalMoves(p), Format(m)) = {m}
           /\ IsCastling(p.board, m) => ParseCastling(p, LegalMoves(p), m.to[1]) = {m}
<1> DEFINE L == LegalMoves(p)
<1>1. ASSUME NEW x \in L
      PROVE  x = Move(x.from, x.to, x.promo) /\ Goes(p, x) /\ x.promo \in {"Q", "R", "B", "N", "none"}
  <2>1. x \in pseudoMoves(p) BY DEF LegalMoves
  <2>2. Goes(p, x) BY <2>1, MoveGoes
  <2> QED BY <2>1, <2>2, MoveIs DEF Goes, Officers, Empty
<1>2. ASSUME NEW x \in L, Format(x) = Format(m) PROVE x = m
  <2>1. x.from = m.from /\ x.to = m.to /\ Format(x).suffix = Format(m).suffix BY <1>2 DEF Format
  <2>2. \A y : Format(y).suffix = IF y.promo = "none" THEN "none" ELSE Lower[y.promo]
    BY DEF Format, Empty
  <2>3. Lower["Q"] = "q" /\ Lower["R"] = "r" /\ Lower["B"] = "b" /\ Lower["N"] = "n" BY DEF Lower
  <2>4. x.promo = m.promo BY <1>1, <2>1, <2>2, <2>3
  <2> QED BY <1>1, <2>1, <2>4
<1>3. ParseMove(L, Format(m)) = {m}
  <2>1. {x \in L : Format(x) = Format(m)} = {m} BY <1>2
  <2>2. {m} # {} OBVIOUS
  <2> HIDE DEF L
  <2> QED BY <2>1, <2>2, Zenon DEF ParseMove
<1>4. ASSUME IsCastling(p.board, m) PROVE ParseCastling(p, L, m.to[1]) = {m}
  <2>1. Goes(p, m) BY <1>1
  <2>2. Castles(p, m.from, m.to) /\ m.promo = Empty BY <1>4, <2>1 DEF Goes, IsCastling
  <2>3. m.from = <<4, Rank(p.turn, 0)>> /\ m.to = <<m.to[1], Rank(p.turn, 0)>> BY <2>2 DEF Castles
  <2>4. m = Move(<<4, Rank(p.turn, 0)>>, <<m.to[1], Rank(p.turn, 0)>>, Empty) BY <1>1, <2>2, <2>3
  <2> QED BY <2>4 DEF ParseCastling
<1> QED BY <1>3, <1>4

\* From any sound start, in every position play can reach: the notation names
\* each legal move apart from every other, the stored move list replays to the
\* game that was played, and castling read in its own words is that castling.
THEOREM EveryMoveHasItsName == RulesSpec => []NotationTellsMovesApart
<1> SUFFICES ASSUME RulesInv PROVE NotationTellsMovesApart BY RulesInvariant, PTL
<1> SUFFICES ASSUME pos # Unset
             PROVE  /\ Cardinality({SAN(pos, LegalMoves(pos), m) : m \in LegalMoves(pos)})
                          = Cardinality(LegalMoves(pos))
                    /\ \A m \in LegalMoves(pos) : ParseMove(LegalMoves(pos), Format(m)) = {m}
                    /\ \A m \in LegalMoves(pos) :
                          IsCastling(pos.board, m) => ParseCastling(pos, LegalMoves(pos), m.to[1]) = {m}
  BY DEF NotationTellsMovesApart
<1>1. IsPosition(pos) /\ SoundPosition(pos) BY DEF RulesInv
<1> DEFINE L == LegalMoves(pos)  T == {SAN(pos, L, m) : m \in L}  f == [m \in L |-> SAN(pos, L, m)]
<1>2. IsFiniteSet(L) BY <1>1, MovesAreFinite
<1>3. \A m, n \in L : SAN(pos, L, m) = SAN(pos, L, n) => m = n BY <1>1, WrittenApart
<1>4. \A m \in L : /\ ParseMove(L, Format(m)) = {m}
                   /\ IsCastling(pos.board, m) => ParseCastling(pos, L, m.to[1]) = {m}
  BY <1>1, ReadBack
<1> HIDE DEF L
<1>5. f \in [L -> T] /\ \A m \in L : f[m] = SAN(pos, L, m) OBVIOUS
<1>6. \A t \in T : \E m \in L : f[m] = t OBVIOUS
<1> HIDE DEF f, T
<1>7. f \in Surjection(L, T) BY <1>5, <1>6 DEF Surjection
<1>8. f \in Injection(L, T) BY <1>3, <1>5 DEF Injection, IsInjective
<1>9. Cardinality(T) = Cardinality(L) BY <1>2, <1>7, <1>8, FS_Surjection
<1> QED BY <1>4, <1>9 DEF L, T
=============================================================================

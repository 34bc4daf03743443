--------------------------- MODULE ChessPositions ---------------------------
(* The positions of TestPerft that stress one rule each, and small endings  *)
(* in which castling, promotion, en passant or a dead draw is a move away.  *)
EXTENDS ChessRules, TLC

Pieces == [P |-> Piece("P", "white"), N |-> Piece("N", "white"), B |-> Piece("B", "white"),
           R |-> Piece("R", "white"), Q |-> Piece("Q", "white"), K |-> Piece("K", "white"),
           p |-> Piece("P", "black"), n |-> Piece("N", "black"), b |-> Piece("B", "black"),
           r |-> Piece("R", "black"), q |-> Piece("Q", "black"), k |-> Piece("K", "black")]

\* A full board, rank 8 first, "-" for a vacant square.
FromRows(rows) ==
    LET at(s) == rows[8 - s[2]][s[1] + 1]
    IN [s \in {q \in (0..7) \X (0..7) : at(q) # "-"} |-> Pieces[at(s)]]

Position(board, turn, rights) ==
    [board |-> board, turn |-> turn, rights |-> rights, enPassant |-> NoSquare, halfMove |-> 0]

AllRights == {"white", "black"} \X {"king", "queen"}

StartPos == Position(FromRows(<<
    <<"r","n","b","q","k","b","n","r">>, <<"p","p","p","p","p","p","p","p">>,
    <<"-","-","-","-","-","-","-","-">>, <<"-","-","-","-","-","-","-","-">>,
    <<"-","-","-","-","-","-","-","-">>, <<"-","-","-","-","-","-","-","-">>,
    <<"P","P","P","P","P","P","P","P">>, <<"R","N","B","Q","K","B","N","R">> >>), "white", AllRights)

Kiwipete == Position(FromRows(<<
    <<"r","-","-","-","k","-","-","r">>, <<"p","-","p","p","q","p","b","-">>,
    <<"b","n","-","-","p","n","p","-">>, <<"-","-","-","P","N","-","-","-">>,
    <<"-","p","-","-","P","-","-","-">>, <<"-","-","N","-","-","Q","-","p">>,
    <<"P","P","P","B","B","P","P","P">>, <<"R","-","-","-","K","-","-","R">> >>), "white", AllRights)

\* TestPerft's position 3: en-passant captures that uncover a rook on the rank.
Pinned == Position(
    <<0,4>> :> Pieces["K"] @@ <<1,4>> :> Pieces["P"] @@ <<7,4>> :> Pieces["r"] @@
    <<1,3>> :> Pieces["R"] @@ <<5,3>> :> Pieces["p"] @@ <<7,3>> :> Pieces["k"] @@
    <<2,6>> :> Pieces["p"] @@ <<3,5>> :> Pieces["p"] @@ <<4,1>> :> Pieces["P"] @@
    <<6,1>> :> Pieces["P"], "white", {})

\* Rooks that can take each other while all rights stand.
Rooks == Position(
    <<0,0>> :> Pieces["R"] @@ <<4,0>> :> Pieces["K"] @@ <<7,0>> :> Pieces["R"] @@
    <<0,7>> :> Pieces["r"] @@ <<4,7>> :> Pieces["k"] @@ <<7,7>> :> Pieces["r"],
    "white", AllRights)

\* Pawns about to promote, one by capture.
Promotion == Position(
    <<4,0>> :> Pieces["K"] @@ <<0,6>> :> Pieces["P"] @@ <<1,7>> :> Pieces["n"] @@
    <<7,4>> :> Pieces["k"] @@ <<6,1>> :> Pieces["p"], "white", {})

\* Three knights that reach one square, to be told apart by file, rank or both.
Knights == Position(
    <<0,0>> :> Pieces["K"] @@ <<1,2>> :> Pieces["N"] @@ <<1,4>> :> Pieces["N"] @@
    <<5,2>> :> Pieces["N"] @@ <<7,7>> :> Pieces["k"], "white", {})

\* Bishops on squares of one colour (dead) and of both (a mate is a move away).
DeadBishopsPos == Position(
    <<1,5>> :> Pieces["K"] @@ <<3,4>> :> Pieces["B"] @@ <<0,7>> :> Pieces["k"] @@
    <<2,7>> :> Pieces["b"], "black", {})
LiveBishopsPos == Position(
    <<1,5>> :> Pieces["K"] @@ <<3,2>> :> Pieces["B"] @@ <<0,7>> :> Pieces["k"] @@
    <<1,7>> :> Pieces["b"], "white", {})

MCPublished == {[pos |-> StartPos, one |-> 20, two |-> 400],
                [pos |-> Kiwipete, one |-> 48, two |-> 2039],
                [pos |-> Pinned,   one |-> 14, two |-> 191]}

MCStart ==
    {[pos |-> StartPos,       plies |-> 1], [pos |-> Kiwipete,       plies |-> 1],
     [pos |-> Pinned,         plies |-> 2], [pos |-> Rooks,          plies |-> 2],
     [pos |-> Promotion,      plies |-> 2], [pos |-> Knights,        plies |-> 1],
     [pos |-> DeadBishopsPos, plies |-> 3], [pos |-> LiveBishopsPos, plies |-> 1]}
=============================================================================

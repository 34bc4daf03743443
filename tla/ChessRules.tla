----------------------------- MODULE ChessRules -----------------------------
(***************************************************************************)
(* The chess engine, internal/games/chess/engine.go and notation.go: a     *)
(* position, the moves it allows, the position after a move, its status,   *)
(* and the text a move is written as and read back from.                   *)
(*                                                                         *)
(* A square is <<file, rank>>, both 0..7.  A board is a function on its    *)
(* occupied squares; the mailbox of the code marks the others Empty.       *)
(***************************************************************************)
EXTENDS Integers, FiniteSets, FiniteSetsExt, Functions

CONSTANTS
    Start,      \* [pos, plies] : where play begins, and the bound on its moves
    Published,  \* [pos, one, two] : counts of the published perft tables
    Unset       \* no position is set up

VARIABLES
    pos,    \* Position, Unset before the run sets one up
    left    \* how many moves may still be played in this run

rulesVars == <<pos, left>>

Officers == {"Q", "R", "B", "N"}
Empty == "none"     \* no piece and no letter: a move that promotes nothing

Other(c) == IF c = "white" THEN "black" ELSE "white"

NoSquare == <<-1, 0>>
OnBoard(s) == s[1] \in 0..7 /\ s[2] \in 0..7
Piece(t, c) == [type |-> t, color |-> c]
Stands(b, s, t, c) == s \in DOMAIN b /\ b[s] = Piece(t, c)
Owns(b, s, c) == s \in DOMAIN b /\ b[s].color = c
Rank(c, n) == IF c = "white" THEN n ELSE 7 - n      \* counted from c's side
Forward(c) == IF c = "white" THEN 1 ELSE -1
Distance(x, y) == IF x > y THEN x - y ELSE y - x

\* The square n steps from s in direction d.
Step(s, d, n) == <<s[1] + n * d[1], s[2] + n * d[2]>>

knightSteps == {<<1, 2>>, <<2, 1>>, <<2, -1>>, <<1, -2>>, <<-1, -2>>, <<-2, -1>>, <<-2, 1>>, <<-1, 2>>}
rookDirs    == {<<1, 0>>, <<-1, 0>>, <<0, 1>>, <<0, -1>>}
bishopDirs  == {<<1, 1>>, <<1, -1>>, <<-1, 1>>, <<-1, -1>>}
kingSteps   == rookDirs \cup bishopDirs

Steps(s, dirs) == {q \in {Step(s, d, 1) : d \in dirs} : OnBoard(q)}

\* The ray from s in direction d, up to and including the first piece.
Ray(b, s, d) == {Step(s, d, n) : n \in {k \in 1..7 :
                    /\ OnBoard(Step(s, d, k))
                    /\ \A i \in 1..(k - 1) : Step(s, d, i) \notin DOMAIN b}}
Rays(b, s, dirs) == UNION {Ray(b, s, d) : d \in dirs}

DirsOf(t) == CASE t = "B" -> bishopDirs [] t = "R" -> rookDirs [] t = "Q" -> kingSteps

Without(b, S) == Restrict(b, DOMAIN b \ S)
With(b, s, pc) == [q \in DOMAIN b \cup {s} |-> IF q = s THEN pc ELSE b[q]]

kingSquare(b, c) == IF \E s \in DOMAIN b : Stands(b, s, "K", c)
                    THEN CHOOSE s \in DOMAIN b : Stands(b, s, "K", c)
                    ELSE NoSquare

-----------------------------------------------------------------------------
\* Faulty variants, each told from the code by a property of the run

\* Rights die when king or rook moves, not when the rook is captured.
TouchedByMover(m) == {m.from}

\* A double push is not remembered as one.
NewEnPassantNever(b, m) == NoSquare

\* The rank is tried before the file.
DisambRankFirst(from, rivals) ==
    CASE rivals = {} -> <<>>
      [] \A r \in rivals : r[1] # from[1] -> <<"rank", from[2]>>
      [] OTHER -> <<"square", from>>

-----------------------------------------------------------------------------
\* Attack

IsAttacked(b, s, by) ==
    \/ \E df \in {-1, 1} : Stands(b, <<s[1] + df, s[2] - Forward(by)>>, "P", by)
    \/ \E q \in Steps(s, knightSteps) : Stands(b, q, "N", by)
    \/ \E q \in Steps(s, kingSteps) : Stands(b, q, "K", by)
    \/ \E q \in Rays(b, s, rookDirs) : Stands(b, q, "R", by) \/ Stands(b, q, "Q", by)
    \/ \E q \in Rays(b, s, bishopDirs) : Stands(b, q, "B", by) \/ Stands(b, q, "Q", by)

InCheck(b, c) == IsAttacked(b, kingSquare(b, c), Other(c))

-----------------------------------------------------------------------------
\* Moves

Move(s, t, promo) == [from |-> s, to |-> t, promo |-> promo]

\* appendPawn: a pawn that reaches the last rank becomes something else.
PawnTo(s, t) == {Move(s, t, pr) : pr \in IF t[2] \in {0, 7} THEN Officers ELSE {Empty}}

PawnMoves(p, s) ==
    LET one == Step(s, <<0, Forward(p.turn)>>, 1)
        two == Step(s, <<0, Forward(p.turn)>>, 2)
        pushes   == {t \in {one, two} : /\ one \notin DOMAIN p.board
                                        /\ t = two => /\ s[2] = Rank(p.turn, 1)
                                                      /\ two \notin DOMAIN p.board}
        captures == {t \in {<<one[1] - 1, one[2]>>, <<one[1] + 1, one[2]>>} :
                        OnBoard(t) /\ (Owns(p.board, t, Other(p.turn)) \/ t = p.enPassant)}
    IN UNION {PawnTo(s, t) : t \in pushes \cup captures}

\* Rights present, path empty, king neither in nor through check.
CastlingMoves(p, s) ==
    LET r == Rank(p.turn, 0)
        b == p.board
        safe(f) == ~IsAttacked(b, <<f, r>>, Other(p.turn))
        side(right, rookFile, path, walk, to) ==
            IF /\ <<p.turn, right>> \in p.rights
               /\ \A f \in path : <<f, r>> \notin DOMAIN b
               /\ Stands(b, <<rookFile, r>>, "R", p.turn)
               /\ \A f \in walk : safe(f)
            THEN {Move(s, <<to, r>>, Empty)} ELSE {}
    IN IF s = <<4, r>> /\ safe(4)
       THEN side("king", 7, {5, 6}, {5, 6}, 6) \cup side("queen", 0, {1, 2, 3}, {2, 3}, 2)
       ELSE {}

MovesFrom(p, s) ==
    LET b  == p.board
        to(targets) == {Move(s, t, Empty) : t \in {q \in targets : ~Owns(b, q, p.turn)}}
    IN CASE b[s].type = "P" -> PawnMoves(p, s)
         [] b[s].type = "N" -> to(Steps(s, knightSteps))
         [] b[s].type = "K" -> to(Steps(s, kingSteps)) \cup CastlingMoves(p, s)
         [] OTHER -> to(Rays(b, s, DirsOf(b[s].type)))

pseudoMoves(p) == UNION {MovesFrom(p, s) : s \in {q \in DOMAIN p.board : Owns(p.board, q, p.turn)}}

-----------------------------------------------------------------------------
\* Apply

IsCastling(b, m) == b[m.from].type = "K" /\ Distance(m.to[1], m.from[1]) = 2
IsEnPassant(p, m) == p.board[m.from].type = "P" /\ m.to = p.enPassant

\* The castled rook comes across the king.
RookAcross(b, m) ==
    LET r == m.from[2]
        from == IF m.to[1] = 6 THEN <<7, r>> ELSE <<0, r>>
        to   == IF m.to[1] = 6 THEN <<5, r>> ELSE <<3, r>>
    IN Without(With(b, to, b[from]), {from})

\* The square behind a pawn that has just been pushed twice.
NewEnPassant(b, m) ==
    IF b[m.from].type = "P" /\ Distance(m.to[2], m.from[2]) = 2
    THEN <<m.from[1], (m.from[2] + m.to[2]) \div 2>> ELSE NoSquare

\* touch: squares whose kings and rooks no longer stand unmoved.
Touched(m) == {m.from, m.to}
RightsOn(s) == CASE s = <<4, 0>> -> {<<"white", "king">>, <<"white", "queen">>}
                 [] s = <<7, 0>> -> {<<"white", "king">>}
                 [] s = <<0, 0>> -> {<<"white", "queen">>}
                 [] s = <<4, 7>> -> {<<"black", "king">>, <<"black", "queen">>}
                 [] s = <<7, 7>> -> {<<"black", "king">>}
                 [] s = <<0, 7>> -> {<<"black", "queen">>}
                 [] OTHER -> {}

Apply(p, m) ==
    LET pc == p.board[m.from]
        cleared == IF IsEnPassant(p, m) THEN Without(p.board, {<<m.to[1], m.from[2]>>}) ELSE p.board
        moved == IF IsCastling(p.board, m) THEN RookAcross(cleared, m) ELSE cleared
        placed == IF m.promo = Empty THEN pc ELSE Piece(m.promo, pc.color)
    IN [board     |-> Without(With(moved, m.to, placed), {m.from}),
        turn      |-> Other(p.turn),
        rights    |-> p.rights \ UNION {RightsOn(s) : s \in Touched(m)},
        enPassant |-> NewEnPassant(p.board, m),
        halfMove  |-> IF pc.type = "P" \/ m.to \in DOMAIN p.board THEN 0 ELSE p.halfMove + 1]

LegalMoves(p) == {m \in pseudoMoves(p) : ~InCheck(Apply(p, m).board, p.turn)}

-----------------------------------------------------------------------------
\* Status

DeadBishops(b, bishops) ==
    /\ {b[s].color : s \in bishops} = {"white", "black"}
    /\ Cardinality({(s[1] + s[2]) % 2 : s \in bishops}) = 1

insufficientMaterial(b) ==
    LET of(t) == {s \in DOMAIN b : b[s].type = t}
        minor == of("B") \cup of("N")
    IN /\ DOMAIN b = minor \cup of("K")
       /\ \/ Cardinality(minor) <= 1
          \/ Cardinality(minor) = 2 /\ of("N") = {} /\ DeadBishops(b, minor)

PositionStatus(p) ==
    CASE LegalMoves(p) = {} /\ InCheck(p.board, p.turn) -> "checkmate"
      [] LegalMoves(p) = {} /\ ~InCheck(p.board, p.turn) -> "stalemate"
      [] LegalMoves(p) # {} /\ p.halfMove >= 100 -> "drawFifty"
      [] LegalMoves(p) # {} /\ p.halfMove < 100 /\ insufficientMaterial(p.board) -> "drawMaterial"
      [] OTHER -> "ongoing"

-----------------------------------------------------------------------------
\* Notation

\* What tells a piece from the rivals of its kind that could go there too.
Disamb(from, rivals) ==
    CASE rivals = {} -> <<>>
      [] rivals # {} /\ \A r \in rivals : r[1] # from[1] -> <<"file", from[1]>>
      [] /\ \E r \in rivals : r[1] = from[1]
         /\ \A r \in rivals : r[2] # from[2] -> <<"rank", from[2]>>
      [] OTHER -> <<"square", from>>

\* SAN of a legal move, without the check and mate signs, which follow from it.
SAN(p, legal, m) ==
    LET t == p.board[m.from].type
        capture == m.to \in DOMAIN p.board \/ IsEnPassant(p, m)
        rivals  == {o.from : o \in {x \in legal :
                       x.to = m.to /\ x.from # m.from /\ p.board[x.from].type = t}}
    IN CASE IsCastling(p.board, m) -> <<IF m.to[1] = 6 THEN "O-O" ELSE "O-O-O">>
         [] ~IsCastling(p.board, m) /\ t = "P" ->
                <<IF capture THEN <<m.from[1]>> ELSE <<>>, m.to, m.promo>>
         [] OTHER -> <<t, Disamb(m.from, rivals), capture, m.to>>

\* Format: the stored form of a move, with a letter for the piece promoted to.
Lower == [Q |-> "q", R |-> "r", B |-> "b", N |-> "n"]
Format(m) == [from |-> m.from, to |-> m.to,
              suffix |-> IF m.promo = Empty THEN Empty ELSE Lower[m.promo]]

\* ParseMove on "o-o" and "o-o-o", and on coordinates; the set of results, {} for an error.
ParseCastling(p, legal, toFile) ==
    legal \cap {Move(<<4, Rank(p.turn, 0)>>, <<toFile, Rank(p.turn, 0)>>, Empty)}

ParseMove(legal, typed) ==
    LET named == {m \in legal : Format(m) = typed}
    IN IF named = {} /\ typed.suffix = Empty
       THEN legal \cap {Move(typed.from, typed.to, "Q")}
       ELSE named

-----------------------------------------------------------------------------
\* Positions

Colors == {"white", "black"}
Cells == (0..7) \X (0..7)

IsPosition(p) ==
    /\ p = [board |-> p.board, turn |-> p.turn, rights |-> p.rights, enPassant |-> p.enPassant,
            halfMove |-> p.halfMove]
    /\ DOMAIN p.board \subseteq Cells
    /\ p.board \in [DOMAIN p.board -> [type : Officers \cup {"K", "P"}, color : Colors]]
    /\ p.turn \in Colors /\ p.rights \subseteq Colors \X {"king", "queen"}
    /\ p.enPassant \in Cells \cup {NoSquare} /\ p.halfMove \in Nat

OneKingEach(b) == \A c \in Colors : \E k \in DOMAIN b : \A s \in DOMAIN b : b[s] = Piece("K", c) <=> s = k
PawnsInside(b) == \A s \in DOMAIN b : b[s].type = "P" => s[2] \in 1..6
RightsStand(p) ==
    \A x \in p.rights : /\ Stands(p.board, <<4, Rank(x[1], 0)>>, "K", x[1])
                        /\ Stands(p.board, <<IF x[2] = "king" THEN 7 ELSE 0, Rank(x[1], 0)>>, "R", x[1])
EnPassantStands(p) ==
    p.enPassant # NoSquare =>
        /\ p.enPassant \notin DOMAIN p.board
        /\ Stands(p.board, Step(p.enPassant, <<0, Forward(Other(p.turn))>>, 1), "P", Other(p.turn))

SoundPosition(p) ==
    /\ OneKingEach(p.board) /\ PawnsInside(p.board)
    /\ ~InCheck(p.board, Other(p.turn))
    /\ RightsStand(p) /\ EnPassantStands(p)

ASSUME RulesAssumption == \A e \in Start : IsPosition(e.pos) /\ SoundPosition(e.pos)

-----------------------------------------------------------------------------
\* Play: any legal move, as playGame applies it to the position it replayed.

RulesInit == pos = Unset /\ left = 0

SetUp ==
    /\ pos = Unset
    /\ \E e \in Start : pos' = e.pos /\ left' = e.plies

Play ==
    /\ pos # Unset /\ left > 0
    /\ \E m \in LegalMoves(pos) : pos' = Apply(pos, m)
    /\ left' = left - 1

RulesNext == SetUp \/ Play
RulesSpec == RulesInit /\ [][RulesNext]_rulesVars

-----------------------------------------------------------------------------
\* Properties

\* What every function above relies on and none checks: one king each and the
\* side that has just moved out of check (kingSquare, LegalMoves), no pawn on
\* the first or last rank (pseudoMoves would index outside the board), rights
\* only for kings and rooks that stand at home, and an en-passant square that
\* has the pawn to be taken right behind it.
PositionIsSound == pos # Unset => SoundPosition(pos)

\* The engine's own oracle (Perft, TestPerft): as many moves, and as many
\* moves after them, as the published tables count.
CountsAsPublished ==
    pos # Unset =>
    \A e \in Published : pos = e.pos =>
        /\ Cardinality(LegalMoves(pos)) = e.one
        /\ MapThenSumSet(LAMBDA m : Cardinality(LegalMoves(Apply(pos, m))), LegalMoves(pos)) = e.two

\* No two legal moves are written alike, and the stored form of each is read
\* back as that move: replay rebuilds the game that was played.  Castling may
\* also be typed in its own words.
NotationTellsMovesApart ==
    pos # Unset =>
    LET legal == LegalMoves(pos)
    IN /\ Cardinality({SAN(pos, legal, m) : m \in legal}) = Cardinality(legal)
       /\ \A m \in legal : ParseMove(legal, Format(m)) = {m}
       /\ \A m \in legal : IsCastling(pos.board, m) => ParseCastling(pos, legal, m.to[1]) = {m}

=============================================================================

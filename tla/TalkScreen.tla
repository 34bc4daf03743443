----------------------------- MODULE TalkScreen -----------------------------
(***************************************************************************)
(* The split screen of `talk`, internal/shell/cmd_talk.go, for one session *)
(* and the peers in its room: who has a pane, and where the cursor of each *)
(* pane stands.  Peers join, type and leave in any order; their events are *)
(* drawn in the order of the room's channel (Rooms).                       *)
(***************************************************************************)
EXTENDS Integers, Sequences, FiniteSets, SequencesExt

CONSTANTS
    Peers,      \* sessions of the other participants
    PeerName,   \* PeerName[p] : the user of p
    Me,         \* the session's own user
    rows, cols, \* the terminal's size when the talk starts
    Lengths     \* bound: lengths of what is typed at once

\* Session.Size never returns a size of nothing.
ASSUME ScreenAssumption ==
    rows \in Nat \ {0} /\ cols \in Nat \ {0} /\ Lengths \subseteq Nat /\ IsFiniteSet(Peers)

VARIABLES
    screen,     \* whether the session runs the talk UI
    present,    \* the peers in the room
    self,       \* the session's own pane, [row, col, height]
    panes       \* the peers' panes: [owner, label, left, row, col, height]

screenVars == <<screen, present, self, panes>>

ScreenInit ==
    /\ screen = FALSE
    /\ present = {}
    /\ self = [row |-> 0, col |-> 0, height |-> 0]
    /\ panes = <<>>

-----------------------------------------------------------------------------
\* Faulty variants, each told from the code by a property of the run

\* Wraps one line too late.
NextLinesLate(p, k) == [p EXCEPT !.row = (@ + k) % (p.height + 1), !.col = IF k = 0 THEN @ ELSE 0]

-----------------------------------------------------------------------------
\* Layout

\* redraw: one title row, then a header and the content of each pane.
PerPane(n) == IF (rows - 1) \div n < 2 THEN 2 ELSE (rows - 1) \div n
Top(i) == 3 + (i - 1) * PerPane(1 + Len(panes))     \* self is pane 1
\* Panes of two rows that do not fit run past the bottom, and the terminal puts
\* a cursor that is sent there on its last row.
Shown(line) == IF line > rows THEN rows ELSE line

Cleared(p, per) == [p EXCEPT !.row = 0, !.col = 0, !.height = per - 1]

Redraw(ps) ==
    LET per == PerPane(1 + Len(ps))
    IN /\ self' = Cleared(self, per)
       /\ panes' = [i \in DOMAIN ps |-> Cleared(ps[i], per)]

NewPane(owner, name) ==
    [owner |-> owner, label |-> name, left |-> FALSE, row |-> 0, col |-> 0, height |-> 0]

\* Until a peer that was there before us is heard of, its pane is held by name.
ByName(u) == <<"user", u>>
Mine(i, p) == panes[i].owner = p
Reserved(i, p) == panes[i].owner = ByName(PeerName[p])
First(P(_)) == CHOOSE i \in DOMAIN panes : P(i) /\ \A j \in 1..(i - 1) : ~P(j)

Claimed(i, p) == [panes EXCEPT ![i].owner = p]

\* addPeer: a pane that is the session's, or held for its name, before a new one.
AddPeer(p) ==
    LET known(i) == Mine(i, p) \/ Reserved(i, p)
    IN IF \E i \in DOMAIN panes : known(i)
       THEN IF Mine(First(known), p) THEN UNCHANGED <<self, panes>>
            ELSE Redraw(Claimed(First(known), p))
       ELSE Redraw(Append(panes, NewPane(p, PeerName[p])))

-----------------------------------------------------------------------------
\* Cursors

Text(n) == <<"text", n>>
Chunks == {Text(n) : n \in Lengths} \cup {<<"enter">>, <<"erase">>}

\* k times paneNewline: from the last line back to the first.
NextLines(p, k) == [p EXCEPT !.row = (@ + k) % p.height, !.col = IF k = 0 THEN @ ELSE 0]

\* A run of text goes to the next line before it would pass the last column.
Wraps(p, n) == IF n = 0 THEN 0 ELSE (p.col + n - 1) \div cols
paneData(p, chunk) ==
    CASE chunk[1] = "text" ->
            LET k == Wraps(p, chunk[2])
            IN [NextLines(p, k) EXCEPT !.col = p.col + chunk[2] - k * cols]
      [] chunk[1] = "enter" -> NextLines(p, 1)
      [] chunk[1] = "erase" -> [p EXCEPT !.col = IF @ > 0 THEN @ - 1 ELSE 0]

-----------------------------------------------------------------------------
\* Steps

\* cmdTalk on the usernames Join returned, with nobody there if a notice has
\* reached somebody.  talkRemote, when it has dialled, hands over the names
\* that its stand-in's Join returned: the user's own.
StartTalk ==
    /\ ~screen
    /\ screen' = TRUE
    /\ \/ \E there \in SUBSET Peers : \E inOrder \in SetToSeqs(there) :
             /\ present' = there
             /\ Redraw([i \in 1..Cardinality(there) |->
                          LET u == PeerName[inOrder[i]] IN NewPane(ByName(u), u)])
       \/ /\ present' = {}
          /\ Redraw(<<NewPane(ByName(Me), Me)>>)

PeerJoins(p) ==
    /\ screen /\ p \notin present
    /\ present' = present \cup {p}
    /\ AddPeer(p)
    /\ UNCHANGED screen

\* peerPane, then paneData.
PeerTypes(p, chunk) ==
    LET write(ps, i) == panes' = [ps EXCEPT ![i] = paneData(@, chunk)] /\ UNCHANGED self
        mine(i) == Mine(i, p)
        reserved(i) == Reserved(i, p)
        per == PerPane(2 + Len(panes))
    IN /\ screen /\ p \in present
       /\ \/ (\E i \in DOMAIN panes : mine(i)) /\ write(panes, First(mine))
          \/ /\ ~\E i \in DOMAIN panes : mine(i)
             /\ \E i \in DOMAIN panes : reserved(i)
             /\ write(Claimed(First(reserved), p), First(reserved))
          \/ /\ ~\E i \in DOMAIN panes : mine(i) \/ reserved(i)
             /\ self' = Cleared(self, per)
             /\ panes' = Append([i \in DOMAIN panes |-> Cleared(panes[i], per)],
                                paneData(Cleared(NewPane(p, PeerName[p]), per), chunk))
       /\ UNCHANGED <<screen, present>>

\* markLeft knows panes by session only.
PeerLeaves(p) ==
    /\ screen /\ p \in present
    /\ present' = present \ {p}
    /\ Redraw([i \in DOMAIN panes |-> [panes[i] EXCEPT !.left = @ \/ Mine(i, p)]])
    /\ UNCHANGED screen

TypeOwn(chunk) ==
    /\ screen
    /\ self' = paneData(self, chunk)
    /\ UNCHANGED <<screen, present, panes>>

EndTalk ==
    /\ screen
    /\ screen' = FALSE /\ present' = {} /\ panes' = <<>>
    /\ self' = [row |-> 0, col |-> 0, height |-> 0]

ScreenNext ==
    \/ StartTalk \/ EndTalk
    \/ \E p \in Peers : PeerJoins(p) \/ PeerLeaves(p) \/ \E c \in Chunks : PeerTypes(p, c)
    \/ \E c \in Chunks : TypeOwn(c)

ScreenSpec == ScreenInit /\ [][ScreenNext]_screenVars

-----------------------------------------------------------------------------
\* Properties

\* Nobody writes on another's pane, on a header or past the margin: whatever
\* has been typed and wrapped, the next byte of pane i goes to one of its own
\* rows, above the header of pane i + 1.  On a terminal that is too small
\* (cmd_talk.go:246) the panes that run past the bottom share the last row, and
\* the rest keep theirs.
InkStaysInPane ==
    screen => \A i \in 1..(Len(panes) + 1) :
        LET p == IF i = 1 THEN [row |-> self.row, col |-> self.col] ELSE panes[i - 1]
            line == Shown(Top(i) + p.row)
            allFit == Top(Len(panes) + 2) - 2 <= rows
        IN /\ line < rows \/ allFit => line \in Top(i)..(Top(i + 1) - 2)
           /\ p.col \in 0..cols
=============================================================================

----------------------------- MODULE TalkBridge -----------------------------
(***************************************************************************)
(* `talk user@host` between two nodes: internal/shell/cmd_talk_remote.go,  *)
(* handleIncomingTalk of internal/server/federation.go,                    *)
(* internal/federation/relay.go, and the invitations of                    *)
(* internal/presence/hub.go.                                               *)
(*                                                                         *)
(* Two users, each on a node of their own.  The talk has a room at each    *)
(* node (Rooms), and every dial that is accepted adds to both rooms a      *)
(* member that stands in for the other user, with a relay (a goroutine and *)
(* its reader) between it and the connection.  A session talks once.       *)
(***************************************************************************)
EXTENDS Naturals, Sequences, FiniteSets

CONSTANTS
    Nodes,      \* the two nodes
    Terminals,  \* sessions
    NodeOf,     \* NodeOf[s] : where s is logged in
    Casts,      \* bound: [dial, fail, answer, type, quit], which sessions dial, whose
                \*   dial may fail or be cut, which answer, type, once, and quit
    Cap,        \* capacity of a Recv channel (256 in the code)
    Nowhere,    \* the room of a handle that has not joined one
    NoData      \* the data of an event that carries none

VARIABLES
    registry, made, room, listed, closed, recv,     \* Rooms
    invited,    \* Hub.incomingTalk : the nodes whose user has an invitation
    at,         \* where a session's talk command stands
    desk,       \* where the peer's handleIncomingTalk of a dial stands
    conn,       \* the connection a session has dialled
    relay,      \* RelayRoomToStream of a stand-in
    reader,     \* its reading goroutine
    typed,      \* the sessions that have typed something
    robbed,     \* history: stand-ins whose invitation another's relay has taken away
    cast        \* the run's member of Casts

talkRooms == <<registry, made, room, listed, closed, recv>>
talkVars == <<talkRooms, invited, at, desk, conn, relay, reader, typed, robbed, cast>>

Sides == {"near", "far"}
StandIns == Sides \X Terminals              \* <<side, dialler>>
Across(n) == CHOOSE m \in Nodes : m # n
OtherSide(d) == IF d = "near" THEN "far" ELSE "near"
Place(h) == IF h \in Terminals THEN NodeOf[h]
            ELSE IF h[1] = "near" THEN NodeOf[h[2]] ELSE Across(NodeOf[h[2]])

ASSUME TalkAssumption ==
    /\ \E m, n \in Nodes : m # n /\ Nodes = {m, n}
    /\ NodeOf \in [Terminals -> Nodes] /\ Terminals \cap StandIns = {}
    /\ Cap \in Nat /\ Nowhere \notin Nodes \X Nat

-----------------------------------------------------------------------------
\* Faulty variants, each told from the code by a property of the run

\* Every relay has a session id of its own.
SidPerRelay(h) == h

\* Only a leave by the dialler's own session ends the relay.
EndsTheTalkNear(h, e) == h[1] = "near" /\ e.kind = "leave"

-----------------------------------------------------------------------------

\* The user of a node, and as the other node names that user.
Here(n) == <<n, "here">>
There(n) == <<n, "there">>

\* RoomMember.Username, and SessionID: "relay:alice->bob@B" is the same for
\* all of Alice's dials, and differs from that of Bob's.
Name(h) == IF h \in Terminals THEN Here(NodeOf[h]) ELSE There(Across(Place(h)))
Sid(h) == IF h \in Terminals THEN h ELSE <<h[1], NodeOf[h[2]]>>

R == INSTANCE Rooms WITH
        Names <- Nodes, Handles <- Terminals \cup StandIns,
        SessionOf <- [h \in Terminals \cup StandIns |-> Sid(h)],
        UserOf <- [h \in Terminals \cup StandIns |-> Name(h)],
        Participants <- [n \in Nodes |-> {Here(n), There(Across(n))}],
        Payloads <- Terminals, Outside <- Nowhere, Nothing <- NoData

TalkInit ==
    /\ R!Init
    /\ invited = {}
    /\ at = [s \in Terminals |-> "prompt"]
    /\ desk = [s \in Terminals |-> "idle"]
    /\ conn = [s \in Terminals |-> [to |-> [d \in Sides |-> <<>>], shut |-> {}]]
    /\ relay = [h \in StandIns |-> "off"]
    /\ reader = [h \in StandIns |-> "off"]
    /\ typed = {} /\ robbed = {}
    /\ cast \in Casts

-----------------------------------------------------------------------------
\* The talk command

Unbridged == UNCHANGED <<invited, desk, conn, relay, reader, typed, robbed>>

\* HasIncomingTalk, RemoveIncomingTalk and Join are three steps.
SeeInvitation(s) ==
    /\ at[s] = "prompt" /\ NodeOf[s] \in invited /\ s \in cast.answer
    /\ at' = [at EXCEPT ![s] = "answering"]
    /\ Unbridged /\ UNCHANGED talkRooms

TakeInvitation(s) ==
    /\ at[s] = "answering"
    /\ at' = [at EXCEPT ![s] = "joining"]
    /\ invited' = invited \ {NodeOf[s]}
    /\ UNCHANGED <<desk, conn, relay, reader, typed, robbed, talkRooms>>

JoinBridged(s) ==
    /\ at[s] = "joining"
    /\ R!Join(s, NodeOf[s])
    /\ at' = [at EXCEPT ![s] = "talking"]
    /\ Unbridged

\* Nobody has invited: InitiateTalk.
InitiateTalk(s) ==
    /\ at[s] = "prompt" /\ NodeOf[s] \notin invited /\ s \in cast.dial
    /\ at' = [at EXCEPT ![s] = "ringing"]
    /\ desk' = [desk EXCEPT ![s] = "asked"]
    /\ UNCHANGED <<invited, conn, relay, reader, typed, robbed, talkRooms>>

\* A side that has closed reads nothing more.
Close(s, side) ==
    conn' = [conn EXCEPT ![s] = [to |-> [@.to EXCEPT ![side] = <<>>], shut |-> @.shut \cup {side}]]

\* The peer is not to be reached (within 15 seconds), the connection breaks
\* before its answer comes, or the answer is a refusal.
GiveUp(s) ==
    /\ at[s] = "ringing" /\ s \in cast.fail
    /\ at' = [at EXCEPT ![s] = "done"]
    /\ Close(s, "near")
    /\ UNCHANGED <<invited, desk, relay, reader, typed, robbed, talkRooms>>

\* The answer is yes: the user joins, and then the stand-in.
JoinOwnRoom(s) ==
    /\ at[s] = "ringing" /\ desk[s] \in {"bridging", "ended"}
    /\ R!Join(s, NodeOf[s])
    /\ at' = [at EXCEPT ![s] = "bridging"]
    /\ Unbridged

Bridge(h) ==
    /\ relay' = [relay EXCEPT ![h] = "running"]
    /\ reader' = [reader EXCEPT ![h] = "reading"]

StartBridge(s) ==
    /\ at[s] = "bridging"
    /\ R!Join(<<"near", s>>, NodeOf[s])
    /\ Bridge(<<"near", s>>)
    /\ at' = [at EXCEPT ![s] = "talking"]
    /\ UNCHANGED <<invited, desk, conn, typed, robbed>>

\* runTalkUI: what is typed goes to the room, and what the room says is shown.
Type(s) ==
    /\ at[s] = "talking" /\ s \in cast.type \ typed
    /\ R!Send(s, s)
    /\ typed' = typed \cup {s}
    /\ UNCHANGED <<invited, at, desk, conn, relay, reader, robbed>>

Show(s) ==
    /\ R!Receive(s)
    /\ Unbridged /\ UNCHANGED at

\* Ctrl+C, or the terminal is gone; what is left in Recv is shown to nobody.
Quit(s) ==
    /\ at[s] = "talking" /\ s \in cast.quit
    /\ R!Leave(s)
    /\ at' = [at EXCEPT ![s] = "done"]
    /\ Unbridged

-----------------------------------------------------------------------------
\* handleIncomingTalk

\* The target is not there or has messages off.
Refuse(s) ==
    /\ desk[s] = "asked" /\ s \in cast.fail
    /\ desk' = [desk EXCEPT ![s] = "refused"]
    /\ Close(s, "far")
    /\ UNCHANGED <<invited, at, relay, reader, typed, robbed, talkRooms>>

JoinStandIn(s) ==
    /\ desk[s] = "asked"
    /\ R!Join(<<"far", s>>, Across(NodeOf[s]))
    /\ desk' = [desk EXCEPT ![s] = "joined"]
    /\ UNCHANGED <<invited, at, conn, relay, reader, typed, robbed>>

\* AddIncomingTalk, the notice, the answer, and on to the relay.
Invite(s) ==
    /\ desk[s] = "joined"
    /\ invited' = invited \cup {Across(NodeOf[s])}
    /\ desk' = [desk EXCEPT ![s] = "bridging"]
    /\ Bridge(<<"far", s>>)
    /\ UNCHANGED <<at, conn, typed, robbed, talkRooms>>

-----------------------------------------------------------------------------
\* RelayRoomToStream

Frame(kind, d) == [kind |-> kind, data |-> d]

\* A frame to the other side: it arrives, or is lost with a connection that the
\* other side has closed.
Write(h, f) ==
    conn' = [conn EXCEPT ![h[2]].to[OtherSide(h[1])] =
                IF OtherSide(h[1]) \in conn[h[2]].shut THEN @ ELSE Append(@, f)]

EndsTheTalk(h, e) == e.kind = "leave"

\* The relay takes an event: data is forwarded, and anybody's leave ends it.
Forward(h) ==
    LET e == Head(recv[h])
    IN /\ relay[h] = "running"
       /\ R!Receive(h)
       /\ \/ e.kind = "data" /\ Write(h, Frame("data", e.data)) /\ UNCHANGED relay
          \/ /\ EndsTheTalk(h, e)
             /\ Write(h, Frame("close", NoData))
             /\ relay' = [relay EXCEPT ![h] = "leaving"]
          \/ e.kind # "data" /\ ~EndsTheTalk(h, e) /\ UNCHANGED <<conn, relay>>
          \/ /\ e.kind = "data" /\ conn[h[2]].shut # {}      \* the write fails
             /\ relay' = [relay EXCEPT ![h] = "leaving"] /\ UNCHANGED conn
       /\ UNCHANGED <<invited, at, desk, reader, typed, robbed>>

\* Or it sees that its reader has ended.
SeeReaderDone(h) ==
    /\ relay[h] = "running" /\ reader[h] = "done"
    /\ relay' = [relay EXCEPT ![h] = "leaving"]
    /\ UNCHANGED <<invited, at, desk, conn, reader, typed, robbed, talkRooms>>

\* It leaves, then closes, which ends the reader; at the invited node the
\* invitation is then taken away.
LeaveRoom(h) ==
    /\ relay[h] = "leaving"
    /\ R!Leave(h)
    /\ relay' = [relay EXCEPT ![h] = "left"]
    /\ UNCHANGED <<invited, at, desk, conn, reader, typed, robbed>>

CloseRelay(h) ==
    /\ relay[h] = "left"
    /\ Close(h[2], h[1])
    /\ relay' = [relay EXCEPT ![h] = IF h[1] = "far" THEN "closed" ELSE "ended"]
    /\ reader' = [reader EXCEPT ![h] = "done"]
    /\ UNCHANGED <<invited, at, desk, typed, robbed, talkRooms>>

\* The relays that wait on the same invitation as h's.
Rivals(h) == {g \in StandIns \ {h} : g[1] = "far" /\ Place(g) = Place(h) /\ relay[g] = "running"}

RemoveInvitation(h) ==
    /\ relay[h] = "closed"
    /\ relay' = [relay EXCEPT ![h] = "ended"]
    /\ invited' = invited \ {Place(h)}
    /\ robbed' = IF Place(h) \in invited THEN robbed \cup Rivals(h) ELSE robbed
    /\ desk' = [desk EXCEPT ![h[2]] = "ended"]
    /\ UNCHANGED <<at, conn, reader, typed, talkRooms>>

\* The reader puts what arrives into the room, whether or not the stand-in is
\* still in it.
Inject(h) ==
    LET q == conn[h[2]].to[h[1]]
    IN /\ reader[h] = "reading" /\ h[1] \notin conn[h[2]].shut
       /\ q # <<>> /\ Head(q).kind = "data"
       /\ R!Send(h, Head(q).data)
       /\ conn' = [conn EXCEPT ![h[2]].to[h[1]] = Tail(@)]
       /\ UNCHANGED <<invited, at, desk, relay, reader, typed, robbed>>

\* It ends on a close frame, and at the end of what a closed or broken
\* connection still delivers.
ReaderEnds(h) ==
    LET c == conn[h[2]]
    IN /\ reader[h] = "reading"
       /\ \/ c.to[h[1]] # <<>> /\ Head(c.to[h[1]]).kind = "close"
          \/ c.to[h[1]] = <<>> /\ c.shut # {}
       /\ reader' = [reader EXCEPT ![h] = "done"]
       /\ UNCHANGED <<invited, at, desk, conn, relay, typed, robbed, talkRooms>>

\* The network cuts the connection.
Cut(s) ==
    /\ desk[s] = "bridging" /\ conn[s].shut = {} /\ s \in cast.fail
    /\ conn' = [conn EXCEPT ![s] = [to |-> [d \in Sides |-> <<>>], shut |-> Sides]]
    /\ UNCHANGED <<invited, at, desk, relay, reader, typed, robbed, talkRooms>>

\* Showing comes first: it touches nothing that another step reads.
Behind == {s \in Terminals : recv[s] # <<>>}

TalkNext ==
    /\ UNCHANGED cast
    /\ \/ \E s \in Behind : Show(s)
       \/ Behind = {} /\ \E s \in Terminals :
             \/ SeeInvitation(s) \/ TakeInvitation(s) \/ JoinBridged(s)
             \/ InitiateTalk(s) \/ GiveUp(s) \/ JoinOwnRoom(s) \/ StartBridge(s)
             \/ Type(s) \/ Quit(s)
             \/ Refuse(s) \/ JoinStandIn(s) \/ Invite(s) \/ Cut(s)
       \/ Behind = {} /\ \E h \in StandIns :
             \/ Forward(h) \/ SeeReaderDone(h) \/ LeaveRoom(h) \/ CloseRelay(h)
             \/ RemoveInvitation(h) \/ Inject(h) \/ ReaderEnds(h)

TalkSpec == TalkInit /\ [][TalkNext]_talkVars

-----------------------------------------------------------------------------
\* Properties

Accepted == {s \in Terminals : desk[s] \in {"joined", "bridging", "ended"}}

\* Both users have dialled, neither having seen the other's invitation.
Crossed == \E s, t \in Accepted : NodeOf[s] # NodeOf[t]

\* Nothing that was typed comes back to the terminal it was typed at, however
\* many of a user's sessions have dialled: their relays share one session id,
\* and so do not hear each other (talk.RoomID, room.go:139).
NoEcho ==
    ~Crossed => \A s \in Terminals : \A k \in DOMAIN recv[s] :
        recv[s][k].kind = "data" => recv[s][k].data # s

\* A relay runs until either side ends (relay.go:44-46): none is left at rest
\* with the connection open and nobody to talk to, once the user has come.
\* Excused: the dials of one user share one invitation, and the relay of one
\* that ends takes it from the others, unanswered (federation.go:113).  It takes
\* channels with room for a leave event, which a full one drops (room.go:173-178).
NobodyTalksToNobody ==
    \A h \in StandIns :
        LET c == conn[h[2]]
            here == {s \in Terminals : NodeOf[s] = Place(h)}
        IN /\ relay[h] = "running" /\ recv[h] = <<>> /\ c.shut = {} /\ c.to[h[1]] = <<>>
           /\ h \notin robbed
           => \/ here \cap R!Members(room[h]) # {}
              \/ \E s \in here : at[s] \in {"answering", "joining"}
              \/ h[1] = "far" /\ Place(h) \in invited
=============================================================================

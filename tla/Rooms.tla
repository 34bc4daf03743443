------------------------------- MODULE Rooms -------------------------------
(***************************************************************************)
(* The room broker of one node, internal/presence/room.go, with each       *)
(* operation as one step.  Rooms carry talk sessions (keyed by participant *)
(* set) and call media (keyed by call); RoomLocks shows that the two       *)
(* mutexes of the code make the operations as atomic as they are here.     *)
(*                                                                         *)
(* A room object is known by its name and a number: the name of a room     *)
(* that emptied and was deleted may be registered again, for a new object, *)
(* while handles of the old one are still in use.                          *)
(***************************************************************************)
EXTENDS Naturals, Sequences

CONSTANTS Names,          \* room ids
          Handles,        \* RoomMember objects, each made by one JoinID
          SessionOf,      \* SessionOf[h] : RoomMember.SessionID
          UserOf,         \* UserOf[h]    : RoomMember.Username
          Participants,   \* Participants[n] : whom every joiner of n lists
          Payloads,       \* what is typed or sent
          Cap,            \* capacity of a Recv channel (256 in the code)
          Outside,        \* the room of a handle that has not joined one
          Nothing         \* the Data of a Join or Leave event

ASSUME CapAssumption == Cap \in Nat
ASSUME OutsideAssumption == Outside \notin Names \X Nat

VARIABLES
    registry,   \* RoomBroker.rooms : which object a name stands for, 0 if none
    made,       \* how many objects of a name ever had a member
    room,       \* RoomMember.room
    listed,     \* the handles in the members list of their room
    closed,     \* the handles whose Recv is closed (RoomMember.closed)
    recv        \* RoomMember.Recv

vars == <<registry, made, room, listed, closed, recv>>

RoomObjects == Names \X Nat

Events == [kind : {"data", "join", "leave"}, session : {SessionOf[h] : h \in Handles},
           from : {UserOf[h] : h \in Handles}, data : Payloads \cup {Nothing}]

TypeOK ==
    /\ registry \in [Names -> Nat]
    /\ made \in [Names -> Nat]
    /\ room \in [Handles -> RoomObjects \cup {Outside}]
    /\ listed \subseteq Handles
    /\ closed \subseteq Handles
    /\ recv \in [Handles -> Seq(Events)]

Init ==
    /\ registry = [n \in Names |-> 0]
    /\ made = [n \in Names |-> 0]
    /\ room = [h \in Handles |-> Outside]
    /\ listed = {}
    /\ closed = {}
    /\ recv = [h \in Handles |-> <<>>]

Members(r) == {h \in listed : room[h] = r}

Event(h, k, d) == [kind |-> k, session |-> SessionOf[h], from |-> UserOf[h], data |-> d]

\* select with a default case: a full channel drops the event.
Offered(q, e) == IF Len(q) < Cap THEN Append(q, e) ELSE q

Notify(to, e) == recv' = [h \in Handles |-> IF h \in to THEN Offered(recv[h], e) ELSE recv[h]]

\* The object a join of n finds, or the one it makes.
Target(n) == IF registry[n] = 0 THEN <<n, made[n] + 1>> ELSE <<n, registry[n]>>

-----------------------------------------------------------------------------
\* Faulty variants, each told from the code by a property of a run

\* A send that echoes to the sender's own session.
ListenersAll(h) == Members(room[h])

-----------------------------------------------------------------------------
\* Operations

\* JoinID by a listed participant.
Join(h, n) ==
    /\ room[h] = Outside
    /\ UserOf[h] \in Participants[n]
    /\ registry' = [registry EXCEPT ![n] = Target(n)[2]]
    /\ made' = [made EXCEPT ![n] = Target(n)[2]]
    /\ Notify(Members(Target(n)), Event(h, "join", Nothing))
    /\ room' = [room EXCEPT ![h] = Target(n)]
    /\ listed' = listed \cup {h}
    /\ UNCHANGED closed

\* JoinID by anybody else: the room it made for nothing is deleted again.
Rejected(h, n) ==
    /\ room[h] = Outside
    /\ UserOf[h] \notin Participants[n]
    /\ registry' = IF Members(Target(n)) = {} THEN [registry EXCEPT ![n] = 0] ELSE registry
    /\ UNCHANGED <<made, room, listed, closed, recv>>

\* Who hears a Send: the other sessions in the members list.
Listeners(h) == {m \in Members(room[h]) : SessionOf[m] # SessionOf[h]}

\* Send does not ask whether its own member has left.
Send(h, d) ==
    /\ room[h] # Outside
    /\ Notify(Listeners(h), Event(h, "data", d))
    /\ UNCHANGED <<registry, made, room, listed, closed>>

\* Leave, the first time; later calls change nothing.
Leave(h) ==
    /\ room[h] # Outside
    /\ h \notin closed
    /\ closed' = closed \cup {h}
    /\ listed' = listed \ {h}
    /\ Notify(Members(room[h]) \ {h}, Event(h, "leave", Nothing))
    /\ registry' = IF Members(room[h]) \ {h} = {}
                   THEN [registry EXCEPT ![room[h][1]] = 0] ELSE registry
    /\ UNCHANGED <<made, room>>

\* The owner of a handle takes the next event, from a closed channel too.
Receive(h) ==
    /\ recv[h] # <<>>
    /\ recv' = [recv EXCEPT ![h] = Tail(@)]
    /\ UNCHANGED <<registry, made, room, listed, closed>>

Next == \E h \in Handles :
    \/ \E n \in Names : Join(h, n) \/ Rejected(h, n)
    \/ \E d \in Payloads : Send(h, d)
    \/ Leave(h)
    \/ Receive(h)

Spec == Init /\ [][Next]_vars

-----------------------------------------------------------------------------
\* Safety

\* No closed handle is in a members list: Send and Leave would panic on its
\* closed Recv (room.go:165-167), and with it the whole node.
NoClosedListed == listed \cap closed = {}

\* Whoever is in a room is in the registered object of its name, so that the
\* next to join finds them: a join never races a teardown into an orphaned
\* room object (room.go:80-82).
NoOrphan == \A h \in listed : room[h] # Outside /\ registry[room[h][1]] = room[h][2]

\* A registered room has somebody in it: neither a rejected join nor the last
\* member to leave leaves an empty room behind (room.go:104, 180).
NoEmptyRoom ==
    \A n \in Names : registry[n] # 0 => Members(<<n, registry[n]>>) # {}

\* A channel never holds more than its capacity, and what it holds was said
\* by a participant of its room, never by a handle of its own session, which
\* would hear itself.
HearsOnlyPeers ==
    \A h \in Handles : \A i \in 1 .. Len(recv[h]) :
        /\ Len(recv[h]) <= Cap
        /\ recv[h][i].from \in Participants[room[h][1]]
        /\ recv[h][i].kind = "data" => recv[h][i].session # SessionOf[h]

=============================================================================

----------------------------- MODULE RoomLocks -----------------------------
(***************************************************************************)
(* The room broker at the grain of its two mutexes: RoomBroker.mu, held by *)
(* JoinID and Leave from end to end, and the Room.mu that they take inside *)
(* it and that Send takes alone.  A handle may be used by several          *)
(* goroutines at once (a relay's reader sends while its main loop leaves;  *)
(* a media socket is left by its reader and by its end watcher), so each   *)
(* operation of a handle has a position of its own.                        *)
(*                                                                         *)
(* The steps of JoinID: register the room if the name has none, then, with *)
(* the room's mutex, check the participant and append the member.          *)
(***************************************************************************)
EXTENDS Rooms

CONSTANTS Free     \* a mutex nobody holds

ASSUME FreeAssumption == Free \notin {"join", "leave"} \X Handles

VARIABLES
    broker,     \* who holds RoomBroker.mu: <<"join" or "leave", handle>>
    wanted,     \* the room object that the JoinID in progress is about to join
    sending     \* the Sends that hold their room's mutex: <<handle, payload,
                \* the members they are handing the payload to>>

lockVars == <<registry, made, room, listed, closed, recv, broker, wanted, sending>>

LocksTypeOK ==
    /\ TypeOK
    /\ broker \in ({"join", "leave"} \X Handles) \cup {Free}
    /\ wanted \in RoomObjects \cup {Outside}
    /\ sending \subseteq (Handles \X Payloads \X SUBSET Handles)

LocksInit ==
    /\ Init
    /\ broker = Free
    /\ wanted = Outside
    /\ sending = {}

\* Room.mu of room r is free.
Unlocked(r) == \A s \in sending : room[s[1]] # r

-----------------------------------------------------------------------------
\* Faulty variants, each told from the code by a property of a run

\* Leave that does not take the room's mutex.
LeaveBesideSend(h) ==
    /\ broker = <<"leave", h>>
    /\ broker' = Free
    /\ \/ Leave(h)
       \/ h \in closed /\ UNCHANGED vars
    /\ UNCHANGED <<wanted, sending>>

\* JoinID that does not look at the participants.
JoinUngated(h) ==
    /\ broker = <<"join", h>>
    /\ Unlocked(wanted)
    /\ broker' = Free
    /\ wanted' = Outside
    /\ Notify(Members(wanted), Event(h, "join", Nothing))
    /\ room' = [room EXCEPT ![h] = wanted]
    /\ listed' = listed \cup {h}
    /\ made' = [made EXCEPT ![wanted[1]] = wanted[2]]
    /\ UNCHANGED <<registry, closed, sending>>

\* A rejected join that deletes the room whoever is in it.
JoinDeletesRoom(h) ==
    /\ broker = <<"join", h>>
    /\ Unlocked(wanted)
    /\ broker' = Free
    /\ wanted' = Outside
    /\ IF UserOf[h] \in Participants[wanted[1]]
       THEN /\ Notify(Members(wanted), Event(h, "join", Nothing))
            /\ room' = [room EXCEPT ![h] = wanted]
            /\ listed' = listed \cup {h}
            /\ made' = [made EXCEPT ![wanted[1]] = wanted[2]]
            /\ UNCHANGED registry
       ELSE /\ registry' = [registry EXCEPT ![wanted[1]] = 0]
            /\ UNCHANGED <<recv, room, listed, made>>
    /\ UNCHANGED <<closed, sending>>

\* A repeated Leave that returns with the mutexes held.
LeaveTwiceLocked(h) ==
    /\ broker = <<"leave", h>>
    /\ Unlocked(room[h])
    /\ \/ Leave(h) /\ broker' = Free
       \/ h \in closed /\ UNCHANGED vars /\ UNCHANGED broker
    /\ UNCHANGED <<wanted, sending>>

-----------------------------------------------------------------------------
\* JoinID

\* broker.mu.Lock and the look-up, which makes the room if there is none.
JoinFinds(h, n) ==
    /\ broker = Free
    /\ room[h] = Outside
    /\ broker' = <<"join", h>>
    /\ wanted' = Target(n)
    /\ registry' = [registry EXCEPT ![n] = Target(n)[2]]
    /\ UNCHANGED <<made, room, listed, closed, recv, sending>>

\* room.mu.Lock and the rest, up to both unlocks.
JoinEnters(h) ==
    /\ broker = <<"join", h>>
    /\ Unlocked(wanted)
    /\ broker' = Free
    /\ wanted' = Outside
    /\ IF UserOf[h] \in Participants[wanted[1]]
       THEN /\ Notify(Members(wanted), Event(h, "join", Nothing))
            /\ room' = [room EXCEPT ![h] = wanted]
            /\ listed' = listed \cup {h}
            /\ made' = [made EXCEPT ![wanted[1]] = wanted[2]]
            /\ UNCHANGED registry
       ELSE /\ registry' = IF Members(wanted) = {}
                           THEN [registry EXCEPT ![wanted[1]] = 0] ELSE registry
            /\ UNCHANGED <<recv, room, listed, made>>
    /\ UNCHANGED <<closed, sending>>

-----------------------------------------------------------------------------
\* Send and Leave

\* room.mu.Lock and the reading of the members list.
SendStarts(h, d) ==
    /\ room[h] # Outside
    /\ Unlocked(room[h])
    /\ sending' = sending \cup {<<h, d, Listeners(h)>>}
    /\ UNCHANGED <<vars, broker, wanted>>

\* The payload put into every listener's channel, and the unlock.
SendEnds(s) ==
    /\ s \in sending
    /\ Notify(s[3], Event(s[1], "data", s[2]))
    /\ sending' = sending \ {s}
    /\ UNCHANGED <<registry, made, room, listed, closed, broker, wanted>>

\* broker.mu.Lock.
LeaveStarts(h) ==
    /\ broker = Free
    /\ room[h] # Outside
    /\ broker' = <<"leave", h>>
    /\ UNCHANGED <<vars, wanted, sending>>

\* room.mu.Lock and the rest, up to both unlocks; nothing if already closed.
LeaveEnds(h) ==
    /\ broker = <<"leave", h>>
    /\ Unlocked(room[h])
    /\ broker' = Free
    /\ \/ Leave(h)
       \/ h \in closed /\ UNCHANGED vars
    /\ UNCHANGED <<wanted, sending>>

Take(h) == Receive(h) /\ UNCHANGED <<broker, wanted, sending>>

Begins(h) ==
    \/ \E n \in Names : JoinFinds(h, n)
    \/ \E d \in Payloads : SendStarts(h, d)
    \/ LeaveStarts(h)
    \/ Take(h)

Ends(h) == JoinEnters(h) \/ LeaveEnds(h)

SendOf(h) == \E s \in sending : s[1] = h /\ SendEnds(s)

LocksNext == \E h \in Handles : Begins(h) \/ Ends(h) \/ SendOf(h)

\* A Send under way ends.  Whoever holds the broker's mutex may find the
\* room's taken again and again, but gets it in the end: Go's mutexes hand
\* over to a waiter that has starved.  Nobody has to start anything.
LocksSpec ==
    /\ LocksInit /\ [][LocksNext]_lockVars
    /\ \A h \in Handles : WF_lockVars(SendOf(h))
    /\ SF_lockVars(\E h \in Handles : Ends(h))

-----------------------------------------------------------------------------
\* Properties

\* No payload is put into a closed channel: Leave closes Recv under the same
\* mutex under which a Send walks the members list.
NeverSendsOnClosed == \A s \in sending : s[3] \cap closed = {}

\* The registry lists the room objects somebody is in, no other of them and,
\* between two operations, no empty one: a join never races a teardown into
\* an orphan, and no rejected join leaves or deletes a room (room.go:80-82,
\* 104, 180).
RegistryIsExact == NoOrphan /\ (broker = Free => NoEmptyRoom)

\* The broker's mutex is never held for ever, whichever operations meet: the
\* order broker.mu, then room.mu is never turned round (room.go:80-82), and
\* every return unlocks.
BrokerIsReleased == broker # Free ~> broker = Free

\* A name registered by a JoinID still on its way stands for no room yet.
Settled(n) == \E h \in listed : room[h] = <<n, registry[n]>>

Atomic == INSTANCE Rooms WITH
    registry <- [n \in Names |-> IF Settled(n) THEN registry[n] ELSE 0]

\* With its two mutexes the broker does what Rooms does in single steps.
ImplementsRooms == Atomic!Spec

=============================================================================

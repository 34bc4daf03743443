---------------------------- MODULE Rooms_proofs ----------------------------
(***************************************************************************)
(* Proofs about the room broker, for any names, handles, participants and  *)
(* channel capacity: type correctness, and the invariants that keep Send   *)
(* from panicking and members of one room from missing each other; then    *)
(* the broker at the grain of its mutexes: no Send meets a closed channel, *)
(* the registry is exact, and with its two mutexes the broker does what    *)
(* Rooms does in single steps.                                             *)
(***************************************************************************)
EXTENDS RoomLocks, TLAPS

-----------------------------------------------------------------------------
\* What a channel of a handle in room r may hold.
Fit(h, e) ==
    /\ e.from \in Participants[room[h][1]]
    /\ e.kind = "data" => e.session # SessionOf[h]

-----------------------------------------------------------------------------
\* Lemmas about channels

\* Offering an event to a channel keeps what is in it, adds at most the
\* event, and never exceeds the capacity.
LEMMA OfferedKeeps ==
    ASSUME NEW q \in Seq(Events), NEW e \in Events
    PROVE  /\ Offered(q, e) \in Seq(Events)
           /\ Len(q) <= Cap => Len(Offered(q, e)) <= Cap
           /\ \A i \in 1 .. Len(Offered(q, e)) :
                 \/ Offered(q, e)[i] = e
                 \/ i \in 1 .. Len(q) /\ Offered(q, e)[i] = q[i]
<1>1. CASE Len(q) < Cap
  <2>1. Offered(q, e) = Append(q, e)
    BY <1>1 DEF Offered
  <2>2. Append(q, e) \in Seq(Events) /\ Len(Append(q, e)) = Len(q) + 1
    OBVIOUS
  <2>3. \A i \in 1 .. Len(q) + 1 : Append(q, e)[i] = IF i <= Len(q) THEN q[i] ELSE e
    OBVIOUS
  <2>4. Len(q) + 1 <= Cap
    BY <1>1, CapAssumption
  <2>5. \A i \in 1 .. Len(q) + 1 : i <= Len(q) => i \in 1 .. Len(q)
    OBVIOUS
  <2>6. QED
    BY <2>1, <2>2, <2>3, <2>4, <2>5
<1>2. CASE ~(Len(q) < Cap)
  BY <1>2 DEF Offered
<1>3. QED
  BY <1>1, <1>2

LEMMA EventIsEvent ==
    ASSUME NEW h \in Handles, NEW k \in {"data", "join", "leave"},
           NEW d \in Payloads \cup {Nothing}
    PROVE  Event(h, k, d) \in Events
  BY DEF Event, Events

LEMMA NotifyKeeps ==
    ASSUME TypeOK, NEW S, NEW e \in Events, Notify(S, e)
    PROVE  /\ recv' \in [Handles -> Seq(Events)]
           /\ \A h \in Handles :
                /\ Len(recv[h]) <= Cap => Len(recv'[h]) <= Cap
                /\ \A i \in 1 .. Len(recv'[h]) :
                      \/ h \in S /\ recv'[h][i] = e
                      \/ i \in 1 .. Len(recv[h]) /\ recv'[h][i] = recv[h][i]
                /\ h \notin S => recv'[h] = recv[h]
<1>1. \A h \in Handles : recv[h] \in Seq(Events)
  BY DEF TypeOK
<1>2. \A h \in Handles : recv'[h] = IF h \in S THEN Offered(recv[h], e) ELSE recv[h]
  BY DEF Notify
<1>3. ASSUME NEW h \in Handles, h \in S
      PROVE  /\ recv'[h] \in Seq(Events)
             /\ Len(recv[h]) <= Cap => Len(recv'[h]) <= Cap
             /\ \A i \in 1 .. Len(recv'[h]) :
                   recv'[h][i] = e \/ (i \in 1 .. Len(recv[h]) /\ recv'[h][i] = recv[h][i])
  <2>1. recv'[h] = Offered(recv[h], e)
    BY <1>2, <1>3
  <2>2. recv[h] \in Seq(Events)
    BY <1>1
  <2>3. /\ Offered(recv[h], e) \in Seq(Events)
        /\ Len(recv[h]) <= Cap => Len(Offered(recv[h], e)) <= Cap
        /\ \A i \in 1 .. Len(Offered(recv[h], e)) :
              \/ Offered(recv[h], e)[i] = e
              \/ i \in 1 .. Len(recv[h]) /\ Offered(recv[h], e)[i] = recv[h][i]
    BY <2>2, OfferedKeeps, Zenon
  <2>4. QED
    BY <2>1, <2>3, Zenon
<1>4. \A h \in Handles : recv'[h] \in Seq(Events)
  BY <1>1, <1>2, <1>3
<1>5. recv' = [h \in Handles |-> IF h \in S THEN Offered(recv[h], e) ELSE recv[h]]
  BY DEF Notify
<1>6. recv' \in [Handles -> Seq(Events)]
  BY <1>2, <1>4, <1>5
<1>7. QED
  BY <1>2, <1>3, <1>6

\* The room a join finds or makes.
LEMMA TargetIsRoom ==
    ASSUME TypeOK, NEW n \in Names
    PROVE  /\ Target(n) \in RoomObjects
           /\ Target(n)[1] = n
           /\ Target(n)[2] = IF registry[n] = 0 THEN made[n] + 1 ELSE registry[n]
  BY DEF Target, TypeOK, RoomObjects

-----------------------------------------------------------------------------
\* Type correctness: names stand for numbered room objects, and only events
\* of this broker's sessions are ever put into a channel.
THEOREM RoomsTypeCorrect == Spec => []TypeOK
<1>1. Init => TypeOK
  BY DEF Init, TypeOK
<1>2. TypeOK /\ [Next]_vars => TypeOK'
  <2> SUFFICES ASSUME TypeOK, [Next]_vars PROVE TypeOK'
    OBVIOUS
  <2>1. ASSUME NEW h \in Handles, NEW n \in Names, Join(h, n) PROVE TypeOK'
    <3>1. Event(h, "join", Nothing) \in Events
      BY EventIsEvent
    <3>2. recv' \in [Handles -> Seq(Events)]
      BY <2>1, <3>1, NotifyKeeps DEF Join
    <3>3. Target(n) \in RoomObjects /\ Target(n)[2] \in Nat
      BY TargetIsRoom DEF TypeOK
    <3>4. QED
      BY <2>1, <3>2, <3>3 DEF Join, TypeOK
  <2>2. ASSUME NEW h \in Handles, NEW n \in Names, Rejected(h, n) PROVE TypeOK'
    BY <2>2 DEF Rejected, TypeOK
  <2>3. ASSUME NEW h \in Handles, NEW d \in Payloads, Send(h, d) PROVE TypeOK'
    <3>1. Event(h, "data", d) \in Events
      BY EventIsEvent
    <3>2. recv' \in [Handles -> Seq(Events)]
      BY <2>3, <3>1, NotifyKeeps DEF Send
    <3>3. QED
      BY <2>3, <3>2 DEF Send, TypeOK
  <2>4. ASSUME NEW h \in Handles, Leave(h) PROVE TypeOK'
    <3>1. Event(h, "leave", Nothing) \in Events
      BY EventIsEvent
    <3>2. recv' \in [Handles -> Seq(Events)]
      BY <2>4, <3>1, NotifyKeeps DEF Leave
    <3>3. QED
      BY <2>4, <3>2 DEF Leave, TypeOK
  <2>5. ASSUME NEW h \in Handles, Receive(h) PROVE TypeOK'
    BY <2>5 DEF Receive, TypeOK
  <2>6. CASE UNCHANGED vars
    BY <2>6 DEF vars, TypeOK
  <2>7. QED
    BY <2>1, <2>2, <2>3, <2>4, <2>5, <2>6 DEF Next
<1>3. QED
  BY <1>1, <1>2, PTL DEF Spec

-----------------------------------------------------------------------------
(***************************************************************************)
(* The invariants need one another, and three facts more: rooms are        *)
(* numbered from 1 (0 is "no room"); a handle that has joined is listed    *)
(* until it is closed; and a handle has heard nothing before it joins.     *)
(***************************************************************************)
Numbered == \A h \in Handles : room[h] # Outside => room[h][2] > 0

Present ==
    \A h \in Handles :
        /\ room[h] = Outside => h \notin listed /\ h \notin closed /\ recv[h] = <<>>
        /\ room[h] # Outside => (h \in listed \/ h \in closed)
                                /\ UserOf[h] \in Participants[room[h][1]]

IInv == NoClosedListed /\ NoOrphan /\ NoEmptyRoom /\ HearsOnlyPeers /\ Numbered /\ Present

LEMMA InitIInv == Init => IInv
  BY CapAssumption
  DEF Init, IInv, NoClosedListed, NoOrphan, NoEmptyRoom, HearsOnlyPeers, Numbered, Present

\* What a step does to the channels keeps HearsOnlyPeers if no handle changes
\* rooms but one that has heard nothing, and what is added fits the listener.
LEMMA HearingKept ==
    ASSUME TypeOK, HearsOnlyPeers, NEW S, NEW e \in Events, Notify(S, e),
           \A h \in Handles : room'[h] = room[h] \/ (recv[h] = <<>> /\ h \notin S),
           \A h \in Handles : h \in S => Fit(h, e)
    PROVE  HearsOnlyPeers'
<1> SUFFICES ASSUME NEW h \in Handles, NEW i \in 1 .. Len(recv'[h])
             PROVE  /\ Len(recv'[h]) <= Cap
                    /\ recv'[h][i].from \in Participants[room'[h][1]]
                    /\ recv'[h][i].kind = "data" => recv'[h][i].session # SessionOf[h]
  BY DEF HearsOnlyPeers
<1>0. recv[h] \in Seq(Events)
  BY DEF TypeOK
<1>1. CASE h \in S
  <2>1. room'[h] = room[h]
    BY <1>1
  <2>2. Len(recv[h]) <= Cap
    BY <1>0, CapAssumption DEF HearsOnlyPeers
  <2>3. Len(recv'[h]) <= Cap
    BY <2>2, NotifyKeeps
  <2>4. CASE recv'[h][i] = e
    BY <1>1, <2>1, <2>3, <2>4 DEF Fit
  <2>5. CASE i \in 1 .. Len(recv[h]) /\ recv'[h][i] = recv[h][i]
    BY <2>1, <2>3, <2>5 DEF HearsOnlyPeers
  <2>6. QED
    BY <2>4, <2>5, NotifyKeeps
<1>2. CASE h \notin S
  <2>1. recv'[h] = recv[h]
    BY <1>2, NotifyKeeps
  <2>2. i \in 1 .. Len(recv[h]) /\ recv[h] # <<>>
    BY <2>1, <1>0
  <2>3. room'[h] = room[h]
    BY <2>2
  <2>4. QED
    BY <2>1, <2>2, <2>3 DEF HearsOnlyPeers
<1>3. QED
  BY <1>1, <1>2

LEMMA JoinIInv ==
    ASSUME TypeOK, IInv, NEW h \in Handles, NEW n \in Names, Join(h, n)
    PROVE  IInv'
<1> DEFINE t == Target(n)
<1>1. /\ t \in RoomObjects /\ t[1] = n /\ t # Outside /\ t[2] \in Nat
      /\ t[2] = IF registry[n] = 0 THEN made[n] + 1 ELSE registry[n]
  BY TargetIsRoom, OutsideAssumption DEF TypeOK, RoomObjects
<1>2. /\ room[h] = Outside /\ UserOf[h] \in Participants[n]
      /\ h \notin listed /\ h \notin closed /\ recv[h] = <<>>
  BY DEF Join, IInv, Present
<1>3. /\ room'[h] = t /\ registry'[n] = t[2] /\ made'[n] = t[2]
      /\ listed' = listed \cup {h} /\ closed' = closed
      /\ \A g \in Handles \ {h} : room'[g] = room[g]
      /\ \A k \in Names \ {n} : registry'[k] = registry[k] /\ made'[k] = made[k]
      /\ Notify(Members(t), Event(h, "join", Nothing))
  BY <1>1 DEF Join, TypeOK
<1>4. \A g \in listed : room[g] # Outside /\ room[g][1] = n => room[g] = t
  <2>1. \A g \in listed : room[g] # Outside /\ registry[room[g][1]] = room[g][2] /\ room[g][2] > 0
    BY DEF IInv, NoOrphan, Numbered, TypeOK
  <2>2. \A g \in Handles : room[g] # Outside => room[g] = <<room[g][1], room[g][2]>>
    BY DEF TypeOK, RoomObjects
  <2>3. \A g \in listed : room[g] # Outside /\ room[g][1] = n => registry[n] # 0 /\ room[g] = <<n, registry[n]>>
    BY <2>1, <2>2 DEF TypeOK, RoomObjects
  <2>4. QED
    BY <2>3 DEF Target
<1>5. NoClosedListed'
  BY <1>2, <1>3 DEF IInv, NoClosedListed
<1>6. NoOrphan'
  <2> SUFFICES ASSUME NEW g \in listed' PROVE room'[g] # Outside /\ registry'[room'[g][1]] = room'[g][2]
    BY DEF NoOrphan
  <2>1. CASE g = h
    BY <2>1, <1>1, <1>3
  <2>2. CASE g # h
    <3>1. g \in listed /\ room'[g] = room[g] /\ room[g] # Outside
          /\ registry[room[g][1]] = room[g][2] /\ room[g][1] \in Names
      BY <2>2, <1>3 DEF IInv, NoOrphan, TypeOK, RoomObjects
    <3>2. QED
      BY <3>1, <1>1, <1>3, <1>4
  <2>3. QED
    BY <2>1, <2>2
<1>7. NoEmptyRoom'
  <2> SUFFICES ASSUME NEW k \in Names, registry'[k] # 0
               PROVE  \E g \in listed' : room'[g] = <<k, registry'[k]>>
    BY DEF NoEmptyRoom, Members
  <2>1. CASE k = n
    BY <2>1, <1>1, <1>3 DEF RoomObjects
  <2>2. CASE k # n
    <3>1. PICK g \in listed : room[g] = <<k, registry[k]>>
      BY <2>2, <1>3 DEF IInv, NoEmptyRoom, Members
    <3>2. g # h
      BY <3>1, <1>2
    <3>3. QED
      BY <2>2, <3>1, <3>2, <1>3 DEF TypeOK
  <2>3. QED
    BY <2>1, <2>2
<1>8. Numbered'
  <2>1. t[2] > 0
    BY <1>1 DEF TypeOK
  <2>2. QED
    BY <2>1, <1>3 DEF IInv, Numbered
<1>9. HearsOnlyPeers'
  <2>1. Event(h, "join", Nothing) \in Events
    BY EventIsEvent
  <2>2. \A g \in Handles : g \in Members(t) => Fit(g, Event(h, "join", Nothing))
    BY <1>1, <1>2 DEF Members, Fit, Event
  <2>3. \A g \in Handles : room'[g] = room[g] \/ (recv[g] = <<>> /\ g \notin Members(t))
    BY <1>1, <1>2, <1>3 DEF Members
  <2>4. QED
    BY <2>1, <2>2, <2>3, <1>3, HearingKept DEF IInv
<1>10. Present'
  <2>1. \A g \in Handles \ {h} : recv[g] = <<>> /\ g \notin Members(t) => recv'[g] = <<>>
    BY <1>3 , EventIsEvent, NotifyKeeps
  <2>2. QED
    BY <2>1, <1>1, <1>2, <1>3 DEF IInv, Present, Members
<1>11. QED
  BY <1>5, <1>6, <1>7, <1>8, <1>9, <1>10 DEF IInv

LEMMA LeaveIInv ==
    ASSUME TypeOK, IInv, NEW h \in Handles, Leave(h)
    PROVE  IInv'
<1> DEFINE rest == Members(room[h]) \ {h}
<1>1. /\ room[h] # Outside /\ h \in listed /\ h \notin closed
      /\ UserOf[h] \in Participants[room[h][1]]
      /\ registry[room[h][1]] = room[h][2] /\ room[h][1] \in Names
      /\ room[h] = <<room[h][1], room[h][2]>>
  BY DEF Leave, IInv, Present, NoOrphan, TypeOK, RoomObjects
<1>2. /\ room' = room /\ listed' = listed \ {h} /\ closed' = closed \cup {h} /\ made' = made
      /\ Notify(rest, Event(h, "leave", Nothing))
      /\ registry' = IF rest = {} THEN [registry EXCEPT ![room[h][1]] = 0] ELSE registry
  BY DEF Leave
<1>3. \A g \in listed : room[g] # Outside /\ registry[room[g][1]] = room[g][2]
                        /\ room[g] = <<room[g][1], room[g][2]>>
  BY DEF IInv, NoOrphan, TypeOK, RoomObjects
<1>4. NoClosedListed'
  BY <1>2 DEF IInv, NoClosedListed
<1>5. NoOrphan'
  <2> SUFFICES ASSUME NEW g \in listed, g # h
               PROVE  registry'[room[g][1]] = room[g][2]
    BY <1>2, <1>3 DEF NoOrphan
  <2>1. CASE rest = {}
    <3>1. room[g] # room[h]
      BY <2>1 DEF Members
    <3>2. room[g][1] # room[h][1]
      BY <3>1, <1>1, <1>3
    <3>3. QED
      BY <3>2, <1>2, <1>3, <2>1 DEF TypeOK
  <2>2. CASE rest # {}
    BY <2>2, <1>2, <1>3
  <2>3. QED
    BY <2>1, <2>2
<1>6. NoEmptyRoom'
  <2> SUFFICES ASSUME NEW k \in Names, registry'[k] # 0
               PROVE  \E g \in listed' : room'[g] = <<k, registry'[k]>>
    BY DEF NoEmptyRoom, Members
  <2>1. CASE k = room[h][1]
    <3>1. rest # {} /\ registry' = registry
      BY <2>1, <1>1, <1>2 DEF TypeOK
    <3>2. PICK g \in rest : TRUE
      BY <3>1
    <3>3. g \in listed /\ g # h /\ room[g] = room[h]
      BY <3>2 DEF Members
    <3>4. QED
      BY <3>1, <3>3, <2>1, <1>1, <1>2
  <2>2. CASE k # room[h][1]
    <3>1. registry'[k] = registry[k]
      BY <2>2, <1>2 DEF TypeOK
    <3>2. PICK g \in listed : room[g] = <<k, registry[k]>>
      BY <3>1 DEF IInv, NoEmptyRoom, Members
    <3>3. g # h
      BY <3>2, <2>2
    <3>4. QED
      BY <3>1, <3>2, <3>3, <1>2
  <2>3. QED
    BY <2>1, <2>2
<1>7. HearsOnlyPeers'
  <2>1. Event(h, "leave", Nothing) \in Events
    BY EventIsEvent
  <2>2. \A g \in Handles : g \in rest => Fit(g, Event(h, "leave", Nothing))
    BY <1>1 DEF Members, Fit, Event
  <2>3. QED
    BY <2>1, <2>2, <1>2, HearingKept DEF IInv
<1>8. Present'
  <2>1. \A g \in Handles : room[g] = Outside => g \notin rest
    BY <1>1 DEF Members
  <2>2. \A g \in Handles : g \notin rest => recv'[g] = recv[g]
    BY <1>2, EventIsEvent, NotifyKeeps
  <2>3. QED
    BY <2>1, <2>2, <1>1, <1>2 DEF IInv, Present
<1>9. Numbered'
  BY <1>2 DEF IInv, Numbered
<1>10. QED
  BY <1>4, <1>5, <1>6, <1>7, <1>8, <1>9 DEF IInv

LEMMA SendIInv ==
    ASSUME TypeOK, IInv, NEW h \in Handles, NEW d \in Payloads, Send(h, d)
    PROVE  IInv'
<1>1. /\ room' = room /\ listed' = listed /\ closed' = closed /\ registry' = registry
      /\ room[h] # Outside /\ Notify(Listeners(h), Event(h, "data", d))
  BY DEF Send
<1>2. UserOf[h] \in Participants[room[h][1]]
  BY <1>1 DEF IInv, Present
<1>3. Event(h, "data", d) \in Events
  BY EventIsEvent
<1>4. \A g \in Handles : g \in Listeners(h) => Fit(g, Event(h, "data", d))
  BY <1>2 DEF Listeners, Members, Fit, Event
<1>5. HearsOnlyPeers'
  BY <1>1, <1>3, <1>4, HearingKept DEF IInv
<1>6. \A g \in Handles : room[g] = Outside => recv'[g] = recv[g]
  BY <1>1, <1>3, NotifyKeeps DEF Listeners, Members
<1>7. Present'
  BY <1>1, <1>6 DEF IInv, Present
<1>8. QED
  BY <1>1, <1>5, <1>7 DEF IInv, NoClosedListed, NoOrphan, NoEmptyRoom, Members, Numbered

LEMMA RejectedIInv ==
    ASSUME TypeOK, IInv, NEW h \in Handles, NEW n \in Names, Rejected(h, n)
    PROVE  IInv'
<1>1. registry' = registry
  <2>1. CASE registry[n] = 0
    BY <2>1 DEF Rejected, TypeOK
  <2>2. CASE registry[n] # 0
    <3>1. Members(Target(n)) # {}
      BY <2>2 DEF IInv, NoEmptyRoom, Target
    <3>2. QED
      BY <3>1 DEF Rejected
  <2>3. QED
    BY <2>1, <2>2
<1>2. UNCHANGED <<registry, room, listed, closed, recv>>
  BY <1>1 DEF Rejected
<1>3. QED
  BY <1>2 DEF IInv, NoClosedListed, NoOrphan, NoEmptyRoom, Members, HearsOnlyPeers, Numbered, Present

LEMMA ReceiveIInv ==
    ASSUME TypeOK, IInv, NEW h \in Handles, Receive(h)
    PROVE  IInv'
<1>1. /\ recv[h] \in Seq(Events) /\ recv[h] # <<>>
      /\ recv'[h] = Tail(recv[h]) /\ \A g \in Handles \ {h} : recv'[g] = recv[g]
      /\ UNCHANGED <<registry, room, listed, closed>>
  BY DEF Receive, TypeOK
<1>2. /\ Len(recv'[h]) = Len(recv[h]) - 1
      /\ \A i \in 1 .. Len(recv'[h]) : i + 1 \in 1 .. Len(recv[h]) /\ recv'[h][i] = recv[h][i + 1]
  BY <1>1
<1>3. HearsOnlyPeers'
  <2> SUFFICES ASSUME NEW g \in Handles, NEW i \in 1 .. Len(recv'[g])
               PROVE  /\ Len(recv'[g]) <= Cap
                      /\ recv'[g][i].from \in Participants[room'[g][1]]
                      /\ recv'[g][i].kind = "data" => recv'[g][i].session # SessionOf[g]
    BY DEF HearsOnlyPeers
  <2>1. CASE g = h
    <3>1. i + 1 \in 1 .. Len(recv[h]) /\ recv'[h][i] = recv[h][i + 1]
      BY <1>2, <2>1
    <3>2. Len(recv[h]) <= Cap /\ Len(recv'[h]) = Len(recv[h]) - 1
      BY <3>1, <1>2 DEF IInv, HearsOnlyPeers
    <3>3. Len(recv'[h]) <= Cap
      BY <3>2, <1>1, CapAssumption
    <3>4. QED
      BY <3>1, <3>3, <2>1, <1>1 DEF IInv, HearsOnlyPeers
  <2>2. CASE g # h
    BY <2>2, <1>1 DEF IInv, HearsOnlyPeers
  <2>3. QED
    BY <2>1, <2>2
<1>4. QED
  BY <1>1, <1>3 DEF IInv, NoClosedListed, NoOrphan, NoEmptyRoom, Members, Numbered, Present

LEMMA StepIInv == TypeOK /\ IInv /\ [Next]_vars => IInv'
<1> SUFFICES ASSUME TypeOK, IInv, [Next]_vars PROVE IInv'
  OBVIOUS
<1>1. CASE Next
  BY <1>1, JoinIInv, RejectedIInv, SendIInv, LeaveIInv, ReceiveIInv DEF Next
<1>2. CASE UNCHANGED vars
  BY <1>2 DEF vars, IInv, NoClosedListed, NoOrphan, NoEmptyRoom, Members, HearsOnlyPeers,
              Numbered, Present
<1>3. QED
  BY <1>1, <1>2

THEOREM IInvHolds == Spec => []IInv
  BY InitIInv, StepIInv, RoomsTypeCorrect, PTL DEF Spec

\* No Send or Leave meets a closed channel in a members list.
THEOREM NeverPanics == Spec => []NoClosedListed
  BY IInvHolds, PTL DEF IInv

\* Whoever is in a room is in the one the next to join will find.
THEOREM NoOrphanEver == Spec => []NoOrphan
  BY IInvHolds, PTL DEF IInv

\* What a member hears was said by a participant, never by its own session.
THEOREM PeersOnly == Spec => []HearsOnlyPeers
  BY IInvHolds, PTL DEF IInv

-----------------------------------------------------------------------------
\* Type correctness

\* Whoever is in JoinID has a room in view.
InView == \A h \in Handles : broker = <<"join", h>> => wanted \in RoomObjects

LEMMA LocksTypeStep == LocksTypeOK /\ InView /\ [LocksNext]_lockVars => LocksTypeOK'
<1> SUFFICES ASSUME LocksTypeOK, InView, [LocksNext]_lockVars PROVE LocksTypeOK'
  OBVIOUS
<1>0. TypeOK
  BY DEF LocksTypeOK
<1>1. ASSUME NEW h \in Handles, NEW n \in Names, JoinFinds(h, n) PROVE LocksTypeOK'
  <2>1. Target(n) \in RoomObjects /\ Target(n)[2] \in Nat
    BY <1>0, TargetIsRoom DEF TypeOK
  <2>2. QED
    BY <1>1, <2>1 DEF JoinFinds, LocksTypeOK, TypeOK
<1>2. ASSUME NEW h \in Handles, JoinEnters(h) PROVE LocksTypeOK'
  <2>0. wanted \in RoomObjects /\ broker' = Free /\ wanted' = Outside /\ sending' = sending
    BY <1>2 DEF JoinEnters, InView
  <2>1. CASE UserOf[h] \in Participants[wanted[1]]
    <3>1. Event(h, "join", Nothing) \in Events
      BY EventIsEvent
    <3>2. recv' \in [Handles -> Seq(Events)]
      BY <1>0, <1>2, <2>1, <3>1, NotifyKeeps DEF JoinEnters
    <3>3. made' \in [Names -> Nat]
      BY <1>2, <2>0, <2>1 DEF JoinEnters, LocksTypeOK, TypeOK, RoomObjects
    <3>4. QED
      BY <1>2, <2>0, <2>1, <3>2, <3>3 DEF JoinEnters, LocksTypeOK, TypeOK
  <2>2. CASE UserOf[h] \notin Participants[wanted[1]]
    <3>1. UNCHANGED <<made, room, listed, closed, recv>>
      BY <1>2, <2>2 DEF JoinEnters
    <3>2. registry' \in [Names -> Nat]
      BY <1>2, <2>2 DEF JoinEnters, LocksTypeOK, TypeOK
    <3>3. QED
      BY <2>0, <3>1, <3>2 DEF LocksTypeOK, TypeOK, RoomObjects
  <2>3. QED
    BY <2>1, <2>2
<1>3. ASSUME NEW h \in Handles, NEW d \in Payloads, SendStarts(h, d) PROVE LocksTypeOK'
  <2>1. Listeners(h) \in SUBSET Handles
    BY <1>0 DEF Listeners, Members, TypeOK
  <2>2. QED
    BY <1>3, <2>1 DEF SendStarts, LocksTypeOK, TypeOK, vars
<1>4. ASSUME NEW s \in sending, SendEnds(s) PROVE LocksTypeOK'
  <2>1. s[1] \in Handles /\ s[2] \in Payloads /\ s[3] \in SUBSET Handles
    BY DEF LocksTypeOK
  <2>2. Event(s[1], "data", s[2]) \in Events
    BY <2>1, EventIsEvent
  <2>3. recv' \in [Handles -> Seq(Events)]
    BY <1>0, <1>4, <2>2, NotifyKeeps DEF SendEnds
  <2>4. QED
    BY <1>4, <2>3 DEF SendEnds, LocksTypeOK, TypeOK
<1>5. ASSUME NEW h \in Handles, LeaveStarts(h) PROVE LocksTypeOK'
  BY <1>5 DEF LeaveStarts, LocksTypeOK, TypeOK, vars
<1>6. ASSUME NEW h \in Handles, LeaveEnds(h) PROVE LocksTypeOK'
  <2>1. TypeOK'
    <3>1. CASE Leave(h)
      <4>1. Event(h, "leave", Nothing) \in Events
        BY EventIsEvent
      <4>2. recv' \in [Handles -> Seq(Events)]
        BY <1>0, <3>1, <4>1, NotifyKeeps DEF Leave
      <4>3. QED
        BY <1>0, <3>1, <4>2 DEF Leave, TypeOK
    <3>2. CASE UNCHANGED vars
      BY <1>0, <3>2 DEF vars, TypeOK
    <3>3. QED
      BY <1>6, <3>1, <3>2 DEF LeaveEnds
  <2>2. QED
    BY <1>6, <2>1 DEF LeaveEnds, LocksTypeOK
<1>7. ASSUME NEW h \in Handles, Take(h) PROVE LocksTypeOK'
  BY <1>7 DEF Take, Receive, LocksTypeOK, TypeOK
<1>8. CASE UNCHANGED lockVars
  BY <1>8 DEF lockVars, LocksTypeOK, TypeOK
<1>9. QED
  BY <1>1, <1>2, <1>3, <1>4, <1>5, <1>6, <1>7, <1>8 DEF LocksNext, Begins, Ends, SendOf

LEMMA InViewStep == LocksTypeOK /\ InView /\ [LocksNext]_lockVars => InView'
<1> SUFFICES ASSUME LocksTypeOK, InView, [LocksNext]_lockVars PROVE InView'
  OBVIOUS
<1>1. ASSUME NEW h \in Handles, NEW n \in Names, JoinFinds(h, n) PROVE InView'
  BY <1>1, TargetIsRoom DEF JoinFinds, LocksTypeOK, InView
<1>2. ASSUME NEW h \in Handles, JoinEnters(h) \/ LeaveEnds(h) PROVE InView'
  BY <1>2, FreeAssumption DEF JoinEnters, LeaveEnds, InView
<1>3. ASSUME NEW h \in Handles, LeaveStarts(h) PROVE InView'
  BY <1>3 DEF LeaveStarts, InView
<1>4. CASE broker' = broker /\ wanted' = wanted
  BY <1>4 DEF InView
<1>5. QED
  BY <1>1, <1>2, <1>3, <1>4
  DEF LocksNext, Begins, Ends, SendOf, SendStarts, SendEnds, Take, lockVars

\* The mutexes are held by handles, and what is being sent is a payload.
THEOREM LocksTypeCorrect == LocksSpec => []LocksTypeOK
<1>1. LocksInit => LocksTypeOK /\ InView
  BY FreeAssumption DEF LocksInit, Init, LocksTypeOK, TypeOK, InView
<1>2. LocksTypeOK /\ InView /\ [LocksNext]_lockVars => (LocksTypeOK /\ InView)'
  BY LocksTypeStep, InViewStep
<1>3. QED
  BY <1>1, <1>2, PTL DEF LocksSpec

-----------------------------------------------------------------------------
(***************************************************************************)
(* The invariant.  While a Send holds its room's mutex nobody enters or    *)
(* leaves that room, so what it read of the members list stays true;       *)
(* while a JoinID is on its way to a room, the broker's mutex keeps the    *)
(* room registered, even if it is the one empty room there is.             *)
(***************************************************************************)
Joined ==
    \A h \in Handles :
        /\ room[h] = Outside => h \notin listed /\ h \notin closed
        /\ room[h] # Outside => h \in listed \/ h \in closed

Locked == \A s \in sending : room[s[1]] # Outside /\ s[3] = Listeners(s[1])

Waiting ==
    \A h \in Handles :
        /\ broker = <<"join", h>> =>
              /\ room[h] = Outside
              /\ wanted[2] = registry[wanted[1]] /\ wanted[2] > 0
              /\ Members(wanted) = {} => wanted[2] = made[wanted[1]] + 1
        /\ broker = <<"leave", h>> => room[h] # Outside

Occupied ==
    \A n \in Names : registry[n] # 0 /\ Members(<<n, registry[n]>>) = {} =>
        \E h \in Handles : broker = <<"join", h>> /\ wanted = <<n, registry[n]>>

LInv == NoClosedListed /\ NoOrphan /\ Numbered /\ Joined /\ Locked /\ Waiting /\ Occupied

\* A member's room object is the registered one of its name.
LEMMA MembersKnown ==
    ASSUME LocksTypeOK, LInv, NEW g \in listed
    PROVE  /\ g \in Handles /\ room[g] \in RoomObjects /\ room[g] # Outside
           /\ room[g] = <<room[g][1], registry[room[g][1]]>>
           /\ registry[room[g][1]] > 0
  BY DEF LInv, NoOrphan, Numbered, LocksTypeOK, TypeOK, RoomObjects

\* What the channels hold does not matter to the invariant; the parts about the
\* members do not depend on the locks, nor those about the broker on sends.
LEMMA RoomsStay ==
    ASSUME LInv, UNCHANGED <<registry, made, room, listed, closed>>
    PROVE  NoClosedListed' /\ NoOrphan' /\ Numbered' /\ Joined'
<1>1. NoClosedListed' /\ NoOrphan'
  BY DEF LInv, NoClosedListed, NoOrphan
<1>2. Numbered' /\ Joined'
  BY DEF LInv, Numbered, Joined
<1>3. QED
  BY <1>1, <1>2

LEMMA BrokerStays ==
    ASSUME LInv, UNCHANGED <<registry, made, room, listed, closed, broker, wanted>>
    PROVE  Waiting' /\ Occupied'
<1>1. Waiting'
  BY DEF LInv, Waiting, Members
<1>2. Occupied'
  BY DEF LInv, Occupied, Members
<1>3. QED
  BY <1>1, <1>2

LEMMA SendsStay ==
    ASSUME LInv, UNCHANGED <<room, listed, sending>>
    PROVE  Locked'
  BY DEF LInv, Locked, Listeners, Members

LEMMA JoinFindsKeeps ==
    ASSUME LocksTypeOK, LInv, NEW h \in Handles, NEW n \in Names, JoinFinds(h, n)
    PROVE  LInv'
<1> DEFINE t == Target(n)
<1>1. /\ t \in RoomObjects /\ t = <<n, t[2]>> /\ t[2] > 0
      /\ t[2] = IF registry[n] = 0 THEN made[n] + 1 ELSE registry[n]
  BY TargetIsRoom DEF LocksTypeOK, TypeOK, RoomObjects
<1>2. /\ broker = Free /\ room[h] = Outside /\ broker' = <<"join", h>> /\ wanted' = t
      /\ registry'[n] = t[2] /\ \A k \in Names \ {n} : registry'[k] = registry[k]
      /\ UNCHANGED <<made, room, listed, closed, sending>>
  BY DEF JoinFinds, LocksTypeOK, TypeOK
<1>3. \A k \in Names : registry[k] # 0 => Members(<<k, registry[k]>>) # {}
  BY <1>2, FreeAssumption DEF LInv, Occupied
<1>4. NoOrphan'
  BY <1>1, <1>2, MembersKnown DEF NoOrphan, RoomObjects
<1>5. Waiting'
  <2>1. {g \in listed : room[g] = t} = {} => t[2] = made[n] + 1
    BY <1>1, <1>3 DEF Target, Members
  <2>2. \A g \in Handles : broker' = <<"join", g>> => g = h
    BY <1>2
  <2>3. \A g \in Handles : broker' # <<"leave", g>>
    BY <1>2
  <2>4. registry'[t[1]] = t[2] /\ made'[t[1]] = made[n]
    BY <1>1, <1>2
  <2> HIDE DEF t
  <2>5. QED
    BY <1>1, <1>2, <2>1, <2>2, <2>3, <2>4 DEF Waiting, Members
<1>6. Occupied'
  <2> SUFFICES ASSUME NEW k \in Names, registry'[k] # 0,
                      {g \in listed' : room'[g] = <<k, registry'[k]>>} = {}
               PROVE  broker' = <<"join", h>> /\ wanted' = <<k, registry'[k]>>
    BY DEF Occupied, Members
  <2>1. k = n
    BY <1>2, <1>3 DEF Members
  <2>2. QED
    BY <2>1, <1>1, <1>2
<1>7. Joined' /\ Locked' /\ Numbered' /\ NoClosedListed'
  BY <1>2 DEF LInv, Joined, Locked, Numbered, NoClosedListed, Listeners, Members
<1>8. QED
  BY <1>4, <1>5, <1>6, <1>7 DEF LInv

LEMMA JoinEntersKeeps ==
    ASSUME LocksTypeOK, InView, LInv, NEW h \in Handles, JoinEnters(h)
    PROVE  LInv'
<1> DEFINE n == wanted[1]
<1>1. /\ wanted \in RoomObjects /\ wanted = <<n, registry[n]>> /\ n \in Names
      /\ registry[n] > 0 /\ room[h] = Outside /\ wanted # Outside
      /\ h \notin listed /\ h \notin closed
  BY OutsideAssumption DEF JoinEnters, InView, LInv, Waiting, Joined, RoomObjects
<1>2. broker' = Free /\ closed' = closed /\ sending' = sending /\ Unlocked(wanted)
  BY DEF JoinEnters
<1>3. Waiting'
  BY <1>2, FreeAssumption DEF Waiting
<1>4. \A k \in Names \ {n} : registry[k] # 0 => Members(<<k, registry[k]>>) # {}
  BY <1>1 DEF LInv, Occupied
<1>5. CASE UserOf[h] \in Participants[n]
  <2>1. /\ room'[h] = wanted /\ \A g \in Handles \ {h} : room'[g] = room[g]
        /\ listed' = listed \cup {h} /\ registry' = registry
    BY <1>5 DEF JoinEnters, LocksTypeOK, TypeOK
  <2>2. NoClosedListed' /\ Numbered' /\ Joined'
    BY <1>1, <1>2, <2>1 DEF LInv, NoClosedListed, Numbered, Joined
  <2>3. NoOrphan'
    BY <1>1, <2>1, MembersKnown DEF LInv, NoOrphan
  <2>4. Locked'
    <3> SUFFICES ASSUME NEW s \in sending
                 PROVE  room'[s[1]] # Outside /\ s[3] = Listeners(s[1])'
      BY <1>2 DEF Locked
    <3>1. s[1] \in Handles /\ room[s[1]] # Outside /\ s[3] = Listeners(s[1])
      BY DEF LInv, Locked, LocksTypeOK
    <3>2. s[1] # h /\ room[s[1]] # wanted
      BY <3>1, <1>1, <1>2 DEF Unlocked
    <3>3. Members(room[s[1]])' = Members(room[s[1]])
      BY <3>1, <3>2, <1>1, <2>1 DEF Members, LocksTypeOK, TypeOK
    <3>4. QED
      BY <3>1, <3>2, <3>3, <2>1 DEF Listeners, Members
  <2>5. Occupied'
    <3> SUFFICES ASSUME NEW k \in Names, registry[k] # 0
                 PROVE  Members(<<k, registry[k]>>)' # {}
      BY <2>1 DEF Occupied
    <3>1. CASE k = n
      BY <3>1, <1>1, <2>1 DEF Members
    <3>2. CASE k # n
      <4>1. PICK g \in listed : room[g] = <<k, registry[k]>>
        BY <3>2, <1>4 DEF Members
      <4>2. g # h /\ g \in Handles
        BY <4>1, <1>1 DEF LocksTypeOK, TypeOK
      <4>3. QED
        BY <4>1, <4>2, <2>1 DEF Members
    <3>3. QED
      BY <3>1, <3>2
  <2>6. QED
    BY <1>3, <2>2, <2>3, <2>4, <2>5 DEF LInv
<1>6. CASE UserOf[h] \notin Participants[n]
  <2>1. /\ registry' = IF Members(wanted) = {} THEN [registry EXCEPT ![n] = 0] ELSE registry
        /\ UNCHANGED <<room, listed>>
    BY <1>6 DEF JoinEnters
  <2>2. NoClosedListed' /\ Numbered' /\ Joined' /\ Locked'
    BY <1>2, <2>1
    DEF LInv, NoClosedListed, Numbered, Joined, Locked, Listeners, Members
  <2>3. NoOrphan'
    <3> SUFFICES ASSUME NEW g \in listed, Members(wanted) = {}
                 PROVE  room[g][1] # n
      BY <2>1, MembersKnown DEF NoOrphan, LInv, LocksTypeOK, TypeOK, RoomObjects
    <3>1. room[g] # wanted
      BY DEF Members
    <3>2. QED
      BY <3>1, <1>1, MembersKnown
  <2>4. Occupied'
    <3> SUFFICES ASSUME NEW k \in Names, registry'[k] # 0
                 PROVE  {g \in listed : room[g] = <<k, registry'[k]>>} # {}
      BY <2>1 DEF Occupied, Members
    <3>1. CASE k = n
      BY <3>1, <1>1, <2>1 DEF Members, LocksTypeOK, TypeOK
    <3>2. CASE k # n
      BY <3>2, <1>4, <2>1 DEF Members, LocksTypeOK, TypeOK
    <3>3. QED
      BY <3>1, <3>2
  <2>5. QED
    BY <1>3, <2>2, <2>3, <2>4 DEF LInv
<1>7. QED
  BY <1>5, <1>6

LEMMA LeaveEndsKeeps ==
    ASSUME LocksTypeOK, LInv, NEW h \in Handles, LeaveEnds(h)
    PROVE  LInv'
<1>1. broker' = Free /\ sending' = sending /\ room[h] # Outside /\ Unlocked(room[h])
  BY DEF LeaveEnds, LInv, Waiting
<1>2. Waiting'
  BY <1>1, FreeAssumption DEF Waiting
<1>3. \A k \in Names : registry[k] # 0 => Members(<<k, registry[k]>>) # {}
  BY DEF LInv, Occupied, LeaveEnds
<1>4. CASE UNCHANGED vars
  <2>1. UNCHANGED <<registry, made, room, listed, closed>>
    BY <1>4 DEF vars
  <2>3. Occupied'
    BY <1>3, <1>4 DEF vars, Occupied, Members
  <2>4. QED
    BY <1>1, <1>2, <2>1, <2>3, RoomsStay, SendsStay DEF LInv
<1>5. CASE Leave(h)
  <2> DEFINE rest == Members(room[h]) \ {h}
  <2>1. /\ h \in listed /\ room' = room /\ listed' = listed \ {h} /\ closed' = closed \cup {h}
        /\ registry' = IF rest = {} THEN [registry EXCEPT ![room[h][1]] = 0] ELSE registry
    BY <1>5 DEF Leave, LInv, Joined
  <2>2. NoClosedListed' /\ Numbered' /\ Joined'
    BY <2>1 DEF LInv, NoClosedListed, Numbered, Joined
  <2>3. NoOrphan'
    <3> SUFFICES ASSUME NEW g \in listed, g # h, rest = {}
                 PROVE  room[g][1] # room[h][1]
      BY <2>1, MembersKnown DEF NoOrphan, LInv, LocksTypeOK, TypeOK, RoomObjects
    <3>1. room[g] # room[h]
      BY DEF Members
    <3>2. QED
      BY <3>1, <2>1, MembersKnown
  <2>4. Occupied'
    <3> SUFFICES ASSUME NEW k \in Names, registry'[k] # 0
                 PROVE  \E g \in listed' : room[g] = <<k, registry'[k]>>
      BY <2>1 DEF Occupied, Members
    <3>0. room[h][1] \in Names /\ room[h] = <<room[h][1], registry[room[h][1]]>>
      BY <2>1, MembersKnown DEF RoomObjects
    <3>1. CASE k = room[h][1]
      <4>1. rest # {} /\ registry' = registry
        BY <3>1, <3>0, <2>1 DEF LocksTypeOK, TypeOK
      <4>2. QED
        BY <3>1, <3>0, <4>1, <2>1 DEF Members
    <3>2. CASE k # room[h][1]
      <4>1. registry'[k] = registry[k]
        BY <3>2, <2>1 DEF LocksTypeOK, TypeOK
      <4>2. PICK g \in listed : room[g] = <<k, registry[k]>>
        BY <4>1, <1>3 DEF Members
      <4>3. QED
        BY <3>2, <4>1, <4>2, <2>1
    <3>3. QED
      BY <3>1, <3>2
  <2>5. Locked'
    <3> SUFFICES ASSUME NEW s \in sending
                 PROVE  room[s[1]] # Outside /\ s[3] = Listeners(s[1])'
      BY <1>1, <2>1 DEF Locked
    <3>1. s[1] \in Handles /\ room[s[1]] # Outside /\ s[3] = Listeners(s[1])
      BY DEF LInv, Locked, LocksTypeOK
    <3>2. room[s[1]] # room[h]
      BY <1>1 DEF Unlocked
    <3>3. QED
      BY <3>1, <3>2, <2>1 DEF Listeners, Members
  <2>6. QED
    BY <1>2, <2>2, <2>3, <2>4, <2>5 DEF LInv
<1>6. QED
  BY <1>4, <1>5 DEF LeaveEnds

LEMMA LInvStep == LocksTypeOK /\ InView /\ LInv /\ [LocksNext]_lockVars => LInv'
<1> SUFFICES ASSUME LocksTypeOK, InView, LInv, [LocksNext]_lockVars PROVE LInv'
  OBVIOUS
<1>1. ASSUME NEW h \in Handles, NEW d \in Payloads, SendStarts(h, d) PROVE LInv'
  <2>1. UNCHANGED <<registry, made, room, listed, closed, broker, wanted>>
    BY <1>1 DEF SendStarts, vars
  <2>2. Locked'
    BY <1>1, <2>1 DEF SendStarts, LInv, Locked, Listeners, Members
  <2>3. QED
    BY <2>1, <2>2, RoomsStay, BrokerStays DEF LInv
<1>2. ASSUME NEW s \in sending, SendEnds(s) PROVE LInv'
  <2>1. UNCHANGED <<registry, made, room, listed, closed, broker, wanted>>
    BY <1>2 DEF SendEnds
  <2>2. Locked'
    BY <1>2, <2>1 DEF SendEnds, LInv, Locked, Listeners, Members
  <2>3. QED
    BY <2>1, <2>2, RoomsStay, BrokerStays DEF LInv
<1>3. ASSUME NEW h \in Handles, LeaveStarts(h) PROVE LInv'
  <2>1. /\ UNCHANGED <<registry, made, room, listed, closed, wanted, sending>>
        /\ broker = Free /\ broker' = <<"leave", h>> /\ room[h] # Outside
    BY <1>3 DEF LeaveStarts, vars
  <2>2. Waiting'
    BY <2>1 DEF Waiting
  <2>3. Occupied'
    BY <2>1, FreeAssumption DEF LInv, Occupied, Members
  <2>4. QED
    BY <2>1, <2>2, <2>3, RoomsStay, SendsStay DEF LInv
<1>4. ASSUME NEW h \in Handles, Take(h) PROVE LInv'
  <2>1. UNCHANGED <<registry, made, room, listed, closed, broker, wanted, sending>>
    BY <1>4 DEF Take, Receive
  <2>2. QED
    BY <2>1, RoomsStay, BrokerStays, SendsStay DEF LInv
<1>5. CASE UNCHANGED lockVars
  BY <1>5, RoomsStay, BrokerStays, SendsStay DEF lockVars, LInv
<1>6. QED
  BY <1>1, <1>2, <1>3, <1>4, <1>5, JoinFindsKeeps, JoinEntersKeeps, LeaveEndsKeeps
  DEF LocksNext, Begins, Ends, SendOf

LEMMA LInvHolds == LocksSpec => [](LocksTypeOK /\ InView /\ LInv)
<1>1. LocksInit => LocksTypeOK /\ InView /\ LInv
  BY FreeAssumption DEF LocksInit, Init, LocksTypeOK, TypeOK, InView, LInv, NoClosedListed,
     NoOrphan, Numbered, Joined, Locked, Waiting, Occupied
<1>2. /\ LocksTypeOK /\ InView /\ LInv /\ [LocksNext]_lockVars
      => (LocksTypeOK /\ InView /\ LInv)'
  BY LocksTypeStep, InViewStep, LInvStep
<1>3. QED
  BY <1>1, <1>2, PTL DEF LocksSpec

-----------------------------------------------------------------------------
\* Send never panics: what it puts a payload into is not closed.
THEOREM SendsOnlyOnOpen == LocksSpec => []NeverSendsOnClosed
<1>1. LInv => NeverSendsOnClosed
  BY DEF LInv, Locked, NoClosedListed, NeverSendsOnClosed, Listeners, Members
<1>2. QED
  BY <1>1, LInvHolds, PTL

\* A join never races a teardown into an orphan or an empty room that stays.
THEOREM RegistryAlwaysExact == LocksSpec => []RegistryIsExact
<1>1. LInv => RegistryIsExact
  BY FreeAssumption DEF LInv, Occupied, RegistryIsExact, NoEmptyRoom
<1>2. QED
  BY <1>1, LInvHolds, PTL

-----------------------------------------------------------------------------
(***************************************************************************)
(* Refinement.  A JoinID happens when it has the room's mutex, a Send when *)
(* it ends, a Leave when it has both; a name registered for a JoinID still *)
(* on its way stands, in Rooms, for nothing yet.                           *)
(***************************************************************************)
Bar == [n \in Names |-> IF Settled(n) THEN registry[n] ELSE 0]

LEMMA SettledMeans ==
    ASSUME LocksTypeOK, LInv, NEW n \in Names
    PROVE  /\ Settled(n) <=> Members(<<n, registry[n]>>) # {}
           /\ registry[n] = 0 => ~Settled(n)
           /\ Bar[n] = 0 <=> ~Settled(n)
           /\ Settled(n) => Bar[n] = registry[n]
<1>1. Settled(n) <=> Members(<<n, registry[n]>>) # {}
  BY DEF Settled, Members
<1>2. registry[n] = 0 => ~Settled(n)
  BY MembersKnown DEF Settled
<1>3. QED
  BY <1>1, <1>2 DEF Bar

\* With nobody in JoinID the mapped registry is the registry.
LEMMA BarIsRegistry ==
    LocksTypeOK /\ LInv /\ (\A h \in Handles : broker # <<"join", h>>) => Bar = registry
<1> SUFFICES ASSUME LocksTypeOK, LInv, \A h \in Handles : broker # <<"join", h>>
             PROVE  Bar = registry
  OBVIOUS
<1>1. \A n \in Names : registry[n] # 0 => Members(<<n, registry[n]>>) # {}
  BY DEF LInv, Occupied
<1>2. \A n \in Names : Bar[n] = registry[n]
  BY <1>1, SettledMeans
<1>3. QED
  BY <1>2 DEF Bar, LocksTypeOK, TypeOK

LEMMA BarIsRegistryThen ==
    (LocksTypeOK /\ LInv /\ (\A h \in Handles : broker # <<"join", h>>) => Bar = registry)'
  BY BarIsRegistry, PTL

LEMMA JoinFindsStutters ==
    ASSUME LocksTypeOK, LocksTypeOK', LInv, LInv', NEW h \in Handles, NEW n \in Names,
           JoinFinds(h, n)
    PROVE  Bar' = Bar
<1>1. /\ registry'[n] = Target(n)[2] /\ \A k \in Names \ {n} : registry'[k] = registry[k]
      /\ room' = room /\ listed' = listed
  BY DEF JoinFinds, LocksTypeOK, TypeOK
<1>2. \A k \in Names \ {n} : Bar'[k] = Bar[k]
  BY <1>1 DEF Bar, Settled
<1>3. CASE registry[n] # 0
  <2>1. registry'[n] = registry[n]
    BY <1>1, <1>3 DEF Target
  <2>2. QED
    BY <1>1, <1>2, <2>1 DEF Bar, Settled
<1>4. CASE registry[n] = 0
  <2>1. \A g \in listed : room[g][1] # n
    BY <1>4, MembersKnown
  <2>2. ~Settled(n) /\ ~Settled(n)'
    BY <1>1, <2>1 DEF Settled
  <2>3. Bar[n] = 0 /\ Bar'[n] = 0
    BY <2>2 DEF Bar
  <2>4. QED
    BY <1>2, <2>3 DEF Bar
<1>5. QED
  BY <1>3, <1>4

LEMMA JoinEntersRefines ==
    ASSUME LocksTypeOK, LocksTypeOK', InView, LInv, LInv', NEW h \in Handles, JoinEnters(h)
    PROVE  Atomic!Next
<1>0. PICK n \in Names : n = wanted[1]
  BY DEF JoinEnters, InView, RoomObjects
<1>1. /\ wanted \in RoomObjects /\ wanted = <<n, registry[n]>>
      /\ registry[n] # 0 /\ room[h] = Outside
      /\ Members(wanted) = {} => registry[n] = made[n] + 1
  BY <1>0 DEF JoinEnters, InView, LInv, Waiting, RoomObjects, LocksTypeOK, TypeOK
<1>2. wanted = IF Bar[n] = 0 THEN <<n, made[n] + 1>> ELSE <<n, Bar[n]>>
  BY <1>1, SettledMeans
<1>3. Bar' = registry'
  BY FreeAssumption, BarIsRegistryThen DEF JoinEnters
<1>4. \A k \in Names \ {n} : Bar[k] = registry[k]
  <2> SUFFICES ASSUME NEW k \in Names, k # n PROVE Bar[k] = registry[k]
    OBVIOUS
  <2>1. registry[k] # 0 => Members(<<k, registry[k]>>) # {}
    BY <1>1 DEF LInv, Occupied
  <2>2. QED
    BY <2>1, SettledMeans
<1>5. CASE UserOf[h] \in Participants[n]
  <2>1. registry' = registry
    BY <1>0, <1>5 DEF JoinEnters
  <2>2. Bar' = [Bar EXCEPT ![n] = wanted[2]]
    <3>1. \A k \in Names : Bar'[k] = [Bar EXCEPT ![n] = wanted[2]][k]
      BY <1>1, <1>3, <1>4, <2>1 DEF Bar
    <3>2. QED
      BY <3>1 DEF Bar
  <2>3. /\ made' = [made EXCEPT ![n] = wanted[2]] /\ room' = [room EXCEPT ![h] = wanted]
        /\ listed' = listed \cup {h} /\ closed' = closed
        /\ Notify(Members(wanted), Event(h, "join", Nothing))
    BY <1>0, <1>5 DEF JoinEnters
  <2>4. Atomic!Target(n) = wanted
    BY <1>2 DEF Atomic!Target, Bar
  <2>5. Atomic!Notify(Atomic!Members(wanted), Atomic!Event(h, "join", Nothing))
    BY <2>3 DEF Atomic!Notify, Atomic!Members, Atomic!Event, Atomic!Offered,
       Notify, Members, Event, Offered
  <2>6. Atomic!Join(h, n)
    BY <1>1, <1>5, <2>2, <2>3, <2>4, <2>5 DEF Atomic!Join, Bar
  <2>7. QED
    BY <2>6 DEF Atomic!Next
<1>6. CASE UserOf[h] \notin Participants[n]
  <2>1. /\ registry' = IF Members(wanted) = {} THEN [registry EXCEPT ![n] = 0] ELSE registry
        /\ UNCHANGED <<made, room, listed, closed, recv>>
    BY <1>0, <1>6 DEF JoinEnters
  <2>2. Bar' = IF Members(wanted) = {} THEN [Bar EXCEPT ![n] = 0] ELSE Bar
    <3>1. CASE Members(wanted) = {}
      BY <1>1, <1>3, <1>4, <2>1, <3>1 DEF Bar, LocksTypeOK, TypeOK
    <3>2. CASE Members(wanted) # {}
      <4>1. Bar[n] = registry[n]
        BY <3>2, <1>1, SettledMeans
      <4>2. QED
        BY <4>1, <1>3, <1>4, <2>1, <3>2 DEF Bar
    <3>3. QED
      BY <3>1, <3>2
  <2>3. Atomic!Target(n) = wanted
    BY <1>2 DEF Atomic!Target, Bar
  <2>4. Atomic!Members(wanted) = Members(wanted)
    BY DEF Atomic!Members, Members
  <2>5. Atomic!Rejected(h, n)
    BY <1>1, <1>6, <2>1, <2>2, <2>3, <2>4 DEF Atomic!Rejected, Bar
  <2>6. QED
    BY <2>5 DEF Atomic!Next
<1>7. QED
  BY <1>5, <1>6

LEMMA LeaveRefines ==
    ASSUME LocksTypeOK, LocksTypeOK', LInv, LInv', NEW h \in Handles, LeaveEnds(h), Leave(h)
    PROVE  Atomic!Next
<1>1. Bar = registry
  BY BarIsRegistry DEF LeaveEnds
<1>2. Bar' = registry'
  BY FreeAssumption, BarIsRegistryThen DEF LeaveEnds
<1>3. Atomic!Notify(Atomic!Members(room[h]) \ {h}, Atomic!Event(h, "leave", Nothing))
  BY DEF Leave, Atomic!Notify, Atomic!Members, Atomic!Event, Atomic!Offered,
     Notify, Members, Event, Offered
<1>4. Bar' = IF Atomic!Members(room[h]) \ {h} = {} THEN [Bar EXCEPT ![room[h][1]] = 0] ELSE Bar
  BY <1>1, <1>2 DEF Leave, Members, Atomic!Members
<1>5. Atomic!Leave(h)
  BY <1>3, <1>4 DEF Leave, Atomic!Leave, Bar
<1>6. QED
  BY <1>5 DEF Atomic!Next

LEMMA SendRefines ==
    ASSUME LocksTypeOK, LInv, NEW s \in sending, SendEnds(s)
    PROVE  Atomic!Next
<1>1. s[1] \in Handles /\ s[2] \in Payloads /\ room[s[1]] # Outside /\ s[3] = Listeners(s[1])
  BY DEF LocksTypeOK, LInv, Locked
<1>2. UNCHANGED <<registry, made, room, listed, closed>>
  BY DEF SendEnds
<1>3. Bar' = Bar
  BY <1>2 DEF Bar, Settled
<1>4. Atomic!Notify(Atomic!Listeners(s[1]), Atomic!Event(s[1], "data", s[2]))
  BY <1>1 DEF SendEnds, Atomic!Notify, Atomic!Listeners, Atomic!Members, Atomic!Event,
     Atomic!Offered, Notify, Listeners, Members, Event, Offered
<1>5. Atomic!Send(s[1], s[2])
  BY <1>1, <1>2, <1>3, <1>4 DEF Atomic!Send, Bar
<1>6. QED
  BY <1>1, <1>5 DEF Atomic!Next

LEMMA LocksStepRefines ==
    ASSUME LocksTypeOK, LocksTypeOK', InView, LInv, LInv', [LocksNext]_lockVars
    PROVE  [Atomic!Next]_(Atomic!vars)
<1>1. ASSUME Bar' = Bar, UNCHANGED <<made, room, listed, closed, recv>>
      PROVE  UNCHANGED Atomic!vars
  BY <1>1 DEF Atomic!vars, Bar
<1>2. ASSUME UNCHANGED vars PROVE UNCHANGED Atomic!vars
  <2>1. Bar' = Bar
    BY <1>2 DEF vars, Bar, Settled
  <2>2. QED
    BY <1>1, <1>2, <2>1 DEF vars
<1>3. ASSUME NEW h \in Handles, NEW n \in Names, JoinFinds(h, n) PROVE UNCHANGED Atomic!vars
  BY <1>1, <1>3, JoinFindsStutters DEF JoinFinds
<1>4. ASSUME NEW h \in Handles, LeaveEnds(h) PROVE [Atomic!Next]_(Atomic!vars)
  BY <1>2, <1>4, LeaveRefines DEF LeaveEnds
<1>5. ASSUME NEW h \in Handles, Take(h) PROVE Atomic!Next
  <2>1. Bar' = Bar
    BY <1>5 DEF Take, Receive, Bar, Settled
  <2>2. Atomic!Receive(h)
    BY <1>5, <2>1 DEF Take, Receive, Atomic!Receive, Bar
  <2>3. QED
    BY <2>2 DEF Atomic!Next
<1>6. ASSUME UNCHANGED lockVars \/ \E h \in Handles : LeaveStarts(h) \/ \E d \in Payloads : SendStarts(h, d)
      PROVE  UNCHANGED Atomic!vars
  BY <1>2, <1>6 DEF lockVars, vars, LeaveStarts, SendStarts
<1>7. QED
  BY <1>3, <1>4, <1>5, <1>6, SendRefines, JoinEntersRefines
  DEF LocksNext, Begins, Ends, SendOf

\* With its two mutexes the broker does what Rooms does in single steps, so
\* all that is said of Rooms holds of the code's finer steps.
THEOREM LocksImplementRooms == LocksSpec => ImplementsRooms
<1>1. LocksInit => Atomic!Init
  BY DEF LocksInit, Init, Atomic!Init, Settled
<1>2. /\ LocksTypeOK /\ LocksTypeOK' /\ InView /\ LInv /\ LInv' /\ [LocksNext]_lockVars
      => [Atomic!Next]_(Atomic!vars)
  BY LocksStepRefines
<1>3. QED
  BY <1>1, <1>2, LInvHolds, PTL DEF LocksSpec, ImplementsRooms, Atomic!Spec
=============================================================================

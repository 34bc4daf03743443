------------------------- MODULE CallTrunk_proofs -------------------------
(***************************************************************************)
(* Proofs about a call between two nodes, for a connection of any          *)
(* capacity: type correctness, and what the two nodes may conclude from    *)
(* the frames and failures they see before the answer.                     *)
(***************************************************************************)
EXTENDS CallTrunk, TLAPS

-----------------------------------------------------------------------------
\* Type correctness

\* A write leaves the connection within its capacity.
LEMMA WritesType ==
    ASSUME TypeOK, NEW s \in Sides, NEW f \in Frames, Writes(s, f)
    PROVE  /\ wire' \in [Sides -> Seq(Frames)] /\ \A x \in Sides : Len(wire'[x]) <= Cap
           /\ lost' \in BOOLEAN
<1>1. CASE Other(s) \in open /\ Len(wire[s]) < Cap
  <2>1. wire[s] \in Seq(Frames) /\ Len(wire[s]) \in Nat
    BY DEF TypeOK
  <2>2. Append(wire[s], f) \in Seq(Frames) /\ Len(Append(wire[s], f)) = Len(wire[s]) + 1
    BY <2>1
  <2>3. CASE wire' = [wire EXCEPT ![s] = Append(@, f)] /\ lost' = lost
    BY <1>1, <2>1, <2>2, <2>3, CapAssumption DEF TypeOK
  <2>4. CASE lost' = TRUE /\ wire' = wire
    BY <2>4 DEF TypeOK
  <2>5. QED
    BY <2>3, <2>4 DEF Writes
<1>2. CASE ~(Other(s) \in open /\ Len(wire[s]) < Cap)
  BY <1>2 DEF Writes, TypeOK
<1>3. QED
  BY <1>1, <1>2

\* So does a close.
LEMMA ClosesType ==
    ASSUME TypeOK, NEW s \in Sides, Closes(s)
    PROVE  /\ open' \subseteq Sides
           /\ wire' \in [Sides -> Seq(Frames)] /\ \A x \in Sides : Len(wire'[x]) <= Cap
<1>1. Other(s) \in Sides /\ <<>> \in Seq(Frames) /\ Len(<<>>) <= Cap
  BY CapAssumption DEF Other, Sides
<1>2. QED
  BY <1>1 DEF Closes, TypeOK

\* Ending a call and leaving a room change a state into another.
LEMMA EndedType ==
    ASSUME TypeOK, NEW s \in Sides, Ended(s)
    PROVE  call' \in [Sides -> {"none", "ringing", "active", "ended"}]
  BY DEF Ended, TypeOK

LEMMA LeftType ==
    ASSUME TypeOK, NEW s \in Sides, Left(s)
    PROVE  standin' \in [Sides -> {"out", "in", "left"}]
  BY DEF Left, TypeOK

LEMMA InitType == Init => TypeOK
<1>1. <<>> \in Seq(Frames) /\ Len(<<>>) <= Cap
  BY CapAssumption
<1>2. Init => wire \in [Sides -> Seq(Frames)] /\ \A s \in Sides : Len(wire[s]) <= Cap
  BY <1>1 DEF Init
<1>3. QED
  BY <1>2 DEF Init, TypeOK

\* Every variable of the trunk keeps its type, and neither direction of the
\* connection holds more than Cap frames (conn.go:37-41: a write waits).
THEOREM TypeCorrect == Spec => []TypeOK
<1>1. Init => TypeOK
  BY InitType
<1>2. TypeOK /\ [Next]_vars => TypeOK'
  <2> SUFFICES ASSUME TypeOK, [Next]_vars
               PROVE  TypeOK'
    OBVIOUS
  <2> USE DEF line, setup, room
  <2> DEFINE WireOK == wire' \in [Sides -> Seq(Frames)] /\ \A x \in Sides : Len(wire'[x]) <= Cap
  <2>0. "near" \in Sides /\ "far" \in Sides
    BY DEF Sides
  <2>1. CASE PlaceCall
    BY <2>1 DEF PlaceCall, TypeOK
  <2>2. CASE DialFails
    BY <2>2 DEF DialFails, Ended, TypeOK
  <2>3. CASE Dial
    BY <2>3 DEF Dial, TypeOK
  <2>4. CASE CloseAtEnd
    BY <2>0, <2>4, ClosesType DEF CloseAtEnd, TypeOK
  <2>5. CASE Refused
    BY <2>5 DEF Refused, Takes, Ended, TypeOK
  <2>6. CASE Bridge
    BY <2>6 DEF Bridge, Takes, StartRelay, TypeOK
  <2>7. CASE AcceptNear
    BY <2>7 DEF AcceptNear, TypeOK
  <2>8. CASE LeaveNear
    BY <2>8 DEF LeaveNear, Left, TypeOK
  <2>9. CASE TurnAway \/ Ring \/ Notify
    <3>1. CASE TurnAway \/ Ring
      BY <3>1 DEF TurnAway, Ring, TypeOK
    <3>2. CASE Notify
      BY <3>2 DEF Notify, Ended, TypeOK
    <3>3. QED
      BY <2>9, <3>1, <3>2
  <2>10. CASE JoinFar \/ SeesEnd \/ SeesCancel
    <3>1. CASE JoinFar
      BY <3>1 DEF JoinFar, TypeOK
    <3>2. CASE SeesEnd
      BY <3>2 DEF SeesEnd, TypeOK
    <3>3. CASE SeesCancel
      BY <3>3 DEF SeesCancel, Ended, TypeOK
    <3>4. QED
      BY <2>10, <3>1, <3>2, <3>3
  <2>11. CASE AnswerFar
    <3>1. CASE Writes("far", "yes") /\ StartRelay("far") /\ UNCHANGED <<call, open>>
      <4>1. WireOK /\ lost' \in BOOLEAN
        BY <2>0, <3>1, WritesType DEF Frames
      <4>2. QED
        BY <2>11, <3>1, <4>1 DEF AnswerFar, StartRelay, TypeOK
    <3>2. CASE Ended("far") /\ Left("far") /\ Closes("far") /\ UNCHANGED <<lost, relay, ender>>
      <4>1. WireOK /\ open' \subseteq Sides
        BY <2>0, <3>2, ClosesType
      <4>2. QED
        BY <2>11, <3>2, <4>1 DEF AnswerFar, Ended, Left, TypeOK
    <3>3. QED
      BY <2>11, <3>1, <3>2 DEF AnswerFar
  <2>12. CASE Reject
    <3>1. WireOK /\ lost' \in BOOLEAN
      BY <2>0, <2>12, WritesType DEF Reject, Frames, TypeOK
    <3>2. QED
      BY <2>12, <3>1 DEF Reject, TypeOK
  <2>13. CASE CloseFar
    BY <2>0, <2>13, ClosesType DEF CloseFar, TypeOK
  <2>14. CASE AnswerCall \/ Lose
    <3>1. CASE AnswerCall
      BY <3>1 DEF AnswerCall, TypeOK
    <3>2. CASE Lose
      BY <3>2 DEF Lose, TypeOK
    <3>3. QED
      BY <2>14, <3>1, <3>2
  <2>15. ASSUME NEW s \in Sides, Pump(s)
         PROVE  TypeOK'
    <3>1. CASE PumpReads(s)
      <4>1. Other(s) \in Sides /\ wire[Other(s)] \in Seq(Frames) /\ wire[Other(s)] # <<>>
        BY <3>1 DEF PumpReads, Other, Sides, TypeOK
      <4>2. /\ Head(wire[Other(s)]) \in Frames
            /\ Tail(wire[Other(s)]) \in Seq(Frames)
            /\ Len(Tail(wire[Other(s)])) <= Len(wire[Other(s)])
        BY <4>1
      <4>3. Len(Tail(wire[Other(s)])) <= Cap
        BY <4>1, <4>2, CapAssumption DEF TypeOK
      <4>4. WireOK
        BY <3>1, <4>1, <4>2, <4>3 DEF PumpReads, TypeOK
      <4>5. QED
        BY <3>1, <4>2, <4>4 DEF PumpReads, TypeOK
    <3>2. CASE PumpEnds(s)
      BY <3>2 DEF PumpEnds, TypeOK
    <3>3. QED
      BY <2>15, <3>1, <3>2 DEF Pump
  <2>16. ASSUME NEW s \in Sides, Relay(s)
         PROVE  TypeOK'
    <3>1. CASE RelayReads(s)
      BY <3>1 DEF RelayReads, Takes, Turn, TypeOK
    <3>4. CASE RelayTakes(s)
      BY <3>4 DEF RelayTakes, Turn, TypeOK
    <3>2. CASE RelayWrites(s)
      <4>1. WireOK /\ lost' \in BOOLEAN
        BY <3>2, WritesType DEF RelayWrites, Frames
      <4>2. QED
        BY <3>2, <4>1 DEF RelayWrites, Turn, TypeOK
    <3>3. CASE RelayEnds(s)
      <4>1. WireOK /\ open' \subseteq Sides
        BY <3>3, ClosesType DEF RelayEnds, TypeOK
      <4>2. call' \in [Sides -> {"none", "ringing", "active", "ended"}]
        BY <3>3, EndedType DEF RelayEnds
      <4>3. standin' \in [Sides -> {"out", "in", "left"}]
        BY <3>3, LeftType DEF RelayEnds, TypeOK
      <4>4. relay' \in [Sides -> {"off", "loop", "writing", "done"}]
        <5>1. relay' = [relay EXCEPT ![s] = "done"]
          BY <3>3 DEF RelayEnds, HungUp, Cut, Shut, Turn
        <5>2. QED
          BY <5>1 DEF TypeOK
      <4>5. pump' \in [Sides -> {"off", "reading", "done"} \cup Frames]
        BY <3>3 DEF RelayEnds, HungUp, Cut, Shut, Takes, TypeOK
      <4>6. QED
        BY <3>3, <4>1, <4>2, <4>3, <4>4, <4>5 DEF RelayEnds, TypeOK
    <3>5. QED
      BY <2>16, <3>1, <3>2, <3>3, <3>4 DEF Relay
  <2>17. ASSUME NEW s \in Sides, Ender(s)
         PROVE  TypeOK'
    <3>1. CASE EnderSaysGoodbye(s)
      <4>1. WireOK /\ lost' \in BOOLEAN
        BY <3>1, WritesType DEF EnderSaysGoodbye, Frames, TypeOK
      <4>2. QED
        BY <3>1, <4>1 DEF EnderSaysGoodbye, TypeOK
    <3>2. CASE EnderCloses(s)
      BY <3>2, ClosesType DEF EnderCloses, TypeOK
    <3>3. QED
      BY <2>17, <3>1, <3>2 DEF Ender
  <2>18. ASSUME NEW s \in Sides,
                HangUp(s) \/ SocketAdmitted(s) \/ SocketJoins(s) \/ SocketDrops(s) \/ SocketClosed(s)
         PROVE  TypeOK'
    <3>1. CASE HangUp(s)
      BY <3>1, EndedType DEF HangUp, TypeOK
    <3>2. CASE SocketAdmitted(s)
      BY <3>2 DEF SocketAdmitted, TypeOK
    <3>3. CASE SocketJoins(s)
      BY <3>3 DEF SocketJoins, TypeOK
    <3>4. CASE SocketDrops(s)
      BY <3>4, EndedType DEF SocketDrops, TypeOK
    <3>5. CASE SocketClosed(s)
      BY <3>5 DEF SocketClosed, TypeOK
    <3>6. QED
      BY <2>18, <3>1, <3>2, <3>3, <3>4, <3>5
  <2>19. CASE UNCHANGED vars
    BY <2>19 DEF vars, TypeOK
  <2>20. QED
    BY <2>1, <2>2, <2>3, <2>4, <2>5, <2>6, <2>7, <2>8, <2>9, <2>10, <2>11, <2>12, <2>13,
       <2>14, <2>15, <2>16, <2>17, <2>18, <2>19 DEF Next, Waiter, Handler, Side
<1>3. QED
  BY <1>1, <1>2, PTL DEF Spec

-----------------------------------------------------------------------------
\* What the nodes may conclude before the answer

Before == {"opened", "notifying", "waiting", "answering", "rejecting", "canceling"}

\* Nothing has happened on the connection before the far node writes to it.
Quiet ==
    handler \in Before \cup {"off"} =>
        /\ \A s \in Sides : wire[s] = <<>> /\ relay[s] = "off" /\ ender[s] = "off"
        /\ pump["near"] \in {"off", "reading", "done"}
        /\ waiter \in {"off", "waiting", "done"}
        /\ handler \notin {"off"} => "far" \in open

\* Neither node has begun, or both have.
Begun ==
    /\ waiter = "off" <=> handler = "off"
    /\ waiter = "off" => /\ open = {} /\ pump["near"] = "off" /\ closer = "off"
                         /\ pump["far"] = "off"
    /\ waiter # "off" => call["near"] # "none"

\* Without an answer the far node says no, if anything.
Unanswered ==
    ~answered =>
        /\ relay["far"] = "off" /\ ender["far"] = "off"
        /\ wire["far"] \in {<<>>, <<"no">>}
        /\ pump["near"] # "yes"
        /\ handler # "answering"
        /\ waiter \notin {"accepting", "leaving"}
        /\ call["near"] # "active"

\* The near node closes its end only when its call is over.
ClosedIfEnded ==
    /\ waiter # "off" /\ "near" \notin open => call["near"] = "ended"
    /\ ender["near"] = "closing" => call["near"] = "ended"

\* The far pump ends before the answer only when that, or a loss, ends it.
RingCutByCaller ==
    /\ handler \in {"off", "opened", "notifying"} => pump["far"] = "off"
    /\ handler = "waiting" => pump["far"] = "reading" \/ call["near"] = "ended" \/ lost
    /\ CanceledIsReal

\* The first frame that the waiting near node finds is an answer.
AnswerIsHead ==
    waiter = "waiting" =>
        /\ relay["near"] = "off"
        /\ pump["near"] \in {"reading", "done", "yes", "no"}
        /\ pump["near"] = "reading" /\ "near" \in open =>
            \/ wire["far"] = <<>> /\ relay["far"] = "off" /\ ender["far"] = "off"
            \/ wire["far"] # <<>> /\ Head(wire["far"]) \in {"yes", "no"}

IInv ==
    /\ TypeOK /\ Quiet /\ Begun /\ Unanswered
    /\ ClosedIfEnded /\ RingCutByCaller /\ AnswerIsHead

\* What is appended does not come first.
LEMMA HeadStays ==
    ASSUME NEW q \in Seq(Frames), NEW f \in Frames, q # <<>>
    PROVE  Append(q, f) # <<>> /\ Head(Append(q, f)) = Head(q)
OBVIOUS

\* The strengthened invariant is inductive.
LEMMA Inductive ==
    ASSUME IInv, TypeOK', Next
    PROVE  IInv'
<1> USE DEF line, setup, room, Sides
<1>a. /\ TypeOK /\ Quiet /\ Begun /\ Unanswered
      /\ ClosedIfEnded /\ RingCutByCaller /\ AnswerIsHead
  BY DEF IInv
<1> USE <1>a
<1>1. CASE PlaceCall
  BY <1>1 DEF PlaceCall, TypeOK, IInv, Before, Quiet, Begun, Unanswered, ClosedIfEnded, RingCutByCaller, AnswerIsHead, CanceledIsReal
<1>2. CASE DialFails
  BY <1>2 DEF DialFails, Ended, Live, TypeOK, IInv, Before, Quiet, Begun, Unanswered, ClosedIfEnded, RingCutByCaller, AnswerIsHead, CanceledIsReal
<1>3. CASE Dial
  <2>1. Quiet'
    BY <1>3 DEF Dial, TypeOK, Before, Quiet, Begun
  <2>2. Begun'
    BY <1>3 DEF Dial, TypeOK, Before, Begun, Quiet
  <2>3. Unanswered'
    BY <1>3 DEF Dial, TypeOK, Before, Unanswered, Quiet
  <2>4. ClosedIfEnded'
    BY <1>3 DEF Dial, TypeOK, Before, ClosedIfEnded, Begun, Quiet
  <2>5. RingCutByCaller'
    BY <1>3 DEF Dial, TypeOK, Before, RingCutByCaller, Quiet, Begun, ClosedIfEnded, CanceledIsReal
  <2>6. AnswerIsHead'
    BY <1>3 DEF Dial, TypeOK, Before, AnswerIsHead, Quiet, Begun, Unanswered
  <2>7. QED
    BY <2>1, <2>2, <2>3, <2>4, <2>5, <2>6 DEF IInv
<1>4. CASE CloseAtEnd
  BY <1>4 DEF CloseAtEnd, Closes, Other, TypeOK, IInv, Before, Quiet, Begun, Unanswered, ClosedIfEnded, RingCutByCaller, AnswerIsHead, CanceledIsReal
<1>5. CASE Refused
  BY <1>5 DEF Refused, Takes, Ended, Live, TypeOK, IInv, Before, Quiet, Begun, Unanswered, ClosedIfEnded, RingCutByCaller, AnswerIsHead, CanceledIsReal
<1>6. CASE Bridge
  BY <1>6 DEF Bridge, Takes, StartRelay, TypeOK, IInv, Before, Quiet, Begun, Unanswered, ClosedIfEnded, RingCutByCaller, AnswerIsHead, CanceledIsReal
<1>7. CASE AcceptNear
  BY <1>7 DEF AcceptNear, TypeOK, IInv, Before, Quiet, Begun, Unanswered, ClosedIfEnded, RingCutByCaller, AnswerIsHead, CanceledIsReal
<1>8. CASE LeaveNear
  BY <1>8 DEF LeaveNear, Left, TypeOK, IInv, Before, Quiet, Begun, Unanswered, ClosedIfEnded, RingCutByCaller, AnswerIsHead, CanceledIsReal
<1>9. CASE TurnAway
  BY <1>9 DEF TurnAway, TypeOK, IInv, Before, Quiet, Begun, Unanswered, ClosedIfEnded, RingCutByCaller, AnswerIsHead, CanceledIsReal
<1>10. CASE Ring
  BY <1>10 DEF Ring, TypeOK, IInv, Before, Quiet, Begun, Unanswered, ClosedIfEnded, RingCutByCaller, AnswerIsHead, CanceledIsReal
<1>11. CASE Notify
  BY <1>11 DEF Notify, Ended, Live, TypeOK, IInv, Before, Quiet, Begun, Unanswered, ClosedIfEnded, RingCutByCaller, AnswerIsHead, CanceledIsReal
<1>12. CASE JoinFar
  BY <1>12 DEF JoinFar, TypeOK, IInv, Before, Quiet, Begun, Unanswered, ClosedIfEnded, RingCutByCaller, AnswerIsHead, CanceledIsReal
<1>13. CASE SeesEnd
  BY <1>13 DEF SeesEnd, TypeOK, IInv, Before, Quiet, Begun, Unanswered, ClosedIfEnded, RingCutByCaller, AnswerIsHead, CanceledIsReal
<1>14. CASE SeesCancel
  <2>1. Quiet'
    BY <1>14 DEF SeesCancel, Ended, Live, TypeOK, Before, Quiet, Begun
  <2>2. Begun'
    BY <1>14 DEF SeesCancel, Ended, Live, TypeOK, Before, Begun, Quiet
  <2>3. Unanswered'
    BY <1>14 DEF SeesCancel, Ended, Live, TypeOK, Before, Unanswered, Quiet
  <2>4. ClosedIfEnded'
    BY <1>14 DEF SeesCancel, Ended, Live, TypeOK, Before, ClosedIfEnded, Begun, Quiet
  <2>5. RingCutByCaller'
    BY <1>14 DEF SeesCancel, Ended, Live, TypeOK, Before, RingCutByCaller, Quiet, Begun, ClosedIfEnded, CanceledIsReal, Frames
  <2>6. AnswerIsHead'
    BY <1>14 DEF SeesCancel, Ended, Live, TypeOK, Before, AnswerIsHead, Quiet, Begun, Unanswered
  <2>7. QED
    BY <2>1, <2>2, <2>3, <2>4, <2>5, <2>6 DEF IInv
<1>15. CASE AnswerFar
  <2>1. Quiet'
    BY <1>15 DEF AnswerFar, Writes, WriteFails, StartRelay, Ended, Live, Left, Closes, Other, TypeOK, Before, Quiet, Begun
  <2>2. Begun'
    BY <1>15 DEF AnswerFar, Writes, WriteFails, StartRelay, Ended, Live, Left, Closes, Other, TypeOK, Before, Begun, Quiet
  <2>3. Unanswered'
    BY <1>15 DEF AnswerFar, Writes, WriteFails, StartRelay, Ended, Live, Left, Closes, Other, TypeOK, Before, Unanswered, Quiet
  <2>4. ClosedIfEnded'
    BY <1>15 DEF AnswerFar, Writes, WriteFails, StartRelay, Ended, Live, Left, Closes, Other, TypeOK, Before, ClosedIfEnded, Begun, Quiet
  <2>5. RingCutByCaller'
    BY <1>15 DEF AnswerFar, Writes, WriteFails, StartRelay, Ended, Live, Left, Closes, Other, TypeOK, Before, RingCutByCaller, Quiet, Begun, ClosedIfEnded, CanceledIsReal
  <2>6. AnswerIsHead'
    BY <1>15 DEF AnswerFar, Writes, WriteFails, StartRelay, Ended, Live, Left, Closes, Other, TypeOK, Before, AnswerIsHead, Quiet, Begun, Unanswered
  <2>7. QED
    BY <2>1, <2>2, <2>3, <2>4, <2>5, <2>6 DEF IInv
<1>16. CASE Reject
  <2>1. Quiet'
    BY <1>16 DEF Reject, Writes, WriteFails, Other, TypeOK, Before, Quiet, Begun
  <2>2. Begun'
    BY <1>16 DEF Reject, Writes, WriteFails, Other, TypeOK, Before, Begun, Quiet
  <2>3. Unanswered'
    <3>1. wire["far"] = <<>> /\ Append(<<>>, "no") = <<"no">>
      BY <1>16 DEF Reject, Quiet, Before
    <3>2. QED
      BY <1>16, <3>1 DEF Reject, Writes, WriteFails, Other, TypeOK, Unanswered
  <2>4. ClosedIfEnded'
    BY <1>16 DEF Reject, Writes, WriteFails, Other, TypeOK, Before, ClosedIfEnded, Begun, Quiet
  <2>5. RingCutByCaller'
    BY <1>16 DEF Reject, Writes, WriteFails, Other, TypeOK, Before, RingCutByCaller, Quiet, Begun, ClosedIfEnded, CanceledIsReal
  <2>6. AnswerIsHead'
    BY <1>16 DEF Reject, Writes, WriteFails, Other, TypeOK, Before, AnswerIsHead, Quiet, Begun, Unanswered
  <2>7. QED
    BY <2>1, <2>2, <2>3, <2>4, <2>5, <2>6 DEF IInv
<1>17. CASE CloseFar
  BY <1>17 DEF CloseFar, Closes, Other, TypeOK, IInv, Before, Quiet, Begun, Unanswered, ClosedIfEnded, RingCutByCaller, AnswerIsHead, CanceledIsReal
<1>18. CASE AnswerCall
  BY <1>18 DEF AnswerCall, TypeOK, IInv, Before, Quiet, Begun, Unanswered, ClosedIfEnded, RingCutByCaller, AnswerIsHead, CanceledIsReal
<1>19. CASE Lose
  BY <1>19 DEF Lose, TypeOK, IInv, Before, Quiet, Begun, Unanswered, ClosedIfEnded, RingCutByCaller, AnswerIsHead, CanceledIsReal
<1>20. ASSUME NEW s \in Sides, PumpReads(s)
      PROVE  IInv'
  <2>1. Quiet'
    BY <1>20 DEF PumpReads, Other, TypeOK, Before, Quiet, Begun
  <2>2. Begun'
    BY <1>20 DEF PumpReads, Other, TypeOK, Before, Begun, Quiet
  <2>3. Unanswered'
    <3>1. Head(<<"no">>) = "no" /\ Tail(<<"no">>) = <<>> /\ <<"no">> # <<>>
      OBVIOUS
    <3>2. QED
      BY <1>20, <3>1 DEF PumpReads, Other, TypeOK, Unanswered
  <2>4. ClosedIfEnded'
    BY <1>20 DEF PumpReads, Other, TypeOK, Before, ClosedIfEnded, Begun, Quiet
  <2>5. RingCutByCaller'
    BY <1>20 DEF PumpReads, Other, TypeOK, Before, RingCutByCaller, Quiet, Begun, ClosedIfEnded, CanceledIsReal
  <2>6. AnswerIsHead'
    BY <1>20 DEF PumpReads, Other, TypeOK, Before, AnswerIsHead, Quiet, Begun, Unanswered
  <2>7. QED
    BY <2>1, <2>2, <2>3, <2>4, <2>5, <2>6 DEF IInv
<1>21. ASSUME NEW s \in Sides, PumpEnds(s)
      PROVE  IInv'
  <2>1. Quiet'
    BY <1>21 DEF PumpEnds, ReadFails, TypeOK, Before, Quiet, Begun
  <2>2. Begun'
    BY <1>21 DEF PumpEnds, ReadFails, TypeOK, Before, Begun, Quiet
  <2>3. Unanswered'
    BY <1>21 DEF PumpEnds, ReadFails, TypeOK, Before, Unanswered, Quiet
  <2>4. ClosedIfEnded'
    BY <1>21 DEF PumpEnds, ReadFails, TypeOK, Before, ClosedIfEnded, Begun, Quiet
  <2>5. RingCutByCaller'
    <3>1. /\ handler' = handler /\ lost' = lost /\ call' = call
          /\ pump[s] = "reading" /\ ReadFails /\ pump' = [pump EXCEPT ![s] = "done"]
      BY <1>21 DEF PumpEnds, line, setup
    <3>2. handler \in {"off", "opened", "notifying"} => s # "far"
      BY <3>1 DEF RingCutByCaller
    <3>3. handler = "waiting" => call["near"] = "ended" \/ lost
      <4>1. handler = "waiting" => "far" \in open
        BY DEF Quiet, Before
      <4>2. handler = "waiting" => waiter # "off"
        BY DEF Begun
      <4>3. open \subseteq Sides
        BY DEF TypeOK
      <4>4. "far" \in open /\ "near" \in open => open = Sides
        BY <4>3, Zenon DEF Sides
      <4>5. lost \/ open # Sides
        BY <3>1 DEF ReadFails
      <4>6. waiter # "off" /\ "near" \notin open => call["near"] = "ended"
        BY DEF ClosedIfEnded
      <4>7. QED
        BY <4>1, <4>2, <4>4, <4>5, <4>6, Zenon
    <3>4. QED
      BY <3>1, <3>2, <3>3 DEF RingCutByCaller, CanceledIsReal, TypeOK
  <2>6. AnswerIsHead'
    BY <1>21 DEF PumpEnds, ReadFails, TypeOK, Before, AnswerIsHead, Quiet, Begun, Unanswered
  <2>7. QED
    BY <2>1, <2>2, <2>3, <2>4, <2>5, <2>6 DEF IInv
<1>22. ASSUME NEW s \in Sides, RelayReads(s)
      PROVE  IInv'
  <2>1. Quiet'
    BY <1>22 DEF RelayReads, Takes, Turn, TypeOK, Before, Quiet, Begun
  <2>2. Begun'
    BY <1>22 DEF RelayReads, Takes, Turn, TypeOK, Before, Begun, Quiet
  <2>3. Unanswered'
    BY <1>22 DEF RelayReads, Takes, Turn, TypeOK, Before, Unanswered, Quiet
  <2>4. ClosedIfEnded'
    BY <1>22 DEF RelayReads, Takes, Turn, TypeOK, Before, ClosedIfEnded, Begun, Quiet
  <2>5. RingCutByCaller'
    BY <1>22 DEF RelayReads, Takes, Turn, TypeOK, Before, RingCutByCaller, Quiet, Begun, ClosedIfEnded, CanceledIsReal
  <2>6. AnswerIsHead'
    BY <1>22 DEF RelayReads, Takes, Turn, TypeOK, Before, AnswerIsHead, Quiet, Begun, Unanswered
  <2>7. QED
    BY <2>1, <2>2, <2>3, <2>4, <2>5, <2>6 DEF IInv
<1>23. ASSUME NEW s \in Sides, RelayTakes(s)
      PROVE  IInv'
  BY <1>23 DEF RelayTakes, Turn, TypeOK, IInv, Before, Quiet, Begun, Unanswered, ClosedIfEnded, RingCutByCaller, AnswerIsHead, CanceledIsReal
<1>24. ASSUME NEW s \in Sides, RelayWrites(s)
      PROVE  IInv'
  <2>1. Quiet'
    BY <1>24 DEF RelayWrites, Writes, Turn, Other, TypeOK, Before, Quiet, Begun
  <2>2. Begun'
    BY <1>24 DEF RelayWrites, Writes, Turn, Other, TypeOK, Before, Begun, Quiet
  <2>3. Unanswered'
    BY <1>24 DEF RelayWrites, Writes, Turn, Other, TypeOK, Before, Unanswered, Quiet
  <2>4. ClosedIfEnded'
    BY <1>24 DEF RelayWrites, Writes, Turn, Other, TypeOK, Before, ClosedIfEnded, Begun, Quiet
  <2>5. RingCutByCaller'
    BY <1>24 DEF RelayWrites, Writes, Turn, Other, TypeOK, Before, RingCutByCaller, Quiet, Begun, ClosedIfEnded, CanceledIsReal
  <2>6. AnswerIsHead'
    <3>1. CASE s = "near"
      BY <1>24, <3>1 DEF RelayWrites, Writes, Turn, Other, TypeOK, AnswerIsHead
    <3>2. CASE s = "far"
      <4>1. wire["far"] # <<>> =>
               /\ Append(wire["far"], "media") # <<>>
               /\ Head(Append(wire["far"], "media")) = Head(wire["far"])
        BY HeadStays DEF TypeOK, Frames
      <4>2. QED
        BY <1>24, <3>2, <4>1 DEF RelayWrites, Writes, Turn, Other, TypeOK, AnswerIsHead
    <3>3. QED
      BY <3>1, <3>2
  <2>7. QED
    BY <2>1, <2>2, <2>3, <2>4, <2>5, <2>6 DEF IInv
<1>25. ASSUME NEW s \in Sides, RelayEnds(s)
      PROVE  IInv'
  <2>1. Quiet'
    BY <1>25 DEF RelayEnds, HungUp, Cut, Shut, Turn, Takes, WriteFails, Ended, Live, Left, Closes, Other, TypeOK, Before, Quiet, Begun
  <2>2. Begun'
    BY <1>25 DEF RelayEnds, HungUp, Cut, Shut, Turn, Takes, WriteFails, Ended, Live, Left, Closes, Other, TypeOK, Before, Begun, Quiet
  <2>3. Unanswered'
    BY <1>25 DEF RelayEnds, HungUp, Cut, Shut, Turn, Takes, WriteFails, Ended, Live, Left, Closes, Other, TypeOK, Before, Unanswered, Quiet
  <2>4. ClosedIfEnded'
    BY <1>25 DEF RelayEnds, HungUp, Cut, Shut, Turn, Takes, WriteFails, Ended, Live, Left, Closes, Other, TypeOK, Before, ClosedIfEnded, Begun, Quiet
  <2>5. RingCutByCaller'
    BY <1>25 DEF RelayEnds, HungUp, Cut, Shut, Turn, Takes, WriteFails, Ended, Live, Left, Closes, Other, TypeOK, Before, RingCutByCaller, Quiet, Begun, ClosedIfEnded, CanceledIsReal
  <2>6. AnswerIsHead'
    BY <1>25 DEF RelayEnds, HungUp, Cut, Shut, Turn, Takes, WriteFails, Ended, Live, Left, Closes, Other, TypeOK, Before, AnswerIsHead, Quiet, Begun, Unanswered
  <2>7. QED
    BY <2>1, <2>2, <2>3, <2>4, <2>5, <2>6 DEF IInv
<1>26. ASSUME NEW s \in Sides, EnderSaysGoodbye(s)
      PROVE  IInv'
  <2>1. Quiet'
    BY <1>26 DEF EnderSaysGoodbye, Writes, WriteFails, Other, TypeOK, Before, Quiet, Begun
  <2>2. Begun'
    BY <1>26 DEF EnderSaysGoodbye, Writes, WriteFails, Other, TypeOK, Before, Begun, Quiet
  <2>3. Unanswered'
    BY <1>26 DEF EnderSaysGoodbye, Writes, WriteFails, Other, TypeOK, Before, Unanswered, Quiet
  <2>4. ClosedIfEnded'
    BY <1>26 DEF EnderSaysGoodbye, Writes, WriteFails, Other, TypeOK, Before, ClosedIfEnded, Begun, Quiet
  <2>5. RingCutByCaller'
    BY <1>26 DEF EnderSaysGoodbye, Writes, WriteFails, Other, TypeOK, Before, RingCutByCaller, Quiet, Begun, ClosedIfEnded, CanceledIsReal
  <2>6. AnswerIsHead'
    <3>1. CASE s = "near"
      BY <1>26, <3>1 DEF EnderSaysGoodbye, Writes, Other, TypeOK, AnswerIsHead
    <3>2. CASE s = "far"
      <4>1. wire["far"] # <<>> =>
               /\ Append(wire["far"], "bye") # <<>>
               /\ Head(Append(wire["far"], "bye")) = Head(wire["far"])
        BY HeadStays DEF TypeOK, Frames
      <4>2. QED
        BY <1>26, <3>2, <4>1 DEF EnderSaysGoodbye, Writes, Other, TypeOK, AnswerIsHead
    <3>3. QED
      BY <3>1, <3>2
  <2>7. QED
    BY <2>1, <2>2, <2>3, <2>4, <2>5, <2>6 DEF IInv
<1>27. ASSUME NEW s \in Sides, EnderCloses(s)
      PROVE  IInv'
  BY <1>27 DEF EnderCloses, Closes, Other, TypeOK, IInv, Before, Quiet, Begun, Unanswered, ClosedIfEnded, RingCutByCaller, AnswerIsHead, CanceledIsReal
<1>28. ASSUME NEW s \in Sides, HangUp(s)
      PROVE  IInv'
  BY <1>28 DEF HangUp, Ended, Live, TypeOK, IInv, Before, Quiet, Begun, Unanswered, ClosedIfEnded, RingCutByCaller, AnswerIsHead, CanceledIsReal
<1>29. ASSUME NEW s \in Sides, SocketAdmitted(s)
      PROVE  IInv'
  BY <1>29 DEF SocketAdmitted, TypeOK, IInv, Before, Quiet, Begun, Unanswered, ClosedIfEnded, RingCutByCaller, AnswerIsHead, CanceledIsReal
<1>30. ASSUME NEW s \in Sides, SocketJoins(s)
      PROVE  IInv'
  BY <1>30 DEF SocketJoins, TypeOK, IInv, Before, Quiet, Begun, Unanswered, ClosedIfEnded, RingCutByCaller, AnswerIsHead, CanceledIsReal
<1>31. ASSUME NEW s \in Sides, SocketDrops(s)
      PROVE  IInv'
  BY <1>31 DEF SocketDrops, Ended, Live, TypeOK, IInv, Before, Quiet, Begun, Unanswered, ClosedIfEnded, RingCutByCaller, AnswerIsHead, CanceledIsReal
<1>32. ASSUME NEW s \in Sides, SocketClosed(s)
      PROVE  IInv'
  BY <1>32 DEF SocketClosed, TypeOK, IInv, Before, Quiet, Begun, Unanswered, ClosedIfEnded, RingCutByCaller, AnswerIsHead, CanceledIsReal
<1>33. QED
  BY <1>1, <1>2, <1>3, <1>4, <1>5, <1>6, <1>7, <1>8, <1>9, <1>10, <1>11, <1>12, <1>13, <1>14, <1>15, <1>16, <1>17, <1>18, <1>19, <1>20, <1>21, <1>22, <1>23, <1>24, <1>25, <1>26, <1>27, <1>28, <1>29, <1>30, <1>31, <1>32
     DEF Next, Waiter, Handler, Side, Pump, Relay, Ender

\* It holds throughout.
THEOREM Strengthened == Spec => []IInv
<1>1. Init => IInv
  <2>1. Init => TypeOK
    BY InitType
  <2>2. QED
    BY <2>1 DEF Init, IInv, Quiet, Begun, Unanswered, ClosedIfEnded, RingCutByCaller,
                CanceledIsReal, AnswerIsHead, Before, Sides
<1>2. IInv /\ TypeOK' /\ [Next]_vars => IInv'
  <2>1. CASE UNCHANGED vars
    BY <2>1 DEF vars, line, setup, room, IInv, TypeOK, Quiet, Begun, Unanswered,
                ClosedIfEnded, RingCutByCaller, CanceledIsReal, AnswerIsHead
  <2>2. QED
    BY <2>1, Inductive
<1>3. QED
  BY <1>1, <1>2, TypeCorrect, PTL DEF Spec

\* The caller's call becomes active only when the far user has answered
\* (cmd_call_remote.go:100-115, federation.go:174-195).
THEOREM ConnectedOnlyIfAnswered == Spec => []ConnectedIfAnswered
<1>1. IInv => ConnectedIfAnswered
  BY DEF IInv, Unanswered, ConnectedIfAnswered
<1>2. QED
  BY <1>1, Strengthened, PTL

\* A ring is taken as canceled only when the caller's call is over or the
\* connection lost (federation.go:201-206).
THEOREM CanceledOnlyIfReal == Spec => []CanceledIsReal
<1>1. IInv => CanceledIsReal
  BY DEF IInv, RingCutByCaller
<1>2. QED
  BY <1>1, Strengthened, PTL

\* Waiting for the answer, the near node is never held out media or a goodbye
\* (call.go:86-103).
THEOREM AnswerAlwaysFirst == Spec => []AnswerComesFirst
<1>1. IInv => AnswerComesFirst
  BY DEF IInv, AnswerIsHead, AnswerComesFirst
<1>2. QED
  BY <1>1, Strengthened, PTL

=============================================================================

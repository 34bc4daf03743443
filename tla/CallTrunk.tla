----------------------------- MODULE CallTrunk -----------------------------
(***************************************************************************)
(* One call between users of two nodes: the caller's command on the near   *)
(* node (shell/cmd_call_remote.go), the request's handler on the far one   *)
(* (server/federation.go), the connection between them with its frame      *)
(* pumps, relays and goodbyes (federation/call.go), and the browsers'      *)
(* media sockets (server/callws.go).                                       *)
(*                                                                         *)
(* Each node has a Call of its own.  CallExchange and Rooms show that      *)
(* what is used of them here is atomic: Offer, Accept, End; JoinID, Send,  *)
(* Leave.  A call may end of a user's key, of its terminal or, ringing or  *)
(* just answered, of its timer: HangUp stands for the three.               *)
(*                                                                         *)
(* A connection holds Cap frames each way; a write waits for room, since   *)
(* nothing gives it a deadline or drops its frame.  When an end is closed  *)
(* the frames still under way may or may not arrive.  A goroutine that has *)
(* heard something ends its call and leaves its room in the same action.   *)
(***************************************************************************)
EXTENDS Naturals, Sequences

CONSTANT Cap       \* frames the connection holds in one direction

ASSUME CapAssumption == Cap \in Nat \ {0}

VARIABLES
    call,      \* the state of each node's Call
    answered,  \* whether the far call's channel accepted is closed
    open,      \* the ends of the connection that their node has not closed
    lost,      \* whether the connection has failed
    wire,      \* wire[s] : the frames on their way from s
    pump,      \* ReadFrames' goroutine; a frame it holds out to a reader
    waiter,    \* near: the goroutine that awaits the answer
    closer,    \* near: the goroutine that closes when the call has ended
    handler,   \* far: handleIncomingCall, up to its relay
    relay,     \* RelayCallRoomToStream's loop
    ender,     \* its goroutine that says goodbye
    standin,   \* the remote user's member in the call's room
    socket     \* the local user's media socket

line  == <<open, lost, wire>>
setup == <<waiter, closer, handler>>
room  == <<standin, socket>>
vars  == <<call, answered, line, pump, setup, relay, ender, room>>

Sides == {"near", "far"}
Other(s) == IF s = "near" THEN "far" ELSE "near"

Frames == {"yes", "no", "media", "bye"}

TypeOK ==
    /\ call \in [Sides -> {"none", "ringing", "active", "ended"}]
    /\ answered \in BOOLEAN /\ lost \in BOOLEAN
    /\ open \subseteq Sides
    /\ wire \in [Sides -> Seq(Frames)] /\ \A s \in Sides : Len(wire[s]) <= Cap
    /\ pump \in [Sides -> {"off", "reading", "done"} \cup Frames]
    /\ waiter \in {"off", "waiting", "accepting", "leaving", "done"}
    /\ closer \in {"off", "waiting", "done"}
    /\ handler \in {"off", "opened", "notifying", "waiting",
                    "answering", "rejecting", "canceling", "closing", "done"}
    /\ relay \in [Sides -> {"off", "loop", "writing", "done"}]
    /\ ender \in [Sides -> {"off", "waiting", "closing", "done"}]
    /\ standin \in [Sides -> {"out", "in", "left"}]
    /\ socket \in [Sides -> {"off", "admitted", "in"}]

Init ==
    /\ call = [s \in Sides |-> "none"] /\ answered = FALSE
    /\ open = {} /\ lost = FALSE
    /\ wire = [s \in Sides |-> <<>>] /\ pump = [s \in Sides |-> "off"]
    /\ waiter = "off" /\ closer = "off" /\ handler = "off"
    /\ relay = [s \in Sides |-> "off"] /\ ender = [s \in Sides |-> "off"]
    /\ standin = [s \in Sides |-> "out"]
    /\ socket = [s \in Sides |-> "off"]

-----------------------------------------------------------------------------
\* Calls, members and the connection

Live(s) == call[s] \in {"ringing", "active"}

Ended(s) == call' = IF Live(s) THEN [call EXCEPT ![s] = "ended"] ELSE call

Left(s) == standin' = IF standin[s] = "in" THEN [standin EXCEPT ![s] = "left"] ELSE standin

\* A write by s: the frame is queued; or it resets the connection, the other
\* end being closed, and only the next write or read will tell.
Writes(s, f) ==
    /\ s \in open /\ ~lost
    /\ \/ /\ Other(s) \in open /\ Len(wire[s]) < Cap
          /\ wire' = [wire EXCEPT ![s] = Append(@, f)] /\ UNCHANGED lost
       \/ Other(s) \notin open /\ lost' = TRUE /\ UNCHANGED wire

WriteFails == lost \/ open # Sides

\* What has come for s and was not read goes with its end.
Closes(s) == open' = open \ {s} /\ wire' = [wire EXCEPT ![Other(s)] = <<>>]

\* A read error: the connection has failed or an end of it is closed.
ReadFails == lost \/ open # Sides

\* A reader takes the frame f that the pump of s holds out.
Takes(s, f) == pump[s] = f /\ pump' = [pump EXCEPT ![s] = "reading"]

PumpReads(s) ==
    /\ pump[s] = "reading"
    /\ s \in open /\ wire[Other(s)] # <<>>
    /\ pump' = [pump EXCEPT ![s] = Head(wire[Other(s)])]
    /\ wire' = [wire EXCEPT ![Other(s)] = Tail(@)]
    /\ UNCHANGED <<call, answered, open, lost, setup, relay, ender, room>>

PumpEnds(s) ==
    /\ pump[s] = "reading"
    /\ ReadFails
    /\ pump' = [pump EXCEPT ![s] = "done"]
    /\ UNCHANGED <<call, answered, line, setup, relay, ender, room>>

Lose ==
    /\ open # {}
    /\ lost' = TRUE
    /\ UNCHANGED <<call, answered, open, wire, pump, setup, relay, ender, room>>

-----------------------------------------------------------------------------
\* The users, and each call's ring timer

PlaceCall ==
    /\ call["near"] = "none"
    /\ call' = [call EXCEPT !["near"] = "ringing"]
    /\ UNCHANGED <<answered, line, pump, setup, relay, ender, room>>

AnswerCall ==
    /\ call["far"] = "ringing"
    /\ call' = [call EXCEPT !["far"] = "active"]
    /\ answered' = TRUE
    /\ UNCHANGED <<line, pump, setup, relay, ender, room>>

\* Also while the dial is under way, when only the timer does it: the handshake
\* has no deadline (client.go:42).
HangUp(s) ==
    /\ Live(s)
    /\ Ended(s)
    /\ UNCHANGED <<answered, line, pump, setup, relay, ender, room>>

\* A ring that nobody answers or cancels.
RingsOut(s) == call[s] = "ringing" /\ HangUp(s)

-----------------------------------------------------------------------------
\* Near: callRemote, from the dial on

DialFails ==
    /\ call["near"] # "none" /\ waiter = "off"
    /\ waiter' = "done" /\ handler' = "done"            \* neither comes to be
    /\ Ended("near")
    /\ UNCHANGED <<answered, line, pump, closer, relay, ender, room>>

\* The connection, CALL_OPEN, and the three goroutines.
Dial ==
    /\ call["near"] # "none" /\ waiter = "off"
    /\ open' = Sides
    /\ handler' = "opened"
    /\ waiter' = "waiting" /\ closer' = "waiting"
    /\ pump' = [pump EXCEPT !["near"] = "reading"]
    /\ UNCHANGED <<call, answered, lost, wire, relay, ender, room>>

\* Mutant: the connection lives as long as the dial's context.
CloseAfterDial ==
    /\ closer = "waiting"
    /\ closer' = "done"
    /\ Closes("near")
    /\ UNCHANGED <<call, answered, lost, pump, waiter, handler, relay, ender, room>>

CloseAtEnd ==
    /\ closer = "waiting" /\ call["near"] = "ended"
    /\ closer' = "done"
    /\ Closes("near")
    /\ UNCHANGED <<call, answered, lost, pump, waiter, handler, relay, ender, room>>

\* JoinID, and `go RelayCallRoomToStream`.
StartRelay(s) ==
    /\ standin' = [standin EXCEPT ![s] = "in"]
    /\ relay' = [relay EXCEPT ![s] = "loop"]
    /\ ender' = [ender EXCEPT ![s] = "waiting"]

Bridge ==
    /\ waiter = "waiting" /\ Takes("near", "yes")
    /\ waiter' = "accepting"
    /\ StartRelay("near")
    /\ UNCHANGED <<call, answered, line, closer, handler, socket>>

\* Refused, or the connection lost before an answer.
Refused ==
    /\ waiter = "waiting"
    /\ Takes("near", "no") \/ (pump["near"] = "done" /\ UNCHANGED pump)
    /\ waiter' = "done"
    /\ Ended("near")
    /\ UNCHANGED <<answered, line, closer, handler, relay, ender, room>>

AcceptNear ==
    /\ waiter = "accepting"
    /\ IF call["near"] = "ringing"
       THEN waiter' = "done" /\ call' = [call EXCEPT !["near"] = "active"]
       ELSE waiter' = "leaving" /\ UNCHANGED call
    /\ UNCHANGED <<answered, line, pump, closer, handler, relay, ender, room>>

LeaveNear ==
    /\ waiter = "leaving"
    /\ waiter' = "done"
    /\ Left("near")
    /\ UNCHANGED <<call, answered, line, pump, closer, handler, relay, ender, socket>>

Waiter == Refused \/ Bridge \/ AcceptNear \/ LeaveNear

-----------------------------------------------------------------------------
\* Far: handleIncomingCall

\* Calls disabled, the user not available, busy, or too many calls.
TurnAway ==
    /\ handler = "opened"
    /\ handler' = "rejecting"
    /\ UNCHANGED <<call, answered, line, pump, waiter, closer, relay, ender, room>>

Ring ==
    /\ handler = "opened"
    /\ handler' = "notifying"
    /\ call' = [call EXCEPT !["far"] = "ringing"]
    /\ UNCHANGED <<answered, line, pump, waiter, closer, relay, ender, room>>

\* hub.Send reached a terminal, or none.
Notify ==
    /\ handler = "notifying"
    /\ \/ handler' = "waiting" /\ pump' = [pump EXCEPT !["far"] = "reading"] /\ UNCHANGED call
       \/ handler' = "rejecting" /\ Ended("far") /\ UNCHANGED pump
    /\ UNCHANGED <<answered, line, waiter, closer, relay, ender, room>>

\* Mutant: a ring that has not been answered is bridged as well.
JoinEarly ==
    /\ handler = "waiting"
    /\ handler' = "answering"
    /\ standin' = [standin EXCEPT !["far"] = "in"]
    /\ UNCHANGED <<call, answered, line, pump, waiter, closer, relay, ender, socket>>

\* Mutant: the relay starts before the answer is written.
JoinAndRelay ==
    /\ handler = "waiting" /\ answered
    /\ handler' = "answering"
    /\ StartRelay("far")
    /\ UNCHANGED <<call, answered, line, pump, waiter, closer, socket>>

\* The select: of its three cases that are ready, any.
JoinFar ==
    /\ handler = "waiting" /\ answered
    /\ handler' = "answering"
    /\ standin' = [standin EXCEPT !["far"] = "in"]
    /\ UNCHANGED <<call, answered, line, pump, waiter, closer, relay, ender, socket>>

SeesEnd ==
    /\ handler = "waiting" /\ call["far"] = "ended"
    /\ handler' = "rejecting"
    /\ UNCHANGED <<call, answered, line, pump, waiter, closer, relay, ender, room>>

\* "canceled by caller": any frame, or none to come.
SeesCancel ==
    /\ handler = "waiting"
    /\ pump["far"] \in Frames \cup {"done"}
    /\ pump' = IF pump["far"] = "done" THEN pump ELSE [pump EXCEPT !["far"] = "reading"]
    /\ handler' = "canceling"
    /\ Ended("far")
    /\ UNCHANGED <<answered, line, waiter, closer, relay, ender, room>>

\* WriteResponse, and on to the relay or to the end.
AnswerFar ==
    /\ handler = "answering"
    /\ handler' = "done"
    /\ \/ Writes("far", "yes") /\ StartRelay("far") /\ UNCHANGED <<call, open>>
       \/ /\ WriteFails
          /\ Ended("far") /\ Left("far") /\ Closes("far")
          /\ UNCHANGED <<lost, relay, ender>>
    /\ UNCHANGED <<answered, pump, waiter, closer, socket>>

Reject ==
    /\ handler = "rejecting"
    /\ handler' = "closing"
    /\ Writes("far", "no") \/ (WriteFails /\ UNCHANGED <<lost, wire>>)
    /\ UNCHANGED <<call, answered, open, pump, waiter, closer, relay, ender, room>>

CloseFar ==
    /\ handler \in {"closing", "canceling"}
    /\ handler' = "done"
    /\ Closes("far")
    /\ UNCHANGED <<call, answered, lost, pump, waiter, closer, relay, ender, room>>

Handler ==
    \/ TurnAway \/ Ring \/ Notify
    \/ JoinFar \/ SeesEnd \/ SeesCancel
    \/ AnswerFar \/ Reject \/ CloseFar

-----------------------------------------------------------------------------
\* RelayCallRoomToStream

Turn(s, from, to) == relay[s] = from /\ relay' = [relay EXCEPT ![s] = to]

\* A packet for the room, or a frame the relay has no use for.
RelayReads(s) ==
    /\ \E f \in Frames \ {"bye"} : Takes(s, f)
    /\ Turn(s, "loop", "loop")
    /\ UNCHANGED <<call, answered, line, setup, ender, room>>

\* A packet that the browser sent, taken from Recv (what Recv has no room for
\* is dropped: Rooms), also when the stand-in has left but Recv is not empty.
\* A socket that goes is seen to go when the last of its packets has been taken.
RelayTakes(s) ==
    /\ socket[s] = "in" /\ standin[s] # "out"
    /\ Turn(s, "loop", "writing")
    /\ UNCHANGED <<call, answered, line, pump, setup, ender, room>>

RelayWrites(s) ==
    /\ Writes(s, "media")
    /\ Turn(s, "writing", "loop")
    /\ UNCHANGED <<call, answered, open, pump, setup, ender, room>>

HungUp(s) == Turn(s, "loop", "done") /\ Takes(s, "bye")

Cut(s) ==
    /\ UNCHANGED pump
    /\ \/ Turn(s, "loop", "done") /\ pump[s] = "done"
       \/ Turn(s, "writing", "done") /\ WriteFails

Shut(s) == Turn(s, "loop", "done") /\ standin[s] = "left" /\ UNCHANGED pump

\* Mutant: a lost connection ends the relay without the call.
RelayEndsAlone(s) ==
    /\ \/ HungUp(s) /\ Ended(s) /\ Left(s) /\ Closes(s)
       \/ Cut(s)    /\ UNCHANGED call /\ Left(s) /\ UNCHANGED <<open, wire>>
       \/ Shut(s)   /\ Ended(s) /\ UNCHANGED standin /\ Closes(s)
    /\ UNCHANGED <<answered, lost, setup, ender, socket>>

\* c.End, pseudo.Leave and ac.Close, as far as each way out has them.
RelayEnds(s) ==
    /\ \/ HungUp(s) /\ Ended(s) /\ Left(s) /\ Closes(s)
       \/ Cut(s)    /\ Ended(s) /\ Left(s) /\ UNCHANGED <<open, wire>>
       \/ Shut(s)   /\ Ended(s) /\ UNCHANGED standin /\ Closes(s)
    /\ UNCHANGED <<answered, lost, setup, ender, socket>>

\* The goroutine beside it: when the call has ended, a goodbye and a close.
EnderSaysGoodbye(s) ==
    /\ ender[s] = "waiting" /\ call[s] = "ended"
    /\ Writes(s, "bye") \/ (WriteFails /\ UNCHANGED <<lost, wire>>)
    /\ ender' = [ender EXCEPT ![s] = "closing"]
    /\ UNCHANGED <<call, answered, open, pump, setup, relay, room>>

EnderCloses(s) ==
    /\ ender[s] = "closing"
    /\ ender' = [ender EXCEPT ![s] = "done"]
    /\ Closes(s)
    /\ UNCHANGED <<call, answered, lost, pump, setup, relay, room>>

Pump(s)  == PumpReads(s) \/ PumpEnds(s)
Relay(s) == RelayReads(s) \/ RelayTakes(s) \/ RelayWrites(s) \/ RelayEnds(s)
Ender(s) == EnderSaysGoodbye(s) \/ EnderCloses(s)

-----------------------------------------------------------------------------
\* The media socket: handleCallWS

SocketAdmitted(s) ==
    /\ socket[s] = "off" /\ call[s] = "active"
    /\ socket' = [socket EXCEPT ![s] = "admitted"]
    /\ UNCHANGED <<call, answered, line, pump, setup, relay, ender, standin>>

\* The upgrade fails, or JoinID.
SocketJoins(s) ==
    /\ socket[s] = "admitted"
    /\ \E to \in {"in", "off"} : socket' = [socket EXCEPT ![s] = to]
    /\ UNCHANGED <<call, answered, line, pump, setup, relay, ender, standin>>

\* The browser is gone: "media link lost".
SocketDrops(s) ==
    /\ socket[s] = "in"
    /\ socket' = [socket EXCEPT ![s] = "off"]
    /\ Ended(s)
    /\ UNCHANGED <<answered, line, pump, setup, relay, ender, standin>>

\* The end watcher.
SocketClosed(s) ==
    /\ socket[s] = "in" /\ call[s] = "ended"
    /\ socket' = [socket EXCEPT ![s] = "off"]
    /\ UNCHANGED <<call, answered, line, pump, setup, relay, ender, standin>>

-----------------------------------------------------------------------------
Side(s) ==
    \/ Pump(s) \/ Relay(s) \/ Ender(s) \/ HangUp(s)
    \/ SocketAdmitted(s) \/ SocketJoins(s) \/ SocketDrops(s) \/ SocketClosed(s)

Next ==
    \/ PlaceCall \/ DialFails \/ Dial \/ CloseAtEnd \/ Waiter
    \/ Handler \/ AnswerCall \/ Lose
    \/ \E s \in Sides : Side(s)

Spec == Init /\ [][Next]_vars

\* Every goroutine that can go on does, and rings end.  Users need not do
\* anything, browsers need not send, a dial need not come to an end, and
\* connections need not fail.  A
\* goodbye waits for the connection's write lock, which Go's mutex grants in
\* turn, so it gets its place among the relay's packets; and a select that
\* finds a frame time and again does not pass it over for ever.
FairSpec ==
    /\ Spec
    /\ WF_vars(CloseAtEnd) /\ WF_vars(Waiter) /\ WF_vars(Handler)
    /\ \A s \in Sides :
        /\ WF_vars(Pump(s)) /\ WF_vars(Relay(s))
        /\ SF_vars(RelayReads(s) \/ RelayEnds(s)) /\ SF_vars(Ender(s))
        /\ WF_vars(RingsOut(s)) /\ WF_vars(SocketJoins(s)) /\ WF_vars(SocketClosed(s))

-----------------------------------------------------------------------------
\* Properties

\* The caller is connected only to somebody who has answered: no order of
\* timeouts, refusals and lost frames opens the caller's panel for a ring.
ConnectedIfAnswered == call["near"] = "active" => answered

\* The far node drops a ring as canceled only when the caller's call is over
\* or the connection is: nothing the near node sends before the answer can
\* look like a hang-up (federation.go:169-171).
CanceledIsReal == handler = "canceling" => call["near"] = "ended" \/ lost

\* No media and no goodbye comes before the answer (call.go:89-90): the near
\* node, waiting for it, is held out nothing that it would have to skip.
AnswerComesFirst == waiter = "waiting" => pump["near"] \notin {"media", "bye"}

\* Both relays wait for room in a connection that neither reads.
Wedged == \A s \in Sides : relay[s] = "writing" /\ Len(wire[s]) = Cap /\ pump[s] \in Frames

\* However either node's call ends, the other's ends or never rings, and
\* nobody stays in either room, a socket admitted just before the end
\* included (callws.go:18-22, call.go:112-114).  The far node's end is held up
\* as long as the relays are wedged and the near call goes on: only the near
\* node has somebody who closes without having written first.
Settled ==
    /\ call["near"] = "ended"
    /\ call["far"] = "ended" \/ (call["far"] = "none" /\ handler \in {"off", "done"})
    /\ \A s \in Sides : standin[s] # "in" /\ socket[s] # "in"

HangUpReaches ==
    (\E s \in Sides : call[s] = "ended")
        ~> (Settled \/ (Wedged /\ call["near"] = "active"))

\* call.go:66-69: the pump runs "until the connection dies", and "closing ac
\* from any other goroutine cleanly unblocks it".
CloseFreesPump ==
    \A s \in Sides : (s \notin open /\ pump[s] # "off") ~> (pump[s] = "done")

=============================================================================

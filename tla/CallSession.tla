----------------------------- MODULE CallSession -----------------------------
(***************************************************************************)
(* The terminals of one node using its exchange: the `call` command        *)
(* (internal/shell/cmd_call.go) for two local users.  Each session runs    *)
(* one command at a time; inside runCall it is two goroutines, the reader  *)
(* (the only one that touches the keyboard) and the watcher (the only one  *)
(* that reacts to signalling), and the browser panel they drive with       *)
(* call-start and call-end control messages.                               *)
(*                                                                         *)
(* Every gap between a look-up and the act on it is a step boundary:       *)
(* PendingFor then Accept, PendingFor then End("declined"), PendingFor     *)
(* then Offer, Offer then hub.Send, Active() then End.  Of the browsers'   *)
(* media sockets (internal/server/callws.go) there is what they do to a    *)
(* call: one that breaks ends it.                                          *)
(***************************************************************************)
EXTENDS CallExchange

CONSTANTS Sessions,    \* logged-in terminals
          UserOf,      \* UserOf[s] : the user of session s
          Web,         \* the sessions of the web client (SSH may only decline)
          NoCall       \* no call at hand

HungUpReason == "hung up"           \* Ctrl+C in an active call
LostReason   == "connection lost"   \* the terminal's read fails
MediaReason  == "media link lost"   \* a browser's media socket breaks

ASSUME SessionAssumption ==
    /\ UserOf \in [Sessions -> Users]
    /\ Web \subseteq Sessions
    /\ NoCall \notin CallIds
    /\ {"declined", "unreachable", "canceled", HungUpReason, LostReason, MediaReason}
          \subseteq ClientReasons

VARIABLES
    pc,      \* where the session's command (runCall's reader) stands
    at,      \* the call the session's command has in hand
    peer,    \* the user an offer is about to be placed to
    why,     \* the reason chosen before End is called
    watch,   \* runCall's watcher goroutine
    panel    \* the call whose panel the session's browser was last told to open

sessionVars == <<pc, at, peer, why, watch, panel>>
allVars == <<vars, sessionVars>>

User(s) == UserOf[s]

\* Reader positions inside runCall, up to the end of the call it is on.
OnCall   == {"reading", "hanging"}
InRun    == OnCall \cup {"hung", "leaving"}

SessionTypeOK ==
    /\ TypeOK
    /\ pc \in [Sessions -> {"prompt", "answering", "declining", "offering",
                            "notifying", "cleared"} \cup InRun]
    /\ at \in [Sessions -> CallIds \cup {NoCall}]
    /\ peer \in [Sessions -> Users \cup {Nobody}]
    /\ why \in [Sessions -> ClientReasons \cup {NoReason}]
    /\ watch \in [Sessions -> {"off", "ringing", "starting", "watching", "done"}]
    /\ panel \in [Sessions -> CallIds \cup {NoCall}]

SessionInit ==
    /\ Init
    /\ pc = [s \in Sessions |-> "prompt"]
    /\ at = [s \in Sessions |-> NoCall]
    /\ peer = [s \in Sessions |-> Nobody]
    /\ why = [s \in Sessions |-> NoReason]
    /\ watch = [s \in Sessions |-> "off"]
    /\ panel = [s \in Sessions |-> NoCall]

-----------------------------------------------------------------------------
\* Step helpers

Go(s, label) == pc' = [pc EXCEPT ![s] = label]

Prompt(s) == Go(s, "prompt") /\ at' = [at EXCEPT ![s] = NoCall]

\* c.End(r) by session s, which goes on at `after` once it has removed the
\* call (label `removing`), or at once if the call had already ended.
SessionEnds(s, r, removing, Done) ==
    \/ End(at[s], r) /\ Go(s, removing) /\ UNCHANGED at
    \/ ~Live(at[s]) /\ Done /\ UNCHANGED vars

-----------------------------------------------------------------------------
\* Faulty variants, each told from the code by a property of a run

\* Entering runCall whatever Accept returned.
AnswerRegardless(s) ==
    /\ pc[s] = "answering"
    /\ \/ Accept(at[s])
       \/ state[at[s]] # "ringing" /\ UNCHANGED vars
    /\ Go(s, "reading")
    /\ watch' = [watch EXCEPT ![s] = "starting"]
    /\ UNCHANGED <<at, peer, why, panel>>

\* A failed read that leaves the loop without ending the call.
LoseTerminalSilently(s) ==
    /\ pc[s] = "reading"
    /\ Go(s, "leaving")
    /\ UNCHANGED <<vars, at, peer, why, watch, panel>>

\* Returning without waiting for the watcher.
LeaveUnwaited(s) ==
    /\ pc[s] = "leaving"
    /\ panel' = [panel EXCEPT ![s] = NoCall]
    /\ Go(s, "prompt")
    /\ UNCHANGED <<vars, at, peer, why, watch>>

\* A caller's watcher that waits for nothing but the answer.
WatchStopsOnceStarted(s) ==
    /\ watch[s] = "watching"
    /\ state[at[s]] = "ended" \/ pc[s] = "leaving"
    /\ watch' = [watch EXCEPT ![s] = "done"]
    /\ UNCHANGED <<vars, pc, at, peer, why, panel>>

-----------------------------------------------------------------------------
\* The command line: cmdCall

\* `call -r u`: find the ringing call to decline, from any kind of session.
TypeDecline(s, u) ==
    /\ pc[s] = "prompt"
    /\ \E c \in PendingFor(User(s), u) :
         /\ at' = [at EXCEPT ![s] = c]
         /\ Go(s, "declining")
    /\ UNCHANGED <<vars, peer, why, watch, panel>>

\* c.End("declined"), whatever has become of c since the look-up.
Decline(s) ==
    /\ pc[s] = "declining"
    /\ SessionEnds(s, "declined", "cleared", Prompt(s))
    /\ UNCHANGED <<peer, why, watch, panel>>

\* `call u` on the web: the answer path if u is ringing this user, else the
\* offer path.
TypeCall(s, u) ==
    /\ pc[s] = "prompt"
    /\ s \in Web
    /\ u # User(s)
    /\ \/ \E c \in PendingFor(User(s), u) :
            /\ at' = [at EXCEPT ![s] = c]
            /\ Go(s, "answering")
            /\ UNCHANGED peer
       \/ /\ PendingFor(User(s), u) = {}
          /\ peer' = [peer EXCEPT ![s] = u]
          /\ Go(s, "offering")
          /\ UNCHANGED at
    /\ UNCHANGED <<vars, why, watch, panel>>

\* c.Accept(): into runCall as the callee, or "too late" back to the prompt.
AnswerCall(s) ==
    /\ pc[s] = "answering"
    /\ \/ /\ Accept(at[s])
          /\ Go(s, "reading")
          /\ watch' = [watch EXCEPT ![s] = "starting"]
          /\ UNCHANGED at
       \/ /\ state[at[s]] # "ringing"
          /\ Prompt(s)
          /\ UNCHANGED <<vars, watch>>
    /\ UNCHANGED <<peer, why, panel>>

\* Calls.Offer: a fresh call, or back to the prompt with ErrBusy or
\* ErrRateLimit (the limiter may refuse whatever the registry says, and in a
\* bounded run it does once every id is used).
PlaceCall(s) ==
    /\ pc[s] = "offering"
    /\ \/ \E c \in CallIds :
            /\ Offer(User(s), peer[s], c)
            /\ at' = [at EXCEPT ![s] = c]
            /\ Go(s, "notifying")
       \/ Prompt(s) /\ UNCHANGED vars
    /\ peer' = [peer EXCEPT ![s] = Nobody]
    /\ UNCHANGED <<why, watch, panel>>

\* hub.Send reached a session of the callee: into runCall as the caller.
Notified(s) ==
    /\ pc[s] = "notifying"
    /\ Go(s, "reading")
    /\ watch' = [watch EXCEPT ![s] = "ringing"]
    /\ UNCHANGED <<vars, at, peer, why, panel>>

\* hub.Send reached nobody (not logged in, mesg n, or notice queues full).
Unreachable(s) ==
    /\ pc[s] = "notifying"
    /\ SessionEnds(s, "unreachable", "cleared", Prompt(s))
    /\ UNCHANGED <<peer, why, watch, panel>>

\* Manager.remove of a call this session ended outside runCall.
Cleared(s) ==
    /\ pc[s] = "cleared"
    /\ Remove(at[s])
    /\ Prompt(s)
    /\ UNCHANGED <<peer, why, watch, panel>>

-----------------------------------------------------------------------------
\* runCall: the reader loop

\* A keystroke on an ended call is the "press Enter" acknowledgement.
PressEnter(s) ==
    /\ pc[s] = "reading"
    /\ state[at[s]] = "ended"
    /\ Go(s, "leaving")
    /\ UNCHANGED <<vars, at, peer, why, watch, panel>>

\* Ctrl+C on a live call: pick the reason by looking at Active().
PressCtrlC(s) ==
    /\ pc[s] = "reading"
    /\ Live(at[s])
    /\ why' = [why EXCEPT ![s] = IF state[at[s]] = "active" THEN HungUpReason ELSE "canceled"]
    /\ Go(s, "hanging")
    /\ UNCHANGED <<vars, at, peer, watch, panel>>

\* The terminal's connection broke: its read fails.
LoseTerminal(s) ==
    /\ pc[s] = "reading"
    /\ why' = [why EXCEPT ![s] = LostReason]
    /\ Go(s, "hanging")
    /\ UNCHANGED <<vars, at, peer, watch, panel>>

HangUp(s) ==
    /\ pc[s] = "hanging"
    /\ SessionEnds(s, why[s], "hung", Go(s, "leaving") /\ UNCHANGED at)
    /\ why' = [why EXCEPT ![s] = NoReason]
    /\ UNCHANGED <<peer, watch, panel>>

HungUp(s) ==
    /\ pc[s] = "hung"
    /\ Remove(at[s])
    /\ Go(s, "leaving")
    /\ UNCHANGED <<at, peer, why, watch, panel>>

\* localDone is closed and the watcher has finished: call-end, then return.
Leave(s) ==
    /\ pc[s] = "leaving"
    /\ watch[s] = "done"
    /\ panel' = [panel EXCEPT ![s] = NoCall]
    /\ watch' = [watch EXCEPT ![s] = "off"]
    /\ Prompt(s)
    /\ UNCHANGED <<vars, peer, why>>

-----------------------------------------------------------------------------
\* runCall: the watcher goroutine

\* select, case Accepted: also takes this branch when the call has been
\* accepted and ended before the watcher ran.
WatchAccepted(s) ==
    /\ watch[s] = "ringing"
    /\ answered[at[s]]
    /\ watch' = [watch EXCEPT ![s] = "starting"]
    /\ UNCHANGED <<vars, pc, at, peer, why, panel>>

\* startCallUI: call-start to the browser.
StartCallUI(s) ==
    /\ watch[s] = "starting"
    /\ panel' = [panel EXCEPT ![s] = at[s]]
    /\ watch' = [watch EXCEPT ![s] = "watching"]
    /\ UNCHANGED <<vars, pc, at, peer, why>>

\* select, case Ended or case localDone, in either select.
WatchStops(s) ==
    /\ watch[s] \in {"ringing", "watching"}
    /\ state[at[s]] = "ended" \/ pc[s] = "leaving"
    /\ watch' = [watch EXCEPT ![s] = "done"]
    /\ UNCHANGED <<vars, pc, at, peer, why, panel>>

Watcher(s) == WatchAccepted(s) \/ StartCallUI(s) \/ WatchStops(s)

-----------------------------------------------------------------------------
\* A user at a keyboard owes nobody a keystroke; the program's own steps do run.
Typing(s) ==
    \/ \E u \in Users : TypeDecline(s, u) \/ TypeCall(s, u)
    \/ PressEnter(s) \/ PressCtrlC(s) \/ LoseTerminal(s)

Program(s) ==
    \/ Decline(s) \/ AnswerCall(s) \/ PlaceCall(s) \/ Notified(s) \/ Unreachable(s)
    \/ Cleared(s) \/ HangUp(s) \/ HungUp(s) \/ Leave(s)

\* A party's media socket, which a call in progress has, breaks: End("media
\* link lost"), and then the rest of that End.
MediaDrops(c) == state[c] = "active" /\ End(c, MediaReason)

MediaRemoves(c) == reason[c] = MediaReason /\ Remove(c)

MediaStep == (\E c \in CallIds : MediaDrops(c) \/ MediaRemoves(c)) /\ UNCHANGED sessionVars

ClockStep == (\E c \in CallIds : Clock(c)) /\ UNCHANGED sessionVars

SessionNext ==
    \/ \E s \in Sessions : Typing(s) \/ Program(s) \/ Watcher(s)
    \/ ClockStep \/ MediaStep

SessionSpec == SessionInit /\ [][SessionNext]_allVars

\* Goroutines that can run do run; time passes; users type when they like.
SessionFairness ==
    /\ \A s \in Sessions : WF_allVars(Program(s)) /\ WF_allVars(Watcher(s))
    /\ \A c \in CallIds :
         /\ WF_allVars(Clock(c) /\ UNCHANGED sessionVars)
         /\ WF_allVars(MediaRemoves(c) /\ UNCHANGED sessionVars)

FairSessionSpec == SessionSpec /\ SessionFairness

-----------------------------------------------------------------------------
\* Properties

\* A call is driven by at most one terminal per side: the caller's one placed
\* it, and of a callee's several sessions only the one whose Accept returned
\* true is in runCall.  A second one would hang up or reopen its panel behind
\* the first one's back.
OneTerminalPerSide ==
    \A s, t \in Sessions :
        /\ s # t /\ pc[s] \in InRun /\ pc[t] \in InRun /\ at[s] = at[t]
        => User(s) # User(t)

\* A call in progress has a terminal that will end it: the caller's one from
\* the offer on and, once it is active, the callee's one too.  Otherwise both
\* users would be busy with a call nobody can hang up.
LiveCallIsAttended ==
    \A c \in CallIds :
        /\ Live(c) => \E s \in Sessions :
             at[s] = c /\ User(s) = caller[c] /\ pc[s] \in OnCall \cup {"notifying"}
        /\ state[c] = "active" => \E s \in Sessions :
             at[s] = c /\ User(s) = callee[c] /\ pc[s] \in OnCall

\* The browser's panel is open only while its terminal is in runCall on that
\* call, even when the call was accepted and ended before the watcher looked:
\* runCall sends call-end only after the watcher, which may still send
\* call-start, has finished (cmd_call.go:240-243).
PanelFollowsTerminal ==
    \A s \in Sessions : panel[s] # NoCall => at[s] = panel[s] /\ pc[s] \in InRun

\* A terminal that hangs up, declines or is refused gets its prompt back
\* without another keystroke: reader and watcher never wait on each other.
HangUpReturns ==
    \A s \in Sessions : pc[s] \notin {"prompt", "reading"} ~> pc[s] \in {"prompt", "reading"}

\* What the package comment says (calls.go:3-5): ringing is what may be
\* declined, canceled or timed out, and an active call ends when either side
\* hangs up (or drops).
ActiveEndsByHangUp ==
    [][\A c \in CallIds : (state[c] = "active" /\ state'[c] = "ended") =>
          reason'[c] \in {"hung up", "connection lost", "media link lost"}]_vars

=============================================================================

---------------------------- MODULE CallExchange ----------------------------
(***************************************************************************)
(* The call-signalling exchange of one node: internal/calls/calls.go.      *)
(*                                                                         *)
(* A Call is a ringing/active/ended state guarded by its own mutex and a   *)
(* ring timer; the Manager is the registry that makes a user busy.  Two    *)
(* gaps in the code are steps of their own here:                           *)
(*   - End sets the state under the call's mutex, releases it, and only    *)
(*     then takes the manager's mutex to remove the call (End, Remove):    *)
(*     in between, the call is over but its parties are still busy;        *)
(*   - time.Timer.Stop cannot recall a callback that has already started   *)
(*     (RingExpires, RingTimesOut): the callback may run after Accept.     *)
(*                                                                         *)
(* The module's own Next lets any client call any operation at any time;   *)
(* CallSession restricts it to what the terminals really do.               *)
(***************************************************************************)
EXTENDS Naturals, FiniteSets

CONSTANTS Users,     \* local usernames and qualified remote ones
          CallIds,   \* 64-bit random ids: never reused
          Nobody,    \* the parties of a call not yet placed
          ClientReasons   \* what clients give End (TimedOut is the timer's)

NoReason == ""           \* Call.endReason until End sets it
TimedOut == "no answer"  \* what the ring timer gives End

ASSUME NobodyAssumption == Nobody \notin Users
ASSUME ReasonAssumption == ClientReasons \cap {NoReason, TimedOut} = {}

VARIABLES
    state,        \* Call.state, "unplaced" before Offer creates the call
    caller,       \* Call.Caller
    callee,       \* Call.Callee
    answered,     \* whether channel Call.accepted is closed
    reason,       \* Call.endReason
    timer,        \* Call.ringTimer and its callback goroutine
    registered    \* the keys of Manager.calls

callVars == <<state, caller, callee, answered, reason, timer>>
vars     == <<state, caller, callee, answered, reason, timer, registered>>

States == {"unplaced", "ringing", "active", "ended"}
Timers == {"unset", "armed", "stopped", "firing", "removing", "done"}

TypeOK ==
    /\ state \in [CallIds -> States]
    /\ caller \in [CallIds -> Users \cup {Nobody}]
    /\ callee \in [CallIds -> Users \cup {Nobody}]
    /\ answered \in [CallIds -> BOOLEAN]
    /\ reason \in [CallIds -> ClientReasons \cup {NoReason, TimedOut}]
    /\ timer \in [CallIds -> Timers]
    /\ registered \subseteq CallIds

Init ==
    /\ state = [c \in CallIds |-> "unplaced"]
    /\ caller = [c \in CallIds |-> Nobody]
    /\ callee = [c \in CallIds |-> Nobody]
    /\ answered = [c \in CallIds |-> FALSE]
    /\ reason = [c \in CallIds |-> NoReason]
    /\ timer = [c \in CallIds |-> "unset"]
    /\ registered = {}

Live(c) == state[c] \in {"ringing", "active"}

Involves(c, u) == u = caller[c] \/ u = callee[c]

\* Timer.Stop: prevents a timer that has not fired, and nothing more.
StopTimer(c) ==
    timer' = IF timer[c] = "armed" THEN [timer EXCEPT ![c] = "stopped"] ELSE timer

\* The calls PendingFor may return to callee b for caller a.
PendingFor(b, a) ==
    {c \in registered : caller[c] = a /\ callee[c] = b /\ state[c] = "ringing"}

-----------------------------------------------------------------------------
\* Faulty variants, each told from the code by a property of a run

\* Offer asking only whether the caller is free.
BusyCallerOnly(a, b) == \E c \in registered : Involves(c, a)

\* Offer that starts no ring timer.
OfferUntimed(a, b, c) ==
    /\ \A d \in registered : ~Involves(d, a) /\ ~Involves(d, b)
    /\ state[c] = "unplaced"
    /\ state' = [state EXCEPT ![c] = "ringing"]
    /\ caller' = [caller EXCEPT ![c] = a]
    /\ callee' = [callee EXCEPT ![c] = b]
    /\ registered' = registered \cup {c}
    /\ UNCHANGED <<answered, reason, timer>>

\* End that removes only the calls somebody answered.
RemoveAnswered(c) ==
    /\ answered[c]
    /\ state[c] = "ended"
    /\ c \in registered
    /\ timer[c] # "removing"
    /\ registered' = registered \ {c}
    /\ UNCHANGED callVars

-----------------------------------------------------------------------------
\* Operations of the Manager and of a Call

\* Offer refuses with ErrBusy while any registered call involves a party,
\* a call that has ended but is not yet removed included.
Busy(a, b) == \E c \in registered : Involves(c, a) \/ Involves(c, b)

\* Offer, success: create, arm and register the call in one critical section
\* of the manager's mutex.  (The limiter consulted before it may refuse any
\* offer; a refusal, like ErrBusy, leaves the exchange as it was.)
Offer(a, b, c) ==
    /\ ~Busy(a, b)
    /\ state[c] = "unplaced"
    /\ state' = [state EXCEPT ![c] = "ringing"]
    /\ caller' = [caller EXCEPT ![c] = a]
    /\ callee' = [callee EXCEPT ![c] = b]
    /\ timer' = [timer EXCEPT ![c] = "armed"]
    /\ registered' = registered \cup {c}
    /\ UNCHANGED <<answered, reason>>

\* Accept, true.  On any state but ringing it returns false and changes nothing.
Accept(c) ==
    /\ state[c] = "ringing"
    /\ state' = [state EXCEPT ![c] = "active"]
    /\ answered' = [answered EXCEPT ![c] = TRUE]
    /\ StopTimer(c)
    /\ UNCHANGED <<caller, callee, reason, registered>>

\* End up to the release of the call's mutex.  On an ended call it returns
\* at once; otherwise the caller of End goes on to Remove.
End(c, r) ==
    /\ Live(c)
    /\ state' = [state EXCEPT ![c] = "ended"]
    /\ reason' = [reason EXCEPT ![c] = r]
    /\ StopTimer(c)
    /\ UNCHANGED <<caller, callee, answered, registered>>

\* The rest of a client's End: Manager.remove.
Remove(c) ==
    /\ state[c] = "ended"
    /\ c \in registered
    /\ timer[c] # "removing"
    /\ registered' = registered \ {c}
    /\ UNCHANGED callVars

\* 45 seconds have passed: the runtime starts the AfterFunc callback.
RingExpires(c) ==
    /\ timer[c] = "armed"
    /\ timer' = [timer EXCEPT ![c] = "firing"]
    /\ UNCHANGED <<state, caller, callee, answered, reason, registered>>

\* The callback runs End("no answer"): it does not look at whether the call
\* is still ringing, only at whether it has ended.
RingTimesOut(c) ==
    /\ timer[c] = "firing"
    /\ IF Live(c)
       THEN /\ state' = [state EXCEPT ![c] = "ended"]
            /\ reason' = [reason EXCEPT ![c] = TimedOut]
            /\ timer' = [timer EXCEPT ![c] = "removing"]
       ELSE /\ timer' = [timer EXCEPT ![c] = "done"]
            /\ UNCHANGED <<state, reason>>
    /\ UNCHANGED <<caller, callee, answered, registered>>

\* The callback's own Manager.remove.
TimerRemoves(c) ==
    /\ timer[c] = "removing"
    /\ timer' = [timer EXCEPT ![c] = "done"]
    /\ registered' = registered \ {c}
    /\ UNCHANGED <<state, caller, callee, answered, reason>>

Clock(c) == RingExpires(c) \/ RingTimesOut(c) \/ TimerRemoves(c)

Client(c) ==
    \/ \E a, b \in Users : Offer(a, b, c)
    \/ Accept(c)
    \/ \E r \in ClientReasons : End(c, r)
    \/ Remove(c)

Next == \E c \in CallIds : Client(c) \/ Clock(c)

Spec == Init /\ [][Next]_vars

\* Timers fire and their callbacks run; whoever ended a call goes on to remove
\* it.  Nobody has to answer, hang up or call.
FairSpec == Spec /\ \A c \in CallIds : WF_vars(Clock(c)) /\ WF_vars(Remove(c))

-----------------------------------------------------------------------------
\* Safety

\* No user is a party to two calls at once (Offer refuses with ErrBusy when
\* either party is in a registered call, calls.go:183-189), and a call that is
\* ringing or active is always in the registry, so the refusal cannot miss it.
Exclusive ==
    /\ \A c \in CallIds : Live(c) => c \in registered
    /\ \A c, d \in registered, u \in Users : Involves(c, u) /\ Involves(d, u) => c = d

\* End is idempotent (calls.go:119): however many clients and timers race to
\* end a call, the first reason stands, a late Accept does not revive it, and
\* a call that has left the registry never makes anybody busy again.
EndedIsFinal ==
    [][\A c \in CallIds : state[c] = "ended" =>
          /\ state'[c] = "ended" /\ reason'[c] = reason[c] /\ answered'[c] = answered[c]
          /\ (c \notin registered => c \notin registered')]_vars

\* A call that ends leaves the registry and frees both parties, however many
\* clients and timers raced to end it.
EndedFreesBoth == \A c \in CallIds : state[c] = "ended" ~> c \notin registered

\* The abstract exchange this one implements, its promise that no call rings
\* for ever included.
Phase(c) == CASE state[c] = "unplaced" -> "idle"
              [] state[c] = "ringing"  -> "ringing"
              [] state[c] = "active"   -> "connected"
              [] state[c] = "ended"    -> "over"

Exchange == INSTANCE Telephone WITH
                phase   <- [c \in CallIds |-> Phase(c)],
                parties <- [c \in CallIds |-> {caller[c], callee[c]} \ {Nobody}]

ImplementsTelephone == Exchange!FairSpec

=============================================================================

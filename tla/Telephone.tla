------------------------------ MODULE Telephone ------------------------------
(***************************************************************************)
(* What a telephone exchange promises, whatever its locks, timers and      *)
(* registries look like: a call goes from idle to ringing, may be          *)
(* answered, is cleared, and is never reused; a subscriber is a party to   *)
(* at most one call that is ringing or connected; and no call rings        *)
(* forever.  CallExchange (internal/calls/calls.go) implements it.         *)
(***************************************************************************)

CONSTANTS Users,    \* subscribers: local usernames and "user@host" peers
          CallIds   \* the calls that may ever be placed

VARIABLES phase,    \* phase[c] : how far call c has got
          parties   \* parties[c] : the subscribers of call c

tvars == <<phase, parties>>

InProgress(c) == phase[c] \in {"ringing", "connected"}

Free(u) == \A c \in CallIds : InProgress(c) => u \notin parties[c]

Init == /\ phase = [c \in CallIds |-> "idle"]
        /\ parties = [c \in CallIds |-> {}]

Ring(c, a, b) ==
    /\ phase[c] = "idle"
    /\ Free(a) /\ Free(b)
    /\ phase' = [phase EXCEPT ![c] = "ringing"]
    /\ parties' = [parties EXCEPT ![c] = {a, b}]

Answer(c) ==
    /\ phase[c] = "ringing"
    /\ phase' = [phase EXCEPT ![c] = "connected"]
    /\ UNCHANGED parties

Clear(c) ==
    /\ InProgress(c)
    /\ phase' = [phase EXCEPT ![c] = "over"]
    /\ UNCHANGED parties

Next == \E c \in CallIds : \/ \E a, b \in Users : Ring(c, a, b)
                           \/ Answer(c)
                           \/ Clear(c)

StopsRinging(c) == phase[c] = "ringing" /\ (Answer(c) \/ Clear(c))

Spec == Init /\ [][Next]_tvars

FairSpec == Spec /\ \A c \in CallIds : WF_tvars(StopsRinging(c))
==============================================================================

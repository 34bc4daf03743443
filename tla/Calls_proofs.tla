---------------------------- MODULE Calls_proofs ----------------------------
(***************************************************************************)
(* Proofs about the exchange, for any set of users, calls and reasons and  *)
(* for every client: type correctness, exclusivity, finality of End, and   *)
(* that every step of the exchange is a step of Telephone or a stutter.    *)
(* Proofs about the terminals, for any users, any sessions of theirs and   *)
(* any number of calls: the terminals use the exchange only as its clients *)
(* may, so what is shown of every client holds of them; a panel is open    *)
(* only in runCall; each side of a call is driven by one terminal; and a   *)
(* call in progress is never without its terminals.                        *)
(***************************************************************************)
EXTENDS CallSession, TLAPS

-----------------------------------------------------------------------------
LEMMA InitType == Init => TypeOK
  BY DEF Init, TypeOK, States, Timers

LEMMA StepType == TypeOK /\ [Next]_vars => TypeOK'
<1> SUFFICES ASSUME TypeOK, [Next]_vars PROVE TypeOK'
  OBVIOUS
<1> USE DEF TypeOK, States, Timers
<1>1. ASSUME NEW c \in CallIds, NEW a \in Users, NEW b \in Users, Offer(a, b, c)
      PROVE TypeOK'
  BY <1>1 DEF Offer
<1>2. ASSUME NEW c \in CallIds, Accept(c) PROVE TypeOK'
  BY <1>2 DEF Accept, StopTimer
<1>3. ASSUME NEW c \in CallIds, NEW r \in ClientReasons, End(c, r) PROVE TypeOK'
  BY <1>3 DEF End, StopTimer
<1>4. ASSUME NEW c \in CallIds, Remove(c) PROVE TypeOK'
  BY <1>4 DEF Remove, callVars
<1>5. ASSUME NEW c \in CallIds, RingExpires(c) PROVE TypeOK'
  BY <1>5 DEF RingExpires
<1>6. ASSUME NEW c \in CallIds, RingTimesOut(c) PROVE TypeOK'
  BY <1>6 DEF RingTimesOut
<1>7. ASSUME NEW c \in CallIds, TimerRemoves(c) PROVE TypeOK'
  BY <1>7 DEF TimerRemoves
<1>8. CASE UNCHANGED vars
  BY <1>8 DEF vars
<1>9. QED
  BY <1>1, <1>2, <1>3, <1>4, <1>5, <1>6, <1>7, <1>8 DEF Next, Client, Clock

\* Type correctness: every field of a call stays in the range of its Go type.
THEOREM TypeCorrect == Spec => []TypeOK
  BY InitType, StepType, PTL DEF Spec

-----------------------------------------------------------------------------
(***************************************************************************)
(* Exclusive is not inductive by itself: nothing in it stops Offer from    *)
(* reusing the id of a registered call, or a timer from removing a live    *)
(* one.                                                                    *)
(***************************************************************************)
IInv ==
    /\ Exclusive
    /\ \A c \in registered : state[c] # "unplaced"
    /\ \A c \in CallIds : timer[c] = "removing" => state[c] = "ended"
    /\ \A c \in CallIds :
         /\ state[c] = "unplaced" => caller[c] = Nobody /\ callee[c] = Nobody
                                     /\ timer[c] = "unset"
         /\ state[c] # "unplaced" => caller[c] \in Users /\ callee[c] \in Users

LEMMA InitIInv == Init => IInv
  BY DEF Init, IInv, Exclusive, Live

\* An offer keeps the parties of registered calls apart: it was refused
\* unless no registered call, ended or not, involved either party.
LEMMA OfferIInv ==
    ASSUME TypeOK, IInv, NEW c \in CallIds, NEW a \in Users, NEW b \in Users, Offer(a, b, c)
    PROVE  IInv'
<1> USE DEF TypeOK
<1>1. /\ c \notin registered
      /\ registered' = registered \cup {c}
      /\ caller'[c] = a /\ callee'[c] = b /\ state'[c] = "ringing" /\ timer'[c] = "armed"
      /\ \A d \in CallIds \ {c} : /\ caller'[d] = caller[d] /\ callee'[d] = callee[d]
                                  /\ state'[d] = state[d] /\ timer'[d] = timer[d]
  BY DEF Offer, IInv
<1>2. \A d \in CallIds : Live(d)' => d \in registered'
  BY <1>1 DEF Live, IInv, Exclusive
<1>3. \A d \in registered, u \in Users :
        Involves(d, u)' /\ (u = a \/ u = b) => FALSE
  <2>1. \A d \in registered : ~Involves(d, a) /\ ~Involves(d, b)
    BY DEF Offer, Busy
  <2>2. \A d \in registered : caller'[d] = caller[d] /\ callee'[d] = callee[d]
    BY <1>1
  <2>3. QED
    BY <2>1, <2>2 DEF Involves
<1>4. ASSUME NEW d \in registered', NEW e \in registered', NEW u \in Users,
             Involves(d, u)', Involves(e, u)'
      PROVE  d = e
  <2>1. CASE d # c /\ e # c
    <3>1. d \in registered /\ e \in registered /\ Involves(d, u) /\ Involves(e, u)
      BY <2>1, <1>1, <1>4 DEF Involves
    <3>2. QED
      BY <3>1 DEF IInv, Exclusive
  <2>2. CASE d = c /\ e # c
    BY <2>2, <1>1, <1>3, <1>4 DEF Involves
  <2>3. CASE d # c /\ e = c
    BY <2>3, <1>1, <1>3, <1>4 DEF Involves
  <2>4. QED
    BY <2>1, <2>2, <2>3
<1>5. Exclusive'
  BY <1>2, <1>4 DEF Exclusive
<1>6. ASSUME NEW d \in registered' PROVE state'[d] # "unplaced"
  <2>1. CASE d = c
    BY <2>1, <1>1
  <2>2. CASE d # c
    BY <2>2, <1>1 DEF IInv
  <2>3. QED
    BY <2>1, <2>2
<1>7. ASSUME NEW d \in CallIds PROVE timer'[d] = "removing" => state'[d] = "ended"
  BY <1>1 DEF IInv
<1>8. ASSUME NEW d \in CallIds
      PROVE  /\ state'[d] = "unplaced" => /\ caller'[d] = Nobody /\ callee'[d] = Nobody
                                          /\ timer'[d] = "unset"
             /\ state'[d] # "unplaced" => caller'[d] \in Users /\ callee'[d] \in Users
  <2>1. CASE d = c
    BY <2>1, <1>1
  <2>2. CASE d # c
    BY <2>2, <1>1 DEF IInv
  <2>3. QED
    BY <2>1, <2>2
<1>9. QED
  BY <1>5, <1>6, <1>7, <1>8 DEF IInv

\* A step that places no call keeps the exclusivity of the registry if it
\* revives none and unregisters none but an ended one.
LEMMA KeepsExclusive ==
    ASSUME TypeOK, IInv,
           caller' = caller, callee' = callee, registered' \subseteq registered,
           \A c \in CallIds : Live(c)' => Live(c),
           \A c \in CallIds : Live(c)' /\ c \in registered => c \in registered'
    PROVE  Exclusive'
<1>1. ASSUME NEW c \in registered', NEW d \in registered', NEW u \in Users,
             Involves(c, u)', Involves(d, u)'
      PROVE  c = d
  <2>1. c \in registered /\ d \in registered /\ Involves(c, u) /\ Involves(d, u)
    BY <1>1 DEF Involves
  <2>2. QED
    BY <2>1 DEF IInv, Exclusive
<1>2. \A c \in CallIds : Live(c)' => c \in registered'
  BY DEF IInv, Exclusive
<1>3. QED
  BY <1>1, <1>2 DEF Exclusive

LEMMA StepIInv == TypeOK /\ IInv /\ [Next]_vars => IInv'
<1> SUFFICES ASSUME TypeOK, IInv, [Next]_vars PROVE IInv'
  OBVIOUS
<1> USE DEF TypeOK
<1>1. ASSUME NEW c \in CallIds, NEW a \in Users, NEW b \in Users, Offer(a, b, c) PROVE IInv'
  BY <1>1, OfferIInv
<1>2. ASSUME NEW c \in CallIds, Accept(c) PROVE IInv'
  <2>1. Exclusive'
    BY <1>2, KeepsExclusive DEF Accept, StopTimer, IInv, Live
  <2>2. QED
    BY <1>2, <2>1 DEF Accept, StopTimer, IInv, Live
<1>3. ASSUME NEW c \in CallIds, NEW r \in ClientReasons, End(c, r) PROVE IInv'
  <2>1. Exclusive'
    BY <1>3, KeepsExclusive DEF End, StopTimer, IInv, Live
  <2>2. QED
    BY <1>3, <2>1 DEF End, StopTimer, IInv, Live
<1>4. ASSUME NEW c \in CallIds, Remove(c) PROVE IInv'
  <2>1. Exclusive'
    BY <1>4, KeepsExclusive DEF Remove, callVars, IInv, Live
  <2>2. QED
    BY <1>4, <2>1 DEF Remove, callVars, IInv, Live
<1>5. ASSUME NEW c \in CallIds, RingExpires(c) PROVE IInv'
  <2>1. Exclusive'
    BY <1>5, KeepsExclusive DEF RingExpires, IInv, Live
  <2>2. QED
    BY <1>5, <2>1 DEF RingExpires, IInv, Live
<1>6. ASSUME NEW c \in CallIds, RingTimesOut(c) PROVE IInv'
  <2>1. Exclusive'
    BY <1>6, KeepsExclusive DEF RingTimesOut, IInv, Live
  <2>2. CASE Live(c)
    <3>1. /\ state' = [state EXCEPT ![c] = "ended"]
          /\ timer' = [timer EXCEPT ![c] = "removing"]
          /\ UNCHANGED <<caller, callee, registered>>
      BY <1>6, <2>2 DEF RingTimesOut
    <3>2. \A d \in CallIds :
            IF d = c THEN state'[d] = "ended" /\ timer'[d] = "removing"
            ELSE state'[d] = state[d] /\ timer'[d] = timer[d]
      BY <3>1
    <3>3. state[c] # "unplaced"
      BY <2>2 DEF Live
    <3>4. QED
      BY <2>1, <3>1, <3>2, <3>3 DEF IInv
  <2>3. CASE ~Live(c)
    BY <1>6, <2>1, <2>3 DEF RingTimesOut, IInv, Live
  <2>4. QED
    BY <2>2, <2>3
<1>7. ASSUME NEW c \in CallIds, TimerRemoves(c) PROVE IInv'
  <2>1. Exclusive'
    BY <1>7, KeepsExclusive DEF TimerRemoves, IInv, Live
  <2>2. QED
    BY <1>7, <2>1 DEF TimerRemoves, IInv, Live
<1>8. CASE UNCHANGED vars
  <2>1. Exclusive'
    BY <1>8, KeepsExclusive DEF vars, Live
  <2>2. QED
    BY <1>8, <2>1 DEF vars, IInv
<1>9. QED
  BY <1>1, <1>2, <1>3, <1>4, <1>5, <1>6, <1>7, <1>8 DEF Next, Client, Clock

LEMMA IInvHolds == Spec => []IInv
  BY InitIInv, StepIInv, TypeCorrect, PTL DEF Spec

\* No user is ever a party to two registered calls, and every call in progress
\* is registered: what Offer's busy check is for.
THEOREM ExclusiveHolds == Spec => []Exclusive
<1>1. IInv => Exclusive
  BY DEF IInv
<1>2. QED
  BY <1>1, IInvHolds, PTL

-----------------------------------------------------------------------------
\* End is final: the first reason stands, no late Accept revives the call, and
\* a call that has left the registry does not come back.
THEOREM EndIsFinal == Spec => EndedIsFinal
<1> DEFINE A == \A c \in CallIds : state[c] = "ended" =>
          /\ state'[c] = "ended" /\ reason'[c] = reason[c] /\ answered'[c] = answered[c]
          /\ (c \notin registered => c \notin registered')
<1>1. TypeOK /\ [Next]_vars => [A]_vars
  <2> SUFFICES ASSUME TypeOK, Next, NEW c \in CallIds, state[c] = "ended"
               PROVE  /\ state'[c] = "ended" /\ reason'[c] = reason[c]
                      /\ answered'[c] = answered[c]
                      /\ (c \notin registered => c \notin registered')
    OBVIOUS
  <2> USE DEF TypeOK
  <2>1. ASSUME NEW d \in CallIds, Client(d)
        PROVE  /\ state'[c] = "ended" /\ reason'[c] = reason[c]
               /\ answered'[c] = answered[c]
               /\ (c \notin registered => c \notin registered')
    BY <2>1 DEF Client, Offer, Accept, End, Remove, StopTimer, Live, callVars
  <2>2. ASSUME NEW d \in CallIds, Clock(d)
        PROVE  /\ state'[c] = "ended" /\ reason'[c] = reason[c]
               /\ answered'[c] = answered[c]
               /\ (c \notin registered => c \notin registered')
    BY <2>2 DEF Clock, RingExpires, RingTimesOut, TimerRemoves, Live
  <2>3. QED
    BY <2>1, <2>2 DEF Next
<1>2. QED
  BY <1>1, TypeCorrect, PTL DEF Spec, EndedIsFinal

-----------------------------------------------------------------------------
(***************************************************************************)
(* Refinement.  Offer rings, Accept answers, End and the timer clear; what *)
(* moves only the registry or a timer is a stutter of the telephone.       *)
(***************************************************************************)
PhaseF == [c \in CallIds |-> Phase(c)]
PartiesF == [c \in CallIds |-> {caller[c], callee[c]} \ {Nobody}]

LEMMA PhaseCases ==
    ASSUME TypeOK, NEW c \in CallIds
    PROVE  /\ Phase(c) = "idle" <=> state[c] = "unplaced"
           /\ Phase(c) = "ringing" <=> state[c] = "ringing"
           /\ Phase(c) = "connected" <=> state[c] = "active"
           /\ Phase(c) = "over" <=> state[c] = "ended"
<1>1. state[c] \in States
  BY DEF TypeOK
<1>2. QED
  BY <1>1 DEF Phase, States

\* A user the registry does not involve is free in the telephone's sense.
LEMMA NotBusyIsFree ==
    ASSUME TypeOK, IInv, NEW u \in Users,
           \A d \in registered : ~Involves(d, u)
    PROVE  Exchange!Free(u)
<1> SUFFICES ASSUME NEW d \in CallIds, Exchange!InProgress(d)
             PROVE  u \notin PartiesF[d]
  BY DEF Exchange!Free, PartiesF
<1>1. Live(d)
  BY PhaseCases DEF Exchange!InProgress, Live
<1>2. ~Involves(d, u)
  BY <1>1 DEF IInv, Exclusive
<1>3. QED
  BY <1>2 DEF Involves, PartiesF

\* The two ways a call's phase moves, in terms of the mapped variables.
LEMMA OnePhaseMoves ==
    ASSUME TypeOK, TypeOK', NEW c \in CallIds,
           \A d \in CallIds \ {c} : state'[d] = state[d],
           caller' = caller, callee' = callee
    PROVE  /\ PhaseF' = [PhaseF EXCEPT ![c] = Phase(c)']
           /\ PartiesF' = PartiesF
<1>1. ASSUME NEW d \in CallIds, d # c PROVE Phase(d)' = Phase(d)
  BY <1>1 DEF Phase
<1>2. QED
  BY <1>1 DEF PhaseF, PartiesF

LEMMA OfferRings ==
    ASSUME TypeOK, TypeOK', IInv, NEW c \in CallIds, NEW a \in Users, NEW b \in Users,
           Offer(a, b, c)
    PROVE  Exchange!Ring(c, a, b)
<1>1. Phase(c) = "idle" /\ Phase(c)' = "ringing"
  BY PhaseCases DEF Offer, TypeOK, Phase
<1>2. Exchange!Free(a) /\ Exchange!Free(b)
  BY NotBusyIsFree DEF Offer, Busy
<1>3. ASSUME NEW d \in CallIds, d # c
      PROVE  /\ Phase(d)' = Phase(d)
             /\ caller'[d] = caller[d] /\ callee'[d] = callee[d]
  BY <1>3 DEF Offer, Phase, TypeOK
<1>4. PhaseF' = [PhaseF EXCEPT ![c] = "ringing"]
  BY <1>1, <1>3 DEF PhaseF
<1>5. {caller'[c], callee'[c]} \ {Nobody} = {a, b}
  BY NobodyAssumption DEF Offer, TypeOK
<1>6. PartiesF' = [PartiesF EXCEPT ![c] = {a, b}]
  BY <1>3, <1>5 DEF PartiesF
<1>7. QED
  BY <1>1, <1>2, <1>4, <1>6 DEF Exchange!Ring, PhaseF, PartiesF

LEMMA StepRefines ==
    ASSUME TypeOK, TypeOK', IInv, [Next]_vars
    PROVE  [Exchange!Next]_(Exchange!tvars)
<1>1. ASSUME NEW c \in CallIds, NEW a \in Users, NEW b \in Users, Offer(a, b, c)
      PROVE  Exchange!Next
  BY <1>1, OfferRings DEF Exchange!Next
<1>2. ASSUME NEW c \in CallIds, Accept(c) PROVE Exchange!Next
  <2>1. Phase(c) = "ringing" /\ Phase(c)' = "connected"
    BY <1>2, PhaseCases DEF Accept, TypeOK, Phase
  <2>2. PhaseF' = [PhaseF EXCEPT ![c] = "connected"] /\ PartiesF' = PartiesF
    BY <1>2, <2>1, OnePhaseMoves DEF Accept, TypeOK
  <2>3. Exchange!Answer(c)
    BY <2>1, <2>2 DEF Exchange!Answer, PhaseF, PartiesF
  <2>4. QED
    BY <2>3 DEF Exchange!Next
<1>3. ASSUME NEW c \in CallIds, Live(c), state'= [state EXCEPT ![c] = "ended"],
             caller' = caller, callee' = callee
      PROVE  Exchange!Next
  <2>1. Phase(c) \in {"ringing", "connected"} /\ Phase(c)' = "over"
    BY <1>3, PhaseCases DEF TypeOK, Phase, Live
  <2>2. PhaseF' = [PhaseF EXCEPT ![c] = "over"] /\ PartiesF' = PartiesF
    BY <1>3, <2>1, OnePhaseMoves DEF TypeOK
  <2>3. Exchange!Clear(c)
    BY <2>1, <2>2 DEF Exchange!Clear, Exchange!InProgress, PhaseF, PartiesF
  <2>4. QED
    BY <2>3 DEF Exchange!Next
<1>4. ASSUME UNCHANGED <<state, caller, callee>> PROVE UNCHANGED Exchange!tvars
  BY <1>4 DEF Exchange!tvars, Phase
<1>5. QED
  BY <1>1, <1>2, <1>3, <1>4 DEF Next, Client, Clock, End, Remove, RingExpires,
     RingTimesOut, TimerRemoves, vars, callVars

\* Every behaviour of the exchange is one of the telephone (its safety part:
\* the fairness of ImplementsTelephone is left to the model checker).
THEOREM RefinesTelephone == Spec => Exchange!Spec
<1>1. Init => Exchange!Init
  <2> SUFFICES ASSUME Init PROVE Exchange!Init
    OBVIOUS
  <2>1. \A c \in CallIds : Phase(c) = "idle" /\ {caller[c], callee[c]} \ {Nobody} = {}
    BY DEF Init, Phase
  <2>2. QED
    BY <2>1 DEF Exchange!Init
<1>2. TypeOK /\ TypeOK' /\ IInv /\ [Next]_vars => [Exchange!Next]_(Exchange!tvars)
  BY StepRefines
<1>3. QED
  BY <1>1, <1>2, TypeCorrect, IInvHolds, PTL DEF Spec, Exchange!Spec

-----------------------------------------------------------------------------
(***************************************************************************)
(* Where a command stands says what it has in hand.  The exchange's own    *)
(* invariants need nothing of this but the ranges: a call to End, a user   *)
(* to offer to, a reason to give.                                          *)
(***************************************************************************)
Positions == {"prompt", "answering", "declining", "offering", "notifying", "cleared"} \cup InRun

InHand ==
    \A s \in Sessions :
        /\ pc[s] \notin {"prompt", "offering"} => at[s] \in CallIds
        /\ pc[s] = "offering" => peer[s] \in Users /\ peer[s] # User(s)
        /\ pc[s] = "hanging" => why[s] \in ClientReasons
        /\ watch[s] # "off" <=> pc[s] \in InRun

TInv == SessionTypeOK /\ InHand /\ PanelFollowsTerminal

LEMMA UsersOfSessions == \A s \in Sessions : User(s) \in Users
  BY SessionAssumption DEF User

LEMMA GivenReasons == {"declined", "unreachable", "canceled", HungUpReason, LostReason} \subseteq ClientReasons
  BY Zenon, SessionAssumption

LEMMA NoCallIsNone == NoCall \notin CallIds
  BY Zenon, SessionAssumption

LEMMA InitTInv == SessionInit => TInv
<1> SUFFICES ASSUME SessionInit PROVE TInv
  OBVIOUS
<1>1. TypeOK
  BY InitType DEF SessionInit
<1>2. QED
  BY <1>1 DEF SessionInit, TInv, SessionTypeOK, InHand, PanelFollowsTerminal, InRun, OnCall

-----------------------------------------------------------------------------
(***************************************************************************)
(* Every step of a terminal is a step of a client of the exchange, or none *)
(* of the exchange's business.                                             *)
(***************************************************************************)
LEMMA EndsIsExchange ==
    ASSUME NEW c \in CallIds, NEW r \in ClientReasons, End(c, r) \/ UNCHANGED vars
    PROVE  [Next]_vars
  BY DEF Next, Client

LEMMA ProgramIsExchange ==
    ASSUME TInv, NEW s \in Sessions, Program(s)
    PROVE  [Next]_vars
<1> USE DEF TInv, InHand, InRun, OnCall
<1>1. CASE Decline(s)
  <2>1. at[s] \in CallIds /\ (End(at[s], "declined") \/ UNCHANGED vars)
    BY <1>1 DEF Decline, SessionEnds
  <2>2. QED
    BY <2>1, GivenReasons, EndsIsExchange
<1>2. CASE Unreachable(s)
  <2>1. at[s] \in CallIds /\ (End(at[s], "unreachable") \/ UNCHANGED vars)
    BY <1>2 DEF Unreachable, SessionEnds
  <2>2. QED
    BY <2>1, GivenReasons, EndsIsExchange
<1>3. CASE HangUp(s)
  <2>1. /\ at[s] \in CallIds /\ why[s] \in ClientReasons
        /\ End(at[s], why[s]) \/ UNCHANGED vars
    BY <1>3 DEF HangUp, SessionEnds
  <2>2. QED
    BY <2>1, EndsIsExchange
<1>4. CASE AnswerCall(s)
  BY <1>4 DEF AnswerCall, Next, Client
<1>5. CASE PlaceCall(s)
  <2>1. (\E c \in CallIds : Offer(User(s), peer[s], c)) \/ UNCHANGED vars
    BY <1>5 DEF PlaceCall
  <2>2. User(s) \in Users /\ peer[s] \in Users
    BY <1>5, UsersOfSessions DEF PlaceCall
  <2>3. QED
    BY <2>1, <2>2 DEF Next, Client
<1>6. CASE Cleared(s) \/ HungUp(s)
  BY <1>6 DEF Cleared, HungUp, Next, Client
<1>7. CASE Notified(s) \/ Leave(s)
  BY <1>7 DEF Notified, Leave
<1>8. QED
  BY <1>1, <1>2, <1>3, <1>4, <1>5, <1>6, <1>7 DEF Program

LEMMA StepIsExchange == TInv /\ [SessionNext]_allVars => [Next]_vars
<1> SUFFICES ASSUME TInv, [SessionNext]_allVars PROVE [Next]_vars
  OBVIOUS
<1>1. ASSUME NEW s \in Sessions, Typing(s) PROVE [Next]_vars
  BY <1>1 DEF Typing, TypeDecline, TypeCall, PressEnter, PressCtrlC, LoseTerminal
<1>2. ASSUME NEW s \in Sessions, Watcher(s) PROVE [Next]_vars
  BY <1>2 DEF Watcher, WatchAccepted, StartCallUI, WatchStops
<1>3. CASE ClockStep \/ MediaStep
  BY <1>3, SessionAssumption DEF ClockStep, MediaStep, MediaDrops, MediaRemoves, Next, Client
<1>4. CASE UNCHANGED allVars
  BY <1>4 DEF allVars
<1>5. QED
  BY <1>1, <1>2, <1>3, <1>4, ProgramIsExchange DEF SessionNext

-----------------------------------------------------------------------------
(***************************************************************************)
(* TInv is inductive.  A step moves one session; Moved says where to, and  *)
(* leaves the others as they were.                                         *)
(***************************************************************************)
Moved(s) ==
    /\ pc' \in [Sessions -> Positions]
    /\ at' \in [Sessions -> CallIds \cup {NoCall}]
    /\ peer' \in [Sessions -> Users \cup {Nobody}]
    /\ why' \in [Sessions -> ClientReasons \cup {NoReason}]
    /\ watch' \in [Sessions -> {"off", "ringing", "starting", "watching", "done"}]
    /\ panel' \in [Sessions -> CallIds \cup {NoCall}]
    /\ \A t \in Sessions \ {s} :
         /\ pc'[t] = pc[t] /\ at'[t] = at[t] /\ peer'[t] = peer[t]
         /\ why'[t] = why[t] /\ watch'[t] = watch[t] /\ panel'[t] = panel[t]

\* What InHand and PanelFollowsTerminal say of one session, after a step.
Stands(s) ==
    /\ pc'[s] \notin {"prompt", "offering"} => at'[s] \in CallIds
    /\ pc'[s] = "offering" => peer'[s] \in Users /\ peer'[s] # User(s)
    /\ pc'[s] = "hanging" => why'[s] \in ClientReasons
    /\ watch'[s] # "off" <=> pc'[s] \in InRun
    /\ panel'[s] # NoCall => at'[s] = panel'[s] /\ pc'[s] \in InRun

LEMMA MovedTInv ==
    ASSUME TInv, TypeOK', NEW s \in Sessions, Moved(s), Stands(s)
    PROVE  TInv'
  BY DEF TInv, Moved, Stands, SessionTypeOK, InHand, PanelFollowsTerminal, Positions, User

LEMMA TypingTInv ==
    ASSUME TInv, NEW s \in Sessions, Typing(s)
    PROVE  Moved(s) /\ Stands(s)
<1> USE DEF TInv, SessionTypeOK, InHand, PanelFollowsTerminal, Positions, InRun, OnCall, Moved, Stands
<1>1. ASSUME NEW u \in Users, TypeDecline(s, u) PROVE Moved(s) /\ Stands(s)
  BY <1>1 DEF TypeDecline, Go, PendingFor, TypeOK
<1>2. ASSUME NEW u \in Users, TypeCall(s, u) PROVE Moved(s) /\ Stands(s)
  BY <1>2 DEF TypeCall, Go, PendingFor, TypeOK
<1>3. CASE PressEnter(s)
  BY <1>3 DEF PressEnter, Go
<1>4. CASE PressCtrlC(s)
  BY <1>4, GivenReasons DEF PressCtrlC, Go
<1>5. CASE LoseTerminal(s)
  BY <1>5, GivenReasons DEF LoseTerminal, Go
<1>6. QED
  BY <1>1, <1>2, <1>3, <1>4, <1>5 DEF Typing

LEMMA ProgramTInv ==
    ASSUME TInv, NEW s \in Sessions, Program(s)
    PROVE  Moved(s) /\ Stands(s)
<1> USE DEF TInv, SessionTypeOK, InHand, PanelFollowsTerminal, Positions, InRun, OnCall, Moved, Stands
<1>1. CASE Decline(s)
  BY <1>1 DEF Decline, SessionEnds, Prompt, Go
<1>2. CASE AnswerCall(s)
  BY <1>2 DEF AnswerCall, Prompt, Go
<1>3. CASE PlaceCall(s)
  BY <1>3 DEF PlaceCall, Prompt, Go
<1>4. CASE Notified(s)
  BY <1>4 DEF Notified, Go
<1>5. CASE Unreachable(s)
  BY <1>5 DEF Unreachable, SessionEnds, Prompt, Go
<1>6. CASE Cleared(s)
  BY <1>6 DEF Cleared, Prompt, Go
<1>7. CASE HangUp(s)
  BY <1>7 DEF HangUp, SessionEnds, Go
<1>8. CASE HungUp(s)
  BY <1>8 DEF HungUp, Go
<1>9. CASE Leave(s)
  BY <1>9 DEF Leave, Prompt, Go
<1>10. QED
  BY <1>1, <1>2, <1>3, <1>4, <1>5, <1>6, <1>7, <1>8, <1>9 DEF Program

LEMMA WatcherTInv ==
    ASSUME TInv, NEW s \in Sessions, Watcher(s)
    PROVE  Moved(s) /\ Stands(s)
<1> USE DEF TInv, SessionTypeOK, InHand, PanelFollowsTerminal, Positions, InRun, OnCall, Moved, Stands
<1>1. CASE WatchAccepted(s)
  BY <1>1 DEF WatchAccepted
<1>2. CASE StartCallUI(s)
  BY <1>2 DEF StartCallUI
<1>3. CASE WatchStops(s)
  BY <1>3 DEF WatchStops
<1>4. QED
  BY <1>1, <1>2, <1>3 DEF Watcher

LEMMA StepTInv == TInv /\ [SessionNext]_allVars => TInv'
<1> SUFFICES ASSUME TInv, [SessionNext]_allVars PROVE TInv'
  OBVIOUS
<1>1. TypeOK'
  BY StepIsExchange, StepType DEF TInv, SessionTypeOK
<1>2. ASSUME NEW s \in Sessions, Typing(s) \/ Program(s) \/ Watcher(s) PROVE TInv'
  BY <1>1, <1>2, TypingTInv, ProgramTInv, WatcherTInv, MovedTInv
<1>3. CASE UNCHANGED sessionVars
  BY <1>1, <1>3 DEF sessionVars, TInv, SessionTypeOK, InHand, PanelFollowsTerminal, User
<1>4. QED
  BY <1>2, <1>3 DEF SessionNext, ClockStep, MediaStep, allVars

LEMMA TInvHolds == SessionSpec => []TInv
  BY InitTInv, StepTInv, PTL DEF SessionSpec

\* Types: the command lines, the reader loops, the watchers and the panels
\* stay in their ranges, for any number of terminals.
THEOREM SessionTypeCorrect == SessionSpec => []SessionTypeOK
<1>1. TInv => SessionTypeOK
  BY DEF TInv
<1>2. QED
  BY <1>1, TInvHolds, PTL

\* The browser's panel is open only while its terminal is in runCall on that
\* call (cmd_call.go:240-243), whenever the call ended under the watcher.
THEOREM PanelAlwaysFollows == SessionSpec => []PanelFollowsTerminal
<1>1. TInv => PanelFollowsTerminal
  BY DEF TInv
<1>2. QED
  BY <1>1, TInvHolds, PTL

\* The terminals call the exchange's operations only as its clients may, which
\* makes every theorem about the exchange one about the terminals.
LEMMA TerminalsUseExchange == SessionSpec => Spec
<1>1. SessionInit => Init
  BY DEF SessionInit
<1>2. QED
  BY <1>1, StepIsExchange, TInvHolds, PTL DEF SessionSpec, Spec

LEMMA SessionsKeepIInv == SessionSpec => [](TypeOK /\ IInv)
  BY TerminalsUseExchange, TypeCorrect, IInvHolds, PTL

-----------------------------------------------------------------------------
(***************************************************************************)
(* The sides of a call.  OneTerminalPerSide is not inductive by itself:    *)
(* nothing in it says that a terminal in runCall is one of the call's two  *)
(* parties, nor that a callee's one is there only once the call has been   *)
(* answered, so that no second Accept can succeed.  The same facts of the  *)
(* commands that are about to enter runCall complete it.                   *)
(***************************************************************************)
Drives == {"notifying"} \cup InRun
Tends  == {"notifying"} \cup OnCall

Placed(c) == state[c] # "unplaced"

OnTheirSide ==
    \A s \in Sessions :
        /\ pc[s] = "answering" => Placed(at[s]) /\ User(s) = callee[at[s]]
        /\ pc[s] \in Drives =>
             /\ Placed(at[s])
             /\ \/ User(s) = caller[at[s]]
                \/ User(s) = callee[at[s]] /\ answered[at[s]] /\ pc[s] # "notifying"

CallsArePairs ==
    \A c \in CallIds :
        /\ Placed(c) => caller[c] # callee[c]
        /\ answered[c] => state[c] \in {"active", "ended"}

OneDriverPerSide ==
    \A s, t \in Sessions :
        s # t /\ pc[s] \in Drives /\ pc[t] \in Drives /\ at[s] = at[t] => User(s) # User(t)

SidesInv == OnTheirSide /\ CallsArePairs /\ OneDriverPerSide

LEMMA InitSides == SessionInit => SidesInv
  BY DEF SessionInit, Init, SidesInv, OnTheirSide, CallsArePairs, OneDriverPerSide,
         Drives, InRun, OnCall, Placed

(***************************************************************************)
(* All steps but three change no party, answer nothing, and let a terminal *)
(* that drives no call drive none.                                         *)
(***************************************************************************)
Quiet ==
    /\ caller' = caller /\ callee' = callee /\ answered' = answered
    /\ \A c \in CallIds : state'[c] = state[c] \/ (Placed(c) /\ state'[c] = "ended")

Idles(s) ==
    /\ \A t \in Sessions \ {s} : pc'[t] = pc[t] /\ at'[t] = at[t]
    /\ pc'[s] = "answering" => Placed(at'[s]) /\ User(s) = callee[at'[s]] /\ at'[s] \in CallIds
    /\ pc'[s] \in Drives => pc[s] \in Drives /\ at'[s] = at[s]
                            /\ (pc'[s] = "notifying" => pc[s] = "notifying")

LEMMA QuietSides ==
    ASSUME TInv, SidesInv, NEW s \in Sessions, Quiet, Idles(s)
    PROVE  SidesInv'
<1> USE DEF TInv, InHand, SidesInv, Quiet
<1>1. \A c \in CallIds : Placed(c) => Placed(c)'
  BY DEF Placed
<1>2. CallsArePairs'
  BY DEF CallsArePairs, Placed
<1>3. OneDriverPerSide'
  BY DEF OneDriverPerSide, Idles, User
<1>4. ASSUME NEW t \in Sessions
      PROVE  /\ pc'[t] = "answering" => Placed(at[t])' /\ User(t) = callee'[at'[t]]
             /\ pc'[t] \in Drives =>
                  /\ Placed(at[t])'
                  /\ \/ User(t) = caller'[at'[t]]
                     \/ User(t) = callee'[at'[t]] /\ answered'[at'[t]] /\ pc'[t] # "notifying"
  <2>1. CASE t = s
    BY <1>1, <2>1 DEF Idles, OnTheirSide, Drives, InRun, OnCall
  <2>2. CASE t # s
    BY <1>1, <2>2 DEF Idles, OnTheirSide, Drives, InRun, OnCall
  <2>3. QED
    BY <2>1, <2>2
<1>5. QED
  BY <1>2, <1>3, <1>4 DEF OnTheirSide, User

\* Accept succeeds once: while the call rings the callee's side has no
\* terminal in runCall, and the caller is somebody else.
LEMMA AnswerSides ==
    ASSUME TInv, SidesInv, NEW s \in Sessions, pc[s] = "answering", Accept(at[s]),
           pc' = [pc EXCEPT ![s] = "reading"], at' = at
    PROVE  SidesInv'
<1> DEFINE c == at[s]
<1>1. /\ c \in CallIds /\ User(s) = callee[c] /\ ~answered[c]
      /\ state[c] = "ringing" /\ caller[c] # callee[c]
  BY DEF TInv, InHand, SidesInv, OnTheirSide, CallsArePairs, Accept, Placed
<1>2. /\ caller' = caller /\ callee' = callee
      /\ \A d \in CallIds \ {c} : state'[d] = state[d] /\ answered'[d] = answered[d]
      /\ state'[c] = "active" /\ answered'[c] = TRUE
  BY <1>1 DEF Accept, TInv, SessionTypeOK, TypeOK
<1>3. /\ pc'[s] = "reading"
      /\ \A t \in Sessions \ {s} : pc'[t] = pc[t]
  BY DEF TInv, SessionTypeOK
<1>4. CallsArePairs'
  BY <1>1, <1>2 DEF SidesInv, CallsArePairs, Placed
<1>5. ASSUME NEW t \in Sessions \ {s}, pc[t] \in Drives, at[t] = c PROVE User(t) # User(s)
  BY <1>1, <1>5 DEF SidesInv, OnTheirSide
<1>6. OneDriverPerSide'
  BY <1>3, <1>5 DEF SidesInv, OneDriverPerSide, User
<1>7. ASSUME NEW t \in Sessions, pc'[t] \in Drives \cup {"answering"} PROVE at[t] \in CallIds
  BY <1>1, <1>3, <1>7 DEF TInv, InHand, Drives, InRun, OnCall
<1>8. OnTheirSide'
  BY <1>1, <1>2, <1>3, <1>7 DEF SidesInv, OnTheirSide, Placed, User
<1>9. QED
  BY <1>4, <1>6, <1>8 DEF SidesInv

\* Offer creates the call: nobody had it in hand, and its parties differ.
LEMMA OfferSides ==
    ASSUME TInv, IInv, SidesInv, NEW s \in Sessions, NEW c \in CallIds, pc[s] = "offering",
           Offer(User(s), peer[s], c),
           pc' = [pc EXCEPT ![s] = "notifying"], at' = [at EXCEPT ![s] = c]
    PROVE  SidesInv'
<1>1. state[c] = "unplaced" /\ peer[s] # User(s)
  BY DEF Offer, TInv, InHand
<1>2. /\ caller'[c] = User(s) /\ callee'[c] = peer[s] /\ state'[c] = "ringing"
      /\ answered' = answered
      /\ \A d \in CallIds \ {c} : /\ caller'[d] = caller[d] /\ callee'[d] = callee[d]
                                  /\ state'[d] = state[d]
  BY DEF Offer, TInv, SessionTypeOK, TypeOK
<1>3. /\ pc'[s] = "notifying" /\ at'[s] = c
      /\ \A t \in Sessions \ {s} : pc'[t] = pc[t] /\ at'[t] = at[t]
  BY DEF TInv, SessionTypeOK
<1>4. ~answered[c]
  BY <1>1 DEF SidesInv, CallsArePairs
<1>5. ASSUME NEW t \in Sessions \ {s}, pc[t] \in Drives \cup {"answering"}
      PROVE  at[t] \in CallIds \ {c}
  BY <1>1, <1>5 DEF TInv, InHand, SidesInv, OnTheirSide, Placed, Drives, InRun, OnCall
<1>6. CallsArePairs'
  BY <1>1, <1>2, <1>4 DEF SidesInv, CallsArePairs, Placed
<1>7. OneDriverPerSide'
  BY <1>3, <1>5 DEF SidesInv, OneDriverPerSide, User
<1>8. ASSUME NEW t \in Sessions
      PROVE  /\ pc'[t] = "answering" => Placed(at[t])' /\ User(t) = callee'[at'[t]]
             /\ pc'[t] \in Drives =>
                  /\ Placed(at[t])'
                  /\ \/ User(t) = caller'[at'[t]]
                     \/ User(t) = callee'[at'[t]] /\ answered'[at'[t]] /\ pc'[t] # "notifying"
  <2>1. CASE t = s
    BY <1>2, <1>3, <2>1 DEF Placed
  <2>2. CASE t # s /\ pc[t] \in Drives \cup {"answering"}
    BY <1>2, <1>3, <1>5, <2>2 DEF SidesInv, OnTheirSide, Placed
  <2>3. CASE t # s /\ pc[t] \notin Drives \cup {"answering"}
    BY <1>3, <2>3
  <2>4. QED
    BY <2>1, <2>2, <2>3
<1>9. OnTheirSide'
  BY <1>8 DEF OnTheirSide, User
<1>10. QED
  BY <1>6, <1>7, <1>9 DEF SidesInv

\* hub.Send reached the callee: the caller's terminal enters runCall.
LEMMA NotifiedSides ==
    ASSUME TInv, SidesInv, NEW s \in Sessions, Notified(s)
    PROVE  SidesInv'
<1>1. Quiet /\ pc[s] = "notifying" /\ pc'[s] = "reading" /\ at' = at
      /\ \A t \in Sessions \ {s} : pc'[t] = pc[t]
  BY DEF Notified, Go, TInv, SessionTypeOK, vars, Quiet
<1>2. QED
  BY <1>1, QuietSides DEF Idles, Drives, InRun, OnCall

-----------------------------------------------------------------------------
\* The steps of the terminals, sorted into the cases above.

Quietly(s) ==
    \/ Typing(s) \/ Watcher(s)
    \/ Decline(s) \/ Unreachable(s) \/ Cleared(s) \/ HangUp(s) \/ HungUp(s) \/ Leave(s)

LEMMA EndIsQuiet ==
    ASSUME TypeOK, NEW c, NEW r, End(c, r) \/ Remove(c) \/ UNCHANGED vars
    PROVE  Quiet
<1>1. state \in [CallIds -> States]
  BY DEF TypeOK
<1>2. CASE End(c, r)
  BY <1>1, <1>2 DEF End, Live, Placed, Quiet
<1>3. CASE Remove(c) \/ UNCHANGED vars
  BY <1>3 DEF Remove, callVars, vars, Quiet
<1>4. QED
  BY <1>2, <1>3

LEMMA QuietSteps ==
    ASSUME TInv, NEW s \in Sessions, Quietly(s)
    PROVE  Quiet
<1>1. TypeOK
  BY DEF TInv, SessionTypeOK
<1>2. \/ \E r : End(at[s], r)
      \/ Remove(at[s])
      \/ UNCHANGED vars
  <2>1. CASE Typing(s)
    BY <2>1 DEF Typing, TypeDecline, TypeCall, PressEnter, PressCtrlC, LoseTerminal
  <2>2. CASE Watcher(s) \/ Leave(s)
    BY <2>2 DEF Watcher, WatchAccepted, StartCallUI, WatchStops, Leave
  <2>3. CASE Decline(s) \/ Unreachable(s) \/ HangUp(s)
    BY <2>3 DEF Decline, Unreachable, HangUp, SessionEnds
  <2>4. CASE Cleared(s) \/ HungUp(s)
    BY <2>4 DEF Cleared, HungUp
  <2>5. QED
    BY <2>1, <2>2, <2>3, <2>4 DEF Quietly
<1>3. QED
  BY <1>1, <1>2, EndIsQuiet

\* Where each step of a command or a watcher leaves its session.
LEMMA WhereTyped ==
    ASSUME TInv, NEW s \in Sessions, Typing(s)
    PROVE  \/ pc'[s] = "declining" \/ pc'[s] = "offering"
           \/ pc'[s] = "answering" /\ at'[s] \in PendingFor(User(s), caller[at'[s]])
           \/ pc[s] = "reading" /\ pc'[s] \in InRun /\ at' = at
<1>1. pc \in [Sessions -> Positions] /\ at \in [Sessions -> CallIds \cup {NoCall}]
  BY DEF TInv, SessionTypeOK, Positions
<1>2. ASSUME NEW u \in Users, TypeCall(s, u), pc'[s] # "offering"
      PROVE  pc'[s] = "answering" /\ at'[s] \in PendingFor(User(s), caller[at'[s]])
  <2>1. PICK c \in PendingFor(User(s), u) : at' = [at EXCEPT ![s] = c] /\ Go(s, "answering")
    BY <1>1, <1>2 DEF TypeCall, Go
  <2>2. pc'[s] = "answering" /\ at'[s] = c
    BY <1>1, <2>1 DEF Go
  <2>3. QED
    BY <2>2 DEF PendingFor
<1>3. ASSUME NEW u \in Users, TypeDecline(s, u) PROVE pc'[s] = "declining"
  BY <1>1, <1>3 DEF TypeDecline, Go
<1>4. CASE PressEnter(s) \/ PressCtrlC(s) \/ LoseTerminal(s)
  BY <1>1, <1>4 DEF PressEnter, PressCtrlC, LoseTerminal, Go, InRun, OnCall
<1>5. QED
  BY <1>2, <1>3, <1>4 DEF Typing

LEMMA WhereQuiet ==
    ASSUME TInv, NEW s \in Sessions, Quietly(s), ~Typing(s)
    PROVE  \/ pc'[s] \in {"prompt", "cleared"}
           \/ pc'[s] \in InRun /\ pc[s] \in InRun /\ at' = at
           \/ pc'[s] = pc[s] /\ at' = at
<1>1. pc \in [Sessions -> Positions] /\ at \in [Sessions -> CallIds \cup {NoCall}]
  BY DEF TInv, SessionTypeOK, Positions
<1>2. CASE Watcher(s)
  BY <1>2 DEF Watcher, WatchAccepted, StartCallUI, WatchStops
<1>3. CASE Decline(s) \/ Unreachable(s)
  BY <1>1, <1>3 DEF Decline, Unreachable, SessionEnds, Prompt, Go
<1>4. CASE Cleared(s) \/ Leave(s)
  BY <1>1, <1>4 DEF Cleared, Leave, Prompt, Go
<1>5. CASE HangUp(s) \/ HungUp(s)
  BY <1>1, <1>5 DEF HangUp, HungUp, SessionEnds, Go, InRun, OnCall
<1>6. QED
  BY <1>2, <1>3, <1>4, <1>5 DEF Quietly

LEMMA IdleSteps ==
    ASSUME TInv, SidesInv, NEW s \in Sessions, Quietly(s)
    PROVE  Idles(s)
<1>1. Moved(s)
  BY TypingTInv, ProgramTInv, WatcherTInv DEF Quietly, Program
<1>2. \A t \in Sessions \ {s} : pc'[t] = pc[t] /\ at'[t] = at[t]
  BY <1>1 DEF Moved
<1>3. pc'[s] = "answering" => Placed(at'[s]) /\ User(s) = callee[at'[s]] /\ at'[s] \in CallIds
  <2>1. ASSUME at'[s] \in PendingFor(User(s), caller[at'[s]])
        PROVE  Placed(at'[s]) /\ User(s) = callee[at'[s]] /\ at'[s] \in CallIds
    BY <2>1 DEF PendingFor, Placed, TInv, SessionTypeOK, TypeOK
  <2>2. ASSUME pc[s] = "answering", at' = at
        PROVE  Placed(at'[s]) /\ User(s) = callee[at'[s]] /\ at'[s] \in CallIds
    BY <2>2 DEF SidesInv, OnTheirSide, TInv, InHand
  <2>3. QED
    BY <2>1, <2>2, WhereTyped, WhereQuiet DEF InRun, OnCall
<1>4. pc'[s] \in Drives => pc[s] \in Drives /\ at'[s] = at[s]
                           /\ (pc'[s] = "notifying" => pc[s] = "notifying")
  BY WhereTyped, WhereQuiet DEF Drives, InRun, OnCall
<1>5. QED
  BY <1>2, <1>3, <1>4 DEF Idles

\* An answer too late, an offer refused.
LEMMA PromptIsQuiet ==
    ASSUME TInv, NEW s \in Sessions, Prompt(s), UNCHANGED vars
    PROVE  Quiet /\ Idles(s)
<1>1. /\ pc'[s] = "prompt"
      /\ \A t \in Sessions \ {s} : pc'[t] = pc[t] /\ at'[t] = at[t]
  BY DEF Prompt, Go, TInv, SessionTypeOK
<1>2. QED
  BY <1>1 DEF vars, Quiet, Idles, Drives, InRun, OnCall

LEMMA ClockIsQuiet ==
    ASSUME TypeOK, ClockStep \/ MediaStep
    PROVE  Quiet /\ pc' = pc /\ at' = at
<1>1. pc' = pc /\ at' = at
  BY DEF ClockStep, MediaStep, sessionVars
<1>2. PICK c \in CallIds : Clock(c) \/ MediaDrops(c) \/ MediaRemoves(c)
  BY DEF ClockStep, MediaStep
<1>3. state \in [CallIds -> States]
  BY DEF TypeOK
<1>4. caller' = caller /\ callee' = callee /\ answered' = answered
  BY <1>2 DEF Clock, RingExpires, RingTimesOut, TimerRemoves, MediaDrops, MediaRemoves, End, Remove, callVars
<1>5. state' = state \/ (Live(c) /\ state' = [state EXCEPT ![c] = "ended"])
  BY <1>2 DEF Clock, RingExpires, RingTimesOut, TimerRemoves, MediaDrops, MediaRemoves, End, Remove, callVars
<1>6. QED
  BY <1>1, <1>3, <1>4, <1>5 DEF Quiet, Live, Placed

LEMMA StepSides == TInv /\ IInv /\ SidesInv /\ [SessionNext]_allVars => SidesInv'
<1> SUFFICES ASSUME TInv, IInv, SidesInv, [SessionNext]_allVars PROVE SidesInv'
  OBVIOUS
<1>1. ASSUME NEW s \in Sessions, AnswerCall(s) PROVE SidesInv'
  <2>1. CASE Accept(at[s]) /\ Go(s, "reading") /\ UNCHANGED at
    BY <1>1, <2>1, AnswerSides DEF AnswerCall, Go
  <2>2. CASE Prompt(s) /\ UNCHANGED vars
    <3>1. Quiet /\ Idles(s)
      BY <2>2, PromptIsQuiet
    <3>2. QED
      BY <3>1, QuietSides
  <2>3. QED
    BY <1>1, <2>1, <2>2 DEF AnswerCall
<1>2. ASSUME NEW s \in Sessions, PlaceCall(s) PROVE SidesInv'
  <2>1. CASE \E c \in CallIds : /\ Offer(User(s), peer[s], c)
                                /\ at' = [at EXCEPT ![s] = c]
                                /\ Go(s, "notifying")
    <3>1. PICK c \in CallIds : /\ Offer(User(s), peer[s], c)
                              /\ at' = [at EXCEPT ![s] = c]
                              /\ pc' = [pc EXCEPT ![s] = "notifying"]
      BY <2>1 DEF Go
    <3>2. pc[s] = "offering"
      BY <1>2 DEF PlaceCall
    <3>3. QED
      BY <3>1, <3>2, OfferSides
  <2>2. CASE Prompt(s) /\ UNCHANGED vars
    <3>1. Quiet /\ Idles(s)
      BY <2>2, PromptIsQuiet
    <3>2. QED
      BY <3>1, QuietSides
  <2>3. QED
    BY <1>2, <2>1, <2>2 DEF PlaceCall
<1>3. ASSUME NEW s \in Sessions, Notified(s) PROVE SidesInv'
  BY <1>3, NotifiedSides
<1>4. ASSUME NEW s \in Sessions, Quietly(s) PROVE SidesInv'
  BY <1>4, QuietSteps, IdleSteps, QuietSides
<1>5. CASE (Quiet \/ UNCHANGED vars) /\ UNCHANGED <<pc, at>>
  <2>1. Quiet
    BY <1>5 DEF Quiet, vars
  <2>2. CallsArePairs'
    BY <2>1 DEF Quiet, SidesInv, CallsArePairs, Placed
  <2>3. OneDriverPerSide'
    BY <1>5 DEF SidesInv, OneDriverPerSide, User
  <2>4. ASSUME NEW t \in Sessions, pc[t] \in Drives \cup {"answering"}
        PROVE  at[t] \in CallIds /\ (Placed(at[t]) => Placed(at[t])')
    <3>1. at[t] \in CallIds
      BY <2>4 DEF TInv, InHand, Drives, InRun, OnCall
    <3>2. Placed(at[t]) => Placed(at[t])'
      BY <1>5, <2>1, <3>1 DEF Quiet, Placed
    <3>3. QED
      BY <3>1, <3>2
  <2>5. OnTheirSide'
    BY <1>5, <2>1, <2>4 DEF Quiet, SidesInv, OnTheirSide, User
  <2>6. QED
    BY <2>2, <2>3, <2>5 DEF SidesInv
<1>6. CASE ClockStep \/ MediaStep \/ UNCHANGED allVars
  BY <1>5, <1>6, ClockIsQuiet DEF allVars, sessionVars, TInv, SessionTypeOK
<1>7. QED
  BY <1>1, <1>2, <1>3, <1>4, <1>6 DEF SessionNext, Program, Quietly

LEMMA SidesHold == SessionSpec => []SidesInv
  BY InitSides, StepSides, TInvHolds, SessionsKeepIInv, PTL DEF SessionSpec

\* Each side of a call is driven by at most one terminal, however many
\* sessions of the callee answer at once: Accept returns true to one of them.
THEOREM OneTerminalEach == SessionSpec => []OneTerminalPerSide
<1>1. SidesInv => OneTerminalPerSide
  BY DEF SidesInv, OneDriverPerSide, OneTerminalPerSide, Drives
<1>2. QED
  BY <1>1, SidesHold, PTL

-----------------------------------------------------------------------------
(***************************************************************************)
(* A call in progress has its terminals.  The steps that take one away     *)
(* find the call ended, or end it.                                         *)
(***************************************************************************)

\* A step in which session s keeps tending its call, or leaves one not live.
StaysOrOver(s) ==
    /\ caller' = caller /\ callee' = callee
    /\ \A c \in CallIds : state'[c] = state[c] \/ state'[c] = "ended"
    /\ \A t \in Sessions \ {s} : pc'[t] = pc[t] /\ at'[t] = at[t]
    /\ pc[s] \in Tends =>
         \/ at'[s] = at[s] /\ pc'[s] \in Tends /\ (pc[s] \in OnCall => pc'[s] \in OnCall)
         \/ state'[at[s]] = "ended"

LEMMA StaysAttended ==
    ASSUME LiveCallIsAttended, NEW s \in Sessions, StaysOrOver(s)
    PROVE  LiveCallIsAttended'
<1> SUFFICES ASSUME NEW c \in CallIds
             PROVE  /\ Live(c)' => \E t \in Sessions :
                         at'[t] = c /\ User(t) = caller'[c] /\ pc'[t] \in Tends
                    /\ state'[c] = "active" => \E t \in Sessions :
                         at'[t] = c /\ User(t) = callee'[c] /\ pc'[t] \in OnCall
  BY DEF LiveCallIsAttended, Tends, User
<1>1. ASSUME Live(c)' PROVE state[c] = state'[c] /\ Live(c)
  BY <1>1 DEF StaysOrOver, Live
<1>2. ASSUME Live(c)' PROVE \E t \in Sessions :
                              at'[t] = c /\ User(t) = caller'[c] /\ pc'[t] \in Tends
  <2>1. PICK t \in Sessions : at[t] = c /\ User(t) = caller[c] /\ pc[t] \in Tends
    BY <1>1, <1>2 DEF LiveCallIsAttended, Tends
  <2>2. at'[t] = c /\ pc'[t] \in Tends
    BY <1>2, <2>1 DEF StaysOrOver, Live
  <2>3. QED
    BY <2>1, <2>2 DEF StaysOrOver
<1>3. ASSUME state'[c] = "active" PROVE \E t \in Sessions :
                              at'[t] = c /\ User(t) = callee'[c] /\ pc'[t] \in OnCall
  <2>1. PICK t \in Sessions : at[t] = c /\ User(t) = callee[c] /\ pc[t] \in OnCall
    BY <1>1, <1>3 DEF LiveCallIsAttended, Live
  <2>2. at'[t] = c /\ pc'[t] \in OnCall
    BY <1>3, <2>1 DEF StaysOrOver, Tends, OnCall
  <2>3. QED
    BY <2>1, <2>2 DEF StaysOrOver
<1>4. QED
  BY <1>2, <1>3

\* Only a terminal that tends a call can take one away from it.
LEMMA QuietStays ==
    ASSUME TInv, SidesInv, NEW s \in Sessions, Quietly(s)
    PROVE  StaysOrOver(s)
<1>1. Quiet /\ Moved(s)
  BY QuietSteps, TypingTInv, ProgramTInv, WatcherTInv DEF Quietly, Program
<1>2. /\ caller' = caller /\ callee' = callee
      /\ \A c \in CallIds : state'[c] = state[c] \/ state'[c] = "ended"
      /\ \A t \in Sessions \ {s} : pc'[t] = pc[t] /\ at'[t] = at[t]
  BY <1>1 DEF Quiet, Moved
<1>3. ASSUME pc[s] \in Tends
      PROVE  \/ at'[s] = at[s] /\ pc'[s] \in Tends /\ (pc[s] \in OnCall => pc'[s] \in OnCall)
             \/ state'[at[s]] = "ended"
  <2>1. /\ pc \in [Sessions -> Positions] /\ at \in [Sessions -> CallIds \cup {NoCall}]
        /\ state \in [CallIds -> States]
        /\ at[s] \in CallIds
        /\ state[at[s]] # "unplaced"
    BY <1>3 DEF TInv, SessionTypeOK, TypeOK, Positions, InHand, SidesInv, OnTheirSide,
                Placed, Drives, Tends, InRun, OnCall
  <2>2. CASE PressEnter(s)
    BY <2>2 DEF PressEnter, vars
  <2>3. CASE PressCtrlC(s) \/ LoseTerminal(s)
    BY <2>1, <2>3 DEF PressCtrlC, LoseTerminal, Go, Tends, OnCall
  <2>4. CASE \E u \in Users : TypeDecline(s, u) \/ TypeCall(s, u)
    BY <1>3, <2>4 DEF TypeDecline, TypeCall, Tends, OnCall
  <2>5. CASE Unreachable(s) \/ HangUp(s)
    <3>1. \/ \E r : End(at[s], r)
          \/ ~Live(at[s]) /\ UNCHANGED vars
      BY <2>5 DEF Unreachable, HangUp, SessionEnds
    <3>2. QED
      BY <2>1, <3>1 DEF End, Live, vars, States
  <2>6. CASE Watcher(s)
    BY <1>3, <2>6 DEF Watcher, WatchAccepted, StartCallUI, WatchStops
  <2>7. CASE Cleared(s) \/ HungUp(s) \/ Leave(s) \/ Decline(s)
    BY <1>3, <2>7 DEF Cleared, HungUp, Leave, Decline, Tends, OnCall
  <2>8. QED
    BY <2>2, <2>3, <2>4, <2>5, <2>6, <2>7 DEF Quietly, Typing
<1>4. QED
  BY <1>2, <1>3 DEF StaysOrOver

\* The answer: the caller's terminal is still there, and the callee's one now is.
LEMMA AnswerAttended ==
    ASSUME TInv, SidesInv, LiveCallIsAttended, NEW s \in Sessions, pc[s] = "answering",
           Accept(at[s]), pc' = [pc EXCEPT ![s] = "reading"], at' = at
    PROVE  LiveCallIsAttended'
<1>1. /\ at[s] \in CallIds /\ User(s) = callee[at[s]]
      /\ caller' = caller /\ callee' = callee /\ state[at[s]] = "ringing"
      /\ \A d \in CallIds \ {at[s]} : state'[d] = state[d]
      /\ pc'[s] = "reading"
      /\ \A t \in Sessions \ {s} : pc'[t] = pc[t]
  BY DEF Accept, TInv, SessionTypeOK, TypeOK, InHand, SidesInv, OnTheirSide
<1>2. ASSUME NEW t \in Sessions, pc[t] \in Tends PROVE t # s
  BY <1>2 DEF Tends, OnCall
<1>3. ASSUME NEW c \in CallIds, Live(c)'
      PROVE  \E t \in Sessions : at'[t] = c /\ User(t) = caller'[c] /\ pc'[t] \in Tends
  <2>1. Live(c)
    BY <1>1, <1>3 DEF Live
  <2>2. PICK t \in Sessions : at[t] = c /\ User(t) = caller[c] /\ pc[t] \in Tends
    BY <2>1 DEF LiveCallIsAttended, Tends
  <2>3. QED
    BY <1>1, <1>2, <2>2
<1>4. ASSUME NEW c \in CallIds, state'[c] = "active"
      PROVE  \E t \in Sessions : at'[t] = c /\ User(t) = callee'[c] /\ pc'[t] \in OnCall
  <2>1. CASE c = at[s]
    BY <1>1, <2>1 DEF OnCall
  <2>2. CASE c # at[s]
    <3>1. PICK t \in Sessions : at[t] = c /\ User(t) = callee[c] /\ pc[t] \in OnCall
      BY <1>1, <1>4, <2>2 DEF LiveCallIsAttended
    <3>2. QED
      BY <1>1, <1>2, <3>1 DEF Tends
  <2>3. QED
    BY <2>1, <2>2
<1>5. QED
  BY <1>3, <1>4 DEF LiveCallIsAttended, Tends, User

\* The offer: the caller's terminal is about to send the notice.
LEMMA OfferAttended ==
    ASSUME TInv, SidesInv, LiveCallIsAttended, NEW s \in Sessions, NEW c \in CallIds,
           pc[s] = "offering", Offer(User(s), peer[s], c),
           pc' = [pc EXCEPT ![s] = "notifying"], at' = [at EXCEPT ![s] = c]
    PROVE  LiveCallIsAttended'
<1>1. /\ caller'[c] = User(s) /\ state'[c] = "ringing"
      /\ \A d \in CallIds \ {c} : /\ caller'[d] = caller[d] /\ callee'[d] = callee[d]
                                  /\ state'[d] = state[d]
  BY DEF Offer, TInv, SessionTypeOK, TypeOK
<1>2. /\ pc'[s] = "notifying" /\ at'[s] = c
      /\ \A t \in Sessions \ {s} : pc'[t] = pc[t] /\ at'[t] = at[t]
  BY DEF TInv, SessionTypeOK
<1>3. ASSUME NEW t \in Sessions, pc[t] \in Tends PROVE t # s
  BY <1>3 DEF Tends, OnCall
<1>4. ASSUME NEW d \in CallIds, Live(d)'
      PROVE  \E t \in Sessions : at'[t] = d /\ User(t) = caller'[d] /\ pc'[t] \in Tends
  <2>1. CASE d = c
    BY <1>1, <1>2, <2>1 DEF Tends
  <2>2. CASE d # c
    <3>1. Live(d)
      BY <1>1, <1>4, <2>2 DEF Live
    <3>2. PICK t \in Sessions : at[t] = d /\ User(t) = caller[d] /\ pc[t] \in Tends
      BY <3>1 DEF LiveCallIsAttended, Tends
    <3>3. QED
      BY <1>1, <1>2, <1>3, <2>2, <3>2
  <2>3. QED
    BY <2>1, <2>2
<1>5. ASSUME NEW d \in CallIds, state'[d] = "active"
      PROVE  \E t \in Sessions : at'[t] = d /\ User(t) = callee'[d] /\ pc'[t] \in OnCall
  <2>1. d # c /\ state[d] = "active"
    BY <1>1, <1>5
  <2>2. PICK t \in Sessions : at[t] = d /\ User(t) = callee[d] /\ pc[t] \in OnCall
    BY <2>1 DEF LiveCallIsAttended
  <2>3. QED
    BY <1>1, <1>2, <1>3, <2>1, <2>2 DEF Tends
<1>6. QED
  BY <1>4, <1>5 DEF LiveCallIsAttended, Tends, User

LEMMA StepAttended ==
    TInv /\ SidesInv /\ LiveCallIsAttended /\ [SessionNext]_allVars => LiveCallIsAttended'
<1> SUFFICES ASSUME TInv, SidesInv, LiveCallIsAttended, [SessionNext]_allVars
             PROVE  LiveCallIsAttended'
  OBVIOUS
<1>1. ASSUME NEW s \in Sessions, Prompt(s), UNCHANGED vars, pc[s] \notin Tends
      PROVE  LiveCallIsAttended'
  <2>1. \A t \in Sessions \ {s} : pc'[t] = pc[t] /\ at'[t] = at[t]
    BY <1>1 DEF Prompt, Go, TInv, SessionTypeOK
  <2>2. StaysOrOver(s)
    BY <1>1, <2>1 DEF StaysOrOver, vars
  <2>3. QED
    BY <2>2, StaysAttended
<1>2. ASSUME NEW s \in Sessions, AnswerCall(s) PROVE LiveCallIsAttended'
  <2>1. pc[s] = "answering" /\ pc[s] \notin Tends
    BY <1>2 DEF AnswerCall, Tends, OnCall
  <2>2. CASE Accept(at[s]) /\ Go(s, "reading") /\ UNCHANGED at
    BY <2>1, <2>2, AnswerAttended DEF Go
  <2>3. QED
    BY <1>1, <1>2, <2>1, <2>2 DEF AnswerCall
<1>3. ASSUME NEW s \in Sessions, PlaceCall(s) PROVE LiveCallIsAttended'
  <2>1. pc[s] = "offering" /\ pc[s] \notin Tends
    BY <1>3 DEF PlaceCall, Tends, OnCall
  <2>2. ASSUME NEW c \in CallIds, Offer(User(s), peer[s], c),
               at' = [at EXCEPT ![s] = c], Go(s, "notifying")
        PROVE  LiveCallIsAttended'
    BY <2>1, <2>2, OfferAttended DEF Go
  <2>3. QED
    BY <1>1, <1>3, <2>1, <2>2 DEF PlaceCall
<1>4. ASSUME NEW s \in Sessions, Notified(s) PROVE LiveCallIsAttended'
  <2>1. /\ pc'[s] = "reading" /\ pc[s] = "notifying" /\ at' = at
        /\ \A t \in Sessions \ {s} : pc'[t] = pc[t]
    BY <1>4 DEF Notified, Go, TInv, SessionTypeOK
  <2>2. caller' = caller /\ callee' = callee /\ state' = state
    BY <1>4 DEF Notified, vars
  <2>3. StaysOrOver(s)
    BY <2>1, <2>2 DEF StaysOrOver, Tends, OnCall
  <2>4. QED
    BY <2>3, StaysAttended
<1>5. ASSUME NEW s \in Sessions, Quietly(s) PROVE LiveCallIsAttended'
  BY <1>5, QuietStays, StaysAttended
<1>6. CASE ClockStep \/ MediaStep \/ UNCHANGED allVars
  <2>1. (Quiet \/ UNCHANGED vars) /\ pc' = pc /\ at' = at
    BY <1>6, ClockIsQuiet DEF allVars, sessionVars, TInv, SessionTypeOK
  <2>2. /\ caller' = caller /\ callee' = callee
        /\ \A c \in CallIds : state'[c] = state[c] \/ state'[c] = "ended"
    BY <2>1 DEF Quiet, vars
  <2>3. CASE Sessions = {}
    BY <2>2, <2>3 DEF LiveCallIsAttended, Live
  <2>4. ASSUME NEW s \in Sessions PROVE StaysOrOver(s)
    BY <2>1, <2>2 DEF StaysOrOver
  <2>5. QED
    BY <2>3, <2>4, StaysAttended
<1>7. QED
  BY <1>2, <1>3, <1>4, <1>5, <1>6 DEF SessionNext, Program, Quietly

\* A call in progress always has a terminal that will end it: the caller's
\* one from the offer on, and the callee's one once it is active.
THEOREM LiveCallAlwaysAttended == SessionSpec => []LiveCallIsAttended
<1>1. SessionInit => LiveCallIsAttended
  BY DEF SessionInit, Init, LiveCallIsAttended, Live
<1>2. QED
  BY <1>1, StepAttended, TInvHolds, SidesHold, PTL DEF SessionSpec
=============================================================================

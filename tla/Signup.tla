------------------------------- MODULE Signup -------------------------------
(***************************************************************************)
(* Becoming a user: internal/server/signup.go with internal/db/signup.go   *)
(* (the pending_accounts and users tables) and the sliding window of       *)
(* internal/ratelimit/ratelimit.go before it.                              *)
(*                                                                         *)
(* Requests run side by side; every statement on the database is a step,   *)
(* and a transaction is one.  Any of them may fail: a client that hangs up *)
(* cancels its request's context.  Addresses and passwords are valid,      *)
(* codes are never guessed, and usernames are lower case                   *)
(* (valid.ValidateUsername), so that the case-blind comparisons compare    *)
(* them as they are.                                                       *)
(***************************************************************************)
EXTENDS Naturals, Sequences, FiniteSets

CONSTANTS
    Clients,        \* browsers, each with one request on its way
    Names,          \* usernames
    MailOf,         \* MailOf[c] : the address c signs up with
    IpOf,           \* IpOf[c] : where c's requests come from
    maxConfirmAttempts,     \* 5 in the code
    MaxEvents,      \* signups an address is allowed within Window (3 in the code)
    Window,         \* one hour in the code
    Lag,            \* bound: how long a request may lie between clock and lock
    MaxTime,        \* bound: when the clock stops
    MaxIds,         \* bound: pending rows ever made
    MaxSlips,       \* bound: statements about one pending row whose error is dropped
    Errands,        \* bound: whether a client signs up or confirms in a run, or may wait
    Nobody,         \* a name without an account
    NoRow,          \* a name without a pending signup
    NoRequest       \* a client without a request

VARIABLES
    clock,          \* the node's clock
    events,         \* Limiter.events : the stamps kept for an address, each with
                    \*   the number of the grant it was stored for
    users,          \* the users table: whose account a name is
    pending,        \* pending_accounts, unexpired
    req,            \* how far a client's request has come
    rowsMade,       \* pending rows made so far
    granted,        \* history: when the limiter said yes
    judged,         \* history: wrong codes compared with a pending row
    lost,           \* history: wrong codes that a failed statement has not counted
    spared,         \* history: failures that kept a request from deleting a row
    errand          \* the run's member of Errands

signVars == <<clock, events, users, pending, req, rowsMade, granted, judged, lost, spared, errand>>

Ips == {IpOf[c] : c \in Clients}
PendingRow == [id : Nat, by : Clients, attempts : Nat]
Guess == [step : {"wrong", "delete"}, name : Names, id : Nat]

ASSUME SignAssumption ==
    /\ IsFiniteSet(Clients)
    /\ maxConfirmAttempts \in Nat \ {0} /\ MaxEvents \in Nat \ {0}
    /\ Window \in Nat /\ Lag \in Nat /\ MaxIds \in Nat
    /\ NoRow \notin PendingRow /\ NoRequest \notin Guess

-----------------------------------------------------------------------------
\* Faulty variants, each told from the code by a property of the run

\* One wrong code more than the constant says.
TooManyBeyond(n) == n > maxConfirmAttempts

-----------------------------------------------------------------------------
\* The limiter

\* Stamps are kept when they lie after the cutoff, now - window (here moved up
\* by Window on both sides, to stay within Nat).
Kept(stamps, now) == {e \in stamps : e.at + Window > now}

\* A request reads the clock before it takes the limiter's mutex.
ReadClock(c, n) ==
    /\ req[c] = NoRequest /\ "signup" \in errand[c]
    /\ req' = [req EXCEPT ![c] = [step |-> "limit", name |-> n, now |-> clock]]
    /\ UNCHANGED <<clock, events, users, pending, rowsMade, granted, judged, lost, spared, errand>>

Allow(c) ==
    /\ req[c] # NoRequest /\ req[c].step = "limit"
    /\ LET ip == IpOf[c]
           kept == Kept(events[ip], req[c].now)
           yes == Cardinality(kept) < MaxEvents
           stamp == [nth |-> Len(granted[ip]) + 1, at |-> req[c].now]
       IN /\ events' = [events EXCEPT ![ip] = IF yes THEN kept \cup {stamp} ELSE kept]
          /\ granted' = IF yes THEN [granted EXCEPT ![ip] = Append(@, clock)] ELSE granted
          /\ req' = [req EXCEPT ![c] = IF yes THEN [step |-> "check", name |-> @.name]
                                       ELSE NoRequest]
    /\ UNCHANGED <<clock, users, pending, rowsMade, judged, lost, spared, errand>>

Tick ==
    /\ clock < MaxTime /\ \E c \in Clients : "wait" \in errand[c]
    /\ \A c \in Clients : req[c] # NoRequest /\ req[c].step = "limit" => clock < req[c].now + Lag
    /\ clock' = clock + 1
    /\ UNCHANGED <<events, users, pending, req, rowsMade, granted, judged, lost, spared, errand>>

-----------------------------------------------------------------------------
\* handleSignup and CreatePendingAccount

Go(c, r) == req' = [req EXCEPT ![c] = r]
Done(c) == Go(c, NoRequest)
At(c, step) == req[c] # NoRequest /\ req[c].step = step

\* A statement whose error is seen, or whose result is then not wanted, ends the
\* request and has done nothing.
StatementFails(c) ==
    /\ req[c] # NoRequest /\ req[c].step \in {"check", "replace", "insert", "undo", "confirm"}
    /\ Done(c)
    /\ UNCHANGED <<clock, events, users, pending, rowsMade, granted, judged, lost, spared, errand>>

\* Is the name, or the address, a confirmed user's?
Taken(n, c) == users[n] # Nobody \/ \E m \in Names : users[m] # Nobody /\ MailOf[users[m]] = MailOf[c]

CheckTaken(c) ==
    /\ At(c, "check")
    /\ IF Taken(req[c].name, c) THEN Done(c) ELSE Go(c, [step |-> "replace", name |-> req[c].name])
    /\ UNCHANGED <<clock, events, users, pending, rowsMade, granted, judged, lost, spared, errand>>

\* A prior pending signup under the name is deleted, whoever made it.
DeletePrior(c) ==
    /\ At(c, "replace")
    /\ pending' = [pending EXCEPT ![req[c].name] = NoRow]
    /\ Go(c, [step |-> "insert", name |-> req[c].name])
    /\ UNCHANGED <<clock, events, users, rowsMade, granted, judged, lost, spared, errand>>

\* The unique index refuses a second row under the name.
InsertPending(c) ==
    /\ At(c, "insert") /\ rowsMade < MaxIds
    /\ IF pending[req[c].name] # NoRow
       THEN Done(c) /\ UNCHANGED <<pending, rowsMade>>
       ELSE /\ rowsMade' = rowsMade + 1
            /\ pending' = [pending EXCEPT ![req[c].name] = [id |-> rowsMade + 1, by |-> c, attempts |-> 0]]
            /\ Go(c, [step |-> "mail", name |-> req[c].name])
    /\ UNCHANGED <<clock, events, users, granted, judged, lost, spared, errand>>

SendConfirmation(c) ==
    /\ At(c, "mail")
    /\ \/ Done(c)
       \/ Go(c, [step |-> "undo", name |-> req[c].name])
    /\ UNCHANGED <<clock, events, users, pending, rowsMade, granted, judged, lost, spared, errand>>

\* The roll-back looks the row up by its name: it may be another's by now.
FindOrphan(c) ==
    /\ At(c, "undo")
    /\ LET p == pending[req[c].name]
       IN IF p = NoRow THEN Done(c) ELSE Go(c, [step |-> "delete", name |-> req[c].name, id |-> p.id])
    /\ UNCHANGED <<clock, events, users, pending, rowsMade, granted, judged, lost, spared, errand>>

\* Another dropped error about the row, within the bound.
MaySlip(id) == lost[id] + spared[id] < MaxSlips

\* DeletePending, by id: after the roll-back's look-up or too many wrong codes.
\* Its error is dropped.
Without(id) == [n \in Names |-> IF pending[n] # NoRow /\ pending[n].id = id THEN NoRow ELSE pending[n]]

DeletePending(c) ==
    /\ At(c, "delete")
    /\ \/ pending' = Without(req[c].id) /\ UNCHANGED spared
       \/ /\ MaySlip(req[c].id)
          /\ spared' = [spared EXCEPT ![req[c].id] = @ + 1]
          /\ UNCHANGED pending
    /\ Done(c)
    /\ UNCHANGED <<clock, events, users, rowsMade, granted, judged, lost, errand>>

\* The row's 24 hours are over.
Expire(n) ==
    /\ pending[n] # NoRow
    /\ pending' = [pending EXCEPT ![n] = NoRow]
    /\ UNCHANGED <<clock, events, users, req, rowsMade, granted, judged, lost, spared, errand>>

-----------------------------------------------------------------------------
\* handleConfirmCode: the row is read, the code compared with the copy

ReadPending(c, n, right) ==
    /\ req[c] = NoRequest /\ "confirm" \in errand[c] /\ pending[n] # NoRow
    /\ right => pending[n].by = c
    /\ Go(c, [step |-> IF right THEN "confirm" ELSE "wrong", name |-> n, id |-> pending[n].id])
    /\ judged' = IF right THEN judged ELSE [judged EXCEPT ![pending[n].id] = @ + 1]
    /\ UNCHANGED <<clock, events, users, pending, rowsMade, granted, lost, spared, errand>>

TooMany(n) == n >= maxConfirmAttempts

\* IncrementPendingAttempts; a row that is gone counts as no attempt, and so does
\* an error: the client may hang up before its wrong code is counted, or before
\* the count is read.
CountAttempt(c) ==
    /\ At(c, "wrong")
    /\ LET n == req[c].name
           id == req[c].id
           there == pending[n] # NoRow /\ pending[n].id = id
           k == IF there THEN pending[n].attempts + 1 ELSE 0
           counted == IF there THEN [pending EXCEPT ![n].attempts = k] ELSE pending
       IN \/ /\ pending' = counted
             /\ IF TooMany(k) THEN Go(c, [step |-> "delete", name |-> n, id |-> id]) ELSE Done(c)
             /\ UNCHANGED <<lost, spared>>
          \/ /\ MaySlip(id) /\ Done(c)
             /\ lost' = [lost EXCEPT ![id] = @ + 1]
             /\ UNCHANGED <<pending, spared>>
          \/ /\ MaySlip(id) /\ Done(c)
             /\ spared' = [spared EXCEPT ![id] = @ + 1]
             /\ pending' = counted
             /\ UNCHANGED lost
    /\ UNCHANGED <<clock, events, users, rowsMade, granted, judged, errand>>

\* ConfirmPendingAccount: the copy becomes a user, though its row may be gone.
ConfirmPending(c) ==
    /\ At(c, "confirm")
    /\ IF Taken(req[c].name, c)
       THEN UNCHANGED <<users, pending>>
       ELSE /\ users' = [users EXCEPT ![req[c].name] = c]
            /\ pending' = Without(req[c].id)
    /\ Done(c)
    /\ UNCHANGED <<clock, events, rowsMade, granted, judged, lost, spared, errand>>

-----------------------------------------------------------------------------

SignInit ==
    /\ clock = 0
    /\ events = [ip \in Ips |-> {}] /\ granted = [ip \in Ips |-> <<>>]
    /\ users = [n \in Names |-> Nobody]
    /\ pending = [n \in Names |-> NoRow]
    /\ req = [c \in Clients |-> NoRequest]
    /\ rowsMade = 0
    /\ judged = [i \in 1..MaxIds |-> 0]
    /\ lost = [i \in 1..MaxIds |-> 0] /\ spared = [i \in 1..MaxIds |-> 0]
    /\ errand \in Errands

SignNext ==
    \/ Tick
    \/ \E n \in Names : Expire(n)
    \/ \E c \in Clients :
          \/ \E n \in Names : ReadClock(c, n)
          \/ Allow(c) \/ CheckTaken(c) \/ DeletePrior(c) \/ InsertPending(c)
          \/ SendConfirmation(c) \/ FindOrphan(c) \/ DeletePending(c)
          \/ \E n \in Names, right \in BOOLEAN : ReadPending(c, n, right)
          \/ CountAttempt(c) \/ ConfirmPending(c) \/ StatementFails(c)

SignSpec == SignInit /\ [][SignNext]_signVars

-----------------------------------------------------------------------------
\* Properties

\* No pending signup is compared with more wrong codes than the constant allows,
\* the requests that may be under way when the last one is counted, for the code
\* is compared before it is counted (signup.go:136-142), and one for each failed
\* statement whose error signup.go:137-139 drops: a wrong code not counted, or a
\* row not deleted for it.
GuessesAreBounded ==
    \A i \in 1..MaxIds :
        judged[i] <= maxConfirmAttempts + Cardinality(Clients) - 1 + lost[i] + spared[i]

\* The window holds in the order the mutex is taken, though stamps are read
\* before and may be stored, and be pruned, out of order (ratelimit.go:33): of
\* MaxEvents + 1 grants, the first and the last lie a window apart, less the
\* longest wait for the mutex.
GrantsAreSpaced ==
    \A ip \in Ips : \A i \in 1..Len(granted[ip]) :
        i + MaxEvents <= Len(granted[ip]) =>
            granted[ip][i + MaxEvents] + Lag >= granted[ip][i] + Window

\* Neither counter in a newcomer's way can be got round by haste.
SignupIsBounded == GuessesAreBounded /\ GrantsAreSpaced
=============================================================================

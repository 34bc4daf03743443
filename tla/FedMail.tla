------------------------------ MODULE FedMail ------------------------------
(***************************************************************************)
(* Mail to users of other nodes: composing it (shell/cmd_mail.go),         *)
(* the outbox and its one delivery worker (internal/server/fedsync.go,     *)
(* internal/db/outbox.go), and the receiving node's MAIL_SEND handler.     *)
(* One sender, no admin, writes; the messages are Remote ones or local     *)
(* ones, which only count against the sender's hourly limit.               *)
(*                                                                         *)
(* Every database statement, and every network step, is a step of its own: *)
(* the worker's node may stop between any two of them, the connection may  *)
(* break at any point, and a statement named in Failing may fail, which    *)
(* the code notices in the look-ups only (where it reads the failure as    *)
(* "not a peer", "no such user" and "no reply is due").  A request whose   *)
(* connection broke may still be served while the worker goes on: it is    *)
(* then a stray.                                                           *)
(*                                                                         *)
(* Time is abstract: a message is in its first hour, in its first day or   *)
(* old, and a rescheduled one comes due again, whatever its rung on the    *)
(* backoff ladder; the seven days of an auto-reply's record do not pass.   *)
(* The scan's LIMIT of 20 is left out, and a scan that fails is one that   *)
(* has not happened yet.                                                   *)
(***************************************************************************)
EXTENDS Naturals, FiniteSets

CONSTANTS Messages, Remote,   \* all messages; those to users of other nodes
          Unknown,            \* those to a user the peer does not have
          MailPerHour,        \* config: Limits.MailPerHour
          Terminals,          \* in how many sessions the sender can compose
          Failing,            \* statements that may fail
          MaxFaults,          \* bound: failed statements and stops of the node
          NoMessage

ASSUME MessagesAssumption == Remote \subseteq Messages /\ NoMessage \notin Messages
ASSUME FaultsAssumption == MaxFaults \in Nat

VARIABLES
    writing,    \* messages being composed, their limit check behind them
    sent,       \* messages sent: queued or, if local, stored
    age,        \* of each message sent
    outbox,     \* table mail_outbox
    due,        \* its rows with next_attempt <= NOW()
    peered,     \* whether the peer is in the peers table
    pc,         \* where the worker stands
    batch,      \* the rows of its scan it has not yet attempted
    cur,        \* the row it is attempting
    request,    \* the worker's MAIL_SEND request: sent, in service, answered
    stray,      \* of each message, a request whose connection is gone
    inbox,      \* copies of each message in its recipient's inbox
    bounced,    \* messages returned to their sender by MAILER-DAEMON
    replied,    \* vacation_replies_remote: a reply to this sender is recorded
    replies,    \* auto-replies in the sender's inbox
    unrecorded, \* replies given although their record failed
    faults,     \* statements that failed, and stops, so far
    doubtful    \* messages an attempt of which ended before the worker had
                \* read the answer and acted on it

sender == <<writing, sent, age>>
queue  == <<outbox, due>>
worker == <<pc, batch, cur>>
peer   == <<inbox, replied>>
back   == <<bounced, replies>>
calls  == <<request, stray>>
vars   == <<sender, queue, peered, worker, calls, peer, back, faults, doubtful, unrecorded>>

Many == 2   \* bound: copies beyond this are not counted

OneMore(n) == IF n < Many THEN n + 1 ELSE n

Pending  == {"sent", "stored", "replying"}             \* not yet answered
Answers  == {"ok", "vacation", "transient", "permanent"}

TypeOK ==
    /\ writing \subseteq Messages /\ sent \subseteq Messages
    /\ age \in [Messages -> {"hour", "day", "old"}]
    /\ due \subseteq outbox /\ outbox \subseteq sent \cap Remote
    /\ peered \in BOOLEAN
    /\ pc \in {"idle", "next", "peer", "waiting", "done", "autoreply", "failed",
               "returning", "clearing"}
    /\ batch \subseteq sent \cap Remote
    /\ cur \in (sent \cap Remote) \cup {NoMessage}
    /\ request \in Pending \cup Answers \cup {"none"}
    /\ stray \in [Messages -> Pending \cup {"none"}]
    /\ inbox \in [Messages -> 0 .. Many]
    /\ replied \in BOOLEAN
    /\ bounced \subseteq sent \cap Remote
    /\ replies \in Nat /\ unrecorded \in Nat
    /\ faults \in 0 .. MaxFaults
    /\ doubtful \subseteq sent \cap Remote

Init ==
    /\ writing = {} /\ sent = {} /\ age = [m \in Messages |-> "hour"]
    /\ outbox = {} /\ due = {} /\ peered = TRUE
    /\ pc = "idle" /\ batch = {} /\ cur = NoMessage
    /\ request = "none" /\ stray = [m \in Messages |-> "none"]
    /\ inbox = [m \in Messages |-> 0] /\ replied = FALSE
    /\ bounced = {} /\ replies = 0 /\ unrecorded = 0
    /\ faults = 0 /\ doubtful = {}

-----------------------------------------------------------------------------
\* Composing, time, peering

\* Messages of S sent within the hour.
Recent(S) == Cardinality({m \in S : age[m] = "hour"})

\* The limit counts mail stored in the last hour and mail still queued.
BelowLimit == Recent(sent \ Remote) + Recent(outbox) < MailPerHour

StartMail(m) ==
    /\ m \notin sent \cup writing
    /\ Cardinality(writing) < Terminals
    /\ BelowLimit
    /\ m \in Remote => peered
    /\ writing' = writing \cup {m}
    /\ UNCHANGED <<sent, age, queue, peered, worker, calls, peer, back, faults, doubtful, unrecorded>>

AbandonMail(m) ==
    /\ m \in writing
    /\ writing' = writing \ {m}
    /\ UNCHANGED <<sent, age, queue, peered, worker, calls, peer, back, faults, doubtful, unrecorded>>

\* SendMail or, to another node, EnqueueOutboxMail, due at once.
FinishMail(m) ==
    /\ m \in writing
    /\ writing' = writing \ {m}
    /\ sent' = sent \cup {m}
    /\ IF m \in Remote
       THEN outbox' = outbox \cup {m} /\ due' = due \cup {m}
       ELSE UNCHANGED queue
    /\ UNCHANGED <<age, peered, worker, calls, peer, back, faults, doubtful, unrecorded>>

Older(m) ==
    /\ m \in sent
    /\ age[m] # "old"
    /\ age' = [age EXCEPT ![m] = IF @ = "hour" THEN "day" ELSE "old"]
    /\ UNCHANGED <<writing, sent, queue, peered, worker, calls, peer, back, faults, doubtful, unrecorded>>

\* The next_attempt of a rescheduled row is reached.
ComesDue(m) ==
    /\ m \in outbox \ due
    /\ due' = due \cup {m}
    /\ UNCHANGED <<sender, outbox, peered, worker, calls, peer, back, faults, doubtful, unrecorded>>

\* node add and node remove.
Peering ==
    /\ peered' = ~peered
    /\ UNCHANGED <<sender, queue, worker, calls, peer, back, faults, doubtful, unrecorded>>

-----------------------------------------------------------------------------
\* The worker: Run, processOutbox, attemptDelivery, transientFailure, bounce

Step(from, to) == pc = from /\ pc' = to

\* Statement x fails; the code goes on as if it had not.
Fails(x) == x \in Failing /\ faults < MaxFaults /\ faults' = faults + 1

\* The ticker (or a kick, which only comes sooner): DueOutboxMail.
Scan ==
    /\ Step("idle", "next")
    /\ batch' = due
    /\ UNCHANGED <<sender, queue, peered, cur, calls, peer, back, faults, doubtful, unrecorded>>

NextRow ==
    /\ \/ batch = {} /\ Step("next", "idle") /\ cur' = NoMessage /\ UNCHANGED batch
       \/ \E m \in batch : Step("next", "peer") /\ cur' = m /\ batch' = batch \ {m}
    /\ UNCHANGED <<sender, queue, peered, calls, peer, back, faults, doubtful, unrecorded>>

\* GetPeer; any error counts as "no longer a federation peer".
NotAPeer ==
    /\ Step("peer", "returning")
    /\ \/ ~peered /\ UNCHANGED faults
       \/ Fails("lookup")
    /\ UNCHANGED <<sender, queue, peered, batch, cur, calls, peer, back, doubtful, unrecorded>>

\* The connection is made and the request is on its way.
Dial ==
    /\ peered
    /\ Step("peer", "waiting")
    /\ request' = "sent"
    /\ UNCHANGED <<sender, queue, peered, batch, cur, stray, peer, back, faults, doubtful, unrecorded>>

\* Mutant: an unreachable host does not count as a failed attempt.
UnreachableSkips ==
    /\ peered
    /\ Step("peer", "next")
    /\ UNCHANGED <<sender, queue, peered, batch, cur, calls, peer, back, faults, doubtful, unrecorded>>

Unreachable ==
    /\ peered
    /\ Step("peer", "failed")
    /\ UNCHANGED <<sender, queue, peered, batch, cur, calls, peer, back, faults, doubtful, unrecorded>>

\* The answer stays at hand (request) until the row has been dealt with.
ReadAnswer ==
    /\ pc = "waiting"
    /\ request \in Answers
    /\ pc' = CASE request \in {"ok", "vacation"} -> "done"
               [] request = "transient" -> "failed"
               [] request = "permanent" -> "returning"
    /\ UNCHANGED <<sender, queue, peered, batch, cur, calls, peer, back, faults, doubtful, unrecorded>>

\* What becomes of the worker's request when its connection is gone: it is
\* lost, or the peer serves it all the same.  (Bound: one stray a message.)
Cut ==
    /\ request' = "none"
    /\ \/ UNCHANGED stray
       \/ /\ request \in Pending
          /\ stray[cur] = "none"
          /\ stray' = [stray EXCEPT ![cur] = request]

Broken ==
    /\ Step("waiting", "failed")
    /\ Cut
    /\ doubtful' = doubtful \cup {cur}
    /\ UNCHANGED <<sender, queue, peered, batch, cur, peer, back, faults, unrecorded>>

\* Mutant: after 24 hours the row is just deleted.
GiveUpSilently ==
    /\ Step("failed", "clearing")
    /\ age[cur] = "old"
    /\ UNCHANGED <<sender, queue, peered, batch, cur, calls, peer, back, faults, doubtful, unrecorded>>

\* transientFailure, up to a bounce after 24 hours or RescheduleOutboxMail.
GiveUp ==
    /\ Step("failed", "returning")
    /\ age[cur] = "old"
    /\ UNCHANGED <<sender, queue, peered, batch, cur, calls, peer, back, faults, doubtful, unrecorded>>

Reschedule ==
    /\ Step("failed", "next")
    /\ age[cur] # "old"
    /\ \/ due' = due \ {cur} /\ UNCHANGED faults
       \/ UNCHANGED due /\ Fails("reschedule")
    /\ request' = "none"
    /\ UNCHANGED <<sender, outbox, peered, batch, cur, stray, peer, back, doubtful, unrecorded>>

\* bounce: DeliverRemoteMail to the sender ...
ReturnIt ==
    /\ Step("returning", "clearing")
    /\ \/ bounced' = bounced \cup {cur} /\ UNCHANGED faults
       \/ UNCHANGED bounced /\ Fails("return")
    /\ UNCHANGED <<sender, queue, peered, batch, cur, calls, peer, replies, doubtful, unrecorded>>

\* ... and then, or after a delivery, DeleteOutboxMail.
Delete ==
    /\ pc \in {"clearing", "done"}
    /\ pc' = IF pc = "done" /\ request = "vacation" THEN "autoreply" ELSE "next"
    /\ \/ outbox' = outbox \ {cur} /\ due' = due \ {cur} /\ UNCHANGED <<faults, doubtful, unrecorded>>
       \/ UNCHANGED queue /\ Fails("delete") /\ doubtful' = doubtful \cup {cur}
    /\ request' = "none"
    /\ UNCHANGED <<sender, peered, batch, cur, stray, peer, back, unrecorded>>

\* The auto-reply that rode back goes into the sender's inbox.
AutoReply ==
    /\ Step("autoreply", "next")
    /\ \/ replies' = replies + 1 /\ UNCHANGED faults
       \/ UNCHANGED replies /\ Fails("reply")
    /\ UNCHANGED <<sender, queue, peered, batch, cur, calls, peer, bounced, doubtful, unrecorded>>

\* The node stops and starts again: sessions and worker begin anew.
Restart ==
    /\ faults < MaxFaults
    /\ faults' = faults + 1
    /\ writing' = {}
    /\ pc' = "idle" /\ batch' = {} /\ cur' = NoMessage
    /\ Cut
    /\ doubtful' = IF pc \in {"waiting", "done", "clearing"}
                   THEN doubtful \cup {cur} ELSE doubtful
    /\ UNCHANGED <<sent, age, queue, peered, peer, back, unrecorded>>

Worker ==
    \/ Scan \/ NextRow \/ NotAPeer \/ Dial \/ Unreachable \/ ReadAnswer
    \/ GiveUp \/ Reschedule \/ ReturnIt \/ Delete \/ AutoReply

-----------------------------------------------------------------------------
\* The receiving node: handleMailDeliver, for the worker's request or a stray

\* How far the service of m's request, or of its stray, has come.
At(m, w) == IF w = "stray" THEN stray[m] ELSE IF m = cur THEN request ELSE "none"

\* A stray's answer finds nobody.
Becomes(m, w, s) ==
    IF w = "stray"
    THEN stray' = [stray EXCEPT ![m] = IF s \in Pending THEN s ELSE "none"] /\ UNCHANGED request
    ELSE request' = s /\ UNCHANGED stray

\* Mutant: the rate limits are checked after the message is stored.
RefuseLate(m, w) ==
    /\ At(m, w) \in {"sent", "stored"}
    /\ Becomes(m, w, "transient")
    /\ UNCHANGED <<sender, queue, peered, worker, peer, back, faults, doubtful, unrecorded>>

\* Rate limited, or a storage error.
Refuse(m, w) ==
    /\ At(m, w) = "sent"
    /\ Becomes(m, w, "transient")
    /\ UNCHANGED <<sender, queue, peered, worker, peer, back, faults, doubtful, unrecorded>>

\* GetUserByUsername; any error counts as "no such user".
Reject(m, w) ==
    /\ At(m, w) = "sent"
    /\ \/ m \in Unknown /\ UNCHANGED faults
       \/ Fails("user")
    /\ Becomes(m, w, "permanent")
    /\ UNCHANGED <<sender, queue, peered, worker, peer, back, doubtful, unrecorded>>

Store(m, w) ==
    /\ At(m, w) = "sent"
    /\ m \notin Unknown
    /\ inbox' = [inbox EXCEPT ![m] = OneMore(@)]
    /\ Becomes(m, w, "stored")
    /\ UNCHANGED <<sender, queue, peered, worker, replied, back, faults, doubtful, unrecorded>>

\* Mutant: the record of earlier replies is not consulted.
CheckVacationAlways(m, w) ==
    /\ At(m, w) = "stored"
    /\ Becomes(m, w, "replying")
    /\ UNCHANGED <<sender, queue, peered, worker, peer, back, faults, doubtful, unrecorded>>

\* ShouldSendVacationReplyRemote: once per sender in seven days; any error
\* counts as "not now".
CheckVacation(m, w) ==
    /\ At(m, w) = "stored"
    /\ \/ Becomes(m, w, IF replied THEN "ok" ELSE "replying") /\ UNCHANGED faults
       \/ Becomes(m, w, "ok") /\ Fails("check")
    /\ UNCHANGED <<sender, queue, peered, worker, peer, back, doubtful, unrecorded>>

\* The record's error is dropped, and the reply rides back all the same.
RecordVacation(m, w) ==
    /\ At(m, w) = "replying"
    /\ \/ replied' = TRUE /\ UNCHANGED <<faults, unrecorded>>
       \/ UNCHANGED replied /\ Fails("record") /\ unrecorded' = unrecorded + 1
    /\ Becomes(m, w, "vacation")
    /\ UNCHANGED <<sender, queue, peered, worker, inbox, back, doubtful>>

Serve(m, w) ==
    Refuse(m, w) \/ Reject(m, w) \/ Store(m, w) \/ CheckVacation(m, w) \/ RecordVacation(m, w)

Receiver == \E m \in Remote, w \in {"own", "stray"} : Serve(m, w)

-----------------------------------------------------------------------------
Next ==
    \/ \E m \in Messages : StartMail(m) \/ AbandonMail(m) \/ FinishMail(m)
                           \/ Older(m) \/ ComesDue(m)
    \/ Peering \/ Worker \/ Broken \/ Restart \/ Receiver

Spec == Init /\ [][Next]_vars

\* The worker runs, time passes, and a peer answers the requests it has got.
\* (Nothing in the code makes it: no read on an ASSP connection has a deadline,
\* so a peer that keeps silent without dropping the connection would keep the
\* worker, and all mail with it, waiting.)
FairSpec ==
    /\ Spec
    /\ WF_vars(Worker)
    /\ WF_vars(\E m \in Messages : Older(m))
    /\ WF_vars(\E m \in Messages : ComesDue(m))
    /\ WF_vars(Receiver)

-----------------------------------------------------------------------------
\* Properties

\* A message that has left the outbox is in its recipient's inbox or back in
\* its sender's, wherever the node stopped and whatever was lost: the row is
\* deleted last (provided the insert of the bounce itself did not fail: its
\* error is ignored, fedsync.go:205).
NothingVanishes ==
    \A m \in sent \cap Remote : m \in outbox \/ inbox[m] > 0 \/ m \in bounced

\* Duplicates, and messages both delivered and returned, come only of an
\* answer the worker did not read or act on: no queue position, retry, age or
\* change of peering produces them.
OneFateUnlessInDoubt ==
    \A m \in Remote \ doubtful :
        /\ inbox[m] <= 1
        /\ ~(inbox[m] > 0 /\ m \in bounced)

\* The sender gets one auto-reply (DESIGN.md 8.4: deduplicated per remote
\* sender) and one more for each record that failed behind a reply
\* (fedsync.go:346), although the receiver's check and its record are two
\* statements, a stray may be between them, and messages are sent again.
OneAutoReply == replies <= 1 + unrecorded

\* A permanent failure or a day of trying ends in the sender's inbox, a stored
\* message in the recipient's: StoreForward's promise, its liveness included.
Mail == INSTANCE StoreForward WITH
            Messages  <- Remote,
            accepted  <- sent \cap Remote,
            delivered <- {m \in Remote : inbox[m] > 0},
            returned  <- bounced

ImplementsStoreForward == Mail!FairSpec

\* What composeMail says of its limit (cmd_mail.go:211-213): a user sends no
\* more than MailPerHour messages in an hour, "queued cross-node mail counts
\* too - the outbox is not a loophole".  Messages that came back are not held
\* against it.
HourlyLimit == Recent(sent \ bounced) <= MailPerHour

=============================================================================

------------------------------ MODULE Sessions ------------------------------
(***************************************************************************)
(* Logging in, being present, taking notices, and leaving:                 *)
(* internal/server/websocket.go and ssh.go (the doors),                    *)
(* internal/shell/repl.go (a session from Register to Unregister),         *)
(* internal/presence/hub.go (presence entries and notices), and the        *)
(* commands write, mesg, biff, wall, ban and unban.                        *)
(*                                                                         *)
(* A line is a browser tab or an SSH channel; it may be used again.  Every *)
(* statement on the database is a step.  It fails when the session's       *)
(* context is cancelled, which only a web session's ever is, and may fail  *)
(* at any other time; where the code goes on after a failure, so does the  *)
(* model.  The node may stop at any step, and start again.                 *)
(***************************************************************************)
EXTENDS Naturals, Sequences, FiniteSets

CONSTANTS
    Lines,      \* browser tabs and SSH channels
    Owner,      \* Owner[l] : the user who logs in on l
    Web,        \* the browser tabs
    Wire,       \* Wire[l] : the connection that carries l
    Admins,     \* users with the admin flag
    NoticeCap,  \* capacity of a session's WriteCh (8 in the code)
    Uses,       \* bound: which lines are used in a run, and for what
    NoEntry,    \* no presence entry
    Nothing     \* the task of a session at its prompt

VARIABLES
    row,        \* users: mesg_on, biff, banned
    token,      \* whether a tab holds a valid token (sessions table)
    stage,      \* how far a line has come
    mine,       \* the user's row as the door has read it
    entry,      \* Hub.sessions : session id -> presence entry
    queue,      \* WriteCh of a line's session: kinds of the waiting notices
    cut,        \* whether a tab's connection has broken, or was closed
    gone,       \* whether the session's context is cancelled
    history,    \* login_history row of a line's latest session
    task,       \* the command a session is in the middle of
    audit,      \* the latest audit entry about a user
    knows,      \* history: flags a session has read or written since they last changed
    shared,     \* history: SSH channels that ran beside another of their connection
    contested,  \* history: users banned or unbanned by two admins at once, or
                \*          without the entry in the audit log
    lapsed,     \* history: lines whose logout a failed statement or a stop of the
                \*          node kept out of login_history
    uses        \* the run's member of Uses

sessVars == <<row, token, stage, mine, entry, queue, cut, gone, history, task,
              audit, knows, shared, contested, lapsed, uses>>

People == {Owner[l] : l \in Lines}
Flags == {"mesg", "biff"}
Kinds == {"write", "biff", "wall"}
Gate(k) == IF k = "biff" THEN "biff" ELSE "mesg"
Rested == [mesg |-> TRUE, biff |-> TRUE]

Entries == [line : Lines, mesg : BOOLEAN, biff : BOOLEAN]
Tasks == [op : {"flag"}, f : Flags, on : BOOLEAN] \cup [op : {"write"}, to : People]
             \cup [op : {"audit"}, of : People, on : BOOLEAN]

ASSUME LinesAssumption == Web \subseteq Lines /\ \A l \in Lines \ Web : Wire[l] \notin Web
ASSUME NoneAssumption == NoEntry \notin Entries /\ Nothing \notin Tasks

-----------------------------------------------------------------------------
\* Faulty variants, each told from the code by a property of the run

\* A user's sessions share one id.
IdPerUser(l) == Owner[l]

\* The presence flag is left to the next login.
FlagNextLogin(e, f, on) == e

-----------------------------------------------------------------------------
\* The hub

\* The id of a session: a tab's carries its tty; an SSH channel's is the id of
\* the connection, which a client may use for several channels.
IdOf(l) == IF l \in Web THEN l ELSE Wire[l]

\* SetMesg, SetBiff.
FlagSet(e, f, on) == IF e = NoEntry THEN e ELSE [e EXCEPT ![f] = on]

Live(u) == {i \in DOMAIN entry : entry[i] # NoEntry /\ Owner[entry[i].line] = u}

\* Send: who takes a notice of kind k for u, without ever waiting.
Takers(u, k) ==
    {entry[i].line : i \in {j \in Live(u) : k # "wall" => entry[j][Gate(k)]}}

Delivered(takers, k) ==
    [l \in Lines |-> IF l \in takers /\ Len(queue[l]) < NoticeCap THEN Append(queue[l], k) ELSE queue[l]]

Inside == {"entered", "shell", "leaving", "left"}
Does(l, duty) == duty \in uses[l]
AtPrompt(l) == stage[l] = "shell" /\ task[l] = Nothing

-----------------------------------------------------------------------------
\* The doors

\* handleLogin reads the user; CreateSession comes later.  The password is right.
HandleLogin(l) ==
    /\ l \in Web /\ Does(l, "come") /\ stage[l] = "away" /\ ~token[l]
    /\ ~row[Owner[l]].banned
    /\ stage' = [stage EXCEPT ![l] = "issuing"]
    /\ UNCHANGED <<row, token, mine, entry, queue, cut, gone, history, task, audit,
                   knows, shared, contested, lapsed, uses>>

CreateSession(l) ==
    /\ stage[l] = "issuing"
    /\ token' = [token EXCEPT ![l] = TRUE]
    /\ stage' = [stage EXCEPT ![l] = "away"]
    /\ UNCHANGED <<row, mine, entry, queue, cut, gone, history, task, audit,
                   knows, shared, contested, lapsed, uses>>

\* handleLogout, or the token's time has run out.  A live session stays.
TokenEnds(l) ==
    /\ token[l]
    /\ token' = [token EXCEPT ![l] = FALSE]
    /\ UNCHANGED <<row, stage, mine, entry, queue, cut, gone, history, task, audit,
                   knows, shared, contested, lapsed, uses>>

\* A door lets l in on the row it reads now.
LetIn(l) ==
    /\ Does(l, "come") /\ stage[l] = "away" /\ ~row[Owner[l]].banned
    /\ stage' = [stage EXCEPT ![l] = "loaded"]
    /\ mine' = [mine EXCEPT ![l] = [mesg |-> row[Owner[l]].mesg, biff |-> row[Owner[l]].biff]]
    /\ knows' = [knows EXCEPT ![l] = Flags]
    /\ cut' = [cut EXCEPT ![l] = FALSE]
    /\ history' = [history EXCEPT ![l] = "none"]
    /\ lapsed' = lapsed \ {l}
    /\ shared' = shared \ {l}
    /\ UNCHANGED <<row, token, entry, queue, gone, task, audit, contested, uses>>

HandleWS(l) == l \in Web /\ token[l] /\ LetIn(l)
HandleSSH(l) == l \notin Web /\ LetIn(l)

\* A tab's connection breaks or is closed: the shell's input ends, the read loop
\* returns, and some time later cancels the session's context.  When an SSH
\* channel breaks its input ends, and that is all (LoopEnds).
Drop(l) ==
    /\ l \in Web /\ stage[l] \in Inside \cup {"loaded"} /\ ~cut[l]
    /\ cut' = [cut EXCEPT ![l] = TRUE]
    /\ UNCHANGED <<row, token, stage, mine, entry, queue, gone, history, task, audit,
                   knows, shared, contested, lapsed, uses>>

Cancel(l) ==
    /\ cut[l] /\ ~gone[l] /\ stage[l] \in Inside \cup {"loaded"}
    /\ gone' = [gone EXCEPT ![l] = TRUE]
    /\ UNCHANGED <<row, token, stage, mine, entry, queue, cut, history, task, audit,
                   knows, shared, contested, lapsed, uses>>

-----------------------------------------------------------------------------
\* Run: a session from beginning to end

\* The other channels of l's SSH connection.
Siblings(l) == {m \in Lines \ ({l} \cup Web) : stage[m] \in Inside /\ Wire[m] = Wire[l]}

Register(l) ==
    /\ stage[l] = "loaded"
    /\ stage' = [stage EXCEPT ![l] = "entered"]
    /\ entry' = [entry EXCEPT ![IdOf(l)] =
                    [line |-> l, mesg |-> mine[l].mesg, biff |-> mine[l].biff]]
    /\ mine' = [mine EXCEPT ![l] = Rested]
    /\ shared' = IF Siblings(l) = {} THEN shared ELSE shared \cup Siblings(l) \cup {l}
    /\ UNCHANGED <<row, token, queue, cut, gone, history, task, audit, knows, contested,
                   lapsed, uses>>

RecordLogin(l) ==
    /\ stage[l] = "entered"
    /\ stage' = [stage EXCEPT ![l] = "shell"]
    /\ \/ history' = [history EXCEPT ![l] = "open"] /\ ~gone[l]
       \/ history' = [history EXCEPT ![l] = "none"]     \* the statement has failed
    /\ UNCHANGED <<row, token, mine, entry, queue, cut, gone, task, audit, knows, shared,
                   contested, lapsed, uses>>

\* logout, the end of the input, or the loop sees that the context is done.
LoopEnds(l) ==
    /\ AtPrompt(l)
    /\ stage' = [stage EXCEPT ![l] = "leaving"]
    /\ UNCHANGED <<row, token, mine, entry, queue, cut, gone, history, task, audit, knows,
                   shared, contested, lapsed, uses>>

\* The first deferred function, which drops its error; UpdateLastLogin fares the
\* same.
RecordLogout(l) ==
    /\ stage[l] = "leaving"
    /\ stage' = [stage EXCEPT ![l] = "left"]
    /\ \/ /\ history[l] = "open" /\ ~gone[l]
          /\ history' = [history EXCEPT ![l] = "closed"]
          /\ UNCHANGED lapsed
       \/ /\ lapsed' = IF history[l] = "open" /\ ~gone[l] THEN lapsed \cup {l} ELSE lapsed
          /\ UNCHANGED history
    /\ UNCHANGED <<row, token, mine, entry, queue, cut, gone, task, audit, knows, shared,
                   contested, uses>>

\* Unregister takes the entry out, whosever it is.
Unregister(l) ==
    /\ stage[l] = "left"
    /\ stage' = [stage EXCEPT ![l] = "away"]
    /\ entry' = [entry EXCEPT ![IdOf(l)] = NoEntry]
    /\ queue' = [queue EXCEPT ![l] = <<>>]
    /\ gone' = [gone EXCEPT ![l] = FALSE]
    /\ knows' = [knows EXCEPT ![l] = {}]
    /\ UNCHANGED <<row, token, mine, cut, history, task, audit, shared, contested,
                   lapsed, uses>>

\* The goroutine that shows notices; it may stop once the context is done.
ShowNotice(l) ==
    /\ stage[l] \in {"shell", "leaving", "left"} /\ queue[l] # <<>>
    /\ queue' = [queue EXCEPT ![l] = Tail(@)]
    /\ UNCHANGED <<row, token, stage, mine, entry, cut, gone, history, task, audit, knows,
                   shared, contested, lapsed, uses>>

\* The process stops: the sessions, the hub and the commands in hand are gone.
\* What the tables hold stays; nothing closes a row of login_history at a start.
NodeStops ==
    /\ stage' = [l \in Lines |-> "away"]
    /\ mine' = [l \in Lines |-> Rested]
    /\ entry' = [i \in DOMAIN entry |-> NoEntry]
    /\ queue' = [l \in Lines |-> <<>>]
    /\ gone' = [l \in Lines |-> FALSE]
    /\ task' = [l \in Lines |-> Nothing]
    /\ knows' = [l \in Lines |-> {}]
    /\ shared' = {}
    /\ lapsed' = lapsed \cup {l \in Lines : stage[l] \in Inside /\ history[l] = "open"}
    /\ contested' = contested \cup
          {u \in People : \E l \in Lines : task[l] # Nothing /\ task[l].op = "audit" /\ task[l].of = u}
    /\ UNCHANGED <<row, token, cut, history, audit, uses>>

-----------------------------------------------------------------------------
\* Commands.  Each begins at the prompt; a second step ends it.

Begin(l, what) == task' = [task EXCEPT ![l] = what]
End(l) == task' = [task EXCEPT ![l] = Nothing]

\* cmdMesg, cmdBiff: the row first, then this session's entry.
SaveFlag(l, f, on) ==
    /\ AtPrompt(l) /\ Does(l, f) /\ ~gone[l]
    /\ row' = [row EXCEPT ![Owner[l]][f] = on]
    /\ knows' = [m \in Lines |->
                    IF m = l THEN knows[m] \cup {f}
                    ELSE IF Owner[m] = Owner[l] THEN knows[m] \ {f} ELSE knows[m]]
    /\ Begin(l, [op |-> "flag", f |-> f, on |-> on])
    /\ UNCHANGED <<token, stage, mine, entry, queue, cut, gone, history, audit, shared,
                   contested, lapsed, uses>>

SetFlag(l) ==
    /\ task[l] # Nothing /\ task[l].op = "flag"
    /\ entry' = [entry EXCEPT ![IdOf(l)] = FlagSet(@, task[l].f, task[l].on)]
    /\ End(l)
    /\ UNCHANGED <<row, token, stage, mine, queue, cut, gone, history, audit, knows, shared,
                   contested, lapsed, uses>>

\* cmdWrite looks for a session that takes messages before the text is typed.
CmdWrite(l, u) ==
    /\ AtPrompt(l) /\ Does(l, "write") /\ u # Owner[l]
    /\ \E i \in Live(u) : entry[i].mesg
    /\ Begin(l, [op |-> "write", to |-> u])
    /\ UNCHANGED <<row, token, stage, mine, entry, queue, cut, gone, history, audit, knows,
                   shared, contested, lapsed, uses>>

SendWrite(l) ==
    /\ task[l] # Nothing /\ task[l].op = "write"
    /\ \/ queue' = Delivered(Takers(task[l].to, "write"), "write")
       \/ UNCHANGED queue                               \* an empty message
    /\ End(l)
    /\ UNCHANGED <<row, token, stage, mine, entry, cut, gone, history, audit, knows, shared,
                   contested, lapsed, uses>>

\* notifyNewMail, once the message is stored.
NotifyNewMail(l, u) ==
    /\ AtPrompt(l) /\ Does(l, "mail") /\ ~gone[l]
    /\ queue' = Delivered(Takers(u, "biff"), "biff")
    /\ UNCHANGED <<row, token, stage, mine, entry, cut, gone, history, task, audit, knows,
                   shared, contested, lapsed, uses>>

\* cmdWall: every entry but the one of the admin's own session id.
CmdWall(l) ==
    /\ AtPrompt(l) /\ Does(l, "wall") /\ Owner[l] \in Admins
    /\ queue' = Delivered({entry[i].line : i \in {j \in DOMAIN entry :
                                entry[j] # NoEntry /\ j # IdOf(l)}}, "wall")
    /\ UNCHANGED <<row, token, stage, mine, entry, cut, gone, history, task, audit, knows,
                   shared, contested, lapsed, uses>>

\* cmdBan, cmdUnban: SetBanned, then RecordAudit, whose failure nobody sees.
SetBanned(l, u, on) ==
    /\ AtPrompt(l) /\ Does(l, "ban") /\ Owner[l] \in Admins /\ ~gone[l]
    /\ on => u \notin Admins
    /\ row' = [row EXCEPT ![u].banned = on]
    /\ Begin(l, [op |-> "audit", of |-> u, on |-> on])
    /\ contested' = IF \E m \in Lines : task[m] # Nothing /\ task[m].op = "audit" /\ task[m].of = u
                    THEN contested \cup {u} ELSE contested \ {u}
    /\ UNCHANGED <<token, stage, mine, entry, queue, cut, gone, history, audit, knows,
                   shared, lapsed, uses>>

RecordAudit(l) ==
    /\ task[l] # Nothing /\ task[l].op = "audit"
    /\ \/ /\ ~gone[l]
          /\ audit' = [audit EXCEPT ![task[l].of] = IF task[l].on THEN "ban" ELSE "unban"]
          /\ UNCHANGED contested
       \/ /\ contested' = contested \cup {task[l].of}   \* the statement has failed
          /\ UNCHANGED audit
    /\ End(l)
    /\ UNCHANGED <<row, token, stage, mine, entry, queue, cut, gone, history, knows, shared,
                   lapsed, uses>>

-----------------------------------------------------------------------------

SessInit ==
    /\ row = [u \in People |-> [mesg |-> TRUE, biff |-> TRUE, banned |-> FALSE]]
    /\ token = [l \in Lines |-> FALSE]
    /\ stage = [l \in Lines |-> "away"]
    /\ mine = [l \in Lines |-> Rested]
    /\ entry = [i \in {IdOf(l) : l \in Lines} |-> NoEntry]
    /\ queue = [l \in Lines |-> <<>>]
    /\ cut = [l \in Lines |-> FALSE]
    /\ gone = [l \in Lines |-> FALSE]
    /\ history = [l \in Lines |-> "none"]
    /\ task = [l \in Lines |-> Nothing]
    /\ audit = [u \in People |-> "none"]
    /\ knows = [l \in Lines |-> {}]
    /\ shared = {} /\ contested = {} /\ lapsed = {}
    /\ uses \in Uses

SessNext ==
    \/ NodeStops
    \/ \E l \in Lines :
           \/ HandleLogin(l) \/ CreateSession(l) \/ TokenEnds(l)
           \/ HandleWS(l) \/ HandleSSH(l) \/ Drop(l) \/ Cancel(l)
           \/ Register(l) \/ RecordLogin(l) \/ LoopEnds(l) \/ RecordLogout(l) \/ Unregister(l)
           \/ ShowNotice(l)
           \/ \E f \in Flags, on \in BOOLEAN : SaveFlag(l, f, on)
           \/ SetFlag(l) \/ SendWrite(l) \/ CmdWall(l) \/ RecordAudit(l)
           \/ \E u \in People : CmdWrite(l, u) \/ NotifyNewMail(l, u)
           \/ \E u \in People, on \in BOOLEAN : SetBanned(l, u, on)

SessSpec == SessInit /\ [][SessNext]_sessVars

-----------------------------------------------------------------------------
\* Properties

\* Types: rows, entries, notices and tasks are of their kinds, and every line
\* has an id.
SessTypeOK ==
    /\ row \in [People -> [mesg : BOOLEAN, biff : BOOLEAN, banned : BOOLEAN]]
    /\ stage \in [Lines -> {"away", "issuing", "loaded"} \cup Inside]
    /\ mine \in [Lines -> [mesg : BOOLEAN, biff : BOOLEAN]]
    /\ entry \in [{IdOf(l) : l \in Lines} -> Entries \cup {NoEntry}]
    /\ queue \in [Lines -> Seq(Kinds)]
    /\ token \in [Lines -> BOOLEAN] /\ cut \in [Lines -> BOOLEAN] /\ gone \in [Lines -> BOOLEAN]
    /\ history \in [Lines -> {"none", "open", "closed"}]
    /\ task \in [Lines -> Tasks \cup {Nothing}]
    /\ audit \in [People -> {"none", "ban", "unban"}]
    /\ knows \in [Lines -> SUBSET Flags]
    /\ shared \subseteq Lines /\ contested \subseteq People /\ lapsed \subseteq Lines

Takes(l, k) == queue'[l] = Append(queue[l], k)

\* Off means off (mesg and biff, cmd_write.go, hub.go:178-206): a session that
\* has seen its user's latest word about a flag, by reading or by giving it,
\* takes no write or mail alert against it, whatever was typed before or is
\* sent at the same time.  A session that has not seen it may, and so may the
\* channels of one SSH connection, which switch the flags of a common entry.
OffMeansOff ==
    [][\A l \in Lines, k \in {"write", "biff"} :
          Takes(l, k) /\ Gate(k) \in knows[l] /\ l \notin shared
             /\ ~(task[l] # Nothing /\ task[l].op = "flag" /\ task[l].f = Gate(k))
          => row[Owner[l]][Gate(k)]]_sessVars

\* Every shell is present under its own name, and nobody else is, but for the
\* channels of one SSH connection (ssh.go:102), which share an entry.
PresenceIsTrue ==
    /\ \A l \in Lines : stage[l] \in Inside /\ l \notin shared =>
          entry[IdOf(l)] # NoEntry /\ entry[IdOf(l)].line = l
    /\ \A i \in DOMAIN entry : entry[i] # NoEntry => stage[entry[i].line] \in Inside

\* A session that is over is recorded as over, unless its tab's connection was
\* cut, and the context perhaps cancelled first (websocket.go:225, repl.go:25), or
\* the statement failed, whose error nobody sees, or the node stopped.
LogoutIsRecorded ==
    \A l \in Lines : stage[l] = "away" /\ history[l] = "open"
                        => (l \in Web /\ cut[l]) \/ l \in lapsed

\* The audit log's last word about a user is what holds (cmd_admin.go:35-41),
\* unless two admins were at work on that user, or the entry failed, whose error
\* nobody sees, or the node stopped before the entry.  The next ban or unban that
\* is recorded puts it right.
AuditTellsTheBan ==
    \A u \in People \ contested :
        (\A l \in Lines : task[l] # Nothing /\ task[l].op = "audit" => task[l].of # u)
            => (row[u].banned <=> audit[u] = "ban")

\* The tables that a session writes at its two ends, and an admin in the middle,
\* tell the same story: presence, login_history, users and audit_log.  What each
\* part leaves out, it names.
TablesAgree == PresenceIsTrue /\ LogoutIsRecorded /\ AuditTellsTheBan
=============================================================================

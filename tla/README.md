# alternate.sh in TLA+

A verification project for [alternate.sh](../src/DESIGN.md), a federated
public-access shell in Go: local and cross-node calls, talk, mail, news and
games over SSH and a web terminal. The modules are translated from the Go
source; `DESIGN.md` and the comments are used only to say what the code is
*meant* to do, when a property needs an authority to be judged against.

`tlc -config X.cfg M` checks a run, `tlapm M.tla` a proof module.
`PROJECT.json` maps every definition to the lines it models and lists the runs,
the seeded faults that each property is known to catch, the hazards and the
theorems.

## 1. Inventory

One process serves one node: an SSH and an HTTP/WebSocket front end, one shell
goroutine group per login, in-memory registries shared by all of them
(presence hub, room broker, call manager), a Postgres database, and an ASSP
(TLS) server and client for peering with other nodes.

| Component | Source | State | Operations | Correct when |
|---|---|---|---|---|
| Call exchange | `internal/calls/calls.go` | `Manager.calls`, each `Call`'s state, reason, accepted/ended channels, ring timer | Offer, Accept, End, remove, ring timeout, PendingFor, Active, Get | nobody on two calls; End final and idempotent; no endless ring; ended calls free both parties |
| Call terminals | `internal/shell/cmd_call.go` | position of the reader goroutine, of the watcher goroutine, the browser panel | call, call -r, answer by calling back, Enter, Ctrl-C, loss of terminal | every live call has someone who can end it; the panel never outlives the call; hang-up always returns |
| Rooms | `internal/presence/room.go` | broker's map of rooms, members, each member's `Recv` channel | JoinID, Send, Leave, Peers | nobody sends on a closed channel; a member's room is the registered one; empty rooms go away; no bystander |
| Hub and notices | `internal/presence/hub.go`, `internal/shell/cmd_write.go` | logins, per-session notice channel, mesg/biff flags, incoming cross-node talk invites | Register, Unregister, Send, mesg, biff, write, wall | `mesg n` respected; bounded notice queues never block the sender |
| Talk, local and cross-node | `internal/shell/cmd_talk.go`, `cmd_talk_remote.go`, `internal/server/federation.go`, `internal/federation/relay.go` | the room of the pair on each node, its relay pseudo-members, the ASSP stream between them | talk, TALK_OPEN, invite, join, relay both ways, leave | what a user types goes to the peer and nobody else, and does not come back; a talk that is over leaves nobody behind |
| Cross-node calls and media | `internal/shell/cmd_call_remote.go`, `internal/server/federation.go`, `internal/federation/call.go`, `internal/server/callws.go` | one call per node for one conversation, the trunk connection, frame pump, media sockets | CALL_OPEN, answer frame, relay, end watchers | the two sides agree on the outcome; no goroutine is stranded; a media room dies with its call |
| Mail and outbox | `internal/shell/cmd_mail.go`, `internal/server/fedsync.go`, `internal/db/outbox.go`, `internal/db/mail.go` | `mail`, `mail_outbox`, vacation reply records | compose, queue, attempt, reschedule, bounce, MAIL_SEND | every queued message is delivered or bounced; limits count every message |
| Federated news | `internal/server/fedsync.go`, `internal/federation/sync.go`, `internal/db/newsfed.go`, `internal/db/news.go`, `internal/shell/cmd_news.go` | articles per node, sync marks | post, approve, cancel, push, NEWS_CANCEL, catch-up sync | every article reaches every peer; a cancel is never undone |
| Fortune review, bans, audit | `internal/db/community.go`, `internal/shell/cmd_fortune.go`, `cmd_admin.go` | fortunes and their status, the banned flag, audit log | submit, approve, reject, ban, unban | one verdict per submission; a banned user gets in through no door; the log tells what holds |
| Mailing lists | `internal/shell/cmd_lists.go`, `internal/db/community.go` | lists, subscriptions | create, remove, flag, subscribe, send | names never collide with users; mail goes to members |
| Chess and games host | `internal/games/games.go`, `internal/games/chess/game.go`, `internal/db/chess.go` | stored move list, scores, each session's copy | challenge, respond, move, resign, draw | the stored move list is never rewound; a game scores once |
| Chess engine | `internal/games/chess/engine.go`, `notation.go` | position: board, turn, rights, en-passant square | legal moves, Apply, status, notation | as many moves as the rules have; a stored move is read back as itself |
| Trade game | `internal/games/trade/trade.go`, `internal/db/trade.go` | charts, ports, players, the daily turn budget | look, map, warp, buy, sell | nobody owes credits, cargo or turns; turns never granted twice |
| Wumpus | `internal/games/wumpus/wumpus.go` | one in-memory game per session | move, shoot | what kills was announced; the player is asked only where he may be |
| ASSP | `internal/assp/` | connection, write mutex, handshake position | frame read/write, mutual challenge-response | both ends authenticate or neither does; frames are not interleaved |
| Federation directory | `internal/federation/server.go`, `client.go`, `internal/db/peers.go`, `internal/shell/cmd_node.go` | peers | WHO, FINGER, node add/remove | request and response alternate |
| Rate limiter | `internal/ratelimit/ratelimit.go` | the times of recent events per key | Allow | never more than max in a window |
| AV codecs | `internal/av/`, `web/js/codec.js` and its neighbours | encoder and decoder frame, sequence numbers, ADPCM predictor | encode, decode, PackBits | decode is the inverse of encode; a gap freezes until a keyframe |
| Browser call client | `web/js/call.js` | the active call, socket, media stream | startCall, teardown | an old call's late callbacks do not touch the new one |
| Signup | `internal/server/signup.go`, `internal/db/signup.go` | pending signups, attempts | create, confirm | one account per confirmed address; five tries |
| Sessions and front ends | `internal/server/websocket.go`, `ssh.go`, `internal/shell/repl.go`, `session.go` | tokens, session id, presence entry, login history, notice goroutine | login, the two doors, REPL, logout | a closed terminal leaves nothing behind |
| Email, config, validation, web page, CLI, Nix | `internal/email`, `internal/config`, `internal/valid`, `web/`, `cmd/`, `nix/` | none shared | SMTP submission, parsing, deployment | – |

**What makes it hard.** Everything above that is in memory is shared by
goroutines that look something up under one lock and act under another (or
none): `PendingFor` then `Accept`, `HasIncomingTalk` then `Join`, `Active` then
`JoinID`, `End` then `remove`, the limiter's clock then its mutex,
`time.Timer.Stop` against a callback that has started. Channels are bounded and
full ones drop (`Recv` 256, `WriteCh` 8, `kick` 1). Across nodes there is no transaction: a response can be lost after
its request took effect, a push can overtake a cancel, a node can stop between
the network step and the database step. In the database most updates are
single statements without a version check, so two sessions of one user
overwrite one another.

## 2. Plan

Ordered by how much of the program's behaviour hangs on the part.

1. **Calls on one node** – `Telephone`, `CallExchange`, `CallSession`,
   `Calls_proofs`. *Done.*
2. **Rooms** – `Rooms`, `RoomLocks`, `Rooms_proofs`. *Done.*
3. **Store-and-forward** – `StoreForward`, `FedMail`, `FedNews`,
   `FedMail_proofs`, `FedNews_proofs`. *Done.*
4. **Calls across nodes** – `CallTrunk`, `CallTrunk_proofs`: both nodes' calls,
   the connection, frame pumps, relays, goodbyes and media sockets. *Done.*
5. **Talk** – `TalkBridge` (`Rooms` on two nodes, relays and invitations) and
   `TalkScreen` (who has a pane, and where its cursor is). *Done.*
6. **Sessions** – `Sessions`, `Sessions_proofs`: from the doors to the logout,
   with presence, notices, flags and bans. *Done.*
7. **Shared tables** – `Signup` with the rate limiter before it, `Community`
   for lists and fortunes; `Node_proofs` for these and for 5. *Done.*
8. **Games** – `GamesHost`, `ChessGame`, `ChessRules` with `ChessPositions`,
   `Trade`, `Wumpus`, `Games_proofs`. *Done.*

Not begun, in the order of what they would show: PackBits, delta frames and
keyframes of `internal/av` against reference definitions; the ASSP handshake;
the federation directory. What is left to prove is listed at the end of section 5.

## 3. The modules and the code

| Module | Models | Extends or instantiates |
|---|---|---|
| `Telephone` | what an exchange promises: free parties, no call reused, no endless ringing | – |
| `CallExchange` | `calls.Manager` and `calls.Call` | `Telephone` as refinement |
| `CallSession` | `call`, `call -r` and `runCall` in every terminal of the node | `CallExchange` |
| `Rooms` | the room broker, one step per operation | – |
| `RoomLocks` | the same at the grain of `RoomBroker.mu` and `Room.mu` | `Rooms`, extended and as refinement |
| `StoreForward` | what cross-node mail promises: delivered or returned, twice only in doubt | – |
| `FedMail` | the `mail` command, the outbox and its worker, the peer's MAIL_SEND handler, `node add` and `node remove` | `StoreForward` as refinement |
| `FedNews` | articles of one node and their copies on a peer | – |
| `CallTrunk` | one call between two nodes: `callRemote`, `handleIncomingCall`, `ReadFrames`, `RelayCallRoomToStream`, `handleCallWS` | – |
| `TalkBridge` | talk between two nodes: `talkRemote`, `handleIncomingTalk`, `RelayRoomToStream`, the hub's invitations | `Rooms` as `R`, whose steps are the rooms' |
| `TalkScreen` | the split screen of a talk | – |
| `Sessions` | the web and SSH doors, `Run` from `Register` to `Unregister`, presence, notices, `mesg`, `biff`, `write`, `wall`, `ban` | – |
| `Signup` | signing up and confirming, the sliding-window limiter | – |
| `Community` | mailing lists and the pool of fortunes | – |
| `GamesHost` | who plays what, and in how many sessions | – |
| `ChessGame` | lobby, challenges and the board over the stored row | `GamesHost` |
| `ChessRules` | moves, `Apply`, status and notation | – |
| `ChessPositions` | positions to start from, with the published move counts | `ChessRules` |
| `Trade` | Star Trade, statement by statement | `GamesHost` |
| `Wumpus` | every hunt from a placement | `GamesHost` |
| `*_proofs` | theorems about the module of that name; `Calls_proofs` about `CallExchange` and `CallSession`, `Rooms_proofs` about `Rooms` and `RoomLocks`, `Games_proofs` about `ChessRules`, `ChessGame`, `Trade` and `Wumpus`, `Node_proofs` about `Community`, `Signup`, `TalkScreen` and `TalkBridge` | those modules, TLAPS |
| `MC*` | finite instances | the module they check; `MCGames` all games, `MCNode` the five modules from `TalkBridge` to `Community` |

**Call exchange.** `state`, `caller`, `callee`, `answered`, `reason` and
`timer` are the fields of a `Call`; `registered` is the key set of
`Manager.calls`. An id is 64 random bits, so an id is never used twice. `Offer`
and `Accept` are one critical section each. `End` is two: the call's mutex is
released before `Manager.remove` takes the manager's, so `End` and `Remove`
are two actions, and between them an ended call still makes its parties busy.
The timer's callback has three: it has started (`RingExpires`), it ends the
call whatever its state (`RingTimesOut`), it removes it (`TimerRemoves`).

**Call terminals.** A session is at the prompt, between two steps of `cmdCall`,
or in `runCall`, which is two goroutines (`pc` for the reader, `watch` for the
watcher). Each look-up and the act that relies on it are two actions
(`TypeCall`/`AnswerCall`, `TypeDecline`/`Decline`, `PlaceCall`/`Notified` or
`Unreachable`, `PressCtrlC`/`HangUp`). A browser's media socket is here only in what it does to
a call: when it breaks, it ends a call in progress (`MediaDrops`, and then
`MediaRemoves` as the second half of that `End`). What `AnswerCall`, `HangUp` and
the others do to the exchange *is* the exchange's action, so that a terminal is
a client of it by definition; `TerminalsUseExchange` is no more than the
lemma by which the exchange's theorems are used.

**Rooms.** A room object is a name and a number: the broker deletes the name of
an emptied room and may give it to a new object while a handle of the old one
is still in use. `recv` holds each `RoomMember.Recv`, which drops what does not
fit. In `RoomLocks` `JoinID` is `JoinFinds` and `JoinEnters`, `Send` is
`SendStarts` and `SendEnds`, `Leave` is `LeaveStarts` and `LeaveEnds`, because
one handle is used by several goroutines.

**Mail.** One value of `Messages` is one `mail` to another node or, for those
not in `Remote`, to a local user (which matters to the hourly limit only). The
worker is one goroutine, so it has one position, one row in hand and the rest
of the batch `DueOutboxMail` gave it; each database statement and each network
step of `attemptDelivery` is an action, and `Fails(statement)` is the path on
which that statement's error is dropped or treated like "not found". A request
is at one place of the peer's handler; when its connection breaks before the
answer is read, the worker goes on and the request becomes a stray that the
handler may still be serving, next to the retry. Time is an `age` (first hour,
first day, older) and being `due` again; the seven days of a vacation record do
not pass. `doubtful` is a history variable: the messages an attempt of which
was cut before the worker had read the answer and acted on it. `unrecorded`
counts the auto-replies whose record failed: `fedsync.go:346` drops that
error and the reply rides back all the same.

**News.** `updated_at` is the `NOW()` of the statement, which is taken when it
begins, so every statement of the origin is `Begin` and `Commit` and two may
overlap. Pushes read the row when their goroutine runs (`PushReads`) and land
later or never (`PushLands`; nothing obliges them to). `SyncNews` is
`SyncStarts` (the mark is read), `Pull`, `Apply` per article, `NextBatch`,
`SyncSaves`; `ApplyFails` is a failed insert, whose error `SyncNews` drops.
`late` is a history variable: the articles of which a change became visible
only after a sync had passed its time, or was dropped by a failed insert, or
was undone by an older state that arrived after it. `Covered` are the times
that the mark or a sync has reached, and `Behind(t)` says that `t` is no later
than one of them.

**Calls across nodes.** Each goroutine of the two programs is a variable:
`waiter` and `closer` on the near node, `handler` on the far one, and on both
`pump` (what `ReadFrames` holds out on its unbuffered channel), `relay`, `ender`
and `socket`. `wire[s]` is what the connection holds of the frames that `s`
has written; `open` says which node has not yet called `Close`, and `lost` that
the connection has failed. A node's call is a state only, because
`CallExchange` shows that `Accept` and `End` act as one step and `End` is
idempotent; likewise a room is only its stand-in and its media socket. The
three ways out of the relay differ in what they close and leave, and `RelayEnds`
keeps the difference (`Cut` does not close the connection, `Shut` has no member
left to remove). The ring's timer runs from `PlaceCall`, so a call may be over
before its dial is: the handshake has no deadline. What a goroutine does on its
own node between two waits is one action.

**Talk across nodes.** The rooms of both nodes are `R == INSTANCE Rooms`, so
`registry` to `recv` are its variables and every join, send and leave is its
action. A dial that is accepted adds to each room a stand-in, `<<side,
dialler>>`; stand-ins of one pair share a session id, as the string of
`RelayRoomToStream` does. `at` is where a session's command stands, `desk` where
the peer's `handleIncomingTalk` does, `conn` what is on its way in the
connection and who has shut it, `relay` and `reader` the two goroutines of a
stand-in. The test of the invitation, its removal and the join
(`SeeInvitation`, `TakeInvitation`, `JoinBridged`) are three actions, as in
`cmd_talk_remote.go:32`. Showing a byte on a terminal goes first (`Behind`): no
other step reads what it changes. A relay that ends leaves the room and then
closes its connection (`LeaveRoom`, `CloseRelay`), and its reader may still
put a byte into the room in between. `robbed` is a history variable: the
stand-ins whose invitation was taken away by the relay of another dial to
the same user (`Rivals`).

**The talk's screen.** `self` and `panes` hold for each pane its owner, label,
cursor and height. A pane may be held by name until its session is heard of
(`ByName`), which is how a peer that joins between the look at the room and the
first event gets only one. `markLeft` knows panes by session only, so the pane
that `talkRemote` opens by name is never marked. Panes have at least two rows
each, fit or not, and `Shown` is what a terminal makes of a row below its last.

**Sessions.** A line is a browser tab or an SSH channel. `stage` follows it:
`away`, `issuing` a token, `loaded` (the door has read the user's row into
`mine`), `entered`, `shell`, `left`. `entry` is `Hub.sessions`, whose key is a
tab's own and a connection's common one (`IdOf`). `task` is the command between
its statement and what follows it: `mesg` saves the row and then sets the flag
of this session's entry, `ban` writes the row and then the audit entry. `gone`
is the cancelled context, on which the statements of a web session fail; any
statement may fail at other times too, and where the code drops the error
(`RecordLogin`, `RecordLogout`, `RecordAudit`) the session goes on. `NodeStops` may
come at any step: what is in memory is gone, and the tables stay as they are. The
history variables `knows`, `shared`, `contested` and `lapsed` say who has
seen what and which entries were not written; properties use them to excuse what
the code does not promise.

**Signup.** Every statement of a request is a step (`CheckTaken`, `DeletePrior`,
`InsertPending`, `SendConfirmation`; `ReadPending`, `CountAttempt`,
`ConfirmPending`), with a roll-back after mail that could not be sent, which
finds the row by its name (`FindOrphan`, `DeletePending`). `ReadClock` and
`Allow` are two steps since the limiter takes its time before its mutex;
`events` are the stamps it keeps, `granted` the true times of its answers. A
client that hangs up cancels its request's context, so that any statement may
fail. Most failures end the request (`StatementFails`); those whose error is
dropped are counted for each row: `lost` are wrong codes that were compared and
not counted (`signup.go:137`), `spared` failures that kept a request from deleting
the row.

**Lists and fortunes.** `doing` is what a session has read and not yet used:
a list's id, its members, the queue of pending fortunes, a count.
`newcomers` are the users who appear through `Signup`, which asks for users
of that name and not for lists. A look-up that fails passes for a free name
(`cmd_lists.go:81`), and a count that fails for none (`cmd_fortune.go:45`): `late`
holds the names and `uncounted` the fortunes that this let through. Every other
statement may fail and then does nothing.

**Games host and chess.** `board` is where a session stands and its `copy` of
the row; `Commit` writes the row as a whole from that copy, whatever it has
become. A move is its author and what it does to the game, since what is legal
is `ChessRules`. `excused` records that a user has had one game open in two
sessions, or that a statement after a score has failed.

**Chess engine.** A position is a function from the occupied squares, with
turn, rights, en-passant square and half-move clock. Moves are sets: pseudo-legal
ones by ray and step, legal ones those that leave the own king out of check.
`SAN` yields what tells moves apart, not a string.

**Trade.** `job` is a session's command and what it has read (sector, stock);
`Mint`, `Renew`, `Warp`, `ReadPort`, `Restock`, `TradeExchange` are the
statements, `charted` says whether `GenerateTradeUniverse` has run, and `hour`
moves between any two of them. There are two calendars over it: `today` is Go's
local date, which decides whether a budget is past, and `current_date` the date of
the database session, which is written beside a new one (`db/trade.go:208-227`);
`late` counts a user's budgets that were written under a date which the node's
calendar had already left. `Restock` may fail unnoticed.

**Wumpus.** `hunt` is one session's game. Each roll of the dice is a choice, so
`enterRoom`, `Bump`, `Flight` and `Miss` are sets of outcomes.

## 4. What each run checks

| Run | Result | Question |
|---|---|---|
| `call_exchange` | passes | may three users, calling in any order, ever be on two calls, revive an ended one, stay busy or ring for ever? does the exchange implement `Telephone`? |
| `call_terminals` | passes | do one terminal of Alice and two of Bob, racing over one call, always leave one terminal per side, somebody who can hang up, a closed panel and a prompt, whether terminals, timers or media sockets end the call? |
| `call_hangup_only` | violated | does an answered call end only by hanging up? |
| `rooms` | passes | is a closed channel ever sent on, a member lost to the registry, a mutex kept? are the operations atomic? |
| `fedmail` | passes | does every message end delivered or returned, through every fault, and when can it do both? how many auto-replies does a sender get when records fail? |
| `mail_limit` | violated | does cross-node mail count against the hourly limit? |
| `fednews` | passes | does every article and every cancel reach the peer, and which do not? |
| `fednews_cancel` | violated | does a local admin's cancel stay? |
| `call_trunk` | passes | is the caller connected only to somebody who answered, is a cancel a cancel, and does the end of either node's call reach the other and empty both rooms? |
| `trunk_pump` | violated | does closing the connection free the goroutine that reads it? |
| `node` | passes | does a talk end with its users, and what is typed never come back to its terminal? does a pane keep to its rows, and what becomes of those that do not fit? do presence, history, users and audit log tell one story, and is off off? do haste and overlap get round the limits of signups, lists and fortunes? |
| `games` | passes | does the engine know the rules? what is left of a game, a ship and a budget when two sessions write over each other, and the node's and the database's calendars differ? is a hunt fair? |

The four violated runs each check one statement of the repository's
documentation or comments; `PROJECT.json` quotes it under "findings":

- An answered call can end as `no answer`, `unreachable`, `declined` or
  `canceled`, when that was decided before the answer and `End` carried out
  after it: `End` does not ask whether the call still rings.
- Delivered cross-node mail does not count against the hourly limit, because
  its outbox row is gone and no row of `mail` names its sender. In the run the
  first message is stored at the peer, the worker deletes its row, and the
  sender may write another within the hour. Messages that came back are left
  out of the count.
- A copy that arrives a second time, as the sync after a push does as a matter
  of course, takes the origin's cancelled flag and undoes the local admin's.
- A frame pump that holds out a frame when its relay ends waits for ever,
  although both ends of the connection are closed: nothing else receives from
  its channel.

`HangUpReaches` names one case in which the far user's hang-up does not reach
the near one: both relays wait in `Write` because neither reads (`Wedged`). The
far node's only closer says goodbye first, which waits for the same mutex and
the same full connection; the near node also has a goroutine that just closes.
The wait ends when the caller hangs up or the connection is lost.

Two properties are false under circumstances that the runs leave out, and TLC
says so as soon as they are put in:

- `bounce` ignores the error of the insert that returns a message and deletes the
  outbox row (`fedsync.go:205`). With `"return"` in `Failing` and one fault in
  `MCFedMail.cfg`, `NothingVanishes` fails after nine states.
- A relay notices that its user has left by the leave event, which a full `Recv`
  drops (`room.go:174`): it then stays in the room with the connection open, where
  its comment says that it ends (`relay.go:44`). With `Cap = 2` in `MCNode.cfg`,
  `NobodyTalksToNobody` fails after eleven states.

Two more observations of the models are recorded as hazards and stated in the
properties rather than as findings: a message is doubled only by an attempt in
doubt (`OneFateUnlessInDoubt`), and an article is missed for good only if it is
`late` (`NothingPassedOver`, `CatchesUp`). The latter does happen in the code:
a statement that commits after a younger one was pulled is never asked for
again.

`node` and `games` are unions of runs: `matter` and `arena`, chosen at the start,
say which module's steps a behaviour takes, so the state spaces add up and do
not multiply. The modules share no variable, with the exception of the games' host.

Some properties name the case in which the code does not keep them. Each excuse
is a behaviour that TLC shows when the excuse is left out:

- `NoEcho`: both users dial, neither having seen the other's invitation
  (`Crossed`). Each room then holds two stand-ins with different session ids,
  each forwards what the other injects, and a byte circulates
  (`relay.go:38`).
- `NobodyTalksToNobody`: two dials of one user share one invitation. The relay
  that ends first takes it away from the other, which then waits for somebody who
  was never told (`robbed`; `federation.go:113`). Dials that do not meet in this
  way are not excused, however many a user makes.
- `InkStaysInPane`: panes that do not fit run past the bottom
  (`cmd_talk.go:246`), and the terminal shows them on its last row, one over the
  other and over the pane that ends there. The panes above keep to their rows.
- `OneAutoReply`: a further reply for each record that failed (`unrecorded`).
- `OffMeansOff`: another session of the user has switched the flag, which is
  set in the entry of the session that typed `mesg n` only
  (`cmd_write.go:94`), although DESIGN.md:567 has `mesg n` "respected absolutely";
  or two channels of one SSH connection, switching one flag at once,
  save it in one order and set it in their common entry in the other.
- `TablesAgree`: two channels of one SSH connection share a presence entry, and
  whichever ends first removes it for both (`ssh.go:102`); a tab that breaks, a
  failed statement or a stop of the node may leave a row of `login_history` open
  (`repl.go:25`), and the last two, or a second admin at work on the user, leave
  the audit log with another last word than the row (`cmd_admin.go:41`). The next
  ban or unban that is recorded puts that right. That a row read before a ban lets
  its user in after it (`websocket.go:212`) is in the model; no property forbids it.
- `SignupIsBounded`: as many guesses beyond five as there are requests under
  way, since the code is compared before the attempt is counted, and one more
  for each statement about the row whose error is dropped (`lost`, `spared`): a
  client that hangs up early enough guesses for nothing. Grants lie as much
  closer as a request may wait between clock and mutex.
- `CommunityIsOrderly`: a user who signs up under a list's name
  (`db/signup.go:35`), or a list made under a user's name when the look-up failed
  (`cmd_lists.go:81`); a list changed after the sender looked it up; one fortune
  beyond the day's limit for each further session, and any number whose count
  failed (`cmd_fortune.go:45`).
- `ListIsTheTruth`, `WarpsFollowTheMap`: a user who plays in two
  sessions can rewind a chess game, revive a finished one, and jump between sectors
  that no warp joins. `StoredListReplays`
  and `ShipIsSound` hold even then: what is stored always replays, and nobody
  ever owes.
- `BudgetIsKept`: a user who plays in several sessions is granted at most one
  budget for each of them in a day, where two that read the row before midnight
  renew it one after the other. Where the database's calendar is behind the node's, a
  budget is written under yesterday's date and granted again at every command
  until the database's midnight (`late`; `db/trade.go:219, 225`); where it is
  ahead, the next budget comes late, which the property allows.
- `WonGameScoredOnce`: two sessions again, or a statement of `finishGame` failed, whose errors
  nobody looks at (`game.go:474`).

Seen while modelling, not stated as properties: after more than twelve hours the
drift of a port's stock steps past the level it drifts to (`db/trade.go:186`); `o-o` is also accepted for a rook's move
from e1 to g1 (`notation.go:127`); the roll-back of a failed confirmation mail
looks for the pending row by name and may find a later one (`signup.go:100`).


### Bounds

- *Exchange*: three users and two calls. A conflict over a user takes two calls
  and three users; a third call meets the same states again, since calls
  interact only through `Busy`. The theorems hold without bounds.
- *Terminals*: one call id, three sessions: a caller, and a callee logged in
  twice, which are all the parties a call has. What a terminal holds of a call
  is gone when it is back at the prompt. In a run that has used up its ids
  `Offer` is refused, which the rate limiter may do at any time.
- *Rooms*: one name, four handles (two of one session, one of the peer, one
  stranger), channels of one place, one payload. Leaving, re-registering under
  the same name with an old handle in use, rejection and a full channel all
  happen. `Cap = 1` stands for 256: a channel is either full or not.
- *Mail*: two messages from one sender to one node, one of them to a user the
  peer does not know; `MaxFaults = 1` statement error or restart at any point,
  besides unreachability, broken connections and peering changes, which are
  unbounded. The outbox rows interact only through the worker's batch and
  the vacation record, for which two are enough. The theorems have no bounds.
- *News*: two articles, one of them moderated; `MaxTime = 3` statements in all,
  two of them at a time; batches of one, so that each answer is cut; two syncs;
  one break. An overtaking takes two statements, a third undoes or repairs.
- *Trunk*: `Cap = 1` frame each way, so a connection is empty or full and a
  writer waits as soon as its peer does not read; `Cap = 2` has been explored
  for the invariants too, which are proved for every capacity. One call: calls share nothing but
  the exchange and the rooms. Failures and browsers' packets are unbounded.
- *Talk* (`node`): two nodes, two sessions of Alice at one and one of Bob at the
  other. Five casts: one dial that may fail, be answered and be cut, with both
  users typing; both users dialling, one of whom types; and two dials of one user,
  where the one that types hangs up, the other does, or neither does and Bob
  answers. A terminal talks once and types once, and who hangs up is part of the
  cast (`quit`). With `Cap = 5` no relay
  misses a leave event; with two places an arrival and a byte fill its `Recv`
  before the event comes. In the code that takes 256
  events which the relay has not read.
- *Screen*: seven rows of two columns and two peers, so that three panes leave one content
  row each and every other byte wraps, and a fourth pane does not fit; texts of one
  and three.
- *Sessions*: Bob at a tab and on an SSH connection of two channels, an admin at
  a tab and on SSH; a notice queue of one. Four uses share out the commands:
  flags against `write`, `biff` and `wall` on shared channels, a ban, and two
  admins who ban at once. The
  other lines of a use come and go. Lines are used again without bound, and the
  node may stop at any step. The theorems have no bounds.
- *Signup*: two browsers behind one address that want one name; two attempts,
  two grants in a window of three ticks, one tick of delay; two pending rows, each
  with at most one dropped error (`MaxSlips`).
  Overlap takes two requests, a second row is needed for a delete that hits
  the wrong one.
- *Community*: two sessions each of a user and an admin, in four agendas: a list
  made, flagged and removed under those who join and post; fortunes submitted in
  two sessions and reviewed; one queue before two admins; an admin who submits
  as well. One list name that a newcomer may take, three fortunes, two lists ever
  made, so that a name may come back with another id.
- *Chess*: two sessions of Alice and one of Bob, one row, three moves, two
  scores. A rewind takes two sessions and one move in between; a revived game a
  second score.
- *Engine*: eight positions, one to three plies each, among them the start, "Kiwipete" and
  position 3 of the repository's perft test, where the numbers of moves at one and
  two plies are compared with the published ones; and small endings in which
  castling, promotion, en passant, three like pieces, or dead bishops matter.
- *Trade*: three sectors, two ports, two turns a day; of the three goods one is
  dealt in (`Dealt`); quantities that just fit the holds; hours from 12 to 25 in
  pauses of 11 and 13, with the node's calendar one hour ahead of the database's,
  so that there is a time between the two midnights; at most two budgets written
  late for a user (`MaxLate`).
- *Wumpus*: the full dodecahedron and one placement of pits, bats and wumpus
  with bats next to the wumpus; five arrows, all paths of one to five rooms.


### Fairness

- *Calls*: timers fire and their callbacks run, a goroutine that can go on does
  (weak fairness per session, watcher and timer). Keystrokes have none: nobody
  has to answer or to hang up, and every property holds without.
- *Rooms*: a `Send` that holds a mutex ends; who waits for the room's mutex
  with the broker's in hand gets it in the end (strong fairness), as Go's
  mutexes hand over to a waiter that has starved for a millisecond.
- *Mail*: the worker's goroutine, the peer's handler and time go on. That
  includes an assumption the code does not secure: a peer that keeps the
  connection answers. There is no read deadline on an ASSP connection, so a
  peer that is silent without breaking it stops the worker.
- *News*: the worker's hourly sync takes its steps; the other sync and all
  pushes may stop at any point. Breaks are bounded by `MaxBreaks`; a node that
  never completes a sync catches up on nothing. That the peer answers is
  assumed here as well.
- *Trunk*: every goroutine that can go on does, an unanswered ring times out; a
  dial may stay without an end.
  Two strong assumptions: a goodbye waits for the write mutex, which Go grants
  in turn, and then gets the next free place in the connection; and the relay's
  `select`, which chooses at random among the ready cases, does not pass over
  a frame for ever. Users, browsers and failures are free.

`node` and `games` state no fairness: their properties are safety, and nobody
has to type anything.

`call_exchange`, `call_terminals`, `call_hangup_only`, `node` and `games` do not
check deadlock: users may all stay at the prompt, and bounded matters end. Nor
do `call_trunk` and `trunk_pump`: a call that is over does nothing more.

## 5. What is proved

`tlapm` checks all proofs; the theorems hold for all values of the constants
under the named ASSUMEs of each module, which TLC evaluates in the runs.

- **`Calls_proofs`, the exchange.** `TypeCorrect`; `ExclusiveHolds`; `EndIsFinal`;
  `RefinesTelephone` (safety). `Exclusive` says that two registered calls share
  no user and that a call in progress is registered. By itself it is not
  inductive: an unplaced id could be registered already, or a timer's callback
  could remove a call in progress. `IInv` adds that a registered call has been
  placed, that a timer removes only ended calls, and what a call's timer and
  parties are in each state. The refinement needs it, since a `Ring` step wants
  its parties `Free`.
- **`Rooms_proofs`, the rooms.** `RoomsTypeCorrect`, `NeverPanics` (`NoClosedListed`),
  `NoOrphanEver`, `PeersOnly`. The strengthening says that an object number in
  use is at most `made[n]`, so that a new object is nobody's, and that what a
  channel holds was fit when it was put there, which the lemma `OfferedKeeps`
  on the channels carries along.
- **`FedMail_proofs`.** `MailTypeCorrect`, `MailNeverVanishes`,
  `OnlyDoubtDoubles`, `AutoRepliesOnce`. `IInv` relates three places that no
  property names together: where the worker stands and which row it holds
  (`WorkerPlace`), how far its request has got at the peer (`RequestPlace`),
  and what has become of each message (`Fate`); `Replying` does the same for
  vacation replies: those given and those on their way are no more than the record
  and the records that failed. The worker deletes a row only where the answer it has read
  tells that the peer took it, or after the bounce; that is what the three
  parts establish together. They assume `"return" \notin Failing`, that is,
  that the insert of a bounce into the sender's mailbox succeeds. The code
  drops that error and deletes the row (`fedsync.go:205`); without the
  assumption `NothingVanishes` is false. `MailRefinesStoreForward`, the safety
  part of the refinement, holds without it: that what is stored or bounced was
  sent needs only `WorkerPlace` and `RequestPlace`.
- **`CallTrunk_proofs`.** `TypeCorrect`, `ConnectedOnlyIfAnswered`,
  `CanceledOnlyIfReal`, `AnswerAlwaysFirst`, for any capacity. The three are
  about what one node may conclude from what it sees of the other. `IInv` says
  what the connection holds meanwhile: nothing before the far node writes
  (`Quiet`), at most a refusal without an answer (`Unanswered`), the answer
  ahead of everything else (`AnswerIsHead`); and that the near end is closed
  before the answer only when its call has ended (`ClosedIfEnded`), so that the
  far pump's end means a cancel (`RingCutByCaller`).
- **`Rooms_proofs`, the mutexes.** `LocksTypeCorrect`, `SendsOnlyOnOpen`,
  `RegistryAlwaysExact`, `LocksImplementRooms`, for any handles, names and
  capacity. The grain of the mutexes is finer than `Rooms`; what makes it as
  atomic is that a `Send` holds the room's mutex while it delivers to the
  listeners it has found (`Locked`), that a joiner and a leaver hold the
  broker's, and that a joiner's room is the registered one while it waits
  (`Waiting`). `LInv` adds the rooms' own invariant. Each concurrent step then
  maps to a step of `Rooms` or to none.
- **`Calls_proofs`, the terminals.** `SessionTypeCorrect`, `PanelAlwaysFollows`,
  `TerminalsUseExchange`, `OneTerminalEach`, `LiveCallAlwaysAttended`, for any
  users, sessions and calls. Every step of a terminal, of a timer or of a media
  socket is one of a client of the exchange or none, once it is known what a
  command has in hand (`InHand`: a call to end, a reason to give). That is a lemma
  (`TerminalsUseExchange`), which makes the exchange's invariants available here.
  `SidesInv` says which side a session that is in a call stands on, that two sessions on one call are its two sides,
  and that a side is driven once; a placed call then stays attended or is over.
- **`FedNews_proofs`.** `NewsTypeCorrect`, `NeverPassedOver`, for any articles,
  number of syncs, batch limit and bounds. The strengthening: a batch holds
  every change the peer lacks that is no later than a row of it
  (`BatchesComplete`), and no two articles bear one time (`OneArticlePerTime`). The lemmas about the
  oldest rows of a table say what `ORDER BY updated_at LIMIT n` returns: a set
  closed downwards.
- **`Sessions_proofs`.** `SessionsTypeCorrect`, `TablesAlwaysAgree`,
  `OffAlwaysOff`, for any lines, connections, admins and queues, assuming that
  a tab has an id of its own (`LinesAssumption`). Presence is inductive only
  together with where entries are (`EntriesPlaced`) and that two sessions under
  one id are known to be `shared`. `OffMeansOff` is an action property; its
  invariant `FlagsKnown` says that a flag which a session knows is in its
  entry, or in its hands on the way there.

- **`Games_proofs`, chess.** `ChessTypeCorrect`, `StoredListAlwaysReplays`,
  `WonGameAlwaysScoredOnce`, `ListAlwaysTheTruth`, for any users, sessions, games
  and bounds, assuming only that a row can be told from no row. A session writes
  a whole row from its copy, so what matters is the copies: `ChessInv` says that
  every copy is a sound game between the players of its row (`BoardOK`), however
  old, and that it *is* the row unless its user has had a game open twice
  (`BoardsFresh`). The first gives a stored list that replays whoever overwrites
  whom; the second the score and the action property.
- **`Games_proofs`, the engine.** `PositionStaysSound`, for any line of legal
  moves from any sound positions (`RulesAssumption`; the code starts from the
  usual one, TLC evaluates it for those of `ChessPositions`). `RulesInv` adds to
  `SoundPosition` the types of a position. The argument runs as the code does: a move
  that is tried from a sound position lands on the board and takes no king
  (`MoveGoes`), because what a piece can reach can be reached back (`RayBack`,
  `LeapBack`) and the king would be in check on the opponent's turn; `Apply`
  then moves one piece, one castled rook, or takes a pawn in passing
  (`BoardAfter`), and each part of soundness survives that.
- **`Games_proofs`, the notation.** `EveryMoveHasItsName`, in every position of
  such a play. The squares and the promotion make the move (`MoveIs`). Two
  pieces of one kind that reach a square are each other's rivals, so what
  distinguishes the one is not the other's (`DisambTells`); a pawn that does not
  name its file has come straight, and pushes of one and two ranks to a square
  exclude each other (`CameBy`, `OnePawn`). Hence `SAN` is an injection on a set
  which is finite (`MovesAreFinite`), and as many names as moves; and the stored
  form is read back as the move that was stored (`ReadBack`).
- **`Games_proofs`, Star Trade.** `TradeTypeCorrect`, `ShipsStaySound`,
  `BudgetAlwaysKept`, `WarpsAlwaysFollow`, for any universe, base prices, holds,
  budget and number of sessions (`TradeAssumption`: warps lead to sectors, ports
  are in sectors, purse and holds are not negative). `ShipIsSound` follows from
  the guards of each statement alone. The other two need, for a user in one
  session, that what it read before a warp or a renewal is not stale
  (`AllFresh`), wherever the two midnights fall, and `SpentOnShips` for the first
  grant. For a user in several sessions the budget is counted by session: what is spent and
  left today is at most one budget for each session that is not about to renew
  (`Awake`, `Shared`), and a renewal adds one such session and one budget.
- **`Games_proofs`, wumpus.** `HuntAlwaysFair`, for any cave whose tunnels lead
  out of a room, any quiver and any placement (`WumpusAssumption`). `WumpusInv`
  says where the player may be while a hunt goes on; the lemmas say what the
  warnings mean (`HintsAreTrue`) and that a bat ride ends where nothing is left
  to happen (`RideEndsSomewhere`).
- **`Node_proofs`, lists and fortunes.** `CommunityAlwaysOrderly`, for any
  finite number of sessions, any lists, fortunes and daily limit. A list a
  sender has found stays as it was unless the sender is in `moved`
  (`PostersStand`); a verdict is the row's (`VerdictsStand`); and sessions that
  have counted and not yet submitted are counted as if they had
  (`FewAreLetThrough`), which gives the excess that overlap allows; sessions whose
  count failed are none of them.
- **`Node_proofs`, signing up.** `SignupAlwaysBounded`, for any finite number of
  clients, any window, lag and limits. For the guesses: wrong codes are counted,
  lost to a dropped error, or in the hands of a request about to count them, and each request that made
  the count too high is about to delete the row, or was kept from it (`RowOK`). For the limiter
  (`LogOK`): the stamps that were pruned are of grants a window back, less the
  lag between the clock and the mutex, though stamps are stored out of order.
- **`Node_proofs`, the talk's screen.** `InkAlwaysStaysInPane`, for a terminal of
  any size, any number of peers and texts of any length; what is claimed of panes that do
  not fit is in section 4. `Session.Size` yields
  no terminal without columns (`ScreenAssumption`). `ScreenInv` is about all panes
  at once, since a new peer makes every pane shorter.
- **`Node_proofs`, talks between nodes.** `NeverAnEcho`, for any number of
  sessions and dials and any capacity, whatever full channels drop. `DialsOK`
  says where each member stands in a room and on behalf of which dial. With
  it the two parts of `TalkInv` say what may be heard and carried: at a stand-in
  only what was typed at its own node (`EarsOK`), in a connection only what was
  typed on the other side (`LinesOK`). That two stand-ins of a node do not hear each
  other is `OneVoice`: if nobody has dialled from both sides, they share a
  session id.
- **`Node_proofs`, relays.** `NobodyIsLeftTalking`, for any number of sessions
  and dials, both users dialling included: a relay is left at rest only with
  somebody to talk to or to wait for, or because another dial's relay has taken its
  invitation (`RobbedStay`). It assumes that no running relay's channel
  is ever full (`[]Roomy`), for any capacity, and cannot do without (section 4).
  `PostsOK` says why a relay runs (`Attended`): its dialler is in its room, the invitation is there, somebody answers or has come, or a leave event
  waits in its channel. That those who meet are in one room object is `SeatsOK`:
  a node's registry holds the room of every member it has. Only a departure takes the
  company away, and then the event is in the channel (`Gone`); a relay that
  takes the event runs no longer.

Only model-checked: all liveness (`HangUpReaches`, `EndedFreesBoth`,
`HangUpReturns`, `BrokerIsReleased`, `CatchesUp`, the liveness part of the
refinements), which the prover cannot do; and `CountsAsPublished`, numbers of moves
in given positions, which TLC evaluates. What the
engine's recursive parts compute for every position is beyond the prover as
well, which has no induction over data. Bounds are in section 4.

## 6. What is not modelled

The components marked `not_modelled` in `PROJECT.json`, each with its reason:
ASSP's framing and handshake (its users' modules have a connection that is
bounded, ordered and may break at any point), the federation directory, the
codecs, the browser's call client, the reading commands, mail submission, configuration,
validation, database set-up, the web page and deployment. Terminal drawing
beyond the talk's panes, line editing and the wording of output have no
protocol to check. Within modelled components:

- Local mail counts against the limit and goes to lists (`Community`), and is
  otherwise left out, with its mailbox commands. One recipient's vacation
  records stand for all, since each recipient's are their own.
- News threading, read marks and the policy by which a peer refuses whole
  groups do not change what is pulled when; a refused article is one the peer
  is not meant to have. Statements have distinct times: a batch that ends
  between two rows of the same microsecond (`newsfed.go:55`) is not modelled.
- The parameters of a call, its codecs and the source ids that a relay checks
  decide which packets pass, not who ends when. A media socket that finds its
  user's other one already in the room leaves again and is not modelled.
- The rate limiters may refuse at any time wherever they are asked, but for
  the signups', which is `Signup`'s.
- Who is idle, and for how long, is display. Of the audit log, bans and
  verdicts are kept; nothing depends on the entries of walls and lists.
- `ParseFEN`, `RepetitionKey` and the full-move number; threefold repetition is
  one of `ChessGame`'s drawing moves. The room that nudges a chess opponent
  carries hints only. Leaderboards are queries.
- The random chart of the trade universe (`buildTradeWarps`) is a constant.

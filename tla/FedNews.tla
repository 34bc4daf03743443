------------------------------ MODULE FedNews ------------------------------
(***************************************************************************)
(* How the articles of one node reach a peer: posting, moderating and      *)
(* cancelling on the origin (shell/cmd_news.go, db/news.go, community.go), *)
(* the push of every change, and the peer's catch-up syncs behind its      *)
(* high-water mark (server/fedsync.go, federation/sync.go, db/newsfed.go). *)
(*                                                                         *)
(* updated_at is the NOW() of the statement that wrote the row: the time   *)
(* the statement began.  Two sessions' statements may overlap, so a row    *)
(* can become visible, or be written again, with an older time than a row  *)
(* seen before.  Every statement has a time of its own.                    *)
(*                                                                         *)
(* A push may land late or, when the peer is unreachable or refuses it for *)
(* its rate limit, never: then it just stays where it is.                  *)
(* Two syncs may run at once: the worker's and the one `node add` starts.  *)
(* Threading, and articles in groups the peer does not take, are left out. *)
(***************************************************************************)
EXTENDS Naturals, FiniteSets

CONSTANTS Articles,
          Moderated,   \* those posted by users into moderated groups
          Disliked,    \* those the peer's admins may cancel
          Syncs,       \* SyncNews calls that may run at once
          Hourly,      \* the one the worker makes
          BatchLimit,  \* federation.NewsBatchLimit
          Writers,     \* bound: statements under way at the origin
          MaxTime,     \* bound: statements in all
          MaxBreaks    \* bound: broken syncs, failed inserts, restarts

ASSUME SyncsAssumption == Hourly \in Syncs
ASSUME BatchAssumption == BatchLimit \in Nat \ {0}
ASSUME ArticlesAssumption == IsFiniteSet(Articles)
ASSUME BoundsAssumption == MaxTime \in Nat /\ MaxBreaks \in Nat

VARIABLES
    clock, writing,                      \* origin: time; statements under way
    posted, approved, cancelled,         \* origin: table articles
    updated,                             \* its column updated_at
    pushing,                             \* pushes that have not read the row
    wire,                                \* NEWS_ARTICLE requests under way
    retracting,                          \* NEWS_CANCEL requests under way
    held, hidden,                        \* peer: its copies; those cancelled
    local,                               \* copies its own admins cancelled
    mark,                                \* news_sync_state.last_synced_at
    pc, reached, batch, more,            \* of each sync
    breaks,
    late        \* articles a change of which became visible behind a pull's
                \* back, came to nothing in a failed insert, or was undone
                \* by an older state that arrived after it

origin == <<clock, writing, posted, approved, cancelled, updated>>
pushes == <<pushing, wire, retracting>>
copies == <<held, hidden, local>>
sync   == <<pc, reached, batch, more>>
vars   == <<origin, pushes, copies, mark, sync, breaks, late>>

Kinds == {"post", "approve", "reject", "cancel"}
Times == 0 .. MaxTime
Wires == [art : Articles, cancelled : BOOLEAN]
Rows  == [art : Articles, cancelled : BOOLEAN, updated : Times]

TypeOK ==
    /\ clock \in Times
    /\ writing \subseteq [art : Articles, kind : Kinds, time : Times]
    /\ approved \subseteq posted /\ cancelled \subseteq posted
    /\ posted \subseteq Articles
    /\ updated \in [Articles -> Times]
    /\ pushing \subseteq approved /\ wire \subseteq Wires
    /\ retracting \subseteq cancelled
    /\ held \subseteq approved /\ hidden \subseteq held /\ local \subseteq held
    /\ mark \in Times
    /\ pc \in [Syncs -> {"idle", "pull", "apply", "save"}]
    /\ reached \in [Syncs -> Times]
    /\ batch \in [Syncs -> SUBSET Rows]
    /\ more \in [Syncs -> BOOLEAN]
    /\ breaks \in 0 .. MaxBreaks
    /\ late \subseteq approved

Init ==
    /\ clock = 0 /\ writing = {}
    /\ posted = {} /\ approved = {} /\ cancelled = {}
    /\ updated = [a \in Articles |-> 0]
    /\ pushing = {} /\ wire = {} /\ retracting = {}
    /\ held = {} /\ hidden = {} /\ local = {} /\ mark = 0
    /\ pc = [s \in Syncs |-> "idle"] /\ reached = [s \in Syncs |-> 0]
    /\ batch = [s \in Syncs |-> {}] /\ more = [s \in Syncs |-> FALSE]
    /\ breaks = 0 /\ late = {}

\* The times pulls have covered, or will when their batches are applied ...
Covered ==
    {mark} \cup {reached[s] : s \in Syncs} \cup UNION {{r.updated : r \in batch[s]} : s \in Syncs}

\* ... which no later pull will ask for again.
Behind(t) == \E u \in Covered : t <= u

-----------------------------------------------------------------------------
\* The origin's sessions

\* What a session may set out to write: it has listed the article before
\* (the queue and the article list are read once and may be stale).
May(a, kind) ==
    CASE kind = "post"                  -> a \notin posted
      [] kind \in {"approve", "reject"} -> a \in posted \cap Moderated
      [] kind = "cancel"                -> a \in approved

\* PostArticle, ReviewArticle or CancelArticle begins: NOW() is taken.
Begin(a, kind) ==
    /\ clock < MaxTime /\ Cardinality(writing) < Writers
    /\ May(a, kind)
    /\ kind = "post" => \A w \in writing : w.art # a
    /\ clock' = clock + 1
    /\ writing' = writing \cup {[art |-> a, kind |-> kind, time |-> clock + 1]}
    /\ UNCHANGED <<posted, approved, cancelled, updated, pushes, copies, mark, sync, breaks, late>>

\* ... and commits.  The WHERE clause of a review is evaluated now.
Effective(w) == w.kind \in {"approve", "reject"} => w.art \notin approved

\* The change is visible, but behind the back of pulls that went further.
Overtaken(w) == Behind(w.time)

Commit(w) ==
    LET a    == w.art
        live == approved' \ approved
    IN  /\ writing' = writing \ {w}
        /\ IF Effective(w)
           THEN /\ posted' = posted \cup {a}
                /\ approved' = IF w.kind = "approve" \/ (w.kind = "post" /\ a \notin Moderated)
                               THEN approved \cup {a} ELSE approved
                /\ cancelled' = IF w.kind \in {"reject", "cancel"}
                                THEN cancelled \cup {a} ELSE cancelled
                /\ updated' = [updated EXCEPT ![a] = w.time]
                /\ pushing' = pushing \cup live
                /\ retracting' = IF w.kind = "cancel" THEN retracting \cup {a} ELSE retracting
                /\ late' = IF Overtaken(w) /\ a \in approved' THEN late \cup {a} ELSE late
           ELSE UNCHANGED <<posted, approved, cancelled, updated, pushing, retracting, late>>
        /\ UNCHANGED <<clock, wire, copies, mark, sync, breaks>>

-----------------------------------------------------------------------------
\* Pushes

\* UpsertFederatedArticle: a copy that exists already takes the sender's flag.
Upsert(a, c) ==
    /\ held' = held \cup {a}
    /\ hidden' = IF c THEN hidden \cup {a} ELSE hidden \ {a}
    /\ UNCHANGED local

\* The flag is older than what a pull has covered.
Stale(a, c) == ~c /\ a \in cancelled /\ Behind(updated[a])

\* pushArticle: GetArticle, ...
PushReads(a) ==
    /\ a \in pushing
    /\ pushing' = pushing \ {a}
    /\ wire' = wire \cup {[art |-> a, cancelled |-> a \in cancelled]}
    /\ UNCHANGED <<origin, retracting, copies, mark, sync, breaks, late>>

\* ... then a dial, and handleNewsArticle at the peer.
PushLands(m) ==
    /\ wire' = wire \ {m}
    /\ Upsert(m.art, m.cancelled)
    /\ late' = IF Stale(m.art, m.cancelled) THEN late \cup {m.art} ELSE late
    /\ UNCHANGED <<origin, pushing, retracting, mark, sync, breaks>>

\* PushCancel and CancelFederatedArticle, which updates a row if there is one.
RetractLands(a) ==
    /\ a \in retracting
    /\ retracting' = retracting \ {a}
    /\ hidden' = hidden \cup ({a} \cap held)
    /\ UNCHANGED <<origin, pushing, wire, held, local, mark, sync, breaks, late>>

-----------------------------------------------------------------------------
\* The peer: its admins, and SyncNews

CancelHere(a) ==
    /\ a \in Disliked \cap (held \ hidden)
    /\ hidden' = hidden \cup {a}
    /\ local' = local \cup {a}
    /\ UNCHANGED <<origin, pushes, held, mark, sync, breaks, late>>

Step(s, from, to) == pc[s] = from /\ pc' = [pc EXCEPT ![s] = to]

\* GetNewsSyncMark, and the connection of PullNewsSince.
SyncStarts(s) ==
    /\ Step(s, "idle", "pull")
    /\ reached' = [reached EXCEPT ![s] = mark]
    /\ UNCHANGED <<origin, pushes, copies, mark, batch, more, breaks, late>>

Row(a) == [art |-> a, cancelled |-> a \in cancelled, updated |-> updated[a]]

\* Mutant: the time reached counts as not yet seen.
SinceInclusive(t) == {Row(a) : a \in {b \in approved : updated[b] >= t}}

\* LocalArticlesSince: the rows written after the time reached.
Since(t) == {Row(a) : a \in {b \in approved : updated[b] > t}}

\* Mutant: the answer is not ordered.
Newest(n, rows) == {r \in rows : Cardinality({q \in rows : q.updated > r.updated}) < n}

\* ... of which it returns the oldest.
Oldest(n, rows) == {r \in rows : Cardinality({q \in rows : q.updated < r.updated}) < n}

Pull(s) ==
    /\ Step(s, "pull", "apply")
    /\ batch' = [batch EXCEPT ![s] = Oldest(BatchLimit, Since(reached[s]))]
    /\ more' = [more EXCEPT ![s] = Cardinality(batch'[s]) = BatchLimit]
    /\ UNCHANGED <<origin, pushes, copies, mark, reached, breaks, late>>

\* One article is applied, in the order of the answer, and the mark follows.
Apply(s, r) ==
    /\ pc[s] = "apply"
    /\ r \in Oldest(1, batch[s])
    /\ Upsert(r.art, r.cancelled)
    /\ batch' = [batch EXCEPT ![s] = @ \ {r}]
    /\ reached' = [reached EXCEPT ![s] = IF r.updated > @ THEN r.updated ELSE @]
    /\ late' = IF Stale(r.art, r.cancelled) THEN late \cup {r.art} ELSE late
    /\ UNCHANGED <<origin, pushes, mark, pc, more, breaks>>

\* The insert fails.  SyncNews drops the error, so the mark moves on.
ApplyFails(s, r) ==
    /\ pc[s] = "apply" /\ breaks < MaxBreaks
    /\ r \in Oldest(1, batch[s])
    /\ batch' = [batch EXCEPT ![s] = @ \ {r}]
    /\ reached' = [reached EXCEPT ![s] = IF r.updated > @ THEN r.updated ELSE @]
    /\ late' = late \cup {r.art}
    /\ breaks' = breaks + 1
    /\ UNCHANGED <<origin, pushes, copies, mark, pc, more>>

NextBatch(s) ==
    /\ batch[s] = {}
    /\ Step(s, "apply", IF more[s] THEN "pull" ELSE "save")
    /\ more' = [more EXCEPT ![s] = FALSE]
    /\ UNCHANGED <<origin, pushes, copies, mark, reached, batch, breaks, late>>

\* The connection breaks, or the origin cannot read its table and answers
\* with nothing: what was applied counts.
SyncBreaks(s) ==
    /\ breaks < MaxBreaks
    /\ Step(s, "pull", "save")
    /\ breaks' = breaks + 1
    /\ UNCHANGED <<origin, pushes, copies, mark, reached, batch, more, late>>

\* SetNewsSyncMark.
SyncSaves(s) ==
    /\ Step(s, "save", "idle")
    /\ mark' = IF reached[s] > mark THEN reached[s] ELSE mark
    /\ reached' = [reached EXCEPT ![s] = 0]
    /\ UNCHANGED <<origin, pushes, copies, batch, more, breaks, late>>

\* The peer's node stops and starts: its syncs are gone, its tables are not.
Restart ==
    /\ breaks < MaxBreaks
    /\ breaks' = breaks + 1
    /\ pc' = [s \in Syncs |-> "idle"] /\ reached' = [s \in Syncs |-> 0]
    /\ batch' = [s \in Syncs |-> {}] /\ more' = [s \in Syncs |-> FALSE]
    /\ UNCHANGED <<origin, pushes, copies, mark, late>>

Syncing(s) ==
    \/ SyncStarts(s) \/ Pull(s) \/ NextBatch(s) \/ SyncSaves(s)
    \/ \E r \in batch[s] : Apply(s, r)

-----------------------------------------------------------------------------
Next ==
    \/ \E a \in Articles : \/ \E kind \in Kinds : Begin(a, kind)
                           \/ PushReads(a) \/ RetractLands(a)
                           \/ CancelHere(a)
    \/ \E w \in writing : Commit(w)
    \/ \E m \in wire : PushLands(m)
    \/ \E s \in Syncs : Syncing(s) \/ SyncBreaks(s) \/ \E r \in batch[s] : ApplyFails(s, r)
    \/ Restart

Spec == Init /\ [][Next]_vars

\* The worker's hourly sync, and a peer that answers it.
FairSpec == Spec /\ WF_vars(Syncing(Hourly))

-----------------------------------------------------------------------------
\* Properties

\* The peer's copy shows the article's state, up to what its admins hide.
Shown(a) == a \in held /\ (a \in cancelled => a \in hidden)

\* The mark never passes a change the peer has not got, whatever pushes are
\* lost and wherever a sync breaks (fedsync.go:230-231, a peer that misses a
\* push catches up on its next sync) ... unless the change is late.
NothingPassedOver ==
    \A a \in approved \ late :
        \/ Shown(a)
        \/ updated[a] > mark /\ \A s \in Syncs : updated[a] > reached[s]

\* Again and again, every article that is not late is there with its cancel:
\* what a push missed, the hourly sync brings.
CatchesUp == \A a \in Articles : []<>(a \in approved => Shown(a) \/ a \in late)

\* cmd_news.go:225-226, DESIGN.md 8.4: an article cancelled by a local admin
\* stays cancelled here.
LocalCancelStays == local \subseteq hidden

=============================================================================

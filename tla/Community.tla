----------------------------- MODULE Community ------------------------------
(***************************************************************************)
(* What users and admins share: mailing lists (internal/shell/cmd_lists.go *)
(* and composeMail) and the pool of fortunes                               *)
(* (internal/shell/cmd_fortune.go), over internal/db/community.go.         *)
(*                                                                         *)
(* Every statement on the database is a step; a session types between them *)
(* or waits, and others go on.  New users come from Signup, which knows    *)
(* nothing of lists.  Of the audit log, the verdicts are kept.              *)
(***************************************************************************)
EXTENDS Naturals, FiniteSets

CONSTANTS
    Seats,          \* sessions
    Sitter,         \* Sitter[s] : the user of s
    Chiefs,         \* users with the admin flag
    ListNames,      \* names that a list, or a newcomer, may take
    Fortunes,       \* fortunes ever submitted
    DailyLimit,     \* fortunes a user may submit in a day (5 in the code)
    MaxLists,       \* bound: lists ever made
    Agendas,        \* bound: what the sessions of a run are there for
    NoList,         \* a name without a list
    Unsent,         \* a fortune nobody has submitted
    Idle            \* a session at its prompt

VARIABLES
    lists,          \* mailing_lists: name -> id and admin_only_post
    member,         \* list_members
    newcomers,      \* names among ListNames that belong to a user
    fortune,        \* fortunes: who added it, and its status
    doing,          \* the command a session is in the middle of
    listsMade,      \* lists made so far
    verdicts,       \* history: what the audit log says of a fortune
    moved,          \* history: sessions whose list has changed since they looked it up
    late,           \* history: users whose name was a list's, or being made one,
                    \* or passed for free when it was looked up
    uncounted,      \* history: fortunes submitted after a count that failed
    agenda          \* the run's member of Agendas

commVars == <<lists, member, newcomers, fortune, doing, listsMade, verdicts, moved, late, uncounted, agenda>>

Sitters == {Sitter[s] : s \in Seats}
FortuneRow == [by : Sitters, status : {"pending", "approved", "rejected"}]
ListRow == [id : Nat, adminOnly : BOOLEAN]

ASSUME CommAssumption ==
    /\ IsFiniteSet(Seats) /\ DailyLimit \in Nat
    /\ Unsent \notin FortuneRow /\ NoList \notin ListRow

Chief(s) == Sitter[s] \in Chiefs
Turn(s, matter) == doing[s] = Idle /\ matter \in agenda[s]
Busy(s, op) == doing[s] # Idle /\ doing[s].op = op
TakeUp(s, what) == doing' = [doing EXCEPT ![s] = what]
Rest(s) == TakeUp(s, Idle)
Listed(id) == \E n \in ListNames : lists[n] # NoList /\ lists[n].id = id
MembersOf(id) == {u \in Sitters : <<id, u>> \in member}

-----------------------------------------------------------------------------
\* Faulty variants, each told from the code by a property of the run

\* The verdict does not ask whether there has been one.
AwaitsAnyStatus(f) == fortune[f] # Unsent

-----------------------------------------------------------------------------
\* Lists

\* listsCreate looks for a user of that name, then inserts; a look-up that fails
\* passes for a free name.  Signup never looks for a list.
CheckListName(s, n) ==
    /\ Turn(s, "create") /\ Chief(s)
    /\ late' = late \cup ({n} \cap newcomers)
    /\ TakeUp(s, [op |-> "create", name |-> n])
    /\ UNCHANGED <<lists, member, newcomers, fortune, listsMade, verdicts, moved, uncounted, agenda>>

\* Here and below, a statement that fails changes nothing, and the session is
\* back at its prompt.
CreateMailingList(s) ==
    /\ Busy(s, "create") /\ listsMade < MaxLists
    /\ LET n == doing[s].name
       IN \/ /\ lists[n] = NoList
             /\ lists' = [lists EXCEPT ![n] = [id |-> listsMade + 1, adminOnly |-> FALSE]]
             /\ listsMade' = listsMade + 1
          \/ UNCHANGED <<lists, listsMade>>
    /\ Rest(s)
    /\ UNCHANGED <<member, newcomers, fortune, verdicts, moved, late, uncounted, agenda>>

\* The sessions that have looked list id up.
Holders(id) == {s \in Seats : doing[s] # Idle /\ doing[s].op \in {"members", "send"} /\ doing[s].id = id}

\* DeleteMailingList; the members go with it (ON DELETE CASCADE).
RemoveList(s, n) ==
    /\ Turn(s, "remove") /\ Chief(s) /\ lists[n] # NoList
    /\ lists' = [lists EXCEPT ![n] = NoList]
    /\ member' = {m \in member : m[1] # lists[n].id}
    /\ moved' = moved \cup Holders(lists[n].id)
    /\ UNCHANGED <<newcomers, fortune, doing, listsMade, verdicts, late, uncounted, agenda>>

FlagList(s, n, adminOnly) ==
    /\ Turn(s, "flag") /\ Chief(s) /\ lists[n] # NoList
    /\ lists' = [lists EXCEPT ![n].adminOnly = adminOnly]
    /\ moved' = moved \cup Holders(lists[n].id)
    /\ UNCHANGED <<member, newcomers, fortune, doing, listsMade, verdicts, late, uncounted, agenda>>

\* setSubscription: the list is looked up by name, the row keyed by its id.
LookUpList(s, n, join) ==
    /\ Turn(s, "join") /\ lists[n] # NoList
    /\ TakeUp(s, [op |-> "join", id |-> lists[n].id, join |-> join])
    /\ UNCHANGED <<lists, member, newcomers, fortune, listsMade, verdicts, moved, late, uncounted, agenda>>

\* An insert for a list that is gone fails on its foreign key.
SetSubscription(s) ==
    /\ Busy(s, "join")
    /\ LET m == <<doing[s].id, Sitter[s]>>
       IN \/ ~doing[s].join /\ member' = member \ {m}
          \/ doing[s].join /\ Listed(m[1]) /\ member' = member \cup {m}
          \/ UNCHANGED member
    /\ moved' = moved \cup Holders(doing[s].id)
    /\ Rest(s)
    /\ UNCHANGED <<lists, newcomers, fortune, listsMade, verdicts, late, uncounted, agenda>>

MayPost(s, adminOnly, subscribed) == Chief(s) \/ (subscribed /\ ~adminOnly)

\* composeMail finds a list before a user of that name, and composeListMail
\* judges the poster by what it found.
MailToList(s, n) ==
    /\ Turn(s, "post") /\ lists[n] # NoList
    /\ MayPost(s, lists[n].adminOnly, <<lists[n].id, Sitter[s]>> \in member)
    /\ TakeUp(s, [op |-> "members", id |-> lists[n].id])
    /\ moved' = moved \ {s}
    /\ UNCHANGED <<lists, member, newcomers, fortune, listsMade, verdicts, late, uncounted, agenda>>

ListMemberIDs(s) ==
    /\ Busy(s, "members")
    /\ LET to == MembersOf(doing[s].id)
       IN \/ to # {} /\ TakeUp(s, [op |-> "send", id |-> doing[s].id, to |-> to])
          \/ Rest(s)
    /\ UNCHANGED <<lists, member, newcomers, fortune, listsMade, verdicts, moved, late, uncounted, agenda>>

\* The text is typed and confirmed, then one message stored for each; or not.
SendListMail(s) ==
    /\ Busy(s, "send")
    /\ \/ \E u \in doing[s].to :
             IF doing[s].to = {u} THEN Rest(s) ELSE TakeUp(s, [doing[s] EXCEPT !.to = @ \ {u}])
       \/ Rest(s)
    /\ UNCHANGED <<lists, member, newcomers, fortune, listsMade, verdicts, moved, late, uncounted, agenda>>

\* Signup's ConfirmPendingAccount asks only for a user of that name.
NewUser(n) ==
    /\ n \notin newcomers
    /\ newcomers' = newcomers \cup {n}
    /\ late' = IF lists[n] # NoList \/ \E s \in Seats : Busy(s, "create") /\ doing[s].name = n
               THEN late \cup {n} ELSE late
    /\ UNCHANGED <<lists, member, fortune, doing, listsMade, verdicts, moved, uncounted, agenda>>

-----------------------------------------------------------------------------
\* Fortunes

AddedBy(u) == {f \in Fortunes : fortune[f] # Unsent /\ fortune[f].by = u}

\* fortuneSubmit counts the day's submissions before the text is typed; a count
\* that fails reads as none.
CountFortunes(s) ==
    /\ Turn(s, "submit")
    /\ \E counted \in BOOLEAN :
          /\ Chief(s) \/ ~counted \/ Cardinality(AddedBy(Sitter[s])) < DailyLimit
          /\ TakeUp(s, [op |-> "submit", counted |-> counted])
    /\ UNCHANGED <<lists, member, newcomers, fortune, listsMade, verdicts, moved, late, uncounted, agenda>>

SubmitFortune(s) ==
    /\ Busy(s, "submit")
    /\ \/ \E f \in Fortunes :
             /\ fortune[f] = Unsent
             /\ fortune' = [fortune EXCEPT ![f] = [by |-> Sitter[s], status |-> "pending"]]
             /\ uncounted' = IF doing[s].counted THEN uncounted ELSE uncounted \cup {f}
       \/ UNCHANGED <<fortune, uncounted>>              \* no text, or too long a one
    /\ Rest(s)
    /\ UNCHANGED <<lists, member, newcomers, listsMade, verdicts, moved, late, agenda>>

Awaits(f) == fortune[f] # Unsent /\ fortune[f].status = "pending"

\* fortuneReview reads the queue once and asks about one after the other.
PendingFortunes(s) ==
    /\ Turn(s, "review") /\ Chief(s)
    /\ {f \in Fortunes : Awaits(f)} # {}
    /\ TakeUp(s, [op |-> "review", queue |-> {f \in Fortunes : Awaits(f)}])
    /\ UNCHANGED <<lists, member, newcomers, fortune, listsMade, verdicts, moved, late, uncounted, agenda>>

\* ReviewFortune changes the row if it is still pending; only then is the
\* verdict logged, if the log takes it, and the submitter told.
ReviewFortune(s, f, approve) ==
    /\ Busy(s, "review") /\ f \in doing[s].queue
    /\ LET word == IF approve THEN "approved" ELSE "rejected"
       IN \/ /\ Awaits(f)
             /\ fortune' = [fortune EXCEPT ![f].status = word]
             /\ \/ verdicts' = verdicts \cup {<<f, word, Sitter[s]>>}
                \/ UNCHANGED verdicts
          \/ UNCHANGED <<fortune, verdicts>>
    /\ TakeUp(s, [doing[s] EXCEPT !.queue = @ \ {f}])
    /\ UNCHANGED <<lists, member, newcomers, listsMade, moved, late, uncounted, agenda>>

\* The rest is skipped.
EndReview(s) ==
    /\ Busy(s, "review")
    /\ Rest(s)
    /\ UNCHANGED <<lists, member, newcomers, fortune, listsMade, verdicts, moved, late, uncounted, agenda>>

-----------------------------------------------------------------------------

CommInit ==
    /\ lists = [n \in ListNames |-> NoList]
    /\ member = {} /\ newcomers = {} /\ verdicts = {} /\ moved = {} /\ late = {} /\ uncounted = {}
    /\ fortune = [f \in Fortunes |-> Unsent]
    /\ doing = [s \in Seats |-> Idle]
    /\ listsMade = 0
    /\ agenda \in Agendas

CommNext ==
    \/ \E n \in ListNames : NewUser(n)
    \/ \E s \in Seats :
          \/ \E n \in ListNames : CheckListName(s, n) \/ RemoveList(s, n) \/ MailToList(s, n)
          \/ \E n \in ListNames, b \in BOOLEAN : FlagList(s, n, b) \/ LookUpList(s, n, b)
          \/ CreateMailingList(s) \/ SetSubscription(s) \/ ListMemberIDs(s) \/ SendListMail(s)
          \/ CountFortunes(s) \/ SubmitFortune(s) \/ PendingFortunes(s) \/ EndReview(s)
          \/ \E f \in Fortunes, b \in BOOLEAN : ReviewFortune(s, f, b)

CommSpec == CommInit /\ [][CommNext]_commVars

-----------------------------------------------------------------------------
\* Properties

\* A list and a user share a name only if the user came to it while the list
\* was there or being made (db/signup.go:35 asks for users only; the column's
\* comment in migration 009 promises that code guards the shared namespace), or
\* if an admin's look-up failed (cmd_lists.go:81 takes any error for "no user").
NamesAreApart == \A n \in newcomers : lists[n] # NoList => n \in late

\* While nobody has changed the list since the poster looked it up, a message
\* goes to members only, and comes from one who may post.
PostIsFair ==
    \A s \in Seats \ moved : Busy(s, "send") =>
        /\ doing[s].to \subseteq MembersOf(doing[s].id)
        /\ \E n \in ListNames : /\ lists[n] # NoList /\ lists[n].id = doing[s].id
                                /\ MayPost(s, lists[n].adminOnly, <<doing[s].id, Sitter[s]>> \in member)

\* However many admins have the same queue before them, a fortune gets one
\* verdict, and the log and the pool agree about it.
OneVerdict ==
    \A f \in Fortunes :
        /\ \A v, w \in verdicts : v[1] = f /\ w[1] = f => v = w
        /\ \A v \in verdicts : v[1] = f => fortune[f].status = v[2]

CountedBy(u) == AddedBy(u) \ uncounted

\* The daily limit is checked before the text is typed (cmd_fortune.go:45): where
\* the count succeeds, a user gets round it by no more than the sessions he has
\* beside the first.
SubmissionsAreFew ==
    \A u \in Sitters \ Chiefs :
        Cardinality(CountedBy(u)) <= DailyLimit + Cardinality({s \in Seats : Sitter[s] = u}) - 1

\* What a session has read and goes by later leads to no more than this.
CommunityIsOrderly == NamesAreApart /\ PostIsFair /\ OneVerdict /\ SubmissionsAreFew
=============================================================================
